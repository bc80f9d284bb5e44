--------------------------- MODULE WorkflowRun_proofs ---------------------------
(***************************************************************************)
(* Proofs about the compiler and the run of what it makes, for every       *)
(* directory of files, every depth of includes and every set of outcomes.  *)
(***************************************************************************)
EXTENDS WorkflowRun, SequenceTheorems, FiniteSetTheorems, WellFoundedInduction, TLAPS

(* Where includes stand, and the names that come of it.                    *)
Strings == STRING
Places == Seq(Strings)
Words == Strings \cup {"finally"}
Names == Seq(Words)
NodeType ==
  [id : Names, local : Words, needs : SUBSET Names, scope : Names,
   hidden : BOOLEAN, always : BOOLEAN, coe : BOOLEAN]
ResultType == [ok : BOOLEAN, nodes : Seq(NodeType)]

(* What a library is, as far as the compiler looks at it.                  *)
IsLibrary(l) ==
  \A f \in DOMAIN l :
    /\ l[f].steps \in Seq(Steps) /\ l[f].finally \in Seq(Steps)
    /\ l[f].outputs \in BOOLEAN

-----------------------------------------------------------------------------
(* Numbers and sequences.                                                  *)

LEMMA LeastElement ==
  ASSUME NEW S \in SUBSET Nat, S # {}
  PROVE  \E x \in S : \A y \in S : x <= y
<1> DEFINE Less == OpToRel(<, Nat)
<1>1. PICK x \in S : \A y \in S : <<y, x>> \notin Less
  <2>1. IsWellFoundedOn(Less, Nat)
    BY NatLessThanWellFounded
  <2> HIDE DEF Less
  <2> QED BY <2>1, WFMin
<1>2. ASSUME NEW y \in S, y < x PROVE FALSE
  <2>1. <<y, x>> \in Less
    BY <1>2 DEF OpToRel
  <2> HIDE DEF Less
  <2> QED BY <1>1, <2>1
<1> QED BY <1>2

(* What holds of zero and of the successor of each number of which it      *)
(* holds, holds of all.                                                    *)
LEMMA Induction ==
  ASSUME NEW S, 0 \in S, \A n \in Nat : n \in S => n + 1 \in S
  PROVE  \A n \in Nat : n \in S
<1> SUFFICES ASSUME Nat \ S # {} PROVE FALSE
  OBVIOUS
<1>1. PICK m \in Nat \ S : \A n \in Nat \ S : m <= n
  <2> DEFINE T == Nat \ S
  <2>1. T \in SUBSET Nat /\ T # {}
    OBVIOUS
  <2> HIDE DEF T
  <2>2. \E x \in T : \A y \in T : x <= y
    BY <2>1, LeastElement
  <2> QED BY <2>2 DEF T
<1>2. m \in Nat /\ m # 0 /\ m - 1 \in Nat
  OBVIOUS
<1>3. m - 1 \in S
  BY <1>1, <1>2
<1>4. (m - 1) + 1 = m
  BY <1>2
<1> QED BY <1>1, <1>2, <1>3, <1>4

(* A prefix, element by element.                                           *)
LEMMA PrefixMeans ==
  ASSUME NEW S, NEW s \in Seq(S), NEW u \in Seq(S)
  PROVE  IsPrefix(s, u) <=> Len(s) <= Len(u) /\ \A i \in 1..Len(s) : s[i] = u[i]
<1>1. CASE Len(s) <= Len(u)
  <2>1. /\ SubSeq(s, 1, Len(s)) = [i \in 1..Len(s) |-> s[i]]
        /\ SubSeq(u, 1, Len(s)) = [i \in 1..Len(s) |-> u[i]]
    BY <1>1
  <2> QED BY <1>1, <2>1 DEF IsPrefix
<1>2. CASE ~(Len(s) <= Len(u))
  BY <1>2 DEF IsPrefix
<1> QED BY <1>1, <1>2

-----------------------------------------------------------------------------
(* The recursion of the compiler.                                          *)

LEMMA ExpandLocal ==
  ASSUME NEW l, NEW g, NEW h, NEW s \in Steps, NEW p \in Places, NEW chain \in Seq(DOMAIN l),
         \A y \in Sites(l) :
           Len(y.chain) = Len(chain) + 1 /\ Len(chain) <= MaxIncludeDepth => g[y] = h[y]
  PROVE  Expand(l, g, s, p, chain) = Expand(l, h, s, p, chain)
<1>1. CASE ~MayInclude(l, s.file, chain)
  BY <1>1 DEF Expand
<1>2. CASE MayInclude(l, s.file, chain)
  <2> DEFINE y == [file |-> s.file, prefix |-> Append(p, s.id),
                   chain |-> Append(chain, s.file)]
  <2>1. s.file \in DOMAIN l /\ Len(chain) <= MaxIncludeDepth
    BY <1>2 DEF MayInclude
  <2>2. y \in Sites(l) /\ Len(y.chain) = Len(chain) + 1
    BY <2>1 DEF Sites, Steps, Places, Strings
  <2>3. g[y] = h[y]
    BY <2>1, <2>2
  <2> HIDE DEF y
  <2>4. \A f : Expand(l, f, s, p, chain) =
          LET child == l[s.file]
              prefix == Append(p, s.id)
              fragment == f[y]
          IN IF ~fragment.body.ok \/ ~fragment.final.ok THEN Refused
             ELSE LET main == Modify(Qualify(fragment.body.nodes, child, prefix), s)
                      whole == main \o Teardown(fragment.final.nodes, prefix, Last(main).id)
                  IN Made(whole \o IF child.outputs
                                   THEN <<Shim(s, prefix, Last(whole).id)>> ELSE <<>>)
    BY <1>2, Zenon DEF Expand, y
  <2> QED BY <2>3, <2>4
<1> QED BY <1>1, <1>2

LEMMA CompileLocal ==
  ASSUME NEW l, NEW g, NEW h, NEW steps \in Seq(Steps), NEW p \in Places,
         NEW chain \in Seq(DOMAIN l),
         \A y \in Sites(l) :
           Len(y.chain) = Len(chain) + 1 /\ Len(chain) <= MaxIncludeDepth => g[y] = h[y]
  PROVE  CompileSteps(l, g, steps, p, chain) = CompileSteps(l, h, steps, p, chain)
<1> DEFINE piece(f) == [i \in DOMAIN steps |->
                          IF steps[i].action = "include"
                          THEN Expand(l, f, steps[i], p, chain)
                          ELSE Made(<<Leaf(steps[i], p)>>)]
<1>1. ASSUME NEW f
      PROVE  CompileSteps(l, f, steps, p, chain) =
               IF \A i \in DOMAIN steps : piece(f)[i].ok
               THEN Made(FlattenSeq([i \in DOMAIN steps |-> piece(f)[i].nodes]))
               ELSE Refused
  BY DEF CompileSteps
<1>2. ASSUME NEW i \in DOMAIN steps
      PROVE  Expand(l, g, steps[i], p, chain) = Expand(l, h, steps[i], p, chain)
  <2>1. steps[i] \in Steps
    OBVIOUS
  <2> QED BY <2>1, ExpandLocal, ZenonT(60)
<1>3. piece(g) = piece(h)
  BY <1>2
<1> HIDE DEF piece
<1> QED BY <1>1, <1>3

(* What the definition of FragmentsOf says of a place.                     *)
Compiling(l, g, x) ==
  [body |-> CompileSteps(l, g, l[x.file].steps, x.prefix, x.chain),
   final |-> CompileSteps(l, g, l[x.file].finally, x.prefix, x.chain)]

LEMMA CompilingLocal ==
  ASSUME NEW l, IsLibrary(l), NEW g, NEW h, NEW x \in Sites(l),
         \A y \in Sites(l) :
           Len(y.chain) = Len(x.chain) + 1 /\ Len(x.chain) <= MaxIncludeDepth => g[y] = h[y]
  PROVE  Compiling(l, g, x) = Compiling(l, h, x)
<1> DEFINE steps == l[x.file].steps
           finally == l[x.file].finally
           p == x.prefix
           chain == x.chain
<1>1. /\ steps \in Seq(Steps) /\ finally \in Seq(Steps)
      /\ p \in Places /\ chain \in Seq(DOMAIN l)
  BY DEF IsLibrary, Sites, Places, Strings
<1>a. \A y \in Sites(l) :
        Len(y.chain) = Len(chain) + 1 /\ Len(chain) <= MaxIncludeDepth => g[y] = h[y]
  OBVIOUS
<1> HIDE DEF steps, finally, p, chain
<1>2. CompileSteps(l, g, steps, p, chain) = CompileSteps(l, h, steps, p, chain)
  BY <1>1, <1>a, CompileLocal, ZenonT(60)
<1>3. CompileSteps(l, g, finally, p, chain) = CompileSteps(l, h, finally, p, chain)
  BY <1>1, <1>a, CompileLocal, ZenonT(60)
<1> QED BY <1>2, <1>3 DEF Compiling, steps, finally, p, chain

(* The places with so many files on the way that n more are too many.      *)
Deep(l, n) == {x \in Sites(l) : Len(x.chain) + n > MaxIncludeDepth}

LEMMA DeepFacts ==
  ASSUME NEW l, NEW n \in Nat
  PROVE  /\ Deep(l, n) \subseteq Deep(l, n + 1)
         /\ \A x \in Deep(l, n + 1), y \in Sites(l) :
              Len(y.chain) = Len(x.chain) + 1 => y \in Deep(l, n)
         /\ Deep(l, MaxIncludeDepth + 1) = Sites(l)
<1>1. \A x \in Sites(l) : Len(x.chain) \in Nat
  BY DEF Sites
<1>2. MaxIncludeDepth \in Nat
  BY DepthAssumption
<1>3. ASSUME NEW x \in Deep(l, n) PROVE x \in Deep(l, n + 1)
  <2> DEFINE a == Len(x.chain)
  <2>1. x \in Sites(l) /\ a + n > MaxIncludeDepth /\ a \in Nat
    BY <1>1 DEF Deep
  <2> HIDE DEF a
  <2>2. a + (n + 1) > MaxIncludeDepth
    BY <1>2, <2>1
  <2> QED BY <2>1, <2>2 DEF Deep, a
<1>4. ASSUME NEW x \in Deep(l, n + 1), NEW y \in Sites(l), Len(y.chain) = Len(x.chain) + 1
      PROVE  y \in Deep(l, n)
  <2>1. x \in Sites(l) /\ Len(x.chain) + (n + 1) > MaxIncludeDepth
    BY DEF Deep
  <2> DEFINE a == Len(x.chain)  b == Len(y.chain)
  <2>2. a \in Nat /\ b \in Nat /\ b = a + 1 /\ a + (n + 1) > MaxIncludeDepth
    BY <1>1, <1>4, <2>1
  <2> HIDE DEF a, b
  <2>3. b + n > MaxIncludeDepth
    BY <1>2, <2>2
  <2> QED BY <2>3 DEF Deep, b
<1>5. ASSUME NEW x \in Sites(l) PROVE x \in Deep(l, MaxIncludeDepth + 1)
  <2> DEFINE a == Len(x.chain)
  <2>1. a \in Nat
    BY <1>1
  <2> HIDE DEF a
  <2>2. a + (MaxIncludeDepth + 1) > MaxIncludeDepth
    BY <1>2, <2>1
  <2> QED BY <2>2 DEF Deep, a
<1>6. Deep(l, MaxIncludeDepth + 1) \subseteq Sites(l)
  BY DEF Deep
<1> QED BY <1>3, <1>4, <1>5, <1>6

LEMMA FragmentsExist ==
  ASSUME NEW l, IsLibrary(l)
  PROVE  \E g : g = [x \in Sites(l) |-> Compiling(l, g, x)]
<1> DEFINE S == {n \in Nat : \E g : g = [x \in Deep(l, n) |-> Compiling(l, g, x)]}
<1>0. \A x \in Sites(l) : Len(x.chain) \in Nat
  BY DEF Sites
<1>1. 0 \in S
  <2> DEFINE g == [x \in Deep(l, 0) |-> Compiling(l, <<>>, x)]
  <2>1. ASSUME NEW x \in Deep(l, 0) PROVE Compiling(l, <<>>, x) = Compiling(l, g, x)
    <3>1. x \in Sites(l) /\ Len(x.chain) > MaxIncludeDepth
      BY <1>0, DepthAssumption DEF Deep
    <3>2. ~(Len(x.chain) <= MaxIncludeDepth)
      BY <1>0, <3>1, DepthAssumption
    <3> HIDE DEF g
    <3> QED BY <3>1, <3>2, CompilingLocal
  <2>2. g = [x \in Deep(l, 0) |-> Compiling(l, g, x)]
    BY <2>1
  <2> HIDE DEF g
  <2> QED BY <2>2
<1>2. ASSUME NEW n \in Nat, n \in S PROVE n + 1 \in S
  <2>1. PICK g : g = [x \in Deep(l, n) |-> Compiling(l, g, x)]
    BY <1>2
  <2> DEFINE h == [x \in Deep(l, n + 1) |-> Compiling(l, g, x)]
  <2>2. ASSUME NEW x \in Deep(l, n) PROVE x \in Deep(l, n + 1) /\ g[x] = h[x]
    <3>1. x \in Deep(l, n + 1)
      BY DeepFacts
    <3>2. g[x] = Compiling(l, g, x)
      BY <2>1
    <3> QED BY <3>1, <3>2
  <2>3. ASSUME NEW x \in Deep(l, n + 1) PROVE Compiling(l, g, x) = Compiling(l, h, x)
    <3>1. x \in Sites(l)
      BY DEF Deep
    <3>2. ASSUME NEW y \in Sites(l), Len(y.chain) = Len(x.chain) + 1
          PROVE  g[y] = h[y]
      <4>1. y \in Deep(l, n)
        BY <3>2, DeepFacts
      <4> QED BY <4>1, <2>2
    <3> HIDE DEF h
    <3> QED BY <3>1, <3>2, CompilingLocal
  <2>4. h = [x \in Deep(l, n + 1) |-> Compiling(l, h, x)]
    BY <2>3
  <2> HIDE DEF h
  <2> QED BY <2>4
<1>3. MaxIncludeDepth + 1 \in S
  <2> HIDE DEF S
  <2>1. \A n \in Nat : n \in S
    BY <1>1, <1>2, Induction
  <2> QED BY <2>1, DepthAssumption
<1>4. Deep(l, MaxIncludeDepth + 1) = Sites(l)
  BY DeepFacts
<1> QED BY <1>3, <1>4

LEMMA FragmentsRecur ==
  ASSUME NEW l, IsLibrary(l), NEW x \in Sites(l)
  PROVE  FragmentsOf(l)[x] = Compiling(l, FragmentsOf(l), x)
<1> DEFINE P(g) == g = [y \in Sites(l) |-> Compiling(l, g, y)]
<1>1. FragmentsOf(l) = CHOOSE g : P(g)
  BY DEF FragmentsOf, Compiling
<1>2. \E g : P(g)
  BY FragmentsExist
<1>3. P(FragmentsOf(l))
  <2> HIDE DEF P
  <2> QED BY <1>1, <1>2
<1> QED BY <1>3

(* What holds of a place if it holds of those with a file more on the way, *)
(* holds of all places.                                                    *)
LEMMA SiteInduction ==
  ASSUME NEW l, NEW S,
         \A x \in Sites(l) :
           (\A y \in Sites(l) :
              Len(y.chain) = Len(x.chain) + 1 /\ Len(x.chain) <= MaxIncludeDepth => y \in S)
           => x \in S
  PROVE  Sites(l) \subseteq S
<1> DEFINE T == {n \in Nat : Deep(l, n) \subseteq S}
<1>1. 0 \in T
  <2>1. ASSUME NEW x \in Deep(l, 0) PROVE x \in S
    <3> DEFINE a == Len(x.chain)
    <3>1. x \in Sites(l) /\ a + 0 > MaxIncludeDepth /\ a \in Nat
      BY DEF Deep, Sites
    <3>2. ~(a <= MaxIncludeDepth)
      <4> HIDE DEF a
      <4> QED BY <3>1, DepthAssumption
    <3> QED BY <3>1, <3>2
  <2> QED BY <2>1
<1>2. ASSUME NEW n \in Nat, n \in T PROVE n + 1 \in T
  <2>1. ASSUME NEW x \in Deep(l, n + 1) PROVE x \in S
    <3>1. x \in Sites(l)
      BY DEF Deep
    <3>2. \A y \in Sites(l) : Len(y.chain) = Len(x.chain) + 1 => y \in S
      BY <1>2, DeepFacts
    <3> QED BY <3>1, <3>2
  <2> QED BY <2>1
<1>3. MaxIncludeDepth + 1 \in T
  <2> HIDE DEF T
  <2>1. \A n \in Nat : n \in T
    BY <1>1, <1>2, Induction
  <2> QED BY <2>1, DepthAssumption
<1> QED BY <1>3, DeepFacts, DepthAssumption

-----------------------------------------------------------------------------
(* Sequences put together.                                                 *)

(* F is the first k of the sequences in order: its i-th element is the     *)
(* pos[i]-th of the at[i]-th of them.                                      *)
Spreads(seqs, k, F, at, pos) ==
  /\ at \in [1..Len(F) -> 1..k] /\ pos \in [1..Len(F) -> Nat]
  /\ \A i \in 1..Len(F) : pos[i] \in 1..Len(seqs[at[i]]) /\ F[i] = seqs[at[i]][pos[i]]
  /\ F # <<>> => pos[1] = 1
  /\ \A i \in 1..Len(F), j \in 1..Len(F) :
       i < j => at[i] < at[j] \/ (at[i] = at[j] /\ pos[i] < pos[j])
  /\ \A i \in 1..Len(F), j \in 1..Len(F) :
       j = i + 1 => (at[i] < at[j] /\ pos[j] = 1) \/ (at[i] = at[j] /\ pos[j] = pos[i] + 1)
  /\ \A p \in 1..k : \A q \in 1..Len(seqs[p]) :
       \E i \in 1..Len(F) : at[i] = p /\ pos[i] = q

LEMMA FlattenRecurs ==
  ASSUME NEW S, NEW seqs \in Seq(Seq(S)), seqs # <<>>
  PROVE  \E flat :
           /\ flat = [i \in 1..Len(seqs) |-> IF i = 1 THEN seqs[i] ELSE flat[i - 1] \o seqs[i]]
           /\ FlattenSeq(seqs) = flat[Len(seqs)]
<1> DEFINE Q(n, g) == g = [i \in 1..n |-> IF i = 1 THEN seqs[i] ELSE g[i - 1] \o seqs[i]]
           T == {n \in Nat : \E g : Q(n, g)}
<1>1. Len(seqs) \in Nat /\ Len(seqs) # 0
  OBVIOUS
<1>2. FlattenSeq(seqs) = (CHOOSE g : Q(Len(seqs), g))[Len(seqs)]
  BY <1>1 DEF FlattenSeq
<1>3. 0 \in T
  <2> DEFINE g == [i \in 1..0 |-> <<>>]
  <2>1. g = [i \in 1..0 |-> IF i = 1 THEN seqs[i] ELSE g[i - 1] \o seqs[i]]
    OBVIOUS
  <2> QED BY <2>1
<1>4. ASSUME NEW n \in Nat, n \in T PROVE n + 1 \in T
  <2>1. PICK g : Q(n, g)
    BY <1>4
  <2> DEFINE h == [i \in 1..(n + 1) |-> IF i = 1 THEN seqs[i] ELSE g[i - 1] \o seqs[i]]
  <2>2. ASSUME NEW i \in 1..n PROVE h[i] = g[i]
    <3>1. i \in 1..(n + 1)
      OBVIOUS
    <3>2. h[i] = IF i = 1 THEN seqs[i] ELSE g[i - 1] \o seqs[i]
      BY <3>1
    <3>3. g[i] = IF i = 1 THEN seqs[i] ELSE g[i - 1] \o seqs[i]
      BY <2>1, Zenon
    <3> QED BY <3>2, <3>3
  <2>3. ASSUME NEW i \in 1..(n + 1), i # 1 PROVE i - 1 \in 1..n /\ h[i - 1] = g[i - 1]
    <3>1. i - 1 \in 1..n
      BY <2>3
    <3> HIDE DEF h
    <3> QED BY <3>1, <2>2
  <2>4. Q(n + 1, h)
    BY <2>3
  <2>5. n + 1 \in Nat
    OBVIOUS
  <2> HIDE DEF h, Q
  <2> QED BY <2>4, <2>5
<1>5. \E g : Q(Len(seqs), g)
  <2> HIDE DEF T
  <2>1. \A n \in Nat : n \in T
    BY <1>3, <1>4, Induction
  <2>2. Len(seqs) \in T
    BY <1>1, <2>1
  <2> HIDE DEF Q
  <2> QED BY <2>2 DEF T
<1>6. Q(Len(seqs), CHOOSE g : Q(Len(seqs), g))
  <2> HIDE DEF Q
  <2> QED BY <1>5
<1> QED BY <1>2, <1>6

LEMMA SpreadsOn ==
  ASSUME NEW S, NEW seqs \in Seq(Seq(S)), NEW k \in Nat, k < Len(seqs),
         NEW F \in Seq(S), NEW at, NEW pos, Spreads(seqs, k, F, at, pos)
  PROVE  /\ F \o seqs[k + 1] \in Seq(S)
         /\ \E at1, pos1 : Spreads(seqs, k + 1, F \o seqs[k + 1], at1, pos1)
<1> DEFINE s == seqs[k + 1]
           G == F \o s
           n == Len(F)
           m == Len(s)
           at1 == [i \in 1..(n + m) |-> IF i <= n THEN at[i] ELSE k + 1]
           pos1 == [i \in 1..(n + m) |-> IF i <= n THEN pos[i] ELSE i - n]
<1>1. s \in Seq(S) /\ n \in Nat /\ m \in Nat /\ k + 1 \in Nat
  OBVIOUS
<1>2. /\ G \in Seq(S) /\ Len(G) = n + m
      /\ \A i \in 1..n : G[i] = F[i]
      /\ \A i \in (n + 1)..(n + m) : G[i] = s[i - n]
  BY <1>1
<1>3. /\ at \in [1..n -> 1..k] /\ pos \in [1..n -> Nat]
      /\ \A i \in 1..n : pos[i] \in 1..Len(seqs[at[i]]) /\ F[i] = seqs[at[i]][pos[i]]
      /\ F # <<>> => pos[1] = 1
      /\ \A i \in 1..n, j \in 1..n :
           i < j => at[i] < at[j] \/ (at[i] = at[j] /\ pos[i] < pos[j])
      /\ \A i \in 1..n, j \in 1..n :
           j = i + 1 => (at[i] < at[j] /\ pos[j] = 1) \/ (at[i] = at[j] /\ pos[j] = pos[i] + 1)
      /\ \A p \in 1..k : \A q \in 1..Len(seqs[p]) :
           \E i \in 1..n : at[i] = p /\ pos[i] = q
  BY DEF Spreads
<1>4. n = 0 \/ F # <<>>
  OBVIOUS
<1>5. seqs[k + 1] = s /\ Len(seqs[k + 1]) = m
  OBVIOUS
<1> HIDE DEF s, G, n, m
<1>a. ASSUME NEW i \in 1..n
      PROVE  /\ i \in 1..(n + m) /\ at1[i] = at[i] /\ pos1[i] = pos[i]
             /\ at1[i] \in 1..k /\ at1[i] < k + 1 /\ pos1[i] \in Nat
  <2>1. i \in 1..(n + m) /\ i <= n
    BY <1>1
  <2>2. at[i] \in 1..k /\ pos[i] \in Nat
    BY <1>3
  <2> QED BY <2>1, <2>2
<1>b. ASSUME NEW i \in (n + 1)..(n + m)
      PROVE  i \in 1..(n + m) /\ at1[i] = k + 1 /\ pos1[i] = i - n /\ pos1[i] \in 1..m
  <2>1. i \in 1..(n + m) /\ ~(i <= n) /\ i - n \in 1..m
    BY <1>1
  <2> QED BY <2>1
<1>c. \A i \in 1..(n + m) : i \in 1..n \/ i \in (n + 1)..(n + m)
  BY <1>1
<1>d. \A i \in 1..(n + m) : at1[i] \in 1..(k + 1) /\ pos1[i] \in Nat
  <2> HIDE DEF at1, pos1
  <2>1. ASSUME NEW i \in 1..n PROVE at1[i] \in 1..(k + 1) /\ pos1[i] \in Nat
    BY <1>a
  <2>2. ASSUME NEW i \in (n + 1)..(n + m) PROVE at1[i] \in 1..(k + 1) /\ pos1[i] \in Nat
    <3>1. at1[i] = k + 1 /\ pos1[i] \in 1..m
      BY <1>b
    <3>2. k + 1 \in 1..(k + 1)
      OBVIOUS
    <3> QED BY <3>1, <3>2, <1>1
  <2> QED BY <2>1, <2>2, <1>c
<1>6. at1 \in [1..(n + m) -> 1..(k + 1)] /\ pos1 \in [1..(n + m) -> Nat]
  BY <1>d
<1> HIDE DEF at1, pos1
<1>7. ASSUME NEW i \in 1..(n + m)
      PROVE  pos1[i] \in 1..Len(seqs[at1[i]]) /\ G[i] = seqs[at1[i]][pos1[i]]
  <2>1. CASE i \in 1..n
    BY <2>1, <1>2, <1>3, <1>a
  <2>2. CASE i \in (n + 1)..(n + m)
    BY <2>2, <1>2, <1>5, <1>b
  <2> QED BY <2>1, <2>2, <1>c
<1>8. G # <<>> => pos1[1] = 1
  <2>1. CASE n = 0
    <3>1. G # <<>> => m # 0
      BY <1>1, <1>2, <2>1
    <3>2. m # 0 => 1 \in (n + 1)..(n + m)
      BY <1>1, <2>1
    <3> QED BY <3>1, <3>2, <2>1, <1>b
  <2>2. CASE n # 0
    <3>1. 1 \in 1..n /\ F # <<>>
      BY <1>1, <1>4, <2>2
    <3> QED BY <3>1, <1>3, <1>a
  <2> QED BY <2>1, <2>2
<1>9. ASSUME NEW i \in 1..(n + m), NEW j \in 1..(n + m), i < j
      PROVE  at1[i] < at1[j] \/ (at1[i] = at1[j] /\ pos1[i] < pos1[j])
  <2>1. CASE j \in 1..n
    <3>1. i \in 1..n
      BY <1>1, <1>9, <2>1
    <3>2. at[i] < at[j] \/ (at[i] = at[j] /\ pos[i] < pos[j])
      BY <3>1, <2>1, <1>3, <1>9
    <3>3. at1[i] = at[i] /\ pos1[i] = pos[i] /\ at1[j] = at[j] /\ pos1[j] = pos[j]
      BY <3>1, <2>1, <1>a
    <3> QED BY <3>2, <3>3
  <2>2. CASE i \in 1..n /\ j \in (n + 1)..(n + m)
    BY <2>2, <1>1, <1>a, <1>b
  <2>3. CASE i \in (n + 1)..(n + m) /\ j \in (n + 1)..(n + m)
    BY <2>3, <1>1, <1>a, <1>b, <1>9
  <2> QED BY <2>1, <2>2, <2>3, <1>c
<1>10. ASSUME NEW i \in 1..(n + m), NEW j \in 1..(n + m), j = i + 1
       PROVE  \/ at1[i] < at1[j] /\ pos1[j] = 1
              \/ at1[i] = at1[j] /\ pos1[j] = pos1[i] + 1
  <2>1. CASE j \in 1..n
    <3>1. i \in 1..n
      BY <1>1, <1>10, <2>1
    <3>2. (at[i] < at[j] /\ pos[j] = 1) \/ (at[i] = at[j] /\ pos[j] = pos[i] + 1)
      BY <3>1, <2>1, <1>3, <1>10
    <3>3. at1[i] = at[i] /\ pos1[i] = pos[i] /\ at1[j] = at[j] /\ pos1[j] = pos[j]
      BY <3>1, <2>1, <1>a
    <3> QED BY <3>2, <3>3
  <2>2. CASE i \in 1..n /\ j \in (n + 1)..(n + m)
    <3>1. i = n
      BY <2>2, <1>1, <1>10
    <3>2. at1[i] < k + 1 /\ at1[j] = k + 1 /\ pos1[j] = j - n
      BY <2>2, <1>a, <1>b
    <3>3. j - n = 1
      BY <3>1, <1>1, <1>10
    <3> QED BY <3>2, <3>3
  <2>3. CASE i \in (n + 1)..(n + m) /\ j \in (n + 1)..(n + m)
    BY <2>3, <1>1, <1>a, <1>b, <1>10
  <2> QED BY <2>1, <2>2, <2>3, <1>c
<1>11. ASSUME NEW p \in 1..(k + 1), NEW q \in 1..Len(seqs[p])
       PROVE  \E i \in 1..(n + m) : at1[i] = p /\ pos1[i] = q
  <2>1. CASE p \in 1..k
    <3>1. PICK i \in 1..n : at[i] = p /\ pos[i] = q
      BY <1>3, <2>1
    <3> QED BY <3>1, <1>a, <1>b
  <2>2. CASE p = k + 1
    <3>1. q \in 1..m /\ n + q \in (n + 1)..(n + m)
      BY <1>1, <1>5, <2>2
    <3>2. at1[n + q] = k + 1 /\ pos1[n + q] = (n + q) - n /\ n + q \in 1..(n + m)
      BY <3>1, <1>a, <1>b
    <3>3. (n + q) - n = q
      BY <3>1, <1>1
    <3> QED BY <2>2, <3>2, <3>3
  <2> QED BY <2>1, <2>2
<1>12. Spreads(seqs, k + 1, G, at1, pos1)
  BY <1>2, <1>6, <1>7, <1>8, <1>9, <1>10, <1>11 DEF Spreads
<1> QED BY <1>2, <1>12 DEF G, s

LEMMA FlattenSpreads ==
  ASSUME NEW S, NEW seqs \in Seq(Seq(S)), seqs # <<>>
  PROVE  /\ FlattenSeq(seqs) \in Seq(S)
         /\ \E at, pos : Spreads(seqs, Len(seqs), FlattenSeq(seqs), at, pos)
<1>1. PICK flat :
        /\ flat = [i \in 1..Len(seqs) |-> IF i = 1 THEN seqs[i] ELSE flat[i - 1] \o seqs[i]]
        /\ FlattenSeq(seqs) = flat[Len(seqs)]
  BY FlattenRecurs
<1> DEFINE Good(k, F) == F \in Seq(S) /\ \E at, pos : Spreads(seqs, k, F, at, pos)
           T == {k \in Nat : k + 1 \in 1..Len(seqs) => Good(k + 1, flat[k + 1])}
<1>2. Len(seqs) \in Nat /\ Len(seqs) # 0
  OBVIOUS
<1>3. ASSUME NEW k \in 1..Len(seqs)
      PROVE  flat[k] = IF k = 1 THEN seqs[k] ELSE flat[k - 1] \o seqs[k]
  BY <1>1, Zenon
<1>4. 0 \in T
  <2>1. Spreads(seqs, 0, <<>>, <<>>, <<>>)
    BY DEF Spreads
  <2>2. Good(0 + 1, <<>> \o seqs[0 + 1])
    <3>1. <<>> \in Seq(S) /\ 0 \in Nat /\ 0 < Len(seqs)
      BY <1>2
    <3> QED BY <2>1, <3>1, SpreadsOn
  <2>3. 1 \in 1..Len(seqs)
    BY <1>2
  <2>4. seqs[1] \in Seq(S) /\ 0 + 1 = 1 /\ flat[1] = seqs[1]
    BY <1>3, <2>3
  <2>5. <<>> \o seqs[1] = seqs[1]
    BY <2>4
  <2> HIDE DEF Good
  <2>6. Good(0 + 1, flat[0 + 1])
    BY <2>2, <2>4, <2>5
  <2> QED BY <2>6
<1>5. ASSUME NEW k \in Nat, k \in T PROVE k + 1 \in T
  <2> SUFFICES ASSUME (k + 1) + 1 \in 1..Len(seqs)
               PROVE  Good((k + 1) + 1, flat[(k + 1) + 1])
    BY DEF T
  <2>1. k + 1 \in Nat /\ k + 1 < Len(seqs) /\ k + 1 \in 1..Len(seqs) /\ (k + 1) + 1 # 1
        /\ ((k + 1) + 1) - 1 = k + 1
    BY <1>2
  <2>2. Good(k + 1, flat[k + 1])
    BY <1>5, <2>1
  <2>3. flat[(k + 1) + 1] = flat[k + 1] \o seqs[(k + 1) + 1]
    BY <1>3, <2>1
  <2>4. Good((k + 1) + 1, flat[k + 1] \o seqs[(k + 1) + 1])
    BY <2>1, <2>2, SpreadsOn
  <2> HIDE DEF Good
  <2> QED BY <2>3, <2>4
<1>6. \A k \in Nat : k \in T
  <2> HIDE DEF T
  <2> QED BY <1>4, <1>5, Induction
<1>7. Len(seqs) - 1 \in Nat /\ (Len(seqs) - 1) + 1 = Len(seqs) /\ Len(seqs) \in 1..Len(seqs)
  BY <1>2
<1>8. Good(Len(seqs), flat[Len(seqs)])
  <2> HIDE DEF Good
  <2> QED BY <1>6, <1>7
<1> QED BY <1>1, <1>8

-----------------------------------------------------------------------------
(* Prefixes of names.                                                      *)

LEMMA OneMore ==
  ASSUME NEW S, NEW p \in Seq(S), NEW a \in S
  PROVE  /\ Append(p, a) \in Seq(S) /\ Len(p) \in Nat /\ Len(Append(p, a)) = Len(p) + 1
         /\ Append(p, a)[Len(p) + 1] = a
         /\ \A i \in 1..Len(p) : Append(p, a)[i] = p[i]
BY AppendProperties

LEMMA TwoMore ==
  ASSUME NEW S, NEW p \in Seq(S), NEW a \in S, NEW b \in S
  PROVE  LET d == p \o <<a, b>> IN
         /\ d \in Seq(S) /\ Len(p) \in Nat /\ Len(d) = Len(p) + 2
         /\ d[Len(p) + 1] = a /\ d[Len(p) + 2] = b
         /\ \A i \in 1..Len(p) : d[i] = p[i]
<1> DEFINE e == <<a, b>>
           d == p \o e
<1>1. e \in Seq(S) /\ Len(p) \in Nat /\ Len(e) = 2 /\ e[1] = a /\ e[2] = b
  OBVIOUS
<1> HIDE DEF e
<1>2. d \in Seq(S) /\ Len(d) = Len(p) + 2
  <2>1. d \in Seq(S) /\ Len(d) = Len(p) + Len(e)
    BY <1>1, ConcatProperties
  <2> QED BY <1>1, <2>1
<1>3. \A i \in 1..(Len(p) + Len(e)) : d[i] = IF i <= Len(p) THEN p[i] ELSE e[i - Len(p)]
  BY <1>1, ConcatProperties
<1>4. /\ Len(p) + 1 \in 1..(Len(p) + Len(e)) /\ ~(Len(p) + 1 <= Len(p))
      /\ Len(p) + 2 \in 1..(Len(p) + Len(e)) /\ ~(Len(p) + 2 <= Len(p))
      /\ (Len(p) + 1) - Len(p) = 1 /\ (Len(p) + 2) - Len(p) = 2
  BY <1>1
<1>5. d[Len(p) + 1] = a /\ d[Len(p) + 2] = b
  BY <1>1, <1>3, <1>4
<1>6. \A i \in 1..Len(p) : i \in 1..(Len(p) + Len(e)) /\ i <= Len(p)
  BY <1>1
<1> QED BY <1>1, <1>2, <1>3, <1>5, <1>6 DEF e

LEMMA PrefixFacts ==
  ASSUME NEW p \in Names, NEW d \in Names, IsPrefix(p, d)
  PROVE  /\ Len(p) \in Nat /\ Len(d) \in Nat /\ Len(p) <= Len(d)
         /\ \A i \in 1..Len(p) : d[i] = p[i]
         /\ p = <<>> \/ d # <<>>
<1>1. Len(p) \in Nat /\ Len(d) \in Nat
  BY DEF Names
<1>2. Len(p) <= Len(d) /\ \A i \in 1..Len(p) : p[i] = d[i]
  BY PrefixMeans DEF Names
<1>3. p = <<>> \/ d # <<>>
  <2>1. SUFFICES ASSUME d = <<>> PROVE p = <<>>
    OBVIOUS
  <2>2. Len(d) = 0
    BY <2>1
  <2>3. Len(p) = 0
    BY <1>1, <1>2, <2>2
  <2> QED BY <2>3 DEF Names
<1> QED BY <1>1, <1>2, <1>3

LEMMA PrefixSelf ==
  ASSUME NEW p \in Names
  PROVE  IsPrefix(p, p)
BY PrefixMeans DEF Names

LEMMA PrefixTrans ==
  ASSUME NEW p \in Names, NEW q \in Names, NEW d \in Names, IsPrefix(p, q), IsPrefix(q, d)
  PROVE  IsPrefix(p, d)
<1>1. /\ Len(p) <= Len(q) /\ \A i \in 1..Len(p) : q[i] = p[i]
      /\ Len(q) <= Len(d) /\ \A i \in 1..Len(q) : d[i] = q[i]
      /\ Len(p) \in Nat /\ Len(q) \in Nat /\ Len(d) \in Nat
  BY PrefixFacts
<1>2. \A i \in 1..Len(p) : i \in 1..Len(q) /\ p[i] = d[i]
  BY <1>1
<1>3. Len(p) <= Len(d)
  BY <1>1
<1> QED BY <1>2, <1>3, PrefixMeans DEF Names

(* A name one longer: its prefixes, its length, what tells two apart.      *)
LEMMA PrefixOne ==
  ASSUME NEW p \in Names, NEW a \in Words
  PROVE  /\ Append(p, a) \in Names /\ Len(Append(p, a)) = Len(p) + 1
         /\ Append(p, a)[Len(p) + 1] = a /\ Append(p, a) # <<>>
         /\ IsPrefix(p, Append(p, a))
         /\ \A d \in Names : IsPrefix(Append(p, a), d) =>
              IsPrefix(p, d) /\ Len(d) > Len(p) /\ d[Len(p) + 1] = a /\ d # <<>>
<1> DEFINE q == Append(p, a)
<1>1. /\ q \in Names /\ Len(q) = Len(p) + 1 /\ q[Len(p) + 1] = a /\ Len(p) \in Nat
      /\ \A i \in 1..Len(p) : q[i] = p[i]
  BY OneMore DEF Names
<1> HIDE DEF q
<1>2. IsPrefix(p, q)
  <2>1. Len(p) <= Len(q) /\ \A i \in 1..Len(p) : p[i] = q[i]
    BY <1>1
  <2> QED BY <1>1, <2>1, PrefixMeans DEF Names
<1>3. ASSUME NEW d \in Names, IsPrefix(q, d)
      PROVE  IsPrefix(p, d) /\ Len(d) > Len(p) /\ d[Len(p) + 1] = a /\ d # <<>>
  <2>1. /\ Len(q) <= Len(d) /\ Len(d) \in Nat
        /\ \A i \in 1..Len(q) : d[i] = q[i]
    BY <1>1, <1>3, PrefixFacts
  <2>2. Len(p) + 1 \in 1..Len(q) /\ Len(d) > Len(p)
    BY <1>1, <2>1
  <2>3. d[Len(p) + 1] = a
    BY <1>1, <2>1, <2>2
  <2>4. IsPrefix(p, d)
    BY <1>1, <1>2, <1>3, PrefixTrans
  <2>5. d # <<>>
    <3>1. Len(d) # 0
      BY <1>1, <2>2
    <3> QED BY <3>1
  <2> QED BY <2>2, <2>3, <2>4, <2>5
<1>4. q # <<>>
  <2>1. Len(q) # 0
    BY <1>1
  <2> QED BY <2>1
<1> QED BY <1>1, <1>2, <1>3, <1>4 DEF q

LEMMA PrefixTwo ==
  ASSUME NEW p \in Names, NEW a \in Words, NEW b \in Words
  PROVE  /\ p \o <<a, b>> \in Names /\ IsPrefix(p, p \o <<a, b>>)
         /\ Len(p \o <<a, b>>) = Len(p) + 2
         /\ (p \o <<a, b>>)[Len(p) + 1] = a /\ (p \o <<a, b>>)[Len(p) + 2] = b
<1> DEFINE d == p \o <<a, b>>
<1>1. /\ d \in Names /\ Len(p) \in Nat /\ Len(d) = Len(p) + 2
      /\ d[Len(p) + 1] = a /\ d[Len(p) + 2] = b
      /\ \A i \in 1..Len(p) : d[i] = p[i]
  BY TwoMore DEF Names
<1> HIDE DEF d
<1>2. Len(p) <= Len(d) /\ \A i \in 1..Len(p) : p[i] = d[i]
  BY <1>1
<1>3. IsPrefix(p, d)
  BY <1>1, <1>2, PrefixMeans DEF Names
<1> QED BY <1>1, <1>3 DEF d

(* Two prefixes of one length of one name are the same.                    *)
LEMMA PrefixSame ==
  ASSUME NEW p \in Names, NEW q \in Names, NEW d \in Names,
         IsPrefix(p, d), IsPrefix(q, d), Len(p) = Len(q)
  PROVE  p = q
<1>1. /\ \A i \in 1..Len(p) : d[i] = p[i]
      /\ \A i \in 1..Len(q) : d[i] = q[i]
  BY PrefixFacts
<1>2. \A i \in 1..Len(p) : p[i] = q[i]
  BY <1>1
<1> QED BY <1>2 DEF Names

-----------------------------------------------------------------------------
(* What the operations of the compiler give, node by node.                 *)

LEMMA StepWords ==
  /\ Places \subseteq Names
  /\ \A s \in Steps : /\ s.id \in Strings /\ s.id \in Words /\ s.file \in Strings
                      /\ s.coe \in BOOLEAN /\ s.needs \in SUBSET Words
<1>1. Strings \subseteq Words
  BY DEF Words
<1>2. Steps = [id : Strings, action : Strings, file : Strings, needs : SUBSET Strings,
               coe : BOOLEAN]
  BY DEF Strings, Steps
<1>3. ASSUME NEW s \in Steps
      PROVE  /\ s.id \in Strings /\ s.file \in Strings /\ s.coe \in BOOLEAN
             /\ s.needs \in SUBSET Strings
  BY <1>2
<1>4. Places \subseteq Names
  BY <1>1 DEF Places, Names
<1> QED BY <1>1, <1>3, <1>4

LEMMA FinallyWord == "finally" \in Words
BY DEF Words

LEMMA NeedNames ==
  ASSUME NEW s \in Steps
  PROVE  {<<d>> : d \in s.needs} \in SUBSET Names
<1>1. \A d \in Words : <<d>> \in Names
  BY DEF Names
<1> QED BY <1>1, StepWords

LEMMA LeafType ==
  ASSUME NEW s \in Steps, NEW p \in Names
  PROVE  /\ Leaf(s, p) \in NodeType
         /\ Leaf(s, p).id = IF s.id = NoId THEN <<>> ELSE Append(p, s.id)
         /\ Leaf(s, p).scope = p /\ Leaf(s, p).local = s.id
         /\ Leaf(s, p).needs = {<<d>> : d \in s.needs}
         /\ ~Leaf(s, p).always /\ ~Leaf(s, p).hidden
<1>1. (IF s.id = NoId THEN <<>> ELSE Append(p, s.id)) \in Names
  <2>1. Append(p, s.id) \in Names
    BY StepWords, PrefixOne
  <2>2. <<>> \in Names
    BY DEF Names
  <2> QED BY <2>1, <2>2
<1>2. {<<d>> : d \in s.needs} \in SUBSET Names
  BY NeedNames
<1>3. s.id \in Words /\ s.coe \in BOOLEAN
  BY StepWords
<1> QED BY <1>1, <1>2, <1>3, Zenon DEF Leaf, NodeType

Qualified(ns, child, q, out) ==
  /\ out \in Seq(NodeType) /\ Len(out) = Len(ns)
  /\ \A i \in 1..Len(ns) :
       /\ out[i].id = IF IsPrefix(q, ns[i].id) THEN ns[i].id ELSE Append(q, ns[i].local)
       /\ out[i].needs = {IF Len(d) = 1 /\ d[1] \in Ids(child.steps) THEN q \o d ELSE d :
                            d \in ns[i].needs}
       /\ out[i].scope = ns[i].scope /\ out[i].local = ns[i].local
       /\ out[i].always = ns[i].always /\ out[i].hidden = ns[i].hidden

LEMMA QualifyType ==
  ASSUME NEW ns \in Seq(NodeType), NEW child, NEW q \in Names
  PROVE  Qualified(ns, child, q, Qualify(ns, child, q))
<1> DEFINE id(n) == IF IsPrefix(q, n.id) THEN n.id ELSE Append(q, n.local)
           needs(n) == {IF Len(d) = 1 /\ d[1] \in Ids(child.steps) THEN q \o d ELSE d :
                          d \in n.needs}
           node(n) == [n EXCEPT !.id = id(n), !.needs = needs(n)]
           out == Qualify(ns, child, q)
<1>1. ASSUME NEW n \in NodeType
      PROVE  /\ node(n) \in NodeType /\ node(n).id = id(n) /\ node(n).needs = needs(n)
             /\ node(n).scope = n.scope /\ node(n).local = n.local
             /\ node(n).always = n.always /\ node(n).hidden = n.hidden
  <2>1. n.id \in Names /\ n.local \in Words /\ n.needs \in SUBSET Names
    BY DEF NodeType
  <2>2. id(n) \in Names
    BY <2>1, PrefixOne
  <2>3. needs(n) \in SUBSET Names
    <3>1. \A d \in Names : q \o d \in Names
      BY DEF Names
    <3> QED BY <2>1, <3>1
  <2> HIDE DEF id, needs
  <2> QED BY <2>2, <2>3 DEF NodeType
<1>2. out = [i \in 1..Len(ns) |-> node(ns[i])]
  BY DEF Qualify
<1>3. \A i \in 1..Len(ns) : ns[i] \in NodeType
  OBVIOUS
<1> HIDE DEF node, out
<1>4. \A i \in 1..Len(ns) : out[i] = node(ns[i]) /\ out[i] \in NodeType
  BY <1>1, <1>2, <1>3
<1>5. out \in Seq(NodeType) /\ Len(out) = Len(ns)
  BY <1>2, <1>4
<1> QED BY <1>1, <1>3, <1>4, <1>5, ZenonT(60) DEF out, Qualified

Modified(ns, s, out) ==
  /\ out \in Seq(NodeType) /\ Len(out) = Len(ns)
  /\ \A i \in 1..Len(ns) :
       /\ out[i].id = ns[i].id
       /\ out[i].needs = IF i = 1 THEN ns[i].needs \cup {<<d>> : d \in s.needs} ELSE ns[i].needs
       /\ out[i].scope = ns[i].scope /\ out[i].local = ns[i].local
       /\ out[i].always = ns[i].always /\ out[i].hidden = ns[i].hidden

LEMMA ModifyType ==
  ASSUME NEW ns \in Seq(NodeType), NEW s \in Steps
  PROVE  Modified(ns, s, Modify(ns, s))
<1> DEFINE more == {<<d>> : d \in s.needs}
           node(n, i) == [n EXCEPT !.coe = @ \/ s.coe, !.needs = IF i = 1 THEN @ \cup more ELSE @]
           out == Modify(ns, s)
<1>1. s.coe \in BOOLEAN /\ more \in SUBSET Names
  BY StepWords, NeedNames
<1>2. out = [i \in 1..Len(ns) |-> node(ns[i], i)]
  BY DEF Modify
<1> HIDE DEF more
<1>3. ASSUME NEW n \in NodeType, NEW i
      PROVE  /\ node(n, i) \in NodeType /\ node(n, i).id = n.id /\ node(n, i).local = n.local
             /\ node(n, i).needs = IF i = 1 THEN n.needs \cup more ELSE n.needs
             /\ node(n, i).scope = n.scope
             /\ node(n, i).always = n.always /\ node(n, i).hidden = n.hidden
  BY <1>1 DEF NodeType
<1>4. \A i \in 1..Len(ns) : ns[i] \in NodeType
  OBVIOUS
<1> HIDE DEF node, out
<1>5. \A i \in 1..Len(ns) : out[i] = node(ns[i], i) /\ out[i] \in NodeType
  BY <1>2, <1>3, <1>4
<1>6. out \in Seq(NodeType) /\ Len(out) = Len(ns)
  BY <1>2, <1>5
<1>7. ASSUME NEW i \in 1..Len(ns)
      PROVE  /\ out[i].id = ns[i].id /\ out[i].local = ns[i].local
             /\ out[i].needs = (IF i = 1 THEN ns[i].needs \cup more ELSE ns[i].needs)
             /\ out[i].scope = ns[i].scope
             /\ out[i].always = ns[i].always /\ out[i].hidden = ns[i].hidden
  <2>1. out[i] = node(ns[i], i) /\ ns[i] \in NodeType
    BY <1>4, <1>5
  <2>2. /\ node(ns[i], i).id = ns[i].id /\ node(ns[i], i).local = ns[i].local
        /\ node(ns[i], i).needs = IF i = 1 THEN ns[i].needs \cup more ELSE ns[i].needs
        /\ node(ns[i], i).scope = ns[i].scope
        /\ node(ns[i], i).always = ns[i].always /\ node(ns[i], i).hidden = ns[i].hidden
    BY <2>1, <1>3, ZenonT(60)
  <2> HIDE DEF more
  <2> QED BY <2>1, <2>2
<1> QED BY <1>6, <1>7 DEF out, more, Modified

TornDown(ns, q, last, out) ==
  /\ out \in Seq(NodeType) /\ Len(out) = Len(ns)
  /\ \A i \in 1..Len(ns) :
       /\ out[i].id = q \o <<"finally", ns[i].local>>
       /\ out[i].needs = {IF i = 1 THEN last ELSE out[i - 1].id}
       /\ out[i].scope = ns[i].scope /\ out[i].always
       /\ out[i].local = ns[i].local /\ out[i].hidden = ns[i].hidden

LEMMA TeardownType ==
  ASSUME NEW ns \in Seq(NodeType), NEW q \in Names, NEW last \in Names
  PROVE  TornDown(ns, q, last, Teardown(ns, q, last))
<1> DEFINE id(i) == q \o <<"finally", ns[i].local>>
           node(n, i) == [n EXCEPT !.always = TRUE, !.id = id(i),
                                   !.needs = {IF i = 1 THEN last ELSE id(i - 1)}]
           out == Teardown(ns, q, last)
<1>1. out = [i \in 1..Len(ns) |-> node(ns[i], i)]
  BY DEF Teardown
<1>2. \A i \in 1..Len(ns) : ns[i] \in NodeType /\ ns[i].local \in Words
  <2>1. \A n \in NodeType : n.local \in Words
    BY DEF NodeType
  <2> QED BY <2>1
<1>3. \A i \in 1..Len(ns) : id(i) \in Names
  BY <1>2, FinallyWord, PrefixTwo
<1>4. \A i \in 1..Len(ns) : i # 1 => i - 1 \in 1..Len(ns)
  OBVIOUS
<1> HIDE DEF id
<1>5. ASSUME NEW i \in 1..Len(ns)
      PROVE  /\ node(ns[i], i) \in NodeType /\ node(ns[i], i).id = id(i)
             /\ node(ns[i], i).needs = {IF i = 1 THEN last ELSE id(i - 1)}
             /\ node(ns[i], i).scope = ns[i].scope /\ node(ns[i], i).always
             /\ node(ns[i], i).local = ns[i].local /\ node(ns[i], i).hidden = ns[i].hidden
  <2>1. (IF i = 1 THEN last ELSE id(i - 1)) \in Names
    BY <1>3, <1>4
  <2> DEFINE d == IF i = 1 THEN last ELSE id(i - 1)
  <2> HIDE DEF d
  <2>2. d \in Names /\ id(i) \in Names /\ ns[i] \in NodeType
    BY <2>1, <1>2, <1>3 DEF d
  <2>3. node(ns[i], i) = [ns[i] EXCEPT !.always = TRUE, !.id = id(i), !.needs = {d}]
    BY DEF d
  <2> HIDE DEF node
  <2> DEFINE n == ns[i]  out1 == [n EXCEPT !.always = TRUE, !.id = id(i), !.needs = {d}]
  <2>4. n \in NodeType /\ id(i) \in Names /\ {d} \in SUBSET Names
    BY <2>2
  <2> HIDE DEF n
  <2>5. /\ out1 \in NodeType /\ out1.id = id(i) /\ out1.needs = {d}
        /\ out1.scope = n.scope /\ out1.always
        /\ out1.local = n.local /\ out1.hidden = n.hidden
    BY <2>4 DEF NodeType
  <2> QED BY <2>3, <2>5 DEF d, n
<1> HIDE DEF node, out
<1>6. \A i \in 1..Len(ns) : out[i] = node(ns[i], i) /\ out[i] \in NodeType
  BY <1>1, <1>5
<1>7. out \in Seq(NodeType) /\ Len(out) = Len(ns)
  BY <1>1, <1>6
<1>8. \A i \in 1..Len(ns) : out[i].id = id(i)
  BY <1>5, <1>6
<1>9. ASSUME NEW i \in 1..Len(ns)
      PROVE  out[i].needs = {IF i = 1 THEN last ELSE out[i - 1].id}
  <2>1. out[i].needs = {IF i = 1 THEN last ELSE id(i - 1)}
    <3>1. node(ns[i], i).needs = {IF i = 1 THEN last ELSE id(i - 1)}
      BY <1>5
    <3>2. out[i] = node(ns[i], i)
      BY <1>6
    <3> QED BY <3>1, <3>2
  <2>2. i # 1 => out[i - 1].id = id(i - 1)
    BY <1>4, <1>8
  <2> QED BY <2>1, <2>2
<1>10. \A i \in 1..Len(ns) : /\ out[i].scope = ns[i].scope /\ out[i].always
                             /\ out[i].local = ns[i].local /\ out[i].hidden = ns[i].hidden
  BY <1>5, <1>6
<1> QED BY <1>7, <1>8, <1>9, <1>10 DEF out, id, TornDown

IsJoin(s, u, a, b, w) ==
  /\ Len(w) = a + b
  /\ \A i \in 1..a : w[i] = s[i]
  /\ \A i \in (a + 1)..(a + b) : w[i] = u[i - a]

LEMMA Joined ==
  ASSUME NEW S, NEW s \in Seq(S), NEW u \in Seq(S)
  PROVE  s \o u \in Seq(S) /\ IsJoin(s, u, Len(s), Len(u), s \o u)
<1> DEFINE a == Len(s)  b == Len(u)
<1>1. a \in Nat /\ b \in Nat
  OBVIOUS
<1>2. /\ s \o u \in Seq(S) /\ Len(s \o u) = a + b
      /\ \A i \in 1..(a + b) : (s \o u)[i] = IF i <= a THEN s[i] ELSE u[i - a]
  BY ConcatProperties
<1>3. \A i \in 1..a : i \in 1..(a + b) /\ i <= a
  BY <1>1
<1>4. \A i \in (a + 1)..(a + b) : i \in 1..(a + b) /\ ~(i <= a)
  BY <1>1
<1> QED BY <1>2, <1>3, <1>4 DEF IsJoin

(* What an include comes to, given what its fragment comes to.             *)
Expanded(child, s, q, body, final) ==
  LET main == Modify(Qualify(body, child, q), s)
      whole == main \o Teardown(final, q, Last(main).id)
  IN whole \o IF child.outputs THEN <<Shim(s, q, Last(whole).id)>> ELSE <<>>

(* Its nodes: those of the fragment, of the teardown, and the shim.        *)
Parts(child, s, q, body, final, E) ==
  /\ E \in Seq(NodeType)
  /\ Len(E) = (Len(body) + Len(final)) + IF child.outputs THEN 1 ELSE 0
  /\ \A k \in 1..Len(body) :
       /\ E[k].id = IF IsPrefix(q, body[k].id) THEN body[k].id ELSE Append(q, body[k].local)
       /\ E[k].needs = {IF Len(d) = 1 /\ d[1] \in Ids(child.steps) THEN q \o d ELSE d :
                          d \in body[k].needs}
                       \cup IF k = 1 THEN {<<d>> : d \in s.needs} ELSE {}
       /\ E[k].scope = body[k].scope
       /\ E[k].always = body[k].always /\ E[k].hidden = body[k].hidden
  /\ \A k \in (Len(body) + 1)..Len(E) : k - 1 \in 1..Len(E) /\ E[k].needs = {E[k - 1].id}
  /\ \A k \in (Len(body) + 1)..(Len(body) + Len(final)) :
       /\ E[k].always
       /\ E[k].id = q \o <<"finally", final[k - Len(body)].local>>
       /\ E[k].scope = final[k - Len(body)].scope
  /\ \A k \in (Len(body) + Len(final) + 1)..Len(E) :
       ~E[k].always /\ E[k].hidden /\ E[k].id = q /\ E[k].scope = q

LEMMA ExpandedParts ==
  ASSUME NEW child, child.outputs \in BOOLEAN, NEW s \in Steps, NEW q \in Names,
         NEW body \in Seq(NodeType), body # <<>>, NEW final \in Seq(NodeType)
  PROVE  Parts(child, s, q, body, final, Expanded(child, s, q, body, final))
<1> DEFINE qual == Qualify(body, child, q)
           main == Modify(qual, s)
           down == Teardown(final, q, Last(main).id)
           whole == main \o down
           shim == Shim(s, q, Last(whole).id)
           tail == IF child.outputs THEN <<shim>> ELSE <<>>
           E == whole \o tail
           m == Len(body)
           f == Len(final)
<1>1. m \in Nat /\ f \in Nat /\ m # 0
  OBVIOUS
<1>2. Qualified(body, child, q, qual)
  BY QualifyType
<1> HIDE DEF qual
<1>3. Modified(qual, s, main)
  BY <1>2, ModifyType DEF Qualified
<1> HIDE DEF main
<1>q. /\ qual \in Seq(NodeType) /\ Len(qual) = m
      /\ \A i \in 1..m :
           /\ qual[i].id = IF IsPrefix(q, body[i].id) THEN body[i].id ELSE Append(q, body[i].local)
           /\ qual[i].needs = {IF Len(d) = 1 /\ d[1] \in Ids(child.steps) THEN q \o d ELSE d :
                                 d \in body[i].needs}
           /\ qual[i].scope = body[i].scope
           /\ qual[i].always = body[i].always /\ qual[i].hidden = body[i].hidden
  BY <1>2 DEF Qualified
<1>m. /\ main \in Seq(NodeType) /\ Len(main) = m
      /\ \A i \in 1..m :
           /\ main[i].id = qual[i].id
           /\ main[i].needs = IF i = 1 THEN qual[i].needs \cup {<<d>> : d \in s.needs}
                              ELSE qual[i].needs
           /\ main[i].scope = qual[i].scope
           /\ main[i].always = qual[i].always /\ main[i].hidden = qual[i].hidden
  BY <1>3, <1>q DEF Modified
<1>4. Last(main).id = main[m].id /\ main[m] \in NodeType
  BY <1>1, <1>m DEF Last
<1>5. main[m].id \in Names
  BY <1>4 DEF NodeType
<1>6. TornDown(final, q, main[m].id, down)
  BY <1>4, <1>5, TeardownType
<1> HIDE DEF down
<1>d. /\ down \in Seq(NodeType) /\ Len(down) = f
      /\ \A i \in 1..f :
           /\ down[i].id = q \o <<"finally", final[i].local>>
           /\ down[i].needs = {IF i = 1 THEN main[m].id ELSE down[i - 1].id}
           /\ down[i].scope = final[i].scope /\ down[i].always
  BY <1>6 DEF TornDown
<1>7. /\ whole \in Seq(NodeType) /\ Len(whole) = m + f
      /\ \A i \in 1..m : whole[i] = main[i]
      /\ \A i \in (m + 1)..(m + f) : whole[i] = down[i - m]
  <2>1. whole \in Seq(NodeType) /\ IsJoin(main, down, Len(main), Len(down), whole)
    BY <1>m, <1>d, Joined
  <2>2. Len(main) = m /\ Len(down) = f
    BY <1>m, <1>d
  <2>3. IsJoin(main, down, m, f, whole)
    BY <2>1, <2>2
  <2> HIDE DEF whole, m, f
  <2> QED BY <2>1, <2>3 DEF IsJoin
<1> HIDE DEF whole
<1>8. Last(whole).id = whole[m + f].id /\ whole[m + f].id \in Names
  <2>1. m + f \in 1..Len(whole)
    BY <1>1, <1>7
  <2>2. whole[m + f] \in NodeType
    BY <1>7, <2>1
  <2> QED BY <1>7, <2>2 DEF Last, NodeType
<1>9. shim = [id |-> q, local |-> s.id, needs |-> {whole[m + f].id}, scope |-> q,
              hidden |-> TRUE, always |-> FALSE, coe |-> FALSE]
  BY <1>8 DEF Shim
<1>10. shim \in NodeType
  <2>1. s.id \in Words /\ {whole[m + f].id} \in SUBSET Names
    BY <1>8, StepWords
  <2> QED BY <1>9, <2>1 DEF NodeType
<1>11. /\ shim.id = q /\ shim.needs = {whole[m + f].id} /\ shim.scope = q
       /\ shim.hidden /\ ~shim.always
  BY <1>9
<1> HIDE DEF shim
<1>12. /\ tail \in Seq(NodeType) /\ Len(tail) = IF child.outputs THEN 1 ELSE 0
       /\ \A i \in 1..Len(tail) : i = 1 /\ tail[i] = shim
  <2>1. CASE child.outputs
    BY <2>1, <1>10
  <2>2. CASE ~child.outputs
    BY <2>2
  <2> QED BY <2>1, <2>2
<1> HIDE DEF tail
<1>13. /\ E \in Seq(NodeType) /\ Len(E) = (m + f) + Len(tail) /\ Len(tail) \in Nat
       /\ \A i \in 1..(m + f) : E[i] = whole[i]
       /\ \A i \in (m + f + 1)..Len(E) : E[i] = tail[i - (m + f)]
  <2>1. /\ E \in Seq(NodeType) /\ Len(E) = (m + f) + Len(tail)
        /\ \A i \in 1..(m + f) : E[i] = whole[i]
        /\ \A i \in ((m + f) + 1)..((m + f) + Len(tail)) : E[i] = tail[i - (m + f)]
    <3>1. E \in Seq(NodeType) /\ IsJoin(whole, tail, Len(whole), Len(tail), E)
      BY <1>7, <1>12, Joined
    <3>2. IsJoin(whole, tail, m + f, Len(tail), E)
      BY <1>7, <3>1
    <3> HIDE DEF E, m, f
    <3> QED BY <3>1, <3>2 DEF IsJoin
  <2> QED BY <2>1, <1>12
<1> HIDE DEF E
<1>a. ASSUME NEW i \in 1..m PROVE E[i] = main[i] /\ i \in 1..(m + f)
  <2>1. i \in 1..(m + f)
    BY <1>1
  <2> QED BY <2>1, <1>7, <1>13
<1>b. ASSUME NEW i \in (m + 1)..(m + f)
      PROVE  E[i] = down[i - m] /\ i - m \in 1..f /\ i \in 1..(m + f)
  <2>1. i \in 1..(m + f) /\ i - m \in 1..f
    BY <1>1
  <2> QED BY <2>1, <1>7, <1>13
<1>c. ASSUME NEW i \in (m + f + 1)..Len(E)
      PROVE  E[i] = shim /\ i = m + f + 1
  <2>1. i - (m + f) \in 1..Len(tail)
    BY <1>1, <1>13
  <2>2. E[i] = tail[i - (m + f)]
    BY <1>13
  <2>3. i - (m + f) = 1 /\ tail[i - (m + f)] = shim
    BY <1>12, <2>1
  <2>4. i = m + f + 1
    BY <2>3, <1>1, <1>13
  <2> QED BY <2>2, <2>3, <2>4
<1>14. ASSUME NEW k \in 1..m
       PROVE  /\ E[k].id = IF IsPrefix(q, body[k].id) THEN body[k].id
                           ELSE Append(q, body[k].local)
              /\ E[k].needs = {IF Len(d) = 1 /\ d[1] \in Ids(child.steps) THEN q \o d ELSE d :
                                 d \in body[k].needs}
                              \cup IF k = 1 THEN {<<d>> : d \in s.needs} ELSE {}
              /\ E[k].scope = body[k].scope
              /\ E[k].always = body[k].always /\ E[k].hidden = body[k].hidden
  <2>1. E[k] = main[k]
    BY <1>a
  <2>2. /\ E[k].needs = qual[k].needs \cup IF k = 1 THEN {<<d>> : d \in s.needs} ELSE {}
        /\ E[k].id = qual[k].id /\ E[k].scope = qual[k].scope
        /\ E[k].always = qual[k].always /\ E[k].hidden = qual[k].hidden
    <3> DEFINE more == {<<d>> : d \in s.needs}
    <3>1. /\ main[k].needs = IF k = 1 THEN qual[k].needs \cup more ELSE qual[k].needs
          /\ main[k].id = qual[k].id /\ main[k].scope = qual[k].scope
          /\ main[k].always = qual[k].always /\ main[k].hidden = qual[k].hidden
      BY <1>m
    <3> HIDE DEF more
    <3>2. main[k].needs = qual[k].needs \cup IF k = 1 THEN more ELSE {}
      BY <3>1
    <3> QED BY <2>1, <3>1, <3>2 DEF more
  <2> QED BY <1>q, <2>2
<1>15. ASSUME NEW k \in (m + 1)..Len(E)
       PROVE  k - 1 \in 1..Len(E) /\ E[k].needs = {E[k - 1].id}
  <2>1. k - 1 \in 1..Len(E)
    BY <1>1, <1>13
  <2>2. CASE k \in (m + 1)..(m + f)
    <3>1. E[k].needs = {IF k - m = 1 THEN main[m].id ELSE down[(k - m) - 1].id}
      <4>1. E[k] = down[k - m] /\ k - m \in 1..f
        BY <1>b, <2>2
      <4>2. down[k - m].needs = {IF k - m = 1 THEN main[m].id ELSE down[(k - m) - 1].id}
        BY <1>d, <4>1
      <4> QED BY <4>1, <4>2
    <3>2. CASE k - m = 1
      <4>1. k - 1 = m /\ m \in 1..m
        BY <1>1, <3>2
      <4>2. E[k - 1] = main[m]
        BY <4>1, <1>a
      <4> QED BY <2>1, <3>1, <3>2, <4>2
    <3>3. CASE k - m # 1
      <4>1. k - 1 \in (m + 1)..(m + f) /\ (k - 1) - m = (k - m) - 1
        BY <1>1, <2>2, <3>3
      <4>2. E[k - 1] = down[(k - m) - 1]
        BY <4>1, <1>b
      <4> QED BY <2>1, <3>1, <3>3, <4>2
    <3> QED BY <3>2, <3>3
  <2>3. CASE k \in (m + f + 1)..Len(E)
    <3>1. E[k] = shim /\ k = m + f + 1
      BY <1>c, <2>3
    <3>2. k - 1 = m + f /\ m + f \in 1..(m + f)
      BY <1>1, <3>1
    <3>3. E[k - 1] = whole[m + f]
      BY <1>13, <3>2
    <3> QED BY <2>1, <3>1, <3>3, <1>11
  <2>4. k \in (m + 1)..(m + f) \/ k \in (m + f + 1)..Len(E)
    BY <1>1, <1>13
  <2> QED BY <2>2, <2>3, <2>4
<1>16. ASSUME NEW k \in (m + 1)..(m + f)
       PROVE  /\ E[k].always /\ E[k].id = q \o <<"finally", final[k - m].local>>
              /\ E[k].scope = final[k - m].scope
  <2>1. E[k] = down[k - m] /\ k - m \in 1..f
    BY <1>b
  <2> QED BY <1>d, <2>1
<1>17. ASSUME NEW k \in (m + f + 1)..Len(E)
       PROVE  ~E[k].always /\ E[k].hidden /\ E[k].id = q /\ E[k].scope = q
  BY <1>11, <1>c
<1>18. Len(E) = (m + f) + IF child.outputs THEN 1 ELSE 0
  BY <1>12, <1>13
<1>19. Expanded(child, s, q, body, final) = E
  BY DEF Expanded, E, tail, shim, whole, down, main, qual
<1> QED BY <1>13, <1>14, <1>15, <1>16, <1>17, <1>18, <1>19 DEF Parts

-----------------------------------------------------------------------------
(* What a list of nodes made under the name p is like.                     *)

Begins(ns) == ns # <<>> /\ ~ns[1].always

(* Teardown steps go by names of their own and need one node each.         *)
Shape(p, ns) ==
  /\ ns \in Seq(NodeType)
  /\ \A k \in 1..Len(ns) :
       /\ IsPrefix(p, ns[k].scope)
       /\ ns[k].always => Len(ns[k].scope) > Len(p)
       /\ ns[k].always =>
            /\ IsPrefix(p, ns[k].id) /\ Len(ns[k].id) >= Len(p) + 3
            /\ ns[k].id[Len(ns[k].id) - 1] = "finally"
            /\ \E d \in Names : d # <<>> /\ ns[k].needs = {d}
       /\ ~ns[k].always /\ ns[k].id # <<>> => IsPrefix(p, ns[k].id) /\ Len(ns[k].id) > Len(p)

(* The nodes of one step are found under its name.                         *)
Headed(p, s, ns) ==
  \A k \in 1..Len(ns) :
    /\ ns[k].id = <<>> \/ IsPrefix(Append(p, s.id), ns[k].id)
    /\ ns[k].scope = p \/ IsPrefix(Append(p, s.id), ns[k].scope)
    /\ ns[k].always => s.action = "include" /\ IsPrefix(Append(p, s.id), ns[k].scope)

(* A teardown step comes after the nodes of its fragment.                  *)
Nested(ns) ==
  \A t \in 1..Len(ns), k \in 1..Len(ns) :
    /\ ns[t].always /\ ~ns[k].always
    /\ IsPrefix(ns[t].scope, ns[k].scope) /\ ns[k].id # ns[t].scope
    => k < t

(* No other step goes by the name of a teardown step.                      *)
Plain(p, ns) ==
  \A k \in 1..Len(ns) :
    ~ns[k].always /\ Len(ns[k].id) >= Len(p) + 2 => ns[k].id[Len(ns[k].id) - 1] # "finally"

Distinct(ns) ==
  /\ \A k \in 1..Len(ns) : ns[k].id # <<>>
  /\ \A i \in 1..Len(ns), j \in 1..Len(ns) :
       ~ns[i].always /\ ~ns[j].always /\ ns[i].id = ns[j].id => i = j

(* A node needs the one before it, if any.                                 *)
Chained(ns) ==
  \A k \in 1..Len(ns) :
    /\ ns[k].needs # {} => k - 1 \in 1..Len(ns) /\ ns[k].needs = {ns[k - 1].id}
    /\ ns[k].hidden => ns[k].needs # {}

(* What a node needs, if it is there at all, comes before the node.        *)
BehindOne(p, ids, ns, i, d) ==
  \/ \E y \in ids : /\ d = <<y>>
                    /\ \A j \in 1..Len(ns) : ~ns[j].always /\ ns[j].id = Append(p, y) => j < i
  \/ Len(d) >= Len(p) + 2 /\ \E j \in 1..Len(ns) : j < i /\ ns[j].id = d
  \/ /\ IsPrefix(p, d) /\ Len(d) >= Len(p) + 2 /\ d[Len(d) - 1] # "finally"
     /\ \A j \in 1..Len(ns) : ~ns[j].always /\ ns[j].id = d => j < i
Behind(p, ids, ns) ==
  \A i \in 1..Len(ns) : \A d \in ns[i].needs : BehindOne(p, ids, ns, i, d)

(* The same within the nodes of one step.                                  *)
BehindHere(p, s, ns) ==
  \A i \in 1..Len(ns) : \A d \in ns[i].needs :
    \/ \E y \in s.needs : d = <<y>>
    \/ Len(d) >= Len(p) + 2 /\ \E j \in 1..Len(ns) : j < i /\ ns[j].id = d
    \/ /\ IsPrefix(Append(p, s.id), d) /\ Len(d) >= Len(p) + 2 /\ d[Len(d) - 1] # "finally"
       /\ \A j \in 1..Len(ns) : ~ns[j].always /\ ns[j].id = d => j < i

-----------------------------------------------------------------------------
(* A step that includes.                                                   *)

Fits(child, s, p, body, final, E) ==
  /\ s \in Steps /\ p \in Names
  /\ Shape(Append(p, s.id), body) /\ Begins(body) /\ Shape(Append(p, s.id), final)
  /\ Parts(child, s, Append(p, s.id), body, final, E)

(* What the other lemmas use of it; m and f are how many nodes the fragment *)
(* and its teardown have.                                                  *)
Frame(s, p, q, m, f, body, E) ==
  /\ s \in Steps /\ p \in Names /\ q \in Names /\ Len(p) \in Nat /\ Len(q) = Len(p) + 1
  /\ Len(q) \in Nat /\ q # <<>> /\ q[Len(q)] = s.id
  /\ m \in Nat /\ f \in Nat /\ Len(E) \in Nat /\ m # 0
  /\ m + f <= Len(E) /\ Len(E) <= m + f + 1
  /\ E \in Seq(NodeType) /\ body \in Seq(NodeType) /\ Len(body) = m
  /\ \A k \in 1..Len(E) : E[k].id \in Names /\ E[k].scope \in Names /\ E[k].needs \in SUBSET Names
  /\ \A k \in 1..m : body[k].id \in Names /\ body[k].scope \in Names
                     /\ body[k].needs \in SUBSET Names
  /\ \A k \in 1..m :
       k \in 1..Len(E) /\ E[k].always = body[k].always /\ E[k].scope = body[k].scope
  /\ \A k \in 1..m :
       IF body[k].id = <<>> THEN \E a \in Words : E[k].id = Append(q, a)
       ELSE E[k].id = body[k].id
  /\ \A k \in 1..m : IsPrefix(q, E[k].id) /\ Len(E[k].id) > Len(q)
  /\ \A k \in 1..Len(E) : IsPrefix(q, E[k].scope) /\ IsPrefix(q, E[k].id)
  /\ \A k \in (m + 1)..Len(E) : k - 1 \in 1..Len(E) /\ E[k].needs = {E[k - 1].id}
  /\ \A k \in (m + 1)..(m + f) :
       k \in 1..Len(E) /\ E[k].always /\ Len(E[k].id) = Len(q) + 2
       /\ E[k].id[Len(q) + 1] = "finally"
  /\ \A k \in (m + f + 1)..Len(E) :
       k \in 1..Len(E) /\ ~E[k].always /\ E[k].hidden /\ E[k].id = q /\ E[k].scope = q
  /\ \A k \in 1..Len(E) :
       k \in 1..m \/ k \in (m + 1)..(m + f) \/ k \in (m + f + 1)..Len(E)

LEMMA FitsFacts ==
  ASSUME NEW child, NEW s, NEW p, NEW body, NEW final, NEW E,
         Fits(child, s, p, body, final, E)
  PROVE  Frame(s, p, Append(p, s.id), Len(body), Len(final), body, E)
<1> DEFINE q == Append(p, s.id)
<1> DEFINE m == Len(body)  f == Len(final)
<1>1. /\ s \in Steps /\ p \in Names
      /\ Shape(q, body) /\ Begins(body) /\ Shape(q, final) /\ Parts(child, s, q, body, final, E)
  BY DEF Fits
<1>2. s.id \in Words
  BY <1>1, StepWords
<1>3. q \in Names /\ Len(p) \in Nat /\ Len(q) = Len(p) + 1 /\ q # <<>> /\ q[Len(p) + 1] = s.id
  BY <1>1, <1>2, PrefixOne DEF Names
<1>4. body \in Seq(NodeType) /\ final \in Seq(NodeType) /\ E \in Seq(NodeType)
  BY <1>1 DEF Shape, Parts
<1>5. \A n \in NodeType : n.id \in Names /\ n.scope \in Names /\ n.needs \in SUBSET Names
                          /\ n.local \in Words /\ n.always \in BOOLEAN
  BY DEF NodeType
<1>6. /\ \A k \in 1..Len(E) : E[k] \in NodeType
      /\ \A k \in 1..m : body[k] \in NodeType
      /\ \A k \in 1..f : final[k] \in NodeType
  BY <1>4
<1>7. m \in Nat /\ f \in Nat /\ Len(E) \in Nat /\ m # 0
  BY <1>1, <1>4 DEF Begins
<1>8. m + f <= Len(E) /\ Len(E) <= m + f + 1
  <2>1. Len(E) = (m + f) + IF child.outputs THEN 1 ELSE 0
    BY <1>1 DEF Parts
  <2> HIDE DEF m, f
  <2> QED BY <1>7, <2>1
<1>a. /\ \A k \in 1..m :
           /\ E[k].id = IF IsPrefix(q, body[k].id) THEN body[k].id ELSE Append(q, body[k].local)
           /\ E[k].scope = body[k].scope
           /\ E[k].always = body[k].always /\ E[k].hidden = body[k].hidden
      /\ \A k \in (m + 1)..Len(E) : k - 1 \in 1..Len(E) /\ E[k].needs = {E[k - 1].id}
      /\ \A k \in (m + 1)..(m + f) :
           /\ E[k].always
           /\ E[k].id = q \o <<"finally", final[k - m].local>>
           /\ E[k].scope = final[k - m].scope
      /\ \A k \in (m + f + 1)..Len(E) :
           ~E[k].always /\ E[k].hidden /\ E[k].id = q /\ E[k].scope = q
  BY <1>1 DEF Parts
<1>b. /\ \A k \in 1..m :
           /\ IsPrefix(q, body[k].scope)
           /\ body[k].id # <<>> => IsPrefix(q, body[k].id) /\ Len(body[k].id) > Len(q)
      /\ \A k \in 1..f : IsPrefix(q, final[k].scope)
  <2>1. ASSUME NEW k \in 1..m, body[k].id # <<>>
        PROVE  IsPrefix(q, body[k].id) /\ Len(body[k].id) > Len(q)
    <3>1. CASE body[k].always
      <4>1. IsPrefix(q, body[k].id) /\ Len(body[k].id) >= Len(q) + 3
        BY <1>1, <3>1 DEF Shape
      <4>2. Len(body[k].id) \in Nat /\ Len(q) \in Nat
        BY <1>3, <1>5, <1>6 DEF Names
      <4> QED BY <4>1, <4>2
    <3>2. CASE ~body[k].always
      BY <1>1, <2>1, <3>2 DEF Shape
    <3> QED BY <3>1, <3>2
  <2> QED BY <1>1, <2>1 DEF Shape
<1>c. \A k \in 1..m : k \in 1..Len(E)
  <2> HIDE DEF m, f
  <2> QED BY <1>7, <1>8
<1>d. /\ \A k \in (m + 1)..(m + f) : k \in 1..Len(E) /\ k - m \in 1..f
      /\ \A k \in (m + f + 1)..Len(E) : k \in 1..Len(E)
  <2> HIDE DEF m, f
  <2> QED BY <1>7, <1>8
<1>e. \A k \in 1..Len(E) : k \in 1..m \/ k \in (m + 1)..(m + f) \/ k \in (m + f + 1)..Len(E)
  <2> HIDE DEF m, f
  <2> QED BY <1>7, <1>8
<1>f. ASSUME NEW k \in 1..m
      PROVE  /\ IF body[k].id = <<>> THEN \E a \in Words : E[k].id = Append(q, a)
                ELSE E[k].id = body[k].id
             /\ IsPrefix(q, E[k].id) /\ Len(E[k].id) > Len(q) /\ IsPrefix(q, E[k].scope)
  <2>1. CASE body[k].id = <<>>
    <3>1. ~IsPrefix(q, body[k].id)
      BY <1>3, <2>1, <1>5, <1>6, PrefixFacts
    <3>2. E[k].id = Append(q, body[k].local) /\ body[k].local \in Words
      BY <1>a, <3>1, <1>5, <1>6
    <3>3. IsPrefix(q, E[k].id) /\ Len(E[k].id) = Len(q) + 1
      BY <3>2, <1>3, PrefixOne
    <3> QED BY <2>1, <3>2, <3>3, <1>3, <1>a, <1>b
  <2>2. CASE body[k].id # <<>>
    BY <2>2, <1>a, <1>b
  <2> QED BY <2>1, <2>2
<1>g. ASSUME NEW k \in (m + 1)..(m + f)
      PROVE  /\ k \in 1..Len(E) /\ E[k].always /\ Len(E[k].id) = Len(q) + 2
             /\ E[k].id[Len(q) + 1] = "finally"
             /\ IsPrefix(q, E[k].id) /\ IsPrefix(q, E[k].scope)
  <2>1. k \in 1..Len(E) /\ k - m \in 1..f
    BY <1>d
  <2>2. final[k - m].local \in Words
    BY <2>1, <1>5, <1>6
  <2>3. E[k].id = q \o <<"finally", final[k - m].local>> /\ E[k].always
        /\ E[k].scope = final[k - m].scope
    BY <1>a
  <2>4. Len(E[k].id) = Len(q) + 2 /\ E[k].id[Len(q) + 1] = "finally" /\ IsPrefix(q, E[k].id)
    BY <2>2, <2>3, <1>3, FinallyWord, PrefixTwo
  <2> QED BY <2>1, <2>3, <2>4, <1>b
<1>h. ASSUME NEW k \in (m + f + 1)..Len(E)
      PROVE  /\ k \in 1..Len(E) /\ ~E[k].always /\ E[k].hidden /\ E[k].id = q /\ E[k].scope = q
             /\ IsPrefix(q, E[k].id) /\ IsPrefix(q, E[k].scope)
  BY <1>3, <1>a, <1>d, PrefixSelf
<1>i. \A k \in 1..Len(E) : IsPrefix(q, E[k].scope) /\ IsPrefix(q, E[k].id)
  BY <1>e, <1>f, <1>g, <1>h
<1>j. \A k \in 1..Len(E) : E[k].id \in Names /\ E[k].scope \in Names /\ E[k].needs \in SUBSET Names
  BY <1>5, <1>6
<1>k. \A k \in 1..m : body[k].id \in Names /\ body[k].scope \in Names /\ body[k].needs \in SUBSET Names
  BY <1>5, <1>6
<1>l. q[Len(q)] = s.id
  BY <1>3
<1>m. /\ s \in Steps /\ p \in Names /\ q \in Names /\ Len(p) \in Nat /\ Len(q) = Len(p) + 1
      /\ Len(q) \in Nat /\ q # <<>> /\ Len(body) = m
  BY <1>1, <1>3
<1>n. \A k \in 1..m : E[k].always = body[k].always /\ E[k].scope = body[k].scope
  BY <1>a
<1>o. \A k \in (m + 1)..Len(E) : k - 1 \in 1..Len(E) /\ E[k].needs = {E[k - 1].id}
  BY <1>a
<1> HIDE DEF m, f, q
<1>p. \A k \in 1..m : IsPrefix(q, E[k].id) /\ Len(E[k].id) > Len(q)
  BY <1>f
<1>q. \A k \in 1..m :
        IF body[k].id = <<>> THEN \E a \in Words : E[k].id = Append(q, a)
        ELSE E[k].id = body[k].id
  BY <1>f
<1>r. \A k \in (m + 1)..(m + f) :
        k \in 1..Len(E) /\ E[k].always /\ Len(E[k].id) = Len(q) + 2
        /\ E[k].id[Len(q) + 1] = "finally"
  BY <1>g
<1>s. \A k \in (m + f + 1)..Len(E) :
        k \in 1..Len(E) /\ ~E[k].always /\ E[k].hidden /\ E[k].id = q /\ E[k].scope = q
  BY <1>h
<1>t. \A k \in 1..m : k \in 1..Len(E) /\ E[k].always = body[k].always /\ E[k].scope = body[k].scope
  BY <1>c, <1>n
<1>u. Frame(s, p, q, m, f, body, E)
  BY <1>m, <1>t, <1>o, <1>4, <1>7, <1>8, <1>e, <1>p, <1>q, <1>r, <1>s, <1>i, <1>j, <1>k, <1>l
     DEF Frame
<1> QED BY <1>u DEF m, f, q

LEMMA FitsShape ==
  ASSUME NEW child, NEW s, NEW p, NEW body, NEW final, NEW E,
         Fits(child, s, p, body, final, E)
  PROVE  Shape(p, E) /\ Begins(E)
<1> DEFINE q == Append(p, s.id)  m == Len(body)  f == Len(final)
<1>0. Frame(s, p, q, m, f, body, E)
  BY FitsFacts
<1>1. /\ p \in Names /\ q \in Names /\ Len(p) \in Nat /\ Len(q) = Len(p) + 1 /\ m \in Nat
      /\ m # 0 /\ f \in Nat
      /\ E \in Seq(NodeType)
      /\ \A k \in 1..Len(E) : E[k].id \in Names /\ E[k].scope \in Names
      /\ \A k \in 1..Len(E) : IsPrefix(q, E[k].scope) /\ IsPrefix(q, E[k].id)
      /\ \A k \in 1..Len(E) : \/ k \in 1..m \/ k \in (m + 1)..(m + f)
                              \/ k \in (m + f + 1)..Len(E)
  BY <1>0 DEF Frame
<1>2. /\ \A k \in 1..m : k \in 1..Len(E) /\ E[k].always = body[k].always
      /\ \A k \in 1..m :
           IF body[k].id = <<>> THEN \E a \in Words : E[k].id = Append(q, a)
           ELSE E[k].id = body[k].id
      /\ \A k \in (m + 1)..(m + f) :
           /\ k - 1 \in 1..Len(E) /\ E[k].needs = {E[k - 1].id}
           /\ E[k].always /\ Len(E[k].id) = Len(q) + 2 /\ E[k].id[Len(q) + 1] = "finally"
      /\ \A k \in (m + f + 1)..Len(E) : ~E[k].always
  <2>1. \A k \in (m + 1)..(m + f) : k \in (m + 1)..Len(E)
    BY <1>0 DEF Frame
  <2> QED BY <2>1, <1>0 DEF Frame
<1>3. Shape(q, body) /\ Begins(body) /\ Parts(child, s, q, body, final, E)
  BY DEF Fits
<1> HIDE DEF q, m, f
<1>a. \A d \in Names : IsPrefix(q, d) => IsPrefix(p, d) /\ Len(d) > Len(p) /\ d # <<>>
  <2>1. s.id \in Words
    BY StepWords DEF Fits
  <2> QED BY <1>1, <2>1, PrefixOne DEF q
<1>4. ASSUME NEW k \in 1..Len(E), E[k].always
      PROVE  /\ Len(E[k].id) >= Len(p) + 3
             /\ E[k].id[Len(E[k].id) - 1] = "finally"
             /\ \E d \in Names : d # <<>> /\ E[k].needs = {d}
  <2>1. CASE k \in 1..m
    <3>1. body[k].always
      BY <1>2, <1>4, <2>1
    <3>2. /\ Len(body[k].id) >= Len(q) + 3 /\ body[k].id[Len(body[k].id) - 1] = "finally"
          /\ IsPrefix(q, body[k].id)
          /\ \E d \in Names : d # <<>> /\ body[k].needs = {d}
      BY <1>3, <2>1, <3>1 DEF Shape, m
    <3>3. body[k].id # <<>>
      <4>1. body[k].id \in Names
        BY <1>0, <2>1 DEF Frame
      <4> QED BY <1>a, <3>2, <4>1
    <3>4. E[k].id = body[k].id /\ Len(E[k].id) \in Nat
      BY <1>1, <1>2, <2>1, <3>3 DEF Names
    <3>5. PICK d \in Names : d # <<>> /\ body[k].needs = {d}
      BY <3>2
    <3>6. k # 1
      BY <1>3, <3>1 DEF Begins
    <3>7. E[k].needs = {IF Len(e) = 1 /\ e[1] \in Ids(child.steps) THEN q \o e ELSE e :
                          e \in body[k].needs}
      BY <1>3, <2>1, <3>6, ZenonT(60) DEF Parts, m
    <3> DEFINE e == IF Len(d) = 1 /\ d[1] \in Ids(child.steps) THEN q \o d ELSE d
    <3>8. E[k].needs = {e}
      BY <3>5, <3>7
    <3>9. e \in Names /\ e # <<>>
      <4>1. q \o d \in Names /\ q \o d # <<>>
        <5>1. q \in Seq(Words) /\ d \in Seq(Words)
          BY <1>1 DEF Names
        <5>2. q \o d \in Seq(Words) /\ Len(q \o d) = Len(q) + Len(d) /\ Len(d) \in Nat
          BY <5>1, ConcatProperties
        <5>3. Len(q \o d) # 0
          BY <1>1, <5>2
        <5> QED BY <5>2, <5>3 DEF Names
      <4> QED BY <3>5, <4>1
    <3>10. Len(E[k].id) >= Len(p) + 3
      BY <1>1, <3>2, <3>4
    <3> HIDE DEF e
    <3> QED BY <3>2, <3>4, <3>8, <3>9, <3>10
  <2>2. CASE k \in (m + 1)..(m + f)
    <3>1. E[k].needs = {E[k - 1].id} /\ k - 1 \in 1..Len(E)
      BY <1>2, <2>2
    <3>2. E[k - 1].id \in Names /\ E[k - 1].id # <<>>
      BY <1>1, <1>a, <3>1
    <3>3. Len(E[k].id) = Len(q) + 2 /\ E[k].id[Len(q) + 1] = "finally"
      BY <1>2, <2>2
    <3>4. Len(E[k].id) >= Len(p) + 3 /\ Len(E[k].id) - 1 = Len(q) + 1
      BY <1>1, <3>3
    <3> QED BY <3>1, <3>2, <3>3, <3>4
  <2>3. CASE k \in (m + f + 1)..Len(E)
    BY <1>2, <1>4, <2>3
  <2> QED BY <1>1, <2>1, <2>2, <2>3
<1>5. \A k \in 1..Len(E) : /\ IsPrefix(p, E[k].scope) /\ Len(E[k].scope) > Len(p)
                           /\ IsPrefix(p, E[k].id) /\ Len(E[k].id) > Len(p)
  BY <1>1, <1>a
<1>6. Begins(E)
  <2>1. 1 \in 1..m
    BY <1>1
  <2>2. ~E[1].always /\ 1 \in 1..Len(E)
    BY <1>2, <1>3, <2>1 DEF Begins
  <2> QED BY <1>1, <2>2 DEF Begins
<1> QED BY <1>1, <1>4, <1>5, <1>6 DEF Shape

LEMMA FitsHeaded ==
  ASSUME NEW child, NEW s, NEW p, NEW body, NEW final, NEW E,
         Fits(child, s, p, body, final, E), s.action = "include"
  PROVE  Headed(p, s, E)
<1> DEFINE q == Append(p, s.id)
<1>1. Frame(s, p, q, Len(body), Len(final), body, E)
  BY FitsFacts
<1>2. \A k \in 1..Len(E) : IsPrefix(q, E[k].scope) /\ IsPrefix(q, E[k].id)
  BY <1>1 DEF Frame
<1> QED BY <1>2 DEF Headed

LEMMA FitsNested ==
  ASSUME NEW child, NEW s, NEW p, NEW body, NEW final, NEW E,
         Fits(child, s, p, body, final, E), Nested(body)
  PROVE  Nested(E)
<1> DEFINE q == Append(p, s.id)  m == Len(body)  f == Len(final)
<1>0. Frame(s, p, q, m, f, body, E)
  BY FitsFacts
<1>1. /\ q \in Names /\ q # <<>> /\ m \in Nat /\ f \in Nat /\ Len(E) \in Nat
      /\ \A k \in 1..Len(E) : E[k].id \in Names /\ E[k].scope \in Names
      /\ \A k \in 1..Len(E) : IsPrefix(q, E[k].scope)
      /\ \A k \in 1..Len(E) : \/ k \in 1..m \/ k \in (m + 1)..(m + f)
                              \/ k \in (m + f + 1)..Len(E)
  BY <1>0 DEF Frame
<1>2. /\ \A k \in 1..m : E[k].always = body[k].always /\ E[k].scope = body[k].scope
      /\ \A k \in 1..m :
           IF body[k].id = <<>> THEN \E a \in Words : E[k].id = Append(q, a)
           ELSE E[k].id = body[k].id
      /\ \A k \in (m + 1)..(m + f) : E[k].always
      /\ \A k \in (m + f + 1)..Len(E) : ~E[k].always /\ E[k].id = q /\ E[k].scope = q
  BY <1>0 DEF Frame
<1> HIDE DEF q
<1>3. SUFFICES ASSUME NEW t \in 1..Len(E), NEW k \in 1..Len(E), E[t].always, ~E[k].always,
                      IsPrefix(E[t].scope, E[k].scope), E[k].id # E[t].scope
               PROVE  k < t
  BY DEF Nested
<1>4. k \in 1..m
  <2>1. ASSUME k \in (m + f + 1)..Len(E) PROVE FALSE
    <3>1. E[k].scope = q /\ E[k].id = q
      BY <1>2, <2>1
    <3>2. /\ E[t].scope \in Names /\ IsPrefix(q, E[t].scope)
          /\ IsPrefix(E[t].scope, q)
      BY <1>1, <1>3, <3>1
    <3>3. Len(q) <= Len(E[t].scope) /\ Len(E[t].scope) <= Len(q) /\ Len(q) \in Nat
          /\ Len(E[t].scope) \in Nat
      BY <1>1, <3>2, PrefixFacts
    <3>4. Len(E[t].scope) = Len(q)
      BY <3>3
    <3>5. E[t].scope = q
      BY <1>1, <3>2, <3>4, PrefixSame, PrefixSelf
    <3> QED BY <1>3, <3>1, <3>5
  <2> QED BY <1>1, <1>2, <1>3, <2>1
<1>5. CASE t \in 1..m
  <2>1. body[t].always /\ ~body[k].always /\ IsPrefix(body[t].scope, body[k].scope)
    BY <1>2, <1>3, <1>4, <1>5
  <2>2. body[k].id # body[t].scope
    <3>1. CASE body[k].id = <<>>
      <4>1. E[t].scope # <<>>
        BY <1>1, PrefixFacts
      <4> QED BY <1>2, <1>5, <3>1, <4>1
    <3>2. CASE body[k].id # <<>>
      BY <1>2, <1>3, <1>4, <1>5, <3>2
    <3> QED BY <3>1, <3>2
  <2> QED BY <1>4, <1>5, <2>1, <2>2 DEF Nested
<1>6. CASE t \notin 1..m
  <2>1. t > m
    <3> HIDE DEF m, f
    <3> QED BY <1>1, <1>6
  <2> HIDE DEF m, f
  <2> QED BY <1>1, <1>4, <2>1
<1> QED BY <1>5, <1>6

LEMMA FitsPlain ==
  ASSUME NEW child, NEW s, NEW p, NEW body, NEW final, NEW E,
         Fits(child, s, p, body, final, E), s.id # "finally", Plain(Append(p, s.id), body)
  PROVE  Plain(p, E)
<1> DEFINE q == Append(p, s.id)  m == Len(body)  f == Len(final)
<1>0. Frame(s, p, q, m, f, body, E)
  BY FitsFacts
<1>1. /\ q \in Names /\ Len(p) \in Nat /\ Len(q) = Len(p) + 1 /\ q[Len(q)] = s.id
      /\ \A k \in 1..Len(E) : E[k].id \in Names /\ IsPrefix(q, E[k].id)
      /\ \A k \in 1..Len(E) : \/ k \in 1..m \/ k \in (m + 1)..(m + f)
                              \/ k \in (m + f + 1)..Len(E)
  BY <1>0 DEF Frame
<1>2. /\ \A k \in 1..m : E[k].always = body[k].always /\ Len(E[k].id) > Len(q)
      /\ \A k \in 1..m :
           IF body[k].id = <<>> THEN \E a \in Words : E[k].id = Append(q, a)
           ELSE E[k].id = body[k].id
      /\ \A k \in (m + 1)..(m + f) : E[k].always
      /\ \A k \in (m + f + 1)..Len(E) : E[k].id = q
  BY <1>0 DEF Frame
<1>3. Plain(q, body)
  OBVIOUS
<1> HIDE DEF q
<1>4. SUFFICES ASSUME NEW k \in 1..Len(E), ~E[k].always, Len(E[k].id) >= Len(p) + 2
               PROVE  E[k].id[Len(E[k].id) - 1] # "finally"
  BY DEF Plain
<1>5. k \in 1..m
  <2>1. ASSUME k \in (m + f + 1)..Len(E) PROVE FALSE
    <3>1. Len(E[k].id) = Len(p) + 1
      BY <1>1, <1>2, <2>1
    <3> QED BY <1>1, <1>4, <3>1
  <2> QED BY <1>1, <1>2, <1>4, <2>1
<1>6. Len(E[k].id) \in Nat /\ \A i \in 1..Len(q) : E[k].id[i] = q[i]
  BY <1>1, PrefixFacts
<1>7. CASE Len(E[k].id) = Len(q) + 1
  <2>1. Len(E[k].id) - 1 = Len(q) /\ Len(q) \in 1..Len(q)
    BY <1>1, <1>7
  <2>2. E[k].id[Len(E[k].id) - 1] = q[Len(q)]
    BY <1>6, <2>1
  <2> QED BY <1>1, <2>2
<1>8. CASE Len(E[k].id) # Len(q) + 1
  <2>1. Len(E[k].id) >= Len(q) + 2
    <3>1. Len(E[k].id) > Len(q)
      BY <1>2, <1>5
    <3> QED BY <1>1, <1>6, <1>8, <3>1
  <2>2. body[k].id # <<>>
    <3>1. \A a \in Words : Len(Append(q, a)) = Len(q) + 1
      BY <1>1, PrefixOne
    <3> QED BY <1>2, <1>5, <1>8, <3>1
  <2>3. E[k].id = body[k].id /\ ~body[k].always
    BY <1>2, <1>4, <1>5, <2>2
  <2> QED BY <1>3, <1>5, <2>1, <2>3 DEF Plain
<1> QED BY <1>7, <1>8

LEMMA FitsDistinct ==
  ASSUME NEW child, NEW s, NEW p, NEW body, NEW final, NEW E,
         Fits(child, s, p, body, final, E), Distinct(body)
  PROVE  Distinct(E)
<1> DEFINE q == Append(p, s.id)  m == Len(body)  f == Len(final)
<1>0. Frame(s, p, q, m, f, body, E)
  BY FitsFacts
<1>1. /\ q \in Names /\ q # <<>> /\ Len(q) \in Nat /\ m \in Nat /\ f \in Nat /\ Len(E) \in Nat
      /\ Len(E) <= m + f + 1
      /\ \A k \in 1..Len(E) : E[k].id \in Names /\ IsPrefix(q, E[k].id)
      /\ \A k \in 1..Len(E) : \/ k \in 1..m \/ k \in (m + 1)..(m + f)
                              \/ k \in (m + f + 1)..Len(E)
  BY <1>0 DEF Frame
<1>2. /\ \A k \in 1..m : E[k].always = body[k].always /\ Len(E[k].id) > Len(q)
      /\ \A k \in 1..m :
           IF body[k].id = <<>> THEN \E a \in Words : E[k].id = Append(q, a)
           ELSE E[k].id = body[k].id
      /\ \A k \in (m + 1)..(m + f) : E[k].always
      /\ \A k \in (m + f + 1)..Len(E) : E[k].id = q
  BY <1>0 DEF Frame
<1>3. \A k \in 1..m : body[k].id # <<>>
  BY DEF Distinct
<1>4. \A k \in 1..Len(E) : E[k].id # <<>>
  BY <1>1, PrefixFacts
<1>5. ASSUME NEW i \in 1..Len(E), NEW j \in 1..Len(E), ~E[i].always, ~E[j].always,
             E[i].id = E[j].id
      PROVE  i = j
  <2>1. /\ i \in 1..m \/ i \in (m + f + 1)..Len(E)
        /\ j \in 1..m \/ j \in (m + f + 1)..Len(E)
    BY <1>1, <1>2, <1>5
  <2>2. CASE i \in 1..m /\ j \in 1..m
    <3>1. body[i].id = body[j].id /\ ~body[i].always /\ ~body[j].always
      BY <1>2, <1>3, <1>5, <2>2
    <3> QED BY <2>2, <3>1 DEF Distinct
  <2>3. CASE i \in (m + f + 1)..Len(E) /\ j \in (m + f + 1)..Len(E)
    <3> HIDE DEF m, f
    <3> QED BY <1>1, <2>3
  <2>4. CASE \/ i \in 1..m /\ j \in (m + f + 1)..Len(E)
             \/ j \in 1..m /\ i \in (m + f + 1)..Len(E)
    <3>1. Len(q) > Len(q)
      BY <1>2, <1>5, <2>4
    <3> QED BY <1>1, <3>1
  <2> QED BY <2>1, <2>2, <2>3, <2>4
<1> QED BY <1>4, <1>5 DEF Distinct

(* What the nodes of a fragment need, where an include has them.           *)
NeedOf(child, s, q, body, k, d) ==
  \/ \E y \in s.needs : k = 1 /\ d = <<y>>
  \/ \E y \in Ids(child.steps) : <<y>> \in body[k].needs /\ d = q \o <<y>>
  \/ d \in body[k].needs /\ ~(Len(d) = 1 /\ d[1] \in Ids(child.steps))

LEMMA FitsNeeds ==
  ASSUME NEW child, NEW s, NEW p, NEW body, NEW final, NEW E, NEW q, q = Append(p, s.id),
         Fits(child, s, p, body, final, E),
         NEW k \in 1..Len(body), NEW d \in E[k].needs
  PROVE  NeedOf(child, s, q, body, k, d)
<1>1. Parts(child, s, q, body, final, E) /\ body[k].needs \in SUBSET Names
  <2>1. Frame(s, p, q, Len(body), Len(final), body, E)
    BY FitsFacts
  <2> QED BY <2>1 DEF Frame, Fits
<1>2. d \in {IF Len(e) = 1 /\ e[1] \in Ids(child.steps) THEN q \o e ELSE e : e \in body[k].needs}
           \cup IF k = 1 THEN {<<y>> : y \in s.needs} ELSE {}
  BY <1>1 DEF Parts
<1>3. CASE k = 1 /\ d \in {<<y>> : y \in s.needs}
  BY <1>3 DEF NeedOf
<1>4. CASE d \in {IF Len(e) = 1 /\ e[1] \in Ids(child.steps) THEN q \o e ELSE e : e \in body[k].needs}
  <2>1. PICK e \in body[k].needs :
          d = IF Len(e) = 1 /\ e[1] \in Ids(child.steps) THEN q \o e ELSE e
    BY <1>4
  <2>2. CASE Len(e) = 1 /\ e[1] \in Ids(child.steps)
    <3>1. e \in Seq(Words)
      BY <1>1 DEF Names
    <3>2. e = <<e[1]>>
      BY <2>2, <3>1
    <3> QED BY <2>1, <2>2, <3>2 DEF NeedOf
  <2>3. CASE ~(Len(e) = 1 /\ e[1] \in Ids(child.steps))
    BY <2>1, <2>3 DEF NeedOf
  <2> QED BY <2>2, <2>3
<1> QED BY <1>2, <1>3, <1>4

LEMMA AppendOne ==
  ASSUME NEW p \in Names, NEW a \in Words
  PROVE  p \o <<a>> = Append(p, a)
BY AppendIsConcat DEF Names

LEMMA FitsChained ==
  ASSUME NEW child, NEW s, NEW p, NEW body, NEW final, NEW E,
         Fits(child, s, p, body, final, E), s.needs = {}, Distinct(body), Chained(body)
  PROVE  Chained(E)
<1> DEFINE q == Append(p, s.id)  m == Len(body)  f == Len(final)
<1>0. Frame(s, p, q, m, f, body, E)
  BY FitsFacts
<1>1. /\ Len(q) \in Nat /\ Len(q) = Len(p) + 1 /\ Len(p) \in Nat
      /\ m \in Nat /\ f \in Nat /\ Len(E) \in Nat /\ m + f <= Len(E)
      /\ \A k \in 1..Len(E) : E[k].id \in Names
      /\ \A k \in 1..Len(E) : \/ k \in 1..m \/ k \in (m + 1)..(m + f)
                              \/ k \in (m + f + 1)..Len(E)
      /\ \A k \in 1..m : Len(E[k].id) > Len(q)
      /\ \A k \in (m + 1)..Len(E) : k - 1 \in 1..Len(E) /\ E[k].needs = {E[k - 1].id}
  BY <1>0 DEF Frame
<1>2. \A k \in 1..m : E[k].id = body[k].id
  <2>1. \A k \in 1..m : body[k].id # <<>>
    BY DEF Distinct
  <2> QED BY <1>0, <2>1 DEF Frame
<1>h. \A k \in 1..m : E[k].hidden = body[k].hidden
  <2>1. Parts(child, s, q, body, final, E)
    BY DEF Fits
  <2> QED BY <2>1 DEF Parts
<1>3. ASSUME NEW k \in 1..m
      PROVE  /\ E[k].needs = body[k].needs
             /\ E[k].needs # {} => k - 1 \in 1..m /\ E[k].needs = {E[k - 1].id}
  <2>1. body[k].needs # {} => k - 1 \in 1..m /\ body[k].needs = {body[k - 1].id}
    BY DEF Chained
  <2>2. ASSUME NEW d \in body[k].needs PROVE ~(Len(d) = 1)
    <3>1. d = E[k - 1].id /\ k - 1 \in 1..m
      BY <1>2, <2>1, <2>2
    <3>2. Len(d) > Len(q) /\ Len(d) \in Nat
      <4>1. k - 1 \in 1..Len(E)
        BY <1>0, <3>1 DEF Frame
      <4> QED BY <1>1, <3>1, <4>1 DEF Names
    <3> HIDE DEF q, m, f
    <3> DEFINE a == Len(q)  b == Len(p)  c == Len(d)
    <3>3. a \in Nat /\ b \in Nat /\ a = b + 1 /\ c \in Nat /\ c > a
      BY <1>1, <3>2
    <3> HIDE DEF a, b, c
    <3>4. ~(c = 1)
      BY <3>3
    <3> QED BY <3>4 DEF c
  <2>3. Parts(child, s, q, body, final, E)
    BY DEF Fits
  <2>4. E[k].needs = {IF Len(e) = 1 /\ e[1] \in Ids(child.steps) THEN q \o e ELSE e :
                        e \in body[k].needs}
                     \cup IF k = 1 THEN {<<y>> : y \in s.needs} ELSE {}
    BY <2>3 DEF Parts
  <2>5. (IF k = 1 THEN {<<y>> : y \in s.needs} ELSE {}) = {}
    OBVIOUS
  <2>6. {IF Len(e) = 1 /\ e[1] \in Ids(child.steps) THEN q \o e ELSE e :
           e \in body[k].needs} = body[k].needs
    BY <2>2
  <2>7. E[k].needs = body[k].needs
    BY <2>4, <2>5, <2>6
  <2> QED BY <1>2, <2>1, <2>7
<1>4. ASSUME NEW k \in 1..Len(E)
      PROVE  /\ E[k].needs # {} => k - 1 \in 1..Len(E) /\ E[k].needs = {E[k - 1].id}
             /\ E[k].hidden => E[k].needs # {}
  <2>1. CASE k \in 1..m
    <3>1. body[k].hidden => body[k].needs # {}
      BY <2>1 DEF Chained
    <3>2. \A i \in 1..m : i \in 1..Len(E)
      BY <1>0 DEF Frame
    <3> QED BY <2>1, <3>1, <3>2, <1>3, <1>h
  <2>2. CASE k \in (m + 1)..Len(E)
    BY <1>1, <2>2
  <2>3. k \in 1..m \/ k \in (m + 1)..Len(E)
    <3> HIDE DEF m, f
    <3> QED BY <1>1
  <2> QED BY <2>1, <2>2, <2>3
<1> QED BY <1>4 DEF Chained

LEMMA FitsBehind ==
  ASSUME NEW child, NEW s, NEW p, NEW body, NEW final, NEW E,
         Fits(child, s, p, body, final, E), s.id # "finally", child.steps \in Seq(Steps),
         Distinct(body), Plain(Append(p, s.id), body),
         Behind(Append(p, s.id), Ids(child.steps), body)
  PROVE  BehindHere(p, s, E)
<1> DEFINE q == Append(p, s.id)  m == Len(body)  f == Len(final)
           Here(i, d) ==
             \/ \E y \in s.needs : d = <<y>>
             \/ Len(d) >= Len(p) + 2 /\ \E j \in 1..Len(E) : j < i /\ E[j].id = d
             \/ /\ IsPrefix(q, d) /\ Len(d) >= Len(p) + 2 /\ d[Len(d) - 1] # "finally"
                /\ \A j \in 1..Len(E) : ~E[j].always /\ E[j].id = d => j < i
<1>0. Frame(s, p, q, m, f, body, E)
  BY FitsFacts
<1>1. /\ q \in Names /\ Len(q) \in Nat /\ Len(q) = Len(p) + 1 /\ Len(p) \in Nat
      /\ q[Len(q)] = s.id
      /\ m \in Nat /\ f \in Nat /\ Len(E) \in Nat /\ m + f <= Len(E)
      /\ \A k \in 1..Len(E) : E[k].id \in Names
      /\ \A k \in 1..Len(E) : \/ k \in 1..m \/ k \in (m + 1)..(m + f)
                              \/ k \in (m + f + 1)..Len(E)
      /\ \A k \in 1..m : k \in 1..Len(E) /\ E[k].always = body[k].always
      /\ \A k \in 1..m : Len(E[k].id) > Len(q) /\ body[k].needs \in SUBSET Names
      /\ \A k \in (m + 1)..Len(E) : k - 1 \in 1..Len(E) /\ E[k].needs = {E[k - 1].id}
      /\ \A k \in (m + 1)..(m + f) : E[k].always /\ Len(E[k].id) = Len(q) + 2
      /\ \A k \in (m + f + 1)..Len(E) : E[k].id = q
  BY <1>0 DEF Frame
<1>2. \A k \in 1..m : E[k].id = body[k].id
  <2>1. \A k \in 1..m : body[k].id # <<>>
    BY DEF Distinct
  <2> QED BY <1>0, <2>1 DEF Frame
<1>s. Behind(q, Ids(child.steps), body)
  OBVIOUS
<1>t. Ids(child.steps) \subseteq Words
  BY StepWords DEF Ids
<1>n. ASSUME NEW k \in 1..m, NEW d \in E[k].needs
      PROVE  NeedOf(child, s, q, body, k, d)
  <2> HIDE DEF q
  <2>1. q = Append(p, s.id)
    BY DEF q
  <2> QED BY <2>1, FitsNeeds
<1> HIDE DEF q
(* A name longer than that of the include is no shim's.                    *)
<1>3. ASSUME NEW k \in 1..m, NEW d \in Names, Len(d) >= Len(p) + 2,
             \A j \in 1..m : ~body[j].always /\ body[j].id = d => j < k,
             NEW j \in 1..Len(E), ~E[j].always, E[j].id = d
      PROVE  j < k
  <2>1. CASE j \in 1..m
    BY <1>1, <1>2, <1>3, <2>1
  <2>2. CASE j \in (m + f + 1)..Len(E)
    <3>1. Len(d) = Len(p) + 1
      BY <1>1, <1>3, <2>2
    <3> QED BY <1>1, <1>3, <3>1
  <2> QED BY <1>1, <1>3, <2>1, <2>2
<1>4. ASSUME NEW k \in 1..m, NEW d \in E[k].needs PROVE Here(k, d)
  <2>1. CASE \E y \in s.needs : d = <<y>>
    BY <2>1
  <2>2. CASE \E y \in Ids(child.steps) : <<y>> \in body[k].needs /\ d = q \o <<y>>
    <3>1. PICK y \in Ids(child.steps) : <<y>> \in body[k].needs /\ d = q \o <<y>>
      BY <2>2
    <3>2. y \in Words /\ d = Append(q, y)
      BY <1>1, <1>t, <3>1, AppendOne
    <3>3. /\ d \in Names /\ IsPrefix(q, d) /\ Len(d) = Len(q) + 1
          /\ \A i \in 1..Len(q) : d[i] = q[i]
      BY <1>1, <3>2, PrefixOne, PrefixFacts
    <3>4. Len(d) >= Len(p) + 2 /\ Len(d) - 1 = Len(q) /\ Len(q) \in 1..Len(q)
      BY <1>1, <3>3
    <3>5. d[Len(d) - 1] # "finally"
      BY <1>1, <3>3, <3>4
    <3>6. BehindOne(q, Ids(child.steps), body, k, <<y>>)
      BY <1>s, <3>1 DEF Behind
    <3>7. \A j \in 1..m : ~body[j].always /\ body[j].id = d => j < k
      <4>1. Len(<<y>>) = 1 /\ ~(1 >= Len(q) + 2)
        BY <1>1
      <4>2. ~(Len(<<y>>) >= Len(q) + 2)
        BY <4>1
      <4>3. PICK z \in Ids(child.steps) :
              /\ <<y>> = <<z>>
              /\ \A j \in 1..m : ~body[j].always /\ body[j].id = Append(q, z) => j < k
        BY <3>6, <4>2 DEF BehindOne
      <4>4. y = z
        BY <4>3
      <4> QED BY <3>2, <4>3, <4>4
    <3>8. \A j \in 1..Len(E) : ~E[j].always /\ E[j].id = d => j < k
      BY <1>3, <3>3, <3>4, <3>7
    <3> QED BY <3>3, <3>4, <3>5, <3>8
  <2>3. CASE d \in body[k].needs /\ ~(Len(d) = 1 /\ d[1] \in Ids(child.steps))
    <3>1. BehindOne(q, Ids(child.steps), body, k, d) /\ d \in Names
      BY <1>1, <1>s, <2>3 DEF Behind
    <3>2. Len(d) \in Nat
      BY <3>1 DEF Names
    <3>3. ~ \E y \in Ids(child.steps) : d = <<y>>
      BY <2>3
    <3>4. CASE Len(d) >= Len(q) + 2 /\ \E j \in 1..m : j < k /\ body[j].id = d
      <4>1. Len(d) >= Len(p) + 2
        BY <1>1, <3>2, <3>4
      <4>2. \E j \in 1..Len(E) : j < k /\ E[j].id = d
        BY <1>1, <1>2, <3>4
      <4> QED BY <4>1, <4>2
    <3>5. CASE /\ IsPrefix(q, d) /\ Len(d) >= Len(q) + 2 /\ d[Len(d) - 1] # "finally"
               /\ \A j \in 1..m : ~body[j].always /\ body[j].id = d => j < k
      <4>1. Len(d) >= Len(p) + 2
        BY <1>1, <3>2, <3>5
      <4>2. \A j \in 1..Len(E) : ~E[j].always /\ E[j].id = d => j < k
        BY <1>3, <3>1, <3>5, <4>1
      <4> QED BY <3>5, <4>1, <4>2
    <3> QED BY <3>1, <3>3, <3>4, <3>5 DEF BehindOne
  <2> HIDE DEF Here
  <2> QED BY <1>n, <2>1, <2>2, <2>3 DEF NeedOf
<1>5. ASSUME NEW k \in (m + 1)..Len(E), NEW d \in E[k].needs PROVE Here(k, d)
  <2>1. d = E[k - 1].id /\ k - 1 \in 1..Len(E) /\ k - 1 < k
    BY <1>1
  <2>2. Len(d) >= Len(p) + 2
    <3>1. k - 1 \in 1..m \/ k - 1 \in (m + 1)..(m + f)
      <4>1. Len(E) <= m + f + 1
        BY <1>0 DEF Frame
      <4> HIDE DEF m, f
      <4> QED BY <1>1, <4>1
    <3>2. Len(E[k - 1].id) \in Nat
      BY <1>1, <2>1 DEF Names
    <3>3. Len(E[k - 1].id) > Len(q) \/ Len(E[k - 1].id) = Len(q) + 2
      BY <1>1, <3>1
    <3> QED BY <1>1, <2>1, <3>2, <3>3
  <2> QED BY <2>1, <2>2
<1>6. ASSUME NEW k \in 1..Len(E), NEW d \in E[k].needs PROVE Here(k, d)
  <2>1. k \in 1..m \/ k \in (m + 1)..Len(E)
    <3> HIDE DEF m, f
    <3> QED BY <1>1
  <2> HIDE DEF Here
  <2> QED BY <2>1, <1>4, <1>5
<1> QED BY <1>6 DEF BehindHere, q

-----------------------------------------------------------------------------
(* A step that does not include, and what all steps give.                  *)

NoFinally(l) ==
  \A f \in DOMAIN l : \A i \in DOMAIN l[f].steps :
    l[f].steps[i].action = "include" => l[f].steps[i].id # "finally"
Named(l) == \A f \in DOMAIN l : \A i \in DOMAIN l[f].steps : l[f].steps[i].id # NoId
NoNeeds(l) == \A f \in DOMAIN l : \A i \in DOMAIN l[f].steps : l[f].steps[i].needs = {}
Backwards(l) ==
  \A f \in DOMAIN l : \A i \in DOMAIN l[f].steps :
    l[f].steps[i].needs \subseteq Ids(SubSeq(l[f].steps, 1, i - 1))

StepSound(l, p, s, ns) ==
  /\ Shape(p, ns) /\ Begins(ns) /\ Headed(p, s, ns) /\ Nested(ns)
  /\ NoFinally(l) => Plain(p, ns)
  /\ Named(l) => Distinct(ns)
  /\ Named(l) /\ NoNeeds(l) => Chained(ns)
  /\ Named(l) /\ NoFinally(l) /\ Backwards(l) => BehindHere(p, s, ns)

FileSound(l, p, steps, ns) ==
  /\ Shape(p, ns) /\ Begins(ns) /\ Nested(ns)
  /\ NoFinally(l) => Plain(p, ns)
  /\ Named(l) => Distinct(ns)
  /\ Named(l) /\ NoNeeds(l) => Chained(ns)
  /\ Named(l) /\ NoFinally(l) /\ Backwards(l) => Behind(p, Ids(steps), ns)

(* What holds of the steps of a library.                                   *)
Ordinary(l, s) ==
  /\ NoFinally(l) /\ s.action = "include" => s.id # "finally"
  /\ Named(l) => s.id # NoId
  /\ NoNeeds(l) => s.needs = {}

LEMMA LeafSound ==
  ASSUME NEW l, NEW s \in Steps, NEW p \in Names
  PROVE  /\ Shape(p, <<Leaf(s, p)>>) /\ Begins(<<Leaf(s, p)>>)
         /\ Ordinary(l, s) => StepSound(l, p, s, <<Leaf(s, p)>>)
<1> DEFINE n == Leaf(s, p)  q == Append(p, s.id)  ns == <<n>>
<1>1. /\ n \in NodeType /\ n.id = (IF s.id = NoId THEN <<>> ELSE q) /\ n.scope = p
      /\ n.needs = {<<d>> : d \in s.needs} /\ ~n.always /\ ~n.hidden
  BY LeafType
<1>2. /\ q \in Names /\ Len(q) = Len(p) + 1 /\ q # <<>> /\ IsPrefix(p, q) /\ IsPrefix(q, q)
      /\ IsPrefix(p, p) /\ Len(p) \in Nat
  <2>1. s.id \in Words
    BY StepWords
  <2>2. q \in Names /\ Len(q) = Len(p) + 1 /\ q # <<>> /\ IsPrefix(p, q)
    BY <2>1, PrefixOne
  <2> HIDE DEF q
  <2> QED BY <2>2, PrefixSelf DEF Names
<1> HIDE DEF n, q
<1>3. ns \in Seq(NodeType) /\ Len(ns) = 1 /\ ns[1] = n /\ \A k \in 1..Len(ns) : k = 1 /\ ns[k] = n
  BY <1>1
<1> HIDE DEF ns
<1>4. Shape(p, ns)
  <2>1. n.id # <<>> => IsPrefix(p, n.id) /\ Len(n.id) > Len(p)
    BY <1>1, <1>2
  <2> QED BY <1>1, <1>2, <1>3, <2>1 DEF Shape
<1>5. Begins(ns)
  <2>1. ns # <<>>
    BY <1>3
  <2>2. ~ns[1].always
    BY <1>1, <1>3
  <2> QED BY <2>1, <2>2 DEF Begins
<1>6. Headed(p, s, ns)
  <2>1. n.id = <<>> \/ IsPrefix(q, n.id)
    BY <1>1, <1>2
  <2> QED BY <1>1, <1>3, <2>1 DEF Headed, q
<1>7. Nested(ns)
  BY <1>1, <1>3 DEF Nested
<1>8. Plain(p, ns)
  <2>1. ~(Len(n.id) >= Len(p) + 2)
    <3>1. Len(n.id) = 0 \/ Len(n.id) = Len(p) + 1
      BY <1>1, <1>2
    <3> QED BY <1>2, <3>1
  <2> QED BY <1>3, <2>1 DEF Plain
<1>9. s.id # NoId => Distinct(ns)
  BY <1>1, <1>2, <1>3 DEF Distinct
<1>10. s.needs = {} => Chained(ns)
  <2>1. s.needs = {} => n.needs = {}
    BY <1>1
  <2> QED BY <1>1, <1>3, <2>1 DEF Chained
<1>11. BehindHere(p, s, ns)
  BY <1>1, <1>3 DEF BehindHere
<1>12. Ordinary(l, s) => StepSound(l, p, s, ns)
  BY <1>4, <1>5, <1>6, <1>7, <1>8, <1>9, <1>10, <1>11 DEF StepSound, Ordinary
<1> QED BY <1>4, <1>5, <1>12 DEF n, ns

(* The order of what is put together.                                      *)
Ordered(F, at, pos) ==
  \A i \in 1..Len(F), j \in 1..Len(F) :
    /\ at[i] < at[j] => i < j
    /\ at[i] = at[j] /\ pos[i] < pos[j] => i < j
    /\ at[i] = at[j] /\ pos[i] = pos[j] => i = j

LEMMA SpreadsOrder ==
  ASSUME NEW seqs, NEW k \in Nat, NEW F, Len(F) \in Nat, NEW at, NEW pos,
         Spreads(seqs, k, F, at, pos)
  PROVE  Ordered(F, at, pos)
<1> SUFFICES ASSUME NEW i \in 1..Len(F), NEW j \in 1..Len(F)
             PROVE  /\ at[i] < at[j] => i < j
                    /\ at[i] = at[j] /\ pos[i] < pos[j] => i < j
                    /\ at[i] = at[j] /\ pos[i] = pos[j] => i = j
  BY DEF Ordered
<1>1. /\ at[i] \in 1..k /\ at[j] \in 1..k /\ pos[i] \in Nat /\ pos[j] \in Nat
      /\ i < j => at[i] < at[j] \/ (at[i] = at[j] /\ pos[i] < pos[j])
      /\ j < i => at[j] < at[i] \/ (at[j] = at[i] /\ pos[j] < pos[i])
  BY DEF Spreads
<1>2. i < j \/ i = j \/ j < i
  OBVIOUS
<1> QED BY <1>1, <1>2

Together(steps, seqs, F, at, pos) ==
  /\ steps \in Seq(Steps) /\ steps # <<>>
  /\ seqs \in Seq(Seq(NodeType)) /\ Len(seqs) = Len(steps)
  /\ F \in Seq(NodeType) /\ Spreads(seqs, Len(seqs), F, at, pos)

LEMMA TogetherFacts ==
  ASSUME NEW steps, NEW seqs, NEW F, NEW at, NEW pos, Together(steps, seqs, F, at, pos)
  PROVE  /\ Len(steps) \in Nat /\ Len(steps) # 0 /\ Len(F) \in Nat
         /\ \A k \in 1..Len(F) :
              /\ at[k] \in 1..Len(steps) /\ steps[at[k]] \in Steps
              /\ pos[k] \in 1..Len(seqs[at[k]]) /\ F[k] = seqs[at[k]][pos[k]]
              /\ F[k] \in NodeType /\ F[k].id \in Names /\ F[k].scope \in Names
         /\ Ordered(F, at, pos)
<1>1. /\ Len(steps) \in Nat /\ Len(steps) # 0 /\ Len(F) \in Nat /\ Len(seqs) = Len(steps)
      /\ Spreads(seqs, Len(seqs), F, at, pos) /\ F \in Seq(NodeType) /\ steps \in Seq(Steps)
  BY DEF Together
<1>2. ASSUME NEW k \in 1..Len(F)
      PROVE  /\ at[k] \in 1..Len(steps) /\ steps[at[k]] \in Steps
             /\ pos[k] \in 1..Len(seqs[at[k]]) /\ F[k] = seqs[at[k]][pos[k]]
             /\ F[k] \in NodeType
  <2>1. at[k] \in 1..Len(steps)
    BY <1>1 DEF Spreads
  <2>2. pos[k] \in 1..Len(seqs[at[k]]) /\ F[k] = seqs[at[k]][pos[k]]
    BY <1>1 DEF Spreads
  <2>3. F[k] \in NodeType /\ steps[at[k]] \in Steps
    BY <1>1, <2>1
  <2> QED BY <2>1, <2>2, <2>3
<1>3. Ordered(F, at, pos)
  <2>1. Len(seqs) \in Nat
    BY <1>1
  <2> QED BY <1>1, <2>1, SpreadsOrder
<1>4. \A n \in NodeType : n.id \in Names /\ n.scope \in Names
  BY DEF NodeType
<1> QED BY <1>1, <1>2, <1>3, <1>4

(* Two steps whose nodes share the beginning of a name are one.            *)
LEMMA SameStep ==
  ASSUME NEW wf, Valid(wf), wf.steps \in Seq(Steps), NEW p \in Names, NEW d \in Names,
         NEW a \in DOMAIN wf.steps, NEW b \in DOMAIN wf.steps,
         IsPrefix(Append(p, wf.steps[a].id), d), IsPrefix(Append(p, wf.steps[b].id), d),
         wf.steps[a].id # NoId
  PROVE  a = b
<1> DEFINE steps == wf.steps
<1>1. steps[a].id \in Words /\ steps[b].id \in Words
  BY StepWords
<1>2. d[Len(p) + 1] = steps[a].id /\ d[Len(p) + 1] = steps[b].id
  BY <1>1, PrefixOne
<1> QED BY <1>2 DEF Valid

LEMMA TogetherShape ==
  ASSUME NEW steps, NEW seqs, NEW F, NEW at, NEW pos, Together(steps, seqs, F, at, pos),
         NEW p, \A a \in 1..Len(steps) : Shape(p, seqs[a]) /\ Begins(seqs[a])
  PROVE  Shape(p, F) /\ Begins(F)
<1>1. /\ Len(steps) \in Nat /\ Len(steps) # 0 /\ Len(F) \in Nat
      /\ \A k \in 1..Len(F) : /\ at[k] \in 1..Len(steps)
                              /\ pos[k] \in 1..Len(seqs[at[k]]) /\ F[k] = seqs[at[k]][pos[k]]
  BY TogetherFacts
<1>2. Shape(p, F)
  <2>1. ASSUME NEW k \in 1..Len(F)
        PROVE /\ IsPrefix(p, F[k].scope)
              /\ F[k].always => Len(F[k].scope) > Len(p)
              /\ F[k].always =>
                   /\ IsPrefix(p, F[k].id) /\ Len(F[k].id) >= Len(p) + 3
                   /\ F[k].id[Len(F[k].id) - 1] = "finally"
                   /\ \E d \in Names : d # <<>> /\ F[k].needs = {d}
              /\ ~F[k].always /\ F[k].id # <<>> => IsPrefix(p, F[k].id) /\ Len(F[k].id) > Len(p)
    <3> DEFINE E == seqs[at[k]]  i == pos[k]
    <3>1. Shape(p, E) /\ i \in 1..Len(E) /\ F[k] = E[i]
      BY <1>1
    <3> HIDE DEF E, i
    <3> QED BY <3>1 DEF Shape
  <2> QED BY <2>1 DEF Shape, Together
<1>3. /\ \A a \in 1..Len(seqs) : \A q \in 1..Len(seqs[a]) :
           \E i \in 1..Len(F) : at[i] = a /\ pos[i] = q
      /\ F # <<>> => pos[1] = 1
      /\ F \in Seq(NodeType) /\ seqs \in Seq(Seq(NodeType)) /\ Len(seqs) = Len(steps)
  BY DEF Together, Spreads
<1>4. F # <<>>
  <2>1. 1 \in 1..Len(seqs) /\ seqs[1] # <<>>
    BY <1>1, <1>3 DEF Begins
  <2>2. seqs[1] \in Seq(NodeType)
    BY <1>3, <2>1
  <2>3. 1 \in 1..Len(seqs[1])
    BY <2>1, <2>2
  <2>4. \E i \in 1..Len(F) : TRUE
    BY <1>3, <2>1, <2>3
  <2> QED BY <1>1, <2>4
<1>5. ~F[1].always
  <2>1. 1 \in 1..Len(F)
    BY <1>3, <1>4
  <2>2. F[1] = seqs[at[1]][1] /\ at[1] \in 1..Len(steps)
    BY <1>1, <1>3, <1>4, <2>1
  <2> QED BY <2>2 DEF Begins
<1> QED BY <1>2, <1>4, <1>5 DEF Begins

LEMMA TogetherNested ==
  ASSUME NEW wf, Valid(wf), NEW seqs, NEW F, NEW at, NEW pos,
         Together(wf.steps, seqs, F, at, pos), NEW p \in Names,
         \A a \in 1..Len(wf.steps) :
           Shape(p, seqs[a]) /\ Headed(p, wf.steps[a], seqs[a]) /\ Nested(seqs[a])
  PROVE  Nested(F)
<1> DEFINE steps == wf.steps
<1>1. /\ \A k \in 1..Len(F) : /\ at[k] \in 1..Len(steps) /\ steps[at[k]] \in Steps
                              /\ pos[k] \in 1..Len(seqs[at[k]]) /\ F[k] = seqs[at[k]][pos[k]]
                              /\ F[k].id \in Names /\ F[k].scope \in Names
      /\ \A i \in 1..Len(F), j \in 1..Len(F) : at[i] = at[j] /\ pos[i] < pos[j] => i < j
  BY TogetherFacts DEF Ordered
<1>2. steps \in Seq(Steps)
  BY DEF Together
<1>3. SUFFICES ASSUME NEW t \in 1..Len(F), NEW k \in 1..Len(F), F[t].always, ~F[k].always,
                      IsPrefix(F[t].scope, F[k].scope), F[k].id # F[t].scope
               PROVE  k < t
  BY DEF Nested
<1> DEFINE a == at[t]  b == at[k]
<1>4. /\ a \in 1..Len(steps) /\ b \in 1..Len(steps) /\ steps[a] \in Steps /\ steps[b] \in Steps
      /\ pos[t] \in 1..Len(seqs[a]) /\ pos[k] \in 1..Len(seqs[b])
      /\ F[t] = seqs[a][pos[t]] /\ F[k] = seqs[b][pos[k]]
  BY <1>1
<1> HIDE DEF a, b
<1>5. steps[a].action = "include" /\ IsPrefix(Append(p, steps[a].id), F[t].scope)
  BY <1>3, <1>4 DEF Headed
<1>6. steps[a].id # NoId
  <2>1. a \in DOMAIN steps
    BY <1>2, <1>4
  <2>2. steps[a].id = NoId => steps[a].action = "assert"
    BY <2>1 DEF Valid
  <2> QED BY <1>5, <2>2
<1>7. IsPrefix(Append(p, steps[a].id), F[k].scope)
  <2>1. Append(p, steps[a].id) \in Names
    BY <1>4, StepWords, PrefixOne
  <2> QED BY <1>1, <1>3, <1>5, <2>1, PrefixTrans
<1>8. IsPrefix(Append(p, steps[b].id), F[k].scope)
  <2>1. F[k].scope = p \/ IsPrefix(Append(p, steps[b].id), F[k].scope)
    BY <1>4 DEF Headed
  <2>2. F[k].scope # p
    <3>1. Len(F[k].scope) > Len(p) /\ Len(p) \in Nat
      <4>1. steps[a].id \in Words /\ F[k].scope \in Names
        BY <1>1, <1>4, StepWords
      <4> QED BY <1>7, <4>1, PrefixOne DEF Names
    <3> QED BY <3>1
  <2> QED BY <2>1, <2>2
<1>9. a = b
  <2>1. a \in DOMAIN steps /\ b \in DOMAIN steps
    BY <1>2, <1>4
  <2>2. F[k].scope \in Names
    BY <1>1
  <2> QED BY <1>2, <1>6, <1>7, <1>8, <2>1, <2>2, SameStep
<1>10. pos[k] < pos[t]
  BY <1>3, <1>4, <1>9 DEF Nested
<1> QED BY <1>1, <1>9, <1>10 DEF a, b

LEMMA TogetherPlain ==
  ASSUME NEW steps, NEW seqs, NEW F, NEW at, NEW pos, Together(steps, seqs, F, at, pos),
         NEW p, \A a \in 1..Len(steps) : Plain(p, seqs[a])
  PROVE  Plain(p, F)
<1>1. \A k \in 1..Len(F) : /\ at[k] \in 1..Len(steps)
                           /\ pos[k] \in 1..Len(seqs[at[k]]) /\ F[k] = seqs[at[k]][pos[k]]
  BY TogetherFacts
<1> SUFFICES ASSUME NEW k \in 1..Len(F), ~F[k].always, Len(F[k].id) >= Len(p) + 2
             PROVE  F[k].id[Len(F[k].id) - 1] # "finally"
  BY DEF Plain
<1> DEFINE E == seqs[at[k]]  i == pos[k]
<1>2. Plain(p, E) /\ i \in 1..Len(E) /\ F[k] = E[i]
  BY <1>1
<1> HIDE DEF E, i
<1> QED BY <1>2 DEF Plain

LEMMA TogetherDistinct ==
  ASSUME NEW wf, Valid(wf), NEW seqs, NEW F, NEW at, NEW pos,
         Together(wf.steps, seqs, F, at, pos), NEW p \in Names,
         \A a \in 1..Len(wf.steps) :
           /\ wf.steps[a].id # NoId
           /\ Headed(p, wf.steps[a], seqs[a]) /\ Distinct(seqs[a])
  PROVE  Distinct(F)
<1> DEFINE steps == wf.steps
<1>1. /\ \A k \in 1..Len(F) : /\ at[k] \in 1..Len(steps) /\ steps[at[k]] \in Steps
                              /\ pos[k] \in 1..Len(seqs[at[k]]) /\ F[k] = seqs[at[k]][pos[k]]
                              /\ F[k].id \in Names
      /\ \A i \in 1..Len(F), j \in 1..Len(F) : at[i] = at[j] /\ pos[i] = pos[j] => i = j
  BY TogetherFacts DEF Ordered
<1>2. steps \in Seq(Steps)
  BY DEF Together
<1>3. ASSUME NEW k \in 1..Len(F)
      PROVE  F[k].id # <<>> /\ IsPrefix(Append(p, steps[at[k]].id), F[k].id)
  <2> DEFINE E == seqs[at[k]]  i == pos[k]  a == at[k]
  <2>1. /\ Distinct(E) /\ Headed(p, steps[a], E) /\ i \in 1..Len(E) /\ F[k] = E[i]
    BY <1>1
  <2> HIDE DEF E, i, a
  <2>2. F[k].id # <<>> /\ IsPrefix(Append(p, steps[a].id), F[k].id)
    BY <2>1 DEF Distinct, Headed
  <2> QED BY <2>2 DEF a
<1>4. ASSUME NEW i \in 1..Len(F), NEW j \in 1..Len(F), ~F[i].always, ~F[j].always,
             F[i].id = F[j].id
      PROVE  i = j
  <2> DEFINE a == at[i]  b == at[j]
  <2>1. /\ a \in DOMAIN steps /\ b \in DOMAIN steps /\ steps[a].id # NoId
        /\ IsPrefix(Append(p, steps[a].id), F[i].id) /\ IsPrefix(Append(p, steps[b].id), F[i].id)
    BY <1>1, <1>2, <1>3, <1>4
  <2>2. F[i].id \in Names
    BY <1>1
  <2> HIDE DEF a, b
  <2>3. a = b
    BY <1>2, <2>1, <2>2, SameStep
  <2> DEFINE E == seqs[at[i]]  x == pos[i]  y == pos[j]
  <2>4. /\ Distinct(E) /\ x \in 1..Len(E) /\ y \in 1..Len(E)
        /\ F[i] = E[x] /\ F[j] = E[y]
    BY <1>1, <2>3 DEF a, b
  <2> HIDE DEF E, x, y
  <2>5. x = y
    BY <1>4, <2>4 DEF Distinct
  <2> QED BY <1>1, <2>3, <2>5 DEF a, b, x, y
<1> QED BY <1>3, <1>4 DEF Distinct

LEMMA TogetherChained ==
  ASSUME NEW steps, NEW seqs, NEW F, NEW at, NEW pos, Together(steps, seqs, F, at, pos),
         \A a \in 1..Len(steps) : Chained(seqs[a])
  PROVE  Chained(F)
<1>1. /\ Len(F) \in Nat
      /\ \A k \in 1..Len(F) : /\ at[k] \in 1..Len(steps)
                              /\ pos[k] \in 1..Len(seqs[at[k]]) /\ F[k] = seqs[at[k]][pos[k]]
  BY TogetherFacts
<1>2. /\ F # <<>> => pos[1] = 1
      /\ \A i \in 1..Len(F), j \in 1..Len(F) :
           j = i + 1 => (at[i] < at[j] /\ pos[j] = 1) \/ (at[i] = at[j] /\ pos[j] = pos[i] + 1)
      /\ pos \in [1..Len(F) -> Nat]
  BY DEF Together, Spreads
<1>3. ASSUME NEW k \in 1..Len(F)
      PROVE  /\ F[k].needs # {} => k - 1 \in 1..Len(F) /\ F[k].needs = {F[k - 1].id}
             /\ F[k].hidden => F[k].needs # {}
  <2> DEFINE E == seqs[at[k]]  i == pos[k]
  <2>1. Chained(E) /\ i \in 1..Len(E) /\ F[k] = E[i]
    BY <1>1
  <2>2. /\ E[i].needs # {} => i - 1 \in 1..Len(E) /\ E[i].needs = {E[i - 1].id}
        /\ E[i].hidden => E[i].needs # {}
    <3> HIDE DEF E, i
    <3> QED BY <2>1 DEF Chained
  <2>3. ASSUME F[k].needs # {}
        PROVE  k - 1 \in 1..Len(F) /\ F[k].needs = {F[k - 1].id}
    <3>1. i - 1 \in 1..Len(E) /\ F[k].needs = {E[i - 1].id}
      BY <2>1, <2>2, <2>3
    <3>2. i # 1
      <4> HIDE DEF E, i
      <4> QED BY <3>1
    <3>3. F # <<>>
      BY <1>1
    <3>4. k # 1
      BY <1>2, <3>2, <3>3
    <3>5. k - 1 \in 1..Len(F) /\ k = (k - 1) + 1
      BY <1>1, <3>4
    <3>6. at[k - 1] = at[k] /\ pos[k] = pos[k - 1] + 1
      BY <1>2, <3>2, <3>5
    <3>7. pos[k - 1] = i - 1
      BY <1>2, <3>5, <3>6
    <3>8. F[k - 1] = E[i - 1]
      BY <1>1, <3>5, <3>6, <3>7
    <3> QED BY <3>1, <3>5, <3>8
  <2> QED BY <2>1, <2>2, <2>3
<1> QED BY <1>3 DEF Chained

LEMMA TogetherBehind ==
  ASSUME NEW wf, Valid(wf), NEW seqs, NEW F, NEW at, NEW pos,
         Together(wf.steps, seqs, F, at, pos), NEW p \in Names,
         \A a \in 1..Len(wf.steps) :
           /\ wf.steps[a].id # NoId
           /\ wf.steps[a].needs \subseteq Ids(SubSeq(wf.steps, 1, a - 1))
           /\ Headed(p, wf.steps[a], seqs[a]) /\ Distinct(seqs[a])
           /\ BehindHere(p, wf.steps[a], seqs[a])
  PROVE  Behind(p, Ids(wf.steps), F)
<1> DEFINE steps == wf.steps
<1>1. /\ Len(F) \in Nat /\ Len(steps) \in Nat
      /\ \A k \in 1..Len(F) : /\ at[k] \in 1..Len(steps) /\ steps[at[k]] \in Steps
                              /\ pos[k] \in 1..Len(seqs[at[k]]) /\ F[k] = seqs[at[k]][pos[k]]
                              /\ F[k].id \in Names /\ F[k] \in NodeType
      /\ Ordered(F, at, pos)
  BY TogetherFacts
<1>2. steps \in Seq(Steps) /\ seqs \in Seq(Seq(NodeType)) /\ Len(seqs) = Len(steps)
      /\ \A a \in 1..Len(seqs) : \A q \in 1..Len(seqs[a]) :
           \E i \in 1..Len(F) : at[i] = a /\ pos[i] = q
  BY DEF Together, Spreads
<1>3. ASSUME NEW k \in 1..Len(F)
      PROVE  IsPrefix(Append(p, steps[at[k]].id), F[k].id)
  <2> DEFINE E == seqs[at[k]]  i == pos[k]  a == at[k]
  <2>1. /\ Distinct(E) /\ Headed(p, steps[a], E) /\ i \in 1..Len(E) /\ F[k] = E[i]
    BY <1>1
  <2> HIDE DEF E, i, a
  <2>2. IsPrefix(Append(p, steps[a].id), F[k].id)
    BY <2>1 DEF Distinct, Headed
  <2> QED BY <2>2 DEF a
<1>4. SUFFICES ASSUME NEW k \in 1..Len(F), NEW d \in F[k].needs
               PROVE  BehindOne(p, Ids(steps), F, k, d)
  BY DEF Behind
<1> DEFINE a == at[k]  E == seqs[a]  i == pos[k]  s == steps[a]
<1>5. /\ a \in 1..Len(steps) /\ s \in Steps /\ i \in 1..Len(E) /\ F[k] = E[i]
      /\ BehindHere(p, s, E) /\ Headed(p, s, E)
      /\ s.needs \subseteq Ids(SubSeq(steps, 1, a - 1))
  BY <1>1
<1>d. d \in Names
  <2>1. \A n \in NodeType : n.needs \in SUBSET Names
    BY DEF NodeType
  <2> QED BY <1>1, <2>1
<1>6. \/ \E y \in s.needs : d = <<y>>
      \/ Len(d) >= Len(p) + 2 /\ \E j \in 1..Len(E) : j < i /\ E[j].id = d
      \/ /\ IsPrefix(Append(p, s.id), d) /\ Len(d) >= Len(p) + 2 /\ d[Len(d) - 1] # "finally"
         /\ \A j \in 1..Len(E) : ~E[j].always /\ E[j].id = d => j < i
  <2> HIDE DEF a, E, i, s
  <2> QED BY <1>5 DEF BehindHere
<1>7. CASE \E y \in s.needs : d = <<y>>
  <2>1. PICK y \in s.needs : d = <<y>>
    BY <1>7
  <2>2. y \in Ids(SubSeq(steps, 1, a - 1))
    BY <1>5, <2>1
  <2>3. PICK b \in 1..(a - 1) : y = steps[b].id /\ y # NoId /\ b \in 1..Len(steps)
    <3> HIDE DEF a, E, i, s
    <3>1. a - 1 \in Nat /\ a - 1 <= Len(steps)
      BY <1>1, <1>5
    <3>2. /\ Len(SubSeq(steps, 1, a - 1)) = a - 1
          /\ \A b \in 1..(a - 1) : SubSeq(steps, 1, a - 1)[b] = steps[b]
          /\ SubSeq(steps, 1, a - 1) \in Seq(Steps)
      BY <1>1, <1>2, <3>1
    <3>3. \A b \in 1..(a - 1) : b \in 1..Len(steps)
      BY <1>1, <3>1
    <3> QED BY <2>2, <3>2, <3>3 DEF Ids
  <2>4. y \in Ids(steps)
    BY <1>2, <2>3 DEF Ids
  <2>5. ASSUME NEW j \in 1..Len(F), F[j].id = Append(p, y) PROVE j < k
    <3>1. /\ IsPrefix(Append(p, steps[at[j]].id), F[j].id)
          /\ IsPrefix(Append(p, steps[b].id), F[j].id)
      <4>1. Append(p, y) \in Names
        BY <1>1, <2>5
      <4> QED BY <1>3, <2>3, <2>5, <4>1, PrefixSelf
    <3>2. at[j] \in DOMAIN steps /\ b \in DOMAIN steps /\ steps[b].id # NoId
      <4> HIDE DEF a, E, i, s
      <4>1. at[j] \in 1..Len(steps) /\ b \in 1..Len(steps)
        BY <1>1, <2>3
      <4> QED BY <1>2, <2>3, <4>1
    <3>3. at[j] = b
      <4> DEFINE c == at[j]  e == F[j].id
      <4>1. /\ c \in DOMAIN steps /\ e \in Names
            /\ IsPrefix(Append(p, steps[c].id), e) /\ IsPrefix(Append(p, steps[b].id), e)
        BY <1>1, <3>1, <3>2
      <4> HIDE DEF c, e, a, E, i, s
      <4>2. c = b
        BY <1>2, <3>2, <4>1, SameStep
      <4> QED BY <4>2 DEF c
    <3>4. at[j] < at[k]
      <4>1. b < a
        <5> HIDE DEF a, E, i, s
        <5> QED BY <1>5, <1>1, <2>3
      <4> QED BY <3>3, <4>1
    <3> QED BY <1>1, <3>4 DEF Ordered
  <2> QED BY <2>1, <2>4, <2>5 DEF BehindOne
<1>8. CASE Len(d) >= Len(p) + 2 /\ \E j \in 1..Len(E) : j < i /\ E[j].id = d
  <2>1. PICK j \in 1..Len(E) : j < i /\ E[j].id = d
    BY <1>8
  <2>2. a \in 1..Len(seqs)
    BY <1>2, <1>5
  <2>3. PICK x \in 1..Len(F) : at[x] = a /\ pos[x] = j
    BY <1>2, <2>1, <2>2
  <2>4. F[x].id = d
    BY <1>1, <2>1, <2>3
  <2>5. x < k
    BY <1>1, <2>1, <2>3 DEF Ordered
  <2> QED BY <1>8, <2>4, <2>5 DEF BehindOne
<1>9. CASE /\ IsPrefix(Append(p, s.id), d) /\ Len(d) >= Len(p) + 2 /\ d[Len(d) - 1] # "finally"
           /\ \A j \in 1..Len(E) : ~E[j].always /\ E[j].id = d => j < i
  <2>1. ASSUME NEW j \in 1..Len(F), ~F[j].always, F[j].id = d PROVE j < k
    <3>1. /\ IsPrefix(Append(p, steps[at[j]].id), F[j].id)
          /\ IsPrefix(Append(p, s.id), F[j].id)
      BY <1>3, <1>9, <2>1
    <3>2. at[j] \in DOMAIN steps /\ a \in DOMAIN steps /\ s.id # NoId /\ F[j].id \in Names
      BY <1>1, <1>2, SMTT(30)
    <3>3. at[j] = a
      <4> DEFINE c == at[j]  e == F[j].id
      <4>1. /\ c \in DOMAIN steps /\ a \in DOMAIN steps /\ steps[a].id # NoId /\ e \in Names
            /\ IsPrefix(Append(p, steps[c].id), e) /\ IsPrefix(Append(p, steps[a].id), e)
        BY <1>1, <3>1, <3>2
      <4> HIDE DEF c, e, a, E, i, s
      <4>2. c = a
        BY <1>2, <4>1, SameStep
      <4> QED BY <4>2 DEF c
    <3>4. pos[j] \in 1..Len(E) /\ F[j] = E[pos[j]]
      BY <1>1, <3>3
    <3>5. pos[j] < i
      BY <1>9, <2>1, <3>4
    <3> QED BY <1>1, <3>3, <3>5 DEF Ordered
  <2>2. IsPrefix(p, d)
    <3>1. s.id \in Words
      BY <1>5, StepWords
    <3> QED BY <1>9, <1>d, <3>1, PrefixOne
  <2> QED BY <1>9, <2>1, <2>2 DEF BehindOne
<1> HIDE DEF a, E, i, s
<1> QED BY <1>6, <1>7, <1>8, <1>9

-----------------------------------------------------------------------------
(* What a file comes to.                                                   *)

Piece(l, g, s, p, chain) ==
  IF s.action = "include" THEN Expand(l, g, s, p, chain) ELSE Made(<<Leaf(s, p)>>)

SiteOf(s, p, chain) ==
  [file |-> s.file, prefix |-> Append(p, s.id), chain |-> Append(chain, s.file)]

(* What the definitions of Expand and CompileSteps say.                    *)
LEMMA ExpandIs ==
  ASSUME NEW l, NEW g, NEW s, NEW p, NEW chain, NEW y, y = SiteOf(s, p, chain)
  PROVE  LET r == Expand(l, g, s, p, chain) IN
         /\ r.ok <=> MayInclude(l, s.file, chain) /\ g[y].body.ok /\ g[y].final.ok
         /\ r.ok => r.nodes = Expanded(l[s.file], s, Append(p, s.id), g[y].body.nodes, g[y].final.nodes)
<1> DEFINE r == Expand(l, g, s, p, chain)
           E == Expanded(l[s.file], s, Append(p, s.id), g[y].body.nodes, g[y].final.nodes)
<1>1. /\ ~Refused.ok
      /\ \A ns : Made(ns).ok /\ Made(ns).nodes = ns
  BY DEF Refused, Made
<1>2. CASE ~MayInclude(l, s.file, chain)
  <2>1. r = Refused
    BY <1>2 DEF Expand
  <2> QED BY <1>1, <1>2, <2>1
<1>3. CASE MayInclude(l, s.file, chain)
  <2>1. r = IF ~g[y].body.ok \/ ~g[y].final.ok THEN Refused ELSE Made(E)
    BY <1>3, Zenon DEF Expand, SiteOf, Expanded
  <2> HIDE DEF r, E
  <2>2. CASE ~g[y].body.ok \/ ~g[y].final.ok
    BY <1>1, <1>3, <2>1, <2>2 DEF r
  <2>3. CASE ~(~g[y].body.ok \/ ~g[y].final.ok)
    BY <1>1, <1>3, <2>1, <2>3 DEF r, E
  <2> QED BY <2>2, <2>3
<1> QED BY <1>2, <1>3

LEMMA CompileIs ==
  ASSUME NEW l, NEW g, NEW steps \in Seq(Steps), NEW p, NEW chain
  PROVE  LET r == CompileSteps(l, g, steps, p, chain) IN
         /\ r.ok <=> \A i \in 1..Len(steps) : Piece(l, g, steps[i], p, chain).ok
         /\ r.ok => r.nodes = FlattenSeq([i \in 1..Len(steps) |-> Piece(l, g, steps[i], p, chain).nodes])
         /\ ~r.ok => r = Refused
<1> DEFINE r == CompileSteps(l, g, steps, p, chain)
           piece == [i \in DOMAIN steps |-> IF steps[i].action = "include"
                                            THEN Expand(l, g, steps[i], p, chain)
                                            ELSE Made(<<Leaf(steps[i], p)>>)]
           all == FlattenSeq([i \in DOMAIN steps |-> piece[i].nodes])
<1>1. /\ ~Refused.ok
      /\ \A ns : Made(ns).ok /\ Made(ns).nodes = ns
  BY DEF Refused, Made
<1>2. r = IF \A i \in DOMAIN steps : piece[i].ok THEN Made(all) ELSE Refused
  BY DEF CompileSteps
<1>3. \A i \in DOMAIN steps : piece[i] = Piece(l, g, steps[i], p, chain)
  BY DEF Piece
<1> HIDE DEF r, piece
<1>4. [i \in DOMAIN steps |-> piece[i].nodes]
        = [i \in DOMAIN steps |-> Piece(l, g, steps[i], p, chain).nodes]
  BY <1>3
<1>5. all = FlattenSeq([i \in DOMAIN steps |-> Piece(l, g, steps[i], p, chain).nodes])
  BY <1>4
<1> HIDE DEF all
<1>6. DOMAIN steps = 1..Len(steps)
  OBVIOUS
<1>7. CASE \A i \in DOMAIN steps : piece[i].ok
  <2>1. r = Made(all) /\ \A i \in DOMAIN steps : Piece(l, g, steps[i], p, chain).ok
    BY <1>2, <1>3, <1>7
  <2>2. r.ok /\ r.nodes = all
    BY <1>1, <2>1
  <2> QED BY <2>1, <2>2, <1>5, <1>6 DEF r
<1>8. CASE ~(\A i \in DOMAIN steps : piece[i].ok)
  <2>1. r = Refused /\ ~(\A i \in DOMAIN steps : Piece(l, g, steps[i], p, chain).ok)
    BY <1>2, <1>3, <1>8
  <2> QED BY <2>1, <1>1, <1>6 DEF r
<1> QED BY <1>7, <1>8

SiteSound(l, g, x) ==
  Valid(l[x.file]) =>
    /\ g[x].body.ok => FileSound(l, x.prefix, l[x.file].steps, g[x].body.nodes)
    /\ g[x].final.ok => Shape(x.prefix, g[x].final.nodes)

LEMMA PieceFits ==
  ASSUME NEW l, IsLibrary(l), NEW g, NEW s \in Steps, NEW p \in Places, NEW chain \in Seq(DOMAIN l),
         \A y \in Sites(l) :
           Len(y.chain) = Len(chain) + 1 /\ Len(chain) <= MaxIncludeDepth => SiteSound(l, g, y),
         s.action = "include", Piece(l, g, s, p, chain).ok
  PROVE  \E body, final :
           /\ Fits(l[s.file], s, p, body, final, Piece(l, g, s, p, chain).nodes)
           /\ FileSound(l, Append(p, s.id), l[s.file].steps, body)
           /\ s.file \in DOMAIN l
<1> DEFINE y == SiteOf(s, p, chain)
           body == g[y].body.nodes
           final == g[y].final.nodes
           E == Piece(l, g, s, p, chain).nodes
           q == Append(p, s.id)
<1>1. /\ MayInclude(l, s.file, chain) /\ g[y].body.ok /\ g[y].final.ok
      /\ E = Expanded(l[s.file], s, q, body, final)
  <2>1. Expand(l, g, s, p, chain).ok /\ E = Expand(l, g, s, p, chain).nodes
    BY DEF Piece
  <2> HIDE DEF E, y
  <2>2. y = SiteOf(s, p, chain)
    BY DEF y
  <2> QED BY <2>1, <2>2, ExpandIs
<1>2. /\ s.file \in DOMAIN l /\ Len(chain) <= MaxIncludeDepth /\ Valid(l[s.file])
  BY <1>1 DEF MayInclude
<1>3. y \in Sites(l) /\ Len(y.chain) = Len(chain) + 1 /\ y.file = s.file /\ y.prefix = q
  <2>1. q \in Places
    <3>1. s.id \in Strings /\ p \in Seq(Strings)
      BY StepWords DEF Places
    <3> QED BY <3>1, OneMore DEF Places
  <2>2. Append(chain, s.file) \in Seq(DOMAIN l) /\ Len(Append(chain, s.file)) = Len(chain) + 1
    BY <1>2
  <2> HIDE DEF q
  <2>3. SiteOf(s, p, chain) = [file |-> s.file, prefix |-> q, chain |-> Append(chain, s.file)]
    BY DEF SiteOf, q
  <2> QED BY <1>2, <2>1, <2>2, <2>3 DEF Sites, Places, Strings
<1>4. SiteSound(l, g, y)
  BY <1>2, <1>3
<1> HIDE DEF y
<1>5. FileSound(l, q, l[s.file].steps, body) /\ Shape(q, final)
  BY <1>1, <1>2, <1>3, <1>4 DEF SiteSound
<1>6. Parts(l[s.file], s, q, body, final, E)
  <2>1. Shape(q, body) /\ Begins(body) /\ Shape(q, final)
    BY <1>5 DEF FileSound
  <2>2. body \in Seq(NodeType) /\ final \in Seq(NodeType) /\ body # <<>>
    BY <2>1 DEF Shape, Begins
  <2>3. q \in Names
    BY StepWords, PrefixOne
  <2>4. l[s.file].outputs \in BOOLEAN
    BY <1>2 DEF IsLibrary
  <2> HIDE DEF body, final, E, q
  <2>5. Parts(l[s.file], s, q, body, final, Expanded(l[s.file], s, q, body, final))
    BY <2>2, <2>3, <2>4, ExpandedParts
  <2> QED BY <1>1, <2>5
<1>7. Fits(l[s.file], s, p, body, final, E)
  <2>1. p \in Names
    BY StepWords
  <2>2. Shape(q, body) /\ Begins(body) /\ Shape(q, final)
    BY <1>5 DEF FileSound
  <2> HIDE DEF body, final, E
  <2> QED BY <1>6, <2>1, <2>2 DEF Fits
<1> HIDE DEF body, final, E
<1> QED BY <1>2, <1>5, <1>7 DEF E

LEMMA PieceSound ==
  ASSUME NEW l, IsLibrary(l), NEW g, NEW s \in Steps, NEW p \in Places, NEW chain \in Seq(DOMAIN l),
         \A y \in Sites(l) :
           Len(y.chain) = Len(chain) + 1 /\ Len(chain) <= MaxIncludeDepth => SiteSound(l, g, y),
         Piece(l, g, s, p, chain).ok
  PROVE  LET ns == Piece(l, g, s, p, chain).nodes IN
         /\ Shape(p, ns) /\ Begins(ns)
         /\ Ordinary(l, s) => StepSound(l, p, s, ns)
<1> DEFINE ns == Piece(l, g, s, p, chain).nodes
<1>1. CASE s.action = "include"
  <2>1. PICK body, final :
          /\ Fits(l[s.file], s, p, body, final, ns)
          /\ FileSound(l, Append(p, s.id), l[s.file].steps, body)
          /\ s.file \in DOMAIN l
    BY <1>1, PieceFits
  <2> DEFINE child == l[s.file]  q == Append(p, s.id)
  <2>2. child.steps \in Seq(Steps)
    BY <2>1 DEF IsLibrary
  <2>3. Fits(child, s, p, body, final, ns) /\ FileSound(l, q, child.steps, body)
    BY <2>1
  <2>q. q = Append(p, s.id)
    OBVIOUS
  <2> HIDE DEF child, q, ns
  <2>4. Shape(p, ns) /\ Begins(ns)
    BY <2>3, FitsShape
  <2>5. Headed(p, s, ns)
    BY <1>1, <2>3, FitsHeaded
  <2>6. Nested(ns)
    BY <2>3, FitsNested DEF FileSound
  <2>7. NoFinally(l) /\ s.id # "finally" => Plain(p, ns)
    <3>1. NoFinally(l) => Plain(Append(p, s.id), body)
      BY <2>3, <2>q DEF FileSound
    <3> QED BY <2>3, <3>1, FitsPlain
  <2>8. Named(l) => Distinct(ns)
    BY <2>3, FitsDistinct DEF FileSound
  <2>9. Named(l) /\ NoNeeds(l) /\ s.needs = {} => Chained(ns)
    BY <2>3, FitsChained DEF FileSound
  <2>10. Named(l) /\ NoFinally(l) /\ Backwards(l) /\ s.id # "finally" => BehindHere(p, s, ns)
    <3>1. SUFFICES ASSUME Named(l), NoFinally(l), Backwards(l), s.id # "finally"
                   PROVE  BehindHere(p, s, ns)
      OBVIOUS
    <3>2. /\ Distinct(body) /\ Plain(Append(p, s.id), body)
          /\ Behind(Append(p, s.id), Ids(child.steps), body)
      BY <2>3, <2>q, <3>1 DEF FileSound
    <3> QED BY <2>2, <2>3, <3>1, <3>2, FitsBehind
  <2> QED BY <1>1, <2>4, <2>5, <2>6, <2>7, <2>8, <2>9, <2>10 DEF StepSound, Ordinary, ns
<1>2. CASE s.action # "include"
  <2>1. ns = <<Leaf(s, p)>>
    BY <1>2 DEF Piece, Made
  <2>2. p \in Names
    BY StepWords
  <2> HIDE DEF ns
  <2> QED BY <2>1, <2>2, LeafSound DEF ns
<1> QED BY <1>1, <1>2

(* The nodes of a list of steps are those of its steps, in order.          *)
LEMMA CompilePieces ==
  ASSUME NEW l, IsLibrary(l), NEW g, NEW steps \in Seq(Steps), steps # <<>>,
         NEW p \in Places, NEW chain \in Seq(DOMAIN l),
         \A y \in Sites(l) :
           Len(y.chain) = Len(chain) + 1 /\ Len(chain) <= MaxIncludeDepth => SiteSound(l, g, y),
         CompileSteps(l, g, steps, p, chain).ok
  PROVE  \E seqs, at, pos :
           /\ Together(steps, seqs, CompileSteps(l, g, steps, p, chain).nodes, at, pos)
           /\ \A a \in 1..Len(steps) :
                /\ Shape(p, seqs[a]) /\ Begins(seqs[a])
                /\ Ordinary(l, steps[a]) => StepSound(l, p, steps[a], seqs[a])
<1> DEFINE F == CompileSteps(l, g, steps, p, chain).nodes
           seqs == [i \in 1..Len(steps) |-> Piece(l, g, steps[i], p, chain).nodes]
<1>1. /\ \A i \in 1..Len(steps) : Piece(l, g, steps[i], p, chain).ok
      /\ F = FlattenSeq(seqs)
  BY CompileIs
<1>2. ASSUME NEW a \in 1..Len(steps)
      PROVE  /\ seqs[a] = Piece(l, g, steps[a], p, chain).nodes
             /\ Shape(p, seqs[a]) /\ Begins(seqs[a])
             /\ Ordinary(l, steps[a]) => StepSound(l, p, steps[a], seqs[a])
  <2> DEFINE s == steps[a]
  <2>1. s \in Steps /\ Piece(l, g, s, p, chain).ok
    BY <1>1
  <2>2. seqs[a] = Piece(l, g, s, p, chain).nodes
    OBVIOUS
  <2> HIDE DEF s, seqs
  <2>3. LET ns == Piece(l, g, s, p, chain).nodes IN
        /\ Shape(p, ns) /\ Begins(ns)
        /\ Ordinary(l, s) => StepSound(l, p, s, ns)
    BY <2>1, PieceSound
  <2> QED BY <2>2, <2>3 DEF s
<1>3. Len(steps) \in Nat /\ Len(steps) # 0
  OBVIOUS
<1>4. \A a \in 1..Len(steps) : seqs[a] \in Seq(NodeType)
  <2> HIDE DEF seqs
  <2> QED BY <1>2 DEF Shape
<1>5. seqs \in Seq(Seq(NodeType)) /\ Len(seqs) = Len(steps) /\ seqs # <<>>
  <2>1. seqs \in [1..Len(steps) -> Seq(NodeType)]
    BY <1>4
  <2>2. seqs \in Seq(Seq(NodeType)) /\ Len(seqs) = Len(steps)
    <3> HIDE DEF seqs
    <3> QED BY <1>3, <2>1
  <2> HIDE DEF seqs
  <2> QED BY <1>3, <2>2
<1> HIDE DEF seqs, F
<1>6. PICK at, pos : Spreads(seqs, Len(seqs), FlattenSeq(seqs), at, pos)
  BY <1>5, FlattenSpreads
<1>7. F \in Seq(NodeType)
  BY <1>1, <1>5, FlattenSpreads
<1>8. Together(steps, seqs, F, at, pos)
  BY <1>1, <1>5, <1>6, <1>7 DEF Together
<1> QED BY <1>2, <1>8 DEF F

LEMMA CompileShape ==
  ASSUME NEW l, IsLibrary(l), NEW g, NEW steps \in Seq(Steps),
         NEW p \in Places, NEW chain \in Seq(DOMAIN l),
         \A y \in Sites(l) :
           Len(y.chain) = Len(chain) + 1 /\ Len(chain) <= MaxIncludeDepth => SiteSound(l, g, y),
         CompileSteps(l, g, steps, p, chain).ok
  PROVE  Shape(p, CompileSteps(l, g, steps, p, chain).nodes)
<1>1. CASE steps = <<>>
  <2>1. CompileSteps(l, g, steps, p, chain).nodes
          = FlattenSeq([i \in 1..Len(steps) |-> Piece(l, g, steps[i], p, chain).nodes])
    BY CompileIs
  <2>2. [i \in 1..Len(steps) |-> Piece(l, g, steps[i], p, chain).nodes] = <<>>
    BY <1>1
  <2>3. FlattenSeq(<<>>) = <<>>
    BY DEF FlattenSeq
  <2>4. Shape(p, <<>>)
    BY DEF Shape
  <2> QED BY <2>1, <2>2, <2>3, <2>4
<1>2. CASE steps # <<>>
  BY <1>2, CompilePieces, TogetherShape
<1> QED BY <1>1, <1>2

(* What holds of the steps of the library holds of each.                   *)
LEMMA OrdinaryStep ==
  ASSUME NEW l, NEW f \in DOMAIN l, NEW i \in DOMAIN l[f].steps
  PROVE  Ordinary(l, l[f].steps[i])
BY DEF Ordinary, NoFinally, Named, NoNeeds

LEMMA CompileSound ==
  ASSUME NEW l, IsLibrary(l), NEW g, NEW file \in DOMAIN l, Valid(l[file]),
         NEW p \in Places, NEW chain \in Seq(DOMAIN l),
         \A y \in Sites(l) :
           Len(y.chain) = Len(chain) + 1 /\ Len(chain) <= MaxIncludeDepth => SiteSound(l, g, y),
         CompileSteps(l, g, l[file].steps, p, chain).ok
  PROVE  FileSound(l, p, l[file].steps, CompileSteps(l, g, l[file].steps, p, chain).nodes)
<1> DEFINE wf == l[file]
           F == CompileSteps(l, g, wf.steps, p, chain).nodes
<1>1. /\ wf.steps \in Seq(Steps) /\ Valid(wf) /\ wf.steps # <<>>
      /\ DOMAIN wf.steps = 1..Len(wf.steps)
  <2>1. wf.steps \in Seq(Steps) /\ Valid(wf)
    BY DEF IsLibrary
  <2> QED BY <2>1 DEF Valid
<1>2. \A a \in 1..Len(wf.steps) : Ordinary(l, wf.steps[a])
  BY <1>1, OrdinaryStep
<1>3. PICK seqs, at, pos :
        /\ Together(wf.steps, seqs, F, at, pos)
        /\ \A a \in 1..Len(wf.steps) :
             /\ Shape(p, seqs[a]) /\ Begins(seqs[a])
             /\ Ordinary(l, wf.steps[a]) => StepSound(l, p, wf.steps[a], seqs[a])
  BY <1>1, CompilePieces
<1>4. \A a \in 1..Len(wf.steps) : StepSound(l, p, wf.steps[a], seqs[a])
  BY <1>2, <1>3
<1>5. p \in Names
  BY StepWords
<1>6. /\ Named(l) => \A a \in 1..Len(wf.steps) : wf.steps[a].id # NoId
      /\ Backwards(l) => \A a \in 1..Len(wf.steps) :
                           wf.steps[a].needs \subseteq Ids(SubSeq(wf.steps, 1, a - 1))
  BY <1>1 DEF Named, Backwards
<1> HIDE DEF F, wf
<1>7. Shape(p, F) /\ Begins(F)
  BY <1>3, TogetherShape
<1>8. Nested(F)
  BY <1>1, <1>3, <1>4, <1>5, TogetherNested DEF StepSound
<1>9. NoFinally(l) => Plain(p, F)
  BY <1>3, <1>4, TogetherPlain DEF StepSound
<1>10. Named(l) => Distinct(F)
  BY <1>1, <1>3, <1>4, <1>5, <1>6, TogetherDistinct DEF StepSound
<1>11. Named(l) /\ NoNeeds(l) => Chained(F)
  BY <1>3, <1>4, TogetherChained DEF StepSound
<1>12. Named(l) /\ NoFinally(l) /\ Backwards(l) => Behind(p, Ids(wf.steps), F)
  BY <1>1, <1>3, <1>4, <1>5, <1>6, TogetherBehind DEF StepSound
<1> QED BY <1>7, <1>8, <1>9, <1>10, <1>11, <1>12 DEF FileSound, F, wf

LEMMA SitesSound ==
  ASSUME NEW l, IsLibrary(l)
  PROVE  \A x \in Sites(l) : SiteSound(l, FragmentsOf(l), x)
<1> DEFINE g == FragmentsOf(l)
           S == {x \in Sites(l) : SiteSound(l, g, x)}
<1>1. ASSUME NEW x \in Sites(l),
             \A y \in Sites(l) :
               Len(y.chain) = Len(x.chain) + 1 /\ Len(x.chain) <= MaxIncludeDepth => y \in S
      PROVE  SiteSound(l, g, x)
  <2> DEFINE file == x.file  p == x.prefix  chain == x.chain
  <2>1. /\ file \in DOMAIN l /\ p \in Places /\ chain \in Seq(DOMAIN l)
        /\ l[file].finally \in Seq(Steps)
    BY DEF Sites, Places, Strings, IsLibrary
  <2>2. \A y \in Sites(l) :
          Len(y.chain) = Len(chain) + 1 /\ Len(chain) <= MaxIncludeDepth => SiteSound(l, g, y)
    BY <1>1
  <2>3. /\ g[x].body = CompileSteps(l, g, l[file].steps, p, chain)
        /\ g[x].final = CompileSteps(l, g, l[file].finally, p, chain)
    <3>1. g[x] = Compiling(l, g, x)
      BY FragmentsRecur
    <3> HIDE DEF g
    <3> QED BY <3>1 DEF Compiling
  <2> HIDE DEF g, file, p, chain
  <2>4. Valid(l[file]) /\ g[x].body.ok => FileSound(l, p, l[file].steps, g[x].body.nodes)
    BY <2>1, <2>2, <2>3, CompileSound
  <2>5. g[x].final.ok => Shape(p, g[x].final.nodes)
    BY <2>1, <2>2, <2>3, CompileShape
  <2> QED BY <2>4, <2>5 DEF SiteSound, file, p
<1>2. Sites(l) \subseteq S
  <2>1. \A x \in Sites(l) :
          (\A y \in Sites(l) :
             Len(y.chain) = Len(x.chain) + 1 /\ Len(x.chain) <= MaxIncludeDepth => y \in S)
          => x \in S
    BY <1>1
  <2> HIDE DEF S
  <2> QED BY <2>1, SiteInduction
<1> QED BY <1>2

(* The nodes of the root before the implicit needs.                        *)
Laid(l) == CompileSteps(l, FragmentsOf(l), l[Root].steps, <<>>, <<Root>>)

LEMMA RootSound ==
  ASSUME NEW l, IsLibrary(l), Root \in DOMAIN l, Valid(l[Root]), Laid(l).ok
  PROVE  FileSound(l, <<>>, l[Root].steps, Laid(l).nodes)
<1>1. <<>> \in Places /\ <<Root>> \in Seq(DOMAIN l)
  BY DEF Places
<1> QED BY <1>1, SitesSound, CompileSound DEF Laid

-----------------------------------------------------------------------------
(* The needs that follow from the order of the source.                     *)

LEMMA MaxFacts ==
  ASSUME NEW n \in Nat, NEW S \in SUBSET (1..n), S # {}
  PROVE  Max(S) \in S /\ \A y \in S : y <= Max(S)
<1> DEFINE T == {n - y : y \in S}
<1>1. T \in SUBSET Nat /\ T # {}
  OBVIOUS
<1> HIDE DEF T
<1>2. PICK a \in T : \A b \in T : a <= b
  BY <1>1, LeastElement
<1>3. PICK x \in S : a = n - x
  BY <1>2 DEF T
<1>4. ASSUME NEW y \in S PROVE x >= y
  <2>1. n - y \in T
    BY DEF T
  <2>2. n - x <= n - y
    BY <1>2, <1>3, <2>1
  <2> QED BY <2>2
<1>5. \E x1 \in S : \A y \in S : x1 >= y
  BY <1>4
<1>6. Max(S) \in S /\ \A y \in S : Max(S) >= y
  BY <1>5 DEF Max
<1> QED BY <1>6

(* What ImplicitNeeds leaves alone, and what it adds.                      *)
Kept(ns, out) ==
  /\ out \in Seq(NodeType) /\ Len(out) = Len(ns)
  /\ \A i \in 1..Len(ns) :
       /\ out[i].id = ns[i].id /\ out[i].scope = ns[i].scope /\ out[i].local = ns[i].local
       /\ out[i].always = ns[i].always /\ out[i].hidden = ns[i].hidden
       /\ ns[i].needs # {} => out[i].needs = ns[i].needs
       /\ out[i].needs = ns[i].needs \/ \E j \in 1..(i - 1) : out[i].needs = {ns[j].id}
       /\ i = 1 => out[i].needs = ns[i].needs
       /\ (\A j \in 1..Len(ns) : ns[j].id # <<>>) /\ i # 1 /\ ~ns[i].hidden /\ ns[i].needs = {}
            => out[i].needs = {ns[i - 1].id}

LEMMA ImplicitKept ==
  ASSUME NEW ns \in Seq(NodeType)
  PROVE  Kept(ns, ImplicitNeeds(ns))
<1> DEFINE before(i) == {j \in 1..(i - 1) : ns[j].id # <<>>}
           node(i) == IF ns[i].hidden \/ ns[i].needs # {} \/ before(i) = {} THEN ns[i]
                      ELSE [ns[i] EXCEPT !.needs = {ns[Max(before(i))].id}]
           out == ImplicitNeeds(ns)
<1>1. Len(ns) \in Nat /\ DOMAIN ns = 1..Len(ns) /\ \A i \in 1..Len(ns) : ns[i] \in NodeType
  OBVIOUS
<1>2. out = [i \in 1..Len(ns) |-> node(i)]
  BY <1>1 DEF ImplicitNeeds
<1>3. ASSUME NEW i \in 1..Len(ns)
      PROVE  /\ node(i) \in NodeType
             /\ node(i).id = ns[i].id /\ node(i).scope = ns[i].scope
             /\ node(i).local = ns[i].local
             /\ node(i).always = ns[i].always /\ node(i).hidden = ns[i].hidden
             /\ ns[i].needs # {} => node(i).needs = ns[i].needs
             /\ node(i).needs = ns[i].needs \/ \E j \in 1..(i - 1) : node(i).needs = {ns[j].id}
             /\ i = 1 => node(i).needs = ns[i].needs
             /\ (\A j \in 1..Len(ns) : ns[j].id # <<>>) /\ i # 1 /\ ~ns[i].hidden /\ ns[i].needs = {}
                  => node(i).needs = {ns[i - 1].id}
  <2> DEFINE B == before(i)
  <2>1. i \in Nat /\ i - 1 \in Nat /\ B \in SUBSET (1..(i - 1)) /\ 1..(i - 1) \subseteq 1..Len(ns)
    BY <1>1
  <2>2. CASE ns[i].hidden \/ ns[i].needs # {} \/ B = {}
    <3>1. node(i) = ns[i]
      BY <2>2
    <3>2. i = 1 \/ i - 1 \in 1..(i - 1)
      BY <2>1
    <3>3. (\A j \in 1..Len(ns) : ns[j].id # <<>>) /\ i # 1 => B # {}
      BY <2>1, <3>2
    <3> HIDE DEF node, B
    <3> QED BY <1>1, <2>2, <3>1, <3>3
  <2>3. CASE ~ns[i].hidden /\ ns[i].needs = {} /\ B # {}
    <3> DEFINE m == Max(B)
    <3>1. m \in B /\ \A y \in B : y <= m
      <4> HIDE DEF B
      <4> QED BY <2>1, <2>3, MaxFacts
    <3>2. m \in 1..(i - 1) /\ m \in 1..Len(ns)
      BY <2>1, <3>1
    <3>3. node(i) = [ns[i] EXCEPT !.needs = {ns[m].id}]
      BY <2>3
    <3>4. (\A j \in 1..Len(ns) : ns[j].id # <<>>) => m = i - 1
      <4>1. SUFFICES ASSUME \A j \in 1..Len(ns) : ns[j].id # <<>> PROVE m = i - 1
        OBVIOUS
      <4>2. i - 1 \in 1..(i - 1)
        BY <2>1, <3>2
      <4>3. i - 1 \in B
        BY <2>1, <4>1, <4>2
      <4> HIDE DEF m, B
      <4> QED BY <2>1, <3>1, <3>2, <4>3
    <3>5. i # 1
      BY <3>2
    <3> HIDE DEF m, B, node
    <3>6. {ns[m].id} \in SUBSET Names /\ ns[i] \in NodeType
      BY <1>1, <3>2 DEF NodeType
    <3>7. node(i) \in NodeType /\ node(i).needs = {ns[m].id}
      BY <3>3, <3>6 DEF NodeType
    <3>8. /\ node(i).id = ns[i].id /\ node(i).scope = ns[i].scope /\ node(i).local = ns[i].local
          /\ node(i).always = ns[i].always /\ node(i).hidden = ns[i].hidden
      BY <3>3, <3>6 DEF NodeType
    <3> QED BY <2>3, <3>2, <3>4, <3>5, <3>7, <3>8
  <2> QED BY <2>2, <2>3
<1> HIDE DEF node
<1>4. out \in Seq(NodeType) /\ Len(out) = Len(ns) /\ \A i \in 1..Len(ns) : out[i] = node(i)
  BY <1>1, <1>2, <1>3
<1> HIDE DEF out
<1> QED BY <1>3, <1>4 DEF Kept, out

LEMMA CompiledIs ==
  ASSUME NEW l
  PROVE  IF Root \in DOMAIN l /\ Valid(l[Root]) /\ Laid(l).ok
         THEN Compiled(l).ok /\ Compiled(l).nodes = ImplicitNeeds(Laid(l).nodes)
         ELSE ~Compiled(l).ok /\ Compiled(l).nodes = <<>>
<1>1. CASE ~(Root \in DOMAIN l /\ Valid(l[Root]))
  BY <1>1 DEF Compiled, Refused
<1>2. CASE Root \in DOMAIN l /\ Valid(l[Root])
  <2> DEFINE r == Laid(l)
  <2>1. Compiled(l) = [r EXCEPT !.nodes = ImplicitNeeds(@)]
    BY <1>2 DEF Compiled, CompileWithOptions, Laid
  <2>2. r = Refused \/ \E ns : r = Made(ns)
    BY DEF Laid, CompileSteps
  <2> HIDE DEF r
  <2>3. CASE r = Refused
    <3>1. ImplicitNeeds(<<>>) = <<>>
      BY DEF ImplicitNeeds
    <3> QED BY <2>1, <2>3, <3>1 DEF Refused, r
  <2>4. ASSUME NEW ns, r = Made(ns)
        PROVE  r.ok /\ Compiled(l).ok /\ Compiled(l).nodes = ImplicitNeeds(r.nodes)
    BY <2>1, <2>4 DEF Made
  <2> QED BY <1>2, <2>2, <2>3, <2>4 DEF r
<1> QED BY <1>1, <1>2

(* What the nodes of a run are like.                                       *)
EarlierOnly(l, out) ==
  \A i \in 1..Len(out) : \A d \in out[i].needs :
    \/ \E j \in 1..Len(out) : j < i /\ d = out[j].id
    \/ BehindOne(<<>>, Ids(l[Root].steps), out, i, d)

WellMade(l, out) ==
  /\ Shape(<<>>, out) /\ Nested(out)
  /\ NoFinally(l) => Plain(<<>>, out)
  /\ Named(l) => Distinct(out)
  /\ Named(l) /\ NoNeeds(l) =>
       \A k \in 1..Len(out) : out[k].needs = IF k = 1 THEN {} ELSE {out[k - 1].id}
  /\ Named(l) /\ NoFinally(l) /\ Backwards(l) => EarlierOnly(l, out)

LEMMA KeptSound ==
  ASSUME NEW l, NEW ns, NEW out, Kept(ns, out), FileSound(l, <<>>, l[Root].steps, ns)
  PROVE  WellMade(l, out)
<1>1. /\ ns \in Seq(NodeType) /\ out \in Seq(NodeType) /\ Len(out) = Len(ns) /\ Len(ns) \in Nat
      /\ \A k \in 1..Len(ns) : /\ out[k].id = ns[k].id /\ out[k].scope = ns[k].scope
                               /\ out[k].always = ns[k].always
                               /\ ns[k].id \in Names
  <2>1. ns \in Seq(NodeType)
    BY DEF FileSound, Shape
  <2>2. ASSUME NEW k \in 1..Len(ns) PROVE ns[k].id \in Names
    <3>1. ns[k] \in NodeType
      BY <2>1
    <3> QED BY <3>1 DEF NodeType
  <2>3. Len(ns) \in Nat
    BY <2>1
  <2>4. /\ out \in Seq(NodeType) /\ Len(out) = Len(ns)
        /\ \A k \in 1..Len(ns) : /\ out[k].id = ns[k].id /\ out[k].scope = ns[k].scope
                                 /\ out[k].always = ns[k].always
    BY DEF Kept
  <2> QED BY <2>1, <2>2, <2>3, <2>4
<1>2. Shape(<<>>, out)
  <2>1. \A k \in 1..Len(ns) : (\E d \in Names : d # <<>> /\ ns[k].needs = {d})
                              => out[k].needs = ns[k].needs
    BY DEF Kept
  <2> QED BY <1>1, <2>1 DEF FileSound, Shape
<1>3. Nested(out)
  BY <1>1 DEF FileSound, Nested
<1>4. NoFinally(l) => Plain(<<>>, out)
  BY <1>1 DEF FileSound, Plain
<1>5. Named(l) => Distinct(out)
  BY <1>1 DEF FileSound, Distinct
<1>6. Named(l) /\ NoNeeds(l) =>
        \A k \in 1..Len(out) : out[k].needs = IF k = 1 THEN {} ELSE {out[k - 1].id}
  <2> SUFFICES ASSUME Named(l), NoNeeds(l), NEW k \in 1..Len(ns)
               PROVE  out[k].needs = IF k = 1 THEN {} ELSE {out[k - 1].id}
    BY <1>1
  <2>1. Distinct(ns) /\ Chained(ns)
    BY DEF FileSound
  <2>2. /\ ns[k].needs # {} => k - 1 \in 1..Len(ns) /\ ns[k].needs = {ns[k - 1].id}
        /\ ns[k].hidden => ns[k].needs # {}
    BY <2>1 DEF Chained
  <2>3. \A j \in 1..Len(ns) : ns[j].id # <<>>
    BY <2>1 DEF Distinct
  <2>4. CASE k = 1
    <3>1. ns[k].needs = {}
      BY <1>1, <2>2, <2>4
    <3> QED BY <2>4, <3>1 DEF Kept
  <2>5. CASE k # 1
    <3>1. k - 1 \in 1..Len(ns)
      BY <1>1, <2>5
    <3>2. out[k].needs = {ns[k - 1].id}
      <4>1. CASE ns[k].needs # {}
        BY <2>2, <4>1 DEF Kept
      <4>2. CASE ns[k].needs = {}
        BY <2>2, <2>3, <2>5, <4>2 DEF Kept
      <4> QED BY <4>1, <4>2
    <3> QED BY <1>1, <2>5, <3>1, <3>2
  <2> QED BY <2>4, <2>5
<1>7. Named(l) /\ NoFinally(l) /\ Backwards(l) => EarlierOnly(l, out)
  <2> SUFFICES ASSUME Named(l), NoFinally(l), Backwards(l),
                      NEW i \in 1..Len(ns), NEW d \in out[i].needs
               PROVE  \/ \E j \in 1..Len(out) : j < i /\ d = out[j].id
                      \/ BehindOne(<<>>, Ids(l[Root].steps), out, i, d)
    BY <1>1 DEF EarlierOnly
  <2>1. CASE d \in ns[i].needs
    <3>1. BehindOne(<<>>, Ids(l[Root].steps), ns, i, d)
      BY <2>1 DEF FileSound, Behind
    <3>2. BehindOne(<<>>, Ids(l[Root].steps), out, i, d)
      BY <1>1, <3>1 DEF BehindOne
    <3> QED BY <3>2
  <2>2. CASE d \notin ns[i].needs
    <3>1. PICK j \in 1..(i - 1) : out[i].needs = {ns[j].id}
      BY <2>2 DEF Kept
    <3>2. j \in 1..Len(ns) /\ j < i /\ d = ns[j].id
      BY <1>1, <3>1
    <3> QED BY <1>1, <3>2
  <2> QED BY <2>1, <2>2
<1> QED BY <1>2, <1>3, <1>4, <1>5, <1>6, <1>7 DEF WellMade

LEMMA CompiledSound ==
  ASSUME NEW l, IsLibrary(l)
  PROVE  WellMade(l, Compiled(l).nodes)
<1>1. CASE Root \in DOMAIN l /\ Valid(l[Root]) /\ Laid(l).ok
  <2>1. FileSound(l, <<>>, l[Root].steps, Laid(l).nodes)
    BY <1>1, RootSound
  <2>2. Laid(l).nodes \in Seq(NodeType)
    BY <2>1 DEF FileSound, Shape
  <2>3. Compiled(l).nodes = ImplicitNeeds(Laid(l).nodes)
    BY <1>1, CompiledIs
  <2> QED BY <2>1, <2>2, <2>3, ImplicitKept, KeptSound
<1>2. CASE ~(Root \in DOMAIN l /\ Valid(l[Root]) /\ Laid(l).ok)
  <2>1. Compiled(l).nodes = <<>>
    BY <1>2, CompiledIs
  <2>2. WellMade(l, <<>>)
    BY DEF WellMade, Shape, Nested, Plain, Distinct, EarlierOnly
  <2> QED BY <2>1, <2>2
<1> QED BY <1>1, <1>2

-----------------------------------------------------------------------------
(* The plan the scheduler derives.                                         *)

LEMMA CarrierFacts ==
  ASSUME NEW ns \in Seq(NodeType), NEW i \in 1..Len(ns)
  PROVE  /\ Carrier(ns, i) \in 1..Len(ns) /\ ns[Carrier(ns, i)].id = ns[i].id
         /\ ns[i].id = <<>> => Carrier(ns, i) = i
         /\ \A j \in 1..Len(ns) :
              ns[i].id # <<>> /\ ns[j].id = ns[i].id => Carrier(ns, j) = Carrier(ns, i)
<1>0. DOMAIN ns = 1..Len(ns) /\ Len(ns) \in Nat
  OBVIOUS
<1>1. CASE ns[i].id = <<>>
  BY <1>1 DEF Carrier
<1>2. CASE ns[i].id # <<>>
  <2> DEFINE S == {j \in 1..Len(ns) : ns[j].id = ns[i].id}
  <2>1. S \in SUBSET (1..Len(ns)) /\ S # {}
    OBVIOUS
  <2>2. Max(S) \in S
    <3> HIDE DEF S
    <3> QED BY <1>0, <2>1, MaxFacts
  <2>3. Carrier(ns, i) = Max(S)
    BY <1>0, <1>2 DEF Carrier
  <2>4. ASSUME NEW j \in 1..Len(ns), ns[j].id = ns[i].id PROVE Carrier(ns, j) = Max(S)
    BY <1>0, <1>2, <2>4 DEF Carrier
  <2>5. Carrier(ns, i) \in 1..Len(ns) /\ ns[Carrier(ns, i)].id = ns[i].id
    BY <2>2, <2>3
  <2> QED BY <1>2, <2>3, <2>4, <2>5
<1> QED BY <1>1, <1>2

Planned(ns, plan) ==
  /\ DOMAIN plan.needs = 1..Len(ns) /\ plan.keys \subseteq 1..Len(ns)
  /\ plan.always = {k \in plan.keys : ns[k].always}
  /\ \A k \in 1..Len(ns) :
       plan.needs[k] = IF k \in plan.keys
                       THEN {j \in plan.keys : \E i \in 1..Len(ns) :
                               Carrier(ns, i) = k /\ ns[j].id \in ns[i].needs}
                       ELSE {k}
  /\ \A i \in 1..Len(ns) : Carrier(ns, i) \in plan.keys
  /\ \A k \in plan.keys : Carrier(ns, k) = k
  /\ \A j \in plan.keys, k \in plan.keys : ns[j].id = ns[k].id /\ ns[k].id # <<>> => j = k

LEMMA PlanIs ==
  ASSUME NEW ns \in Seq(NodeType)
  PROVE  Planned(ns, PlanOf(ns))
<1> DEFINE plan == PlanOf(ns)
<1>0. DOMAIN ns = 1..Len(ns)
  OBVIOUS
<1>1. plan.keys = {Carrier(ns, i) : i \in 1..Len(ns)}
  BY <1>0 DEF PlanOf, Carriers
<1>2. plan.always = {k \in plan.keys : ns[k].always}
  BY DEF PlanOf
<1>3. plan.needs = [k \in 1..Len(ns) |->
                      IF k \in plan.keys
                      THEN {j \in plan.keys : \E i \in 1..Len(ns) :
                              Carrier(ns, i) = k /\ ns[j].id \in ns[i].needs}
                      ELSE {k}]
  BY <1>0 DEF PlanOf
<1> HIDE DEF plan
<1>4. plan.keys \subseteq 1..Len(ns)
  BY <1>1, CarrierFacts
<1>5. ASSUME NEW k \in plan.keys PROVE Carrier(ns, k) = k
  <2>1. PICK i \in 1..Len(ns) : k = Carrier(ns, i)
    BY <1>1
  <2>2. k \in 1..Len(ns) /\ ns[k].id = ns[i].id
    BY <2>1, CarrierFacts
  <2>3. CASE ns[i].id = <<>>
    BY <2>2, <2>3, CarrierFacts
  <2>4. CASE ns[i].id # <<>>
    BY <2>1, <2>2, <2>4, CarrierFacts
  <2> QED BY <2>3, <2>4
<1>6. ASSUME NEW j \in plan.keys, NEW k \in plan.keys, ns[j].id = ns[k].id, ns[k].id # <<>>
      PROVE  j = k
  <2>1. j \in 1..Len(ns) /\ k \in 1..Len(ns)
    BY <1>4
  <2>2. Carrier(ns, j) = Carrier(ns, k)
    BY <1>6, <2>1, CarrierFacts
  <2> QED BY <1>5, <2>2
<1>7. \A i \in 1..Len(ns) : Carrier(ns, i) \in plan.keys
  BY <1>1
<1>8. /\ DOMAIN plan.needs = 1..Len(ns)
      /\ \A k \in 1..Len(ns) :
           plan.needs[k] = IF k \in plan.keys
                           THEN {j \in plan.keys : \E i \in 1..Len(ns) :
                                   Carrier(ns, i) = k /\ ns[j].id \in ns[i].needs}
                           ELSE {k}
  BY <1>3
<1> QED BY <1>2, <1>4, <1>5, <1>6, <1>7, <1>8 DEF Planned, plan

(* Every node has a name that no other has.                                *)
Apart(ns) ==
  /\ \A k \in 1..Len(ns) : ns[k].id # <<>>
  /\ \A i \in 1..Len(ns), j \in 1..Len(ns) : ns[i].id = ns[j].id => i = j

LEMMA ApartPlan ==
  ASSUME NEW ns \in Seq(NodeType), Apart(ns)
  PROVE  /\ PlanOf(ns).keys = 1..Len(ns)
         /\ \A k \in 1..Len(ns) :
              PlanOf(ns).needs[k] = {j \in 1..Len(ns) : ns[j].id \in ns[k].needs}
<1> DEFINE plan == PlanOf(ns)
<1>1. Planned(ns, plan)
  BY PlanIs
<1> HIDE DEF plan
<1>2. ASSUME NEW i \in 1..Len(ns) PROVE Carrier(ns, i) = i
  <2>1. Carrier(ns, i) \in 1..Len(ns) /\ ns[Carrier(ns, i)].id = ns[i].id
    BY CarrierFacts
  <2> QED BY <2>1 DEF Apart
<1>3. plan.keys = 1..Len(ns)
  <2>1. \A i \in 1..Len(ns) : i \in plan.keys
    BY <1>1, <1>2 DEF Planned
  <2> QED BY <1>1, <2>1 DEF Planned
<1>4. ASSUME NEW k \in 1..Len(ns)
      PROVE  plan.needs[k] = {j \in 1..Len(ns) : ns[j].id \in ns[k].needs}
  <2>1. plan.needs[k] = {j \in plan.keys : \E i \in 1..Len(ns) :
                           Carrier(ns, i) = k /\ ns[j].id \in ns[i].needs}
    BY <1>1, <1>3 DEF Planned
  <2> QED BY <1>2, <1>3, <2>1
<1> QED BY <1>3, <1>4 DEF plan

TeardownsApart(ns) ==
  \A i \in 1..Len(ns), j \in 1..Len(ns) :
    ns[i].always /\ ns[j].always /\ ns[i].id = ns[j].id => i = j

LEMMA NamesApart ==
  ASSUME NEW l, NEW ns, WellMade(l, ns), Named(l), NoFinally(l), TeardownsApart(ns)
  PROVE  Apart(ns)
<1>0. Len(<<>>) = 0
  OBVIOUS
<1>1. ns \in Seq(NodeType) /\ Plain(<<>>, ns) /\ Distinct(ns) /\ Shape(<<>>, ns)
  BY DEF WellMade, Shape
<1>2. ASSUME NEW i \in 1..Len(ns), NEW j \in 1..Len(ns), ns[i].id = ns[j].id,
             ns[i].always, ~ns[j].always
      PROVE  FALSE
  <2>1. Len(ns[i].id) >= 3 /\ ns[i].id[Len(ns[i].id) - 1] = "finally"
    BY <1>0, <1>1, <1>2 DEF Shape
  <2>2. Len(ns[j].id) >= 2 => ns[j].id[Len(ns[j].id) - 1] # "finally"
    BY <1>0, <1>1, <1>2 DEF Plain
  <2>3. Len(ns[i].id) >= 3 => Len(ns[i].id) >= 2
    <3> DEFINE x == Len(ns[i].id)
    <3>1. x \in Nat
      BY <1>1 DEF NodeType, Names
    <3> HIDE DEF x
    <3>2. x >= 3 => x >= 2
      BY <3>1
    <3> QED BY <3>2 DEF x
  <2> QED BY <1>2, <2>1, <2>2, <2>3
<1>3. ASSUME NEW i \in 1..Len(ns), NEW j \in 1..Len(ns), ns[i].id = ns[j].id PROVE i = j
  <2>1. ns[i].always /\ ns[j].always => i = j
    BY <1>3 DEF TeardownsApart
  <2>2. ~ns[i].always /\ ~ns[j].always => i = j
    BY <1>1, <1>3 DEF Distinct
  <2>3. ~(ns[i].always /\ ~ns[j].always) /\ ~(ns[j].always /\ ~ns[i].always)
    BY <1>2, <1>3
  <2> QED BY <2>1, <2>2, <2>3
<1> QED BY <1>1, <1>3 DEF Apart, Distinct

-----------------------------------------------------------------------------
(* What files are loaded as.                                               *)

OneMerge(load, include, i, wf) ==
  IF wf.ok THEN Merge(wf, load[[path |-> include[i], visited |-> wf.visited]]) ELSE wf

Merges(load, parsed, include, n, m) ==
  m = [i \in 0..n |-> IF i = 0 THEN parsed ELSE OneMerge(load, include, i, m[i - 1])]

LEMMA MergesExist ==
  ASSUME NEW load, NEW parsed, NEW include, Len(include) \in Nat
  PROVE  \E m : Merges(load, parsed, include, Len(include), m)
                /\ MergeAll(load, parsed, include) = m[Len(include)]
<1> DEFINE Q(n, m) == Merges(load, parsed, include, n, m)
           T == {n \in Nat : \E m : Q(n, m)}
<1>1. MergeAll(load, parsed, include) = (CHOOSE m : Q(Len(include), m))[Len(include)]
  BY DEF MergeAll, Merges, OneMerge
<1>2. 0 \in T
  <2> DEFINE m == [i \in 0..0 |-> parsed]
  <2>1. \A i \in 0..0 : i = 0
    OBVIOUS
  <2>2. m = [i \in 0..0 |-> IF i = 0 THEN parsed ELSE OneMerge(load, include, i, m[i - 1])]
    BY <2>1
  <2>3. Q(0, m)
    BY <2>2 DEF Merges
  <2> HIDE DEF m, Q
  <2> QED BY <2>3
<1>3. ASSUME NEW n \in Nat, n \in T PROVE n + 1 \in T
  <2>1. PICK m : Q(n, m)
    BY <1>3
  <2> DEFINE h == [i \in 0..(n + 1) |->
                     IF i = 0 THEN parsed ELSE OneMerge(load, include, i, m[i - 1])]
  <2>2. ASSUME NEW i \in 0..n PROVE h[i] = m[i]
    <3>1. i \in 0..(n + 1)
      OBVIOUS
    <3>2. h[i] = IF i = 0 THEN parsed ELSE OneMerge(load, include, i, m[i - 1])
      BY <3>1
    <3>3. m[i] = IF i = 0 THEN parsed ELSE OneMerge(load, include, i, m[i - 1])
      <4>1. m = [j \in 0..n |-> IF j = 0 THEN parsed ELSE OneMerge(load, include, j, m[j - 1])]
        BY <2>1 DEF Merges
      <4> QED BY <4>1, Zenon
    <3> QED BY <3>2, <3>3
  <2>3. ASSUME NEW i \in 0..(n + 1), i # 0 PROVE h[i - 1] = m[i - 1]
    <3>1. i - 1 \in 0..n
      BY <2>3
    <3> HIDE DEF h
    <3> QED BY <3>1, <2>2
  <2>4. h = [i \in 0..(n + 1) |-> IF i = 0 THEN parsed ELSE OneMerge(load, include, i, h[i - 1])]
    BY <2>3
  <2> HIDE DEF h
  <2>5. Q(n + 1, h)
    BY <2>4 DEF Merges
  <2>6. n + 1 \in Nat
    OBVIOUS
  <2> HIDE DEF Q
  <2> QED BY <2>5, <2>6
<1>4. \E m : Q(Len(include), m)
  <2> HIDE DEF T
  <2>1. \A n \in Nat : n \in T
    BY <1>2, <1>3, Induction
  <2>2. Len(include) \in T
    BY <2>1
  <2> HIDE DEF Q
  <2> QED BY <2>2 DEF T
<1>5. Q(Len(include), CHOOSE m : Q(Len(include), m))
  <2> HIDE DEF Q
  <2> QED BY <1>4
<1> QED BY <1>1, <1>5

(* What a call returns, and what is merged under way.                      *)
Returned(disk, visited, r) ==
  /\ r.ok \in BOOLEAN /\ r.visited \in SUBSET DOMAIN disk /\ visited \subseteq r.visited
  /\ r.steps \in Seq(Steps)
UnderWay(disk, visited, wf) ==
  /\ wf.ok \in BOOLEAN /\ wf.visited \in SUBSET DOMAIN disk /\ visited \subseteq wf.visited
  /\ wf.prelude \in Seq(Steps)

LEMMA MergeLocal ==
  ASSUME NEW disk, NEW p \in DOMAIN disk, disk[p].include \in Seq(STRING), NEW visited,
         NEW g, NEW h, NEW parsed, UnderWay(disk, visited, parsed),
         \A y \in Calls(disk) :
           visited \subseteq y.visited => g[y] = h[y] /\ Returned(disk, y.visited, g[y])
  PROVE  /\ MergeAll(g, parsed, disk[p].include) = MergeAll(h, parsed, disk[p].include)
         /\ UnderWay(disk, visited, MergeAll(g, parsed, disk[p].include))
<1> DEFINE include == disk[p].include  n == Len(include)
<1>1. n \in Nat /\ \A i \in 1..n : include[i] \in Paths(disk)
  <2>1. include \in Seq(STRING)
    OBVIOUS
  <2>2. n \in Nat /\ DOMAIN include = 1..n
    BY <2>1
  <2>3. ToSet(include) \subseteq Paths(disk)
    BY DEF Paths
  <2>4. \A i \in 1..n : include[i] \in ToSet(include)
    BY <2>2 DEF ToSet
  <2> QED BY <2>2, <2>3, <2>4
<1> HIDE DEF include
<1>2. PICK a : Merges(g, parsed, include, n, a) /\ MergeAll(g, parsed, include) = a[n]
  BY <1>1, MergesExist
<1>3. PICK b : Merges(h, parsed, include, n, b) /\ MergeAll(h, parsed, include) = b[n]
  BY <1>1, MergesExist
<1>4. ASSUME NEW i \in 1..n, NEW wf, UnderWay(disk, visited, wf)
      PROVE  /\ OneMerge(g, include, i, wf) = OneMerge(h, include, i, wf)
             /\ UnderWay(disk, visited, OneMerge(g, include, i, wf))
  <2>1. CASE ~wf.ok
    BY <1>4, <2>1 DEF OneMerge
  <2>2. CASE wf.ok
    <3> DEFINE y == [path |-> include[i], visited |-> wf.visited]
    <3>1. y \in Calls(disk) /\ y.visited = wf.visited
      BY <1>1, <1>4 DEF Calls, UnderWay
    <3>2. visited \subseteq y.visited
      BY <1>4, <3>1 DEF UnderWay
    <3>3. g[y] = h[y] /\ Returned(disk, wf.visited, g[y])
      BY <3>1, <3>2
    <3>4. /\ OneMerge(g, include, i, wf) = Merge(wf, g[y])
          /\ OneMerge(h, include, i, wf) = Merge(wf, h[y])
      BY <2>2 DEF OneMerge
    <3> HIDE DEF y
    <3> DEFINE r == g[y]
    <3>5. /\ r.ok \in BOOLEAN /\ r.visited \in SUBSET DOMAIN disk /\ wf.visited \subseteq r.visited
          /\ r.steps \in Seq(Steps) /\ wf.prelude \in Seq(Steps) /\ visited \subseteq wf.visited
      BY <1>4, <3>3 DEF Returned, UnderWay
    <3> HIDE DEF r
    <3>6. /\ Merge(wf, r).ok = r.ok /\ Merge(wf, r).visited = r.visited
          /\ Merge(wf, r).prelude = wf.prelude \o r.steps
      BY DEF Merge
    <3>7. wf.prelude \o r.steps \in Seq(Steps)
      BY <3>5
    <3>8. UnderWay(disk, visited, Merge(wf, r))
      BY <3>5, <3>6, <3>7 DEF UnderWay
    <3> QED BY <3>3, <3>4, <3>8 DEF r
  <2> QED BY <2>1, <2>2
<1>5. /\ a[0] = parsed /\ b[0] = parsed
      /\ \A i \in 1..n : /\ a[i] = OneMerge(g, include, i, a[i - 1])
                         /\ b[i] = OneMerge(h, include, i, b[i - 1])
  <2>1. a = [i \in 0..n |-> IF i = 0 THEN parsed ELSE OneMerge(g, include, i, a[i - 1])]
    BY <1>2 DEF Merges
  <2>2. b = [i \in 0..n |-> IF i = 0 THEN parsed ELSE OneMerge(h, include, i, b[i - 1])]
    BY <1>3 DEF Merges
  <2>3. 0 \in 0..n /\ \A i \in 1..n : i \in 0..n /\ i # 0
    BY <1>1
  <2>4. \A i \in 0..n : a[i] = IF i = 0 THEN parsed ELSE OneMerge(g, include, i, a[i - 1])
    BY <2>1, Zenon
  <2>5. \A i \in 0..n : b[i] = IF i = 0 THEN parsed ELSE OneMerge(h, include, i, b[i - 1])
    BY <2>2, Zenon
  <2> QED BY <2>3, <2>4, <2>5
<1> DEFINE Same(i) == a[i] = b[i] /\ UnderWay(disk, visited, a[i])
           S == {i \in Nat : i <= n => Same(i)}
<1>6. 0 \in S
  BY <1>5
<1>7. ASSUME NEW i \in Nat, i \in S PROVE i + 1 \in S
  <2> SUFFICES ASSUME i + 1 <= n PROVE Same(i + 1)
    OBVIOUS
  <2>1. Same(i) /\ i + 1 \in 1..n /\ (i + 1) - 1 = i
    BY <1>1, <1>7
  <2>2. /\ a[i + 1] = OneMerge(g, include, i + 1, a[i])
        /\ b[i + 1] = OneMerge(h, include, i + 1, b[i])
    BY <1>5, <2>1
  <2>3. /\ OneMerge(g, include, i + 1, a[i]) = OneMerge(h, include, i + 1, a[i])
        /\ UnderWay(disk, visited, OneMerge(g, include, i + 1, a[i]))
    BY <1>4, <2>1
  <2> QED BY <2>1, <2>2, <2>3
<1>8. Same(n)
  <2> HIDE DEF S
  <2>1. n \in S
    BY <1>1, <1>6, <1>7, Induction
  <2>2. n <= n
    BY <1>1
  <2> HIDE DEF Same
  <2> QED BY <2>1, <2>2 DEF S
<1> QED BY <1>2, <1>3, <1>8 DEF include

IsDisk(disk) ==
  /\ IsFiniteSet(DOMAIN disk)
  /\ \A p \in DOMAIN disk :
       /\ disk[p].include \in Seq(STRING) /\ disk[p].outputs \in BOOLEAN
       /\ disk[p].steps \in Seq(Steps) /\ disk[p].finally \in Seq(Steps)

(* The call x, by what the calls with more files behind them return.       *)
Call(disk, load, x) == LoadWithVisited(disk, load, x.path, x.visited)

LEMMA LoadLocal ==
  ASSUME NEW disk, IsDisk(disk), NEW x \in Calls(disk), NEW g, NEW h,
         \A y \in Calls(disk) :
           x.visited \subseteq y.visited /\ x.visited # y.visited
             => g[y] = h[y] /\ Returned(disk, y.visited, g[y])
  PROVE  /\ Call(disk, g, x) = Call(disk, h, x)
         /\ Returned(disk, x.visited, Call(disk, g, x))
<1> DEFINE path == x.path  visited == x.visited
<1>1. path \in Paths(disk) /\ visited \in SUBSET DOMAIN disk
  BY DEF Calls
<1>2. CASE path \in visited \/ path \notin DOMAIN disk
  <2>1. \A f : Call(disk, f, x) = NotLoaded(visited)
    BY <1>2 DEF Call, LoadWithVisited
  <2>2. <<>> \in Seq(Steps)
    OBVIOUS
  <2>3. Returned(disk, visited, NotLoaded(visited))
    BY <1>1, <2>2 DEF Returned, NotLoaded
  <2> QED BY <2>1, <2>3
<1>3. CASE path \notin visited /\ path \in DOMAIN disk
  <2> DEFINE own == disk[path]
             more == visited \cup {path}
             parsed == [ok |-> TRUE, visited |-> more, prelude |-> <<>>,
                        env |-> own.env, shell |-> own.shell]
             whole(f) == MergeAll(f, parsed, own.include)
  <2>1. ASSUME NEW f
        PROVE  Call(disk, f, x) = [ok |-> whole(f).ok, visited |-> whole(f).visited,
                                   steps |-> whole(f).prelude \o own.steps,
                                   env |-> whole(f).env, shell |-> whole(f).shell]
    BY <1>3 DEF Call, LoadWithVisited
  <2>2. own.include \in Seq(STRING) /\ own.steps \in Seq(Steps)
    BY <1>3 DEF IsDisk
  <2>3. UnderWay(disk, more, parsed)
    <3>1. <<>> \in Seq(Steps) /\ more \in SUBSET DOMAIN disk /\ TRUE \in BOOLEAN
      BY <1>1, <1>3
    <3> HIDE DEF more, own
    <3> QED BY <3>1 DEF UnderWay
  <2>4. ASSUME NEW y \in Calls(disk), more \subseteq y.visited
        PROVE  g[y] = h[y] /\ Returned(disk, y.visited, g[y])
    BY <1>3, <2>4
  <2> HIDE DEF parsed, more
  <2>5. whole(g) = whole(h) /\ UnderWay(disk, more, whole(g))
    BY <1>3, <2>2, <2>3, <2>4, MergeLocal
  <2> DEFINE wf == whole(g)
  <2>6. /\ wf.ok \in BOOLEAN /\ wf.visited \in SUBSET DOMAIN disk /\ more \subseteq wf.visited
        /\ wf.prelude \in Seq(Steps)
    BY <2>5 DEF UnderWay
  <2>7. /\ Call(disk, g, x).ok = wf.ok /\ Call(disk, g, x).visited = wf.visited
        /\ Call(disk, g, x).steps = wf.prelude \o own.steps
    <3> HIDE DEF wf
    <3>1. Call(disk, g, x) = [ok |-> wf.ok, visited |-> wf.visited,
                              steps |-> wf.prelude \o own.steps,
                              env |-> wf.env, shell |-> wf.shell]
      BY <2>1 DEF wf
    <3> DEFINE r == Call(disk, g, x)
               joined == wf.prelude \o own.steps
    <3>2. r = [ok |-> wf.ok, visited |-> wf.visited, steps |-> joined,
               env |-> wf.env, shell |-> wf.shell]
      BY <3>1
    <3> HIDE DEF r, joined
    <3>3. r.ok = wf.ok /\ r.visited = wf.visited /\ r.steps = joined
      BY <3>2
    <3> QED BY <3>3 DEF r, joined
  <2>8. Call(disk, g, x) = Call(disk, h, x)
    <3> HIDE DEF whole, own
    <3> QED BY <2>1, <2>5
  <2> HIDE DEF wf, own
  <2>9. wf.prelude \o own.steps \in Seq(Steps)
    BY <2>2, <2>6
  <2>10. visited \subseteq wf.visited
    BY <2>6 DEF more
  <2> QED BY <2>6, <2>7, <2>8, <2>9, <2>10 DEF Returned
<1> QED BY <1>2, <1>3

(* The calls with fewer than n files still to meet.                        *)
Left(disk, x) == Cardinality(DOMAIN disk \ x.visited)
Low(disk, n) == {x \in Calls(disk) : Left(disk, x) < n}

LEMMA LeftFacts ==
  ASSUME NEW disk, IsDisk(disk)
  PROVE  /\ \A x \in Calls(disk) : Left(disk, x) \in Nat
                                   /\ Left(disk, x) <= Cardinality(DOMAIN disk)
         /\ \A x \in Calls(disk), y \in Calls(disk) :
              x.visited \subseteq y.visited /\ x.visited # y.visited
                => Left(disk, y) < Left(disk, x)
         /\ Cardinality(DOMAIN disk) \in Nat
<1> DEFINE D == DOMAIN disk
<1>1. IsFiniteSet(D) /\ Cardinality(D) \in Nat
  BY FS_CardinalityType DEF IsDisk
<1> HIDE DEF D
<1>2. ASSUME NEW x \in Calls(disk)
      PROVE  /\ IsFiniteSet(D \ x.visited) /\ Left(disk, x) \in Nat
             /\ Left(disk, x) <= Cardinality(D)
  <2>1. D \ x.visited \in SUBSET D
    OBVIOUS
  <2>2. IsFiniteSet(D \ x.visited) /\ Cardinality(D \ x.visited) <= Cardinality(D)
    BY <1>1, <2>1, FS_Subset
  <2> QED BY <2>2, FS_CardinalityType DEF Left, D
<1>3. ASSUME NEW x \in Calls(disk), NEW y \in Calls(disk),
             x.visited \subseteq y.visited, x.visited # y.visited
      PROVE  Left(disk, y) < Left(disk, x)
  <2>1. /\ D \ y.visited \in SUBSET (D \ x.visited) /\ D \ y.visited # D \ x.visited
    BY <1>3 DEF Calls, D
  <2>2. /\ Cardinality(D \ y.visited) <= Cardinality(D \ x.visited)
        /\ Cardinality(D \ x.visited) # Cardinality(D \ y.visited)
    BY <1>2, <2>1, FS_Subset
  <2>3. Left(disk, x) = Cardinality(D \ x.visited) /\ Left(disk, y) = Cardinality(D \ y.visited)
    BY DEF Left, D
  <2> QED BY <1>2, <2>2, <2>3
<1> QED BY <1>1, <1>2, <1>3 DEF D

LEMMA LoadsExist ==
  ASSUME NEW disk, IsDisk(disk)
  PROVE  \E load : /\ load = [x \in Calls(disk) |-> Call(disk, load, x)]
                   /\ \A x \in Calls(disk) : Returned(disk, x.visited, load[x])
<1> DEFINE Q(n, load) == /\ load = [x \in Low(disk, n) |-> Call(disk, load, x)]
                         /\ \A x \in Low(disk, n) : Returned(disk, x.visited, load[x])
           T == {n \in Nat : \E load : Q(n, load)}
<1>0. \A n : Low(disk, n) \subseteq Calls(disk)
  BY DEF Low
<1>1. 0 \in T
  <2>1. Low(disk, 0) = {}
    BY LeftFacts DEF Low
  <2> DEFINE load == [x \in {} |-> {}]
  <2>2. load = [x \in Low(disk, 0) |-> Call(disk, load, x)]
    BY <2>1
  <2>3. Q(0, load)
    BY <2>1, <2>2
  <2> HIDE DEF load, Q
  <2> QED BY <2>3
<1>2. ASSUME NEW n \in Nat, n \in T PROVE n + 1 \in T
  <2>1. PICK g : Q(n, g)
    BY <1>2
  <2> DEFINE h == [x \in Low(disk, n + 1) |-> Call(disk, g, x)]
  <2>2. ASSUME NEW x \in Low(disk, n)
        PROVE  x \in Low(disk, n + 1) /\ g[x] = h[x] /\ Returned(disk, x.visited, g[x])
    <3> DEFINE a == Left(disk, x)
    <3>1. x \in Calls(disk) /\ a \in Nat /\ a < n
      BY LeftFacts DEF Low
    <3> HIDE DEF a
    <3>2. a < n + 1
      BY <3>1
    <3>3. x \in Low(disk, n + 1)
      BY <3>1, <3>2 DEF Low, a
    <3>4. g[x] = Call(disk, g, x)
      <4>1. g = [y \in Low(disk, n) |-> Call(disk, g, y)]
        BY <2>1
      <4> QED BY <4>1, Zenon
    <3>5. h[x] = Call(disk, g, x)
      BY <3>3
    <3> QED BY <2>1, <3>3, <3>4, <3>5
  <2>3. ASSUME NEW x \in Low(disk, n + 1)
        PROVE  /\ Call(disk, g, x) = Call(disk, h, x)
               /\ Returned(disk, x.visited, Call(disk, g, x))
    <3>1. x \in Calls(disk)
      BY <1>0
    <3>2. ASSUME NEW y \in Calls(disk), x.visited \subseteq y.visited, x.visited # y.visited
          PROVE  g[y] = h[y] /\ Returned(disk, y.visited, g[y])
      <4> DEFINE a == Left(disk, x)  b == Left(disk, y)
      <4>1. a \in Nat /\ b \in Nat /\ b < a /\ a < n + 1
        <5>1. b < a /\ a \in Nat /\ b \in Nat
          BY <3>1, <3>2, LeftFacts
        <5>2. a < n + 1
          BY DEF Low
        <5> QED BY <5>1, <5>2
      <4> HIDE DEF a, b
      <4>2. b < n
        BY <4>1
      <4>3. y \in Low(disk, n)
        BY <4>2 DEF Low, b
      <4> HIDE DEF h
      <4> QED BY <2>2, <4>3
    <3> HIDE DEF h
    <3> QED BY <3>1, <3>2, LoadLocal
  <2>4. h = [x \in Low(disk, n + 1) |-> Call(disk, h, x)]
    BY <2>3
  <2>5. \A x \in Low(disk, n + 1) : Returned(disk, x.visited, h[x])
    BY <2>3
  <2> HIDE DEF h
  <2>6. Q(n + 1, h)
    BY <2>4, <2>5
  <2>7. n + 1 \in Nat
    OBVIOUS
  <2> HIDE DEF Q
  <2> QED BY <2>6, <2>7
<1> DEFINE c == Cardinality(DOMAIN disk)
<1>3. c \in Nat /\ c + 1 \in Nat
  BY LeftFacts
<1>4. Low(disk, c + 1) = Calls(disk)
  <2>1. ASSUME NEW x \in Calls(disk) PROVE x \in Low(disk, c + 1)
    <3> DEFINE a == Left(disk, x)
    <3>1. a \in Nat /\ a <= c
      BY LeftFacts
    <3> HIDE DEF a, c
    <3>2. a < c + 1
      BY <1>3, <3>1
    <3> QED BY <3>2 DEF Low, a
  <2> QED BY <1>0, <2>1
<1> HIDE DEF c
<1>5. c + 1 \in T
  <2> HIDE DEF T
  <2>1. \A n \in Nat : n \in T
    BY <1>1, <1>2, Induction
  <2> QED BY <1>3, <2>1
<1> QED BY <1>4, <1>5

LEMMA LoadsReturn ==
  ASSUME NEW disk, IsDisk(disk), NEW load, load = [x \in Calls(disk) |-> Call(disk, load, x)]
  PROVE  \A x \in Calls(disk) : Returned(disk, x.visited, load[x])
<1> DEFINE T == {n \in Nat : \A x \in Low(disk, n) : Returned(disk, x.visited, load[x])}
<1>0. \A n : Low(disk, n) \subseteq Calls(disk)
  BY DEF Low
<1>1. 0 \in T
  BY LeftFacts DEF Low
<1>2. ASSUME NEW n \in Nat, n \in T PROVE n + 1 \in T
  <2>1. ASSUME NEW x \in Low(disk, n + 1) PROVE Returned(disk, x.visited, load[x])
    <3>1. x \in Calls(disk)
      BY <1>0
    <3>2. ASSUME NEW y \in Calls(disk), x.visited \subseteq y.visited, x.visited # y.visited
          PROVE  load[y] = load[y] /\ Returned(disk, y.visited, load[y])
      <4> DEFINE a == Left(disk, x)  b == Left(disk, y)
      <4>1. a \in Nat /\ b \in Nat /\ b < a /\ a < n + 1
        <5>1. b < a /\ a \in Nat /\ b \in Nat
          BY <3>1, <3>2, LeftFacts
        <5>2. a < n + 1
          BY DEF Low
        <5> QED BY <5>1, <5>2
      <4> HIDE DEF a, b
      <4>2. b < n
        BY <4>1
      <4>3. y \in Low(disk, n)
        BY <4>2 DEF Low, b
      <4> QED BY <1>2, <4>3
    <3>3. Returned(disk, x.visited, Call(disk, load, x))
      BY <3>1, <3>2, LoadLocal
    <3>4. load[x] = Call(disk, load, x)
      BY <3>1, Zenon
    <3> QED BY <3>3, <3>4
  <2> QED BY <2>1
<1> DEFINE c == Cardinality(DOMAIN disk)
<1>3. c \in Nat /\ c + 1 \in Nat
  BY LeftFacts
<1>4. ASSUME NEW x \in Calls(disk) PROVE x \in Low(disk, c + 1)
  <2> DEFINE a == Left(disk, x)
  <2>1. a \in Nat /\ a <= c
    BY LeftFacts
  <2> HIDE DEF a, c
  <2>2. a < c + 1
    BY <1>3, <2>1
  <2> QED BY <2>2 DEF Low, a
<1> HIDE DEF c
<1>5. c + 1 \in T
  <2> HIDE DEF T
  <2>1. \A n \in Nat : n \in T
    BY <1>1, <1>2, Induction
  <2> QED BY <1>3, <2>1
<1> QED BY <1>4, <1>5

(* What a call below the top returns, and what the whole does.             *)
LEMMA LoadFileSteps ==
  ASSUME NEW disk, IsDisk(disk), NEW p \in DOMAIN disk
  PROVE  LoadFile(disk, p).steps \in Seq(Steps)
<1> DEFINE P(load) == load = [x \in Calls(disk) |-> Call(disk, load, x)]
           y == [path |-> p, visited |-> {}]
           whole == CHOOSE load : P(load)
<1>1. LoadFile(disk, p) = whole[y]
  BY DEF LoadFile, Call
<1>2. P(whole)
  <2>1. \E load : P(load)
    BY LoadsExist
  <2> HIDE DEF P
  <2> QED BY <2>1
<1> HIDE DEF whole
<1>3. \A x \in Calls(disk) : Returned(disk, x.visited, whole[x])
  BY <1>2, LoadsReturn
<1>4. y \in Calls(disk)
  <2>1. p \in Paths(disk) /\ {} \in SUBSET DOMAIN disk
    BY DEF Paths
  <2> QED BY <2>1 DEF Calls
<1> HIDE DEF y
<1> QED BY <1>1, <1>3, <1>4 DEF Returned

LEMMA LibraryTyped ==
  ASSUME NEW disk \in Libraries
  PROVE  IsLibrary(Loaded(disk))
<1>1. IsDisk(disk)
  BY LibrariesAssumption DEF IsDisk
<1> DEFINE l == Loaded(disk)
<1>2. SUFFICES ASSUME NEW f \in DOMAIN l
               PROVE  /\ l[f].steps \in Seq(Steps) /\ l[f].finally \in Seq(Steps)
                      /\ l[f].outputs \in BOOLEAN
  BY DEF IsLibrary
<1>3. f \in DOMAIN disk
  BY DEF Loaded
<1>4. /\ l[f].steps = LoadFile(disk, f).steps
      /\ l[f].finally = disk[f].finally /\ l[f].outputs = disk[f].outputs
  BY DEF Loaded
<1>5. LoadFile(disk, f).steps \in Seq(Steps)
  BY <1>1, <1>3, LoadFileSteps
<1> HIDE DEF l
<1> QED BY <1>1, <1>3, <1>4, <1>5 DEF IsDisk

-----------------------------------------------------------------------------
(* The invariant of every run: the nodes and the plan are what the files   *)
(* come to, and the states are states of these nodes.                      *)
Faithful ==
  /\ files \in Libraries /\ lib = Loaded(files)
  /\ nodes = Compiled(lib).nodes /\ graph = PlanOf(nodes)
  /\ verdict = "refused" <=> ~Compiled(lib).ok
  /\ state \in [DOMAIN nodes -> {"waiting", "running"} \cup Run!Settled]

LEMMA SourceFacts ==
  ASSUME Faithful
  PROVE  /\ IsLibrary(lib) /\ WellMade(lib, nodes) /\ Planned(nodes, graph)
         /\ nodes \in Seq(NodeType) /\ DOMAIN nodes = 1..Len(nodes) /\ Len(nodes) \in Nat
<1>1. IsLibrary(lib)
  BY LibraryTyped DEF Faithful
<1>2. WellMade(lib, nodes)
  BY <1>1, CompiledSound DEF Faithful
<1>3. nodes \in Seq(NodeType)
  BY <1>2 DEF WellMade, Shape
<1>4. Planned(nodes, graph)
  BY <1>3, PlanIs DEF Faithful
<1> QED BY <1>1, <1>2, <1>3, <1>4

LEMMA NamedApart ==
  ASSUME Faithful, TeardownsNamed
  PROVE  NoFinally(lib) /\ TeardownsApart(nodes)
BY SourceFacts DEF TeardownsNamed, NoFinally, TeardownsApart, Files, StepsOf

LEMMA StatusSettled ==
  ASSUME NEW k, NEW o \in Outcomes
  PROVE  /\ Status(k, o) \in {"success", "failed", "failed-continued", "skipped"}
         /\ Status(k, o) = "skipped" => o = "skipped"
BY OutcomesAssumption DEF Status

(* What a step of a run does to the states.                                *)
Started(k) ==
  /\ state[k] = "waiting"
  /\ \A d \in graph.needs[k] : state[d] \in Run!Settled
  /\ state' = [state EXCEPT ![k] = "running"]
Finished(k) ==
  /\ state[k] = "running"
  /\ state' = [state EXCEPT ![k] = state'[k]]
  /\ \E o \in Outcomes : state'[k] = Status(k, o)
Skipped(k) ==
  /\ k \in graph.keys \ graph.always /\ state[k] = "waiting"
  /\ \/ \A d \in graph.needs[k] : state[d] \in Run!Settled
     \/ \E d \in graph.needs[k] : state[d] = "skipped"
  /\ state' = [state EXCEPT ![k] = "skipped"]

LEMMA NextMeans ==
  ASSUME Faithful, Next
  PROVE  /\ UNCHANGED <<files, lib, nodes, graph>>
         /\ \/ /\ UNCHANGED verdict
               /\ \/ \E k \in DOMAIN nodes :
                       \/ Started(k) /\ UNCHANGED scope
                       \/ Finished(k) /\ RecordScopeStatus(k, state'[k])
                       \/ Skipped(k) /\ RecordScopeStatus(k, "skipped")
                  \/ UNCHANGED <<state, scope>>
            \/ Run!Conclude /\ UNCHANGED <<state, scope>>
<1>1. ASSUME NEW k \in DOMAIN nodes, Start(k)
      PROVE  /\ UNCHANGED <<files, lib, nodes, graph, verdict>>
             /\ Started(k) /\ UNCHANGED scope
  BY <1>1 DEF Start, Run!Start, Run!NeedsSettled, Run!Settled, source, Started,
              Run!Fatal, Run!Mild
<1>2. ASSUME NEW k \in DOMAIN nodes, Finish(k)
      PROVE  /\ UNCHANGED <<files, lib, nodes, graph, verdict>>
             /\ Finished(k) /\ RecordScopeStatus(k, state'[k])
  <2>1. PICK s : state' = [state EXCEPT ![k] = s]
    BY <1>2 DEF Finish, Run!Finish
  <2>2. state'[k] = s
    BY <2>1 DEF Faithful
  <2>3. state' = [state EXCEPT ![k] = state'[k]]
    BY <2>1, <2>2
  <2> QED BY <1>2, <2>3 DEF Finish, Run!Finish, source, Finished
<1>3. ASSUME NEW k \in DOMAIN nodes, Skip(k)
      PROVE  /\ UNCHANGED <<files, lib, nodes, graph, verdict>>
             /\ Skipped(k) /\ RecordScopeStatus(k, "skipped")
  BY <1>3 DEF Skip, Run!Skip, Run!NeedsSettled, source, Skipped
<1>4. ASSUME Halt PROVE UNCHANGED <<files, lib, nodes, graph, verdict, state, scope>>
  BY <1>4 DEF Halt, Run!Halt, source
<1>5. ASSUME Conclude
      PROVE  UNCHANGED <<files, lib, nodes, graph>> /\ Run!Conclude /\ UNCHANGED <<state, scope>>
  BY <1>5 DEF Conclude, Run!Conclude, source
<1> QED BY <1>1, <1>2, <1>3, <1>4, <1>5 DEF Next

LEMMA FaithfulInit == Init => Faithful
<1> SUFFICES ASSUME Init PROVE Faithful
  OBVIOUS
<1>1. verdict = "refused" <=> ~Compiled(lib).ok
  BY DEF Init
<1> QED BY <1>1 DEF Init, Faithful

LEMMA FaithfulNext ==
  ASSUME Faithful, [Next]_vars
  PROVE  Faithful'
<1>1. CASE Next
  <2>1. UNCHANGED <<files, lib, nodes, graph>>
    BY <1>1, NextMeans
  <2>2. (verdict = "refused") = (verdict' = "refused")
    <3>1. Run!Conclude => verdict # "refused" /\ verdict' # "refused"
      BY DEF Run!Conclude
    <3>2. UNCHANGED verdict \/ Run!Conclude
      BY <1>1, NextMeans
    <3> QED BY <3>1, <3>2
  <2>3. state' \in [DOMAIN nodes -> {"waiting", "running"} \cup Run!Settled]
    <3>1. CASE \E k \in DOMAIN nodes : Started(k) \/ Finished(k) \/ Skipped(k)
      <4>1. PICK k \in DOMAIN nodes : Started(k) \/ Finished(k) \/ Skipped(k)
        BY <3>1
      <4>2. \E s \in {"waiting", "running"} \cup Run!Settled : state' = [state EXCEPT ![k] = s]
        BY <4>1, StatusSettled DEF Started, Finished, Skipped, Run!Settled, Run!Mild, Run!Fatal
      <4> QED BY <4>2 DEF Faithful
    <3>2. CASE UNCHANGED state
      BY <3>2 DEF Faithful
    <3> QED BY <1>1, <3>1, <3>2, NextMeans
  <2> QED BY <2>1, <2>2, <2>3 DEF Faithful
<1>2. CASE UNCHANGED vars
  BY <1>2 DEF vars, source, Faithful, Run!Settled, Run!Fatal, Run!Mild
<1> QED BY <1>1, <1>2

LEMMA AlwaysFaithful == Spec => []Faithful
BY FaithfulInit, FaithfulNext, PTL DEF Spec

-----------------------------------------------------------------------------
(* A teardown step waits for one node at most.                             *)

LEMMA OneNeed == Faithful => OneNeedPerTeardown
<1> SUFFICES ASSUME Faithful, TeardownsNamed,
                    NEW t \in graph.always, NEW a \in graph.needs[t], NEW b \in graph.needs[t]
             PROVE  a = b
  BY DEF OneNeedPerTeardown
<1>0. Len(<<>>) = 0
  OBVIOUS
<1>1. /\ WellMade(lib, nodes) /\ Planned(nodes, graph) /\ nodes \in Seq(NodeType)
      /\ NoFinally(lib) /\ TeardownsApart(nodes)
  BY SourceFacts, NamedApart
<1>2. Shape(<<>>, nodes) /\ Plain(<<>>, nodes)
  BY <1>1 DEF WellMade
<1>3. t \in graph.keys /\ t \in 1..Len(nodes) /\ nodes[t].always
  BY <1>1 DEF Planned
<1>4. /\ Len(nodes[t].id) >= 3 /\ nodes[t].id[Len(nodes[t].id) - 1] = "finally"
      /\ \E d \in Names : d # <<>> /\ nodes[t].needs = {d}
  BY <1>0, <1>2, <1>3 DEF Shape
<1>5. ASSUME NEW i \in 1..Len(nodes), Carrier(nodes, i) = t PROVE i = t
  <2>1. nodes[t].id = nodes[i].id
    BY <1>1, <1>5, CarrierFacts
  <2>2. nodes[i].always => i = t
    BY <1>1, <1>3, <2>1 DEF TeardownsApart
  <2>3. nodes[i].always
    <3>1. ~nodes[i].always /\ Len(nodes[i].id) >= 2 => nodes[i].id[Len(nodes[i].id) - 1] # "finally"
      BY <1>0, <1>2 DEF Plain
    <3>2. Len(nodes[t].id) >= 3 => Len(nodes[t].id) >= 2
      <4> DEFINE x == Len(nodes[t].id)
      <4>1. x \in Nat
        BY <1>1, <1>3 DEF NodeType, Names
      <4> HIDE DEF x
      <4>2. x >= 3 => x >= 2
        BY <4>1
      <4> QED BY <4>2 DEF x
    <3> QED BY <1>4, <2>1, <3>1, <3>2
  <2> QED BY <2>2, <2>3
<1>6. PICK d \in Names : d # <<>> /\ nodes[t].needs = {d}
  BY <1>4
<1>7. ASSUME NEW j \in graph.needs[t] PROVE j \in graph.keys /\ nodes[j].id = d
  <2>1. j \in graph.keys /\ \E i \in 1..Len(nodes) :
                              Carrier(nodes, i) = t /\ nodes[j].id \in nodes[i].needs
    BY <1>1, <1>3 DEF Planned
  <2> QED BY <1>5, <1>6, <2>1
<1>8. a \in graph.keys /\ b \in graph.keys /\ nodes[a].id = nodes[b].id /\ nodes[b].id # <<>>
  BY <1>6, <1>7
<1> QED BY <1>1, <1>8 DEF Planned

(* Where teardown steps have names of their own, each waits for one node   *)
(* at most: compileInclude chains them (compile.go:201-214), and the       *)
(* scheduler (scheduler.go:31-68) adds the needs of no other node to them. *)
THEOREM OneNeedHolds == Spec => []OneNeedPerTeardown
BY AlwaysFaithful, OneNeed, PTL

-----------------------------------------------------------------------------
(* Steps that declare no needs run in the order of the source.             *)

LEMMA SourceChain ==
  ASSUME Faithful, InSourceOrder
  PROVE  /\ graph.keys = DOMAIN nodes
         /\ \A k \in DOMAIN nodes : graph.needs[k] = IF k = 1 THEN {} ELSE {k - 1}
<1>1. /\ WellMade(lib, nodes) /\ nodes \in Seq(NodeType)
      /\ Named(lib) /\ NoNeeds(lib) /\ NoFinally(lib) /\ TeardownsApart(nodes)
      /\ DOMAIN nodes = 1..Len(nodes) /\ Len(nodes) \in Nat /\ graph = PlanOf(nodes)
  BY SourceFacts, NamedApart DEF InSourceOrder, AllNamed, NoneDeclared, Named, NoNeeds,
                                 Files, StepsOf, Faithful
<1>2. Apart(nodes)
  BY <1>1, NamesApart
<1>3. /\ graph.keys = 1..Len(nodes)
      /\ \A k \in 1..Len(nodes) :
           graph.needs[k] = {j \in 1..Len(nodes) : nodes[j].id \in nodes[k].needs}
  BY <1>1, <1>2, ApartPlan
<1>4. ASSUME NEW k \in 1..Len(nodes)
      PROVE  graph.needs[k] = IF k = 1 THEN {} ELSE {k - 1}
  <2>1. nodes[k].needs = IF k = 1 THEN {} ELSE {nodes[k - 1].id}
    BY <1>1 DEF WellMade
  <2>2. CASE k = 1
    BY <1>3, <2>1, <2>2
  <2>3. CASE k # 1
    <3>1. k - 1 \in 1..Len(nodes)
      BY <1>1, <2>3
    <3>2. \A j \in 1..Len(nodes) : nodes[j].id \in nodes[k].needs <=> j = k - 1
      BY <1>2, <2>1, <2>3, <3>1 DEF Apart
    <3> QED BY <1>3, <2>3, <3>1, <3>2
  <2> QED BY <2>2, <2>3
<1> QED BY <1>1, <1>3, <1>4

(* What started, or was skipped, has every earlier node behind it.         *)
InOrder ==
  InSourceOrder =>
    \A i \in DOMAIN nodes, j \in DOMAIN nodes : i < j /\ state[j] # "waiting" => Settled(i)

LEMMA InOrderNext ==
  ASSUME Faithful, InOrder, Next
  PROVE  InOrder'
<1>1. UNCHANGED <<files, lib, nodes, graph>>
  BY NextMeans
<1>2. InSourceOrder' = InSourceOrder
  BY <1>1 DEF InSourceOrder, NoneDeclared, AllNamed, TeardownsNamed, Files, StepsOf
<1> SUFFICES ASSUME InSourceOrder, NEW i \in DOMAIN nodes, NEW j \in DOMAIN nodes,
                    i < j, state'[j] # "waiting"
             PROVE  state'[i] \in Run!Settled
  BY <1>1, <1>2 DEF InOrder, Settled, Run!Settled, Run!Fatal, Run!Mild
<1>3. /\ state \in [DOMAIN nodes -> {"waiting", "running"} \cup Run!Settled]
      /\ DOMAIN nodes = 1..Len(nodes) /\ Len(nodes) \in Nat
      /\ \A k \in DOMAIN nodes : graph.needs[k] = IF k = 1 THEN {} ELSE {k - 1}
      /\ "waiting" \notin Run!Settled /\ "running" \notin Run!Settled /\ "skipped" \in Run!Settled
  BY SourceFacts, SourceChain DEF Faithful, Run!Settled, Run!Fatal, Run!Mild
<1>4. \A m \in DOMAIN nodes, n \in DOMAIN nodes :
        m < n /\ state[n] # "waiting" => state[m] \in Run!Settled
  BY DEF InOrder, Settled
<1>5. ASSUME NEW k \in DOMAIN nodes, Started(k) \/ Skipped(k)
      PROVE  \A m \in DOMAIN nodes : m < k => state[m] \in Run!Settled
  <2>1. \/ \A d \in graph.needs[k] : state[d] \in Run!Settled
        \/ \E d \in graph.needs[k] : state[d] = "skipped"
    BY <1>5 DEF Started, Skipped
  <2>2. ASSUME NEW m \in DOMAIN nodes, m < k PROVE state[m] \in Run!Settled
    <3>1. k # 1 /\ k - 1 \in DOMAIN nodes /\ (m = k - 1 \/ m < k - 1)
      BY <1>3, <2>2
    <3>2. graph.needs[k] = {k - 1}
      BY <1>3, <3>1
    <3>3. state[k - 1] \in Run!Settled
      BY <1>3, <2>1, <3>2
    <3>4. state[k - 1] # "waiting"
      BY <1>3, <3>3
    <3> QED BY <1>4, <3>1, <3>3, <3>4
  <2> QED BY <2>2
<1>6. CASE \E k \in DOMAIN nodes : Started(k) \/ Skipped(k)
  <2>1. PICK k \in DOMAIN nodes : Started(k) \/ Skipped(k)
    BY <1>6
  <2>2. \E s : state' = [state EXCEPT ![k] = s]
    BY <2>1 DEF Started, Skipped
  <2>3. state[k] = "waiting" /\ \A m \in DOMAIN nodes : m # k => state'[m] = state[m]
    BY <1>3, <2>1, <2>2 DEF Started, Skipped
  <2>4. state[i] \in Run!Settled
    BY <1>4, <1>5, <2>1, <2>3
  <2>5. i # k
    BY <1>3, <2>3, <2>4
  <2> QED BY <2>3, <2>4, <2>5
<1>7. CASE \E k \in DOMAIN nodes : Finished(k)
  <2>1. PICK k \in DOMAIN nodes : Finished(k)
    BY <1>7
  <2>2. state[k] = "running" /\ state'[k] \in Run!Settled
    BY <2>1, StatusSettled DEF Finished, Run!Settled, Run!Fatal, Run!Mild
  <2>3. \A m \in DOMAIN nodes : m # k => state'[m] = state[m]
    BY <1>3, <2>1 DEF Finished
  <2>4. state[j] # "waiting"
    BY <2>2, <2>3
  <2>5. state[i] \in Run!Settled
    BY <1>4, <2>4
  <2> QED BY <2>2, <2>3, <2>5
<1>8. CASE UNCHANGED state
  BY <1>4, <1>8
<1> QED BY <1>6, <1>7, <1>8, NextMeans

LEMMA InOrderInit == Init => InOrder
BY DEF Init, InOrder

LEMMA AlwaysInOrder == Spec => []InOrder
<1>1. Faithful /\ InOrder /\ [Next]_vars => InOrder'
  <2>1. ASSUME InOrder, UNCHANGED vars PROVE InOrder'
    BY <2>1 DEF vars, source, InOrder, InSourceOrder, NoneDeclared, AllNamed, TeardownsNamed,
                Files, StepsOf, Settled, Run!Settled, Run!Fatal, Run!Mild
  <2> QED BY <2>1, InOrderNext
<1> QED BY <1>1, InOrderInit, AlwaysFaithful, PTL DEF Spec

(* Steps that declare no needs run one after the other, fragments and      *)
(* their teardown where their include stands (compile.go:77-83, 145-214,   *)
(* applyImplicitNeeds), and so they do after a step has failed.            *)
THEOREM SourceOrderHolds == Spec => []SourceOrder
<1>1. Faithful /\ InOrder => SourceOrder
  BY DEF InOrder, SourceOrder
<1> QED BY <1>1, AlwaysFaithful, AlwaysInOrder, PTL

-----------------------------------------------------------------------------
(* What a teardown reads of its fragment.                                  *)

LEMMA PrefixInScopes ==
  ASSUME NEW ns \in Seq(NodeType), NEW t \in DOMAIN ns, ns[t].scope # <<>>
  PROVE  ns[t].scope \in Scopes(ns)
<1> DEFINE sc == ns[t].scope
<1>1. sc \in Seq(Words)
  <2>1. ns[t] \in NodeType
    OBVIOUS
  <2> QED BY <2>1 DEF NodeType, Names
<1> HIDE DEF sc
<1>2. SubSeq(sc, 1, Len(sc)) = sc /\ Len(sc) \in 0..Len(sc)
  BY <1>1
<1>3. sc \in Prefixes(sc)
  BY <1>2, Zenon DEF Prefixes
<1>4. sc \in Prefixes(ns[t].scope) /\ sc # <<>>
  BY <1>3 DEF sc
<1>5. sc \in Scopes(ns)
  <2> DEFINE T == {Prefixes(ns[i].scope) : i \in DOMAIN ns}
  <2>1. Prefixes(ns[t].scope) \in T
    OBVIOUS
  <2>2. Scopes(ns) = (UNION T) \ {<<>>}
    BY DEF Scopes
  <2> HIDE DEF T
  <2> QED BY <1>4, <2>1, <2>2
<1> QED BY <1>5 DEF sc

(* Statuses are folded into the scopes as the steps settle; what is not    *)
(* dispatched does not settle.                                             *)
ScopeStates == {"", "success", "failed", "skipped"}
Bad(p) == \E k \in Within(p) : state[k] \in {"failed", "failed-continued"}
ScopeTold ==
  /\ scope \in [Scopes(nodes) -> ScopeStates]
  /\ \A p \in Scopes(nodes) : scope[p] = "failed" <=> Bad(p)
  /\ \A p \in Scopes(nodes) : FromTeardown(p) => scope[p] = ""
  /\ \A k \in DOMAIN nodes : k \notin graph.keys => state[k] = "waiting"

LEMMA Ranks ==
  /\ Rank("") = 0 /\ Rank("success") = 1 /\ Rank("skipped") = 1 /\ Rank("failed") = 3
BY DEF Rank, Run!Fatal

LEMMA Folding ==
  ASSUME ScopeTold, NEW k \in DOMAIN nodes,
         NEW s \in {"success", "failed", "failed-continued", "skipped"},
         RecordScopeStatus(k, s)
  PROVE  /\ scope' \in [Scopes(nodes) -> ScopeStates]
         /\ \A p \in Scopes(nodes) :
              scope'[p] = "failed" <=>
                \/ scope[p] = "failed"
                \/ /\ ~nodes[k].always /\ IsPrefix(p, nodes[k].scope)
                   /\ s \in {"failed", "failed-continued"}
         /\ \A p \in Scopes(nodes) : FromTeardown(p) => scope'[p] = scope[p]
<1> DEFINE folded == IF s = "failed-continued" THEN "failed" ELSE s
<1>1. /\ folded \in {"success", "failed", "skipped"}
      /\ folded = "failed" <=> s \in {"failed", "failed-continued"}
  OBVIOUS
<1>2. scope' = [p \in Scopes(nodes) |->
                  IF ~nodes[k].always /\ IsPrefix(p, nodes[k].scope)
                     /\ Rank(folded) > Rank(scope[p])
                  THEN folded ELSE scope[p]]
  BY DEF RecordScopeStatus, ScopeTold
<1> HIDE DEF folded
<1>3. scope' \in [Scopes(nodes) -> ScopeStates]
  BY <1>1, <1>2 DEF ScopeTold, ScopeStates
<1>4. ASSUME NEW p \in Scopes(nodes)
      PROVE  scope'[p] = "failed" <=>
               \/ scope[p] = "failed"
               \/ /\ ~nodes[k].always /\ IsPrefix(p, nodes[k].scope)
                  /\ s \in {"failed", "failed-continued"}
  <2>1. scope[p] \in ScopeStates
    BY DEF ScopeTold
  <2>2. scope'[p] = IF ~nodes[k].always /\ IsPrefix(p, nodes[k].scope)
                       /\ Rank(folded) > Rank(scope[p])
                    THEN folded ELSE scope[p]
    BY <1>2
  <2>3. CASE folded = "failed"
    <3>1. scope[p] # "failed" => Rank(folded) > Rank(scope[p])
      <4>1. Rank(folded) = 3
        BY <2>3, Ranks
      <4>2. scope[p] # "failed" => Rank(scope[p]) \in {0, 1}
        BY <2>1, Ranks, Zenon DEF ScopeStates
      <4> QED BY <4>1, <4>2
    <3> QED BY <1>1, <2>2, <2>3, <3>1
  <2>4. CASE folded # "failed"
    <3>1. scope[p] = "failed" => ~(Rank(folded) > Rank(scope[p]))
      <4>1. Rank(folded) = 1
        BY <1>1, <2>4, Ranks, Zenon
      <4>2. scope[p] = "failed" => Rank(scope[p]) = 3
        BY Ranks
      <4> QED BY <4>1, <4>2
    <3> QED BY <1>1, <2>2, <2>4, <3>1
  <2> QED BY <2>3, <2>4
<1>5. \A p \in Scopes(nodes) : FromTeardown(p) => scope'[p] = scope[p]
  BY <1>2 DEF FromTeardown
<1> QED BY <1>3, <1>4, <1>5

LEMMA ScopeToldNext ==
  ASSUME Faithful, ScopeTold, Next
  PROVE  ScopeTold'
<1>1. UNCHANGED <<files, lib, nodes, graph>>
  BY NextMeans
<1>2. /\ state \in [DOMAIN nodes -> {"waiting", "running"} \cup Run!Settled]
      /\ Planned(nodes, graph) /\ DOMAIN nodes = 1..Len(nodes)
      /\ "waiting" \notin Run!Settled /\ "running" \notin Run!Settled
      /\ graph.keys \subseteq DOMAIN nodes
  BY SourceFacts DEF Faithful, Run!Settled, Run!Fatal, Run!Mild, Planned
<1>3. Scopes(nodes)' = Scopes(nodes) /\ ScopeStates' = ScopeStates
  BY <1>1 DEF Scopes, ScopeStates
<1>4. \A p : Within(p) = {k \in graph.keys : ~nodes[k].always /\ IsPrefix(p, nodes[k].scope)}
  BY DEF Within
<1>5. \A p : Bad(p)' <=> \E k \in Within(p) : state'[k] \in {"failed", "failed-continued"}
  BY <1>1 DEF Bad, Within
<1>q. \A p : FromTeardown(p)' <=> FromTeardown(p)
  BY <1>1 DEF FromTeardown
<1>6. CASE UNCHANGED <<state, scope>>
  <2>1. \A p : Bad(p)' <=> Bad(p)
    BY <1>5, <1>6 DEF Bad
  <2> QED BY <1>1, <1>3, <1>6, <1>q, <2>1 DEF ScopeTold
<1>7. CASE \E k \in DOMAIN nodes : Started(k) /\ UNCHANGED scope
  <2>1. PICK k \in DOMAIN nodes : Started(k) /\ UNCHANGED scope
    BY <1>7
  <2>2. state[k] = "waiting" /\ state'[k] = "running"
        /\ \A m \in DOMAIN nodes : m # k => state'[m] = state[m]
    BY <1>2, <2>1 DEF Started
  <2>3. k \in graph.keys
    <3>1. k \notin graph.keys => graph.needs[k] = {k}
      BY <1>2 DEF Planned
    <3>2. \A d \in graph.needs[k] : state[d] \in Run!Settled
      BY <2>1 DEF Started
    <3> QED BY <1>2, <2>2, <3>1, <3>2
  <2>4. \A p : Bad(p)' <=> Bad(p)
    <3>1. \A m \in DOMAIN nodes : state'[m] \in {"failed", "failed-continued"}
                                  <=> state[m] \in {"failed", "failed-continued"}
      BY <2>2
    <3>2. \A p : Within(p) \subseteq DOMAIN nodes
      BY <1>2, <1>4
    <3> QED BY <1>5, <3>1, <3>2 DEF Bad
  <2>5. \A m \in DOMAIN nodes : m \notin graph.keys => state'[m] = "waiting"
    BY <2>2, <2>3 DEF ScopeTold
  <2> QED BY <1>1, <1>3, <1>q, <2>1, <2>4, <2>5 DEF ScopeTold
<1>8. ASSUME NEW k \in DOMAIN nodes, NEW s \in {"success", "failed", "failed-continued", "skipped"},
             k \in graph.keys, state[k] \in {"waiting", "running"},
             state' = [state EXCEPT ![k] = s], RecordScopeStatus(k, s)
      PROVE  ScopeTold'
  <2>1. state'[k] = s /\ \A m \in DOMAIN nodes : m # k => state'[m] = state[m]
    BY <1>2, <1>8
  <2>2. /\ scope' \in [Scopes(nodes) -> ScopeStates]
        /\ \A p \in Scopes(nodes) :
             scope'[p] = "failed" <=>
               \/ scope[p] = "failed"
               \/ /\ ~nodes[k].always /\ IsPrefix(p, nodes[k].scope)
                  /\ s \in {"failed", "failed-continued"}
        /\ \A p \in Scopes(nodes) : FromTeardown(p) => scope'[p] = scope[p]
    BY <1>8, Folding
  <2>3. ASSUME NEW p \in Scopes(nodes) PROVE scope'[p] = "failed" <=> Bad(p)'
    <3>1. scope[p] = "failed" <=> Bad(p)
      BY DEF ScopeTold
    <3>2. k \in Within(p) <=> ~nodes[k].always /\ IsPrefix(p, nodes[k].scope)
      BY <1>4, <1>8
    <3>3. Within(p) \subseteq DOMAIN nodes
      BY <1>2, <1>4
    <3>4. Bad(p)' <=> Bad(p) \/ (k \in Within(p) /\ s \in {"failed", "failed-continued"})
      <4>1. state[k] \notin {"failed", "failed-continued"}
        BY <1>8
      <4> QED BY <1>5, <2>1, <3>3, <4>1 DEF Bad
    <3> QED BY <2>2, <3>1, <3>2, <3>4
  <2>4. \A m \in DOMAIN nodes : m \notin graph.keys => state'[m] = "waiting"
    BY <1>8, <2>1 DEF ScopeTold
  <2> QED BY <1>1, <1>3, <1>q, <2>2, <2>3, <2>4 DEF ScopeTold
<1>9. CASE \E k \in DOMAIN nodes : Finished(k) /\ RecordScopeStatus(k, state'[k])
  <2>1. PICK k \in DOMAIN nodes : Finished(k) /\ RecordScopeStatus(k, state'[k])
    BY <1>9
  <2>2. /\ state'[k] \in {"success", "failed", "failed-continued", "skipped"}
        /\ state[k] = "running" /\ state' = [state EXCEPT ![k] = state'[k]]
    BY <2>1, StatusSettled DEF Finished
  <2>3. k \in graph.keys
    BY <2>2 DEF ScopeTold
  <2> QED BY <1>8, <2>1, <2>2, <2>3
<1>10. CASE \E k \in DOMAIN nodes : Skipped(k) /\ RecordScopeStatus(k, "skipped")
  <2>1. PICK k \in DOMAIN nodes : Skipped(k) /\ RecordScopeStatus(k, "skipped")
    BY <1>10
  <2>2. k \in graph.keys /\ state[k] = "waiting" /\ state' = [state EXCEPT ![k] = "skipped"]
    BY <2>1 DEF Skipped
  <2> QED BY <1>8, <2>1, <2>2
<1> QED BY <1>6, <1>7, <1>9, <1>10, NextMeans

LEMMA ScopeToldInit == Init => ScopeTold
<1> SUFFICES ASSUME Init PROVE ScopeTold
  OBVIOUS
<1>1. /\ scope = [p \in Scopes(nodes) |-> ""] /\ state = [k \in DOMAIN nodes |-> "waiting"]
  BY DEF Init
<1>2. Faithful
  BY FaithfulInit
<1>3. \A p : Within(p) \subseteq DOMAIN nodes
  BY <1>2, SourceFacts DEF Within, Planned
<1> QED BY <1>1, <1>3 DEF ScopeTold, ScopeStates, Bad

LEMMA AlwaysScopeTold == Spec => []ScopeTold
<1>1. Faithful /\ ScopeTold /\ [Next]_vars => ScopeTold'
  <2>1. ASSUME ScopeTold, UNCHANGED vars PROVE ScopeTold'
    <3>1. UNCHANGED <<nodes, graph, state, scope>>
      BY <2>1 DEF vars, source
    <3>2. Scopes(nodes)' = Scopes(nodes) /\ ScopeStates' = ScopeStates
      BY <3>1 DEF Scopes, ScopeStates
    <3>3. \A p : (Bad(p)' <=> Bad(p)) /\ (FromTeardown(p)' <=> FromTeardown(p))
      BY <3>1 DEF Bad, Within, FromTeardown
    <3> QED BY <2>1, <3>1, <3>2, <3>3 DEF ScopeTold
  <2> QED BY <2>1, ScopeToldNext
<1> QED BY <1>1, ScopeToldInit, AlwaysFaithful, PTL DEF Spec

LEMMA ReadsOutcome ==
  ASSUME Faithful, InOrder, ScopeTold
  PROVE  TeardownReadsOutcome
<1> SUFFICES ASSUME InSourceOrder, NEW t \in graph.always, state[t] = "running"
             PROVE  LET p == nodes[t].scope IN
                    IF FromTeardown(p) THEN scope[p] = ""
                    ELSE /\ \A k \in Body(t) : Settled(k)
                         /\ scope[p] = "failed" <=> Bad(p)
  BY DEF TeardownReadsOutcome, Bad
<1>0. Len(<<>>) = 0
  OBVIOUS
<1>1. /\ WellMade(lib, nodes) /\ Planned(nodes, graph) /\ nodes \in Seq(NodeType)
      /\ DOMAIN nodes = 1..Len(nodes)
  BY SourceFacts
<1>2. t \in DOMAIN nodes /\ nodes[t].always /\ graph.keys \subseteq DOMAIN nodes
  BY <1>1 DEF Planned
<1>3. ASSUME NEW k \in Body(t) PROVE Settled(k)
  <2>1. /\ k \in DOMAIN nodes /\ ~nodes[k].always
        /\ IsPrefix(nodes[t].scope, nodes[k].scope) /\ nodes[k].id # nodes[t].scope
    BY <1>2 DEF Body, Within
  <2>2. k < t
    BY <1>1, <1>2, <2>1 DEF WellMade, Nested
  <2>3. state[t] # "waiting"
    OBVIOUS
  <2> QED BY <1>2, <2>1, <2>2, <2>3 DEF InOrder
<1>4. nodes[t].scope \in Scopes(nodes)
  <2>1. Len(nodes[t].scope) > 0
    BY <1>0, <1>1, <1>2 DEF WellMade, Shape
  <2>2. nodes[t].scope # <<>>
    BY <1>0, <2>1
  <2> QED BY <1>1, <1>2, <2>2, PrefixInScopes
<1> QED BY <1>3, <1>4 DEF ScopeTold

(* Where the steps are ordered by the source alone, success() and          *)
(* failure() in the teardown of a fragment (engine.go:239-242, 656-708)    *)
(* read a failure exactly when a step of the fragment, or of one nested in *)
(* it, failed, let off or not, and all of them have settled by then.  In a *)
(* fragment that a `finally:` includes, where nothing is recorded, they    *)
(* read success whatever its steps came to.                                *)
THEOREM TeardownReadsOutcomeHolds == Spec => []TeardownReadsOutcome
BY AlwaysFaithful, AlwaysInOrder, AlwaysScopeTold, ReadsOutcome, PTL

-----------------------------------------------------------------------------
(* The steps of the `finally:` blocks are there.                           *)

(* Every node of the one list is in the other, as a teardown step if it is *)
(* one here already, or in any case.                                       *)
Same(a, b) == a.scope = b.scope /\ a.local = b.local /\ a.hidden = b.hidden
Has(big, small) ==
  \A k \in 1..Len(small) : \E j \in 1..Len(big) :
    Same(big[j], small[k]) /\ (small[k].always => big[j].always)
HasDown(big, small) ==
  \A k \in 1..Len(small) : \E j \in 1..Len(big) : Same(big[j], small[k]) /\ big[j].always

LEMMA HasOn ==
  ASSUME NEW a, NEW b, NEW c, Has(a, b)
  PROVE  /\ Has(b, c) => Has(a, c)
         /\ HasDown(b, c) => HasDown(a, c)
<1>1. ASSUME Has(b, c) PROVE Has(a, c)
  <2>1. SUFFICES ASSUME NEW k \in 1..Len(c)
                 PROVE  \E j \in 1..Len(a) : Same(a[j], c[k]) /\ (c[k].always => a[j].always)
    BY DEF Has
  <2>2. PICK i \in 1..Len(b) : Same(b[i], c[k]) /\ (c[k].always => b[i].always)
    BY <1>1 DEF Has
  <2>3. PICK j \in 1..Len(a) : Same(a[j], b[i]) /\ (b[i].always => a[j].always)
    BY DEF Has
  <2> QED BY <2>2, <2>3 DEF Same
<1>2. ASSUME HasDown(b, c) PROVE HasDown(a, c)
  <2>1. SUFFICES ASSUME NEW k \in 1..Len(c)
                 PROVE  \E j \in 1..Len(a) : Same(a[j], c[k]) /\ a[j].always
    BY DEF HasDown
  <2>2. PICK i \in 1..Len(b) : Same(b[i], c[k]) /\ b[i].always
    BY <1>2 DEF HasDown
  <2>3. PICK j \in 1..Len(a) : Same(a[j], b[i]) /\ (b[i].always => a[j].always)
    BY DEF Has
  <2> QED BY <2>2, <2>3 DEF Same
<1> QED BY <1>1, <1>2

(* An include has the nodes of its fragment, and of its teardown.          *)
LEMMA ExpandedHas ==
  ASSUME NEW child, child.outputs \in BOOLEAN, NEW s \in Steps, NEW q \in Names,
         NEW body \in Seq(NodeType), body # <<>>, NEW final \in Seq(NodeType)
  PROVE  LET E == Expanded(child, s, q, body, final) IN Has(E, body) /\ HasDown(E, final)
<1> DEFINE qual == Qualify(body, child, q)
           main == Modify(qual, s)
           down == Teardown(final, q, Last(main).id)
           whole == main \o down
           tail == IF child.outputs THEN <<Shim(s, q, Last(whole).id)>> ELSE <<>>
           E == whole \o tail
           m == Len(body)
           f == Len(final)
<1>1. Expanded(child, s, q, body, final) = E
  BY DEF Expanded
<1>2. m \in Nat /\ f \in Nat /\ m # 0
  OBVIOUS
<1>3. Qualified(body, child, q, qual)
  BY QualifyType
<1> HIDE DEF qual
<1>4. Modified(qual, s, main)
  BY <1>3, ModifyType DEF Qualified
<1> HIDE DEF main
<1>5. main \in Seq(NodeType) /\ Len(main) = m
  BY <1>3, <1>4 DEF Qualified, Modified
<1>6. Last(main).id \in Names
  <2>1. Last(main) = main[m] /\ main[m] \in NodeType
    BY <1>2, <1>5 DEF Last
  <2> QED BY <2>1 DEF NodeType
<1>7. TornDown(final, q, Last(main).id, down)
  BY <1>6, TeardownType
<1> HIDE DEF down
<1>8. down \in Seq(NodeType) /\ Len(down) = f
  BY <1>7 DEF TornDown
<1>9. whole \in Seq(NodeType) /\ IsJoin(main, down, m, f, whole)
  BY <1>5, <1>8, Joined
<1> HIDE DEF whole
<1>10. tail \in Seq(NodeType)
  <2>1. Shim(s, q, Last(whole).id) \in NodeType
    <3>1. Len(whole) = m + f /\ Len(whole) \in 1..Len(whole)
      BY <1>2, <1>9 DEF IsJoin
    <3>2. Last(whole) \in NodeType
      BY <1>9, <3>1 DEF Last
    <3>3. Last(whole).id \in Names
      BY <3>2 DEF NodeType
    <3>4. s.id \in Words
      BY StepWords
    <3> QED BY <3>3, <3>4 DEF Shim, NodeType
  <2> QED BY <2>1
<1>11. IsJoin(whole, tail, Len(whole), Len(tail), E) /\ Len(tail) \in Nat
  BY <1>9, <1>10, Joined
<1> HIDE DEF tail, E
<1>12. /\ \A k \in 1..m : k \in 1..Len(E) /\ E[k] = main[k]
       /\ \A k \in 1..f : m + k \in 1..Len(E) /\ E[m + k] = down[k]
  <2>1. Len(whole) = m + f /\ Len(E) = (m + f) + Len(tail)
    BY <1>9, <1>11 DEF IsJoin
  <2>2. ASSUME NEW k \in 1..m PROVE k \in 1..Len(E) /\ E[k] = main[k]
    <3>1. k \in 1..(m + f) /\ k \in 1..Len(E)
      BY <1>2, <1>11, <2>1
    <3> QED BY <1>9, <1>11, <2>1, <3>1 DEF IsJoin
  <2>3. ASSUME NEW k \in 1..f PROVE m + k \in 1..Len(E) /\ E[m + k] = down[k]
    <3>1. /\ m + k \in 1..(m + f) /\ m + k \in 1..Len(E) /\ m + k \in (m + 1)..(m + f)
          /\ (m + k) - m = k
      BY <1>2, <1>11, <2>1
    <3>2. E[m + k] = whole[m + k]
      BY <1>11, <2>1, <3>1 DEF IsJoin
    <3>3. whole[m + k] = down[(m + k) - m]
      BY <1>9, <3>1 DEF IsJoin
    <3> QED BY <3>1, <3>2, <3>3
  <2> QED BY <2>2, <2>3
<1>13. Has(E, body)
  <2> SUFFICES ASSUME NEW k \in 1..m
               PROVE  \E j \in 1..Len(E) : Same(E[j], body[k]) /\ (body[k].always => E[j].always)
    BY DEF Has
  <2>1. /\ main[k].scope = qual[k].scope /\ main[k].local = qual[k].local
        /\ main[k].always = qual[k].always /\ main[k].hidden = qual[k].hidden
    BY <1>3, <1>4 DEF Qualified, Modified
  <2>2. /\ qual[k].scope = body[k].scope /\ qual[k].local = body[k].local
        /\ qual[k].always = body[k].always /\ qual[k].hidden = body[k].hidden
    BY <1>3 DEF Qualified
  <2> QED BY <1>12, <2>1, <2>2 DEF Same
<1>14. HasDown(E, final)
  <2> SUFFICES ASSUME NEW k \in 1..f
               PROVE  \E j \in 1..Len(E) : Same(E[j], final[k]) /\ E[j].always
    BY DEF HasDown
  <2>1. /\ down[k].scope = final[k].scope /\ down[k].local = final[k].local
        /\ down[k].always /\ down[k].hidden = final[k].hidden
    BY <1>7 DEF TornDown
  <2> QED BY <1>12, <2>1 DEF Same
<1> QED BY <1>1, <1>13, <1>14

(* A list of steps has the nodes of each step.                             *)
LEMMA CompileHas ==
  ASSUME NEW l, IsLibrary(l), NEW g, NEW steps \in Seq(Steps),
         NEW p \in Places, NEW chain \in Seq(DOMAIN l),
         \A y \in Sites(l) :
           Len(y.chain) = Len(chain) + 1 /\ Len(chain) <= MaxIncludeDepth => SiteSound(l, g, y),
         CompileSteps(l, g, steps, p, chain).ok,
         NEW s \in ToSet(steps)
  PROVE  /\ s \in Steps /\ Piece(l, g, s, p, chain).ok
         /\ Has(CompileSteps(l, g, steps, p, chain).nodes, Piece(l, g, s, p, chain).nodes)
<1> DEFINE F == CompileSteps(l, g, steps, p, chain).nodes
           seqs == [i \in 1..Len(steps) |-> Piece(l, g, steps[i], p, chain).nodes]
<1>1. /\ \A i \in 1..Len(steps) : Piece(l, g, steps[i], p, chain).ok
      /\ F = FlattenSeq(seqs)
  BY CompileIs
<1>2. PICK a \in 1..Len(steps) : s = steps[a]
  BY DEF ToSet
<1>3. ASSUME NEW i \in 1..Len(steps) PROVE seqs[i] \in Seq(NodeType)
  <2> DEFINE t == steps[i]
  <2>1. t \in Steps /\ Piece(l, g, t, p, chain).ok
    BY <1>1
  <2>2. seqs[i] = Piece(l, g, t, p, chain).nodes
    OBVIOUS
  <2> HIDE DEF t, seqs
  <2>3. Shape(p, Piece(l, g, t, p, chain).nodes)
    BY <2>1, PieceSound
  <2> QED BY <2>2, <2>3 DEF Shape
<1>4. Len(steps) \in Nat /\ Len(steps) # 0 /\ s \in Steps
  BY <1>2
<1>5. seqs \in Seq(Seq(NodeType)) /\ Len(seqs) = Len(steps) /\ seqs # <<>>
  <2>1. seqs \in [1..Len(steps) -> Seq(NodeType)]
    BY <1>3
  <2>2. seqs \in Seq(Seq(NodeType)) /\ Len(seqs) = Len(steps)
    <3> HIDE DEF seqs
    <3> QED BY <1>4, <2>1
  <2> HIDE DEF seqs
  <2> QED BY <1>4, <2>2
<1>6. seqs[a] = Piece(l, g, s, p, chain).nodes /\ Piece(l, g, s, p, chain).ok
  BY <1>1, <1>2
<1> HIDE DEF seqs, F
<1>7. PICK at, pos : Spreads(seqs, Len(seqs), FlattenSeq(seqs), at, pos)
  BY <1>5, FlattenSpreads
<1>8. Has(F, seqs[a])
  <2> SUFFICES ASSUME NEW k \in 1..Len(seqs[a])
               PROVE  \E j \in 1..Len(F) : F[j] = seqs[a][k]
    BY DEF Has, Same
  <2>1. PICK j \in 1..Len(F) : at[j] = a /\ pos[j] = k
    BY <1>1, <1>5, <1>7 DEF Spreads
  <2> QED BY <1>1, <1>7, <2>1 DEF Spreads
<1> QED BY <1>4, <1>6, <1>8 DEF F

(* So an include has the nodes of the fragment at its site, and the list   *)
(* of steps it stands in has them, too.                                    *)
LEMMA CompileHasSite ==
  ASSUME NEW l, IsLibrary(l), NEW steps \in Seq(Steps),
         NEW p \in Places, NEW chain \in Seq(DOMAIN l),
         CompileSteps(l, FragmentsOf(l), steps, p, chain).ok,
         NEW s \in IncludesOf(steps)
  PROVE  LET F == CompileSteps(l, FragmentsOf(l), steps, p, chain).nodes
             y == SiteOf(s, p, chain)
             r == FragmentsOf(l)[y]
         IN /\ s \in Steps /\ y \in Sites(l) /\ y.file = s.file
            /\ r.body.ok /\ r.final.ok
            /\ Has(F, r.body.nodes) /\ HasDown(F, r.final.nodes) /\ Has(F, r.final.nodes)
<1> DEFINE g == FragmentsOf(l)
           F == CompileSteps(l, g, steps, p, chain).nodes
           y == SiteOf(s, p, chain)
           q == Append(p, s.id)
           body == g[y].body.nodes
           final == g[y].final.nodes
           E == Piece(l, g, s, p, chain).nodes
<1>1. s \in ToSet(steps) /\ s.action = "include"
  BY DEF IncludesOf
<1>2. \A x \in Sites(l) : SiteSound(l, g, x)
  BY SitesSound
<1> HIDE DEF g
<1>3. s \in Steps /\ Piece(l, g, s, p, chain).ok /\ Has(F, E)
  BY <1>1, <1>2, CompileHas DEF g
<1>4. /\ MayInclude(l, s.file, chain) /\ g[y].body.ok /\ g[y].final.ok
      /\ E = Expanded(l[s.file], s, q, body, final)
  <2>1. Expand(l, g, s, p, chain).ok /\ E = Expand(l, g, s, p, chain).nodes
    BY <1>1, <1>3 DEF Piece
  <2> HIDE DEF E, y
  <2>2. y = SiteOf(s, p, chain)
    BY DEF y
  <2> QED BY <2>1, <2>2, ExpandIs
<1>5. s.file \in DOMAIN l /\ Valid(l[s.file])
  BY <1>4 DEF MayInclude
<1>6. y \in Sites(l) /\ y.file = s.file /\ y.prefix = q /\ q \in Places
  <2>1. q \in Places
    <3>1. s.id \in Strings /\ p \in Seq(Strings)
      BY <1>3, StepWords DEF Places
    <3> QED BY <3>1, OneMore DEF Places
  <2>2. Append(chain, s.file) \in Seq(DOMAIN l)
    BY <1>5
  <2> HIDE DEF q
  <2>3. SiteOf(s, p, chain) = [file |-> s.file, prefix |-> q, chain |-> Append(chain, s.file)]
    BY DEF SiteOf, q
  <2> QED BY <1>5, <2>1, <2>2, <2>3 DEF Sites, Places, Strings
<1> HIDE DEF y
<1>7. FileSound(l, q, l[s.file].steps, body) /\ Shape(q, final)
  <2>1. SiteSound(l, g, y)
    BY <1>2, <1>6
  <2> QED BY <1>4, <1>5, <1>6, <2>1 DEF SiteSound
<1>8. /\ body \in Seq(NodeType) /\ body # <<>> /\ final \in Seq(NodeType)
      /\ q \in Names /\ l[s.file].outputs \in BOOLEAN
  <2>1. body \in Seq(NodeType) /\ body # <<>> /\ final \in Seq(NodeType)
    BY <1>7 DEF FileSound, Shape, Begins
  <2>2. q \in Names
    BY <1>3, StepWords, PrefixOne
  <2> QED BY <1>5, <2>1, <2>2 DEF IsLibrary
<1> HIDE DEF F, body, final, E, q
<1>9. Has(E, body) /\ HasDown(E, final)
  <2> DEFINE child == l[s.file]  X == Expanded(child, s, q, body, final)
  <2>1. child.outputs \in BOOLEAN
    BY <1>8
  <2>2. X = E
    BY <1>4
  <2> HIDE DEF child
  <2>3. Has(X, body) /\ HasDown(X, final)
    BY <1>3, <1>8, <2>1, ExpandedHas
  <2> QED BY <2>2, <2>3
<1>10. Has(E, final)
  BY <1>9 DEF Has, HasDown
<1>11. Has(F, body) /\ HasDown(F, final) /\ Has(F, final)
  BY <1>3, <1>9, <1>10, HasOn
<1> QED BY <1>3, <1>4, <1>6, <1>11 DEF F, y, body, final, g

(* The end of a route: the list of nodes has those of the fragment there.  *)
Brought(l, big, n, w) ==
  \E y \in Sites(l) :
    LET r == FragmentsOf(l)[y] IN
    /\ y.file = w[n].file /\ y.prefix = [i \in 1..n |-> w[i].id]
    /\ r.body.ok /\ r.final.ok
    /\ Has(big, r.body.nodes) /\ Has(big, r.final.nodes) /\ HasDown(big, r.final.nodes)

LEMMA PrefixGrows ==
  ASSUME NEW m \in Nat, NEW w, NEW p \in Places, p = [i \in 1..m |-> w[i].id],
         w[m + 1].id \in Strings
  PROVE  Append(p, w[m + 1].id) = [i \in 1..(m + 1) |-> w[i].id]
<1> DEFINE x == w[m + 1].id
<1>1. Len(p) = m
  BY DEF Places
<1> HIDE DEF x
<1>2. Append(p, x) = [i \in 1..(m + 1) |-> IF i = m + 1 THEN x ELSE p[i]]
  BY <1>1 DEF Places, x
<1>3. \A i \in 1..(m + 1) : i # m + 1 => i \in 1..m
  OBVIOUS
<1>4. ASSUME NEW i \in 1..(m + 1) PROVE (IF i = m + 1 THEN x ELSE p[i]) = w[i].id
  BY <1>3 DEF x
<1> QED BY <1>2, <1>4 DEF x

LEMMA IncludesJoined ==
  ASSUME NEW a \in Seq(Steps), NEW b \in Seq(Steps), NEW s \in IncludesOf(a \o b)
  PROVE  s \in IncludesOf(a) \/ s \in IncludesOf(b)
<1> DEFINE j == a \o b  x == Len(a)  z == Len(b)
<1>1. IsJoin(a, b, x, z, j) /\ x \in Nat /\ z \in Nat
  BY Joined
<1>2. s.action = "include" /\ \E i \in DOMAIN j : s = j[i]
  BY DEF IncludesOf, ToSet
<1>3. DOMAIN j = 1..Len(j) /\ DOMAIN a = 1..x /\ DOMAIN b = 1..z
  OBVIOUS
<1> HIDE DEF j, x, z
<1>4. PICK i \in 1..(x + z) : s = j[i]
  BY <1>1, <1>2, <1>3 DEF IsJoin
<1>5. CASE i <= x
  <2>1. i \in 1..x
    BY <1>1, <1>5
  <2>2. s = a[i]
    BY <1>1, <1>4, <2>1 DEF IsJoin
  <2> QED BY <1>2, <1>3, <2>1, <2>2 DEF IncludesOf, ToSet
<1>6. CASE ~(i <= x)
  <2>1. i \in (x + 1)..(x + z) /\ i - x \in 1..z
    BY <1>1, <1>6
  <2>2. s = b[i - x]
    BY <1>1, <1>4, <2>1 DEF IsJoin
  <2> QED BY <1>2, <1>3, <2>1, <2>2 DEF IncludesOf, ToSet
<1> QED BY <1>5, <1>6

LEMMA BroughtOn ==
  ASSUME IsLibrary(lib), NEW big, NEW n \in Nat, NEW w \in Routes(n),
         NEW m \in Nat, m # 0, m < n, Brought(lib, big, m, w)
  PROVE  Brought(lib, big, m + 1, w)
<1> DEFINE g == FragmentsOf(lib)  s == w[m + 1]
<1>1. PICK y \in Sites(lib) :
        LET r == g[y] IN
        /\ y.file = w[m].file /\ y.prefix = [i \in 1..m |-> w[i].id]
        /\ r.body.ok /\ r.final.ok
        /\ Has(big, r.body.nodes) /\ Has(big, r.final.nodes) /\ HasDown(big, r.final.nodes)
  BY DEF Brought
<1> DEFINE f == y.file  p == y.prefix  chain == y.chain
           a == lib[f].steps  b == lib[f].finally
<1>2. /\ f \in DOMAIN lib /\ p \in Places /\ chain \in Seq(DOMAIN lib)
      /\ a \in Seq(Steps) /\ b \in Seq(Steps)
  BY DEF Sites, Places, Strings, IsLibrary
<1>3. s \in IncludesOf(a \o b)
  <2>1. m \in 1..(n - 1)
    OBVIOUS
  <2> QED BY <1>1, <2>1 DEF Routes
<1>4. s \in IncludesOf(a) \/ s \in IncludesOf(b)
  <2> HIDE DEF a, b, s
  <2> QED BY <1>2, <1>3, IncludesJoined
<1>5. /\ g[y].body = CompileSteps(lib, g, a, p, chain)
      /\ g[y].final = CompileSteps(lib, g, b, p, chain)
  <2>1. g[y] = Compiling(lib, g, y)
    BY FragmentsRecur
  <2> HIDE DEF g
  <2> QED BY <2>1 DEF Compiling
<1> DEFINE z == SiteOf(s, p, chain)
<1>6. /\ z \in Sites(lib) /\ z.file = s.file /\ s \in Steps
      /\ g[z].body.ok /\ g[z].final.ok
      /\ Has(big, g[z].body.nodes) /\ Has(big, g[z].final.nodes) /\ HasDown(big, g[z].final.nodes)
  <2>1. ASSUME NEW steps \in Seq(Steps), s \in IncludesOf(steps),
               CompileSteps(lib, g, steps, p, chain).ok,
               Has(big, CompileSteps(lib, g, steps, p, chain).nodes)
        PROVE  /\ z \in Sites(lib) /\ z.file = s.file /\ s \in Steps
               /\ g[z].body.ok /\ g[z].final.ok
               /\ Has(big, g[z].body.nodes) /\ Has(big, g[z].final.nodes)
               /\ HasDown(big, g[z].final.nodes)
    <3> DEFINE F == CompileSteps(lib, g, steps, p, chain).nodes
    <3>1. /\ z \in Sites(lib) /\ z.file = s.file /\ s \in Steps
          /\ g[z].body.ok /\ g[z].final.ok
          /\ Has(F, g[z].body.nodes) /\ HasDown(F, g[z].final.nodes) /\ Has(F, g[z].final.nodes)
      <4> HIDE DEF p, chain, s
      <4> QED BY <1>2, <2>1, CompileHasSite
    <3>2. Has(big, F)
      BY <2>1
    <3> HIDE DEF F, z, g
    <3> QED BY <3>1, <3>2, HasOn
  <2> HIDE DEF g, z, s, p, chain, a, b
  <2>2. CASE s \in IncludesOf(a)
    BY <1>1, <1>2, <1>5, <2>1, <2>2
  <2>3. CASE s \in IncludesOf(b)
    BY <1>1, <1>2, <1>5, <2>1, <2>3
  <2> QED BY <1>4, <2>2, <2>3
<1>7. z.prefix = [i \in 1..(m + 1) |-> w[i].id]
  <2>1. z.prefix = Append(p, s.id)
    BY DEF SiteOf
  <2>2. s.id \in Strings
    BY <1>6 DEF Steps, Strings
  <2> QED BY <1>1, <1>2, <2>1, <2>2, PrefixGrows
<1> HIDE DEF z
<1> QED BY <1>6, <1>7 DEF Brought

(* Every step of a `finally:` block at the end of a route is a teardown    *)
(* step of the run.                                                        *)
LEMMA TeardownsThere ==
  ASSUME IsLibrary(lib), Compiled(lib).ok, NEW n \in 1..MaxIncludeDepth, NEW w \in Routes(n),
         NEW s \in ToSet(lib[w[n].file].finally), s.action # "include"
  PROVE  \E k \in DOMAIN Compiled(lib).nodes :
           LET node == Compiled(lib).nodes[k] IN
           node.scope = ScopeOf(n, w) /\ node.local = s.id /\ node.always /\ ~node.hidden
<1> DEFINE g == FragmentsOf(lib)  big == Laid(lib).nodes  ns == Compiled(lib).nodes
<1>0. n \in Nat /\ n # 0
  BY DepthAssumption
<1>1. Root \in DOMAIN lib /\ Valid(lib[Root]) /\ Laid(lib).ok /\ ns = ImplicitNeeds(big)
  BY CompiledIs
<1>2. Brought(lib, big, 1, w)
  <2> DEFINE t == w[1]  p == <<>>  chain == <<Root>>  z == SiteOf(t, p, chain)
  <2>1. t \in IncludesOf(lib[Root].steps)
    BY DEF Routes, StepsOf
  <2>2. p \in Places /\ chain \in Seq(DOMAIN lib) /\ lib[Root].steps \in Seq(Steps)
    BY <1>1 DEF Places, IsLibrary
  <2> DEFINE steps == lib[Root].steps  C == CompileSteps(lib, g, steps, p, chain)
  <2>3. C = Laid(lib)
    BY DEF Laid
  <2>6. big = C.nodes /\ C.ok
    BY <1>1, <2>3
  <2> HIDE DEF t, steps
  <2>4. /\ z \in Sites(lib) /\ z.file = t.file /\ t \in Steps
        /\ g[z].body.ok /\ g[z].final.ok
        /\ Has(big, g[z].body.nodes) /\ Has(big, g[z].final.nodes) /\ HasDown(big, g[z].final.nodes)
    <3>1. t \in IncludesOf(steps) /\ steps \in Seq(Steps)
      BY <2>1, <2>2 DEF steps
    <3>2. /\ z \in Sites(lib) /\ z.file = t.file /\ t \in Steps
          /\ g[z].body.ok /\ g[z].final.ok
          /\ Has(C.nodes, g[z].body.nodes) /\ Has(C.nodes, g[z].final.nodes)
          /\ HasDown(C.nodes, g[z].final.nodes)
      <4> HIDE DEF p, chain, big
      <4> QED BY <1>1, <2>2, <2>6, <3>1, CompileHasSite
    <3> HIDE DEF g, z, C, big
    <3> QED BY <2>6, <3>2
  <2>5. z.prefix = [i \in 1..1 |-> w[i].id]
    BY DEF SiteOf, t
  <2> HIDE DEF z, big
  <2> QED BY <2>4, <2>5 DEF Brought, t
<1> DEFINE S == {i \in Nat : i + 1 <= n => Brought(lib, big, i + 1, w)}
<1>3. 0 \in S
  <2>1. 0 + 1 = 1
    OBVIOUS
  <2> QED BY <1>2, <2>1
<1>4. ASSUME NEW i \in Nat, i \in S PROVE i + 1 \in S
  <2>1. CASE (i + 1) + 1 <= n
    <3>1. i + 1 \in Nat /\ i + 1 # 0 /\ i + 1 < n /\ i + 1 <= n
      BY <1>0, <2>1
    <3>2. Brought(lib, big, i + 1, w)
      BY <1>4, <3>1
    <3> HIDE DEF big
    <3>3. Brought(lib, big, (i + 1) + 1, w)
      BY <1>0, <3>1, <3>2, BroughtOn
    <3> QED BY <3>3
  <2>2. CASE ~((i + 1) + 1 <= n)
    BY <2>2
  <2> QED BY <2>1, <2>2
<1>5. Brought(lib, big, n, w)
  <2> HIDE DEF S
  <2>1. \A i \in Nat : i \in S
    BY <1>3, <1>4, Induction
  <2>2. n - 1 \in Nat /\ (n - 1) + 1 = n
    BY <1>0
  <2>3. n - 1 \in S
    BY <2>1, <2>2
  <2>4. (n - 1) + 1 <= n => Brought(lib, big, (n - 1) + 1, w)
    BY <2>3 DEF S
  <2> QED BY <1>0, <2>2, <2>4
<1>6. PICK y \in Sites(lib) :
        /\ y.file = w[n].file /\ y.prefix = [i \in 1..n |-> w[i].id]
        /\ g[y].final.ok /\ HasDown(big, g[y].final.nodes)
  BY <1>5 DEF Brought
<1> DEFINE f == y.file  p == y.prefix  chain == y.chain  b == lib[f].finally
           final == g[y].final.nodes
<1>7. /\ f \in DOMAIN lib /\ p \in Places /\ chain \in Seq(DOMAIN lib) /\ b \in Seq(Steps)
  BY DEF Sites, Places, Strings, IsLibrary
<1>8. g[y].final = CompileSteps(lib, g, b, p, chain)
  <2>1. g[y] = Compiling(lib, g, y)
    BY FragmentsRecur
  <2> HIDE DEF g
  <2> QED BY <2>1 DEF Compiling
<1>9. s \in ToSet(b)
  BY <1>6
<1>10. s \in Steps /\ Has(final, Piece(lib, g, s, p, chain).nodes)
  <2>1. \A x \in Sites(lib) : SiteSound(lib, g, x)
    BY SitesSound
  <2> HIDE DEF g, p, chain, b
  <2> QED BY <1>6, <1>7, <1>8, <1>9, <2>1, CompileHas
<1>11. Piece(lib, g, s, p, chain).nodes = <<Leaf(s, p)>>
  BY DEF Piece, Made
<1>12. PICK j \in 1..Len(final) : Same(final[j], Leaf(s, p))
  <2> DEFINE ns1 == <<Leaf(s, p)>>
  <2>1. Len(ns1) = 1 /\ 1 \in 1..Len(ns1) /\ ns1[1] = Leaf(s, p)
    OBVIOUS
  <2>2. Has(final, ns1)
    BY <1>10, <1>11
  <2> HIDE DEF ns1, final
  <2> QED BY <2>1, <2>2 DEF Has
<1>13. PICK i \in 1..Len(big) : Same(big[i], final[j]) /\ big[i].always
  BY <1>6 DEF HasDown
<1>14. big[i].scope = p /\ big[i].local = s.id /\ ~big[i].hidden
  BY <1>12, <1>13 DEF Same, Leaf
<1>15. big \in Seq(NodeType)
  BY <1>1, RootSound DEF FileSound, Shape
<1> HIDE DEF big
<1>16. Kept(big, ns)
  BY <1>1, <1>15, ImplicitKept
<1> HIDE DEF ns
<1>17. /\ i \in DOMAIN ns /\ ns[i].scope = p /\ ns[i].local = s.id
       /\ ns[i].always /\ ~ns[i].hidden
  BY <1>13, <1>14, <1>15, <1>16 DEF Kept
<1> QED BY <1>6, <1>17 DEF ScopeOf, ns

-----------------------------------------------------------------------------
(* Nothing stalls where declared needs point backwards.                    *)

InSight == AllNamed /\ EarlierDeclared /\ TeardownsNamed

LEMMA NeedsBackwards ==
  ASSUME Faithful, InSight
  PROVE  /\ graph.keys = DOMAIN nodes
         /\ \A k \in DOMAIN nodes : \A j \in graph.needs[k] : j \in DOMAIN nodes /\ j < k
<1>1. /\ WellMade(lib, nodes) /\ nodes \in Seq(NodeType)
      /\ Named(lib) /\ Backwards(lib) /\ NoFinally(lib) /\ TeardownsApart(nodes)
      /\ DOMAIN nodes = 1..Len(nodes) /\ Len(nodes) \in Nat /\ graph = PlanOf(nodes)
  BY SourceFacts, NamedApart DEF InSight, AllNamed, EarlierDeclared, Named, Backwards,
                                 Files, StepsOf, Faithful
<1>2. Apart(nodes)
  BY <1>1, NamesApart
<1>3. /\ graph.keys = 1..Len(nodes)
      /\ \A k \in 1..Len(nodes) :
           graph.needs[k] = {j \in 1..Len(nodes) : nodes[j].id \in nodes[k].needs}
  BY <1>1, <1>2, ApartPlan
<1>4. EarlierOnly(lib, nodes) /\ Shape(<<>>, nodes)
  BY <1>1 DEF WellMade
<1>5. ASSUME NEW k \in 1..Len(nodes), NEW j \in 1..Len(nodes), nodes[j].id \in nodes[k].needs
      PROVE  j < k
  <2> DEFINE d == nodes[j].id  ids == Ids(lib[Root].steps)
  <2>1. nodes[j].always => Len(d) >= 3 /\ d[Len(d) - 1] = "finally"
    <3>1. Len(<<>>) = 0
      OBVIOUS
    <3> QED BY <1>4, <3>1 DEF Shape
  <2>2. (\E i \in 1..Len(nodes) : i < k /\ d = nodes[i].id) => j < k
    BY <1>2 DEF Apart
  <2>3. \/ \E i \in 1..Len(nodes) : i < k /\ d = nodes[i].id
        \/ BehindOne(<<>>, ids, nodes, k, d)
    BY <1>4, <1>5 DEF EarlierOnly
  <2>4. CASE BehindOne(<<>>, ids, nodes, k, d)
    <3>1. CASE \E y \in ids : /\ d = <<y>>
                              /\ \A i \in 1..Len(nodes) :
                                   ~nodes[i].always /\ nodes[i].id = Append(<<>>, y) => i < k
      <4>1. PICK y \in ids : /\ d = <<y>>
                             /\ \A i \in 1..Len(nodes) :
                                  ~nodes[i].always /\ nodes[i].id = Append(<<>>, y) => i < k
        BY <3>1
      <4>2. Append(<<>>, y) = <<y>> /\ Len(<<y>>) = 1
        OBVIOUS
      <4>3. ~(1 >= 3)
        OBVIOUS
      <4>4. ~nodes[j].always
        BY <2>1, <4>1, <4>2, <4>3
      <4> QED BY <4>1, <4>2, <4>4
    <3>2. CASE \E i \in 1..Len(nodes) : i < k /\ nodes[i].id = d
      BY <2>2, <3>2
    <3>3. CASE /\ d[Len(d) - 1] # "finally"
               /\ \A i \in 1..Len(nodes) : ~nodes[i].always /\ nodes[i].id = d => i < k
      BY <2>1, <3>3
    <3> HIDE DEF d, ids
    <3> QED BY <2>4, <3>1, <3>2, <3>3 DEF BehindOne
  <2> QED BY <2>2, <2>3, <2>4
<1> QED BY <1>1, <1>3, <1>5

(* Teardown steps are never skipped in a cascade, and once the verdict is  *)
(* given nothing is left.                                                  *)
NoneLeft ==
  InSight =>
    /\ \A k \in graph.always : state[k] = "skipped" => "skipped" \in Outcomes
    /\ verdict \notin {"running", "refused"} =>
         verdict # "skipped" /\ \A k \in DOMAIN nodes : Settled(k)

LEMMA NoneLeftNext ==
  ASSUME Faithful, NoneLeft, Next
  PROVE  NoneLeft'
<1>1. UNCHANGED <<files, lib, nodes, graph>>
  BY NextMeans
<1>2. InSight' = InSight
  BY <1>1 DEF InSight, EarlierDeclared, AllNamed, TeardownsNamed, Files, StepsOf
<1> SUFFICES ASSUME InSight
             PROVE  /\ \A k \in graph.always : state'[k] = "skipped" => "skipped" \in Outcomes
                    /\ verdict' \notin {"running", "refused"} =>
                         verdict' # "skipped" /\ \A k \in DOMAIN nodes : state'[k] \in Run!Settled
  BY <1>1, <1>2 DEF NoneLeft, Settled, Run!Settled, Run!Fatal, Run!Mild
<1>3. /\ state \in [DOMAIN nodes -> {"waiting", "running"} \cup Run!Settled]
      /\ DOMAIN nodes = 1..Len(nodes) /\ Planned(nodes, graph) /\ graph.always \subseteq DOMAIN nodes
      /\ "waiting" \notin Run!Settled /\ "running" \notin Run!Settled
      /\ graph.keys = DOMAIN nodes
      /\ \A k \in DOMAIN nodes : \A j \in graph.needs[k] : j \in DOMAIN nodes /\ j < k
  BY SourceFacts, NeedsBackwards DEF Faithful, Run!Settled, Run!Fatal, Run!Mild, Planned
<1>4. /\ \A k \in graph.always : state[k] = "skipped" => "skipped" \in Outcomes
      /\ verdict \notin {"running", "refused"} =>
           verdict # "skipped" /\ \A k \in DOMAIN nodes : state[k] \in Run!Settled
  BY DEF NoneLeft, Settled
<1>5. ASSUME NEW k \in DOMAIN nodes, Started(k) \/ Finished(k) \/ Skipped(k), UNCHANGED verdict
      PROVE  /\ \A m \in graph.always : state'[m] = "skipped" => "skipped" \in Outcomes
             /\ verdict' \in {"running", "refused"}
  <2>1. \A m \in DOMAIN nodes : m # k => state'[m] = state[m]
    BY <1>3, <1>5 DEF Started, Finished, Skipped
  <2>2. k \in graph.always /\ state'[k] = "skipped" => "skipped" \in Outcomes
    <3>1. CASE Started(k)
      BY <1>3, <3>1 DEF Started
    <3>2. CASE Finished(k)
      <4>1. PICK o \in Outcomes : state'[k] = Status(k, o)
        BY <3>2 DEF Finished
      <4>2. Status(k, o) = "skipped" => o = "skipped"
        BY StatusSettled
      <4> QED BY <4>1, <4>2
    <3>3. CASE Skipped(k)
      BY <3>3 DEF Skipped
    <3> QED BY <1>5, <3>1, <3>2, <3>3
  <2>3. state[k] \notin Run!Settled
    BY <1>3, <1>5 DEF Started, Finished, Skipped
  <2> QED BY <1>3, <1>4, <1>5, <2>1, <2>2, <2>3
<1>6. ASSUME Run!Conclude, UNCHANGED state
      PROVE  verdict' # "skipped" /\ \A k \in DOMAIN nodes : state[k] \in Run!Settled
  <2>1. Run!Nodes = DOMAIN nodes
    BY <1>3 DEF Run!Nodes, Planned
  <2>2. /\ \A k \in DOMAIN nodes : state[k] # "running"
        /\ \A k \in Run!Waiting : graph.needs[k] \cap Run!Waiting # {}
        /\ verdict' = IF Run!AnyFatal THEN "failed"
                      ELSE IF Run!Waiting # {} THEN "skipped" ELSE "success"
    BY <1>6, <2>1 DEF Run!Conclude
  <2>3. Run!Waiting = {k \in DOMAIN nodes : state[k] = "waiting"}
    BY <2>1 DEF Run!Waiting
  <2> DEFINE W == {k \in DOMAIN nodes : state[k] = "waiting"}
  <2>4. W = {}
    <3>1. SUFFICES ASSUME W # {} PROVE FALSE
      OBVIOUS
    <3>2. W \in SUBSET Nat
      BY <1>3
    <3>3. \A k \in W : graph.needs[k] \cap W # {} /\ k \in DOMAIN nodes
      BY <2>2, <2>3
    <3> HIDE DEF W
    <3>4. PICK x \in W : \A y \in W : x <= y
      BY <3>1, <3>2, LeastElement
    <3>5. PICK y : y \in graph.needs[x] /\ y \in W
      BY <3>3, <3>4
    <3>6. y < x /\ x <= y /\ x \in Nat /\ y \in Nat
      BY <1>3, <3>2, <3>3, <3>4, <3>5
    <3> QED BY <3>6
  <2> QED BY <1>3, <2>2, <2>3, <2>4
<1>7. CASE UNCHANGED <<state, verdict>>
  BY <1>3, <1>4, <1>7
<1>8. CASE Run!Conclude /\ UNCHANGED state
  BY <1>3, <1>4, <1>6, <1>8
<1> QED BY <1>5, <1>7, <1>8, NextMeans

LEMMA NoneLeftInit == Init => NoneLeft
<1> SUFFICES ASSUME Init PROVE NoneLeft
  OBVIOUS
<1>1. graph.always \subseteq DOMAIN nodes
  BY FaithfulInit, SourceFacts DEF Planned
<1> QED BY <1>1 DEF Init, NoneLeft

LEMMA AlwaysNoneLeft == Spec => []NoneLeft
<1>1. Faithful /\ NoneLeft /\ [Next]_vars => NoneLeft'
  <2>1. ASSUME NoneLeft, UNCHANGED vars PROVE NoneLeft'
    BY <2>1 DEF vars, source, NoneLeft, InSight, EarlierDeclared, AllNamed, TeardownsNamed,
                Files, StepsOf, Settled, Run!Settled, Run!Fatal, Run!Mild
  <2> QED BY <2>1, NoneLeftNext
<1> QED BY <1>1, NoneLeftInit, AlwaysFaithful, PTL DEF Spec

LEMMA LeftMeans == Faithful /\ NoneLeft => NothingStalls
<1> SUFFICES ASSUME Faithful, NoneLeft, InSight, verdict \notin {"running", "refused"}
             PROVE  NothingStalls
  BY DEF NothingStalls, InSight
<1>1. /\ WellMade(lib, nodes) /\ Planned(nodes, graph)
      /\ DOMAIN nodes = 1..Len(nodes) /\ graph.keys = DOMAIN nodes
      /\ IsLibrary(lib) /\ nodes = Compiled(lib).nodes /\ Compiled(lib).ok
  BY SourceFacts, NeedsBackwards DEF Faithful
<1>2. ASSUME NEW n \in 1..MaxIncludeDepth, NEW w \in Routes(n),
             NEW s \in ToSet(lib[w[n].file].finally), s.action # "include"
      PROVE  \E k \in DOMAIN nodes :
               /\ nodes[k].scope = ScopeOf(n, w) /\ nodes[k].local = s.id
               /\ nodes[k].always /\ ~nodes[k].hidden
  BY <1>1, <1>2, TeardownsThere
<1>3. ASSUME NEW k \in DOMAIN nodes, nodes[k].always
      PROVE  /\ state[k] # "skipped" \/ "skipped" \in Outcomes
             /\ nodes[k].scope # <<>>
  <2>1. k \in graph.always
    BY <1>1, <1>3 DEF Planned
  <2>2. Len(<<>>) = 0 /\ ~(0 > 0)
    OBVIOUS
  <2>3. nodes[k].scope # <<>>
    BY <1>1, <1>3, <2>2 DEF WellMade, Shape
  <2> QED BY <2>1, <2>3 DEF NoneLeft
<1>4. (\A k \in DOMAIN nodes : Settled(k)) /\ verdict # "skipped"
  BY DEF NoneLeft
<1> QED BY <1>2, <1>3, <1>4 DEF NothingStalls

(* When declared needs point backwards and steps are named, the needs the  *)
(* compiler adds never let a run stall (compile.go:121-214,                *)
(* scheduler.go:148-167): at the verdict every step has settled, a         *)
(* teardown step by being executed, and the verdict is a real one.  Every  *)
(* step in the `finally:` of every fragment included, at any depth, is     *)
(* among them; of the root's own, which is never compiled, none is.        *)
THEOREM NothingStallsHolds == Spec => []NothingStalls
BY AlwaysFaithful, AlwaysNoneLeft, LeftMeans, PTL

-----------------------------------------------------------------------------
(* A workflow is refused for a reason.                                     *)

LEMMA CompileOk ==
  ASSUME NEW l, NEW g, NEW steps \in Seq(Steps), NEW p, NEW chain
  PROVE  CompileSteps(l, g, steps, p, chain).ok <=>
           \A i \in 1..Len(steps) :
             steps[i].action = "include" => Expand(l, g, steps[i], p, chain).ok
<1>1. ASSUME NEW s
      PROVE  Piece(l, g, s, p, chain).ok <=> (s.action = "include" => Expand(l, g, s, p, chain).ok)
  BY DEF Piece, Made
<1>2. CompileSteps(l, g, steps, p, chain).ok <=>
        \A i \in 1..Len(steps) : Piece(l, g, steps[i], p, chain).ok
  BY CompileIs
<1> QED BY <1>1, <1>2

(* A list of steps includes a file.                                        *)
Includes(steps, f) == \E i \in 1..Len(steps) : steps[i].action = "include" /\ steps[i].file = f

LEMMA UsesMeans ==
  ASSUME IsLibrary(lib), NEW f \in DOMAIN lib, NEW h
  PROVE  h \in Uses(f) <=> \/ Includes(lib[f].steps, h)
                           \/ f # Root /\ Includes(lib[f].finally, h)
<1> DEFINE s == lib[f].steps  u == lib[f].finally
           All(steps) == {steps[i].file : i \in {j \in DOMAIN steps : steps[j].action = "include"}}
<1>1. s \in Seq(Steps) /\ u \in Seq(Steps)
  BY DEF IsLibrary
<1>2. Uses(f) = All(IF f = Root THEN s ELSE s \o u)
  BY DEF Uses
<1> HIDE DEF s, u
<1>3. ASSUME NEW steps \in Seq(Steps) PROVE h \in All(steps) <=> Includes(steps, h)
  BY DEF Includes
<1>4. Includes(s \o u, h) <=> Includes(s, h) \/ Includes(u, h)
  <2>1. /\ s \o u \in Seq(Steps) /\ IsJoin(s, u, Len(s), Len(u), s \o u)
        /\ Len(s) \in Nat /\ Len(u) \in Nat
    BY <1>1, Joined
  <2> DEFINE w == s \o u  a == Len(s)  b == Len(u)
  <2>2. /\ a \in Nat /\ b \in Nat /\ Len(w) = a + b
        /\ \A i \in 1..a : w[i] = s[i]
        /\ \A i \in (a + 1)..(a + b) : w[i] = u[i - a]
    BY <2>1 DEF IsJoin
  <2>3. Includes(w, h) <=> \E i \in 1..(a + b) : w[i].action = "include" /\ w[i].file = h
    BY <2>2 DEF Includes
  <2>4. Includes(s, h) <=> \E i \in 1..a : s[i].action = "include" /\ s[i].file = h
    BY DEF Includes
  <2>5. Includes(u, h) <=> \E i \in 1..b : u[i].action = "include" /\ u[i].file = h
    BY DEF Includes
  <2> HIDE DEF w, a, b
  <2>6. ASSUME Includes(w, h) PROVE Includes(s, h) \/ Includes(u, h)
    <3>1. PICK i \in 1..(a + b) : w[i].action = "include" /\ w[i].file = h
      BY <2>3, <2>6
    <3>2. CASE i \in 1..a
      BY <2>2, <2>4, <3>1, <3>2
    <3>3. CASE i \notin 1..a
      <4>1. i \in (a + 1)..(a + b) /\ i - a \in 1..b
        BY <2>2, <3>3
      <4> QED BY <2>2, <2>5, <3>1, <4>1
    <3> QED BY <3>2, <3>3
  <2>7. ASSUME Includes(s, h) PROVE Includes(w, h)
    <3>1. PICK i \in 1..a : s[i].action = "include" /\ s[i].file = h
      BY <2>4, <2>7
    <3>2. i \in 1..(a + b)
      BY <2>2
    <3> QED BY <2>2, <2>3, <3>1, <3>2
  <2>8. ASSUME Includes(u, h) PROVE Includes(w, h)
    <3>1. PICK i \in 1..b : u[i].action = "include" /\ u[i].file = h
      BY <2>5, <2>8
    <3>2. i + a \in 1..(a + b) /\ i + a \in (a + 1)..(a + b) /\ (i + a) - a = i
      BY <2>2
    <3>3. w[i + a] = u[i]
      BY <2>2, <3>2
    <3> QED BY <2>3, <3>1, <3>2, <3>3
  <2> QED BY <2>6, <2>7, <2>8 DEF w
<1>5. CASE f = Root
  BY <1>1, <1>2, <1>3, <1>5 DEF s, u
<1>6. CASE f # Root
  <2>1. s \o u \in Seq(Steps)
    BY <1>1
  <2>2. h \in Uses(f) <=> Includes(s \o u, h)
    BY <1>2, <1>3, <1>6, <2>1
  <2> QED BY <1>4, <1>6, <2>2 DEF s, u
<1> QED BY <1>5, <1>6

(* The file at the end of a chain compiles, with its teardown unless it is *)
(* the root.                                                               *)
Clean(f, p, chain) ==
  /\ CompileSteps(lib, FragmentsOf(lib), lib[f].steps, p, chain).ok
  /\ f # Root => CompileSteps(lib, FragmentsOf(lib), lib[f].finally, p, chain).ok

LEMMA CleanMeans ==
  ASSUME IsLibrary(lib), NEW f \in DOMAIN lib, NEW p, NEW chain
  PROVE  /\ Clean(f, p, chain) =>
              \A h \in Uses(f) : \E s \in Steps :
                s.file = h /\ Expand(lib, FragmentsOf(lib), s, p, chain).ok
         /\ ~Clean(f, p, chain) =>
              \E s \in Steps :
                s.file \in Uses(f) /\ ~Expand(lib, FragmentsOf(lib), s, p, chain).ok
<1> DEFINE g == FragmentsOf(lib)
           Ok(s) == Expand(lib, g, s, p, chain).ok
           a == lib[f].steps  b == lib[f].finally
<1>1. a \in Seq(Steps) /\ b \in Seq(Steps)
  BY DEF IsLibrary
<1>2. Clean(f, p, chain) <=>
        /\ \A i \in 1..Len(a) : a[i].action = "include" => Ok(a[i])
        /\ f # Root => \A i \in 1..Len(b) : b[i].action = "include" => Ok(b[i])
  BY <1>1, CompileOk DEF Clean
<1>3. /\ \A i \in 1..Len(a) : a[i] \in Steps
      /\ \A i \in 1..Len(b) : b[i] \in Steps
  BY <1>1
<1>4. \A h : h \in Uses(f) <=> Includes(a, h) \/ (f # Root /\ Includes(b, h))
  BY UsesMeans
<1> HIDE DEF Ok, a, b
<1>5. ASSUME Clean(f, p, chain), NEW h \in Uses(f) PROVE \E s \in Steps : s.file = h /\ Ok(s)
  BY <1>2, <1>3, <1>4, <1>5 DEF Includes
<1>6. ASSUME ~Clean(f, p, chain) PROVE \E s \in Steps : s.file \in Uses(f) /\ ~Ok(s)
  <2>1. CASE \E i \in 1..Len(a) : a[i].action = "include" /\ ~Ok(a[i])
    BY <1>3, <1>4, <2>1 DEF Includes
  <2>2. CASE f # Root /\ \E i \in 1..Len(b) : b[i].action = "include" /\ ~Ok(b[i])
    BY <1>3, <1>4, <2>2 DEF Includes
  <2> QED BY <1>2, <1>6, <2>1, <2>2
<1> QED BY <1>5, <1>6 DEF Ok

LEMMA CleanSite ==
  ASSUME IsLibrary(lib), NEW y \in Sites(lib), y.file # Root
  PROVE  LET r == FragmentsOf(lib)[y] IN
         r.body.ok /\ r.final.ok <=> Clean(y.file, y.prefix, y.chain)
<1>1. FragmentsOf(lib)[y] = Compiling(lib, FragmentsOf(lib), y)
  BY FragmentsRecur
<1> QED BY <1>1 DEF Compiling, Clean

BadEnd(n, w) ==
  \/ n = MaxIncludeDepth + 2
  \/ w[n] \in {w[i] : i \in 1..(n - 1)}
  \/ w[n] \notin Files
  \/ ~Valid(lib[w[n]])
BadWay == \E n \in 2..(MaxIncludeDepth + 2) : \E w \in Ways(n) : BadEnd(n, w)

(* A chain is a way, a step of it leads on.                                *)
OnWay(chain, f) ==
  /\ chain \in Seq(DOMAIN lib) /\ chain # <<>> /\ Len(chain) <= MaxIncludeDepth + 1
  /\ chain \in Ways(Len(chain)) /\ chain[Len(chain)] = f

LEMMA WayOn ==
  ASSUME NEW chain, NEW f \in DOMAIN lib, OnWay(chain, f), NEW h \in Uses(f)
  PROVE  /\ Append(chain, h) \in Ways(Len(chain) + 1)
         /\ Append(chain, h)[Len(chain) + 1] = h
         /\ \A i \in 1..Len(chain) : Append(chain, h)[i] = chain[i]
         /\ Len(chain) + 1 \in 2..(MaxIncludeDepth + 2)
         /\ Root \in ToSet(chain)
<1> DEFINE m == Len(chain)  w == Append(chain, h)
<1>1. /\ chain \in Seq(DOMAIN lib) /\ m \in Nat /\ m # 0 /\ chain \in Ways(m) /\ chain[m] = f
      /\ m <= MaxIncludeDepth + 1 /\ MaxIncludeDepth \in Nat
  BY DepthAssumption DEF OnWay
<1> DEFINE S == DOMAIN lib \cup {h}
<1>a. chain \in Seq(S) /\ h \in S
  BY <1>1
<1>2. w \in Seq(S) /\ Len(w) = m + 1 /\ w[m + 1] = h /\ \A i \in 1..m : w[i] = chain[i]
  <2> HIDE DEF S
  <2> QED BY <1>a, OneMore
<1>b. w \in [1..(m + 1) -> S]
  <2> HIDE DEF S, w, m
  <2> QED BY <1>2
<1>3. h \in Used
  BY DEF Used, Files
<1>4. /\ \A i \in 1..m : chain[i] \in Used
      /\ chain[1] = Root /\ \A i \in 1..(m - 1) : chain[i] \in Files /\ chain[i + 1] \in Uses(chain[i])
  BY <1>1 DEF Ways
<1>7. Root \in ToSet(chain)
  <2>1. 1 \in DOMAIN chain
    BY <1>1
  <2> QED BY <1>4, <2>1 DEF ToSet
<1> HIDE DEF w, m, S
<1>c. m \in 1..m /\ 1 \in 1..m
  BY <1>1
<1>5. w \in [1..(m + 1) -> Used]
  <2>1. ASSUME NEW i \in 1..(m + 1) PROVE w[i] \in Used
    <3>1. i \in 1..m \/ i = m + 1
      BY <1>1
    <3> QED BY <1>2, <1>3, <1>4, <3>1
  <2> QED BY <1>b, <2>1
<1>6. /\ w[1] = Root
      /\ \A i \in 1..((m + 1) - 1) : w[i] \in Files /\ w[i + 1] \in Uses(w[i])
  <2>1. w[1] = Root
    BY <1>2, <1>4, <1>c
  <2>2. ASSUME NEW i \in 1..((m + 1) - 1) PROVE w[i] \in Files /\ w[i + 1] \in Uses(w[i])
    <3>1. CASE i = m
      <4>1. w[i] = f /\ w[i + 1] = h
        BY <1>1, <1>2, <1>c, <3>1
      <4> QED BY <4>1 DEF Files
    <3>2. CASE i # m
      <4>1. i \in 1..(m - 1) /\ i \in 1..m /\ i + 1 \in 1..m
        BY <1>1, <3>2
      <4> QED BY <1>2, <1>4, <4>1
    <3> QED BY <3>1, <3>2
  <2> QED BY <2>1, <2>2
<1>8. w \in Ways(m + 1)
  BY <1>5, <1>6 DEF Ways
<1>9. m + 1 \in 2..(MaxIncludeDepth + 2)
  BY <1>1
<1> QED BY <1>2, <1>7, <1>8, <1>9 DEF m, w

(* The site of a step that leads on.                                       *)
LEMMA SiteOn ==
  ASSUME NEW chain, NEW f \in DOMAIN lib, OnWay(chain, f), NEW s \in Steps, s.file \in Uses(f),
         NEW p \in Places, MayInclude(lib, s.file, chain)
  PROVE  LET y == SiteOf(s, p, chain) IN
         /\ y \in Sites(lib) /\ y.file = s.file /\ y.file # Root /\ y.prefix \in Places
         /\ Len(y.chain) = Len(chain) + 1 /\ Len(chain) <= MaxIncludeDepth
         /\ y.chain = Append(chain, s.file) /\ OnWay(y.chain, y.file)
<1> DEFINE q == Append(p, s.id)  w == Append(chain, s.file)  h == s.file  m == Len(chain)
<1>1. /\ chain \in Seq(DOMAIN lib) /\ m \in Nat /\ h \in DOMAIN lib /\ m <= MaxIncludeDepth
      /\ h \notin ToSet(chain) /\ MaxIncludeDepth \in Nat
  BY DepthAssumption DEF OnWay, MayInclude
<1>2. q \in Places
  <2>1. s.id \in Strings /\ p \in Seq(Strings)
    BY StepWords DEF Places
  <2> QED BY <2>1, OneMore DEF Places
<1>3. w \in Ways(m + 1) /\ w[m + 1] = h /\ Root \in ToSet(chain)
  BY WayOn
<1>4. w \in Seq(DOMAIN lib) /\ Len(w) = m + 1
  BY <1>1
<1>5. SiteOf(s, p, chain) = [file |-> h, prefix |-> q, chain |-> w]
  BY DEF SiteOf
<1> HIDE DEF q, w, h, m
<1>6. [file |-> h, prefix |-> q, chain |-> w] \in Sites(lib)
  BY <1>1, <1>2, <1>4 DEF Sites, Places, Strings
<1>7. h # Root
  BY <1>1, <1>3
<1>8. OnWay(w, h)
  <2>1. w # <<>> /\ Len(w) <= MaxIncludeDepth + 1
    BY <1>1, <1>4
  <2> QED BY <1>3, <1>4, <2>1 DEF OnWay
<1> QED BY <1>1, <1>2, <1>4, <1>5, <1>6, <1>7, <1>8 DEF h, w, m

LEMMA Downwards ==
  ASSUME IsLibrary(lib), NEW f \in DOMAIN lib, NEW p \in Places, NEW chain, OnWay(chain, f),
         ~Clean(f, p, chain),
         \A y \in Sites(lib) :
           /\ Len(y.chain) = Len(chain) + 1 /\ Len(chain) <= MaxIncludeDepth
           /\ OnWay(y.chain, y.file) /\ y.file # Root /\ ~Clean(y.file, y.prefix, y.chain)
           => BadWay
  PROVE  BadWay
<1> DEFINE g == FragmentsOf(lib)
<1>1. PICK s \in Steps : s.file \in Uses(f) /\ ~Expand(lib, g, s, p, chain).ok
  BY CleanMeans
<1> DEFINE y == SiteOf(s, p, chain)  h == s.file  n == Len(chain) + 1  w == Append(chain, h)
<1>2. Expand(lib, g, s, p, chain).ok
        <=> MayInclude(lib, h, chain) /\ g[y].body.ok /\ g[y].final.ok
  BY ExpandIs
<1>3. CASE MayInclude(lib, h, chain)
  <2>1. /\ y \in Sites(lib) /\ y.file # Root
        /\ Len(y.chain) = Len(chain) + 1 /\ Len(chain) <= MaxIncludeDepth
        /\ OnWay(y.chain, y.file)
    BY <1>1, <1>3, SiteOn
  <2> HIDE DEF g, y, h
  <2>2. ~(g[y].body.ok /\ g[y].final.ok)
    BY <1>1, <1>2, <1>3
  <2>3. ~Clean(y.file, y.prefix, y.chain)
    BY <2>1, <2>2, CleanSite DEF g
  <2> QED BY <2>1, <2>3
<1>4. CASE ~MayInclude(lib, h, chain)
  <2>1. /\ w \in Ways(n) /\ w[n] = h /\ n \in 2..(MaxIncludeDepth + 2)
        /\ \A i \in 1..Len(chain) : w[i] = chain[i]
    BY <1>1, WayOn
  <2>2. /\ Len(chain) \in Nat /\ Len(chain) <= MaxIncludeDepth + 1
        /\ DOMAIN chain = 1..Len(chain) /\ MaxIncludeDepth \in Nat
    BY DepthAssumption DEF OnWay
  <2>3. BadEnd(n, w)
    <3>1. CASE ~(Len(chain) <= MaxIncludeDepth)
      <4>1. n = MaxIncludeDepth + 2
        BY <2>2, <3>1
      <4> QED BY <4>1 DEF BadEnd
    <3>2. CASE h \in ToSet(chain)
      <4>1. PICK i \in 1..Len(chain) : h = chain[i]
        BY <2>2, <3>2 DEF ToSet
      <4>2. i \in 1..(n - 1) /\ w[n] = w[i]
        BY <2>1, <2>2, <4>1
      <4> HIDE DEF n, w
      <4>3. w[n] \in {w[j] : j \in 1..(n - 1)}
        BY <4>2
      <4> QED BY <4>3 DEF BadEnd
    <3>3. CASE h \notin DOMAIN lib \/ ~Valid(lib[h])
      <4> HIDE DEF n, w
      <4> QED BY <2>1, <3>3 DEF BadEnd, Files
    <3> QED BY <1>4, <3>1, <3>2, <3>3 DEF MayInclude
  <2> HIDE DEF n, w
  <2> QED BY <2>1, <2>3 DEF BadWay
<1> QED BY <1>3, <1>4

LEMMA RootOnWay ==
  ASSUME Root \in DOMAIN lib
  PROVE  OnWay(<<Root>>, Root)
<1>1. /\ <<Root>> \in Seq(DOMAIN lib) /\ <<Root>> # <<>> /\ Len(<<Root>>) = 1
      /\ <<Root>>[1] = Root
  OBVIOUS
<1>2. Root \in Used
  BY DEF Used
<1> DEFINE w == <<Root>>
<1>3. w \in [1..1 -> Used]
  BY <1>2
<1>4. w[1] = Root
  OBVIOUS
<1> HIDE DEF w
<1>5. \A i \in 1..(1 - 1) : w[i] \in Files /\ w[i + 1] \in Uses(w[i])
  OBVIOUS
<1>6. w \in Ways(1)
  BY <1>3, <1>4, <1>5 DEF Ways
<1>7. 1 <= MaxIncludeDepth + 1
  BY DepthAssumption
<1> QED BY <1>1, <1>6, <1>7 DEF OnWay, w

LEMMA RefusedBad ==
  ASSUME IsLibrary(lib), Root \in DOMAIN lib, ~Laid(lib).ok
  PROVE  BadWay
<1> DEFINE Holds(y) ==
             /\ OnWay(y.chain, y.file) /\ y.file # Root /\ ~Clean(y.file, y.prefix, y.chain)
             => BadWay
           S == {y \in Sites(lib) : Holds(y)}
<1>1. ASSUME NEW x \in Sites(lib),
             \A y \in Sites(lib) :
               Len(y.chain) = Len(x.chain) + 1 /\ Len(x.chain) <= MaxIncludeDepth => y \in S
      PROVE  x \in S
  <2>1. SUFFICES ASSUME OnWay(x.chain, x.file), ~Clean(x.file, x.prefix, x.chain) PROVE BadWay
    OBVIOUS
  <2>2. x.file \in DOMAIN lib /\ x.prefix \in Places
    BY DEF Sites, Places, Strings
  <2>3. \A y \in Sites(lib) :
          /\ Len(y.chain) = Len(x.chain) + 1 /\ Len(x.chain) <= MaxIncludeDepth
          /\ OnWay(y.chain, y.file) /\ y.file # Root /\ ~Clean(y.file, y.prefix, y.chain)
          => BadWay
    BY <1>1
  <2> QED BY <2>1, <2>2, <2>3, Downwards
<1>2. Sites(lib) \subseteq S
  <2> HIDE DEF S
  <2> QED BY <1>1, SiteInduction
<1>3. ~Clean(Root, <<>>, <<Root>>)
  BY DEF Clean, Laid
<1>4. \A y \in Sites(lib) :
        OnWay(y.chain, y.file) /\ y.file # Root /\ ~Clean(y.file, y.prefix, y.chain) => BadWay
  BY <1>2
<1>5. <<>> \in Places
  BY DEF Places
<1> QED BY <1>3, <1>4, <1>5, RootOnWay, Downwards

(* What is reached along a way, when nothing is refused.                   *)
Reached(w, m) ==
  \E chain : \E p \in Places :
    /\ OnWay(chain, w[m]) /\ Len(chain) = m /\ \A i \in 1..m : chain[i] = w[i]
    /\ Clean(w[m], p, chain) /\ w[m] \in DOMAIN lib /\ Valid(lib[w[m]])
    /\ m # 1 => w[m] \notin {w[i] : i \in 1..(m - 1)}

LEMMA ReachedOn ==
  ASSUME IsLibrary(lib), NEW n \in Nat, NEW w \in Ways(n), NEW m \in Nat, m # 0, m < n,
         Reached(w, m)
  PROVE  Reached(w, m + 1)
<1> DEFINE f == w[m]  h == w[m + 1]  g == FragmentsOf(lib)
<1>1. PICK chain : \E p \in Places :
        /\ OnWay(chain, w[m]) /\ Len(chain) = m /\ \A i \in 1..m : chain[i] = w[i]
        /\ Clean(w[m], p, chain) /\ w[m] \in DOMAIN lib
  BY DEF Reached
<1>2. PICK p \in Places :
        /\ OnWay(chain, f) /\ Len(chain) = m /\ \A i \in 1..m : chain[i] = w[i]
        /\ Clean(f, p, chain) /\ f \in DOMAIN lib
  BY <1>1
<1>3. h \in Uses(f)
  <2>1. m \in 1..(n - 1)
    OBVIOUS
  <2> QED BY <2>1 DEF Ways
<1>4. PICK s \in Steps : s.file = h /\ Expand(lib, g, s, p, chain).ok
  BY <1>2, <1>3, CleanMeans
<1> DEFINE y == SiteOf(s, p, chain)
<1>5. MayInclude(lib, h, chain) /\ g[y].body.ok /\ g[y].final.ok
  BY <1>4, ExpandIs
<1>6. /\ y \in Sites(lib) /\ y.file = h /\ y.file # Root /\ y.prefix \in Places
      /\ y.chain = Append(chain, h) /\ OnWay(y.chain, y.file) /\ Len(y.chain) = m + 1
  BY <1>2, <1>3, <1>4, <1>5, SiteOn
<1> HIDE DEF y, g
<1>7. Clean(h, y.prefix, y.chain)
  BY <1>5, <1>6, CleanSite DEF g
<1>8. /\ \A i \in 1..m : y.chain[i] = w[i]
      /\ y.chain[m + 1] = h
  <2>1. /\ Append(chain, h)[Len(chain) + 1] = h
        /\ \A i \in 1..Len(chain) : Append(chain, h)[i] = chain[i]
    BY <1>2, <1>3, WayOn
  <2> QED BY <1>2, <1>6, <2>1
<1>9. \A i \in 1..(m + 1) : y.chain[i] = w[i]
  <2>1. \A i \in 1..(m + 1) : i \in 1..m \/ i = m + 1
    OBVIOUS
  <2> QED BY <1>8, <2>1
<1>10. h \notin {w[i] : i \in 1..((m + 1) - 1)}
  <2>1. chain \in Seq(DOMAIN lib) /\ DOMAIN chain = 1..m
    BY <1>2 DEF OnWay
  <2>2. \A i \in 1..m : w[i] \in ToSet(chain)
    BY <1>2, <2>1 DEF ToSet
  <2>3. h \notin ToSet(chain)
    BY <1>5 DEF MayInclude
  <2>4. (m + 1) - 1 = m
    OBVIOUS
  <2> HIDE DEF h
  <2> QED BY <2>2, <2>3, <2>4
<1>11. h \in DOMAIN lib /\ Valid(lib[h])
  BY <1>5 DEF MayInclude
<1>12. /\ OnWay(y.chain, w[m + 1]) /\ Len(y.chain) = m + 1 /\ y.prefix \in Places
       /\ Clean(w[m + 1], y.prefix, y.chain)
  BY <1>6, <1>7
<1> QED BY <1>9, <1>10, <1>11, <1>12 DEF Reached

LEMMA NotRefusedGood ==
  ASSUME IsLibrary(lib), Root \in DOMAIN lib, Valid(lib[Root]), Laid(lib).ok
  PROVE  ~BadWay
<1> SUFFICES ASSUME NEW n \in 2..(MaxIncludeDepth + 2), NEW w \in Ways(n), BadEnd(n, w)
             PROVE  FALSE
  BY DEF BadWay
<1>0. n \in Nat /\ MaxIncludeDepth \in Nat
  BY DepthAssumption
<1>1. Reached(w, 1)
  <2>1. w[1] = Root
    BY DEF Ways
  <2>2. /\ OnWay(<<Root>>, Root) /\ Len(<<Root>>) = 1 /\ <<Root>>[1] = Root /\ <<>> \in Places
    BY RootOnWay DEF Places
  <2>3. Clean(Root, <<>>, <<Root>>)
    BY DEF Clean, Laid
  <2>4. \A i \in 1..1 : <<Root>>[i] = w[i]
    BY <2>1
  <2> QED BY <2>1, <2>2, <2>3, <2>4 DEF Reached
<1> DEFINE S == {i \in Nat : i + 1 <= n => Reached(w, i + 1)}
<1>2. 0 \in S
  <2>1. 0 + 1 = 1
    OBVIOUS
  <2> QED BY <1>1, <2>1
<1>3. ASSUME NEW i \in Nat, i \in S PROVE i + 1 \in S
  <2>1. CASE (i + 1) + 1 <= n
    <3>1. i + 1 \in Nat /\ i + 1 # 0 /\ i + 1 < n /\ i + 1 <= n
      BY <1>0, <2>1
    <3>2. Reached(w, i + 1)
      BY <1>3, <3>1
    <3>3. Reached(w, (i + 1) + 1)
      BY <1>0, <3>1, <3>2, ReachedOn
    <3> QED BY <3>3
  <2>2. CASE ~((i + 1) + 1 <= n)
    BY <2>2
  <2> QED BY <2>1, <2>2
<1>4. Reached(w, n)
  <2> HIDE DEF S
  <2>1. \A i \in Nat : i \in S
    BY <1>2, <1>3, Induction
  <2>2. n - 1 \in Nat /\ (n - 1) + 1 = n
    BY <1>0
  <2>3. n - 1 \in S
    BY <2>1, <2>2
  <2>4. (n - 1) + 1 <= n => Reached(w, (n - 1) + 1)
    BY <2>3 DEF S
  <2> QED BY <1>0, <2>2, <2>4
<1>5. PICK chain : OnWay(chain, w[n]) /\ Len(chain) = n
  BY <1>4 DEF Reached
<1>6. n <= MaxIncludeDepth + 1
  BY <1>5 DEF OnWay
<1>7. n # MaxIncludeDepth + 2 /\ n # 1
  BY <1>0, <1>6
<1> QED BY <1>4, <1>7 DEF Reached, BadEnd, Files

LEMMA Reasons == Faithful => RefusedForAReason
<1> SUFFICES ASSUME Faithful
             PROVE  verdict = "refused" <=> Root \notin Files \/ ~Valid(lib[Root]) \/ BadWay
  BY DEF RefusedForAReason, BadWay, BadEnd
<1>1. IsLibrary(lib) /\ (verdict = "refused" <=> ~Compiled(lib).ok)
  BY SourceFacts DEF Faithful
<1>2. Compiled(lib).ok <=> Root \in DOMAIN lib /\ Valid(lib[Root]) /\ Laid(lib).ok
  BY CompiledIs
<1>3. Root \in DOMAIN lib /\ Valid(lib[Root]) => (Laid(lib).ok <=> ~BadWay)
  BY <1>1, RefusedBad, NotRefusedGood
<1> QED BY <1>1, <1>2, <1>3 DEF Files

(* The compiler refuses a workflow exactly for what compile.go:99-120      *)
(* gives as reasons: a file met twice on one way along the includes, a way *)
(* too deep, a file that cannot be loaded or is not valid.                 *)
THEOREM RefusedForAReasonHolds == Spec => []RefusedForAReason
BY AlwaysFaithful, Reasons, PTL
=============================================================================
