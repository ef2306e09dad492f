--------------------------- MODULE WidecharProofs ---------------------------
(***************************************************************************)
(* Proofs about Widechar: what the conversions make of a text, of any      *)
(* length.  They are folds over the units or bytes; the first section      *)
(* derives from the least number principle that a fold is what its step    *)
(* makes of the fold of all but the last element, and that what holds of   *)
(* the empty sequence and is kept by Append holds of every sequence.       *)
(***************************************************************************)
EXTENDS Widechar, TLAPS, SequenceTheorems, WellFoundedInduction

(***************************************************************************)
(* Induction, with the set of those for which the claim holds.             *)
(***************************************************************************)
\* A set of natural numbers has a least element.
LEMMA SmallestNat ==
  ASSUME NEW T, T \subseteq Nat, T # {}
  PROVE  \E m \in T : \A k \in T : m <= k
<1> DEFINE R == {x \in Nat \X Nat : x[1] < x[2]}
<1>1. R = OpToRel(<, Nat)
  BY DEF OpToRel
<1>2. IsWellFoundedOn(R, Nat)
  BY <1>1, NatLessThanWellFounded
<1>3. PICK m \in T : \A k \in T : ~ (<<k, m>> \in R)
  BY <1>2, WFMin
<1>4. ASSUME NEW k \in T PROVE m <= k
  <2>1. k \in Nat /\ m \in Nat /\ <<k, m>> \in Nat \X Nat
    OBVIOUS
  <2>2. ~(k < m)
    BY <1>3, <2>1
  <2> QED BY <2>1, <2>2
<1> QED BY <1>3, <1>4

LEMMA NumbersReached ==
  ASSUME NEW T, 0 \in T, \A n \in Nat : n \in T => n + 1 \in T
  PROVE  Nat \subseteq T
<1> SUFFICES ASSUME Nat \ T # {} PROVE FALSE
  OBVIOUS
<1>1. PICK m \in Nat \ T : \A k \in Nat \ T : m <= k
  BY SmallestNat
<1>2. m # 0 /\ m \in Nat
  BY <1>1
<1>3. m - 1 \in Nat /\ m - 1 \in T
  BY <1>1, <1>2
<1>4. (m - 1) + 1 \in T /\ (m - 1) + 1 = m
  BY <1>2, <1>3
<1> QED BY <1>1, <1>4

LEMMA SequencesReached ==
  ASSUME NEW S, NEW T, << >> \in T, \A s \in Seq(S), u \in S : s \in T => Append(s, u) \in T
  PROVE  Seq(S) \subseteq T
<1> DEFINE I == {n \in Nat : \A s \in Seq(S) : Len(s) = n => s \in T}
<1>1. 0 \in I
  <2>1. ASSUME NEW s \in Seq(S), Len(s) = 0 PROVE s = << >>
    BY <2>1
  <2> QED BY <2>1
<1>2. ASSUME NEW n \in I PROVE n + 1 \in I
  <2> SUFFICES ASSUME NEW s \in Seq(S), Len(s) = n + 1 PROVE s \in T
    OBVIOUS
  <2>1. s # << >>
    OBVIOUS
  <2>2. PICK r \in Seq(S), u \in S : s = Append(r, u)
    BY <2>1, SequenceEmptyOrAppend
  <2>3. Len(r) \in Nat /\ Len(s) = Len(r) + 1
    BY <2>2, AppendProperties
  <2>4. Len(r) = n
    BY <2>3
  <2> QED BY <2>2, <2>4
<1>3. Nat \subseteq I
  <2> HIDE DEF I
  <2> QED BY <1>1, <1>2, NumbersReached
<1> QED BY <1>3
----------------------------------------------------------------------------
(***************************************************************************)
(* Folds.                                                                  *)
(***************************************************************************)
\* The largest of some numbers up to n.
LEMMA LargestNumber ==
  ASSUME NEW n \in Nat, NEW I, I \subseteq 0..n, I # {}
  PROVE  Max(I) \in I /\ \A y \in I : Max(I) >= y
<1> DEFINE D == {n - i : i \in I}
<1>1. D \subseteq Nat /\ D # {}
  <2>1. ASSUME NEW i \in I PROVE n - i \in Nat
    <3>1. i \in 0..n
      OBVIOUS
    <3> QED BY <3>1
  <2> QED BY <2>1
<1>2. PICK d \in D : \A k \in D : d <= k
  BY <1>1, SmallestNat
<1>3. PICK m \in I : d = n - m
  BY <1>2
<1>4. \A y \in I : m >= y
  <2> SUFFICES ASSUME NEW y \in I PROVE m >= y
    OBVIOUS
  <2>1. n - y \in D /\ y \in 0..n /\ m \in 0..n
    BY <1>3
  <2>2. n - m <= n - y
    BY <1>2, <1>3, <2>1
  <2> QED BY <2>1, <2>2
<1>5. \E x \in I : \A y \in I : x >= y
  BY <1>4
<1> QED BY <1>5 DEF Max

\* The largest of some places of a sequence.
LEMMA LargestPlace ==
  ASSUME NEW n \in Nat, NEW I, I \subseteq 1..n, I # {}
  PROVE  Max(I) \in I /\ \A y \in I : Max(I) >= y
<1>1. I \subseteq 0..n
  OBVIOUS
<1> QED BY <1>1, LargestNumber

\* g is the function FoldLeft iterates on sets of places, with the step given by F.
Iterates(g, F, base, s) ==
  g = [t \in SUBSET (1..Len(s)) |->
         IF t = {} THEN base ELSE F[<<g[t \ {Max(t)}], s[Max(t)]>>]]

\* Such a function exists, with values in A,
LEMMA IteratesExists ==
  ASSUME NEW A, NEW U, NEW base \in A, NEW F, \A a \in A, u \in U : F[<<a, u>>] \in A,
         NEW s \in Seq(U)
  PROVE  \E g \in [SUBSET (1..Len(s)) -> A] : Iterates(g, F, base, s)
<1> DEFINE T == {r \in Seq(U) : \E g \in [SUBSET (1..Len(r)) -> A] : Iterates(g, F, base, r)}
<1>1. << >> \in T
  <2> DEFINE g == [t \in SUBSET (1..Len(<< >>)) |-> base]
  <2>1. SUBSET (1..Len(<< >>)) = {{}}
    OBVIOUS
  <2>2. g \in [SUBSET (1..Len(<< >>)) -> A] /\ Iterates(g, F, base, << >>)
    BY <2>1 DEF Iterates
  <2>3. << >> \in Seq(U)
    OBVIOUS
  <2> HIDE DEF g
  <2> QED BY <2>2, <2>3
<1>2. ASSUME NEW r \in Seq(U), NEW u \in U, r \in T PROVE Append(r, u) \in T
  <2> DEFINE n == Len(r) + 1
             w == Append(r, u)
  <2>1. PICK g \in [SUBSET (1..Len(r)) -> A] : Iterates(g, F, base, r)
    BY <1>2
  <2>2. /\ n \in Nat /\ Len(r) \in Nat /\ Len(r) = n - 1 /\ Len(w) = n /\ w[n] = u
        /\ w \in Seq(U) /\ \A i \in 1..(n - 1) : w[i] = r[i]
    OBVIOUS
  <2> DEFINE h == [t \in SUBSET (1..n) |-> IF n \in t THEN F[<<g[t \ {n}], u>>] ELSE g[t]]
  <2>3. ASSUME NEW t \in SUBSET (1..n) PROVE t \ {n} \in SUBSET (1..Len(r))
    <3> SUFFICES ASSUME NEW i \in t, i # n PROVE i \in 1..Len(r)
      OBVIOUS
    <3>1. i \in 1..n
      OBVIOUS
    <3> HIDE DEF n
    <3> QED BY <2>2, <3>1
  <2>4. h \in [SUBSET (1..n) -> A]
    <3> SUFFICES ASSUME NEW t \in SUBSET (1..n)
                 PROVE  (IF n \in t THEN F[<<g[t \ {n}], u>>] ELSE g[t]) \in A
      OBVIOUS
    <3>1. g[t \ {n}] \in A
      BY <2>3
    <3>2. n \notin t => t = t \ {n}
      OBVIOUS
    <3> QED BY <3>1, <3>2
  <2>5. ASSUME NEW t \in SUBSET (1..n)
        PROVE  h[t] = IF t = {} THEN base ELSE F[<<h[t \ {Max(t)}], w[Max(t)]>>]
    <3>0. g = [x \in SUBSET (1..Len(r)) |->
                IF x = {} THEN base ELSE F[<<g[x \ {Max(x)}], r[Max(x)]>>]]
      BY <2>1 DEF Iterates
    <3>1. CASE t = {}
      <4>1. {} \in SUBSET (1..Len(r)) /\ n \notin t
        BY <3>1
      <4> QED BY <3>0, <3>1, <4>1
    <3>2. CASE n \in t
      <4>1. Max(t) \in t /\ Max(t) >= n
        BY <2>2, <3>2, LargestPlace
      <4>2. Max(t) = n
        <5>1. Max(t) \in 1..n
          BY <4>1
        <5> HIDE DEF n
        <5> QED BY <2>2, <4>1, <5>1
      <4>3. h[t \ {n}] = g[t \ {n}]
        BY <2>3
      <4> HIDE DEF w, n
      <4> QED BY <2>2, <3>2, <4>2, <4>3
    <3>3. CASE t # {} /\ n \notin t
      <4>1. t \in SUBSET (1..Len(r))
        BY <2>3, <3>3
      <4>2. Max(t) \in t /\ Max(t) \in 1..Len(r) /\ t \ {Max(t)} \in SUBSET (1..Len(r))
        BY <2>2, <3>3, <4>1, LargestPlace
      <4>3. h[t \ {Max(t)}] = g[t \ {Max(t)}]
        BY <3>3
      <4>4. w[Max(t)] = r[Max(t)]
        BY <2>2, <4>2
      <4>5. g[t] = F[<<g[t \ {Max(t)}], r[Max(t)]>>]
        BY <3>0, <3>3, <4>1
      <4>6. h[t] = g[t]
        BY <3>3
      <4> QED BY <3>3, <4>3, <4>4, <4>5, <4>6
    <3> QED BY <3>1, <3>2, <3>3
  <2>6. Iterates(h, F, base, w)
    <3>1. h = [t \in SUBSET (1..n) |-> h[t]]
      OBVIOUS
    <3> HIDE DEF h
    <3> QED BY <2>2, <2>5, <3>1 DEF Iterates
  <2> QED BY <2>2, <2>4, <2>6
<1>3. Seq(U) \subseteq T
  <2> HIDE DEF T
  <2> QED BY <1>1, <1>2, SequencesReached
<1> QED BY <1>3

\* its values are in A whatever it is,
LEMMA IteratesType ==
  ASSUME NEW A, NEW U, NEW base \in A, NEW F, \A a \in A, u \in U : F[<<a, u>>] \in A,
         NEW s \in Seq(U), NEW g, Iterates(g, F, base, s)
  PROVE  g \in [SUBSET (1..Len(s)) -> A]
<1>0. g = [t \in SUBSET (1..Len(s)) |->
             IF t = {} THEN base ELSE F[<<g[t \ {Max(t)}], s[Max(t)]>>]]
  BY DEF Iterates
<1>1. Len(s) \in Nat
  OBVIOUS
<1> DEFINE I == {k \in Nat : \A t \in SUBSET (1..Len(s)) : t \subseteq 1..k => g[t] \in A}
<1>2. 0 \in I
  <2>1. ASSUME NEW t \in SUBSET (1..Len(s)), t \subseteq 1..0 PROVE g[t] \in A
    <3>1. t = {}
      BY <2>1
    <3> QED BY <1>0, <3>1
  <2> QED BY <2>1
<1>3. ASSUME NEW k \in Nat, k \in I PROVE k + 1 \in I
  <2> SUFFICES ASSUME NEW t \in SUBSET (1..Len(s)), t \subseteq 1..(k + 1) PROVE g[t] \in A
    BY <1>3
  <2>1. CASE t = {}
    BY <1>0, <2>1
  <2>2. CASE t # {}
    <3>1. Max(t) \in t /\ \A y \in t : Max(t) >= y
      BY <1>1, <2>2, LargestPlace
    <3>2. t \ {Max(t)} \subseteq 1..k
      <4> SUFFICES ASSUME NEW i \in t, i # Max(t) PROVE i \in 1..k
        OBVIOUS
      <4>1. i \in 1..(k + 1) /\ Max(t) \in 1..(k + 1) /\ Max(t) >= i
        BY <3>1
      <4> QED BY <4>1
    <3>3. Max(t) \in 1..Len(s) /\ t \ {Max(t)} \in SUBSET (1..Len(s))
      BY <3>1
    <3>6. s[Max(t)] \in U
      BY <3>3
    <3>4. g[t \ {Max(t)}] \in A
      BY <1>3, <3>2, <3>3
    <3>5. g[t] = F[<<g[t \ {Max(t)}], s[Max(t)]>>]
      BY <1>0, <2>2
    <3> QED BY <3>4, <3>5, <3>6
  <2> QED BY <2>1, <2>2
<1>4. Nat \subseteq I
  <2> HIDE DEF I
  <2> QED BY <1>2, <1>3, NumbersReached
<1>5. \A t \in SUBSET (1..Len(s)) : g[t] \in A
  BY <1>1, <1>4
<1> QED BY <1>0, <1>5

\* and one more element is one more step.
LEMMA IteratesAppend ==
  ASSUME NEW U, NEW base, NEW F, NEW s \in Seq(U), NEW u \in U,
         NEW g, Iterates(g, F, base, s), NEW h, Iterates(h, F, base, Append(s, u))
  PROVE  h[1..Len(Append(s, u))] = F[<<g[1..Len(s)], u>>]
<1> DEFINE w == Append(s, u)
           n == Len(s)
<1>0. /\ n \in Nat /\ Len(w) = n + 1 /\ w[n + 1] = u /\ w \in Seq(U)
      /\ \A i \in 1..n : w[i] = s[i]
  OBVIOUS
<1>1. g = [t \in SUBSET (1..n) |-> IF t = {} THEN base ELSE F[<<g[t \ {Max(t)}], s[Max(t)]>>]]
  BY DEF Iterates
<1>2. h = [t \in SUBSET (1..Len(w)) |-> IF t = {} THEN base ELSE F[<<h[t \ {Max(t)}], w[Max(t)]>>]]
  BY DEF Iterates
<1> HIDE DEF w, n
<1>3. ASSUME NEW k \in Nat \ {0} PROVE Max(1..k) = k /\ (1..k) \ {Max(1..k)} = 1..(k - 1) /\ 1..k # {}
  <2>1. k \in 1..k
    OBVIOUS
  <2>2. Max(1..k) \in 1..k /\ Max(1..k) >= k
    BY <2>1, LargestPlace
  <2>3. Max(1..k) = k
    BY <2>2
  <2>4. (1..k) \ {k} = 1..(k - 1)
    OBVIOUS
  <2> QED BY <2>1, <2>3, <2>4
<1> DEFINE I == {k \in Nat : k <= n => h[1..k] = g[1..k]}
<1>4. 0 \in I
  <2>1. 1..0 = {}
    OBVIOUS
  <2> QED BY <1>1, <1>2, <2>1
<1>5. ASSUME NEW k \in Nat, k \in I PROVE k + 1 \in I
  <2> SUFFICES ASSUME k + 1 <= n PROVE h[1..(k + 1)] = g[1..(k + 1)]
    BY <1>5
  <2>1. h[1..k] = g[1..k]
    BY <1>0, <1>5
  <2>2. /\ Max(1..(k + 1)) = k + 1 /\ (1..(k + 1)) \ {Max(1..(k + 1))} = 1..k
        /\ 1..(k + 1) # {}
    BY <1>3
  <2>3. /\ 1..(k + 1) \in SUBSET (1..n) /\ 1..(k + 1) \in SUBSET (1..Len(w))
        /\ k + 1 \in 1..n
    BY <1>0
  <2>4. g[1..(k + 1)] = F[<<g[1..k], s[k + 1]>>]
    BY <1>1, <2>2, <2>3
  <2>5. h[1..(k + 1)] = F[<<h[1..k], w[k + 1]>>]
    BY <1>2, <2>2, <2>3
  <2>6. w[k + 1] = s[k + 1]
    BY <1>0, <2>3
  <2> QED BY <2>1, <2>4, <2>5, <2>6
<1>6. Nat \subseteq I
  <2> HIDE DEF I
  <2> QED BY <1>4, <1>5, NumbersReached
<1>7. h[1..n] = g[1..n]
  BY <1>0, <1>6
<1>8. /\ Max(1..(n + 1)) = n + 1 /\ (1..(n + 1)) \ {Max(1..(n + 1))} = 1..n /\ 1..(n + 1) # {}
  BY <1>0, <1>3
<1>9. h[1..(n + 1)] = F[<<h[1..n], w[n + 1]>>]
  BY <1>0, <1>2, <1>8
<1> QED BY <1>0, <1>7, <1>9 DEF w, n
----------------------------------------------------------------------------
(***************************************************************************)
(* utf8_to_utf16_lenient.                                                  *)
(***************************************************************************)
\* Its fold: the step, and the units and bytes of an unfinished character so far.
DecodeStates == [out : Seq(Units), have : Nat]
DecodeBase == [out |-> << >>, have |-> 0]
DecodeStep(a, x) ==
  LET done == x[2] = Width(x[1])
  IN  CASE x[2] = 1 ->
             [out |-> a.out \o (IF a.have > 0 THEN <<"R">> ELSE << >>)
                            \o (IF done THEN UnitsOf(x[1]) ELSE << >>),
              have |-> IF done THEN 0 ELSE 1]
        [] x[2] > 1 /\ a.have > 0 ->
             [out |-> IF done THEN a.out \o UnitsOf(x[1]) ELSE a.out,
              have |-> IF done THEN 0 ELSE a.have + 1]
        [] x[2] > 1 /\ a.have = 0 -> [a EXCEPT !.out = Append(@, "R")]
Decoding(b) == FoldLeft(DecodeStep, DecodeBase, b)

LEMMA DecodesBytes ==
  ASSUME NEW b
  PROVE  utf8_to_utf16_lenient(b) =
           IF Decoding(b).have > 0 THEN Append(Decoding(b).out, "R") ELSE Decoding(b).out
BY DEF utf8_to_utf16_lenient, Decoding, DecodeStep, DecodeBase

\* A character has one or two units, two when it has four bytes.
Characters == {"1", "2", "3", "T", "R", "4", "G"}
LEMMA CharacterUnits ==
  ASSUME NEW ch \in Characters
  PROVE  /\ Width(ch) \in 1..4 /\ UnitsOf(ch) \in Seq(Units)
         /\ Len(UnitsOf(ch)) = IF Width(ch) = 4 THEN 2 ELSE 1
<1>1. CASE ch \in {"1", "2", "3", "R"}
  <2>1. UnitsOf(ch) = <<ch>> /\ ch \in Units
    BY <1>1 DEF UnitsOf, Units
  <2>2. Width(ch) \in 1..3
    BY <1>1 DEF Width
  <2> QED BY <2>1, <2>2
<1>2. CASE ch = "T"
  <2>1. UnitsOf(ch) = <<"R">> /\ "R" \in Units /\ Width(ch) = 3
    BY <1>2 DEF UnitsOf, Units, Width
  <2> QED BY <2>1
<1>3. CASE ch \in {"4", "G"}
  <2>1. UnitsOf(ch) = <<"L", "T">> /\ "L" \in Units /\ "T" \in Units /\ Width(ch) = 4
    BY <1>3 DEF UnitsOf, Units, Width
  <2> QED BY <2>1
<1> QED BY <1>1, <1>2, <1>3 DEF Characters

LEMMA DecodeStepType ==
  ASSUME NEW a \in DecodeStates, NEW x \in Bytes
  PROVE  DecodeStep(a, x) \in DecodeStates
<1> DEFINE done == x[2] = Width(x[1])
<1>1. /\ a.out \in Seq(Units) /\ a.have \in Nat /\ x[2] \in 1..4
      /\ a = [out |-> a.out, have |-> a.have]
  BY DEF DecodeStates, Bytes
<1>2. UnitsOf(x[1]) \in Seq(Units) /\ <<"R">> \in Seq(Units) /\ "R" \in Units
  <2>1. x[1] \in Characters
    BY DEF Bytes, Characters
  <2> QED BY <2>1, CharacterUnits DEF Units
<1>3. CASE x[2] = 1
  <2>1. DecodeStep(a, x) = [out |-> a.out \o (IF a.have > 0 THEN <<"R">> ELSE << >>)
                                         \o (IF done THEN UnitsOf(x[1]) ELSE << >>),
                           have |-> IF done THEN 0 ELSE 1]
    BY <1>1, <1>3 DEF DecodeStep
  <2> HIDE DEF done
  <2> QED BY <1>1, <1>2, <2>1 DEF DecodeStates
<1>4. CASE x[2] > 1 /\ a.have > 0
  <2>1. DecodeStep(a, x) = [out |-> IF done THEN a.out \o UnitsOf(x[1]) ELSE a.out,
                           have |-> IF done THEN 0 ELSE a.have + 1]
    BY <1>1, <1>4 DEF DecodeStep
  <2> HIDE DEF done
  <2> QED BY <1>1, <1>2, <2>1 DEF DecodeStates
<1>5. CASE x[2] > 1 /\ a.have = 0
  <2>1. DecodeStep(a, x) = [a EXCEPT !.out = Append(@, "R")]
    BY <1>1, <1>5 DEF DecodeStep
  <2>2. DecodeStep(a, x) = [out |-> Append(a.out, "R"), have |-> a.have]
    BY <1>1, <2>1
  <2> QED BY <1>1, <1>2, <2>2 DEF DecodeStates
<1> QED BY <1>1, <1>3, <1>4, <1>5

\* What is made of the bytes, byte by byte.
LEMMA DecodingSteps ==
  /\ Decoding(<< >>) = DecodeBase
  /\ \A s \in Seq(Bytes) : Decoding(s) \in DecodeStates
  /\ \A s \in Seq(Bytes), u \in Bytes : Decoding(Append(s, u)) = DecodeStep(Decoding(s), u)
<1> DEFINE G(s) == CHOOSE g : g = [t \in SUBSET DOMAIN s |->
                     IF t = {} THEN DecodeBase ELSE DecodeStep(g[t \ {Max(t)}], s[Max(t)])]
           F == [x \in DecodeStates \X Bytes |-> DecodeStep(x[1], x[2])]
<1>1. \A s : Decoding(s) = G(s)[DOMAIN s]
  BY DEF Decoding, FoldLeft, MapThenFoldSet
<1>2. \A a \in DecodeStates, u \in Bytes : F[<<a, u>>] = DecodeStep(a, u) /\ F[<<a, u>>] \in DecodeStates
  BY DecodeStepType
<1>3. DecodeBase \in DecodeStates
  BY DEF DecodeStates, DecodeBase
<1>4. ASSUME NEW s \in Seq(Bytes)
      PROVE  G(s) \in [SUBSET (1..Len(s)) -> DecodeStates] /\ Iterates(G(s), F, DecodeBase, s)
  <2> DEFINE g == G(s)
             B == DecodeStates \cup {g[t] : t \in SUBSET (1..Len(s))}
             E == [x \in B \X Bytes |-> DecodeStep(x[1], x[2])]
  <2>0. Len(s) \in Nat /\ DOMAIN s = 1..Len(s)
    OBVIOUS
  <2>1. \A a \in B, u \in Bytes : E[<<a, u>>] = DecodeStep(a, u)
    OBVIOUS
  <2>2. \A a \in DecodeStates, u \in Bytes : E[<<a, u>>] \in DecodeStates
    BY <2>1, DecodeStepType
  <2>3. ASSUME NEW t \in SUBSET (1..Len(s)), t # {}
        PROVE  s[Max(t)] \in Bytes /\ t \ {Max(t)} \in SUBSET (1..Len(s))
    <3>1. Max(t) \in 1..Len(s)
      BY <2>0, <2>3, LargestPlace
    <3>2. s[Max(t)] \in Bytes
      BY <3>1
    <3> QED BY <3>2
  <2>4. PICK h \in [SUBSET (1..Len(s)) -> DecodeStates] : Iterates(h, E, DecodeBase, s)
    <3> HIDE DEF E
    <3> QED BY <1>3, <2>2, IteratesExists
  <2>5. h = [t \in SUBSET DOMAIN s |->
               IF t = {} THEN DecodeBase ELSE DecodeStep(h[t \ {Max(t)}], s[Max(t)])]
    <3>1. ASSUME NEW t \in SUBSET (1..Len(s)), t # {}
          PROVE  E[<<h[t \ {Max(t)}], s[Max(t)]>>] = DecodeStep(h[t \ {Max(t)}], s[Max(t)])
      <4>1. h[t \ {Max(t)}] \in B /\ s[Max(t)] \in Bytes
        BY <2>3, <3>1
      <4> HIDE DEF B, E
      <4> QED BY <2>1, <4>1
    <3> HIDE DEF E
    <3> QED BY <2>0, <2>4, <3>1 DEF Iterates
  <2>6. g = [t \in SUBSET DOMAIN s |->
               IF t = {} THEN DecodeBase ELSE DecodeStep(g[t \ {Max(t)}], s[Max(t)])]
    BY <2>5
  <2> HIDE DEF g
  <2>7. Iterates(g, E, DecodeBase, s)
    <3>1. ASSUME NEW t \in SUBSET (1..Len(s)), t # {}
          PROVE  E[<<g[t \ {Max(t)}], s[Max(t)]>>] = DecodeStep(g[t \ {Max(t)}], s[Max(t)])
      <4>1. g[t \ {Max(t)}] \in B /\ s[Max(t)] \in Bytes
        BY <2>3, <3>1
      <4> HIDE DEF B, E
      <4> QED BY <2>1, <4>1
    <3> HIDE DEF E
    <3> QED BY <2>0, <2>6, <3>1 DEF Iterates
  <2>8. g \in [SUBSET (1..Len(s)) -> DecodeStates]
    <3> HIDE DEF E
    <3> QED BY <1>3, <2>2, <2>7, IteratesType
  <2>9. Iterates(g, F, DecodeBase, s)
    <3>1. ASSUME NEW t \in SUBSET (1..Len(s)), t # {}
          PROVE  F[<<g[t \ {Max(t)}], s[Max(t)]>>] = DecodeStep(g[t \ {Max(t)}], s[Max(t)])
      <4>1. g[t \ {Max(t)}] \in DecodeStates /\ s[Max(t)] \in Bytes
        BY <2>3, <2>8, <3>1
      <4> HIDE DEF F
      <4> QED BY <1>2, <4>1
    <3> HIDE DEF F
    <3> QED BY <2>0, <2>6, <3>1 DEF Iterates
  <2> QED BY <2>8, <2>9 DEF g
<1> HIDE DEF F, G
<1>5. ASSUME NEW s \in Seq(Bytes) PROVE Decoding(s) = G(s)[1..Len(s)]
  BY <1>1
<1>6. Decoding(<< >>) = DecodeBase
  <2>1. << >> \in Seq(Bytes) /\ Len(<< >>) = 0 /\ 1..0 = {}
    OBVIOUS
  <2>2. G(<< >>)[1..Len(<< >>)] = DecodeBase
    BY <1>4, <2>1 DEF Iterates
  <2> QED BY <1>5, <2>1, <2>2
<1>7. ASSUME NEW s \in Seq(Bytes) PROVE Decoding(s) \in DecodeStates
  BY <1>4, <1>5
<1>8. ASSUME NEW s \in Seq(Bytes), NEW u \in Bytes PROVE Decoding(Append(s, u)) = DecodeStep(Decoding(s), u)
  <2>1. Append(s, u) \in Seq(Bytes)
    OBVIOUS
  <2>2. G(Append(s, u))[1..Len(Append(s, u))] = F[<<G(s)[1..Len(s)], u>>]
    <3>1. Iterates(G(s), F, DecodeBase, s) /\ Iterates(G(Append(s, u)), F, DecodeBase, Append(s, u))
      BY <1>4, <2>1
    <3> QED BY <3>1, IteratesAppend
  <2>3. Decoding(Append(s, u)) = F[<<Decoding(s), u>>]
    BY <1>5, <2>1, <2>2
  <2> QED BY <1>2, <1>7, <2>3
<1> QED BY <1>6, <1>7, <1>8
----------------------------------------------------------------------------
(***************************************************************************)
(* utf16to8.                                                               *)
(***************************************************************************)
EncodeStates == [out : Seq(Bytes), lead : BOOLEAN]
EncodeBase == [out |-> << >>, lead |-> FALSE]
EncodeStep(a, u) ==
  CASE a.lead -> [out |-> a.out \o Encoded(IF u = "T" THEN "4" ELSE "G"), lead |-> FALSE]
    [] ~a.lead /\ u = "L" -> [a EXCEPT !.lead = TRUE]
    [] ~a.lead /\ u # "L" -> [a EXCEPT !.out = @ \o Encoded(u)]
Encoding(s) == FoldLeft(EncodeStep, EncodeBase, s)

LEMMA EncodesUnits ==
  ASSUME NEW s
  PROVE  utf16to8(s) = Encoding(s).out
BY DEF utf16to8, Encoding, EncodeStep, EncodeBase

\* The bytes of a character.
LEMMA EncodedBytes ==
  ASSUME NEW ch \in Characters
  PROVE  /\ Encoded(ch) \in Seq(Bytes) /\ Len(Encoded(ch)) = Width(ch)
         /\ \A k \in 1..Width(ch) : Encoded(ch)[k] = <<ch, k>>
<1>1. Width(ch) \in 1..4
  BY CharacterUnits
<1>2. \A k \in 1..Width(ch) : <<ch, k>> \in Bytes
  BY <1>1 DEF Bytes, Characters
<1> DEFINE n == Width(ch)
           e == [k \in 1..n |-> <<ch, k>>]
<1>3. n \in Nat /\ e \in [1..n -> Bytes]
  BY <1>1, <1>2
<1>4. e \in Seq(Bytes) /\ Len(e) = n
  <2> HIDE DEF e, n
  <2> QED BY <1>3
<1> QED BY <1>4 DEF Encoded

\* A step by a unit that is no lead, after one that is, and by a lead.
LEMMA EncodeStepCases ==
  ASSUME NEW a \in EncodeStates, NEW u \in Units
  PROVE  /\ a.lead => EncodeStep(a, u) =
               [out |-> a.out \o Encoded(IF u = "T" THEN "4" ELSE "G"), lead |-> FALSE]
         /\ ~a.lead /\ u = "L" => EncodeStep(a, u) = [out |-> a.out, lead |-> TRUE]
         /\ ~a.lead /\ u # "L" => EncodeStep(a, u) = [out |-> a.out \o Encoded(u), lead |-> FALSE]
<1>1. a = [out |-> a.out, lead |-> a.lead] /\ a.lead \in BOOLEAN
  BY DEF EncodeStates
<1>2. CASE a.lead
  BY <1>2 DEF EncodeStep
<1>3. CASE ~a.lead /\ u = "L"
  <2>1. EncodeStep(a, u) = [a EXCEPT !.lead = TRUE]
    BY <1>3 DEF EncodeStep
  <2> QED BY <1>1, <1>3, <2>1
<1>4. CASE ~a.lead /\ u # "L"
  <2>1. EncodeStep(a, u) = [a EXCEPT !.out = @ \o Encoded(u)]
    BY <1>4 DEF EncodeStep
  <2>2. a.lead = FALSE
    BY <1>1, <1>4
  <2> QED BY <1>1, <1>4, <2>1, <2>2
<1> QED BY <1>1, <1>2, <1>3, <1>4

LEMMA EncodeStepType ==
  ASSUME NEW a \in EncodeStates, NEW u \in Units
  PROVE  EncodeStep(a, u) \in EncodeStates
<1>1. a.out \in Seq(Bytes) /\ a.lead \in BOOLEAN
  BY DEF EncodeStates
<1>2. u # "L" => u \in Characters
  BY DEF Units, Characters
<1>3. (IF u = "T" THEN "4" ELSE "G") \in Characters
  BY DEF Characters
<1> DEFINE e == Encoded(IF u = "T" THEN "4" ELSE "G")
<1>4. e \in Seq(Bytes) /\ (u # "L" => Encoded(u) \in Seq(Bytes))
  BY <1>2, <1>3, EncodedBytes
<1>5. a.out \o e \in Seq(Bytes) /\ (u # "L" => a.out \o Encoded(u) \in Seq(Bytes))
  <2> HIDE DEF e
  <2> QED BY <1>1, <1>4
<1>6. CASE a.lead
  <2>1. EncodeStep(a, u) = [out |-> a.out \o e, lead |-> FALSE]
    BY <1>6, EncodeStepCases
  <2> HIDE DEF e
  <2> QED BY <1>5, <2>1 DEF EncodeStates
<1>7. CASE ~a.lead /\ u = "L"
  <2>1. EncodeStep(a, u) = [out |-> a.out, lead |-> TRUE]
    BY <1>7, EncodeStepCases
  <2> QED BY <1>1, <2>1 DEF EncodeStates
<1>8. CASE ~a.lead /\ u # "L"
  <2>1. EncodeStep(a, u) = [out |-> a.out \o Encoded(u), lead |-> FALSE]
    BY <1>8, EncodeStepCases
  <2> QED BY <1>5, <1>8, <2>1 DEF EncodeStates
<1> QED BY <1>6, <1>7, <1>8

\* What is made of the units, unit by unit.
LEMMA EncodingSteps ==
  /\ Encoding(<< >>) = EncodeBase
  /\ \A s \in Seq(Units) : Encoding(s) \in EncodeStates
  /\ \A s \in Seq(Units), u \in Units : Encoding(Append(s, u)) = EncodeStep(Encoding(s), u)
<1> DEFINE G(s) == CHOOSE g : g = [t \in SUBSET DOMAIN s |->
                     IF t = {} THEN EncodeBase ELSE EncodeStep(g[t \ {Max(t)}], s[Max(t)])]
           F == [x \in EncodeStates \X Units |-> EncodeStep(x[1], x[2])]
<1>1. \A s : Encoding(s) = G(s)[DOMAIN s]
  BY DEF Encoding, FoldLeft, MapThenFoldSet
<1>2. \A a \in EncodeStates, u \in Units : F[<<a, u>>] = EncodeStep(a, u) /\ F[<<a, u>>] \in EncodeStates
  BY EncodeStepType
<1>3. EncodeBase \in EncodeStates
  BY DEF EncodeStates, EncodeBase
<1>4. ASSUME NEW s \in Seq(Units)
      PROVE  G(s) \in [SUBSET (1..Len(s)) -> EncodeStates] /\ Iterates(G(s), F, EncodeBase, s)
  <2> DEFINE g == G(s)
             B == EncodeStates \cup {g[t] : t \in SUBSET (1..Len(s))}
             E == [x \in B \X Units |-> EncodeStep(x[1], x[2])]
  <2>0. Len(s) \in Nat /\ DOMAIN s = 1..Len(s)
    OBVIOUS
  <2>1. \A a \in B, u \in Units : E[<<a, u>>] = EncodeStep(a, u)
    OBVIOUS
  <2>2. \A a \in EncodeStates, u \in Units : E[<<a, u>>] \in EncodeStates
    BY <2>1, EncodeStepType
  <2>3. ASSUME NEW t \in SUBSET (1..Len(s)), t # {}
        PROVE  s[Max(t)] \in Units /\ t \ {Max(t)} \in SUBSET (1..Len(s))
    <3>1. Max(t) \in 1..Len(s)
      BY <2>0, <2>3, LargestPlace
    <3>2. s[Max(t)] \in Units
      BY <3>1
    <3> QED BY <3>2
  <2>4. PICK h \in [SUBSET (1..Len(s)) -> EncodeStates] : Iterates(h, E, EncodeBase, s)
    <3> HIDE DEF E
    <3> QED BY <1>3, <2>2, IteratesExists
  <2>5. h = [t \in SUBSET DOMAIN s |->
               IF t = {} THEN EncodeBase ELSE EncodeStep(h[t \ {Max(t)}], s[Max(t)])]
    <3>1. ASSUME NEW t \in SUBSET (1..Len(s)), t # {}
          PROVE  E[<<h[t \ {Max(t)}], s[Max(t)]>>] = EncodeStep(h[t \ {Max(t)}], s[Max(t)])
      <4>1. h[t \ {Max(t)}] \in B /\ s[Max(t)] \in Units
        BY <2>3, <3>1
      <4> HIDE DEF B, E
      <4> QED BY <2>1, <4>1
    <3> HIDE DEF E
    <3> QED BY <2>0, <2>4, <3>1 DEF Iterates
  <2>6. g = [t \in SUBSET DOMAIN s |->
               IF t = {} THEN EncodeBase ELSE EncodeStep(g[t \ {Max(t)}], s[Max(t)])]
    BY <2>5
  <2> HIDE DEF g
  <2>7. Iterates(g, E, EncodeBase, s)
    <3>1. ASSUME NEW t \in SUBSET (1..Len(s)), t # {}
          PROVE  E[<<g[t \ {Max(t)}], s[Max(t)]>>] = EncodeStep(g[t \ {Max(t)}], s[Max(t)])
      <4>1. g[t \ {Max(t)}] \in B /\ s[Max(t)] \in Units
        BY <2>3, <3>1
      <4> HIDE DEF B, E
      <4> QED BY <2>1, <4>1
    <3> HIDE DEF E
    <3> QED BY <2>0, <2>6, <3>1 DEF Iterates
  <2>8. g \in [SUBSET (1..Len(s)) -> EncodeStates]
    <3> HIDE DEF E
    <3> QED BY <1>3, <2>2, <2>7, IteratesType
  <2>9. Iterates(g, F, EncodeBase, s)
    <3>1. ASSUME NEW t \in SUBSET (1..Len(s)), t # {}
          PROVE  F[<<g[t \ {Max(t)}], s[Max(t)]>>] = EncodeStep(g[t \ {Max(t)}], s[Max(t)])
      <4>1. g[t \ {Max(t)}] \in EncodeStates /\ s[Max(t)] \in Units
        BY <2>3, <2>8, <3>1
      <4> HIDE DEF F
      <4> QED BY <1>2, <4>1
    <3> HIDE DEF F
    <3> QED BY <2>0, <2>6, <3>1 DEF Iterates
  <2> QED BY <2>8, <2>9 DEF g
<1> HIDE DEF F, G
<1>5. ASSUME NEW s \in Seq(Units) PROVE Encoding(s) = G(s)[1..Len(s)]
  BY <1>1
<1>6. Encoding(<< >>) = EncodeBase
  <2>1. << >> \in Seq(Units) /\ Len(<< >>) = 0 /\ 1..0 = {}
    OBVIOUS
  <2>2. G(<< >>)[1..Len(<< >>)] = EncodeBase
    BY <1>4, <2>1 DEF Iterates
  <2> QED BY <1>5, <2>1, <2>2
<1>7. ASSUME NEW s \in Seq(Units) PROVE Encoding(s) \in EncodeStates
  BY <1>4, <1>5
<1>8. ASSUME NEW s \in Seq(Units), NEW u \in Units PROVE Encoding(Append(s, u)) = EncodeStep(Encoding(s), u)
  <2>1. Append(s, u) \in Seq(Units)
    OBVIOUS
  <2>2. G(Append(s, u))[1..Len(Append(s, u))] = F[<<G(s)[1..Len(s)], u>>]
    <3>1. Iterates(G(s), F, EncodeBase, s) /\ Iterates(G(Append(s, u)), F, EncodeBase, Append(s, u))
      BY <1>4, <2>1
    <3> QED BY <3>1, IteratesAppend
  <2>3. Encoding(Append(s, u)) = F[<<Encoding(s), u>>]
    BY <1>5, <2>1, <2>2
  <2> QED BY <1>2, <1>7, <2>3
<1> QED BY <1>6, <1>7, <1>8
----------------------------------------------------------------------------
(***************************************************************************)
(* utf16_replace_invalid.                                                  *)
(***************************************************************************)
ReplaceStates == [out : Seq(Units), lead : BOOLEAN]
ReplaceBase == [out |-> << >>, lead |-> FALSE]
ReplaceStep(a, u) ==
  CASE a.lead /\ u = "T" -> [out |-> a.out \o <<"L", "T">>, lead |-> FALSE]
    [] a.lead /\ u # "T" -> [out |-> a.out \o <<"R", u>>, lead |-> FALSE]
    [] ~a.lead /\ u = "L" -> [a EXCEPT !.lead = TRUE]
    [] ~a.lead /\ u # "L" -> [a EXCEPT !.out = Append(@, IF u = "T" THEN "R" ELSE u)]
Replacing(s) == FoldLeft(ReplaceStep, ReplaceBase, s)

LEMMA ReplacesUnits ==
  ASSUME NEW s
  PROVE  utf16_replace_invalid(s) =
           IF Replacing(s).lead THEN Append(Replacing(s).out, "R") ELSE Replacing(s).out
BY DEF utf16_replace_invalid, Replacing, ReplaceStep, ReplaceBase

LEMMA ReplaceStepCases ==
  ASSUME NEW a \in ReplaceStates, NEW u \in Units
  PROVE  /\ a.lead => ReplaceStep(a, u) =
               [out |-> a.out \o (IF u = "T" THEN <<"L", "T">> ELSE <<"R", u>>), lead |-> FALSE]
         /\ ~a.lead /\ u = "L" => ReplaceStep(a, u) = [out |-> a.out, lead |-> TRUE]
         /\ ~a.lead /\ u # "L" => ReplaceStep(a, u) =
               [out |-> Append(a.out, IF u = "T" THEN "R" ELSE u), lead |-> FALSE]
<1>1. a = [out |-> a.out, lead |-> a.lead] /\ a.lead \in BOOLEAN
  BY DEF ReplaceStates
<1>2. CASE a.lead /\ u = "T"
  BY <1>2 DEF ReplaceStep
<1>3. CASE a.lead /\ u # "T"
  BY <1>3 DEF ReplaceStep
<1>4. CASE ~a.lead /\ u = "L"
  <2>1. ReplaceStep(a, u) = [a EXCEPT !.lead = TRUE]
    BY <1>4 DEF ReplaceStep
  <2> QED BY <1>1, <1>4, <2>1
<1>5. CASE ~a.lead /\ u # "L"
  <2>1. ReplaceStep(a, u) = [a EXCEPT !.out = Append(@, IF u = "T" THEN "R" ELSE u)]
    BY <1>5 DEF ReplaceStep
  <2>2. a.lead = FALSE
    BY <1>1, <1>5
  <2> QED BY <1>1, <1>5, <2>1, <2>2
<1> QED BY <1>1, <1>2, <1>3, <1>4, <1>5

LEMMA ReplaceStepType ==
  ASSUME NEW a \in ReplaceStates, NEW u \in Units
  PROVE  ReplaceStep(a, u) \in ReplaceStates
<1>1. a.out \in Seq(Units) /\ a.lead \in BOOLEAN
  BY DEF ReplaceStates
<1> DEFINE x == IF u = "T" THEN "R" ELSE u
           y == IF u = "T" THEN <<"L", "T">> ELSE <<"R", u>>
<1>2. x \in Units /\ y \in Seq(Units)
  <2>1. "L" \in Units /\ "T" \in Units /\ "R" \in Units
    BY DEF Units
  <2> QED BY <2>1
<1>3. Append(a.out, x) \in Seq(Units) /\ a.out \o y \in Seq(Units)
  <2> HIDE DEF x, y
  <2> QED BY <1>1, <1>2
<1>6. CASE a.lead
  <2>1. ReplaceStep(a, u) = [out |-> a.out \o y, lead |-> FALSE]
    BY <1>6, ReplaceStepCases
  <2> HIDE DEF y
  <2> QED BY <1>3, <2>1 DEF ReplaceStates
<1>7. CASE ~a.lead /\ u = "L"
  <2>1. ReplaceStep(a, u) = [out |-> a.out, lead |-> TRUE]
    BY <1>7, ReplaceStepCases
  <2> QED BY <1>1, <2>1 DEF ReplaceStates
<1>8. CASE ~a.lead /\ u # "L"
  <2>1. ReplaceStep(a, u) = [out |-> Append(a.out, x), lead |-> FALSE]
    BY <1>8, ReplaceStepCases
  <2> HIDE DEF x
  <2> QED BY <1>3, <2>1 DEF ReplaceStates
<1> QED BY <1>6, <1>7, <1>8

\* What is made of the units, unit by unit.
LEMMA ReplacingSteps ==
  /\ Replacing(<< >>) = ReplaceBase
  /\ \A s \in Seq(Units) : Replacing(s) \in ReplaceStates
  /\ \A s \in Seq(Units), u \in Units : Replacing(Append(s, u)) = ReplaceStep(Replacing(s), u)
<1> DEFINE G(s) == CHOOSE g : g = [t \in SUBSET DOMAIN s |->
                     IF t = {} THEN ReplaceBase ELSE ReplaceStep(g[t \ {Max(t)}], s[Max(t)])]
           F == [x \in ReplaceStates \X Units |-> ReplaceStep(x[1], x[2])]
<1>1. \A s : Replacing(s) = G(s)[DOMAIN s]
  BY DEF Replacing, FoldLeft, MapThenFoldSet
<1>2. \A a \in ReplaceStates, u \in Units : F[<<a, u>>] = ReplaceStep(a, u) /\ F[<<a, u>>] \in ReplaceStates
  BY ReplaceStepType
<1>3. ReplaceBase \in ReplaceStates
  BY DEF ReplaceStates, ReplaceBase
<1>4. ASSUME NEW s \in Seq(Units)
      PROVE  G(s) \in [SUBSET (1..Len(s)) -> ReplaceStates] /\ Iterates(G(s), F, ReplaceBase, s)
  <2> DEFINE g == G(s)
             B == ReplaceStates \cup {g[t] : t \in SUBSET (1..Len(s))}
             E == [x \in B \X Units |-> ReplaceStep(x[1], x[2])]
  <2>0. Len(s) \in Nat /\ DOMAIN s = 1..Len(s)
    OBVIOUS
  <2>1. \A a \in B, u \in Units : E[<<a, u>>] = ReplaceStep(a, u)
    OBVIOUS
  <2>2. \A a \in ReplaceStates, u \in Units : E[<<a, u>>] \in ReplaceStates
    BY <2>1, ReplaceStepType
  <2>3. ASSUME NEW t \in SUBSET (1..Len(s)), t # {}
        PROVE  s[Max(t)] \in Units /\ t \ {Max(t)} \in SUBSET (1..Len(s))
    <3>1. Max(t) \in 1..Len(s)
      BY <2>0, <2>3, LargestPlace
    <3>2. s[Max(t)] \in Units
      BY <3>1
    <3> QED BY <3>2
  <2>4. PICK h \in [SUBSET (1..Len(s)) -> ReplaceStates] : Iterates(h, E, ReplaceBase, s)
    <3> HIDE DEF E
    <3> QED BY <1>3, <2>2, IteratesExists
  <2>5. h = [t \in SUBSET DOMAIN s |->
               IF t = {} THEN ReplaceBase ELSE ReplaceStep(h[t \ {Max(t)}], s[Max(t)])]
    <3>1. ASSUME NEW t \in SUBSET (1..Len(s)), t # {}
          PROVE  E[<<h[t \ {Max(t)}], s[Max(t)]>>] = ReplaceStep(h[t \ {Max(t)}], s[Max(t)])
      <4>1. h[t \ {Max(t)}] \in B /\ s[Max(t)] \in Units
        BY <2>3, <3>1
      <4> HIDE DEF B, E
      <4> QED BY <2>1, <4>1
    <3> HIDE DEF E
    <3> QED BY <2>0, <2>4, <3>1 DEF Iterates
  <2>6. g = [t \in SUBSET DOMAIN s |->
               IF t = {} THEN ReplaceBase ELSE ReplaceStep(g[t \ {Max(t)}], s[Max(t)])]
    BY <2>5
  <2> HIDE DEF g
  <2>7. Iterates(g, E, ReplaceBase, s)
    <3>1. ASSUME NEW t \in SUBSET (1..Len(s)), t # {}
          PROVE  E[<<g[t \ {Max(t)}], s[Max(t)]>>] = ReplaceStep(g[t \ {Max(t)}], s[Max(t)])
      <4>1. g[t \ {Max(t)}] \in B /\ s[Max(t)] \in Units
        BY <2>3, <3>1
      <4> HIDE DEF B, E
      <4> QED BY <2>1, <4>1
    <3> HIDE DEF E
    <3> QED BY <2>0, <2>6, <3>1 DEF Iterates
  <2>8. g \in [SUBSET (1..Len(s)) -> ReplaceStates]
    <3> HIDE DEF E
    <3> QED BY <1>3, <2>2, <2>7, IteratesType
  <2>9. Iterates(g, F, ReplaceBase, s)
    <3>1. ASSUME NEW t \in SUBSET (1..Len(s)), t # {}
          PROVE  F[<<g[t \ {Max(t)}], s[Max(t)]>>] = ReplaceStep(g[t \ {Max(t)}], s[Max(t)])
      <4>1. g[t \ {Max(t)}] \in ReplaceStates /\ s[Max(t)] \in Units
        BY <2>3, <2>8, <3>1
      <4> HIDE DEF F
      <4> QED BY <1>2, <4>1
    <3> HIDE DEF F
    <3> QED BY <2>0, <2>6, <3>1 DEF Iterates
  <2> QED BY <2>8, <2>9 DEF g
<1> HIDE DEF F, G
<1>5. ASSUME NEW s \in Seq(Units) PROVE Replacing(s) = G(s)[1..Len(s)]
  BY <1>1
<1>6. Replacing(<< >>) = ReplaceBase
  <2>1. << >> \in Seq(Units) /\ Len(<< >>) = 0 /\ 1..0 = {}
    OBVIOUS
  <2>2. G(<< >>)[1..Len(<< >>)] = ReplaceBase
    BY <1>4, <2>1 DEF Iterates
  <2> QED BY <1>5, <2>1, <2>2
<1>7. ASSUME NEW s \in Seq(Units) PROVE Replacing(s) \in ReplaceStates
  BY <1>4, <1>5
<1>8. ASSUME NEW s \in Seq(Units), NEW u \in Units PROVE Replacing(Append(s, u)) = ReplaceStep(Replacing(s), u)
  <2>1. Append(s, u) \in Seq(Units)
    OBVIOUS
  <2>2. G(Append(s, u))[1..Len(Append(s, u))] = F[<<G(s)[1..Len(s)], u>>]
    <3>1. Iterates(G(s), F, ReplaceBase, s) /\ Iterates(G(Append(s, u)), F, ReplaceBase, Append(s, u))
      BY <1>4, <2>1
    <3> QED BY <3>1, IteratesAppend
  <2>3. Replacing(Append(s, u)) = F[<<Replacing(s), u>>]
    BY <1>5, <2>1, <2>2
  <2> QED BY <1>2, <1>7, <2>3
<1> QED BY <1>6, <1>7, <1>8
----------------------------------------------------------------------------
(***************************************************************************)
(* utf16_find_invalid.                                                     *)
(***************************************************************************)
SearchStates == [lead : BOOLEAN, found : BOOLEAN, n : Nat, trail : BOOLEAN]
SearchBase == [lead |-> FALSE, found |-> FALSE, n |-> 0, trail |-> FALSE]
SearchStep(a, u) ==
  CASE a.found -> a
    [] ~a.found /\ a.lead  -> [a EXCEPT !.lead = FALSE, !.found = u # "T", !.n = @ + 1]
    [] ~a.found /\ ~a.lead -> [lead |-> u = "L", found |-> u = "T", n |-> a.n + 1, trail |-> u = "T"]
Searching(s) == FoldLeft(SearchStep, SearchBase, s)

LEMMA SearchesUnits ==
  ASSUME NEW s
  PROVE  FoundNoInvalid(s) <=>
           LET end == Searching(s) IN ~end.lead /\ (end.found => end.trail /\ end.n = Len(s))
BY DEF FoundNoInvalid, Searching, SearchStep, SearchBase

LEMMA SearchStepCases ==
  ASSUME NEW a \in SearchStates, NEW u \in Units
  PROVE  /\ a.found => SearchStep(a, u) = a
         /\ ~a.found /\ a.lead => SearchStep(a, u) =
               [lead |-> FALSE, found |-> u # "T", n |-> a.n + 1, trail |-> a.trail]
         /\ ~a.found /\ ~a.lead => SearchStep(a, u) =
               [lead |-> u = "L", found |-> u = "T", n |-> a.n + 1, trail |-> u = "T"]
<1>1. a = [lead |-> a.lead, found |-> a.found, n |-> a.n, trail |-> a.trail]
  BY DEF SearchStates
<1>2. CASE a.found
  BY <1>2 DEF SearchStep
<1>3. CASE ~a.found /\ a.lead
  <2>1. SearchStep(a, u) = [a EXCEPT !.lead = FALSE, !.found = u # "T", !.n = @ + 1]
    BY <1>3 DEF SearchStep
  <2> QED BY <1>1, <1>3, <2>1
<1>4. CASE ~a.found /\ ~a.lead
  BY <1>4 DEF SearchStep
<1> QED BY <1>2, <1>3, <1>4

LEMMA SearchStepType ==
  ASSUME NEW a \in SearchStates, NEW u \in Units
  PROVE  SearchStep(a, u) \in SearchStates
<1>1. /\ a.lead \in BOOLEAN /\ a.found \in BOOLEAN /\ a.trail \in BOOLEAN
      /\ a.n \in Nat /\ a.n + 1 \in Nat
  BY DEF SearchStates
<1>2. CASE a.found
  BY <1>2, SearchStepCases
<1>3. CASE ~a.found /\ a.lead
  <2>1. SearchStep(a, u) = [lead |-> FALSE, found |-> u # "T", n |-> a.n + 1, trail |-> a.trail]
    BY <1>3, SearchStepCases
  <2>2. (u # "T") \in BOOLEAN
    OBVIOUS
  <2> QED BY <1>1, <2>1, <2>2 DEF SearchStates
<1>4. CASE ~a.found /\ ~a.lead
  <2>1. SearchStep(a, u) =
          [lead |-> u = "L", found |-> u = "T", n |-> a.n + 1, trail |-> u = "T"]
    BY <1>4, SearchStepCases
  <2>2. (u = "T") \in BOOLEAN /\ (u = "L") \in BOOLEAN
    OBVIOUS
  <2> QED BY <1>1, <2>1, <2>2 DEF SearchStates
<1> QED BY <1>2, <1>3, <1>4

\* How far the search has come, unit by unit.
LEMMA SearchingSteps ==
  /\ Searching(<< >>) = SearchBase
  /\ \A s \in Seq(Units) : Searching(s) \in SearchStates
  /\ \A s \in Seq(Units), u \in Units : Searching(Append(s, u)) = SearchStep(Searching(s), u)
<1> DEFINE G(s) == CHOOSE g : g = [t \in SUBSET DOMAIN s |->
                     IF t = {} THEN SearchBase ELSE SearchStep(g[t \ {Max(t)}], s[Max(t)])]
           F == [x \in SearchStates \X Units |-> SearchStep(x[1], x[2])]
<1>1. \A s : Searching(s) = G(s)[DOMAIN s]
  BY DEF Searching, FoldLeft, MapThenFoldSet
<1>2. \A a \in SearchStates, u \in Units : F[<<a, u>>] = SearchStep(a, u) /\ F[<<a, u>>] \in SearchStates
  BY SearchStepType
<1>3. SearchBase \in SearchStates
  BY DEF SearchStates, SearchBase
<1>4. ASSUME NEW s \in Seq(Units)
      PROVE  G(s) \in [SUBSET (1..Len(s)) -> SearchStates] /\ Iterates(G(s), F, SearchBase, s)
  <2> DEFINE g == G(s)
             B == SearchStates \cup {g[t] : t \in SUBSET (1..Len(s))}
             E == [x \in B \X Units |-> SearchStep(x[1], x[2])]
  <2>0. Len(s) \in Nat /\ DOMAIN s = 1..Len(s)
    OBVIOUS
  <2>1. \A a \in B, u \in Units : E[<<a, u>>] = SearchStep(a, u)
    OBVIOUS
  <2>2. \A a \in SearchStates, u \in Units : E[<<a, u>>] \in SearchStates
    BY <2>1, SearchStepType
  <2>3. ASSUME NEW t \in SUBSET (1..Len(s)), t # {}
        PROVE  s[Max(t)] \in Units /\ t \ {Max(t)} \in SUBSET (1..Len(s))
    <3>1. Max(t) \in 1..Len(s)
      BY <2>0, <2>3, LargestPlace
    <3>2. s[Max(t)] \in Units
      BY <3>1
    <3> QED BY <3>2
  <2>4. PICK h \in [SUBSET (1..Len(s)) -> SearchStates] : Iterates(h, E, SearchBase, s)
    <3> HIDE DEF E
    <3> QED BY <1>3, <2>2, IteratesExists
  <2>5. h = [t \in SUBSET DOMAIN s |->
               IF t = {} THEN SearchBase ELSE SearchStep(h[t \ {Max(t)}], s[Max(t)])]
    <3>1. ASSUME NEW t \in SUBSET (1..Len(s)), t # {}
          PROVE  E[<<h[t \ {Max(t)}], s[Max(t)]>>] = SearchStep(h[t \ {Max(t)}], s[Max(t)])
      <4>1. h[t \ {Max(t)}] \in B /\ s[Max(t)] \in Units
        BY <2>3, <3>1
      <4> HIDE DEF B, E
      <4> QED BY <2>1, <4>1
    <3> HIDE DEF E
    <3> QED BY <2>0, <2>4, <3>1 DEF Iterates
  <2>6. g = [t \in SUBSET DOMAIN s |->
               IF t = {} THEN SearchBase ELSE SearchStep(g[t \ {Max(t)}], s[Max(t)])]
    BY <2>5
  <2> HIDE DEF g
  <2>7. Iterates(g, E, SearchBase, s)
    <3>1. ASSUME NEW t \in SUBSET (1..Len(s)), t # {}
          PROVE  E[<<g[t \ {Max(t)}], s[Max(t)]>>] = SearchStep(g[t \ {Max(t)}], s[Max(t)])
      <4>1. g[t \ {Max(t)}] \in B /\ s[Max(t)] \in Units
        BY <2>3, <3>1
      <4> HIDE DEF B, E
      <4> QED BY <2>1, <4>1
    <3> HIDE DEF E
    <3> QED BY <2>0, <2>6, <3>1 DEF Iterates
  <2>8. g \in [SUBSET (1..Len(s)) -> SearchStates]
    <3> HIDE DEF E
    <3> QED BY <1>3, <2>2, <2>7, IteratesType
  <2>9. Iterates(g, F, SearchBase, s)
    <3>1. ASSUME NEW t \in SUBSET (1..Len(s)), t # {}
          PROVE  F[<<g[t \ {Max(t)}], s[Max(t)]>>] = SearchStep(g[t \ {Max(t)}], s[Max(t)])
      <4>1. g[t \ {Max(t)}] \in SearchStates /\ s[Max(t)] \in Units
        BY <2>3, <2>8, <3>1
      <4> HIDE DEF F
      <4> QED BY <1>2, <4>1
    <3> HIDE DEF F
    <3> QED BY <2>0, <2>6, <3>1 DEF Iterates
  <2> QED BY <2>8, <2>9 DEF g
<1> HIDE DEF F, G
<1>5. ASSUME NEW s \in Seq(Units) PROVE Searching(s) = G(s)[1..Len(s)]
  BY <1>1
<1>6. Searching(<< >>) = SearchBase
  <2>1. << >> \in Seq(Units) /\ Len(<< >>) = 0 /\ 1..0 = {}
    OBVIOUS
  <2>2. G(<< >>)[1..Len(<< >>)] = SearchBase
    BY <1>4, <2>1 DEF Iterates
  <2> QED BY <1>5, <2>1, <2>2
<1>7. ASSUME NEW s \in Seq(Units) PROVE Searching(s) \in SearchStates
  BY <1>4, <1>5
<1>8. ASSUME NEW s \in Seq(Units), NEW u \in Units PROVE Searching(Append(s, u)) = SearchStep(Searching(s), u)
  <2>1. Append(s, u) \in Seq(Units)
    OBVIOUS
  <2>2. G(Append(s, u))[1..Len(Append(s, u))] = F[<<G(s)[1..Len(s)], u>>]
    <3>1. Iterates(G(s), F, SearchBase, s) /\ Iterates(G(Append(s, u)), F, SearchBase, Append(s, u))
      BY <1>4, <2>1
    <3> QED BY <3>1, IteratesAppend
  <2>3. Searching(Append(s, u)) = F[<<Searching(s), u>>]
    BY <1>5, <2>1, <2>2
  <2> QED BY <1>2, <1>7, <2>3
<1> QED BY <1>6, <1>7, <1>8
----------------------------------------------------------------------------
(***************************************************************************)
(* What the other components use: a text that is not empty has a byte      *)
(* (DiagRecord asserts it of its message), and no more units are made of   *)
(* bytes than there are bytes.                                             *)
(***************************************************************************)
EncodedOK(s) == utf16_to_utf8_lenient(s) \in Seq(Bytes) \ {<< >>}
DecodedOK(b) == utf8_to_utf16_lenient(b) \in Seq(Units) /\ Len(utf8_to_utf16_lenient(b)) <= Len(b)

\* A step from a to d by byte x adds the units e: one at most, but for the last of four
\* bytes, and for the first one of a character where another was cut off.
Adds(a, x, d, e) ==
  LET done == x[2] = Width(x[1])
  IN  /\ d.out = a.out \o e /\ Len(d.out) = Len(a.out) + Len(e)
      /\ x[2] = 1 =>
           /\ Len(e) = IF a.have > 0 THEN (IF done THEN 2 ELSE 1) ELSE (IF done THEN 1 ELSE 0)
           /\ d.have = IF done THEN 0 ELSE 1
      /\ x[2] > 1 /\ a.have > 0 =>
           /\ Len(e) = IF done THEN (IF x[2] = 4 THEN 2 ELSE 1) ELSE 0
           /\ d.have = IF done THEN 0 ELSE a.have + 1
      /\ x[2] > 1 /\ a.have = 0 => Len(e) = 1 /\ d.have = 0

LEMMA DecodeStepAdds ==
  ASSUME NEW a \in DecodeStates, NEW x \in Bytes
  PROVE  \E e \in Seq(Units) : Adds(a, x, DecodeStep(a, x), e)
<1> DEFINE d == DecodeStep(a, x)
           o == a.out
           h == a.have
           units == UnitsOf(x[1])
           done == x[2] = Width(x[1])
<1>1. o \in Seq(Units) /\ h \in Nat /\ a = [out |-> o, have |-> h]
  BY DEF DecodeStates
<1>2. /\ x[2] \in 1..4 /\ units \in Seq(Units) /\ Width(x[1]) \in 1..4
      /\ Len(units) = IF Width(x[1]) = 4 THEN 2 ELSE 1
  <2>1. x[1] \in Characters /\ x[2] \in 1..4
    BY DEF Bytes, Characters
  <2> QED BY <2>1, CharacterUnits
<1>3. <<"R">> \in Seq(Units) /\ Len(<<"R">>) = 1 /\ << >> \in Seq(Units) /\ Len(<< >>) = 0
  BY DEF Units
<1>4. ASSUME NEW e \in Seq(Units) PROVE Len(o \o e) = Len(o) + Len(e)
  BY <1>1, ConcatProperties
<1>5. CASE x[2] = 1
  <2> DEFINE y == IF h > 0 THEN <<"R">> ELSE << >>
             z == IF done THEN units ELSE << >>
             e == y \o z
  <2>1. d = [out |-> o \o y \o z, have |-> IF done THEN 0 ELSE 1]
    BY <1>2, <1>5 DEF DecodeStep
  <2>2. y \in Seq(Units) /\ Len(y) = IF h > 0 THEN 1 ELSE 0
    BY <1>1, <1>3
  <2>3. z \in Seq(Units) /\ Len(z) = IF done THEN 1 ELSE 0
    <3>1. CASE done
      <4>1. Len(units) = 1
        BY <1>2, <1>5, <3>1
      <4> HIDE DEF units, done
      <4> QED BY <1>2, <3>1, <4>1
    <3>2. CASE ~done
      <4> HIDE DEF units, done
      <4> QED BY <1>3, <3>2
    <3> QED BY <3>1, <3>2
  <2> HIDE DEF y, z, d, o, h, units, done
  <2>4. e \in Seq(Units) /\ Len(e) = Len(y) + Len(z) /\ o \o y \o z = o \o e
    <3>1. e \in Seq(Units) /\ Len(e) = Len(y) + Len(z)
      BY <2>2, <2>3, ConcatProperties
    <3>2. (o \o y) \o z = o \o (y \o z)
      BY <1>1, <2>2, <2>3, ConcatAssociative
    <3> QED BY <3>1, <3>2
  <2>5. d.out = o \o e /\ d.have = IF done THEN 0 ELSE 1
    BY <2>1, <2>4
  <2> HIDE DEF e
  <2>6. Len(d.out) = Len(o) + Len(e) /\ Len(e) = IF h > 0 THEN (IF done THEN 2 ELSE 1) ELSE (IF done THEN 1 ELSE 0)
    BY <1>4, <2>2, <2>3, <2>4, <2>5
  <2>7. Adds(a, x, d, e)
    BY <1>5, <2>5, <2>6 DEF Adds, o, h, done
  <2> QED BY <2>4, <2>7 DEF d
<1>6. CASE x[2] > 1 /\ h > 0
  <2> DEFINE e == IF done THEN units ELSE << >>
  <2>1. d = [out |-> IF done THEN o \o units ELSE o, have |-> IF done THEN 0 ELSE h + 1]
    BY <1>2, <1>6 DEF DecodeStep
  <2>2. e \in Seq(Units) /\ Len(e) = IF done THEN (IF x[2] = 4 THEN 2 ELSE 1) ELSE 0
    <3>1. CASE done
      <4>1. Len(units) = IF x[2] = 4 THEN 2 ELSE 1
        BY <1>2, <3>1
      <4> HIDE DEF units, done
      <4> QED BY <1>2, <3>1, <4>1
    <3>2. CASE ~done
      <4> HIDE DEF units, done
      <4> QED BY <1>3, <3>2
    <3> QED BY <3>1, <3>2
  <2> HIDE DEF d, o, h, units, done
  <2>3. o \o << >> = o
    BY <1>1, ConcatEmptySeq
  <2>4. d.out = o \o e /\ d.have = IF done THEN 0 ELSE h + 1
    BY <2>1, <2>3
  <2> HIDE DEF e
  <2>5. Len(d.out) = Len(o) + Len(e)
    BY <1>4, <2>2, <2>4
  <2>6. Adds(a, x, d, e)
    BY <1>6, <2>2, <2>4, <2>5 DEF Adds, o, h, done
  <2> QED BY <2>2, <2>6 DEF d
<1>7. CASE x[2] > 1 /\ h = 0
  <2>1. d = [a EXCEPT !.out = Append(@, "R")]
    BY <1>2, <1>7 DEF DecodeStep
  <2>2. d.out = Append(o, "R") /\ d.have = 0
    BY <1>1, <1>7, <2>1
  <2>3. Append(o, "R") = o \o <<"R">>
    BY <1>1, AppendIsConcat DEF Units
  <2> HIDE DEF d, o, h, units, done
  <2>4. Len(d.out) = Len(o) + Len(<<"R">>)
    BY <1>3, <1>4, <2>2, <2>3
  <2>5. Adds(a, x, d, <<"R">>)
    BY <1>3, <1>7, <2>2, <2>3, <2>4 DEF Adds, o, h, done
  <2> QED BY <1>3, <2>5 DEF d
<1> QED BY <1>1, <1>2, <1>5, <1>6, <1>7

\* The units decoded, and one for a character that is cut off, are no more than the bytes.
NoLonger(c) ==
  LET a == Decoding(c) IN Len(a.out) <= Len(c) /\ (a.have > 0 => Len(a.out) < Len(c))

LEMMA DecodedFits ==
  ASSUME NEW b \in Seq(Bytes)
  PROVE  DecodedOK(b)
<1> DEFINE T == {c \in Seq(Bytes) : NoLonger(c)}
<1>1. << >> \in T
  <2>1. Decoding(<< >>) = [out |-> << >>, have |-> 0]
    BY DecodingSteps DEF DecodeBase
  <2>2. Len(Decoding(<< >>).out) = 0 /\ Decoding(<< >>).have = 0
    BY <2>1
  <2>3. << >> \in Seq(Bytes) /\ Len(<< >>) = 0
    OBVIOUS
  <2>4. NoLonger(<< >>)
    BY <2>2, <2>3 DEF NoLonger
  <2> QED BY <2>3, <2>4
<1>2. ASSUME NEW c \in Seq(Bytes), NEW x \in Bytes, c \in T PROVE Append(c, x) \in T
  <2> DEFINE a == Decoding(c)
             d == Decoding(Append(c, x))
  <2>1. a \in DecodeStates /\ d = DecodeStep(a, x) /\ d \in DecodeStates
    BY DecodingSteps, AppendProperties
  <2>2. a.out \in Seq(Units) /\ a.have \in Nat /\ x[2] \in 1..4
    BY <2>1 DEF DecodeStates, Bytes
  <2>3. Len(a.out) <= Len(c) /\ (a.have > 0 => Len(a.out) < Len(c))
    BY <1>2 DEF NoLonger
  <2>4. Append(c, x) \in Seq(Bytes) /\ Len(Append(c, x)) = Len(c) + 1 /\ Len(c) \in Nat
    OBVIOUS
  <2>5. PICK e \in Seq(Units) : Adds(a, x, d, e)
    BY <2>1, DecodeStepAdds
  <2>6. Len(e) \in Nat /\ Len(a.out) \in Nat
    BY <2>2
  <2> HIDE DEF a, d
  <2>7. Len(d.out) <= Len(c) + 1 /\ (d.have > 0 => Len(d.out) < Len(c) + 1)
    <3> DEFINE done == x[2] = Width(x[1])
               m == Len(a.out)
               k == Len(e)
               n == Len(c)
               h == a.have
    <3>1. m \in Nat /\ k \in Nat /\ n \in Nat /\ h \in Nat /\ m <= n /\ (h > 0 => m < n)
      BY <2>2, <2>3, <2>4, <2>6
    <3>2. Len(d.out) = m + k
      BY <2>5 DEF Adds
    <3> SUFFICES m + k <= n + 1 /\ (d.have > 0 => m + k < n + 1)
      BY <3>2
    <3>3. CASE x[2] = 1
      <4>1. /\ d.have = IF done THEN 0 ELSE 1
            /\ k = IF h > 0 THEN (IF done THEN 2 ELSE 1) ELSE (IF done THEN 1 ELSE 0)
        BY <2>5, <3>3 DEF Adds
      <4>2. \/ d.have = 0 /\ (k = 1 \/ (h > 0 /\ k = 2))
            \/ d.have = 1 /\ (k = 0 \/ (h > 0 /\ k = 1))
        BY <4>1
      <4> HIDE DEF m, k, n, h
      <4> QED BY <3>1, <4>2
    <3>4. CASE x[2] > 1 /\ h > 0
      <4>1. d.have = (IF done THEN 0 ELSE h + 1) /\ k = IF done THEN (IF x[2] = 4 THEN 2 ELSE 1) ELSE 0
        BY <2>5, <3>4 DEF Adds
      <4>2. (d.have = 0 /\ (k = 1 \/ k = 2)) \/ k = 0
        BY <4>1
      <4> HIDE DEF m, k, n, h
      <4> QED BY <3>1, <3>4, <4>2
    <3>5. CASE x[2] > 1 /\ h = 0
      <4>1. d.have = 0 /\ k = 1
        BY <2>5, <3>5 DEF Adds
      <4> HIDE DEF m, k, n, h
      <4> QED BY <3>1, <4>1
    <3> QED BY <2>2, <3>3, <3>4, <3>5
  <2>8. NoLonger(Append(c, x))
    BY <2>4, <2>7 DEF NoLonger, d
  <2> QED BY <2>4, <2>8
<1>3. NoLonger(b)
  <2>1. Seq(Bytes) \subseteq T
    <3> HIDE DEF T
    <3> QED BY <1>1, <1>2, SequencesReached
  <2> QED BY <2>1
<1> DEFINE o == Decoding(b).out
<1>4. o \in Seq(Units) /\ Decoding(b).have \in Nat /\ "R" \in Units /\ Len(b) \in Nat
  BY DecodingSteps DEF DecodeStates, Units
<1>5. Append(o, "R") \in Seq(Units) /\ Len(Append(o, "R")) = Len(o) + 1 /\ Len(o) \in Nat
  BY <1>4, AppendProperties
<1>6. Len(o) <= Len(b) /\ (Decoding(b).have > 0 => Len(o) < Len(b))
  BY <1>3 DEF NoLonger
<1>7. utf8_to_utf16_lenient(b) = IF Decoding(b).have > 0 THEN Append(o, "R") ELSE o
  BY DecodesBytes
<1> HIDE DEF o
<1> QED BY <1>4, <1>5, <1>6, <1>7 DEF DecodedOK

\* Only the empty text and a single lead are encoded by no byte,
LEMMA EncodingEmpty ==
  ASSUME NEW s \in Seq(Units), Encoding(s).out = << >>
  PROVE  s = << >> \/ (Len(s) = 1 /\ s[1] = "L")
<1> DEFINE P(r) == Encoding(r).out = << >> =>
                     \/ r = << >> /\ ~Encoding(r).lead
                     \/ Len(r) = 1 /\ r[1] = "L" /\ Encoding(r).lead
           T == {r \in Seq(Units) : P(r)}
<1>1. << >> \in T
  <2>1. Encoding(<< >>) = [out |-> << >>, lead |-> FALSE]
    BY EncodingSteps DEF EncodeBase
  <2> QED BY <2>1
<1>2. ASSUME NEW r \in Seq(Units), NEW u \in Units, r \in T PROVE Append(r, u) \in T
  <2> DEFINE a == Encoding(r)
             w == Append(r, u)
  <2>1. a \in EncodeStates /\ Encoding(w) = EncodeStep(a, u)
    BY EncodingSteps
  <2>2. a.out \in Seq(Bytes) /\ w \in Seq(Units)
    BY <2>1 DEF EncodeStates
  <2>3. ASSUME NEW ch \in Characters PROVE a.out \o Encoded(ch) # << >>
    <3>1. Encoded(ch) \in Seq(Bytes) /\ Len(Encoded(ch)) \in 1..4
      BY EncodedBytes, CharacterUnits
    <3>2. Encoded(ch) # << >>
      <4>1. \A k \in 1..4 : k # 0
        OBVIOUS
      <4>2. Len(<< >>) = 0
        OBVIOUS
      <4> QED BY <3>1, <4>1, <4>2
    <3> QED BY <2>2, <3>1, <3>2, ConcatEqualIffEmpty
  <2>4. CASE a.lead
    <3>1. (IF u = "T" THEN "4" ELSE "G") \in Characters
      BY DEF Characters
    <3> DEFINE ch == IF u = "T" THEN "4" ELSE "G"
    <3>0. Encoding(w) = [out |-> a.out \o Encoded(ch), lead |-> FALSE]
      BY <2>1, <2>4, EncodeStepCases
    <3> HIDE DEF ch
    <3>2. Encoding(w).out = a.out \o Encoded(ch)
      BY <3>0
    <3>3. Encoding(w).out # << >>
      BY <2>3, <3>1, <3>2 DEF ch
    <3> QED BY <2>2, <3>3
  <2>5. CASE ~a.lead /\ u = "L"
    <3>1. Encoding(w) = [out |-> a.out, lead |-> TRUE]
      BY <2>1, <2>5, EncodeStepCases
    <3>2. ASSUME Encoding(w).out = << >> PROVE Len(w) = 1 /\ w[1] = "L" /\ Encoding(w).lead
      <4>1. r = << >>
        BY <1>2, <2>5, <3>1, <3>2
      <4>2. Len(w) = 1 /\ w[1] = "L"
        BY <2>5, <4>1
      <4> QED BY <3>1, <4>2
    <3> QED BY <2>2, <3>2
  <2>6. CASE ~a.lead /\ u # "L"
    <3>1. u \in Characters
      BY <2>6 DEF Characters, Units
    <3>0. Encoding(w) = [out |-> a.out \o Encoded(u), lead |-> FALSE]
      BY <2>1, <2>6, EncodeStepCases
    <3>2. Encoding(w).out = a.out \o Encoded(u)
      BY <3>0
    <3>3. Encoding(w).out # << >>
      BY <2>3, <3>1, <3>2
    <3> QED BY <2>2, <3>3
  <2> QED BY <2>4, <2>5, <2>6
<1>3. Seq(Units) \subseteq T
  <2> HIDE DEF T
  <2> QED BY <1>1, <1>2, SequencesReached
<1> QED BY <1>3

\* and neither is what utf16_replace_invalid makes of a text.
LEMMA ReplacedNotEmpty ==
  ASSUME NEW s \in Seq(Units), s # << >>
  PROVE  LET w == utf16_replace_invalid(s)
         IN  w \in Seq(Units) /\ w # << >> /\ ~(Len(w) = 1 /\ w[1] = "L")
<1> DEFINE P(r) == /\ r # << >> /\ Replacing(r).out = << >> => Replacing(r).lead
                   /\ ~(Len(Replacing(r).out) = 1 /\ Replacing(r).out[1] = "L")
           T == {r \in Seq(Units) : P(r)}
<1>1. << >> \in T
  <2>1. Replacing(<< >>) = [out |-> << >>, lead |-> FALSE]
    BY ReplacingSteps DEF ReplaceBase
  <2>2. Len(Replacing(<< >>).out) = 0
    BY <2>1
  <2> QED BY <2>2
<1>2. ASSUME NEW r \in Seq(Units), NEW u \in Units, r \in T PROVE Append(r, u) \in T
  <2> DEFINE a == Replacing(r)
             w == Append(r, u)
  <2>1. a \in ReplaceStates /\ Replacing(w) = ReplaceStep(a, u)
    BY ReplacingSteps
  <2>2. a.out \in Seq(Units) /\ w \in Seq(Units) /\ Len(a.out) \in Nat
    BY <2>1 DEF ReplaceStates
  <2>3. CASE a.lead
    <3> DEFINE y == IF u = "T" THEN <<"L", "T">> ELSE <<"R", u>>
    <3>1. Replacing(w).out = a.out \o y
      BY <2>1, <2>3, ReplaceStepCases
    <3>2. y \in Seq(Units) /\ Len(y) = 2
      <4>1. "L" \in Units /\ "T" \in Units /\ "R" \in Units
        BY DEF Units
      <4> QED BY <4>1
    <3> HIDE DEF y
    <3>5. Len(a.out \o y) = Len(a.out) + Len(y)
      BY <2>2, <3>2, ConcatProperties
    <3>3. Len(Replacing(w).out) = Len(a.out) + 2
      BY <3>1, <3>2, <3>5
    <3>4. Len(Replacing(w).out) # 1 /\ Replacing(w).out # << >>
      BY <2>2, <3>3
    <3> QED BY <2>2, <3>4
  <2>4. CASE ~a.lead /\ u = "L"
    <3>1. Replacing(w) = [out |-> a.out, lead |-> TRUE]
      BY <2>1, <2>4, ReplaceStepCases
    <3>2. Replacing(w).out = a.out /\ Replacing(w).lead
      BY <3>1
    <3> QED BY <1>2, <2>2, <3>2
  <2>5. CASE ~a.lead /\ u # "L"
    <3> DEFINE x == IF u = "T" THEN "R" ELSE u
    <3>0. Replacing(w) = [out |-> Append(a.out, x), lead |-> FALSE]
      BY <2>1, <2>5, ReplaceStepCases
    <3>1. Replacing(w).out = Append(a.out, x)
      BY <3>0
    <3>2. x \in Units /\ x # "L"
      BY <2>5 DEF Units
    <3> HIDE DEF x
    <3>3. /\ Replacing(w).out # << >> /\ Len(Replacing(w).out) = Len(a.out) + 1
          /\ Replacing(w).out[Len(a.out) + 1] = x
      BY <2>2, <3>1, <3>2, AppendProperties
    <3>4. ~(Len(Replacing(w).out) = 1 /\ Replacing(w).out[1] = "L")
      BY <2>2, <3>2, <3>3
    <3> QED BY <2>2, <3>3, <3>4
  <2> QED BY <2>3, <2>4, <2>5
<1>3. P(s)
  <2>1. Seq(Units) \subseteq T
    <3> HIDE DEF T
    <3> QED BY <1>1, <1>2, SequencesReached
  <2> QED BY <2>1
<1> DEFINE o == Replacing(s).out
<1>4. o \in Seq(Units) /\ "R" \in Units /\ Len(o) \in Nat
  BY ReplacingSteps DEF ReplaceStates, Units
<1>5. CASE Replacing(s).lead
  <2>1. utf16_replace_invalid(s) = Append(o, "R")
    BY <1>5, ReplacesUnits
  <2>2. /\ Append(o, "R") \in Seq(Units) /\ Append(o, "R") # << >>
        /\ Len(Append(o, "R")) = Len(o) + 1 /\ Append(o, "R")[Len(o) + 1] = "R"
    BY <1>4, AppendProperties
  <2> HIDE DEF o
  <2> QED BY <1>4, <2>1, <2>2
<1>6. CASE ~Replacing(s).lead
  <2>1. utf16_replace_invalid(s) = o
    BY <1>6, ReplacesUnits
  <2> QED BY <1>3, <1>4, <1>6, <2>1
<1> QED BY <1>5, <1>6

LEMMA EncodedFits ==
  ASSUME NEW s \in Seq(Units) \ {<< >>}
  PROVE  EncodedOK(s)
<1> DEFINE w == IF FoundNoInvalid(s) THEN s ELSE utf16_replace_invalid(s)
<1>1. w \in Seq(Units) /\ w # << >> /\ ~(Len(w) = 1 /\ w[1] = "L")
  <2>1. CASE ~FoundNoInvalid(s)
    BY <2>1, ReplacedNotEmpty
  <2>2. CASE FoundNoInvalid(s)
    <3> SUFFICES ASSUME Len(s) = 1, s[1] = "L" PROVE FALSE
      BY <2>2
    <3>1. s = Append(<< >>, "L") /\ << >> \in Seq(Units) /\ "L" \in Units
      <4>1. << >> \in Seq(Units) /\ "L" \in Units
        BY DEF Units
      <4>2. PICK r \in Seq(Units), u \in Units : s = Append(r, u)
        BY SequenceEmptyOrAppend
      <4>3. Len(r) + 1 = 1 /\ s[Len(r) + 1] = u /\ Len(r) \in Nat
        BY <4>2, AppendProperties
      <4>4. r = << >> /\ u = "L"
        BY <4>3
      <4> QED BY <4>1, <4>2, <4>4
    <3>2. Searching(s) = SearchStep(Searching(<< >>), "L") /\ Searching(<< >>) = SearchBase
      BY <3>1, SearchingSteps
    <3>3. SearchBase \in SearchStates /\ ~SearchBase.found /\ ~SearchBase.lead
      BY DEF SearchBase, SearchStates
    <3>4. SearchStep(SearchBase, "L") =
            [lead |-> "L" = "L", found |-> "L" = "T", n |-> SearchBase.n + 1, trail |-> "L" = "T"]
      BY <3>1, <3>3, SearchStepCases
    <3>5. Searching(s).lead = ("L" = "L")
      BY <3>2, <3>4
    <3> QED BY <2>2, <3>5, SearchesUnits
  <2> QED BY <2>1, <2>2
<1>2. utf16_to_utf8_lenient(s) = Encoding(w).out
  BY EncodesUnits DEF utf16_to_utf8_lenient
<1> HIDE DEF w
<1>3. Encoding(w).out \in Seq(Bytes)
  BY <1>1, EncodingSteps DEF EncodeStates
<1>4. Encoding(w).out # << >>
  BY <1>1, EncodingEmpty
<1> QED BY <1>2, <1>3, <1>4 DEF EncodedOK
----------------------------------------------------------------------------
(***************************************************************************)
(* There and back: the units of a text, those without a partner replaced.  *)
(* utf16_replace_invalid copies the unit after a lead as it is, another    *)
(* lead too, so this needs NoTwoLeads.                                     *)
(***************************************************************************)
\* Every lead is followed by its trail, or is the last unit.
LeadsPaired(s) == \A i \in 1..(Len(s) - 1) : s[i] = "L" => s[i + 1] = "T"

EndsInLead(s) == s # << >> /\ s[Len(s)] = "L"

LEMMA AppendUnit ==
  ASSUME NEW s \in Seq(Units), NEW u \in Units
  PROVE  /\ Append(s, u) \in Seq(Units) /\ Append(s, u) # << >>
         /\ Len(s) \in Nat /\ Len(Append(s, u)) = Len(s) + 1
         /\ Append(s, u)[Len(s) + 1] = u /\ \A i \in 1..Len(s) : Append(s, u)[i] = s[i]
         /\ EndsInLead(Append(s, u)) <=> u = "L"
<1>1. /\ Append(s, u) \in Seq(Units) /\ Append(s, u) # << >>
      /\ Len(s) \in Nat /\ Len(Append(s, u)) = Len(s) + 1
      /\ Append(s, u)[Len(s) + 1] = u /\ \A i \in 1..Len(s) : Append(s, u)[i] = s[i]
  BY AppendProperties
<1> QED BY <1>1 DEF EndsInLead

LEMMA AppendPairs ==
  ASSUME NEW s \in Seq(Units), NEW u \in Units
  PROVE  /\ NoTwoLeads(Append(s, u)) <=> NoTwoLeads(s) /\ (EndsInLead(s) => u # "L")
         /\ LeadsPaired(Append(s, u)) <=> LeadsPaired(s) /\ (EndsInLead(s) => u = "T")
<1> DEFINE w == Append(s, u)
           n == Len(s)
<1>1. n \in Nat /\ Len(w) = n + 1 /\ w[n + 1] = u /\ \A i \in 1..n : w[i] = s[i]
  BY AppendUnit
<1>2. EndsInLead(s) <=> n \in 1..n /\ s[n] = "L"
  <2>1. s # << >> <=> n \in 1..n
    OBVIOUS
  <2> QED BY <2>1 DEF EndsInLead
<1>3. ASSUME NEW i \in 1..(n - 1) PROVE i \in 1..n /\ i + 1 \in 1..n /\ w[i] = s[i] /\ w[i + 1] = s[i + 1]
  <2>1. i \in 1..n /\ i + 1 \in 1..n
    BY <1>1
  <2> QED BY <1>1, <2>1
<1>4. 1..(Len(w) - 1) = 1..n
  BY <1>1
<1>5. \A i \in 1..n : i \in 1..(n - 1) \/ (i = n /\ n \in 1..n)
  BY <1>1
<1>6. n \in 1..n => w[n] = s[n] /\ w[n + 1] = u
  BY <1>1
<1>7. NoTwoLeads(w) <=> NoTwoLeads(s) /\ (EndsInLead(s) => u # "L")
  <2> HIDE DEF w, n
  <2>1. NoTwoLeads(w) <=> \A i \in 1..n : w[i] = "L" => w[i + 1] # "L"
    BY <1>4 DEF NoTwoLeads
  <2>2. NoTwoLeads(s) <=> \A i \in 1..(n - 1) : s[i] = "L" => s[i + 1] # "L"
    BY DEF NoTwoLeads, n
  <2> QED BY <1>2, <1>3, <1>5, <1>6, <2>1, <2>2
<1>8. LeadsPaired(w) <=> LeadsPaired(s) /\ (EndsInLead(s) => u = "T")
  <2> HIDE DEF w, n
  <2>1. LeadsPaired(w) <=> \A i \in 1..n : w[i] = "L" => w[i + 1] = "T"
    BY <1>4 DEF LeadsPaired
  <2>2. LeadsPaired(s) <=> \A i \in 1..(n - 1) : s[i] = "L" => s[i + 1] = "T"
    BY DEF LeadsPaired, n
  <2> QED BY <1>2, <1>3, <1>5, <1>6, <2>1, <2>2
<1> QED BY <1>7, <1>8

LEMMA RepairedType ==
  ASSUME NEW s \in Seq(Units)
  PROVE  /\ Repaired(s) \in Seq(Units) /\ Len(Repaired(s)) = Len(s)
         /\ \A i \in 1..Len(s) : Repaired(s)[i] = IF Paired(s, i) THEN s[i] ELSE "R"
<1> DEFINE r == [i \in 1..Len(s) |-> IF Paired(s, i) THEN s[i] ELSE "R"]
<1>1. Len(s) \in Nat /\ DOMAIN s = 1..Len(s) /\ \A i \in 1..Len(s) : s[i] \in Units
  OBVIOUS
<1>2. r = Repaired(s)
  BY <1>1 DEF Repaired
<1>3. r \in [1..Len(s) -> Units]
  <2>1. "R" \in Units
    BY DEF Units
  <2> QED BY <1>1, <2>1
<1>4. r \in Seq(Units) /\ Len(r) = Len(s)
  <2> HIDE DEF r
  <2> QED BY <1>1, <1>3
<1> QED BY <1>2, <1>4

\* A unit after one that is no lead leaves the others as they are,
LEMMA RepairedAppend ==
  ASSUME NEW s \in Seq(Units), NEW u \in Units, ~EndsInLead(s)
  PROVE  Repaired(Append(s, u)) = Append(Repaired(s), IF u \in {"L", "T"} THEN "R" ELSE u)
<1> DEFINE w == Append(s, u)
           n == Len(s)
           x == IF u \in {"L", "T"} THEN "R" ELSE u
           a == Repaired(w)
           c == Append(Repaired(s), x)
<1>1. n \in Nat /\ w \in Seq(Units) /\ Len(w) = n + 1 /\ w[n + 1] = u /\ \A i \in 1..n : w[i] = s[i]
  BY AppendUnit
<1>2. x \in Units
  BY DEF Units
<1>3. /\ Repaired(s) \in Seq(Units) /\ Len(Repaired(s)) = n
      /\ \A i \in 1..n : Repaired(s)[i] = IF Paired(s, i) THEN s[i] ELSE "R"
  BY RepairedType
<1>4. /\ a \in Seq(Units) /\ Len(a) = n + 1
      /\ \A i \in 1..(n + 1) : a[i] = IF Paired(w, i) THEN w[i] ELSE "R"
  <2> HIDE DEF w, n
  <2> QED BY <1>1, RepairedType
<1>5. /\ c \in Seq(Units) /\ Len(c) = n + 1 /\ c[n + 1] = x
      /\ \A i \in 1..n : c[i] = Repaired(s)[i]
  <2> HIDE DEF x
  <2> QED BY <1>2, <1>3, AppendProperties
<1>6. n \in 1..n => s[n] # "L"
  BY DEF EndsInLead
<1>7. ASSUME NEW i \in 1..n PROVE Paired(w, i) <=> Paired(s, i)
  <2> HIDE DEF w, n
  <2>1. w[i] = s[i] /\ (i > 1 => w[i - 1] = s[i - 1]) /\ (i < n => w[i + 1] = s[i + 1])
    BY <1>1
  <2>2. i < n + 1 /\ (i = n \/ i < n)
    BY <1>1
  <2>3. Paired(s, i) <=> \/ s[i] \notin {"L", "T"} \/ (s[i] = "L" /\ i < n /\ s[i + 1] = "T")
                         \/ (s[i] = "T" /\ i > 1 /\ s[i - 1] = "L")
    BY DEF Paired, n
  <2>4. Paired(w, i) <=> \/ w[i] \notin {"L", "T"} \/ (w[i] = "L" /\ i < n + 1 /\ w[i + 1] = "T")
                         \/ (w[i] = "T" /\ i > 1 /\ w[i - 1] = "L")
    BY <1>1 DEF Paired
  <2> QED BY <1>6, <2>1, <2>2, <2>3, <2>4
<1>8. Paired(w, n + 1) <=> u \notin {"L", "T"}
  <2> HIDE DEF w
  <2>1. n + 1 > 1 => n \in 1..n /\ w[(n + 1) - 1] = s[n]
    BY <1>1
  <2> HIDE DEF n
  <2>2. ~(n + 1 < Len(w))
    BY <1>1
  <2> QED BY <1>1, <1>6, <2>1, <2>2 DEF Paired
<1> HIDE DEF w, n, x, a, c
<1>9. ASSUME NEW i \in 1..(n + 1) PROVE a[i] = c[i]
  <2>1. CASE i \in 1..n
    BY <1>1, <1>3, <1>4, <1>5, <1>7, <2>1
  <2>2. CASE i = n + 1
    BY <1>1, <1>4, <1>5, <1>8, <2>2 DEF x
  <2> QED BY <1>1, <2>1, <2>2
<1>10. a = c
  BY <1>4, <1>5, <1>9, SeqEqual
<1> QED BY <1>10 DEF a, c, w, x

\* and one after a lead decides about both.
LEMMA RepairedAfterLead ==
  ASSUME NEW r \in Seq(Units), NEW u \in Units, ~EndsInLead(r)
  PROVE  Repaired(Append(Append(r, "L"), u)) =
           Repaired(r) \o (IF u = "T" THEN <<"L", "T">> ELSE <<"R", IF u = "L" THEN "R" ELSE u>>)
<1> DEFINE s == Append(r, "L")
           w == Append(s, u)
           n == Len(r)
           v == IF u = "L" THEN "R" ELSE u
           x == IF u = "T" THEN "L" ELSE "R"
           y == <<x, v>>
           a == Repaired(w)
           c == Repaired(r) \o y
<1>0. "L" \in Units /\ "R" \in Units
  BY DEF Units
<1>1. s \in Seq(Units) /\ n \in Nat /\ Len(s) = n + 1 /\ s[n + 1] = "L" /\ \A i \in 1..n : s[i] = r[i]
  BY <1>0, AppendUnit
<1>2. /\ w \in Seq(Units) /\ Len(w) = n + 2 /\ w[n + 2] = u /\ w[n + 1] = "L"
      /\ \A i \in 1..n : w[i] = r[i]
  <2>1. /\ w \in Seq(Units) /\ Len(w) = Len(s) + 1 /\ w[Len(s) + 1] = u
        /\ \A i \in 1..Len(s) : w[i] = s[i]
    <3> HIDE DEF s
    <3> QED BY <1>1, AppendUnit
  <2> HIDE DEF w, s, n
  <2>2. Len(s) + 1 = n + 2 /\ n + 1 \in 1..Len(s) /\ \A i \in 1..n : i \in 1..Len(s)
    BY <1>1
  <2> QED BY <1>1, <2>1, <2>2
<1>3. /\ Repaired(r) \in Seq(Units) /\ Len(Repaired(r)) = n
      /\ \A i \in 1..n : Repaired(r)[i] = IF Paired(r, i) THEN r[i] ELSE "R"
  BY RepairedType
<1> HIDE DEF s, w, n
<1>4. /\ a \in Seq(Units) /\ Len(a) = n + 2
      /\ \A i \in 1..(n + 2) : a[i] = IF Paired(w, i) THEN w[i] ELSE "R"
  BY <1>2, RepairedType
<1>5. y \in Seq(Units) /\ Len(y) = 2 /\ y[1] = x /\ y[2] = v
  <2>1. x \in Units /\ v \in Units
    BY <1>0
  <2> HIDE DEF x, v
  <2> QED BY <2>1
<1>6. /\ c \in Seq(Units) /\ Len(c) = n + 2 /\ c[n + 1] = x /\ c[n + 2] = v
      /\ \A i \in 1..n : c[i] = Repaired(r)[i]
  <2> HIDE DEF y
  <2>1. /\ c \in Seq(Units) /\ Len(c) = Len(Repaired(r)) + Len(y)
        /\ \A i \in 1..(Len(Repaired(r)) + Len(y)) : c[i] =
              IF i <= Len(Repaired(r)) THEN Repaired(r)[i] ELSE y[i - Len(Repaired(r))]
    BY <1>3, <1>5, ConcatProperties
  <2> HIDE DEF c
  <2>2. \A i \in 1..(n + 2) : c[i] = IF i <= n THEN Repaired(r)[i] ELSE y[i - n]
    BY <1>3, <1>5, <2>1
  <2>3. /\ n + 1 \in 1..(n + 2) /\ n + 2 \in 1..(n + 2) /\ \A i \in 1..n : i \in 1..(n + 2) /\ i <= n
        /\ ~(n + 1 <= n) /\ ~(n + 2 <= n) /\ (n + 1) - n = 1 /\ (n + 2) - n = 2
    BY <1>1
  <2> QED BY <1>3, <1>5, <2>1, <2>2, <2>3
<1>7. n \in 1..n => r[n] # "L"
  BY DEF EndsInLead, n
<1>8. ASSUME NEW i \in 1..n PROVE Paired(w, i) <=> Paired(r, i)
  <2>1. w[i] = r[i] /\ (i > 1 => w[i - 1] = r[i - 1]) /\ (i < n => w[i + 1] = r[i + 1])
    BY <1>1, <1>2
  <2>2. i < n + 2 /\ (i = n \/ i < n)
    BY <1>1
  <2>3. Paired(r, i) <=> \/ r[i] \notin {"L", "T"} \/ (r[i] = "L" /\ i < n /\ r[i + 1] = "T")
                         \/ (r[i] = "T" /\ i > 1 /\ r[i - 1] = "L")
    BY DEF Paired, n
  <2>4. Paired(w, i) <=> \/ w[i] \notin {"L", "T"} \/ (w[i] = "L" /\ i < n + 2 /\ w[i + 1] = "T")
                         \/ (w[i] = "T" /\ i > 1 /\ w[i - 1] = "L")
    BY <1>2 DEF Paired
  <2> QED BY <1>7, <2>1, <2>2, <2>3, <2>4
<1>9. (Paired(w, n + 1) <=> u = "T") /\ (Paired(w, n + 2) <=> u # "L")
  <2>1. /\ (n + 1) + 1 = n + 2 /\ n + 1 < n + 2 /\ ~(n + 2 < n + 2) /\ n + 2 > 1
        /\ (n + 2) - 1 = n + 1
    BY <1>1
  <2>2. Paired(w, n + 1) <=> u = "T"
    BY <1>2, <2>1 DEF Paired
  <2>3. Paired(w, n + 2) <=> u # "L"
    BY <1>2, <2>1 DEF Paired
  <2> QED BY <2>2, <2>3
<1>10. ASSUME NEW i \in 1..(n + 2) PROVE a[i] = c[i]
  <2> HIDE DEF a, c
  <2>0. n + 1 \in 1..(n + 2) /\ n + 2 \in 1..(n + 2) /\ (i \in 1..n \/ i = n + 1 \/ i = n + 2)
    BY <1>1
  <2>1. CASE i \in 1..n
    BY <1>2, <1>3, <1>4, <1>6, <1>8, <2>0, <2>1
  <2>2. CASE i = n + 1
    BY <1>2, <1>4, <1>6, <1>9, <2>0, <2>2
  <2>3. CASE i = n + 2
    BY <1>2, <1>4, <1>6, <1>9, <2>0, <2>3
  <2> QED BY <2>0, <2>1, <2>2, <2>3
<1>11. a = c
  <2> HIDE DEF a, c
  <2> QED BY <1>4, <1>6, <1>10, SeqEqual
<1> QED BY <1>11 DEF s, w

\* The states of a fold over a text that ends in a lead are about the units before it.
StandsAt(s, lead, out) ==
  /\ ~EndsInLead(s) => ~lead /\ out = Repaired(s)
  /\ \A r \in Seq(Units) : s = Append(r, "L") => lead /\ out = Repaired(r)

LEMMA BeforeLead ==
  ASSUME NEW s \in Seq(Units), EndsInLead(s)
  PROVE  \E r \in Seq(Units) : s = Append(r, "L")
<1>1. PICK r \in Seq(Units), u \in Units : s = Append(r, u)
  BY SequenceEmptyOrAppend DEF EndsInLead
<1>2. u = "L"
  BY <1>1, AppendUnit
<1> QED BY <1>1, <1>2

LEMMA SameBeforeLead ==
  ASSUME NEW r \in Seq(Units), NEW q \in Seq(Units), NEW u \in Units, Append(r, u) = Append(q, "L")
  PROVE  q = r /\ u = "L"
<1>1. "L" \in Units
  BY DEF Units
<1> QED BY <1>1, AppendInjective

\* The case of a text whose last unit is a lead: what a step by u must make of it.
LEMMA StandsAfterLead ==
  ASSUME NEW r \in Seq(Units), NEW u \in Units, ~EndsInLead(r), u # "L", NEW out,
         out = Repaired(r) \o (IF u = "T" THEN <<"L", "T">> ELSE <<"R", u>>)
  PROVE  StandsAt(Append(Append(r, "L"), u), FALSE, out)
<1> DEFINE s == Append(r, "L")
<1>1. s \in Seq(Units)
  BY AppendUnit DEF Units
<1>2. out = Repaired(Append(s, u))
  BY RepairedAfterLead
<1> HIDE DEF s
<1>3. ~EndsInLead(Append(s, u))
  BY <1>1, AppendUnit
<1>4. ASSUME NEW q \in Seq(Units), Append(s, u) = Append(q, "L") PROVE FALSE
  BY <1>1, <1>4, SameBeforeLead
<1> QED BY <1>2, <1>3, <1>4 DEF StandsAt, s

LEMMA StandsAtLead ==
  ASSUME NEW s \in Seq(Units), ~EndsInLead(s)
  PROVE  StandsAt(Append(s, "L"), TRUE, Repaired(s))
<1>1. "L" \in Units
  BY DEF Units
<1>2. EndsInLead(Append(s, "L"))
  BY <1>1, AppendUnit
<1>3. ASSUME NEW q \in Seq(Units), Append(s, "L") = Append(q, "L") PROVE q = s
  BY <1>1, <1>3, SameBeforeLead
<1> QED BY <1>2, <1>3 DEF StandsAt

LEMMA StandsAfterOther ==
  ASSUME NEW s \in Seq(Units), NEW u \in Units, ~EndsInLead(s), u # "L", NEW out,
         out = Append(Repaired(s), IF u = "T" THEN "R" ELSE u)
  PROVE  StandsAt(Append(s, u), FALSE, out)
<1>1. out = Repaired(Append(s, u))
  BY RepairedAppend
<1>2. ~EndsInLead(Append(s, u))
  BY AppendUnit
<1>3. ASSUME NEW q \in Seq(Units), Append(s, u) = Append(q, "L") PROVE FALSE
  BY <1>3, SameBeforeLead
<1> QED BY <1>1, <1>2, <1>3 DEF StandsAt

LEMMA StandsAtStart == StandsAt(<< >>, FALSE, << >>) /\ NoTwoLeads(<< >>) /\ LeadsPaired(<< >>)
<1>1. << >> \in Seq(Units) /\ Len(<< >>) = 0
  OBVIOUS
<1>2. Repaired(<< >>) = << >>
  <2>1. Repaired(<< >>) \in Seq(Units) /\ Len(Repaired(<< >>)) = 0
    BY <1>1, RepairedType
  <2> QED BY <2>1
<1>3. ~EndsInLead(<< >>)
  BY DEF EndsInLead
<1>4. ASSUME NEW q \in Seq(Units) PROVE Append(q, "L") # << >>
  OBVIOUS
<1>5. 1..(Len(<< >>) - 1) = {}
  BY <1>1
<1> QED BY <1>2, <1>3, <1>4, <1>5 DEF StandsAt, NoTwoLeads, LeadsPaired

LEMMA ReplacingStands ==
  ASSUME NEW s \in Seq(Units), NoTwoLeads(s)
  PROVE  StandsAt(s, Replacing(s).lead, Replacing(s).out)
<1> DEFINE P(w) == NoTwoLeads(w) => StandsAt(w, Replacing(w).lead, Replacing(w).out)
           T == {w \in Seq(Units) : P(w)}
<1>1. << >> \in T
  <2>1. Replacing(<< >>) = [out |-> << >>, lead |-> FALSE]
    BY ReplacingSteps DEF ReplaceBase
  <2>2. Replacing(<< >>).out = << >> /\ Replacing(<< >>).lead = FALSE
    BY <2>1
  <2>3. StandsAt(<< >>, Replacing(<< >>).lead, Replacing(<< >>).out)
    BY <2>2, StandsAtStart
  <2>4. << >> \in Seq(Units)
    OBVIOUS
  <2> QED BY <2>3, <2>4
<1>2. ASSUME NEW w \in Seq(Units), NEW u \in Units, w \in T PROVE Append(w, u) \in T
  <2> DEFINE a == Replacing(w)
             d == Replacing(Append(w, u))
  <2>1. a \in ReplaceStates /\ d = ReplaceStep(a, u) /\ Append(w, u) \in Seq(Units)
    BY ReplacingSteps, AppendUnit
  <2> SUFFICES ASSUME NoTwoLeads(Append(w, u))
               PROVE  StandsAt(Append(w, u), d.lead, d.out)
    BY <2>1
  <2>2. StandsAt(w, a.lead, a.out) /\ (EndsInLead(w) => u # "L") /\ NoTwoLeads(w)
    BY <1>2, AppendPairs
  <2> HIDE DEF a, d
  <2>3. CASE EndsInLead(w)
    <3>1. PICK r \in Seq(Units) : w = Append(r, "L")
      BY <2>3, BeforeLead
    <3>2. "L" \in Units
      BY DEF Units
    <3>3. ~EndsInLead(r)
      BY <2>2, <3>1, <3>2, AppendPairs
    <3>4. a.lead /\ a.out = Repaired(r)
      BY <2>2, <3>1 DEF StandsAt
    <3>5. d = [out |-> a.out \o (IF u = "T" THEN <<"L", "T">> ELSE <<"R", u>>), lead |-> FALSE]
      BY <2>1, <3>4, ReplaceStepCases
    <3>6. /\ d.out = Repaired(r) \o (IF u = "T" THEN <<"L", "T">> ELSE <<"R", u>>)
          /\ d.lead = FALSE
      BY <3>4, <3>5
    <3>7. StandsAt(Append(Append(r, "L"), u), FALSE, d.out)
      BY <2>2, <2>3, <3>3, <3>6, StandsAfterLead
    <3> QED BY <3>1, <3>6, <3>7
  <2>4. CASE ~EndsInLead(w) /\ u = "L"
    <3>1. ~a.lead /\ a.out = Repaired(w)
      BY <2>2, <2>4 DEF StandsAt
    <3>2. d = [out |-> a.out, lead |-> TRUE]
      BY <2>1, <2>4, <3>1, ReplaceStepCases
    <3>3. d.out = Repaired(w) /\ d.lead = TRUE
      BY <3>1, <3>2
    <3> QED BY <2>4, <3>3, StandsAtLead
  <2>5. CASE ~EndsInLead(w) /\ u # "L"
    <3>1. ~a.lead /\ a.out = Repaired(w)
      BY <2>2, <2>5 DEF StandsAt
    <3>2. d = [out |-> Append(a.out, IF u = "T" THEN "R" ELSE u), lead |-> FALSE]
      BY <2>1, <2>5, <3>1, ReplaceStepCases
    <3>3. d.out = Append(Repaired(w), IF u = "T" THEN "R" ELSE u) /\ d.lead = FALSE
      BY <3>1, <3>2
    <3>4. StandsAt(Append(w, u), FALSE, d.out)
      BY <2>5, <3>3, StandsAfterOther
    <3> QED BY <3>3, <3>4
  <2> QED BY <2>3, <2>4, <2>5
<1>3. Seq(Units) \subseteq T
  <2> HIDE DEF T
  <2> QED BY <1>1, <1>2, SequencesReached
<1> QED BY <1>3

\* Without two leads in a row, utf16_replace_invalid does what it should.
LEMMA ReplacesInvalid ==
  ASSUME NEW s \in Seq(Units), NoTwoLeads(s)
  PROVE  utf16_replace_invalid(s) = Repaired(s)
<1> DEFINE a == Replacing(s)
<1>1. StandsAt(s, a.lead, a.out)
  BY ReplacingStands
<1>2. utf16_replace_invalid(s) = IF a.lead THEN Append(a.out, "R") ELSE a.out
  BY ReplacesUnits
<1> HIDE DEF a
<1>3. CASE EndsInLead(s)
  <2>1. PICK r \in Seq(Units) : s = Append(r, "L")
    BY <1>3, BeforeLead
  <2>2. "L" \in Units
    BY DEF Units
  <2>3. ~EndsInLead(r)
    BY <2>1, <2>2, AppendPairs
  <2>4. Repaired(s) = Append(Repaired(r), "R")
    BY <2>1, <2>2, <2>3, RepairedAppend
  <2> QED BY <1>1, <1>2, <2>1, <2>4 DEF StandsAt
<1>4. CASE ~EndsInLead(s)
  BY <1>1, <1>2, <1>4 DEF StandsAt
<1> QED BY <1>3, <1>4

\* What is repaired stays as it is.
LEMMA RepairedTwice ==
  ASSUME NEW s \in Seq(Units)
  PROVE  LET w == Repaired(s)
         IN  LeadsPaired(w) /\ ~EndsInLead(w) /\ Repaired(w) = w
<1> DEFINE w == Repaired(s)
           n == Len(s)
<1>1. /\ w \in Seq(Units) /\ Len(w) = n /\ n \in Nat
      /\ \A i \in 1..n : w[i] = IF Paired(s, i) THEN s[i] ELSE "R"
  BY RepairedType
<1> HIDE DEF w
<1>2. ASSUME NEW i \in 1..n, w[i] = "L" PROVE i < n /\ w[i + 1] = "T"
  <2>1. s[i] = "L" /\ i < n /\ s[i + 1] = "T"
    BY <1>1, <1>2 DEF Paired
  <2>2. i + 1 \in 1..n /\ i + 1 > 1 /\ (i + 1) - 1 = i
    BY <1>1, <2>1
  <2>3. Paired(s, i + 1)
    BY <2>1, <2>2 DEF Paired
  <2> QED BY <1>1, <2>1, <2>2, <2>3
<1>3. ASSUME NEW i \in 1..n, w[i] = "T" PROVE i > 1 /\ w[i - 1] = "L"
  <2>1. s[i] = "T" /\ i > 1 /\ s[i - 1] = "L"
    BY <1>1, <1>3 DEF Paired
  <2>2. i - 1 \in 1..n /\ i - 1 < Len(s) /\ (i - 1) + 1 = i
    BY <1>1, <2>1
  <2>3. Paired(s, i - 1)
    BY <2>1, <2>2 DEF Paired
  <2> QED BY <1>1, <2>1, <2>2, <2>3
<1>4. LeadsPaired(w)
  BY <1>1, <1>2 DEF LeadsPaired
<1>5. ~EndsInLead(w)
  <2>1. w # << >> => n \in 1..n
    BY <1>1
  <2> QED BY <1>1, <1>2, <2>1 DEF EndsInLead
<1>6. Repaired(w) = w
  <2>1. /\ Repaired(w) \in Seq(Units) /\ Len(Repaired(w)) = n
        /\ \A i \in 1..n : Repaired(w)[i] = IF Paired(w, i) THEN w[i] ELSE "R"
    BY <1>1, RepairedType
  <2>2. ASSUME NEW i \in 1..n PROVE Paired(w, i)
    BY <1>1, <1>2, <1>3 DEF Paired
  <2>3. \A i \in 1..n : Repaired(w)[i] = w[i]
    BY <2>1, <2>2
  <2> QED BY <1>1, <2>1, <2>3, SeqEqual
<1> QED BY <1>4, <1>5, <1>6 DEF w

\* The first k bytes of a character.
FirstBytes(ch, k) == [j \in 1..k |-> <<ch, j>>]

LEMMA FirstBytesGrow ==
  ASSUME NEW ch \in Characters, NEW b \in Seq(Bytes), NEW k \in 0..3
  PROVE  /\ b \o FirstBytes(ch, 0) = b /\ <<ch, k + 1>> \in Bytes
         /\ b \o FirstBytes(ch, k) \in Seq(Bytes)
         /\ b \o FirstBytes(ch, k + 1) = Append(b \o FirstBytes(ch, k), <<ch, k + 1>>)
<1> DEFINE e == FirstBytes(ch, k)
           f == FirstBytes(ch, k + 1)
           x == <<ch, k + 1>>
<1>1. \A j \in 1..4 : <<ch, j>> \in Bytes
  BY DEF Bytes, Characters
<1>2. x \in Bytes
  BY <1>1
<1>3. e \in Seq(Bytes) /\ Len(e) = k /\ \A j \in 1..k : e[j] = <<ch, j>>
  <2>1. e \in [1..k -> Bytes]
    BY <1>1 DEF FirstBytes
  <2>2. \A j \in 1..k : e[j] = <<ch, j>>
    BY DEF FirstBytes
  <2> HIDE DEF e
  <2> QED BY <2>1, <2>2
<1>4. f \in Seq(Bytes) /\ Len(f) = k + 1 /\ \A j \in 1..(k + 1) : f[j] = <<ch, j>>
  <2>1. f \in [1..(k + 1) -> Bytes]
    BY <1>1 DEF FirstBytes
  <2>2. \A j \in 1..(k + 1) : f[j] = <<ch, j>>
    BY DEF FirstBytes
  <2> HIDE DEF f
  <2> QED BY <2>1, <2>2
<1>5. FirstBytes(ch, 0) = << >>
  <2>1. FirstBytes(ch, 0) \in [1..0 -> Bytes]
    BY <1>1 DEF FirstBytes
  <2> QED BY <2>1
<1> HIDE DEF e, f, x
<1>6. f = Append(e, x)
  <2>1. /\ Append(e, x) \in Seq(Bytes) /\ Len(Append(e, x)) = k + 1 /\ Append(e, x)[k + 1] = x
        /\ \A j \in 1..k : Append(e, x)[j] = e[j]
    BY <1>2, <1>3, AppendProperties
  <2>2. ASSUME NEW j \in 1..(k + 1) PROVE f[j] = Append(e, x)[j]
    <3>0. j \in 1..k \/ j = k + 1
      OBVIOUS
    <3>1. CASE j \in 1..k
      BY <1>3, <1>4, <2>1, <3>1
    <3>2. CASE j = k + 1
      BY <1>4, <2>1, <3>2 DEF x
    <3> QED BY <3>0, <3>1, <3>2
  <2> QED BY <1>4, <2>1, <2>2, SeqEqual
<1>7. Append(e, x) = e \o <<x>> /\ Append(b \o e, x) = (b \o e) \o <<x>> /\ <<x>> \in Seq(Bytes)
  BY <1>2, <1>3, AppendIsConcat, ConcatProperties
<1>8. (b \o e) \o <<x>> = b \o (e \o <<x>>)
  BY <1>3, <1>7, ConcatAssociative
<1>9. b \o f = Append(b \o e, x)
  BY <1>6, <1>7, <1>8
<1>10. b \o e \in Seq(Bytes) /\ b \o << >> = b
  BY <1>3, ConcatProperties, ConcatEmptySeq
<1> QED BY <1>2, <1>5, <1>9, <1>10 DEF e, f, x

\* The bytes of a whole character are decoded to its units.
LEMMA DecodesCharacter ==
  ASSUME NEW b \in Seq(Bytes), NEW ch \in Characters, Decoding(b).have = 0
  PROVE  LET d == Decoding(b \o Encoded(ch))
         IN  b \o Encoded(ch) \in Seq(Bytes) /\ d.have = 0 /\ d.out = Decoding(b).out \o UnitsOf(ch)
<1> DEFINE o == Decoding(b).out
           n == Width(ch)
           B(k) == b \o FirstBytes(ch, k)
           D(k) == IF k = n THEN [out |-> o \o UnitsOf(ch), have |-> 0] ELSE [out |-> o, have |-> k]
           I == {k \in Nat : k <= n => B(k) \in Seq(Bytes) /\ Decoding(B(k)) = D(k)}
<1>1. n \in 1..4 /\ UnitsOf(ch) \in Seq(Units)
  BY CharacterUnits
<1>2. o \in Seq(Units) /\ Decoding(b) = [out |-> o, have |-> 0]
  BY DecodingSteps DEF DecodeStates
<1> HIDE DEF o, n
<1>3. 0 \in I
  <2>1. 0 \in 0..3
    OBVIOUS
  <2>2. B(0) = b
    BY <2>1, FirstBytesGrow
  <2>3. D(0) = [out |-> o, have |-> 0]
    BY <1>1
  <2> HIDE DEF B, D
  <2> QED BY <1>2, <2>2, <2>3
<1>4. ASSUME NEW k \in Nat, k \in I PROVE k + 1 \in I
  <2> SUFFICES ASSUME k + 1 <= n PROVE B(k + 1) \in Seq(Bytes) /\ Decoding(B(k + 1)) = D(k + 1)
    OBVIOUS
  <2> DEFINE a == [out |-> o, have |-> k]
             x == <<ch, k + 1>>
  <2>1. k \in 0..3 /\ k # n /\ k <= n
    BY <1>1
  <2>2. B(k) \in Seq(Bytes) /\ Decoding(B(k)) = a
    BY <1>4, <2>1
  <2>3. B(k + 1) = Append(B(k), x) /\ x \in Bytes
    BY <2>1, FirstBytesGrow
  <2>4. x[1] = ch /\ x[2] = k + 1 /\ a.out = o /\ a.have = k
    OBVIOUS
  <2> HIDE DEF B, x, a
  <2>5. B(k + 1) \in Seq(Bytes) /\ Decoding(B(k + 1)) = DecodeStep(a, x)
    <3>1. Append(B(k), x) \in Seq(Bytes)
      BY <2>2, <2>3, AppendProperties
    <3>2. Decoding(Append(B(k), x)) = DecodeStep(Decoding(B(k)), x)
      BY <2>2, <2>3, DecodingSteps
    <3> QED BY <2>2, <2>3, <3>1, <3>2
  <2>6. CASE k = 0
    <3>1. x[2] = 1 /\ ~(a.have > 0)
      BY <2>4, <2>6
    <3>2. DecodeStep(a, x) = [out |-> o \o << >> \o (IF x[2] = Width(x[1]) THEN UnitsOf(x[1]) ELSE << >>),
                              have |-> IF x[2] = Width(x[1]) THEN 0 ELSE 1]
      BY <2>4, <3>1 DEF DecodeStep
    <3>3. o \o << >> = o
      BY <1>2, ConcatEmptySeq
    <3>5. DecodeStep(a, x) = [out |-> o \o (IF 1 = n THEN UnitsOf(ch) ELSE << >>),
                              have |-> IF 1 = n THEN 0 ELSE 1]
      BY <2>4, <3>1, <3>2, <3>3 DEF n
    <3>4. DecodeStep(a, x) = D(k + 1)
      <4>1. CASE n = 1
        <5>1. DecodeStep(a, x) = [out |-> o \o UnitsOf(ch), have |-> 0]
          BY <3>5, <4>1
        <5>2. D(k + 1) = [out |-> o \o UnitsOf(ch), have |-> 0]
          BY <2>6, <4>1
        <5> QED BY <5>1, <5>2
      <4>2. CASE n # 1
        <5>1. DecodeStep(a, x) = [out |-> o, have |-> 1]
          BY <3>3, <3>5, <4>2
        <5>2. D(k + 1) = [out |-> o, have |-> 1]
          BY <2>6, <4>2, <1>1
        <5> QED BY <5>1, <5>2
      <4> QED BY <4>1, <4>2
    <3> QED BY <2>5, <3>4
  <2>7. CASE k > 0
    <3>1. x[2] > 1 /\ a.have > 0 /\ x[2] # 1
      BY <2>1, <2>4, <2>7
    <3>2. DecodeStep(a, x) = [out |-> IF x[2] = Width(x[1]) THEN o \o UnitsOf(x[1]) ELSE o,
                              have |-> IF x[2] = Width(x[1]) THEN 0 ELSE k + 1]
      BY <2>4, <3>1 DEF DecodeStep
    <3>3. DecodeStep(a, x) = D(k + 1)
      BY <2>4, <3>2 DEF n
    <3> QED BY <2>5, <3>3
  <2> QED BY <2>1, <2>6, <2>7
<1>5. n \in I
  <2>1. Nat \subseteq I
    <3> HIDE DEF I
    <3> QED BY <1>3, <1>4, NumbersReached
  <2> QED BY <1>1, <2>1
<1>6. B(n) = b \o Encoded(ch)
  BY DEF n, FirstBytes, Encoded
<1>7. Decoding(B(n)) = [out |-> o \o UnitsOf(ch), have |-> 0] /\ B(n) \in Seq(Bytes)
  BY <1>1, <1>5
<1> HIDE DEF B
<1> QED BY <1>6, <1>7 DEF o

\* Decoding what a text with its leads paired was encoded to gives its units again, a lone
\* trail replaced.
LEMMA DecodingStands ==
  ASSUME NEW s \in Seq(Units), LeadsPaired(s)
  PROVE  LET e == Encoding(s) IN Decoding(e.out).have = 0 /\ StandsAt(s, e.lead, Decoding(e.out).out)
<1> DEFINE Good(w) == LET e == Encoding(w)
                      IN  Decoding(e.out).have = 0 /\ StandsAt(w, e.lead, Decoding(e.out).out)
           T == {w \in Seq(Units) : LeadsPaired(w) => Good(w)}
<1>0. "L" \in Units /\ "R" \in Units
  BY DEF Units
<1>1. << >> \in T
  <2>1. Encoding(<< >>) = [out |-> << >>, lead |-> FALSE]
    BY EncodingSteps DEF EncodeBase
  <2>2. Encoding(<< >>).out = << >> /\ Encoding(<< >>).lead = FALSE
    BY <2>1
  <2>3. Decoding(<< >>) = [out |-> << >>, have |-> 0]
    BY DecodingSteps DEF DecodeBase
  <2>4. Decoding(<< >>).out = << >> /\ Decoding(<< >>).have = 0
    BY <2>3
  <2>5. Good(<< >>)
    BY <2>2, <2>4, StandsAtStart
  <2>6. << >> \in Seq(Units)
    OBVIOUS
  <2> QED BY <2>5, <2>6
<1>2. ASSUME NEW w \in Seq(Units), NEW u \in Units, w \in T PROVE Append(w, u) \in T
  <2> DEFINE a == Encoding(w)
             d == Encoding(Append(w, u))
  <2>1. a \in EncodeStates /\ d = EncodeStep(a, u) /\ Append(w, u) \in Seq(Units)
    BY EncodingSteps, AppendUnit
  <2> SUFFICES ASSUME LeadsPaired(Append(w, u))
               PROVE  Decoding(d.out).have = 0 /\ StandsAt(Append(w, u), d.lead, Decoding(d.out).out)
    BY <2>1
  <2>2. LeadsPaired(w) /\ (EndsInLead(w) => u = "T")
    BY AppendPairs
  <2>3. Decoding(a.out).have = 0 /\ StandsAt(w, a.lead, Decoding(a.out).out) /\ a.out \in Seq(Bytes)
    BY <1>2, <2>1, <2>2 DEF EncodeStates
  <2> HIDE DEF a, d
  <2>4. CASE EndsInLead(w)
    <3>1. PICK r \in Seq(Units) : w = Append(r, "L")
      BY <2>4, BeforeLead
    <3>2. ~EndsInLead(r)
      BY <1>0, <2>2, <3>1, AppendPairs
    <3>3. a.lead /\ Decoding(a.out).out = Repaired(r)
      BY <2>3, <3>1 DEF StandsAt
    <3>4. u = "T"
      BY <2>2, <2>4
    <3>5. d = [out |-> a.out \o Encoded("4"), lead |-> FALSE]
      BY <2>1, <3>3, <3>4, EncodeStepCases
    <3>6. d.out = a.out \o Encoded("4") /\ d.lead = FALSE
      BY <3>5
    <3>7. "4" \in Characters /\ UnitsOf("4") = <<"L", "T">>
      BY DEF Characters, UnitsOf
    <3>8. Decoding(d.out).have = 0 /\ Decoding(d.out).out = Repaired(r) \o <<"L", "T">>
      BY <2>3, <3>3, <3>6, <3>7, DecodesCharacter
    <3>9. StandsAt(Append(Append(r, "L"), u), FALSE, Decoding(d.out).out)
      BY <3>2, <3>4, <3>8, StandsAfterLead
    <3> QED BY <3>1, <3>6, <3>8, <3>9
  <2>5. CASE ~EndsInLead(w) /\ u = "L"
    <3>1. ~a.lead /\ Decoding(a.out).out = Repaired(w)
      BY <2>3, <2>5 DEF StandsAt
    <3>2. d = [out |-> a.out, lead |-> TRUE]
      BY <2>1, <2>5, <3>1, EncodeStepCases
    <3>3. d.out = a.out /\ d.lead = TRUE
      BY <3>2
    <3> QED BY <2>3, <2>5, <3>1, <3>3, StandsAtLead
  <2>6. CASE ~EndsInLead(w) /\ u # "L"
    <3>1. ~a.lead /\ Decoding(a.out).out = Repaired(w)
      BY <2>3, <2>6 DEF StandsAt
    <3>2. d = [out |-> a.out \o Encoded(u), lead |-> FALSE]
      BY <2>1, <2>6, <3>1, EncodeStepCases
    <3>3. d.out = a.out \o Encoded(u) /\ d.lead = FALSE
      BY <3>2
    <3> DEFINE x == IF u = "T" THEN "R" ELSE u
    <3>4. u \in Characters /\ UnitsOf(u) = <<x>> /\ x \in Units
      BY <1>0, <2>6 DEF Characters, UnitsOf, Units
    <3>5. Decoding(d.out).have = 0 /\ Decoding(d.out).out = Repaired(w) \o <<x>>
      BY <2>3, <3>1, <3>3, <3>4, DecodesCharacter
    <3>6. Repaired(w) \o <<x>> = Append(Repaired(w), x)
      BY <3>4, RepairedType, AppendIsConcat
    <3>7. StandsAt(Append(w, u), FALSE, Decoding(d.out).out)
      BY <2>6, <3>5, <3>6, StandsAfterOther
    <3> QED BY <3>3, <3>5, <3>7
  <2> QED BY <2>4, <2>5, <2>6
<1>3. Seq(Units) \subseteq T
  <2> HIDE DEF T
  <2> QED BY <1>1, <1>2, SequencesReached
<1> QED BY <1>3

\* What the search knows of the units it has passed.
Searched(w) ==
  LET a == Searching(w)
  IN  /\ a.n <= Len(w)
      /\ ~a.found => LeadsPaired(w) /\ (a.lead <=> EndsInLead(w)) /\ ~a.trail
      /\ a.found => ~a.lead /\ (a.trail /\ a.n = Len(w) => LeadsPaired(w) /\ ~EndsInLead(w))

LEMMA SearchingStands ==
  ASSUME NEW s \in Seq(Units)
  PROVE  Searched(s)
<1> DEFINE T == {w \in Seq(Units) : Searched(w)}
<1>1. << >> \in T
  <2>1. Searching(<< >>) = [lead |-> FALSE, found |-> FALSE, n |-> 0, trail |-> FALSE]
    BY SearchingSteps DEF SearchBase
  <2>2. /\ Searching(<< >>).lead = FALSE /\ Searching(<< >>).found = FALSE
        /\ Searching(<< >>).n = 0 /\ Searching(<< >>).trail = FALSE
    BY <2>1
  <2>3. << >> \in Seq(Units) /\ Len(<< >>) = 0 /\ ~EndsInLead(<< >>)
    BY DEF EndsInLead
  <2>4. Searched(<< >>)
    BY <2>2, <2>3, StandsAtStart DEF Searched
  <2> QED BY <2>3, <2>4
<1>2. ASSUME NEW w \in Seq(Units), NEW u \in Units, w \in T PROVE Append(w, u) \in T
  <2> DEFINE a == Searching(w)
             v == Append(w, u)
             d == Searching(v)
  <2>1. a \in SearchStates /\ d = SearchStep(a, u)
    BY SearchingSteps
  <2>2. v \in Seq(Units) /\ Len(w) \in Nat /\ Len(v) = Len(w) + 1 /\ (EndsInLead(v) <=> u = "L")
    BY AppendUnit
  <2>3. LeadsPaired(v) <=> LeadsPaired(w) /\ (EndsInLead(w) => u = "T")
    BY AppendPairs
  <2>4. /\ a.n <= Len(w) /\ a.n \in Nat
        /\ ~a.found => LeadsPaired(w) /\ (a.lead <=> EndsInLead(w)) /\ ~a.trail
        /\ a.found => ~a.lead /\ (a.trail /\ a.n = Len(w) => LeadsPaired(w) /\ ~EndsInLead(w))
    BY <1>2, <2>1 DEF Searched, SearchStates
  <2> HIDE DEF a, v, d
  <2>5. /\ d.n <= Len(v)
        /\ ~d.found => LeadsPaired(v) /\ (d.lead <=> EndsInLead(v)) /\ ~d.trail
        /\ d.found => ~d.lead /\ (d.trail /\ d.n = Len(v) => LeadsPaired(v) /\ ~EndsInLead(v))
    <3>1. CASE a.found
      <4>1. d = a
        BY <2>1, <3>1, SearchStepCases
      <4>2. d.n <= Len(v) /\ d.n # Len(v)
        BY <2>2, <2>4, <4>1
      <4> QED BY <2>4, <3>1, <4>1, <4>2
    <3>2. CASE ~a.found /\ a.lead
      <4>1. d = [lead |-> FALSE, found |-> u # "T", n |-> a.n + 1, trail |-> a.trail]
        BY <2>1, <3>2, SearchStepCases
      <4>2. d.lead = FALSE /\ d.found = (u # "T") /\ d.n = a.n + 1 /\ d.trail = a.trail
        BY <4>1
      <4>3. d.n <= Len(v)
        BY <2>2, <2>4, <4>2
      <4> QED BY <2>2, <2>3, <2>4, <3>2, <4>2, <4>3
    <3>3. CASE ~a.found /\ ~a.lead
      <4>1. d = [lead |-> u = "L", found |-> u = "T", n |-> a.n + 1, trail |-> u = "T"]
        BY <2>1, <3>3, SearchStepCases
      <4>2. d.lead = (u = "L") /\ d.found = (u = "T") /\ d.n = a.n + 1 /\ d.trail = (u = "T")
        BY <4>1
      <4>3. d.n <= Len(v)
        BY <2>2, <2>4, <4>2
      <4> QED BY <2>2, <2>3, <2>4, <3>3, <4>2, <4>3
    <3> QED BY <3>1, <3>2, <3>3
  <2>6. Searched(v)
    BY <2>5 DEF Searched, d
  <2> QED BY <2>2, <2>6 DEF v
<1>3. Seq(Units) \subseteq T
  <2> HIDE DEF T
  <2> QED BY <1>1, <1>2, SequencesReached
<1> QED BY <1>3

\* A text that is converted as it is has its leads paired, and may only end in a trail alone.
LEMMA FoundPaired ==
  ASSUME NEW s \in Seq(Units), FoundNoInvalid(s)
  PROVE  LeadsPaired(s) /\ ~EndsInLead(s)
<1> DEFINE a == Searching(s)
<1>1. ~a.lead /\ (a.found => a.trail /\ a.n = Len(s))
  BY SearchesUnits
<1>2. /\ ~a.found => LeadsPaired(s) /\ (a.lead <=> EndsInLead(s))
      /\ a.found => (a.trail /\ a.n = Len(s) => LeadsPaired(s) /\ ~EndsInLead(s))
  BY SearchingStands DEF Searched
<1> QED BY <1>1, <1>2

\* The text that utf16_to_utf8_lenient encodes.
Checked(s) == IF FoundNoInvalid(s) THEN s ELSE utf16_replace_invalid(s)

LEMMA CheckedText ==
  ASSUME NEW s \in Seq(Units), NoTwoLeads(s)
  PROVE  LET w == Checked(s)
         IN  /\ w \in Seq(Units) /\ LeadsPaired(w) /\ ~EndsInLead(w) /\ Repaired(w) = Repaired(s)
             /\ utf16_to_utf8_lenient(s) = Encoding(w).out
<1> DEFINE w == Checked(s)
<1>1. utf16_to_utf8_lenient(s) = Encoding(w).out
  BY EncodesUnits DEF utf16_to_utf8_lenient, Checked
<1>2. CASE FoundNoInvalid(s)
  <2>1. w = s
    BY <1>2 DEF Checked
  <2> QED BY <1>1, <1>2, <2>1, FoundPaired
<1>3. CASE ~FoundNoInvalid(s)
  <2>1. w = Repaired(s)
    BY <1>3, ReplacesInvalid DEF Checked
  <2>2. w \in Seq(Units) /\ LeadsPaired(w) /\ ~EndsInLead(w) /\ Repaired(w) = w
    BY <2>1, RepairedTwice, RepairedType
  <2> QED BY <1>1, <2>1, <2>2
<1> QED BY <1>2, <1>3

\* To UTF-8 and back, a text without two leads in a row is repaired: utf16_to_utf8_lenient
\* and utf8_to_utf16_lenient lose nothing but the units without a partner.
THEOREM RoundTrip ==
  ASSUME NEW s \in Seq(Units), NoTwoLeads(s)
  PROVE  utf8_to_utf16_lenient(utf16_to_utf8_lenient(s)) = Repaired(s)
<1> DEFINE w == Checked(s)
           e == Encoding(w)
<1>1. /\ w \in Seq(Units) /\ LeadsPaired(w) /\ ~EndsInLead(w) /\ Repaired(w) = Repaired(s)
      /\ utf16_to_utf8_lenient(s) = e.out
  BY CheckedText
<1> HIDE DEF w
<1>2. Decoding(e.out).have = 0 /\ StandsAt(w, e.lead, Decoding(e.out).out)
  BY <1>1, DecodingStands
<1> HIDE DEF e
<1>3. Decoding(e.out).out = Repaired(w)
  BY <1>1, <1>2 DEF StandsAt
<1>4. utf8_to_utf16_lenient(e.out) = Decoding(e.out).out
  BY <1>2, DecodesBytes
<1> QED BY <1>1, <1>3, <1>4
----------------------------------------------------------------------------
(***************************************************************************)
(* Output through a buffer that may cut the last character.                *)
(***************************************************************************)
LEMMA FirstPart ==
  ASSUME NEW S, NEW s \in Seq(S), NEW k \in 0..Len(s)
  PROVE  /\ SubSeq(s, 1, k) \in Seq(S) /\ Len(SubSeq(s, 1, k)) = k
         /\ \A i \in 1..k : SubSeq(s, 1, k)[i] = s[i]
<1>1. Len(s) \in Nat /\ \A i \in 1..k : s[i] \in S
  OBVIOUS
<1>2. /\ SubSeq(s, 1, k) \in Seq(S) /\ Len(SubSeq(s, 1, k)) = IF 1 <= k THEN k - 1 + 1 ELSE 0
      /\ \A i \in 1..(k - 1 + 1) : SubSeq(s, 1, k)[i] = s[1 + i - 1]
  BY <1>1, SubSeqProperties
<1>3. \A i \in 1..k : i \in 1..(k - 1 + 1) /\ 1 + i - 1 = i
  BY <1>1
<1> QED BY <1>1, <1>2, <1>3

\* The bytes of a character follow one another.
Regular(b) ==
  \A i \in 1..Len(b) : /\ b[i][2] <= Width(b[i][1])
                       /\ i > 1 /\ b[i][2] > 1 => b[i - 1] = <<b[i][1], b[i][2] - 1>>

LEMMA RegularFirst ==
  ASSUME NEW b \in Seq(Bytes), NEW k \in 0..Len(b), Regular(b)
  PROVE  Regular(SubSeq(b, 1, k))
<1> DEFINE c == SubSeq(b, 1, k)
<1>1. Len(c) = k /\ \A i \in 1..k : c[i] = b[i]
  BY FirstPart
<1> HIDE DEF c
<1>2. ASSUME NEW i \in 1..k
      PROVE  c[i] = b[i] /\ (i > 1 => c[i - 1] = b[i - 1]) /\ i \in 1..Len(b)
  <2>1. Len(b) \in Nat
    OBVIOUS
  <2> QED BY <1>1, <2>1
<1>3. Regular(c)
  BY <1>1, <1>2 DEF Regular
<1> QED BY <1>3 DEF c

LEMMA RegularAppend ==
  ASSUME NEW b \in Seq(Bytes), NEW x \in Bytes, Regular(Append(b, x))
  PROVE  /\ Regular(b) /\ x[2] <= Width(x[1])
         /\ b # << >> /\ x[2] > 1 => b[Len(b)] = <<x[1], x[2] - 1>>
<1> DEFINE w == Append(b, x)
           n == Len(b)
<1>1. w \in Seq(Bytes) /\ n \in Nat /\ Len(w) = n + 1 /\ w[n + 1] = x /\ \A i \in 1..n : w[i] = b[i]
  BY AppendProperties
<1>2. b # << >> => n \in 1..n
  OBVIOUS
<1> HIDE DEF w, n
<1>3. Regular(w)
  BY DEF w
<1>4. Regular(b)
  <2> SUFFICES ASSUME NEW i \in 1..n
               PROVE  /\ b[i][2] <= Width(b[i][1])
                      /\ i > 1 /\ b[i][2] > 1 => b[i - 1] = <<b[i][1], b[i][2] - 1>>
    BY DEF Regular, n
  <2>1. i \in 1..(n + 1) /\ w[i] = b[i] /\ (i > 1 => w[i - 1] = b[i - 1])
    BY <1>1
  <2> QED BY <1>1, <1>3, <2>1 DEF Regular
<1>5. n + 1 \in 1..(n + 1) /\ (n + 1) - 1 = n /\ (n \in 1..n => n + 1 > 1)
  BY <1>1
<1>6. /\ w[n + 1][2] <= Width(w[n + 1][1])
      /\ n + 1 > 1 /\ w[n + 1][2] > 1 => w[(n + 1) - 1] = <<w[n + 1][1], w[n + 1][2] - 1>>
  BY <1>1, <1>3, <1>5 DEF Regular
<1> QED BY <1>1, <1>2, <1>4, <1>5, <1>6 DEF n

LEMMA RegularEncoded ==
  ASSUME NEW b \in Seq(Bytes), NEW ch \in Characters, Regular(b)
  PROVE  Regular(b \o Encoded(ch)) /\ b \o Encoded(ch) \in Seq(Bytes)
<1> DEFINE e == Encoded(ch)
           w == b \o e
           n == Len(b)
           m == Width(ch)
<1>1. e \in Seq(Bytes) /\ Len(e) = m /\ m \in 1..4 /\ \A k \in 1..m : e[k] = <<ch, k>>
  BY EncodedBytes, CharacterUnits
<1> HIDE DEF e
<1>2. /\ w \in Seq(Bytes) /\ Len(w) = n + m /\ n \in Nat
      /\ \A i \in 1..(n + m) : w[i] = IF i <= n THEN b[i] ELSE e[i - n]
  BY <1>1, ConcatProperties
<1> HIDE DEF w, n
<1>3. ASSUME NEW i \in 1..(n + m)
      PROVE  /\ w[i][2] <= Width(w[i][1])
             /\ i > 1 /\ w[i][2] > 1 => w[i - 1] = <<w[i][1], w[i][2] - 1>>
  <2>1. CASE i <= n
    <3>1. i \in 1..n /\ w[i] = b[i] /\ (i > 1 => w[i - 1] = b[i - 1])
      BY <1>1, <1>2, <2>1
    <3> QED BY <3>1 DEF Regular, n
  <2>2. CASE i > n
    <3> HIDE DEF m
    <3>1. i - n \in 1..m /\ w[i] = e[i - n]
      BY <1>1, <1>2, <2>2
    <3>2. w[i] = <<ch, i - n>>
      BY <1>1, <3>1
    <3>3. w[i][1] = ch /\ w[i][2] = i - n
      BY <3>2
    <3>4. i - n > 1 => w[i - 1] = <<ch, i - n - 1>>
      <4> SUFFICES ASSUME i - n > 1 PROVE w[i - 1] = <<ch, i - n - 1>>
        OBVIOUS
      <4>1. i - 1 \in 1..(n + m) /\ ~(i - 1 <= n) /\ (i - 1) - n = i - n - 1 /\ i - n - 1 \in 1..m
        BY <1>1, <1>2, <2>2, <3>1
      <4>2. w[i - 1] = e[(i - 1) - n]
        BY <1>2, <4>1
      <4> QED BY <1>1, <4>1, <4>2
    <3>5. i - n <= m
      BY <3>1
    <3> QED BY <3>3, <3>4, <3>5 DEF m
  <2> QED BY <1>1, <1>2, <2>1, <2>2
<1>4. Regular(w)
  BY <1>2, <1>3 DEF Regular
<1> QED BY <1>2, <1>4 DEF w, e

\* utf16to8 writes whole characters.
LEMMA RegularEncoding ==
  ASSUME NEW s \in Seq(Units)
  PROVE  Regular(Encoding(s).out) /\ Encoding(s).out \in Seq(Bytes)
<1> DEFINE T == {w \in Seq(Units) : Regular(Encoding(w).out)}
<1>1. << >> \in T
  <2>1. Encoding(<< >>) = [out |-> << >>, lead |-> FALSE]
    BY EncodingSteps DEF EncodeBase
  <2>2. Encoding(<< >>).out = << >> /\ Len(<< >>) = 0 /\ << >> \in Seq(Units)
    BY <2>1
  <2>3. Regular(<< >>)
    BY <2>2 DEF Regular
  <2> QED BY <2>2, <2>3
<1>2. ASSUME NEW w \in Seq(Units), NEW u \in Units, w \in T PROVE Append(w, u) \in T
  <2> DEFINE a == Encoding(w)
             d == Encoding(Append(w, u))
  <2>1. a \in EncodeStates /\ d = EncodeStep(a, u) /\ Append(w, u) \in Seq(Units)
    BY EncodingSteps, AppendUnit
  <2>2. a.out \in Seq(Bytes) /\ Regular(a.out)
    BY <1>2, <2>1 DEF EncodeStates
  <2> HIDE DEF a, d
  <2>3. CASE a.lead
    <3> DEFINE ch == IF u = "T" THEN "4" ELSE "G"
    <3>1. ch \in Characters
      BY DEF Characters
    <3>2. d = [out |-> a.out \o Encoded(ch), lead |-> FALSE]
      BY <2>1, <2>3, EncodeStepCases
    <3>3. d.out = a.out \o Encoded(ch)
      BY <3>2
    <3> HIDE DEF ch
    <3>4. Regular(d.out)
      BY <2>2, <3>1, <3>3, RegularEncoded
    <3> QED BY <2>1, <3>4 DEF d
  <2>4. CASE ~a.lead /\ u = "L"
    <3>1. d = [out |-> a.out, lead |-> TRUE]
      BY <2>1, <2>4, EncodeStepCases
    <3>2. d.out = a.out
      BY <3>1
    <3> QED BY <2>1, <2>2, <3>2 DEF d
  <2>5. CASE ~a.lead /\ u # "L"
    <3>1. d = [out |-> a.out \o Encoded(u), lead |-> FALSE]
      BY <2>1, <2>5, EncodeStepCases
    <3>2. d.out = a.out \o Encoded(u) /\ u \in Characters
      BY <2>5, <3>1 DEF Units, Characters
    <3>3. Regular(d.out)
      BY <2>2, <3>2, RegularEncoded
    <3> QED BY <2>1, <3>3 DEF d
  <2> QED BY <2>3, <2>4, <2>5
<1>3. Seq(Units) \subseteq T
  <2> HIDE DEF T
  <2> QED BY <1>1, <1>2, SequencesReached
<1>4. Encoding(s).out \in Seq(Bytes)
  BY EncodingSteps DEF EncodeStates
<1> QED BY <1>3, <1>4

\* Of whole characters, and one that is cut off, at most three bytes make a unit.
Dense(b) ==
  LET a == Decoding(b)
  IN  /\ Len(b) <= 3 * Len(a.out) + a.have
      /\ a.have > 0 => /\ b # << >> /\ a.have = b[Len(b)][2]
                       /\ a.have < Width(b[Len(b)][1])

LEMMA DecodingDense ==
  ASSUME NEW b \in Seq(Bytes), Regular(b)
  PROVE  Dense(b)
<1> DEFINE T == {c \in Seq(Bytes) : Regular(c) => Dense(c)}
<1>1. << >> \in T
  <2>1. Decoding(<< >>) = [out |-> << >>, have |-> 0]
    BY DecodingSteps DEF DecodeBase
  <2>2. Len(Decoding(<< >>).out) = 0 /\ Decoding(<< >>).have = 0
    BY <2>1
  <2>3. << >> \in Seq(Bytes) /\ Len(<< >>) = 0
    OBVIOUS
  <2>4. Dense(<< >>)
    BY <2>2, <2>3 DEF Dense
  <2> QED BY <2>3, <2>4
<1>2. ASSUME NEW c \in Seq(Bytes), NEW x \in Bytes, c \in T PROVE Append(c, x) \in T
  <2> DEFINE a == Decoding(c)
             w == Append(c, x)
             d == Decoding(w)
             done == x[2] = Width(x[1])
  <2>1. a \in DecodeStates /\ d = DecodeStep(a, x)
    BY DecodingSteps
  <2>2. a.out \in Seq(Units) /\ a.have \in Nat /\ x[2] \in 1..4 /\ Width(x[1]) \in 1..4
    <3>1. x[1] \in Characters /\ x[2] \in 1..4
      BY DEF Bytes, Characters
    <3> QED BY <2>1, <3>1, CharacterUnits DEF DecodeStates
  <2>3. w \in Seq(Bytes) /\ w # << >> /\ Len(c) \in Nat /\ Len(w) = Len(c) + 1 /\ w[Len(w)] = x
    BY AppendProperties
  <2> SUFFICES ASSUME Regular(w) PROVE Dense(w)
    BY <2>3
  <2>4. /\ Regular(c) /\ x[2] <= Width(x[1])
        /\ c # << >> /\ x[2] > 1 => c[Len(c)] = <<x[1], x[2] - 1>>
    BY RegularAppend
  <2>5. /\ Len(c) <= 3 * Len(a.out) + a.have
        /\ a.have > 0 => c # << >> /\ a.have = c[Len(c)][2] /\ a.have < Width(c[Len(c)][1])
    BY <1>2, <2>4 DEF Dense
  <2>6. PICK e \in Seq(Units) : Adds(a, x, d, e)
    BY <2>1, DecodeStepAdds
  <2>7. Len(e) \in Nat /\ Len(a.out) \in Nat
    BY <2>2
  <2>8. a.have > 0 => a.have <= 3
    <3> SUFFICES ASSUME a.have > 0 PROVE a.have <= 3
      OBVIOUS
    <3>1. c # << >> /\ a.have < Width(c[Len(c)][1])
      BY <2>5
    <3>2. c[Len(c)] \in Bytes
      BY <3>1
    <3>3. c[Len(c)][1] \in Characters
      BY <3>2 DEF Bytes, Characters
    <3>4. Width(c[Len(c)][1]) \in 1..4
      BY <3>3, CharacterUnits
    <3> QED BY <2>2, <3>1, <3>4
  <2>9. a.have > 0 /\ x[2] > 1 => a.have = x[2] - 1
    BY <2>4, <2>5
  <2> HIDE DEF a, d, w
  <2>10. /\ Len(c) + 1 <= 3 * Len(d.out) + d.have
         /\ d.have > 0 => d.have = x[2] /\ d.have < Width(x[1])
    <3> DEFINE m == Len(a.out)
               k == Len(e)
               n == Len(c)
               h == a.have
               v == Width(x[1])
               y == x[2]
    <3>1. /\ m \in Nat /\ k \in Nat /\ n \in Nat /\ h \in Nat /\ n <= 3 * m + h
          /\ h <= 3 /\ y \in 1..4 /\ v \in 1..4 /\ y <= v
          /\ h > 0 /\ y > 1 => h = y - 1
      BY <2>2, <2>3, <2>4, <2>5, <2>7, <2>8, <2>9
    <3>2. Len(d.out) = m + k
      BY <2>6 DEF Adds
    <3> SUFFICES n + 1 <= 3 * (m + k) + d.have /\ (d.have > 0 => d.have = y /\ d.have < v)
      BY <3>2
    <3>3. CASE y = 1
      <4>1. /\ d.have = IF y = v THEN 0 ELSE 1
            /\ k = IF h > 0 THEN (IF y = v THEN 2 ELSE 1) ELSE (IF y = v THEN 1 ELSE 0)
        BY <2>6, <3>3 DEF Adds
      <4>2. \/ d.have = 0 /\ ((k = 1 /\ h = 0) \/ k = 2)
            \/ d.have = 1 /\ v > 1 /\ ((k = 0 /\ h = 0) \/ k = 1)
        <5> HIDE DEF m, k, n, h, v, y
        <5> QED BY <3>1, <3>3, <4>1
      <4> HIDE DEF m, k, n, h, v, y
      <4> QED BY <3>1, <3>3, <4>2
    <3>4. CASE y > 1 /\ h > 0
      <4>1. d.have = (IF y = v THEN 0 ELSE h + 1) /\ k = IF y = v THEN (IF y = 4 THEN 2 ELSE 1) ELSE 0
        BY <2>6, <3>4 DEF Adds
      <4>2. \/ d.have = 0 /\ ((k = 1 /\ y <= 3) \/ k = 2)
            \/ d.have = h + 1 /\ y < v /\ k = 0
        <5> HIDE DEF m, k, n, h, v, y
        <5> QED BY <3>1, <3>4, <4>1
      <4> HIDE DEF m, k, n, h, v, y
      <4> QED BY <3>1, <3>4, <4>2
    <3>5. CASE y > 1 /\ h = 0
      <4>1. d.have = 0 /\ k = 1
        BY <2>6, <3>5 DEF Adds
      <4> HIDE DEF m, k, n, h, v, y
      <4> QED BY <3>1, <3>5, <4>1
    <3> HIDE DEF m, k, n, h, v
    <3> QED BY <3>1, <3>3, <3>4, <3>5
  <2> QED BY <2>3, <2>10 DEF Dense, d
<1>3. Seq(Bytes) \subseteq T
  <2> HIDE DEF T
  <2> QED BY <1>1, <1>2, SequencesReached
<1> QED BY <1>3

\* A sequence starts with another.
Starts(p, q) == Len(p) <= Len(q) /\ \A i \in 1..Len(p) : p[i] = q[i]

\* The units of the first bytes are the first units.
LEMMA DecodingStarts ==
  ASSUME NEW b \in Seq(Bytes), NEW k \in 0..Len(b)
  PROVE  Starts(Decoding(SubSeq(b, 1, k)).out, Decoding(b).out)
<1> DEFINE P(c) == \A j \in 0..Len(c) : Starts(Decoding(SubSeq(c, 1, j)).out, Decoding(c).out)
           T == {c \in Seq(Bytes) : P(c)}
<1>0. ASSUME NEW c \in Seq(Bytes) PROVE Starts(Decoding(c).out, Decoding(c).out)
  <2>1. Decoding(c).out \in Seq(Units)
    BY DecodingSteps DEF DecodeStates
  <2>2. Len(Decoding(c).out) \in Nat
    BY <2>1
  <2> QED BY <2>2 DEF Starts
<1>1. << >> \in T
  <2>1. << >> \in Seq(Bytes) /\ Len(<< >>) = 0 /\ 0..0 = {0}
    OBVIOUS
  <2>2. SubSeq(<< >>, 1, 0) = << >>
    BY SubSeqEmpty
  <2> QED BY <1>0, <2>1, <2>2
<1>2. ASSUME NEW c \in Seq(Bytes), NEW x \in Bytes, c \in T PROVE Append(c, x) \in T
  <2> DEFINE w == Append(c, x)
  <2>1. w \in Seq(Bytes) /\ Len(c) \in Nat /\ Len(w) = Len(c) + 1 /\ \A i \in 1..Len(c) : w[i] = c[i]
    BY AppendProperties
  <2>2. Decoding(w) = DecodeStep(Decoding(c), x) /\ Decoding(c) \in DecodeStates
    BY DecodingSteps
  <2>3. PICK e \in Seq(Units) : Adds(Decoding(c), x, Decoding(w), e)
    BY <2>2, DecodeStepAdds
  <2>4. Starts(Decoding(c).out, Decoding(w).out)
    <3> DEFINE o == Decoding(c).out
    <3>1. o \in Seq(Units) /\ Decoding(w).out = o \o e
      BY <2>2, <2>3 DEF DecodeStates, Adds
    <3> HIDE DEF o
    <3>2. /\ Len(o) \in Nat /\ Len(e) \in Nat /\ Len(o \o e) = Len(o) + Len(e)
          /\ \A i \in 1..(Len(o) + Len(e)) : (o \o e)[i] = IF i <= Len(o) THEN o[i] ELSE e[i - Len(o)]
      BY <3>1, ConcatProperties
    <3>3. \A i \in 1..Len(o) : i \in 1..(Len(o) + Len(e)) /\ i <= Len(o)
      BY <3>2
    <3>4. Starts(o, o \o e)
      BY <3>2, <3>3 DEF Starts
    <3> QED BY <3>1, <3>4 DEF o
  <2> HIDE DEF w
  <2>5. ASSUME NEW j \in 0..(Len(c) + 1)
        PROVE  Starts(Decoding(SubSeq(w, 1, j)).out, Decoding(w).out)
    <3>1. CASE j = Len(c) + 1
      <4>1. SubSeq(w, 1, j) = w
        BY <2>1, <3>1, SubSeqFull
      <4> QED BY <1>0, <2>1, <4>1
    <3>2. CASE j \in 0..Len(c)
      <4>1. SubSeq(w, 1, j) = SubSeq(c, 1, j)
        <5>1. j \in 0..Len(w) /\ \A i \in 1..j : i \in 1..Len(c)
          BY <2>1, <3>2
        <5>2. /\ SubSeq(w, 1, j) \in Seq(Bytes) /\ Len(SubSeq(w, 1, j)) = j
              /\ \A i \in 1..j : SubSeq(w, 1, j)[i] = w[i]
          BY <2>1, <5>1, FirstPart
        <5>3. /\ SubSeq(c, 1, j) \in Seq(Bytes) /\ Len(SubSeq(c, 1, j)) = j
              /\ \A i \in 1..j : SubSeq(c, 1, j)[i] = c[i]
          BY <3>2, FirstPart
        <5>4. \A i \in 1..j : SubSeq(w, 1, j)[i] = SubSeq(c, 1, j)[i]
          BY <2>1, <5>1, <5>2, <5>3
        <5> QED BY <5>2, <5>3, <5>4, SeqEqual
      <4> DEFINE p == Decoding(SubSeq(c, 1, j)).out
                 q == Decoding(c).out
                 r == Decoding(w).out
      <4>2. Starts(p, q)
        BY <1>2, <3>2
      <4>3. p \in Seq(Units) /\ q \in Seq(Units) /\ r \in Seq(Units)
        <5>1. SubSeq(c, 1, j) \in Seq(Bytes)
          BY <3>2, FirstPart
        <5> QED BY <2>1, <5>1, DecodingSteps DEF DecodeStates
      <4>4. Len(p) \in Nat /\ Len(q) \in Nat /\ Len(r) \in Nat
        BY <4>3
      <4>5. Starts(q, r)
        BY <2>4
      <4> HIDE DEF p, q, r
      <4>6. \A i \in 1..Len(p) : i \in 1..Len(q)
        BY <4>2, <4>4 DEF Starts
      <4>7. Starts(p, r)
        BY <4>2, <4>4, <4>5, <4>6 DEF Starts
      <4> QED BY <4>1, <4>7 DEF p, r
    <3> QED BY <2>1, <3>1, <3>2
  <2> QED BY <2>1, <2>5 DEF w
<1>3. Seq(Bytes) \subseteq T
  <2> HIDE DEF T
  <2> QED BY <1>1, <1>2, SequencesReached
<1> QED BY <1>3

LEMMA PrefixAs ==
  ASSUME NEW S, NEW s \in Seq(S), NEW n \in Nat
  PROVE  /\ n <= Len(s) => Prefix(s, n) = SubSeq(s, 1, n)
         /\ n >= Len(s) => Prefix(s, n) = s
<1>1. Len(s) \in Nat /\ SubSeq(s, 1, Len(s)) = s
  BY SubSeqFull
<1>2. n < Len(s) => Prefix(s, n) = SubSeq(s, 1, n)
  BY DEF Prefix
<1>3. ~(n < Len(s)) => Prefix(s, n) = SubSeq(s, 1, Len(s))
  BY DEF Prefix
<1>4. CASE n < Len(s)
  BY <1>1, <1>2, <1>4
<1>5. CASE ~(n < Len(s))
  <2>1. n <= Len(s) => n = Len(s)
    <3> DEFINE l == Len(s)
    <3>1. l \in Nat /\ ~(n < l)
      BY <1>1, <1>5
    <3> HIDE DEF l
    <3>2. n <= l => n = l
      BY <3>1
    <3> QED BY <3>2 DEF l
  <2> QED BY <1>1, <1>3, <1>5, <2>1
<1> QED BY <1>4, <1>5

\* Two sequences that start alike have the same prefix.
LEMMA PrefixOfStart ==
  ASSUME NEW S, NEW p \in Seq(S), NEW q \in Seq(S), NEW n \in Nat, Starts(p, q), n <= Len(p)
  PROVE  Prefix(p, n) = Prefix(q, n)
<1>1. Len(p) \in Nat /\ Len(q) \in Nat /\ Len(p) <= Len(q)
  BY DEF Starts
<1>2. n \in 0..Len(p) /\ n \in 0..Len(q) /\ \A i \in 1..n : i \in 1..Len(p)
  BY <1>1
<1>3. Prefix(p, n) = SubSeq(p, 1, n) /\ Prefix(q, n) = SubSeq(q, 1, n)
  <2>1. n <= Len(q)
    BY <1>2
  <2> QED BY <2>1, PrefixAs
<1>4. /\ SubSeq(p, 1, n) \in Seq(S) /\ Len(SubSeq(p, 1, n)) = n
      /\ \A i \in 1..n : SubSeq(p, 1, n)[i] = p[i]
  BY <1>2, FirstPart
<1>5. /\ SubSeq(q, 1, n) \in Seq(S) /\ Len(SubSeq(q, 1, n)) = n
      /\ \A i \in 1..n : SubSeq(q, 1, n)[i] = q[i]
  BY <1>2, FirstPart
<1>6. \A i \in 1..n : SubSeq(p, 1, n)[i] = SubSeq(q, 1, n)[i]
  BY <1>2, <1>4, <1>5 DEF Starts
<1>7. SubSeq(p, 1, n) = SubSeq(q, 1, n)
  BY <1>4, <1>5, <1>6, SeqEqual
<1> QED BY <1>3, <1>7

\* At most three bytes are written for a unit.
LEMMA EncodedLength ==
  ASSUME NEW s \in Seq(Units), NoTwoLeads(s)
  PROVE  LET m == utf16_to_utf8_lenient(s)
         IN  /\ m \in Seq(Bytes) /\ Regular(m) /\ Len(m) <= 3 * Len(s)
             /\ Decoding(m).have = 0 /\ Decoding(m).out = Repaired(s)
<1> DEFINE w == Checked(s)
           m == utf16_to_utf8_lenient(s)
<1>1. /\ w \in Seq(Units) /\ LeadsPaired(w) /\ ~EndsInLead(w) /\ Repaired(w) = Repaired(s)
      /\ m = Encoding(w).out
  BY CheckedText
<1> HIDE DEF w
<1>2. m \in Seq(Bytes) /\ Regular(m)
  BY <1>1, RegularEncoding
<1>3. Decoding(m).have = 0 /\ Decoding(m).out = Repaired(s)
  <2>1. Decoding(m).have = 0 /\ StandsAt(w, Encoding(w).lead, Decoding(m).out)
    BY <1>1, DecodingStands
  <2> QED BY <1>1, <2>1 DEF StandsAt
<1> HIDE DEF m
<1>4. Len(m) <= 3 * Len(Decoding(m).out) + Decoding(m).have
  BY <1>2, DecodingDense DEF Dense
<1>5. Len(Repaired(s)) = Len(s) /\ Len(s) \in Nat /\ Len(m) \in Nat
  BY <1>2, RepairedType
<1>6. Len(m) <= 3 * Len(s)
  BY <1>3, <1>4, <1>5
<1> QED BY <1>2, <1>3, <1>6 DEF m

\* The narrow function's buffer has three bytes for a unit: where it cuts a character, the
\* cut is behind what the wide buffer takes.  The room is that of utf8_alloc_out_vec, at
\* most SQL_SHRT_MAX bytes.
THEOREM OutputWhole ==
  ASSUME NEW s \in Seq(Units), NoTwoLeads(s), NEW n \in Nat \ {0},
         3 * n <= MaxShort \/ 3 * Len(s) < MaxShort
  PROVE  /\ utf8_alloc_out_vec(n) # 0
         /\ utf16_write_str(WriteStringUtf8(utf16_to_utf8_lenient(s), utf8_alloc_out_vec(n)), n)
              = Prefix(Repaired(s), n - 1)
<1> DEFINE m == utf16_to_utf8_lenient(s)
           a == utf8_alloc_out_vec(n)
           b == Prefix(m, a - 1)
           o == Decoding(b).out
           r == Repaired(s)
<1>1. /\ m \in Seq(Bytes) /\ Regular(m) /\ Len(m) <= 3 * Len(s) /\ Len(m) \in Nat
      /\ Decoding(m).out = r /\ r \in Seq(Units) /\ utf8_to_utf16_lenient(m) = r
  BY EncodedLength, RepairedType, RoundTrip
<1>2. a \in Nat \ {0} /\ (a = 3 * n \/ (a = MaxShort /\ 3 * Len(s) < MaxShort))
  <2>1. MaxShort \in Nat \ {0}
    BY WidecharAssumption
  <2> QED BY <2>1 DEF utf8_alloc_out_vec
<1>3. WriteStringUtf8(m, a) = b
  BY <1>2 DEF WriteStringUtf8
<1>4. utf16_write_str(b, n) = Prefix(utf8_to_utf16_lenient(b), n - 1)
  BY DEF utf16_write_str
<1>5. a - 1 \in Nat /\ n - 1 \in Nat /\ Len(s) \in Nat
  BY <1>2
<1> HIDE DEF m, a, r
<1>6. Prefix(utf8_to_utf16_lenient(b), n - 1) = Prefix(r, n - 1)
  <2>1. CASE a - 1 >= Len(m)
    <3>1. b = m
      BY <1>1, <1>5, <2>1, PrefixAs
    <3> QED BY <1>1, <3>1
  <2>2. CASE a - 1 < Len(m)
    <3>1. a = 3 * n
      BY <1>1, <1>2, <1>5, <2>2
    <3>2. b = SubSeq(m, 1, a - 1) /\ a - 1 \in 0..Len(m)
      <4>1. a - 1 <= Len(m) /\ a - 1 \in 0..Len(m)
        BY <1>1, <1>5, <2>2
      <4> QED BY <1>1, <1>5, <4>1, PrefixAs
    <3>3. b \in Seq(Bytes) /\ Len(b) = 3 * n - 1 /\ Regular(b)
      BY <1>1, <3>1, <3>2, FirstPart, RegularFirst
    <3>4. Starts(o, r)
      BY <1>1, <3>2, DecodingStarts
    <3>5. o \in Seq(Units) /\ Decoding(b).have \in Nat
      BY <3>3, DecodingSteps DEF DecodeStates
    <3>6. Len(b) <= 3 * Len(o) + Decoding(b).have /\ Decoding(b).have <= 3
      <4>1. /\ Len(b) <= 3 * Len(o) + Decoding(b).have
            /\ Decoding(b).have > 0 => b # << >> /\ Decoding(b).have < Width(b[Len(b)][1])
        BY <3>3, DecodingDense DEF Dense
      <4>2. b # << >> => b[Len(b)] \in Bytes
        BY <3>3
      <4>3. b # << >> => Width(b[Len(b)][1]) \in 1..4
        BY <4>2, CharacterUnits DEF Bytes, Characters
      <4> QED BY <3>5, <4>1, <4>3
    <3> DEFINE h == Decoding(b).have
               k == Len(o)
    <3>7. k \in Nat /\ h \in Nat /\ h <= 3 /\ 3 * n - 1 <= 3 * k + h
      BY <3>3, <3>5, <3>6
    <3>8. n - 1 <= k
      <4> HIDE DEF h, k
      <4> QED BY <3>7
    <3>9. Prefix(o, n - 1) = Prefix(r, n - 1)
      BY <1>1, <1>5, <3>4, <3>5, <3>8, PrefixOfStart
    <3>10. utf8_to_utf16_lenient(b) = IF h > 0 THEN Append(o, "R") ELSE o
      BY DecodesBytes
    <3>11. Append(o, "R") \in Seq(Units) /\ Starts(o, Append(o, "R"))
      <4>1. "R" \in Units
        BY DEF Units
      <4>2. /\ Append(o, "R") \in Seq(Units) /\ k \in Nat /\ Len(Append(o, "R")) = k + 1
            /\ \A i \in 1..k : Append(o, "R")[i] = o[i]
        BY <3>5, <4>1, AppendProperties
      <4> HIDE DEF o
      <4>3. k <= k + 1
        BY <4>2
      <4> QED BY <4>2, <4>3 DEF Starts
    <3>12. Prefix(Append(o, "R"), n - 1) = Prefix(o, n - 1)
      <4> HIDE DEF o
      <4> QED BY <1>5, <3>5, <3>8, <3>11, PrefixOfStart
    <3> QED BY <3>9, <3>10, <3>12
  <2> QED BY <1>1, <1>5, <2>1, <2>2
<1> QED BY <1>2, <1>3, <1>4, <1>6 DEF m, a, r
=============================================================================
