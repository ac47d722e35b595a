--------------------------- MODULE SequenceLemmas ---------------------------
(***************************************************************************)
(* What Gather makes of a sequence, and the greatest index of a set: the   *)
(* facts about sequences the other proofs rest on.  FlattenSeq is defined  *)
(* by recursion over the indexes.  The library's induction theorems take a *)
(* predicate as a parameter; here induction is over sets of numbers, which *)
(* are values, and rests on the library's well-foundedness of <.           *)
(***************************************************************************)
EXTENDS Integers, Gathering, SequenceTheorems, WellFoundedInduction, TLAPS

----------------------------------------------------------------------------
(* 1. Induction.                                                           *)

\* A set of natural numbers that is not empty has a least element.
LEMMA LeastElement ==
    ASSUME NEW T \in SUBSET Nat, T # {}
    PROVE  \E m \in T : \A k \in T : m <= k
<1>. DEFINE R == {ss \in Nat \X Nat : ss[1] < ss[2]}
<1>1. IsWellFoundedOn(R, Nat)
  BY NatLessThanWellFounded DEF OpToRel
<1>2. \E x \in T : \A y \in T : ~(<<y, x>> \in R)
  <2>. HIDE DEF R
  <2>. QED  BY <1>1, WFMin
<1>3. ASSUME NEW x \in T, NEW y \in T, ~(<<y, x>> \in R)  PROVE x <= y
  <2>1. <<y, x>> \in Nat \X Nat
    OBVIOUS
  <2>2. ~(<<y, x>>[1] < <<y, x>>[2])
    BY <1>3, <2>1
  <2>. QED  BY <2>2
<1>. HIDE DEF R
<1>. QED  BY <1>2, <1>3

\* A set that has 0 and with n also n + 1 has every natural number.
LEMMA SetInduction ==
    ASSUME NEW S, 0 \in S, \A n \in Nat : n \in S => n + 1 \in S
    PROVE  Nat \subseteq S
<1>. SUFFICES ASSUME Nat \ S # {}  PROVE FALSE
  OBVIOUS
<1>1. PICK m \in Nat \ S : \A k \in Nat \ S : m <= k
  BY LeastElement
<1>2. m - 1 \in Nat /\ m - 1 \in S
  BY <1>1
<1>. QED  BY <1>1, <1>2

\* A set of indexes that is not empty has a greatest element, which Max returns.
LEMMA GreatestIndex ==
    ASSUME NEW n \in Nat, NEW T \in SUBSET (1..n), T # {}
    PROVE  Max(T) \in T /\ \A k \in T : k <= Max(T)
<1>. DEFINE U == {n - k : k \in T}
<1>1. U \in SUBSET Nat /\ U # {}
  <2>1. \A k \in T : n - k \in Nat
    OBVIOUS
  <2>2. PICK k \in T : TRUE
    OBVIOUS
  <2>3. n - k \in U
    BY <2>2
  <2>. QED  BY <2>1, <2>3
<1>2. PICK u \in U : \A v \in U : u <= v
  BY <1>1, LeastElement
<1>3. PICK m \in T : u = n - m
  BY <1>2
<1>4. \A k \in T : m >= k
  <2>. TAKE k \in T
  <2>1. u <= n - k
    BY <1>2
  <2>. QED  BY <1>3, <2>1
<1>5. \E x \in T : \A k \in T : x >= k
  BY <1>4
<1>6. Max(T) \in T /\ \A k \in T : Max(T) >= k
  BY <1>5 DEF Max
<1>. QED  BY <1>6

\* An index after all of them is the greatest.
LEMMA NewGreatestIndex ==
    ASSUME NEW n \in Nat, NEW T \in SUBSET (1..n)
    PROVE  Max(T \cup {n + 1}) = n + 1
<1>. DEFINE U == T \cup {n + 1}
<1>1. U \in SUBSET (1..(n + 1)) /\ U # {} /\ n + 1 \in Nat
  OBVIOUS
<1>2. Max(U) \in U /\ \A k \in U : k <= Max(U)
  <2>. HIDE DEF U
  <2>. QED  BY <1>1, GreatestIndex
<1>. DEFINE m == Max(U)
<1>3. m \in 1..(n + 1) /\ n + 1 <= m
  <2>1. n + 1 \in U
    OBVIOUS
  <2>. HIDE DEF U
  <2>. QED  BY <1>1, <1>2, <2>1
<1>. HIDE DEF m
<1>4. m = n + 1
  BY <1>3
<1>. QED  BY <1>4 DEF m

----------------------------------------------------------------------------
(* 2. FlattenSeq.                                                          *)

\* f[i] is the first i elements of s in one, for i up to n.
Flattens(f, s, n) ==
    /\ DOMAIN f = 1..n
    /\ \A i \in 1..n : f[i] = IF i = 1 THEN s[i] ELSE f[i - 1] \o s[i]

\* One step of it.
LEMMA FlattensStep ==
    ASSUME NEW s, NEW m \in Nat, NEW f, Flattens(f, s, m), NEW n \in Nat, n + 1 \in 1..m
    PROVE  f[n + 1] = IF n = 0 THEN s[n + 1] ELSE f[n] \o s[n + 1]
<1>. DEFINE k == n + 1
<1>1. k \in 1..m /\ k - 1 = n /\ (k = 1 <=> n = 0)
  OBVIOUS
<1>. HIDE DEF k
<1>2. f[k] = IF k = 1 THEN s[k] ELSE f[k - 1] \o s[k]
  BY <1>1, Zenon DEF Flattens
<1>3. f[k] = IF n = 0 THEN s[k] ELSE f[n] \o s[k]
  BY <1>1, <1>2
<1>. QED  BY <1>3 DEF k

\* The same as the equation that defines FlattenSeq's function ...
LEMMA FlattensIsEquation ==
    ASSUME NEW s, NEW n \in Nat, NEW f, Flattens(f, s, n), f = [i \in DOMAIN f |-> f[i]]
    PROVE  f = [i \in 1..n |-> IF i = 1 THEN s[i] ELSE f[i - 1] \o s[i]]
<1>. DEFINE v(i) == IF i = 1 THEN s[i] ELSE f[i - 1] \o s[i]
<1>1. DOMAIN f = 1..n /\ \A i \in 1..n : f[i] = v(i)
  BY DEF Flattens
<1>. HIDE DEF v
<1>2. f = [i \in 1..n |-> v(i)]
  BY <1>1
<1>. QED  BY <1>2 DEF v

\* ... and back.
LEMMA EquationFlattens ==
    ASSUME NEW s, NEW n \in Nat, NEW f,
           f = [i \in 1..n |-> IF i = 1 THEN s[i] ELSE f[i - 1] \o s[i]]
    PROVE  Flattens(f, s, n)
<1>. DEFINE v(i) == IF i = 1 THEN s[i] ELSE f[i - 1] \o s[i]
<1>1. f = [i \in 1..n |-> v(i)]
  OBVIOUS
<1>. HIDE DEF v
<1>2. DOMAIN f = 1..n /\ \A i \in 1..n : f[i] = v(i)
  BY <1>1
<1>. QED  BY <1>2 DEF v, Flattens

\* Its values are sequences over the same set.
LEMMA FlattenTyped ==
    ASSUME NEW S, NEW s \in Seq(Seq(S)), NEW f, Flattens(f, s, Len(s))
    PROVE  \A i \in 1..Len(s) : f[i] \in Seq(S)
<1>. DEFINE T == {n \in Nat : n \in 1..Len(s) => f[n] \in Seq(S)}
<1>1. 0 \in T
  OBVIOUS
<1>2. ASSUME NEW n \in Nat, n \in T  PROVE n + 1 \in T
  <2>. SUFFICES ASSUME n + 1 \in 1..Len(s)  PROVE f[n + 1] \in Seq(S)
    OBVIOUS
  <2>1. s[n + 1] \in Seq(S) /\ Len(s) \in Nat
    OBVIOUS
  <2>2. f[n + 1] = IF n = 0 THEN s[n + 1] ELSE f[n] \o s[n + 1]
    BY <2>1, FlattensStep
  <2>3. n # 0 => f[n] \in Seq(S)
    BY <1>2
  <2>. QED  BY <2>1, <2>2, <2>3
<1>3. Nat \subseteq T
  <2>. HIDE DEF T
  <2>. QED  BY <1>1, <1>2, SetInduction
<1>. QED  BY <1>3

\* Two sequences, or functions, have the same first n values.
Agree(f, g, n) == \A i \in 1..n : f[i] = g[i]

\* It is determined by the elements so far.
LEMMA FlattenUnique ==
    ASSUME NEW m \in Nat, NEW n \in Nat, NEW s, NEW t, NEW f, NEW g,
           m <= n, Agree(s, t, m), Flattens(f, s, m), Flattens(g, t, n)
    PROVE  Agree(f, g, m)
<1>. DEFINE T == {k \in Nat : k \in 1..m => f[k] = g[k]}
<1>1. 0 \in T
  OBVIOUS
<1>2. ASSUME NEW k \in Nat, k \in T  PROVE k + 1 \in T
  <2>. SUFFICES ASSUME k + 1 \in 1..m  PROVE f[k + 1] = g[k + 1]
    OBVIOUS
  <2>1. f[k + 1] = IF k = 0 THEN s[k + 1] ELSE f[k] \o s[k + 1]
    BY FlattensStep
  <2>2. k + 1 \in 1..n
    OBVIOUS
  <2>3. g[k + 1] = IF k = 0 THEN t[k + 1] ELSE g[k] \o t[k + 1]
    BY <2>2, FlattensStep
  <2>4. s[k + 1] = t[k + 1] /\ (k # 0 => f[k] = g[k])
    BY <1>2 DEF Agree
  <2>. QED  BY <2>1, <2>3, <2>4
<1>3. Nat \subseteq T
  <2>. HIDE DEF T
  <2>. QED  BY <1>1, <1>2, SetInduction
<1>. QED  BY <1>3 DEF Agree

\* There is one.
LEMMA FlattenExists ==
    ASSUME NEW S, NEW s \in Seq(Seq(S))
    PROVE  \E f : Flattens(f, s, Len(s)) /\ f = [i \in DOMAIN f |-> f[i]]
<1>. DEFINE P(n) == \E f : Flattens(f, s, n) /\ f = [i \in DOMAIN f |-> f[i]]
            T == {n \in Nat : P(n)}
<1>1. 0 \in T
  <2>. DEFINE e == [i \in 1..0 |-> s[i]]
  <2>1. Flattens(e, s, 0) /\ e = [i \in DOMAIN e |-> e[i]]
    BY DEF Flattens
  <2>. HIDE DEF e
  <2>. QED  BY <2>1
<1>2. ASSUME NEW n \in Nat, n \in T  PROVE n + 1 \in T
  <2>1. PICK f : Flattens(f, s, n)
    BY <1>2
  <2>. DEFINE g == [i \in 1..(n + 1) |-> IF i <= n THEN f[i]
                       ELSE IF n = 0 THEN s[n + 1] ELSE f[n] \o s[n + 1]]
  <2>2. ASSUME NEW i \in 1..(n + 1)
        PROVE  g[i] = IF i = 1 THEN s[i] ELSE g[i - 1] \o s[i]
    <3>1. CASE i \in 1..n
      <4>1. f[i] = IF i = 1 THEN s[i] ELSE f[i - 1] \o s[i]
        BY <2>1, <3>1, Zenon DEF Flattens
      <4>2. i # 1 => g[i - 1] = f[i - 1]
        BY <3>1
      <4>3. g[i] = f[i]
        BY <3>1
      <4>. QED  BY <4>1, <4>2, <4>3
    <3>2. CASE i = n + 1
      <4>1. n # 0 => g[i - 1] = f[n]
        BY <3>2
      <4>2. g[i] = IF n = 0 THEN s[i] ELSE f[n] \o s[i]
        BY <3>2
      <4>. QED  BY <3>2, <4>1, <4>2
    <3>. QED  BY <3>1, <3>2
  <2>3. DOMAIN g = 1..(n + 1) /\ g = [i \in DOMAIN g |-> g[i]]
    OBVIOUS
  <2>. HIDE DEF g
  <2>4. Flattens(g, s, n + 1)
    BY <2>2, <2>3 DEF Flattens
  <2>. QED  BY <2>3, <2>4
<1>3. Nat \subseteq T
  <2>. HIDE DEF T
  <2>. QED  BY <1>1, <1>2, SetInduction
<1>. HIDE DEF P
<1>4. P(Len(s))
  BY <1>3
<1>. QED  BY <1>4 DEF P

\* It is what FlattenSeq is read off.
LEMMA FlattenIs ==
    ASSUME NEW S, NEW s \in Seq(Seq(S)), s # <<>>
    PROVE  \E f : Flattens(f, s, Len(s)) /\ FlattenSeq(s) = f[Len(s)]
<1>. DEFINE n == Len(s)
            f == CHOOSE g : g = [i \in 1..n |-> IF i = 1 THEN s[i] ELSE g[i - 1] \o s[i]]
<1>1. n \in Nat
  OBVIOUS
<1>2. \E g : g = [i \in 1..n |-> IF i = 1 THEN s[i] ELSE g[i - 1] \o s[i]]
  <2>1. PICK g : Flattens(g, s, n) /\ g = [i \in DOMAIN g |-> g[i]]
    BY FlattenExists
  <2>2. g = [i \in 1..n |-> IF i = 1 THEN s[i] ELSE g[i - 1] \o s[i]]
    <3>. HIDE DEF n
    <3>. QED  BY <1>1, <2>1, FlattensIsEquation
  <2>. QED  BY <2>2
<1>3. f = [i \in 1..n |-> IF i = 1 THEN s[i] ELSE f[i - 1] \o s[i]]
  BY <1>2
<1>4. FlattenSeq(s) = f[n]
  BY DEF FlattenSeq
<1>. HIDE DEF f, n
<1>5. Flattens(f, s, n)
  BY <1>3, <1>1, EquationFlattens
<1>. QED  BY <1>4, <1>5 DEF n

\* No sequences make the empty sequence.
LEMMA FlattenEmpty == FlattenSeq(<<>>) = <<>>
BY DEF FlattenSeq

\* Sequences over S make a sequence over S.
LEMMA FlattenType ==
    ASSUME NEW S, NEW s \in Seq(Seq(S))
    PROVE  FlattenSeq(s) \in Seq(S)
<1>1. CASE s = <<>>
  BY <1>1, FlattenEmpty, EmptySeq
<1>2. CASE s # <<>>
  <2>1. PICK f : Flattens(f, s, Len(s)) /\ FlattenSeq(s) = f[Len(s)]
    BY <1>2, FlattenIs
  <2>2. Len(s) \in 1..Len(s)
    BY <1>2
  <2>. QED  BY <2>1, <2>2, FlattenTyped
<1>. QED  BY <1>1, <1>2

\* One more sequence comes at the end.
LEMMA FlattenAppend ==
    ASSUME NEW S, NEW s \in Seq(Seq(S)), NEW x \in Seq(S)
    PROVE  FlattenSeq(Append(s, x)) = FlattenSeq(s) \o x
<1>. DEFINE n == Len(s)
            t == Append(s, x)
<1>1. /\ n \in Nat /\ t \in Seq(Seq(S)) /\ Len(t) = n + 1 /\ t # <<>>
      /\ t[n + 1] = x /\ \A i \in 1..n : t[i] = s[i]
  <2>. DEFINE Q == Seq(S)
  <2>0. s \in Seq(Q) /\ x \in Q
    OBVIOUS
  <2>. HIDE DEF Q
  <2>1. n \in Nat /\ t \in Seq(Q) /\ Len(t) = n + 1
    BY <2>0, AppendProperties
  <2>2. t[n + 1] = x /\ \A i \in 1..n : t[i] = s[i]
    BY <2>0, AppendProperties
  <2>3. t # <<>>
    <3>. HIDE DEF t
    <3>1. Len(t) # 0
      BY <2>1
    <3>. QED  BY <3>1
  <2>. QED  BY <2>1, <2>2, <2>3 DEF Q
<1>. HIDE DEF t
<1>2. PICK g : Flattens(g, t, n + 1) /\ FlattenSeq(t) = g[n + 1]
  BY <1>1, FlattenIs
<1>3. g[n + 1] = IF n = 0 THEN t[n + 1] ELSE g[n] \o t[n + 1]
  BY <1>1, <1>2, FlattensStep
<1>4. CASE s = <<>>
  <2>1. n = 0
    BY <1>4
  <2>2. FlattenSeq(t) = x
    BY <1>1, <1>2, <1>3, <2>1
  <2>3. <<>> \o x = x
    BY ConcatEmptySeq
  <2>. QED  BY <1>4, <2>2, <2>3, FlattenEmpty DEF t
<1>5. CASE s # <<>>
  <2>1. PICK f : Flattens(f, s, n) /\ FlattenSeq(s) = f[n]
    BY <1>5, FlattenIs
  <2>2. n \in 1..n /\ n # 0
    BY <1>1, <1>5
  <2>3. \A i \in 1..n : f[i] = g[i]
    <3>1. n \in Nat /\ n + 1 \in Nat /\ n <= n + 1
      BY <1>1
    <3>2. Agree(s, t, n)
      BY <1>1 DEF Agree
    <3>. HIDE DEF n
    <3>3. Agree(f, g, n)
      BY <1>2, <2>1, <3>1, <3>2, FlattenUnique
    <3>. QED  BY <3>3 DEF Agree
  <2>. QED  BY <1>1, <1>2, <1>3, <2>1, <2>2, <2>3 DEF t
<1>. QED  BY <1>4, <1>5 DEF t

\* The first element of a sequence that was empty.
LEMMA AppendToEmpty == ASSUME NEW v PROVE Append(<<>>, v) = <<v>>
OBVIOUS

\* Sequences of no, one and two elements.
LEMMA Concats ==
    /\ <<>> \o <<>> = <<>>
    /\ \A x : <<>> \o <<x>> = <<x>> /\ <<x>> \o <<>> = <<x>>
<1>1. <<>> \o <<>> = <<>>
  BY EmptySeq, ConcatEmptySeq
<1>2. ASSUME NEW x  PROVE <<>> \o <<x>> = <<x>> /\ <<x>> \o <<>> = <<x>>
  <2>1. <<x>> \in Seq({x})
    OBVIOUS
  <2>. QED  BY <2>1, ConcatEmptySeq
<1>. QED  BY <1>1, <1>2

\* What they add to a sequence.
LEMMA AddNone ==
    ASSUME NEW E, NEW s \in Seq(E)
    PROVE  s \o <<>> = s
BY ConcatEmptySeq

LEMMA AddOne ==
    ASSUME NEW E, NEW s \in Seq(E), NEW a \in E
    PROVE  s \o <<a>> = Append(s, a) /\ Append(s, a) \in Seq(E)
OBVIOUS

\* One element or none.
LEMMA OnlyType ==
    ASSUME NEW S, NEW wanted \in BOOLEAN, NEW x, wanted => x \in S
    PROVE  Only(wanted, x) \in Seq(S)
<1>1. CASE wanted
  BY <1>1 DEF Only
<1>2. CASE ~wanted
  BY <1>2, EmptySeq DEF Only
<1>. QED  BY <1>1, <1>2

----------------------------------------------------------------------------
(* 3. Gather, for a contribution given as a function on the elements.      *)

Parts(g, s) == [i \in DOMAIN s |-> g[s[i]]]

\* The contributions are sequences.
LEMMA GatherSeq ==
    ASSUME NEW E, NEW S, NEW g \in [E -> Seq(S)], NEW s \in Seq(E)
    PROVE  Parts(g, s) \in Seq(Seq(S))
<1>1. Len(s) \in Nat /\ DOMAIN s = 1..Len(s)
  OBVIOUS
<1>2. \A i \in 1..Len(s) : g[s[i]] \in Seq(S)
  <2>1. \A i \in 1..Len(s) : s[i] \in E
    OBVIOUS
  <2>. QED  BY <2>1
<1>3. [i \in 1..Len(s) |-> g[s[i]]] \in [1..Len(s) -> Seq(S)]
  BY <1>2
<1>. DEFINE Q == Seq(S)
<1>. HIDE DEF Q
<1>4. [1..Len(s) -> Q] \subseteq Seq(Q)
  <2>1. [1..Len(s) -> Q] \in {[1..n -> Q] : n \in Nat}
    BY <1>1
  <2>2. Seq(Q) = UNION {[1..n -> Q] : n \in Nat}
    BY SeqDef
  <2>. QED  BY <2>1, <2>2, Zenon
<1>. QED  BY <1>1, <1>3, <1>4 DEF Q, Parts

\* They make a sequence.
LEMMA GatherType ==
    ASSUME NEW E, NEW S, NEW g \in [E -> Seq(S)], NEW s \in Seq(E)
    PROVE  FlattenSeq(Parts(g, s)) \in Seq(S)
BY GatherSeq, FlattenType

\* Nothing contributes nothing.
LEMMA GatherEmpty ==
    ASSUME NEW g
    PROVE  FlattenSeq(Parts(g, <<>>)) = <<>>
<1>1. Parts(g, <<>>) = <<>>
  BY DEF Parts
<1>. QED  BY <1>1, FlattenEmpty

\* One more element adds its contribution at the end.
LEMMA GatherAppend ==
    ASSUME NEW E, NEW S, NEW g \in [E -> Seq(S)], NEW s \in Seq(E), NEW x \in E
    PROVE  FlattenSeq(Parts(g, Append(s, x))) = FlattenSeq(Parts(g, s)) \o g[x]
<1>. DEFINE a == Parts(g, s)
            b == Parts(g, Append(s, x))
<1>1. a \in Seq(Seq(S)) /\ g[x] \in Seq(S)
  <2>1. a \in Seq(Seq(S))
    BY GatherSeq
  <2>. QED  BY <2>1
<1>2. b = Append(a, g[x])
  <2>. DEFINE n == Len(s)
              t == Append(s, x)
  <2>1. /\ n \in Nat /\ t \in Seq(E) /\ DOMAIN t = 1..(n + 1) /\ DOMAIN s = 1..n
        /\ t[n + 1] = x /\ \A i \in 1..n : t[i] = s[i]
    BY AppendProperties
  <2>. HIDE DEF t
  <2>2. DOMAIN a = 1..n /\ Len(a) = n /\ DOMAIN b = 1..(n + 1)
    BY <2>1 DEF t, Parts
  <2>3. \A i \in 1..n : a[i] = g[s[i]] /\ b[i] = g[s[i]]
    BY <2>1 DEF t, Parts
  <2>4. b[n + 1] = g[x]
    BY <2>1 DEF t, Parts
  <2>5. b = [i \in 1..(n + 1) |-> b[i]]
    BY <2>2 DEF Parts
  <2>. HIDE DEF a, b, n
  <2>. DEFINE Q == Seq(S)
              c == Append(a, g[x])
  <2>6. a \in Seq(Q) /\ g[x] \in Q /\ \A i \in 1..n : a[i] \in Q
    BY <1>1, <2>2
  <2>. HIDE DEF Q
  <2>7. /\ c \in Seq(Q) /\ Len(c) = n + 1 /\ c[n + 1] = g[x]
        /\ \A i \in 1..n : c[i] = a[i]
    BY <2>2, <2>6, AppendProperties
  <2>. HIDE DEF c
  <2>8. \A i \in 1..(n + 1) : b[i] = c[i] /\ c[i] \in Q
    <3>. TAKE i \in 1..(n + 1)
    <3>1. CASE i \in 1..n
      BY <2>2, <2>3, <2>6, <2>7, <3>1
    <3>2. CASE i = n + 1
      BY <2>4, <2>6, <2>7, <3>2
    <3>. QED  BY <2>1, <3>1, <3>2
  <2>9. c = [i \in 1..(n + 1) |-> c[i]]
    BY <2>7
  <2>10. b = c
    BY <2>5, <2>8, <2>9
  <2>. QED  BY <2>10 DEF c
<1>. HIDE DEF a, b
<1>3. FlattenSeq(b) = FlattenSeq(a) \o g[x]
  BY <1>1, <1>2, FlattenAppend
<1>. QED  BY <1>3 DEF a, b

\* An element that contributes itself or nothing.
LEMMA GatherOnly ==
    ASSUME NEW E, NEW S, NEW g \in [E -> Seq(S)], NEW s \in Seq(E), NEW x \in E,
           NEW wanted \in BOOLEAN, NEW v, g[x] = Only(wanted, v)
    PROVE  FlattenSeq(Parts(g, Append(s, x))) =
               IF wanted THEN Append(FlattenSeq(Parts(g, s)), v) ELSE FlattenSeq(Parts(g, s))
<1>. DEFINE a == FlattenSeq(Parts(g, s))
<1>1. a \in Seq(S) /\ FlattenSeq(Parts(g, Append(s, x))) = a \o g[x]
  BY GatherType, GatherAppend
<1>. HIDE DEF a
<1>2. CASE wanted
  <2>1. g[x] = <<v>>
    BY <1>2 DEF Only
  <2>2. v \in S
    <3>1. <<v>> \in Seq(S)
      BY <2>1
    <3>. QED  BY <3>1
  <2>3. a \o <<v>> = Append(a, v)
    BY <1>1, <2>2
  <2>. QED  BY <1>1, <1>2, <2>1, <2>3 DEF a
<1>3. CASE ~wanted
  <2>1. g[x] = <<>>
    BY <1>3 DEF Only
  <2>2. a \o <<>> = a
    BY <1>1, ConcatEmptySeq
  <2>. QED  BY <1>1, <1>3, <2>1, <2>2 DEF a
<1>. QED  BY <1>2, <1>3

----------------------------------------------------------------------------
(* 4. Gather, for the values of the elements that are wanted.              *)

Chosen(wanted, value, s) == Gather(s, LAMBDA x : Only(wanted[x], value[x]))

\* One more element adds its value if it is wanted.
LEMMA ChosenAppend ==
    ASSUME NEW E, NEW wanted \in [E -> BOOLEAN], NEW value, NEW s \in Seq(E), NEW x \in E
    PROVE  Chosen(wanted, value, Append(s, x)) =
               IF wanted[x] THEN Append(Chosen(wanted, value, s), value[x])
               ELSE Chosen(wanted, value, s)
<1>. DEFINE S == {value[y] : y \in E}
            g == [y \in E |-> Only(wanted[y], value[y])]
<1>1. g \in [E -> Seq(S)]
  <2>. SUFFICES ASSUME NEW y \in E  PROVE Only(wanted[y], value[y]) \in Seq(S)
    OBVIOUS
  <2>1. value[y] \in S /\ wanted[y] \in BOOLEAN
    OBVIOUS
  <2>. HIDE DEF S
  <2>. QED  BY <2>1, OnlyType
<1>2. ASSUME NEW t \in Seq(E)  PROVE Chosen(wanted, value, t) = FlattenSeq(Parts(g, t))
  <2>1. \A i \in DOMAIN t : t[i] \in E
    OBVIOUS
  <2>2. [i \in DOMAIN t |-> Only(wanted[t[i]], value[t[i]])] = Parts(g, t)
    BY <2>1 DEF Parts
  <2>. QED  BY <2>2 DEF Chosen, Gather
<1>3. g[x] = Only(wanted[x], value[x]) /\ Append(s, x) \in Seq(E) /\ wanted[x] \in BOOLEAN
  OBVIOUS
<1>. HIDE DEF g, S
<1>4. FlattenSeq(Parts(g, Append(s, x))) =
          IF wanted[x] THEN Append(FlattenSeq(Parts(g, s)), value[x])
          ELSE FlattenSeq(Parts(g, s))
  BY <1>1, <1>3, GatherOnly
<1>. QED  BY <1>2, <1>3, <1>4

----------------------------------------------------------------------------
(* 5. Where the elements of a kind are, and the last of them.              *)

IndexesOf(P, s) == {i \in DOMAIN s : s[i] \in P}

LastIs(P, s, x) == IndexesOf(P, s) # {} /\ s[Max(IndexesOf(P, s))] = x

SameLast(P, t, s) ==
    /\ IndexesOf(P, t) = IndexesOf(P, s)
    /\ IndexesOf(P, s) # {} => t[Max(IndexesOf(P, t))] = s[Max(IndexesOf(P, s))]

\* One more element of another kind changes nothing.
LEMMA IndexesKept ==
    ASSUME NEW E, NEW P, NEW s \in Seq(E), NEW x \in E, x \notin P
    PROVE  SameLast(P, Append(s, x), s)
<1>. DEFINE t == Append(s, x)
            n == Len(s)
            I == IndexesOf(P, s)
<1>1. /\ n \in Nat /\ DOMAIN s = 1..n /\ DOMAIN t = 1..(n + 1)
      /\ t[n + 1] = x /\ \A i \in 1..n : t[i] = s[i]
  BY AppendProperties
<1>. HIDE DEF t, n
<1>2. I \in SUBSET (1..n) /\ IndexesOf(P, t) = I
  <2>1. \A i \in 1..(n + 1) : i \in 1..n \/ i = n + 1
    BY <1>1
  <2>. QED  BY <1>1, <2>1 DEF IndexesOf
<1>. HIDE DEF I
<1>3. I # {} => t[Max(I)] = s[Max(I)]
  <2>. SUFFICES ASSUME I # {}  PROVE t[Max(I)] = s[Max(I)]
    OBVIOUS
  <2>1. Max(I) \in 1..n
    BY <1>1, <1>2, GreatestIndex
  <2>. QED  BY <1>1, <2>1
<1>. QED  BY <1>2, <1>3 DEF t, I, SameLast

\* One of the kind is the last.
LEMMA IndexesAppend ==
    ASSUME NEW E, NEW P, NEW s \in Seq(E), NEW x \in E, x \in P
    PROVE  LastIs(P, Append(s, x), x)
<1>. DEFINE t == Append(s, x)
            n == Len(s)
            I == IndexesOf(P, s)
            J == IndexesOf(P, t)
<1>1. /\ n \in Nat /\ DOMAIN s = 1..n /\ DOMAIN t = 1..(n + 1)
      /\ t[n + 1] = x /\ \A i \in 1..n : t[i] = s[i]
  BY AppendProperties
<1>. HIDE DEF t, n
<1>2. I \in SUBSET (1..n) /\ J = I \cup {n + 1}
  <2>1. \A i \in 1..(n + 1) : i \in 1..n \/ i = n + 1
    BY <1>1
  <2>. QED  BY <1>1, <2>1 DEF IndexesOf
<1>. HIDE DEF I, J
<1>3. Max(J) = n + 1 /\ J # {}
  BY <1>1, <1>2, NewGreatestIndex
<1>. QED  BY <1>1, <1>3 DEF t, J, LastIs
----------------------------------------------------------------------------
(* 6. Gathering from what was gathered.                                    *)

\* A set that has the empty sequence and is closed under Append has all.
LEMMA SequenceInduction ==
    ASSUME NEW E, NEW T, <<>> \in T,
           \A s \in Seq(E), x \in E : s \in T => Append(s, x) \in T
    PROVE  Seq(E) \subseteq T
<1>. DEFINE N == {n \in Nat : \A s \in Seq(E) : Len(s) = n => s \in T}
<1>1. 0 \in N
  OBVIOUS
<1>2. ASSUME NEW n \in Nat, n \in N  PROVE n + 1 \in N
  <2>. SUFFICES ASSUME NEW s \in Seq(E), Len(s) = n + 1  PROVE s \in T
    OBVIOUS
  <2>1. s # <<>>
    OBVIOUS
  <2>2. PICK t \in Seq(E), x \in E : s = Append(t, x)
    BY <2>1, SequenceEmptyOrAppend
  <2>3. Len(t) = n
    BY <2>2
  <2>. QED  BY <1>2, <2>2, <2>3
<1>3. Nat \subseteq N
  <2>. HIDE DEF N
  <2>. QED  BY <1>1, <1>2, SetInduction
<1>4. ASSUME NEW s \in Seq(E)  PROVE s \in T
  <2>1. Len(s) \in N
    BY <1>3
  <2>. QED  BY <2>1
<1>. QED  BY <1>4

\* Three sequences are one, whichever two are joined first.
LEMMA JoinThree ==
    ASSUME NEW S
    PROVE  \A s, t, u : s \in Seq(S) /\ t \in Seq(S) /\ u \in Seq(S) =>
               (s \o t) \o u = s \o (t \o u)
<1>. SUFFICES ASSUME NEW s \in Seq(S), NEW t \in Seq(S), NEW u \in Seq(S)
     PROVE  (s \o t) \o u = s \o (t \o u)
  OBVIOUS
<1>. QED  BY ConcatAssociative, SMTT(30)

\* Two sequences of sequences, one after the other.
LEMMA FlattenConcat ==
    ASSUME NEW S, NEW s \in Seq(Seq(S)), NEW t \in Seq(Seq(S))
    PROVE  FlattenSeq(s \o t) = FlattenSeq(s) \o FlattenSeq(t)
<1>. DEFINE Q == Seq(S)
            T == {u \in Seq(Q) : FlattenSeq(s \o u) = FlattenSeq(s) \o FlattenSeq(u)}
<1>0. \A u \in Seq(Q) : FlattenSeq(u) \in Seq(S)
  BY FlattenType
<1>1. <<>> \in T
  <2>1. <<>> \in Seq(Q) /\ s \in Seq(Q)
    BY EmptySeq
  <2>2. s \o <<>> = s
    <3>. HIDE DEF Q
    <3>. QED  BY <2>1, ConcatEmptySeq
  <2>3. FlattenSeq(s) \o <<>> = FlattenSeq(s)
    BY <1>0, <2>1, ConcatEmptySeq
  <2>. QED  BY <2>1, <2>2, <2>3, FlattenEmpty
<1>2. ASSUME NEW u \in Seq(Q), NEW x \in Q, u \in T  PROVE Append(u, x) \in T
  <2>1. s \in Seq(Q) /\ s \o u \in Seq(Q) /\ Append(u, x) \in Seq(Q)
    <3>1. s \in Seq(Q)
      OBVIOUS
    <3>. HIDE DEF Q
    <3>. QED  BY <3>1
  <2>2. s \o Append(u, x) = Append(s \o u, x)
    <3>. HIDE DEF Q
    <3>. QED  BY <2>1
  <2>3. /\ FlattenSeq(Append(s \o u, x)) = FlattenSeq(s \o u) \o x
        /\ FlattenSeq(Append(u, x)) = FlattenSeq(u) \o x
    BY <2>1, FlattenAppend
  <2>4. FlattenSeq(s) \in Seq(S) /\ FlattenSeq(u) \in Seq(S) /\ x \in Seq(S)
    BY <1>0, <2>1
  <2>5. (FlattenSeq(s) \o FlattenSeq(u)) \o x = FlattenSeq(s) \o (FlattenSeq(u) \o x)
    <3>. DEFINE a == FlattenSeq(s)
                b == FlattenSeq(u)
    <3>1. a \in Seq(S) /\ b \in Seq(S) /\ x \in Seq(S)
      BY <2>4
    <3>. HIDE DEF a, b, Q, T
    <3>. QED  BY <3>1, JoinThree
  <2>6. FlattenSeq(s \o u) = FlattenSeq(s) \o FlattenSeq(u)
    BY <1>2
  <2>. QED  BY <2>1, <2>2, <2>3, <2>5, <2>6
<1>3. Seq(Q) \subseteq T
  <2>. HIDE DEF Q, T
  <2>. QED  BY <1>1, <1>2, SequenceInduction
<1>. QED  BY <1>3

\* Contributions of one sequence after another.
LEMMA PartsConcat ==
    ASSUME NEW E, NEW g, NEW s \in Seq(E), NEW t \in Seq(E)
    PROVE  Parts(g, s \o t) = Parts(g, s) \o Parts(g, t)
<1>. DEFINE m == Len(s)
            n == Len(t)
            V == {g[x] : x \in E}
            a == Parts(g, s)
            b == Parts(g, t)
            c == Parts(g, s \o t)
            d == a \o b
<1>1. /\ m \in Nat /\ n \in Nat /\ DOMAIN s = 1..m /\ DOMAIN t = 1..n
      /\ s \o t \in Seq(E) /\ DOMAIN (s \o t) = 1..(m + n)
      /\ \A i \in 1..(m + n) : (s \o t)[i] = IF i <= m THEN s[i] ELSE t[i - m]
  BY ConcatProperties
<1>2. a \in Seq(V) /\ b \in Seq(V) /\ Len(a) = m /\ Len(b) = n
  <2>1. \A i \in 1..m : s[i] \in E
    OBVIOUS
  <2>2. \A i \in 1..n : t[i] \in E
    OBVIOUS
  <2>3. a = [i \in 1..m |-> g[s[i]]] /\ \A i \in 1..m : g[s[i]] \in V
    BY <1>1, <2>1 DEF Parts
  <2>4. b = [i \in 1..n |-> g[t[i]]] /\ \A i \in 1..n : g[t[i]] \in V
    BY <1>1, <2>2 DEF Parts
  <2>. HIDE DEF V, a, b, m, n
  <2>5. a \in Seq(V) /\ Len(a) = m
    BY <1>1, <2>3
  <2>6. b \in Seq(V) /\ Len(b) = n
    BY <1>1, <2>4
  <2>. QED  BY <2>5, <2>6
<1>3. /\ \A i \in 1..m : a[i] = g[s[i]]
      /\ \A i \in 1..n : b[i] = g[t[i]]
      /\ DOMAIN c = 1..(m + n) /\ c = [i \in DOMAIN c |-> c[i]]
  BY <1>1 DEF Parts
<1>4. \A i \in 1..(m + n) : c[i] = g[IF i <= m THEN s[i] ELSE t[i - m]]
  BY <1>1 DEF Parts
<1>. HIDE DEF a, b, c, m, n, V
<1>5. /\ d \in Seq(V) /\ Len(d) = m + n
      /\ \A i \in 1..(m + n) : d[i] = IF i <= m THEN a[i] ELSE b[i - m]
  BY <1>2, ConcatProperties
<1>. HIDE DEF d
<1>6. ASSUME NEW i \in 1..(m + n)  PROVE c[i] = d[i]
  <2>1. CASE i \in 1..m
    <3>1. i <= m
      BY <1>1, <2>1
    <3>. QED  BY <1>3, <1>4, <1>5, <2>1, <3>1
  <2>2. CASE i \notin 1..m
    <3>1. i - m \in 1..n /\ ~(i <= m)
      BY <1>1, <2>2
    <3>. QED  BY <1>3, <1>4, <1>5, <3>1
  <2>. QED  BY <2>1, <2>2
<1>7. d = [i \in 1..(m + n) |-> d[i]]
  BY <1>1, <1>5
<1>8. c = d
  BY <1>3, <1>6, <1>7
<1>. QED  BY <1>8 DEF a, b, c, d

\* What is gathered from what was gathered is gathered part by part.
PartsOfParts(g, q) == [i \in DOMAIN q |-> FlattenSeq(Parts(g, q[i]))]

LEMMA GatherGathered ==
    ASSUME NEW E, NEW S, NEW g \in [E -> Seq(S)], NEW q \in Seq(Seq(E))
    PROVE  FlattenSeq(Parts(g, FlattenSeq(q))) = FlattenSeq(PartsOfParts(g, q))
<1>. DEFINE Q == Seq(E)
            h == [x \in Q |-> FlattenSeq(Parts(g, x))]
            T == {u \in Seq(Q) : FlattenSeq(Parts(g, FlattenSeq(u))) = FlattenSeq(Parts(h, u))}
<1>0. h \in [Q -> Seq(S)]
  BY GatherType
<1>1. <<>> \in T
  <2>1. <<>> \in Seq(Q)
    BY EmptySeq
  <2>2. FlattenSeq(<<>>) = <<>>
    BY FlattenEmpty
  <2>3. FlattenSeq(Parts(g, <<>>)) = <<>> /\ FlattenSeq(Parts(h, <<>>)) = <<>>
    BY GatherEmpty
  <2>. QED  BY <2>1, <2>2, <2>3
<1>2. ASSUME NEW u \in Seq(Q), NEW x \in Q, u \in T  PROVE Append(u, x) \in T
  <2>1. FlattenSeq(u) \in Seq(E) /\ FlattenSeq(Append(u, x)) = FlattenSeq(u) \o x
    BY FlattenType, FlattenAppend
  <2>2. Parts(g, FlattenSeq(u) \o x) = Parts(g, FlattenSeq(u)) \o Parts(g, x)
    BY <2>1, PartsConcat
  <2>3. Parts(g, FlattenSeq(u)) \in Seq(Seq(S)) /\ Parts(g, x) \in Seq(Seq(S))
    BY <2>1, GatherSeq
  <2>4. FlattenSeq(Parts(g, FlattenSeq(u)) \o Parts(g, x))
            = FlattenSeq(Parts(g, FlattenSeq(u))) \o FlattenSeq(Parts(g, x))
    BY <2>3, FlattenConcat
  <2>5. FlattenSeq(Parts(h, Append(u, x))) = FlattenSeq(Parts(h, u)) \o h[x]
    <3>. HIDE DEF Q, h
    <3>. QED  BY <1>0, GatherAppend
  <2>6. h[x] = FlattenSeq(Parts(g, x))
    OBVIOUS
  <2>7. Append(u, x) \in Seq(Q)
    <3>. HIDE DEF Q
    <3>. QED  OBVIOUS
  <2>8. FlattenSeq(Parts(g, FlattenSeq(u))) = FlattenSeq(Parts(h, u))
    BY <1>2
  <2>. HIDE DEF h, Q
  <2>. QED  BY <2>1, <2>2, <2>4, <2>5, <2>6, <2>7, <2>8
<1>3. Seq(Q) \subseteq T
  <2>. HIDE DEF Q, T
  <2>. QED  BY <1>1, <1>2, SequenceInduction
<1>4. Parts(h, q) = PartsOfParts(g, q)
  <2>1. \A i \in DOMAIN q : q[i] \in Q
    <3>1. q \in Seq(Q)
      OBVIOUS
    <3>. HIDE DEF Q
    <3>. QED  BY <3>1
  <2>. QED  BY <2>1 DEF Parts, PartsOfParts
<1>. HIDE DEF h
<1>. QED  BY <1>3, <1>4

\* The elements gathered are those of the contributions.
LEMMA FlattenElements ==
    ASSUME NEW S, NEW q \in Seq(Seq(S))
    PROVE  ToSet(FlattenSeq(q)) = UNION {ToSet(q[i]) : i \in DOMAIN q}
<1>. DEFINE Q == Seq(S)
            All(u) == UNION {ToSet(u[i]) : i \in DOMAIN u}
            T == {u \in Seq(Q) : ToSet(FlattenSeq(u)) = All(u)}
<1>1. <<>> \in T
  <2>1. <<>> \in Seq(Q) /\ ToSet(<<>>) = {}
    BY EmptySeq DEF ToSet
  <2>. QED  BY <2>1, FlattenEmpty
<1>2. ASSUME NEW u \in Seq(Q), NEW x \in Q, u \in T  PROVE Append(u, x) \in T
  <2>1. FlattenSeq(u) \in Seq(S) /\ FlattenSeq(Append(u, x)) = FlattenSeq(u) \o x
    BY FlattenType, FlattenAppend
  <2>2. ToSet(FlattenSeq(u) \o x) = ToSet(FlattenSeq(u)) \cup ToSet(x)
    <3>. DEFINE a == FlattenSeq(u)
    <3>1. a \in Seq(S) /\ x \in Seq(S)
      BY <2>1
    <3>. HIDE DEF a
    <3>2. ToSet(a) = Range(a) /\ ToSet(x) = Range(x) /\ ToSet(a \o x) = Range(a \o x)
      BY DEF ToSet, Range
    <3>3. Range(a \o x) = Range(a) \cup Range(x)
      BY <3>1, RangeConcatenation
    <3>. QED  BY <3>2, <3>3 DEF a
  <2>. DEFINE t == Append(u, x)
              n == Len(u)
  <2>3. /\ t \in Seq(Q) /\ n \in Nat /\ DOMAIN u = 1..n /\ DOMAIN t = 1..(n + 1)
        /\ t[n + 1] = x /\ \A i \in 1..n : t[i] = u[i]
    <3>. HIDE DEF Q
    <3>. QED  BY AppendProperties
  <2>. HIDE DEF t, n
  <2>4. All(t) = All(u) \cup ToSet(x)
    <3>1. ASSUME NEW y  PROVE y \in All(t) <=> y \in All(u) \cup ToSet(x)
      <4>1. y \in All(t) <=> \E i \in 1..(n + 1) : y \in ToSet(t[i])
        BY <2>3
      <4>2. y \in All(u) <=> \E i \in 1..n : y \in ToSet(u[i])
        BY <2>3
      <4>. HIDE DEF All
      <4>3. \A i \in 1..(n + 1) : i \in 1..n \/ i = n + 1
        BY <2>3
      <4>4. n + 1 \in 1..(n + 1) /\ \A i \in 1..n : i \in 1..(n + 1)
        BY <2>3
      <4>. QED  BY <2>3, <4>1, <4>2, <4>3, <4>4, Zenon
    <3>. HIDE DEF All
    <3>. QED  BY <3>1
  <2>5. ToSet(FlattenSeq(u)) = All(u)
    BY <1>2
  <2>. HIDE DEF All
  <2>. QED  BY <2>1, <2>2, <2>3, <2>4, <2>5 DEF t
<1>3. Seq(Q) \subseteq T
  <2>. HIDE DEF Q, T
  <2>. QED  BY <1>1, <1>2, SequenceInduction
<1>. QED  BY <1>3

\* No contribution is longer than all together.
LEMMA FlattenLengths ==
    ASSUME NEW S, NEW q \in Seq(Seq(S))
    PROVE  \A i \in DOMAIN q : Len(q[i]) <= Len(FlattenSeq(q))
<1>. DEFINE Q == Seq(S)
            T == {u \in Seq(Q) : \A i \in DOMAIN u : Len(u[i]) <= Len(FlattenSeq(u))}
<1>1. <<>> \in T
  <2>1. <<>> \in Seq(Q)
    BY EmptySeq
  <2>. QED  BY <2>1
<1>2. ASSUME NEW u \in Seq(Q), NEW x \in Q, u \in T  PROVE Append(u, x) \in T
  <2>1. FlattenSeq(u) \in Seq(S) /\ FlattenSeq(Append(u, x)) = FlattenSeq(u) \o x
    BY FlattenType, FlattenAppend
  <2>2. /\ Len(FlattenSeq(u)) \in Nat /\ Len(x) \in Nat
        /\ Len(FlattenSeq(u) \o x) = Len(FlattenSeq(u)) + Len(x)
    <3>. DEFINE a == FlattenSeq(u)
    <3>1. a \in Seq(S) /\ x \in Seq(S)
      BY <2>1
    <3>. HIDE DEF a
    <3>2. Len(a) \in Nat /\ Len(x) \in Nat /\ Len(a \o x) = Len(a) + Len(x)
      BY <3>1, ConcatProperties
    <3>. QED  BY <3>2 DEF a
  <2>. DEFINE t == Append(u, x)
              n == Len(u)
  <2>3. /\ t \in Seq(Q) /\ n \in Nat /\ DOMAIN u = 1..n /\ DOMAIN t = 1..(n + 1)
        /\ t[n + 1] = x /\ \A i \in 1..n : t[i] = u[i] /\ u[i] \in Q
    <3>. HIDE DEF Q
    <3>. QED  BY AppendProperties
  <2>. HIDE DEF t, n
  <2>4. ASSUME NEW i \in DOMAIN t  PROVE Len(t[i]) <= Len(FlattenSeq(t))
    <3>1. Len(FlattenSeq(t)) = Len(FlattenSeq(u)) + Len(x)
      BY <2>1, <2>2 DEF t
    <3>2. CASE i \in 1..n
      <4>1. Len(u[i]) <= Len(FlattenSeq(u))
        BY <1>2, <2>3, <3>2
      <4>2. Len(u[i]) \in Nat
        BY <2>3, <3>2
      <4>. QED  BY <2>2, <2>3, <3>1, <3>2, <4>1, <4>2
    <3>3. CASE i = n + 1
      BY <2>2, <2>3, <3>1, <3>3
    <3>. QED  BY <2>3, <3>2, <3>3
  <2>. QED  BY <2>3, <2>4 DEF t
<1>3. Seq(Q) \subseteq T
  <2>. HIDE DEF Q, T
  <2>. QED  BY <1>1, <1>2, SequenceInduction
<1>. QED  BY <1>3

\* Each element contributing itself, all come out as they were.
LEMMA FlattenSingles ==
    ASSUME NEW S, NEW s \in Seq(S)
    PROVE  FlattenSeq([i \in DOMAIN s |-> <<s[i]>>]) = s
<1>. DEFINE g == [x \in S |-> <<x>>]
            T == {u \in Seq(S) : FlattenSeq(Parts(g, u)) = u}
<1>0. g \in [S -> Seq(S)]
  OBVIOUS
<1>1. <<>> \in T
  BY EmptySeq, GatherEmpty
<1>2. ASSUME NEW u \in Seq(S), NEW x \in S, u \in T  PROVE Append(u, x) \in T
  <2>1. FlattenSeq(Parts(g, Append(u, x))) = FlattenSeq(Parts(g, u)) \o g[x]
    <3>. HIDE DEF g
    <3>. QED  BY <1>0, GatherAppend
  <2>2. FlattenSeq(Parts(g, u)) = u /\ g[x] = <<x>>
    BY <1>2
  <2>3. u \o <<x>> = Append(u, x) /\ Append(u, x) \in Seq(S)
    OBVIOUS
  <2>. QED  BY <2>1, <2>2, <2>3
<1>3. Seq(S) \subseteq T
  <2>. HIDE DEF T
  <2>. QED  BY <1>1, <1>2, SequenceInduction
<1>4. Parts(g, s) = [i \in DOMAIN s |-> <<s[i]>>]
  <2>1. \A i \in DOMAIN s : s[i] \in S
    OBVIOUS
  <2>. QED  BY <2>1 DEF Parts
<1>. HIDE DEF g
<1>. QED  BY <1>3, <1>4

\* One contribution is all there is.
LEMMA FlattenOne ==
    ASSUME NEW S, NEW s \in Seq(S)
    PROVE  FlattenSeq(<<s>>) = s
<1>. DEFINE e == <<>>
<1>1. e \in Seq(Seq(S)) /\ FlattenSeq(e) = e /\ e \o s = s
  BY EmptySeq, FlattenEmpty, ConcatEmptySeq
<1>2. Append(e, s) = <<s>>
  BY AppendToEmpty
<1>. HIDE DEF e
<1>3. FlattenSeq(Append(e, s)) = FlattenSeq(e) \o s
  BY <1>1, FlattenAppend
<1>. QED  BY <1>1, <1>2, <1>3

\* Empty contributions make nothing.
LEMMA FlattenNothing ==
    ASSUME NEW S, NEW q \in Seq(Seq(S)), \A i \in DOMAIN q : q[i] = <<>>
    PROVE  FlattenSeq(q) = <<>>
<1>. DEFINE all == FlattenSeq(q)
<1>1. all \in Seq(S) /\ ToSet(all) = UNION {ToSet(q[i]) : i \in DOMAIN q}
  BY FlattenType, FlattenElements
<1>2. ToSet(<<>>) = {}
  BY DEF ToSet
<1>3. ToSet(all) = {}
  BY <1>1, <1>2
<1>. HIDE DEF all
<1>4. DOMAIN all = {} /\ Len(all) \in Nat /\ DOMAIN all = 1..Len(all)
  BY <1>1, <1>3 DEF ToSet
<1>5. Len(all) = 0
  BY <1>4
<1>. QED  BY <1>1, <1>5 DEF all

\* What is gathered from one element.
LEMMA GatherFromOne ==
    ASSUME NEW E, NEW S, NEW g \in [E -> Seq(S)], NEW x \in E
    PROVE  FlattenSeq(Parts(g, <<x>>)) = g[x]
<1>1. Parts(g, <<x>>) = <<g[x]>> /\ g[x] \in Seq(S)
  BY DEF Parts
<1>2. FlattenSeq(<<g[x]>>) = g[x]
  BY <1>1, FlattenOne
<1>. QED  BY <1>1, <1>2
=============================================================================
