------------------------ MODULE SchemaContextProofs --------------------------
(***************************************************************************)
(* Lemmas on the schema context: what FlattenSeq, At, KeyMap and Context   *)
(* compute, for sequences of every length.                                 *)
(***************************************************************************)
EXTENDS SchemaContext, SequenceTheorems, FiniteSetTheorems, WellFoundedInduction, TLAPS

-----------------------------------------------------------------------------
(* Induction, with sets for predicates                                      *)

LEMMA LeastElement ==
    ASSUME NEW T \in SUBSET Nat, T # {}
    PROVE  \E n \in T : \A m \in T : n <= m
<1>1. PICK x \in T : \A y \in T : ~(<<y, x>> \in OpToRel(<, Nat))
  BY WFMin, NatLessThanWellFounded
<1>2. \A y \in T : x <= y
  <2> SUFFICES ASSUME NEW y \in T, ~(x <= y) PROVE FALSE
    OBVIOUS
  <2>1. y < x /\ <<y, x>> \in Nat \X Nat
    OBVIOUS
  <2>2. <<y, x>> \in OpToRel(<, Nat)
    BY <2>1 DEF OpToRel
  <2> QED
    BY <1>1, <2>2
<1> QED
  BY <1>2

\* A set that has the empty sequence and all that is made by appending to one
\* it has, has every sequence.
LEMMA SequencesFrom ==
    ASSUME NEW S, NEW A, <<>> \in A,
           \A s \in Seq(S), x \in S : s \in A => Append(s, x) \in A
    PROVE  Seq(S) \subseteq A
<1> SUFFICES ASSUME NEW s \in Seq(S), s \notin A PROVE FALSE
  OBVIOUS
<1> DEFINE T == {n \in Nat : \E z \in Seq(S) : Len(z) = n /\ z \notin A}
<1>1. T \in SUBSET Nat /\ Len(s) \in T
  OBVIOUS
<1>2. PICK n \in T : \A m \in T : n <= m
  <2> HIDE DEF T
  <2> QED
    BY <1>1, LeastElement
<1>3. PICK z \in Seq(S) : Len(z) = n /\ z \notin A
  OBVIOUS
<1>4. z # <<>>
  BY <1>3
<1> DEFINE f == SubSeq(z, 1, n - 1)
<1>5. /\ f \in Seq(S) /\ Len(f) = n - 1 /\ z[n] \in S /\ n \in Nat \ {0}
      /\ z = Append(f, z[n])
  BY <1>3, <1>4
<1> HIDE DEF f
<1>6. f \notin A
  BY <1>3, <1>5
<1>7. n - 1 \in T
  BY <1>5, <1>6
<1> HIDE DEF T
<1> QED
  BY <1>2, <1>5, <1>7

-----------------------------------------------------------------------------
(* FlattenSeq                                                               *)

\* f holds the concatenations of the first elements of ss.
Flattens(ss, f) == f = [i \in 1 .. Len(ss) |-> IF i = 1 THEN ss[i] ELSE f[i - 1] \o ss[i]]

LEMMA Flattening ==
    ASSUME NEW S, NEW ss \in Seq(Seq(S))
    PROVE  \E f : Flattens(ss, f)
<1> DEFINE A == {z \in Seq(Seq(S)) : \E f : Flattens(z, f)}
<1>1. <<>> \in A
  <2>1. Flattens(<<>>, <<>>)
    BY DEF Flattens
  <2> QED
    BY <2>1
<1>2. ASSUME NEW z \in Seq(Seq(S)), NEW x \in Seq(S), z \in A
      PROVE  Append(z, x) \in A
  <2>1. PICK f : Flattens(z, f)
    BY <1>2
  <2> DEFINE n == Len(z)
             more == Append(z, x)
             g == [i \in 1 .. n + 1 |-> IF i = n + 1 THEN IF n = 0 THEN x ELSE f[n] \o x ELSE f[i]]
  <2>2. /\ n \in Nat /\ more \in Seq(Seq(S)) /\ Len(more) = n + 1 /\ more[n + 1] = x
        /\ \A i \in 1 .. n : more[i] = z[i]
    OBVIOUS
  <2>3. f = [i \in 1 .. n |-> IF i = 1 THEN z[i] ELSE f[i - 1] \o z[i]]
    BY <2>1 DEF Flattens
  <2> HIDE DEF n, more
  <2>4. ASSUME NEW i \in 1 .. n + 1
        PROVE  g[i] = IF i = 1 THEN more[i] ELSE g[i - 1] \o more[i]
    <3>1. CASE i = n + 1
      <4>1. CASE n = 0
        BY <2>2, <3>1, <4>1
      <4>2. CASE n # 0
        <5>1. i # 1 /\ i - 1 = n /\ n \in 1 .. n + 1 /\ n # n + 1
          BY <2>2, <3>1, <4>2
        <5> QED
          BY <2>2, <3>1, <4>2, <5>1
      <4> QED
        BY <4>1, <4>2
    <3>2. CASE i # n + 1
      <4>1. i \in 1 .. n
        BY <2>2, <3>2
      <4>2. CASE i = 1
        BY <2>2, <2>3, <3>2, <4>1, <4>2
      <4>3. CASE i # 1
        <5>1. i - 1 \in 1 .. n + 1 /\ i - 1 # n + 1
          BY <2>2, <4>1, <4>3
        <5> QED
          BY <2>2, <2>3, <3>2, <4>1, <4>3, <5>1
      <4> QED
        BY <4>2, <4>3
    <3> QED
      BY <3>1, <3>2
  <2>5. Flattens(more, g)
    <3>1. g = [i \in 1 .. n + 1 |-> g[i]]
      OBVIOUS
    <3> HIDE DEF g
    <3> QED
      BY <2>2, <2>4, <3>1 DEF Flattens
  <2> QED
    BY <2>2, <2>5 DEF more
<1>3. Seq(Seq(S)) \subseteq A
  <2> HIDE DEF A
  <2> QED
    BY <1>1, <1>2, SequencesFrom
<1> QED
  BY <1>3

LEMMA FlattenEmpty == FlattenSeq(<<>>) = <<>>
BY DEF FlattenSeq

\* The function FlattenSeq reads its result from.
LEMMA FlattenFrom ==
    ASSUME NEW S, NEW ss \in Seq(Seq(S)), Len(ss) # 0
    PROVE  \E f : Flattens(ss, f) /\ FlattenSeq(ss) = f[Len(ss)]
<1> DEFINE f == CHOOSE f : f = [i \in 1 .. Len(ss) |-> IF i = 1 THEN ss[i] ELSE f[i - 1] \o ss[i]]
<1>1. Flattens(ss, f)
  BY Flattening DEF Flattens
<1>2. FlattenSeq(ss) = f[Len(ss)]
  BY DEF FlattenSeq
<1> QED
  BY <1>1, <1>2

\* Concatenations of equal elements are equal, up to where the elements are.
LEMMA FlattenAgree ==
    ASSUME NEW S, NEW ss \in Seq(Seq(S)), NEW tt \in Seq(Seq(S)), NEW f, NEW g,
           Flattens(ss, f), Flattens(tt, g), NEW n \in Nat, n <= Len(ss), n <= Len(tt),
           \A i \in 1 .. n : ss[i] = tt[i]
    PROVE  \A i \in 1 .. n : f[i] = g[i] /\ f[i] \in Seq(S)
<1> DEFINE T == {i \in 1 .. n : ~(f[i] = g[i] /\ f[i] \in Seq(S))}
<1> SUFFICES ASSUME T # {} PROVE FALSE
  OBVIOUS
<1>1. T \in SUBSET Nat
  OBVIOUS
<1>2. PICK i \in T : \A j \in T : i <= j
  <2> HIDE DEF T
  <2> QED
    BY <1>1, LeastElement
<1>3. /\ i \in 1 .. n /\ i \in 1 .. Len(ss) /\ i \in 1 .. Len(tt) /\ ss[i] = tt[i] /\ ss[i] \in Seq(S)
      /\ ~(f[i] = g[i] /\ f[i] \in Seq(S))
  OBVIOUS
<1>4. /\ f[i] = IF i = 1 THEN ss[i] ELSE f[i - 1] \o ss[i]
      /\ g[i] = IF i = 1 THEN tt[i] ELSE g[i - 1] \o tt[i]
  BY <1>3 DEF Flattens
<1>5. i # 1
  BY <1>3, <1>4
<1>6. i - 1 \in 1 .. n /\ ~(i <= i - 1)
  BY <1>3, <1>5
<1>7. f[i - 1] = g[i - 1] /\ f[i - 1] \in Seq(S)
  BY <1>2, <1>6
<1> QED
  BY <1>3, <1>4, <1>5, <1>7

\* One sequence more.
LEMMA FlattenAppend ==
    ASSUME NEW S, NEW ss \in Seq(Seq(S)), NEW x \in Seq(S)
    PROVE  /\ FlattenSeq(ss) \in Seq(S)
           /\ FlattenSeq(Append(ss, x)) = FlattenSeq(ss) \o x
<1> DEFINE n == Len(ss)
           more == Append(ss, x)
<1>1. /\ n \in Nat /\ more \in Seq(Seq(S)) /\ Len(more) = n + 1 /\ more[n + 1] = x
      /\ \A i \in 1 .. n : more[i] = ss[i]
  OBVIOUS
<1> HIDE DEF more
<1>2. PICK g : Flattens(more, g) /\ FlattenSeq(more) = g[n + 1]
  <2>1. Len(more) # 0
    BY <1>1
  <2>2. \E g : Flattens(more, g) /\ FlattenSeq(more) = g[Len(more)]
    BY <1>1, <2>1, FlattenFrom
  <2> QED
    BY <1>1, <2>2
<1>3. n + 1 \in 1 .. n + 1 /\ (n + 1) - 1 = n
  BY <1>1
<1>4. g[n + 1] = IF n + 1 = 1 THEN x ELSE g[n] \o x
  BY <1>1, <1>2, <1>3 DEF Flattens
<1>5. CASE n = 0
  <2>1. ss = <<>>
    BY <1>5
  <2>2. FlattenSeq(ss) = <<>> /\ <<>> \o x = x /\ <<>> \in Seq(S)
    BY <2>1, FlattenEmpty, ConcatEmptySeq
  <2>3. FlattenSeq(more) = x
    BY <1>2, <1>4, <1>5
  <2> QED
    BY <2>2, <2>3 DEF more
<1>6. CASE n # 0
  <2>1. PICK f : Flattens(ss, f) /\ FlattenSeq(ss) = f[n]
    BY <1>6, FlattenFrom
  <2>2. \A i \in 1 .. n : f[i] = g[i] /\ f[i] \in Seq(S)
    <3>1. n <= Len(ss) /\ n <= Len(more) /\ \A i \in 1 .. n : ss[i] = more[i]
      BY <1>1
    <3> HIDE DEF n
    <3> QED
      BY <1>1, <1>2, <2>1, <3>1, FlattenAgree
  <2>3. f[n] = g[n] /\ f[n] \in Seq(S) /\ n + 1 # 1
    BY <1>1, <1>6, <2>2
  <2> QED
    BY <1>2, <1>4, <2>1, <2>3 DEF more
<1> QED
  BY <1>5, <1>6

-----------------------------------------------------------------------------
(* At                                                                       *)

LEMMA AtEmpty == ASSUME NEW I PROVE At(<<>>, I) = <<>>
BY FlattenEmpty DEF At

LEMMA AtAppend ==
    ASSUME NEW S, NEW s \in Seq(S), NEW x \in S, NEW I
    PROVE  /\ At(s, I) \in Seq(S)
           /\ At(Append(s, x), I) = IF Len(s) + 1 \in I THEN Append(At(s, I), x) ELSE At(s, I)
<1> DEFINE n == Len(s)
           parts == [i \in DOMAIN s |-> IF i \in I THEN <<s[i]>> ELSE <<>>]
           last == IF n + 1 \in I THEN <<x>> ELSE <<>>
           more == Append(s, x)
           longer == [i \in DOMAIN more |-> IF i \in I THEN <<more[i]>> ELSE <<>>]
<1>1. parts \in Seq(Seq(S)) /\ Len(parts) = n /\ last \in Seq(S) /\ n \in Nat
  <2>1. n \in Nat /\ DOMAIN s = 1 .. n /\ \A i \in 1 .. n : s[i] \in S
    OBVIOUS
  <2>2. \A y \in S : <<y>> \in Seq(S)
    OBVIOUS
  <2>3. <<>> \in Seq(S)
    OBVIOUS
  <2> HIDE DEF n
  <2>4. parts \in [1 .. n -> Seq(S)]
    BY <2>1, <2>2, <2>3
  <2> HIDE DEF parts
  <2>5. parts \in Seq(Seq(S)) /\ Len(parts) = n
    BY <2>1, <2>4
  <2> QED
    BY <2>1, <2>2, <2>3, <2>5
<1>2. longer = Append(parts, last)
  <2>1. /\ longer \in Seq(Seq(S)) /\ Len(longer) = n + 1
        /\ \A i \in 1 .. n : longer[i] = parts[i]
        /\ longer[n + 1] = last
    OBVIOUS
  <2>2. /\ Append(parts, last) \in Seq(Seq(S)) /\ Len(Append(parts, last)) = n + 1
        /\ \A i \in 1 .. n : Append(parts, last)[i] = parts[i]
        /\ Append(parts, last)[n + 1] = last
    <3> HIDE DEF parts, last, n
    <3> QED
      BY <1>1
  <2> HIDE DEF parts, last, n, longer, more
  <2>3. \A i \in 1 .. n + 1 : longer[i] = Append(parts, last)[i]
    BY <1>1, <2>1, <2>2
  <2> QED
    BY <2>1, <2>2, <2>3, SeqEqual
<1>3. At(s, I) = FlattenSeq(parts) /\ At(more, I) = FlattenSeq(longer)
  BY DEF At
<1> HIDE DEF parts, longer
<1>4. FlattenSeq(parts) \in Seq(S) /\ FlattenSeq(longer) = FlattenSeq(parts) \o last
  BY <1>1, <1>2, FlattenAppend
<1>5. At(s, I) \o last = IF n + 1 \in I THEN Append(At(s, I), x) ELSE At(s, I)
  BY <1>3, <1>4
<1> QED
  BY <1>3, <1>4, <1>5

\* Positions beyond the sequence do not matter.
LEMMA AtSame ==
    ASSUME NEW s, NEW I, NEW J, \A i \in DOMAIN s : i \in I <=> i \in J
    PROVE  At(s, I) = At(s, J)
<1>1. [i \in DOMAIN s |-> IF i \in I THEN <<s[i]>> ELSE <<>>] = [i \in DOMAIN s |-> IF i \in J THEN <<s[i]>> ELSE <<>>]
  OBVIOUS
<1> QED
  BY <1>1 DEF At

LEMMA AtNone ==
    ASSUME NEW S, NEW s \in Seq(S), NEW I, \A i \in DOMAIN s : i \notin I
    PROVE  At(s, I) = <<>>
<1> DEFINE A == {z \in Seq(S) : At(z, {}) = <<>>}
<1>1. <<>> \in A
  BY AtEmpty
<1>2. \A z \in Seq(S), x \in S : z \in A => Append(z, x) \in A
  BY AtAppend
<1>3. s \in A
  <2> HIDE DEF A
  <2> QED
    BY <1>1, <1>2, SequencesFrom
<1>4. At(s, I) = At(s, {})
  BY AtSame
<1> QED
  BY <1>3, <1>4

LEMMA AtAll ==
    ASSUME NEW S, NEW s \in Seq(S), NEW I, \A i \in DOMAIN s : i \in I
    PROVE  At(s, I) = s
<1> DEFINE A == {z \in Seq(S) : At(z, Nat) = z}
<1>1. <<>> \in A
  BY AtEmpty
<1>2. ASSUME NEW z \in Seq(S), NEW x \in S, z \in A PROVE Append(z, x) \in A
  <2>1. Len(z) + 1 \in Nat /\ Append(z, x) \in Seq(S)
    OBVIOUS
  <2>2. At(Append(z, x), Nat) = Append(At(z, Nat), x)
    BY <2>1, AtAppend
  <2> QED
    BY <1>2, <2>1, <2>2
<1>3. s \in A
  <2> HIDE DEF A
  <2> QED
    BY <1>1, <1>2, SequencesFrom
<1>4. At(s, I) = At(s, Nat)
  <2>1. \A i \in DOMAIN s : i \in Nat
    OBVIOUS
  <2> QED
    BY <2>1, AtSame
<1> QED
  BY <1>3, <1>4

LEMMA AtFirst ==
    ASSUME NEW S, NEW s \in Seq(S), s # <<>>, NEW I, \A i \in DOMAIN s : i \in I <=> i = 1
    PROVE  At(s, I) = <<s[1]>>
<1> DEFINE A == {z \in Seq(S) : z # <<>> => At(z, {1}) = <<z[1]>>}
<1>1. <<>> \in A
  OBVIOUS
<1>2. ASSUME NEW z \in Seq(S), NEW x \in S, z \in A PROVE Append(z, x) \in A
  <2>1. Append(z, x) \in Seq(S)
    OBVIOUS
  <2>2. CASE z = <<>>
    <3>1. Len(z) + 1 \in {1} /\ Append(z, x)[1] = x /\ Append(<<>>, x) = <<x>>
      BY <2>2
    <3>2. At(Append(z, x), {1}) = Append(At(z, {1}), x)
      BY <3>1, AtAppend
    <3> QED
      BY <2>1, <2>2, <3>1, <3>2, AtEmpty
  <2>3. CASE z # <<>>
    <3>1. Len(z) + 1 \notin {1} /\ Append(z, x)[1] = z[1]
      BY <2>3
    <3>2. At(Append(z, x), {1}) = At(z, {1})
      BY <3>1, AtAppend
    <3> QED
      BY <1>2, <2>1, <2>3, <3>1, <3>2
  <2> QED
    BY <2>2, <2>3
<1>3. s \in A
  <2> HIDE DEF A
  <2> QED
    BY <1>1, <1>2, SequencesFrom
<1>4. At(s, I) = At(s, {1})
  BY AtSame
<1> QED
  BY <1>3, <1>4

\* What stands at the positions stands there.
LEMMA AtFrom ==
    ASSUME NEW S, NEW s \in Seq(S), NEW I
    PROVE  /\ At(s, I) \in Seq(S)
           /\ \A k \in DOMAIN At(s, I) : \E i \in DOMAIN s : i \in I /\ At(s, I)[k] = s[i]
<1> DEFINE A == {z \in Seq(S) :
                   /\ At(z, I) \in Seq(S)
                   /\ \A k \in DOMAIN At(z, I) : \E i \in DOMAIN z : i \in I /\ At(z, I)[k] = z[i]}
<1>1. <<>> \in A
  <2>1. At(<<>>, I) = <<>> /\ <<>> \in Seq(S) /\ DOMAIN <<>> = {}
    BY AtEmpty
  <2> QED
    BY <2>1
<1>2. ASSUME NEW z \in Seq(S), NEW x \in S, z \in A PROVE Append(z, x) \in A
  <2> DEFINE n == Len(z)
             more == Append(z, x)
             picked == At(z, I)
  <2>1. /\ n \in Nat /\ more \in Seq(S) /\ DOMAIN z = 1 .. n /\ DOMAIN more = 1 .. n + 1
        /\ more[n + 1] = x /\ \A i \in 1 .. n : more[i] = z[i]
    OBVIOUS
  <2>2. /\ picked \in Seq(S) /\ \A k \in DOMAIN picked : \E i \in DOMAIN z : i \in I /\ picked[k] = z[i]
        /\ At(more, I) = IF n + 1 \in I THEN Append(picked, x) ELSE picked
    BY <1>2, AtAppend
  <2> HIDE DEF n, more, picked
  <2>3. \A k \in DOMAIN picked : \E i \in DOMAIN more : i \in I /\ picked[k] = more[i]
    <3> TAKE k \in DOMAIN picked
    <3>1. PICK i \in DOMAIN z : i \in I /\ picked[k] = z[i]
      BY <2>2
    <3>2. i \in DOMAIN more
      BY <2>1
    <3> QED
      BY <2>1, <3>1, <3>2
  <2>4. CASE n + 1 \in I
    <3>1. At(more, I) = Append(picked, x)
      BY <2>2, <2>4
    <3>2. /\ Append(picked, x) \in Seq(S) /\ DOMAIN Append(picked, x) = 1 .. Len(picked) + 1
          /\ Append(picked, x)[Len(picked) + 1] = x
          /\ \A k \in 1 .. Len(picked) : Append(picked, x)[k] = picked[k]
          /\ DOMAIN picked = 1 .. Len(picked) /\ Len(picked) \in Nat
      BY <2>2
    <3>3. ASSUME NEW k \in 1 .. Len(picked) + 1
          PROVE  \E i \in DOMAIN more : i \in I /\ Append(picked, x)[k] = more[i]
      <4>1. CASE k = Len(picked) + 1
        <5>1. n + 1 \in DOMAIN more
          BY <2>1
        <5> QED
          BY <2>1, <2>4, <3>2, <4>1, <5>1
      <4>2. CASE k # Len(picked) + 1
        <5>1. k \in 1 .. Len(picked)
          BY <3>2, <4>2
        <5> QED
          BY <2>3, <3>2, <5>1
      <4> QED
        BY <4>1, <4>2
    <3> QED
      BY <2>1, <3>1, <3>2, <3>3 DEF more
  <2>5. CASE n + 1 \notin I
    BY <2>1, <2>2, <2>3, <2>5 DEF more
  <2> QED
    BY <2>4, <2>5
<1>3. s \in A
  <2> HIDE DEF A
  <2> QED
    BY <1>1, <1>2, SequencesFrom
<1> QED
  BY <1>3

Associates(s, t, x) == Append(s \o t, x) = s \o Append(t, x)

LEMMA AppendConcat ==
    ASSUME NEW S, NEW s \in Seq(S), NEW t \in Seq(S), NEW x \in S
    PROVE  Associates(s, t, x)
BY DEF Associates

\* The positions split with the sequence.
Splits(s, t, I) == At(s \o t, I) = At(s, I) \o At(t, {i \in Nat : Len(s) + i \in I})

LEMMA AtConcat ==
    ASSUME NEW S, NEW s \in Seq(S), NEW t \in Seq(S), NEW I
    PROVE  Splits(s, t, I)
<1> DEFINE J == {i \in Nat : Len(s) + i \in I}
           A == {z \in Seq(S) : At(s \o z, I) = At(s, I) \o At(z, J)}
<1>1. <<>> \in A
  <2>1. s \o <<>> = s /\ At(s, I) \o <<>> = At(s, I) /\ <<>> \in Seq(S)
    BY AtFrom, ConcatEmptySeq
  <2> QED
    BY <2>1, AtEmpty
<1>2. ASSUME NEW z \in Seq(S), NEW x \in S, z \in A PROVE Append(z, x) \in A
  <2>1. /\ s \o z \in Seq(S) /\ s \o Append(z, x) = Append(s \o z, x) /\ Append(z, x) \in Seq(S)
        /\ Len(s \o z) + 1 = Len(s) + (Len(z) + 1) /\ Len(z) + 1 \in Nat
    OBVIOUS
  <2>2. At(s \o Append(z, x), I) = IF Len(s) + (Len(z) + 1) \in I THEN Append(At(s \o z, I), x) ELSE At(s \o z, I)
    <3> DEFINE w == s \o z
    <3>1. w \in Seq(S)
      BY <2>1
    <3> HIDE DEF w
    <3>2. At(Append(w, x), I) = IF Len(w) + 1 \in I THEN Append(At(w, I), x) ELSE At(w, I)
      BY <3>1, AtAppend
    <3> QED
      BY <2>1, <3>2 DEF w
  <2>3. At(Append(z, x), J) = IF Len(z) + 1 \in J THEN Append(At(z, J), x) ELSE At(z, J)
    <3> HIDE DEF J
    <3> QED
      BY AtAppend
  <2>4. Len(z) + 1 \in J <=> Len(s) + (Len(z) + 1) \in I
    BY <2>1
  <2>5. At(s, I) \in Seq(S) /\ At(z, J) \in Seq(S)
    <3> HIDE DEF J
    <3> QED
      BY AtFrom
  <2> HIDE DEF J
  <2>6. Append(At(s, I) \o At(z, J), x) = At(s, I) \o Append(At(z, J), x)
    <3> DEFINE a == At(s, I)
               b == At(z, J)
    <3>1. a \in Seq(S) /\ b \in Seq(S)
      BY <2>5
    <3> HIDE DEF a, b
    <3>2. Associates(a, b, x)
      BY <3>1, AppendConcat
    <3> QED
      BY <3>2 DEF a, b, Associates
  <2> QED
    BY <1>2, <2>1, <2>2, <2>3, <2>4, <2>6
<1>3. t \in A
  <2> HIDE DEF A
  <2> QED
    BY <1>1, <1>2, SequencesFrom
<1> QED
  BY <1>3 DEF Splits

LEMMA AtInjective ==
    ASSUME NEW S, NEW s \in Seq(S), IsInjective(s), NEW I
    PROVE  IsInjective(At(s, I))
<1> DEFINE A == {z \in Seq(S) : IsInjective(z) => IsInjective(At(z, I))}
<1>1. <<>> \in A
  BY AtEmpty DEF IsInjective
<1>2. ASSUME NEW z \in Seq(S), NEW x \in S, z \in A, IsInjective(Append(z, x))
      PROVE  IsInjective(At(Append(z, x), I))
  <2> DEFINE n == Len(z)
             more == Append(z, x)
             picked == At(z, I)
  <2>1. /\ n \in Nat /\ DOMAIN z = 1 .. n /\ DOMAIN more = 1 .. n + 1
        /\ more[n + 1] = x /\ \A i \in 1 .. n : more[i] = z[i]
    OBVIOUS
  <2>2. /\ picked \in Seq(S) /\ \A k \in DOMAIN picked : \E i \in DOMAIN z : i \in I /\ picked[k] = z[i]
        /\ At(more, I) = IF n + 1 \in I THEN Append(picked, x) ELSE picked
    BY AtAppend, AtFrom
  <2>3. IsInjective(z) /\ \A i \in 1 .. n : z[i] # x
    <3> HIDE DEF more, n
    <3>1. IsInjective(more)
      BY <1>2 DEF more
    <3>2. \A i \in 1 .. n : i \in DOMAIN more /\ n + 1 \in DOMAIN more /\ i # n + 1
      BY <2>1
    <3> QED
      BY <2>1, <3>1, <3>2 DEF IsInjective
  <2>4. IsInjective(picked)
    BY <1>2, <2>3
  <2>5. \A k \in DOMAIN picked : picked[k] # x
    <3> HIDE DEF n, picked
    <3> QED
      BY <2>1, <2>2, <2>3
  <2> HIDE DEF n, more, picked
  <2>6. IsInjective(Append(picked, x))
    <3>1. /\ DOMAIN Append(picked, x) = 1 .. Len(picked) + 1
          /\ Append(picked, x)[Len(picked) + 1] = x
          /\ \A k \in 1 .. Len(picked) : Append(picked, x)[k] = picked[k]
          /\ DOMAIN picked = 1 .. Len(picked) /\ Len(picked) \in Nat
      BY <2>2
    <3>2. \A k \in 1 .. Len(picked) + 1 : k \in 1 .. Len(picked) \/ k = Len(picked) + 1
      BY <3>1
    <3> QED
      BY <2>4, <2>5, <3>1, <3>2 DEF IsInjective
  <2> QED
    BY <2>2, <2>4, <2>6 DEF more
<1>3. \A z \in Seq(S), x \in S : z \in A => Append(z, x) \in A
  <2>1. \A z \in Seq(S), x \in S : Append(z, x) \in Seq(S)
    OBVIOUS
  <2> QED
    BY <1>2, <2>1
<1>4. s \in A
  <2> HIDE DEF A
  <2> QED
    BY <1>1, <1>3, SequencesFrom
<1> QED
  BY <1>4

-----------------------------------------------------------------------------
(* Databases and their definitions                                          *)

\* The tables there are, each once.
LEMMA ExistingTables ==
    ASSUME NEW db \in Databases
    PROVE  /\ Existing(db) \in Seq(Tables) /\ IsInjective(Existing(db))
           /\ \A k \in DOMAIN Existing(db) : db[Existing(db)[k]] # Absent
<1> DEFINE I == {i \in DOMAIN TableNames : db[TableNames[i]] # Absent}
           names == At(TableNames, I)
<1>1. Existing(db) = names
  BY DEF Existing
<1>2. TableNames \in Seq(Tables) /\ IsInjective(TableNames)
  BY TablesAssumption
<1>3. names \in Seq(Tables) /\ \A k \in DOMAIN names : \E i \in DOMAIN TableNames : i \in I /\ names[k] = TableNames[i]
  <2> HIDE DEF I
  <2> QED
    BY <1>2, AtFrom
<1>4. IsInjective(names)
  <2> HIDE DEF I
  <2> QED
    BY <1>2, AtInjective
<1>5. \A k \in DOMAIN names : db[names[k]] # Absent
  <2> TAKE k \in DOMAIN names
  <2> PICK i \in DOMAIN TableNames : i \in I /\ names[k] = TableNames[i]
    BY <1>3
  <2> QED
    OBVIOUS
<1> HIDE DEF names
<1> QED
  BY <1>1, <1>3, <1>4, <1>5

\* What the PRAGMAs are answered from.
Tabular == [columns : Seq(Columns), keys : Seq(ForeignKeys)]

LEMMA DefinitionTypes ==
    ASSUME NEW db \in Databases, NEW table \in Tables
    PROVE  /\ Definition(db, table) \in Tabular
           /\ db[table] = Absent => Definition(db, table).columns = <<>>
           /\ db[table] # Absent => Definition(db, table) = db[table] /\ db[table].columns # <<>>
<1>1. CASE db[table] = Absent
  <2>1. <<>> \in Seq(Columns) /\ <<>> \in Seq(ForeignKeys)
    OBVIOUS
  <2>2. Definition(db, table) = [columns |-> <<>>, keys |-> <<>>]
    BY <1>1 DEF Definition
  <2> QED
    BY <1>1, <2>1, <2>2 DEF Tabular
<1>2. CASE db[table] # Absent
  <2>1. db[table] \in [columns : Seq(Columns) \ {<<>>}, keys : Seq(ForeignKeys)]
    BY <1>2, DefinitionsAssumption DEF Databases
  <2> HIDE DEF ForeignKeys
  <2>2. db[table] \in Tabular /\ db[table].columns # <<>>
    BY <2>1 DEF Tabular
  <2> QED
    BY <1>2, <2>2 DEF Definition
<1> QED
  BY <1>1, <1>2

\* A set of positions in a sequence has a last one.
LEMMA LastPosition ==
    ASSUME NEW n \in Nat, NEW P \in SUBSET (1 .. n), P # {}
    PROVE  \E i \in P : \A j \in P : j <= i
<1> DEFINE T == {n - i : i \in P}
<1>1. T \in SUBSET Nat /\ T # {}
  <2>1. \A i \in P : n - i \in Nat
    OBVIOUS
  <2>2. PICK i \in P : TRUE
    OBVIOUS
  <2>3. n - i \in T
    OBVIOUS
  <2> QED
    BY <2>1, <2>3
<1>2. PICK m \in T : \A k \in T : m <= k
  <2> HIDE DEF T
  <2> QED
    BY <1>1, LeastElement
<1>3. PICK i \in P : m = n - i
  OBVIOUS
<1>4. \A j \in P : n - i <= n - j
  BY <1>2, <1>3
<1> QED
  BY <1>4

\* fk_map has an entry for the columns that some key refers from, and no other:
\* a column the key refers that column to.
LEMMA KeyMapTargets ==
    ASSUME NEW d \in Tabular, NEW column
    PROVE  IF Targets(d, column) = {} THEN Referred(KeyMap(d), column) = {}
           ELSE \E target \in Targets(d, column) : Referred(KeyMap(d), column) = {target}
<1> DEFINE keys == d.keys
           Has(i) == Contains(keys[i].from, column)
           Last1(i) == Has(i) /\ \A j \in DOMAIN keys : Has(j) => j <= i
           map == KeyMap(d)
<1>1. keys \in Seq(ForeignKeys) /\ DOMAIN keys = 1 .. Len(keys) /\ Len(keys) \in Nat
      /\ \A i \in DOMAIN keys : keys[i] \in ForeignKeys
  <2>1. keys \in Seq(ForeignKeys)
    BY DEF Tabular
  <2> HIDE DEF keys
  <2> QED
    BY <2>1
<1>2. \A i \in DOMAIN keys : /\ keys[i].from \in Seq(Columns) /\ keys[i].to \in Seq(Columns)
                             /\ Len(keys[i].from) = Len(keys[i].to)
  BY <1>1 DEF ForeignKeys
<1>3. \A i \in DOMAIN keys : Has(i) <=> \E k \in DOMAIN keys[i].from : keys[i].from[k] = column
  BY <1>2 DEF Contains
<1>4. column \in DOMAIN map <=> \E i \in DOMAIN keys : Has(i)
  <2>1. DOMAIN map = UNION {ToSet(keys[i].from) : i \in DOMAIN keys}
    BY DEF KeyMap
  <2>2. \A i \in DOMAIN keys : column \in ToSet(keys[i].from) <=> Has(i)
    BY <1>3 DEF ToSet
  <2> QED
    BY <2>1, <2>2
<1>5. \A target : target \in Targets(d, column) <=>
        \E i \in DOMAIN keys : \E k \in DOMAIN keys[i].from :
            keys[i].from[k] = column /\ target = <<keys[i].table, keys[i].to[k]>>
  BY DEF Targets, ToSet
<1>6. CASE \A i \in DOMAIN keys : ~Has(i)
  BY <1>3, <1>4, <1>5, <1>6 DEF Referred
<1>7. ASSUME NEW a \in DOMAIN keys, Has(a)
      PROVE  \E target \in Targets(d, column) : Referred(map, column) = {target}
  <2> DEFINE w == CHOOSE i \in DOMAIN keys : Last1(i)
             k == CHOOSE k \in DOMAIN keys[w].from : keys[w].from[k] = column
             target == <<keys[w].table, keys[w].to[k]>>
  <2>1. w \in DOMAIN keys /\ Has(w)
    <3> DEFINE P == {i \in DOMAIN keys : Has(i)}
    <3>1. P \in SUBSET (1 .. Len(keys)) /\ P # {}
      BY <1>1, <1>7
    <3>2. \E i \in P : \A j \in P : j <= i
      <4> HIDE DEF P
      <4> QED
        BY <1>1, <3>1, LastPosition
    <3>3. \E i \in DOMAIN keys : Last1(i)
      BY <3>2
    <3> QED
      BY <3>3
  <2>2. k \in DOMAIN keys[w].from /\ keys[w].from[k] = column
    <3>1. \E x \in DOMAIN keys[w].from : keys[w].from[x] = column
      BY <1>3, <2>1
    <3> QED
      BY <3>1
  <2>3. target \in Targets(d, column)
    BY <1>5, <2>1, <2>2
  <2>4. map[column] = target
    BY <1>4, <1>7 DEF KeyMap
  <2>5. column \in DOMAIN map
    BY <1>4, <1>7
  <2> HIDE DEF target, map
  <2> QED
    BY <2>3, <2>4, <2>5 DEF Referred
<1>8. CASE \E i \in DOMAIN keys : Has(i)
  <2>1. \E target \in Targets(d, column) : Referred(map, column) = {target}
    BY <1>7, <1>8
  <2> QED
    BY <2>1
<1> QED
  BY <1>6, <1>8

LEMMA TargetTypes ==
    ASSUME NEW d \in Tabular, NEW column
    PROVE  Targets(d, column) \in SUBSET (Tables \X Columns)
<1> SUFFICES ASSUME NEW key \in ToSet(d.keys), NEW k \in DOMAIN key.from
             PROVE  <<key.table, key.to[k]>> \in Tables \X Columns
  BY DEF Targets
<1>1. key \in ForeignKeys
  <2>1. d.keys \in Seq(ForeignKeys)
    BY DEF Tabular
  <2> HIDE DEF ForeignKeys
  <2> QED
    BY <2>1 DEF ToSet
<1>2. key.table \in Tables /\ key.from \in Seq(Columns) /\ key.to \in Seq(Columns) /\ Len(key.from) = Len(key.to)
  BY <1>1 DEF ForeignKeys
<1> QED
  BY <1>2

\* The arrows of a row are those of the map.
Arrows(map) == \A column : Referred(map, column) \in SUBSET (Tables \X Columns)

LEMMA MapArrows ==
    ASSUME NEW d \in Tabular
    PROVE  Arrows(KeyMap(d))
<1> SUFFICES ASSUME NEW column PROVE Referred(KeyMap(d), column) \in SUBSET (Tables \X Columns)
  BY DEF Arrows
<1>1. CASE Targets(d, column) = {}
  BY <1>1, KeyMapTargets
<1>2. CASE Targets(d, column) # {}
  <2>1. PICK target \in Targets(d, column) : Referred(KeyMap(d), column) = {target}
    BY <1>2, KeyMapTargets
  <2> QED
    BY <2>1, TargetTypes
<1> QED
  BY <1>1, <1>2

\* The rows of a table are its columns, in order.
AreRows(rows, table, columns, map) ==
    /\ rows \in Seq(Rows) /\ Len(rows) = Len(columns)
    /\ \A i \in DOMAIN rows : rows[i].table = table
    /\ ColumnsOf([table |-> table, columns |-> rows]) = columns
    /\ \A i \in DOMAIN rows : rows[i].references = Referred(map, rows[i].column)

LEMMA RowsOfColumns ==
    ASSUME NEW table \in Tables, NEW columns \in Seq(Columns), NEW map, Arrows(map)
    PROVE  AreRows(SqliteRows(table, columns, map), table, columns, map)
<1> DEFINE rows == SqliteRows(table, columns, map)
           n == Len(columns)
<1>1. n \in Nat /\ DOMAIN columns = 1 .. n /\ \A i \in 1 .. n : columns[i] \in Columns
  OBVIOUS
<1>2. rows = [i \in 1 .. n |-> Row(table, columns[i], Referred(map, columns[i]))]
  BY <1>1 DEF SqliteRows
<1> HIDE DEF rows, n
<1>3. \A i \in 1 .. n : /\ rows[i] \in Rows /\ rows[i].table = table /\ rows[i].column = columns[i]
                        /\ rows[i].references = Referred(map, columns[i])
  <2> TAKE i \in 1 .. n
  <2> DEFINE refs == Referred(map, columns[i])
  <2>1. refs \in SUBSET (Tables \X Columns)
    BY DEF Arrows
  <2>2. rows[i] = Row(table, columns[i], refs)
    BY <1>2
  <2> HIDE DEF refs
  <2>3. rows[i] \in Rows /\ rows[i].table = table /\ rows[i].column = columns[i] /\ rows[i].references = refs
    BY <1>1, <2>1, <2>2 DEF Row, Rows
  <2> QED
    BY <2>3 DEF refs
<1>4. DOMAIN rows = 1 .. n /\ rows = [i \in 1 .. n |-> rows[i]]
  BY <1>2
<1>5. rows \in Seq(Rows) /\ Len(rows) = n
  BY <1>1, <1>3, <1>4
<1>6. ColumnsOf([table |-> table, columns |-> rows]) = columns
  <2>1. ColumnsOf([table |-> table, columns |-> rows]) = [i \in 1 .. n |-> rows[i].column]
    BY <1>4 DEF ColumnsOf
  <2>2. columns = [i \in 1 .. n |-> columns[i]]
    BY <1>1
  <2> QED
    BY <1>3, <2>1, <2>2
<1> QED
  BY <1>3, <1>4, <1>5, <1>6 DEF AreRows, rows, n

\* A table read in one go is shown as it is.
LEMMA LineShows ==
    ASSUME NEW table \in Tables, NEW d \in Tabular
    PROVE  Shows([table |-> table, columns |-> SqliteRows(table, d.columns, KeyMap(d))], d)
<1> DEFINE rows == SqliteRows(table, d.columns, KeyMap(d))
           line == [table |-> table, columns |-> rows]
<1>1. d.columns \in Seq(Columns)
  BY DEF Tabular
<1>2. /\ ColumnsOf(line) = d.columns
      /\ \A i \in DOMAIN rows : rows[i].references = Referred(KeyMap(d), rows[i].column)
  <2>1. AreRows(rows, table, d.columns, KeyMap(d))
    BY <1>1, MapArrows, RowsOfColumns
  <2> HIDE DEF rows
  <2> QED
    BY <2>1 DEF AreRows
<1>3. line.columns = rows
  OBVIOUS
<1> HIDE DEF rows, line
<1>4. \A i \in DOMAIN rows :
        IF Targets(d, rows[i].column) = {} THEN rows[i].references = {}
        ELSE \E target \in Targets(d, rows[i].column) : rows[i].references = {target}
  <2> TAKE i \in DOMAIN rows
  <2>1. rows[i].references = Referred(KeyMap(d), rows[i].column)
    BY <1>2
  <2> QED
    BY <2>1, KeyMapTargets
<1> QED
  BY <1>2, <1>3, <1>4 DEF Shows, rows, line

\* A table read in two goes is whole: its columns are those of one definition,
\* and its arrows those of one.
LEMMA LineWhole ==
    ASSUME NEW table \in Tables, NEW databases \in SUBSET Databases,
           NEW db \in databases, db[table] # Absent, NEW before \in databases
    PROVE  IsWhole([table |-> table,
                    columns |-> SqliteRows(table, db[table].columns, KeyMap(Definition(before, table)))],
                   databases)
<1> DEFINE d == Definition(before, table)
           columns == db[table].columns
           rows == SqliteRows(table, columns, KeyMap(d))
           line == [table |-> table, columns |-> rows]
           had == {base[table] : base \in databases} \ {Absent}
<1>1. columns \in Seq(Columns) /\ d \in Tabular /\ db[table] \in had
  <2>1. Definition(db, table) \in Tabular /\ Definition(db, table) = db[table] /\ d \in Tabular
    BY DefinitionTypes
  <2>2. columns \in Seq(Columns)
    BY <2>1 DEF Tabular
  <2> QED
    BY <2>1, <2>2
<1>2. /\ ColumnsOf(line) = columns
      /\ \A i \in DOMAIN rows : rows[i].references = Referred(KeyMap(d), rows[i].column)
  <2> HIDE DEF columns, d
  <2>1. AreRows(rows, table, columns, KeyMap(d))
    BY <1>1, MapArrows, RowsOfColumns
  <2> HIDE DEF rows
  <2> QED
    BY <2>1 DEF AreRows
<1>3. line.table = table /\ line.columns = rows
  OBVIOUS
<1>4. \A column : Referred(KeyMap(d), column) \subseteq UNION {Targets(e, column) : e \in had}
  <2> TAKE column
  <2>1. CASE before[table] = Absent
    <3>1. d.keys = <<>>
      BY <2>1 DEF Definition
    <3>2. Targets(d, column) = {}
      BY <3>1 DEF Targets, ToSet
    <3> HIDE DEF d
    <3> QED
      BY <1>1, <3>2, KeyMapTargets
  <2>2. CASE before[table] # Absent
    <3>1. d = before[table] /\ d \in had
      BY <2>2 DEF Definition
    <3> HIDE DEF d, had
    <3>2. Referred(KeyMap(d), column) \subseteq Targets(d, column)
      BY <1>1, KeyMapTargets
    <3> QED
      BY <3>1, <3>2
  <2> QED
    BY <2>1, <2>2
<1> HIDE DEF rows, line, d
<1>5. \A i \in DOMAIN line.columns :
        line.columns[i].references \subseteq UNION {Targets(e, line.columns[i].column) : e \in had}
  <2> TAKE i \in DOMAIN line.columns
  <2>1. rows[i].references = Referred(KeyMap(d), rows[i].column)
    BY <1>2, <1>3
  <2> QED
    BY <1>3, <1>4, <2>1
<1>6. IsWhole(line, databases)
  BY <1>1, <1>2, <1>3, <1>5 DEF IsWhole
<1> QED
  BY <1>6 DEF line, rows, d

-----------------------------------------------------------------------------
(* The context                                                              *)

\* All that stands at the positions is there.
LEMMA AtHas ==
    ASSUME NEW S, NEW s \in Seq(S), NEW I, NEW i \in DOMAIN s, i \in I
    PROVE  \E k \in DOMAIN At(s, I) : At(s, I)[k] = s[i]
<1> DEFINE A == {z \in Seq(S) : \A j \in DOMAIN z : j \in I => \E k \in DOMAIN At(z, I) : At(z, I)[k] = z[j]}
<1>1. <<>> \in A
  OBVIOUS
<1>2. ASSUME NEW z \in Seq(S), NEW x \in S, z \in A PROVE Append(z, x) \in A
  <2> DEFINE n == Len(z)
             more == Append(z, x)
             picked == At(z, I)
             now == At(more, I)
  <2>1. /\ n \in Nat /\ more \in Seq(S) /\ DOMAIN z = 1 .. n /\ DOMAIN more = 1 .. n + 1
        /\ more[n + 1] = x /\ \A j \in 1 .. n : more[j] = z[j]
    OBVIOUS
  <2>2. /\ picked \in Seq(S) /\ \A j \in DOMAIN z : j \in I => \E k \in DOMAIN picked : picked[k] = z[j]
        /\ now = IF n + 1 \in I THEN Append(picked, x) ELSE picked
    BY <1>2, AtAppend
  <2> HIDE DEF n, more, picked, now
  <2>3. \A k \in DOMAIN picked : k \in DOMAIN now /\ now[k] = picked[k]
    <3>1. /\ DOMAIN Append(picked, x) = 1 .. Len(picked) + 1 /\ DOMAIN picked = 1 .. Len(picked)
          /\ \A k \in 1 .. Len(picked) : Append(picked, x)[k] = picked[k]
          /\ Len(picked) \in Nat
      BY <2>2
    <3> QED
      BY <2>2, <3>1
  <2>4. ASSUME NEW j \in DOMAIN more, j \in I
        PROVE  \E k \in DOMAIN now : now[k] = more[j]
    <3>1. CASE j = n + 1
      <4>1. now = Append(picked, x)
        BY <2>2, <2>4, <3>1
      <4>2. Len(picked) + 1 \in DOMAIN Append(picked, x) /\ Append(picked, x)[Len(picked) + 1] = x
        BY <2>2
      <4> QED
        BY <2>1, <3>1, <4>1, <4>2
    <3>2. CASE j # n + 1
      <4>1. j \in 1 .. n
        BY <2>1, <3>2
      <4>2. PICK k \in DOMAIN picked : picked[k] = z[j]
        BY <2>1, <2>2, <2>4, <4>1
      <4> QED
        BY <2>1, <2>3, <4>1, <4>2
    <3> QED
      BY <3>1, <3>2
  <2> QED
    BY <2>1, <2>4 DEF more, now
<1>3. s \in A
  <2> HIDE DEF A
  <2> QED
    BY <1>1, <1>2, SequencesFrom
<1> QED
  BY <1>3

Lines == [table : Tables, columns : Seq(Rows)]

\* The positions of the rows that a table begins with.
Begins(rows) == {i \in DOMAIN rows : \A j \in 1 .. i - 1 : rows[j].table # rows[i].table}

Beginnings(rows) == At(rows, Begins(rows))

LEMMA RowFields == \A row \in Rows : row.table \in Tables
BY DEF Rows

\* Context has a line for each of them.
LEMMA ContextLines ==
    ASSUME NEW rows \in Seq(Rows)
    PROVE  /\ Beginnings(rows) \in Seq(Rows)
           /\ Context(rows) \in Seq(Lines) /\ Len(Context(rows)) = Len(Beginnings(rows))
           /\ \A k \in DOMAIN Context(rows) :
                Context(rows)[k] = Line(rows, Beginnings(rows)[k].table)
<1> DEFINE first == Beginnings(rows)
           n == Len(first)
<1>1. first \in Seq(Rows)
  BY AtFrom DEF Beginnings
<1>2. Context(rows) = [k \in DOMAIN first |-> Line(rows, first[k].table)]
  BY DEF Context, Beginnings, Begins
<1> HIDE DEF first
<1>3. n \in Nat /\ DOMAIN first = 1 .. n /\ \A k \in 1 .. n : first[k] \in Rows
  BY <1>1
<1>4. \A k \in 1 .. n : first[k].table \in Tables
  BY <1>3, RowFields
<1>5. ASSUME NEW table \in Tables PROVE Line(rows, table) \in Lines
  <2>1. RowsOf(rows, table) \in Seq(Rows)
    BY AtFrom DEF RowsOf
  <2> QED
    BY <2>1 DEF Line, Lines
<1> HIDE DEF n
<1>6. Context(rows) \in [1 .. n -> Lines]
  BY <1>2, <1>3, <1>4, <1>5
<1>7. Context(rows) \in Seq(Lines) /\ Len(Context(rows)) = n
  BY <1>3, <1>6
<1>8. \A k \in DOMAIN Context(rows) : Context(rows)[k] = Line(rows, first[k].table)
  BY <1>2
<1> QED
  BY <1>1, <1>7, <1>8 DEF first, n

\* Every table of a row has a line.
LEMMA RowsAreShown ==
    ASSUME NEW rows \in Seq(Rows), NEW i \in DOMAIN rows
    PROVE  \E k \in DOMAIN Context(rows) : Context(rows)[k].table = rows[i].table
<1> DEFINE T == {j \in DOMAIN rows : rows[j].table = rows[i].table}
           n == Len(rows)
<1>1. n \in Nat /\ DOMAIN rows = 1 .. n /\ T \in SUBSET Nat /\ T # {}
  OBVIOUS
<1>2. PICK j \in T : \A k \in T : j <= k
  <2> HIDE DEF T
  <2> QED
    BY <1>1, LeastElement
<1>3. j \in Begins(rows)
  <2>1. \A k \in 1 .. j - 1 : k \in DOMAIN rows /\ ~(j <= k)
    BY <1>1
  <2>2. \A k \in 1 .. j - 1 : rows[k].table # rows[j].table
    BY <1>2, <2>1
  <2> QED
    BY <2>2 DEF Begins
<1>4. PICK k \in DOMAIN Beginnings(rows) : Beginnings(rows)[k] = rows[j]
  BY <1>3, AtHas DEF Beginnings
<1>5. k \in DOMAIN Context(rows)
  BY ContextLines
<1>6. Context(rows)[k] = Line(rows, rows[j].table)
  BY <1>4, <1>5, ContextLines
<1> QED
  BY <1>5, <1>6 DEF Line

\* The rows of one table more, which the rows before have none of.
OfNewTable(rows, new, table) ==
    /\ \A i \in DOMAIN rows : rows[i].table # table
    /\ \A i \in DOMAIN new : new[i].table = table

\* s \o t, position by position.
Concats(S, s, t) ==
    /\ s \o t \in Seq(S) /\ Len(s) \in Nat /\ Len(t) \in Nat
    /\ DOMAIN s = 1 .. Len(s) /\ DOMAIN t = 1 .. Len(t)
    /\ DOMAIN (s \o t) = 1 .. Len(s) + Len(t) /\ Len(s \o t) = Len(s) + Len(t)
    /\ \A i \in 1 .. Len(s) : (s \o t)[i] = s[i]
    /\ \A i \in 1 .. Len(t) : (s \o t)[Len(s) + i] = t[i]

LEMMA Concatenated ==
    ASSUME NEW S, NEW s \in Seq(S), NEW t \in Seq(S)
    PROVE  Concats(S, s, t)
BY DEF Concats

LEMMA BeginningsGrow ==
    ASSUME NEW rows \in Seq(Rows), NEW new \in Seq(Rows), new # <<>>, NEW table,
           OfNewTable(rows, new, table)
    PROVE  Beginnings(rows \o new) = Beginnings(rows) \o <<new[1]>>
<1> DEFINE n == Len(rows)
           m == Len(new)
           both == rows \o new
           J == {i \in Nat : n + i \in Begins(both)}
<1>1. /\ both \in Seq(Rows) /\ n \in Nat /\ m \in Nat /\ DOMAIN rows = 1 .. n /\ DOMAIN new = 1 .. m
      /\ DOMAIN both = 1 .. n + m
      /\ \A i \in 1 .. n : both[i] = rows[i]
      /\ \A i \in 1 .. m : both[n + i] = new[i]
  <2>1. Concats(Rows, rows, new)
    BY Concatenated
  <2> QED
    BY <2>1 DEF Concats
<1>2. m # 0
  OBVIOUS
<1> HIDE DEF n, m, both
<1>3. ASSUME NEW i \in DOMAIN rows PROVE i \in Begins(both) <=> i \in Begins(rows)
  <2>1. i \in DOMAIN both /\ both[i] = rows[i] /\ \A j \in 1 .. i - 1 : both[j] = rows[j]
    BY <1>1
  <2> QED
    BY <2>1 DEF Begins
<1>4. ASSUME NEW i \in DOMAIN new PROVE n + i \in Begins(both) <=> i = 1
  <2>1. n + i \in DOMAIN both /\ both[n + i].table = table
    BY <1>1 DEF OfNewTable
  <2>2. CASE i = 1
    <3>1. \A j \in 1 .. (n + i) - 1 : j \in 1 .. n
      BY <1>1, <2>2
    <3>2. \A j \in 1 .. (n + i) - 1 : both[j].table # table
      BY <1>1, <3>1 DEF OfNewTable
    <3> QED
      BY <2>1, <2>2, <3>2 DEF Begins
  <2>3. CASE i # 1
    <3>1. n + 1 \in 1 .. (n + i) - 1 /\ 1 \in 1 .. m
      BY <1>1, <2>3
    <3>2. both[n + 1].table = table
      <4>1. both[n + 1] = new[1] /\ 1 \in DOMAIN new
        BY <1>1, <3>1
      <4>2. new[1].table = table
        BY <4>1 DEF OfNewTable
      <4> QED
        BY <4>1, <4>2
    <3> QED
      BY <2>1, <2>3, <3>1, <3>2 DEF Begins
  <2> QED
    BY <2>2, <2>3
<1>5. At(rows, Begins(both)) = Beginnings(rows)
  BY <1>3, AtSame DEF Beginnings
<1>6. At(new, J) = <<new[1]>>
  <2>1. \A i \in DOMAIN new : i \in J <=> i = 1
    BY <1>1, <1>4
  <2> HIDE DEF J
  <2> QED
    BY <2>1, AtFirst
<1>7. At(both, Begins(both)) = At(rows, Begins(both)) \o At(new, J)
  <2>1. Splits(rows, new, Begins(both))
    BY AtConcat
  <2> QED
    BY <2>1 DEF Splits, n, both
<1> QED
  BY <1>5, <1>6, <1>7 DEF both, Beginnings

LEMMA RowsOfGrow ==
    ASSUME NEW rows \in Seq(Rows), NEW new \in Seq(Rows), NEW table, OfNewTable(rows, new, table),
           NEW other
    PROVE  RowsOf(rows \o new, other) = IF other = table THEN new ELSE RowsOf(rows, other)
<1> DEFINE n == Len(rows)
           m == Len(new)
           both == rows \o new
           I == {i \in DOMAIN both : both[i].table = other}
           J == {i \in Nat : n + i \in I}
<1>1. /\ both \in Seq(Rows) /\ n \in Nat /\ m \in Nat /\ DOMAIN rows = 1 .. n /\ DOMAIN new = 1 .. m
      /\ DOMAIN both = 1 .. n + m
      /\ \A i \in 1 .. n : both[i] = rows[i]
      /\ \A i \in 1 .. m : both[n + i] = new[i]
  <2>1. Concats(Rows, rows, new)
    BY Concatenated
  <2> QED
    BY <2>1 DEF Concats
<1> HIDE DEF n, m, both
<1>2. \A i \in DOMAIN rows : i \in I <=> rows[i].table = other
  BY <1>1
<1>3. \A i \in DOMAIN new : i \in J <=> other = table
  BY <1>1 DEF OfNewTable
<1> HIDE DEF I, J
<1>4. At(rows, I) = RowsOf(rows, other)
  BY <1>2, AtSame DEF RowsOf
<1>5. At(both, I) = At(rows, I) \o At(new, J)
  <2>1. Splits(rows, new, I)
    BY AtConcat
  <2> QED
    BY <2>1 DEF Splits, n, both, J
<1>6. CASE other = table
  <2>1. At(rows, I) = <<>>
    BY <1>2, <1>6, AtNone DEF OfNewTable
  <2>2. At(new, J) = new
    BY <1>3, <1>6, AtAll
  <2>3. <<>> \o new = new
    BY ConcatEmptySeq
  <2> QED
    BY <1>5, <1>6, <2>1, <2>2, <2>3 DEF RowsOf, I, both
<1>7. CASE other # table
  <2>1. At(new, J) = <<>>
    BY <1>3, <1>7, AtNone
  <2>2. At(rows, I) \o <<>> = At(rows, I)
    BY AtFrom, ConcatEmptySeq
  <2> QED
    BY <1>4, <1>5, <1>7, <2>1, <2>2 DEF RowsOf, I, both
<1> QED
  BY <1>6, <1>7

\* They are one line more.
LEMMA ContextGrows ==
    ASSUME NEW rows \in Seq(Rows), NEW new \in Seq(Rows), new # <<>>, NEW table,
           OfNewTable(rows, new, table)
    PROVE  LET before == Context(rows)
               after == Context(rows \o new)
               n == Len(before)
           IN  /\ before \in Seq(Lines) /\ after \in Seq(Lines) /\ Len(after) = n + 1
               /\ \A k \in 1 .. n : after[k] = before[k] /\ before[k].table # table
               /\ after[n + 1] = [table |-> table, columns |-> new]
<1> DEFINE both == rows \o new
           before == Context(rows)
           after == Context(both)
           n == Len(before)
           first == Beginnings(rows)
           begin == Beginnings(both)
<1>1. both \in Seq(Rows) /\ new[1] \in Rows /\ new[1].table = table
  BY DEF OfNewTable
<1>2. begin = first \o <<new[1]>>
  BY BeginningsGrow
<1>3. /\ before \in Seq(Lines) /\ n = Len(first) /\ first \in Seq(Rows)
      /\ \A k \in DOMAIN before : before[k] = Line(rows, first[k].table)
  BY ContextLines
<1> HIDE DEF both
<1>4. /\ after \in Seq(Lines) /\ Len(after) = Len(begin)
      /\ \A k \in DOMAIN after : after[k] = Line(both, begin[k].table)
  BY <1>1, ContextLines
<1>5. \A k \in DOMAIN first : first[k].table # table
  <2> TAKE k \in DOMAIN first
  <2> PICK i \in DOMAIN rows : first[k] = rows[i]
    BY AtFrom DEF Beginnings
  <2> QED
    BY DEF OfNewTable
<1>6. \A other : RowsOf(both, other) = IF other = table THEN new ELSE RowsOf(rows, other)
  BY RowsOfGrow DEF both
<1> HIDE DEF before, after, first, begin
<1>7. /\ n \in Nat /\ Len(begin) = n + 1 /\ \A k \in 1 .. n : begin[k] = first[k]
      /\ begin[n + 1] = new[1]
      /\ DOMAIN first = 1 .. n /\ DOMAIN before = 1 .. n /\ DOMAIN after = 1 .. n + 1
  BY <1>1, <1>2, <1>3, <1>4
<1>8. ASSUME NEW k \in 1 .. n PROVE after[k] = before[k] /\ before[k].table # table
  <2>1. first[k].table # table
    BY <1>5, <1>7
  <2>2. after[k] = Line(both, first[k].table) /\ before[k] = Line(rows, first[k].table)
    BY <1>3, <1>4, <1>7
  <2>3. Line(both, first[k].table) = Line(rows, first[k].table)
    BY <1>6, <2>1 DEF Line
  <2> QED
    BY <2>1, <2>2, <2>3 DEF Line
<1>9. after[n + 1] = [table |-> table, columns |-> new]
  <2>1. n + 1 \in DOMAIN after /\ begin[n + 1].table = table
    BY <1>1, <1>7
  <2>2. after[n + 1] = Line(both, table)
    BY <1>4, <2>1
  <2> QED
    BY <1>6, <2>2 DEF Line
<1>10. Len(after) = n + 1
  BY <1>4, <1>7
<1> QED
  BY <1>3, <1>4, <1>8, <1>9, <1>10 DEF before, after, both

\* The rows of one table more are still together.
LEMMA BlocksType ==
    ASSUME NEW rows \in Seq(Rows)
    PROVE  /\ Blocks(rows) \in Seq(Seq(Rows)) /\ Len(Blocks(rows)) = Len(Context(rows))
           /\ \A k \in 1 .. Len(Context(rows)) : Blocks(rows)[k] = Context(rows)[k].columns
<1> DEFINE context == Context(rows)
           n == Len(context)
<1>1. context \in Seq(Lines)
  BY ContextLines
<1>2. Blocks(rows) = [k \in DOMAIN context |-> context[k].columns]
  BY DEF Blocks
<1> HIDE DEF context
<1>3. n \in Nat /\ DOMAIN context = 1 .. n /\ \A k \in 1 .. n : context[k] \in Lines
  BY <1>1
<1>4. \A k \in 1 .. n : context[k].columns \in Seq(Rows)
  BY <1>3 DEF Lines
<1> HIDE DEF n
<1>5. Blocks(rows) = [k \in 1 .. n |-> context[k].columns]
  BY <1>2, <1>3
<1> QED
  BY <1>3, <1>4, <1>5 DEF context, n

LEMMA GroupedNone == Grouped(<<>>)
<1>1. <<>> \in Seq(Rows) /\ Beginnings(<<>>) = <<>>
  BY AtEmpty DEF Beginnings
<1>2. Context(<<>>) \in Seq(Lines) /\ Len(Context(<<>>)) = 0
  BY <1>1, ContextLines
<1>3. Blocks(<<>>) \in Seq(Seq(Rows)) /\ Len(Blocks(<<>>)) = 0
  BY <1>1, <1>2, BlocksType
<1>4. Blocks(<<>>) = <<>>
  BY <1>3
<1> QED
  BY <1>4, FlattenEmpty DEF Grouped

LEMMA GroupedGrows ==
    ASSUME NEW rows \in Seq(Rows), NEW new \in Seq(Rows), new # <<>>, NEW table,
           OfNewTable(rows, new, table), Grouped(rows)
    PROVE  Grouped(rows \o new)
<1> DEFINE both == rows \o new
           before == Context(rows)
           after == Context(both)
           n == Len(before)
           had == Blocks(rows)
           has == Blocks(both)
<1>1. /\ before \in Seq(Lines) /\ Len(after) = n + 1
      /\ \A k \in 1 .. n : after[k] = before[k]
      /\ after[n + 1] = [table |-> table, columns |-> new]
  BY ContextGrows
<1>2. n \in Nat /\ both \in Seq(Rows)
  BY <1>1
<1>3. had \in Seq(Seq(Rows)) /\ Len(had) = n /\ \A k \in 1 .. n : had[k] = before[k].columns
  BY BlocksType
<1> HIDE DEF both, before
<1>4. has \in Seq(Seq(Rows)) /\ Len(has) = Len(after) /\ \A k \in 1 .. Len(after) : has[k] = after[k].columns
  BY <1>2, BlocksType
<1> HIDE DEF had, has, after, n
<1>5. has = Append(had, new)
  <2> DEFINE more == Append(had, new)
  <2>1. more \in Seq(Seq(Rows)) /\ Len(more) = n + 1 /\ more[n + 1] = new /\ \A k \in 1 .. n : more[k] = had[k]
    BY <1>2, <1>3
  <2> HIDE DEF more
  <2>2. Len(has) = Len(more)
    BY <1>1, <1>4, <2>1
  <2>3. \A k \in 1 .. Len(has) : has[k] = more[k]
    <3> TAKE k \in 1 .. Len(has)
    <3>1. k \in 1 .. n + 1
      BY <1>1, <1>4
    <3>2. CASE k = n + 1
      BY <1>1, <1>4, <2>1, <3>1, <3>2
    <3>3. CASE k # n + 1
      <4>1. k \in 1 .. n
        BY <1>2, <3>1, <3>3
      <4>2. has[k] = after[k].columns /\ after[k] = before[k]
        BY <1>1, <1>4, <3>1, <4>1
      <4>3. more[k] = before[k].columns
        BY <1>3, <2>1, <4>1
      <4> QED
        BY <4>2, <4>3
    <3> QED
      BY <3>2, <3>3
  <2>4. has = more
    BY <1>4, <2>1, <2>2, <2>3, SeqEqual
  <2> QED
    BY <2>4 DEF more
<1>6. FlattenSeq(has) = FlattenSeq(had) \o new
  BY <1>3, <1>5, FlattenAppend
<1> QED
  BY <1>6 DEF Grouped, both, had, has

-----------------------------------------------------------------------------
(* The rows of PostgreSQL                                                   *)

\* The set of a sequence's elements is finite.
LEMMA ElementsFinite ==
    ASSUME NEW S, NEW s \in Seq(S)
    PROVE  IsFiniteSet(ToSet(s))
<1>1. s \in [1 .. Len(s) -> ToSet(s)] /\ \A x \in ToSet(s) : \E i \in 1 .. Len(s) : s[i] = x
  BY DEF ToSet
<1>2. s \in Surjection(1 .. Len(s), ToSet(s))
  BY <1>1 DEF Surjection
<1>3. IsFiniteSet(1 .. Len(s))
  BY FS_Interval
<1> QED
  BY <1>2, <1>3, FS_Surjection

\* Sets of one element at most.
LEMMA AtMostOne ==
    ASSUME NEW S, IsFiniteSet(S), Cardinality(S) <= 1
    PROVE  \A x, y \in S : x = y
<1>1. Cardinality(S) \in Nat
  BY FS_CardinalityType
<1>2. Cardinality(S) = 0 \/ Cardinality(S) = 1
  BY <1>1
<1>3. S = {} \/ \E x : S = {x}
  BY <1>2, FS_EmptySet, FS_Singleton
<1> QED
  BY <1>3

LEMMA SetToSeqNone == SetToSeq({}) = <<>>
<1>1. Cardinality({}) = 0
  BY FS_EmptySet
<1>2. 1 .. 0 = {}
  OBVIOUS
<1>3. SetToSeq({}) = CHOOSE f \in [1 .. 0 -> {}] : IsInjective(f)
  BY <1>1 DEF SetToSeq
<1>4. <<>> \in [1 .. 0 -> {}] /\ IsInjective(<<>>)
  BY <1>2 DEF IsInjective
<1>5. \A f \in [1 .. 0 -> {}] : f = <<>>
  BY <1>2
<1> QED
  BY <1>3, <1>4, <1>5

LEMMA SetToSeqOne == ASSUME NEW x PROVE SetToSeq({x}) = <<x>>
<1>1. Cardinality({x}) = 1
  BY FS_Singleton
<1>2. SetToSeq({x}) = CHOOSE f \in [1 .. 1 -> {x}] : IsInjective(f)
  BY <1>1 DEF SetToSeq
<1>3. <<x>> \in [1 .. 1 -> {x}] /\ IsInjective(<<x>>)
  BY DEF IsInjective
<1>4. \A f \in [1 .. 1 -> {x}] : f = <<x>>
  OBVIOUS
<1> QED
  BY <1>2, <1>3, <1>4

\* The keys of a table there is.
LEMMA KeysOf ==
    ASSUME NEW db \in Databases, NEW table \in ToSet(Existing(db))
    PROVE  /\ table \in Tables /\ db[table] \in Tabular /\ db[table] # Absent
           /\ ToSet(db[table].keys) \subseteq Keys(db)
           /\ \A key \in ToSet(db[table].keys) : key \in ForeignKeys
           /\ \A key : table \in Having(db, key) <=> key \in ToSet(db[table].keys)
<1>1. table \in Tables /\ db[table] # Absent
  BY ExistingTables DEF ToSet
<1>2. db[table] \in Tabular
  BY <1>1, DefinitionTypes
<1>3. db[table].keys \in Seq(ForeignKeys)
  BY <1>2 DEF Tabular
<1>4. \A key \in ToSet(db[table].keys) : key \in ForeignKeys
  <2> HIDE DEF ForeignKeys
  <2> QED
    BY <1>3 DEF ToSet
<1>5. ToSet(db[table].keys) \subseteq Keys(db)
  BY DEF Keys
<1>6. \A key : Contains(db[table].keys, key) <=> key \in ToSet(db[table].keys)
  <2> DEFINE keys == db[table].keys
  <2>1. keys \in Seq(ForeignKeys)
    BY <1>3
  <2> HIDE DEF keys
  <2> QED
    BY <2>1 DEF Contains, ToSet, keys
<1> QED
  BY <1>1, <1>2, <1>4, <1>5, <1>6 DEF Having

\* Two keys of a constraint name are one, and it is the key of one table.
LEMMA PlainKeys ==
    ASSUME NEW db \in Databases, Plain(db)
    PROVE  /\ \A key \in Keys(db) : Len(key.from) = 1
           /\ \A key \in Keys(db) : \A t, u \in Having(db, key) : t = u
           /\ \A key, other \in Keys(db) : key.name = other.name => key = other
<1>1. ASSUME NEW key \in Keys(db), NEW t \in Having(db, key), NEW u \in Having(db, key) PROVE t = u
  <2>1. IsFiniteSet(Having(db, key))
    <3>1. Existing(db) \in Seq(Tables)
      BY ExistingTables
    <3>2. IsFiniteSet(ToSet(Existing(db)))
      BY <3>1, ElementsFinite
    <3> QED
      BY <3>2, FS_Subset DEF Having
  <2>2. Cardinality(Having(db, key)) = 1
    BY DEF Plain
  <2>3. PICK x : Having(db, key) = {x}
    BY <2>1, <2>2, FS_Singleton
  <2> QED
    BY <2>3
<1> QED
  BY <1>1 DEF Plain

\* Then the join by name pairs a column with what its own keys refer it to.
LEMMA JoinedIsTargets ==
    ASSUME NEW db \in Databases, Plain(db), NEW table \in ToSet(Existing(db)), NEW column
    PROVE  Joined(db, table, column) = Targets(db[table], column)
<1> DEFINE keys == ToSet(db[table].keys)
<1>1. /\ keys \subseteq Keys(db) /\ \A key \in keys : key \in ForeignKeys
      /\ \A key : table \in Having(db, key) <=> key \in keys
  BY KeysOf
<1>2. \A key \in keys : DOMAIN key.from = {1} /\ DOMAIN key.to = {1}
  <2> TAKE key \in keys
  <2> DEFINE from == key.from
             to == key.to
  <2>1. from \in Seq(Columns) /\ to \in Seq(Columns) /\ Len(from) = Len(to) /\ Len(from) = 1
    BY <1>1, PlainKeys DEF ForeignKeys
  <2> HIDE DEF from, to
  <2>2. DOMAIN from = 1 .. 1 /\ DOMAIN to = 1 .. 1
    <3>1. DOMAIN from = 1 .. Len(from) /\ DOMAIN to = 1 .. Len(to)
      BY <2>1, LenProperties
    <3> QED
      BY <2>1, <3>1
  <2>3. 1 .. 1 = {1}
    OBVIOUS
  <2> QED
    BY <2>2, <2>3 DEF from, to
<1>3. \A target : target \in Targets(db[table], column) <=>
        \E key \in keys : key.from[1] = column /\ target = <<key.table, key.to[1]>>
  <2> HIDE DEF keys
  <2>1. \A target : target \in Targets(db[table], column) <=>
          \E key \in keys : \E k \in DOMAIN key.from : key.from[k] = column /\ target = <<key.table, key.to[k]>>
    BY DEF Targets, keys
  <2> QED
    BY <1>2, <2>1
<1>4. ASSUME NEW key \in keys, key.from[1] = column
      PROVE  <<key.table, key.to[1]>> \in Joined(db, table, column)
  <2> DEFINE use == [name |-> key.name, table |-> key.table, column |-> key.to[1]]
  <2>1. key \in Keys(db) /\ key.to[1] \in ToSet(key.to) /\ column \in ToSet(key.from) /\ table \in Having(db, key)
    BY <1>1, <1>2, <1>4 DEF ToSet
  <2>2. use \in ConstraintColumnUsage(db)
    BY <2>1 DEF ConstraintColumnUsage
  <2>3. [name |-> key.name, table |-> table, column |-> column] \in KeyColumnUsage(db)
    BY <2>1 DEF KeyColumnUsage
  <2>4. use.name = key.name /\ use.table = key.table /\ use.column = key.to[1]
    OBVIOUS
  <2> HIDE DEF use
  <2> QED
    BY <2>2, <2>3, <2>4 DEF Joined
<1>5. ASSUME NEW target \in Joined(db, table, column)
      PROVE  \E key \in keys : key.from[1] = column /\ target = <<key.table, key.to[1]>>
  <2>1. PICK use \in ConstraintColumnUsage(db) :
          /\ target = <<use.table, use.column>>
          /\ [name |-> use.name, table |-> table, column |-> column] \in KeyColumnUsage(db)
    BY DEF Joined
  <2>2. PICK key \in Keys(db) : \E c \in ToSet(key.to) :
          use = [name |-> key.name, table |-> key.table, column |-> c]
    BY <2>1 DEF ConstraintColumnUsage
  <2>3. PICK c \in ToSet(key.to) : use = [name |-> key.name, table |-> key.table, column |-> c]
    BY <2>2
  <2>4. PICK other \in Keys(db) : \E d \in ToSet(other.from), t \in Having(db, other) :
          [name |-> use.name, table |-> table, column |-> column] = [name |-> other.name, table |-> t, column |-> d]
    BY <2>1 DEF KeyColumnUsage
  <2>5. other.name = key.name /\ column \in ToSet(other.from) /\ table \in Having(db, other)
    BY <2>3, <2>4
  <2>6. other = key
    BY <2>2, <2>4, <2>5, PlainKeys
  <2>7. key \in keys
    BY <1>1, <2>5, <2>6
  <2>8. key.from[1] = column /\ key.to[1] = c
    BY <1>2, <2>3, <2>5, <2>6, <2>7 DEF ToSet
  <2> QED
    BY <2>1, <2>3, <2>7, <2>8
<1> QED
  BY <1>3, <1>4, <1>5

LEMMA OneTarget ==
    ASSUME NEW db \in Databases, Plain(db), NEW table \in ToSet(Existing(db)),
           NEW column \in ToSet(db[table].columns)
    PROVE  \A x, y \in Targets(db[table], column) : x = y
<1> DEFINE keys == ToSet(db[table].keys)
           its == {key \in keys : Contains(key.from, column)}
<1>1. \A key \in keys : key \in ForeignKeys /\ Len(key.from) = 1
  BY KeysOf, PlainKeys
<1>2. IsFiniteSet(its)
  <2>1. db[table].keys \in Seq(ForeignKeys)
    BY KeysOf DEF Tabular
  <2>2. IsFiniteSet(keys)
    BY <2>1, ElementsFinite
  <2> HIDE DEF keys
  <2> QED
    BY <2>2, FS_Subset
<1>3. \A key, other \in its : key = other
  <2>1. Cardinality(its) <= 1
    BY DEF Plain
  <2> HIDE DEF its
  <2> QED
    BY <1>2, <2>1, AtMostOne
<1>4. ASSUME NEW x \in Targets(db[table], column)
      PROVE  \E key \in its : x = <<key.table, key.to[1]>>
  <2>1. PICK key \in keys : \E k \in DOMAIN key.from : key.from[k] = column /\ x = <<key.table, key.to[k]>>
    BY DEF Targets
  <2>2. PICK k \in DOMAIN key.from : key.from[k] = column /\ x = <<key.table, key.to[k]>>
    BY <2>1
  <2> DEFINE from == key.from
  <2>3. from \in Seq(Columns) /\ Len(from) = 1
    BY <1>1 DEF ForeignKeys
  <2>4. k \in DOMAIN from /\ from[k] = column
    BY <2>2
  <2> HIDE DEF from
  <2>5. k = 1 /\ Contains(from, column)
    BY <2>3, <2>4 DEF Contains
  <2>6. key \in its
    BY <2>5 DEF from
  <2> QED
    BY <2>2, <2>5, <2>6
<1> QED
  BY <1>3, <1>4

\* The join has one row for a column, with the arrow it is shown with.
LEMMA PlainColumn ==
    ASSUME NEW db \in Databases, Plain(db), NEW table \in ToSet(Existing(db)),
           NEW column \in ToSet(db[table].columns), NEW row \in Rows,
           row.table = table, row.column = column,
           IF Targets(db[table], column) = {} THEN row.references = {}
           ELSE \E target \in Targets(db[table], column) : row.references = {target}
    PROVE  ColumnRows(db, table, column) = <<row>>
<1> DEFINE targets == Targets(db[table], column)
           joined == Joined(db, table, column)
           seq == SetToSeq(joined)
           rows == ColumnRows(db, table, column)
<1>1. joined = targets /\ \A x, y \in targets : x = y
  BY JoinedIsTargets, OneTarget
<1>2. row = Row(table, column, row.references)
  BY DEF Rows, Row
<1>3. rows = IF seq = <<>> THEN <<Row(table, column, {})>>
             ELSE [i \in DOMAIN seq |-> Row(table, column, {seq[i]})]
  BY DEF ColumnRows
<1> HIDE DEF targets, joined
<1>4. CASE targets = {}
  <2>1. seq = <<>> /\ row.references = {}
    BY <1>1, <1>4, SetToSeqNone DEF targets
  <2> HIDE DEF seq, rows
  <2> QED
    BY <1>2, <1>3, <2>1 DEF rows
<1>5. CASE targets # {}
  <2>1. PICK target \in targets : row.references = {target}
    BY <1>5 DEF targets
  <2>2. joined = {target}
    BY <1>1, <2>1
  <2>3. seq = <<target>>
    BY <2>2, SetToSeqOne
  <2> HIDE DEF seq, rows
  <2>4. rows = [i \in DOMAIN <<target>> |-> Row(table, column, {<<target>>[i]})]
    BY <1>3, <2>3
  <2>5. rows = <<Row(table, column, {target})>>
    BY <2>4
  <2> QED
    BY <1>2, <2>1, <2>5 DEF rows
<1> QED
  BY <1>4, <1>5

\* The rows of the query for one table.
TableRows(db, table) == FlattenSeq([i \in DOMAIN db[table].columns |-> ColumnRows(db, table, db[table].columns[i])])

\* Sequences of one element each, concatenated.
LEMMA FlattenOnes ==
    ASSUME NEW S, NEW s \in Seq(S)
    PROVE  FlattenSeq([i \in DOMAIN s |-> <<s[i]>>]) = s
<1>1. At(s, DOMAIN s) = s
  BY AtAll
<1>2. [i \in DOMAIN s |-> IF i \in DOMAIN s THEN <<s[i]>> ELSE <<>>] = [i \in DOMAIN s |-> <<s[i]>>]
  OBVIOUS
<1> QED
  BY <1>1, <1>2 DEF At

\* A line that shows a table has the rows of the query.
LEMMA PlainTable ==
    ASSUME NEW db \in Databases, Plain(db), NEW table \in ToSet(Existing(db)),
           NEW line \in Lines, Shows(line, db[table]), \A i \in DOMAIN line.columns : line.columns[i].table = table
    PROVE  line.columns = TableRows(db, table)
<1> DEFINE rows == line.columns
           columns == db[table].columns
           n == Len(rows)
<1>1. rows \in Seq(Rows) /\ columns \in Seq(Columns)
  <2>1. db[table] \in Tabular
    BY KeysOf
  <2>2. columns \in Seq(Columns)
    BY <2>1 DEF Tabular
  <2> QED
    BY <2>2 DEF Lines
<1>2. /\ [i \in DOMAIN rows |-> rows[i].column] = columns
      /\ \A i \in DOMAIN rows :
            IF Targets(db[table], rows[i].column) = {} THEN rows[i].references = {}
            ELSE \E target \in Targets(db[table], rows[i].column) : rows[i].references = {target}
  BY DEF Shows, ColumnsOf
<1>3. DOMAIN columns = DOMAIN rows /\ \A i \in DOMAIN rows : columns[i] = rows[i].column
  <2> HIDE DEF rows, columns
  <2> QED
    BY <1>2
<1>4. ASSUME NEW i \in DOMAIN rows PROVE ColumnRows(db, table, columns[i]) = <<rows[i]>>
  <2> DEFINE row == rows[i]
             column == columns[i]
  <2>1. row \in Rows /\ row.table = table /\ row.column = column
    <3> HIDE DEF columns
    <3>1. rows[i] \in Rows
      BY <1>1
    <3> QED
      BY <1>3, <3>1
  <2>2. column \in ToSet(columns)
    BY <1>3 DEF ToSet
  <2>3. IF Targets(db[table], column) = {} THEN row.references = {}
        ELSE \E target \in Targets(db[table], column) : row.references = {target}
    BY <1>2, <1>3
  <2> HIDE DEF row, column
  <2>4. ColumnRows(db, table, column) = <<row>>
    BY <2>1, <2>2, <2>3, PlainColumn
  <2> QED
    BY <2>4 DEF row, column
<1>5. [i \in DOMAIN columns |-> ColumnRows(db, table, columns[i])] = [i \in DOMAIN rows |-> <<rows[i]>>]
  <2> HIDE DEF rows, columns
  <2> QED
    BY <1>3, <1>4
<1>6. FlattenSeq([i \in DOMAIN rows |-> <<rows[i]>>]) = rows
  <2> HIDE DEF rows
  <2> QED
    BY <1>1, FlattenOnes
<1> QED
  BY <1>5, <1>6 DEF TableRows

\* Rows that are together and make the context of a plain database are those
\* the query returns.
LEMMA PlainRows ==
    ASSUME NEW db \in Databases, Plain(db), NEW rows \in Seq(Rows), Grouped(rows), Describes(Context(rows), db)
    PROVE  rows = PostgresRows(db)
<1> DEFINE context == Context(rows)
           existing == Existing(db)
<1>1. /\ context \in Seq(Lines)
      /\ \A k \in DOMAIN context : context[k] = Line(rows, Beginnings(rows)[k].table)
  BY ContextLines
<1>2. /\ [k \in DOMAIN context |-> context[k].table] = existing
      /\ \A k \in DOMAIN context : Shows(context[k], db[context[k].table])
  BY DEF Describes, TablesOf
<1>3. rows = FlattenSeq([k \in DOMAIN context |-> context[k].columns])
  BY DEF Grouped, Blocks
<1>4. PostgresRows(db) = FlattenSeq([k \in DOMAIN existing |-> TableRows(db, existing[k])])
  BY DEF PostgresRows, TableRows
<1> HIDE DEF context, existing
<1>5. DOMAIN existing = DOMAIN context /\ \A k \in DOMAIN context : existing[k] = context[k].table
  BY <1>2
<1>6. ASSUME NEW k \in DOMAIN context PROVE context[k].columns = TableRows(db, existing[k])
  <2> DEFINE line == context[k]
             table == line.table
  <2>1. line \in Lines /\ line = Line(rows, Beginnings(rows)[k].table)
    BY <1>1
  <2>2. line.columns = RowsOf(rows, table)
    BY <2>1 DEF Line
  <2>3. \A i \in DOMAIN RowsOf(rows, table) : RowsOf(rows, table)[i].table = table
    <3> HIDE DEF table
    <3> DEFINE I == {i \in DOMAIN rows : rows[i].table = table}
    <3>1. \A i \in DOMAIN At(rows, I) : \E j \in DOMAIN rows : j \in I /\ At(rows, I)[i] = rows[j]
      <4> HIDE DEF I
      <4> QED
        BY AtFrom
    <3>2. \A i \in DOMAIN At(rows, I) : At(rows, I)[i].table = table
      BY <3>1
    <3> QED
      BY <3>2 DEF RowsOf
  <2>4. table = existing[k] /\ table \in ToSet(existing)
    BY <1>5 DEF ToSet
  <2>5. Shows(line, db[table])
    BY <1>2
  <2>6. line.columns = TableRows(db, table)
    <3>1. \A i \in DOMAIN line.columns : line.columns[i].table = table
      BY <2>2, <2>3
    <3> HIDE DEF line, table
    <3> QED
      BY <2>1, <2>4, <2>5, <3>1, PlainTable DEF existing
  <2> QED
    BY <2>4, <2>6
<1>7. [k \in DOMAIN context |-> context[k].columns] = [k \in DOMAIN existing |-> TableRows(db, existing[k])]
  BY <1>5, <1>6
<1> QED
  BY <1>3, <1>4, <1>7


=============================================================================
