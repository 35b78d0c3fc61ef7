------------------------- MODULE SqlValidatorProofs --------------------------
(***************************************************************************)
(* The guard chain of validate_sql, proved for statements of every length. *)
(***************************************************************************)
EXTENDS SqlValidator, WellFoundedInduction, SequenceTheorems, TLAPS

-----------------------------------------------------------------------------
(* The first and the last of some positions                                 *)

LEMMA Smallest ==
    ASSUME NEW S \in SUBSET Nat, S # {}
    PROVE  Min(S) \in S /\ \A y \in S : Min(S) <= y
<1>1. PICK x \in S : \A y \in S : ~(<<y, x>> \in OpToRel(<, Nat))
  BY WFMin, NatLessThanWellFounded
<1>2. \A y \in S : x <= y
  <2> SUFFICES ASSUME NEW y \in S, ~(x <= y) PROVE FALSE
    OBVIOUS
  <2>1. y < x /\ <<y, x>> \in Nat \X Nat
    OBVIOUS
  <2>2. <<y, x>> \in OpToRel(<, Nat)
    BY <2>1 DEF OpToRel
  <2> QED
    BY <1>1, <2>2
<1> QED
  BY <1>2 DEF Min

\* The mirror image of the positions has a smallest one.
LEMMA Largest ==
    ASSUME NEW n \in Nat, NEW S \in SUBSET (1 .. n), S # {}
    PROVE  Max(S) \in S /\ \A y \in S : y <= Max(S)
<1> DEFINE T == {n - y : y \in S}
<1>1. T \in SUBSET Nat /\ T # {}
  <2>1. \A y \in S : n - y \in Nat
    OBVIOUS
  <2> QED
    BY <2>1
<1>2. Min(T) \in T /\ \A y \in T : Min(T) <= y
  <2> HIDE DEF T
  <2> QED
    BY <1>1, Smallest
<1>3. PICK x \in S : Min(T) = n - x
  BY <1>2
<1>4. \A y \in S : y <= x
  <2> SUFFICES ASSUME NEW y \in S PROVE y <= x
    OBVIOUS
  <2>1. Min(T) <= n - y
    BY <1>2
  <2>2. n - x <= n - y
    BY <1>3, <2>1
  <2> HIDE DEF T
  <2> QED
    BY <2>2
<1> QED
  BY <1>4 DEF Max

\* The first piece that is not one of `chars`.
LEMMA FirstOther ==
    ASSUME NEW text \in Seq(Pieces), NEW chars,
           NEW first, first = SelectInSeq(text, LAMBDA piece : piece \notin chars)
    PROVE  \/ first = 0 /\ \A i \in DOMAIN text : text[i] \in chars
           \/ first \in DOMAIN text /\ text[first] \notin chars /\ \A i \in 1 .. (first - 1) : text[i] \in chars
<1> DEFINE I == {i \in 1 .. Len(text) : text[i] \notin chars}
<1>1. first = IF I # {} THEN Min(I) ELSE 0
  BY DEF SelectInSeq
<1>2. Len(text) \in Nat /\ DOMAIN text = 1 .. Len(text) /\ I \in SUBSET Nat
  OBVIOUS
<1>3. CASE I = {}
  BY <1>1, <1>2, <1>3
<1>4. CASE I # {}
  <2>1. first = Min(I)
    BY <1>1, <1>4
  <2>2. Min(I) \in I /\ \A i \in I : Min(I) <= i
    <3> HIDE DEF I
    <3> QED
      BY <1>2, <1>4, Smallest
  <2>3. first \in I /\ \A i \in I : first <= i
    BY <2>1, <2>2
  <2>4. first \in DOMAIN text /\ text[first] \notin chars
    BY <1>2, <2>3
  <2>5. ASSUME NEW i \in 1 .. (first - 1)
        PROVE  text[i] \in chars
    <3>1. i \in 1 .. Len(text) /\ ~(first <= i)
      BY <1>2, <2>4
    <3> QED
      BY <3>1, <2>3
  <2> QED
    BY <2>4, <2>5
<1> QED
  BY <1>3, <1>4

LEMMA LastOther ==
    ASSUME NEW text \in Seq(Pieces), NEW chars,
           NEW last, last = SelectLastInSeq(text, LAMBDA piece : piece \notin chars)
    PROVE  \/ last = 0 /\ \A i \in DOMAIN text : text[i] \in chars
           \/ last \in DOMAIN text /\ text[last] \notin chars /\ \A i \in (last + 1) .. Len(text) : text[i] \in chars
<1> DEFINE I == {i \in 1 .. Len(text) : text[i] \notin chars}
<1>1. last = IF I # {} THEN Max(I) ELSE 0
  BY DEF SelectLastInSeq
<1>2. Len(text) \in Nat /\ DOMAIN text = 1 .. Len(text) /\ I \in SUBSET (1 .. Len(text))
  OBVIOUS
<1>3. CASE I = {}
  BY <1>1, <1>2, <1>3
<1>4. CASE I # {}
  <2>1. last = Max(I)
    BY <1>1, <1>4
  <2>2. Max(I) \in I /\ \A i \in I : i <= Max(I)
    <3> HIDE DEF I
    <3> QED
      BY <1>2, <1>4, Largest
  <2>3. last \in I /\ \A i \in I : i <= last
    BY <2>1, <2>2
  <2>4. last \in DOMAIN text /\ text[last] \notin chars
    BY <1>2, <2>3
  <2>5. ASSUME NEW i \in (last + 1) .. Len(text)
        PROVE  text[i] \in chars
    <3>1. i \in 1 .. Len(text) /\ ~(i <= last)
      BY <1>2, <2>4
    <3> QED
      BY <3>1, <2>3
  <2> QED
    BY <2>4, <2>5
<1> QED
  BY <1>3, <1>4

-----------------------------------------------------------------------------
(* str.lstrip, str.rstrip, str.strip                                        *)

\* `part` is the text from position a to position b.
Part(text, a, b, part) ==
    /\ part \in Seq(Pieces) /\ Len(part) = (b - a) + 1 /\ DOMAIN part = 1 .. ((b - a) + 1)
    /\ \A i \in 1 .. ((b - a) + 1) : part[i] = text[(a + i) - 1]

LEMMA SubSeqPart ==
    ASSUME NEW text \in Seq(Pieces), NEW a \in 1 .. Len(text), NEW b \in 0 .. Len(text), a <= b + 1
    PROVE  Part(text, a, b, SubSeq(text, a, b))
<1>1. Len(text) \in Nat /\ a \in Int /\ b \in Int /\ \A i \in a .. b : text[i] \in Pieces
  OBVIOUS
<1> DEFINE part == SubSeq(text, a, b)
<1>2. /\ part \in Seq(Pieces)
      /\ Len(part) = IF a <= b THEN (b - a) + 1 ELSE 0
      /\ \A i \in 1 .. ((b - a) + 1) : part[i] = text[(a + i) - 1]
  BY <1>1, SubSeqProperties
<1> HIDE DEF part
<1>3. Len(part) = (b - a) + 1
  BY <1>1, <1>2
<1>4. DOMAIN part = 1 .. Len(part)
  BY <1>2
<1> QED
  BY <1>2, <1>3, <1>4 DEF Part, part

LEMMA LeftStripped ==
    ASSUME NEW text \in Seq(Pieces), NEW chars, NEW part, part = LStrip(text, chars)
    PROVE  \/ part = <<>> /\ \A i \in DOMAIN text : text[i] \in chars
           \/ \E a \in DOMAIN text :
                /\ text[a] \notin chars /\ \A i \in 1 .. (a - 1) : text[i] \in chars
                /\ Part(text, a, Len(text), part)
<1> DEFINE first == SelectInSeq(text, LAMBDA piece : piece \notin chars)
<1>1. part = IF first = 0 THEN <<>> ELSE SubSeq(text, first, Len(text))
  BY DEF LStrip
<1>2. \/ first = 0 /\ \A i \in DOMAIN text : text[i] \in chars
      \/ first \in DOMAIN text /\ text[first] \notin chars /\ \A i \in 1 .. (first - 1) : text[i] \in chars
  BY FirstOther
<1> HIDE DEF first
<1>3. CASE first = 0
  BY <1>1, <1>2, <1>3
<1>4. CASE first # 0
  <2>1. first \in 1 .. Len(text) /\ Len(text) \in 0 .. Len(text) /\ first <= Len(text) + 1
    BY <1>2, <1>4
  <2>2. Part(text, first, Len(text), part)
    BY <1>1, <1>4, <2>1, SubSeqPart
  <2> QED
    BY <1>2, <1>4, <2>2
<1> QED
  BY <1>3, <1>4

LEMMA RightStripped ==
    ASSUME NEW text \in Seq(Pieces), NEW chars, NEW part, part = RStrip(text, chars)
    PROVE  \E b \in 0 .. Len(text) :
             /\ b = 0 \/ (b \in DOMAIN text /\ text[b] \notin chars)
             /\ \A i \in (b + 1) .. Len(text) : text[i] \in chars
             /\ Part(text, 1, b, part)
<1> DEFINE last == SelectLastInSeq(text, LAMBDA piece : piece \notin chars)
<1>1. part = SubSeq(text, 1, last)
  BY DEF RStrip
<1>2. \/ last = 0 /\ \A i \in DOMAIN text : text[i] \in chars
      \/ last \in DOMAIN text /\ text[last] \notin chars /\ \A i \in (last + 1) .. Len(text) : text[i] \in chars
  BY LastOther
<1> HIDE DEF last
<1>3. /\ last \in 0 .. Len(text) /\ Len(text) \in Nat
      /\ \A i \in (last + 1) .. Len(text) : text[i] \in chars
  BY <1>2
<1>4. Part(text, 1, last, part)
  <2>1. CASE text = <<>>
    <3>1. last = 0 /\ part = <<>> /\ <<>> \in Seq(Pieces)
      BY <1>1, <1>3, <2>1, SubSeqEmpty
    <3> QED
      BY <3>1 DEF Part
  <2>2. CASE text # <<>>
    <3>1. 1 \in 1 .. Len(text) /\ 1 <= last + 1
      BY <1>3, <2>2
    <3> QED
      BY <1>1, <1>3, <3>1, SubSeqPart
  <2> QED
    BY <2>1, <2>2
<1> QED
  BY <1>2, <1>3, <1>4

\* Positions a and b are those of the outermost pieces that are not blank.
Outermost(text, a, b) ==
    /\ a \in DOMAIN text /\ b \in DOMAIN text /\ a <= b
    /\ text[a] # "blank" /\ text[b] # "blank"
    /\ \A i \in DOMAIN text : i < a \/ i > b => text[i] = "blank"

\* What strip() leaves is what lies between the outermost pieces not blank.
LEMMA Stripped ==
    ASSUME NEW text \in Seq(Pieces), NEW part, part = Strip(text)
    PROVE  \/ part = <<>> /\ \A i \in DOMAIN text : text[i] = "blank"
           \/ \E a, b \in DOMAIN text : Outermost(text, a, b) /\ Part(text, a, b, part)
<1>1. PICK left : left = RStrip(text, {"blank"})
  OBVIOUS
<1>2. part = LStrip(left, {"blank"})
  BY <1>1 DEF Strip
<1>3. PICK b \in 0 .. Len(text) :
        /\ b = 0 \/ (b \in DOMAIN text /\ text[b] \notin {"blank"})
        /\ \A i \in (b + 1) .. Len(text) : text[i] \in {"blank"}
        /\ Part(text, 1, b, left)
  BY <1>1, RightStripped
<1>4. /\ Len(text) \in Nat /\ DOMAIN text = 1 .. Len(text) /\ b \in Nat
      /\ left \in Seq(Pieces) /\ Len(left) = b /\ DOMAIN left = 1 .. b
      /\ \A i \in 1 .. b : left[i] = text[i]
  <2>1. (b - 1) + 1 = b /\ \A i \in 1 .. b : (1 + i) - 1 = i
    OBVIOUS
  <2> QED
    BY <1>3, <2>1 DEF Part
<1>5. CASE part = <<>> /\ \A i \in DOMAIN left : left[i] \in {"blank"}
  <2>1. \A i \in DOMAIN text : i \in 1 .. b \/ i \in (b + 1) .. Len(text)
    BY <1>4
  <2> QED
    BY <1>3, <1>4, <1>5, <2>1
<1>6. CASE \E a \in DOMAIN left :
             /\ left[a] \notin {"blank"} /\ \A i \in 1 .. (a - 1) : left[i] \in {"blank"}
             /\ Part(left, a, Len(left), part)
  <2>1. PICK a \in DOMAIN left :
          /\ left[a] \notin {"blank"} /\ \A i \in 1 .. (a - 1) : left[i] \in {"blank"}
          /\ Part(left, a, Len(left), part)
    BY <1>6
  <2>2. a \in 1 .. b /\ a \in DOMAIN text /\ b \in DOMAIN text /\ a <= b
    BY <1>3, <1>4, <2>1
  <2>3. text[a] # "blank" /\ text[b] # "blank"
    BY <1>3, <1>4, <2>1, <2>2
  <2>4. \A i \in DOMAIN text : i < a \/ i > b => text[i] = "blank"
    <3> TAKE i \in DOMAIN text
    <3>1. CASE i < a
      <4>1. i \in 1 .. (a - 1) /\ i \in 1 .. b
        BY <1>4, <2>2, <3>1
      <4> QED
        BY <1>4, <2>1, <4>1
    <3>2. CASE i > b
      BY <1>3, <1>4, <3>2
    <3> QED
      BY <3>1, <3>2
  <2>5. Part(text, a, b, part)
    <3>1. \A i \in 1 .. ((b - a) + 1) : (a + i) - 1 \in 1 .. b
      BY <2>2, <1>4
    <3> QED
      BY <1>4, <2>1, <3>1 DEF Part
  <2> QED
    BY <2>2, <2>3, <2>4, <2>5 DEF Outermost
<1> QED
  BY <1>2, <1>4, <1>5, <1>6, LeftStripped

-----------------------------------------------------------------------------
(* The guards, in positions of the statement                                *)

LEMMA PartPositions ==
    ASSUME NEW text \in Seq(Pieces), NEW a, NEW b, Outermost(text, a, b), NEW n, n = (b - a) + 1
    PROVE  /\ a \in Nat \ {0} /\ b \in Nat /\ a <= b /\ n \in Nat
           /\ \A i \in a .. b : (i - a) + 1 \in 1 .. n /\ (a + ((i - a) + 1)) - 1 = i
           /\ \A i \in 1 .. n : (a + i) - 1 \in a .. b
<1>1. a \in 1 .. Len(text) /\ b \in 1 .. Len(text) /\ a <= b
  BY DEF Outermost
<1>2. a \in Nat \ {0} /\ b \in Nat /\ n \in Nat
  BY <1>1
<1> QED
  BY <1>1, <1>2

LEMMA OpensWhere ==
    ASSUME NEW text \in Seq(Pieces), NEW a, NEW b, Outermost(text, a, b), Part(text, a, b, Strip(text))
    PROVE  OpensAsRead(text) <=>
             \E h \in a .. b : text[h] \in {"select", "with"} /\ \A i \in a .. (h - 1) : text[i] = "open"
<1> DEFINE part == Strip(text)
           n == (b - a) + 1
<1> HIDE DEF n
<1>1. /\ a \in Nat \ {0} /\ b \in Nat /\ a <= b /\ n \in Nat
      /\ \A i \in a .. b : (i - a) + 1 \in 1 .. n /\ (a + ((i - a) + 1)) - 1 = i
      /\ \A i \in 1 .. n : (a + i) - 1 \in a .. b
  BY PartPositions DEF n
<1>2. /\ part \in Seq(Pieces) /\ Len(part) = n /\ DOMAIN part = 1 .. n
      /\ \A i \in 1 .. n : part[i] = text[(a + i) - 1]
  BY DEF Part, n
<1>3. \A i \in a .. b : part[(i - a) + 1] = text[i]
  BY <1>1, <1>2
<1>4. PICK opened : opened = LStrip(part, {"open"})
  OBVIOUS
<1>5. OpensAsRead(text) <=> opened # <<>> /\ Head(opened) \in {"select", "with"}
  BY <1>4 DEF OpensAsRead
<1> HIDE DEF part
<1>6. \/ opened = <<>> /\ \A i \in DOMAIN part : part[i] \in {"open"}
      \/ \E f \in DOMAIN part :
           /\ part[f] \notin {"open"} /\ \A i \in 1 .. (f - 1) : part[i] \in {"open"}
           /\ Part(part, f, Len(part), opened)
  BY <1>2, <1>4, LeftStripped
<1>7. CASE opened = <<>> /\ \A i \in DOMAIN part : part[i] \in {"open"}
  <2>1. \A i \in a .. b : text[i] = "open"
    BY <1>1, <1>2, <1>3, <1>7
  <2> QED
    BY <1>5, <1>7, <2>1
<1>8. ASSUME NEW f \in DOMAIN part, part[f] \notin {"open"},
             \A i \in 1 .. (f - 1) : part[i] \in {"open"}, Part(part, f, Len(part), opened)
      PROVE  OpensAsRead(text) <=>
               \E h \in a .. b : text[h] \in {"select", "with"} /\ \A i \in a .. (h - 1) : text[i] = "open"
  <2> DEFINE g == (a + f) - 1
  <2>1. /\ f \in 1 .. n /\ g \in a .. b /\ text[g] = part[f] /\ g \in Nat
        /\ \A i \in a .. (g - 1) : (i - a) + 1 \in 1 .. (f - 1) /\ i \in a .. b
    <3>1. f \in 1 .. n /\ g \in a .. b /\ text[g] = part[f]
      BY <1>1, <1>2, <1>8
    <3>2. g \in Nat /\ \A i \in a .. (g - 1) : (i - a) + 1 \in 1 .. (f - 1) /\ i \in a .. b
      BY <1>1, <3>1
    <3> QED
      BY <3>1, <3>2
  <2>2. opened # <<>> /\ Head(opened) = text[g]
    <3>1. 1 \in 1 .. ((n - f) + 1) /\ (f + 1) - 1 = f
      BY <1>1, <2>1
    <3>2. /\ opened \in Seq(Pieces) /\ Len(opened) = (n - f) + 1
          /\ opened[1] = part[f]
      BY <1>2, <1>8, <3>1 DEF Part
    <3>3. opened # <<>>
      <4>1. (n - f) + 1 > 0
        BY <1>1, <2>1
      <4>2. Len(opened) > 0
        BY <3>2, <4>1
      <4> QED
        BY <4>2
    <3>4. Head(opened) = opened[1]
      BY <3>2, <3>3
    <3> QED
      BY <2>1, <3>2, <3>3, <3>4
  <2>3. \A i \in a .. (g - 1) : text[i] = "open"
    BY <1>3, <1>8, <2>1
  <2>4. ASSUME NEW h \in a .. b, text[h] \in {"select", "with"}, \A i \in a .. (h - 1) : text[i] = "open"
        PROVE  h = g
    <3>1. ~(g < h)
      BY <1>8, <2>1, <2>4
    <3>2. ~(h < g)
      BY <2>1, <2>3, <2>4
    <3> QED
      BY <1>1, <2>1, <3>1, <3>2
  <2> HIDE DEF g
  <2> QED
    BY <1>5, <2>1, <2>2, <2>3, <2>4
<1> QED
  BY <1>6, <1>7, <1>8

LEMMA StackedWhere ==
    ASSUME NEW text \in Seq(Pieces), NEW a, NEW b, Outermost(text, a, b), Part(text, a, b, Strip(text))
    PROVE  Stacked(text) <=>
             \E i, m \in a .. b : i <= m /\ text[i] \in {"semicolon", "hidden_semicolon"} /\ text[m] # "semicolon"
                                  /\ \A j \in (m + 1) .. b : text[j] = "semicolon"
<1> DEFINE part == Strip(text)
           n == (b - a) + 1
<1> HIDE DEF n
<1>1. /\ a \in Nat \ {0} /\ b \in Nat /\ a <= b /\ n \in Nat
      /\ \A i \in a .. b : (i - a) + 1 \in 1 .. n /\ (a + ((i - a) + 1)) - 1 = i
      /\ \A i \in 1 .. n : (a + i) - 1 \in a .. b
  BY PartPositions DEF n
<1>2. /\ part \in Seq(Pieces) /\ Len(part) = n /\ DOMAIN part = 1 .. n
      /\ \A i \in 1 .. n : part[i] = text[(a + i) - 1]
  BY DEF Part, n
<1>3. \A i \in a .. b : part[(i - a) + 1] = text[i]
  BY <1>1, <1>2
<1>4. PICK rest : rest = RStrip(part, {"semicolon"})
  OBVIOUS
<1>5. Stacked(text) <=> \E i \in DOMAIN rest : part[i] \in {"semicolon", "hidden_semicolon"}
  BY <1>4 DEF Stacked
<1> HIDE DEF part
<1>6. PICK e \in 0 .. Len(part) :
        /\ e = 0 \/ (e \in DOMAIN part /\ part[e] \notin {"semicolon"})
        /\ \A i \in (e + 1) .. Len(part) : part[i] \in {"semicolon"}
        /\ Part(part, 1, e, rest)
  BY <1>2, <1>4, RightStripped
<1>7. e \in 0 .. n /\ DOMAIN rest = 1 .. e
  <2>1. e \in 0 .. n /\ (e - 1) + 1 = e
    BY <1>1, <1>2, <1>6
  <2> QED
    BY <1>6, <2>1 DEF Part
<1>8. ASSUME Stacked(text)
      PROVE  \E i, m \in a .. b : i <= m /\ text[i] \in {"semicolon", "hidden_semicolon"} /\ text[m] # "semicolon"
                                  /\ \A j \in (m + 1) .. b : text[j] = "semicolon"
  <2>1. PICK k \in 1 .. e : part[k] \in {"semicolon", "hidden_semicolon"}
    BY <1>5, <1>7, <1>8
  <2> DEFINE i == (a + k) - 1
             m == (a + e) - 1
  <2>2. i \in a .. b /\ m \in a .. b /\ i <= m /\ k \in 1 .. n /\ e \in 1 .. n
    BY <1>1, <1>7, <2>1
  <2>3. text[i] \in {"semicolon", "hidden_semicolon"} /\ text[m] # "semicolon"
    BY <1>2, <1>6, <2>1, <2>2
  <2>4. \A j \in (m + 1) .. b : text[j] = "semicolon"
    <3> TAKE j \in (m + 1) .. b
    <3>1. j \in a .. b /\ (j - a) + 1 \in (e + 1) .. n
      BY <1>1, <2>2
    <3> QED
      BY <1>2, <1>3, <1>6, <3>1
  <2> HIDE DEF i, m
  <2> QED
    BY <2>2, <2>3, <2>4
<1>9. ASSUME NEW i \in a .. b, NEW m \in a .. b, i <= m,
             text[i] \in {"semicolon", "hidden_semicolon"}, text[m] # "semicolon"
      PROVE  Stacked(text)
  <2> DEFINE k == (i - a) + 1
             l == (m - a) + 1
  <2>1. k \in 1 .. n /\ l \in 1 .. n /\ k <= l /\ part[k] = text[i] /\ part[l] = text[m]
    <3>1. part[k] = text[i] /\ part[l] = text[m] /\ k \in 1 .. n /\ l \in 1 .. n
      BY <1>1, <1>3
    <3>2. k <= l
      BY <1>1, <1>9
    <3> QED
      BY <3>1, <3>2
  <2> HIDE DEF k, l
  <2>2. ~(l > e)
    BY <1>1, <1>2, <1>6, <1>7, <1>9, <2>1
  <2>3. k \in 1 .. e
    BY <1>1, <1>7, <2>1, <2>2
  <2> QED
    BY <1>5, <1>7, <1>9, <2>1, <2>3
<1> QED
  BY <1>8, <1>9

\* A statement that is all blank passes nothing.
LEMMA BlankRefused ==
    ASSUME NEW text \in Seq(Pieces), Strip(text) = <<>>
    PROVE  ~OpensAsRead(text)
<1>1. PICK part : part = LStrip(<<>>, {"open"})
  OBVIOUS
<1>2. <<>> \in Seq(Pieces) /\ DOMAIN <<>> = {}
  OBVIOUS
<1>3. part = <<>>
  BY <1>1, <1>2, LeftStripped
<1> QED
  BY <1>1, <1>3 DEF OpensAsRead

-----------------------------------------------------------------------------
(* The chain against the statement read as SQL                              *)

\* A statement whose first word is at position p begins there.
LEMMA OpeningWhere ==
    ASSUME NEW text \in Seq(Pieces), NEW p \in DOMAIN text, text[p] \notin {"blank", "open"},
           \A i \in DOMAIN text : i < p => text[i] \in {"blank", "open"}
    PROVE  Opening(text) = p
<1> DEFINE first == Opening(text)
<1>1. \/ first = 0 /\ \A i \in DOMAIN text : text[i] \in {"blank", "open"}
      \/ first \in DOMAIN text /\ text[first] \notin {"blank", "open"}
           /\ \A i \in 1 .. (first - 1) : text[i] \in {"blank", "open"}
  BY FirstOther DEF Opening
<1> HIDE DEF first
<1>2. first \in DOMAIN text /\ text[first] \notin {"blank", "open"}
        /\ \A i \in 1 .. (first - 1) : text[i] \in {"blank", "open"}
  BY <1>1
<1>3. ~(first < p)
  BY <1>2
<1>4. ~(p < first)
  BY <1>2
<1>5. first \in Int /\ p \in Int
  BY <1>2
<1>6. first = p
  BY <1>3, <1>4, <1>5
<1> QED
  BY <1>6 DEF first

\* Where it begins, the other way round.
LEMMA OpeningIs ==
    ASSUME NEW text \in Seq(Pieces), Opening(text) # 0
    PROVE  /\ Opening(text) \in DOMAIN text
           /\ \A i \in 1 .. (Opening(text) - 1) : text[i] \in {"blank", "open"}
<1> DEFINE first == Opening(text)
<1>1. \/ first = 0 /\ \A i \in DOMAIN text : text[i] \in {"blank", "open"}
      \/ first \in DOMAIN text /\ text[first] \notin {"blank", "open"}
           /\ \A i \in 1 .. (first - 1) : text[i] \in {"blank", "open"}
  BY FirstOther DEF Opening
<1> QED
  BY <1>1

\* What the four guards let through, whatever its length, is one statement
\* that opens as a read does and has no blocked word.
LEMMA AcceptedQuery ==
    ASSUME NEW text \in Seq(Pieces), Verdict(text) = "ok"
    PROVE  IsOneQuery(text)
<1>1. /\ OpensAsRead(text) /\ ~Stacked(text)
      /\ ~Finds(text, "keyword", "hidden_keyword") /\ ~Finds(text, "schema", "hidden_schema")
  BY DEF Verdict
<1>2. ~BlockedWord(text)
  BY <1>1 DEF BlockedWord, Finds
<1>3. PICK a, b \in DOMAIN text : Outermost(text, a, b) /\ Part(text, a, b, Strip(text))
  BY <1>1, Stripped, BlankRefused
<1>4. PICK h \in a .. b : text[h] \in {"select", "with"} /\ \A i \in a .. (h - 1) : text[i] = "open"
  BY <1>1, <1>3, OpensWhere
<1>5. /\ Len(text) \in Nat /\ DOMAIN text = 1 .. Len(text)
      /\ a \in 1 .. Len(text) /\ b \in 1 .. Len(text) /\ h \in 1 .. Len(text)
  BY <1>3, <1>4
<1>6. Opening(text) = h
  <2>1. \A i \in DOMAIN text : i < h => text[i] \in {"blank", "open"}
    <3> SUFFICES ASSUME NEW i \in DOMAIN text, i < h PROVE text[i] \in {"blank", "open"}
      OBVIOUS
    <3>1. CASE i < a
      BY <1>3, <3>1 DEF Outermost
    <3>2. CASE ~(i < a)
      <4>1. i \in a .. (h - 1)
        BY <1>5, <3>2
      <4> QED
        BY <1>4, <4>1
    <3> QED
      BY <3>1, <3>2
  <2>2. h \in DOMAIN text /\ text[h] \notin {"blank", "open"}
    BY <1>4, <1>5
  <2> QED
    BY <2>1, <2>2, OpeningWhere
<1>7. OneStatement(text)
  <2>1. h \in Content(text)
    BY <1>4, <1>5 DEF Content
  <2>2. ASSUME NEW i \in Content(text), NEW k \in Content(text), NEW j \in i .. k, text[j] = "semicolon"
        PROVE  FALSE
    <3>1. /\ i \in DOMAIN text /\ text[i] # "blank"
          /\ k \in DOMAIN text /\ text[k] # "blank" /\ text[k] # "semicolon"
      BY DEF Content
    <3>2. a <= i /\ k <= b
      <4>1. ~(i < a) /\ ~(k > b)
        BY <1>3, <3>1 DEF Outermost
      <4> QED
        BY <1>5, <3>1, <4>1
    <3> DEFINE Solid == {m \in a .. b : text[m] # "semicolon"}
    <3>3. Solid \in SUBSET (1 .. Len(text)) /\ k \in Solid /\ j \in a .. b /\ j <= k
      BY <1>5, <3>1, <3>2
    <3>4. PICK m \in Solid : \A x \in Solid : x <= m
      <4> HIDE DEF Solid
      <4> QED
        BY <1>5, <3>3, Largest
    <3>5. m \in a .. b /\ text[m] # "semicolon" /\ j <= m
      BY <3>3, <3>4
    <3>6. \A x \in (m + 1) .. b : text[x] = "semicolon"
      <4> SUFFICES ASSUME NEW x \in (m + 1) .. b, text[x] # "semicolon" PROVE FALSE
        OBVIOUS
      <4>1. x \in a .. b /\ ~(x <= m)
        BY <1>5, <3>5
      <4> QED
        BY <3>4, <4>1
    <3>7. Stacked(text)
      BY <1>3, <2>2, <3>3, <3>5, <3>6, StackedWhere
    <3> QED
      BY <1>1, <3>7
  <2> QED
    BY <2>1, <2>2 DEF OneStatement
<1> QED
  BY <1>2, <1>4, <1>5, <1>6, <1>7 DEF IsOneQuery

\* A read that is refused has one of the three causes, whatever its length.
LEMMA RefusedCause ==
    ASSUME NEW text \in Seq(Pieces), IsOneRead(text), Verdict(text) # "ok"
    PROVE  \/ \E i \in DOMAIN text : text[i] \in Hidden
           \/ BlankInParentheses(text)
           \/ SplitTrailer(text)
<1> DEFINE p == Opening(text)
<1>1. /\ OneStatement(text) /\ ~BlockedWord(text) /\ p \in DOMAIN text /\ text[p] \in {"select", "with"}
      /\ \A i \in 1 .. (p - 1) : text[i] \in {"blank", "open"}
  BY OpeningIs DEF IsOneRead, IsOneQuery
<1>2. PICK a, b \in DOMAIN text : Outermost(text, a, b) /\ Part(text, a, b, Strip(text))
  <2>1. text[p] # "blank"
    BY <1>1
  <2> QED
    BY <1>1, <2>1, Stripped
<1> HIDE DEF p
<1>3. /\ Len(text) \in Nat /\ DOMAIN text = 1 .. Len(text)
      /\ a \in 1 .. Len(text) /\ b \in 1 .. Len(text) /\ p \in 1 .. Len(text)
  BY <1>1, <1>2
<1>4. p \in a .. b
  <2>1. ~(p < a) /\ ~(p > b)
    BY <1>1, <1>2 DEF Outermost
  <2> QED
    BY <1>3, <2>1
<1>5. CASE ~OpensAsRead(text)
  <2>1. PICK j \in a .. (p - 1) : text[j] # "open"
    BY <1>1, <1>2, <1>4, <1>5, OpensWhere
  <2>2. j \in 1 .. (p - 1) /\ a \in 1 .. (p - 1)
    BY <1>3, <2>1
  <2>3. text[j] = "blank" /\ text[a] = "open"
    BY <1>1, <1>2, <2>1, <2>2 DEF Outermost
  <2>4. a < j /\ a \in 1 .. p /\ j \in 1 .. p
    <3>1. a # j
      BY <2>3
    <3> QED
      BY <1>3, <2>1, <2>2, <3>1
  <2> QED
    BY <2>3, <2>4 DEF BlankInParentheses, p
<1>6. CASE Stacked(text)
  <2>1. PICK i \in a .. b, m \in a .. b :
          i <= m /\ text[i] \in {"semicolon", "hidden_semicolon"} /\ text[m] # "semicolon"
          /\ \A j \in (m + 1) .. b : text[j] = "semicolon"
    BY <1>2, <1>6, StackedWhere
  <2>2. i \in 1 .. Len(text) /\ m \in 1 .. Len(text)
    BY <1>3, <2>1
  <2>3. CASE text[i] = "hidden_semicolon"
    BY <1>3, <2>2, <2>3 DEF Hidden
  <2>4. CASE text[i] = "semicolon"
    <3>1. p <= i
      <4>1. ~(i \in 1 .. (p - 1))
        BY <1>1, <2>4
      <4> QED
        BY <1>3, <2>2, <4>1
    <3>2. i < m
      <4>1. i # m
        BY <2>1, <2>4
      <4> QED
        BY <2>1, <2>2, <4>1
    <3>3. text[m] = "blank"
      <4> SUFFICES ASSUME text[m] # "blank" PROVE FALSE
        OBVIOUS
      <4>1. p \in Content(text) /\ m \in Content(text)
        BY <1>1, <1>3, <2>1, <2>2 DEF Content
      <4>2. i \in p .. m
        BY <1>3, <2>1, <2>2, <3>1
      <4> QED
        BY <1>1, <2>4, <4>1, <4>2 DEF OneStatement
    <3>4. m < b /\ text[b] = "semicolon"
      <4>1. m # b
        BY <1>2, <3>3 DEF Outermost
      <4>2. m < b
        BY <1>3, <2>1, <4>1
      <4>3. b \in (m + 1) .. b
        BY <1>3, <2>2, <4>2
      <4> QED
        BY <2>1, <4>2, <4>3
    <3> QED
      BY <1>3, <2>2, <2>4, <3>2, <3>3, <3>4 DEF SplitTrailer
  <2> QED
    BY <2>1, <2>3, <2>4
<1>7. CASE Finds(text, "keyword", "hidden_keyword") \/ Finds(text, "schema", "hidden_schema")
  BY <1>1, <1>7 DEF Finds, BlockedWord, Hidden
<1> QED
  BY <1>5, <1>6, <1>7 DEF Verdict

-----------------------------------------------------------------------------
(* Theorems                                                                 *)

LEMMA TextType == Spec => [](sql \in Seq(Pieces))
<1>1. Init => sql \in Seq(Pieces)
  BY DEF Init
<1>2. sql \in Seq(Pieces) /\ [Write]_sql => (sql \in Seq(Pieces))'
  BY DEF Write
<1> QED
  BY <1>1, <1>2, PTL DEF Spec

\* What the guards accept is one query with no blocked word, for statements of any
\* length.  That it is a read is more, and does not hold: AcceptedIsOneRead.
THEOREM AcceptedForAll == Spec => []AcceptedIsOneQuery
<1>1. sql \in Seq(Pieces) => AcceptedIsOneQuery
  BY AcceptedQuery DEF AcceptedIsOneQuery
<1> QED
  BY <1>1, TextType, PTL

\* What they refuse although it is one read has one of three causes, for
\* statements of any length.
THEOREM RefusedForAll == Spec => []RefusedForACause
<1>1. sql \in Seq(Pieces) => RefusedForACause
  BY RefusedCause DEF RefusedForACause
<1> QED
  BY <1>1, TextType, PTL

=============================================================================
