----------------------------- MODULE DataLemmas -----------------------------
(***************************************************************************)
(* The facts about numbers, sequences, finite sets and sums that the       *)
(* proofs of the other modules cite: induction as a fact about sets, what  *)
(* flattening a table of sequences gives and when it rises, what a sum     *)
(* over a finite set gains or loses when one term changes, what a fold     *)
(* over a sequence gives step by step, that ranks put a strict order in    *)
(* places, and what merging, clipping and adding up windows of time gives. *)
(***************************************************************************)
EXTENDS Integers, Sequences, SequencesExt, FiniteSetsExt, SequenceTheorems, FiniteSetTheorems,
        WellFoundedInduction, TLAPS

(* A set that holds 0 and each successor holds every natural number.       *)
LEMMA SetInduction ==
    ASSUME NEW S, 0 \in S, \A n \in Nat : n \in S => n + 1 \in S
    PROVE  Nat \subseteq S
<1> SUFFICES ASSUME Nat \ S # {} PROVE FALSE
  OBVIOUS
<1> DEFINE R == OpToRel(<, Nat)
<1>1. IsWellFoundedOn(R, Nat)
  BY NatLessThanWellFounded
<1>2. \E x \in Nat \ S : \A y \in Nat \ S : ~(<<y, x>> \in R)
  <2> HIDE DEF R
  <2> QED BY <1>1, WFMin
<1>3. PICK x \in Nat \ S : \A y \in Nat \ S : ~(<<y, x>> \in R)
  BY <1>2
<1>4. x - 1 \in Nat
  OBVIOUS
<1>5. <<x - 1, x>> \in R
  BY <1>4 DEF OpToRel
<1>6. x - 1 \in S
  BY <1>3, <1>4, <1>5
<1> QED
  BY <1>4, <1>6

(* A set of naturals that is not empty has a least element.               *)
LEMMA LeastExists ==
    ASSUME NEW S, S \subseteq Nat, S # {}
    PROVE  \E x \in S : \A y \in S : x <= y
<1> DEFINE R == OpToRel(<, Nat)
<1>1. IsWellFoundedOn(R, Nat)
  BY NatLessThanWellFounded
<1>2. \E x \in S : \A y \in S : ~(<<y, x>> \in R)
  <2> HIDE DEF R
  <2> QED BY <1>1, WFMin
<1>3. PICK x \in S : \A y \in S : ~(<<y, x>> \in R)
  BY <1>2
<1>4. ASSUME NEW y \in S PROVE x <= y
  <2>1. x \in Nat /\ y \in Nat
    OBVIOUS
  <2>2. ~(y < x)
    BY <2>1, <1>3 DEF OpToRel
  <2> QED BY <2>1, <2>2
<1> QED BY <1>4

(* A finite set of numbers has a greatest, as every set has a least.          *)
LEMMA GreatestExists ==
  ASSUME NEW S \in SUBSET Nat, IsFiniteSet(S), S # {}
  PROVE  \E x \in S : \A y \in S : x >= y
<1> DEFINE Top(T) == \E x \in T : \A y \in T : x >= y
           N == {n \in Nat : \A T \in SUBSET S : T # {} /\ IsFiniteSet(T) /\ Cardinality(T) = n => Top(T)}
<1>1. 0 \in N
  <2>1. \A T \in SUBSET S : IsFiniteSet(T) /\ Cardinality(T) = 0 => T = {}
    BY FS_EmptySet
  <2> QED BY <2>1
<1>2. ASSUME NEW n \in N PROVE n + 1 \in N
  <2> SUFFICES ASSUME NEW T \in SUBSET S, T # {}, IsFiniteSet(T), Cardinality(T) = n + 1 PROVE Top(T)
    OBVIOUS
  <2>1. PICK x \in T : TRUE
    OBVIOUS
  <2> DEFINE U == T \ {x}
  <2>2. IsFiniteSet(U) /\ Cardinality(U) = Cardinality(T) - 1
    BY FS_RemoveElement
  <2>3. Cardinality(U) = n
    <3>1. n \in Nat
      OBVIOUS
    <3> QED BY ONLY <3>1, <2>2, Cardinality(T) = n + 1
  <2>4. CASE U = {}
    BY <2>4
  <2>5. CASE U # {}
    <3>1. PICK y \in U : \A z \in U : y >= z
      BY <2>2, <2>3, <2>5
    <3>2. x \in Nat /\ y \in Nat /\ U \subseteq Nat
      OBVIOUS
    <3>3. CASE x >= y
      BY <3>1, <3>2, <3>3
    <3>4. CASE y >= x
      BY <3>1, <3>2, <3>4
    <3> QED BY <3>2, <3>3, <3>4
  <2> QED BY <2>4, <2>5
<1>3. Nat \subseteq N
  <2> HIDE DEF N
  <2> QED BY <1>1, <1>2, SetInduction
<1>4. Cardinality(S) \in Nat
  BY FS_CardinalityType
<1> QED BY <1>3, <1>4

(* A part of a sequence is a sequence, and appending leaves it as it is.   *)
LEMMA PartOfSeq ==
    ASSUME NEW S, NEW s \in Seq(S), NEW a \in Nat \ {0}, NEW b \in 0..Len(s)
    PROVE  SubSeq(s, a, b) \in Seq(S)
<1>1. \A i \in a..b : s[i] \in S
  OBVIOUS
<1> QED BY <1>1, SubSeqProperties

(* A part of a sequence is unchanged by what is appended to the whole.     *)
LEMMA PartOfAppend ==
    ASSUME NEW S, NEW s \in Seq(S), NEW e \in S, NEW a \in Nat \ {0}, NEW b \in 0..Len(s)
    PROVE  SubSeq(Append(s, e), a, b) = SubSeq(s, a, b)
<1> DEFINE t == Append(s, e)
           x == SubSeq(t, a, b)
           y == SubSeq(s, a, b)
<1>1. /\ t \in Seq(S) /\ Len(t) = Len(s) + 1 /\ Len(s) \in Nat
      /\ \A i \in 1..Len(s) : t[i] = s[i]
  BY AppendProperties
<1> HIDE DEF t
<1>2. /\ x \in Seq(S) /\ Len(x) = IF a <= b THEN b - a + 1 ELSE 0
      /\ \A i \in 1..b - a + 1 : x[i] = t[a + i - 1]
  <2>1. \A i \in a..b : t[i] \in S
    BY <1>1
  <2> QED BY <2>1, SubSeqProperties
<1>3. /\ y \in Seq(S) /\ Len(y) = IF a <= b THEN b - a + 1 ELSE 0
      /\ \A i \in 1..b - a + 1 : y[i] = s[a + i - 1]
  <2>1. \A i \in a..b : s[i] \in S
    OBVIOUS
  <2> QED BY <2>1, SubSeqProperties
<1> HIDE DEF x, y
<1>4. \A i \in 1..Len(x) : x[i] = y[i]
  <2> SUFFICES ASSUME NEW i \in 1..Len(x) PROVE x[i] = y[i]
    OBVIOUS
  <2>1. i \in 1..b - a + 1 /\ a + i - 1 \in 1..Len(s)
    BY <1>1, <1>2
  <2> QED BY <2>1, <1>1, <1>2, <1>3
<1>5. x = y
  BY <1>2, <1>3, <1>4, SeqEqual
<1> QED BY <1>5 DEF x, y, t

(* A sequence is what comes before a place and what comes from it on.      *)
LEMMA SplitAt ==
    ASSUME NEW S, NEW s \in Seq(S), NEW k \in 1..Len(s) + 1
    PROVE  s = SubSeq(s, 1, k - 1) \o SubSeq(s, k, Len(s))
<1>1. 1 \in 1..Len(s) + 1 /\ k - 1 \in 1 - 1..Len(s) /\ Len(s) \in k - 1..Len(s) /\ (k - 1) + 1 = k
  OBVIOUS
<1>2. SubSeq(s, 1, k - 1) \o SubSeq(s, (k - 1) + 1, Len(s)) = SubSeq(s, 1, Len(s))
  BY <1>1, ConcatAdjacentSubSeq
<1>3. SubSeq(s, 1, Len(s)) = s
  BY SubSeqFull
<1> QED BY <1>1, <1>2, <1>3

(* FlattenSeq's table of concatenations exists.                            *)
LEMMA FlattenTable ==
    ASSUME NEW s
    PROVE  \A n \in Nat : \E g : g = [i \in 1..n |-> IF i = 1 THEN s[i] ELSE g[i - 1] \o s[i]]
<1> DEFINE Table(g, n) == g = [i \in 1..n |-> IF i = 1 THEN s[i] ELSE g[i - 1] \o s[i]]
           Exists(n) == \E g : Table(g, n)
           S == {n \in Nat : Exists(n)}
<1>1. Exists(0)
  <2>1. <<>> = [i \in 1..0 |-> IF i = 1 THEN s[i] ELSE <<>>[i - 1] \o s[i]]
    OBVIOUS
  <2> QED BY <2>1
<1>2. ASSUME NEW n \in Nat, Exists(n) PROVE Exists(n + 1)
  <2>1. PICK g : g = [i \in 1..n |-> IF i = 1 THEN s[i] ELSE g[i - 1] \o s[i]]
    BY <1>2
  <2> DEFINE h == [i \in 1..n + 1 |-> IF i \in 1..n THEN g[i]
                                      ELSE IF i = 1 THEN s[i] ELSE g[n] \o s[i]]
             k == [i \in 1..n + 1 |-> IF i = 1 THEN s[i] ELSE h[i - 1] \o s[i]]
  <2>2. ASSUME NEW i \in 1..n + 1 PROVE h[i] = IF i = 1 THEN s[i] ELSE h[i - 1] \o s[i]
    <3>1. CASE i \in 1..n /\ i # 1
      <4>1. h[i] = g[i] /\ h[i - 1] = g[i - 1]
        BY <3>1
      <4>2. g[i] = g[i - 1] \o s[i]
        BY <3>1, <2>1
      <4> QED BY <4>1, <4>2, <3>1
    <3>2. CASE i \in 1..n /\ i = 1
      <4>1. g[i] = s[i]
        BY <3>2, <2>1
      <4> QED BY <4>1, <3>2
    <3>3. CASE i = n + 1
      BY <3>3
    <3> QED BY <3>1, <3>2, <3>3
  <2>3. h = k
    BY <2>2
  <2>4. Table(h, n + 1)
    BY <2>3
  <2> HIDE DEF h, Table
  <2> QED BY <2>4
<1>3. Nat \subseteq S
  <2>1. 0 \in S /\ \A n \in Nat : n \in S => n + 1 \in S
    <3> HIDE DEF Exists
    <3> QED BY <1>1, <1>2
  <2> HIDE DEF S
  <2> QED BY <2>1, SetInduction
<1> QED
  <2> SUFFICES ASSUME NEW n \in Nat PROVE Exists(n)
    OBVIOUS
  <2> HIDE DEF Exists
  <2> QED BY <1>3

(* FlattenSeq of a sequence that is not empty is the last of its table.    *)
LEMMA FlattenDef ==
    ASSUME NEW s, Len(s) \in Nat, Len(s) # 0
    PROVE  \E g : /\ FlattenSeq(s) = g[Len(s)] /\ g[1] = s[1]
                  /\ \A i \in Nat : i + 1 \in 2..Len(s) => g[i + 1] = g[i] \o s[i + 1]
<1> DEFINE Table(g) == g = [i \in 1..Len(s) |-> IF i = 1 THEN s[i] ELSE g[i - 1] \o s[i]]
           f == CHOOSE g : Table(g)
<1>1. \E g : Table(g)
  BY FlattenTable
<1>2. Table(f)
  <2> HIDE DEF Table
  <2> QED BY <1>1
<1>3. FlattenSeq(s) = f[Len(s)]
  BY DEF FlattenSeq
<1>4. \A i \in 1..Len(s) : f[i] = IF i = 1 THEN s[i] ELSE f[i - 1] \o s[i]
  <2> HIDE DEF f
  <2> QED BY <1>2
<1> HIDE DEF f
<1>5. f[1] = s[1]
  BY <1>4
<1>6. ASSUME NEW i \in Nat, i + 1 \in 2..Len(s) PROVE f[i + 1] = f[i] \o s[i + 1]
  <2>1. i + 1 \in 1..Len(s) /\ i + 1 # 1 /\ (i + 1) - 1 = i
    BY <1>6
  <2> QED BY <2>1, <1>4
<1> QED BY <1>3, <1>5, <1>6

(* Flattening sequences over T gives a sequence over T.                    *)
LEMMA FlattenType ==
    ASSUME NEW T, NEW s \in Seq(Seq(T))
    PROVE  FlattenSeq(s) \in Seq(T)
<1>1. CASE Len(s) = 0
  <2>1. s = <<>> /\ <<>> \in Seq(T)
    BY <1>1
  <2> QED BY <2>1 DEF FlattenSeq
<1>2. CASE Len(s) # 0
  <2>0. Len(s) \in Nat
    OBVIOUS
  <2>1. PICK g : /\ FlattenSeq(s) = g[Len(s)]
                 /\ g[1] = s[1]
                 /\ \A i \in Nat : i + 1 \in 2..Len(s) => g[i + 1] = g[i] \o s[i + 1]
    BY <1>2, <2>0, FlattenDef
  <2>2. \A i \in 1..Len(s) : s[i] \in Seq(T)
    OBVIOUS
  <2> DEFINE S == {n \in Nat : n \in 1..Len(s) => g[n] \in Seq(T)}
  <2>3. 0 \in S
    OBVIOUS
  <2>4. ASSUME NEW n \in Nat, n \in S PROVE n + 1 \in S
    <3> SUFFICES ASSUME n + 1 \in 1..Len(s) PROVE g[n + 1] \in Seq(T)
      OBVIOUS
    <3>1. CASE n = 0
      <4>1. g[1] = s[1]
        BY <2>1, <3>1
      <4> QED BY <4>1, <2>2, <3>1
    <3>2. CASE n # 0
      <4>1. g[n] \in Seq(T)
        BY <2>4, <3>2
      <4>2. n + 1 \in 2..Len(s)
        BY <2>0, <3>2
      <4>3. g[n + 1] = g[n] \o s[n + 1]
        BY <2>1, <4>2
      <4> QED BY <4>1, <4>3, <2>2
    <3> QED BY <3>1, <3>2
  <2>5. Nat \subseteq S
    <3> HIDE DEF S
    <3> QED BY <2>3, <2>4, SetInduction
  <2>6. Len(s) \in S
    BY <2>0, <2>5
  <2> QED BY <2>6, <2>1, <2>0, <1>2
<1> QED BY <1>1, <1>2

(* One sequence more is appended to what was flattened.                    *)
LEMMA FlattenAppend ==
    ASSUME NEW T, NEW s \in Seq(Seq(T)), NEW e \in Seq(T)
    PROVE  FlattenSeq(Append(s, e)) = FlattenSeq(s) \o e
<1> DEFINE a == Append(s, e)
           m == Len(s)
<1>1. /\ m \in Nat /\ Len(a) = m + 1 /\ a \in Seq(Seq(T)) /\ a[m + 1] = e
      /\ \A i \in 1..m : a[i] = s[i]
  BY AppendProperties
<1>2. PICK h : /\ FlattenSeq(a) = h[m + 1]
               /\ h[1] = a[1]
               /\ \A i \in Nat : i + 1 \in 2..m + 1 => h[i + 1] = h[i] \o a[i + 1]
  <2>1. Len(a) \in Nat /\ Len(a) # 0 /\ Len(a) = m + 1
    BY <1>1
  <2> HIDE DEF a, m
  <2>2. \E g : /\ FlattenSeq(a) = g[Len(a)]
               /\ g[1] = a[1]
               /\ \A i \in Nat : i + 1 \in 2..Len(a) => g[i + 1] = g[i] \o a[i + 1]
    BY <2>1, FlattenDef
  <2> QED BY <2>1, <2>2
<1>3. CASE m = 0
  <2>1. h[1] = e
    BY <1>1, <1>2, <1>3
  <2>2. s = <<>> /\ FlattenSeq(s) = <<>>
    BY <1>3 DEF FlattenSeq
  <2>3. <<>> \o e = e
    BY ConcatEmptySeq
  <2> QED BY <2>1, <2>2, <2>3, <1>2, <1>3
<1>4. CASE m # 0
  <2>1. PICK g : /\ FlattenSeq(s) = g[m]
                 /\ g[1] = s[1]
                 /\ \A i \in Nat : i + 1 \in 2..m => g[i + 1] = g[i] \o s[i + 1]
    BY <1>1, <1>4, FlattenDef
  <2> HIDE DEF a, m
  <2> DEFINE S == {n \in Nat : n \in 1..m => g[n] = h[n]}
  <2>2. 0 \in S
    OBVIOUS
  <2>3. ASSUME NEW n \in Nat, n \in S PROVE n + 1 \in S
    <3> SUFFICES ASSUME n + 1 \in 1..m PROVE g[n + 1] = h[n + 1]
      OBVIOUS
    <3>1. CASE n = 0
      <4>1. g[1] = s[1] /\ h[1] = a[1] /\ a[1] = s[1]
        BY <1>1, <1>2, <2>1, <3>1
      <4> QED BY <4>1, <3>1
    <3>2. CASE n # 0
      <4>1. g[n] = h[n]
        BY <2>3, <3>2, <1>1
      <4>2. n + 1 \in 2..m /\ n + 1 \in 2..m + 1
        BY <1>1, <3>2
      <4>3. g[n + 1] = g[n] \o s[n + 1]
        BY <2>1, <4>2
      <4>4. h[n + 1] = h[n] \o a[n + 1]
        BY <1>2, <4>2
      <4>5. a[n + 1] = s[n + 1]
        BY <1>1
      <4> QED BY <4>1, <4>3, <4>4, <4>5
    <3> QED BY <3>1, <3>2
  <2>4. Nat \subseteq S
    <3> HIDE DEF S
    <3> QED BY <2>2, <2>3, SetInduction
  <2>5. g[m] = h[m]
    BY <2>4, <1>1, <1>4
  <2>6. h[m + 1] = h[m] \o a[m + 1]
    <3>1. m + 1 \in 2..m + 1
      BY <1>1, <1>4
    <3> QED BY <1>1, <1>2, <3>1
  <2>7. FlattenSeq(a) = FlattenSeq(s) \o e
    BY <2>1, <2>5, <2>6, <1>1, <1>2
  <2> QED BY <2>7 DEF a
<1> QED BY <1>3, <1>4

(* Flattening distributes over concatenation.                              *)
LEMMA FlattenConcat ==
    ASSUME NEW T, NEW s \in Seq(Seq(T)), NEW t \in Seq(Seq(T))
    PROVE  FlattenSeq(s \o t) = FlattenSeq(s) \o FlattenSeq(t)
<1> DEFINE S == {n \in Nat : \A u \in Seq(Seq(T)) : Len(u) = n =>
                     FlattenSeq(s \o u) = FlattenSeq(s) \o FlattenSeq(u)}
<1>1. 0 \in S
  <2> SUFFICES ASSUME NEW u \in Seq(Seq(T)), Len(u) = 0
               PROVE  FlattenSeq(s \o u) = FlattenSeq(s) \o FlattenSeq(u)
    OBVIOUS
  <2>1. u = <<>> /\ FlattenSeq(u) = <<>>
    BY DEF FlattenSeq
  <2>2. s \o <<>> = s
    BY ConcatEmptySeq
  <2>3. FlattenSeq(s) \o <<>> = FlattenSeq(s)
    BY FlattenType, ConcatEmptySeq
  <2> QED BY <2>1, <2>2, <2>3
<1>2. ASSUME NEW n \in Nat, n \in S PROVE n + 1 \in S
  <2> SUFFICES ASSUME NEW u \in Seq(Seq(T)), Len(u) = n + 1
               PROVE  FlattenSeq(s \o u) = FlattenSeq(s) \o FlattenSeq(u)
    OBVIOUS
  <2>0. u # <<>>
    OBVIOUS
  <2>1. PICK v \in Seq(Seq(T)), e \in Seq(T) : u = Append(v, e)
    BY <2>0, SequenceEmptyOrAppend
  <2>2. Len(v) = n
    BY <2>1, AppendProperties
  <2>3. FlattenSeq(s \o v) = FlattenSeq(s) \o FlattenSeq(v)
    BY <1>2, <2>2
  <2>4. s \o u = Append(s \o v, e) /\ s \o v \in Seq(Seq(T))
    <3>1. u = v \o <<e>> /\ <<e>> \in Seq(Seq(T))
      BY <2>1, AppendIsConcat
    <3>2. s \o v \in Seq(Seq(T))
      BY ConcatProperties
    <3>3. s \o (v \o <<e>>) = (s \o v) \o <<e>>
      BY <3>1, ConcatAssociative
    <3>4. (s \o v) \o <<e>> = Append(s \o v, e)
      BY <3>2, AppendIsConcat
    <3> QED BY <3>1, <3>2, <3>3, <3>4
  <2>5. FlattenSeq(s \o u) = (FlattenSeq(s) \o FlattenSeq(v)) \o e
    BY <2>3, <2>4, FlattenAppend
  <2>6. FlattenSeq(u) = FlattenSeq(v) \o e
    BY <2>1, FlattenAppend
  <2>7. FlattenSeq(s) \in Seq(T) /\ FlattenSeq(v) \in Seq(T)
    BY FlattenType
  <2>8. (FlattenSeq(s) \o FlattenSeq(v)) \o e = FlattenSeq(s) \o (FlattenSeq(v) \o e)
    <3> DEFINE x == FlattenSeq(s)  y == FlattenSeq(v)
    <3>1. x \in Seq(T) /\ y \in Seq(T)
      BY <2>7
    <3> HIDE DEF x, y
    <3>2. (x \o y) \o e = x \o (y \o e)
      BY ONLY <3>1, e \in Seq(T), SMTT(30)
    <3> QED BY <3>2 DEF x, y
  <2> QED BY <2>5, <2>6, <2>8
<1>3. Nat \subseteq S
  <2> HIDE DEF S
  <2> QED BY <1>1, <1>2, SetInduction
<1>4. Len(t) \in S
  BY <1>3
<1> QED BY <1>4
(* What is left after a beginning is a suffix.                             *)
LEMMA SuffixOfConcat ==
    ASSUME NEW T, NEW p \in Seq(T), NEW s \in Seq(T)
    PROVE  IsSuffix(s, p \o s)
<1> DEFINE c == p \o s
<1>1. /\ c \in Seq(T) /\ Len(c) = Len(p) + Len(s) /\ Len(p) \in Nat /\ Len(s) \in Nat
      /\ \A i \in 1..Len(s) : c[Len(p) + i] = s[i]
  OBVIOUS
<1> HIDE DEF c
<1>2. Reverse(s) \in Seq(T) /\ Len(Reverse(s)) = Len(s)
  BY DEF Reverse
<1>3. Reverse(c) \in Seq(T) /\ Len(Reverse(c)) = Len(c)
  BY <1>1 DEF Reverse
<1>4. ASSUME NEW i \in 1..Len(s) PROVE Reverse(s)[i] = Reverse(c)[i]
  <2>1. /\ i \in 1..Len(c) /\ (Len(s) - i) + 1 \in 1..Len(s)
        /\ (Len(c) - i) + 1 = Len(p) + ((Len(s) - i) + 1)
    BY <1>1
  <2>2. Reverse(c)[i] = c[(Len(c) - i) + 1]
    BY <2>1 DEF Reverse
  <2>3. Reverse(s)[i] = s[(Len(s) - i) + 1]
    BY DEF Reverse
  <2>4. c[Len(p) + ((Len(s) - i) + 1)] = s[(Len(s) - i) + 1]
    BY <2>1, <1>1
  <2> QED BY <2>1, <2>2, <2>3, <2>4
<1>5. SubSeq(Reverse(s), 1, Len(s)) = SubSeq(Reverse(c), 1, Len(s))
  <2> DEFINE rs == Reverse(s)
             rc == Reverse(c)
  <2>1. rs \in Seq(T) /\ rc \in Seq(T) /\ Len(rs) = Len(s) /\ Len(rc) >= Len(s)
        /\ \A i \in 1..Len(s) : rs[i] = rc[i]
    BY <1>1, <1>2, <1>3, <1>4
  <2> HIDE DEF rs, rc
  <2>2. SubSeq(rs, 1, Len(s)) = SubSeq(rc, 1, Len(s))
    BY <2>1, <1>1
  <2> QED BY <2>2 DEF rs, rc
<1>6. IsSuffix(s, c)
  BY <1>1, <1>2, <1>3, <1>5 DEF IsSuffix, IsPrefix
<1> QED BY <1>6 DEF c

(* A member of a list is its head or in its tail.                          *)
LEMMA HeadOrTail ==
    ASSUME NEW S, NEW seq \in Seq(S), seq # <<>>
    PROVE  /\ Head(seq) \in S /\ Tail(seq) \in Seq(S)
           /\ ToSet(seq) = {Head(seq)} \cup ToSet(Tail(seq))
<1>1. Len(seq) \in Nat \ {0} /\ Head(seq) = seq[1]
  OBVIOUS
<1>2. Tail(seq) \in Seq(S) /\ Len(Tail(seq)) = Len(seq) - 1
  OBVIOUS
<1>3. \A i \in 1..Len(Tail(seq)) : Tail(seq)[i] = seq[i + 1]
  OBVIOUS
<1>4. Head(seq) \in S
  BY <1>1
<1>5. ToSet(seq) \subseteq {Head(seq)} \cup ToSet(Tail(seq))
  <2> SUFFICES ASSUME NEW i \in 1..Len(seq), i # 1
               PROVE  seq[i] \in ToSet(Tail(seq))
    BY <1>1 DEF ToSet
  <2>1. i - 1 \in 1..Len(Tail(seq)) /\ seq[i] = Tail(seq)[i - 1]
    BY <1>1, <1>2, <1>3
  <2>2. DOMAIN Tail(seq) = 1..Len(Tail(seq))
    BY <1>2
  <2> QED
    BY <2>1, <2>2 DEF ToSet
<1>6. {Head(seq)} \cup ToSet(Tail(seq)) \subseteq ToSet(seq)
  <2>1. Head(seq) \in ToSet(seq)
    BY <1>1 DEF ToSet
  <2>2. ASSUME NEW i \in 1..Len(Tail(seq))
        PROVE  Tail(seq)[i] \in ToSet(seq)
    BY <2>2, <1>1, <1>2, <1>3 DEF ToSet
  <2> QED
    BY <2>1, <2>2, <1>2 DEF ToSet
<1> QED
  BY <1>2, <1>4, <1>5, <1>6

(* An appended element comes after all there are.                          *)
LEMMA Appending ==
    ASSUME NEW S, NEW len \in Nat, NEW s \in [1..len -> S], NEW e \in S
    PROVE  /\ Append(s, e) \in [1..len + 1 -> S] /\ Append(s, e)[len + 1] = e
           /\ \A i \in 1..len : Append(s, e)[i] = s[i]
<1>1. s \in Seq(S)
  OBVIOUS
<1>2. Len(s) = len
  BY <1>1
<1>3. Append(s, e) \in Seq(S) /\ Len(Append(s, e)) = len + 1
  BY <1>1, <1>2
<1>4. Append(s, e)[len + 1] = e
  BY <1>1, <1>2
<1>5. \A i \in 1..len : Append(s, e)[i] = s[i]
  BY <1>1, <1>2
<1>6. Append(s, e) \in [1..len + 1 -> S]
  <2>1. \A q \in Seq(S) : q \in [1..Len(q) -> S]
    OBVIOUS
  <2> QED
    BY <2>1, <1>3
<1> QED
  BY <1>4, <1>5, <1>6
-----------------------------------------------------------------------------
(* One member of a set, the one the library's folds take next.             *)
Pick(s) == CHOOSE x \in s : TRUE
(* The table of the sums of F over the subsets of S.                       *)
SumTable(h, F, S) ==
    h = [s \in SUBSET S |-> IF s = {} THEN 0 ELSE F[Pick(s)] + h[s \ {Pick(s)}]]

(* Such a table exists over every finite set.                             *)
LEMMA FoldTable ==
    ASSUME NEW F, NEW S, IsFiniteSet(S)
    PROVE  \E h : SumTable(h, F, S)
<1> DEFINE Small(n) == {s \in SUBSET S : Cardinality(s) <= n}
           Table(g, n) == g = [s \in Small(n) |-> IF s = {} THEN 0 ELSE F[Pick(s)] + g[s \ {Pick(s)}]]
           Exists(n) == \E g : Table(g, n)
           N == {n \in Nat : Exists(n)}
<1>0. \A s \in SUBSET S : IsFiniteSet(s) /\ Cardinality(s) \in Nat /\ (s # {} => Pick(s) \in s)
  BY FS_Subset, FS_CardinalityType DEF Pick
<1>a. \A s \in SUBSET S : s # {} => Cardinality(s \ {Pick(s)}) = Cardinality(s) - 1 /\ s \ {Pick(s)} \in SUBSET S
  BY <1>0, FS_RemoveElement
<1>b. \A s \in SUBSET S : Cardinality(s) = 0 => s = {}
  BY <1>0, FS_EmptySet
<1>1. Exists(0)
  <2> DEFINE g == [s \in Small(0) |-> 0]
  <2>1. \A s \in Small(0) : s = {}
    BY <1>0, <1>b
  <2>2. g = [s \in Small(0) |-> IF s = {} THEN 0 ELSE F[Pick(s)] + g[s \ {Pick(s)}]]
    BY <2>1
  <2> QED BY <2>2
<1>2. ASSUME NEW n \in Nat, Exists(n) PROVE Exists(n + 1)
  <2>1. PICK g : Table(g, n)
    BY <1>2
  <2> DEFINE e == [s \in Small(n + 1) |-> IF s = {} THEN 0 ELSE F[Pick(s)] + g[s \ {Pick(s)}]]
  <2>2. \A s \in Small(n) : s \in Small(n + 1) /\ e[s] = g[s]
    <3>1. \A s \in Small(n) : s \in Small(n + 1)
      BY <1>0
    <3>2. \A s \in Small(n) : g[s] = IF s = {} THEN 0 ELSE F[Pick(s)] + g[s \ {Pick(s)}]
      BY <2>1
    <3>3. \A s \in Small(n + 1) : e[s] = IF s = {} THEN 0 ELSE F[Pick(s)] + g[s \ {Pick(s)}]
      OBVIOUS
    <3> HIDE DEF Small, e
    <3> QED BY <3>1, <3>2, <3>3
  <2>3. \A s \in Small(n + 1) : s # {} => s \ {Pick(s)} \in Small(n)
    BY <1>0, <1>a
  <2>4. \A s \in Small(n + 1) : s # {} => e[s \ {Pick(s)}] = g[s \ {Pick(s)}]
    <3> HIDE DEF Small, e
    <3> QED BY <2>2, <2>3
  <2>5. e = [s \in Small(n + 1) |-> IF s = {} THEN 0 ELSE F[Pick(s)] + e[s \ {Pick(s)}]]
    <3> DEFINE r == [s \in Small(n + 1) |-> IF s = {} THEN 0 ELSE F[Pick(s)] + e[s \ {Pick(s)}]]
    <3>1. \A s \in Small(n + 1) : e[s] = IF s = {} THEN 0 ELSE F[Pick(s)] + g[s \ {Pick(s)}]
      OBVIOUS
    <3>2. DOMAIN e = Small(n + 1) /\ e = [s \in Small(n + 1) |-> e[s]]
      OBVIOUS
    <3> HIDE DEF e, Small
    <3> QED BY <3>1, <3>2, <2>4
  <2> HIDE DEF e, Small
  <2> QED BY <2>5
<1>3. Exists(Cardinality(S))
  <2>1. 0 \in N /\ \A n \in Nat : n \in N => n + 1 \in N
    <3> HIDE DEF Exists
    <3> QED BY <1>1, <1>2
  <2> HIDE DEF N
  <2>2. Nat \subseteq N
    BY <2>1, SetInduction
  <2>3. Cardinality(S) \in N
    BY <2>2, FS_CardinalityType
  <2> HIDE DEF Exists
  <2> QED BY <2>3 DEF N
<1>4. Small(Cardinality(S)) = SUBSET S
  BY FS_Subset
<1> QED BY <1>3, <1>4 DEF SumTable

(* The next entry of a table.                                              *)
LEMMA SumNext ==
    ASSUME NEW F, NEW S, NEW h, SumTable(h, F, S)
    PROVE  /\ h[{}] = 0
           /\ \A s \in SUBSET S : s # {} =>
                 Pick(s) \in s /\ h[s] = F[Pick(s)] + h[s \ {Pick(s)}]
<1>1. \A s \in SUBSET S : h[s] = IF s = {} THEN 0 ELSE F[Pick(s)] + h[s \ {Pick(s)}]
  BY DEF SumTable
<1>2. \A s : s # {} => Pick(s) \in s
  BY DEF Pick
<1> QED BY <1>1, <1>2

(* A set of subsets that is closed under adding the picked member has all  *)
(* of them.                                                                *)
LEMMA PickInduction ==
    ASSUME NEW S, IsFiniteSet(S), NEW P, {} \in P,
           \A s \in SUBSET S : s # {} /\ s \ {Pick(s)} \in P => s \in P
    PROVE  SUBSET S \subseteq P
<1> DEFINE N == {n \in Nat : \A s \in SUBSET S : Cardinality(s) = n => s \in P}
<1>0. \A s \in SUBSET S : IsFiniteSet(s) /\ Cardinality(s) \in Nat /\ (s # {} => Pick(s) \in s)
  BY FS_Subset, FS_CardinalityType DEF Pick
<1>1. 0 \in N
  BY <1>0, FS_EmptySet
<1>2. ASSUME NEW n \in Nat, n \in N PROVE n + 1 \in N
  <2> SUFFICES ASSUME NEW s \in SUBSET S, Cardinality(s) = n + 1 PROVE s \in P
    OBVIOUS
  <2>1. s # {}
    BY FS_EmptySet
  <2>2. Cardinality(s \ {Pick(s)}) = n /\ s \ {Pick(s)} \in SUBSET S
    BY <2>1, <1>0, FS_RemoveElement
  <2> QED BY <2>1, <2>2, <1>2
<1> HIDE DEF N
<1>3. Nat \subseteq N
  BY <1>1, <1>2, SetInduction
<1> QED BY <1>0, <1>3 DEF N

SumTables(h, F, S, k, G, T) == SumTable(h, F, S) /\ SumTable(k, G, T)

(* Tables of functions that agree on a set agree on its sum.               *)
LEMMA TablesAgree ==
    ASSUME NEW F, NEW G, NEW S, NEW T, NEW R, IsFiniteSet(R), R \subseteq S, R \subseteq T,
           NEW h, NEW k, SumTables(h, F, S, k, G, T),
           \A x \in R : F[x] = G[x]
    PROVE  h[R] = k[R]
<1> DEFINE P == {s \in SUBSET R : h[s] = k[s]}
<1>0. SumTable(h, F, S) /\ SumTable(k, G, T)
  BY DEF SumTables
<1>1. /\ h[{}] = 0
      /\ \A s \in SUBSET S : s # {} =>
                 Pick(s) \in s /\ h[s] = F[Pick(s)] + h[s \ {Pick(s)}]
  BY <1>0, SumNext
<1>2. /\ k[{}] = 0
      /\ \A s \in SUBSET T : s # {} =>
                 Pick(s) \in s /\ k[s] = G[Pick(s)] + k[s \ {Pick(s)}]
  BY <1>0, SumNext
<1>3. {} \in P
  BY <1>1, <1>2
<1>4. ASSUME NEW s \in SUBSET R, s # {}, s \ {Pick(s)} \in P PROVE s \in P
  BY <1>1, <1>2, <1>4
<1> HIDE DEF P
<1>5. SUBSET R \subseteq P
  BY <1>3, <1>4, PickInduction
<1> QED BY <1>5 DEF P

(* The sum of the integers F gives to the members of S.                    *)
SumOver(F, S) == (CHOOSE h : SumTable(h, F, S))[S]

(* The sum is what any table over a larger set shows.                     *)
LEMMA SumOfTable ==
    ASSUME NEW F, NEW S, NEW R, IsFiniteSet(S), R \subseteq S, NEW h, SumTable(h, F, S)
    PROVE  SumOver(F, R) = h[R]
<1> DEFINE c == CHOOSE g : SumTable(g, F, R)
<1>1. IsFiniteSet(R)
  BY FS_Subset
<1>2. SumTable(c, F, R)
  BY <1>1, FoldTable
<1> HIDE DEF c
<1>3. SumTables(c, F, R, h, F, S) /\ R \subseteq R /\ \A x \in R : F[x] = F[x]
  BY <1>2 DEF SumTables
<1>4. c[R] = h[R]
  BY <1>1, <1>2, <1>3, TablesAgree
<1> QED BY <1>4 DEF SumOver, c

(* Nothing adds up to zero.                                               *)
LEMMA SumOfNothing == ASSUME NEW F PROVE SumOver(F, {}) = 0
<1>1. \E h : SumTable(h, F, {})
  BY FS_EmptySet, FoldTable
<1> QED BY <1>1, SumOfTable, SumNext, FS_EmptySet

(* Functions that agree on a set have the same sum over it.                *)
LEMMA SumAgrees ==
    ASSUME NEW F, NEW G, NEW S, IsFiniteSet(S), \A x \in S : F[x] = G[x]
    PROVE  SumOver(F, S) = SumOver(G, S)
<1>1. PICK h : SumTable(h, F, S)
  BY FoldTable
<1>2. PICK k : SumTable(k, G, S)
  BY FoldTable
<1>3. S \subseteq S /\ SumTables(h, F, S, k, G, S)
  BY <1>1, <1>2 DEF SumTables
<1>4. h[S] = k[S]
  BY <1>1, <1>2, <1>3, TablesAgree
<1> QED BY <1>1, <1>2, <1>3, <1>4, SumOfTable

(* A sum of zeros is zero.                                                 *)
LEMMA SumOfZeros ==
    ASSUME NEW F, NEW S, IsFiniteSet(S), \A x \in S : F[x] = 0 PROVE SumOver(F, S) = 0
<1>1. PICK h : SumTable(h, F, S)
  BY FoldTable
<1> DEFINE P == {s \in SUBSET S : h[s] = 0}
<1>2. /\ h[{}] = 0
      /\ \A s \in SUBSET S : s # {} =>
                 Pick(s) \in s /\ h[s] = F[Pick(s)] + h[s \ {Pick(s)}]
  BY <1>1, SumNext
<1>3. {} \in P
  BY <1>2
<1>4. ASSUME NEW s \in SUBSET S, s # {}, s \ {Pick(s)} \in P PROVE s \in P
  BY <1>2, <1>4
<1> HIDE DEF P
<1>5. SUBSET S \subseteq P
  BY <1>3, <1>4, PickInduction
<1>6. h[S] = 0
  BY <1>5 DEF P
<1> QED BY <1>1, <1>6, SumOfTable

(* A sum of naturals is one, and so of integers.                           *)
LEMMA SumType ==
    ASSUME NEW F, NEW S, IsFiniteSet(S), \A x \in S : F[x] \in Int
    PROVE  SumOver(F, S) \in Int /\ ((\A x \in S : F[x] \in Nat) => SumOver(F, S) \in Nat)
<1>1. PICK h : SumTable(h, F, S)
  BY FoldTable
<1> DEFINE P == {s \in SUBSET S : h[s] \in Int /\ ((\A x \in s : F[x] \in Nat) => h[s] \in Nat)}
<1>2. /\ h[{}] = 0
      /\ \A s \in SUBSET S : s # {} =>
                 Pick(s) \in s /\ h[s] = F[Pick(s)] + h[s \ {Pick(s)}]
  BY <1>1, SumNext
<1>3. {} \in P
  BY <1>2
<1>4. ASSUME NEW s \in SUBSET S, s # {}, s \ {Pick(s)} \in P PROVE s \in P
  BY <1>2, <1>4
<1> HIDE DEF P
<1>5. SUBSET S \subseteq P
  BY <1>3, <1>4, PickInduction
<1>6. S \in P
  BY <1>5
<1>7. SumOver(F, S) = h[S]
  BY <1>1, SumOfTable
<1> QED BY <1>6, <1>7 DEF P

(* A member taken out of a set takes its integer out of the sum.           *)
LEMMA SumRemove ==
    ASSUME NEW F, NEW S, IsFiniteSet(S), \A x \in S : F[x] \in Int, NEW e \in S
    PROVE  SumOver(F, S) = F[e] + SumOver(F, S \ {e})
<1>1. PICK h : SumTable(h, F, S)
  BY FoldTable
<1>2. /\ h[{}] = 0
      /\ \A s \in SUBSET S : s # {} =>
                 Pick(s) \in s /\ h[s] = F[Pick(s)] + h[s \ {Pick(s)}]
  BY <1>1, SumNext
<1>i. \A s \in SUBSET S : h[s] \in Int
  <2> SUFFICES ASSUME NEW s \in SUBSET S PROVE h[s] \in Int
    OBVIOUS
  <2>1. IsFiniteSet(s) /\ \A x \in s : F[x] \in Int
    BY FS_Subset
  <2>2. SumOver(F, s) \in Int
    BY <2>1, SumType
  <2> QED BY <1>1, <2>2, SumOfTable
<1> DEFINE N == {n \in Nat : \A s \in SUBSET S : Cardinality(s) = n =>
                     \A x \in s : h[s] = F[x] + h[s \ {x}]}
<1>3. \A s \in SUBSET S : IsFiniteSet(s) /\ Cardinality(s) \in Nat
  BY FS_Subset, FS_CardinalityType
<1>4. 0 \in N
  BY <1>3, FS_EmptySet
<1>5. ASSUME NEW n \in Nat, n \in N PROVE n + 1 \in N
  <2> SUFFICES ASSUME NEW s \in SUBSET S, Cardinality(s) = n + 1, NEW x \in s
               PROVE  h[s] = F[x] + h[s \ {x}]
    OBVIOUS
  <2> DEFINE p == Pick(s)
  <2>1. p \in s /\ h[s] = F[p] + h[s \ {p}]
    BY <1>2
  <2> HIDE DEF p
  <2>2. CASE p = x
    BY <2>1, <2>2
  <2>3. CASE p # x
    <3>1. /\ s \ {p} \in SUBSET S /\ s \ {x} \in SUBSET S
          /\ x \in s \ {p} /\ p \in s \ {x} /\ (s \ {p}) \ {x} = (s \ {x}) \ {p}
          /\ (s \ {p}) \ {x} \in SUBSET S
      BY <2>1, <2>3
    <3>2. Cardinality(s \ {p}) = n /\ Cardinality(s \ {x}) = n
      <4>1. IsFiniteSet(s) /\ Cardinality(s) = n + 1
        BY <1>3
      <4>2. Cardinality(s \ {p}) = Cardinality(s) - 1 /\ Cardinality(s \ {x}) = Cardinality(s) - 1
        BY <4>1, <2>1, FS_RemoveElement
      <4> QED BY <4>1, <4>2
    <3>3. h[s \ {p}] = F[x] + h[(s \ {p}) \ {x}]
      BY <3>1, <3>2, <1>5
    <3>4. h[s \ {x}] = F[p] + h[(s \ {x}) \ {p}]
      BY <3>1, <3>2, <1>5
    <3>5. h[(s \ {p}) \ {x}] \in Int /\ F[x] \in Int /\ F[p] \in Int
      BY <3>1, <2>1, <1>i
    <3>6. h[s \ {x}] = F[p] + h[(s \ {p}) \ {x}]
      BY <3>1, <3>4
    <3>7. h[s] = F[p] + (F[x] + h[(s \ {p}) \ {x}])
      BY <2>1, <3>3
    <3> QED BY <3>5, <3>6, <3>7
  <2> QED BY <2>2, <2>3
<1> HIDE DEF N
<1>6. Nat \subseteq N
  BY <1>4, <1>5, SetInduction
<1>7. h[S] = F[e] + h[S \ {e}]
  BY <1>3, <1>6 DEF N
<1>8. SumOver(F, S) = h[S] /\ SumOver(F, S \ {e}) = h[S \ {e}]
  BY <1>1, SumOfTable
<1> QED BY <1>7, <1>8

(* A function changed at one member changes the sum by as much.            *)
LEMMA SumChange ==
    ASSUME NEW F, NEW G, NEW S, IsFiniteSet(S), \A x \in S : F[x] \in Int /\ G[x] \in Int,
           NEW e \in S, \A x \in S \ {e} : G[x] = F[x]
    PROVE  SumOver(G, S) = SumOver(F, S) + (G[e] - F[e])
<1>1. SumOver(F, S) = F[e] + SumOver(F, S \ {e})
  BY SumRemove
<1>2. SumOver(G, S) = G[e] + SumOver(G, S \ {e})
  BY SumRemove
<1>3. IsFiniteSet(S \ {e})
  BY FS_RemoveElement
<1>4. SumOver(F, S \ {e}) = SumOver(G, S \ {e})
  BY <1>3, SumAgrees
<1>5. SumOver(F, S \ {e}) \in Int
  BY <1>3, SumType
<1> QED BY <1>1, <1>2, <1>4, <1>5

(* The library's sum of what a function gives.                             *)
LEMMA SumIsTheLibrarys ==
    ASSUME NEW F, NEW S PROVE MapThenSumSet(LAMBDA x : F[x], S) = SumOver(F, S)
BY DEF MapThenSumSet, MapThenFoldSet, Pick, SumTable, SumOver
-----------------------------------------------------------------------------
(* The greatest number of a finite set is one of it.                       *)
LEMMA MaxIsOne ==
    ASSUME NEW n \in Nat, NEW s \in SUBSET (1..n), s # {}
    PROVE  Max(s) \in s /\ \A x \in s : x <= Max(s)
<1>1. IsFiniteSet(s) /\ s \in SUBSET Nat
  <2>1. IsFiniteSet(1..n) /\ 1..n \subseteq Nat
    BY FS_Interval
  <2> QED BY <2>1, FS_Subset
<1>2. \E x \in s : \A y \in s : x >= y
  BY <1>1, GreatestExists
<1>3. Max(s) \in s /\ \A y \in s : Max(s) >= y
  BY <1>2 DEF Max
<1> QED BY <1>1, <1>3

(* The table of a fold over the indices of a sequence: each index applies  *)
(* its own function to what the smaller ones gave.                         *)
FoldOf(h, base, G, n) ==
    h = [s \in SUBSET (1..n) |-> IF s = {} THEN base ELSE G[Max(s)][h[s \ {Max(s)}]]]

(* Such a table exists, and has its values among the functions' own.       *)
LEMMA FoldExists ==
    ASSUME NEW X, NEW base \in X, NEW n \in Nat, NEW G \in [1..n -> [X -> X]]
    PROVE  \E h \in [SUBSET (1..n) -> X] : FoldOf(h, base, G, n)
<1> DEFINE S == 1..n
           Small(k) == {s \in SUBSET S : Cardinality(s) <= k}
           Table(g, k) == /\ g \in [Small(k) -> X]
                          /\ \A s \in Small(k) : g[s] = IF s = {} THEN base ELSE G[Max(s)][g[s \ {Max(s)}]]
           Exists(k) == \E g : Table(g, k)
           N == {k \in Nat : Exists(k)}
<1>0. \A s \in SUBSET S : IsFiniteSet(s) /\ Cardinality(s) \in Nat /\ (s # {} => Max(s) \in s)
  <2>1. IsFiniteSet(S)
    BY FS_Interval
  <2>2. \A s \in SUBSET S : s # {} => Max(s) \in s
    BY MaxIsOne
  <2> QED BY <2>1, <2>2, FS_Subset, FS_CardinalityType
<1>a. \A s \in SUBSET S : s # {} => Cardinality(s \ {Max(s)}) = Cardinality(s) - 1 /\ s \ {Max(s)} \in SUBSET S
  BY <1>0, FS_RemoveElement
<1>b. \A s \in SUBSET S : Cardinality(s) = 0 => s = {}
  BY <1>0, FS_EmptySet
<1>1. Exists(0)
  <2> DEFINE g == [s \in Small(0) |-> base]
  <2>1. \A s \in Small(0) : s = {}
    BY <1>0, <1>b
  <2>2. Table(g, 0)
    BY <2>1
  <2> QED BY <2>2
<1>2. ASSUME NEW k \in Nat, Exists(k) PROVE Exists(k + 1)
  <2>1. PICK g : Table(g, k)
    BY <1>2
  <2> DEFINE e == [s \in Small(k + 1) |-> IF s = {} THEN base ELSE G[Max(s)][g[s \ {Max(s)}]]]
  <2>2. \A s \in Small(k) : s \in Small(k + 1)
    BY <1>0
  <2>3. \A s \in Small(k + 1) : s # {} => s \ {Max(s)} \in Small(k) /\ Max(s) \in S
    <3> SUFFICES ASSUME NEW s \in Small(k + 1), s # {}
                 PROVE  s \ {Max(s)} \in Small(k) /\ Max(s) \in S
      OBVIOUS
    <3>1. s \in SUBSET S /\ Cardinality(s) <= k + 1 /\ Cardinality(s) \in Nat
      BY <1>0
    <3>2. Cardinality(s \ {Max(s)}) = Cardinality(s) - 1 /\ s \ {Max(s)} \in SUBSET S /\ Max(s) \in s
      BY <3>1, <1>0, <1>a
    <3>3. Cardinality(s \ {Max(s)}) <= k
      BY ONLY <3>1, <3>2, k \in Nat
    <3> QED BY <3>1, <3>2, <3>3
  <2>4. \A s \in Small(k + 1) : e[s] = IF s = {} THEN base ELSE G[Max(s)][g[s \ {Max(s)}]]
    OBVIOUS
  <2>5. \A s \in Small(k + 1) : e[s] \in X
    <3> SUFFICES ASSUME NEW s \in Small(k + 1), s # {} PROVE e[s] \in X
      BY <2>4
    <3>1. g[s \ {Max(s)}] \in X
      BY <2>1, <2>3
    <3>2. G[Max(s)] \in [X -> X]
      BY <2>3
    <3>3. G[Max(s)][g[s \ {Max(s)}]] \in X
      BY ONLY <3>1, <3>2
    <3> QED BY <3>3, <2>4
  <2>6. e \in [Small(k + 1) -> X]
    <3>1. DOMAIN e = Small(k + 1) /\ e = [s \in Small(k + 1) |-> e[s]]
      OBVIOUS
    <3> HIDE DEF e, Small
    <3> QED BY <3>1, <2>5
  <2>7. \A s \in Small(k) : e[s] = g[s]
    <3> HIDE DEF e, Small
    <3> QED BY <2>1, <2>2, <2>4
  <2>8. \A s \in Small(k + 1) : s # {} => e[s \ {Max(s)}] = g[s \ {Max(s)}]
    <3> HIDE DEF e, Small
    <3> QED BY <2>3, <2>7
  <2>9. Table(e, k + 1)
    <3> HIDE DEF e, Small
    <3> QED BY <2>4, <2>6, <2>8
  <2> QED BY <2>9
<1>3. Exists(Cardinality(S))
  <2>1. 0 \in N /\ \A k \in Nat : k \in N => k + 1 \in N
    <3> HIDE DEF Exists
    <3> QED BY <1>1, <1>2
  <2> HIDE DEF N
  <2>2. Nat \subseteq N
    BY <2>1, SetInduction
  <2>3. Cardinality(S) \in N
    BY <2>2, <1>0
  <2> HIDE DEF Exists
  <2> QED BY <2>3 DEF N
<1>4. Small(Cardinality(S)) = SUBSET S
  BY FS_Subset, <1>0
<1>5. PICK h : Table(h, Cardinality(S))
  BY <1>3
<1>6. h \in [SUBSET S -> X] /\ \A s \in SUBSET S : h[s] = IF s = {} THEN base ELSE G[Max(s)][h[s \ {Max(s)}]]
  BY <1>4, <1>5
<1>7. FoldOf(h, base, G, n)
  BY <1>6 DEF FoldOf
<1> QED BY <1>6, <1>7

(* What a fold over the indices gives, one index after the other.           *)
LEMMA FoldSteps ==
    ASSUME NEW X, NEW base \in X, NEW n \in Nat, NEW G \in [1..n -> [X -> X]],
           NEW h, FoldOf(h, base, G, n)
    PROVE  /\ h[1..0] = base
           /\ \A k \in 1..n : h[1..k] = G[k][h[1..(k - 1)]]
<1>1. \A s \in SUBSET (1..n) : h[s] = IF s = {} THEN base ELSE G[Max(s)][h[s \ {Max(s)}]]
  BY DEF FoldOf
<1>2. h[1..0] = base
  <2>1. 1..0 = {} /\ {} \in SUBSET (1..n)
    OBVIOUS
  <2>2. h[{}] = base
    BY <1>1, <2>1
  <2> QED BY <2>1, <2>2
<1>3. ASSUME NEW k \in 1..n PROVE h[1..k] = G[k][h[1..(k - 1)]]
  <2>0. k \in Nat /\ 1 <= k /\ k <= n
    OBVIOUS
  <2>1. 1..k \in SUBSET (1..n) /\ 1..k # {} /\ k \in 1..k
    <3>1. 1..k \subseteq 1..n
      BY <2>0
    <3>2. k \in 1..k
      BY <2>0
    <3> QED BY <3>1, <3>2
  <2>2. Max(1..k) \in 1..k /\ \A x \in 1..k : x <= Max(1..k)
    BY <2>1, MaxIsOne
  <2>3. Max(1..k) = k
    BY <2>1, <2>2
  <2>4. (1..k) \ {k} = 1..(k - 1)
    OBVIOUS
  <2> QED BY <1>1, <2>1, <2>3, <2>4
<1> QED BY <1>2, <1>3

(* What comes before each of the numbers up to n in some strict order.      *)
LinearBefore(B, n) ==
    /\ \A i \in 1..n : B[i] \subseteq 1..n /\ i \notin B[i]
    /\ \A i, j \in 1..n : i # j => i \in B[j] \/ j \in B[i]
    /\ \A i, j \in 1..n : i \in B[j] => B[i] \subseteq B[j]

(* In a strict order every place is taken once, and the order is that of   *)
(* the places.                                                             *)
LEMMA Ranking ==
    ASSUME NEW n \in Nat, NEW B, LinearBefore(B, n)
    PROVE  /\ \A i \in 1..n : Cardinality(B[i]) \in Nat /\ Cardinality(B[i]) + 1 \in 1..n
           /\ \A i, j \in 1..n : i \in B[j] <=> Cardinality(B[i]) < Cardinality(B[j])
           /\ \A k \in 1..n : \E i \in 1..n : Cardinality(B[i]) + 1 = k
<1> DEFINE D == 1..n
           place == [i \in D |-> Cardinality(B[i]) + 1]
<1>1. IsFiniteSet(D) /\ Cardinality(D) = n
  BY FS_Interval
<1>2. \A i \in D : IsFiniteSet(B[i]) /\ Cardinality(B[i]) \in Nat
  BY <1>1, FS_Subset, FS_CardinalityType DEF LinearBefore
<1>3. ASSUME NEW i \in D, NEW j \in D, i \in B[j] PROVE Cardinality(B[i]) < Cardinality(B[j])
  <2>1. B[i] \subseteq B[j] /\ B[i] # B[j]
    BY <1>3 DEF LinearBefore
  <2>2. Cardinality(B[i]) <= Cardinality(B[j]) /\ (Cardinality(B[i]) = Cardinality(B[j]) => B[i] = B[j])
    BY <2>1, <1>2, FS_Subset
  <2> QED BY <2>1, <2>2, <1>2
<1>4. \A i \in D : Cardinality(B[i]) + 1 \in D
  <2> SUFFICES ASSUME NEW i \in D PROVE Cardinality(B[i]) < n
    BY <1>2
  <2>1. B[i] \subseteq D /\ B[i] # D
    BY DEF LinearBefore
  <2>2. Cardinality(B[i]) <= n /\ (Cardinality(B[i]) = n => B[i] = D)
    BY <2>1, <1>1, FS_Subset
  <2> QED BY <2>1, <2>2, <1>2
<1>5. ASSUME NEW i \in D, NEW j \in D, Cardinality(B[i]) < Cardinality(B[j]) PROVE i \in B[j]
  <2>1. i # j
    BY <1>5, <1>2
  <2>2. j \notin B[i]
    <3>1. SUFFICES ASSUME j \in B[i] PROVE FALSE
      OBVIOUS
    <3>2. Cardinality(B[j]) < Cardinality(B[i])
      BY <3>1, <1>3
    <3> QED BY <3>2, <1>5, <1>2
  <2> QED BY <2>1, <2>2 DEF LinearBefore
<1>6. \A i, j \in D : place[i] = place[j] => i = j
  <2> SUFFICES ASSUME NEW i \in D, NEW j \in D, i # j PROVE Cardinality(B[i]) + 1 # Cardinality(B[j]) + 1
    OBVIOUS
  <2>1. i \in B[j] \/ j \in B[i]
    BY DEF LinearBefore
  <2> QED BY <2>1, <1>3, <1>2
<1>7. place \in [D -> D]
  BY <1>4
<1> HIDE DEF place
<1>8. place \in Injection(D, D)
  BY <1>6, <1>7 DEF Injection, IsInjective
<1>9. \A k \in D : \E i \in D : place[i] = k
  <2>1. place \in Surjection(D, D)
    BY <1>1, <1>8, FS_Injection
  <2> QED BY <2>1 DEF Surjection
<1> QED BY <1>2, <1>3, <1>4, <1>5, <1>9 DEF place

(* Sequences of naturals that rise, one after the other.                   *)
Rising(s) == \A j, k \in DOMAIN s : j < k => s[j] < s[k]
Below(s, t) == \A x \in Range(s), y \in Range(t) : x < y

(* A rising sequence and one above it make a rising sequence.              *)
LEMMA RisingConcat ==
    ASSUME NEW s \in Seq(Nat), NEW t \in Seq(Nat), Rising(s), Rising(t), Below(s, t)
    PROVE  /\ s \o t \in Seq(Nat) /\ Rising(s \o t)
           /\ Range(s \o t) = Range(s) \cup Range(t)
<1> DEFINE c == s \o t
<1>1. /\ c \in Seq(Nat) /\ Len(c) = Len(s) + Len(t) /\ Len(s) \in Nat /\ Len(t) \in Nat
      /\ \A i \in 1..Len(s) : c[i] = s[i]
      /\ \A i \in Len(s) + 1..Len(s) + Len(t) : c[i] = t[i - Len(s)]
  BY ConcatProperties
<1>2. DOMAIN s = 1..Len(s) /\ DOMAIN t = 1..Len(t) /\ DOMAIN c = 1..Len(s) + Len(t)
  BY <1>1
<1> DEFINE m == Len(s)  n == Len(t)
<1>0. m \in Nat /\ n \in Nat /\ DOMAIN c = 1..m + n /\ DOMAIN s = 1..m /\ DOMAIN t = 1..n
  BY <1>1, <1>2
<1>01. /\ \A i \in 1..m : c[i] = s[i]
       /\ \A i \in m + 1..m + n : c[i] = t[i - m]
  BY <1>1
<1> HIDE DEF c, m, n
<1>3. ASSUME NEW j \in DOMAIN c, NEW k \in DOMAIN c, j < k PROVE c[j] < c[k]
  <2>1. CASE k <= m
    <3>1. j \in 1..m /\ k \in 1..m
      BY <1>0, <1>3, <2>1
    <3> QED BY <1>0, <1>01, <1>3, <3>1 DEF Rising
  <2>2. CASE j <= m /\ k > m
    <3>1. j \in 1..m /\ k - m \in 1..n /\ k \in m + 1..m + n
      BY <1>0, <1>3, <2>2
    <3>2. s[j] \in Range(s) /\ t[k - m] \in Range(t)
      BY <1>0, <3>1 DEF Range
    <3> QED BY <1>01, <3>1, <3>2 DEF Below
  <2>3. CASE j > m
    <3>1. /\ j - m \in 1..n /\ j \in m + 1..m + n
          /\ k - m \in 1..n /\ k \in m + 1..m + n
          /\ j - m < k - m
      BY <1>0, <1>3, <2>3
    <3>2. t[j - m] < t[k - m]
      BY <1>0, <3>1 DEF Rising
    <3> QED BY <1>01, <3>1, <3>2
  <2> QED BY <1>0, <1>01, <2>1, <2>2, <2>3
<1>4. Range(c) = Range(s) \cup Range(t)
  <2>1. ASSUME NEW x \in Range(c) PROVE x \in Range(s) \cup Range(t)
    <3>1. PICK i \in DOMAIN c : x = c[i]
      BY DEF Range
    <3>2. CASE i <= m
      BY <1>0, <1>01, <3>1, <3>2 DEF Range
    <3>3. CASE i > m
      <4>1. i - m \in DOMAIN t /\ i \in m + 1..m + n
        BY <1>0, <1>01, <3>3
      <4> QED BY <1>01, <3>1, <4>1 DEF Range
    <3> QED BY <1>0, <1>01, <3>2, <3>3
  <2>2. ASSUME NEW x \in Range(s) PROVE x \in Range(c)
    <3>1. PICK i \in DOMAIN s : x = s[i]
      BY DEF Range
    <3>2. i \in 1..m /\ i \in DOMAIN c
      BY <1>0, <1>01
    <3> QED BY <1>01, <3>1, <3>2 DEF Range
  <2>3. ASSUME NEW x \in Range(t) PROVE x \in Range(c)
    <3>1. PICK i \in DOMAIN t : x = t[i]
      BY DEF Range
    <3>2. i + m \in m + 1..m + n /\ (i + m) - m = i
      BY <1>0, <1>01
    <3>3. i + m \in DOMAIN c /\ c[i + m] = t[i]
      BY <1>0, <1>01, <3>2
    <3> QED BY <3>1, <3>3 DEF Range
  <2> QED BY <2>1, <2>2, <2>3
<1> QED BY <1>1, <1>3, <1>4 DEF c, Rising

Climbs(u) == /\ \A k \in DOMAIN u : Rising(u[k])
             /\ \A k, l \in DOMAIN u : k < l => Below(u[k], u[l])
Gathered(u) == UNION {Range(u[k]) : k \in DOMAIN u}

(* Rising sequences, each above those before it, flatten to a rising one.  *)
LEMMA FlattenRising ==
    ASSUME NEW s \in Seq(Seq(Nat)), Climbs(s)
    PROVE  /\ FlattenSeq(s) \in Seq(Nat) /\ Rising(FlattenSeq(s))
           /\ Range(FlattenSeq(s)) = Gathered(s)
<1> DEFINE Gives(u) == Rising(FlattenSeq(u)) /\ Range(FlattenSeq(u)) = Gathered(u)
           S == {n \in Nat : \A u \in Seq(Seq(Nat)) : Len(u) = n /\ Climbs(u) => Gives(u)}
<1>1. 0 \in S
  <2> SUFFICES ASSUME NEW u \in Seq(Seq(Nat)), Len(u) = 0 PROVE Gives(u)
    OBVIOUS
  <2>1. u = <<>> /\ FlattenSeq(u) = <<>> /\ DOMAIN u = {}
    BY DEF FlattenSeq
  <2> QED BY <2>1 DEF Rising, Range, Gathered
<1>2. ASSUME NEW n \in Nat, n \in S PROVE n + 1 \in S
  <2> SUFFICES ASSUME NEW u \in Seq(Seq(Nat)), Len(u) = n + 1, Climbs(u) PROVE Gives(u)
    OBVIOUS
  <2>0. u # <<>>
    OBVIOUS
  <2>1. PICK v \in Seq(Seq(Nat)), e \in Seq(Nat) : u = Append(v, e)
    BY <2>0, SequenceEmptyOrAppend
  <2>2. /\ Len(v) = n /\ DOMAIN v = 1..n /\ DOMAIN u = 1..n + 1 /\ u[n + 1] = e
        /\ \A k \in 1..n : u[k] = v[k]
    BY <2>1, AppendProperties
  <2>3. \A k \in 1..n : k \in 1..n + 1 /\ k < n + 1 /\ n + 1 \in 1..n + 1
    OBVIOUS
  <2>4. Climbs(v) /\ Rising(e) /\ \A k \in 1..n : Below(v[k], e)
    <3>1. \A k \in 1..n : u[k] = v[k] /\ k \in DOMAIN u
      BY <2>2, <2>3
    <3>2. n + 1 \in DOMAIN u /\ u[n + 1] = e
      BY <2>2, <2>3
    <3>3. ASSUME NEW k \in 1..n PROVE Rising(v[k]) /\ Below(v[k], e)
      BY <2>3, <3>1, <3>2 DEF Climbs
    <3>4. ASSUME NEW k \in 1..n, NEW l \in 1..n, k < l PROVE Below(v[k], v[l])
      BY <3>1, <3>4 DEF Climbs
    <3>5. Rising(e)
      BY <3>2 DEF Climbs
    <3> QED BY <2>2, <3>3, <3>4, <3>5 DEF Climbs
  <2>5. Gives(v)
    BY <1>2, <2>2, <2>4
  <2>6. FlattenSeq(v) \in Seq(Nat) /\ FlattenSeq(u) = FlattenSeq(v) \o e
    BY <2>1, FlattenType, FlattenAppend
  <2>7. Below(FlattenSeq(v), e)
    <3>1. \A x \in Range(FlattenSeq(v)) : \E k \in 1..n : x \in Range(v[k])
      BY <2>2, <2>5 DEF Gathered
    <3> QED BY <2>4, <3>1 DEF Below
  <2>8. Rising(FlattenSeq(u)) /\ Range(FlattenSeq(u)) = Range(FlattenSeq(v)) \cup Range(e)
    BY <2>4, <2>5, <2>6, <2>7, RisingConcat
  <2>9. Gathered(u) = Gathered(v) \cup Range(e)
    <3>1. DOMAIN u = DOMAIN v \cup {n + 1}
      BY <2>2
    <3> QED BY <2>2, <3>1 DEF Gathered
  <2> QED BY <2>5, <2>8, <2>9
<1>3. Nat \subseteq S
  <2> HIDE DEF S
  <2> QED BY <1>1, <1>2, SetInduction
<1>4. Len(s) \in S
  <2>1. Len(s) \in Nat
    OBVIOUS
  <2> HIDE DEF S
  <2> QED BY <1>3, <2>1
<1> QED BY <1>4, FlattenType

(* In a finite set of numbers every place is taken once, in their order.      *)
LEMMA PlacesTaken ==
  ASSUME NEW T, IsFiniteSet(T), T \subseteq Int
  PROVE  LET R(t) == Cardinality({u \in T : u < t}) IN
         /\ \A t \in T : R(t) \in 0..(Cardinality(T) - 1)
         /\ \A t, u \in T : t < u => R(t) < R(u)
         /\ \A k \in 0..(Cardinality(T) - 1) : \E t \in T : R(t) = k
<1> DEFINE Lower(t) == {u \in T : u < t}
           R(t) == Cardinality(Lower(t))
           n == Cardinality(T)
           places == 0..(n - 1)
           place == [t \in T |-> R(t)]
<1>1. n \in Nat
  BY FS_CardinalityType
<1>2. \A t \in T : IsFiniteSet(Lower(t)) /\ R(t) \in Nat
  BY FS_Subset, FS_CardinalityType
<1>3. ASSUME NEW t \in T PROVE R(t) < n
  <2>1. Lower(t) \subseteq T /\ Lower(t) # T
    OBVIOUS
  <2>2. R(t) <= n /\ (R(t) = n => Lower(t) = T)
    BY <2>1, FS_Subset
  <2> QED BY <1>1, <1>2, <2>1, <2>2
<1>4. ASSUME NEW t \in T, NEW u \in T, t < u PROVE R(t) < R(u)
  <2>1. Lower(t) \subseteq Lower(u) /\ Lower(t) # Lower(u)
    <3>1. t \in Lower(u) /\ t \notin Lower(t)
      BY <1>4
    <3>2. \A v \in Lower(t) : v \in Lower(u)
      BY <1>4
    <3> QED BY <3>1, <3>2
  <2>2. R(t) <= R(u) /\ (R(t) = R(u) => Lower(t) = Lower(u))
    BY <1>2, <2>1, FS_Subset
  <2> QED BY <1>2, <2>1, <2>2
<1>5. \A t \in T : R(t) \in places
  BY <1>1, <1>2, <1>3
<1>6. \A t, u \in T : place[t] = place[u] => t = u
  <2> SUFFICES ASSUME NEW t \in T, NEW u \in T, t # u PROVE R(t) # R(u)
    OBVIOUS
  <2>1. t < u \/ u < t
    OBVIOUS
  <2>2. R(t) < R(u) \/ R(u) < R(t)
    BY <1>4, <2>1
  <2>3. R(t) \in Nat /\ R(u) \in Nat
    BY <1>2
  <2> HIDE DEF R
  <2> QED BY <2>2, <2>3
<1>7. place \in [T -> places]
  BY <1>5
<1>8. IsFiniteSet(places) /\ Cardinality(places) = n
  BY <1>1, FS_Interval
<1> HIDE DEF place, places
<1>9. place \in Injection(T, places)
  BY <1>6, <1>7 DEF Injection, IsInjective
<1>10. place \in Surjection(T, places)
  BY <1>8, <1>9, FS_Injection
<1>11. \A k \in places : \E t \in T : R(t) = k
  BY <1>10 DEF Surjection, place
<1> QED BY <1>4, <1>5, <1>11 DEF places

(* A finite set of natural numbers, in order.                                 *)
Ascending(T) == [n \in 1..Cardinality(T) |-> CHOOSE t \in T : Cardinality({u \in T : u < t}) = n - 1]

(* It rises, and it holds the set.                                            *)
LEMMA AscendingRises ==
  ASSUME NEW T, IsFiniteSet(T), T \subseteq Nat
  PROVE  /\ Ascending(T) \in Seq(Nat) /\ Len(Ascending(T)) = Cardinality(T) /\ Rising(Ascending(T))
         /\ Range(Ascending(T)) = T
<1> DEFINE R(t) == Cardinality({u \in T : u < t})
           n == Cardinality(T)
           s == Ascending(T)
<1>1. /\ \A t \in T : R(t) \in 0..(n - 1)
      /\ \A t, u \in T : t < u => R(t) < R(u)
      /\ \A k \in 0..(n - 1) : \E t \in T : R(t) = k
  <2>1. T \subseteq Int
    OBVIOUS
  <2> QED BY <2>1, PlacesTaken
<1>2. n \in Nat
  BY FS_CardinalityType
<1> DEFINE P(k) == CHOOSE t \in T : R(t) = k - 1
<1>3. s = [k \in 1..n |-> P(k)]
  BY DEF Ascending
<1> HIDE DEF R, n, s
<1>4. ASSUME NEW k \in 1..n PROVE P(k) \in T /\ R(P(k)) = k - 1
  <2>1. k - 1 \in 0..(n - 1)
    BY <1>2
  <2> QED BY <1>1, <2>1
<1> HIDE DEF P
<1>5. \A k \in 1..n : s[k] \in T /\ R(s[k]) = k - 1
  BY <1>3, <1>4
<1>6. s \in [1..n -> Nat]
  BY <1>3, <1>4
<1>7. s \in Seq(Nat) /\ Len(s) = n /\ DOMAIN s = 1..n
  BY <1>2, <1>6
<1>8. Rising(s)
  <2>1. ASSUME NEW j \in 1..n, NEW k \in 1..n, j < k PROVE s[j] < s[k]
    <3>1. s[j] \in T /\ s[k] \in T /\ R(s[j]) = j - 1 /\ R(s[k]) = k - 1
      BY <1>5
    <3>2. R(s[j]) < R(s[k])
      BY <1>2, <2>1, <3>1
    <3>3. s[j] \in Nat /\ s[k] \in Nat
      BY <3>1
    <3>5. ~(k - 1 < j - 1)
      BY <1>2, <2>1
    <3>6. ~(R(s[k]) < R(s[j]))
      BY ONLY <3>1, <3>5
    <3>4. s[j] # s[k]
      <4>1. R(s[j]) # R(s[k])
        BY <1>2, <3>1, <2>1
      <4> QED BY ONLY <4>1
    <3> QED BY <1>1, <3>1, <3>3, <3>4, <3>6
  <2> QED BY <1>7, <2>1 DEF Rising
<1>9. ASSUME NEW t \in T PROVE t \in Range(s)
  <2>1. R(t) \in 0..(n - 1)
    BY <1>1
  <2> DEFINE k == R(t) + 1
  <2>2. k \in 1..n /\ R(s[k]) = R(t) /\ s[k] \in T
    BY <1>2, <1>5, <2>1
  <2>3. s[k] = t
    <3>1. s[k] \in Nat /\ t \in Nat
      BY <2>2
    <3>2. ~(R(t) < R(t))
      BY <1>2, <2>1
    <3>3. ~(R(t) < R(s[k])) /\ ~(R(s[k]) < R(t))
      BY ONLY <2>2, <3>2
    <3> QED BY <1>1, <2>2, <3>1, <3>3
  <2> QED BY <1>7, <2>2, <2>3 DEF Range
<1>10. \A t \in Range(s) : t \in T
  BY <1>5, <1>7 DEF Range
<1> QED BY <1>7, <1>8, <1>9, <1>10 DEF n, s

(* A rising sequence is what it holds, in order.                              *)
LEMMA RisingIsAscending ==
  ASSUME NEW s \in Seq(Nat), Rising(s)
  PROVE  s = Ascending(Range(s)) /\ IsFiniteSet(Range(s))
<1> DEFINE n == Len(s)
           T == Range(s)
           Lower(t) == {u \in T : u < t}
<1>1. n \in Nat /\ DOMAIN s = 1..n /\ s = [k \in 1..n |-> s[k]] /\ \A k \in 1..n : s[k] \in Nat /\ s[k] \in T
  BY DEF Range
<1>2. \A t \in T : \E k \in 1..n : s[k] = t
  BY <1>1 DEF Range
<1>3. \A j, k \in 1..n : j < k => s[j] < s[k]
  BY <1>1 DEF Rising
<1> HIDE DEF n, T
<1>4. \A j, k \in 1..n : j < k <=> s[j] < s[k]
  <2> SUFFICES ASSUME NEW j \in 1..n, NEW k \in 1..n PROVE j < k <=> s[j] < s[k]
    OBVIOUS
  <2>1. j < k => s[j] < s[k]
    BY <1>3
  <2>2. k < j => s[k] < s[j]
    BY <1>3
  <2>3. j \in Nat /\ k \in Nat /\ s[j] \in Nat /\ s[k] \in Nat
    BY <1>1
  <2>4. j = k => s[j] = s[k]
    OBVIOUS
  <2> QED BY ONLY <2>1, <2>2, <2>3, <2>4
<1>5. ASSUME NEW m \in 0..n
      PROVE  LET S == {t \in T : \E k \in 1..m : s[k] = t}
             IN  IsFiniteSet(S) /\ Cardinality(S) = m
  <2> DEFINE S == {t \in T : \E k \in 1..m : s[k] = t}
             f == [k \in 1..m |-> s[k]]
  <2>1. m \in Nat /\ \A k \in 1..m : k \in 1..n
    BY <1>1
  <2>2. f \in [1..m -> S]
    BY <1>1, <2>1
  <2>3. \A j, k \in 1..m : f[j] = f[k] => j = k
    <3> SUFFICES ASSUME NEW j \in 1..m, NEW k \in 1..m, s[j] = s[k] PROVE j = k
      OBVIOUS
    <3>1. j \in 1..n /\ k \in 1..n
      BY <2>1
    <3>2. s[j] \in Nat /\ s[k] \in Nat /\ j \in Nat /\ k \in Nat
      BY <1>1, <3>1
    <3>3. ~(s[j] < s[k]) /\ ~(s[k] < s[j])
      BY ONLY <3>2, s[j] = s[k]
    <3>4. ~(j < k) /\ ~(k < j)
      BY <1>4, <3>1, <3>3
    <3> QED BY ONLY <3>2, <3>4
  <2>4. \A t \in S : \E k \in 1..m : f[k] = t
    OBVIOUS
  <2>5. IsFiniteSet(1..m) /\ Cardinality(1..m) = m
    BY <2>1, FS_Interval
  <2> HIDE DEF f, S
  <2>6. f \in Bijection(1..m, S)
    BY <2>2, <2>3, <2>4 DEF Bijection, Injection, Surjection, IsInjective
  <2>7. IsFiniteSet(S) /\ Cardinality(S) = m
    BY <2>5, <2>6, FS_Bijection DEF ExistsBijection
  <2> QED BY <2>7 DEF S
<1>6. IsFiniteSet(T) /\ Cardinality(T) = n
  <2>1. T = {t \in T : \E k \in 1..n : s[k] = t}
    BY <1>2
  <2>2. n \in 0..n
    BY <1>1
  <2> QED BY <1>5, <2>1, <2>2
<1>7. ASSUME NEW k \in 1..n PROVE Cardinality(Lower(s[k])) = k - 1
  <2>1. k \in Nat /\ k - 1 \in 0..n /\ 1 <= k
    BY <1>1
  <2>2. \A j \in 1..n : j \in 1..(k - 1) <=> j < k
    BY <1>1, <2>1
  <2>3. \A j \in 1..(k - 1) : j \in 1..n
    BY <1>1, <2>1
  <2>4. Lower(s[k]) = {t \in T : \E j \in 1..(k - 1) : s[j] = t}
    <3>1. ASSUME NEW t \in T PROVE t < s[k] <=> \E j \in 1..(k - 1) : s[j] = t
      <4>1. PICK j \in 1..n : s[j] = t
        BY <1>2
      <4>2. j < k <=> t < s[k]
        BY <1>4, <4>1
      <4>3. ASSUME NEW i \in 1..(k - 1), s[i] = t PROVE t < s[k]
        <5>1. i \in 1..n /\ i < k
          BY <2>2, <2>3
        <5> QED BY <1>4, <4>3, <5>1
      <4> QED BY <2>2, <4>1, <4>2, <4>3
    <3> QED BY <3>1
  <2> HIDE DEF Lower
  <2> QED BY <1>5, <2>1, <2>4
<1>8. ASSUME NEW k \in 1..n
      PROVE  s[k] = CHOOSE t \in T : Cardinality(Lower(t)) = k - 1
  <2>1. s[k] \in T /\ Cardinality(Lower(s[k])) = k - 1
    BY <1>1, <1>7
  <2>2. ASSUME NEW t \in T, Cardinality(Lower(t)) = k - 1 PROVE t = s[k]
    <3>1. PICK j \in 1..n : s[j] = t
      BY <1>2
    <3>2. j - 1 = k - 1
      BY <1>7, <2>2, <3>1
    <3>3. j = k
      BY <1>1, <3>2
    <3> QED BY <3>1, <3>3
  <2> HIDE DEF Lower
  <2> QED BY <2>1, <2>2
<1>9. s = [k \in 1..n |-> CHOOSE t \in T : Cardinality(Lower(t)) = k - 1]
  <2> HIDE DEF Lower
  <2> QED BY <1>1, <1>8
<1> QED BY <1>6, <1>9 DEF Ascending, n, T, Lower

(* Multiples of a number.                                                     *)
LEMMA Multiples ==
  ASSUME NEW a \in Nat, NEW n \in Nat \ {0}
  PROVE  /\ a \div n \in Nat /\ a % n \in 0..(n - 1) /\ a = (a \div n) * n + (a % n)
         /\ a % n = 0 => a = (a \div n) * n
         /\ (a * n) % n = 0 /\ a * n \in Nat
OBVIOUS

(* Multiplying keeps the order.                                               *)
LEMMA MultiplesOrder ==
  ASSUME NEW a \in Int, NEW b \in Int, NEW n \in Nat \ {0}
  PROVE  /\ a < b <=> a * n < b * n
         /\ (a + b) * n = a * n + b * n /\ (a - b) * n = a * n - b * n /\ (a + 1) * n = a * n + n
         /\ a * n \in Int
OBVIOUS

(* A quotient, from the multiples around a number.                            *)
LEMMA QuotientIs ==
  ASSUME NEW a \in Nat, NEW n \in Nat \ {0}, NEW q \in Nat, q * n <= a, a < q * n + n
  PROVE  a \div n = q
OBVIOUS

(* The multiples of n in (a, b], in order.                                    *)
MultiplesIn(a, b, n) == [k \in 1..(b \div n - a \div n) |-> (a \div n + k) * n]

(* They are those and no others.                                              *)
LEMMA MultiplesAscend ==
  ASSUME NEW n \in Nat \ {0}, NEW a \in Nat, NEW b \in Nat, a <= b, NEW h \in Nat, b <= h,
         NEW T, T = {x \in 0..h : x % n = 0 /\ a < x /\ x <= b}
  PROVE  MultiplesIn(a, b, n) = Ascending(T) /\ IsFiniteSet(T) /\ MultiplesIn(a, b, n) \in Seq(0..h)
<1> DEFINE q == a \div n
           p == b \div n
           s == MultiplesIn(a, b, n)
<1>1. /\ q \in Nat /\ q * n \in Nat /\ q * n <= a /\ a < q * n + n
      /\ p \in Nat /\ p * n \in Nat /\ p * n <= b /\ b < p * n + n
  <2>1. a % n \in 0..(n - 1) /\ a = (a \div n) * n + (a % n) /\ b % n \in 0..(n - 1) /\ b = (b \div n) * n + (b % n)
    BY Multiples
  <2>2. q \in Nat /\ p \in Nat /\ q * n \in Nat /\ p * n \in Nat
    BY Multiples
  <2> HIDE DEF q, p
  <2> QED BY <2>1, <2>2 DEF q, p
<1>2. s = [k \in 1..(p - q) |-> (q + k) * n]
  BY DEF MultiplesIn
<1> HIDE DEF q, p, s
<1>3. q <= p
  <2>1. ~(p < q)
    <3>1. SUFFICES ASSUME p < q PROVE FALSE
      OBVIOUS
    <3>2. p + 1 <= q
      BY <1>1, <3>1
    <3>3. (p + 1) * n = p * n + n
      BY <1>1, MultiplesOrder
    <3>4. ~(q < p + 1)
      BY <1>1, <3>2
    <3>5. ~(q * n < (p + 1) * n)
      <4>1. q \in Int /\ p + 1 \in Int
        BY <1>1
      <4> QED BY ONLY <3>4, <4>1, MultiplesOrder, n \in Nat \ {0}
    <3> QED BY <1>1, <3>3, <3>5
  <2> QED BY <1>1, <2>1
<1>4. ASSUME NEW k \in 1..(p - q)
      PROVE  (q + k) * n \in T /\ (q + k) * n \in Nat
  <2>1. k \in Nat /\ q + k \in Nat /\ q + 1 <= q + k /\ q + k <= p
    BY <1>1, <1>3
  <2>2. ((q + k) * n) % n = 0 /\ (q + k) * n \in Nat
    BY <2>1, Multiples
  <2>3. (q + 1) * n = q * n + n
    BY <1>1, MultiplesOrder
  <2>4. ~((q + k) * n < (q + 1) * n) /\ ~(p * n < (q + k) * n)
    <3>1. q + k \in Int /\ q + 1 \in Int /\ p \in Int /\ ~(q + k < q + 1) /\ ~(p < q + k)
      BY <1>1, <2>1
    <3> QED BY ONLY <3>1, MultiplesOrder, n \in Nat \ {0}
  <2> DEFINE x == (q + k) * n
  <2> HIDE DEF x
  <2>5. x \in Nat /\ a < x /\ x <= b
    BY <1>1, <2>2, <2>3, <2>4 DEF x
  <2>6. x \in 0..h
    BY <2>5
  <2> QED BY <2>2, <2>5, <2>6 DEF x
<1>5. ASSUME NEW x \in T PROVE \E k \in 1..(p - q) : (q + k) * n = x
  <2> DEFINE m == x \div n
  <2>1. x \in Nat /\ a < x /\ x <= b /\ m \in Nat /\ m * n = x
    <3>1. x \in Nat /\ x % n = 0 /\ a < x /\ x <= b
      OBVIOUS
    <3>2. x \div n \in Nat /\ x = (x \div n) * n
      BY <3>1, Multiples
    <3> QED BY <3>1, <3>2
  <2> HIDE DEF m
  <2>2. q * n < m * n /\ m * n < (p + 1) * n
    <3>1. (p + 1) * n = p * n + n
      BY <1>1, MultiplesOrder
    <3> QED BY <1>1, <2>1, <3>1
  <2>3. q < m /\ m < p + 1
    <3>1. q \in Int /\ m \in Int /\ p + 1 \in Int
      BY <1>1, <2>1
    <3> QED BY ONLY <2>2, <3>1, MultiplesOrder, n \in Nat \ {0}
  <2> DEFINE k == m - q
  <2>4. k \in 1..(p - q) /\ q + k = m
    BY <1>1, <2>1, <2>3
  <2> QED BY <2>1, <2>4
<1>6. s \in Seq(Nat) /\ DOMAIN s = 1..(p - q) /\ s \in Seq(0..h)
  <2>1. p - q \in Nat
    BY <1>1, <1>3
  <2>2. s \in [1..(p - q) -> 0..h]
    <3>1. \A k \in 1..(p - q) : (q + k) * n \in 0..h
      BY <1>4
    <3> QED BY <1>2, <3>1
  <2>3. 0..h \subseteq Nat
    OBVIOUS
  <2> QED BY <2>1, <2>2, <2>3
<1>7. Rising(s)
  <2> SUFFICES ASSUME NEW j \in 1..(p - q), NEW k \in 1..(p - q), j < k PROVE s[j] < s[k]
    BY <1>6 DEF Rising
  <2>1. q + j \in Int /\ q + k \in Int /\ q + j < q + k
    BY <1>1
  <2>2. (q + j) * n < (q + k) * n
    BY ONLY <2>1, MultiplesOrder, n \in Nat \ {0}
  <2> QED BY <1>2, <2>2
<1>8. Range(s) = T
  <2>1. \A x \in Range(s) : x \in T
    BY <1>2, <1>4, <1>6 DEF Range
  <2>2. \A x \in T : x \in Range(s)
    BY <1>2, <1>5, <1>6 DEF Range
  <2> QED BY <2>1, <2>2
<1>9. s = Ascending(T) /\ IsFiniteSet(T)
  BY <1>6, <1>7, <1>8, RisingIsAscending
<1> QED BY <1>6, <1>9  DEF s

(* In a finite set with a strict order every place is taken once: R[t] is  *)
(* the number of those before t.                                           *)
LEMMA PlacesInOrder ==
  ASSUME NEW T, IsFiniteSet(T), NEW B,
         \A t \in T : B[t] \subseteq T /\ t \notin B[t],
         \A t, u \in T : t # u => t \in B[u] \/ u \in B[t],
         \A t, u \in T : t \in B[u] => B[t] \subseteq B[u]
  PROVE  /\ \A t \in T : Cardinality(B[t]) \in 0..(Cardinality(T) - 1)
         /\ \A t, u \in T : t \in B[u] <=> Cardinality(B[t]) < Cardinality(B[u])
         /\ \A t, u \in T : Cardinality(B[t]) = Cardinality(B[u]) => t = u
         /\ \A k \in 0..(Cardinality(T) - 1) : \E t \in T : Cardinality(B[t]) = k
<1> DEFINE R(t) == Cardinality(B[t])
           n == Cardinality(T)
           places == 0..(n - 1)
           place == [t \in T |-> R(t)]
<1>1. n \in Nat
  BY FS_CardinalityType
<1>2. \A t \in T : IsFiniteSet(B[t]) /\ R(t) \in Nat
  BY FS_Subset, FS_CardinalityType
<1>3. ASSUME NEW t \in T PROVE R(t) < n
  <2>1. B[t] \subseteq T /\ B[t] # T
    OBVIOUS
  <2>2. R(t) <= n /\ (R(t) = n => B[t] = T)
    BY <2>1, FS_Subset
  <2> QED BY <1>1, <1>2, <2>1, <2>2
<1>4. ASSUME NEW t \in T, NEW u \in T, t \in B[u] PROVE R(t) < R(u)
  <2>1. B[t] \subseteq B[u] /\ B[t] # B[u]
    BY <1>4
  <2>2. R(t) <= R(u) /\ (R(t) = R(u) => B[t] = B[u])
    BY <1>2, <2>1, FS_Subset
  <2> QED BY <1>2, <2>1, <2>2
<1>5. \A t \in T : R(t) \in places
  BY <1>1, <1>2, <1>3
<1>6. \A t, u \in T : R(t) = R(u) => t = u
  <2> SUFFICES ASSUME NEW t \in T, NEW u \in T, t # u PROVE R(t) # R(u)
    OBVIOUS
  <2>1. t \in B[u] \/ u \in B[t]
    OBVIOUS
  <2>2. R(t) < R(u) \/ R(u) < R(t)
    BY <1>4, <2>1
  <2>3. R(t) \in Nat /\ R(u) \in Nat
    BY <1>2
  <2> HIDE DEF R
  <2> QED BY <2>2, <2>3
<1>7. place \in [T -> places]
  BY <1>5
<1>8. IsFiniteSet(places) /\ Cardinality(places) = n
  BY <1>1, FS_Interval
<1>9. \A t, u \in T : place[t] = place[u] => t = u
  <2> HIDE DEF R
  <2> QED BY <1>6
<1> HIDE DEF place, places
<1>10. place \in Injection(T, places)
  BY <1>7, <1>9 DEF Injection, IsInjective
<1>11. place \in Surjection(T, places)
  BY <1>8, <1>10, FS_Injection
<1>12. \A k \in places : \E t \in T : R(t) = k
  BY <1>11 DEF Surjection, place
<1>13. ASSUME NEW t \in T, NEW u \in T, R(t) < R(u) PROVE t \in B[u]
  <2>1. t # u
    BY <1>2, <1>13
  <2>2. u \notin B[t]
    <3>1. SUFFICES ASSUME u \in B[t] PROVE FALSE
      OBVIOUS
    <3>2. R(u) < R(t)
      BY <1>4, <3>1
    <3>3. R(t) \in Nat /\ R(u) \in Nat
      BY <1>2
    <3> QED BY ONLY <1>13, <3>2, <3>3
  <2> QED BY <2>1, <2>2
<1> QED BY <1>4, <1>5, <1>6, <1>12, <1>13 DEF places

(* What is closed downwards among the numbers up to n begins them.         *)
LEMMA DownwardClosed ==
  ASSUME NEW n \in Nat, NEW S, S \subseteq 1..n,
         \A i \in S : \A j \in 1..n : j < i => j \in S
  PROVE  Cardinality(S) \in 0..n /\ S = 1..Cardinality(S)
<1>1. CASE S = {}
  <2>1. Cardinality(S) = 0
    BY <1>1, FS_EmptySet
  <2> QED BY <1>1, <2>1
<1>2. CASE S # {}
  <2>1. Max(S) \in S /\ \A i \in S : i <= Max(S)
    BY <1>2, MaxIsOne
  <2>2. PICK m \in 1..n : m \in S /\ \A i \in S : i <= m
    BY <2>1
  <2>3. S = 1..m
    <3>1. \A i \in S : i \in 1..m
      BY <2>2
    <3>2. \A i \in 1..m : i \in S
      <4> SUFFICES ASSUME NEW i \in 1..m PROVE i \in S
        OBVIOUS
      <4>1. i \in 1..n /\ (i = m \/ i < m)
        BY <2>2
      <4> QED BY <2>2, <4>1
    <3> QED BY <3>1, <3>2
  <2>4. m \in Nat /\ Cardinality(1..m) = m
    BY <2>2, FS_Interval
  <2> QED BY <2>2, <2>3, <2>4
<1> QED BY <1>1, <1>2

-----------------------------------------------------------------------------
(* Windows of time.                                                        *)
Win == INSTANCE TimeWindows

Window == Int \X Int
TicksIn(w) == w[1]..(w[2] - 1)

(* Windows in order that do not overlap, and the ticks in the first n of   *)
(* them.                                                                   *)
Apart(m) == /\ m \in Seq(Window)
            /\ \A i \in 1..Len(m) : m[i][1] <= m[i][2]
            /\ \A i, j \in 1..Len(m) : i < j => m[i][2] <= m[j][1]
TicksTo(m, n) == UNION {TicksIn(m[i]) : i \in 1..n}
TicksAll(m) == TicksTo(m, Len(m))

(* The windows of a set, sorted.                                           *)
LEMMA SortedWindows ==
  ASSUME NEW W, IsFiniteSet(W), W \subseteq Window
  PROVE  LET s == Win!Sorted(W)
             n == Len(s)
         IN  /\ s \in Seq(Window) /\ n \in Nat
             /\ \A k \in 1..n : s[k] \in W
             /\ \A w \in W : \E k \in 1..n : s[k] = w
             /\ \A j, k \in 1..n : j < k => s[j][1] <= s[k][1]
<1> DEFINE Before(w) == {v \in W : Win!Earlier(v, w)}
           B == [w \in W |-> Before(w)]
           n == Cardinality(W)
           s == Win!Sorted(W)
<1>1. \A w \in W : w[1] \in Int /\ w[2] \in Int /\ w = <<w[1], w[2]>>
  BY DEF Window
<1>2. \A v, w : Win!Earlier(v, w) <=> \/ v[1] < w[1]
                                      \/ v[1] = w[1] /\ v[2] < w[2]
  BY DEF Win!Earlier, Win!Begin, Win!End
<1>3. /\ \A t \in W : B[t] \subseteq W /\ t \notin B[t]
      /\ \A t, u \in W : t # u => t \in B[u] \/ u \in B[t]
      /\ \A t, u \in W : t \in B[u] => B[t] \subseteq B[u]
  <2>1. ASSUME NEW t \in W PROVE ~Win!Earlier(t, t)
    BY <1>1, <1>2
  <2>2. ASSUME NEW t \in W, NEW u \in W, t # u PROVE Win!Earlier(t, u) \/ Win!Earlier(u, t)
    <3>1. t[1] # u[1] \/ t[2] # u[2]
      BY <1>1, <2>2
    <3> QED BY <1>1, <1>2, <3>1
  <2>3. ASSUME NEW t \in W, NEW u \in W, NEW v \in W, Win!Earlier(t, u), Win!Earlier(v, t)
        PROVE  Win!Earlier(v, u)
    <3>1. /\ t[1] \in Int /\ t[2] \in Int /\ u[1] \in Int /\ u[2] \in Int /\ v[1] \in Int /\ v[2] \in Int
          /\ t[1] < u[1] \/ (t[1] = u[1] /\ t[2] < u[2])
          /\ v[1] < t[1] \/ (v[1] = t[1] /\ v[2] < t[2])
      BY <1>1, <1>2, <2>3
    <3>2. v[1] < u[1] \/ (v[1] = u[1] /\ v[2] < u[2])
      BY ONLY <3>1
    <3> QED BY <1>2, <3>2
  <2>4. \A t, u \in W : t \in B[u] <=> Win!Earlier(t, u)
    OBVIOUS
  <2>5. \A t \in W : B[t] \subseteq W
    OBVIOUS
  <2> HIDE DEF B
  <2> QED BY <2>1, <2>2, <2>3, <2>4, <2>5
<1> HIDE DEF B
<1>4. /\ \A t, u \in W : t \in B[u] <=> Cardinality(B[t]) < Cardinality(B[u])
      /\ \A k \in 0..(n - 1) : \E t \in W : Cardinality(B[t]) = k
  BY <1>3, PlacesInOrder
<1>5. n \in Nat
  BY FS_CardinalityType
<1> DEFINE P(k) == CHOOSE w \in W : Cardinality(Before(w)) = k - 1
<1>6. s = [k \in 1..n |-> P(k)]
  BY DEF Win!Sorted, Win!Cardinality, Cardinality, Win!IsFiniteSet, IsFiniteSet
<1>7. \A w \in W : B[w] = Before(w)
  BY DEF B
<1> HIDE DEF Before, n, s
<1>8. ASSUME NEW k \in 1..n PROVE P(k) \in W /\ Cardinality(B[P(k)]) = k - 1
  <2>1. k - 1 \in 0..(n - 1)
    BY <1>5
  <2>2. \E w \in W : Cardinality(Before(w)) = k - 1
    BY <1>4, <1>7, <2>1
  <2> QED BY <1>7, <2>2
<1> HIDE DEF P
<1>9. \A k \in 1..n : s[k] \in W /\ Cardinality(B[s[k]]) = k - 1
  BY <1>6, <1>8
<1>10. s \in Seq(Window) /\ Len(s) = n
  <2>1. s \in [1..n -> Window]
    BY <1>6, <1>8
  <2> QED BY <1>5, <2>1
<1>11. ASSUME NEW w \in W PROVE \E k \in 1..n : s[k] = w
  <2>1. Cardinality(B[w]) \in 0..(n - 1)
    BY <1>3, PlacesInOrder DEF n
  <2> DEFINE k == Cardinality(B[w]) + 1
  <2>2. k \in 1..n /\ k - 1 = Cardinality(B[w])
    BY <1>5, <2>1
  <2>3. s[k] \in W /\ Cardinality(B[s[k]]) = Cardinality(B[w])
    BY <1>9, <2>2
  <2>4. s[k] = w
    BY <1>3, <2>3, PlacesInOrder
  <2> QED BY <2>2, <2>4
<1>12. ASSUME NEW j \in 1..n, NEW k \in 1..n, j < k PROVE s[j][1] <= s[k][1]
  <2>1. s[j] \in W /\ s[k] \in W /\ Cardinality(B[s[j]]) = j - 1 /\ Cardinality(B[s[k]]) = k - 1
    BY <1>9
  <2>2. j - 1 < k - 1
    BY <1>5, <1>12
  <2>3. s[j] \in B[s[k]]
    <3>1. Cardinality(B[s[j]]) < Cardinality(B[s[k]])
      BY ONLY <2>1, <2>2
    <3> QED BY <1>4, <2>1, <3>1
  <2>4. Win!Earlier(s[j], s[k])
    BY <1>7, <2>1, <2>3 DEF Before
  <2> QED BY <1>1, <1>2, <2>1, <2>4
<1> QED BY <1>5, <1>9, <1>10, <1>11, <1>12 DEF s

(* One turn of the loop of merge_windows.                                  *)
LEMMA AbsorbStep ==
  ASSUME NEW m, Apart(m), NEW w \in Window, w[1] < w[2],
         Len(m) # 0 => m[Len(m)][1] <= w[1]
  PROVE  LET a == Win!Absorb(m, w)
         IN  /\ Apart(a) /\ Len(a) \in Nat \ {0} /\ a[Len(a)][1] <= w[1]
             /\ TicksAll(a) = TicksAll(m) \cup TicksIn(w)
<1> DEFINE n == Len(m)
           a == Win!Absorb(m, w)
           top == m[n]
           merged == <<top[1], IF w[2] > top[2] THEN w[2] ELSE top[2]>>
<1>1. /\ m \in Seq(Window) /\ n \in Nat
      /\ \A i \in 1..n : m[i] \in Window /\ m[i][1] \in Int /\ m[i][2] \in Int /\ m[i][1] <= m[i][2]
      /\ \A i, j \in 1..n : i < j => m[i][2] <= m[j][1]
      /\ w[1] \in Int /\ w[2] \in Int
  BY DEF Apart, Window
<1>2. Win!Last(m) = top /\ Win!Front(m) = SubSeq(m, 1, n - 1)
  BY DEF Win!Last, Win!Front
<1>3. CASE n # 0 /\ w[1] <= top[2]
  <2>1. m # <<>> /\ n \in 1..n /\ n - 1 \in Nat
    BY <1>1, <1>3
  <2>2. a = Append(SubSeq(m, 1, n - 1), merged)
    BY <1>2, <1>3, <2>1 DEF Win!Absorb, Win!Begin, Win!End
  <2>3. merged \in Window /\ merged[1] = top[1] /\ merged[2] \in Int /\ merged[1] <= merged[2]
    BY <1>1, <2>1 DEF Window
  <2>4. /\ a \in Seq(Window) /\ Len(a) = n /\ a[n] = merged
        /\ \A i \in 1..(n - 1) : a[i] = m[i]
    <3> DEFINE f == SubSeq(m, 1, n - 1)
    <3>1. f \in Seq(Window) /\ Len(f) = n - 1 /\ \A i \in 1..(n - 1) : f[i] = m[i]
      <4>1. PICK k \in Nat : k = n - 1
        BY <2>1
      <4>2. \A i \in 1..k : m[i] \in Window /\ 1 + i - 1 = i
        BY <1>1, <4>1
      <4>3. /\ SubSeq(m, 1, k) \in Seq(Window) /\ Len(SubSeq(m, 1, k)) = IF 1 <= k THEN k - 1 + 1 ELSE 0
            /\ \A i \in 1..(k - 1 + 1) : SubSeq(m, 1, k)[i] = m[1 + i - 1]
        BY <4>2, SubSeqProperties
      <4>4. Len(SubSeq(m, 1, k)) = k /\ k - 1 + 1 = k
        BY <4>3
      <4>5. \A i \in 1..k : SubSeq(m, 1, k)[i] = m[i]
        BY <4>2, <4>3, <4>4
      <4> QED BY <4>1, <4>3, <4>4, <4>5
    <3> HIDE DEF f, merged
    <3>2. /\ Append(f, merged) \in Seq(Window) /\ Len(Append(f, merged)) = Len(f) + 1
          /\ Append(f, merged)[Len(f) + 1] = merged
          /\ \A i \in 1..Len(f) : Append(f, merged)[i] = f[i]
      BY <2>3, <3>1, AppendProperties
    <3>3. (n - 1) + 1 = n
      BY <1>1
    <3> QED BY <2>2, <3>1, <3>2, <3>3 DEF f
  <2>5. \A i \in 1..n : i = n \/ i \in 1..(n - 1)
    BY <1>1
  <2>6. TicksIn(merged) = TicksIn(top) \cup TicksIn(w)
    <3>1. top[1] \in Int /\ top[2] \in Int /\ top[1] <= w[1] /\ w[1] <= top[2] /\ top[1] <= top[2]
      BY <1>1, <1>3, <2>1
    <3> DEFINE e == IF w[2] > top[2] THEN w[2] ELSE top[2]
    <3>2. top[1]..(e - 1) = (top[1]..(top[2] - 1)) \cup (w[1]..(w[2] - 1))
      BY <1>1, <3>1
    <3> QED BY <3>2 DEF TicksIn
  <2> HIDE DEF a, merged
  <2>7. Apart(a)
    <3>1. ASSUME NEW i \in 1..n PROVE a[i][1] <= a[i][2]
      BY <1>1, <2>3, <2>4, <2>5
    <3>2. ASSUME NEW i \in 1..n, NEW j \in 1..n, i < j PROVE a[i][2] <= a[j][1]
      <4>1. i \in 1..(n - 1) /\ a[i] = m[i] /\ m[i][2] <= m[j][1]
        BY <1>1, <2>4, <3>2
      <4>2. a[j][1] = m[j][1]
        BY <2>3, <2>4, <2>5
      <4> QED BY <4>1, <4>2
    <3> QED BY <2>4, <3>1, <3>2 DEF Apart
  <2>8. TicksAll(a) = TicksAll(m) \cup TicksIn(w)
    <3>1. TicksAll(a) = TicksTo(a, n) /\ TicksAll(m) = TicksTo(m, n)
      BY <2>4 DEF TicksAll
    <3>2. ASSUME NEW s PROVE TicksTo(s, n) = TicksTo(s, n - 1) \cup TicksIn(s[n])
      <4>1. 1..n = 1..(n - 1) \cup {n}
        BY <1>1, <2>1
      <4> QED BY <4>1 DEF TicksTo
    <3>3. TicksTo(a, n - 1) = TicksTo(m, n - 1)
      BY <2>4 DEF TicksTo
    <3> QED BY <2>4, <2>6, <3>1, <3>2, <3>3
  <2>9. top[1] <= w[1]
    BY <1>3
  <2> QED BY <1>1, <1>3, <2>3, <2>4, <2>7, <2>8, <2>9 DEF a
<1>4. CASE ~(n # 0 /\ w[1] <= top[2])
  <2>1. a = Append(m, w)
    <3>1. m # <<>> => n # 0
      BY <1>1
    <3> QED BY <1>2, <1>4, <3>1 DEF Win!Absorb, Win!Begin, Win!End
  <2>2. /\ a \in Seq(Window) /\ Len(a) = n + 1 /\ a[n + 1] = w
        /\ \A i \in 1..n : a[i] = m[i]
    BY <1>1, <2>1, AppendProperties
  <2>3. \A i \in 1..(n + 1) : i = n + 1 \/ i \in 1..n
    BY <1>1
  <2> HIDE DEF a
  <2>4. Apart(a)
    <3>1. ASSUME NEW i \in 1..(n + 1) PROVE a[i][1] <= a[i][2]
      BY <1>1, <2>2, <2>3
    <3>2. ASSUME NEW i \in 1..(n + 1), NEW j \in 1..(n + 1), i < j PROVE a[i][2] <= a[j][1]
      <4>1. i \in 1..n /\ a[i] = m[i]
        BY <1>1, <2>2, <3>2
      <4>2. CASE j \in 1..n
        BY <1>1, <2>2, <3>2, <4>1, <4>2
      <4>3. CASE j = n + 1
        <5>1. n # 0 /\ n \in 1..n /\ top[2] < w[1] /\ top[1] <= top[2]
          <6>1. n # 0 /\ n \in 1..n
            BY <1>1, <4>1
          <6> QED BY <1>1, <1>4, <6>1
        <5>2. m[i][2] <= top[2]
          <6>1. CASE i = n
            BY <1>1, <5>1, <6>1
          <6>2. CASE i # n
            <7>1. i < n
              BY <1>1, <4>1, <6>2
            <7>2. m[i][2] <= top[1]
              BY <1>1, <4>1, <5>1, <7>1
            <7> QED BY <1>1, <4>1, <5>1, <7>2
          <6> QED BY <6>1, <6>2
        <5>3. a[j] = w
          BY <2>2, <4>3
        <5> QED BY <1>1, <4>1, <5>1, <5>2, <5>3
      <4> QED BY <2>3, <4>2, <4>3
    <3> QED BY <2>2, <3>1, <3>2 DEF Apart
  <2>5. TicksAll(a) = TicksAll(m) \cup TicksIn(w)
    <3>1. 1..(n + 1) = 1..n \cup {n + 1}
      BY <1>1
    <3>2. TicksTo(a, n + 1) = TicksTo(a, n) \cup TicksIn(a[n + 1])
      BY <3>1 DEF TicksTo
    <3>3. TicksTo(a, n) = TicksTo(m, n)
      BY <2>2 DEF TicksTo
    <3> QED BY <2>2, <3>2, <3>3 DEF TicksAll
  <2> QED BY <1>1, <2>2, <2>4, <2>5 DEF a
<1> QED BY <1>3, <1>4

(* It gives windows whatever it is given.                                  *)
LEMMA AbsorbType ==
  ASSUME NEW m \in Seq(Window), NEW w \in Window PROVE Win!Absorb(m, w) \in Seq(Window)
<1> DEFINE n == Len(m)
           top == Win!Last(m)
           merged == <<top[1], IF w[2] > top[2] THEN w[2] ELSE top[2]>>
<1>0. n \in Nat /\ w[2] \in Int /\ top = m[n] /\ Append(m, w) \in Seq(Window)
  BY DEF Window, Win!Last
<1>1. CASE m # <<>> /\ w[1] <= top[2]
  <2>1. n \in 1..n
    BY <1>0, <1>1
  <2>2. m[n] \in Window
    BY <2>1
  <2>3. merged \in Window
    BY <1>0, <2>2 DEF Window
  <2>4. Win!Front(m) \in Seq(Window)
    <3>1. \A i \in 1..(n - 1) : m[i] \in Window
      BY <1>0
    <3>2. n - 1 \in Int
      BY <1>0
    <3>3. SubSeq(m, 1, n - 1) \in Seq(Window)
      BY <3>1, <3>2, SubSeqProperties
    <3> QED BY <3>3 DEF Win!Front
  <2>5. Win!Absorb(m, w) = Append(Win!Front(m), merged)
    BY <1>1 DEF Win!Absorb, Win!Begin, Win!End
  <2> HIDE DEF merged
  <2> QED BY <2>3, <2>4, <2>5
<1>2. CASE ~(m # <<>> /\ w[1] <= top[2])
  <2>1. Win!Absorb(m, w) = Append(m, w)
    BY <1>2 DEF Win!Absorb, Win!Begin, Win!End
  <2> QED BY <1>0, <2>1
<1> QED BY <1>1, <1>2

(* merge_windows keeps the ticks, each in one window.                      *)
LEMMA MergedWindows ==
  ASSUME NEW W, IsFiniteSet(W), W \subseteq Window
  PROVE  Apart(Win!MergeWindows(W)) /\ TicksAll(Win!MergeWindows(W)) = UNION {TicksIn(w) : w \in W}
<1> DEFINE V == {w \in W : w[2] > w[1]}
           s == Win!Sorted(V)
           n == Len(s)
           X == Seq(Window)
           G == [i \in 1..n |-> [m \in X |-> Win!Absorb(m, s[i])]]
           Fold(h) == h = [t \in SUBSET DOMAIN s |-> IF t = {} THEN <<>>
                                                     ELSE Win!Absorb(h[t \ {Win!Max(t)}], s[Win!Max(t)])]
           it == CHOOSE h : Fold(h)
<1>1. Win!MergeWindows(W) = it[DOMAIN s]
  BY DEF Win!MergeWindows, Win!FoldLeft, Win!MapThenFoldSet, Win!Begin, Win!End
<1>2. IsFiniteSet(V) /\ V \subseteq Window
  BY FS_Subset
<1> HIDE DEF V
<1>3. /\ s \in Seq(Window) /\ n \in Nat /\ DOMAIN s = 1..n
      /\ \A k \in 1..n : s[k] \in V /\ s[k] \in Window
      /\ \A w \in V : \E k \in 1..n : s[k] = w
      /\ \A j, k \in 1..n : j < k => s[j][1] <= s[k][1]
  BY <1>2, SortedWindows
<1>4. \A t : Win!Max(t) = Max(t)
  BY DEF Win!Max, Max
<1> HIDE DEF s, n, it
<1>5. <<>> \in X
  OBVIOUS
<1>6. \A i \in 1..n : \A m \in X : Win!Absorb(m, s[i]) \in X
  BY <1>3, AbsorbType
<1> HIDE DEF X
<1>7. G \in [1..n -> [X -> X]]
  BY <1>6
<1>8. \A i \in 1..n : \A m \in X : G[i][m] = Win!Absorb(m, s[i])
  OBVIOUS
<1> HIDE DEF G
<1>9. PICK g \in [SUBSET (1..n) -> X] : FoldOf(g, <<>>, G, n)
  BY <1>3, <1>5, <1>7, FoldExists
<1>10. Fold(g)
  <2>1. \A t \in SUBSET (1..n) : t # {} => Max(t) \in 1..n /\ g[t \ {Max(t)}] \in X
    BY <1>3, MaxIsOne
  <2>2. \A t \in SUBSET (1..n) : g[t] = IF t = {} THEN <<>> ELSE G[Max(t)][g[t \ {Max(t)}]]
    BY <1>9 DEF FoldOf
  <2>3. \A t \in SUBSET (1..n) : g[t] = IF t = {} THEN <<>> ELSE Win!Absorb(g[t \ {Max(t)}], s[Max(t)])
    BY <2>1, <2>2, <1>8
  <2>4. g = [t \in SUBSET (1..n) |-> g[t]]
    OBVIOUS
  <2> QED BY <2>3, <2>4, <1>3, <1>4
<1>11. Fold(it)
  BY <1>10 DEF it
<1>12. \A t \in SUBSET (1..n) : it[t] = IF t = {} THEN <<>> ELSE Win!Absorb(it[t \ {Max(t)}], s[Max(t)])
  BY <1>11, <1>3, <1>4
<1> DEFINE Good(k) == LET m == it[1..k]
                      IN  /\ Apart(m) /\ Len(m) \in Nat
                          /\ Len(m) # 0 => k # 0 /\ m[Len(m)][1] <= s[k][1]
                          /\ TicksAll(m) = UNION {TicksIn(s[j]) : j \in 1..k}
           K == {k \in Nat : k <= n => Good(k)}
<1>13. 0 \in K
  <2>1. 1..0 = {} /\ 1..0 \in SUBSET (1..n)
    OBVIOUS
  <2>2. it[1..0] = <<>>
    BY <2>1, <1>12
  <2>3. Len(<<>>) = 0 /\ <<>> \in Seq(Window)
    OBVIOUS
  <2>4. Apart(<<>>) /\ TicksAll(<<>>) = {}
    BY <2>1, <2>3 DEF Apart, TicksAll, TicksTo
  <2>5. UNION {TicksIn(s[j]) : j \in 1..0} = {}
    BY <2>1
  <2>6. Good(0)
    BY <2>2, <2>3, <2>4, <2>5
  <2> QED BY <2>6
<1>14. ASSUME NEW k \in Nat, k \in K PROVE k + 1 \in K
  <2> SUFFICES ASSUME k + 1 <= n PROVE Good(k + 1)
    OBVIOUS
  <2>1. Good(k) /\ k + 1 \in 1..n /\ (k + 1) - 1 = k /\ k + 1 # 0
    BY <1>14, <1>3
  <2>2. 1..(k + 1) \in SUBSET (1..n) /\ 1..(k + 1) # {} /\ k + 1 \in 1..(k + 1)
    <3>0. n \in Nat /\ k \in Nat /\ k + 1 <= n
      BY <1>3
    <3>1. 1..(k + 1) \subseteq 1..n
      BY ONLY <3>0
    <3>2. k + 1 \in 1..(k + 1)
      BY <2>1
    <3> QED BY <3>1, <3>2
  <2>3. Max(1..(k + 1)) \in 1..(k + 1) /\ \A i \in 1..(k + 1) : i <= Max(1..(k + 1))
    BY <1>3, <2>2, MaxIsOne
  <2>4. Max(1..(k + 1)) = k + 1 /\ (1..(k + 1)) \ {k + 1} = 1..k
    BY <2>2, <2>3
  <2>5. it[1..(k + 1)] = Win!Absorb(it[1..k], s[k + 1])
    BY <1>12, <2>2, <2>4
  <2> DEFINE m == it[1..k]
             w == s[k + 1]
             a == Win!Absorb(m, w)
  <2>6. w \in Window /\ w[1] < w[2] /\ w[1] \in Int
    BY <1>3, <2>1 DEF V, Window
  <2>7. /\ Apart(m) /\ Len(m) \in Nat
        /\ Len(m) # 0 => k # 0 /\ m[Len(m)][1] <= s[k][1]
        /\ TicksAll(m) = UNION {TicksIn(s[j]) : j \in 1..k}
    BY <2>1
  <2>8. Len(m) # 0 => m[Len(m)][1] <= w[1]
    <3> SUFFICES ASSUME Len(m) # 0 PROVE m[Len(m)][1] <= w[1]
      OBVIOUS
    <3>1. k \in 1..n /\ k < k + 1 /\ m[Len(m)][1] <= s[k][1]
      <4>1. n \in Nat /\ k \in Nat /\ k + 1 <= n
        BY <1>3
      <4>2. k # 0 /\ m[Len(m)][1] <= s[k][1]
        BY <2>7
      <4>3. k \in 1..n /\ k < k + 1
        BY ONLY <4>1, <4>2
      <4> QED BY <4>2, <4>3
    <3>2. s[k][1] <= w[1] /\ s[k][1] \in Int
      BY <1>3, <2>1, <3>1 DEF Window
    <3>3. m[Len(m)][1] \in Int
      <4>1. m \in Seq(Window) /\ Len(m) \in 1..Len(m)
        BY <2>7 DEF Apart
      <4>2. m[Len(m)] \in Window
        BY <4>1, ElementOfSeq
      <4> QED BY <4>2 DEF Window
    <3> QED BY ONLY <2>6, <3>1, <3>2, <3>3
  <2> HIDE DEF m, w, Good
  <2>9. /\ Apart(a) /\ Len(a) \in Nat \ {0} /\ a[Len(a)][1] <= w[1]
        /\ TicksAll(a) = TicksAll(m) \cup TicksIn(w)
    BY <2>6, <2>7, <2>8, AbsorbStep
  <2>10. UNION {TicksIn(s[j]) : j \in 1..(k + 1)} = (UNION {TicksIn(s[j]) : j \in 1..k}) \cup TicksIn(s[k + 1])
    <3>1. 1..(k + 1) = 1..k \cup {k + 1}
      OBVIOUS
    <3> QED BY <3>1
  <2>11. it[1..(k + 1)] = a
    BY <2>5 DEF m, w
  <2> HIDE DEF a
  <2> QED BY <2>1, <2>7, <2>9, <2>10, <2>11 DEF Good, w
<1> HIDE DEF K
<1>15. Nat \subseteq K
  BY <1>13, <1>14, SetInduction
<1>16. Good(n)
  BY <1>15, <1>3 DEF K
<1>17. UNION {TicksIn(s[j]) : j \in 1..n} = UNION {TicksIn(w) : w \in V}
  BY <1>3
<1>18. UNION {TicksIn(w) : w \in V} = UNION {TicksIn(w) : w \in W}
  <2>1. \A w \in W : w \notin V => TicksIn(w) = {}
    BY DEF V, TicksIn, Window
  <2> QED BY <2>1 DEF V
<1> QED BY <1>1, <1>3, <1>16, <1>17, <1>18

(* The lengths of windows that do not overlap add to the ticks they cover. *)
LEMMA TotalIsTicks ==
  ASSUME NEW m, Apart(m)
  PROVE  IsFiniteSet(TicksAll(m)) /\ Win!TotalLength(m) = Cardinality(TicksAll(m))
<1> DEFINE n == Len(m)
           G == [i \in 1..n |-> [x \in Int |-> x + (m[i][2] - m[i][1])]]
           Fold(h) == h = [t \in SUBSET DOMAIN m |-> IF t = {} THEN 0
                              ELSE h[t \ {Win!Max(t)}] + (m[Win!Max(t)][2] - m[Win!Max(t)][1])]
           it == CHOOSE h : Fold(h)
<1>1. Win!TotalLength(m) = it[DOMAIN m]
  BY DEF Win!TotalLength, Win!FoldLeft, Win!MapThenFoldSet, Win!Length, Win!Begin, Win!End
<1>2. /\ n \in Nat /\ DOMAIN m = 1..n
      /\ \A i \in 1..n : m[i][1] \in Int /\ m[i][2] \in Int /\ m[i][1] <= m[i][2]
      /\ \A i, j \in 1..n : i < j => m[i][2] <= m[j][1]
  BY DEF Apart, Window
<1>3. \A t : Win!Max(t) = Max(t)
  BY DEF Win!Max, Max
<1> HIDE DEF n, it
<1>4. \A i \in 1..n : \A x \in Int : x + (m[i][2] - m[i][1]) \in Int
  BY <1>2
<1>5. G \in [1..n -> [Int -> Int]]
  BY <1>4
<1>6. \A i \in 1..n : \A x \in Int : G[i][x] = x + (m[i][2] - m[i][1])
  OBVIOUS
<1> HIDE DEF G
<1>7. PICK g \in [SUBSET (1..n) -> Int] : FoldOf(g, 0, G, n)
  <2>1. 0 \in Int /\ n \in Nat
    BY <1>2
  <2> QED BY ONLY <1>5, <2>1, FoldExists
<1>8. Fold(g)
  <2>1. \A t \in SUBSET (1..n) : t # {} => Max(t) \in 1..n /\ g[t \ {Max(t)}] \in Int
    BY <1>2, MaxIsOne
  <2>2. \A t \in SUBSET (1..n) : g[t] = IF t = {} THEN 0 ELSE G[Max(t)][g[t \ {Max(t)}]]
    BY <1>7 DEF FoldOf
  <2>3. \A t \in SUBSET (1..n) : g[t] = IF t = {} THEN 0
                                        ELSE g[t \ {Max(t)}] + (m[Max(t)][2] - m[Max(t)][1])
    BY <2>1, <2>2, <1>6
  <2>4. g = [t \in SUBSET (1..n) |-> g[t]]
    OBVIOUS
  <2> QED BY <2>3, <2>4, <1>2, <1>3
<1>9. Fold(it)
  BY <1>8 DEF it
<1>10. \A t \in SUBSET (1..n) : it[t] = IF t = {} THEN 0
                                        ELSE it[t \ {Max(t)}] + (m[Max(t)][2] - m[Max(t)][1])
  BY <1>9, <1>2, <1>3
<1> DEFINE Good(k) == IsFiniteSet(TicksTo(m, k)) /\ it[1..k] = Cardinality(TicksTo(m, k))
           K == {k \in Nat : k <= n => Good(k)}
<1>11. 0 \in K
  <2>1. 1..0 = {} /\ 1..0 \in SUBSET (1..n)
    OBVIOUS
  <2>2. it[1..0] = 0
    BY <2>1, <1>10
  <2>3. TicksTo(m, 0) = {}
    BY <2>1 DEF TicksTo
  <2>4. Good(0)
    BY <2>2, <2>3, FS_EmptySet
  <2> QED BY <2>4
<1>12. ASSUME NEW k \in Nat, k \in K PROVE k + 1 \in K
  <2> SUFFICES ASSUME k + 1 <= n PROVE Good(k + 1)
    OBVIOUS
  <2>1. Good(k) /\ k + 1 \in 1..n
    BY <1>12, <1>2
  <2>2. 1..(k + 1) \in SUBSET (1..n) /\ 1..(k + 1) # {} /\ k + 1 \in 1..(k + 1)
    <3>0. n \in Nat /\ k \in Nat /\ k + 1 <= n
      BY <1>2
    <3>1. 1..(k + 1) \subseteq 1..n
      BY ONLY <3>0
    <3>2. k + 1 \in 1..(k + 1)
      BY <2>1
    <3> QED BY <3>1, <3>2
  <2>3. Max(1..(k + 1)) \in 1..(k + 1) /\ \A i \in 1..(k + 1) : i <= Max(1..(k + 1))
    BY <1>2, <2>2, MaxIsOne
  <2>4. Max(1..(k + 1)) = k + 1 /\ (1..(k + 1)) \ {k + 1} = 1..k
    BY <2>2, <2>3
  <2> DEFINE w == m[k + 1]
             P == TicksTo(m, k)
  <2>5. it[1..(k + 1)] = it[1..k] + (w[2] - w[1])
    BY <1>10, <2>2, <2>4
  <2>6. TicksTo(m, k + 1) = P \cup TicksIn(w)
    <3>1. 1..(k + 1) = 1..k \cup {k + 1}
      OBVIOUS
    <3> QED BY <3>1 DEF TicksTo
  <2>7. P \cap TicksIn(w) = {}
    <3> SUFFICES ASSUME NEW x \in P, x \in TicksIn(w) PROVE FALSE
      OBVIOUS
    <3>1. PICK i \in 1..k : x \in TicksIn(m[i])
      BY DEF TicksTo
    <3>2. i \in 1..n /\ i < k + 1
      BY <1>2, <2>1
    <3>3. m[i][2] <= w[1] /\ m[i][1] \in Int /\ m[i][2] \in Int /\ w[1] \in Int /\ w[2] \in Int
      BY <1>2, <2>1, <3>2
    <3> QED BY <3>1, <3>3 DEF TicksIn
  <2>8. IsFiniteSet(TicksIn(w)) /\ Cardinality(TicksIn(w)) = w[2] - w[1]
    <3>1. w[1] \in Int /\ w[2] \in Int /\ w[1] <= w[2]
      BY <1>2, <2>1
    <3> HIDE DEF w
    <3>2. PICK a \in Int : a = w[1]
      BY <3>1
    <3>3. PICK b \in Int : b = w[2] - 1
      BY <3>1
    <3>4. IsFiniteSet(a..b) /\ Cardinality(a..b) = IF a > b THEN 0 ELSE b - a + 1
      BY FS_Interval
    <3>5. w[2] - w[1] = IF a > b THEN 0 ELSE b - a + 1
      BY ONLY <3>1, <3>2, <3>3
    <3> QED BY <3>2, <3>3, <3>4, <3>5 DEF TicksIn
  <2>9. IsFiniteSet(P) /\ it[1..k] = Cardinality(P)
    BY <2>1
  <2> HIDE DEF P, w
  <2>10. /\ IsFiniteSet(P \cup TicksIn(w))
         /\ Cardinality(P \cup TicksIn(w)) = Cardinality(P) + Cardinality(TicksIn(w)) - Cardinality(P \cap TicksIn(w))
    BY <2>8, <2>9, FS_Union
  <2>11. Cardinality(P \cap TicksIn(w)) = 0 /\ Cardinality(P) \in Nat /\ Cardinality(TicksIn(w)) \in Nat
    BY <2>7, <2>8, <2>9, FS_EmptySet, FS_CardinalityType
  <2>12. Cardinality(P \cup TicksIn(w)) = Cardinality(P) + (w[2] - w[1])
    BY ONLY <2>8, <2>10, <2>11
  <2> QED BY <2>5, <2>6, <2>9, <2>10, <2>12
<1> HIDE DEF K
<1>13. Nat \subseteq K
  BY <1>11, <1>12, SetInduction
<1>14. Good(n)
  BY <1>13, <1>2 DEF K
<1> QED BY <1>1, <1>2, <1>14 DEF TicksAll, n

(* A table over 1..m is a sequence.                                        *)
LEMMA TableIsSeq ==
  ASSUME NEW S, NEW m \in Nat, NEW f \in [1..m -> S]
  PROVE  f \in Seq(S)
  OBVIOUS

(* The part of a window inside [lo, hi).                                   *)
LEMMA ClippedWindow ==
  ASSUME NEW w \in Window, w[1] <= w[2], NEW lo \in Int, NEW hi \in Int
  PROVE  LET c == Win!ClipWindow(w, lo, hi)
         IN  /\ c \in Window /\ w[1] <= c[1] /\ c[2] <= w[2]
             /\ TicksIn(c) = TicksIn(w) \cap (lo..(hi - 1))
<1> DEFINE c == Win!ClipWindow(w, lo, hi)
<1>1. w[1] \in Int /\ w[2] \in Int
  BY DEF Window
<1>2. c = <<IF w[1] > lo THEN w[1] ELSE lo, IF w[2] < hi THEN w[2] ELSE hi>>
  BY DEF Win!ClipWindow, Win!Begin, Win!End
<1>3. /\ c \in Window /\ c[1] = (IF w[1] > lo THEN w[1] ELSE lo)
      /\ c[2] = (IF w[2] < hi THEN w[2] ELSE hi) /\ c[1] \in Int /\ c[2] \in Int
  BY <1>1, <1>2 DEF Window
<1> HIDE DEF c
<1>4. w[1] <= c[1] /\ c[2] <= w[2]
  BY <1>1, <1>3
<1>5. c[1]..(c[2] - 1) = (w[1]..(w[2] - 1)) \cap (lo..(hi - 1))
  BY <1>1, <1>3
<1> QED BY <1>3, <1>4, <1>5 DEF c, TicksIn

(* One window more, not before the end of the others.                      *)
LEMMA ApartAppend ==
  ASSUME NEW m, Apart(m), NEW w \in Window, w[1] <= w[2],
         \A i \in 1..Len(m) : m[i][2] <= w[1]
  PROVE  Apart(m \o <<w>>) /\ TicksAll(m \o <<w>>) = TicksAll(m) \cup TicksIn(w)
<1> DEFINE n == Len(m)
           a == m \o <<w>>
<1>1. m \in Seq(Window) /\ n \in Nat
  BY DEF Apart
<1>2. /\ a \in Seq(Window) /\ Len(a) = n + 1 /\ a[n + 1] = w
      /\ \A i \in 1..n : a[i] = m[i]
  BY <1>1
<1>3. \A i \in 1..(n + 1) : i = n + 1 \/ i \in 1..n
  BY <1>1
<1> HIDE DEF a
<1>4. \A i \in 1..(n + 1) : a[i][1] <= a[i][2]
  BY <1>2, <1>3 DEF Apart
<1>5. ASSUME NEW i \in 1..(n + 1), NEW j \in 1..(n + 1), i < j PROVE a[i][2] <= a[j][1]
  <2>1. i \in 1..n
    BY <1>1, <1>5
  <2>2. CASE j \in 1..n
    BY <1>2, <1>5, <2>1, <2>2 DEF Apart
  <2>3. CASE j = n + 1
    BY <1>2, <2>1, <2>3
  <2> QED BY <1>3, <2>2, <2>3
<1>6. Apart(a)
  BY <1>2, <1>4, <1>5 DEF Apart
<1>7. TicksAll(a) = TicksAll(m) \cup TicksIn(w)
  <2>1. 1..(n + 1) = 1..n \cup {n + 1}
    BY <1>1
  <2>2. TicksTo(a, n + 1) = TicksTo(a, n) \cup TicksIn(a[n + 1])
    BY <2>1 DEF TicksTo
  <2>3. TicksTo(a, n) = TicksTo(m, n)
    BY <1>2 DEF TicksTo
  <2> QED BY <1>2, <2>2, <2>3 DEF TicksAll
<1> QED BY <1>6, <1>7 DEF a

(* _clip keeps the ticks inside [lo, hi).                                  *)
LEMMA ClippedWindows ==
  ASSUME NEW m, Apart(m), NEW lo \in Int, NEW hi \in Int
  PROVE  /\ Apart(Win!Clip(m, lo, hi))
         /\ TicksAll(Win!Clip(m, lo, hi)) = TicksAll(m) \cap (lo..(hi - 1))
<1> DEFINE n == Len(m)
           c(i) == Win!ClipWindow(m[i], lo, hi)
           piece(i) == IF c(i)[2] > c(i)[1] THEN <<c(i)>> ELSE <<>>
           pieces(k) == [i \in 1..k |-> piece(i)]
           part(k) == FlattenSeq(pieces(k))
           inside == lo..(hi - 1)
<1>1. /\ n \in Nat /\ DOMAIN m = 1..n
      /\ \A i \in 1..n : m[i] \in Window /\ m[i][1] \in Int /\ m[i][2] \in Int /\ m[i][1] <= m[i][2]
      /\ \A i, j \in 1..n : i < j => m[i][2] <= m[j][1]
  BY DEF Apart, Window
<1>2. Win!Clip(m, lo, hi) = part(n)
  <2>1. Win!Clip(m, lo, hi) = Win!FlattenSeq(pieces(n))
    BY <1>1 DEF Win!Clip, Win!Begin, Win!End
  <2>2. \A s : Win!FlattenSeq(s) = FlattenSeq(s)
    BY DEF Win!FlattenSeq, FlattenSeq
  <2> HIDE DEF pieces
  <2> QED BY <2>1, <2>2
<1>3. ASSUME NEW i \in 1..n
      PROVE  /\ c(i) \in Window /\ m[i][1] <= c(i)[1] /\ c(i)[2] <= m[i][2]
             /\ TicksIn(c(i)) = TicksIn(m[i]) \cap inside
  <2>1. m[i] \in Window /\ m[i][1] <= m[i][2]
    BY <1>1
  <2> QED BY <2>1, ClippedWindow
<1> HIDE DEF c, n
<1>4. \A i \in 1..n : piece(i) \in Seq(Window)
  <2> SUFFICES ASSUME NEW i \in 1..n PROVE piece(i) \in Seq(Window)
    OBVIOUS
  <2>1. <<c(i)>> \in Seq(Window) /\ <<>> \in Seq(Window)
    BY <1>3
  <2> QED BY <2>1
<1> HIDE DEF piece
<1> DEFINE Good(k) == /\ Apart(part(k)) /\ TicksAll(part(k)) = TicksTo(m, k) \cap inside
                      /\ \A i \in 1..Len(part(k)) : k # 0 /\ part(k)[i][2] <= m[k][2]
           K == {k \in Nat : k <= n => Good(k)}
<1>5. 0 \in K
  <2>1. 1..0 = {}
    OBVIOUS
  <2>2. part(0) = <<>>
    <3>1. pieces(0) = <<>>
      BY <2>1
    <3> QED BY <3>1 DEF FlattenSeq
  <2>3. Len(<<>>) = 0 /\ <<>> \in Seq(Window)
    OBVIOUS
  <2>4. Apart(<<>>) /\ TicksAll(<<>>) = {} /\ TicksTo(m, 0) = {}
    BY <2>1, <2>3 DEF Apart, TicksAll, TicksTo
  <2> HIDE DEF part
  <2>5. Good(0)
    BY <2>1, <2>2, <2>3, <2>4
  <2> QED BY <2>5
<1>6. ASSUME NEW k \in Nat, k \in K PROVE k + 1 \in K
  <2> SUFFICES ASSUME k + 1 <= n PROVE Good(k + 1)
    OBVIOUS
  <2>1. Good(k) /\ k + 1 \in 1..n
    BY <1>1, <1>6
  <2> DEFINE p == part(k)
             j == k + 1
             w == c(j)
  <2>2. part(j) = p \o piece(j)
    <3>1. pieces(k) \in Seq(Seq(Window)) /\ piece(j) \in Seq(Window)
      <4>0. n \in Nat /\ k + 1 <= n
        BY <1>1
      <4>1. \A i \in 1..k : i \in 1..n
        BY ONLY <4>0, k \in Nat
      <4>2. pieces(k) \in [1..k -> Seq(Window)]
        BY <1>4, <4>1
      <4>3. pieces(k) \in Seq(Seq(Window))
        <5> HIDE DEF pieces
        <5> QED BY <4>2, TableIsSeq
      <4>4. piece(j) \in Seq(Window)
        <5> HIDE DEF j
        <5>1. j \in 1..n
          BY <2>1 DEF j
        <5> QED BY <1>4, <5>1
      <4> QED BY <4>3, <4>4
    <3>2. pieces(j) = Append(pieces(k), piece(j))
      <4>1. Len(pieces(k)) = k
        OBVIOUS
      <4> QED BY <3>1, <4>1
    <3> HIDE DEF pieces, j
    <3> QED BY <3>1, <3>2, FlattenAppend
  <2>3. /\ Apart(p) /\ TicksAll(p) = TicksTo(m, k) \cap inside
        /\ \A i \in 1..Len(p) : k # 0 /\ p[i][2] <= m[k][2]
    BY <2>1
  <2>4. /\ w \in Window /\ m[j][1] <= w[1] /\ w[2] <= m[j][2] /\ TicksIn(w) = TicksIn(m[j]) \cap inside
        /\ w[1] \in Int /\ w[2] \in Int /\ m[j][1] \in Int /\ m[j][2] \in Int /\ m[j][1] <= m[j][2]
    BY <1>1, <1>3, <2>1 DEF Window
  <2>5. TicksTo(m, j) = TicksTo(m, k) \cup TicksIn(m[j])
    <3>1. 1..(k + 1) = 1..k \cup {k + 1}
      OBVIOUS
    <3> QED BY <3>1 DEF TicksTo
  <2>6. p \in Seq(Window) /\ Len(p) \in Nat /\ \A i \in 1..Len(p) : p[i][2] \in Int
    <3>1. p \in Seq(Window)
      BY <2>3 DEF Apart
    <3> HIDE DEF p
    <3>2. \A i \in 1..Len(p) : p[i] \in Window
      BY <3>1
    <3> QED BY <3>1, <3>2 DEF Window
  <2>7. \A i \in 1..Len(p) : p[i][2] <= w[1] /\ p[i][2] <= m[j][2]
    <3> SUFFICES ASSUME NEW i \in 1..Len(p) PROVE p[i][2] <= w[1] /\ p[i][2] <= m[j][2]
      OBVIOUS
    <3>1. k # 0 /\ p[i][2] <= m[k][2] /\ p[i][2] \in Int
      BY <2>3, <2>6
    <3>2. k \in 1..n /\ k < j /\ j \in 1..n
      <4>1. n \in Nat /\ k + 1 <= n /\ k \in Nat
        BY <1>1
      <4> QED BY ONLY <3>1, <4>1
    <3>3. m[k][2] <= m[j][1] /\ m[k][2] \in Int
      BY <1>1, <3>2
    <3> QED BY ONLY <2>4, <3>1, <3>3
  <2> HIDE DEF p, w, Good, part
  <2>8. CASE w[2] > w[1]
    <3>1. piece(j) = <<w>>
      BY <2>8 DEF piece, w
    <3>2. w[1] <= w[2]
      BY ONLY <2>4, <2>8
    <3>3. Apart(p \o <<w>>) /\ TicksAll(p \o <<w>>) = TicksAll(p) \cup TicksIn(w)
      BY <2>3, <2>4, <2>7, <3>2, ApartAppend
    <3>4. \A i \in 1..Len(p \o <<w>>) : (p \o <<w>>)[i][2] <= m[j][2]
      <4>1. Len(p \o <<w>>) = Len(p) + 1 /\ (p \o <<w>>)[Len(p) + 1] = w
            /\ \A i \in 1..Len(p) : (p \o <<w>>)[i] = p[i]
        BY <2>4, <2>6
      <4>2. \A i \in 1..(Len(p) + 1) : i = Len(p) + 1 \/ i \in 1..Len(p)
        BY <2>6
      <4> QED BY <2>4, <2>7, <4>1, <4>2
    <3>5. part(j) = p \o <<w>>
      BY <2>2, <3>1
    <3>6. TicksAll(p \o <<w>>) = TicksTo(m, j) \cap inside
      <4>1. TicksAll(p \o <<w>>) = (TicksTo(m, k) \cap inside) \cup (TicksIn(m[j]) \cap inside)
        BY <2>3, <2>4, <3>3
      <4> HIDE DEF inside, j
      <4> QED BY <2>5, <4>1
    <3>7. j # 0
      BY DEF j
    <3> HIDE DEF j, inside
    <3>8. Good(j)
      BY <3>3, <3>4, <3>5, <3>6, <3>7 DEF Good
    <3> QED BY <3>8 DEF j
  <2>9. CASE ~(w[2] > w[1])
    <3>1. piece(j) = <<>>
      BY <2>9 DEF piece, w
    <3>2. TicksIn(w) = {}
      BY <2>4, <2>9 DEF TicksIn
    <3>3. part(j) = p
      BY <2>2, <2>6, <3>1, ConcatEmptySeq
    <3> QED BY <2>3, <2>4, <2>5, <2>7, <3>2, <3>3 DEF Good
  <2> QED BY <2>8, <2>9
<1> HIDE DEF K, part
<1>7. Nat \subseteq K
  BY <1>5, <1>6, SetInduction
<1>8. Good(n)
  BY <1>1, <1>7 DEF K
<1> QED BY <1>2, <1>8 DEF TicksAll, n

(* The windows of u that start by `end', those of them over by `start',    *)
(* and the rest of them clipped to [start, end).                           *)
UpTo(u, end) == Cardinality({i \in 1..Len(u) : u[i][1] <= end})
Past(u, start, end) == Cardinality({i \in 1..UpTo(u, end) : u[i][2] <= start})
Middle(u, start, end) ==
    [i \in 1..(UpTo(u, end) - Past(u, start, end)) |->
        Win!ClipWindow(u[Past(u, start, end) + i], start, end)]

(* Clipped to [start, end), the windows from the first that ends after     *)
(* `start' to the last that starts by `end' have all the ticks inside.     *)
LEMMA MiddleWindows ==
  ASSUME NEW u, Apart(u), NEW start \in Int, NEW end \in Int, start < end
  PROVE  /\ Apart(Middle(u, start, end))
         /\ TicksAll(Middle(u, start, end)) = TicksAll(u) \cap (start..(end - 1))
<1> DEFINE n == Len(u)
           upto == UpTo(u, end)
           passed == Past(u, start, end)
           m == Middle(u, start, end)
           inside == start..(end - 1)
           A == {i \in 1..n : u[i][1] <= end}
           B == {i \in 1..upto : u[i][2] <= start}
<1>1. /\ n \in Nat
      /\ \A i \in 1..n : u[i] \in Window /\ u[i][1] \in Int /\ u[i][2] \in Int /\ u[i][1] <= u[i][2]
      /\ \A i, j \in 1..n : i < j => u[i][2] <= u[j][1]
  BY DEF Apart, Window
<1>0. /\ upto = Cardinality(A) /\ passed = Cardinality(B)
      /\ m = [i \in 1..(upto - passed) |-> Win!ClipWindow(u[passed + i], start, end)]
  BY DEF UpTo, Past, Middle
<1> HIDE DEF n, upto, passed, m
<1>2. upto \in 0..n /\ A = 1..upto
  <2>1. \A i \in A : \A j \in 1..n : j < i => j \in A
    <3> SUFFICES ASSUME NEW i \in A, NEW j \in 1..n, j < i PROVE u[j][1] <= end
      OBVIOUS
    <3>1. i \in 1..n /\ u[i][1] <= end
      OBVIOUS
    <3>2. u[j][2] <= u[i][1] /\ u[j][1] <= u[j][2] /\ u[j][1] \in Int /\ u[j][2] \in Int /\ u[i][1] \in Int
      BY <1>1, <3>1
    <3> QED BY ONLY <3>1, <3>2, end \in Int
  <2>2. upto = Cardinality(A)
    BY <1>0
  <2>3. A \subseteq 1..n
    OBVIOUS
  <2> HIDE DEF A
  <2> QED BY <1>1, <2>1, <2>2, <2>3, DownwardClosed
<1>3. \A i \in 1..upto : i \in 1..n
  BY <1>1, <1>2
<1>4. passed \in 0..upto /\ B = 1..passed
  <2>0. upto \in Nat
    BY <1>1, <1>2
  <2>1. \A i \in B : \A j \in 1..upto : j < i => j \in B
    <3> SUFFICES ASSUME NEW i \in B, NEW j \in 1..upto, j < i PROVE u[j][2] <= start
      OBVIOUS
    <3>1. i \in 1..n /\ u[i][2] <= start /\ j \in 1..n
      BY <1>3
    <3>2. u[j][2] <= u[i][1] /\ u[i][1] <= u[i][2] /\ u[j][2] \in Int /\ u[i][1] \in Int /\ u[i][2] \in Int
      BY <1>1, <3>1
    <3> QED BY ONLY <3>1, <3>2, start \in Int
  <2>2. B \subseteq 1..upto /\ passed = Cardinality(B)
    BY <1>0
  <2> HIDE DEF B
  <2> QED BY ONLY <2>0, <2>1, <2>2, DownwardClosed
<1> DEFINE q == upto - passed
<1>5. upto \in Nat /\ passed \in Nat /\ q \in Nat
  BY <1>1, <1>2, <1>4
<1>6. \A i \in 1..q : passed + i \in 1..n /\ passed + i \in 1..upto /\ ~(passed + i \in 1..passed)
  <2> SUFFICES ASSUME NEW i \in 1..q
               PROVE passed + i \in 1..n /\ passed + i \in 1..upto /\ ~(passed + i \in 1..passed)
    OBVIOUS
  <2>1. passed + i \in 1..upto /\ ~(passed + i \in 1..passed)
    BY <1>5
  <2> QED BY <1>3, <2>1
<1>7. ASSUME NEW i \in 1..q
      PROVE  /\ m[i] \in Window /\ m[i][1] \in Int /\ m[i][2] \in Int
             /\ m[i][1] <= m[i][2]
             /\ u[passed + i][1] <= m[i][1] /\ m[i][2] <= u[passed + i][2]
             /\ TicksIn(m[i]) = TicksIn(u[passed + i]) \cap inside
  <2> DEFINE j == passed + i
             w == u[j]
  <2>1. m[i] = Win!ClipWindow(w, start, end)
    BY <1>0
  <2>2. j \in 1..n /\ j \in 1..upto /\ ~(j \in 1..passed)
    BY <1>6
  <2> HIDE DEF j
  <2>3. w \in Window /\ w[1] \in Int /\ w[2] \in Int /\ w[1] <= w[2]
    BY <1>1, <2>2
  <2>4. w[1] <= end /\ start < w[2]
    <3>1. j \in A /\ j \notin B
      BY <1>2, <1>4, <2>2
    <3> QED BY <2>2, <2>3, <3>1
  <2> HIDE DEF w
  <2>5. /\ m[i] \in Window /\ w[1] <= m[i][1] /\ m[i][2] <= w[2]
        /\ TicksIn(m[i]) = TicksIn(w) \cap inside
    BY <2>1, <2>3, ClippedWindow
  <2>6. /\ m[i][1] = (IF w[1] > start THEN w[1] ELSE start)
        /\ m[i][2] = (IF w[2] < end THEN w[2] ELSE end)
    BY <2>1 DEF Win!ClipWindow, Win!Begin, Win!End
  <2>7. m[i][1] <= m[i][2] /\ m[i][1] \in Int /\ m[i][2] \in Int
    BY ONLY <2>3, <2>4, <2>6, start \in Int, end \in Int, start < end
  <2> QED BY <2>5, <2>7 DEF w, j
<1>8. m \in Seq(Window) /\ Len(m) = q
  <2>1. DOMAIN m = 1..q /\ m = [i \in 1..q |-> m[i]]
    BY <1>0
  <2>2. m \in [1..q -> Window]
    BY <1>7, <2>1
  <2>3. m \in Seq(Window)
    BY ONLY <1>5, <2>2, TableIsSeq
  <2> QED BY <1>5, <2>1, <2>3, LenProperties
<1> HIDE DEF q, inside, A, B
<1>9. ASSUME NEW i \in 1..q, NEW j \in 1..q, i < j PROVE m[i][2] <= m[j][1]
  <2>1. passed + i \in 1..n /\ passed + j \in 1..n /\ passed + i < passed + j
    <3>1. passed + i \in 1..n /\ passed + j \in 1..n
      BY <1>6
    <3>2. i \in Int /\ j \in Int /\ passed \in Int /\ i < j
      BY <1>5, <1>9 DEF q
    <3>3. passed + i < passed + j
      BY ONLY <3>2
    <3> QED BY <3>1, <3>3
  <2>2. u[passed + i][2] <= u[passed + j][1] /\ u[passed + i][2] \in Int /\ u[passed + j][1] \in Int
    BY <1>1, <2>1
  <2>3. m[i][2] <= u[passed + i][2] /\ u[passed + j][1] <= m[j][1] /\ m[i][2] \in Int /\ m[j][1] \in Int
    BY <1>7
  <2> QED BY ONLY <2>2, <2>3
<1>10. Apart(m)
  <2>1. \A i \in 1..q : m[i][1] <= m[i][2]
    BY <1>7
  <2>2. \A i, j \in 1..q : i < j => m[i][2] <= m[j][1]
    BY <1>9
  <2> QED BY ONLY <1>8, <2>1, <2>2 DEF Apart
<1>11. ASSUME NEW x \in TicksAll(m) PROVE x \in TicksAll(u) \cap inside
  <2>1. PICK i \in 1..q : x \in TicksIn(m[i])
    BY <1>8 DEF TicksAll, TicksTo
  <2>2. passed + i \in 1..n /\ x \in TicksIn(u[passed + i]) /\ x \in inside
    BY <1>6, <1>7, <2>1
  <2> QED BY <2>2 DEF TicksAll, TicksTo, n
<1>12. ASSUME NEW x \in TicksAll(u) \cap inside PROVE x \in TicksAll(m)
  <2>1. PICK j \in 1..n : x \in TicksIn(u[j])
    BY DEF TicksAll, TicksTo, n
  <2>2. u[j][1] \in Int /\ u[j][2] \in Int
    BY <1>1
  <2>3. x \in Int /\ u[j][1] <= x /\ x < u[j][2] /\ start <= x /\ x < end
    BY <2>1, <2>2 DEF TicksIn, inside
  <2>4. u[j][1] <= end /\ ~(u[j][2] <= start)
    BY ONLY <2>2, <2>3, start \in Int, end \in Int
  <2>5. j \in 1..upto
    BY <1>2, <2>4 DEF A
  <2>6. ~(j \in 1..passed)
    BY <1>4, <2>4 DEF B
  <2>7. PICK i \in 1..q : passed + i = j
    <3>1. j - passed \in 1..q /\ passed + (j - passed) = j
      BY <1>5, <2>5, <2>6 DEF q
    <3> QED BY <3>1
  <2>8. x \in TicksIn(m[i])
    BY <1>7, <2>1, <2>7
  <2> QED BY <1>8, <2>8 DEF TicksAll, TicksTo
<1> QED BY <1>10, <1>11, <1>12 DEF inside, m

-----------------------------------------------------------------------------
(* The sum of the first k integers of a function on 1..n.                  *)
SumTo(F, k) == SumOver(F, 1..k)

(* It grows by one integer at a time.                                      *)
LEMMA SumToSteps ==
    ASSUME NEW F, NEW n \in Nat, \A i \in 1..n : F[i] \in Int
    PROVE  /\ SumTo(F, 0) = 0
           /\ \A k \in 1..n : SumTo(F, k) = SumTo(F, k - 1) + F[k]
           /\ \A k \in 0..n : SumTo(F, k) \in Int
<1>1. SumTo(F, 0) = 0
  <2>1. 1..0 = {}
    OBVIOUS
  <2> QED BY <2>1, SumOfNothing DEF SumTo
<1>2. ASSUME NEW k \in 0..n PROVE IsFiniteSet(1..k) /\ \A i \in 1..k : F[i] \in Int
  BY FS_Interval
<1>3. ASSUME NEW k \in 1..n PROVE SumTo(F, k) = SumTo(F, k - 1) + F[k]
  <2>1. k \in 1..k /\ (1..k) \ {k} = 1..(k - 1) /\ k \in 0..n /\ k - 1 \in 0..n
    OBVIOUS
  <2>2. SumOver(F, 1..k) = F[k] + SumOver(F, 1..(k - 1))
    BY <1>2, <2>1, SumRemove
  <2>3. SumOver(F, 1..(k - 1)) \in Int /\ F[k] \in Int
    BY <1>2, <2>1, SumType
  <2> QED BY <2>2, <2>3 DEF SumTo
<1>4. ASSUME NEW k \in 0..n PROVE SumTo(F, k) \in Int
  BY <1>2, SumType DEF SumTo
<1> QED BY <1>1, <1>3, <1>4

(* A piece of a sum is bounded by what bounds each of its integers.        *)
LEMMA PieceBounds ==
    ASSUME NEW F, NEW n \in Nat, \A i \in 1..n : F[i] \in Int, NEW a \in 1..(n + 1), NEW b \in (a - 1)..n,
           NEW T, \A i \in a..(b + 1) : T[i] \in Int
    PROVE  /\ (\A i \in a..b : F[i] <= T[i + 1] - T[i]) => SumTo(F, b) - SumTo(F, a - 1) <= T[b + 1] - T[a]
           /\ (\A i \in a..b : F[i] >= T[i + 1] - T[i]) => SumTo(F, b) - SumTo(F, a - 1) >= T[b + 1] - T[a]
<1> DEFINE Good(k) ==
             /\ (\A i \in a..b : F[i] <= T[i + 1] - T[i]) => SumTo(F, a - 1 + k) - SumTo(F, a - 1) <= T[a + k] - T[a]
             /\ (\A i \in a..b : F[i] >= T[i + 1] - T[i]) => SumTo(F, a - 1 + k) - SumTo(F, a - 1) >= T[a + k] - T[a]
           K == {k \in Nat : a - 1 + k <= b => Good(k)}
<1>0. /\ a \in Nat /\ b \in Nat /\ 1 <= a /\ a - 1 <= b /\ b <= n
      /\ \A k \in 1..n : SumTo(F, k) = SumTo(F, k - 1) + F[k]
      /\ \A k \in 0..n : SumTo(F, k) \in Int
  <2>1. a \in Nat /\ b \in Nat /\ 1 <= a /\ a - 1 <= b /\ b <= n
    OBVIOUS
  <2> QED BY <2>1, SumToSteps
<1>1. 0 \in K
  <2>1. a - 1 + 0 = a - 1 /\ a + 0 = a /\ a - 1 \in 0..n /\ a \in a..(b + 1)
    BY <1>0
  <2>2. SumTo(F, a - 1) \in Int /\ T[a] \in Int
    BY <1>0, <2>1
  <2>3. SumTo(F, a - 1) - SumTo(F, a - 1) = 0 /\ T[a] - T[a] = 0
    BY <2>2
  <2> QED BY <2>1, <2>3
<1>2. ASSUME NEW k \in Nat, k \in K PROVE k + 1 \in K
  <2> SUFFICES ASSUME a - 1 + (k + 1) <= b PROVE Good(k + 1)
    OBVIOUS
  <2>1. Good(k)
    BY <1>0, <1>2
  <2>2. PICK p \in Int : p = a + k
    BY <1>0
  <2>3. /\ p \in 1..n /\ p \in a..b /\ p - 1 \in 0..n /\ p \in a..(b + 1) /\ p + 1 \in a..(b + 1) /\ a \in a..(b + 1)
        /\ a - 1 + (k + 1) = p /\ a + (k + 1) = p + 1 /\ a - 1 + k = p - 1 /\ a - 1 \in 0..n
    BY <1>0, <2>2
  <2>4. SumTo(F, p) = SumTo(F, p - 1) + F[p]
    BY <1>0, <2>3
  <2>5. PICK u \in Int, v \in Int, f \in Int, x \in Int, y \in Int, z \in Int :
          /\ u = SumTo(F, p - 1) /\ v = SumTo(F, a - 1) /\ f = F[p]
          /\ x = T[a] /\ y = T[p] /\ z = T[p + 1]
    BY <1>0, <2>3
  <2>6. SumTo(F, p) = u + f
    BY <2>4, <2>5
  <2>7. ASSUME \A i \in a..b : F[i] <= T[i + 1] - T[i]
        PROVE  (u + f) - v <= z - x
    <3>1. u - v <= y - x
      BY <2>1, <2>2, <2>3, <2>5, <2>7
    <3>2. f <= z - y
      BY <2>3, <2>5, <2>7
    <3> QED BY ONLY <3>1, <3>2, u \in Int, v \in Int, f \in Int, x \in Int, y \in Int, z \in Int
  <2>8. ASSUME \A i \in a..b : F[i] >= T[i + 1] - T[i]
        PROVE  (u + f) - v >= z - x
    <3>1. u - v >= y - x
      BY <2>1, <2>2, <2>3, <2>5, <2>8
    <3>2. f >= z - y
      BY <2>3, <2>5, <2>8
    <3> QED BY ONLY <3>1, <3>2, u \in Int, v \in Int, f \in Int, x \in Int, y \in Int, z \in Int
  <2> QED BY <2>3, <2>5, <2>6, <2>7, <2>8
<1> HIDE DEF K
<1>3. Nat \subseteq K
  BY <1>1, <1>2, SetInduction
<1>4. PICK k \in Nat : k = b - (a - 1)
  BY <1>0
<1>5. a - 1 + k = b /\ a + k = b + 1 /\ a - 1 + k <= b
  BY <1>0, <1>4
<1>6. Good(k)
  BY <1>3, <1>5 DEF K
<1> QED BY <1>5, <1>6

(* Two functions that agree from a to b.                                   *)
Coincide(F, G, a, b, n) ==
    /\ n \in Nat /\ a \in 1..n /\ b \in a..n
    /\ \A i \in 1..n : F[i] \in Int /\ G[i] \in Int
    /\ \A i \in a..b : F[i] = G[i]

(* They have the same sum there.                                           *)
LEMMA PieceAgrees ==
    ASSUME NEW F, NEW G, NEW a, NEW b, NEW n, Coincide(F, G, a, b, n)
    PROVE  SumTo(F, b) - SumTo(F, a - 1) = SumTo(G, b) - SumTo(G, a - 1)
<1>1. /\ n \in Nat /\ a \in 1..n /\ b \in a..n
      /\ \A i \in 1..n : F[i] \in Int /\ G[i] \in Int
      /\ \A i \in a..b : F[i] = G[i]
  BY DEF Coincide
<1>0. /\ n \in Nat /\ a \in Nat /\ b \in Nat /\ 1 <= a /\ a <= b /\ b <= n
      /\ a - 1 \in 0..n /\ b \in 0..n /\ a \in 1..(n + 1) /\ b \in (a - 1)..n
  BY <1>1
<1> DEFINE T == [j \in a..(b + 1) |-> SumTo(G, j - 1)]
<1>2. /\ \A j \in 1..n : SumTo(G, j) = SumTo(G, j - 1) + G[j]
      /\ \A j \in 0..n : SumTo(G, j) \in Int /\ SumTo(F, j) \in Int
  <2>1. /\ \A j \in 1..n : SumTo(G, j) = SumTo(G, j - 1) + G[j]
        /\ \A j \in 0..n : SumTo(G, j) \in Int
    BY <1>1, SumToSteps
  <2>2. \A j \in 0..n : SumTo(F, j) \in Int
    BY <1>1, SumToSteps
  <2> QED BY <2>1, <2>2
<1>3. \A j \in a..(b + 1) : T[j] = SumTo(G, j - 1) /\ j - 1 \in 0..n /\ T[j] \in Int
  BY <1>0, <1>2
<1> HIDE DEF T
<1>4. ASSUME NEW j \in a..b PROVE F[j] <= T[j + 1] - T[j] /\ F[j] >= T[j + 1] - T[j]
  <2>1. j \in 1..n /\ j \in a..(b + 1) /\ j + 1 \in a..(b + 1) /\ (j + 1) - 1 = j /\ j - 1 \in 0..n /\ j \in 0..n
    BY <1>0
  <2>2. T[j + 1] = SumTo(G, j) /\ T[j] = SumTo(G, j - 1) /\ SumTo(G, j - 1) \in Int
    BY <1>2, <1>3, <2>1
  <2>3. T[j + 1] = T[j] + F[j] /\ F[j] \in Int /\ T[j] \in Int
    BY <1>1, <1>2, <2>1, <2>2
  <2> QED BY <2>3
<1>5. /\ SumTo(F, b) - SumTo(F, a - 1) <= T[b + 1] - T[a]
      /\ SumTo(F, b) - SumTo(F, a - 1) >= T[b + 1] - T[a]
  BY <1>0, <1>1, <1>3, <1>4, PieceBounds
<1>6. T[b + 1] = SumTo(G, b) /\ T[a] = SumTo(G, a - 1)
  <2>1. b + 1 \in a..(b + 1) /\ a \in a..(b + 1) /\ (b + 1) - 1 = b
    BY <1>0
  <2> QED BY <1>3, <2>1
<1>7. SumTo(F, b) \in Int /\ SumTo(F, a - 1) \in Int /\ SumTo(G, b) \in Int /\ SumTo(G, a - 1) \in Int
  BY <1>0, <1>2
<1> QED BY <1>5, <1>6, <1>7

(* The sum of a copy of a piece.                                           *)
LEMMA SumOfPiece ==
    ASSUME NEW F, NEW n \in Nat, \A i \in 1..n : F[i] \in Int, NEW a \in 1..(n + 1), NEW b \in (a - 1)..n,
           NEW C, DOMAIN C = 1..(b - a + 1), \A i \in 1..(b - a + 1) : C[i] = F[a + i - 1]
    PROVE  SumOver(C, DOMAIN C) = SumTo(F, b) - SumTo(F, a - 1)
<1>1. PICK m \in Nat : m = b - a + 1
  OBVIOUS
<1>2. \A i \in 1..m : C[i] \in Int /\ a + i - 1 \in 1..n /\ C[i] = F[a + i - 1]
  BY <1>1
<1>3. /\ \A k \in 1..m : SumTo(C, k) = SumTo(C, k - 1) + C[k]
      /\ \A k \in 0..m : SumTo(C, k) \in Int
      /\ SumTo(C, 0) = 0
  BY <1>2, SumToSteps
<1> DEFINE T == [i \in a..(b + 1) |-> SumTo(C, i - a)]
<1>4. \A i \in a..(b + 1) : T[i] \in Int
  <2>1. \A i \in a..(b + 1) : i - a \in 0..m
    BY <1>1
  <2> QED BY <1>3, <2>1
<1>5. ASSUME NEW i \in a..b PROVE F[i] = T[i + 1] - T[i]
  <2>1. PICK k \in 1..m : k = i - a + 1
    BY <1>1
  <2>2. i \in a..(b + 1) /\ i + 1 \in a..(b + 1) /\ (i + 1) - a = k /\ i - a = k - 1 /\ a + k - 1 = i
    BY <2>1
  <2>3. T[i + 1] = SumTo(C, k) /\ T[i] = SumTo(C, k - 1) /\ F[i] = C[k]
    BY <1>2, <2>2
  <2>4. SumTo(C, k - 1) \in Int /\ C[k] \in Int /\ SumTo(C, k) = SumTo(C, k - 1) + C[k]
    <3>1. k - 1 \in 0..m
      BY <2>1
    <3> QED BY <1>2, <1>3, <3>1
  <2> HIDE DEF T
  <2> QED BY <2>3, <2>4
<1>6. T[b + 1] = SumTo(C, m) /\ T[a] = 0
  <2>1. b + 1 \in a..(b + 1) /\ a \in a..(b + 1) /\ (b + 1) - a = m /\ a - a = 0
    BY <1>1
  <2> QED BY <1>3, <2>1
<1> HIDE DEF T
<1>7. \A i \in a..b : F[i] <= T[i + 1] - T[i] /\ F[i] >= T[i + 1] - T[i]
  <2>1. \A i \in a..b : F[i] \in Int
    OBVIOUS
  <2> QED BY <1>5, <2>1
<1>8. /\ SumTo(F, b) - SumTo(F, a - 1) <= T[b + 1] - T[a]
      /\ SumTo(F, b) - SumTo(F, a - 1) >= T[b + 1] - T[a]
  BY <1>4, <1>7, PieceBounds
<1>9. SumTo(F, b) \in Int /\ SumTo(F, a - 1) \in Int /\ SumTo(C, m) \in Int
  <2>1. b \in 0..n /\ a - 1 \in 0..n /\ m \in 0..m
    OBVIOUS
  <2> QED BY <1>3, <2>1, SumToSteps
<1>10. SumOver(C, DOMAIN C) = SumTo(C, m)
  BY <1>1 DEF SumTo
<1> QED BY <1>6, <1>8, <1>9, <1>10

(* One integer more in a sequence.                                         *)
LEMMA SumAppend ==
    ASSUME NEW m \in Nat, NEW C, NEW D, DOMAIN C = 1..m, DOMAIN D = 1..(m + 1),
           \A i \in 1..(m + 1) : D[i] \in Int, \A i \in 1..m : D[i] = C[i]
    PROVE  SumOver(D, DOMAIN D) = SumOver(C, DOMAIN C) + D[m + 1]
<1>1. m + 1 \in 1..(m + 1) /\ (1..(m + 1)) \ {m + 1} = 1..m /\ 1..m \subseteq 1..(m + 1)
  OBVIOUS
<1>2. IsFiniteSet(1..(m + 1)) /\ IsFiniteSet(1..m)
  BY FS_Interval
<1>3. SumOver(D, 1..(m + 1)) = D[m + 1] + SumOver(D, 1..m)
  BY <1>1, <1>2, SumRemove
<1>4. SumOver(D, 1..m) = SumOver(C, 1..m)
  BY <1>2, SumAgrees
<1>5. SumOver(D, 1..m) \in Int /\ D[m + 1] \in Int
  BY <1>1, <1>2, SumType
<1> QED BY <1>3, <1>4, <1>5

-----------------------------------------------------------------------------
(* A sum is that of a part and of the rest.                                *)
LEMMA SumParts ==
    ASSUME NEW F, NEW S, IsFiniteSet(S), \A x \in S : F[x] \in Int, NEW R \in SUBSET S
    PROVE  SumOver(F, S) = SumOver(F, R) + SumOver(F, S \ R)
<1> DEFINE P == {s \in SUBSET S : SumOver(F, S) = SumOver(F, s) + SumOver(F, S \ s)}
<1>0. \A s \in SUBSET S : IsFiniteSet(s) /\ SumOver(F, s) \in Int
  BY FS_Subset, SumType
<1>1. {} \in P
  <2>1. S \ {} = S /\ SumOver(F, {}) = 0 /\ SumOver(F, S) \in Int /\ {} \in SUBSET S
    BY <1>0, SumOfNothing
  <2> QED BY <2>1
<1>2. ASSUME NEW s \in SUBSET S, s # {}, s \ {Pick(s)} \in P PROVE s \in P
  <2>1. PICK e : e = Pick(s)
    OBVIOUS
  <2>2. e \in s /\ e \in S
    BY <1>2, <2>1 DEF Pick
  <2>3. PICK r : r = s \ {e}
    OBVIOUS
  <2>4. PICK u : u = S \ s
    OBVIOUS
  <2>5. PICK v : v = S \ r
    OBVIOUS
  <2>6. v \ {e} = u /\ e \in v /\ u \in SUBSET S /\ v \in SUBSET S /\ r \in SUBSET S
    BY <2>2, <2>3, <2>4, <2>5
  <2>7. SumOver(F, s) = F[e] + SumOver(F, r)
    BY <1>0, <2>2, <2>3, SumRemove
  <2>8. SumOver(F, v) = F[e] + SumOver(F, u)
    BY <1>0, <2>6, SumRemove
  <2>9. SumOver(F, S) = SumOver(F, r) + SumOver(F, v)
    BY <1>2, <2>1, <2>3, <2>5
  <2>10. SumOver(F, S) = SumOver(F, s) + SumOver(F, u)
    <3>1. F[e] \in Int /\ SumOver(F, r) \in Int /\ SumOver(F, u) \in Int
      BY <1>0, <2>2, <2>6
    <3> QED BY <2>7, <2>8, <2>9, <3>1
  <2> QED BY <2>4, <2>10
<1> HIDE DEF P
<1>3. SUBSET S \subseteq P
  BY <1>1, <1>2, PickInduction
<1> QED BY <1>3 DEF P

(* Sets of one size, the members of one at most those of the other.        *)
Under(F, A, B, k) ==
    /\ Cardinality(A) = k /\ Cardinality(B) = k
    /\ \A a \in A, b \in B : F[a] <= F[b]

(* Then so are their sums.                                                 *)
LEMMA SumUnder ==
    ASSUME NEW F, NEW S, IsFiniteSet(S), \A x \in S : F[x] \in Int,
           NEW A \in SUBSET S, NEW B \in SUBSET S, NEW k \in Nat, Under(F, A, B, k)
    PROVE  SumOver(F, A) <= SumOver(F, B)
<1> DEFINE K == {m \in Nat : \A s, r \in SUBSET S : Under(F, s, r, m) => SumOver(F, s) <= SumOver(F, r)}
<1>0. \A s \in SUBSET S : IsFiniteSet(s) /\ SumOver(F, s) \in Int /\ Cardinality(s) \in Nat
  BY FS_Subset, SumType, FS_CardinalityType
<1>1. 0 \in K
  <2> SUFFICES ASSUME NEW s \in SUBSET S, NEW r \in SUBSET S, Under(F, s, r, 0)
               PROVE  SumOver(F, s) <= SumOver(F, r)
    OBVIOUS
  <2>1. s = {} /\ r = {}
    BY <1>0, FS_EmptySet DEF Under
  <2> QED BY <2>1, SumOfNothing
<1>2. ASSUME NEW m \in Nat, m \in K PROVE m + 1 \in K
  <2> SUFFICES ASSUME NEW s \in SUBSET S, NEW r \in SUBSET S, Under(F, s, r, m + 1)
               PROVE  SumOver(F, s) <= SumOver(F, r)
    OBVIOUS
  <2>1. Cardinality(s) = m + 1 /\ Cardinality(r) = m + 1 /\ \A a \in s, b \in r : F[a] <= F[b]
    BY DEF Under
  <2>2. s # {} /\ r # {}
    BY <2>1, FS_EmptySet
  <2>3. PICK a \in s, b \in r : F[a] <= F[b]
    BY <2>1, <2>2
  <2>4. PICK t \in SUBSET S, u \in SUBSET S : t = s \ {a} /\ u = r \ {b}
    OBVIOUS
  <2>5. Cardinality(t) = m /\ Cardinality(u) = m
    <3>1. Cardinality(t) = Cardinality(s) - 1 /\ Cardinality(u) = Cardinality(r) - 1
      BY <1>0, <2>4, FS_RemoveElement
    <3> QED BY <2>1, <3>1
  <2>6. Under(F, t, u, m)
    BY <2>1, <2>4, <2>5 DEF Under
  <2>7. SumOver(F, t) <= SumOver(F, u)
    BY <1>2, <2>6
  <2>8. SumOver(F, s) = F[a] + SumOver(F, t) /\ SumOver(F, r) = F[b] + SumOver(F, u)
    BY <1>0, <2>4, SumRemove
  <2>9. F[a] \in Int /\ F[b] \in Int /\ SumOver(F, t) \in Int /\ SumOver(F, u) \in Int
    BY <1>0
  <2> QED BY <2>3, <2>7, <2>8, <2>9
<1> HIDE DEF K
<1>3. Nat \subseteq K
  BY <1>1, <1>2, SetInduction
<1> QED BY <1>3 DEF K

(* k members of a set none of which is above another member.               *)
Bottom(F, S, low, k) ==
    /\ low \in SUBSET S /\ Cardinality(low) = k
    /\ \A c \in low, other \in S \ low : F[c] <= F[other]

(* Of as many members none sum to less.                                    *)
LEMMA BottomIsLeast ==
    ASSUME NEW F, NEW S, IsFiniteSet(S), \A x \in S : F[x] \in Int,
           NEW k \in Nat, NEW low, Bottom(F, S, low, k), NEW high \in SUBSET S, Cardinality(high) = k
    PROVE  SumOver(F, low) <= SumOver(F, high)
<1>1. low \in SUBSET S /\ Cardinality(low) = k /\ \A c \in low, other \in S \ low : F[c] <= F[other]
  BY DEF Bottom
<1>0. \A s \in SUBSET S : IsFiniteSet(s) /\ SumOver(F, s) \in Int /\ Cardinality(s) \in Nat
  BY FS_Subset, SumType, FS_CardinalityType
<1>2. PICK both \in SUBSET S, A \in SUBSET S, B \in SUBSET S :
        both = low \cap high /\ A = low \ high /\ B = high \ low
  BY <1>1
<1>3. /\ Cardinality(A) = Cardinality(low) - Cardinality(low \cap high)
      /\ Cardinality(B) = Cardinality(high) - Cardinality(high \cap low)
  BY <1>0, <1>1, <1>2, FS_Difference
<1>4. Cardinality(A) = Cardinality(B) /\ Cardinality(A) \in Nat
  <2>1. high \cap low = low \cap high
    OBVIOUS
  <2> QED BY <1>0, <1>1, <1>3, <2>1
<1>5. Under(F, A, B, Cardinality(A))
  BY <1>1, <1>2, <1>4 DEF Under
<1>6. SumOver(F, A) <= SumOver(F, B)
  BY <1>4, <1>5, SumUnder
<1>7. low \ both = A /\ high \ both = B /\ both \in SUBSET low /\ both \in SUBSET high
  BY <1>2
<1>8. SumOver(F, low) = SumOver(F, both) + SumOver(F, A)
  <2>1. IsFiniteSet(low) /\ \A x \in low : F[x] \in Int
    BY <1>0, <1>1
  <2> QED BY <1>7, <2>1, SumParts
<1>9. SumOver(F, high) = SumOver(F, both) + SumOver(F, B)
  BY <1>0, <1>7, SumParts
<1>10. SumOver(F, both) \in Int /\ SumOver(F, A) \in Int /\ SumOver(F, B) \in Int
  BY <1>0
<1> QED BY <1>6, <1>8, <1>9, <1>10

(* A finite set has a least member by any measure.                         *)
LEMMA LeastBy ==
    ASSUME NEW F, NEW S, IsFiniteSet(S), \A x \in S : F[x] \in Int, S # {}
    PROVE  \E x \in S : \A y \in S : F[x] <= F[y]
<1> DEFINE P == {s \in SUBSET S : s # {} => \E x \in s : \A y \in s : F[x] <= F[y]}
<1>1. {} \in P
  OBVIOUS
<1>2. ASSUME NEW s \in SUBSET S, s # {}, s \ {Pick(s)} \in P PROVE s \in P
  <2>1. PICK e \in s : e = Pick(s)
    BY <1>2 DEF Pick
  <2>2. CASE s \ {e} = {}
    <3>1. \A y \in s : y = e
      BY <2>2
    <3> QED BY <3>1
  <2>3. CASE s \ {e} # {}
    <3>1. PICK x \in s \ {e} : \A y \in s \ {e} : F[x] <= F[y]
      BY <1>2, <2>1, <2>3
    <3>2. CASE F[x] <= F[e]
      BY <3>1, <3>2
    <3>3. CASE ~(F[x] <= F[e])
      <4>1. \A y \in s : F[e] <= F[y]
        BY <3>1, <3>3
      <4> QED BY <4>1
    <3> QED BY <3>2, <3>3
  <2> QED BY <2>2, <2>3
<1> HIDE DEF P
<1>3. SUBSET S \subseteq P
  BY <1>1, <1>2, PickInduction
<1> QED BY <1>3 DEF P

(* There are always such lowest members.                                   *)
LEMMA BottomExists ==
    ASSUME NEW F, NEW S, IsFiniteSet(S), \A x \in S : F[x] \in Int, NEW k \in Nat, k <= Cardinality(S)
    PROVE  \E low : Bottom(F, S, low, k)
<1> DEFINE K == {m \in Nat : m <= Cardinality(S) => \E low : Bottom(F, S, low, m)}
<1>0. Cardinality(S) \in Nat /\ \A s \in SUBSET S : IsFiniteSet(s) /\ Cardinality(s) \in Nat
  BY FS_Subset, FS_CardinalityType
<1>1. 0 \in K
  <2>1. Bottom(F, S, {}, 0)
    BY FS_EmptySet DEF Bottom
  <2> QED BY <2>1
<1>2. ASSUME NEW m \in Nat, m \in K PROVE m + 1 \in K
  <2> SUFFICES ASSUME m + 1 <= Cardinality(S) PROVE \E low : Bottom(F, S, low, m + 1)
    OBVIOUS
  <2>1. m <= Cardinality(S) /\ m # Cardinality(S)
    BY <1>0
  <2>2. PICK low : Bottom(F, S, low, m)
    BY <1>2, <2>1
  <2>3. low \in SUBSET S /\ Cardinality(low) = m /\ \A c \in low, other \in S \ low : F[c] <= F[other]
    BY <2>2 DEF Bottom
  <2>4. S \ low # {}
    <3> SUFFICES ASSUME S \ low = {} PROVE FALSE
      OBVIOUS
    <3>1. low = S
      BY <2>3
    <3> QED BY <2>1, <2>3, <3>1
  <2>5. PICK x \in S \ low : \A y \in S \ low : F[x] <= F[y]
    <3>1. IsFiniteSet(S \ low) /\ \A y \in S \ low : F[y] \in Int
      BY <1>0
    <3> QED BY <2>4, <3>1, LeastBy
  <2>6. Cardinality(low \cup {x}) = m + 1
    BY <1>0, <2>3, <2>5, FS_AddElement
  <2>7. \A c \in low \cup {x}, other \in S \ (low \cup {x}) : F[c] <= F[other]
    BY <2>3, <2>5
  <2>8. Bottom(F, S, low \cup {x}, m + 1)
    BY <2>3, <2>5, <2>6, <2>7 DEF Bottom
  <2> QED BY <2>8
<1> HIDE DEF K
<1>3. Nat \subseteq K
  BY <1>1, <1>2, SetInduction
<1> QED BY <1>3 DEF K
=============================================================================
