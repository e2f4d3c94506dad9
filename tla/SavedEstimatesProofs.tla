------------------------ MODULE SavedEstimatesProofs ------------------------
(***************************************************************************)
(* Saved estimates for any datasets, configurations, rules and patches,    *)
(* any number of versions and any size of the cache: what holds of every   *)
(* line of an estimate, of its totals, of a recalculation and of a price   *)
(* status, whatever the formulas say; that a preview shows what a visitor  *)
(* gets; and that the check of a formula is sound: what it accepts always  *)
(* evaluates, with the numbers of any visitor and after any later dataset. *)
(***************************************************************************)
EXTENDS SavedEstimates, FormulaProofs, FiniteSetTheorems, FunctionTheorems,
        SequenceTheorems, NaturalsInduction, WellFoundedInduction, TLAPS

-----------------------------------------------------------------------------
(* What is computed along a sequence.                                      *)

\* The values of a computation step by step, of which there are some.
Computed(S, s, n, g) ==
    {f \in [0 .. n -> S] : f[0] = s /\ \A i \in 1 .. n : f[i] = g[<<i, f[i - 1]>>]}

LEMMA StepByStep ==
    ASSUME NEW S, NEW s \in S, NEW n \in Nat, NEW g \in [(1 .. n) \X S -> S]
    PROVE  Computed(S, s, n, g) # {}
<1> DEFINE Up(k, f) == f[0] = s /\ \A i \in 1 .. k : f[i] = g[<<i, f[i - 1]>>]
           P == {k \in Nat : k <= n => \E f \in [0 .. k -> S] : Up(k, f)}
<1>1. 0 \in P
  <2>1. [i \in 0 .. 0 |-> s] \in [0 .. 0 -> S] /\ Up(0, [i \in 0 .. 0 |-> s])
    OBVIOUS
  <2> QED
    BY <2>1
<1>2. ASSUME NEW k \in P PROVE k + 1 \in P
  <2> SUFFICES ASSUME k + 1 <= n PROVE \E f \in [0 .. k + 1 -> S] : Up(k + 1, f)
    OBVIOUS
  <2>1. PICK f \in [0 .. k -> S] : Up(k, f)
    OBVIOUS
  <2> DEFINE v == g[<<k + 1, f[k]>>]
             h == [i \in 0 .. k + 1 |-> IF i = k + 1 THEN v ELSE f[i]]
  <2>2. v \in S
    <3>1. <<k + 1, f[k]>> \in (1 .. n) \X S
      OBVIOUS
    <3> QED
      BY <3>1
  <2> HIDE DEF v
  <2>3. h \in [0 .. k + 1 -> S]
    BY <2>2
  <2>4. h[k + 1] = v /\ h[0] = s /\ \A i \in 0 .. k : h[i] = f[i]
    BY <2>1
  <2> HIDE DEF h
  <2>5. ASSUME NEW i \in 1 .. k + 1 PROVE h[i] = g[<<i, h[i - 1]>>]
    <3>1. CASE i = k + 1
      BY <2>4, <3>1 DEF v
    <3>2. CASE i # k + 1
      <4>1. i \in 0 .. k /\ i - 1 \in 0 .. k /\ i \in 1 .. k
        BY <3>2
      <4> QED
        BY <2>1, <2>4, <4>1
    <3> QED
      BY <3>1, <3>2
  <2> QED
    BY <2>3, <2>4, <2>5
<1>3. n \in P
  BY <1>1, <1>2, Reaches
<1> QED
  BY <1>3 DEF Computed

-----------------------------------------------------------------------------
(* Sequences.                                                              *)

\* Induction along a sequence.
LEMMA Appended ==
    ASSUME NEW S, NEW P, <<>> \in P,
           \A s \in Seq(S) : s \in P => \A x \in S : Append(s, x) \in P
    PROVE  Seq(S) \subseteq P
<1> DEFINE N == {n \in Nat : \A s \in Seq(S) : Len(s) = n => s \in P}
<1>1. 0 \in N
  BY EmptySeq
<1>2. ASSUME NEW n \in N PROVE n + 1 \in N
  <2> SUFFICES ASSUME NEW s \in Seq(S), Len(s) = n + 1 PROVE s \in P
    OBVIOUS
  <2>1. s # <<>>
    OBVIOUS
  <2>2. PICK t \in Seq(S), x \in S : s = Append(t, x)
    BY <2>1, SequenceEmptyOrAppend
  <2>3. Len(t) = n
    BY <2>2, AppendProperties
  <2> QED
    BY <2>2, <2>3
<1>3. Nat \subseteq N
  <2> HIDE DEF N
  <2> QED
    BY <1>1, <1>2, Reaches
<1> QED
  BY <1>3, LenProperties

LEMMA SeqFacts ==
    ASSUME NEW S, NEW s \in Seq(S)
    PROVE  /\ s \in Seq(ToSet(s)) /\ ToSet(s) \subseteq S
           /\ Len(s) \in Nat /\ DOMAIN s = 1 .. Len(s)
           /\ \A i \in 1 .. Len(s) : s[i] \in ToSet(s) /\ s[i] \in S
           /\ \A x \in ToSet(s) : \E i \in 1 .. Len(s) : x = s[i]
           /\ ToSet(s) = {} => s = <<>>
  BY LenProperties, SeqDef DEF ToSet

LEMMA EmptySet == ToSet(<<>>) = {}
  BY DEF ToSet

LEMMA AppendFacts ==
    ASSUME NEW S, NEW s \in Seq(S), NEW x \in S
    PROVE  /\ Append(s, x) \in Seq(S)
           /\ Len(Append(s, x)) = Len(s) + 1
           /\ \A i \in 1 .. Len(s) : Append(s, x)[i] = s[i]
           /\ Append(s, x)[Len(s) + 1] = x
           /\ ToSet(Append(s, x)) = ToSet(s) \cup {x}
<1>1. /\ Append(s, x) \in Seq(S) /\ Len(Append(s, x)) = Len(s) + 1
      /\ \A i \in 1 .. Len(s) : Append(s, x)[i] = s[i]
      /\ Append(s, x)[Len(s) + 1] = x
  BY AppendProperties
<1>2. Len(s) \in Nat /\ DOMAIN s = 1 .. Len(s)
  BY LenProperties
<1>3. DOMAIN Append(s, x) = 1 .. Len(s) + 1
  BY <1>1, LenProperties
<1>4. ToSet(Append(s, x)) = ToSet(s) \cup {x}
  <2>1. \A y : y \in ToSet(Append(s, x)) <=> \E i \in 1 .. Len(s) + 1 : y = Append(s, x)[i]
    BY <1>3 DEF ToSet
  <2>2. \A y : y \in ToSet(s) <=> \E i \in 1 .. Len(s) : y = s[i]
    BY <1>2 DEF ToSet
  <2>3. ASSUME NEW y \in ToSet(Append(s, x)) PROVE y \in ToSet(s) \cup {x}
    <3>1. PICK i \in 1 .. Len(s) + 1 : y = Append(s, x)[i]
      BY <2>1
    <3>2. i = Len(s) + 1 \/ i \in 1 .. Len(s)
      BY <1>2
    <3> QED
      BY <1>1, <2>2, <3>1, <3>2
  <2>4. ASSUME NEW y \in ToSet(s) \cup {x} PROVE y \in ToSet(Append(s, x))
    <3>1. 1 .. Len(s) \subseteq 1 .. Len(s) + 1 /\ Len(s) + 1 \in 1 .. Len(s) + 1
      BY <1>2
    <3> QED
      BY <1>1, <2>1, <2>2, <2>4, <3>1
  <2> QED
    BY <2>3, <2>4
<1> QED
  BY <1>1, <1>4

LEMMA ConcatFacts ==
    ASSUME NEW S, NEW s \in Seq(S), NEW t \in Seq(S)
    PROVE  /\ s \o t \in Seq(S)
           /\ Len(s \o t) = Len(s) + Len(t)
           /\ ToSet(s \o t) = ToSet(s) \cup ToSet(t)
<1>1. ToSet(s) = Range(s) /\ ToSet(t) = Range(t) /\ ToSet(s \o t) = Range(s \o t)
  BY DEF ToSet, Range
<1> QED
  BY <1>1, ConcatProperties, RangeConcatenation

\* What is listed by its place is a sequence.
LEMMA ListFacts ==
    ASSUME NEW n \in Nat, NEW g, g = [i \in 1 .. n |-> g[i]]
    PROVE  /\ g \in Seq(ToSet(g)) /\ Len(g) = n /\ DOMAIN g = 1 .. n
           /\ ToSet(g) = {g[i] : i \in 1 .. n}
<1>1. g \in [1 .. n -> ToSet(g)]
  BY DEF ToSet
<1>2. g \in Seq(ToSet(g))
  BY <1>1, SeqDef
<1>3. DOMAIN g = 1 .. Len(g) /\ Len(g) \in Nat
  BY <1>2, LenProperties
<1>4. DOMAIN g = 1 .. n
  OBVIOUS
<1> QED
  BY <1>2, <1>3, <1>4 DEF ToSet

-----------------------------------------------------------------------------
(* Sums.                                                                   *)

LEMMA TotalUp ==
    ASSUME NEW ints \in Seq(Int)
    PROVE  \E f \in [0 .. Len(ints) -> Int] :
              /\ f[0] = 0 /\ \A i \in 1 .. Len(ints) : f[i] = f[i - 1] + ints[i]
              /\ Total(ints) = f[Len(ints)]
<1> DEFINE n == Len(ints)
           g == [p \in (1 .. n) \X Int |-> p[2] + ints[p[1]]]
           body(f) == [k \in 0 .. n |-> IF k = 0 THEN 0 ELSE f[k - 1] + ints[k]]
           upTo == CHOOSE f : f = body(f)
<1>1. n \in Nat /\ \A i \in 1 .. n : ints[i] \in Int
  OBVIOUS
<1>2. PICK f \in Computed(Int, 0, n, g) : TRUE
  <2>1. g \in [(1 .. n) \X Int -> Int] /\ n \in Nat /\ 0 \in Int
    BY <1>1
  <2> HIDE DEF g, n
  <2> QED
    BY <2>1, StepByStep
<1>3. /\ f \in [0 .. n -> Int] /\ f[0] = 0
      /\ \A i \in 1 .. n : f[i] = g[<<i, f[i - 1]>>]
  BY DEF Computed
<1>4. f = body(f)
  <2> HIDE DEF n
  <2>1. \A i \in 1 .. n : i - 1 \in 0 .. n /\ f[i - 1] \in Int
    BY <1>1, <1>3
  <2>2. \A i \in 1 .. n : f[i] = f[i - 1] + ints[i]
    BY <1>1, <1>3, <2>1
  <2> HIDE DEF g
  <2> QED
    BY <1>1, <1>3, <2>2
<1>5. upTo = body(upTo)
  <2> HIDE DEF body
  <2> QED
    BY <1>4
<1>6. Total(ints) = upTo[n]
  BY DEF Total
<1> HIDE DEF upTo, g
<1>7. /\ upTo[0] = 0 /\ \A i \in 1 .. n : upTo[i] = upTo[i - 1] + ints[i]
      /\ upTo = [k \in 0 .. n |-> upTo[k]]
  <2> HIDE DEF n
  <2> DEFINE next(k) == IF k = 0 THEN 0 ELSE upTo[k - 1] + ints[k]
  <2>1. upTo = [k \in 0 .. n |-> next(k)]
    BY <1>5
  <2>2. \A k \in 0 .. n : upTo[k] = next(k)
    <3> HIDE DEF next
    <3> QED
      BY <2>1
  <2>3. 0 \in 0 .. n /\ \A i \in 1 .. n : i \in 0 .. n /\ i # 0
    BY <1>1
  <2> QED
    BY <2>1, <2>2, <2>3
<1> DEFINE P == {k \in Nat : k <= n => upTo[k] \in Int}
<1>8. Nat \subseteq P
  <2> HIDE DEF n
  <2>1. 0 \in P
    BY <1>7
  <2>2. ASSUME NEW k \in P PROVE k + 1 \in P
    <3> SUFFICES ASSUME k + 1 <= n PROVE upTo[k + 1] \in Int
      OBVIOUS
    <3>1. k + 1 \in 1 .. n /\ (k + 1) - 1 = k /\ upTo[k] \in Int
      BY <1>1
    <3>2. upTo[k + 1] = upTo[k] + ints[k + 1]
      BY <1>7, <3>1
    <3> QED
      BY <1>1, <3>1, <3>2
  <2> HIDE DEF P
  <2> QED
    BY <2>1, <2>2, Reaches
<1>9. upTo \in [0 .. n -> Int]
  <2> HIDE DEF n
  <2>1. \A k \in 0 .. n : upTo[k] \in Int
    BY <1>1, <1>8
  <2> QED
    BY <1>7, <2>1
<1> QED
  BY <1>6, <1>7, <1>9

LEMMA TotalOfNone == Total(<<>>) = 0
<1>1. <<>> \in Seq(Int) /\ Len(<<>>) = 0
  BY EmptySeq
<1> QED
  BY <1>1, TotalUp

LEMMA TotalAppended ==
    ASSUME NEW ints \in Seq(Int), NEW x \in Int
    PROVE  Total(Append(ints, x)) = Total(ints) + x
<1> DEFINE n == Len(ints)
           longer == Append(ints, x)
<1>1. /\ n \in Nat /\ longer \in Seq(Int) /\ Len(longer) = n + 1
      /\ longer[n + 1] = x /\ \A i \in 1 .. n : longer[i] = ints[i] /\ ints[i] \in Int
  BY AppendProperties, LenProperties
<1>2. PICK f \in [0 .. n -> Int] :
          /\ f[0] = 0 /\ \A i \in 1 .. n : f[i] = f[i - 1] + ints[i]
          /\ Total(ints) = f[n]
  BY TotalUp
<1> HIDE DEF longer
<1>3. PICK h \in [0 .. n + 1 -> Int] :
          /\ h[0] = 0 /\ \A i \in 1 .. n + 1 : h[i] = h[i - 1] + longer[i]
          /\ Total(longer) = h[n + 1]
  BY <1>1, TotalUp
<1> HIDE DEF n
<1> DEFINE P == {k \in Nat : k <= n => f[k] = h[k]}
<1>4. Nat \subseteq P
  <2>1. 0 \in P
    BY <1>2, <1>3
  <2>2. ASSUME NEW k \in P PROVE k + 1 \in P
    <3>1. k + 1 <= n => k + 1 \in 1 .. n /\ k + 1 \in 1 .. n + 1 /\ (k + 1) - 1 = k
      BY <1>1
    <3> QED
      BY <1>1, <1>2, <1>3, <3>1
  <2> HIDE DEF P
  <2> QED
    BY <2>1, <2>2, Reaches
<1>5. f[n] = h[n]
  BY <1>1, <1>4
<1>6. h[n + 1] = h[n] + x
  BY <1>1, <1>3
<1> QED
  BY <1>2, <1>3, <1>5, <1>6 DEF longer

LEMMA TotalIsInt == \A ints \in Seq(Int) : Total(ints) \in Int
<1> DEFINE P == {ints \in Seq(Int) : Total(ints) \in Int}
<1>1. <<>> \in P
  BY TotalOfNone
<1>2. \A s \in Seq(Int) : s \in P => \A x \in Int : Append(s, x) \in P
  BY TotalAppended, AppendProperties
<1>3. Seq(Int) \subseteq P
  <2> HIDE DEF P
  <2> QED
    BY <1>1, <1>2, Appended
<1> QED
  BY <1>3

LEMMA TotalIsNat == \A ints \in Seq(Nat) : Total(ints) \in Nat
<1> DEFINE P == {ints \in Seq(Nat) : Total(ints) \in Nat}
<1>1. <<>> \in P
  BY TotalOfNone
<1>2. ASSUME NEW s \in Seq(Nat), s \in P, NEW x \in Nat PROVE Append(s, x) \in P
  <2>1. s \in Seq(Int)
    BY SeqMonotonic
  <2> QED
    BY <1>2, <2>1, TotalAppended, AppendProperties
<1>3. Seq(Nat) \subseteq P
  <2> HIDE DEF P
  <2> QED
    BY <1>1, <1>2, Appended
<1> QED
  BY <1>3

\* A number for each element of a sequence, along the sequence.
Weights(w, s) == [i \in DOMAIN s |-> w[s[i]]]

LEMMA WeightsFacts ==
    ASSUME NEW S, NEW w, NEW s \in Seq(S)
    PROVE  /\ Weights(w, s) \in Seq({w[x] : x \in S}) /\ Len(Weights(w, s)) = Len(s)
           /\ \A x \in S : Weights(w, Append(s, x)) = Append(Weights(w, s), w[x])
<1> DEFINE T == {w[x] : x \in S}
<1>1. Len(s) \in Nat /\ DOMAIN s = 1 .. Len(s) /\ \A i \in 1 .. Len(s) : s[i] \in S
  BY LenProperties
<1>2. /\ Weights(w, s) \in Seq(T) /\ Len(Weights(w, s)) = Len(s)
      /\ \A i \in 1 .. Len(s) : Weights(w, s)[i] = w[s[i]]
  <2>1. Weights(w, s) = [i \in 1 .. Len(s) |-> Weights(w, s)[i]]
    BY <1>1 DEF Weights
  <2>2. \A i \in 1 .. Len(s) : Weights(w, s)[i] = w[s[i]] /\ w[s[i]] \in T
    BY <1>1 DEF Weights
  <2>3. /\ Weights(w, s) \in Seq(ToSet(Weights(w, s))) /\ Len(Weights(w, s)) = Len(s)
        /\ ToSet(Weights(w, s)) = {Weights(w, s)[i] : i \in 1 .. Len(s)}
    BY <1>1, <2>1, ListFacts
  <2>4. ToSet(Weights(w, s)) \subseteq T
    BY <2>2, <2>3
  <2> QED
    BY <2>2, <2>3, <2>4, SeqMonotonic
<1>3. ASSUME NEW x \in S PROVE Weights(w, Append(s, x)) = Append(Weights(w, s), w[x])
  <2>1. /\ Append(s, x) \in Seq(S) /\ Len(Append(s, x)) = Len(s) + 1
        /\ \A i \in 1 .. Len(s) : Append(s, x)[i] = s[i]
        /\ Append(s, x)[Len(s) + 1] = x
    BY AppendFacts
  <2>2. DOMAIN Append(s, x) = 1 .. Len(s) + 1
    BY <2>1, LenProperties
  <2>3. Append(Weights(w, s), w[x]) \in Seq(T)
    BY <1>2, AppendProperties
  <2>4. /\ Len(Append(Weights(w, s), w[x])) = Len(s) + 1
        /\ \A i \in 1 .. Len(s) : Append(Weights(w, s), w[x])[i] = w[s[i]]
        /\ Append(Weights(w, s), w[x])[Len(s) + 1] = w[x]
    BY <1>2, AppendProperties
  <2>5. DOMAIN Append(Weights(w, s), w[x]) = 1 .. Len(s) + 1
    BY <2>3, <2>4, LenProperties
  <2>6. \A i \in 1 .. Len(s) + 1 :
            Weights(w, Append(s, x))[i] = Append(Weights(w, s), w[x])[i]
    <3>1. ASSUME NEW i \in 1 .. Len(s) + 1
          PROVE  Weights(w, Append(s, x))[i] = Append(Weights(w, s), w[x])[i]
      <4>1. Weights(w, Append(s, x))[i] = w[Append(s, x)[i]]
        BY <2>2 DEF Weights
      <4>2. i \in 1 .. Len(s) \/ i = Len(s) + 1
        BY <1>1
      <4> QED
        BY <2>1, <2>4, <4>1, <4>2
    <3> QED
      BY <3>1
  <2>7. Append(Weights(w, s), w[x]) =
            [i \in 1 .. Len(s) + 1 |-> Append(Weights(w, s), w[x])[i]]
    <3>1. Append(Weights(w, s), w[x]) \in [1 .. Len(s) + 1 -> T]
      BY <2>3, <2>4, LenProperties
    <3> QED
      BY <3>1
  <2>8. Weights(w, Append(s, x)) =
            [i \in 1 .. Len(s) + 1 |-> Weights(w, Append(s, x))[i]]
    BY <2>2 DEF Weights
  <2> QED
    BY <2>6, <2>7, <2>8
<1> QED
  BY <1>2, <1>3

LEMMA WeightsAre ==
    ASSUME NEW S, NEW T, NEW w, \A x \in S : w[x] \in T, NEW s \in Seq(S)
    PROVE  Weights(w, s) \in Seq(T)
<1>1. Weights(w, s) \in Seq({w[x] : x \in S})
  BY WeightsFacts
<1>2. {w[x] : x \in S} \subseteq T
  OBVIOUS
<1> QED
  BY <1>1, <1>2, SeqMonotonic

LEMMA WeightsAppended ==
    ASSUME NEW S, NEW w, NEW s \in Seq(S), NEW x \in S
    PROVE  Weights(w, Append(s, x)) = Append(Weights(w, s), w[x])
<1>1. /\ Weights(w, s) \in Seq({w[y] : y \in S})
      /\ \A y \in S : Weights(w, Append(s, y)) = Append(Weights(w, s), w[y])
  BY WeightsFacts
<1> QED
  BY <1>1

-----------------------------------------------------------------------------
(* Sequences of sequences, and what is taken from a sequence.              *)

Flattened(S, ss) ==
    {f \in [0 .. Len(ss) -> Seq(S)] :
       /\ f[0] = <<>> /\ \A i \in 1 .. Len(ss) : f[i] = f[i - 1] \o ss[i]
       /\ FlattenSeq(ss) = f[Len(ss)]}

LEMMA FlattenUp ==
    ASSUME NEW S, NEW ss \in Seq(Seq(S))
    PROVE  Flattened(S, ss) # {}
<1> DEFINE n == Len(ss)
           g == [p \in (1 .. n) \X Seq(S) |-> p[2] \o ss[p[1]]]
           body(f) == [i \in 1 .. n |-> IF i = 1 THEN ss[i] ELSE f[i - 1] \o ss[i]]
           flat == CHOOSE f : f = body(f)
<1>1. n \in Nat /\ \A i \in 1 .. n : ss[i] \in Seq(S)
  BY LenProperties
<1>2. \A s \in Seq(S) : \A i \in 1 .. n : s \o ss[i] \in Seq(S)
  BY <1>1, ConcatProperties
<1>3. <<>> \in Seq(S) /\ \A s \in Seq(S) : <<>> \o s = s
  BY EmptySeq, ConcatEmptySeq
<1>4. PICK f \in Computed(Seq(S), <<>>, n, g) : TRUE
  <2>1. g \in [(1 .. n) \X Seq(S) -> Seq(S)]
    BY <1>2
  <2>2. n \in Nat /\ <<>> \in Seq(S)
    BY <1>1, <1>3
  <2> HIDE DEF g, n
  <2> QED
    BY <2>1, <2>2, StepByStep
<1>5. /\ f \in [0 .. n -> Seq(S)] /\ f[0] = <<>>
      /\ \A i \in 1 .. n : f[i] = g[<<i, f[i - 1]>>]
  BY DEF Computed
<1>6. \A i \in 1 .. n : f[i] = f[i - 1] \o ss[i]
  <2>1. \A i \in 1 .. n : <<i, f[i - 1]>> \in (1 .. n) \X Seq(S)
    <3> HIDE DEF n
    <3> QED
      BY <1>1, <1>5
  <2>2. \A p \in (1 .. n) \X Seq(S) : g[p] = p[2] \o ss[p[1]]
    OBVIOUS
  <2> HIDE DEF n, g
  <2> QED
    BY <1>5, <2>1, <2>2
<1>7. CASE n = 0
  <2>1. FlattenSeq(ss) = <<>>
    BY <1>7, EmptySeq DEF FlattenSeq
  <2> QED
    BY <1>5, <1>6, <1>7, <2>1 DEF Flattened
<1>8. CASE n # 0
  <2>1. \E h : h = body(h)
    <3> DEFINE h == [i \in 1 .. n |-> f[i]]
    <3> HIDE DEF n
    <3>1. ASSUME NEW i \in 1 .. n
          PROVE  h[i] = IF i = 1 THEN ss[i] ELSE h[i - 1] \o ss[i]
      <4>1. h[i] = f[i - 1] \o ss[i]
        BY <1>6
      <4>2. CASE i = 1
        <5>1. h[i] = f[0] \o ss[i] /\ ss[i] \in Seq(S)
          <6>1. i - 1 = 0
            BY <4>2
          <6>2. h[i] = f[0] \o ss[i]
            BY <4>1, <6>1
          <6> QED
            BY <1>1, <6>2
        <5> QED
          BY <1>3, <1>5, <4>2, <5>1
      <4>3. CASE i # 1
        <5>1. i - 1 \in 1 .. n
          BY <1>1, <4>3
        <5> QED
          BY <4>1, <4>3, <5>1
      <4> QED
        BY <4>2, <4>3
    <3>2. h = [i \in 1 .. n |-> h[i]]
      OBVIOUS
    <3> HIDE DEF h
    <3>3. h = body(h)
      BY <3>1, <3>2
    <3> QED
      BY <3>3
  <2>2. flat = body(flat)
    <3> HIDE DEF body
    <3> QED
      BY <2>1
  <2>3. FlattenSeq(ss) = flat[n]
    BY <1>8 DEF FlattenSeq
  <2> HIDE DEF flat
  <2> DEFINE next(i) == IF i = 1 THEN ss[i] ELSE flat[i - 1] \o ss[i]
  <2>4. \A i \in 1 .. n : flat[i] = next(i)
    <3>1. flat = [i \in 1 .. n |-> next(i)]
      BY <2>2
    <3> HIDE DEF next, n
    <3> QED
      BY <3>1
  <2> DEFINE P == {k \in Nat : k + 1 <= n => flat[k + 1] = f[k + 1]}
  <2>5. Nat \subseteq P
    <3> HIDE DEF n
    <3>1. 0 \in P
      <4>1. 1 \in 1 .. n /\ 1 - 1 = 0
        BY <1>1, <1>8
      <4>2. flat[1] = ss[1]
        BY <2>4, <4>1
      <4>3. f[1] = <<>> \o ss[1]
        <5>1. f[1] = f[1 - 1] \o ss[1]
          BY <1>6, <4>1
        <5>2. f[0] = <<>>
          BY <1>5
        <5> QED
          BY <4>1, <5>1, <5>2
      <4> QED
        BY <1>1, <1>3, <4>1, <4>2, <4>3
    <3>2. ASSUME NEW k \in P PROVE k + 1 \in P
      <4> SUFFICES ASSUME k + 2 <= n PROVE flat[k + 2] = f[k + 2]
        OBVIOUS
      <4>1. k + 2 \in 1 .. n /\ (k + 2) - 1 = k + 1 /\ k + 2 # 1
        BY <1>1
      <4>2. flat[k + 1] = f[k + 1]
        BY <1>1
      <4>3. flat[k + 2] = flat[k + 1] \o ss[k + 2] /\ f[k + 2] = f[k + 1] \o ss[k + 2]
        BY <1>6, <2>4, <4>1
      <4> QED
        BY <4>2, <4>3
    <3> HIDE DEF P
    <3> QED
      BY <3>1, <3>2, Reaches
  <2>6. flat[n] = f[n]
    <3> HIDE DEF n, next
    <3>1. n - 1 \in Nat /\ (n - 1) + 1 = n
      BY <1>1, <1>8
    <3>2. n - 1 \in P
      BY <2>5, <3>1
    <3> QED
      BY <1>1, <3>1, <3>2
  <2> QED
    BY <1>5, <1>6, <2>3, <2>6 DEF Flattened
<1> QED
  BY <1>7, <1>8

LEMMA FlattenNone == FlattenSeq(<<>>) = <<>>
  BY EmptySeq DEF FlattenSeq

LEMMA FlattenIsSeq ==
    ASSUME NEW S, NEW ss \in Seq(Seq(S)) PROVE FlattenSeq(ss) \in Seq(S)
<1>1. PICK f \in Flattened(S, ss) : TRUE
  BY FlattenUp
<1>2. Len(ss) \in 0 .. Len(ss)
  BY LenProperties
<1> QED
  BY <1>1, <1>2 DEF Flattened

LEMMA FlattenAppended ==
    ASSUME NEW S, NEW ss \in Seq(Seq(S)), NEW s \in Seq(S)
    PROVE  FlattenSeq(Append(ss, s)) = FlattenSeq(ss) \o s
<1> DEFINE n == Len(ss)
           longer == Append(ss, s)
<1>1. /\ n \in Nat /\ longer \in Seq(Seq(S)) /\ Len(longer) = n + 1
      /\ longer[n + 1] = s /\ \A i \in 1 .. n : longer[i] = ss[i]
  BY AppendProperties, LenProperties
<1>2. PICK f \in Flattened(S, ss) : TRUE
  BY FlattenUp
<1>3. /\ f[0] = <<>> /\ \A i \in 1 .. n : f[i] = f[i - 1] \o ss[i]
      /\ FlattenSeq(ss) = f[n]
  BY DEF Flattened
<1> HIDE DEF longer
<1>4. PICK h \in Flattened(S, longer) : TRUE
  BY <1>1, FlattenUp
<1>5. /\ h[0] = <<>> /\ \A i \in 1 .. n + 1 : h[i] = h[i - 1] \o longer[i]
      /\ FlattenSeq(longer) = h[n + 1]
  BY <1>1 DEF Flattened
<1> HIDE DEF n
<1> DEFINE P == {k \in Nat : k <= n => f[k] = h[k]}
<1>6. Nat \subseteq P
  <2>1. 0 \in P
    BY <1>3, <1>5
  <2>2. ASSUME NEW k \in P PROVE k + 1 \in P
    <3> SUFFICES ASSUME k + 1 <= n PROVE f[k + 1] = h[k + 1]
      OBVIOUS
    <3>1. k + 1 \in 1 .. n /\ k + 1 \in 1 .. n + 1 /\ (k + 1) - 1 = k
      BY <1>1
    <3>2. f[k] = h[k]
      BY <1>1
    <3>3. f[k + 1] = f[k] \o ss[k + 1] /\ h[k + 1] = h[k] \o ss[k + 1]
      BY <1>1, <1>3, <1>5, <3>1
    <3> QED
      BY <3>2, <3>3
  <2> HIDE DEF P
  <2> QED
    BY <2>1, <2>2, Reaches
<1>7. f[n] = h[n]
  BY <1>1, <1>6
<1>8. h[n + 1] = h[n] \o s
  <2>1. n + 1 \in 1 .. n + 1 /\ (n + 1) - 1 = n
    BY <1>1
  <2> QED
    BY <1>1, <1>5, <2>1
<1> QED
  BY <1>3, <1>5, <1>7, <1>8 DEF longer

LEMMA FlattenedSet ==
    ASSUME NEW S, NEW ss \in Seq(Seq(S))
    PROVE  ToSet(FlattenSeq(ss)) = UNION {ToSet(s) : s \in ToSet(ss)}
<1> DEFINE P == {all \in Seq(Seq(S)) :
                   ToSet(FlattenSeq(all)) = UNION {ToSet(s) : s \in ToSet(all)}}
<1>1. <<>> \in P
  <2>1. <<>> \in Seq(Seq(S))
    BY EmptySeq
  <2> QED
    BY <2>1, FlattenNone, EmptySet
<1>2. ASSUME NEW all \in Seq(Seq(S)), all \in P, NEW last \in Seq(S) PROVE Append(all, last) \in P
  <2>1. FlattenSeq(Append(all, last)) = FlattenSeq(all) \o last /\ FlattenSeq(all) \in Seq(S)
    BY FlattenAppended, FlattenIsSeq
  <2>2. ToSet(FlattenSeq(all) \o last) = ToSet(FlattenSeq(all)) \cup ToSet(last)
    BY <2>1, ConcatFacts
  <2>3. ToSet(Append(all, last)) = ToSet(all) \cup {last} /\ Append(all, last) \in Seq(Seq(S))
    BY AppendFacts
  <2> QED
    BY <1>2, <2>1, <2>2, <2>3
<1>3. ss \in P
  <2> HIDE DEF P
  <2> QED
    BY <1>1, <1>2, Appended
<1> QED
  BY <1>3

LEMMA AmongNone == \A K : Among(<<>>, K) = <<>>
<1> TAKE K
<1>1. [i \in DOMAIN <<>> |-> IF <<>>[i] \in K THEN <<<<>>[i]>> ELSE <<>>] = <<>>
  OBVIOUS
<1> QED
  BY <1>1, FlattenNone DEF Among, FlatMap, Map

LEMMA AmongAppended ==
    ASSUME NEW S, NEW K, NEW s \in Seq(S)
    PROVE  /\ Among(s, K) \in Seq(S)
           /\ \A x \in S : Among(Append(s, x), K) =
                              IF x \in K THEN Append(Among(s, K), x) ELSE Among(s, K)
<1> DEFINE w == [x \in S |-> IF x \in K THEN <<x>> ELSE <<>>]
<1>1. w \in [S -> Seq(S)]
  BY EmptySeq
<1>2. \A t \in Seq(S) : Among(t, K) = FlattenSeq(Weights(w, t))
  <2> TAKE t \in Seq(S)
  <2>1. \A i \in DOMAIN t : t[i] \in S
    BY LenProperties
  <2>2. [i \in DOMAIN t |-> IF t[i] \in K THEN <<t[i]>> ELSE <<>>] = [i \in DOMAIN t |-> w[t[i]]]
    BY <2>1
  <2> HIDE DEF w
  <2> QED
    BY <2>2 DEF Among, FlatMap, Map, Weights
<1>3. /\ Weights(w, s) \in Seq(Seq(S))
      /\ \A x \in S : Weights(w, Append(s, x)) = Append(Weights(w, s), w[x])
  <2>1. \A x \in S : w[x] \in Seq(S)
    BY <1>1
  <2> HIDE DEF w
  <2>2. Weights(w, s) \in Seq(Seq(S))
    BY <2>1, WeightsAre
  <2>3. \A x \in S : Weights(w, Append(s, x)) = Append(Weights(w, s), w[x])
    BY WeightsFacts
  <2> QED
    BY <2>2, <2>3
<1>4. Among(s, K) \in Seq(S)
  BY <1>2, <1>3, FlattenIsSeq
<1>5. ASSUME NEW x \in S
      PROVE  Among(Append(s, x), K) =
                IF x \in K THEN Append(Among(s, K), x) ELSE Among(s, K)
  <2>1. Append(s, x) \in Seq(S) /\ w[x] \in Seq(S)
    BY <1>1, AppendFacts
  <2> HIDE DEF w
  <2>2. Among(Append(s, x), K) = FlattenSeq(Append(Weights(w, s), w[x]))
    BY <1>2, <1>3, <2>1
  <2>3. Among(Append(s, x), K) = Among(s, K) \o w[x]
    BY <1>2, <1>3, <2>1, <2>2, FlattenAppended
  <2>4. w[x] = IF x \in K THEN <<x>> ELSE <<>>
    BY DEF w
  <2> QED
    BY <1>4, <2>3, <2>4, AppendIsConcat, ConcatEmptySeq
<1> QED
  BY <1>4, <1>5
LEMMA AmongFacts ==
    ASSUME NEW S, NEW K, NEW s \in Seq(S)
    PROVE  /\ Among(s, K) \in Seq(S)
           /\ ToSet(Among(s, K)) = ToSet(s) \cap K
           /\ Len(Among(s, K)) <= Len(s)
<1> DEFINE P == {t \in Seq(S) : /\ ToSet(Among(t, K)) = ToSet(t) \cap K
                                /\ Len(Among(t, K)) <= Len(t)}
<1>1. <<>> \in P
  <2>1. <<>> \in Seq(S) /\ Len(<<>>) = 0
    BY EmptySeq
  <2> QED
    BY <2>1, EmptySet, AmongNone
<1>2. ASSUME NEW t \in Seq(S), t \in P, NEW x \in S PROVE Append(t, x) \in P
  <2>1. /\ Among(t, K) \in Seq(S)
        /\ Among(Append(t, x), K) = IF x \in K THEN Append(Among(t, K), x) ELSE Among(t, K)
    <3> HIDE DEF P
    <3> QED
      BY AmongAppended
  <2>2. /\ Append(t, x) \in Seq(S) /\ Len(Append(t, x)) = Len(t) + 1
        /\ ToSet(Append(t, x)) = ToSet(t) \cup {x} /\ Len(t) \in Nat
    BY AppendFacts, SeqFacts
  <2>3. /\ Len(Append(Among(t, K), x)) = Len(Among(t, K)) + 1 /\ Len(Among(t, K)) \in Nat
        /\ ToSet(Append(Among(t, K), x)) = ToSet(Among(t, K)) \cup {x}
    BY <2>1, AppendFacts, SeqFacts
  <2>4. ToSet(Among(t, K)) = ToSet(t) \cap K /\ Len(Among(t, K)) <= Len(t)
    BY <1>2
  <2>5. CASE x \in K
    <3>1. ToSet(Among(Append(t, x), K)) = ToSet(Append(t, x)) \cap K
      BY <2>1, <2>2, <2>3, <2>4, <2>5
    <3> HIDE DEF P
    <3>2. Len(Among(Append(t, x), K)) <= Len(Append(t, x))
      BY <2>1, <2>2, <2>3, <2>4, <2>5
    <3> QED
      BY <2>2, <3>1, <3>2 DEF P
  <2>6. CASE x \notin K
    BY <2>1, <2>2, <2>3, <2>4, <2>6
  <2> QED
    BY <2>5, <2>6
<1>3. s \in P
  <2> HIDE DEF P
  <2> QED
    BY <1>1, <1>2, Appended
<1> QED
  BY <1>3, AmongAppended

\* What stays of a sequence without repetition repeats nothing.
LEMMA DistinctAppended ==
    ASSUME NEW S, NEW w, NEW s \in Seq(S), NEW x \in S
    PROVE  Distinct(Weights(w, Append(s, x)))
              <=> Distinct(Weights(w, s)) /\ \A y \in ToSet(s) : w[y] # w[x]
<1> DEFINE T == {w[y] : y \in S}
           n == Len(s)
           ws == Weights(w, s)
           longer == Append(ws, w[x])
<1>1. n \in Nat /\ ws \in Seq(T) /\ Len(ws) = n /\ Weights(w, Append(s, x)) = longer
  <2>1. n \in Nat
    BY LenProperties
  <2>2. ws \in Seq(T) /\ Len(ws) = n /\ \A y \in S : Weights(w, Append(s, y)) = Append(ws, w[y])
    BY WeightsFacts
  <2> QED
    BY <2>1, <2>2
<1>2. /\ DOMAIN ws = 1 .. n /\ DOMAIN longer = 1 .. n + 1
      /\ longer[n + 1] = w[x] /\ \A i \in 1 .. n : longer[i] = ws[i]
  BY <1>1, AppendProperties, LenProperties
<1>3. \A i \in 1 .. n : ws[i] = w[s[i]] /\ s[i] \in ToSet(s)
  BY <1>1, <1>2, SeqFacts DEF Weights
<1>4. \A y \in ToSet(s) : \E i \in 1 .. n : y = s[i]
  BY SeqFacts
<1> HIDE DEF n, ws, longer
<1>5. Distinct(ws) <=> \A i, j \in 1 .. n : ws[i] = ws[j] => i = j
  BY <1>2 DEF Distinct
<1>6. Distinct(longer) <=> \A i, j \in 1 .. n + 1 : longer[i] = longer[j] => i = j
  BY <1>2 DEF Distinct
<1>7. \A i \in 1 .. n + 1 : i = n + 1 \/ i \in 1 .. n
  BY <1>1
<1>8. n + 1 \in 1 .. n + 1 /\ \A i \in 1 .. n : i \in 1 .. n + 1 /\ i # n + 1
  BY <1>1
<1>9. ASSUME Distinct(longer)
      PROVE  Distinct(ws) /\ \A y \in ToSet(s) : w[y] # w[x]
  <2>1. Distinct(ws)
    BY <1>2, <1>5, <1>6, <1>8, <1>9
  <2>2. ASSUME NEW y \in ToSet(s), w[y] = w[x] PROVE FALSE
    <3>1. PICK i \in 1 .. n : y = s[i]
      BY <1>4
    <3>2. longer[i] = longer[n + 1]
      BY <1>2, <1>3, <2>2, <3>1
    <3> QED
      BY <1>6, <1>8, <1>9, <3>1, <3>2
  <2> QED
    BY <2>1, <2>2
<1>10. ASSUME Distinct(ws), \A y \in ToSet(s) : w[y] # w[x]
       PROVE  Distinct(longer)
  <2>1. \A i \in 1 .. n : longer[i] # longer[n + 1]
    BY <1>2, <1>3, <1>10
  <2>2. ASSUME NEW i \in 1 .. n + 1, NEW j \in 1 .. n + 1, longer[i] = longer[j]
        PROVE  i = j
    <3>1. CASE i = n + 1 /\ j = n + 1
      BY <3>1
    <3>2. CASE i = n + 1 /\ j \in 1 .. n
      BY <2>1, <2>2, <3>2
    <3>3. CASE i \in 1 .. n /\ j = n + 1
      BY <2>1, <2>2, <3>3
    <3>4. CASE i \in 1 .. n /\ j \in 1 .. n
      BY <1>2, <1>5, <1>10, <2>2, <3>4
    <3> QED
      BY <1>7, <3>1, <3>2, <3>3, <3>4
  <2> QED
    BY <1>6, <2>2
<1> QED
  BY <1>1, <1>9, <1>10 DEF ws, longer

LEMMA AmongDistinct ==
    ASSUME NEW S, NEW w, NEW K, NEW s \in Seq(S),
           Distinct(Weights(w, s))
    PROVE  Distinct(Weights(w, Among(s, K)))
<1> DEFINE P == {t \in Seq(S) :
                   Distinct(Weights(w, t)) => Distinct(Weights(w, Among(t, K)))}
<1>1. <<>> \in P
  <2>1. <<>> \in Seq(S) /\ Among(<<>>, K) = <<>>
    BY EmptySeq, AmongNone
  <2> QED
    BY <2>1
<1>2. ASSUME NEW t \in Seq(S), t \in P, NEW x \in S PROVE Append(t, x) \in P
  <2>1. /\ Among(t, K) \in Seq(S) /\ Append(t, x) \in Seq(S)
        /\ Among(Append(t, x), K) = IF x \in K THEN Append(Among(t, K), x) ELSE Among(t, K)
        /\ ToSet(Among(t, K)) \subseteq ToSet(t)
    <3> HIDE DEF P
    <3>1. /\ Among(t, K) \in Seq(S)
          /\ Among(Append(t, x), K) = IF x \in K THEN Append(Among(t, K), x) ELSE Among(t, K)
      BY AmongAppended
    <3>2. ToSet(Among(t, K)) = ToSet(t) \cap K
      BY AmongFacts
    <3>3. Append(t, x) \in Seq(S)
      BY AppendFacts
    <3> QED
      BY <3>1, <3>2, <3>3
  <2>2. Distinct(Weights(w, Append(t, x)))
           <=> Distinct(Weights(w, t)) /\ \A y \in ToSet(t) : w[y] # w[x]
    <3> HIDE DEF P
    <3> QED
      BY DistinctAppended
  <2>3. Distinct(Weights(w, Append(Among(t, K), x)))
           <=> Distinct(Weights(w, Among(t, K))) /\ \A y \in ToSet(Among(t, K)) : w[y] # w[x]
    <3> HIDE DEF P
    <3>1. Among(t, K) \in Seq(S)
      BY <2>1
    <3> QED
      BY <3>1, DistinctAppended
  <2>4. CASE x \in K
    BY <1>2, <2>1, <2>2, <2>3, <2>4
  <2>5. CASE x \notin K
    BY <1>2, <2>1, <2>2, <2>5
  <2> QED
    BY <2>4, <2>5
<1>3. s \in P
  <2> HIDE DEF P
  <2> QED
    BY <1>1, <1>2, Appended
<1> QED
  BY <1>3

LEMMA AmongAll ==
    ASSUME NEW S, NEW K, S \subseteq K, NEW s \in Seq(S)
    PROVE  Among(s, K) = s
<1> DEFINE P == {t \in Seq(S) : Among(t, K) = t}
<1>1. <<>> \in P
  BY EmptySeq, AmongNone
<1>2. ASSUME NEW t \in Seq(S), t \in P, NEW x \in S PROVE Append(t, x) \in P
  <2>1. Append(t, x) \in Seq(S)
    BY AppendFacts
  <2>2. Among(Append(t, x), K) = IF x \in K THEN Append(Among(t, K), x) ELSE Among(t, K)
    BY AmongAppended
  <2> QED
    BY <1>2, <2>1, <2>2
<1>3. s \in P
  <2> HIDE DEF P
  <2> QED
    BY <1>1, <1>2, Appended
<1> QED
  BY <1>3

SumAmong(w, s, K) == Total(Weights(w, Among(s, K)))

LEMMA SumAppended ==
    ASSUME NEW S, NEW w, \A x \in S : w[x] \in Int, NEW K, NEW s \in Seq(S), NEW x \in S
    PROVE  /\ SumAmong(w, s, K) \in Int
           /\ SumAmong(w, Append(s, x), K) =
                 IF x \in K THEN SumAmong(w, s, K) + w[x] ELSE SumAmong(w, s, K)
<1>1. /\ Among(s, K) \in Seq(S)
      /\ Among(Append(s, x), K) = IF x \in K THEN Append(Among(s, K), x) ELSE Among(s, K)
  BY AmongAppended
<1>2. Weights(w, Among(s, K)) \in Seq(Int)
  BY <1>1, WeightsAre
<1>3. Weights(w, Append(Among(s, K), x)) = Append(Weights(w, Among(s, K)), w[x])
  BY <1>1, WeightsAppended
<1>4. Total(Append(Weights(w, Among(s, K)), w[x])) = Total(Weights(w, Among(s, K))) + w[x]
  BY <1>2, TotalAppended
<1>5. Total(Weights(w, Among(s, K))) \in Int
  BY <1>2, TotalIsInt
<1> QED
  BY <1>1, <1>3, <1>4, <1>5 DEF SumAmong

LEMMA SumOfNone == \A w, K : SumAmong(w, <<>>, K) = 0
<1>1. \A w : Weights(w, <<>>) = <<>>
  BY DEF Weights
<1> QED
  BY <1>1, AmongNone, TotalOfNone DEF SumAmong

LEMMA SumIsInt ==
    ASSUME NEW S, NEW w, \A x \in S : w[x] \in Int, NEW K, NEW s \in Seq(S)
    PROVE  SumAmong(w, s, K) \in Int
<1>1. Among(s, K) \in Seq(S)
  BY AmongAppended
<1>2. Weights(w, Among(s, K)) \in Seq(Int)
  BY <1>1, WeightsAre
<1> QED
  BY <1>2, TotalIsInt DEF SumAmong

\* What is in one of two sets is summed once.
LEMMA SumOfBoth ==
    ASSUME NEW S, NEW w, \A x \in S : w[x] \in Int, NEW K, NEW L, K \cap L = {},
           NEW s \in Seq(S)
    PROVE  SumAmong(w, s, K \cup L) = SumAmong(w, s, K) + SumAmong(w, s, L)
<1> DEFINE P == {t \in Seq(S) :
                   SumAmong(w, t, K \cup L) = SumAmong(w, t, K) + SumAmong(w, t, L)}
<1>1. <<>> \in P
  BY EmptySeq, SumOfNone
<1>2. ASSUME NEW t \in Seq(S), t \in P, NEW x \in S PROVE Append(t, x) \in P
  <2>1. Append(t, x) \in Seq(S)
    BY AppendFacts
  <2>2. \A M : /\ SumAmong(w, t, M) \in Int
               /\ SumAmong(w, Append(t, x), M) =
                     IF x \in M THEN SumAmong(w, t, M) + w[x] ELSE SumAmong(w, t, M)
    BY SumAppended
  <2>3. /\ SumAmong(w, t, K) \in Int /\ SumAmong(w, t, L) \in Int
        /\ SumAmong(w, t, K \cup L) = SumAmong(w, t, K) + SumAmong(w, t, L) /\ w[x] \in Int
    BY <1>2, <2>2
  <2>4. SumAmong(w, Append(t, x), K) =
           IF x \in K THEN SumAmong(w, t, K) + w[x] ELSE SumAmong(w, t, K)
    BY <2>2
  <2>5. SumAmong(w, Append(t, x), L) =
           IF x \in L THEN SumAmong(w, t, L) + w[x] ELSE SumAmong(w, t, L)
    BY <2>2
  <2>6. SumAmong(w, Append(t, x), K \cup L) =
           IF x \in K \cup L THEN SumAmong(w, t, K \cup L) + w[x]
           ELSE SumAmong(w, t, K \cup L)
    BY <2>2
  <2>7. ~(x \in K /\ x \in L)
    OBVIOUS
  <2>8. SumAmong(w, Append(t, x), K \cup L) =
           SumAmong(w, Append(t, x), K) + SumAmong(w, Append(t, x), L)
    <3>1. CASE x \in K
      BY <2>3, <2>4, <2>5, <2>6, <2>7, <3>1
    <3>2. CASE x \in L
      BY <2>3, <2>4, <2>5, <2>6, <2>7, <3>2
    <3>3. CASE x \notin K /\ x \notin L
      BY <2>3, <2>4, <2>5, <2>6, <3>3
    <3> QED
      BY <3>1, <3>2, <3>3
  <2> QED
    BY <2>1, <2>8
<1>3. s \in P
  <2> HIDE DEF P
  <2> QED
    BY <1>1, <1>2, Appended
<1> QED
  BY <1>3

-----------------------------------------------------------------------------
(* The rules that are saved.                                               *)

CatalogInv ==
    /\ catalog = [dataset |-> catalog.dataset, rule |-> catalog.rule]
    /\ catalog.dataset \in Datasets
    /\ catalog.rule = NoRule \/ ~RuleShapeIssues(catalog.rule)

LEMMA ShapedRulesParse ==
    ASSUME NEW rule, ~RuleShapeIssues(rule) PROVE RuleParses(rule)
<1>1. /\ Priced(rule.level) = (rule.categoryId # None)
      /\ (rule.level = "SURFACE") = (rule.surface # None)
  BY DEF RuleShapeIssues, ExpectedFields, Priced
<1>2. rule.baseComponent => rule.level = "OBJECT"
  BY DEF RuleShapeIssues
<1>3. /\ Priced(rule.level) = (rule.quantityFormula # NoFormula)
      /\ rule.laborFormula # NoFormula => Priced(rule.level)
  BY DEF RuleShapeIssues, FormulaShapeIssues, Priced
<1>4. rule.level = "SURFACE" => rule.categoryId = None
  BY <1>1 DEF Priced
<1> QED
  BY <1>1, <1>2, <1>3, <1>4 DEF RuleParses

LEMMA CatalogInit == Init => CatalogInv
  BY DEF Init, CatalogInv

LEMMA CatalogStep == CatalogInv /\ [Next]_vars => CatalogInv'
<1> SUFFICES ASSUME CatalogInv, [Next]_vars PROVE CatalogInv'
  OBVIOUS
<1> USE DEF CatalogInv
<1>1. ASSUME UNCHANGED catalog PROVE CatalogInv'
  BY <1>1
<1>2. ASSUME NEW name \in Datasets, ChangeDataset(name) PROVE CatalogInv'
  BY <1>2 DEF ChangeDataset
<1>3. ASSUME NEW input \in RuleInputs, CreateRule(input) PROVE CatalogInv'
  BY <1>3 DEF CreateRule
<1>4. ASSUME NEW patch \in Patches, PatchRule(patch) PROVE CatalogInv'
  BY <1>4 DEF PatchRule
<1>5. UNCHANGED catalog
      \/ (\E name \in Datasets : ChangeDataset(name))
      \/ (\E input \in RuleInputs : CreateRule(input))
      \/ (\E patch \in Patches : PatchRule(patch))
  BY DEF Next, vars, Save, Recalculate, AskStatus, AnswerStatus, StatusUnavailable, Refresh
<1> QED
  BY <1>1, <1>2, <1>3, <1>4, <1>5

LEMMA SavedRuleParses == CatalogInv => AcceptedRulesParse
<1> SUFFICES ASSUME CatalogInv, NEW rule \in ToSet(SavedRules(catalog)) PROVE RuleParses(rule)
  BY DEF AcceptedRulesParse
<1>1. catalog.rule # NoRule /\ rule = catalog.rule
  BY DEF SavedRules, ToSet
<1> QED
  BY <1>1, ShapedRulesParse DEF CatalogInv

\* Whatever rule an administrator creates or patches satisfies the schema of the
\* pricing data, so that no accepted rule keeps the estimates from being made.
THEOREM AcceptedRulesAreParsed == Spec => []AcceptedRulesParse
<1>1. Spec => []CatalogInv
  BY CatalogInit, CatalogStep, PTL DEF Spec
<1> QED
  BY <1>1, SavedRuleParses, PTL

-----------------------------------------------------------------------------
(* Lines.                                                                  *)

LineFields == {"id", "section", "status", "roomClientId", "categoryId", "productId",
               "optionId", "packageItemId", "ruleId", "quantity", "amountCents",
               "components", "warnings", "error"}
LineIdFields == {"roomClientId", "categoryId", "productId", "optionId", "ruleId"}
IsInit(init) == {"id", "section"} \subseteq DOMAIN init /\ DOMAIN init \subseteq LineFields

Given(init, field, default) == IF field \in DOMAIN init THEN init[field] ELSE default

\* A line of what its init says it is a line of.
Carries(line, init) ==
    /\ DOMAIN line = LineFields
    /\ line.id = init.id /\ line.section = init.section
    /\ \A field \in LineIdFields : line[field] = Given(init, field, None)

LEMMA LineIs ==
    ASSUME NEW init, IsInit(init)
    PROVE  /\ Carries(Line(init), init)
           /\ Line(init).status = Given(init, "status", "OK")
           /\ Line(init).amountCents = Given(init, "amountCents", 0)
           /\ Line(init).components = Given(init, "components", <<>>)
           /\ Line(init).warnings = Given(init, "warnings", {})
           /\ Line(init).error = Given(init, "error", None)
           /\ Line(init).quantity = Given(init, "quantity", Missing)
<1>1. DOMAIN Line(init) = LineFields
  BY DEF Line, ++, IsInit, LineFields
<1>2. Line(init).id = init.id /\ Line(init).section = init.section
  BY DEF Line, ++, IsInit
<1>3. \A field \in LineIdFields : Line(init)[field] = Given(init, field, None)
  BY DEF Line, ++, IsInit, LineIdFields, Given
<1>4. /\ Line(init).status = Given(init, "status", "OK")
      /\ Line(init).amountCents = Given(init, "amountCents", 0)
      /\ Line(init).components = Given(init, "components", <<>>)
  BY DEF Line, ++, IsInit, Given
<1>5. /\ Line(init).warnings = Given(init, "warnings", {})
      /\ Line(init).error = Given(init, "error", None)
      /\ Line(init).quantity = Given(init, "quantity", Missing)
  BY DEF Line, ++, IsInit, Given
<1> QED
  BY <1>1, <1>2, <1>3, <1>4, <1>5 DEF Carries

LEMMA WithField ==
    ASSUME NEW f, NEW g
    PROVE  /\ DOMAIN (f ++ g) = DOMAIN f \cup DOMAIN g
           /\ \A x \in DOMAIN f : (f ++ g)[x] = f[x]
           /\ \A x \in DOMAIN g \ DOMAIN f : (f ++ g)[x] = g[x]
  BY DEF ++

\* A line that costs nothing.
Free(line) == line.amountCents = 0 /\ line.components = <<>>

LEMMA FailedLineIs ==
    ASSUME NEW init, IsInit(init), NEW status, NEW error,
           "amountCents" \notin DOMAIN init, "components" \notin DOMAIN init
    PROVE  /\ Carries(FailedLine(init, status, error), init)
           /\ Free(FailedLine(init, status, error))
           /\ FailedLine(init, status, error).status = status
           /\ FailedLine(init, status, error).error = error
<1> DEFINE failed == [status |-> status, error |-> error]
           init2 == failed ++ init
<1>1. /\ DOMAIN init2 = {"status", "error"} \cup DOMAIN init
      /\ init2.status = status /\ init2.error = error
      /\ \A x \in DOMAIN init \ {"status", "error"} : init2[x] = init[x]
  BY DEF ++
<1> HIDE DEF init2
<1>2. IsInit(init2)
  BY <1>1 DEF IsInit, LineFields
<1>3. \A field \in LineIdFields : Given(init2, field, None) = Given(init, field, None)
  BY <1>1 DEF LineIdFields, Given
<1>4. init2.id = init.id /\ init2.section = init.section
  BY <1>1 DEF IsInit
<1>5. /\ Carries(Line(init2), init2)
      /\ Line(init2).status = Given(init2, "status", "OK")
      /\ Line(init2).amountCents = Given(init2, "amountCents", 0)
      /\ Line(init2).components = Given(init2, "components", <<>>)
      /\ Line(init2).error = Given(init2, "error", None)
  BY <1>2, LineIs
<1>6. Carries(Line(init2), init)
  BY <1>3, <1>4, <1>5 DEF Carries
<1>7. /\ Line(init2).status = status /\ Line(init2).error = error
      /\ Line(init2).amountCents = 0 /\ Line(init2).components = <<>>
  BY <1>1, <1>5 DEF Given
<1> QED
  BY <1>6, <1>7 DEF FailedLine, Free, init2

LEMMA Multiplied ==
    ASSUME NEW a \in Nat, NEW b \in Nat, NEW k \in Nat, a <= b
    PROVE  k * a \in Nat /\ k * b \in Nat /\ k * a <= k * b
  OBVIOUS

LEMMA Division ==
    ASSUME NEW a \in Nat, NEW b \in Nat \ {0}
    PROVE  /\ a \div b \in Nat
           /\ b * (a \div b) \in Nat /\ b * (a \div b) <= a
           /\ a < b * (a \div b) + b
  OBVIOUS

LEMMA CentsInRange ==
    ASSUME NEW dollars \in Int, InRange(dollars)
    PROVE  ToCents(dollars) \in 0 .. MaxLineCents
<1> DEFINE x == dollars * 100
           h == Scale \div 2
           q == (x + h) \div Scale
<1>1. Scale \in Nat \ {0} /\ MaxLineCents \in Nat
  BY LimitsAssumption, MaxLineCentsAssumption
<1>2. x \in Nat /\ x <= MaxLineCents * Scale
  BY <1>1 DEF InRange
<1>3. h \in Nat /\ h < Scale
  BY <1>1
<1> HIDE DEF x, h
<1>4. q \in Nat /\ Scale * q \in Nat /\ Scale * q <= x + h
  BY <1>1, <1>2, <1>3, Division
<1> HIDE DEF q
<1>5. q <= MaxLineCents
  <2> SUFFICES ASSUME MaxLineCents + 1 <= q PROVE FALSE
    BY <1>1, <1>4
  <2>1. Scale * (MaxLineCents + 1) <= Scale * q
    BY <1>1, <1>4, Multiplied
  <2>2. Scale * (MaxLineCents + 1) = MaxLineCents * Scale + Scale
    BY <1>1
  <2>3. MaxLineCents * Scale \in Nat
    BY <1>1
  <2> QED
    BY <1>1, <1>2, <1>3, <1>4, <2>1, <2>2, <2>3
<1>6. ToCents(dollars) = q
  BY DEF ToCents, q, x, h
<1> QED
  BY <1>1, <1>4, <1>5, <1>6

\* What a formula gives, whatever it says: a number that is not negative.
LEMMA FormulaGives ==
    ASSUME NEW node, NEW scope, ~Failed(RunNumericFormula(node, scope))
    PROVE  RunNumericFormula(node, scope).n \in Nat
<1> DEFINE value == Walk(node, scope)
<1>1. ParseError(node) = "none"
  BY DEF RunNumericFormula, Failed, Failure
<1>2. RunNumericFormula(node, scope) = NotNegative(value)
  BY <1>1 DEF RunNumericFormula
<1> HIDE DEF value
<1>3. ~Failed(value)
  BY <1>2, Zenon DEF NotNegative
<1>4. IsNumber(value)
  <2> SUFFICES ASSUME ~IsNumber(value) PROVE FALSE
    OBVIOUS
  <2>1. NotNegative(value) = Failure("TYPE_MISMATCH")
    BY <1>3, Zenon DEF NotNegative
  <2>2. Failure("TYPE_MISMATCH").kind = "failure"
    BY DEF Failure
  <2> QED
    BY <1>2, <2>1, <2>2 DEF Failed
<1>5. NotNegative(value) = IF value.n < 0 THEN Failure("NEGATIVE") ELSE value
  BY <1>3, <1>4 DEF NotNegative
<1>6. ~(value.n < 0)
  BY <1>2, <1>5 DEF Failed, Failure
<1> QED
  BY <1>2, <1>4, <1>5, <1>6 DEF IsNumber

LEMMA PricedLineIs ==
    ASSUME NEW init, IsInit(init), NEW dollars \in Int,
           {"amountCents", "components", "status"} \cap DOMAIN init = {}
    PROVE  /\ Carries(PricedLine(init, dollars), init)
           /\ PricedLine(init, dollars).amountCents \in 0 .. MaxLineCents
           /\ PricedLine(init, dollars).components = <<>>
           /\ \/ /\ InRange(dollars) /\ PricedLine(init, dollars).status = "OK"
                 /\ PricedLine(init, dollars).amountCents = ToCents(dollars)
              \/ /\ ~InRange(dollars) /\ PricedLine(init, dollars).status = "ERROR"
                 /\ PricedLine(init, dollars).amountCents = 0
<1>1. CASE ~InRange(dollars)
  <2>1. PricedLine(init, dollars) = FailedLine(init, "ERROR", "AMOUNT_OUT_OF_RANGE")
    BY <1>1 DEF PricedLine
  <2>2. 0 \in 0 .. MaxLineCents
    BY MaxLineCentsAssumption
  <2> QED
    BY <1>1, <2>1, <2>2, FailedLineIs DEF Free
<1>2. CASE InRange(dollars)
  <2> DEFINE init2 == [amountCents |-> ToCents(dollars)] ++ init
  <2>1. PricedLine(init, dollars) = Line(init2)
    BY <1>2 DEF PricedLine
  <2>2. /\ DOMAIN init2 = {"amountCents"} \cup DOMAIN init
        /\ init2.amountCents = ToCents(dollars)
        /\ \A x \in DOMAIN init : init2[x] = init[x]
    BY DEF ++
  <2> HIDE DEF init2
  <2>3. IsInit(init2)
    BY <2>2 DEF IsInit, LineFields
  <2>4. /\ Carries(Line(init2), init2)
        /\ Line(init2).status = Given(init2, "status", "OK")
        /\ Line(init2).amountCents = Given(init2, "amountCents", 0)
        /\ Line(init2).components = Given(init2, "components", <<>>)
    BY <2>3, LineIs
  <2>5. \A field \in LineIdFields : Given(init2, field, None) = Given(init, field, None)
    BY <2>2 DEF LineIdFields, Given
  <2>6. init2.id = init.id /\ init2.section = init.section
    BY <2>2 DEF IsInit
  <2>7. Carries(Line(init2), init)
    BY <2>4, <2>5, <2>6 DEF Carries
  <2>8. /\ Line(init2).status = "OK" /\ Line(init2).components = <<>>
        /\ Line(init2).amountCents = ToCents(dollars)
    BY <2>2, <2>4 DEF Given
  <2> QED
    BY <1>2, <2>1, <2>7, <2>8, CentsInRange
<1> QED
  BY <1>1, <1>2


-----------------------------------------------------------------------------
(* What is made of sequences is a sequence.                                *)

LEMMA ListIs ==
    ASSUME NEW n \in Nat, NEW g, g = [i \in 1 .. n |-> g[i]]
    PROVE  IsSequence(g) /\ ToSet(g) = {g[i] : i \in 1 .. n}
  BY ListFacts DEF IsSequence

LEMMA SequenceIs ==
    ASSUME NEW s, IsSequence(s)
    PROVE  /\ Len(s) \in Nat /\ DOMAIN s = 1 .. Len(s)
           /\ s = [i \in 1 .. Len(s) |-> s[i]]
           /\ \A i \in 1 .. Len(s) : s[i] \in ToSet(s)
           /\ \A x \in ToSet(s) : \E i \in 1 .. Len(s) : x = s[i]
<1>1. s \in Seq(ToSet(s))
  BY DEF IsSequence
<1> QED
  BY <1>1, SeqFacts, LenProperties

LEMMA EmptyIs == IsSequence(<<>>) /\ ToSet(<<>>) = {}
  BY EmptySet, EmptySeq DEF IsSequence

LEMMA AmongIs ==
    ASSUME NEW s, IsSequence(s), NEW K
    PROVE  IsSequence(Among(s, K)) /\ ToSet(Among(s, K)) = ToSet(s) \cap K
<1>1. s \in Seq(ToSet(s))
  BY DEF IsSequence
<1>2. /\ Among(s, K) \in Seq(ToSet(s))
      /\ ToSet(Among(s, K)) = ToSet(s) \cap K
  BY <1>1, AmongFacts
<1> QED
  BY <1>2, SeqFacts DEF IsSequence

LEMMA ConcatIs ==
    ASSUME NEW s, NEW t, IsSequence(s), IsSequence(t)
    PROVE  IsSequence(s \o t) /\ ToSet(s \o t) = ToSet(s) \cup ToSet(t)
<1> DEFINE S == ToSet(s) \cup ToSet(t)
<1>1. s \in Seq(S) /\ t \in Seq(S)
  <2>1. ToSet(s) \subseteq S /\ ToSet(t) \subseteq S
    OBVIOUS
  <2> HIDE DEF S
  <2> QED
    BY <2>1, SeqMonotonic DEF IsSequence
<1>2. s \o t \in Seq(S) /\ ToSet(s \o t) = S
  <2> HIDE DEF S
  <2>1. s \o t \in Seq(S) /\ ToSet(s \o t) = ToSet(s) \cup ToSet(t)
    BY <1>1, ConcatFacts
  <2> QED
    BY <2>1 DEF S
<1> QED
  BY <1>2 DEF IsSequence

LEMMA FlattenIs ==
    ASSUME NEW n \in Nat, NEW g, g = [i \in 1 .. n |-> g[i]],
           \A i \in 1 .. n : IsSequence(g[i])
    PROVE  /\ IsSequence(FlattenSeq(g))
           /\ ToSet(FlattenSeq(g)) = UNION {ToSet(g[i]) : i \in 1 .. n}
<1> DEFINE S == UNION {ToSet(g[i]) : i \in 1 .. n}
<1>1. \A i \in 1 .. n : g[i] \in Seq(S)
  <2>1. \A i \in 1 .. n : g[i] \in Seq(ToSet(g[i])) /\ ToSet(g[i]) \subseteq S
    BY DEF IsSequence
  <2> HIDE DEF S
  <2> QED
    BY <2>1, SeqMonotonic
<1>2. IsSequence(g) /\ ToSet(g) = {g[i] : i \in 1 .. n}
  BY ListIs
<1>3. g \in Seq(Seq(S))
  <2> HIDE DEF S
  <2>1. ToSet(g) \subseteq Seq(S)
    BY <1>1, <1>2
  <2> QED
    BY <1>2, <2>1, SeqMonotonic DEF IsSequence
<1>4. /\ FlattenSeq(g) \in Seq(S)
      /\ ToSet(FlattenSeq(g)) = UNION {ToSet(s) : s \in ToSet(g)}
  <2> HIDE DEF S
  <2> QED
    BY <1>3, FlattenIsSeq, FlattenedSet
<1>5. UNION {ToSet(s) : s \in ToSet(g)} = S
  BY <1>2
<1> QED
  BY <1>4, <1>5 DEF IsSequence

\* Total of a list of numbers.
LEMMA TotalOfList ==
    ASSUME NEW n \in Nat, NEW g, g = [i \in 1 .. n |-> g[i]]
    PROVE  /\ (\A i \in 1 .. n : g[i] \in Nat) => Total(g) \in Nat
           /\ (\A i \in 1 .. n : g[i] \in Int) => Total(g) \in Int
<1>1. g \in Seq(ToSet(g)) /\ ToSet(g) = {g[i] : i \in 1 .. n}
  BY ListFacts
<1>2. (\A i \in 1 .. n : g[i] \in Nat) => g \in Seq(Nat)
  <2>1. (\A i \in 1 .. n : g[i] \in Nat) => ToSet(g) \subseteq Nat
    BY <1>1
  <2> QED
    BY <1>1, <2>1, SeqMonotonic
<1>3. (\A i \in 1 .. n : g[i] \in Int) => g \in Seq(Int)
  <2>1. (\A i \in 1 .. n : g[i] \in Int) => ToSet(g) \subseteq Int
    BY <1>1
  <2> QED
    BY <1>1, <2>1, SeqMonotonic
<1> QED
  BY <1>2, <1>3, TotalIsNat, TotalIsInt

LEMMA SingletonIs ==
    ASSUME NEW x
    PROVE  IsSequence(<<x>>) /\ ToSet(<<x>>) = {x} /\ Len(<<x>>) = 1
<1>1. <<x>> \in Seq({x}) /\ Len(<<x>>) = 1 /\ <<x>>[1] = x
  OBVIOUS
<1>2. ToSet(<<x>>) = {x}
  <2>1. DOMAIN <<x>> = 1 .. 1
    OBVIOUS
  <2>2. 1 .. 1 = {1}
    OBVIOUS
  <2> QED
    BY <1>1, <2>1, <2>2 DEF ToSet
<1> QED
  BY <1>1, <1>2 DEF IsSequence

-----------------------------------------------------------------------------
(* The kinds of lines.                                                     *)

\* What holds of every line, whatever it is a line of.
Sound(line) ==
    /\ line.amountCents \in 0 .. MaxLineCents
    /\ IsSequence(line.components)
    /\ \A k \in ToSet(line.components) : k.amountCents \in Nat
    /\ line.status # "OK" => Free(line)
    /\ line.components # <<>> => line.amountCents = ComponentsTotal(line.components)

LEMMA FreeIsSound == ASSUME NEW line, Free(line) PROVE Sound(line)
<1>1. 0 \in 0 .. MaxLineCents
  BY MaxLineCentsAssumption
<1> QED
  BY <1>1, EmptyIs DEF Sound, Free

LEMMA PricedIsSound ==
    ASSUME NEW init, IsInit(init), NEW dollars \in Int,
           {"amountCents", "components", "status"} \cap DOMAIN init = {}
    PROVE  Carries(PricedLine(init, dollars), init) /\ Sound(PricedLine(init, dollars))
<1> DEFINE line == PricedLine(init, dollars)
<1>1. /\ Carries(line, init) /\ line.amountCents \in 0 .. MaxLineCents
      /\ line.components = <<>>
      /\ line.status # "OK" => line.amountCents = 0
  BY PricedLineIs
<1> HIDE DEF line
<1>2. Sound(line)
  BY <1>1, EmptyIs DEF Sound, Free
<1> QED
  BY <1>1, <1>2 DEF line

\* The rules of an object, the outcome of one, and the line it gives.
ObjectRules(data, section) ==
    BySortOrder(Only(data.rules, LAMBDA r : /\ r.level = "OBJECT"
                                            /\ r.baseComponent = (section = "BASE")))
ObjectOutcome(c, data, rule) ==
    RunNumericFormula(rule.costFormula,
        [variables |-> ObjectVariables(c, data.categories),
         coefficients |-> data.coefficients])
OfObject(section, rule) ==
    [id |-> <<section, rule.id>>, section |-> section, ruleId |-> rule.id]
ObjectLine(c, data, section, rule) ==
    LET outcome == ObjectOutcome(c, data, rule) IN
    IF Failed(outcome) THEN FailedLine(OfObject(section, rule), "ERROR", outcome.code)
    ELSE PricedLine(OfObject(section, rule), outcome.n)

LEMMA ObjectLineIs ==
    ASSUME NEW c, NEW data, NEW section, NEW rule
    PROVE  /\ Carries(ObjectLine(c, data, section, rule), OfObject(section, rule))
           /\ Sound(ObjectLine(c, data, section, rule))
           /\ ObjectLine(c, data, section, rule).components = <<>>
           /\ ObjectLine(c, data, section, rule).status = "OK" =>
                 LET outcome == ObjectOutcome(c, data, rule) IN
                 /\ ~Failed(outcome) /\ InRange(outcome.n)
                 /\ ObjectLine(c, data, section, rule).amountCents = ToCents(outcome.n)
<1> DEFINE line == ObjectLine(c, data, section, rule)
           outcome == ObjectOutcome(c, data, rule)
           init == OfObject(section, rule)
<1>1. IsInit(init) /\ DOMAIN init = {"id", "section", "ruleId"}
  BY DEF OfObject, IsInit, LineFields
<1>2. CASE Failed(outcome)
  <2>1. line = FailedLine(init, "ERROR", outcome.code)
    BY <1>2 DEF ObjectLine
  <2> HIDE DEF line, init, outcome
  <2>2. Carries(line, init) /\ Free(line) /\ line.status = "ERROR"
    BY <1>1, <2>1, FailedLineIs
  <2> QED
    BY <2>2, FreeIsSound DEF Free, line, init, outcome
<1>3. CASE ~Failed(outcome)
  <2>1. outcome.n \in Nat
    BY <1>3, FormulaGives DEF ObjectOutcome
  <2>2. line = PricedLine(init, outcome.n)
    BY <1>3 DEF ObjectLine
  <2> HIDE DEF line, init, outcome
  <2>3. Carries(line, init) /\ Sound(line)
    BY <1>1, <2>1, <2>2, PricedIsSound
  <2>4. /\ line.components = <<>>
        /\ line.status = "OK" => InRange(outcome.n) /\ line.amountCents = ToCents(outcome.n)
    BY <1>1, <2>1, <2>2, PricedLineIs
  <2> QED
    BY <1>3, <2>3, <2>4 DEF line, init, outcome
<1> QED
  BY <1>2, <1>3

\* The lines of a list that pass a test.
LEMMA OnlyIs ==
    ASSUME NEW s, IsSequence(s), NEW K, K \subseteq ToSet(s)
    PROVE  IsSequence(Among(s, K)) /\ ToSet(Among(s, K)) = K
  BY AmongIs

LEMMA SortedIsList ==
    ASSUME NEW s, IsSequence(s)
    PROVE  /\ IsSequence(BySortOrder(s))
           /\ BySortOrder(s) = [i \in 1 .. Len(s) |-> BySortOrder(s)[i]]
<1>1. Len(s) \in Nat /\ DOMAIN s = 1 .. Len(s)
  BY SequenceIs
<1>2. BySortOrder(s) = [i \in 1 .. Len(s) |-> BySortOrder(s)[i]]
  BY <1>1 DEF BySortOrder
<1> QED
  BY <1>1, <1>2, ListIs

LEMMA ObjectLinesAre ==
    ASSUME NEW c, NEW data, IsSequence(data.rules), NEW section
    PROVE  /\ IsSequence(ObjectRuleLines(c, data, section))
           /\ \A line \in ToSet(ObjectRuleLines(c, data, section)) :
                 \E rule \in ToSet(ObjectRules(data, section)) :
                    line = ObjectLine(c, data, section, rule)
<1> DEFINE rules == ObjectRules(data, section)
           all == [i \in DOMAIN rules |-> ObjectLine(c, data, section, rules[i])]
           K == {l \in ToSet(all) : section # "BASE" \/ l.status # "OK" \/ l.amountCents # 0}
<1>1. IsSequence(rules)
  <2> DEFINE k == {r \in ToSet(data.rules) : /\ r.level = "OBJECT"
                                             /\ r.baseComponent = (section = "BASE")}
  <2>1. rules = BySortOrder(Among(data.rules, k))
    BY DEF ObjectRules, Only
  <2> HIDE DEF k, rules
  <2> QED
    BY <2>1, AmongIs, SortedIsList
<1>2. /\ Len(rules) \in Nat /\ DOMAIN rules = 1 .. Len(rules)
      /\ \A i \in 1 .. Len(rules) : rules[i] \in ToSet(rules)
  <2> HIDE DEF rules
  <2> QED
    BY <1>1, SequenceIs
<1>3. IsSequence(all) /\ ToSet(all) = {all[i] : i \in 1 .. Len(rules)}
  <2>1. all = [i \in 1 .. Len(rules) |-> all[i]]
    BY <1>2
  <2> HIDE DEF all, rules
  <2> QED
    BY <1>2, <2>1, ListIs
<1>4. ASSUME NEW line \in ToSet(all)
      PROVE  \E rule \in ToSet(rules) : line = ObjectLine(c, data, section, rule)
  <2>1. PICK i \in 1 .. Len(rules) : line = all[i]
    BY <1>3
  <2>2. line = ObjectLine(c, data, section, rules[i])
    BY <1>2, <2>1
  <2> QED
    BY <1>2, <2>2
<1>5. ObjectRuleLines(c, data, section) =
          IF section = "BASE" /\ c.scope # "FULL" THEN <<>> ELSE Among(all, K)
  BY DEF ObjectRuleLines, ObjectRules, ObjectLine, ObjectOutcome, OfObject, Map, Only
<1>6. IsSequence(Among(all, K)) /\ ToSet(Among(all, K)) \subseteq ToSet(all)
  <2> HIDE DEF all, K
  <2> QED
    BY <1>3, AmongIs
<1> HIDE DEF all, K, rules
<1>7. /\ IsSequence(ObjectRuleLines(c, data, section))
      /\ ToSet(ObjectRuleLines(c, data, section)) \subseteq ToSet(all)
  BY <1>5, <1>6, EmptyIs
<1> QED
  BY <1>4, <1>7 DEF rules

-----------------------------------------------------------------------------
(* The lines of materials.                                                 *)

LEMMA SumOfComponents ==
    ASSUME NEW s, IsSequence(s), \A k \in ToSet(s) : k.amountCents \in Nat
    PROVE  ComponentsTotal(s) \in Nat
<1> DEFINE g == [i \in DOMAIN s |-> s[i].amountCents]
<1>1. /\ Len(s) \in Nat /\ DOMAIN s = 1 .. Len(s)
      /\ \A i \in 1 .. Len(s) : s[i] \in ToSet(s)
  BY SequenceIs
<1>2. g = [i \in 1 .. Len(s) |-> g[i]] /\ \A i \in 1 .. Len(s) : g[i] \in Nat
  BY <1>1
<1>3. ComponentsTotal(s) = Total(g)
  BY DEF ComponentsTotal, Sum, Map
<1> HIDE DEF g
<1> QED
  BY <1>1, <1>2, <1>3, TotalOfList

\* The components of a priced material.
MaterialComponents(c, rule, cost, labor) ==
    <<Component("MATERIAL", rule, ToCents(cost.n), None)>>
    \o IF c.scope = "FULL" THEN <<>>
       ELSE <<Component("LABOR", rule, ToCents(labor.n), None)>>

LEMMA MaterialComponentsAre ==
    ASSUME NEW c, NEW rule, NEW cost, NEW labor, cost.n \in Int, InRange(cost.n),
           labor.n \in Int, InRange(labor.n)
    PROVE  LET components == MaterialComponents(c, rule, cost, labor) IN
           /\ IsSequence(components)
           /\ components # <<>>
           /\ \A k \in ToSet(components) :
                 k.amountCents \in Nat /\ k.kind \in {"MATERIAL", "LABOR"}
<1> DEFINE m == Component("MATERIAL", rule, ToCents(cost.n), None)
           l == Component("LABOR", rule, ToCents(labor.n), None)
           rest == IF c.scope = "FULL" THEN <<>> ELSE <<l>>
<1>1. ToCents(cost.n) \in Nat /\ ToCents(labor.n) \in Nat
  BY CentsInRange, MaxLineCentsAssumption
<1>2. /\ m.amountCents \in Nat /\ m.kind = "MATERIAL"
      /\ l.amountCents \in Nat /\ l.kind = "LABOR"
  BY <1>1 DEF Component
<1> HIDE DEF m, l
<1>3. /\ IsSequence(<<m>>) /\ ToSet(<<m>>) = {m}
      /\ IsSequence(<<l>>) /\ ToSet(<<l>>) = {l}
  BY SingletonIs
<1>4. IsSequence(rest) /\ ToSet(rest) \subseteq {l}
  BY <1>3, EmptyIs
<1> HIDE DEF rest
<1>5. IsSequence(<<m>> \o rest) /\ ToSet(<<m>> \o rest) = {m} \cup ToSet(rest)
  BY <1>3, <1>4, ConcatIs
<1>6. <<m>> \o rest # <<>>
  BY <1>5, EmptyIs
<1>7. MaterialComponents(c, rule, cost, labor) = <<m>> \o rest
  BY DEF MaterialComponents, m, l, rest
<1> QED
  BY <1>2, <1>4, <1>5, <1>6, <1>7

LEMMA MaterialLineOfIs ==
    ASSUME NEW c, NEW rule, NEW init, IsInit(init), "warnings" \in DOMAIN init,
           {"amountCents", "components", "status", "quantity", "error"} \cap DOMAIN init = {},
           NEW quantity, NEW cost, NEW labor,
           ~Failed(cost) => cost.n \in Nat, ~Failed(labor) => labor.n \in Nat
    PROVE  LET line == MaterialLineOf(c, rule, init, quantity, cost, labor) IN
           /\ Carries(line, init) /\ Sound(line)
           /\ line.status = "OK" =>
                 /\ ~Failed(quantity)
                 /\ ~Failed(cost) /\ InRange(cost.n)
                 /\ ~Failed(labor) /\ InRange(labor.n)
                 /\ line.quantity = quantity.n
                 /\ line.components = MaterialComponents(c, rule, cost, labor)
<1> DEFINE line == MaterialLineOf(c, rule, init, quantity, cost, labor)
           components == MaterialComponents(c, rule, cost, labor)
           good == /\ ~Failed(quantity)
                   /\ ~Failed(cost) /\ InRange(cost.n)
                   /\ ~Failed(labor) /\ InRange(labor.n)
                   /\ ~(ComponentsTotal(components) > MaxLineCents)
           more == {"LABOR_RATE_MISSING"}
           init2 == [quantity |-> quantity.n, components |-> components,
                     amountCents |-> ComponentsTotal(components),
                     warnings |-> init.warnings \cup
                        IF c.scope = "PARTIAL" /\ rule.laborFormula = NoFormula
                        THEN {"LABOR_RATE_MISSING"} ELSE {}] ++ init
<1>1. ASSUME NEW error, line = FailedLine(init, "ERROR", error)
      PROVE  Carries(line, init) /\ Sound(line) /\ line.status = "ERROR"
  <2> HIDE DEF line
  <2>1. Carries(line, init) /\ Free(line) /\ line.status = "ERROR"
    BY <1>1, FailedLineIs
  <2> QED
    BY <2>1, FreeIsSound
<1>2. CASE ~good
  <2>1. \/ line = FailedLine(init, "ERROR", quantity.code)
        \/ line = FailedLine(init, "ERROR", cost.code)
        \/ line = FailedLine(init, "ERROR", labor.code)
        \/ line = FailedLine(init, "ERROR", "AMOUNT_OUT_OF_RANGE")
    <3> DEFINE c1 == Failed(quantity)
               c2 == ~Failed(quantity) /\ Failed(cost)
               c3 == ~Failed(quantity) /\ ~Failed(cost) /\ ~InRange(cost.n)
               c4 == ~Failed(quantity) /\ ~Failed(cost) /\ InRange(cost.n) /\ Failed(labor)
               bad == ~InRange(labor.n) \/ ComponentsTotal(components) > MaxLineCents
    <3>1. line = CASE c1 -> FailedLine(init, "ERROR", quantity.code)
                   [] c2 -> FailedLine(init, "ERROR", cost.code)
                   [] c3 -> FailedLine(init, "ERROR", "AMOUNT_OUT_OF_RANGE")
                   [] c4 -> FailedLine(init, "ERROR", labor.code)
                   [] OTHER -> IF bad THEN FailedLine(init, "ERROR", "AMOUNT_OUT_OF_RANGE")
                               ELSE Line(init2)
      BY DEF MaterialLineOf, MaterialComponents
    <3>2. c1 \/ c2 \/ c3 \/ c4 \/ (~c1 /\ ~c2 /\ ~c3 /\ ~c4 /\ bad)
      BY <1>2
    <3> HIDE DEF line, good, init2, c1, c2, c3, c4, bad
    <3>3. c1 => line = FailedLine(init, "ERROR", quantity.code)
      <4>1. c1 => ~c2 /\ ~c3 /\ ~c4
        BY DEF c1, c2, c3, c4
      <4> QED
        BY <3>1, <4>1
    <3>4. c2 => line = FailedLine(init, "ERROR", cost.code)
      <4>1. c2 => ~c1 /\ ~c3 /\ ~c4
        BY DEF c1, c2, c3, c4
      <4> QED
        BY <3>1, <4>1
    <3>5. c3 => line = FailedLine(init, "ERROR", "AMOUNT_OUT_OF_RANGE")
      <4>1. c3 => ~c1 /\ ~c2 /\ ~c4
        BY DEF c1, c2, c3, c4
      <4> QED
        BY <3>1, <4>1
    <3>6. c4 => line = FailedLine(init, "ERROR", labor.code)
      <4>1. c4 => ~c1 /\ ~c2 /\ ~c3
        BY DEF c1, c2, c3, c4
      <4> QED
        BY <3>1, <4>1
    <3>7. (~c1 /\ ~c2 /\ ~c3 /\ ~c4 /\ bad)
              => line = FailedLine(init, "ERROR", "AMOUNT_OUT_OF_RANGE")
      BY <3>1
    <3> QED
      BY <3>2, <3>3, <3>4, <3>5, <3>6, <3>7
  <2> QED
    BY <1>1, <2>1
<1>3. CASE good
  <2>1. line = Line(init2)
    BY <1>3 DEF MaterialLineOf, MaterialComponents
  <2>2. /\ DOMAIN init2 = {"quantity", "components", "amountCents", "warnings"} \cup DOMAIN init
        /\ init2.quantity = quantity.n /\ init2.components = components
        /\ init2.amountCents = ComponentsTotal(components)
        /\ \A x \in DOMAIN init \ {"quantity", "components", "amountCents", "warnings"} :
              init2[x] = init[x]
    BY DEF ++
  <2> HIDE DEF init2, line
  <2>3. IsInit(init2)
    BY <2>2 DEF IsInit, LineFields
  <2>4. /\ Carries(line, init2)
        /\ line.status = Given(init2, "status", "OK")
        /\ line.amountCents = Given(init2, "amountCents", 0)
        /\ line.components = Given(init2, "components", <<>>)
        /\ line.quantity = Given(init2, "quantity", Missing)
    BY <2>1, <2>3, LineIs
  <2>5. \A field \in LineIdFields : Given(init2, field, None) = Given(init, field, None)
    BY <2>2 DEF LineIdFields, Given
  <2>6. init2.id = init.id /\ init2.section = init.section
    BY <2>2 DEF IsInit
  <2>7. Carries(line, init)
    BY <2>4, <2>5, <2>6 DEF Carries
  <2>8. /\ line.status = "OK" /\ line.components = components
        /\ line.amountCents = ComponentsTotal(components)
        /\ line.quantity = quantity.n
    BY <2>2, <2>4 DEF Given
  <2>9. cost.n \in Int /\ labor.n \in Int
    BY <1>3
  <2>10. /\ IsSequence(components)
         /\ \A k \in ToSet(components) : k.amountCents \in Nat
    BY <1>3, <2>9, MaterialComponentsAre
  <2> HIDE DEF components
  <2>11. ComponentsTotal(components) \in 0 .. MaxLineCents
    <3>1. ComponentsTotal(components) \in Nat
      BY <2>10, SumOfComponents
    <3> QED
      BY <1>3, <3>1, MaxLineCentsAssumption
  <2>12. Sound(line)
    BY <2>8, <2>10, <2>11 DEF Sound
  <2> QED
    BY <1>3, <2>7, <2>8, <2>12 DEF line, components
<1> QED
  BY <1>2, <1>3

\* A selection's formulas, and the line of its material.
OfMaterial(room, selection, ruleId) ==
    [id |-> <<"MATERIALS", room.clientId, selection.categoryId>>,
     section |-> "MATERIALS", roomClientId |-> room.clientId,
     categoryId |-> selection.categoryId, productId |-> selection.productId,
     ruleId |-> ruleId]

RulesOf(data, selection) ==
    SelectRule(data, selection.categoryId,
               data.products[selection.productId].materialTypeId)
RunWith(data, formula, names) ==
    RunNumericFormula(formula, [variables |-> names, coefficients |-> data.coefficients])
QuantityOf(c, data, room, selection, rule) ==
    RunWith(data, rule.quantityFormula, SelectionVariables(c, data, room, selection))
WithQuantity(c, data, room, selection, rule) ==
    [quantity |-> QuantityOf(c, data, room, selection, rule)]
    ++ SelectionVariables(c, data, room, selection)
CostOf(c, data, room, selection, rule) ==
    RunWith(data, rule.costFormula, WithQuantity(c, data, room, selection, rule))
LaborOf(c, data, room, selection, rule) ==
    IF c.scope = "PARTIAL" /\ rule.laborFormula # NoFormula
    THEN RunWith(data, rule.laborFormula, WithQuantity(c, data, room, selection, rule))
    ELSE Num(0)

\* What a material's line says when it is priced.
MaterialIsPriced(c, data, room, selection, line) ==
    LET rule == Head(RulesOf(data, selection))
        quantity == QuantityOf(c, data, room, selection, rule)
        cost == CostOf(c, data, room, selection, rule)
        labor == LaborOf(c, data, room, selection, rule)
    IN  /\ RulesOf(data, selection) # <<>> /\ line.ruleId = rule.id
        /\ selection.productId \in DOMAIN data.products
        /\ selection.categoryId \in DOMAIN data.categories
        /\ ~Failed(quantity) /\ line.quantity = quantity.n
        /\ ~Failed(cost) /\ InRange(cost.n)
        /\ ~Failed(labor) /\ InRange(labor.n)
        /\ line.components = MaterialComponents(c, rule, cost, labor)

LEMMA MaterialLineIs ==
    ASSUME NEW c, NEW data, NEW room, NEW selection
    PROVE  LET line == MaterialLine(c, data, room, selection) IN
           /\ Carries(line, OfMaterial(room, selection, line.ruleId))
           /\ Sound(line)
           /\ line.status = "OK" => MaterialIsPriced(c, data, room, selection, line)
<1> DEFINE id == selection.productId
           found == /\ id \in DOMAIN data.products
                    /\ data.products[id].categoryId = selection.categoryId
                    /\ selection.categoryId \in DOMAIN data.categories
                    /\ data.products[id].available
           shareError == AreaShareError(room, selection, data.categories)
           rules == RulesOf(data, selection)
           init == [id |-> <<"MATERIALS", room.clientId, selection.categoryId>>,
                    section |-> "MATERIALS", roomClientId |-> room.clientId,
                    categoryId |-> selection.categoryId, productId |-> id]
           warnings ==
               IF /\ room.heatedFloor
                  /\ data.categories[selection.categoryId].surface = "FLOOR"
                  /\ ~data.products[id].heatedFloorCompatible
               THEN {"HEATED_FLOOR_INCOMPATIBLE"} ELSE {}
           line == MaterialLine(c, data, room, selection)
           init1 == [warnings |-> warnings] ++ init
           init2 == [warnings |-> warnings, ruleId |-> Head(rules).id] ++ init
           priced == PricedMaterialLine(c, data,
                        SelectionVariables(c, data, room, selection), Head(rules), init2)
<1>1. line = CASE shareError # None -> FailedLine(init, "ERROR", shareError)
               [] shareError = None /\ ~found ->
                     FailedLine(init, "UNAVAILABLE", "PRODUCT_UNAVAILABLE")
               [] OTHER -> IF rules = <<>>
                           THEN FailedLine(init1, "NOT_CALCULATED", "RULE_NOT_FOUND")
                           ELSE priced
  BY DEF MaterialLine, RulesOf
<1>2. \/ line = FailedLine(init, "ERROR", shareError)
      \/ line = FailedLine(init, "UNAVAILABLE", "PRODUCT_UNAVAILABLE")
      \/ line = FailedLine(init1, "NOT_CALCULATED", "RULE_NOT_FOUND")
      \/ found /\ rules # <<>> /\ line = priced
  <2> HIDE DEF line, shareError, found, rules, init, init1, priced
  <2> QED
    BY <1>1
<1>3. /\ DOMAIN init = {"id", "section", "roomClientId", "categoryId", "productId"}
      /\ init.id = <<"MATERIALS", room.clientId, selection.categoryId>>
      /\ init.section = "MATERIALS" /\ init.roomClientId = room.clientId
      /\ init.categoryId = selection.categoryId /\ init.productId = id
  OBVIOUS
<1> HIDE DEF warnings
<1>4. /\ DOMAIN init1 = {"id", "section", "roomClientId", "categoryId", "productId", "warnings"}
      /\ \A x \in DOMAIN init : init1[x] = init[x]
  BY DEF ++
<1>5. /\ DOMAIN init2 = {"id", "section", "roomClientId", "categoryId", "productId",
                         "warnings", "ruleId"}
      /\ init2.ruleId = Head(rules).id
      /\ \A x \in DOMAIN init : init2[x] = init[x]
  BY DEF ++
<1> HIDE DEF init, init1, init2
<1>6. IsInit(init) /\ IsInit(init1) /\ IsInit(init2)
  BY <1>3, <1>4, <1>5 DEF IsInit, LineFields
<1>7. ASSUME NEW l, Carries(l, init) \/ Carries(l, init1) \/ Carries(l, init2)
      PROVE  Carries(l, OfMaterial(room, selection, l.ruleId))
  <2> DEFINE own == OfMaterial(room, selection, l.ruleId)
  <2>1. /\ DOMAIN own = {"id", "section", "roomClientId", "categoryId", "productId", "ruleId"}
        /\ own.id = init.id /\ own.section = init.section
        /\ own.roomClientId = init.roomClientId /\ own.categoryId = init.categoryId
        /\ own.productId = init.productId /\ own.ruleId = l.ruleId
    BY <1>3 DEF OfMaterial
  <2> HIDE DEF own
  <2>2. /\ DOMAIN l = LineFields /\ l.id = init.id /\ l.section = init.section
        /\ l.roomClientId = init.roomClientId /\ l.categoryId = init.categoryId
        /\ l.productId = init.productId /\ l.optionId = None
    BY <1>3, <1>4, <1>5, <1>7 DEF Carries, LineIdFields, Given
  <2>3. \A field \in LineIdFields : l[field] = Given(own, field, None)
    BY <2>1, <2>2 DEF LineIdFields, Given
  <2> QED
    BY <2>1, <2>2, <2>3 DEF Carries, own
<1>8. ASSUME NEW i, i = init \/ i = init1, NEW status, status # "OK", NEW error,
             line = FailedLine(i, status, error)
      PROVE  /\ Carries(line, OfMaterial(room, selection, line.ruleId))
             /\ Sound(line) /\ line.status # "OK"
  <2>1. /\ IsInit(i) /\ "amountCents" \notin DOMAIN i /\ "components" \notin DOMAIN i
    BY <1>3, <1>4, <1>6, <1>8
  <2> HIDE DEF line
  <2>2. Carries(line, i) /\ Free(line) /\ line.status = status
    BY <1>8, <2>1, FailedLineIs
  <2> QED
    BY <1>7, <1>8, <2>2, FreeIsSound
<1>9. ASSUME found, rules # <<>>, line = priced
      PROVE  /\ Carries(line, OfMaterial(room, selection, line.ruleId)) /\ Sound(line)
             /\ line.status = "OK" => MaterialIsPriced(c, data, room, selection, line)
  <2> DEFINE rule == Head(rules)
             quantity == QuantityOf(c, data, room, selection, rule)
             cost == CostOf(c, data, room, selection, rule)
             labor == LaborOf(c, data, room, selection, rule)
  <2>1. priced = MaterialLineOf(c, rule, init2, quantity, cost, labor)
    BY DEF PricedMaterialLine, QuantityOf, CostOf, LaborOf, RunWith, WithQuantity
  <2>2. /\ ~Failed(cost) => cost.n \in Nat
        /\ ~Failed(labor) => labor.n \in Nat
    <3>1. ~Failed(cost) => cost.n \in Nat
      BY FormulaGives DEF CostOf, RunWith
    <3>2. CASE c.scope = "PARTIAL" /\ rule.laborFormula # NoFormula
      <4>1. labor = RunWith(data, rule.laborFormula, WithQuantity(c, data, room, selection, rule))
        BY <3>2 DEF LaborOf
      <4> QED
        BY <3>1, <4>1, FormulaGives DEF RunWith
    <3>3. CASE ~(c.scope = "PARTIAL" /\ rule.laborFormula # NoFormula)
      <4>1. labor = Num(0)
        BY <3>3 DEF LaborOf
      <4> QED
        BY <3>1, <4>1 DEF Num
    <3> QED
      BY <3>2, <3>3
  <2> HIDE DEF priced, line, quantity, cost, labor
  <2>3. /\ Carries(line, init2) /\ Sound(line)
        /\ line.status = "OK" =>
              /\ ~Failed(quantity)
              /\ ~Failed(cost) /\ InRange(cost.n)
              /\ ~Failed(labor) /\ InRange(labor.n)
              /\ line.quantity = quantity.n
              /\ line.components = MaterialComponents(c, rule, cost, labor)
    <3>1. /\ "warnings" \in DOMAIN init2
          /\ {"amountCents", "components", "status", "quantity", "error"} \cap DOMAIN init2 = {}
      BY <1>5
    <3> HIDE DEF rule, rules
    <3> QED
      BY <1>6, <1>9, <2>1, <2>2, <3>1, MaterialLineOfIs
  <2>4. line.ruleId = rule.id
    BY <1>5, <2>3 DEF Carries, LineIdFields, Given
  <2>5. Carries(line, OfMaterial(room, selection, line.ruleId))
    BY <1>7, <2>3
  <2> QED
    BY <1>9, <2>3, <2>4, <2>5 DEF MaterialIsPriced, quantity, cost, labor
<1> QED
  <2>1. "ERROR" # "OK" /\ "UNAVAILABLE" # "OK" /\ "NOT_CALCULATED" # "OK"
    OBVIOUS
  <2> HIDE DEF line, shareError, found, rules, priced
  <2>2. CASE line = FailedLine(init, "ERROR", shareError)
    BY <1>8, <2>1, <2>2 DEF line
  <2>3. CASE line = FailedLine(init, "UNAVAILABLE", "PRODUCT_UNAVAILABLE")
    BY <1>8, <2>1, <2>3 DEF line
  <2>4. CASE line = FailedLine(init1, "NOT_CALCULATED", "RULE_NOT_FOUND")
    BY <1>8, <2>1, <2>4 DEF line
  <2>5. CASE found /\ rules # <<>> /\ line = priced
    BY <1>9, <2>5 DEF line
  <2> QED
    BY <1>2, <2>2, <2>3, <2>4, <2>5

-----------------------------------------------------------------------------
(* The preparation of surfaces.                                            *)

LEMMA FailedWithIs ==
    ASSUME NEW line, NEW init, Carries(line, init), "optionId" \notin DOMAIN init, NEW error
    PROVE  /\ Carries(FailedWith(line, error), init)
           /\ Free(FailedWith(line, error))
           /\ FailedWith(line, error).status = "ERROR"
<1> DEFINE own == [id |-> line.id, section |-> line.section,
                   roomClientId |-> line.roomClientId, categoryId |-> line.categoryId,
                   productId |-> line.productId, ruleId |-> line.ruleId,
                   warnings |-> line.warnings]
<1>1. /\ DOMAIN own = {"id", "section", "roomClientId", "categoryId", "productId",
                       "ruleId", "warnings"}
      /\ own.id = line.id /\ own.section = line.section
      /\ own.roomClientId = line.roomClientId /\ own.categoryId = line.categoryId
      /\ own.productId = line.productId /\ own.ruleId = line.ruleId
  OBVIOUS
<1>2. FailedWith(line, error) = FailedLine(own, "ERROR", error)
  BY DEF FailedWith
<1> HIDE DEF own
<1>3. IsInit(own)
  BY <1>1 DEF IsInit, LineFields
<1>4. /\ Carries(FailedLine(own, "ERROR", error), own)
      /\ Free(FailedLine(own, "ERROR", error))
      /\ FailedLine(own, "ERROR", error).status = "ERROR"
  BY <1>1, <1>3, FailedLineIs
<1>5. line.optionId = None
  BY DEF Carries, LineIdFields, Given
<1>6. \A field \in LineIdFields : Given(own, field, None) = line[field]
  BY <1>1, <1>5 DEF LineIdFields, Given
<1>7. \A field \in LineIdFields : line[field] = Given(init, field, None)
  BY DEF Carries
<1> QED
  BY <1>1, <1>2, <1>4, <1>6, <1>7 DEF Carries

LEMMA WithComponentIs ==
    ASSUME NEW line, NEW init, Carries(line, init), "optionId" \notin DOMAIN init,
           Sound(line), line.status = "OK",
           NEW component, component.amountCents \in Nat
    PROVE  LET result == WithComponent(line, component) IN
           /\ Carries(result, init) /\ Sound(result)
           /\ \/ result.status = "ERROR"
              \/ /\ result.status = "OK" /\ result.quantity = line.quantity
                 /\ result.components = Append(line.components, component)
<1> DEFINE components == Append(line.components, component)
           result == WithComponent(line, component)
<1>1. /\ IsSequence(components)
      /\ ToSet(components) = ToSet(line.components) \cup {component}
      /\ components # <<>>
  <2> DEFINE S == ToSet(line.components) \cup {component}
  <2>1. line.components \in Seq(S) /\ component \in S
    <3>1. ToSet(line.components) \subseteq S /\ component \in S
      OBVIOUS
    <3> HIDE DEF S
    <3> QED
      BY <3>1, SeqMonotonic DEF Sound, IsSequence
  <2>2. components \in Seq(S) /\ ToSet(components) = S /\ Len(components) # 0
    <3>1. ToSet(components) = ToSet(line.components) \cup {component} /\ components \in Seq(S)
          /\ Len(components) = Len(line.components) + 1 /\ Len(line.components) \in Nat
      <4> HIDE DEF S
      <4> QED
        BY <2>1, AppendFacts, LenProperties
    <3> QED
      BY <3>1
  <2> HIDE DEF components
  <2> QED
    BY <2>2, EmptySeq DEF IsSequence
<1>2. \A k \in ToSet(components) : k.amountCents \in Nat
  <2> HIDE DEF components
  <2> QED
    BY <1>1 DEF Sound
<1>3. ComponentsTotal(components) \in Nat
  <2> HIDE DEF components
  <2> QED
    BY <1>1, <1>2, SumOfComponents
<1>4. CASE ComponentsTotal(components) > MaxLineCents
  <2>1. result = FailedWith(line, "AMOUNT_OUT_OF_RANGE")
    BY <1>4 DEF WithComponent
  <2> HIDE DEF result
  <2>2. Carries(result, init) /\ Free(result) /\ result.status = "ERROR"
    BY <2>1, FailedWithIs
  <2> QED
    BY <2>2, FreeIsSound DEF result
<1>5. CASE ~(ComponentsTotal(components) > MaxLineCents)
  <2> DEFINE total == ComponentsTotal(components)
  <2>1. result = [line EXCEPT !.components = components, !.amountCents = total]
    BY <1>5 DEF WithComponent
  <2> HIDE DEF result
  <2>2. /\ DOMAIN result = DOMAIN line
        /\ result.components = components /\ result.amountCents = total
        /\ \A x \in DOMAIN line \ {"components", "amountCents"} : result[x] = line[x]
    <3> HIDE DEF components, total
    <3>1. "components" \in DOMAIN line /\ "amountCents" \in DOMAIN line
      BY DEF Carries, LineFields
    <3> QED
      BY <2>1, <3>1
  <2>3. /\ Carries(result, init) /\ result.status = "OK" /\ result.quantity = line.quantity
    <3> HIDE DEF components, total
    <3>1. /\ DOMAIN line = LineFields
          /\ LineIdFields \subseteq LineFields \ {"components", "amountCents"}
          /\ {"id", "section", "status", "quantity"}
                \subseteq LineFields \ {"components", "amountCents"}
      BY DEF Carries, LineFields, LineIdFields
    <3> QED
      BY <2>2, <3>1 DEF Carries
  <2>4. total \in 0 .. MaxLineCents
    BY <1>3, <1>5, MaxLineCentsAssumption
  <2> HIDE DEF components
  <2>5. Sound(result)
    BY <1>1, <1>2, <2>2, <2>3, <2>4 DEF Sound
  <2> QED
    BY <2>2, <2>3, <2>5 DEF result, components
<1> QED
  BY <1>4, <1>5

\* When the preparation of its surface is not for a line.
Unprepared(data, line) ==
    \/ line.status # "OK"
    \/ SurfaceOf(data.categories, line.categoryId) \in {"NONE", "UNKNOWN"}
    \/ SurfaceRules(data, SurfaceOf(data.categories, line.categoryId)) = <<>>

LEMMA PrepGives ==
    ASSUME NEW c, NEW data, NEW room, NEW surface, ~Failed(PrepOutcome(c, data, room, surface))
    PROVE  ToCents(PrepOutcome(c, data, room, surface).n) \in 0 .. MaxLineCents
<1> DEFINE outcome == PrepOutcome(c, data, room, surface)
<1>1. PICK raw : /\ outcome = Chargeable(raw)
                 /\ ~Failed(raw) => raw.n \in Nat
  <2> DEFINE formula == Head(SurfaceRules(data, surface)).costFormula
             area == AreaOf(room, surface)
             share == PuttyShareOn(room, surface, data.categories)
             scope == [variables |->
                    [surfaceArea |-> Num(area), puttyRequired |-> Bool(share > 0),
                     puttyArea |-> Num(Times(area, share))]
                    ++ RoomVariables(room) ++ ObjectVariables(c, data.categories),
                 coefficients |-> data.coefficients]
  <2>1. outcome = Chargeable(RunNumericFormula(formula, scope))
    BY DEF PrepOutcome
  <2>2. ~Failed(RunNumericFormula(formula, scope)) => RunNumericFormula(formula, scope).n \in Nat
    BY FormulaGives
  <2> QED
    BY <2>1, <2>2
<1> HIDE DEF outcome
<1>2. ~Failed(outcome)
  BY DEF outcome
<1>3. ~Failed(raw) /\ InRange(raw.n) /\ outcome = raw
  BY <1>1, <1>2 DEF Chargeable, Failed, Failure
<1>4. raw.n \in Int
  BY <1>1, <1>3
<1> QED
  BY <1>3, <1>4, CentsInRange DEF outcome

\* What the preparation of its surface makes of a line.
LinePrepared(c, data, room, lines, i) ==
    LET line == PreparedLine(c, data, room, lines, i)
        surface == SurfaceOf(data.categories, lines[i].categoryId)
        outcome == PrepOutcome(c, data, room, surface)
        prep == PrepComponent(data, lines, surface, i,
                   Head(SurfaceRules(data, surface)), ToCents(outcome.n))
    IN  \/ Unprepared(data, lines[i]) /\ line = lines[i]
        \/ /\ ~Unprepared(data, lines[i])
           /\ \/ line.status = "ERROR"
              \/ /\ ~Failed(outcome)
                 /\ line.status = "OK" /\ line.quantity = lines[i].quantity
                 /\ line.components = Append(lines[i].components, prep)

LEMMA PreparedLineIs ==
    ASSUME NEW c, NEW data, NEW room, NEW lines, NEW i, NEW init,
           Carries(lines[i], init), "optionId" \notin DOMAIN init, Sound(lines[i])
    PROVE  /\ Carries(PreparedLine(c, data, room, lines, i), init)
           /\ Sound(PreparedLine(c, data, room, lines, i))
           /\ LinePrepared(c, data, room, lines, i)
<1> DEFINE line == PreparedLine(c, data, room, lines, i)
           surface == SurfaceOf(data.categories, lines[i].categoryId)
           outcome == PrepOutcome(c, data, room, surface)
           rule == Head(SurfaceRules(data, surface))
           prep == PrepComponent(data, lines, surface, i, rule, ToCents(outcome.n))
<1>1. CASE Unprepared(data, lines[i])
  <2>1. line = lines[i]
    BY <1>1 DEF PreparedLine, Unprepared
  <2> QED
    BY <1>1, <2>1 DEF LinePrepared
<1>2. CASE ~Unprepared(data, lines[i])
  <2>1. line = IF Failed(outcome) THEN FailedWith(lines[i], outcome.code)
               ELSE WithComponent(lines[i], prep)
    BY <1>2 DEF PreparedLine, Unprepared
  <2>2. lines[i].status = "OK"
    BY <1>2 DEF Unprepared
  <2> HIDE DEF line, outcome
  <2>3. CASE Failed(outcome)
    <3>1. Carries(line, init) /\ Free(line) /\ line.status = "ERROR"
      BY <2>1, <2>3, FailedWithIs
    <3> QED
      BY <1>2, <3>1, FreeIsSound DEF LinePrepared, line, outcome
  <2>4. CASE ~Failed(outcome)
    <3>1. ToCents(outcome.n) \in Nat
      <4>1. ToCents(outcome.n) \in 0 .. MaxLineCents
        BY <2>4, PrepGives DEF outcome
      <4> QED
        BY <4>1, MaxLineCentsAssumption
    <3>2. prep.amountCents \in Nat
      BY <3>1 DEF PrepComponent, Component
    <3> HIDE DEF prep
    <3>3. line = WithComponent(lines[i], prep)
      BY <2>1, <2>4
    <3>4. /\ Carries(line, init) /\ Sound(line)
          /\ \/ line.status = "ERROR"
             \/ /\ line.status = "OK" /\ line.quantity = lines[i].quantity
                /\ line.components = Append(lines[i].components, prep)
      BY <2>2, <3>2, <3>3, WithComponentIs
    <3> QED
      BY <1>2, <2>4, <3>4 DEF LinePrepared, line, outcome, prep
  <2> QED
    BY <2>3, <2>4
<1> QED
  BY <1>1, <1>2

\* What is picked in a room.
LEMMA PickedInIs ==
    ASSUME NEW room, IsSequence(room.selections)
    PROVE  /\ IsSequence(PickedIn(room)) /\ Len(PickedIn(room)) \in Nat
           /\ DOMAIN PickedIn(room) = 1 .. Len(PickedIn(room))
           /\ ToSet(PickedIn(room)) = {s \in ToSet(room.selections) : s.productId # None}
           /\ \A i \in 1 .. Len(PickedIn(room)) :
                 PickedIn(room)[i] \in ToSet(room.selections)
                 /\ PickedIn(room)[i].productId # None
<1> DEFINE K == {s \in ToSet(room.selections) : s.productId # None}
<1>1. PickedIn(room) = Among(room.selections, K)
  BY DEF PickedIn, Only
<1>2. K \subseteq ToSet(room.selections)
  OBVIOUS
<1> HIDE DEF K
<1>3. IsSequence(PickedIn(room)) /\ ToSet(PickedIn(room)) = K
  BY <1>1, <1>2, OnlyIs
<1>4. \A x \in K : x \in ToSet(room.selections) /\ x.productId # None
  BY DEF K
<1>5. /\ Len(PickedIn(room)) \in Nat
      /\ DOMAIN PickedIn(room) = 1 .. Len(PickedIn(room))
      /\ \A i \in 1 .. Len(PickedIn(room)) : PickedIn(room)[i] \in ToSet(PickedIn(room))
  BY <1>3, SequenceIs
<1>6. \A i \in 1 .. Len(PickedIn(room)) : PickedIn(room)[i] \in K
  BY <1>3, <1>5
<1> QED
  BY <1>3, <1>4, <1>5, <1>6 DEF K

LEMMA RoomLinesAre ==
    ASSUME NEW c, NEW data, NEW room, IsSequence(room.selections)
    PROVE  /\ DOMAIN RoomLines(c, data, room) = 1 .. Len(PickedIn(room))
           /\ \A i \in 1 .. Len(PickedIn(room)) :
                 LET line == RoomLines(c, data, room)[i] IN
                 /\ Carries(line, OfMaterial(room, PickedIn(room)[i], line.ruleId))
                 /\ Sound(line)
                 /\ line.status = "OK" =>
                       MaterialIsPriced(c, data, room, PickedIn(room)[i], line)
<1>1. DOMAIN PickedIn(room) = 1 .. Len(PickedIn(room))
  BY PickedInIs
<1>2. \A i \in 1 .. Len(PickedIn(room)) :
          RoomLines(c, data, room)[i] = MaterialLine(c, data, room, PickedIn(room)[i])
  BY <1>1 DEF RoomLines, Map
<1>3. DOMAIN RoomLines(c, data, room) = 1 .. Len(PickedIn(room))
  BY <1>1 DEF RoomLines, Map
<1> QED
  BY <1>2, <1>3, MaterialLineIs

LEMMA PreparedLinesAre ==
    ASSUME NEW c, NEW data, NEW room, IsSequence(room.selections)
    PROVE  /\ IsSequence(PreparedLines(c, data, room))
           /\ PreparedLines(c, data, room) =
                 [i \in 1 .. Len(PickedIn(room)) |-> PreparedLines(c, data, room)[i]]
           /\ ToSet(PreparedLines(c, data, room)) =
                 {PreparedLines(c, data, room)[i] : i \in 1 .. Len(PickedIn(room))}
           /\ \A i \in 1 .. Len(PickedIn(room)) :
                 LET line == PreparedLines(c, data, room)[i]
                     before == RoomLines(c, data, room)[i]
                 IN  /\ Carries(line, OfMaterial(room, PickedIn(room)[i], before.ruleId))
                     /\ Sound(line)
<1> DEFINE n == Len(PickedIn(room))
           before == RoomLines(c, data, room)
           lines == PreparedLines(c, data, room)
<1>1. /\ DOMAIN before = 1 .. n
      /\ \A i \in 1 .. n :
            /\ Carries(before[i], OfMaterial(room, PickedIn(room)[i], before[i].ruleId))
            /\ Sound(before[i])
  BY RoomLinesAre
<1>2. n \in Nat
  BY PickedInIs
<1>3. lines = [i \in 1 .. n |-> lines[i]]
  <2>1. before = [i \in 1 .. n |-> before[i]]
    BY <1>1 DEF RoomLines, Map
  <2> HIDE DEF n
  <2> QED
    BY <1>1, <2>1 DEF PreparedLines, SurfacePrep
<1>4. ASSUME NEW i \in 1 .. n
      PROVE  /\ Carries(lines[i], OfMaterial(room, PickedIn(room)[i], before[i].ruleId))
             /\ Sound(lines[i])
  <2>1. lines[i] = before[i] \/ lines[i] = PreparedLine(c, data, room, before, i)
    BY <1>1 DEF PreparedLines, SurfacePrep
  <2> DEFINE init == OfMaterial(room, PickedIn(room)[i], before[i].ruleId)
  <2>2. "optionId" \notin DOMAIN init
    BY DEF OfMaterial
  <2>3. Carries(before[i], init) /\ Sound(before[i])
    BY <1>1
  <2> HIDE DEF init, before, lines
  <2>4. /\ Carries(PreparedLine(c, data, room, before, i), init)
        /\ Sound(PreparedLine(c, data, room, before, i))
    BY <2>2, <2>3, PreparedLineIs
  <2> QED
    BY <2>1, <2>3, <2>4 DEF init
<1>5. IsSequence(lines) /\ ToSet(lines) = {lines[i] : i \in 1 .. n}
  <2> HIDE DEF lines, n
  <2> QED
    BY <1>2, <1>3, ListIs
<1> QED
  BY <1>3, <1>4, <1>5

LEMMA MaterialLinesAre ==
    ASSUME NEW c, ConfigurationTyped(c), NEW data
    PROVE  /\ IsSequence(MaterialLines(c, data))
           /\ ToSet(MaterialLines(c, data)) =
                 UNION {ToSet(PreparedLines(c, data, room)) : room \in ToSet(c.rooms)}
<1> DEFINE g == [i \in DOMAIN c.rooms |-> PreparedLines(c, data, c.rooms[i])]
           n == Len(c.rooms)
<1>1. /\ n \in Nat /\ DOMAIN c.rooms = 1 .. n
      /\ \A i \in 1 .. n : c.rooms[i] \in ToSet(c.rooms)
      /\ \A x \in ToSet(c.rooms) : \E i \in 1 .. n : x = c.rooms[i]
  <2>1. IsSequence(c.rooms)
    BY DEF ConfigurationTyped
  <2> QED
    BY <2>1, SequenceIs
<1>2. MaterialLines(c, data) = FlattenSeq(g)
  BY DEF MaterialLines, FlatMap, Map
<1>3. \A i \in 1 .. n : IsSequence(g[i])
  <2>1. \A room \in ToSet(c.rooms) : IsSequence(room.selections)
    BY DEF ConfigurationTyped
  <2> QED
    BY <1>1, <2>1, PreparedLinesAre
<1>4. g = [i \in 1 .. n |-> g[i]]
  BY <1>1
<1>5. /\ IsSequence(FlattenSeq(g))
      /\ ToSet(FlattenSeq(g)) = UNION {ToSet(g[i]) : i \in 1 .. n}
  <2> HIDE DEF g, n
  <2> QED
    BY <1>1, <1>3, <1>4, FlattenIs
<1> DEFINE L(room) == ToSet(PreparedLines(c, data, room))
<1>6. \A i \in 1 .. n : ToSet(g[i]) = L(c.rooms[i])
  BY <1>1
<1>7. UNION {ToSet(g[i]) : i \in 1 .. n} = UNION {L(room) : room \in ToSet(c.rooms)}
  <2> HIDE DEF g, n, L
  <2>1. ASSUME NEW x PROVE (\E i \in 1 .. n : x \in ToSet(g[i]))
                              <=> \E room \in ToSet(c.rooms) : x \in L(room)
    BY <1>1, <1>6, Zenon
  <2> QED
    BY <2>1
<1> QED
  BY <1>2, <1>5, <1>7

-----------------------------------------------------------------------------
(* The lines of package items and options.                                 *)

LEMMA MaxOfTwo ==
    ASSUME NEW a \in Int, NEW b \in Int
    PROVE  Max({a, b}) \in {a, b} /\ Max({a, b}) >= a /\ Max({a, b}) >= b
<1>1. \E x \in {a, b} : \A y \in {a, b} : x >= y
  <2>1. a >= b \/ b >= a
    OBVIOUS
  <2> QED
    BY <2>1
<1>2. Max({a, b}) \in {a, b} /\ \A y \in {a, b} : Max({a, b}) >= y
  BY <1>1 DEF Max
<1> QED
  BY <1>2

LEMMA TimesIs ==
    ASSUME NEW a \in Int, NEW b \in Int
    PROVE  Times(a, b) \in Int /\ (a \in Nat /\ b \in Nat => Times(a, b) \in Nat)
<1>1. Scale \in Nat \ {0} /\ a * b \in Int
  BY LimitsAssumption
<1>2. a \in Nat /\ b \in Nat => a * b \in Nat
  OBVIOUS
<1> QED
  BY <1>1, <1>2 DEF Times

LEMMA TimesNat == \A a, b \in Nat : Times(a, b) \in Nat
<1> SUFFICES ASSUME NEW a \in Nat, NEW b \in Nat PROVE Times(a, b) \in Nat
  OBVIOUS
<1>1. a \in Int /\ b \in Int
  OBVIOUS
<1> QED
  BY <1>1, TimesIs

LEMMA PercentIs == \A a \in Int : Percent(a) \in Int
<1>1. Scale \div 100 \in Int
  BY LimitsAssumption
<1> QED
  BY <1>1 DEF Percent

LEMMA CentsAreInt == \A a \in Int : ToCents(a) \in Int
  BY LimitsAssumption DEF ToCents

RoomTyped(room) == {room.length, room.width, room.height} \subseteq Nat

LEMMA AreasAre ==
    ASSUME NEW room, RoomTyped(room)
    PROVE  FloorArea(room) \in Nat /\ Perimeter(room) \in Nat /\ WallArea(room) \in Nat
<1>1. Perimeter(room) \in Nat /\ room.length \in Nat /\ room.width \in Nat /\ room.height \in Nat
  BY DEF RoomTyped, Perimeter
<1>2. Times(room.length, room.width) \in Nat /\ Times(Perimeter(room), room.height) \in Nat
  <2> DEFINE p == Perimeter(room)
  <2>1. p \in Nat
    BY <1>1
  <2> HIDE DEF p
  <2>2. Times(room.length, room.width) \in Nat /\ Times(p, room.height) \in Nat
    BY <1>1, <2>1, TimesNat
  <2> QED
    BY <2>2 DEF p
<1> QED
  BY <1>1, <1>2 DEF FloorArea, WallArea

LEMMA UnitQuantityIs ==
    ASSUME NEW unit \in Units, NEW rooms, IsSequence(rooms),
           \A room \in ToSet(rooms) : RoomTyped(room), NEW pieces \in Int
    PROVE  UnitQuantity(unit, rooms, pieces) \in Int
<1> DEFINE g == [i \in DOMAIN rooms |-> FloorArea(rooms[i])]
<1>1. /\ Len(rooms) \in Nat /\ DOMAIN rooms = 1 .. Len(rooms)
      /\ \A i \in 1 .. Len(rooms) : rooms[i] \in ToSet(rooms)
  BY SequenceIs
<1>2. Sum(FloorArea, rooms) \in Int
  <2>1. g = [i \in 1 .. Len(rooms) |-> g[i]] /\ \A i \in 1 .. Len(rooms) : g[i] \in Int
    BY <1>1, AreasAre
  <2>2. Sum(FloorArea, rooms) = Total(g)
    BY DEF Sum, Map
  <2> HIDE DEF g
  <2> QED
    BY <1>1, <2>1, <2>2, TotalOfList
<1>3. Scale \in Int
  BY LimitsAssumption
<1> QED
  BY <1>1, <1>2, <1>3 DEF UnitQuantity, Units

OfPackage(item) ==
    [id |-> <<"ENGINEERING", "package", item.id>>, section |-> "ENGINEERING",
     packageItemId |-> item.id]

LEMMA PackageLineIs ==
    ASSUME NEW c, ConfigurationTyped(c), NEW item,
           item.priceCents \in Nat \cup {Missing}, item.unit \in Units \cup {None}
    PROVE  /\ Carries(PackageLine(c, item), OfPackage(item))
           /\ Sound(PackageLine(c, item)) /\ PackageLine(c, item).components = <<>>
<1> DEFINE init == OfPackage(item)
           quantity == UnitQuantity(item.unit, c.rooms, 1)
           line == PackageLine(c, item)
           unpriced == item.priceCents = Missing \/ item.unit = None
           init1 == [status |-> "INCLUDED"] ++ init
           init2 == [quantity |-> quantity] ++ init
           dollars == Times(Percent(item.priceCents), quantity)
<1>1. \/ line = Line(init1)
      \/ line = FailedLine(init, "NOT_CALCULATED", "PACKAGE_ITEM_PRICE_MISSING")
      \/ ~unpriced /\ line = PricedLine(init2, dollars)
  <2>1. line = CASE item.includedInBase -> Line(init1)
                 [] ~item.includedInBase /\ unpriced ->
                       FailedLine(init, "NOT_CALCULATED", "PACKAGE_ITEM_PRICE_MISSING")
                 [] OTHER -> PricedLine(init2, dollars)
    BY DEF PackageLine, OfPackage
  <2> HIDE DEF line, init, init1, init2, dollars, unpriced
  <2> QED
    BY <2>1
<1>2. /\ DOMAIN init = {"id", "section", "packageItemId"}
      /\ \A field \in LineIdFields : Given(init, field, None) = None
  BY DEF OfPackage, Given, LineIdFields
<1>3. /\ DOMAIN init1 = {"id", "section", "packageItemId", "status"}
      /\ init1.status = "INCLUDED" /\ init1.id = init.id /\ init1.section = init.section
  BY <1>2 DEF ++
<1>4. /\ DOMAIN init2 = {"id", "section", "packageItemId", "quantity"}
      /\ init2.id = init.id /\ init2.section = init.section
  BY <1>2 DEF ++
<1> HIDE DEF init, init1, init2
<1>5. IsInit(init) /\ IsInit(init1) /\ IsInit(init2)
  BY <1>2, <1>3, <1>4 DEF IsInit, LineFields
<1>6. ASSUME NEW l, Carries(l, init1) \/ Carries(l, init2) PROVE Carries(l, init)
  <2>1. \A field \in LineIdFields : Given(init1, field, None) = None
                                    /\ Given(init2, field, None) = None
    BY <1>3, <1>4 DEF LineIdFields, Given
  <2> QED
    BY <1>2, <1>3, <1>4, <1>6, <2>1 DEF Carries
<1>7. CASE line = Line(init1)
  <2> HIDE DEF line
  <2>1. /\ Carries(line, init1) /\ line.amountCents = 0 /\ line.components = <<>>
    BY <1>3, <1>5, <1>7, LineIs DEF Given
  <2> QED
    BY <1>6, <2>1, FreeIsSound DEF Free, line, init
<1>8. CASE line = FailedLine(init, "NOT_CALCULATED", "PACKAGE_ITEM_PRICE_MISSING")
  <2> HIDE DEF line
  <2>1. Carries(line, init) /\ Free(line)
    BY <1>2, <1>5, <1>8, FailedLineIs
  <2> QED
    BY <2>1, FreeIsSound DEF Free, line, init
<1>9. CASE ~unpriced /\ line = PricedLine(init2, dollars)
  <2>1. item.priceCents \in Int /\ item.unit \in Units
    BY <1>9
  <2>2. quantity \in Int
    <3>1. IsSequence(c.rooms) /\ \A room \in ToSet(c.rooms) : RoomTyped(room)
      BY DEF ConfigurationTyped, RoomTyped
    <3> QED
      BY <2>1, <3>1, UnitQuantityIs
  <2>3. dollars \in Int
    <3> HIDE DEF quantity
    <3> QED
      BY <2>1, <2>2, PercentIs, TimesIs
  <2>4. {"amountCents", "components", "status"} \cap DOMAIN init2 = {}
    BY <1>4
  <2> HIDE DEF line, dollars
  <2>5. Carries(line, init2) /\ Sound(line) /\ line.components = <<>>
    BY <1>5, <1>9, <2>3, <2>4, PricedIsSound, PricedLineIs
  <2> QED
    BY <1>6, <2>5 DEF line, init
<1> QED
  BY <1>1, <1>7, <1>8, <1>9

OfOption(option, selection) ==
    [id |-> <<option.kind, "option", selection.optionId>>,
     section |-> option.kind, optionId |-> selection.optionId]

\* PricingDataSchema of an option.
OptionTyped(option) ==
    /\ option.kind \in OptionKinds /\ option.unit \in Units
    /\ option.priceCents \in Nat /\ option.minQuantity \in Int
    /\ IsSequence(option.keys)

LEMMA DollarsAre ==
    ASSUME NEW option, OptionTyped(option), NEW coefficients,
           \A key \in DOMAIN coefficients : coefficients[key] \in Int,
           KeysKnown(option, coefficients)
    PROVE  OptionDollars(option, coefficients) \in Int
<1> DEFINE keys == option.keys
           g == [i \in DOMAIN keys |-> coefficients[keys[i]]]
<1>1. /\ Len(keys) \in Nat /\ DOMAIN keys = 1 .. Len(keys)
      /\ \A i \in 1 .. Len(keys) : keys[i] \in ToSet(keys)
  BY SequenceIs DEF OptionTyped
<1>2. g = [i \in 1 .. Len(keys) |-> g[i]] /\ \A i \in 1 .. Len(keys) : g[i] \in Int
  BY <1>1 DEF KeysKnown
<1>3. Sum(LAMBDA key : coefficients[key], keys) = Total(g)
  BY DEF Sum, Map
<1>4. Sum(LAMBDA key : coefficients[key], keys) \in Int
  <2> HIDE DEF g, keys
  <2> QED
    BY <1>1, <1>2, <1>3, TotalOfList
<1>5. Percent(option.priceCents) \in Int
  BY PercentIs DEF OptionTyped
<1> QED
  BY <1>4, <1>5 DEF OptionDollars

LEMMA OptionLineIs ==
    ASSUME NEW c, ConfigurationTyped(c), NEW option, OptionTyped(option),
           NEW selection, selection.quantity \in Nat, NEW coefficients,
           \A key \in DOMAIN coefficients : coefficients[key] \in Int
    PROVE  LET line == OptionLine(c, option, selection, coefficients) IN
           /\ Carries(line, OfOption(option, selection))
           /\ Sound(line) /\ line.components = <<>>
<1> DEFINE init == OfOption(option, selection)
           chosen == Only(c.rooms, LAMBDA room : room.clientId \in selection.rooms)
           allowed == Only(chosen, LAMBDA room : \/ option.roomTypeCodes = {}
                                                 \/ room.roomTypeCode \in option.roomTypeCodes)
           pieces == IF selection.quantity # 0 THEN selection.quantity
                     ELSE Max({1, option.minQuantity})
           quantity == UnitQuantity(option.unit, allowed, pieces)
           price == OptionDollars(option, coefficients)
           unitCents == ToCents(price)
           dollars == Times(Percent(unitCents), quantity)
           init2 == [quantity |-> quantity,
                     warnings |-> IF chosen = allowed THEN {}
                                  ELSE {"OPTION_ROOM_TYPE_NOT_ALLOWED"}] ++ init
           line == OptionLine(c, option, selection, coefficients)
<1>1. \/ line = FailedLine(init, "UNAVAILABLE", "OPTION_SCOPE_NOT_ALLOWED")
      \/ line = FailedLine(init, "UNAVAILABLE", "PRODUCT_UNAVAILABLE")
      \/ line = FailedLine(init, "ERROR", "UNKNOWN_COEFFICIENT")
      \/ line = FailedLine(init, "ERROR", "AMOUNT_OUT_OF_RANGE")
      \/ KeysKnown(option, coefficients) /\ line = PricedLine(init2, dollars)
  <2> DEFINE c1 == c.scope \notin option.scopes
             c2 == c.scope \in option.scopes /\ ~option.available
             c3 == c.scope \in option.scopes /\ option.available
                      /\ ~KeysKnown(option, coefficients)
             e1 == FailedLine(init, "UNAVAILABLE", "OPTION_SCOPE_NOT_ALLOWED")
             e2 == FailedLine(init, "UNAVAILABLE", "PRODUCT_UNAVAILABLE")
             e3 == FailedLine(init, "ERROR", "UNKNOWN_COEFFICIENT")
             e4 == IF ~InRange(price)
                   THEN FailedLine(init, "ERROR", "AMOUNT_OUT_OF_RANGE")
                   ELSE PricedLine(init2, dollars)
  <2>1. line = CASE c1 -> e1 [] c2 -> e2 [] c3 -> e3 [] OTHER -> e4
    BY DEF OptionLine, OfOption
  <2>2. \/ line = e1 \/ line = e2 \/ line = e3
        \/ ~c1 /\ ~c2 /\ ~c3 /\ line = e4
    <3> HIDE DEF line, c1, c2, c3, e1, e2, e3, e4
    <3> QED
      BY <2>1
  <2>3. ~c1 /\ ~c2 /\ ~c3 => KeysKnown(option, coefficients)
    OBVIOUS
  <2> HIDE DEF line, c1, c2, c3, init2, dollars, price, init
  <2> QED
    BY <2>2, <2>3
<1>2. /\ DOMAIN init = {"id", "section", "optionId"}
      /\ init.optionId = selection.optionId
  BY DEF OfOption
<1>3. /\ DOMAIN init2 = {"id", "section", "optionId", "quantity", "warnings"}
      /\ \A x \in DOMAIN init : init2[x] = init[x]
  <2> HIDE DEF quantity, chosen, allowed
  <2> QED
    BY <1>2 DEF ++
<1> HIDE DEF init, init2
<1>4. IsInit(init) /\ IsInit(init2)
  BY <1>2, <1>3 DEF IsInit, LineFields
<1>5. ASSUME NEW status, NEW error, line = FailedLine(init, status, error)
      PROVE  Carries(line, init) /\ Sound(line) /\ line.components = <<>>
  <2> HIDE DEF line
  <2>1. Carries(line, init) /\ Free(line)
    BY <1>2, <1>4, <1>5, FailedLineIs
  <2> QED
    BY <2>1, FreeIsSound DEF Free
<1>6. ASSUME KeysKnown(option, coefficients), line = PricedLine(init2, dollars)
      PROVE  Carries(line, init) /\ Sound(line) /\ line.components = <<>>
  <2>1. IsSequence(allowed) /\ ToSet(allowed) \subseteq ToSet(c.rooms)
    <3> DEFINE K == {room \in ToSet(c.rooms) : room.clientId \in selection.rooms}
               L == {room \in ToSet(chosen) : \/ option.roomTypeCodes = {}
                                              \/ room.roomTypeCode \in option.roomTypeCodes}
    <3>1. chosen = Among(c.rooms, K) /\ allowed = Among(chosen, L)
      BY DEF Only
    <3>2. IsSequence(c.rooms)
      BY DEF ConfigurationTyped
    <3> HIDE DEF chosen, allowed, K, L
    <3>3. IsSequence(chosen) /\ ToSet(chosen) \subseteq ToSet(c.rooms)
      BY <3>1, <3>2, AmongIs
    <3> QED
      BY <3>1, <3>3, AmongIs
  <2>2. \A room \in ToSet(allowed) : RoomTyped(room)
    <3>1. \A room \in ToSet(c.rooms) : RoomTyped(room)
      BY DEF ConfigurationTyped, RoomTyped
    <3> QED
      BY <2>1, <3>1
  <2> HIDE DEF chosen, allowed
  <2>3. pieces \in Int
    <3>1. option.minQuantity \in Int /\ 1 \in Int
      BY DEF OptionTyped
    <3>2. Max({1, option.minQuantity}) \in {1, option.minQuantity}
      BY <3>1, MaxOfTwo
    <3>3. Max({1, option.minQuantity}) \in Int
      BY <3>1, <3>2
    <3> QED
      BY <3>3
  <2>4. quantity \in Int
    <3> HIDE DEF pieces
    <3> QED
      BY <2>1, <2>2, <2>3, UnitQuantityIs DEF OptionTyped
  <2>5. dollars \in Int
    <3>1. price \in Int
      BY <1>6, DollarsAre
    <3> HIDE DEF price, quantity
    <3>2. Percent(unitCents) \in Int
      BY <3>1, CentsAreInt, PercentIs
    <3> QED
      BY <2>4, <3>2, TimesIs
  <2>6. {"amountCents", "components", "status"} \cap DOMAIN init2 = {}
    BY <1>3
  <2> HIDE DEF line, dollars
  <2>7. Carries(line, init2) /\ Sound(line) /\ line.components = <<>>
    BY <1>4, <1>6, <2>5, <2>6, PricedIsSound, PricedLineIs
  <2>8. \A field \in LineIdFields : Given(init2, field, None) = Given(init, field, None)
    BY <1>2, <1>3 DEF LineIdFields, Given
  <2>9. Carries(line, init)
    BY <1>2, <1>3, <2>7, <2>8 DEF Carries
  <2> QED
    BY <2>7, <2>9
<1>7. Carries(line, init) /\ Sound(line) /\ line.components = <<>>
  <2> HIDE DEF line, dollars
  <2> QED
    BY <1>1, <1>5, <1>6
<1> QED
  BY <1>7 DEF init, line

-----------------------------------------------------------------------------
(* All the lines of an estimate.                                           *)

IsObjectLine(c, data, line) ==
    \E section \in {"BASE", "OBJECT"} : \E rule \in ToSet(ObjectRules(data, section)) :
        line = ObjectLine(c, data, section, rule)
IsMaterialLine(c, data, line) ==
    \E room \in ToSet(c.rooms) : \E i \in 1 .. Len(PickedIn(room)) :
        line = PreparedLines(c, data, room)[i]
IsPackageLine(c, data, line) ==
    \E item \in ToSet(data.packageItems) : line = PackageLine(c, item)
KnownOptions(c, data) == {s \in ToSet(c.options) : s.optionId \in DOMAIN data.options}
LineOfOption(c, data, s) == OptionLine(c, data.options[s.optionId], s, data.coefficients)
IsOptionLine(c, data, line) ==
    \E s \in KnownOptions(c, data) : line = LineOfOption(c, data, s)

LEMMA OptionLinesAre ==
    ASSUME NEW c, ConfigurationTyped(c), NEW data, NEW kind
    PROVE  /\ IsSequence(OptionLines(c, data, kind))
           /\ \A line \in ToSet(OptionLines(c, data, kind)) : IsOptionLine(c, data, line)
           /\ \A s \in KnownOptions(c, data) : data.options[s.optionId].kind = kind
                 => LineOfOption(c, data, s) \in ToSet(OptionLines(c, data, kind))
<1> DEFINE K == {s \in ToSet(c.options) : /\ s.optionId \in DOMAIN data.options
                                          /\ data.options[s.optionId].kind = kind}
           of == Among(c.options, K)
           lines == [i \in DOMAIN of |-> LineOfOption(c, data, of[i])]
<1>1. OptionLines(c, data, kind) = lines
  BY DEF OptionLines, Map, Only, LineOfOption
<1>2. IsSequence(of) /\ ToSet(of) = K
  <2>1. IsSequence(c.options) /\ K \subseteq ToSet(c.options)
    BY DEF ConfigurationTyped
  <2> HIDE DEF K
  <2> QED
    BY <2>1, OnlyIs
<1> HIDE DEF of
<1>3. /\ Len(of) \in Nat /\ DOMAIN of = 1 .. Len(of)
      /\ \A i \in 1 .. Len(of) : of[i] \in K
      /\ \A x \in K : \E i \in 1 .. Len(of) : x = of[i]
  <2> HIDE DEF K
  <2> QED
    BY <1>2, SequenceIs
<1>4. IsSequence(lines) /\ ToSet(lines) = {lines[i] : i \in 1 .. Len(of)}
  <2>1. lines = [i \in 1 .. Len(of) |-> lines[i]]
    BY <1>3
  <2> HIDE DEF lines
  <2> QED
    BY <1>3, <2>1, ListIs
<1>5. \A i \in 1 .. Len(of) : lines[i] = LineOfOption(c, data, of[i])
  BY <1>3
<1>6. K = {s \in KnownOptions(c, data) : data.options[s.optionId].kind = kind}
  BY DEF KnownOptions
<1> HIDE DEF lines, K
<1>7. \A line \in ToSet(lines) : IsOptionLine(c, data, line)
  BY <1>3, <1>4, <1>5, <1>6 DEF IsOptionLine
<1>8. \A s \in K : LineOfOption(c, data, s) \in ToSet(lines)
  BY <1>3, <1>4, <1>5
<1> QED
  BY <1>1, <1>4, <1>6, <1>7, <1>8

PackageLines(c, data) ==
    IF c.scope = "PARTIAL" THEN <<>>
    ELSE [i \in DOMAIN data.packageItems |-> PackageLine(c, data.packageItems[i])]

LEMMA PackageLinesAre ==
    ASSUME NEW c, NEW data, PricingDataTyped(data)
    PROVE  /\ IsSequence(PackageLines(c, data))
           /\ \A line \in ToSet(PackageLines(c, data)) : IsPackageLine(c, data, line)
<1> DEFINE items == data.packageItems
           lines == [i \in DOMAIN items |-> PackageLine(c, items[i])]
<1>1. /\ Len(items) \in Nat /\ DOMAIN items = 1 .. Len(items)
      /\ \A i \in 1 .. Len(items) : items[i] \in ToSet(items)
  <2>1. IsSequence(items)
    BY DEF PricingDataTyped
  <2> HIDE DEF items
  <2> QED
    BY <2>1, SequenceIs
<1>2. IsSequence(lines) /\ ToSet(lines) = {lines[i] : i \in 1 .. Len(items)}
  <2>1. lines = [i \in 1 .. Len(items) |-> lines[i]]
    BY <1>1
  <2> HIDE DEF lines, items
  <2> QED
    BY <1>1, <2>1, ListIs
<1>3. \A i \in 1 .. Len(items) : lines[i] = PackageLine(c, items[i])
  BY <1>1
<1>4. \A line \in ToSet(lines) : IsPackageLine(c, data, line)
  <2> HIDE DEF lines
  <2> QED
    BY <1>1, <1>2, <1>3 DEF IsPackageLine
<1>5. PackageLines(c, data) = <<>> \/ PackageLines(c, data) = lines
  BY DEF PackageLines
<1> HIDE DEF lines
<1> QED
  BY <1>2, <1>4, <1>5, EmptyIs

\* The lines before their amounts are converted.
BareLines(c, data) ==
    ObjectRuleLines(c, data, "BASE") \o ObjectRuleLines(c, data, "OBJECT")
    \o MaterialLines(c, data) \o EngineeringLines(c, data)
    \o OptionLines(c, data, "ADDITIONAL")

LEMMA BareLinesAre ==
    ASSUME NEW c, ConfigurationTyped(c), NEW data, PricingDataTyped(data)
    PROVE  /\ IsSequence(BareLines(c, data))
           /\ ToSet(BareLines(c, data)) =
                 ToSet(ObjectRuleLines(c, data, "BASE"))
                 \cup ToSet(ObjectRuleLines(c, data, "OBJECT"))
                 \cup ToSet(MaterialLines(c, data))
                 \cup ToSet(PackageLines(c, data))
                 \cup ToSet(OptionLines(c, data, "ENGINEERING"))
                 \cup ToSet(OptionLines(c, data, "ADDITIONAL"))
<1> DEFINE a == ObjectRuleLines(c, data, "BASE")
           b == ObjectRuleLines(c, data, "OBJECT")
           m == MaterialLines(c, data)
           p == PackageLines(c, data)
           e == OptionLines(c, data, "ENGINEERING")
           z == OptionLines(c, data, "ADDITIONAL")
<1>1. IsSequence(a) /\ IsSequence(b)
  <2>1. IsSequence(data.rules)
    BY DEF PricingDataTyped
  <2> QED
    BY <2>1, ObjectLinesAre
<1>2. IsSequence(m) /\ IsSequence(p) /\ IsSequence(e) /\ IsSequence(z)
  BY MaterialLinesAre, PackageLinesAre, OptionLinesAre
<1>3. BareLines(c, data) = a \o b \o m \o (p \o e) \o z
  BY DEF BareLines, EngineeringLines, PackageLines, Map
<1> HIDE DEF a, b, m, p, e, z
<1>4. IsSequence(p \o e) /\ ToSet(p \o e) = ToSet(p) \cup ToSet(e)
  BY <1>2, ConcatIs
<1> DEFINE pe == p \o e
<1> HIDE DEF pe
<1>5. IsSequence(pe) /\ ToSet(pe) = ToSet(p) \cup ToSet(e)
  BY <1>4 DEF pe
<1>6. IsSequence(a \o b) /\ ToSet(a \o b) = ToSet(a) \cup ToSet(b)
  BY <1>1, ConcatIs
<1>7. IsSequence(a \o b \o m) /\ ToSet(a \o b \o m) = ToSet(a \o b) \cup ToSet(m)
  BY <1>2, <1>6, ConcatIs
<1>8. IsSequence(a \o b \o m \o pe) /\ ToSet(a \o b \o m \o pe) = ToSet(a \o b \o m) \cup ToSet(pe)
  BY <1>5, <1>7, ConcatIs
<1>9. /\ IsSequence(a \o b \o m \o pe \o z)
      /\ ToSet(a \o b \o m \o pe \o z) = ToSet(a \o b \o m \o pe) \cup ToSet(z)
  BY <1>2, <1>8, ConcatIs
<1>10. /\ IsSequence(BareLines(c, data))
       /\ ToSet(BareLines(c, data)) = ToSet(a) \cup ToSet(b) \cup ToSet(m) \cup ToSet(p)
                                         \cup ToSet(e) \cup ToSet(z)
  BY <1>3, <1>5, <1>6, <1>7, <1>8, <1>9 DEF pe
<1> QED
  BY <1>10 DEF a, b, m, p, e, z

LEMMA OriginOfLines ==
    ASSUME NEW c, ConfigurationTyped(c), NEW data, PricingDataTyped(data),
           NEW line \in ToSet(BareLines(c, data))
    PROVE  \/ IsObjectLine(c, data, line) \/ IsMaterialLine(c, data, line)
           \/ IsPackageLine(c, data, line) \/ IsOptionLine(c, data, line)
<1>1. IsSequence(data.rules)
  BY DEF PricingDataTyped
<1>2. CASE line \in ToSet(ObjectRuleLines(c, data, "BASE"))
  BY <1>1, <1>2, ObjectLinesAre DEF IsObjectLine
<1>3. CASE line \in ToSet(ObjectRuleLines(c, data, "OBJECT"))
  BY <1>1, <1>3, ObjectLinesAre DEF IsObjectLine
<1>4. CASE line \in ToSet(MaterialLines(c, data))
  <2>1. PICK room \in ToSet(c.rooms) : line \in ToSet(PreparedLines(c, data, room))
    BY <1>4, MaterialLinesAre
  <2>2. IsSequence(room.selections)
    BY DEF ConfigurationTyped
  <2>3. ToSet(PreparedLines(c, data, room)) =
            {PreparedLines(c, data, room)[i] : i \in 1 .. Len(PickedIn(room))}
    BY <2>2, PreparedLinesAre
  <2> QED
    BY <2>1, <2>3 DEF IsMaterialLine
<1>5. CASE line \in ToSet(PackageLines(c, data))
  BY <1>5, PackageLinesAre
<1>6. CASE \/ line \in ToSet(OptionLines(c, data, "ENGINEERING"))
           \/ line \in ToSet(OptionLines(c, data, "ADDITIONAL"))
  BY <1>6, OptionLinesAre
<1> QED
  BY <1>2, <1>3, <1>4, <1>5, <1>6, BareLinesAre

\* What a line says of what it is a line of.
Origin(c, data, line) ==
    \/ /\ line.section \in {"BASE", "OBJECT"} /\ line.components = <<>>
       /\ line.roomClientId = None /\ line.categoryId = None
       /\ line.productId = None /\ line.optionId = None
    \/ /\ line.section = "MATERIALS" /\ line.optionId = None
       /\ \E room \in ToSet(c.rooms) : \E s \in ToSet(room.selections) :
             /\ line.roomClientId = room.clientId /\ line.categoryId = s.categoryId
             /\ line.productId = s.productId /\ s.productId # None
    \/ /\ line.section = "ENGINEERING" /\ line.components = <<>>
       /\ line.roomClientId = None /\ line.categoryId = None
       /\ line.productId = None /\ line.optionId = None
    \/ /\ line.components = <<>>
       /\ line.roomClientId = None /\ line.categoryId = None
       /\ line.productId = None
       /\ \E s \in KnownOptions(c, data) :
             /\ line.optionId = s.optionId
             /\ line.section = data.options[s.optionId].kind

LEMMA BareLineIs ==
    ASSUME NEW c, ConfigurationTyped(c), NEW data, PricingDataTyped(data),
           NEW line \in ToSet(BareLines(c, data))
    PROVE  /\ DOMAIN line = LineFields /\ Sound(line) /\ line.section \in Sections
           /\ Origin(c, data, line)
<1>1. Sections = {"BASE", "OBJECT", "MATERIALS", "ENGINEERING", "ADDITIONAL"}
  BY DEF Sections, SectionOrder, ToSet
<1>2. CASE IsObjectLine(c, data, line)
  <2>1. PICK section \in {"BASE", "OBJECT"} : \E rule :
            /\ Carries(line, OfObject(section, rule)) /\ Sound(line) /\ line.components = <<>>
    BY <1>2, ObjectLineIs DEF IsObjectLine
  <2>2. /\ line.components = <<>> /\ Sound(line)
        /\ line.section = section /\ line.roomClientId = None /\ line.categoryId = None
        /\ line.productId = None /\ line.optionId = None /\ DOMAIN line = LineFields
    BY <2>1 DEF Carries, OfObject, LineIdFields, Given
  <2> QED
    BY <1>1, <2>2 DEF Origin
<1>3. CASE IsMaterialLine(c, data, line)
  <2>0. PICK room \in ToSet(c.rooms) : \E i \in 1 .. Len(PickedIn(room)) :
            line = PreparedLines(c, data, room)[i]
    BY <1>3 DEF IsMaterialLine
  <2>1. PICK i \in 1 .. Len(PickedIn(room)) : line = PreparedLines(c, data, room)[i]
    BY <2>0
  <2>2. IsSequence(room.selections)
    BY DEF ConfigurationTyped
  <2>3. PICK ruleId : /\ Carries(line, OfMaterial(room, PickedIn(room)[i], ruleId))
                      /\ Sound(line)
    BY <2>1, <2>2, PreparedLinesAre
  <2>4. /\ PickedIn(room)[i] \in ToSet(room.selections)
        /\ PickedIn(room)[i].productId # None
    BY <2>2, PickedInIs
  <2>5. /\ line.section = "MATERIALS" /\ line.optionId = None /\ DOMAIN line = LineFields
        /\ line.roomClientId = room.clientId
        /\ line.categoryId = PickedIn(room)[i].categoryId
        /\ line.productId = PickedIn(room)[i].productId
    BY <2>3 DEF Carries, OfMaterial, LineIdFields, Given
  <2> QED
    BY <1>1, <2>3, <2>4, <2>5 DEF Origin
<1>4. CASE IsPackageLine(c, data, line)
  <2>1. PICK item \in ToSet(data.packageItems) : line = PackageLine(c, item)
    BY <1>4 DEF IsPackageLine
  <2>2. Carries(line, OfPackage(item)) /\ Sound(line) /\ line.components = <<>>
    BY <2>1, PackageLineIs DEF PricingDataTyped
  <2>3. /\ line.section = "ENGINEERING" /\ line.roomClientId = None /\ line.categoryId = None
        /\ line.productId = None /\ line.optionId = None /\ DOMAIN line = LineFields
    BY <2>2 DEF Carries, OfPackage, LineIdFields, Given
  <2> QED
    BY <1>1, <2>2, <2>3 DEF Origin
<1>5. CASE IsOptionLine(c, data, line)
  <2>1. PICK s \in KnownOptions(c, data) : line = LineOfOption(c, data, s)
    BY <1>5 DEF IsOptionLine
  <2> DEFINE option == data.options[s.optionId]
  <2>2. s.quantity \in Nat /\ OptionTyped(option)
    BY DEF KnownOptions, ConfigurationTyped, PricingDataTyped, OptionTyped
  <2>3. \A key \in DOMAIN data.coefficients : data.coefficients[key] \in Int
    BY DEF PricingDataTyped
  <2> HIDE DEF option
  <2>4. line = OptionLine(c, option, s, data.coefficients)
    BY <2>1 DEF LineOfOption, option
  <2>5. Carries(line, OfOption(option, s)) /\ Sound(line) /\ line.components = <<>>
    BY <2>2, <2>3, <2>4, OptionLineIs
  <2>6. /\ line.section = option.kind /\ line.roomClientId = None /\ line.categoryId = None
        /\ line.productId = None /\ line.optionId = s.optionId /\ DOMAIN line = LineFields
    BY <2>5 DEF Carries, OfOption, LineIdFields, Given
  <2>7. option.kind \in Sections
    BY <1>1, <2>2 DEF OptionTyped, OptionKinds
  <2> QED
    BY <2>5, <2>6, <2>7 DEF Origin, option
<1> QED
  BY <1>2, <1>3, <1>4, <1>5, OriginOfLines

LEMMA WithKopecksIs ==
    ASSUME NEW line, DOMAIN line = LineFields, NEW rate
    PROVE  /\ DOMAIN WithKopecks(line, rate) = LineFields \cup {"amountUahKopecks"}
           /\ \A field \in LineFields : WithKopecks(line, rate)[field] = line[field]
           /\ WithKopecks(line, rate).amountUahKopecks =
                 IF rate = 0 THEN Missing
                 ELSE ConvertCentsToKopecks(line.amountCents, rate)
<1> DEFINE g == [amountUahKopecks |->
                    IF rate = 0 THEN Missing
                    ELSE ConvertCentsToKopecks(line.amountCents, rate)]
<1>1. /\ DOMAIN g = {"amountUahKopecks"} /\ "amountUahKopecks" \notin LineFields
      /\ WithKopecks(line, rate) = line ++ g
  BY DEF WithKopecks, LineFields
<1>2. g.amountUahKopecks = IF rate = 0 THEN Missing
                           ELSE ConvertCentsToKopecks(line.amountCents, rate)
  OBVIOUS
<1> HIDE DEF g
<1>3. /\ DOMAIN (line ++ g) = DOMAIN line \cup DOMAIN g
      /\ \A x \in DOMAIN line : (line ++ g)[x] = line[x]
      /\ \A x \in DOMAIN g \ DOMAIN line : (line ++ g)[x] = g[x]
  BY WithField
<1>4. "amountUahKopecks" \in DOMAIN g \ DOMAIN line
  BY <1>1
<1>5. (line ++ g)["amountUahKopecks"] = g["amountUahKopecks"]
  BY <1>3, <1>4
<1> QED
  BY <1>1, <1>2, <1>3, <1>5

LEMMA EstimateLinesAre ==
    ASSUME NEW c, ConfigurationTyped(c), NEW data, PricingDataTyped(data)
    PROVE  /\ IsSequence(EstimateLines(c, data))
           /\ DOMAIN EstimateLines(c, data) = 1 .. Len(BareLines(c, data))
           /\ Len(BareLines(c, data)) \in Nat
           /\ \A i \in 1 .. Len(BareLines(c, data)) :
                 /\ BareLines(c, data)[i] \in ToSet(BareLines(c, data))
                 /\ EstimateLines(c, data)[i] = WithKopecks(BareLines(c, data)[i], data.rate)
           /\ ToSet(EstimateLines(c, data)) =
                 {WithKopecks(line, data.rate) : line \in ToSet(BareLines(c, data))}
<1> DEFINE bare == BareLines(c, data)
           lines == [i \in DOMAIN bare |-> WithKopecks(bare[i], data.rate)]
<1>1. EstimateLines(c, data) = lines
  BY DEF EstimateLines, BareLines, Map
<1>2. /\ Len(bare) \in Nat /\ DOMAIN bare = 1 .. Len(bare)
      /\ \A i \in 1 .. Len(bare) : bare[i] \in ToSet(bare)
      /\ \A x \in ToSet(bare) : \E i \in 1 .. Len(bare) : x = bare[i]
  <2>1. IsSequence(bare)
    BY BareLinesAre
  <2> HIDE DEF bare
  <2> QED
    BY <2>1, SequenceIs
<1> HIDE DEF bare
<1>3. IsSequence(lines) /\ ToSet(lines) = {lines[i] : i \in 1 .. Len(bare)}
  <2>1. lines = [i \in 1 .. Len(bare) |-> lines[i]]
    BY <1>2
  <2> HIDE DEF lines
  <2> QED
    BY <1>2, <2>1, ListIs
<1>4. \A i \in 1 .. Len(bare) : lines[i] = WithKopecks(bare[i], data.rate)
  BY <1>2
<1>5. DOMAIN lines = 1 .. Len(bare)
  BY <1>2
<1> HIDE DEF lines
<1>6. ToSet(lines) = {WithKopecks(line, data.rate) : line \in ToSet(bare)}
  BY <1>2, <1>3, <1>4
<1> QED
  BY <1>1, <1>2, <1>3, <1>4, <1>5, <1>6 DEF bare

\* Every line of an estimate.
LEMMA EstimateLineIs ==
    ASSUME NEW c, ConfigurationTyped(c), NEW data, PricingDataTyped(data),
           NEW line \in ToSet(EstimateLines(c, data))
    PROVE  /\ Sound(line) /\ line.section \in Sections
           /\ Origin(c, data, line)
           /\ line.amountUahKopecks =
                 IF data.rate = 0 THEN Missing
                 ELSE ConvertCentsToKopecks(line.amountCents, data.rate)
<1>1. PICK bare \in ToSet(BareLines(c, data)) : line = WithKopecks(bare, data.rate)
  BY EstimateLinesAre
<1>2. /\ DOMAIN bare = LineFields /\ Sound(bare) /\ bare.section \in Sections
      /\ Origin(c, data, bare)
  BY BareLineIs
<1>3. /\ \A field \in LineFields : line[field] = bare[field]
      /\ line.amountUahKopecks = IF data.rate = 0 THEN Missing
                                 ELSE ConvertCentsToKopecks(bare.amountCents, data.rate)
  BY <1>1, <1>2, WithKopecksIs
<1>4. /\ line.amountCents = bare.amountCents /\ line.components = bare.components
      /\ line.status = bare.status /\ line.section = bare.section
      /\ line.roomClientId = bare.roomClientId /\ line.categoryId = bare.categoryId
      /\ line.productId = bare.productId /\ line.optionId = bare.optionId
  BY <1>3 DEF LineFields
<1>5. Sound(line)
  BY <1>2, <1>4 DEF Sound, Free
<1>6. Origin(c, data, line)
  BY <1>2, <1>4 DEF Origin
<1> QED
  BY <1>2, <1>3, <1>4, <1>5, <1>6

-----------------------------------------------------------------------------
(* The pricing data of a pricing, and options that were retired.           *)

RuleTyped(rule) ==
    /\ {"id", "sortOrder"} \subseteq DOMAIN rule /\ rule.sortOrder \in Int
    /\ \A name \in Datasets : \A r \in ToSet(Dataset(name).rules) : r.id # rule.id
PricingInv(pricing) ==
    pricing.dataset \in Datasets /\ (pricing.rule = NoRule \/ RuleTyped(pricing.rule))

\* The rules of a pricing, those that are read.
ReadRules(pricing) ==
    LET data == Dataset(pricing.dataset) IN
    Only(data.rules \o SavedRules(pricing),
         LAMBDA rule : Targeted(rule, data) /\ Counted(rule))

LEMMA SavedRulesAre ==
    ASSUME NEW pricing
    PROVE  /\ IsSequence(SavedRules(pricing))
           /\ ToSet(SavedRules(pricing)) =
                 IF pricing.rule = NoRule THEN {} ELSE {pricing.rule}
  BY EmptyIs, SingletonIs DEF SavedRules

LEMMA ReadRulesAre ==
    ASSUME NEW pricing, PricingInv(pricing)
    PROVE  /\ IsSequence(ReadRules(pricing))
           /\ \A rule \in ToSet(ReadRules(pricing)) :
                 /\ rule.sortOrder \in Int /\ Counted(rule)
                 /\ \/ rule \in ToSet(Dataset(pricing.dataset).rules)
                    \/ rule = pricing.rule /\ RuleTyped(rule)
<1> DEFINE data == Dataset(pricing.dataset)
           saved == SavedRules(pricing)
           all == data.rules \o saved
           K == {rule \in ToSet(all) : Targeted(rule, data) /\ Counted(rule)}
<1>1. IsSequence(data.rules) /\ \A rule \in ToSet(data.rules) : rule.sortOrder \in Int
  BY SchemasAssumption DEF PricingInv, PricingDataTyped
<1>2. /\ IsSequence(saved)
      /\ \A rule \in ToSet(saved) : rule = pricing.rule /\ RuleTyped(rule)
  BY SavedRulesAre DEF PricingInv
<1>3. ReadRules(pricing) = Among(all, K)
  BY DEF ReadRules, Only
<1>4. IsSequence(all) /\ ToSet(all) = ToSet(data.rules) \cup ToSet(saved)
  <2> HIDE DEF data, saved
  <2> QED
    BY <1>1, <1>2, ConcatIs
<1>5. /\ IsSequence(Among(all, K)) /\ ToSet(Among(all, K)) = K
  <2>1. K \subseteq ToSet(all)
    OBVIOUS
  <2> HIDE DEF all, K
  <2> QED
    BY <1>4, <2>1, OnlyIs
<1>6. \A rule \in K : rule \in ToSet(all) /\ Counted(rule)
  OBVIOUS
<1>7. \A rule \in ToSet(saved) : rule.sortOrder \in Int
  BY <1>2 DEF RuleTyped
<1> HIDE DEF K, all, saved
<1> QED
  BY <1>1, <1>2, <1>3, <1>4, <1>5, <1>6, <1>7

LEMMA DataIs ==
    ASSUME NEW pricing, PricingInv(pricing)
    PROVE  /\ DataOf(pricing).rules = ReadRules(pricing)
           /\ \A field \in DataFields \ {"rules"} :
                 DataOf(pricing)[field] = Dataset(pricing.dataset)[field]
           /\ PricingDataTyped(DataOf(pricing))
<1> DEFINE data == Dataset(pricing.dataset)
           new == DataOf(pricing)
           rules == ReadRules(pricing)
<1>1. PricingDataTyped(data)
  BY SchemasAssumption DEF PricingInv
<1>2. new = [data EXCEPT !.rules = rules]
  BY DEF DataOf, ReadRules
<1> HIDE DEF data, new, rules
<1>3. data = [field \in DataFields |-> data[field]]
  BY <1>1 DEF PricingDataTyped
<1>4. /\ new = [field \in DataFields |-> new[field]] /\ new.rules = rules
      /\ \A field \in DataFields \ {"rules"} : new[field] = data[field]
  BY <1>2, <1>3 DEF DataFields
<1>5. /\ new.rate = data.rate /\ new.coefficients = data.coefficients
      /\ new.packageItems = data.packageItems /\ new.options = data.options
      /\ new.categories = data.categories /\ new.products = data.products
  BY <1>4 DEF DataFields
<1>6. IsSequence(new.rules) /\ \A rule \in ToSet(new.rules) : rule.sortOrder \in Int
  BY <1>4, ReadRulesAre DEF rules
<1>7. PricingDataTyped(new)
  BY <1>1, <1>4, <1>5, <1>6 DEF PricingDataTyped
<1> QED
  BY <1>4, <1>7 DEF data, new, rules

\* The deleted options of a configuration, and the place that each keeps.
Gone(c, data, retired) ==
    {entry \in retired : /\ entry.id \notin DOMAIN data.options
                         /\ \E s \in ToSet(c.options) : s.optionId = entry.id}
GoneIds(c, data, retired) == {entry.id : entry \in Gone(c, data, retired)}
KindGone(c, data, retired, id) ==
    (CHOOSE entry \in Gone(c, data, retired) : entry.id = id).kind
Placeholder(kind) ==
    [kind |-> kind, priceCents |-> 0, unit |-> "PROJECT", roomTypeCodes |-> {},
     keys |-> <<>>, scopes |-> {"FULL", "PARTIAL"},
     minQuantity |-> 0, maxQuantity |-> 0, available |-> FALSE]
WithPlaces(c, data, retired) ==
    [id \in DOMAIN data.options \cup GoneIds(c, data, retired) |->
        IF id \in DOMAIN data.options THEN data.options[id]
        ELSE Placeholder(KindGone(c, data, retired, id))]
KindsTyped(retired) == \A entry \in retired : entry.kind \in OptionKinds

LEMMA RetiredIs ==
    ASSUME NEW c, NEW data, PricingDataTyped(data), NEW retired, KindsTyped(retired)
    PROVE  LET new == WithRetiredOptions(c, data, retired)
               ids == GoneIds(c, data, retired)
           IN  /\ \A field \in DataFields \ {"options"} : new[field] = data[field]
               /\ new.options = WithPlaces(c, data, retired)
               /\ new = [data EXCEPT !.options = new.options]
               /\ \A id \in ids : id \notin DOMAIN data.options
                                  /\ KindGone(c, data, retired, id) \in OptionKinds
               /\ PricingDataTyped(new)
<1> DEFINE new == WithRetiredOptions(c, data, retired)
           gone == Gone(c, data, retired)
           ids == GoneIds(c, data, retired)
           kind(id) == KindGone(c, data, retired, id)
           options == [id \in DOMAIN data.options \cup ids |->
                          IF id \in DOMAIN data.options THEN data.options[id]
                          ELSE Placeholder(kind(id))]
<1>1. data = [field \in DataFields |-> data[field]]
  BY DEF PricingDataTyped
<1>2. new = [data EXCEPT !.options = options]
  <2>1. new = [data EXCEPT !.options =
                  data.options ++ [id \in ids |-> Placeholder(kind(id))]]
    BY DEF WithRetiredOptions, Gone, GoneIds, KindGone, Placeholder
  <2>2. (data.options ++ [id \in ids |-> Placeholder(kind(id))]) = options
    <3> HIDE DEF ids, kind
    <3> QED
      BY DEF ++
  <2> QED
    BY <2>1, <2>2
<1>3. /\ new = [field \in DataFields |-> new[field]] /\ new.options = options
      /\ \A field \in DataFields \ {"options"} : new[field] = data[field]
  <2> HIDE DEF new, options
  <2> QED
    BY <1>1, <1>2 DEF DataFields
<1>4. ASSUME NEW id \in ids
      PROVE  id \notin DOMAIN data.options /\ kind(id) \in OptionKinds
  <2>1. PICK entry \in gone : entry.id = id
    BY DEF GoneIds
  <2>2. (CHOOSE e \in gone : e.id = id) \in gone
    <3> HIDE DEF gone
    <3> QED
      BY <2>1
  <2>3. kind(id) = (CHOOSE e \in gone : e.id = id).kind
    BY DEF KindGone
  <2>4. gone \subseteq retired
    BY DEF Gone
  <2>5. kind(id) \in OptionKinds
    <3> HIDE DEF gone, kind
    <3> QED
      BY <2>2, <2>3, <2>4 DEF KindsTyped
  <2>6. id \notin DOMAIN data.options
    BY <2>1 DEF Gone
  <2> QED
    BY <2>5, <2>6
<1>5. \A id \in DOMAIN options : OptionTyped(options[id])
  <2>1. ASSUME NEW k \in OptionKinds PROVE OptionTyped(Placeholder(k))
    BY EmptyIs DEF OptionTyped, Placeholder, Units
  <2>2. \A id \in DOMAIN data.options : OptionTyped(data.options[id])
    BY DEF PricingDataTyped, OptionTyped
  <2> HIDE DEF ids, kind
  <2> QED
    BY <1>4, <2>1, <2>2
<1>6. /\ new.rate = data.rate /\ new.coefficients = data.coefficients
      /\ new.packageItems = data.packageItems /\ new.rules = data.rules
      /\ new.categories = data.categories /\ new.products = data.products
  <2> HIDE DEF new
  <2> QED
    BY <1>3 DEF DataFields
<1>7. new.options = [id \in DOMAIN new.options |-> new.options[id]]
  <2> HIDE DEF new, ids, kind
  <2> QED
    BY <1>3
<1>8. PricingDataTyped(new)
  <2> HIDE DEF new, options, ids, kind
  <2> QED
    BY <1>3, <1>5, <1>6, <1>7 DEF PricingDataTyped, OptionTyped
<1>9. new = [data EXCEPT !.options = new.options]
  <2> HIDE DEF new, options
  <2> QED
    BY <1>2, <1>3
<1>10. options = WithPlaces(c, data, retired)
  BY DEF WithPlaces
<1> HIDE DEF options, new, ids, kind
<1> QED
  BY <1>3, <1>4, <1>8, <1>9, <1>10 DEF new, ids, kind

LEMMA NothingRetired ==
    ASSUME NEW c, NEW data, PricingDataTyped(data), NEW retired, KindsTyped(retired),
           Gone(c, data, retired) = {}
    PROVE  WithRetiredOptions(c, data, retired) = data
<1> DEFINE new == WithRetiredOptions(c, data, retired)
           ids == GoneIds(c, data, retired)
           options == WithPlaces(c, data, retired)
<1>1. ids = {}
  BY DEF GoneIds
<1>2. new = [data EXCEPT !.options = new.options] /\ new.options = options
  BY RetiredIs
<1>3. /\ data.options = [id \in DOMAIN data.options |-> data.options[id]]
      /\ data = [field \in DataFields |-> data[field]]
  BY DEF PricingDataTyped
<1>4. options = data.options
  <2> HIDE DEF ids
  <2>1. options = [id \in DOMAIN data.options |-> data.options[id]]
    BY <1>1 DEF WithPlaces, ids
  <2> QED
    BY <1>3, <2>1
<1> HIDE DEF new, options
<1> QED
  BY <1>2, <1>3, <1>4 DEF new, DataFields

LEMMA OptionsOfLines ==
    ASSUME NEW c, ConfigurationTyped(c), NEW data, PricingDataTyped(data)
    PROVE  RetiredOptionsOf(EstimateLines(c, data)) =
              {[id |-> s.optionId, kind |-> data.options[s.optionId].kind] :
                 s \in KnownOptions(c, data)}
<1> DEFINE lines == EstimateLines(c, data)
           entry(s) == [id |-> s.optionId, kind |-> data.options[s.optionId].kind]
           mine(line) == [id |-> line.optionId, kind |-> line.section]
<1>1. ASSUME NEW line \in ToSet(lines), line.optionId # None
      PROVE  \E s \in KnownOptions(c, data) : mine(line) = entry(s)
  <2>1. Origin(c, data, line)
    BY EstimateLineIs
  <2>2. PICK s \in KnownOptions(c, data) : /\ line.optionId = s.optionId
                                           /\ line.section = data.options[s.optionId].kind
    BY <1>1, <2>1 DEF Origin
  <2> QED
    BY <2>2
<1>2. ASSUME NEW s \in KnownOptions(c, data)
      PROVE  \E line \in ToSet(lines) : line.optionId # None /\ mine(line) = entry(s)
  <2> DEFINE option == data.options[s.optionId]
             bare == LineOfOption(c, data, s)
             line == WithKopecks(bare, data.rate)
  <2>1. /\ s.quantity \in Nat /\ OptionTyped(option) /\ s.optionId # None
    BY DEF KnownOptions, ConfigurationTyped, PricingDataTyped, OptionTyped
  <2>2. \A key \in DOMAIN data.coefficients : data.coefficients[key] \in Int
    BY DEF PricingDataTyped
  <2>3. option.kind = "ENGINEERING" \/ option.kind = "ADDITIONAL"
    BY <2>1 DEF OptionTyped, OptionKinds
  <2>4. bare \in ToSet(BareLines(c, data))
    BY <2>3, OptionLinesAre, BareLinesAre
  <2>5. bare = OptionLine(c, option, s, data.coefficients)
    BY DEF LineOfOption
  <2> HIDE DEF bare, option
  <2>6. Carries(bare, OfOption(option, s))
    BY <2>1, <2>2, <2>5, OptionLineIs
  <2>7. bare.section = option.kind /\ bare.optionId = s.optionId /\ DOMAIN bare = LineFields
    BY <2>6 DEF Carries, OfOption, LineIdFields, Given
  <2>8. line.section = bare.section /\ line.optionId = bare.optionId
    <3>1. \A field \in LineFields : line[field] = bare[field]
      BY <2>7, WithKopecksIs
    <3> QED
      BY <3>1 DEF LineFields
  <2>9. line \in ToSet(lines)
    BY <2>4, EstimateLinesAre
  <2> HIDE DEF line, lines
  <2> QED
    BY <2>1, <2>7, <2>8, <2>9 DEF option
<1>3. RetiredOptionsOf(lines) = {mine(line) : line \in {l \in ToSet(lines) : l.optionId # None}}
  BY DEF RetiredOptionsOf
<1> HIDE DEF lines, mine, entry
<1>4. RetiredOptionsOf(lines) = {entry(s) : s \in KnownOptions(c, data)}
  BY <1>1, <1>2, <1>3
<1> QED
  BY <1>4 DEF lines, entry

\* The lines of an estimate retire the options that were retired for it.
LEMMA RetiredAgain ==
    ASSUME NEW c, ConfigurationTyped(c), NEW data, PricingDataTyped(data),
           NEW retired, KindsTyped(retired)
    PROVE  LET new == WithRetiredOptions(c, data, retired)
               again == RetiredOptionsOf(EstimateLines(c, new))
           IN  KindsTyped(again) /\ WithRetiredOptions(c, data, again) = new
<1> DEFINE new == WithRetiredOptions(c, data, retired)
           again == RetiredOptionsOf(EstimateLines(c, new))
           ids == GoneIds(c, data, retired)
           kind(id) == KindGone(c, data, retired, id)
           newer == WithRetiredOptions(c, data, again)
<1>1. /\ PricingDataTyped(new) /\ new = [data EXCEPT !.options = new.options]
      /\ new.options = WithPlaces(c, data, retired)
      /\ \A id \in ids : id \notin DOMAIN data.options /\ kind(id) \in OptionKinds
  BY RetiredIs
<1> HIDE DEF new
<1>2. again = {[id |-> s.optionId, kind |-> new.options[s.optionId].kind] :
                 s \in KnownOptions(c, new)}
  BY <1>1, OptionsOfLines
<1> HIDE DEF again
<1>3. \A id \in DOMAIN new.options : new.options[id].kind \in OptionKinds
  BY <1>1 DEF PricingDataTyped
<1>4. KindsTyped(again)
  BY <1>2, <1>3 DEF KindsTyped, KnownOptions
<1>5. \A id \in ids : id \in DOMAIN new.options /\ new.options[id].kind = kind(id)
  <2>1. new.options = [id \in DOMAIN data.options \cup ids |->
            IF id \in DOMAIN data.options THEN data.options[id] ELSE Placeholder(kind(id))]
    BY <1>1 DEF WithPlaces
  <2> HIDE DEF ids, kind
  <2> QED
    BY <1>1, <2>1 DEF Placeholder
<1>6. DOMAIN new.options = DOMAIN data.options \cup ids
  BY <1>1 DEF WithPlaces
<1>7. \A id \in ids : \E s \in ToSet(c.options) : s.optionId = id
  BY DEF GoneIds, Gone
<1>8. Gone(c, data, again) = {[id |-> id, kind |-> kind(id)] : id \in ids}
  <2>1. ASSUME NEW e \in Gone(c, data, again)
        PROVE  \E id \in ids : e = [id |-> id, kind |-> kind(id)]
    <3>1. e \in again /\ e.id \notin DOMAIN data.options
      BY DEF Gone
    <3>2. PICK s \in KnownOptions(c, new) :
              e = [id |-> s.optionId, kind |-> new.options[s.optionId].kind]
      BY <1>2, <3>1
    <3>3. s.optionId \in DOMAIN new.options /\ e.id = s.optionId
      BY <3>2 DEF KnownOptions
    <3>4. s.optionId \in ids
      BY <1>6, <3>1, <3>3
    <3> HIDE DEF ids, kind
    <3> QED
      BY <1>5, <3>2, <3>4
  <2>2. ASSUME NEW id \in ids PROVE [id |-> id, kind |-> kind(id)] \in Gone(c, data, again)
    <3>1. PICK s \in ToSet(c.options) : s.optionId = id
      BY <1>7
    <3>2. s \in KnownOptions(c, new)
      BY <1>5, <3>1 DEF KnownOptions
    <3> DEFINE e == [id |-> s.optionId, kind |-> new.options[s.optionId].kind]
    <3>3. e \in again
      BY <1>2, <3>2
    <3> HIDE DEF ids, kind
    <3>4. e = [id |-> id, kind |-> kind(id)] /\ id \notin DOMAIN data.options
      BY <1>1, <1>5, <3>1
    <3>5. e \in Gone(c, data, again)
      <4>1. e.id = id
        BY <3>4
      <4> HIDE DEF e
      <4> QED
        BY <3>1, <3>3, <3>4, <4>1 DEF Gone
    <3> QED
      BY <3>4, <3>5
  <2> HIDE DEF ids, kind
  <2> QED
    BY <2>1, <2>2
<1>9. GoneIds(c, data, again) = ids
  <2> HIDE DEF ids, kind
  <2>1. GoneIds(c, data, again) = {e.id : e \in {[id |-> id, kind |-> kind(id)] : id \in ids}}
    BY <1>8 DEF GoneIds
  <2>2. \A id \in ids : [id |-> id, kind |-> kind(id)].id = id
    OBVIOUS
  <2> QED
    BY <2>1, <2>2
<1>10. ASSUME NEW id \in ids PROVE KindGone(c, data, again, id) = kind(id)
  <2> HIDE DEF ids, kind
  <2> DEFINE e == CHOOSE e \in Gone(c, data, again) : e.id = id
  <2>1. [id |-> id, kind |-> kind(id)] \in Gone(c, data, again)
    BY <1>8
  <2>2. e \in Gone(c, data, again) /\ e.id = id
    <3>1. [id |-> id, kind |-> kind(id)].id = id
      OBVIOUS
    <3> QED
      BY <2>1, <3>1
  <2>3. KindGone(c, data, again, id) = e.kind
    BY DEF KindGone
  <2> HIDE DEF e
  <2>4. PICK i \in ids : e = [id |-> i, kind |-> kind(i)]
    BY <1>8, <2>2
  <2>5. i = id
    BY <2>2, <2>4
  <2> QED
    BY <2>3, <2>4, <2>5
<1>11. /\ newer = [data EXCEPT !.options = newer.options]
       /\ newer.options = WithPlaces(c, data, again)
  BY <1>4, RetiredIs
<1>12. newer.options = new.options
  <2> HIDE DEF ids, kind, newer
  <2>1. newer.options = [id \in DOMAIN data.options \cup ids |->
                     IF id \in DOMAIN data.options THEN data.options[id]
                     ELSE Placeholder(KindGone(c, data, again, id))]
    BY <1>9, <1>11 DEF WithPlaces
  <2>2. \A id \in DOMAIN data.options \cup ids :
            id \notin DOMAIN data.options => KindGone(c, data, again, id) = kind(id)
    BY <1>10
  <2>3. new.options = [id \in DOMAIN data.options \cup ids |->
                     IF id \in DOMAIN data.options THEN data.options[id]
                     ELSE Placeholder(kind(id))]
    BY <1>1 DEF WithPlaces, ids, kind
  <2> QED
    BY <2>1, <2>2, <2>3
<1>13. newer = new
  <2> HIDE DEF newer
  <2> QED
    BY <1>1, <1>11, <1>12
<1> QED
  BY <1>4, <1>13 DEF new, again

-----------------------------------------------------------------------------
(* An estimate again: with the pricing of a version, and what it keeps.    *)

LEMMA UnknownByRoomTypes ==
    ASSUME NEW c, NEW data, NEW other, data.roomTypes = other.roomTypes
    PROVE  UnknownReferences(c, data, TRUE) = UnknownReferences(c, other, TRUE)
  BY DEF UnknownReferences

LEMMA UnknownTolerated ==
    ASSUME NEW c, NEW data, ~UnknownReferences(c, data, FALSE)
    PROVE  /\ ~UnknownReferences(c, data, TRUE)
           /\ \A s \in ToSet(c.options) : s.optionId \in DOMAIN data.options
  BY DEF UnknownReferences

LEMMA RoomTypesOf ==
    ASSUME NEW p, PricingInv(p), NEW c, NEW retired, KindsTyped(retired), NEW q, PricingInv(q)
    PROVE  WithRetiredOptions(c, DataOf(p), retired).roomTypes = DataOf(q).roomTypes
<1> DEFINE data == DataOf(p)
           new == WithRetiredOptions(c, data, retired)
<1>1. PricingDataTyped(data) /\ "roomTypes" \in DataFields \ {"rules", "options"}
  BY DataIs DEF DataFields
<1>2. new.roomTypes = data.roomTypes
  <2> HIDE DEF data
  <2> QED
    BY <1>1, RetiredIs
<1>3. /\ data.roomTypes = Dataset(p.dataset).roomTypes
      /\ DataOf(q).roomTypes = Dataset(q.dataset).roomTypes
  BY <1>1, DataIs
<1> HIDE DEF new, data
<1> QED
  BY <1>2, <1>3, RoomTypesAssumption DEF PricingInv, new, data

\* An estimate whose version had given lines has lines that give it again.
LEMMA RecalculatedIs ==
    ASSUME NEW c \in Configurations, NEW p, PricingInv(p), NEW retired, KindsTyped(retired)
    PROVE  LET data == WithRetiredOptions(c, DataOf(p), retired)
               estimate == EstimateOf(c, data)
           IN  /\ PricingDataTyped(data)
               /\ estimate.lines = EstimateLines(c, data)
               /\ KindsTyped(RetiredOptionsOf(estimate.lines))
               /\ estimate = Recalculated(c, DataOf(p), estimate.lines)
<1> DEFINE data == WithRetiredOptions(c, DataOf(p), retired)
           estimate == EstimateOf(c, data)
           again == RetiredOptionsOf(EstimateLines(c, data))
<1>1. ConfigurationTyped(c) /\ PricingDataTyped(DataOf(p))
  BY SchemasAssumption, DataIs
<1>2. PricingDataTyped(data)
  BY <1>1, RetiredIs
<1>3. KindsTyped(again) /\ WithRetiredOptions(c, DataOf(p), again) = data
  BY <1>1, RetiredAgain
<1>4. estimate.lines = EstimateLines(c, data)
  BY DEF EstimateOf, WithTotals
<1>5. Recalculated(c, DataOf(p), estimate.lines) = estimate
  <2>1. RetiredOptionsOf(estimate.lines) = again
    BY <1>4
  <2>2. Recalculated(c, DataOf(p), estimate.lines)
            = EstimateOf(c, WithRetiredOptions(c, DataOf(p), again))
    BY <2>1 DEF Recalculated
  <2> HIDE DEF data, again
  <2> QED
    BY <1>3, <2>2
<1> QED
  BY <1>2, <1>3, <1>4, <1>5

\* The products and the options that an estimate has lines of.
LEMMA ProductsOfLines ==
    ASSUME NEW c, ConfigurationTyped(c), NEW data, PricingDataTyped(data)
    PROVE  \A id : id \in Chosen(EstimateLines(c, data), "productId")
              <=> /\ id # None
                  /\ \E room \in ToSet(c.rooms) : \E s \in ToSet(room.selections) :
                        s.productId = id
<1> DEFINE lines == EstimateLines(c, data)
<1>1. ASSUME NEW line \in ToSet(lines), line.productId # None
      PROVE  \E room \in ToSet(c.rooms) : \E s \in ToSet(room.selections) :
                s.productId = line.productId
  <2>1. Origin(c, data, line)
    BY EstimateLineIs
  <2> HIDE DEF lines
  <2> QED
    BY <1>1, <2>1 DEF Origin
<1>2. ASSUME NEW room \in ToSet(c.rooms), NEW s \in ToSet(room.selections), s.productId # None
      PROVE  \E line \in ToSet(lines) : line.productId = s.productId
  <2>1. IsSequence(room.selections)
    BY DEF ConfigurationTyped
  <2>2. PICK i \in 1 .. Len(PickedIn(room)) : s = PickedIn(room)[i]
    <3>1. s \in ToSet(PickedIn(room)) /\ IsSequence(PickedIn(room))
      BY <1>2, <2>1, PickedInIs
    <3> QED
      BY <3>1, SequenceIs
  <2> DEFINE bare == PreparedLines(c, data, room)[i]
             line == WithKopecks(bare, data.rate)
  <2>3. PICK ruleId : Carries(bare, OfMaterial(room, PickedIn(room)[i], ruleId))
    BY <2>1, PreparedLinesAre
  <2>4. bare \in ToSet(PreparedLines(c, data, room))
    <3>1. ToSet(PreparedLines(c, data, room)) =
                 {PreparedLines(c, data, room)[j] : j \in 1 .. Len(PickedIn(room))}
      BY <2>1, PreparedLinesAre
    <3> QED
      BY <3>1
  <2>5. bare \in ToSet(BareLines(c, data))
    <3>1. bare \in ToSet(MaterialLines(c, data))
      <4> HIDE DEF bare
      <4> QED
        BY <2>4, MaterialLinesAre
    <3> HIDE DEF bare
    <3> QED
      BY <3>1, BareLinesAre
  <2> HIDE DEF bare
  <2>6. DOMAIN bare = LineFields /\ bare.productId = s.productId
    BY <2>2, <2>3 DEF Carries, OfMaterial, LineIdFields, Given
  <2>7. line.productId = bare.productId
    <3>1. \A field \in LineFields : line[field] = bare[field]
      BY <2>6, WithKopecksIs
    <3> QED
      BY <3>1 DEF LineFields
  <2>8. line \in ToSet(lines)
    BY <2>5, EstimateLinesAre
  <2> HIDE DEF line, lines
  <2> QED
    BY <2>6, <2>7, <2>8
<1>3. \A id : id \in Chosen(lines, "productId")
         <=> id # None /\ \E line \in ToSet(lines) : line.productId = id
  BY DEF Chosen
<1> HIDE DEF lines
<1> QED
  BY <1>1, <1>2, <1>3 DEF lines

LEMMA OptionsChosen ==
    ASSUME NEW c, ConfigurationTyped(c), NEW data, PricingDataTyped(data)
    PROVE  \A id : id \in Chosen(EstimateLines(c, data), "optionId")
              <=> \E s \in KnownOptions(c, data) : s.optionId = id
<1> DEFINE lines == EstimateLines(c, data)
<1>1. RetiredOptionsOf(lines) =
              {[id |-> s.optionId, kind |-> data.options[s.optionId].kind] :
                 s \in KnownOptions(c, data)}
  BY OptionsOfLines
<1>2. RetiredOptionsOf(lines) = {[id |-> line.optionId, kind |-> line.section] :
          line \in {l \in ToSet(lines) : l.optionId # None}}
  BY DEF RetiredOptionsOf
<1>3. \A id : id \in Chosen(lines, "optionId")
         <=> id # None /\ \E line \in ToSet(lines) : line.optionId = id
  BY DEF Chosen
<1>4. \A s \in KnownOptions(c, data) : s.optionId # None
  BY DEF KnownOptions, ConfigurationTyped
<1> HIDE DEF lines
<1>5. ASSUME NEW line \in ToSet(lines), line.optionId # None
      PROVE  \E s \in KnownOptions(c, data) : s.optionId = line.optionId
  <2>1. [id |-> line.optionId, kind |-> line.section] \in RetiredOptionsOf(lines)
    BY <1>2, <1>5
  <2>2. PICK s \in KnownOptions(c, data) :
            [id |-> line.optionId, kind |-> line.section]
               = [id |-> s.optionId, kind |-> data.options[s.optionId].kind]
    BY <1>1, <2>1
  <2> QED
    BY <2>2
<1>6. ASSUME NEW s \in KnownOptions(c, data)
      PROVE  \E line \in ToSet(lines) : line.optionId = s.optionId
  <2>1. [id |-> s.optionId, kind |-> data.options[s.optionId].kind] \in RetiredOptionsOf(lines)
    BY <1>1
  <2>2. PICK line \in ToSet(lines) :
            [id |-> line.optionId, kind |-> line.section]
               = [id |-> s.optionId, kind |-> data.options[s.optionId].kind]
    BY <1>2, <2>1
  <2> QED
    BY <2>2
<1> QED
  BY <1>3, <1>4, <1>5, <1>6 DEF lines

\* What a version keeps of the version that it was recalculated from.
Keeps(base, version) ==
    /\ \A field \in {"productId", "optionId"} :
          Chosen(base.estimate.lines, field) \subseteq Chosen(version.estimate.lines, field)
    /\ \A name \in base.names : name \in Mentioned(version.estimate.lines)
                                   => name \in version.names

LEMMA ChosenAgain ==
    ASSUME NEW c \in Configurations, NEW p, PricingInv(p), NEW before, PricingDataTyped(before),
           KindsTyped(RetiredOptionsOf(EstimateLines(c, before)))
    PROVE  LET lines == EstimateLines(c, before)
               now == Recalculated(c, DataOf(p), lines).lines
           IN  \A field \in {"productId", "optionId"} :
                  Chosen(lines, field) \subseteq Chosen(now, field)
<1> DEFINE lines == EstimateLines(c, before)
           retired == RetiredOptionsOf(lines)
           data == WithRetiredOptions(c, DataOf(p), retired)
           now == EstimateLines(c, data)
<1>1. ConfigurationTyped(c) /\ PricingDataTyped(DataOf(p))
  BY SchemasAssumption, DataIs
<1>2. PricingDataTyped(data) /\ data.options = WithPlaces(c, DataOf(p), retired)
  <2> HIDE DEF retired
  <2> QED
    BY <1>1, RetiredIs DEF retired
<1>3. Recalculated(c, DataOf(p), lines).lines = now
  BY DEF Recalculated, EstimateOf, WithTotals
<1> HIDE DEF data
<1>4. Chosen(lines, "productId") \subseteq Chosen(now, "productId")
  BY <1>1, <1>2, ProductsOfLines
<1>5. ASSUME NEW s \in KnownOptions(c, before) PROVE s \in KnownOptions(c, data)
  <2>1. s \in ToSet(c.options)
    BY DEF KnownOptions
  <2>2. retired = {[id |-> o.optionId, kind |-> before.options[o.optionId].kind] :
                      o \in KnownOptions(c, before)}
    BY <1>1, OptionsOfLines
  <2> DEFINE e == [id |-> s.optionId, kind |-> before.options[s.optionId].kind]
  <2>3. e \in retired /\ e.id = s.optionId
    <3> HIDE DEF retired
    <3> QED
      BY <2>2
  <2> HIDE DEF e, retired
  <2>4. s.optionId \in DOMAIN DataOf(p).options \/ s.optionId \in GoneIds(c, DataOf(p), retired)
    BY <2>1, <2>3 DEF GoneIds, Gone
  <2>5. s.optionId \in DOMAIN data.options
    BY <1>2, <2>4 DEF WithPlaces, retired
  <2> QED
    BY <2>1, <2>5 DEF KnownOptions
<1>6. Chosen(lines, "optionId") \subseteq Chosen(now, "optionId")
  <2>1. \A id : id \in Chosen(lines, "optionId")
                   <=> \E s \in KnownOptions(c, before) : s.optionId = id
    BY <1>1, OptionsChosen
  <2>2. \A id : id \in Chosen(now, "optionId")
                   <=> \E s \in KnownOptions(c, data) : s.optionId = id
    BY <1>1, <1>2, OptionsChosen
  <2> HIDE DEF lines, now
  <2> QED
    BY <1>5, <2>1, <2>2
<1> QED
  BY <1>3, <1>4, <1>6

-----------------------------------------------------------------------------
(* The cache of price statuses.                                            *)

LEMMA HeadIs ==
    ASSUME NEW s, IsSequence(s), s # <<>> PROVE Head(s) \in ToSet(s)
<1>1. s \in Seq(ToSet(s))
  BY DEF IsSequence
<1> QED
  BY <1>1, HeadTailProperties

LEMMA TailIs ==
    ASSUME NEW s, IsSequence(s), s # <<>>
    PROVE  /\ IsSequence(Tail(s)) /\ ToSet(Tail(s)) \subseteq ToSet(s)
           /\ Len(Tail(s)) = Len(s) - 1
           /\ \A i \in 1 .. Len(Tail(s)) : i + 1 \in 1 .. Len(s) /\ Tail(s)[i] = s[i + 1]
<1>1. s \in Seq(ToSet(s)) /\ Len(s) \in Nat
  BY LenProperties DEF IsSequence
<1>2. /\ Tail(s) \in Seq(ToSet(s)) /\ Len(Tail(s)) = Len(s) - 1
      /\ \A i \in 1 .. Len(Tail(s)) : Tail(s)[i] = s[i + 1]
  BY <1>1, HeadTailProperties
<1>3. IsSequence(Tail(s)) /\ ToSet(Tail(s)) \subseteq ToSet(s)
  BY <1>2, SeqFacts DEF IsSequence
<1>4. \A i \in 1 .. Len(Tail(s)) : i + 1 \in 1 .. Len(s)
  BY <1>1, <1>2
<1> QED
  BY <1>2, <1>3, <1>4

LEMMA AppendIs ==
    ASSUME NEW s, IsSequence(s), NEW x
    PROVE  /\ IsSequence(Append(s, x)) /\ ToSet(Append(s, x)) = ToSet(s) \cup {x}
           /\ Len(Append(s, x)) = Len(s) + 1 /\ Append(s, x)[Len(s) + 1] = x
           /\ \A i \in 1 .. Len(s) : Append(s, x)[i] = s[i]
<1> DEFINE S == ToSet(s) \cup {x}
<1>1. s \in Seq(S) /\ x \in S
  <2>1. ToSet(s) \subseteq S /\ x \in S
    OBVIOUS
  <2> HIDE DEF S
  <2> QED
    BY <2>1, SeqMonotonic DEF IsSequence
<1> HIDE DEF S
<1>2. /\ Append(s, x) \in Seq(S) /\ Len(Append(s, x)) = Len(s) + 1
      /\ \A i \in 1 .. Len(s) : Append(s, x)[i] = s[i]
      /\ Append(s, x)[Len(s) + 1] = x
      /\ ToSet(Append(s, x)) = ToSet(s) \cup {x}
  BY <1>1, AppendFacts
<1> QED
  BY <1>2 DEF S, IsSequence

KeysDiffer(entries) ==
    \A i, j \in DOMAIN entries : entries[i].key = entries[j].key => i = j

LEMMA KeysAre ==
    ASSUME NEW entries, IsSequence(entries), NEW S, ToSet(entries) \subseteq S
    PROVE  /\ entries \in Seq(S)
           /\ KeysDiffer(entries) <=> Distinct(Weights([e \in S |-> e.key], entries))
           /\ KeysDiffer(entries) <=> Distinct(Map(LAMBDA entry : entry.key, entries))
<1> DEFINE w == [e \in S |-> e.key]
<1>1. entries \in Seq(S)
  BY SeqMonotonic DEF IsSequence
<1>2. \A i \in DOMAIN entries : entries[i] \in S
  BY <1>1, LenProperties
<1>3. /\ DOMAIN Weights(w, entries) = DOMAIN entries
      /\ \A i \in DOMAIN entries : Weights(w, entries)[i] = entries[i].key
  BY <1>2 DEF Weights
<1>4. KeysDiffer(entries) <=> Distinct(Weights(w, entries))
  <2> HIDE DEF w
  <2> QED
    BY <1>3 DEF KeysDiffer, Distinct
<1>5. KeysDiffer(entries) <=> Distinct(Map(LAMBDA entry : entry.key, entries))
  BY DEF KeysDiffer, Distinct, Map
<1> QED
  BY <1>1, <1>4, <1>5

\* The statuses as they are after an entry was remembered among some.
Remembering(entries, entry) ==
    LET more == Append(Among(entries, {e \in ToSet(entries) : ~KeyIs(entry.key, e)}), entry)
    IN  IF Len(more) > CacheLimit THEN Tail(more) ELSE more

LEMMA RememberedIs ==
    ASSUME NEW entries, IsSequence(entries), KeysDiffer(entries),
           Len(entries) <= CacheLimit, NEW entry
    PROVE  LET now == Remembering(entries, entry) IN
           /\ IsSequence(now) /\ KeysDiffer(now) /\ Len(now) <= CacheLimit
           /\ ToSet(now) \subseteq ToSet(entries) \cup {entry}
<1> DEFINE K == {e \in ToSet(entries) : ~KeyIs(entry.key, e)}
           rest == Among(entries, K)
           more == Append(rest, entry)
           S == ToSet(entries) \cup {entry}
           w == [e \in S |-> e.key]
<1>1. /\ ToSet(entries) \subseteq S /\ entry \in S
      /\ \A e \in K : e \in ToSet(entries) /\ e.key # entry.key
      /\ \A e \in S : w[e] = e.key
  BY DEF KeyIs
<1> HIDE DEF K, S, w
<1>2. entries \in Seq(S) /\ Distinct(Weights(w, entries))
  BY <1>1, KeysAre DEF w
<1>3. /\ rest \in Seq(S) /\ ToSet(rest) = ToSet(entries) \cap K
      /\ Len(rest) <= Len(entries) /\ Len(rest) \in Nat
  BY <1>2, AmongFacts, LenProperties
<1>4. Distinct(Weights(w, rest))
  BY <1>2, AmongDistinct
<1> HIDE DEF rest
<1>5. \A e \in ToSet(rest) : w[e] # w[entry]
  BY <1>1, <1>3
<1>6. Distinct(Weights(w, more))
  BY <1>1, <1>3, <1>4, <1>5, DistinctAppended
<1>7. /\ more \in Seq(S) /\ Len(more) = Len(rest) + 1
      /\ ToSet(more) = ToSet(rest) \cup {entry}
  BY <1>1, <1>3, AppendFacts
<1> HIDE DEF more
<1>8. IsSequence(more) /\ ToSet(more) \subseteq S
  BY <1>7, SeqFacts DEF IsSequence
<1>9. KeysDiffer(more)
  BY <1>6, <1>8, KeysAre DEF w
<1>10. CacheLimit \in Nat \ {0} /\ Len(entries) \in Nat
  BY <1>2, BoundsAssumption, LenProperties
<1>11. Remembering(entries, entry) = IF Len(more) > CacheLimit THEN Tail(more) ELSE more
  BY DEF Remembering, more, rest, K
<1>12. CASE Len(more) > CacheLimit
  <2>1. more # <<>>
    BY <1>3, <1>7, EmptySeq
  <2>2. /\ IsSequence(Tail(more)) /\ ToSet(Tail(more)) \subseteq ToSet(more)
        /\ Len(Tail(more)) = Len(more) - 1
        /\ \A i \in 1 .. Len(Tail(more)) :
              i + 1 \in 1 .. Len(more) /\ Tail(more)[i] = more[i + 1]
    BY <1>8, <2>1, TailIs
  <2>3. DOMAIN Tail(more) = 1 .. Len(Tail(more)) /\ DOMAIN more = 1 .. Len(more)
    BY <1>8, <2>2, SequenceIs
  <2>4. KeysDiffer(Tail(more))
    <3>1. ASSUME NEW i \in 1 .. Len(Tail(more)), NEW j \in 1 .. Len(Tail(more)),
                 Tail(more)[i].key = Tail(more)[j].key
          PROVE  i = j
      <4>1. more[i + 1].key = more[j + 1].key
        BY <2>2, <3>1
      <4>2. i + 1 = j + 1
        BY <1>9, <2>2, <2>3, <4>1 DEF KeysDiffer
      <4> QED
        BY <4>2
    <3> QED
      BY <2>3, <3>1 DEF KeysDiffer
  <2>5. Len(Tail(more)) <= CacheLimit
    BY <1>3, <1>7, <1>10, <2>2
  <2> QED
    BY <1>8, <1>11, <1>12, <2>2, <2>4, <2>5 DEF S
<1>13. CASE ~(Len(more) > CacheLimit)
  <2>1. Len(more) <= CacheLimit
    BY <1>3, <1>7, <1>10, <1>13
  <2> QED
    BY <1>8, <1>9, <1>11, <1>13, <2>1 DEF S
<1> QED
  BY <1>12, <1>13

-----------------------------------------------------------------------------
(* Versions and price statuses.                                            *)

VersionInv(version) ==
    /\ version.configuration \in Configurations
    /\ ConfigurationValid(version.configuration)
    /\ PricingInv(version.pricing)
    /\ ~UnknownReferences(version.configuration, DataOf(version.pricing), TRUE)
    /\ KindsTyped(RetiredOptionsOf(version.estimate.lines))
    /\ version.estimate = Recalculated(version.configuration, DataOf(version.pricing),
                                       version.estimate.lines)
    /\ version.names \subseteq Mentioned(version.estimate.lines)

Descends(all, v) ==
    /\ all[v].base \in 0 .. v - 1
    /\ all[v].base # 0 => Keeps(all[all[v].base], all[v])

VersionsInv(all) ==
    /\ IsSequence(all)
    /\ \A v \in 1 .. Len(all) : VersionInv(all[v]) /\ Descends(all, v)

\* The status of a version against a pricing, whatever other versions there are.
StatusOf(version, pricing) ==
    LET c == version.configuration
        lines == version.estimate.lines
    IN  IF UnknownReferences(c, WithRetiredOptions(c, DataOf(pricing),
                                    RetiredOptionsOf(lines)), TRUE)
        THEN NoStatus
        ELSE Difference(version, Recalculated(c, DataOf(pricing), lines), pricing)

EntryTrue(all, entry) ==
    /\ entry.key[1] \in 1 .. Len(all)
    /\ entry.status = StatusOf(all[entry.key[1]], entry.key[2])
AnswerTrue(all, given) ==
    /\ given.version \in 1 .. Len(all)
    /\ given.status # NoStatus
       => given.status = StatusOf(all[given.version], given.status.pricing)

LEMMA EvaluateIs == \A v, pricing : Evaluate(v, pricing) = StatusOf(versions[v], pricing)
  BY DEF Evaluate, StatusOf

LEMMA VersionAdded ==
    ASSUME NEW all, VersionsInv(all), NEW version, VersionInv(version),
           version.base \in 0 .. Len(all),
           version.base # 0 => Keeps(all[version.base], version)
    PROVE  /\ VersionsInv(Append(all, version))
           /\ \A entry : EntryTrue(all, entry) => EntryTrue(Append(all, version), entry)
           /\ Len(Append(all, version)) = Len(all) + 1
<1> DEFINE more == Append(all, version)
<1>1. /\ IsSequence(more) /\ Len(more) = Len(all) + 1 /\ more[Len(all) + 1] = version
      /\ \A i \in 1 .. Len(all) : more[i] = all[i]
  BY AppendIs DEF VersionsInv
<1>2. Len(all) \in Nat
  BY SequenceIs DEF VersionsInv
<1> HIDE DEF more
<1>3. ASSUME NEW v \in 1 .. Len(more) PROVE VersionInv(more[v]) /\ Descends(more, v)
  <2>1. CASE v \in 1 .. Len(all)
    <3>1. more[v] = all[v] /\ VersionInv(all[v]) /\ Descends(all, v)
      BY <1>1, <2>1 DEF VersionsInv
    <3>2. all[v].base # 0 => more[all[v].base] = all[all[v].base]
      <4>1. all[v].base \in 0 .. v - 1
        BY <3>1 DEF Descends
      <4>2. all[v].base # 0 => all[v].base \in 1 .. Len(all)
        BY <1>2, <2>1, <4>1
      <4> QED
        BY <1>1, <4>2
    <3> QED
      BY <3>1, <3>2 DEF Descends
  <2>2. CASE v = Len(all) + 1
    <3>1. more[v] = version
      BY <1>1, <2>2
    <3>2. version.base \in 0 .. v - 1
      BY <1>2, <2>2
    <3>3. version.base # 0 => more[version.base] = all[version.base]
      BY <1>1, <1>2
    <3> QED
      BY <3>1, <3>2, <3>3 DEF Descends
  <2> QED
    BY <1>1, <1>2, <2>1, <2>2
<1>4. ASSUME NEW entry, EntryTrue(all, entry) PROVE EntryTrue(more, entry)
  <2>1. entry.key[1] \in 1 .. Len(more) /\ more[entry.key[1]] = all[entry.key[1]]
    BY <1>1, <1>2, <1>4 DEF EntryTrue
  <2> QED
    BY <1>4, <2>1 DEF EntryTrue
<1> QED
  BY <1>1, <1>3, <1>4 DEF VersionsInv, more

\* A version can always be evaluated: its status names the pricing.
LEMMA StatusNames ==
    ASSUME NEW version, VersionInv(version), NEW p, PricingInv(p)
    PROVE  /\ StatusOf(version, p) # NoStatus
           /\ StatusOf(version, p).pricing = p
<1> DEFINE c == version.configuration
           retired == RetiredOptionsOf(version.estimate.lines)
           data == WithRetiredOptions(c, DataOf(p), retired)
<1>1. data.roomTypes = DataOf(version.pricing).roomTypes
  BY RoomTypesOf DEF VersionInv
<1>2. ~UnknownReferences(c, data, TRUE)
  <2> HIDE DEF data
  <2> QED
    BY <1>1, UnknownByRoomTypes DEF VersionInv
<1>3. StatusOf(version, p) =
          Difference(version, Recalculated(c, DataOf(p), version.estimate.lines), p)
  BY <1>2 DEF StatusOf
<1>4. ASSUME NEW now
      PROVE Difference(version, now, p) # NoStatus /\ Difference(version, now, p).pricing = p
  <2>1. /\ DOMAIN Difference(version, now, p) = {"changed", "total", "unavailable", "pricing"}
        /\ Difference(version, now, p).pricing = p
    BY DEF Difference
  <2>2. DOMAIN NoStatus = {"pricing"}
    BY DEF NoStatus
  <2> QED
    BY <2>1, <2>2
<1> QED
  BY <1>3, <1>4

\* The short cut for a version of the current pricing.
LEMMA FreshIs ==
    ASSUME NEW v, VersionInv(versions[v])
    PROVE  Fresh(v) = StatusOf(versions[v], versions[v].pricing)
<1> DEFINE version == versions[v]
           c == version.configuration
           p == version.pricing
           now == Recalculated(c, DataOf(p), version.estimate.lines)
<1>1. StatusOf(version, p) = Difference(version, now, p)
  <2>1. StatusOf(version, p) # NoStatus
    BY StatusNames DEF VersionInv
  <2> QED
    BY <2>1 DEF StatusOf
<1>2. now = version.estimate
  BY DEF VersionInv
<1> HIDE DEF now
<1>3. Difference(version, now, p) =
          [changed |-> FALSE, total |-> version.estimate.totals.usdCents,
           unavailable |-> {}, pricing |-> p]
  <2> DEFINE ids == LineIds(version.estimate.lines, "UNAVAILABLE")
             total == version.estimate.totals.usdCents
  <2>1. Difference(version, now, p) =
            [changed |-> total # total \/ ids \ ids # {}, total |-> total,
             unavailable |-> ids \ ids, pricing |-> p]
    BY <1>2 DEF Difference
  <2> HIDE DEF ids, total, version
  <2>2. ids \ ids = {} /\ (total # total \/ ids \ ids # {}) = FALSE
    OBVIOUS
  <2> QED
    BY <2>1, <2>2 DEF ids, total, version
<1> QED
  BY <1>1, <1>3 DEF Fresh

-----------------------------------------------------------------------------
(* The inductive invariant.                                                *)

PricesInv ==
    /\ catalog = [dataset |-> catalog.dataset, rule |-> catalog.rule]
    /\ PricingInv(catalog) /\ PricingInv(cached)

StatusesInv ==
    /\ IsSequence(statuses) /\ KeysDiffer(statuses) /\ Len(statuses) <= CacheLimit
    /\ \A entry \in ToSet(statuses) : EntryTrue(versions, entry)
    /\ asked = Nothing \/ asked.version \in 1 .. Len(versions)
    /\ answer = Nothing \/ AnswerTrue(versions, answer)

Inv == /\ PricesInv /\ VersionsInv(versions) /\ StatusesInv
       /\ changes \in 0 .. MaxChanges

LEMMA InitInv == Init => Inv
<1> SUFFICES ASSUME Init PROVE Inv
  OBVIOUS
<1>1. PricesInv
  BY DEF Init, PricesInv, PricingInv
<1>2. IsSequence(<<>>) /\ Len(<<>>) = 0 /\ ToSet(<<>>) = {} /\ DOMAIN <<>> = {}
  BY EmptyIs, SequenceIs
<1>3. VersionsInv(versions)
  BY <1>2 DEF Init, VersionsInv
<1>4. StatusesInv
  BY <1>2, BoundsAssumption DEF Init, StatusesInv, KeysDiffer
<1> QED
  BY <1>1, <1>3, <1>4, BoundsAssumption DEF Init, Inv

\* What a snapshot is, of an estimate that some retired options went into.
LEMMA SnapshotIs ==
    ASSUME PricesInv, NEW c \in Configurations, ConfigurationValid(c),
           ~UnknownReferences(c, DataOf(cached), TRUE), NEW retired, KindsTyped(retired),
           NEW estimate,
           estimate = EstimateOf(c, WithRetiredOptions(c, DataOf(cached), retired)),
           NEW version, version.configuration = c, version.pricing = cached,
           version.estimate = estimate,
           version.names \subseteq Mentioned(estimate.lines)
    PROVE  VersionInv(version)
<1>1. /\ KindsTyped(RetiredOptionsOf(estimate.lines))
      /\ estimate = Recalculated(c, DataOf(cached), estimate.lines)
  <2> DEFINE same == EstimateOf(c, WithRetiredOptions(c, DataOf(cached), retired))
  <2>1. /\ KindsTyped(RetiredOptionsOf(same.lines))
        /\ same = Recalculated(c, DataOf(cached), same.lines)
    <3>1. PricingInv(cached)
      BY DEF PricesInv
    <3> QED
      BY <3>1, RecalculatedIs
  <2>2. same = estimate
    OBVIOUS
  <2> HIDE DEF same
  <2> QED
    BY <2>1, <2>2
<1> QED
  BY <1>1 DEF VersionInv, PricesInv

\* A version more leaves the statuses true.
LEMMA StatusesKept ==
    ASSUME Inv, NEW version, VersionInv(version), version.base \in 0 .. Len(versions),
           version.base # 0 => Keeps(versions[version.base], version),
           versions' = Append(versions, version), answer' = Nothing,
           UNCHANGED <<catalog, cached, statuses, asked, changes>>
    PROVE  Inv'
<1>1. /\ VersionsInv(versions')
      /\ \A entry : EntryTrue(versions, entry) => EntryTrue(versions', entry)
      /\ Len(versions') = Len(versions) + 1
  BY VersionAdded DEF Inv
<1>2. Len(versions) \in Nat
  BY SequenceIs DEF Inv, VersionsInv
<1>3. StatusesInv'
  <2>1. asked = Nothing \/ asked.version \in 1 .. Len(versions')
    BY <1>1, <1>2 DEF Inv, StatusesInv
  <2> QED
    BY <1>1, <2>1 DEF Inv, StatusesInv
<1>4. PricesInv' /\ changes' \in 0 .. MaxChanges
  BY DEF Inv, PricesInv
<1> QED
  BY <1>1, <1>3, <1>4 DEF Inv

LEMMA SaveStep ==
    ASSUME Inv, NEW c \in Configurations, Save(c)
    PROVE  Inv'
<1> DEFINE data == WithRetiredOptions(c, DataOf(cached), {})
           version == Snapshot(c, EstimateOf(c, data), {}, 0)
<1>1. PricesInv /\ ConfigurationValid(c) /\ ~UnknownReferences(c, DataOf(cached), FALSE)
  BY DEF Inv, Save, Current
<1>2. ~UnknownReferences(c, DataOf(cached), TRUE)
  BY <1>1, UnknownTolerated
<1>3. data = DataOf(cached)
  <2>1. Gone(c, DataOf(cached), {}) = {} /\ KindsTyped({})
    BY DEF Gone, KindsTyped
  <2> QED
    BY <1>1, <2>1, DataIs, NothingRetired DEF PricesInv
<1>4. versions = <<>> /\ versions' = <<version>>
  <2> HIDE DEF data
  <2> QED
    BY <1>3 DEF Save, Current
<1>5. VersionInv(version) /\ version.base = 0
  <2>1. KindsTyped({})
    BY DEF KindsTyped
  <2> DEFINE estimate == EstimateOf(c, data)
  <2>2. /\ version.configuration = c /\ version.pricing = cached
        /\ version.estimate = estimate /\ version.base = 0
        /\ version.names \subseteq Mentioned(estimate.lines)
    BY DEF Snapshot, Names
  <2>3. estimate = EstimateOf(c, WithRetiredOptions(c, DataOf(cached), {}))
    OBVIOUS
  <2> HIDE DEF estimate, version, data
  <2> QED
    BY <1>1, <1>2, <2>1, <2>2, <2>3, SnapshotIs
<1> HIDE DEF version
<1>6. versions' = Append(versions, version)
  BY <1>4
<1>7. Len(versions) \in Nat
  BY SequenceIs DEF Inv, VersionsInv
<1>8. answer' = Nothing /\ UNCHANGED <<catalog, cached, statuses, asked, changes>>
  BY DEF Save
<1> QED
  BY <1>5, <1>6, <1>7, <1>8, StatusesKept

LEMMA RecalculateStep ==
    ASSUME Inv, NEW base \in DOMAIN versions, Recalculate(base)
    PROVE  Inv'
<1> DEFINE previous == versions[base]
           c == previous.configuration
           lines == previous.estimate.lines
           retired == RetiredOptionsOf(lines)
           estimate == Recalculated(c, Current, lines)
           version == Snapshot(c, estimate, previous.names, base)
<1>1. base \in 1 .. Len(versions) /\ Len(versions) \in Nat
  BY SequenceIs DEF Inv, VersionsInv
<1>2. VersionInv(previous)
  BY <1>1 DEF Inv, VersionsInv
<1>3. PricesInv
  BY DEF Inv
<1>4. /\ c \in Configurations /\ ConfigurationValid(c) /\ KindsTyped(retired)
      /\ previous.estimate = Recalculated(c, DataOf(previous.pricing), lines)
      /\ PricingInv(previous.pricing) /\ ~UnknownReferences(c, DataOf(previous.pricing), TRUE)
  BY <1>2 DEF VersionInv
<1>5. ~UnknownReferences(c, DataOf(cached), TRUE)
  <2>1. DataOf(cached).roomTypes = DataOf(previous.pricing).roomTypes
    <3>1. PricingInv(cached) /\ KindsTyped({})
      BY <1>3 DEF PricesInv, KindsTyped
    <3> HIDE DEF c, retired, previous
    <3>2. Gone(c, DataOf(cached), {}) = {}
      BY DEF Gone
    <3>3. WithRetiredOptions(c, DataOf(cached), {}) = DataOf(cached)
      BY <3>1, <3>2, DataIs, NothingRetired
    <3> QED
      BY <1>4, <3>1, <3>3, RoomTypesOf
  <2> HIDE DEF c, previous
  <2> QED
    BY <1>4, <2>1, UnknownByRoomTypes
<1>6. estimate = EstimateOf(c, WithRetiredOptions(c, DataOf(cached), retired))
  BY DEF Recalculated, Current
<1>7. VersionInv(version) /\ version.base = base
  <2>1. /\ version.configuration = c /\ version.pricing = cached
        /\ version.estimate = estimate /\ version.base = base
        /\ version.names \subseteq Mentioned(estimate.lines)
    BY DEF Snapshot, Names
  <2> HIDE DEF c, retired, previous, estimate, version
  <2> QED
    BY <1>3, <1>4, <1>5, <1>6, <2>1, SnapshotIs
<1>8. /\ version.estimate = estimate
      /\ version.names = Mentioned(estimate.lines) \cap (Known(catalog) \cup previous.names)
  BY DEF Snapshot, Names
<1>9. Keeps(previous, version)
  <2> DEFINE before == WithRetiredOptions(c, DataOf(previous.pricing), retired)
  <2>1. PricingDataTyped(before)
    <3> HIDE DEF c, retired, previous
    <3> QED
      BY <1>4, SchemasAssumption, DataIs, RetiredIs
  <2>2. previous.estimate = EstimateOf(c, before)
    BY <1>4 DEF Recalculated
  <2>3. lines = EstimateLines(c, before)
    <3> HIDE DEF before, c
    <3> QED
      BY <2>2 DEF EstimateOf, WithTotals
  <2>4. \A field \in {"productId", "optionId"} :
           Chosen(lines, field) \subseteq Chosen(estimate.lines, field)
    <3>1. KindsTyped(RetiredOptionsOf(EstimateLines(c, before)))
      BY <1>4, <2>3
    <3>2. estimate = Recalculated(c, DataOf(cached), EstimateLines(c, before))
      BY <2>3 DEF Current
    <3> HIDE DEF before, c, lines, estimate, previous
    <3> QED
      BY <1>3, <1>4, <2>1, <2>3, <3>1, <3>2, ChosenAgain DEF PricesInv
  <2> HIDE DEF version, estimate
  <2> QED
    BY <1>8, <2>4 DEF Keeps
<1>10. versions' = Append(versions, version) /\ answer' = Nothing
       /\ UNCHANGED <<catalog, cached, statuses, asked, changes>>
  BY DEF Recalculate
<1> HIDE DEF version
<1>11. version.base \in 0 .. Len(versions)
  BY <1>1, <1>7
<1> QED
  BY <1>7, <1>9, <1>10, <1>11, StatusesKept

LEMMA AskStep ==
    ASSUME Inv, NEW v \in DOMAIN versions, AskStatus(v)
    PROVE  Inv'
<1> DEFINE version == versions[v]
           key == <<v, cached>>
           hits == Among(statuses, {e \in ToSet(statuses) : KeyIs(key, e)})
           now == Remembering(statuses, Head(hits))
<1>1. v \in 1 .. Len(versions) /\ VersionInv(version) /\ PricingInv(cached)
  BY SequenceIs DEF Inv, VersionsInv, PricesInv
<1>2. PricesInv' /\ VersionsInv(versions') /\ changes' \in 0 .. MaxChanges
      /\ versions' = versions
  BY DEF Inv, AskStatus, PricesInv
<1>3. /\ IsSequence(statuses) /\ KeysDiffer(statuses) /\ Len(statuses) <= CacheLimit
      /\ \A entry \in ToSet(statuses) : EntryTrue(versions, entry)
      /\ asked = Nothing
  BY DEF Inv, StatusesInv, AskStatus
<1>4. \/ /\ version.pricing = cached /\ answer' = Answer(v, Fresh(v))
         /\ UNCHANGED <<statuses, asked>>
      \/ /\ hits # <<>> /\ answer' = Answer(v, Head(hits).status)
         /\ statuses' = now /\ UNCHANGED asked
      \/ /\ asked' = [version |-> v, lookedUp |-> cached] /\ answer' = Nothing
         /\ UNCHANGED statuses
  BY DEF AskStatus, Only, Remembered, Without, Remembering
<1>5. CASE /\ version.pricing = cached /\ answer' = Answer(v, Fresh(v))
           /\ UNCHANGED <<statuses, asked>>
  <2>1. Fresh(v) = StatusOf(version, cached)
    BY <1>1, <1>5, FreshIs
  <2>2. StatusOf(version, cached).pricing = cached
    BY <1>1, StatusNames
  <2>3. answer'.version = v /\ answer'.status = StatusOf(version, cached)
    BY <1>5, <2>1 DEF Answer
  <2>4. AnswerTrue(versions', answer')
    BY <1>1, <1>2, <2>2, <2>3 DEF AnswerTrue
  <2> QED
    BY <1>2, <1>3, <1>5, <2>4 DEF Inv, StatusesInv
<1>6. CASE /\ hits # <<>> /\ answer' = Answer(v, Head(hits).status)
           /\ statuses' = now /\ UNCHANGED asked
  <2> DEFINE hit == Head(hits)
  <2>1. hit \in ToSet(statuses) /\ hit.key = key
    <3> DEFINE K == {e \in ToSet(statuses) : KeyIs(key, e)}
    <3>1. IsSequence(hits) /\ ToSet(hits) = K
      <4>1. K \subseteq ToSet(statuses)
        OBVIOUS
      <4> HIDE DEF K
      <4> QED
        BY <1>3, <4>1, OnlyIs DEF K
    <3>2. hit \in K
      <4> HIDE DEF hits, K
      <4> QED
        BY <1>6, <3>1, HeadIs
    <3> QED
      BY <3>2 DEF KeyIs
  <2>2. EntryTrue(versions, hit)
    BY <1>3, <2>1
  <2>3. hit.status = StatusOf(version, cached)
    <3>1. hit.key[1] = v /\ hit.key[2] = cached
      BY <2>1
    <3> HIDE DEF hit
    <3> QED
      BY <2>2, <3>1 DEF EntryTrue
  <2>4. AnswerTrue(versions', answer')
    <3>1. StatusOf(version, cached).pricing = cached
      BY <1>1, StatusNames
    <3>2. answer'.version = v /\ answer'.status = StatusOf(version, cached)
      BY <1>6, <2>3 DEF Answer
    <3> QED
      BY <1>1, <1>2, <3>1, <3>2 DEF AnswerTrue
  <2>5. /\ IsSequence(now) /\ KeysDiffer(now) /\ Len(now) <= CacheLimit
        /\ ToSet(now) \subseteq ToSet(statuses) \cup {hit}
    <3> HIDE DEF hits
    <3> QED
      BY <1>3, RememberedIs
  <2>6. \A entry \in ToSet(now) : EntryTrue(versions, entry)
    <3> HIDE DEF now, hit
    <3> QED
      BY <1>3, <2>2, <2>5
  <2> HIDE DEF now
  <2>7. StatusesInv'
    BY <1>2, <1>3, <1>6, <2>4, <2>5, <2>6 DEF StatusesInv
  <2> QED
    BY <1>2, <2>7 DEF Inv
<1>7. CASE /\ asked' = [version |-> v, lookedUp |-> cached] /\ answer' = Nothing
           /\ UNCHANGED statuses
  <2>1. asked'.version \in 1 .. Len(versions')
    BY <1>1, <1>2, <1>7
  <2> QED
    BY <1>2, <1>3, <1>7, <2>1 DEF Inv, StatusesInv
<1> QED
  BY <1>4, <1>5, <1>6, <1>7

LEMMA AnswerStep ==
    ASSUME Inv, AnswerStatus
    PROVE  Inv'
<1> DEFINE v == asked.version
           version == versions[v]
           status == StatusOf(version, cached)
           entry == Entry(v, cached, status)
           now == Remembering(statuses, entry)
<1>1. /\ IsSequence(statuses) /\ KeysDiffer(statuses) /\ Len(statuses) <= CacheLimit
      /\ \A e \in ToSet(statuses) : EntryTrue(versions, e)
      /\ v \in 1 .. Len(versions)
  BY DEF Inv, StatusesInv, AnswerStatus
<1>2. VersionInv(version) /\ PricingInv(cached)
  BY <1>1 DEF Inv, VersionsInv, PricesInv
<1>3. status # NoStatus /\ status.pricing = cached
  BY <1>2, StatusNames
<1>4. /\ answer' = Answer(v, status)
      /\ statuses' = Remembered(Entry(v, CacheKey(asked.lookedUp, status), status))
      /\ asked' = Nothing
  BY EvaluateIs DEF AnswerStatus
<1>5. CacheKey(asked.lookedUp, status) = cached
  BY <1>3 DEF CacheKey
<1>6. statuses' = now
  <2>1. statuses' = Remembered(entry)
    BY <1>4, <1>5
  <2> QED
    BY <2>1 DEF Remembered, Without, Only, Remembering
<1>7. PricesInv' /\ VersionsInv(versions') /\ changes' \in 0 .. MaxChanges
      /\ versions' = versions
  BY DEF Inv, AnswerStatus, PricesInv
<1>8. EntryTrue(versions, entry)
  <2>1. entry.key[1] = v /\ entry.key[2] = cached /\ entry.status = status
    BY DEF Entry
  <2> QED
    BY <1>1, <2>1 DEF EntryTrue
<1>9. AnswerTrue(versions, answer')
  <2>1. answer'.version = v /\ answer'.status = status
    BY <1>4 DEF Answer
  <2> QED
    BY <1>1, <1>3, <2>1 DEF AnswerTrue
<1>10. /\ IsSequence(now) /\ KeysDiffer(now) /\ Len(now) <= CacheLimit
       /\ ToSet(now) \subseteq ToSet(statuses) \cup {entry}
  <2> HIDE DEF entry
  <2> QED
    BY <1>1, RememberedIs
<1> HIDE DEF now, entry
<1>11. \A e \in ToSet(now) : EntryTrue(versions, e)
  BY <1>1, <1>8, <1>10
<1>12. StatusesInv'
  BY <1>4, <1>6, <1>7, <1>9, <1>10, <1>11 DEF StatusesInv
<1> QED
  BY <1>7, <1>12 DEF Inv

LEMMA UnavailableStep ==
    ASSUME Inv, StatusUnavailable
    PROVE  Inv'
<1>1. PricesInv' /\ VersionsInv(versions') /\ changes' \in 0 .. MaxChanges
  BY DEF Inv, StatusUnavailable, PricesInv
<1>2. AnswerTrue(versions, answer')
  <2>1. answer'.version = asked.version /\ answer'.status = NoStatus
    BY DEF StatusUnavailable, Answer
  <2> QED
    BY <2>1 DEF Inv, StatusesInv, StatusUnavailable, AnswerTrue
<1>3. StatusesInv'
  BY <1>2 DEF Inv, StatusesInv, StatusUnavailable
<1> QED
  BY <1>1, <1>3 DEF Inv

\* An administrator's step leaves the versions and the statuses as they are.
LEMMA PricesStep ==
    ASSUME Inv, PricesInv', UNCHANGED <<versions, statuses, asked>>,
           answer' = Nothing, changes' \in 0 .. MaxChanges
    PROVE  Inv'
<1>1. StatusesInv'
  BY DEF Inv, StatusesInv
<1> QED
  BY <1>1 DEF Inv

LEMMA ChangesCounted ==
    ASSUME Inv, Change
    PROVE  changes' \in 0 .. MaxChanges /\ answer' = Nothing
  BY BoundsAssumption DEF Inv, Change

LEMMA ChangeStep ==
    ASSUME Inv, NEW name \in Datasets, ChangeDataset(name)
    PROVE  Inv'
<1>1. /\ catalog' = [dataset |-> name, rule |-> catalog.rule] /\ cached' = cached
      /\ PricingInv(catalog) /\ PricingInv(cached)
  BY DEF Inv, PricesInv, ChangeDataset
<1>2. PricesInv'
  BY <1>1 DEF PricesInv, PricingInv
<1> QED
  BY <1>2, PricesStep, ChangesCounted DEF ChangeDataset

LEMMA CreateStep ==
    ASSUME Inv, NEW input \in RuleInputs, CreateRule(input)
    PROVE  Inv'
<1>1. /\ catalog' = [dataset |-> catalog.dataset, rule |-> input] /\ cached' = cached
      /\ PricingInv(catalog) /\ PricingInv(cached)
  BY DEF Inv, PricesInv, CreateRule
<1>2. RuleTyped(input)
  BY RulesAssumption DEF RuleTyped
<1>3. PricesInv'
  BY <1>1, <1>2 DEF PricesInv, PricingInv
<1> QED
  BY <1>3, PricesStep, ChangesCounted DEF CreateRule

LEMMA PatchedRuleTyped ==
    ASSUME NEW rule, RuleTyped(rule), NEW patch \in Patches
    PROVE  RuleTyped(PatchOf(rule, patch))
<1> DEFINE new == PatchOf(rule, patch)
<1>1. "id" \notin DOMAIN patch /\ "sortOrder" \notin DOMAIN patch
  BY RulesAssumption
<1>2. /\ {"id", "sortOrder"} \subseteq DOMAIN new
      /\ new["id"] = rule["id"] /\ new["sortOrder"] = rule["sortOrder"]
  BY <1>1 DEF PatchOf, RuleTyped
<1> HIDE DEF new
<1> QED
  BY <1>2 DEF RuleTyped, new

LEMMA PatchStep ==
    ASSUME Inv, NEW patch \in Patches, PatchRule(patch)
    PROVE  Inv'
<1> DEFINE rule == PatchOf(catalog.rule, patch)
<1>1. RuleTyped(rule)
  BY PatchedRuleTyped DEF Inv, PricesInv, PricingInv, PatchRule
<1>2. /\ catalog' = [dataset |-> catalog.dataset, rule |-> rule] /\ cached' = cached
      /\ PricingInv(catalog) /\ PricingInv(cached)
  BY DEF Inv, PricesInv, PatchRule
<1> HIDE DEF rule
<1>3. PricesInv'
  BY <1>1, <1>2 DEF PricesInv, PricingInv
<1> QED
  BY <1>3, PricesStep, ChangesCounted DEF PatchRule

LEMMA RefreshStep ==
    ASSUME Inv, Refresh
    PROVE  Inv'
<1>1. PricesInv' /\ changes' \in 0 .. MaxChanges
  BY DEF Inv, PricesInv, Refresh
<1> QED
  BY <1>1, PricesStep DEF Refresh

LEMMA NextInv == Inv /\ [Next]_vars => Inv'
<1> SUFFICES ASSUME Inv, [Next]_vars PROVE Inv'
  OBVIOUS
<1>1. ASSUME NEW c \in Configurations, Save(c) PROVE Inv'
  BY <1>1, SaveStep
<1>2. ASSUME NEW v \in DOMAIN versions, Recalculate(v) PROVE Inv'
  BY <1>2, RecalculateStep
<1>3. ASSUME NEW v \in DOMAIN versions, AskStatus(v) PROVE Inv'
  BY <1>3, AskStep
<1>4. CASE AnswerStatus
  BY <1>4, AnswerStep
<1>5. CASE StatusUnavailable
  BY <1>5, UnavailableStep
<1>6. ASSUME NEW name \in Datasets, ChangeDataset(name) PROVE Inv'
  BY <1>6, ChangeStep
<1>7. ASSUME NEW input \in RuleInputs, CreateRule(input) PROVE Inv'
  BY <1>7, CreateStep
<1>8. ASSUME NEW patch \in Patches, PatchRule(patch) PROVE Inv'
  BY <1>8, PatchStep
<1>9. CASE Refresh
  BY <1>9, RefreshStep
<1>10. CASE UNCHANGED vars
  BY <1>10 DEF vars, Inv, PricesInv, StatusesInv
<1> QED
  BY <1>1, <1>2, <1>3, <1>4, <1>5, <1>6, <1>7, <1>8, <1>9, <1>10 DEF Next

LEMMA InvHolds == Spec => []Inv
  BY InitInv, NextInv, PTL DEF Spec

-----------------------------------------------------------------------------
(* What the invariant gives.                                               *)

\* The pricing data of a version's estimate.
PricedWith(version) ==
    WithRetiredOptions(version.configuration, DataOf(version.pricing),
                       RetiredOptionsOf(version.estimate.lines))

LEMMA VersionIs ==
    ASSUME NEW version, VersionInv(version), NEW c, c = version.configuration,
           NEW data, data = PricedWith(version)
    PROVE  /\ ConfigurationTyped(c) /\ ConfigurationValid(c)
           /\ PricingDataTyped(data)
           /\ \A field \in DataFields \ {"options"} :
                 data[field] = DataOf(version.pricing)[field]
           /\ version.estimate = EstimateOf(c, data)
           /\ version.estimate.lines = EstimateLines(c, data)
<1> DEFINE p == version.pricing
           retired == RetiredOptionsOf(version.estimate.lines)
<1>1. /\ c \in Configurations /\ ConfigurationValid(c) /\ PricingInv(p) /\ KindsTyped(retired)
      /\ version.estimate = Recalculated(c, DataOf(p), version.estimate.lines)
  BY DEF VersionInv
<1>2. ConfigurationTyped(c)
  BY <1>1, SchemasAssumption
<1>3. data = WithRetiredOptions(c, DataOf(p), retired)
  BY DEF PricedWith
<1>4. /\ PricingDataTyped(data)
      /\ \A field \in DataFields \ {"options"} : data[field] = DataOf(p)[field]
  <2> HIDE DEF retired, p
  <2>1. PricingDataTyped(DataOf(p))
    BY <1>1, DataIs
  <2> QED
    BY <1>1, <1>3, <2>1, RetiredIs
<1>5. version.estimate = EstimateOf(c, data)
  BY <1>1, <1>3 DEF Recalculated
<1>6. version.estimate.lines = EstimateLines(c, data)
  BY <1>5 DEF EstimateOf, WithTotals
<1> QED
  BY <1>1, <1>2, <1>4, <1>5, <1>6

LEMMA VersionsAre ==
    ASSUME Inv
    PROVE  /\ DOMAIN versions = 1 .. Len(versions) /\ Len(versions) \in Nat
           /\ \A v \in DOMAIN versions : VersionInv(versions[v]) /\ Descends(versions, v)
<1>1. DOMAIN versions = 1 .. Len(versions) /\ Len(versions) \in Nat
  BY SequenceIs DEF Inv, VersionsInv
<1> QED
  BY <1>1 DEF Inv, VersionsInv

LEMMA InvTypeOK == Inv => TypeOK
<1> SUFFICES ASSUME Inv PROVE TypeOK
  OBVIOUS
<1>1. ASSUME NEW v \in DOMAIN versions
      PROVE  /\ versions[v].base \in 0 .. v - 1
             /\ versions[v].names \subseteq Mentioned(versions[v].estimate.lines)
             /\ \A line \in ToSet(versions[v].estimate.lines) :
                   line.amountCents \in 0 .. MaxLineCents
  <2> DEFINE version == versions[v]
             c == version.configuration
             data == PricedWith(version)
  <2>1. VersionInv(version) /\ Descends(versions, v)
    BY VersionsAre
  <2> HIDE DEF version, data
  <2>2. /\ ConfigurationTyped(c) /\ PricingDataTyped(data)
        /\ version.estimate.lines = EstimateLines(c, data)
    BY <2>1, VersionIs DEF data
  <2>3. \A line \in ToSet(version.estimate.lines) : Sound(line)
    BY <2>2, EstimateLineIs
  <2> QED
    BY <2>1, <2>3 DEF Descends, VersionInv, Sound, version
<1>2. Distinct(Map(LAMBDA entry : entry.key, statuses))
  <2>1. IsSequence(statuses) /\ KeysDiffer(statuses) /\ ToSet(statuses) \subseteq ToSet(statuses)
    BY DEF Inv, StatusesInv
  <2> QED
    BY <2>1, KeysAre
<1>3. {v \in {asked.version, answer.version} : v # 0} \subseteq DOMAIN versions
  BY VersionsAre DEF Inv, StatusesInv, Nothing, AnswerTrue
<1>4. Len(statuses) <= CacheLimit /\ changes \in 0 .. MaxChanges
  BY DEF Inv, StatusesInv
<1> QED
  BY <1>1, <1>2, <1>3, <1>4 DEF TypeOK

LEMMA InvSelectionsKept == Inv => SelectionsKept
<1> SUFFICES ASSUME Inv, NEW v \in DOMAIN versions, versions[v].base # 0
             PROVE  Keeps(versions[versions[v].base], versions[v])
  BY DEF SelectionsKept, Keeps
<1> QED
  BY VersionsAre DEF Descends

LEMMA InvPriceStatusTruthful == Inv => PriceStatusTruthful
<1> SUFFICES ASSUME Inv PROVE PriceStatusTruthful
  OBVIOUS
<1>1. ASSUME NEW entry \in ToSet(statuses)
      PROVE  entry.status = Evaluate(entry.key[1], entry.key[2])
  <2>1. EntryTrue(versions, entry)
    BY DEF Inv, StatusesInv
  <2> QED
    BY <2>1, EvaluateIs DEF EntryTrue
<1>2. ASSUME answer # Nothing, answer.status # NoStatus
      PROVE  answer.status = Evaluate(answer.version, answer.status.pricing)
  <2>1. AnswerTrue(versions, answer)
    BY <1>2 DEF Inv, StatusesInv
  <2> QED
    BY <1>2, <2>1, EvaluateIs DEF AnswerTrue
<1> QED
  BY <1>1, <1>2 DEF PriceStatusTruthful

\* Every state is well typed: no price is negative or above the largest amount,
\* versions descend from older ones, and the cache of price statuses keeps its
\* limit and has one entry a key (price-status.service.ts).
THEOREM TypeCorrect == Spec => []TypeOK
  BY InvHolds, InvTypeOK, PTL

\* A recalculation has a line of every product and option of the version it
\* starts from, deleted since or not, and keeps the names they had
\* (snapshot.service.ts, retired-options.ts).
THEOREM RecalculationKeepsSelections == Spec => []SelectionsKept
  BY InvHolds, InvSelectionsKept, PTL

\* A price status, from the cache, from the short cut or evaluated, is what an
\* estimate with the pricing it names gives (price-status.service.ts).
THEOREM StatusesAreTruthful == Spec => []PriceStatusTruthful
  BY InvHolds, InvPriceStatusTruthful, PTL

-----------------------------------------------------------------------------
(* Totals.                                                                 *)

SumOfField(s, field) == Total([i \in DOMAIN s |-> s[i][field]])
OfSection(lines, section) == {line \in ToSet(lines) : line.section = section}
InSection(lines, section) == Among(lines, OfSection(lines, section))

LEMMA TotalsAre ==
    ASSUME NEW lines, NEW rate, NEW totals, totals = ComputeTotals(lines, rate)
    PROVE  /\ totals.usdCents = SumOfField(lines, "amountCents")
           /\ totals.uahKopecks = IF rate = 0 THEN Missing
                                  ELSE SumOfField(lines, "amountUahKopecks")
           /\ \A section \in Sections :
                 /\ totals.sections[section].usdCents
                       = SumOfField(InSection(lines, section), "amountCents")
                 /\ rate # 0 => totals.sections[section].uahKopecks
                       = SumOfField(InSection(lines, section), "amountUahKopecks")
<1>1. \A s : /\ SumTotal(s, rate).usdCents = SumOfField(s, "amountCents")
             /\ SumTotal(s, rate).uahKopecks = IF rate = 0 THEN Missing
                                               ELSE SumOfField(s, "amountUahKopecks")
             /\ DOMAIN SumTotal(s, rate) = {"usdCents", "uahKopecks"}
  BY DEF SumTotal, Sum, Map, SumOfField
<1> DEFINE sections == [section \in Sections |->
                          SumTotal(Only(lines, LAMBDA l : l.section = section), rate)]
           f == [sections |-> sections]
           g == SumTotal(lines, rate)
<1>2. totals = f ++ g
  BY DEF ComputeTotals
<1>3. DOMAIN f = {"sections"} /\ f.sections = sections
  OBVIOUS
<1>4. DOMAIN g = {"usdCents", "uahKopecks"}
  BY <1>1
<1>5. totals.usdCents = g.usdCents /\ totals.uahKopecks = g.uahKopecks
      /\ totals.sections = sections
  <2> HIDE DEF f, g, sections
  <2> QED
    BY <1>2, <1>3, <1>4 DEF ++
<1>6. \A section \in Sections : sections[section] = SumTotal(InSection(lines, section), rate)
  BY DEF Only, InSection, OfSection
<1> HIDE DEF sections
<1> QED
  BY <1>1, <1>5, <1>6

LEMMA FieldSummed ==
    ASSUME NEW S, NEW field, NEW s \in Seq(S)
    PROVE  SumOfField(s, field) = Total(Weights([x \in S |-> x[field]], s))
<1> DEFINE w == [x \in S |-> x[field]]
<1>1. \A i \in DOMAIN s : s[i] \in S
  BY LenProperties
<1>2. Weights(w, s) = [i \in DOMAIN s |-> s[i][field]]
  BY <1>1 DEF Weights
<1> QED
  BY <1>2 DEF SumOfField

LEMMA TotalOfFive ==
    ASSUME NEW g, g = [i \in 1 .. 5 |-> g[i]], \A i \in 1 .. 5 : g[i] \in Int
    PROVE  Total(g) = g[1] + g[2] + g[3] + g[4] + g[5]
<1>1. g \in Seq(Int) /\ Len(g) = 5
  <2>1. 5 \in Nat
    OBVIOUS
  <2>2. g \in Seq(ToSet(g)) /\ Len(g) = 5 /\ ToSet(g) = {g[i] : i \in 1 .. 5}
    BY <2>1, ListFacts
  <2>3. ToSet(g) \subseteq Int
    BY <2>2
  <2> QED
    BY <2>2, <2>3, SeqMonotonic
<1>2. PICK f \in [0 .. 5 -> Int] :
         /\ f[0] = 0 /\ \A i \in 1 .. 5 : f[i] = f[i - 1] + g[i]
         /\ Total(g) = f[5]
  BY <1>1, TotalUp
<1>3. /\ f[1] = f[0] + g[1] /\ f[2] = f[1] + g[2] /\ f[3] = f[2] + g[3]
      /\ f[4] = f[3] + g[4] /\ f[5] = f[4] + g[5]
  <2>1. /\ f[1] = f[1 - 1] + g[1] /\ f[2] = f[2 - 1] + g[2] /\ f[3] = f[3 - 1] + g[3]
        /\ f[4] = f[4 - 1] + g[4] /\ f[5] = f[5 - 1] + g[5]
    BY <1>2
  <2> QED
    BY <2>1
<1>4. g[1] \in Int /\ g[2] \in Int /\ g[3] \in Int /\ g[4] \in Int /\ g[5] \in Int
  OBVIOUS
<1> QED
  BY <1>2, <1>3, <1>4

\* What is summed section by section is summed once.
LEMMA SectionsSummed ==
    ASSUME NEW s, IsSequence(s), \A x \in ToSet(s) : x.section \in Sections,
           NEW field, \A x \in ToSet(s) : x[field] \in Int,
           NEW g, g = [i \in DOMAIN SectionOrder |-> g[i]],
           \A i \in DOMAIN SectionOrder :
              g[i] = SumOfField(InSection(s, SectionOrder[i]), field)
    PROVE  SumOfField(s, field) = Total(g)
<1> DEFINE S == ToSet(s)
           w == [x \in S |-> x[field]]
           K(section) == OfSection(s, section)
           sum(section) == SumAmong(w, s, K(section))
<1>1. s \in Seq(S) /\ \A x \in S : w[x] \in Int
  BY DEF IsSequence
<1>2. \A section : K(section) \subseteq S
  BY DEF OfSection
<1>3. ASSUME NEW section \in Sections
      PROVE  /\ SumOfField(InSection(s, section), field) = sum(section)
             /\ sum(section) \in Int
  <2>1. Among(s, K(section)) \in Seq(S)
    BY <1>1, AmongFacts
  <2>2. SumOfField(Among(s, K(section)), field) = Total(Weights(w, Among(s, K(section))))
    BY <2>1, FieldSummed
  <2>3. sum(section) \in Int
    <3> HIDE DEF w, K, S
    <3> QED
      BY <1>1, SumIsInt
  <2> QED
    BY <2>2, <2>3 DEF InSection, SumAmong
<1> DEFINE k1 == K("BASE")
           k2 == k1 \cup K("OBJECT")
           k3 == k2 \cup K("MATERIALS")
           k4 == k3 \cup K("ENGINEERING")
           k5 == k4 \cup K("ADDITIONAL")
<1>4. Sections = {"BASE", "OBJECT", "MATERIALS", "ENGINEERING", "ADDITIONAL"}
  BY DEF Sections, SectionOrder, ToSet
<1>5. /\ k1 \cap K("OBJECT") = {} /\ k2 \cap K("MATERIALS") = {}
      /\ k3 \cap K("ENGINEERING") = {} /\ k4 \cap K("ADDITIONAL") = {}
      /\ S \subseteq k5
  BY <1>4 DEF OfSection
<1>6. SumAmong(w, s, k5) =
         sum("BASE") + sum("OBJECT") + sum("MATERIALS") + sum("ENGINEERING")
         + sum("ADDITIONAL")
  <2> HIDE DEF w, K, S
  <2>1. SumAmong(w, s, k2) = SumAmong(w, s, k1) + SumAmong(w, s, K("OBJECT"))
    <3> HIDE DEF k1
    <3> QED
      BY <1>1, <1>5, SumOfBoth
  <2>2. SumAmong(w, s, k3) = SumAmong(w, s, k2) + SumAmong(w, s, K("MATERIALS"))
    <3> HIDE DEF k2
    <3> QED
      BY <1>1, <1>5, SumOfBoth
  <2>3. SumAmong(w, s, k4) = SumAmong(w, s, k3) + SumAmong(w, s, K("ENGINEERING"))
    <3> HIDE DEF k3
    <3> QED
      BY <1>1, <1>5, SumOfBoth
  <2>4. SumAmong(w, s, k5) = SumAmong(w, s, k4) + SumAmong(w, s, K("ADDITIONAL"))
    <3> HIDE DEF k4
    <3> QED
      BY <1>1, <1>5, SumOfBoth
  <2>5. SumAmong(w, s, k1) = SumAmong(w, s, K("BASE"))
    OBVIOUS
  <2> HIDE DEF k1, k2, k3, k4, k5
  <2> QED
    BY <2>1, <2>2, <2>3, <2>4, <2>5
<1>7. SumOfField(s, field) = SumAmong(w, s, k5)
  <2>1. Among(s, k5) = s
    <3> HIDE DEF k5, S
    <3> QED
      BY <1>1, <1>5, AmongAll
  <2>2. SumOfField(s, field) = Total(Weights(w, s))
    BY <1>1, FieldSummed
  <2> HIDE DEF k5, w
  <2> QED
    BY <2>1, <2>2 DEF SumAmong
<1>8. /\ DOMAIN SectionOrder = 1 .. 5
      /\ SectionOrder[1] = "BASE" /\ SectionOrder[2] = "OBJECT"
      /\ SectionOrder[3] = "MATERIALS" /\ SectionOrder[4] = "ENGINEERING"
      /\ SectionOrder[5] = "ADDITIONAL"
  BY DEF SectionOrder
<1>9. /\ g = [i \in 1 .. 5 |-> g[i]]
       /\ g[1] = sum("BASE") /\ g[2] = sum("OBJECT") /\ g[3] = sum("MATERIALS")
       /\ g[4] = sum("ENGINEERING") /\ g[5] = sum("ADDITIONAL")
  <2> HIDE DEF sum
  <2> QED
    BY <1>3, <1>4, <1>8
<1>10. /\ sum("BASE") \in Int /\ sum("OBJECT") \in Int /\ sum("MATERIALS") \in Int
       /\ sum("ENGINEERING") \in Int /\ sum("ADDITIONAL") \in Int
  <2> HIDE DEF sum
  <2> QED
    BY <1>3, <1>4
<1> HIDE DEF sum
<1>11. \A i \in 1 .. 5 : g[i] \in Int
  BY <1>9, <1>10
<1>12. Total(g) = g[1] + g[2] + g[3] + g[4] + g[5]
  BY <1>9, <1>11, TotalOfFive
<1> HIDE DEF k5, w
<1> QED
  BY <1>6, <1>7, <1>9, <1>12

\* Kopecks that are within half a kopeck, times n, of an amount.
Close(kopecks, cents, rate, n) ==
    /\ 2 * (10000 * kopecks - rate * cents) <= 10000 * n
    /\ 2 * (rate * cents - 10000 * kopecks) <= 10000 * n

\* The kopecks of an amount are within half a kopeck of it.
LEMMA KopecksAre ==
    ASSUME NEW cents \in Nat, NEW rate \in Nat
    PROVE  LET k == ConvertCentsToKopecks(cents, rate) IN
           k \in Int /\ Close(k, cents, rate, 1)
<1> DEFINE x == cents * rate
           k == (x + 5000) \div 10000
<1>1. ConvertCentsToKopecks(cents, rate) = k
  BY DEF ConvertCentsToKopecks, RateScale
<1>2. x \in Nat /\ rate * cents = x
  OBVIOUS
<1> HIDE DEF x
<1>3. /\ k \in Nat /\ 10000 * k \in Nat /\ 10000 * k <= x + 5000
      /\ x + 5000 < 10000 * k + 10000
  <2>1. x + 5000 \in Nat /\ 10000 \in Nat \ {0}
    BY <1>2
  <2> QED
    BY <2>1, Division
<1> HIDE DEF k
<1>4. 2 * (10000 * k - x) <= 10000 /\ 2 * (x - 10000 * k) <= 10000
  BY <1>2, <1>3
<1> QED
  BY <1>1, <1>2, <1>3, <1>4 DEF Close

LEMMA TimesSum ==
    ASSUME NEW r \in Int, NEW a \in Int, NEW b \in Int
    PROVE  r * (a + b) = r * a + r * b
  OBVIOUS

LEMMA CloseTogether ==
    ASSUME NEW r \in Int, NEW n \in Int, NEW a \in Int, NEW b \in Int,
           NEW j \in Int, NEW k \in Int, Close(j, a, r, n), Close(k, b, r, 1)
    PROVE  Close(j + k, a + b, r, n + 1)
<1> DEFINE x == r * a
           y == r * b
<1>1. x \in Int /\ y \in Int /\ r * (a + b) = x + y
  BY TimesSum
<1>2. /\ 2 * (10000 * j - x) <= 10000 * n /\ 2 * (x - 10000 * j) <= 10000 * n
      /\ 2 * (10000 * k - y) <= 10000 /\ 2 * (y - 10000 * k) <= 10000
  BY DEF Close
<1> HIDE DEF x, y
<1>3. /\ 2 * (10000 * (j + k) - (x + y)) <= 10000 * (n + 1)
      /\ 2 * ((x + y) - 10000 * (j + k)) <= 10000 * (n + 1)
  BY <1>1, <1>2
<1> QED
  BY <1>1, <1>3 DEF Close

\* A sum of kopecks is within half a kopeck a summand of the sum of cents.
LEMMA KopecksSummed ==
    ASSUME NEW S, NEW rate \in Int, NEW w, NEW k,
           \A x \in S : w[x] \in Int /\ k[x] \in Int /\ Close(k[x], w[x], rate, 1),
           NEW s \in Seq(S)
    PROVE  LET cents == Total(Weights(w, s))
               kopecks == Total(Weights(k, s))
           IN  /\ cents \in Int /\ kopecks \in Int
               /\ Close(kopecks, cents, rate, Len(s))
<1> DEFINE W(t) == Total(Weights(w, t))
           K(t) == Total(Weights(k, t))
           P == {t \in Seq(S) : Close(K(t), W(t), rate, Len(t))}
<1>1. ASSUME NEW t \in Seq(S) PROVE W(t) \in Int /\ K(t) \in Int /\ Len(t) \in Nat
  <2>1. Weights(w, t) \in Seq(Int) /\ Weights(k, t) \in Seq(Int)
    BY WeightsAre
  <2> QED
    BY <2>1, TotalIsInt, LenProperties
<1>2. <<>> \in P
  <2>1. Weights(w, <<>>) = <<>> /\ Weights(k, <<>>) = <<>>
    BY DEF Weights
  <2>2. W(<<>>) = 0 /\ K(<<>>) = 0 /\ Len(<<>>) = 0 /\ <<>> \in Seq(S)
    BY <2>1, TotalOfNone, EmptySeq
  <2> HIDE DEF W, K
  <2> QED
    BY <2>2 DEF Close
<1>3. ASSUME NEW t \in Seq(S), t \in P, NEW x \in S PROVE Append(t, x) \in P
  <2> DEFINE u == Append(t, x)
  <2>1. u \in Seq(S) /\ Len(u) = Len(t) + 1
    BY AppendFacts
  <2>2. W(u) = W(t) + w[x] /\ K(u) = K(t) + k[x]
    <3>1. /\ Weights(w, u) = Append(Weights(w, t), w[x])
          /\ Weights(k, u) = Append(Weights(k, t), k[x])
      BY WeightsAppended
    <3>2. Weights(w, t) \in Seq(Int) /\ Weights(k, t) \in Seq(Int)
      BY WeightsAre
    <3> QED
      BY <3>1, <3>2, TotalAppended
  <2>3. W(t) \in Int /\ K(t) \in Int /\ Len(t) \in Nat /\ w[x] \in Int /\ k[x] \in Int
    BY <1>1
  <2> HIDE DEF W, K, u
  <2>4. Close(K(t) + k[x], W(t) + w[x], rate, Len(t) + 1)
    BY <1>3, <2>3, CloseTogether
  <2> QED
    BY <2>1, <2>2, <2>4 DEF u
<1>4. s \in P
  <2> HIDE DEF P
  <2> QED
    BY <1>2, <1>3, Appended
<1> QED
  BY <1>1, <1>4

LEMMA InvTotalsAddUp == Inv => TotalsAddUp
<1> SUFFICES ASSUME Inv, NEW v \in DOMAIN versions
             PROVE  LET estimate == versions[v].estimate
                        totals == estimate.totals
                        rate == DataOf(versions[v].pricing).rate
                    IN  /\ totals.usdCents =
                               Sum(LAMBDA s : totals.sections[s].usdCents, SectionOrder)
                        /\ \A line \in ToSet(estimate.lines) :
                              /\ line.status # "OK" => line.amountCents = 0
                              /\ line.components # <<>>
                                 => line.amountCents = ComponentsTotal(line.components)
                        /\ IF rate = 0 THEN totals.uahKopecks = Missing
                           ELSE /\ totals.uahKopecks =
                                      Sum(LAMBDA s : totals.sections[s].uahKopecks,
                                          SectionOrder)
                                /\ 2 * Distance(RateScale * totals.uahKopecks,
                                                rate * totals.usdCents)
                                   <= RateScale * Len(estimate.lines)
  BY DEF TotalsAddUp
<1> DEFINE version == versions[v]
           c == version.configuration
           data == PricedWith(version)
           estimate == version.estimate
           totals == estimate.totals
           lines == estimate.lines
           rate == data.rate
           g == [i \in DOMAIN SectionOrder |-> totals.sections[SectionOrder[i]].usdCents]
           h == [i \in DOMAIN SectionOrder |-> totals.sections[SectionOrder[i]].uahKopecks]
<1>1. VersionInv(version)
  BY VersionsAre
<1>2. /\ ConfigurationTyped(c) /\ PricingDataTyped(data)
      /\ rate = DataOf(version.pricing).rate
      /\ estimate = EstimateOf(c, data) /\ lines = EstimateLines(c, data)
  <2> HIDE DEF version, data
  <2> QED
    BY <1>1, VersionIs DEF DataFields, data
<1>3. totals = ComputeTotals(lines, rate)
  <2> HIDE DEF data, c, version
  <2> QED
    BY <1>2 DEF EstimateOf, WithTotals
<1>4. rate \in Nat
  BY <1>2 DEF PricingDataTyped
<1>5. IsSequence(lines)
  <2> HIDE DEF data, c, lines
  <2> QED
    BY <1>2, EstimateLinesAre
<1>6. ASSUME NEW line \in ToSet(lines)
      PROVE  /\ Sound(line) /\ line.section \in Sections /\ line.amountCents \in Nat
             /\ line.amountUahKopecks =
                   IF rate = 0 THEN Missing ELSE ConvertCentsToKopecks(line.amountCents, rate)
  <2>1. /\ Sound(line) /\ line.section \in Sections
        /\ line.amountUahKopecks =
                   IF rate = 0 THEN Missing ELSE ConvertCentsToKopecks(line.amountCents, rate)
    <3> HIDE DEF data, c, lines
    <3> QED
      BY <1>2, EstimateLineIs
  <2>2. line.amountCents \in Nat
    BY <2>1, MaxLineCentsAssumption DEF Sound
  <2> QED
    BY <2>1, <2>2
<1> HIDE DEF version, data, c, estimate, lines, totals, rate
<1>7. \A line \in ToSet(lines) :
         /\ line.status # "OK" => line.amountCents = 0
         /\ line.components # <<>> => line.amountCents = ComponentsTotal(line.components)
  BY <1>6 DEF Sound, Free
<1>8. /\ totals.usdCents = SumOfField(lines, "amountCents")
      /\ totals.uahKopecks = IF rate = 0 THEN Missing
                             ELSE SumOfField(lines, "amountUahKopecks")
      /\ \A section \in Sections :
            /\ totals.sections[section].usdCents
                  = SumOfField(InSection(lines, section), "amountCents")
            /\ rate # 0 => totals.sections[section].uahKopecks
                  = SumOfField(InSection(lines, section), "amountUahKopecks")
  BY <1>3, TotalsAre
<1>9. \A i \in DOMAIN SectionOrder : SectionOrder[i] \in Sections
  BY DEF Sections, ToSet
<1>10. totals.usdCents = Total(g)
  <2>1. /\ g = [i \in DOMAIN SectionOrder |-> g[i]]
        /\ \A i \in DOMAIN SectionOrder :
              g[i] = SumOfField(InSection(lines, SectionOrder[i]), "amountCents")
    BY <1>8, <1>9
  <2>2. \A x \in ToSet(lines) : x.section \in Sections /\ x["amountCents"] \in Int
    BY <1>6
  <2> HIDE DEF g
  <2> QED
    BY <1>5, <1>8, <2>1, <2>2, SectionsSummed
<1>11. CASE rate = 0
  <2>1. totals.uahKopecks = Missing
    BY <1>8, <1>11
  <2>2. Total(g) = Sum(LAMBDA s : totals.sections[s].usdCents, SectionOrder)
    BY DEF Sum, Map
  <2> HIDE DEF g
  <2> QED
    BY <1>2, <1>7, <1>10, <1>11, <2>1, <2>2 DEF estimate, lines, totals, version, rate
<1>12. CASE rate # 0
  <2> DEFINE S == ToSet(lines)
             w == [x \in S |-> x["amountCents"]]
             k == [x \in S |-> x["amountUahKopecks"]]
  <2>1. \A x \in S : w[x] \in Int /\ k[x] \in Int /\ Close(k[x], w[x], rate, 1)
    <3>1. ASSUME NEW x \in S
          PROVE  /\ w[x] = x.amountCents /\ w[x] \in Nat
                 /\ k[x] = ConvertCentsToKopecks(x.amountCents, rate)
      BY <1>6, <1>12
    <3> HIDE DEF S, w, k
    <3> QED
      BY <1>4, <3>1, KopecksAre
  <2>2. lines \in Seq(S)
    BY <1>5 DEF IsSequence
  <2>3. /\ totals.usdCents = Total(Weights(w, lines))
        /\ totals.uahKopecks = Total(Weights(k, lines))
    <3> HIDE DEF S
    <3> QED
      BY <1>8, <1>12, <2>2, FieldSummed
  <2>4. /\ totals.usdCents \in Int /\ totals.uahKopecks \in Int
        /\ Close(totals.uahKopecks, totals.usdCents, rate, Len(lines))
    <3> HIDE DEF S, w, k
    <3>1. rate \in Int
      BY <1>4
    <3>2. /\ Total(Weights(w, lines)) \in Int /\ Total(Weights(k, lines)) \in Int
          /\ Close(Total(Weights(k, lines)), Total(Weights(w, lines)), rate, Len(lines))
      BY <2>1, <2>2, <3>1, KopecksSummed
    <3> QED
      BY <2>3, <3>2
  <2>5. 2 * Distance(RateScale * totals.uahKopecks, rate * totals.usdCents)
           <= RateScale * Len(lines)
    <3>1. RateScale = 10000 /\ rate * totals.usdCents \in Int
      BY <1>4, <2>4 DEF RateScale
    <3> QED
      BY <2>4, <3>1 DEF Distance, Close
  <2>6. totals.uahKopecks = Total(h)
    <3>1. /\ h = [i \in DOMAIN SectionOrder |-> h[i]]
          /\ \A i \in DOMAIN SectionOrder :
                h[i] = SumOfField(InSection(lines, SectionOrder[i]), "amountUahKopecks")
      BY <1>8, <1>9, <1>12
    <3>2. \A x \in ToSet(lines) : x.section \in Sections /\ x["amountUahKopecks"] \in Int
      <4>1. \A x \in S : k[x] = x["amountUahKopecks"]
        OBVIOUS
      <4> HIDE DEF k
      <4> QED
        BY <1>6, <2>1, <4>1
    <3> HIDE DEF h
    <3> QED
      BY <1>5, <1>8, <1>12, <3>1, <3>2, SectionsSummed
  <2>7. /\ Total(g) = Sum(LAMBDA s : totals.sections[s].usdCents, SectionOrder)
        /\ Total(h) = Sum(LAMBDA s : totals.sections[s].uahKopecks, SectionOrder)
    BY DEF Sum, Map
  <2> HIDE DEF g, h
  <2> QED
    BY <1>2, <1>7, <1>10, <1>12, <2>5, <2>6, <2>7 DEF estimate, lines, totals, version, rate
<1> QED
  BY <1>11, <1>12

-----------------------------------------------------------------------------
(* The preparation of surfaces.                                            *)

LEMMA MinIs ==
    ASSUME NEW S, S \subseteq Nat, S # {}
    PROVE  Min(S) \in S
BY LeastIs DEF Min

\* The line of a material by its place among the picked products of its room.
LineAt(c, data, room, i) == WithKopecks(PreparedLines(c, data, room)[i], data.rate)
SurfaceAt(data, room, i) == SurfaceOf(data.categories, PickedIn(room)[i].categoryId)

LEMMA LineAtIs ==
    ASSUME NEW c, ConfigurationTyped(c), NEW data, PricingDataTyped(data),
           NEW room \in ToSet(c.rooms), NEW i \in 1 .. Len(PickedIn(room))
    PROVE  LET line == LineAt(c, data, room, i)
               bare == PreparedLines(c, data, room)[i]
           IN  /\ line \in ToSet(EstimateLines(c, data)) /\ line.section = "MATERIALS"
               /\ line.roomClientId = room.clientId
               /\ line.categoryId = PickedIn(room)[i].categoryId
               /\ line.categoryId # None
               /\ line.productId = PickedIn(room)[i].productId /\ line.productId # None
               /\ line.ruleId = RoomLines(c, data, room)[i].ruleId
               /\ \A field \in LineFields : line[field] = bare[field]
<1> DEFINE line == LineAt(c, data, room, i)
           bare == PreparedLines(c, data, room)[i]
           s == PickedIn(room)[i]
           before == RoomLines(c, data, room)[i]
<1>1. IsSequence(room.selections)
  BY DEF ConfigurationTyped
<1>2. s \in ToSet(room.selections) /\ s.productId # None
  BY <1>1, PickedInIs
<1>3. s.categoryId # None
  BY <1>2 DEF ConfigurationTyped
<1>4. Carries(bare, OfMaterial(room, s, before.ruleId))
  BY <1>1, PreparedLinesAre
<1>5. bare \in ToSet(PreparedLines(c, data, room))
  <2>1. ToSet(PreparedLines(c, data, room)) =
               {PreparedLines(c, data, room)[j] : j \in 1 .. Len(PickedIn(room))}
    BY <1>1, PreparedLinesAre
  <2> QED
    BY <2>1
<1>6. bare \in ToSet(BareLines(c, data))
  <2>1. bare \in ToSet(MaterialLines(c, data))
    <3> HIDE DEF bare
    <3> QED
      BY <1>5, MaterialLinesAre
  <2> HIDE DEF bare
  <2> QED
    BY <2>1, BareLinesAre
<1> HIDE DEF bare, s, before
<1>7. /\ DOMAIN bare = LineFields /\ bare.section = "MATERIALS"
      /\ bare.roomClientId = room.clientId /\ bare.categoryId = s.categoryId
      /\ bare.productId = s.productId /\ bare.ruleId = before.ruleId
  BY <1>4 DEF Carries, OfMaterial, LineIdFields, Given
<1>8. line = WithKopecks(bare, data.rate)
  BY DEF LineAt, bare
<1> HIDE DEF line
<1>9. \A field \in LineFields : line[field] = bare[field]
  BY <1>7, <1>8, WithKopecksIs
<1>10. line \in ToSet(EstimateLines(c, data))
  BY <1>6, <1>8, EstimateLinesAre
<1>11. /\ line.section = "MATERIALS" /\ line.roomClientId = room.clientId
       /\ line.categoryId = s.categoryId /\ line.productId = s.productId
       /\ line.ruleId = before.ruleId
  BY <1>7, <1>9 DEF LineFields
<1> QED
  BY <1>2, <1>3, <1>9, <1>10, <1>11 DEF line, bare, s, before

LEMMA MaterialsAreAt ==
    ASSUME NEW c, ConfigurationTyped(c), NEW data, PricingDataTyped(data),
           NEW line \in ToSet(EstimateLines(c, data)), line.section = "MATERIALS"
    PROVE  \E room \in ToSet(c.rooms) : \E i \in 1 .. Len(PickedIn(room)) :
              line = LineAt(c, data, room, i)
<1>1. PICK bare \in ToSet(BareLines(c, data)) : line = WithKopecks(bare, data.rate)
  BY EstimateLinesAre
<1>2. bare.section = "MATERIALS"
  <2>1. DOMAIN bare = LineFields
    BY BareLineIs
  <2>2. \A field \in LineFields : line[field] = bare[field]
    BY <1>1, <2>1, WithKopecksIs
  <2> QED
    BY <2>2 DEF LineFields
<1>3. ~IsObjectLine(c, data, bare)
  <2> SUFFICES ASSUME NEW section \in {"BASE", "OBJECT"},
                      NEW rule \in ToSet(ObjectRules(data, section)),
                      bare = ObjectLine(c, data, section, rule)
               PROVE  FALSE
    BY DEF IsObjectLine
  <2>1. Carries(bare, OfObject(section, rule))
    BY ObjectLineIs
  <2>2. bare.section = section
    BY <2>1 DEF Carries, OfObject
  <2> QED
    BY <1>2, <2>2
<1>4. ~IsPackageLine(c, data, bare)
  <2> SUFFICES ASSUME NEW item \in ToSet(data.packageItems), bare = PackageLine(c, item)
               PROVE  FALSE
    BY DEF IsPackageLine
  <2>1. item.priceCents \in Nat \cup {Missing} /\ item.unit \in Units \cup {None}
    BY DEF PricingDataTyped
  <2>2. Carries(bare, OfPackage(item))
    BY <2>1, PackageLineIs
  <2>3. bare.section = "ENGINEERING"
    BY <2>2 DEF Carries, OfPackage
  <2> QED
    BY <1>2, <2>3
<1>5. ~IsOptionLine(c, data, bare)
  <2> SUFFICES ASSUME NEW s \in KnownOptions(c, data), bare = LineOfOption(c, data, s)
               PROVE  FALSE
    BY DEF IsOptionLine
  <2> DEFINE option == data.options[s.optionId]
  <2>1. s.quantity \in Nat /\ OptionTyped(option)
    BY DEF KnownOptions, ConfigurationTyped, PricingDataTyped, OptionTyped
  <2>2. \A key \in DOMAIN data.coefficients : data.coefficients[key] \in Int
    BY DEF PricingDataTyped
  <2>3. bare = OptionLine(c, option, s, data.coefficients)
    BY DEF LineOfOption
  <2> HIDE DEF option
  <2>4. Carries(bare, OfOption(option, s))
    BY <2>1, <2>2, <2>3, OptionLineIs
  <2>5. bare.section = option.kind
    BY <2>4 DEF Carries, OfOption
  <2> QED
    BY <1>2, <2>1, <2>5 DEF OptionTyped, OptionKinds
<1>6. IsMaterialLine(c, data, bare)
  BY <1>3, <1>4, <1>5, OriginOfLines
<1>7. PICK room \in ToSet(c.rooms) : \E i \in 1 .. Len(PickedIn(room)) :
          bare = PreparedLines(c, data, room)[i]
  BY <1>6 DEF IsMaterialLine
<1>8. PICK i \in 1 .. Len(PickedIn(room)) : bare = PreparedLines(c, data, room)[i]
  BY <1>7
<1> QED
  BY <1>1, <1>8 DEF LineAt

LEMMA AmongNoneOf ==
    ASSUME NEW s, IsSequence(s), NEW K, ToSet(s) \cap K = {}
    PROVE  Among(s, K) = <<>>
<1>1. IsSequence(Among(s, K)) /\ ToSet(Among(s, K)) = {}
  BY AmongIs
<1> QED
  BY <1>1, SeqFacts DEF IsSequence

LEMMA AmongLast ==
    ASSUME NEW s, IsSequence(s), NEW x, NEW K, ToSet(s) \cap K = {}, x \in K
    PROVE  Among(Append(s, x), K) = <<x>>
<1> DEFINE S == ToSet(s) \cup {x}
<1>1. s \in Seq(S) /\ x \in S
  <2>1. ToSet(s) \subseteq S
    OBVIOUS
  <2> HIDE DEF S
  <2> QED
    BY <2>1, SeqMonotonic DEF IsSequence, S
<1> HIDE DEF S
<1>2. Among(Append(s, x), K) = Append(Among(s, K), x)
  BY <1>1, AmongAppended
<1>3. Among(s, K) = <<>>
  BY AmongNoneOf
<1> QED
  BY <1>2, <1>3

\* The lines of a room that pay for the preparation of a surface.
Preparing(c, data, surface) ==
    /\ c.scope # "FULL" /\ surface \notin {"NONE", "UNKNOWN"}
    /\ SurfaceRules(data, surface) # <<>>
PrepAt(c, data, room, i) ==
    LET surface == SurfaceAt(data, room, i) IN
    PrepComponent(data, RoomLines(c, data, room), surface, i,
                  Head(SurfaceRules(data, surface)),
                  ToCents(PrepOutcome(c, data, room, surface).n))

LEMMA PricedComponents ==
    ASSUME NEW c, NEW data, NEW room, IsSequence(room.selections),
           NEW i \in 1 .. Len(PickedIn(room))
    PROVE  LET line == RoomLines(c, data, room)[i] IN
           /\ IsSequence(line.components)
           /\ \A k \in ToSet(line.components) : k.kind \in {"MATERIAL", "LABOR"}
<1> DEFINE s == PickedIn(room)[i]
           line == RoomLines(c, data, room)[i]
           rule == Head(RulesOf(data, s))
           cost == CostOf(c, data, room, s, rule)
           labor == LaborOf(c, data, room, s, rule)
<1>1. Sound(line) /\ (line.status = "OK" => MaterialIsPriced(c, data, room, s, line))
  BY RoomLinesAre
<1> HIDE DEF line, s
<1>2. CASE line.status = "OK"
  <2>1. /\ ~Failed(cost) /\ InRange(cost.n) /\ ~Failed(labor) /\ InRange(labor.n)
        /\ line.components = MaterialComponents(c, rule, cost, labor)
    BY <1>1, <1>2 DEF MaterialIsPriced
  <2>2. cost.n \in Int
    <3>1. cost.n \in Nat
      BY <2>1, FormulaGives DEF CostOf, RunWith
    <3> HIDE DEF cost
    <3> QED
      BY <3>1
  <2>3. labor.n \in Int
    <3>1. CASE c.scope = "PARTIAL" /\ rule.laborFormula # NoFormula
      <4>1. labor = RunWith(data, rule.laborFormula, WithQuantity(c, data, room, s, rule))
        BY <3>1 DEF LaborOf
      <4>2. labor.n \in Nat
        BY <2>1, <4>1, FormulaGives DEF RunWith
      <4> HIDE DEF labor
      <4> QED
        BY <4>2
    <3>2. CASE ~(c.scope = "PARTIAL" /\ rule.laborFormula # NoFormula)
      BY <3>2 DEF LaborOf, Num
    <3> QED
      BY <3>1, <3>2
  <2> HIDE DEF cost, labor, rule
  <2> QED
    BY <2>1, <2>2, <2>3, MaterialComponentsAre DEF line
<1>3. CASE line.status # "OK"
  <2>1. line.components = <<>>
    BY <1>1, <1>3 DEF Sound, Free
  <2> QED
    BY <2>1, EmptyIs DEF line
<1> QED
  BY <1>2, <1>3

LEMMA PrepOfLine ==
    ASSUME NEW c, ConfigurationTyped(c), NEW data, PricingDataTyped(data),
           NEW room \in ToSet(c.rooms), NEW i \in 1 .. Len(PickedIn(room))
    PROVE  LET line == LineAt(c, data, room, i)
               surface == SurfaceAt(data, room, i)
           IN  /\ PrepOf(line) # <<>> => line.status = "OK" /\ Preparing(c, data, surface)
               /\ Preparing(c, data, surface) =>
                     /\ line.status = "OK" =>
                           /\ RoomLines(c, data, room)[i].status = "OK"
                           /\ PrepOf(line) = <<PrepAt(c, data, room, i)>>
                     /\ RoomLines(c, data, room)[i].status = "OK"
                           => line.status \in {"OK", "ERROR"}
<1> DEFINE lines == RoomLines(c, data, room)
           before == lines[i]
           bare == PreparedLines(c, data, room)[i]
           line == LineAt(c, data, room, i)
           s == PickedIn(room)[i]
           surface == SurfaceAt(data, room, i)
           outcome == PrepOutcome(c, data, room, surface)
           prep == PrepAt(c, data, room, i)
           K(x) == {k \in ToSet(x.components) : k.kind = "PREP"}
<1>1. IsSequence(room.selections)
  BY DEF ConfigurationTyped
<1>2. line.status = bare.status /\ line.components = bare.components
  <2>1. \A field \in LineFields : line[field] = bare[field]
    BY LineAtIs
  <2> HIDE DEF line, bare
  <2> QED
    BY <2>1 DEF LineFields
<1>3. /\ Carries(before, OfMaterial(room, s, before.ruleId)) /\ Sound(before)
      /\ DOMAIN lines = 1 .. Len(PickedIn(room))
  BY <1>1, RoomLinesAre
<1>4. before.categoryId = s.categoryId
  <2> HIDE DEF before, s
  <2> QED
    BY <1>3 DEF Carries, OfMaterial, LineIdFields, Given
<1>5. /\ IsSequence(before.components)
      /\ \A k \in ToSet(before.components) : k.kind \in {"MATERIAL", "LABOR"}
  BY <1>1, PricedComponents
<1>6. \A x : PrepOf(x) = Among(x.components, K(x))
  BY DEF PrepOf, Only
<1>7. CASE c.scope = "FULL"
  <2>1. bare = before
    BY <1>7 DEF PreparedLines, SurfacePrep
  <2>2. line.components = before.components
    BY <1>2, <2>1
  <2>3. ToSet(before.components) \cap K(line) = {}
    BY <1>5, <2>2
  <2>4. PrepOf(line) = <<>>
    <3>1. PrepOf(line) = Among(before.components, K(line))
      BY <1>6, <2>2
    <3> HIDE DEF K, line, before
    <3> QED
      BY <1>5, <2>3, <3>1, AmongNoneOf
  <2> QED
    BY <1>7, <2>4 DEF Preparing
<1>8. CASE c.scope # "FULL"
  <2>1. bare = PreparedLine(c, data, room, lines, i)
    BY <1>3, <1>8 DEF PreparedLines, SurfacePrep
  <2>2. SurfaceOf(data.categories, before.categoryId) = surface
    BY <1>4 DEF SurfaceAt
  <2>3. \/ Unprepared(data, before) /\ bare = before
        \/ /\ ~Unprepared(data, before)
           /\ \/ bare.status = "ERROR" /\ Sound(bare)
              \/ /\ ~Failed(outcome) /\ bare.status = "OK"
                 /\ bare.components = Append(before.components, prep)
    <3> DEFINE init == OfMaterial(room, s, before.ruleId)
    <3>1. "optionId" \notin DOMAIN init
      BY DEF OfMaterial
    <3> DEFINE on == SurfaceOf(data.categories, lines[i].categoryId)
               gives == PrepOutcome(c, data, room, on)
               part == PrepComponent(data, lines, on, i, Head(SurfaceRules(data, on)),
                                     ToCents(gives.n))
    <3>2. on = surface /\ gives = outcome /\ part = prep
      <4>1. on = surface
        BY <2>2
      <4> HIDE DEF on, surface
      <4> QED
        BY <4>1 DEF PrepAt, surface
    <3>3. /\ Sound(bare)
          /\ \/ Unprepared(data, lines[i]) /\ bare = lines[i]
             \/ /\ ~Unprepared(data, lines[i])
                /\ \/ bare.status = "ERROR"
                   \/ /\ ~Failed(gives) /\ bare.status = "OK"
                      /\ bare.components = Append(lines[i].components, part)
      <4>1. Carries(lines[i], init) /\ Sound(lines[i])
        BY <1>3
      <4> DEFINE result == PreparedLine(c, data, room, lines, i)
      <4> HIDE DEF init, lines
      <4>2. Sound(result)
        BY <3>1, <4>1, PreparedLineIs
      <4>3. \/ Unprepared(data, lines[i]) /\ result = lines[i]
            \/ /\ ~Unprepared(data, lines[i])
               /\ \/ result.status = "ERROR"
                  \/ /\ ~Failed(gives) /\ result.status = "OK"
                     /\ result.components = Append(lines[i].components, part)
        <5>1. LinePrepared(c, data, room, lines, i)
          BY <3>1, <4>1, PreparedLineIs
        <5> QED
          BY <5>1 DEF LinePrepared, result
      <4> HIDE DEF result, gives, part, bare
      <4> QED
        BY <2>1, <4>2, <4>3 DEF result
    <3> HIDE DEF bare, lines, on, gives, part, surface, outcome, prep
    <3> QED
      BY <3>2, <3>3
  <2>4. Unprepared(data, before) <=> before.status # "OK" \/ ~Preparing(c, data, surface)
    BY <1>8, <2>2 DEF Unprepared, Preparing
  <2>5. ASSUME Unprepared(data, before), bare = before PROVE PrepOf(line) = <<>>
    <3>1. line.components = before.components
      BY <1>2, <2>5
    <3>2. ToSet(before.components) \cap K(line) = {}
      BY <1>5, <3>1
    <3>3. PrepOf(line) = Among(before.components, K(line))
      BY <1>6, <3>1
    <3> HIDE DEF K, line, before
    <3> QED
      BY <1>5, <3>2, <3>3, AmongNoneOf
  <2>6. ASSUME bare.status = "ERROR", Sound(bare) PROVE PrepOf(line) = <<>>
    <3>1. line.components = <<>>
      BY <1>2, <2>6 DEF Sound, Free
    <3>2. ToSet(line.components) \cap K(line) = {}
      BY <3>1, EmptyIs
    <3> HIDE DEF K, line
    <3> QED
      BY <1>6, <3>1, <3>2, EmptyIs, AmongNoneOf
  <2>7. ASSUME bare.components = Append(before.components, prep)
        PROVE  PrepOf(line) = <<prep>>
    <3>1. prep.kind = "PREP"
      BY DEF PrepAt, PrepComponent, Component
    <3>2. line.components = Append(before.components, prep)
      BY <1>2, <2>7
    <3> HIDE DEF line, before, prep, bare
    <3>3. ToSet(line.components) = ToSet(before.components) \cup {prep}
      BY <1>5, <3>2, AppendIs
    <3>4. prep \in K(line) /\ ToSet(before.components) \cap K(line) = {}
      BY <1>5, <3>1, <3>3
    <3>5. PrepOf(line) = Among(Append(before.components, prep), K(line))
      BY <1>6, <3>2
    <3> HIDE DEF K
    <3> QED
      BY <1>5, <3>4, <3>5, AmongLast
  <2> HIDE DEF line, bare, before, prep, surface, outcome
  <2> QED
    BY <1>2, <2>3, <2>4, <2>5, <2>6, <2>7 DEF line, before, prep, surface
<1> QED
  BY <1>7, <1>8

LEMMA RoomsDiffer ==
    ASSUME NEW c, ConfigurationTyped(c), ConfigurationValid(c),
           NEW one \in ToSet(c.rooms), NEW other \in ToSet(c.rooms),
           one.clientId = other.clientId
    PROVE  one = other
<1>1. IsSequence(c.rooms)
  BY DEF ConfigurationTyped
<1>2. DOMAIN c.rooms = 1 .. Len(c.rooms)
  BY <1>1, SequenceIs
<1>3. PICK i \in DOMAIN c.rooms : one = c.rooms[i]
  BY <1>1, <1>2, SequenceIs
<1>4. PICK j \in DOMAIN c.rooms : other = c.rooms[j]
  BY <1>1, <1>2, SequenceIs
<1>5. i = j
  BY <1>3, <1>4 DEF ConfigurationValid, Distinct, Map
<1> QED
  BY <1>3, <1>4, <1>5

\* The place of the line that carries the preparation of a surface.
CarrierAt(c, data, room, surface) == Carrier(data, RoomLines(c, data, room), surface)

LEMMA CarrierIs ==
    ASSUME NEW c, NEW data, NEW room, IsSequence(room.selections),
           NEW surface, NEW i \in 1 .. Len(PickedIn(room)),
           RoomLines(c, data, room)[i].status = "OK", SurfaceAt(data, room, i) = surface
    PROVE  LET k == CarrierAt(c, data, room, surface) IN
           /\ k \in 1 .. Len(PickedIn(room)) /\ RoomLines(c, data, room)[k].status = "OK"
           /\ SurfaceAt(data, room, k) = surface
<1> DEFINE lines == RoomLines(c, data, room)
           n == Len(PickedIn(room))
           S == OnSurface(data, lines, surface)
<1>1. DOMAIN lines = 1 .. n /\ n \in Nat
  BY RoomLinesAre, PickedInIs
<1>2. ASSUME NEW j \in 1 .. n
      PROVE  lines[j].categoryId = PickedIn(room)[j].categoryId
  <2> DEFINE line == lines[j]
             s == PickedIn(room)[j]
  <2>1. Carries(line, OfMaterial(room, s, line.ruleId))
    BY RoomLinesAre
  <2> HIDE DEF line, s
  <2>2. line.categoryId = s.categoryId
    BY <2>1 DEF Carries, OfMaterial, LineIdFields, Given
  <2> QED
    BY <2>2 DEF line, s
<1>3. S = {j \in 1 .. n : lines[j].status = "OK" /\ SurfaceAt(data, room, j) = surface}
  <2>1. S = {j \in 1 .. n : /\ lines[j].status = "OK"
                            /\ SurfaceOf(data.categories, lines[j].categoryId) = surface}
    BY <1>1 DEF OnSurface
  <2> HIDE DEF lines, S, n
  <2> QED
    BY <1>2, <2>1 DEF SurfaceAt
<1>4. i \in S /\ S \subseteq Nat
  <2> HIDE DEF lines, S
  <2> QED
    BY <1>1, <1>3 DEF lines
<1>5. Min(S) \in S
  <2> HIDE DEF S
  <2> QED
    BY <1>4, MinIs
<1>6. CarrierAt(c, data, room, surface) = Min(S)
  BY DEF CarrierAt, Carrier
<1> HIDE DEF S, lines
<1> QED
  BY <1>3, <1>5, <1>6 DEF lines

\* What the lines of a prepared surface pay for it.
LEMMA PrepAtIs ==
    ASSUME NEW c, ConfigurationTyped(c), NEW data, NEW room \in ToSet(c.rooms),
           NEW surface, NEW i \in 1 .. Len(PickedIn(room)),
           RoomLines(c, data, room)[i].status = "OK", SurfaceAt(data, room, i) = surface
    PROVE  LET k == CarrierAt(c, data, room, surface)
               prep == PrepAt(c, data, room, i)
           IN  /\ prep.sharedWith = None <=> i = k
               /\ i # k => /\ prep.amountCents = 0
                           /\ prep.sharedWith = PickedIn(room)[k].categoryId
<1> DEFINE k == CarrierAt(c, data, room, surface)
           lines == RoomLines(c, data, room)
           s == PickedIn(room)[k]
           prep == PrepAt(c, data, room, i)
           rule == Head(SurfaceRules(data, surface))
           cents == ToCents(PrepOutcome(c, data, room, surface).n)
<1>1. IsSequence(room.selections)
  BY DEF ConfigurationTyped
<1>2. k \in 1 .. Len(PickedIn(room))
  <2> HIDE DEF k
  <2> QED
    BY <1>1, CarrierIs DEF k
<1>3. s \in ToSet(room.selections)
  <2> HIDE DEF k
  <2> QED
    BY <1>1, <1>2, PickedInIs
<1>4. s.categoryId # None
  <2> HIDE DEF s
  <2> QED
    BY <1>3 DEF ConfigurationTyped
<1>5. lines[k].categoryId = s.categoryId
  <2> DEFINE line == lines[k]
  <2>1. Carries(line, OfMaterial(room, s, line.ruleId))
    <3> HIDE DEF k
    <3> QED
      BY <1>1, <1>2, RoomLinesAre
  <2> HIDE DEF line, s
  <2>2. line.categoryId = s.categoryId
    BY <2>1 DEF Carries, OfMaterial, LineIdFields, Given
  <2> QED
    BY <2>2 DEF line
<1>6. prep = IF i = k THEN Component("PREP", rule, cents, None)
             ELSE Component("PREP", rule, 0, lines[k].categoryId)
  BY DEF PrepAt, PrepComponent, CarrierAt
<1> HIDE DEF prep, k, s, lines, rule, cents
<1> QED
  BY <1>4, <1>5, <1>6 DEF Component, prep, k, s

LEMMA PrepOnce ==
    ASSUME NEW c, ConfigurationTyped(c), ConfigurationValid(c),
           NEW data, PricingDataTyped(data),
           NEW estimate, estimate = EstimateOf(c, data),
           NEW one \in ToSet(estimate.lines), PrepOf(one) # <<>>
    PROVE  LET beside == {line \in ToSet(estimate.lines) :
                            /\ line.section = "MATERIALS" /\ line.status = "OK"
                            /\ line.roomClientId = one.roomClientId
                            /\ SurfaceOf(data.categories, line.categoryId)
                                 = SurfaceOf(data.categories, one.categoryId)}
               carriers == {line \in beside : \E k \in ToSet(PrepOf(line)) :
                                                 k.sharedWith = None}
           IN  /\ \A line \in beside : Len(PrepOf(line)) = 1
               /\ \A line \in beside \ carriers : PrepOf(line)[1].amountCents = 0
               /\ \/ \E carrier \in carriers :
                         /\ carriers = {carrier}
                         /\ \A line \in beside \ carriers :
                               PrepOf(line)[1].sharedWith = carrier.categoryId
                  \/ carriers = {} /\ estimate.incomplete
<1> DEFINE lines == EstimateLines(c, data)
           surface == SurfaceOf(data.categories, one.categoryId)
           beside == {line \in ToSet(estimate.lines) :
                        /\ line.section = "MATERIALS" /\ line.status = "OK"
                        /\ line.roomClientId = one.roomClientId
                        /\ SurfaceOf(data.categories, line.categoryId) = surface}
           carriers == {line \in beside : \E k \in ToSet(PrepOf(line)) : k.sharedWith = None}
<1>1. estimate.lines = lines /\ estimate.incomplete = IsIncomplete(lines)
  BY DEF EstimateOf, WithTotals
<1>2. one.section = "MATERIALS"
  <2>1. Sound(one) /\ Origin(c, data, one)
    BY <1>1, EstimateLineIs
  <2>2. one.components # <<>>
    <3> SUFFICES ASSUME one.components = <<>> PROVE FALSE
      OBVIOUS
    <3> DEFINE K == {k \in ToSet(one.components) : k.kind = "PREP"}
    <3>1. PrepOf(one) = Among(one.components, K) /\ ToSet(one.components) \cap K = {}
      BY EmptyIs DEF PrepOf, Only
    <3> HIDE DEF K
    <3> QED
      BY <3>1, EmptyIs, AmongNoneOf
  <2> QED
    BY <2>1, <2>2 DEF Origin
<1>3. PICK room \in ToSet(c.rooms) : \E i \in 1 .. Len(PickedIn(room)) :
          one = LineAt(c, data, room, i)
  BY <1>1, <1>2, MaterialsAreAt
<1>4. PICK i \in 1 .. Len(PickedIn(room)) : one = LineAt(c, data, room, i)
  BY <1>3
<1>5. one.roomClientId = room.clientId /\ surface = SurfaceAt(data, room, i)
  <2>1. one.roomClientId = room.clientId /\ one.categoryId = PickedIn(room)[i].categoryId
    BY <1>4, LineAtIs
  <2> QED
    BY <2>1 DEF SurfaceAt
<1>6. one.status = "OK" /\ Preparing(c, data, surface)
  BY <1>4, <1>5, PrepOfLine
<1> DEFINE before == RoomLines(c, data, room)
           n == Len(PickedIn(room))
           at(j) == LineAt(c, data, room, j)
           prep(j) == PrepAt(c, data, room, j)
           k == CarrierAt(c, data, room, surface)
<1>7. IsSequence(room.selections)
  BY DEF ConfigurationTyped
<1>8. before[i].status = "OK"
  BY <1>4, <1>5, <1>6, PrepOfLine
<1>9. /\ k \in 1 .. n /\ before[k].status = "OK" /\ SurfaceAt(data, room, k) = surface
  <2> HIDE DEF surface
  <2> QED
    BY <1>5, <1>7, <1>8, CarrierIs
<1> HIDE DEF surface, k
<1>10. ASSUME NEW j \in 1 .. n
       PROVE  /\ at(j) \in ToSet(lines) /\ at(j).section = "MATERIALS"
              /\ at(j).roomClientId = room.clientId
              /\ at(j).categoryId = PickedIn(room)[j].categoryId
              /\ SurfaceOf(data.categories, at(j).categoryId) = SurfaceAt(data, room, j)
  BY LineAtIs DEF SurfaceAt
<1> HIDE DEF lines, before, at, prep
<1>11. ASSUME NEW line \in beside
       PROVE  \E j \in 1 .. n : /\ line = at(j) /\ SurfaceAt(data, room, j) = surface
                                /\ before[j].status = "OK" /\ PrepOf(line) = <<prep(j)>>
  <2>1. /\ line \in ToSet(lines) /\ line.section = "MATERIALS" /\ line.status = "OK"
        /\ line.roomClientId = room.clientId
        /\ SurfaceOf(data.categories, line.categoryId) = surface
    BY <1>1, <1>5
  <2>2. PICK other \in ToSet(c.rooms) : \E j \in 1 .. Len(PickedIn(other)) :
            line = LineAt(c, data, other, j)
    BY <2>1, MaterialsAreAt DEF lines
  <2>3. PICK j \in 1 .. Len(PickedIn(other)) : line = LineAt(c, data, other, j)
    BY <2>2
  <2>4. line.roomClientId = other.clientId
    BY <2>3, LineAtIs
  <2>5. other = room
    BY <2>1, <2>4, RoomsDiffer
  <2>6. j \in 1 .. n /\ line = at(j)
    BY <2>3, <2>5 DEF at
  <2>7. SurfaceAt(data, room, j) = surface
    BY <1>10, <2>1, <2>6
  <2>8. before[j].status = "OK" /\ PrepOf(line) = <<prep(j)>>
    BY <1>6, <2>1, <2>6, <2>7, PrepOfLine DEF at, before, prep
  <2> QED
    BY <2>6, <2>7, <2>8
<1>12. ASSUME NEW j \in 1 .. n, SurfaceAt(data, room, j) = surface, before[j].status = "OK"
       PROVE  /\ prep(j).sharedWith = None <=> j = k
              /\ j # k => /\ prep(j).amountCents = 0
                          /\ prep(j).sharedWith = at(k).categoryId
  <2>1. /\ prep(j).sharedWith = None <=> j = k
        /\ j # k => /\ prep(j).amountCents = 0
                    /\ prep(j).sharedWith = PickedIn(room)[k].categoryId
    BY <1>12, PrepAtIs DEF before, prep, k
  <2> QED
    BY <1>9, <1>10, <2>1
<1>13. ASSUME NEW line \in beside
       PROVE  /\ Len(PrepOf(line)) = 1
              /\ line \in carriers <=> PrepOf(line)[1].sharedWith = None
              /\ line \in carriers => line = at(k)
              /\ line \notin carriers => /\ PrepOf(line)[1].amountCents = 0
                                         /\ PrepOf(line)[1].sharedWith = at(k).categoryId
  <2>1. PICK j \in 1 .. n : /\ line = at(j) /\ SurfaceAt(data, room, j) = surface
                            /\ before[j].status = "OK" /\ PrepOf(line) = <<prep(j)>>
    BY <1>11
  <2>2. Len(PrepOf(line)) = 1 /\ PrepOf(line)[1] = prep(j) /\ ToSet(PrepOf(line)) = {prep(j)}
    BY <2>1, SingletonIs
  <2>3. line \in carriers <=> \E p \in ToSet(PrepOf(line)) : p.sharedWith = None
    OBVIOUS
  <2> HIDE DEF carriers, beside
  <2>4. line \in carriers <=> PrepOf(line)[1].sharedWith = None
    BY <2>2, <2>3
  <2> QED
    BY <1>12, <2>1, <2>2, <2>4
<1>14. at(k).status = "OK" => at(k) \in beside
  BY <1>1, <1>5, <1>9, <1>10
<1>15. at(k).status \in {"OK", "ERROR"}
  BY <1>6, <1>9, PrepOfLine DEF at, before
<1>16. CASE at(k).status = "OK"
  <2>1. at(k) \in beside
    BY <1>14, <1>16
  <2>2. at(k) \in carriers
    <3>1. PrepOf(at(k)) = <<prep(k)>>
      BY <1>6, <1>9, <1>16, PrepOfLine DEF at, before, prep
    <3>2. prep(k).sharedWith = None
      BY <1>9, <1>12
    <3>3. PrepOf(at(k))[1].sharedWith = None
      BY <3>1, <3>2
    <3> HIDE DEF carriers, beside
    <3> QED
      BY <1>13, <2>1, <3>3
  <2> HIDE DEF beside
  <2>3. carriers \subseteq beside
    OBVIOUS
  <2> HIDE DEF carriers
  <2>4. carriers = {at(k)}
    BY <1>13, <2>2, <2>3
  <2>5. /\ \A line \in beside : Len(PrepOf(line)) = 1
        /\ \A line \in beside \ carriers : PrepOf(line)[1].amountCents = 0
        /\ \E carrier \in carriers :
              /\ carriers = {carrier}
              /\ \A line \in beside \ carriers :
                    PrepOf(line)[1].sharedWith = carrier.categoryId
    BY <1>13, <2>2, <2>4
  <2> QED
    BY <2>5 DEF carriers, beside, surface
<1>17. CASE at(k).status = "ERROR"
  <2>1. carriers = {}
    <3>1. ASSUME NEW line \in carriers PROVE FALSE
      <4>1. line \in beside /\ line.status = "OK"
        OBVIOUS
      <4> HIDE DEF beside, carriers
      <4>2. line = at(k)
        BY <1>13, <4>1
      <4> QED
        BY <1>17, <4>1, <4>2
    <3> QED
      BY <3>1
  <2>2. estimate.incomplete
    BY <1>1, <1>9, <1>10, <1>17 DEF IsIncomplete
  <2> HIDE DEF beside
  <2>3. \A line \in beside : Len(PrepOf(line)) = 1
    BY <1>13
  <2> HIDE DEF carriers
  <2>4. \A line \in beside \ carriers : PrepOf(line)[1].amountCents = 0
    BY <1>13
  <2> QED
    BY <2>1, <2>2, <2>3, <2>4 DEF carriers, beside, surface
<1> QED
  BY <1>15, <1>16, <1>17

LEMMA InvPreparationOnce == Inv => PreparationOnce
<1> SUFFICES ASSUME Inv, NEW v \in DOMAIN versions,
                    NEW one \in ToSet(versions[v].estimate.lines), PrepOf(one) # <<>>
             PROVE  LET estimate == versions[v].estimate
                        categories == DataOf(versions[v].pricing).categories
                        beside == {line \in ToSet(estimate.lines) :
                                     /\ line.section = "MATERIALS" /\ line.status = "OK"
                                     /\ line.roomClientId = one.roomClientId
                                     /\ SurfaceOf(categories, line.categoryId)
                                          = SurfaceOf(categories, one.categoryId)}
                        carriers == {line \in beside : \E k \in ToSet(PrepOf(line)) :
                                                          k.sharedWith = None}
                    IN  /\ \A line \in beside : Len(PrepOf(line)) = 1
                        /\ \A line \in beside \ carriers : PrepOf(line)[1].amountCents = 0
                        /\ \/ \E carrier \in carriers :
                                  /\ carriers = {carrier}
                                  /\ \A line \in beside \ carriers :
                                        PrepOf(line)[1].sharedWith = carrier.categoryId
                           \/ carriers = {} /\ estimate.incomplete
  BY DEF PreparationOnce
<1> DEFINE version == versions[v]
           c == version.configuration
           data == PricedWith(version)
           estimate == version.estimate
<1>1. VersionInv(version)
  BY VersionsAre
<1> HIDE DEF version, data
<1>2. /\ ConfigurationTyped(c) /\ ConfigurationValid(c) /\ PricingDataTyped(data)
      /\ estimate = EstimateOf(c, data)
      /\ data.categories = DataOf(version.pricing).categories
  BY <1>1, VersionIs DEF DataFields, data
<1>3. one \in ToSet(estimate.lines)
  BY DEF version
<1> HIDE DEF c, estimate
<1> QED
  BY <1>2, <1>3, PrepOnce DEF estimate, version

\* The sections of an estimate add up to its totals in both currencies, a line to
\* its components, and the total in hryvnias stays within half a kopeck a line of
\* the total in dollars (estimate/totals.ts, money.ts).
THEOREM TotalsAreSound == Spec => []TotalsAddUp
  BY InvHolds, InvTotalsAddUp, PTL

\* Materials that share a surface of a room pay for its preparation once, or the
\* estimate says that it is incomplete (estimate/prep.ts).
THEOREM SurfacesArePreparedOnce == Spec => []PreparationOnce
  BY InvHolds, InvPreparationOnce, PTL

-----------------------------------------------------------------------------
(* The preview against the estimate.                                       *)

\* A list is sorted: the places are those of the list, each taken once.
LEMMA SortedFrom ==
    ASSUME NEW s, IsSequence(s), \A r \in ToSet(s) : r.sortOrder \in Int
    PROVE  ToSet(BySortOrder(s)) \subseteq ToSet(s)
<1> DEFINE n == Len(s)
           before(i, j) == \/ s[i].sortOrder < s[j].sortOrder
                           \/ s[i].sortOrder = s[j].sortOrder /\ i < j
           B(i) == {j \in DOMAIN s : before(j, i)}
           place == [i \in 1 .. n |-> Cardinality(B(i)) + 1]
<1>1. /\ n \in Nat /\ DOMAIN s = 1 .. n
      /\ \A i \in 1 .. n : s[i] \in ToSet(s) /\ s[i].sortOrder \in Int
  BY SequenceIs
<1>2. BySortOrder(s) =
          [m \in DOMAIN s |-> s[CHOOSE i \in DOMAIN s : Cardinality(B(i)) + 1 = m]]
  BY DEF BySortOrder
<1>3. IsFiniteSet(1 .. n) /\ Cardinality(1 .. n) = n
  BY <1>1, FS_Interval
<1>4. \A i \in 1 .. n : B(i) \subseteq 1 .. n
  BY <1>1
<1>5. ASSUME NEW i \in 1 .. n, NEW j \in 1 .. n, before(i, j)
      PROVE  B(i) \subseteq B(j) /\ i \in B(j) /\ i \notin B(i)
  <2>1. i \in B(j) /\ i \notin B(i)
    BY <1>1, <1>5
  <2>2. ASSUME NEW k \in B(i) PROVE k \in B(j)
    <3>1. k \in 1 .. n /\ before(k, i)
      BY <1>1
    <3>2. /\ i \in Int /\ j \in Int /\ k \in Int
          /\ s[i].sortOrder \in Int /\ s[j].sortOrder \in Int /\ s[k].sortOrder \in Int
      BY <1>1, <3>1
    <3>3. before(k, j)
      BY <1>5, <3>1, <3>2
    <3> QED
      BY <1>1, <3>1, <3>3
  <2> QED
    BY <2>1, <2>2
<1>6. \A i, j \in 1 .. n : i = j \/ before(i, j) \/ before(j, i)
  BY <1>1
<1> HIDE DEF before, B
<1>7. ASSUME NEW i \in 1 .. n
      PROVE  /\ IsFiniteSet(B(i)) /\ Cardinality(B(i)) \in Nat
             /\ Cardinality(B(i)) < n /\ place[i] = Cardinality(B(i)) + 1
  <2>1. B(i) \in SUBSET (1 .. n)
    BY <1>4
  <2>2. /\ IsFiniteSet(B(i)) /\ Cardinality(B(i)) <= n
        /\ n = Cardinality(B(i)) => 1 .. n = B(i)
    BY <1>3, <2>1, FS_Subset
  <2>3. Cardinality(B(i)) \in Nat
    BY <2>2, FS_CardinalityType
  <2>4. i \notin B(i)
    <3>1. ~before(i, i)
      BY <1>1 DEF before
    <3> QED
      BY <3>1 DEF B
  <2> QED
    BY <1>1, <2>2, <2>3, <2>4
<1>8. ASSUME NEW i \in 1 .. n, NEW j \in 1 .. n, before(i, j)
      PROVE  place[i] # place[j]
  <2>1. B(i) \in SUBSET B(j) /\ B(i) # B(j)
    BY <1>5, <1>8
  <2>2. /\ Cardinality(B(i)) <= Cardinality(B(j))
        /\ Cardinality(B(j)) = Cardinality(B(i)) => B(j) = B(i)
    BY <1>7, <2>1, FS_Subset
  <2> QED
    BY <1>7, <2>1, <2>2
<1> HIDE DEF place
<1>9. place \in Injection(1 .. n, 1 .. n)
  <2>1. place \in [1 .. n -> 1 .. n]
    <3>1. place = [i \in 1 .. n |-> place[i]]
      BY DEF place
    <3>2. \A i \in 1 .. n : place[i] \in 1 .. n
      BY <1>1, <1>7
    <3> QED
      BY <3>1, <3>2
  <2>2. \A i, j \in 1 .. n : place[i] = place[j] => i = j
    BY <1>6, <1>8
  <2> QED
    BY <2>1, <2>2 DEF Injection, IsInjective
<1>10. place \in Surjection(1 .. n, 1 .. n)
  BY <1>3, <1>9, FS_Injection
<1>11. \A m \in 1 .. n : \E i \in 1 .. n : place[i] = m
  BY <1>10 DEF Surjection
<1>12. ASSUME NEW m \in 1 .. n PROVE BySortOrder(s)[m] \in ToSet(s)
  <2> DEFINE i == CHOOSE i \in DOMAIN s : Cardinality(B(i)) + 1 = m
  <2>1. \E j \in DOMAIN s : Cardinality(B(j)) + 1 = m
    BY <1>1, <1>7, <1>11
  <2>2. i \in 1 .. n
    BY <1>1, <2>1
  <2>3. BySortOrder(s)[m] = s[i]
    BY <1>1, <1>2
  <2> HIDE DEF i
  <2> QED
    BY <1>1, <2>2, <2>3
<1>13. ToSet(BySortOrder(s)) = {BySortOrder(s)[m] : m \in 1 .. n}
  BY <1>1, <1>2 DEF ToSet
<1> QED
  BY <1>12, <1>13

\* Lists of rules, and what is read of them.
LEMMA ObjectRulesFrom ==
    ASSUME NEW data, PricingDataTyped(data), NEW section,
           NEW rule \in ToSet(ObjectRules(data, section))
    PROVE  rule \in ToSet(data.rules) /\ rule.level = "OBJECT"
<1> DEFINE k == {r \in ToSet(data.rules) : /\ r.level = "OBJECT"
                                           /\ r.baseComponent = (section = "BASE")}
           some == Among(data.rules, k)
<1>1. ObjectRules(data, section) = BySortOrder(some)
  BY DEF ObjectRules, Only
<1>2. /\ IsSequence(data.rules) /\ \A r \in ToSet(data.rules) : r.sortOrder \in Int
      /\ k \subseteq ToSet(data.rules)
      /\ \A r \in k : r.level = "OBJECT"
  BY DEF PricingDataTyped
<1> HIDE DEF k
<1>3. IsSequence(some) /\ ToSet(some) = k
  BY <1>2, OnlyIs
<1> HIDE DEF some
<1>4. ToSet(BySortOrder(some)) \subseteq ToSet(some)
  BY <1>2, <1>3, SortedFrom
<1> QED
  BY <1>1, <1>2, <1>3, <1>4

LEMMA RulesOfFrom ==
    ASSUME NEW data, PricingDataTyped(data), NEW selection, RulesOf(data, selection) # <<>>
    PROVE  /\ Head(RulesOf(data, selection)) \in ToSet(data.rules)
           /\ Priced(Head(RulesOf(data, selection)).level)
<1> DEFINE type == data.products[selection.productId].materialTypeId
           k == {r \in ToSet(data.rules) : /\ r.level = "MATERIAL_TYPE"
                                           /\ r.categoryId = selection.categoryId
                                           /\ r.materialTypeId = type}
           l == {r \in ToSet(data.rules) : /\ r.level = "CATEGORY"
                                           /\ r.categoryId = selection.categoryId}
           rules == RulesOf(data, selection)
<1>1. rules = Among(data.rules, k) \o Among(data.rules, l)
  BY DEF RulesOf, SelectRule, Only
<1>2. /\ IsSequence(data.rules) /\ k \cup l \subseteq ToSet(data.rules)
      /\ \A r \in k \cup l : Priced(r.level)
  BY DEF PricingDataTyped, Priced
<1> HIDE DEF k, l, rules
<1>3. IsSequence(rules) /\ ToSet(rules) \subseteq k \cup l
  BY <1>1, <1>2, AmongIs, ConcatIs
<1>4. Head(rules) \in ToSet(rules)
  BY <1>3, HeadIs DEF rules
<1> QED
  BY <1>2, <1>3, <1>4 DEF rules

\* The rule of an id, in a list whose ids differ.
LEMMA RuleNamed ==
    ASSUME NEW rules, NEW rule \in ToSet(rules),
           \A one, other \in ToSet(rules) : one.id = other.id => one = other
    PROVE  (CHOOSE r \in ToSet(rules) : r.id = rule.id) = rule
  OBVIOUS

-----------------------------------------------------------------------------
(* The variables of the preview are those of the estimate.                 *)

\* The object of a sample, as an estimate has it.
SampleObject(c, categories) ==
    LET value(name) == ObjectVariables(c, categories)[name].n IN
    [scope |-> c.scope, totalArea |-> c.totalArea,
     balconyArea |-> c.balconyArea, balconyTiles |-> c.balconyTiles,
     finishLevel |-> c.finishLevel,
     roomsCount |-> value("roomsCount"), bathroomsCount |-> value("bathroomsCount"),
     roomsFloorArea |-> value("roomsFloorArea"),
     roomsWallArea |-> value("roomsWallArea"),
     roomsPuttyWallArea |-> value("roomsPuttyWallArea"),
     roomsPerimeter |-> value("roomsPerimeter"),
     wetRoomsCount |-> value("wetRoomsCount")]

LEMMA ObjectScopeIs ==
    ASSUME NEW c, NEW categories
    PROVE  ObjectScope(SampleObject(c, categories)) = ObjectVariables(c, categories)
<1> DEFINE floor == Sum(FloorArea, c.rooms)
           wall == Sum(WallArea, c.rooms)
           putty == Sum(LAMBDA room : Times(WallArea(room),
                                        PuttyShareOn(room, "WALLS", categories)), c.rooms)
           around == Sum(Perimeter, c.rooms)
           rooms == Scale * Len(Only(c.rooms, LAMBDA room :
                       room.roomTypeCode \in {"LIVING_ROOM", "BEDROOM", "KITCHEN_LIVING"}))
           bathrooms == Scale * Len(Only(c.rooms, LAMBDA room :
                           room.roomTypeCode \in {"BATHROOM"}))
           wet == Scale * Len(Only(c.rooms, LAMBDA room :
                     room.roomTypeCode \in {"BATHROOM", "KITCHEN", "KITCHEN_LIVING"}))
           object == SampleObject(c, categories)
           total == TotalAreaOf(c.scope, c.totalArea, floor)
           variables ==
              [scope |-> Str(c.scope), totalArea |-> Num(total),
               balconyArea |-> Num(c.balconyArea), balconyTiles |-> Bool(c.balconyTiles),
               finishLevel |-> Str(c.finishLevel), roomsCount |-> Num(rooms),
               bathroomsCount |-> Num(bathrooms), roomsFloorArea |-> Num(floor),
               roomsWallArea |-> Num(wall), roomsPuttyWallArea |-> Num(putty),
               roomsPerimeter |-> Num(around), wetRoomsCount |-> Num(wet)]
<1>1. ObjectVariables(c, categories) = variables
  BY DEF ObjectVariables, CountRooms
<1> HIDE DEF floor, wall, putty, around, rooms, bathrooms, wet, total
<1>2. object = [scope |-> c.scope, totalArea |-> c.totalArea,
                balconyArea |-> c.balconyArea, balconyTiles |-> c.balconyTiles,
                finishLevel |-> c.finishLevel, roomsCount |-> rooms,
                bathroomsCount |-> bathrooms, roomsFloorArea |-> floor,
                roomsWallArea |-> wall, roomsPuttyWallArea |-> putty,
                roomsPerimeter |-> around, wetRoomsCount |-> wet]
  <2>1. \A x : Num(x).n = x
    BY DEF Num
  <2> QED
    BY <1>1, <2>1 DEF SampleObject
<1> HIDE DEF object, variables
<1>3. SampleTotalArea(object) = total
  BY <1>2 DEF SampleTotalArea, total
<1>4. Has(object, "roomsPuttyWallArea")
  BY <1>2 DEF Has
<1>5. ObjectScope(object) = variables
  BY <1>2, <1>3, <1>4 DEF ObjectScope, variables
<1> QED
  BY <1>1, <1>5 DEF object

LEMMA Merged ==
    ASSUME NEW W, NEW R, NEW P, NEW O, DOMAIN W \subseteq DOMAIN R,
           \A x \in DOMAIN W : W[x] = R[x], DOMAIN P \cap DOMAIN O = {}
    PROVE  W ++ R ++ P ++ O = R ++ O ++ P
<1> DEFINE a == W ++ R ++ P ++ O
           b == R ++ O ++ P
           D == DOMAIN R \cup DOMAIN P \cup DOMAIN O
           at(x) == CASE x \in DOMAIN R -> R[x]
                      [] x \notin DOMAIN R /\ x \in DOMAIN P -> P[x]
                      [] OTHER -> O[x]
<1>1. a = [x \in D |-> at(x)]
  <2>1. W ++ R = [x \in DOMAIN R |-> R[x]]
    BY DEF ++
  <2> QED
    BY <2>1 DEF ++
<1>2. b = [x \in D |-> at(x)]
  BY DEF ++
<1> QED
  BY <1>1, <1>2

LEMMA TimesScale == \A a \in Nat : Times(a, Scale) = a
<1> SUFFICES ASSUME NEW a \in Nat PROVE Times(a, Scale) = a
  OBVIOUS
<1> DEFINE x == a * Scale
           q == x \div Scale
<1>1. Scale \in Nat \ {0}
  BY LimitsAssumption
<1>2. x \in Nat /\ x = Scale * a
  BY <1>1
<1>3. Times(a, Scale) = q
  BY DEF Times
<1> HIDE DEF x
<1>4. q \in Nat /\ Scale * q \in Nat /\ Scale * q <= x /\ x < Scale * q + Scale
  BY <1>1, <1>2, Division
<1> HIDE DEF q
<1>5. ~(q + 1 <= a)
  <2> SUFFICES ASSUME q + 1 <= a PROVE FALSE
    OBVIOUS
  <2>1. Scale * (q + 1) <= Scale * a
    BY <1>1, <1>4, Multiplied
  <2>2. Scale * (q + 1) = Scale * q + Scale
    BY <1>1, <1>4
  <2> QED
    BY <1>1, <1>2, <1>4, <2>1, <2>2
<1>6. ~(a + 1 <= q)
  <2> SUFFICES ASSUME a + 1 <= q PROVE FALSE
    OBVIOUS
  <2>1. Scale * (a + 1) <= Scale * q
    BY <1>1, <1>4, Multiplied
  <2>2. Scale * (a + 1) = Scale * a + Scale
    BY <1>1
  <2> QED
    BY <1>1, <1>2, <1>4, <2>1, <2>2
<1> QED
  BY <1>3, <1>4, <1>5, <1>6

\* The sample of a material: its room, its product and the object.
SampleProduct(data, selection) ==
    LET product == data.products[selection.productId] IN
    [priceCents |-> product.priceCents, unit |-> product.unit,
     wastePercent |-> WasteOf(product, data.categories[selection.categoryId])]
SampleMaterial(c, data, room, selection) ==
    [object |-> SampleObject(c, data.categories), room |-> room,
     product |-> SampleProduct(data, selection)]

LEMMA ScopesAgree ==
    ASSUME NEW c, NEW data, NEW room, RoomTyped(room), NEW selection,
           selection.areaShare = 0, NEW level, Priced(level)
    PROVE  ScopeOf(level, SampleMaterial(c, data, room, selection))
             = SelectionVariables(c, data, room, selection)
<1> DEFINE sample == SampleMaterial(c, data, room, selection)
           product == data.products[selection.productId]
           category == data.categories[selection.categoryId]
           covered(surface, area) ==
               Num(IF category.surface = surface
                   THEN Times(area, AreaShareOf(selection)) ELSE area)
           W == [wallArea |-> covered("WALLS", WallArea(room)),
                 floorArea |-> covered("FLOOR", FloorArea(room))]
           R == RoomVariables(room)
           P == ProductVariables(product.priceCents, product.unit, WasteOf(product, category))
           O == ObjectVariables(c, data.categories)
<1>1. SelectionVariables(c, data, room, selection) = W ++ R ++ P ++ O
  BY DEF SelectionVariables
<1>2. ScopeOf(level, sample) = R ++ O ++ P
  <2>1. sample.room = room /\ sample.object = SampleObject(c, data.categories)
    BY DEF SampleMaterial
  <2>2. /\ sample.product.priceCents = product.priceCents
        /\ sample.product.unit = product.unit
        /\ sample.product.wastePercent = WasteOf(product, category)
    BY DEF SampleMaterial, SampleProduct
  <2>3. ObjectScope(sample.object) = O
    BY <2>1, ObjectScopeIs
  <2>4. level # "OBJECT" /\ level # "SURFACE"
    BY DEF Priced
  <2> HIDE DEF sample, O, product, category
  <2> QED
    BY <2>1, <2>2, <2>3, <2>4 DEF ScopeOf
<1>3. FloorArea(room) \in Nat /\ WallArea(room) \in Nat
  BY AreasAre
<1>4. AreaShareOf(selection) = Scale
  BY DEF AreaShareOf
<1>5. /\ covered("WALLS", WallArea(room)) = Num(WallArea(room))
      /\ covered("FLOOR", FloorArea(room)) = Num(FloorArea(room))
  BY <1>3, <1>4, TimesScale
<1>6. DOMAIN W \subseteq DOMAIN R /\ \A x \in DOMAIN W : W[x] = R[x]
  <2> HIDE DEF covered
  <2> QED
    BY <1>5 DEF RoomVariables
<1>7. DOMAIN P \cap DOMAIN O = {}
  BY DEF ProductVariables, ObjectVariables
<1> HIDE DEF W, R, P, O
<1>8. W ++ R ++ P ++ O = R ++ O ++ P
  BY <1>6, <1>7, Merged
<1> QED
  BY <1>1, <1>2, <1>8

\* What the preview of a material's rule shows.
MaterialShown(c, data, room, selection) ==
    PreviewRule(Head(RulesOf(data, selection)), SampleMaterial(c, data, room, selection),
                data.coefficients)

LEMMA ShownIs ==
    ASSUME NEW rule, NEW raw, NEW cost, NEW labor, rule.quantityFormula # NoFormula,
           ~Failed(raw), ~Failed(cost), InRange(cost.n)
    PROVE  LET shown == ShownOf(rule, raw, cost, labor) IN
           /\ shown.quantity = raw.n /\ shown.amountCents = ToCents(cost.n)
           /\ rule.laborFormula = NoFormula => shown.laborCents = Missing /\ shown.error = None
           /\ rule.laborFormula # NoFormula /\ ~Failed(labor) /\ InRange(labor.n)
                 => shown.laborCents = ToCents(labor.n) /\ shown.error = None
<1> DEFINE none == rule.laborFormula = NoFormula
           q == raw.n
           a == ToCents(cost.n)
           d == ToCents(labor.n)
           shown == ShownOf(rule, raw, cost, labor)
<1>1. /\ none => shown = Shown(q, a, Missing, None)
      /\ ~none /\ Failed(labor) => shown = Shown(q, a, Missing, labor.code)
      /\ ~none /\ ~Failed(labor) /\ ~InRange(labor.n)
            => shown = Shown(q, a, Missing, "AMOUNT_OUT_OF_RANGE")
      /\ ~none /\ ~Failed(labor) /\ InRange(labor.n) => shown = Shown(q, a, d, None)
  BY DEF ShownOf
<1>2. \A x, y, z, w : LET s == Shown(x, y, z, w) IN
          s.quantity = x /\ s.amountCents = y /\ s.laborCents = z /\ s.error = w
  BY DEF Shown
<1> HIDE DEF shown, q, a, d
<1>3. shown.quantity = q /\ shown.amountCents = a
  <2>1. none \/ (~none /\ Failed(labor)) \/ (~none /\ ~Failed(labor) /\ ~InRange(labor.n))
        \/ (~none /\ ~Failed(labor) /\ InRange(labor.n))
    OBVIOUS
  <2> QED
    BY <1>1, <1>2, <2>1
<1>4. none => shown.laborCents = Missing /\ shown.error = None
  BY <1>1, <1>2
<1>5. ~none /\ ~Failed(labor) /\ InRange(labor.n) => shown.laborCents = d /\ shown.error = None
  BY <1>1, <1>2
<1> QED
  BY <1>3, <1>4, <1>5 DEF shown, q, a, d

LEMMA NoCents == ToCents(0) = 0
<1>1. Scale \in Nat \ {0}
  BY LimitsAssumption
<1>2. (Scale \div 2) \div Scale = 0
  BY <1>1
<1>3. 0 * 100 + Scale \div 2 = Scale \div 2
  BY <1>1
<1> QED
  BY <1>2, <1>3 DEF ToCents

\* The preview shows the quantity, the cost and the labor of a priced line.
ShownAsPriced(c, data, room, selection, line) ==
    LET rule == Head(RulesOf(data, selection))
        shown == MaterialShown(c, data, room, selection)
    IN  /\ shown.quantity = line.quantity
        /\ shown.amountCents = ToCents(CostOf(c, data, room, selection, rule).n)
        /\ c.scope = "PARTIAL" =>
              /\ shown.error = None
              /\ Max({shown.laborCents, 0})
                   = ToCents(LaborOf(c, data, room, selection, rule).n)

LEMMA MaterialShownIs ==
    ASSUME NEW c, NEW data, NEW room, RoomTyped(room), NEW selection,
           selection.areaShare = 0, NEW line,
           MaterialIsPriced(c, data, room, selection, line),
           Priced(Head(RulesOf(data, selection)).level),
           Counted(Head(RulesOf(data, selection)))
    PROVE  ShownAsPriced(c, data, room, selection, line)
<1> DEFINE rule == Head(RulesOf(data, selection))
           quantity == QuantityOf(c, data, room, selection, rule)
           cost == CostOf(c, data, room, selection, rule)
           labor == LaborOf(c, data, room, selection, rule)
           sample == SampleMaterial(c, data, room, selection)
           shown == MaterialShown(c, data, room, selection)
           names == SelectionVariables(c, data, room, selection)
           worked == RunWith(data, rule.laborFormula,
                             WithQuantity(c, data, room, selection, rule))
<1>1. /\ ~Failed(quantity) /\ line.quantity = quantity.n
      /\ ~Failed(cost) /\ InRange(cost.n)
      /\ ~Failed(labor) /\ InRange(labor.n)
  BY DEF MaterialIsPriced
<1>2. rule.quantityFormula # NoFormula /\ Priced(rule.level)
  BY DEF Counted
<1>3. ScopeOf(rule.level, sample) = names
  BY <1>2, ScopesAgree
<1>4. SampleComplete(rule.level, sample)
  BY <1>2 DEF SampleComplete, SampleMaterial, Has
<1>5. shown = ShownOf(rule, quantity, cost, worked)
  <2> DEFINE run(formula, with) ==
                RunNumericFormula(formula, [variables |-> with,
                                            coefficients |-> data.coefficients])
             counted == rule.quantityFormula # NoFormula
             with(raw) == IF counted THEN [quantity |-> raw] ++ names ELSE names
             priced(raw) == ShownOf(rule, raw, run(rule.costFormula, with(raw)),
                                    run(rule.laborFormula, with(raw)))
  <2>1. shown = CASE counted # Priced(rule.level) ->
                       Shown(Missing, Missing, Missing, "QUANTITY_FORMULA_MISMATCH")
                  [] counted = Priced(rule.level) /\ ~SampleComplete(rule.level, sample) ->
                       Shown(Missing, Missing, Missing, "SAMPLE_INCOMPLETE")
                  [] OTHER -> priced(run(rule.quantityFormula, names))
    <3> HIDE DEF rule, sample, names
    <3> QED
      BY <1>3 DEF PreviewRule, MaterialShown, rule, sample
  <2>2. shown = priced(run(rule.quantityFormula, names))
    <3> HIDE DEF priced, run, shown
    <3> QED
      BY <1>2, <1>4, <2>1
  <2>3. run(rule.quantityFormula, names) = quantity
    BY DEF QuantityOf, RunWith
  <2>4. with(quantity) = WithQuantity(c, data, room, selection, rule)
    BY <1>2 DEF WithQuantity
  <2>5. /\ run(rule.costFormula, with(quantity)) = cost
        /\ run(rule.laborFormula, with(quantity)) = worked
    <3> HIDE DEF with, quantity, rule
    <3> QED
      BY <2>4 DEF CostOf, RunWith
  <2> HIDE DEF run, with, quantity, cost, worked, shown, rule
  <2> QED
    BY <2>2, <2>3, <2>5
<1> HIDE DEF shown, quantity, cost
<1>6. /\ shown.quantity = quantity.n /\ shown.amountCents = ToCents(cost.n)
      /\ rule.laborFormula = NoFormula => shown.laborCents = Missing /\ shown.error = None
      /\ rule.laborFormula # NoFormula /\ ~Failed(worked) /\ InRange(worked.n)
            => shown.laborCents = ToCents(worked.n) /\ shown.error = None
  <2> HIDE DEF rule, worked
  <2> QED
    BY <1>1, <1>2, <1>5, ShownIs
<1>7. ASSUME c.scope = "PARTIAL"
      PROVE  shown.error = None /\ Max({shown.laborCents, 0}) = ToCents(labor.n)
  <2>1. CASE rule.laborFormula = NoFormula
    <3>1. labor.n = 0
      BY <2>1 DEF LaborOf, Num
    <3>2. Max({Missing, 0}) = 0
      <4>1. Missing = -1 /\ Missing \in Int
        BY DEF Missing
      <4>2. Max({Missing, 0}) \in {Missing, 0} /\ Max({Missing, 0}) >= 0
        BY <4>1, MaxOfTwo
      <4> QED
        BY <4>1, <4>2
    <3> QED
      BY <1>6, <2>1, <3>1, <3>2, NoCents
  <2>2. CASE rule.laborFormula # NoFormula
    <3>1. labor = worked
      BY <1>7, <2>2 DEF LaborOf
    <3>2. labor.n \in Int
      <4>1. labor.n \in Nat
        BY <1>1, <3>1, FormulaGives DEF RunWith
      <4> HIDE DEF labor
      <4> QED
        BY <4>1
    <3> HIDE DEF labor, worked
    <3>3. ToCents(labor.n) \in 0 .. MaxLineCents
      BY <1>1, <3>2, CentsInRange
    <3>4. shown.laborCents = ToCents(labor.n) /\ shown.error = None
      BY <1>1, <1>6, <2>2, <3>1
    <3> DEFINE d == ToCents(labor.n)
    <3> HIDE DEF d
    <3>5. d \in Nat
      BY <3>3, MaxLineCentsAssumption DEF d
    <3>6. Max({d, 0}) = d
      <4>1. d \in Int /\ 0 \in Int
        BY <3>5
      <4>2. Max({d, 0}) \in {d, 0} /\ Max({d, 0}) >= d
        BY <4>1, MaxOfTwo
      <4> QED
        BY <3>5, <4>2
    <3> QED
      BY <3>4, <3>6 DEF d
  <2> QED
    BY <2>1, <2>2
<1> QED
  BY <1>1, <1>6, <1>7 DEF ShownAsPriced, shown, quantity, cost

LEMMA TupleFacts ==
    ASSUME NEW m, NEW l, NEW p
    PROVE  /\ <<m>> \o <<>> = <<m>> /\ <<m>> \o <<l>> = <<m, l>>
           /\ Append(<<m, l>>, p) = <<m, l, p>>
           /\ <<m, l>> # <<m>> /\ <<m, l, p>> # <<m>>
<1>1. <<m>> \in Seq({m, l, p}) /\ <<l>> \in Seq({m, l, p}) /\ l \in {m, l, p}
  OBVIOUS
<1>2. <<m, l>> = Append(<<m>>, l)
  OBVIOUS
<1>6. <<m, l, p>> = Append(<<m, l>>, p)
  OBVIOUS
<1>3. <<m>> \o <<>> = <<m>>
  BY <1>1, ConcatEmptySeq
<1>4. <<m>> \o <<l>> = Append(<<m>>, l)
  BY <1>1, AppendIsConcat
<1>5. Len(<<m>>) = 1 /\ Len(<<m, l>>) = 2 /\ Len(<<m, l, p>>) = 3
  OBVIOUS
<1> QED
  BY <1>2, <1>3, <1>4, <1>5, <1>6

\* The amounts of a line's components by their kinds.
OfKind(line, kind) == {x \in ToSet(line.components) : x.kind = kind}

LEMMA AmountOfKind ==
    ASSUME NEW line, NEW kind,
           NEW k, k.amountCents \in Int,
           Among(line.components, OfKind(line, kind)) = <<k>>
    PROVE  AmountOf(line, kind) = k.amountCents
<1> DEFINE a == k.amountCents
<1>1. AmountOf(line, kind) = Total([i \in DOMAIN <<k>> |-> <<k>>[i].amountCents])
  BY DEF AmountOf, OfKind, Only, Sum, Map
<1>2. [i \in DOMAIN <<k>> |-> <<k>>[i].amountCents] = <<a>>
  OBVIOUS
<1>3. <<a>> = Append(<<>>, a) /\ <<>> \in Seq(Int) /\ a \in Int
  OBVIOUS
<1> HIDE DEF a
<1>4. Total(<<a>>) = Total(<<>>) + a
  BY <1>3, TotalAppended
<1> QED
  BY <1>1, <1>2, <1>3, <1>4, TotalOfNone DEF a

\* The amounts of a material and its labor: the preparation of the surface that is
\* appended to them is in neither.
LEMMA AmountsAre ==
    ASSUME NEW line, NEW m, NEW l, NEW p,
           m.kind = "MATERIAL", l.kind = "LABOR", p.kind = "PREP",
           m.amountCents \in Int, l.amountCents \in Int,
           line.components \in {<<m>>, <<m, l>>, <<m, l, p>>}
    PROVE  /\ AmountOf(line, "MATERIAL") = m.amountCents
           /\ line.components # <<m>> => AmountOf(line, "LABOR") = l.amountCents
<1> DEFINE S == {m, l, p}
           empty == <<>>
           one == <<m>>
           two == <<m, l>>
           three == <<m, l, p>>
           components == line.components
           K(kind) == OfKind(line, kind)
<1>1. one = Append(empty, m) /\ two = Append(one, l) /\ three = Append(two, p)
  OBVIOUS
<1>2. empty \in Seq(S) /\ one \in Seq(S) /\ two \in Seq(S)
  OBVIOUS
<1>3. m \in S /\ l \in S /\ p \in S
  OBVIOUS
<1>4. ToSet(one) = {m}
  BY SingletonIs
<1>5. components \in {one, two, three}
  OBVIOUS
<1>6. <<m>> = Append(empty, m) /\ <<l>> = Append(empty, l)
  OBVIOUS
<1> HIDE DEF S, empty, one, two, three, components
<1>7. ToSet(two) = {m, l} /\ ToSet(three) = {m, l, p}
  <2>1. ToSet(Append(one, l)) = ToSet(one) \cup {l}
    BY <1>2, <1>3, AppendFacts
  <2>2. ToSet(Append(two, p)) = ToSet(two) \cup {p}
    BY <1>2, <1>3, AppendFacts
  <2> QED
    BY <1>1, <1>4, <2>1, <2>2
<1>8. ASSUME NEW Q
      PROVE  /\ Among(one, Q) = IF m \in Q THEN Append(empty, m) ELSE empty
             /\ Among(two, Q) = IF l \in Q THEN Append(Among(one, Q), l) ELSE Among(one, Q)
             /\ Among(three, Q) = IF p \in Q THEN Append(Among(two, Q), p) ELSE Among(two, Q)
  <2>1. Among(Append(empty, m), Q) = IF m \in Q THEN Append(Among(empty, Q), m) ELSE Among(empty, Q)
    BY <1>2, <1>3, AmongAppended
  <2>2. Among(Append(one, l), Q) = IF l \in Q THEN Append(Among(one, Q), l) ELSE Among(one, Q)
    BY <1>2, <1>3, AmongAppended
  <2>3. Among(Append(two, p), Q) = IF p \in Q THEN Append(Among(two, Q), p) ELSE Among(two, Q)
    BY <1>2, <1>3, AmongAppended
  <2> QED
    BY <1>1, <2>1, <2>2, <2>3, AmongNone DEF empty
<1>9. m \in K("MATERIAL") /\ l \notin K("MATERIAL") /\ p \notin K("MATERIAL")
  BY <1>4, <1>5, <1>7 DEF OfKind, components
<1>10. components # one => m \notin K("LABOR") /\ l \in K("LABOR") /\ p \notin K("LABOR")
  BY <1>4, <1>5, <1>7 DEF OfKind, components
<1> HIDE DEF K
<1>11. Among(components, K("MATERIAL")) = <<m>>
  BY <1>5, <1>6, <1>8, <1>9
<1>12. components # one => Among(components, K("LABOR")) = <<l>>
  BY <1>5, <1>6, <1>8, <1>10
<1>13. AmountOf(line, "MATERIAL") = m.amountCents
  <2>1. Among(line.components, OfKind(line, "MATERIAL")) = <<m>>
    BY <1>11 DEF K, components
  <2> QED
    BY <2>1, AmountOfKind
<1>14. components # one => AmountOf(line, "LABOR") = l.amountCents
  <2> SUFFICES ASSUME components # one PROVE AmountOf(line, "LABOR") = l.amountCents
    OBVIOUS
  <2>1. Among(line.components, OfKind(line, "LABOR")) = <<l>>
    BY <1>12 DEF K, components
  <2> QED
    BY <2>1, AmountOfKind
<1> QED
  BY <1>13, <1>14 DEF components, one

LEMMA PricedAt ==
    ASSUME NEW c, ConfigurationTyped(c), NEW data, PricingDataTyped(data),
           NEW room \in ToSet(c.rooms), NEW i \in 1 .. Len(PickedIn(room)),
           LineAt(c, data, room, i).status = "OK"
    PROVE  LET line == LineAt(c, data, room, i)
               before == RoomLines(c, data, room)[i]
           IN  /\ before.status = "OK" /\ line.quantity = before.quantity
               /\ \/ line.components = before.components
                  \/ /\ c.scope # "FULL"
                     /\ \E p : p.kind = "PREP" /\ line.components = Append(before.components, p)
<1> DEFINE lines == RoomLines(c, data, room)
           before == lines[i]
           bare == PreparedLines(c, data, room)[i]
           line == LineAt(c, data, room, i)
           s == PickedIn(room)[i]
           init == OfMaterial(room, s, before.ruleId)
<1>1. IsSequence(room.selections)
  BY DEF ConfigurationTyped
<1>2. /\ line.status = bare.status /\ line.components = bare.components
      /\ line.quantity = bare.quantity
  <2>1. \A field \in LineFields : line[field] = bare[field]
    BY LineAtIs
  <2> HIDE DEF line, bare
  <2> QED
    BY <2>1 DEF LineFields
<1>3. bare.status = "OK"
  BY <1>2
<1>4. /\ Carries(before, init) /\ Sound(before)
      /\ DOMAIN lines = 1 .. Len(PickedIn(room)) /\ "optionId" \notin DOMAIN init
  BY <1>1, RoomLinesAre DEF OfMaterial
<1>5. CASE c.scope = "FULL"
  <2>1. bare = before
    BY <1>5 DEF PreparedLines, SurfacePrep
  <2> HIDE DEF line, bare, before
  <2> QED
    BY <1>2, <1>3, <2>1 DEF line, before
<1>6. CASE c.scope # "FULL"
  <2>1. bare = PreparedLine(c, data, room, lines, i)
    BY <1>4, <1>6 DEF PreparedLines, SurfacePrep
  <2> DEFINE on == SurfaceOf(data.categories, lines[i].categoryId)
             part == PrepComponent(data, lines, on, i, Head(SurfaceRules(data, on)),
                                   ToCents(PrepOutcome(c, data, room, on).n))
             result == PreparedLine(c, data, room, lines, i)
  <2>2. LinePrepared(c, data, room, lines, i)
    <3>1. Carries(lines[i], init) /\ Sound(lines[i]) /\ "optionId" \notin DOMAIN init
      BY <1>4
    <3> HIDE DEF init, lines
    <3> QED
      BY <3>1, PreparedLineIs
  <2>3. \/ Unprepared(data, lines[i]) /\ result = lines[i]
        \/ /\ ~Unprepared(data, lines[i])
           /\ \/ result.status = "ERROR"
              \/ /\ result.status = "OK" /\ result.quantity = lines[i].quantity
                 /\ result.components = Append(lines[i].components, part)
    BY <2>2 DEF LinePrepared
  <2>4. part.kind = "PREP"
    BY DEF PrepComponent, Component
  <2>5. ~Unprepared(data, lines[i]) => before.status = "OK"
    BY DEF Unprepared
  <2> HIDE DEF line, bare, result, part, lines
  <2>6. bare = result
    BY <2>1 DEF result
  <2> QED
    BY <1>2, <1>3, <1>6, <2>3, <2>4, <2>5, <2>6 DEF line, lines
<1> QED
  BY <1>5, <1>6

\* A priced material that covers its surface alone is what the preview shows.
LEMMA MaterialPreviewed ==
    ASSUME NEW c, ConfigurationTyped(c), NEW data, PricingDataTyped(data),
           \A r \in ToSet(data.rules) : Counted(r),
           NEW room \in ToSet(c.rooms), NEW i \in 1 .. Len(PickedIn(room)),
           LineAt(c, data, room, i).status = "OK", PickedIn(room)[i].areaShare = 0
    PROVE  LET rule == Head(RulesOf(data, PickedIn(room)[i])) IN
           /\ rule \in ToSet(data.rules) /\ LineAt(c, data, room, i).ruleId = rule.id
           /\ ShowsLine(c, LineAt(c, data, room, i),
                        MaterialShown(c, data, room, PickedIn(room)[i]))
<1> DEFINE s == PickedIn(room)[i]
           rule == Head(RulesOf(data, s))
           line == LineAt(c, data, room, i)
           before == RoomLines(c, data, room)[i]
           cost == CostOf(c, data, room, s, rule)
           labor == LaborOf(c, data, room, s, rule)
           m == Component("MATERIAL", rule, ToCents(cost.n), None)
           l == Component("LABOR", rule, ToCents(labor.n), None)
           shown == MaterialShown(c, data, room, s)
<1>1. IsSequence(room.selections) /\ RoomTyped(room)
  BY DEF ConfigurationTyped, RoomTyped
<1>2. /\ before.status = "OK" /\ line.quantity = before.quantity
      /\ \/ line.components = before.components
         \/ /\ c.scope # "FULL"
            /\ \E p : p.kind = "PREP" /\ line.components = Append(before.components, p)
  BY PricedAt
<1>3. MaterialIsPriced(c, data, room, s, before)
  BY <1>1, <1>2, RoomLinesAre
<1>4. line.productId # None /\ line.ruleId = before.ruleId
  BY LineAtIs
<1>5. /\ RulesOf(data, s) # <<>> /\ before.ruleId = rule.id
      /\ ~Failed(cost) /\ InRange(cost.n) /\ ~Failed(labor) /\ InRange(labor.n)
      /\ before.components = MaterialComponents(c, rule, cost, labor)
  BY <1>3 DEF MaterialIsPriced
<1>6. rule \in ToSet(data.rules) /\ Priced(rule.level)
  <2> HIDE DEF s
  <2> QED
    BY <1>5, RulesOfFrom
<1>7. Counted(rule)
  BY <1>6
<1>8. /\ shown.quantity = before.quantity /\ shown.amountCents = ToCents(cost.n)
      /\ c.scope = "PARTIAL" =>
            shown.error = None /\ Max({shown.laborCents, 0}) = ToCents(labor.n)
  <2>1. /\ s.areaShare = 0 /\ Priced(Head(RulesOf(data, s)).level)
        /\ Counted(Head(RulesOf(data, s)))
    BY <1>6, <1>7
  <2>2. ShownAsPriced(c, data, room, s, before)
    <3> HIDE DEF s, before
    <3> QED
      BY <1>1, <1>3, <2>1, MaterialShownIs
  <2> QED
    BY <2>2 DEF ShownAsPriced
<1>9. c.scope \in {"FULL", "PARTIAL"}
  BY DEF ConfigurationTyped
<1>10. /\ m.kind = "MATERIAL" /\ l.kind = "LABOR"
       /\ m.amountCents = ToCents(cost.n) /\ l.amountCents = ToCents(labor.n)
  BY DEF Component
<1>11. m.amountCents \in Int /\ l.amountCents \in Int
  <2>1. cost.n \in Int
    <3>1. cost.n \in Nat
      BY <1>5, FormulaGives DEF CostOf, RunWith
    <3> HIDE DEF cost
    <3> QED
      BY <3>1
  <2>2. labor.n \in Int
    <3>1. CASE c.scope = "PARTIAL" /\ rule.laborFormula # NoFormula
      <4>1. labor = RunWith(data, rule.laborFormula, WithQuantity(c, data, room, s, rule))
        BY <3>1 DEF LaborOf
      <4>2. labor.n \in Nat
        BY <1>5, <4>1, FormulaGives DEF RunWith
      <4> HIDE DEF labor
      <4> QED
        BY <4>2
    <3>2. CASE ~(c.scope = "PARTIAL" /\ rule.laborFormula # NoFormula)
      BY <3>2 DEF LaborOf, Num
    <3> QED
      BY <3>1, <3>2
  <2> HIDE DEF m, l, cost, labor
  <2> QED
    BY <1>10, <2>1, <2>2, CentsAreInt
<1>12. before.components = IF c.scope = "FULL" THEN <<m>> ELSE <<m, l>>
  <2>1. before.components = <<m>> \o IF c.scope = "FULL" THEN <<>> ELSE <<l>>
    BY <1>5 DEF MaterialComponents
  <2> HIDE DEF m, l, before
  <2> QED
    BY <2>1, TupleFacts
<1> HIDE DEF m, l, before, line
<1>13. PICK p : /\ p.kind = "PREP"
                /\ line.components \in {<<m>>, <<m, l>>, <<m, l, p>>}
                /\ c.scope = "PARTIAL" => line.components # <<m>>
  <2>1. /\ <<m, l>> # <<m>> /\ \A p : <<m, l, p>> # <<m>>
        /\ \A p : Append(<<m, l>>, p) = <<m, l, p>>
    BY TupleFacts
  <2>2. CASE line.components = before.components
    <3>1. [kind |-> "PREP"].kind = "PREP"
      OBVIOUS
    <3> QED
      BY <1>9, <1>12, <2>1, <2>2, <3>1
  <2>3. CASE /\ c.scope # "FULL"
             /\ \E p : p.kind = "PREP" /\ line.components = Append(before.components, p)
    <3>1. PICK p : p.kind = "PREP" /\ line.components = Append(before.components, p)
      BY <2>3
    <3>2. line.components = <<m, l, p>>
      BY <1>12, <2>1, <2>3, <3>1
    <3> QED
      BY <2>1, <3>1, <3>2
  <2> QED
    BY <1>2, <2>2, <2>3
<1>14. /\ AmountOf(line, "MATERIAL") = m.amountCents
       /\ c.scope = "PARTIAL" => AmountOf(line, "LABOR") = l.amountCents
  BY <1>10, <1>11, <1>13, AmountsAre
<1>15. ShowsLine(c, line, shown)
  <2> HIDE DEF shown, cost, labor
  <2> QED
    BY <1>2, <1>4, <1>8, <1>10, <1>14 DEF ShowsLine
<1> QED
  BY <1>4, <1>5, <1>6, <1>15 DEF line, before

\* An object's line is what the preview shows for the object.
LEMMA ObjectPreviewed ==
    ASSUME NEW c, NEW data, NEW section, NEW rule, rule.level = "OBJECT", Counted(rule),
           ObjectLine(c, data, section, rule).status = "OK"
    PROVE  LET line == ObjectLine(c, data, section, rule) IN
           /\ line.productId = None /\ line.ruleId = rule.id
           /\ PreviewRule(rule, [object |-> SampleObject(c, data.categories)],
                          data.coefficients)
                = Shown(Missing, line.amountCents, Missing, None)
<1> DEFINE line == ObjectLine(c, data, section, rule)
           outcome == ObjectOutcome(c, data, rule)
           sample == [object |-> SampleObject(c, data.categories)]
           variables == ObjectVariables(c, data.categories)
           run(formula) == RunNumericFormula(formula,
                              [variables |-> variables, coefficients |-> data.coefficients])
           preview == PreviewRule(rule, sample, data.coefficients)
<1>1. Carries(line, OfObject(section, rule))
  BY ObjectLineIs
<1>2. /\ ~Failed(outcome) /\ InRange(outcome.n)
      /\ line.amountCents = ToCents(outcome.n)
  BY ObjectLineIs
<1>3. line.productId = None /\ line.ruleId = rule.id
  <2> HIDE DEF line
  <2> QED
    BY <1>1 DEF Carries, OfObject, LineIdFields, Given
<1>4. rule.quantityFormula = NoFormula /\ ~Priced(rule.level)
  BY DEF Counted, Priced
<1>5. ScopeOf(rule.level, sample) = variables /\ SampleComplete(rule.level, sample)
  BY ObjectScopeIs DEF ScopeOf, SampleComplete
<1>6. preview = ShownOf(rule, run(rule.quantityFormula), outcome, run(rule.laborFormula))
  <2>1. run(rule.costFormula) = outcome
    BY DEF ObjectOutcome
  <2>2. preview = ShownOf(rule, run(rule.quantityFormula), run(rule.costFormula),
                          run(rule.laborFormula))
    <3> DEFINE counted == rule.quantityFormula # NoFormula
               with(raw) == IF counted THEN [quantity |-> raw] ++ variables ELSE variables
               ran(formula, names) ==
                  RunNumericFormula(formula, [variables |-> names,
                                              coefficients |-> data.coefficients])
               priced(raw) == ShownOf(rule, raw, ran(rule.costFormula, with(raw)),
                                      ran(rule.laborFormula, with(raw)))
    <3>1. preview = CASE counted # Priced(rule.level) ->
                           Shown(Missing, Missing, Missing, "QUANTITY_FORMULA_MISMATCH")
                      [] counted = Priced(rule.level) /\ ~SampleComplete(rule.level, sample) ->
                           Shown(Missing, Missing, Missing, "SAMPLE_INCOMPLETE")
                      [] OTHER -> priced(ran(rule.quantityFormula, variables))
      <4> HIDE DEF variables, sample
      <4> QED
        BY <1>5 DEF PreviewRule
    <3>2. preview = priced(ran(rule.quantityFormula, variables))
      <4>1. counted = Priced(rule.level)
        BY <1>4 DEF Priced
      <4> HIDE DEF counted, priced, ran, preview, variables
      <4> QED
        BY <1>5, <3>1, <4>1
    <3>3. \A raw : with(raw) = variables
      BY <1>4
    <3> HIDE DEF with, preview, variables
    <3> QED
      BY <3>2, <3>3 DEF variables
  <2> HIDE DEF run, preview, outcome
  <2> QED
    BY <2>1, <2>2
<1>7. preview = Shown(Missing, ToCents(outcome.n), Missing, None)
  <2> HIDE DEF run, preview, outcome
  <2> QED
    BY <1>2, <1>4, <1>6 DEF ShownOf
<1> QED
  BY <1>2, <1>3, <1>7

LEMMA SampleOfObject ==
    ASSUME NEW c, NEW data, NEW line, line.productId = None
    PROVE  SampleOf(c, data, line) = [object |-> SampleObject(c, data.categories)]
  BY DEF SampleOf, SampleObject

LEMMA SampleOfMaterial ==
    ASSUME NEW c, ConfigurationTyped(c), ConfigurationValid(c), NEW data,
           NEW line, NEW room \in ToSet(c.rooms), NEW selection,
           line.roomClientId = room.clientId, line.productId # None,
           line.productId = selection.productId, line.categoryId = selection.categoryId
    PROVE  SampleOf(c, data, line) = SampleMaterial(c, data, room, selection)
<1> DEFINE named == CHOOSE r \in ToSet(c.rooms) : r.clientId = line.roomClientId
           two == [productId |-> line.productId, categoryId |-> line.categoryId]
<1>1. named = room
  <2>1. named \in ToSet(c.rooms) /\ named.clientId = room.clientId
    OBVIOUS
  <2> HIDE DEF named
  <2> QED
    BY <2>1, RoomsDiffer
<1>2. SampleProduct(data, two) = SampleProduct(data, selection)
  BY DEF SampleProduct
<1>3. SampleOf(c, data, line) =
          [object |-> SampleObject(c, data.categories), room |-> named,
           product |-> SampleProduct(data, two)]
  BY DEF SampleOf, SampleObject, SampleProduct
<1> HIDE DEF named, two
<1> QED
  BY <1>1, <1>2, <1>3 DEF SampleMaterial

\* Where the lines with a rule come from.
IsRuledObject(c, data, line) ==
    \E section \in {"BASE", "OBJECT"} : \E rule \in ToSet(ObjectRules(data, section)) :
        \A field \in LineFields : line[field] = ObjectLine(c, data, section, rule)[field]

LEMMA RuledLines ==
    ASSUME NEW c, ConfigurationTyped(c), NEW data, PricingDataTyped(data),
           NEW line \in ToSet(EstimateLines(c, data)), line.ruleId # None
    PROVE  \/ line.section = "MATERIALS"
           \/ IsRuledObject(c, data, line)
<1>1. PICK bare \in ToSet(BareLines(c, data)) : line = WithKopecks(bare, data.rate)
  BY EstimateLinesAre
<1>2. \A field \in LineFields : line[field] = bare[field]
  <2>1. DOMAIN bare = LineFields
    BY BareLineIs
  <2> QED
    BY <1>1, <2>1, WithKopecksIs
<1>3. line.ruleId = bare.ruleId /\ line.section = bare.section
  BY <1>2 DEF LineFields
<1>4. ~IsPackageLine(c, data, bare)
  <2> SUFFICES ASSUME NEW item \in ToSet(data.packageItems), bare = PackageLine(c, item)
               PROVE  FALSE
    BY DEF IsPackageLine
  <2>1. item.priceCents \in Nat \cup {Missing} /\ item.unit \in Units \cup {None}
    BY DEF PricingDataTyped
  <2>2. Carries(bare, OfPackage(item))
    BY <2>1, PackageLineIs
  <2>3. bare.ruleId = None
    BY <2>2 DEF Carries, OfPackage, LineIdFields, Given
  <2> QED
    BY <1>3, <2>3
<1>5. ~IsOptionLine(c, data, bare)
  <2> SUFFICES ASSUME NEW s \in KnownOptions(c, data), bare = LineOfOption(c, data, s)
               PROVE  FALSE
    BY DEF IsOptionLine
  <2> DEFINE option == data.options[s.optionId]
  <2>1. s.quantity \in Nat /\ OptionTyped(option)
    BY DEF KnownOptions, ConfigurationTyped, PricingDataTyped, OptionTyped
  <2>2. \A key \in DOMAIN data.coefficients : data.coefficients[key] \in Int
    BY DEF PricingDataTyped
  <2>3. bare = OptionLine(c, option, s, data.coefficients)
    BY DEF LineOfOption
  <2> HIDE DEF option
  <2>4. Carries(bare, OfOption(option, s))
    BY <2>1, <2>2, <2>3, OptionLineIs
  <2>5. bare.ruleId = None
    BY <2>4 DEF Carries, OfOption, LineIdFields, Given
  <2> QED
    BY <1>3, <2>5
<1>6. CASE IsMaterialLine(c, data, bare)
  <2>1. PICK room \in ToSet(c.rooms) : \E i \in 1 .. Len(PickedIn(room)) :
            bare = PreparedLines(c, data, room)[i]
    BY <1>6 DEF IsMaterialLine
  <2>2. PICK i \in 1 .. Len(PickedIn(room)) : bare = PreparedLines(c, data, room)[i]
    BY <2>1
  <2>3. line = LineAt(c, data, room, i)
    BY <1>1, <2>2 DEF LineAt
  <2>4. line.section = "MATERIALS"
    BY <2>3, LineAtIs
  <2> QED
    BY <2>4
<1>7. CASE IsObjectLine(c, data, bare)
  BY <1>2, <1>7 DEF IsObjectLine, IsRuledObject
<1> QED
  BY <1>4, <1>5, <1>6, <1>7, OriginOfLines

\* A line with a rule is what the preview of the rule shows; one has the pricing
\* data of the estimate, other those of its pricing, but for the deleted options.
LEMMA LinePreviewed ==
    ASSUME NEW c, ConfigurationTyped(c), ConfigurationValid(c),
           NEW one, PricingDataTyped(one), NEW other,
           \A field \in {"rules", "categories", "products", "coefficients"} :
              one[field] = other[field],
           \A r \in ToSet(one.rules) : Counted(r),
           \A r, s \in ToSet(one.rules) : r.id = s.id => r = s,
           NEW line \in ToSet(EstimateLines(c, one)),
           line.status = "OK", line.ruleId # None, ~Shares(c, line),
           NEW rule, rule = CHOOSE r \in ToSet(other.rules) : r.id = line.ruleId
    PROVE  ShowsLine(c, line, PreviewRule(rule, SampleOf(c, other, line), other.coefficients))
<1>1. /\ other.rules = one.rules /\ other.categories = one.categories
      /\ other.products = one.products /\ other.coefficients = one.coefficients
  OBVIOUS
<1>2. rule = CHOOSE r \in ToSet(one.rules) : r.id = line.ruleId
  BY <1>1
<1>3. ASSUME NEW section \in {"BASE", "OBJECT"},
             NEW priced \in ToSet(ObjectRules(one, section)),
             \A field \in LineFields : line[field] = ObjectLine(c, one, section, priced)[field]
      PROVE  ShowsLine(c, line, PreviewRule(rule, SampleOf(c, other, line), other.coefficients))
  <2> DEFINE bare == ObjectLine(c, one, section, priced)
             sample == [object |-> SampleObject(c, one.categories)]
  <2>1. /\ line.status = bare.status /\ line.productId = bare.productId
        /\ line.ruleId = bare.ruleId /\ line.amountCents = bare.amountCents
    BY <1>3 DEF LineFields
  <2>2. priced \in ToSet(one.rules) /\ priced.level = "OBJECT"
    BY ObjectRulesFrom
  <2>3. /\ bare.productId = None /\ bare.ruleId = priced.id
        /\ PreviewRule(priced, sample, one.coefficients)
             = Shown(Missing, bare.amountCents, Missing, None)
    <3>1. Counted(priced) /\ bare.status = "OK"
      BY <2>1, <2>2
    <3> QED
      BY <2>2, <3>1, ObjectPreviewed
  <2> HIDE DEF bare
  <2>4. rule = priced
    BY <1>2, <2>1, <2>2, <2>3, RuleNamed
  <2>5. SampleOf(c, other, line) = sample
    BY <1>1, <2>1, <2>3, SampleOfObject
  <2> HIDE DEF sample
  <2> QED
    BY <1>1, <2>1, <2>3, <2>4, <2>5 DEF ShowsLine
<1>4. ASSUME line.section = "MATERIALS"
      PROVE  ShowsLine(c, line, PreviewRule(rule, SampleOf(c, other, line), other.coefficients))
  <2>1. PICK room \in ToSet(c.rooms) : \E i \in 1 .. Len(PickedIn(room)) :
            line = LineAt(c, one, room, i)
    BY <1>4, MaterialsAreAt
  <2>2. PICK i \in 1 .. Len(PickedIn(room)) : line = LineAt(c, one, room, i)
    BY <2>1
  <2> DEFINE s == PickedIn(room)[i]
             priced == Head(RulesOf(one, s))
  <2>3. /\ line.roomClientId = room.clientId /\ line.categoryId = s.categoryId
        /\ line.productId = s.productId /\ line.productId # None
    BY <2>2, LineAtIs
  <2>4. s \in ToSet(room.selections)
    <3>1. IsSequence(room.selections)
      BY DEF ConfigurationTyped
    <3> QED
      BY <3>1, PickedInIs
  <2>5. s.areaShare = 0
    BY <2>3, <2>4 DEF Shares
  <2>6. /\ priced \in ToSet(one.rules) /\ line.ruleId = priced.id
        /\ ShowsLine(c, line, MaterialShown(c, one, room, s))
    <3>1. LineAt(c, one, room, i).status = "OK"
      BY <2>2
    <3> QED
      BY <2>2, <2>5, <3>1, MaterialPreviewed
  <2> HIDE DEF s
  <2>7. SampleOf(c, other, line) = SampleMaterial(c, other, room, s)
    BY <2>3, SampleOfMaterial
  <2>8. SampleMaterial(c, other, room, s) = SampleMaterial(c, one, room, s)
    BY <1>1 DEF SampleMaterial, SampleProduct
  <2> HIDE DEF priced
  <2>9. rule = priced
    BY <1>2, <2>6, RuleNamed
  <2> QED
    BY <1>1, <2>6, <2>7, <2>8, <2>9 DEF MaterialShown, priced
<1>5. \/ line.section = "MATERIALS" \/ IsRuledObject(c, one, line)
  BY RuledLines
<1>6. CASE IsRuledObject(c, one, line)
  BY <1>3, <1>6 DEF IsRuledObject
<1> QED
  BY <1>4, <1>5, <1>6

LEMMA RuleIdsDiffer ==
    ASSUME NEW pricing, PricingInv(pricing)
    PROVE  \A r, s \in ToSet(DataOf(pricing).rules) :
              Counted(r) /\ (r.id = s.id => r = s)
<1> DEFINE rules == Dataset(pricing.dataset).rules
           read == ReadRules(pricing)
<1>1. pricing.dataset \in Datasets
  BY DEF PricingInv
<1>2. IsSequence(rules)
  BY <1>1, SchemasAssumption DEF PricingDataTyped
<1>3. Distinct([i \in DOMAIN rules |-> rules[i].id])
  BY <1>1, RulesAssumption DEF Map
<1>4. DOMAIN rules = 1 .. Len(rules)
  <2> HIDE DEF rules
  <2> QED
    BY <1>2, SequenceIs
<1>5. ASSUME NEW r \in ToSet(rules), NEW s \in ToSet(rules), r.id = s.id PROVE r = s
  <2> HIDE DEF rules
  <2>1. PICK i \in DOMAIN rules : r = rules[i]
    BY <1>2, <1>4, SequenceIs
  <2>2. PICK j \in DOMAIN rules : s = rules[j]
    BY <1>2, <1>4, SequenceIs
  <2>3. i = j
    BY <1>3, <1>5, <2>1, <2>2 DEF Distinct
  <2> QED
    BY <2>1, <2>2, <2>3
<1>6. \A r \in ToSet(read) :
          /\ Counted(r)
          /\ r \in ToSet(rules) \/ (r = pricing.rule /\ RuleTyped(r))
  BY ReadRulesAre
<1>7. \A r : RuleTyped(r) => \A s \in ToSet(rules) : s.id # r.id
  BY <1>1 DEF RuleTyped
<1>8. DataOf(pricing).rules = read
  BY DataIs
<1> HIDE DEF rules, read
<1> QED
  BY <1>5, <1>6, <1>7, <1>8

LEMMA InvPreviewAgrees == Inv => PreviewAgrees
<1> SUFFICES ASSUME Inv, NEW v \in DOMAIN versions,
                    NEW line \in ToSet(versions[v].estimate.lines),
                    line.status = "OK", line.ruleId # None,
                    ~Shares(versions[v].configuration, line),
                    NEW rule,
                    rule = CHOOSE r \in ToSet(DataOf(versions[v].pricing).rules) :
                              r.id = line.ruleId
             PROVE  ShowsLine(versions[v].configuration, line,
                       PreviewRule(rule,
                          SampleOf(versions[v].configuration,
                                   DataOf(versions[v].pricing), line),
                          DataOf(versions[v].pricing).coefficients))
  BY DEF PreviewAgrees
<1> DEFINE version == versions[v]
           c == version.configuration
           one == PricedWith(version)
           other == DataOf(version.pricing)
<1>1. VersionInv(version)
  BY VersionsAre
<1>2. /\ ConfigurationTyped(c) /\ ConfigurationValid(c) /\ PricingDataTyped(one)
      /\ \A field \in DataFields \ {"options"} : one[field] = other[field]
      /\ version.estimate.lines = EstimateLines(c, one)
  <2> HIDE DEF version, one
  <2> QED
    BY <1>1, VersionIs DEF one
<1>3. PricingInv(version.pricing)
  BY <1>1 DEF VersionInv
<1>4. \A r, s \in ToSet(other.rules) : Counted(r) /\ (r.id = s.id => r = s)
  <2> HIDE DEF version
  <2> QED
    BY <1>3, RuleIdsDiffer
<1>5. /\ rule = CHOOSE r \in ToSet(other.rules) : r.id = line.ruleId
      /\ ~Shares(c, line)
  OBVIOUS
<1>6. line \in ToSet(EstimateLines(c, one))
  BY <1>2
<1> HIDE DEF version, c, one, other
<1>7. \A field \in {"rules", "categories", "products", "coefficients"} :
          one[field] = other[field]
  BY <1>2 DEF DataFields
<1>8. ToSet(one.rules) = ToSet(other.rules)
  BY <1>7
<1>9. ShowsLine(c, line, PreviewRule(rule, SampleOf(c, other, line), other.coefficients))
  BY <1>2, <1>4, <1>5, <1>6, <1>7, <1>8, LinePreviewed
<1> QED
  BY <1>9 DEF version, c, other

\* The preview of a rule shows the quantity, the amount and the labor of every
\* line that the rule priced, but where materials share a surface
\* (formula/preview.ts against estimate/materials.ts and object-rules.ts).
THEOREM PreviewsAgree == Spec => []PreviewAgrees
  BY InvHolds, InvPreviewAgrees, PTL

-----------------------------------------------------------------------------
(* What an estimate evaluates its formulas with has what their check       *)
(* counted on.                                                             *)

\* Variables of these names, each of the type of its name.
IsScope(variables, names) ==
    /\ DOMAIN variables = names
    /\ \A name \in names : Outcome(TypeOfName(name), variables[name])

LEMMA ValueOutcomes ==
    /\ \A n \in Int : Outcome("number", Num(n))
    /\ \A b : Outcome("boolean", Bool(b))
    /\ \A type \in EnumTypes : \A s : Outcome(type, Str(s))
  BY DEF Outcome, Num, IsNumber, Bool, Str

LEMMA ScopeMerged ==
    ASSUME NEW f, NEW A, IsScope(f, A), NEW g, NEW B, IsScope(g, B)
    PROVE  IsScope(f ++ g, A \cup B)
<1> DEFINE h == f ++ g
<1>1. /\ DOMAIN h = A \cup B
      /\ \A x \in A : h[x] = f[x]
      /\ \A x \in B \ A : h[x] = g[x]
  BY DEF ++, IsScope
<1> HIDE DEF h
<1>2. IsScope(h, A \cup B)
  BY <1>1 DEF IsScope
<1> QED
  BY <1>2 DEF h

LEMMA MinOfTwo ==
    ASSUME NEW a \in Int, NEW b \in Int
    PROVE  Min({a, b}) \in {a, b}
<1>1. \E x \in {a, b} : \A y \in {a, b} : x <= y
  <2>1. a <= b \/ b <= a
    OBVIOUS
  <2> QED
    BY <2>1
<1> QED
  BY <1>1 DEF Min

LEMMA SharesAre ==
    ASSUME NEW selection, selection.areaShare \in 0 .. 100 PROVE AreaShareOf(selection) \in Int
<1>1. Scale \in Int /\ selection.areaShare \in Int
  BY LimitsAssumption
<1> QED
  BY <1>1, PercentIs DEF AreaShareOf

LEMMA PuttyShareIs ==
    ASSUME NEW room, IsSequence(room.selections),
           \A s \in ToSet(room.selections) : s.areaShare \in 0 .. 100,
           NEW surface, NEW categories
    PROVE  PuttyShareOn(room, surface, categories) \in Int
<1> DEFINE K == {s \in ToSet(room.selections) :
                    s.productId # None /\ SurfaceOf(categories, s.categoryId) = surface}
           shares == Among(room.selections, K)
           L == {s \in ToSet(shares) : categories[s.categoryId].requiresPutty}
           needing == Among(shares, L)
           g == [i \in DOMAIN needing |-> AreaShareOf(needing[i])]
<1>1. IsSequence(shares) /\ ToSet(shares) \subseteq ToSet(room.selections)
  <2> HIDE DEF K
  <2> QED
    BY AmongIs
<1> HIDE DEF shares
<1>2. IsSequence(needing) /\ ToSet(needing) \subseteq ToSet(room.selections)
  <2> HIDE DEF L
  <2> QED
    BY <1>1, AmongIs
<1> HIDE DEF needing
<1>3. /\ Len(needing) \in Nat /\ DOMAIN needing = 1 .. Len(needing)
      /\ \A i \in 1 .. Len(needing) : needing[i] \in ToSet(room.selections)
  BY <1>2, SequenceIs
<1>4. Total(g) \in Int
  <2>1. g = [i \in 1 .. Len(needing) |-> g[i]]
    BY <1>3
  <2>2. \A i \in 1 .. Len(needing) : g[i] \in Int
    BY <1>3, SharesAre
  <2> HIDE DEF g
  <2> QED
    BY <1>3, <2>1, <2>2, TotalOfList
<1> HIDE DEF g
<1>5. Scale \in Int
  BY LimitsAssumption
<1>6. Min({Scale, Total(g)}) \in Int
  <2>1. Min({Scale, Total(g)}) \in {Scale, Total(g)}
    BY <1>4, <1>5, MinOfTwo
  <2> QED
    BY <1>4, <1>5, <2>1
<1>7. \/ PuttyShareOn(room, surface, categories) = Min({Scale, Total(g)})
      \/ PuttyShareOn(room, surface, categories) \in {Scale, 0}
  <2>1. PuttyShareOn(room, surface, categories) =
            CASE surface = "WALLS" /\ SharedSurface(shares) -> Min({Scale, Total(g)})
              [] OTHER -> IF PuttyRequiredOn(room, surface, categories) THEN Scale ELSE 0
    BY DEF PuttyShareOn, SurfaceSelections, Only, Sum, Map, shares, needing, g
  <2> HIDE DEF K, L
  <2> QED
    BY <2>1
<1> QED
  BY <1>5, <1>6, <1>7

\* What the schema says of a room.
RoomIs(room) ==
    /\ RoomTyped(room) /\ IsSequence(room.selections)
    /\ \A s \in ToSet(room.selections) : s.areaShare \in 0 .. 100

LEMMA RoomsAre ==
    ASSUME NEW c, ConfigurationTyped(c)
    PROVE  \A room \in ToSet(c.rooms) : RoomIs(room)
  BY DEF ConfigurationTyped, RoomIs, RoomTyped

LEMMA SumOfRooms ==
    ASSUME NEW c, ConfigurationTyped(c), NEW g, g = [i \in DOMAIN c.rooms |-> g[i]],
           \A i \in DOMAIN c.rooms : c.rooms[i] \in ToSet(c.rooms) => g[i] \in Int
    PROVE  Total(g) \in Int
<1> DEFINE rooms == c.rooms
<1>1. IsSequence(rooms)
  BY DEF ConfigurationTyped
<1> HIDE DEF rooms
<1>2. /\ Len(rooms) \in Nat /\ DOMAIN rooms = 1 .. Len(rooms)
      /\ \A i \in 1 .. Len(rooms) : rooms[i] \in ToSet(rooms)
  BY <1>1, SequenceIs
<1> QED
  BY <1>2, TotalOfList DEF rooms

LEMMA RoomsCounted ==
    ASSUME NEW c, ConfigurationTyped(c), NEW codes
    PROVE  CountRooms(c.rooms, codes).n \in Int
           /\ CountRooms(c.rooms, codes) = Num(CountRooms(c.rooms, codes).n)
<1> DEFINE K == {room \in ToSet(c.rooms) : room.roomTypeCode \in codes}
           some == Among(c.rooms, K)
<1>1. IsSequence(some)
  <2>1. IsSequence(c.rooms)
    BY DEF ConfigurationTyped
  <2> HIDE DEF K
  <2> QED
    BY <2>1, AmongIs
<1>2. CountRooms(c.rooms, codes) = Num(Scale * Len(some))
  BY DEF CountRooms, Only
<1> HIDE DEF some
<1>3. Scale * Len(some) \in Int
  <2>1. Scale \in Int /\ Len(some) \in Int
    BY <1>1, SequenceIs, LimitsAssumption
  <2> QED
    BY <2>1
<1> QED
  BY <1>2, <1>3 DEF Num

LEMMA NamesTyped ==
    /\ TypeOfName("scope") = "scope" /\ TypeOfName("finishLevel") = "finishLevel"
    /\ TypeOfName("roomType") = "roomType" /\ TypeOfName("unit") = "unit"
    /\ \A name \in {"balconyTiles", "heatedFloor", "puttyRequired"} :
          TypeOfName(name) = "boolean"
    /\ \A name \in AllNames \ {"scope", "finishLevel", "roomType", "unit", "balconyTiles",
                               "heatedFloor", "puttyRequired"} : TypeOfName(name) = "number"
<1>1. DOMAIN EnumValues = {"roomType", "unit", "finishLevel", "scope"}
  BY DEF EnumValues
<1> QED
  BY <1>1 DEF TypeOfName, AllNames, RoomNames, ProductNames, ObjectNames, SurfaceNames

LEMMA ObjectVariablesFit ==
    ASSUME NEW c, ConfigurationTyped(c), NEW categories
    PROVE  IsScope(ObjectVariables(c, categories), ObjectNames)
<1> DEFINE floors == [i \in DOMAIN c.rooms |-> FloorArea(c.rooms[i])]
           walls == [i \in DOMAIN c.rooms |-> WallArea(c.rooms[i])]
           putty == [i \in DOMAIN c.rooms |-> Times(WallArea(c.rooms[i]),
                                         PuttyShareOn(c.rooms[i], "WALLS", categories))]
           sides == [i \in DOMAIN c.rooms |-> Perimeter(c.rooms[i])]
           floor == Total(floors)
           wall == Total(walls)
           smooth == Total(putty)
           side == Total(sides)
           rooms == CountRooms(c.rooms, {"LIVING_ROOM", "BEDROOM", "KITCHEN_LIVING"})
           bathrooms == CountRooms(c.rooms, {"BATHROOM"})
           wet == CountRooms(c.rooms, {"BATHROOM", "KITCHEN", "KITCHEN_LIVING"})
           area == TotalAreaOf(c.scope, c.totalArea, floor)
           variables == ObjectVariables(c, categories)
<1>1. variables =
        [scope |-> Str(c.scope), totalArea |-> Num(area),
         balconyArea |-> Num(c.balconyArea), balconyTiles |-> Bool(c.balconyTiles),
         finishLevel |-> Str(c.finishLevel), roomsCount |-> rooms,
         bathroomsCount |-> bathrooms, roomsFloorArea |-> Num(floor),
         roomsWallArea |-> Num(wall), roomsPuttyWallArea |-> Num(smooth),
         roomsPerimeter |-> Num(side), wetRoomsCount |-> wet]
  BY DEF ObjectVariables, Sum, Map
<1>2. \A room \in ToSet(c.rooms) :
          /\ FloorArea(room) \in Int /\ WallArea(room) \in Int /\ Perimeter(room) \in Int
          /\ Times(WallArea(room), PuttyShareOn(room, "WALLS", categories)) \in Int
  <2> SUFFICES ASSUME NEW room \in ToSet(c.rooms)
               PROVE  /\ FloorArea(room) \in Int /\ WallArea(room) \in Int
                      /\ Perimeter(room) \in Int
                      /\ Times(WallArea(room), PuttyShareOn(room, "WALLS", categories)) \in Int
    OBVIOUS
  <2>1. FloorArea(room) \in Int /\ WallArea(room) \in Int /\ Perimeter(room) \in Int
    BY RoomsAre, AreasAre DEF RoomIs
  <2>2. PuttyShareOn(room, "WALLS", categories) \in Int
    BY RoomsAre, PuttyShareIs DEF RoomIs
  <2> QED
    BY <2>1, <2>2, TimesIs
<1>3. floor \in Int
  <2>1. floors = [i \in DOMAIN c.rooms |-> floors[i]]
    OBVIOUS
  <2>2. \A i \in DOMAIN c.rooms : c.rooms[i] \in ToSet(c.rooms) => floors[i] \in Int
    BY <1>2
  <2> HIDE DEF floors
  <2> QED
    BY <2>1, <2>2, SumOfRooms
<1>4. wall \in Int
  <2>1. walls = [i \in DOMAIN c.rooms |-> walls[i]]
    OBVIOUS
  <2>2. \A i \in DOMAIN c.rooms : c.rooms[i] \in ToSet(c.rooms) => walls[i] \in Int
    BY <1>2
  <2> HIDE DEF walls
  <2> QED
    BY <2>1, <2>2, SumOfRooms
<1>5. smooth \in Int
  <2>1. putty = [i \in DOMAIN c.rooms |-> putty[i]]
    OBVIOUS
  <2>2. \A i \in DOMAIN c.rooms : c.rooms[i] \in ToSet(c.rooms) => putty[i] \in Int
    BY <1>2
  <2> HIDE DEF putty
  <2> QED
    BY <2>1, <2>2, SumOfRooms
<1>6. side \in Int
  <2>1. sides = [i \in DOMAIN c.rooms |-> sides[i]]
    OBVIOUS
  <2>2. \A i \in DOMAIN c.rooms : c.rooms[i] \in ToSet(c.rooms) => sides[i] \in Int
    BY <1>2
  <2> HIDE DEF sides
  <2> QED
    BY <2>1, <2>2, SumOfRooms
<1> HIDE DEF floors, walls, putty, sides, floor
<1>7. area \in Int /\ c.balconyArea \in Int
  BY <1>3 DEF TotalAreaOf, ConfigurationTyped
<1>8. /\ Outcome("number", rooms) /\ Outcome("number", bathrooms) /\ Outcome("number", wet)
  <2>1. \A codes : Outcome("number", CountRooms(c.rooms, codes))
    BY RoomsCounted, ValueOutcomes
  <2> QED
    BY <2>1
<1> HIDE DEF wall, smooth, side, area, rooms, bathrooms, wet, variables
<1>9. DOMAIN variables = ObjectNames
  BY <1>1 DEF ObjectNames
<1>10. ASSUME NEW name \in ObjectNames PROVE Outcome(TypeOfName(name), variables[name])
  <2>1. CASE name = "scope"
    BY <1>1, <2>1, NamesTyped, ValueOutcomes DEF EnumTypes
  <2>2. CASE name = "finishLevel"
    BY <1>1, <2>2, NamesTyped, ValueOutcomes DEF EnumTypes
  <2>3. CASE name = "balconyTiles"
    BY <1>1, <2>3, NamesTyped, ValueOutcomes
  <2>4. CASE name \notin {"scope", "finishLevel", "balconyTiles"}
    <3>1. TypeOfName(name) = "number"
      BY <2>4, NamesTyped DEF ObjectNames, AllNames
    <3>2. \A n \in Int : Outcome("number", Num(n))
      BY ValueOutcomes
    <3>3. Outcome("number", variables[name])
      BY <1>1, <1>3, <1>4, <1>5, <1>6, <1>7, <1>8, <2>4, <3>2 DEF ObjectNames
    <3> QED
      BY <3>1, <3>3
  <2> QED
    BY <2>1, <2>2, <2>3, <2>4
<1> QED
  BY <1>9, <1>10 DEF IsScope, variables

LEMMA RoomVariablesFit ==
    ASSUME NEW room, RoomIs(room) PROVE IsScope(RoomVariables(room), RoomNames)
<1> DEFINE variables == RoomVariables(room)
           floor == FloorArea(room)
           wall == WallArea(room)
           side == Perimeter(room)
<1>1. variables =
        [length |-> Num(room.length), width |-> Num(room.width),
         height |-> Num(room.height), floorArea |-> Num(floor),
         perimeter |-> Num(side), wallArea |-> Num(wall),
         heatedFloor |-> Bool(room.heatedFloor), roomType |-> Str(room.roomTypeCode)]
  BY DEF RoomVariables
<1>2. /\ room.length \in Int /\ room.width \in Int /\ room.height \in Int
      /\ floor \in Int /\ wall \in Int /\ side \in Int
  BY AreasAre DEF RoomIs, RoomTyped
<1> HIDE DEF variables, floor, wall, side
<1>3. DOMAIN variables = RoomNames
  BY <1>1 DEF RoomNames
<1>4. ASSUME NEW name \in RoomNames PROVE Outcome(TypeOfName(name), variables[name])
  <2>1. CASE name = "heatedFloor"
    BY <1>1, <2>1, NamesTyped, ValueOutcomes
  <2>2. CASE name = "roomType"
    BY <1>1, <2>2, NamesTyped, ValueOutcomes DEF EnumTypes
  <2>3. CASE name \notin {"heatedFloor", "roomType"}
    <3>1. TypeOfName(name) = "number"
      BY <2>3, NamesTyped DEF RoomNames, AllNames
    <3>2. \A n \in Int : Outcome("number", Num(n))
      BY ValueOutcomes
    <3>3. Outcome("number", variables[name])
      BY <1>1, <1>2, <2>3, <3>2 DEF RoomNames
    <3> QED
      BY <3>1, <3>3
  <2> QED
    BY <2>1, <2>2, <2>3
<1> QED
  BY <1>3, <1>4 DEF IsScope, variables

LEMMA ProductVariablesFit ==
    ASSUME NEW price \in Int, NEW unit, NEW waste \in Int
    PROVE  IsScope(ProductVariables(price, unit, waste), ProductNames)
<1> DEFINE variables == ProductVariables(price, unit, waste)
           dollars == Percent(price)
           share == Percent(waste)
<1>1. variables = [price |-> Num(dollars), waste |-> Num(share), unit |-> Str(unit)]
  BY DEF ProductVariables
<1>2. dollars \in Int /\ share \in Int
  BY PercentIs
<1> HIDE DEF variables, dollars, share
<1>3. DOMAIN variables = ProductNames
  BY <1>1 DEF ProductNames
<1>4. ASSUME NEW name \in ProductNames PROVE Outcome(TypeOfName(name), variables[name])
  <2>1. CASE name = "unit"
    BY <1>1, <2>1, NamesTyped, ValueOutcomes DEF EnumTypes
  <2>2. CASE name # "unit"
    <3>1. TypeOfName(name) = "number"
      BY <2>2, NamesTyped DEF ProductNames, AllNames
    <3>2. \A n \in Int : Outcome("number", Num(n))
      BY ValueOutcomes
    <3>3. Outcome("number", variables[name])
      BY <1>1, <1>2, <2>2, <3>2 DEF ProductNames
    <3> QED
      BY <3>1, <3>3
  <2> QED
    BY <2>1, <2>2
<1> QED
  BY <1>3, <1>4 DEF IsScope, variables

LEMMA SelectionVariablesFit ==
    ASSUME NEW c, ConfigurationTyped(c), NEW data, PricingDataTyped(data),
           NEW room, RoomIs(room), NEW selection \in ToSet(room.selections),
           selection.productId \in DOMAIN data.products,
           selection.categoryId \in DOMAIN data.categories
    PROVE  IsScope(SelectionVariables(c, data, room, selection),
                   RoomNames \cup ProductNames \cup ObjectNames)
<1> DEFINE category == data.categories[selection.categoryId]
           product == data.products[selection.productId]
           walls == IF category.surface = "WALLS"
                    THEN Times(WallArea(room), AreaShareOf(selection)) ELSE WallArea(room)
           floor == IF category.surface = "FLOOR"
                    THEN Times(FloorArea(room), AreaShareOf(selection)) ELSE FloorArea(room)
           W == [wallArea |-> Num(walls), floorArea |-> Num(floor)]
           R == RoomVariables(room)
           P == ProductVariables(product.priceCents, product.unit, WasteOf(product, category))
           O == ObjectVariables(c, data.categories)
<1>1. SelectionVariables(c, data, room, selection) = W ++ R ++ P ++ O
  BY DEF SelectionVariables
<1>2. walls \in Int /\ floor \in Int
  <2>1. WallArea(room) \in Int /\ FloorArea(room) \in Int /\ AreaShareOf(selection) \in Int
    BY AreasAre, SharesAre DEF RoomIs
  <2> QED
    BY <2>1, TimesIs
<1>3. product.priceCents \in Int /\ WasteOf(product, category) \in Int
  <2>1. /\ product.priceCents \in Int /\ category.wastePercent \in Int
        /\ product.wasteOverride \in Nat \cup {Missing}
    <3>1. \A id \in DOMAIN data.products :
              /\ data.products[id].priceCents \in Nat
              /\ data.products[id].wasteOverride \in Nat \cup {Missing}
      BY DEF PricingDataTyped
    <3>2. \A id \in DOMAIN data.categories : data.categories[id].wastePercent \in Nat
      BY DEF PricingDataTyped
    <3> QED
      BY <3>1, <3>2
  <2> HIDE DEF product, category
  <2> QED
    BY <2>1 DEF WasteOf
<1>4. IsScope(R, RoomNames)
  BY RoomVariablesFit
<1>5. IsScope(P, ProductNames)
  <2> HIDE DEF product, category
  <2> QED
    BY <1>3, ProductVariablesFit
<1>6. IsScope(O, ObjectNames)
  BY ObjectVariablesFit
<1>7. IsScope(W, {"wallArea", "floorArea"})
  <2>1. TypeOfName("wallArea") = "number" /\ TypeOfName("floorArea") = "number"
    BY NamesTyped DEF AllNames, RoomNames
  <2> HIDE DEF walls, floor
  <2>2. Outcome("number", Num(walls)) /\ Outcome("number", Num(floor))
    BY <1>2, ValueOutcomes
  <2> QED
    BY <2>1, <2>2 DEF IsScope
<1> HIDE DEF W, R, P, O
<1>8. IsScope(W ++ R, {"wallArea", "floorArea"} \cup RoomNames)
  BY <1>4, <1>7, ScopeMerged
<1>9. {"wallArea", "floorArea"} \cup RoomNames = RoomNames
  BY DEF RoomNames
<1>10. IsScope(W ++ R, RoomNames)
  BY <1>8, <1>9
<1>11. IsScope(W ++ R ++ P, RoomNames \cup ProductNames)
  BY <1>5, <1>10, ScopeMerged
<1>12. IsScope(W ++ R ++ P ++ O, RoomNames \cup ProductNames \cup ObjectNames)
  BY <1>6, <1>11, ScopeMerged
<1> QED
  BY <1>1, <1>12

\* The variables of the preparation of a surface.
PrepVariables(c, data, room, surface) ==
    LET area == AreaOf(room, surface)
        share == PuttyShareOn(room, surface, data.categories)
    IN  [surfaceArea |-> Num(area), puttyRequired |-> Bool(share > 0),
         puttyArea |-> Num(Times(area, share))]
        ++ RoomVariables(room) ++ ObjectVariables(c, data.categories)

LEMMA PrepVariablesFit ==
    ASSUME NEW c, ConfigurationTyped(c), NEW data, NEW room, RoomIs(room), NEW surface
    PROVE  IsScope(PrepVariables(c, data, room, surface), NamesAt("SURFACE"))
<1> DEFINE area == AreaOf(room, surface)
           share == PuttyShareOn(room, surface, data.categories)
           putty == Times(area, share)
           S == [surfaceArea |-> Num(area), puttyRequired |-> Bool(share > 0),
                 puttyArea |-> Num(putty)]
           R == RoomVariables(room)
           O == ObjectVariables(c, data.categories)
<1>1. PrepVariables(c, data, room, surface) = S ++ R ++ O
  BY DEF PrepVariables
<1>2. area \in Int /\ share \in Int
  BY AreasAre, PuttyShareIs DEF RoomIs, AreaOf
<1>3. putty \in Int
  BY <1>2, TimesIs
<1>4. IsScope(S, SurfaceNames)
  <2>1. /\ TypeOfName("surfaceArea") = "number" /\ TypeOfName("puttyArea") = "number"
        /\ TypeOfName("puttyRequired") = "boolean"
    BY NamesTyped DEF AllNames, SurfaceNames
  <2> HIDE DEF area, share, putty
  <2>2. /\ Outcome("number", Num(area)) /\ Outcome("number", Num(putty))
        /\ Outcome("boolean", Bool(share > 0))
    BY <1>2, <1>3, ValueOutcomes
  <2> QED
    BY <2>1, <2>2 DEF IsScope, SurfaceNames
<1>5. IsScope(R, RoomNames) /\ IsScope(O, ObjectNames)
  BY RoomVariablesFit, ObjectVariablesFit
<1> HIDE DEF S, R, O
<1>6. IsScope(S ++ R, SurfaceNames \cup RoomNames)
  BY <1>4, <1>5, ScopeMerged
<1>7. IsScope(S ++ R ++ O, SurfaceNames \cup RoomNames \cup ObjectNames)
  BY <1>5, <1>6, ScopeMerged
<1>8. NamesAt("SURFACE") = SurfaceNames \cup RoomNames \cup ObjectNames
  BY DEF NamesAt
<1> QED
  BY <1>1, <1>7, <1>8

-----------------------------------------------------------------------------
(* The formulas of an accepted rule in an estimate.                        *)

AcceptedWith(rule, keys) == FormulasWritten(rule) /\ CheckFormulas(rule, keys).errors = {}
CheckedAs(kind, rule, keys) == [level |-> rule.level, kind |-> kind, keys |-> keys]

\* A number, or a failure that no check of a formula can foresee.
Numeric(value) ==
    \/ IsNumber(value)
    \/ value.kind = "failure" /\ value.code \in NumberFailures \cup {"NEGATIVE"}

LEMMA NumericIs ==
    ASSUME NEW value, Numeric(value)
    PROVE  /\ Failed(value) => value.code \notin FormulaErrors
           /\ ~Failed(value) => IsNumber(value)
  BY DEF Numeric, NumberFailures, FormulaErrors, Failed, IsNumber

LEMMA AcceptedFormula ==
    ASSUME NEW rule, NEW keys, AcceptedWith(rule, keys), ~HasStrayString(rule),
           NEW kind, NEW formula, <<kind, formula>> \in FormulasOf(rule), formula # NoFormula
    PROVE  /\ formula \in Trees /\ ~StrayString[formula]
           /\ ValidateFormula(formula, CheckedAs(kind, rule, keys)).errors = {}
<1>1. formula \in Trees
  BY DEF AcceptedWith, FormulasWritten, FormulasOf
<1>2. ~StrayString[formula]
  <2>1. \A f \in FormulasOf(rule) : f[2] = NoFormula \/ ~StrayString[f[2]]
    BY DEF HasStrayString
  <2> DEFINE f == <<kind, formula>>
  <2>2. f \in FormulasOf(rule) /\ f[2] = formula
    OBVIOUS
  <2> HIDE DEF f
  <2> QED
    BY <2>1, <2>2
<1>3. ValidateFormula(formula, CheckedAs(kind, rule, keys)).errors = {}
  <2> DEFINE result(f) == ValidateFormula(f[2], [level |-> rule.level, kind |-> f[1],
                                                 keys |-> keys])
             some == {f \in FormulasOf(rule) : f[2] # NoFormula}
  <2>1. CheckFormulas(rule, keys).errors = UNION {r.errors : r \in {result(f) : f \in some}}
    BY DEF CheckFormulas
  <2> DEFINE g == <<kind, formula>>
  <2>2. g \in some /\ result(g) = ValidateFormula(formula, CheckedAs(kind, rule, keys))
    BY DEF CheckedAs
  <2> HIDE DEF result, some, g
  <2>3. result(g).errors \subseteq UNION {r.errors : r \in {result(f) : f \in some}}
    BY <2>2
  <2> QED
    BY <2>1, <2>2, <2>3 DEF AcceptedWith
<1> QED
  BY <1>1, <1>2, <1>3

\* A formula that is run with the variables of its level.
LEMMA AcceptedIsNumeric ==
    ASSUME NEW data, PricingDataTyped(data), NEW rule, AcceptedWith(rule, DOMAIN data.coefficients),
           ~HasStrayString(rule), NEW kind, NEW formula, <<kind, formula>> \in FormulasOf(rule),
           formula # NoFormula, NEW names,
           \A name \in NamesAt(rule.level) :
              name \in DOMAIN names /\ Outcome(TypeOfName(name), names[name]),
           kind # "quantity" /\ Priced(rule.level)
              => "quantity" \in DOMAIN names /\ Outcome("number", names["quantity"])
    PROVE  Numeric(RunWith(data, formula, names))
<1> DEFINE coefficients == data.coefficients
           checked == CheckedAs(kind, rule, DOMAIN coefficients)
           scope == [variables |-> names, coefficients |-> coefficients]
<1>1. /\ formula \in Trees /\ ~StrayString[formula]
      /\ ValidateFormula(formula, checked).errors = {}
  <2> DEFINE keys == DOMAIN coefficients
  <2>1. AcceptedWith(rule, keys) /\ checked = CheckedAs(kind, rule, keys)
    OBVIOUS
  <2> HIDE DEF keys
  <2> QED
    BY <2>1, AcceptedFormula
<1>2. /\ checked.level = rule.level /\ checked.kind = kind
      /\ checked.keys = DOMAIN coefficients
  BY DEF CheckedAs
<1>3. scope.variables = names /\ scope.coefficients = coefficients
  OBVIOUS
<1>4. \A key \in DOMAIN coefficients : coefficients[key] \in Int
  BY DEF PricingDataTyped
<1>5. RunWith(data, formula, names) = RunNumericFormula(formula, scope)
  BY DEF RunWith
<1> HIDE DEF coefficients, checked, scope
<1>6. ScopeFits(scope, checked)
  BY <1>2, <1>3, <1>4 DEF ScopeFits, QuantityAllowed
<1>7. LET value == RunNumericFormula(formula, scope) IN
         \/ IsNumber(value)
         \/ value.kind = "failure" /\ value.code \in NumberFailures \cup {"NEGATIVE"}
  BY <1>1, <1>6, SoundFormula
<1> QED
  BY <1>5, <1>7 DEF Numeric

\* A formula that may not name the quantity, and one that may.
LEMMA AcceptedAlone ==
    ASSUME NEW data, PricingDataTyped(data), NEW rule, AcceptedWith(rule, DOMAIN data.coefficients),
           ~HasStrayString(rule), NEW kind, NEW formula, <<kind, formula>> \in FormulasOf(rule),
           formula # NoFormula, NEW names, IsScope(names, NamesAt(rule.level)),
           kind = "quantity" \/ ~Priced(rule.level)
    PROVE  Numeric(RunWith(data, formula, names))
  BY AcceptedIsNumeric DEF IsScope

LEMMA AcceptedCounted ==
    ASSUME NEW data, PricingDataTyped(data), NEW rule, AcceptedWith(rule, DOMAIN data.coefficients),
           ~HasStrayString(rule), NEW kind, NEW formula, <<kind, formula>> \in FormulasOf(rule),
           formula # NoFormula, NEW names, IsScope(names, NamesAt(rule.level)),
           NEW quantity, IsNumber(quantity)
    PROVE  Numeric(RunWith(data, formula, [quantity |-> quantity] ++ names))
<1> DEFINE q == [quantity |-> quantity]
           all == q ++ names
<1>1. DOMAIN q = {"quantity"} /\ q["quantity"] = quantity
  OBVIOUS
<1> HIDE DEF q
<1>2. /\ DOMAIN all = {"quantity"} \cup DOMAIN names
      /\ all["quantity"] = quantity
      /\ \A name \in DOMAIN names \ {"quantity"} : all[name] = names[name]
  <2>1. /\ DOMAIN all = DOMAIN q \cup DOMAIN names
        /\ \A x \in DOMAIN q : all[x] = q[x]
        /\ \A x \in DOMAIN names \ DOMAIN q : all[x] = names[x]
    BY WithField
  <2> HIDE DEF all
  <2> QED
    BY <1>1, <2>1
<1>3. "quantity" \notin NamesAt(rule.level)
  BY QuantityIsNoName
<1>4. Outcome("number", quantity)
  BY DEF Outcome
<1> HIDE DEF all
<1>5. \A name \in NamesAt(rule.level) :
          name \in DOMAIN all /\ Outcome(TypeOfName(name), all[name])
  BY <1>2, <1>3 DEF IsScope
<1>6. "quantity" \in DOMAIN all /\ Outcome("number", all["quantity"])
  BY <1>2, <1>4
<1> QED
  BY <1>5, <1>6, AcceptedIsNumeric DEF all, q

\* Pricing data of which every rule was accepted, without a stray string.
Accepts(data) ==
    \A rule \in ToSet(data.rules) :
        /\ AcceptedWith(rule, DOMAIN data.coefficients)
        /\ ~HasStrayString(rule) /\ Counted(rule)

LEMMA FormulasAre ==
    ASSUME NEW rule
    PROVE  /\ <<"quantity", rule.quantityFormula>> \in FormulasOf(rule)
           /\ <<"cost", rule.costFormula>> \in FormulasOf(rule)
           /\ <<"labor", rule.laborFormula>> \in FormulasOf(rule)
  BY DEF FormulasOf

LEMMA CostIsWritten ==
    ASSUME NEW rule, NEW keys, AcceptedWith(rule, keys) PROVE rule.costFormula # NoFormula
<1>1. rule.costFormula \in Trees
  BY DEF AcceptedWith, FormulasWritten
<1>2. rule.costFormula.type # "None"
  BY <1>1, TreesAssumption DEF WellFormed, Unsupported
<1> QED
  BY <1>2 DEF NoFormula

-----------------------------------------------------------------------------
(* The lines of an estimate whose rules were accepted.                     *)

Harmless(line) == line.error \notin FormulaErrors

LEMMA HarmlessCodes ==
    {None, "AMOUNT_OUT_OF_RANGE", "PRODUCT_UNAVAILABLE", "RULE_NOT_FOUND",
     "PACKAGE_ITEM_PRICE_MISSING", "OPTION_SCOPE_NOT_ALLOWED", "AREA_SHARE_NOT_ALLOWED",
     "AREA_SHARE_MISSING", "AREA_SHARE_EXCEEDS_SURFACE"} \cap FormulaErrors = {}
  BY DEF None, FormulaErrors

LEMMA FailedHarmless ==
    ASSUME NEW init, IsInit(init), "amountCents" \notin DOMAIN init,
           "components" \notin DOMAIN init, NEW status, NEW error, error \notin FormulaErrors
    PROVE  Harmless(FailedLine(init, status, error))
<1>1. FailedLine(init, status, error).error = error
  BY FailedLineIs
<1> QED
  BY <1>1 DEF Harmless

LEMMA LineHarmless ==
    ASSUME NEW init, IsInit(init), "error" \notin DOMAIN init PROVE Harmless(Line(init))
<1>1. Line(init).error = None
  BY LineIs DEF Given
<1> QED
  BY <1>1, HarmlessCodes DEF Harmless

LEMMA PricedHarmless ==
    ASSUME NEW init, IsInit(init), NEW dollars,
           {"amountCents", "components", "error"} \cap DOMAIN init = {}
    PROVE  Harmless(PricedLine(init, dollars))
<1>1. CASE ~InRange(dollars)
  <2>1. PricedLine(init, dollars) = FailedLine(init, "ERROR", "AMOUNT_OUT_OF_RANGE")
    BY <1>1 DEF PricedLine
  <2> QED
    BY <2>1, FailedHarmless, HarmlessCodes
<1>2. CASE InRange(dollars)
  <2> DEFINE own == [amountCents |-> ToCents(dollars)] ++ init
  <2>1. PricedLine(init, dollars) = Line(own)
    BY <1>2 DEF PricedLine
  <2>2. DOMAIN own = {"amountCents"} \cup DOMAIN init
    BY DEF ++
  <2> HIDE DEF own
  <2>3. IsInit(own) /\ "error" \notin DOMAIN own
    BY <2>2 DEF IsInit, LineFields
  <2> QED
    BY <2>1, <2>3, LineHarmless
<1> QED
  BY <1>1, <1>2

LEMMA ObjectLineHarmless ==
    ASSUME NEW c, ConfigurationTyped(c), NEW data, PricingDataTyped(data), Accepts(data),
           NEW section, NEW rule \in ToSet(ObjectRules(data, section))
    PROVE  Harmless(ObjectLine(c, data, section, rule))
<1> DEFINE outcome == ObjectOutcome(c, data, rule)
           init == OfObject(section, rule)
           names == ObjectVariables(c, data.categories)
           formula == rule.costFormula
           line == ObjectLine(c, data, section, rule)
<1>1. rule \in ToSet(data.rules) /\ rule.level = "OBJECT"
  BY ObjectRulesFrom
<1>2. AcceptedWith(rule, DOMAIN data.coefficients) /\ ~HasStrayString(rule)
  BY <1>1 DEF Accepts
<1>3. Numeric(outcome)
  <2>1. outcome = RunWith(data, formula, names)
    BY DEF ObjectOutcome, RunWith
  <2>2. formula # NoFormula /\ <<"cost", formula>> \in FormulasOf(rule)
    BY <1>2, CostIsWritten, FormulasAre
  <2>3. NamesAt(rule.level) = ObjectNames /\ ~Priced(rule.level)
    BY <1>1 DEF NamesAt, Priced
  <2>4. IsScope(names, NamesAt(rule.level))
    BY <2>3, ObjectVariablesFit
  <2> HIDE DEF outcome, formula, names
  <2> QED
    BY <1>2, <2>1, <2>2, <2>3, <2>4, AcceptedAlone
<1>4. IsInit(init) /\ DOMAIN init = {"id", "section", "ruleId"}
  BY DEF OfObject, IsInit, LineFields
<1>5. /\ Failed(outcome) => line = FailedLine(init, "ERROR", outcome.code)
      /\ ~Failed(outcome) => line = PricedLine(init, outcome.n)
  BY DEF ObjectLine
<1> HIDE DEF outcome, init, line
<1>6. CASE Failed(outcome)
  <2>1. outcome.code \notin FormulaErrors
    BY <1>3, <1>6, NumericIs
  <2>2. Harmless(line)
    BY <1>4, <1>5, <1>6, <2>1, FailedHarmless
  <2> QED
    BY <2>2 DEF line
<1>7. CASE ~Failed(outcome)
  <2>1. Harmless(line)
    BY <1>4, <1>5, <1>7, PricedHarmless
  <2> QED
    BY <2>1 DEF line
<1> QED
  BY <1>6, <1>7

LEMMA ShareErrorHarmless ==
    \A room, selection, categories :
        AreaShareError(room, selection, categories) \notin FormulaErrors
  BY HarmlessCodes DEF AreaShareError

LEMMA MaterialLineOfHarmless ==
    ASSUME NEW c, NEW rule, NEW init, IsInit(init),
           {"amountCents", "components", "quantity", "error"} \cap DOMAIN init = {},
           NEW quantity, NEW cost, NEW labor, Numeric(quantity),
           ~Failed(quantity) => Numeric(cost) /\ Numeric(labor)
    PROVE  Harmless(MaterialLineOf(c, rule, init, quantity, cost, labor))
<1> DEFINE line == MaterialLineOf(c, rule, init, quantity, cost, labor)
           components == MaterialComponents(c, rule, cost, labor)
           own == [quantity |-> quantity.n, components |-> components,
                   amountCents |-> ComponentsTotal(components),
                   warnings |-> init.warnings \cup
                      IF c.scope = "PARTIAL" /\ rule.laborFormula = NoFormula
                      THEN {"LABOR_RATE_MISSING"} ELSE {}] ++ init
           c1 == Failed(quantity)
           c2 == ~Failed(quantity) /\ Failed(cost)
           c3 == ~Failed(quantity) /\ ~Failed(cost) /\ ~InRange(cost.n)
           c4 == ~Failed(quantity) /\ ~Failed(cost) /\ InRange(cost.n) /\ Failed(labor)
           bad == ~InRange(labor.n) \/ ComponentsTotal(components) > MaxLineCents
<1>1. line = CASE c1 -> FailedLine(init, "ERROR", quantity.code)
               [] c2 -> FailedLine(init, "ERROR", cost.code)
               [] c3 -> FailedLine(init, "ERROR", "AMOUNT_OUT_OF_RANGE")
               [] c4 -> FailedLine(init, "ERROR", labor.code)
               [] OTHER -> IF bad THEN FailedLine(init, "ERROR", "AMOUNT_OUT_OF_RANGE")
                           ELSE Line(own)
  BY DEF MaterialLineOf, MaterialComponents
<1>2. /\ c1 => quantity.code \notin FormulaErrors
      /\ c2 => cost.code \notin FormulaErrors
      /\ c4 => labor.code \notin FormulaErrors
  BY NumericIs
<1>3. IsInit(own) /\ "error" \notin DOMAIN own
  <2>1. DOMAIN own = {"quantity", "components", "amountCents", "warnings"} \cup DOMAIN init
    BY DEF ++
  <2> HIDE DEF own
  <2> QED
    BY <2>1 DEF IsInit, LineFields
<1> HIDE DEF line, own, c1, c2, c3, c4, bad
<1>4. \/ line = Line(own)
      \/ \E error : error \notin FormulaErrors /\ line = FailedLine(init, "ERROR", error)
  BY <1>1, <1>2, HarmlessCodes
<1>5. Harmless(line)
  BY <1>3, <1>4, FailedHarmless, LineHarmless
<1> QED
  BY <1>5 DEF line

LEMMA MaterialFormulas ==
    ASSUME NEW c, ConfigurationTyped(c), NEW data, PricingDataTyped(data), Accepts(data),
           NEW room \in ToSet(c.rooms), NEW selection \in ToSet(room.selections),
           selection.productId \in DOMAIN data.products,
           selection.categoryId \in DOMAIN data.categories,
           RulesOf(data, selection) # <<>>, NEW rule, rule = Head(RulesOf(data, selection))
    PROVE  LET quantity == QuantityOf(c, data, room, selection, rule) IN
           /\ Numeric(quantity)
           /\ ~Failed(quantity) => /\ Numeric(CostOf(c, data, room, selection, rule))
                                   /\ Numeric(LaborOf(c, data, room, selection, rule))
<1> DEFINE names == SelectionVariables(c, data, room, selection)
           quantity == QuantityOf(c, data, room, selection, rule)
           counted == rule.quantityFormula
           costed == rule.costFormula
           labored == rule.laborFormula
           cost == CostOf(c, data, room, selection, rule)
           labor == LaborOf(c, data, room, selection, rule)
           all == [quantity |-> quantity] ++ names
<1>1. rule \in ToSet(data.rules) /\ Priced(rule.level)
  BY RulesOfFrom
<1>2. AcceptedWith(rule, DOMAIN data.coefficients) /\ ~HasStrayString(rule) /\ Counted(rule)
  BY <1>1 DEF Accepts
<1>3. IsScope(names, NamesAt(rule.level))
  <2>1. NamesAt(rule.level) = RoomNames \cup ProductNames \cup ObjectNames
    BY <1>1 DEF NamesAt, Priced
  <2>2. RoomIs(room)
    BY RoomsAre
  <2> QED
    BY <2>1, <2>2, SelectionVariablesFit
<1>4. counted # NoFormula /\ costed # NoFormula
  BY <1>1, <1>2, CostIsWritten DEF Counted
<1>5. /\ <<"quantity", counted>> \in FormulasOf(rule) /\ <<"cost", costed>> \in FormulasOf(rule)
      /\ <<"labor", labored>> \in FormulasOf(rule)
  BY FormulasAre
<1>6. quantity = RunWith(data, counted, names)
  BY DEF QuantityOf
<1>7. cost = RunWith(data, costed, all)
  BY DEF CostOf, WithQuantity
<1>8. labor = IF c.scope = "PARTIAL" /\ labored # NoFormula
              THEN RunWith(data, labored, all) ELSE Num(0)
  BY DEF LaborOf, WithQuantity
<1> HIDE DEF names, quantity, counted, costed, labored, cost, labor
<1>9. Numeric(quantity)
  <2>1. "quantity" = "quantity" \/ ~Priced(rule.level)
    OBVIOUS
  <2> QED
    BY <1>2, <1>3, <1>4, <1>5, <1>6, AcceptedAlone
<1>10. ASSUME ~Failed(quantity) PROVE Numeric(cost) /\ Numeric(labor)
  <2>1. IsNumber(quantity)
    BY <1>9, <1>10, NumericIs
  <2>2. Numeric(cost)
    BY <1>2, <1>3, <1>4, <1>5, <1>7, <2>1, AcceptedCounted
  <2>3. labored # NoFormula => Numeric(RunWith(data, labored, all))
    BY <1>2, <1>3, <1>5, <2>1, AcceptedCounted
  <2>4. Numeric(Num(0))
    BY DEF Numeric, Num, IsNumber
  <2> HIDE DEF all
  <2> QED
    BY <1>8, <2>2, <2>3, <2>4
<1> QED
  BY <1>9, <1>10 DEF quantity, cost, labor

LEMMA MaterialLineHarmless ==
    ASSUME NEW c, ConfigurationTyped(c), NEW data, PricingDataTyped(data), Accepts(data),
           NEW room \in ToSet(c.rooms), NEW selection \in ToSet(room.selections)
    PROVE  Harmless(MaterialLine(c, data, room, selection))
<1> DEFINE id == selection.productId
           found == /\ id \in DOMAIN data.products
                    /\ data.products[id].categoryId = selection.categoryId
                    /\ selection.categoryId \in DOMAIN data.categories
                    /\ data.products[id].available
           shareError == AreaShareError(room, selection, data.categories)
           rules == RulesOf(data, selection)
           init == [id |-> <<"MATERIALS", room.clientId, selection.categoryId>>,
                    section |-> "MATERIALS", roomClientId |-> room.clientId,
                    categoryId |-> selection.categoryId, productId |-> id]
           warnings ==
               IF /\ room.heatedFloor
                  /\ data.categories[selection.categoryId].surface = "FLOOR"
                  /\ ~data.products[id].heatedFloorCompatible
               THEN {"HEATED_FLOOR_INCOMPATIBLE"} ELSE {}
           line == MaterialLine(c, data, room, selection)
           rule == Head(rules)
           init1 == [warnings |-> warnings] ++ init
           init2 == [warnings |-> warnings, ruleId |-> rule.id] ++ init
           priced == PricedMaterialLine(c, data,
                        SelectionVariables(c, data, room, selection), rule, init2)
<1>1. line = CASE shareError # None -> FailedLine(init, "ERROR", shareError)
               [] shareError = None /\ ~found ->
                     FailedLine(init, "UNAVAILABLE", "PRODUCT_UNAVAILABLE")
               [] OTHER -> IF rules = <<>>
                           THEN FailedLine(init1, "NOT_CALCULATED", "RULE_NOT_FOUND")
                           ELSE priced
  BY DEF MaterialLine, RulesOf
<1>2. \/ line = FailedLine(init, "ERROR", shareError)
      \/ line = FailedLine(init, "UNAVAILABLE", "PRODUCT_UNAVAILABLE")
      \/ line = FailedLine(init1, "NOT_CALCULATED", "RULE_NOT_FOUND")
      \/ found /\ rules # <<>> /\ line = priced
  <2> HIDE DEF line, shareError, found, rules, init, init1, priced
  <2> QED
    BY <1>1
<1>3. DOMAIN init = {"id", "section", "roomClientId", "categoryId", "productId"}
  OBVIOUS
<1> HIDE DEF warnings
<1>4. /\ DOMAIN init1 = DOMAIN init \cup {"warnings"}
      /\ DOMAIN init2 = DOMAIN init \cup {"warnings", "ruleId"}
  BY DEF ++
<1> HIDE DEF init, init1, init2
<1>5. IsInit(init) /\ IsInit(init1) /\ IsInit(init2)
  BY <1>3, <1>4 DEF IsInit, LineFields
<1>6. ASSUME NEW i, i = init \/ i = init1, NEW status, NEW error, error \notin FormulaErrors
      PROVE  Harmless(FailedLine(i, status, error))
  <2>1. IsInit(i) /\ "amountCents" \notin DOMAIN i /\ "components" \notin DOMAIN i
    BY <1>3, <1>4, <1>5, <1>6
  <2> QED
    BY <1>6, <2>1, FailedHarmless
<1>7. ASSUME found, rules # <<>> PROVE Harmless(priced)
  <2> DEFINE quantity == QuantityOf(c, data, room, selection, rule)
             cost == CostOf(c, data, room, selection, rule)
             labor == LaborOf(c, data, room, selection, rule)
  <2>1. priced = MaterialLineOf(c, rule, init2, quantity, cost, labor)
    BY DEF PricedMaterialLine, QuantityOf, CostOf, LaborOf, RunWith, WithQuantity
  <2>2. Numeric(quantity) /\ (~Failed(quantity) => Numeric(cost) /\ Numeric(labor))
    BY <1>7, MaterialFormulas
  <2>3. {"amountCents", "components", "quantity", "error"} \cap DOMAIN init2 = {}
    BY <1>3, <1>4
  <2> HIDE DEF priced, quantity, cost, labor, rule
  <2> QED
    BY <1>5, <2>1, <2>2, <2>3, MaterialLineOfHarmless
<1>8. shareError \notin FormulaErrors
  BY ShareErrorHarmless
<1> HIDE DEF line, shareError, found, rules, priced
<1>9. Harmless(line)
  BY <1>2, <1>6, <1>7, <1>8, HarmlessCodes
<1> QED
  BY <1>9 DEF line

LEMMA FailedWithHarmless ==
    ASSUME NEW line, NEW error, error \notin FormulaErrors
    PROVE  Harmless(FailedWith(line, error))
<1> DEFINE own == [id |-> line.id, section |-> line.section,
                   roomClientId |-> line.roomClientId, categoryId |-> line.categoryId,
                   productId |-> line.productId, ruleId |-> line.ruleId,
                   warnings |-> line.warnings]
<1>1. DOMAIN own = {"id", "section", "roomClientId", "categoryId", "productId",
                    "ruleId", "warnings"}
  OBVIOUS
<1>2. FailedWith(line, error) = FailedLine(own, "ERROR", error)
  BY DEF FailedWith
<1> HIDE DEF own
<1>3. IsInit(own)
  BY <1>1 DEF IsInit, LineFields
<1> QED
  BY <1>1, <1>2, <1>3, FailedHarmless

LEMMA WithComponentHarmless ==
    ASSUME NEW line, DOMAIN line = LineFields, Harmless(line), NEW component
    PROVE  Harmless(WithComponent(line, component))
<1> DEFINE components == Append(line.components, component)
           total == ComponentsTotal(components)
           new == [line EXCEPT !.components = components, !.amountCents = total]
           result == WithComponent(line, component)
<1>1. result = IF total > MaxLineCents THEN FailedWith(line, "AMOUNT_OUT_OF_RANGE") ELSE new
  BY DEF WithComponent
<1>2. new.error = line.error
  <2> HIDE DEF components, total
  <2> QED
    BY DEF LineFields
<1> HIDE DEF total, new, result
<1>3. Harmless(result)
  BY <1>1, <1>2, FailedWithHarmless, HarmlessCodes DEF Harmless
<1> QED
  BY <1>3 DEF result

LEMMA SurfaceRulesFrom ==
    ASSUME NEW data, PricingDataTyped(data), NEW surface, SurfaceRules(data, surface) # <<>>
    PROVE  /\ Head(SurfaceRules(data, surface)) \in ToSet(data.rules)
           /\ Head(SurfaceRules(data, surface)).level = "SURFACE"
<1> DEFINE k == {r \in ToSet(data.rules) : r.level = "SURFACE" /\ r.surface = surface}
           some == Among(data.rules, k)
           sorted == BySortOrder(some)
<1>1. SurfaceRules(data, surface) = sorted
  BY DEF SurfaceRules, Only
<1>2. /\ IsSequence(data.rules) /\ \A r \in ToSet(data.rules) : r.sortOrder \in Int
      /\ k \subseteq ToSet(data.rules)
      /\ \A r \in k : r.level = "SURFACE"
  BY DEF PricingDataTyped
<1> HIDE DEF k
<1>3. IsSequence(some) /\ ToSet(some) = k
  BY <1>2, OnlyIs
<1> HIDE DEF some
<1>4. ToSet(sorted) \subseteq ToSet(some)
  BY <1>2, <1>3, SortedFrom
<1>5. IsSequence(sorted)
  BY <1>3, SortedIsList
<1> HIDE DEF sorted
<1>6. Head(sorted) \in ToSet(sorted)
  BY <1>1, <1>5, HeadIs
<1> QED
  BY <1>1, <1>2, <1>3, <1>4, <1>6

LEMMA PrepHarmless ==
    ASSUME NEW c, ConfigurationTyped(c), NEW data, PricingDataTyped(data), Accepts(data),
           NEW room \in ToSet(c.rooms), NEW surface, SurfaceRules(data, surface) # <<>>,
           NEW outcome, outcome = PrepOutcome(c, data, room, surface), Failed(outcome)
    PROVE  outcome.code \notin FormulaErrors
<1> DEFINE rule == Head(SurfaceRules(data, surface))
           formula == rule.costFormula
           names == PrepVariables(c, data, room, surface)
           raw == RunWith(data, formula, names)
<1>1. outcome = Chargeable(raw)
  BY DEF PrepOutcome, RunWith, PrepVariables
<1>2. rule \in ToSet(data.rules) /\ rule.level = "SURFACE"
  BY SurfaceRulesFrom
<1>3. AcceptedWith(rule, DOMAIN data.coefficients) /\ ~HasStrayString(rule)
  BY <1>2 DEF Accepts
<1>4. formula # NoFormula /\ <<"cost", formula>> \in FormulasOf(rule)
  BY <1>3, CostIsWritten, FormulasAre
<1>5. IsScope(names, NamesAt(rule.level)) /\ ~Priced(rule.level)
  <2>1. RoomIs(room)
    BY RoomsAre
  <2> QED
    BY <1>2, <2>1, PrepVariablesFit DEF Priced
<1>6. Numeric(raw)
  <2> HIDE DEF rule, formula, names
  <2> QED
    BY <1>3, <1>4, <1>5, AcceptedAlone
<1> HIDE DEF raw
<1>7. outcome = raw \/ outcome.code = "AMOUNT_OUT_OF_RANGE"
  BY <1>1 DEF Chargeable, Failure
<1> QED
  BY <1>6, <1>7, NumericIs, HarmlessCodes

LEMMA PreparedLineHarmless ==
    ASSUME NEW c, ConfigurationTyped(c), NEW data, PricingDataTyped(data), Accepts(data),
           NEW room \in ToSet(c.rooms), NEW lines, NEW i,
           DOMAIN lines[i] = LineFields, Harmless(lines[i])
    PROVE  Harmless(PreparedLine(c, data, room, lines, i))
<1> DEFINE line == PreparedLine(c, data, room, lines, i)
           surface == SurfaceOf(data.categories, lines[i].categoryId)
           outcome == PrepOutcome(c, data, room, surface)
           rule == Head(SurfaceRules(data, surface))
           prep == PrepComponent(data, lines, surface, i, rule, ToCents(outcome.n))
<1>1. CASE Unprepared(data, lines[i])
  BY <1>1 DEF PreparedLine, Unprepared
<1>2. CASE ~Unprepared(data, lines[i])
  <2>1. line = IF Failed(outcome) THEN FailedWith(lines[i], outcome.code)
               ELSE WithComponent(lines[i], prep)
    BY <1>2 DEF PreparedLine, Unprepared
  <2>2. SurfaceRules(data, surface) # <<>>
    BY <1>2 DEF Unprepared
  <2>3. Failed(outcome) => outcome.code \notin FormulaErrors
    <3> HIDE DEF surface
    <3> QED
      BY <2>2, PrepHarmless
  <2> DEFINE before == lines[i]
  <2>4. DOMAIN before = LineFields /\ Harmless(before)
    OBVIOUS
  <2>5. line = IF Failed(outcome) THEN FailedWith(before, outcome.code)
               ELSE WithComponent(before, prep)
    BY <2>1
  <2> HIDE DEF line, outcome, prep, before
  <2>6. Harmless(line)
    BY <2>3, <2>4, <2>5, FailedWithHarmless, WithComponentHarmless
  <2> QED
    BY <2>6 DEF line
<1> QED
  BY <1>1, <1>2

LEMMA RoomsHarmless ==
    ASSUME NEW c, ConfigurationTyped(c), NEW data, PricingDataTyped(data), Accepts(data),
           NEW room \in ToSet(c.rooms), NEW i \in 1 .. Len(PickedIn(room))
    PROVE  Harmless(PreparedLines(c, data, room)[i])
<1> DEFINE lines == RoomLines(c, data, room)
           n == Len(PickedIn(room))
<1>1. IsSequence(room.selections)
  BY DEF ConfigurationTyped
<1>2. /\ DOMAIN PickedIn(room) = 1 .. n
      /\ PickedIn(room)[i] \in ToSet(room.selections)
  BY <1>1, PickedInIs
<1>3. /\ DOMAIN lines = 1 .. n
      /\ Carries(lines[i], OfMaterial(room, PickedIn(room)[i], lines[i].ruleId))
  BY <1>1, RoomLinesAre
<1>4. lines[i] = MaterialLine(c, data, room, PickedIn(room)[i])
  BY <1>2 DEF RoomLines, Map
<1>5. DOMAIN lines[i] = LineFields /\ Harmless(lines[i])
  <2>1. DOMAIN lines[i] = LineFields
    BY <1>3 DEF Carries
  <2> DEFINE picked == PickedIn(room)[i]
  <2>2. picked \in ToSet(room.selections) /\ lines[i] = MaterialLine(c, data, room, picked)
    BY <1>2, <1>4
  <2> HIDE DEF picked, lines
  <2>3. Harmless(MaterialLine(c, data, room, picked))
    BY <2>2, MaterialLineHarmless
  <2> QED
    BY <2>1, <2>2, <2>3
<1>6. \/ PreparedLines(c, data, room)[i] = lines[i]
      \/ PreparedLines(c, data, room)[i] = PreparedLine(c, data, room, lines, i)
  <2>1. PreparedLines(c, data, room) =
            IF c.scope = "FULL" THEN lines
            ELSE [j \in DOMAIN lines |-> PreparedLine(c, data, room, lines, j)]
    BY DEF PreparedLines, SurfacePrep
  <2>2. i \in DOMAIN lines
    BY <1>3
  <2> HIDE DEF lines
  <2> QED
    BY <2>1, <2>2
<1>7. Harmless(PreparedLine(c, data, room, lines, i))
  <2> HIDE DEF lines
  <2> QED
    BY <1>5, PreparedLineHarmless
<1> QED
  BY <1>5, <1>6, <1>7

LEMMA PackageLineHarmless ==
    ASSUME NEW c, NEW item PROVE Harmless(PackageLine(c, item))
<1> DEFINE init == OfPackage(item)
           quantity == UnitQuantity(item.unit, c.rooms, 1)
           one == [status |-> "INCLUDED"] ++ init
           two == [quantity |-> quantity] ++ init
           dollars == Times(Percent(item.priceCents), quantity)
           line == PackageLine(c, item)
<1>1. \/ line = Line(one)
      \/ line = FailedLine(init, "NOT_CALCULATED", "PACKAGE_ITEM_PRICE_MISSING")
      \/ line = PricedLine(two, dollars)
  <2>1. line = CASE item.includedInBase -> Line(one)
                 [] ~item.includedInBase /\ (item.priceCents = Missing \/ item.unit = None) ->
                       FailedLine(init, "NOT_CALCULATED", "PACKAGE_ITEM_PRICE_MISSING")
                 [] OTHER -> PricedLine(two, dollars)
    BY DEF PackageLine, OfPackage
  <2> HIDE DEF line, one, two, init, dollars
  <2> QED
    BY <2>1
<1>2. DOMAIN init = {"id", "section", "packageItemId"}
  BY DEF OfPackage
<1>3. /\ DOMAIN one = {"status"} \cup DOMAIN init
      /\ DOMAIN two = {"quantity"} \cup DOMAIN init
  <2> HIDE DEF quantity
  <2> QED
    BY DEF ++
<1> HIDE DEF init, one, two, line, dollars
<1>4. IsInit(init) /\ IsInit(one) /\ IsInit(two)
  BY <1>2, <1>3 DEF IsInit, LineFields
<1>5. Harmless(Line(one))
  BY <1>2, <1>3, <1>4, LineHarmless
<1>6. Harmless(FailedLine(init, "NOT_CALCULATED", "PACKAGE_ITEM_PRICE_MISSING"))
  BY <1>2, <1>4, FailedHarmless, HarmlessCodes
<1>7. Harmless(PricedLine(two, dollars))
  BY <1>2, <1>3, <1>4, PricedHarmless
<1>8. Harmless(line)
  BY <1>1, <1>5, <1>6, <1>7
<1> QED
  BY <1>8 DEF line

LEMMA OptionLineHarmless ==
    ASSUME NEW c, NEW option, NEW selection, NEW coefficients, KeysKnown(option, coefficients)
    PROVE  Harmless(OptionLine(c, option, selection, coefficients))
<1> DEFINE init == OfOption(option, selection)
           chosen == Only(c.rooms, LAMBDA room : room.clientId \in selection.rooms)
           allowed == Only(chosen, LAMBDA room : \/ option.roomTypeCodes = {}
                                                 \/ room.roomTypeCode \in option.roomTypeCodes)
           pieces == IF selection.quantity # 0 THEN selection.quantity
                     ELSE Max({1, option.minQuantity})
           quantity == UnitQuantity(option.unit, allowed, pieces)
           price == OptionDollars(option, coefficients)
           dollars == Times(Percent(ToCents(price)), quantity)
           own == [quantity |-> quantity,
                   warnings |-> IF chosen = allowed THEN {}
                                ELSE {"OPTION_ROOM_TYPE_NOT_ALLOWED"}] ++ init
           line == OptionLine(c, option, selection, coefficients)
           here == c.scope \in option.scopes
           known == KeysKnown(option, coefficients)
<1>1. line = CASE ~here -> FailedLine(init, "UNAVAILABLE", "OPTION_SCOPE_NOT_ALLOWED")
               [] here /\ ~option.available ->
                     FailedLine(init, "UNAVAILABLE", "PRODUCT_UNAVAILABLE")
               [] here /\ option.available /\ ~known ->
                     FailedLine(init, "ERROR", "UNKNOWN_COEFFICIENT")
               [] OTHER -> IF ~InRange(price)
                           THEN FailedLine(init, "ERROR", "AMOUNT_OUT_OF_RANGE")
                           ELSE PricedLine(own, dollars)
  BY DEF OptionLine, OfOption
<1>2. known
  OBVIOUS
<1>3. DOMAIN init = {"id", "section", "optionId"}
  BY DEF OfOption
<1>4. DOMAIN own = {"quantity", "warnings"} \cup DOMAIN init
  <2> HIDE DEF quantity, chosen, allowed
  <2> QED
    BY DEF ++
<1> HIDE DEF line, init, own, dollars, price, here, known
<1>5. \/ line = FailedLine(init, "UNAVAILABLE", "OPTION_SCOPE_NOT_ALLOWED")
      \/ line = FailedLine(init, "UNAVAILABLE", "PRODUCT_UNAVAILABLE")
      \/ line = FailedLine(init, "ERROR", "AMOUNT_OUT_OF_RANGE")
      \/ line = PricedLine(own, dollars)
  <2> DEFINE free == option.available
             far == ~InRange(price)
  <2>1. line = CASE ~here -> FailedLine(init, "UNAVAILABLE", "OPTION_SCOPE_NOT_ALLOWED")
                 [] here /\ ~free -> FailedLine(init, "UNAVAILABLE", "PRODUCT_UNAVAILABLE")
                 [] here /\ free /\ ~known -> FailedLine(init, "ERROR", "UNKNOWN_COEFFICIENT")
                 [] OTHER -> IF far THEN FailedLine(init, "ERROR", "AMOUNT_OUT_OF_RANGE")
                             ELSE PricedLine(own, dollars)
    BY <1>1
  <2> HIDE DEF free, far
  <2> QED
    BY <1>2, <2>1
<1>6. IsInit(init) /\ IsInit(own)
  BY <1>3, <1>4 DEF IsInit, LineFields
<1>7. ASSUME NEW status, NEW error, error \notin FormulaErrors
      PROVE  Harmless(FailedLine(init, status, error))
  BY <1>3, <1>6, <1>7, FailedHarmless
<1>8. Harmless(PricedLine(own, dollars))
  BY <1>3, <1>4, <1>6, PricedHarmless
<1>9. Harmless(line)
  BY <1>5, <1>7, <1>8, HarmlessCodes
<1> QED
  BY <1>9 DEF line

LEMMA EstimateHarmless ==
    ASSUME NEW c, ConfigurationTyped(c), NEW data, PricingDataTyped(data), Accepts(data),
           \A id \in DOMAIN data.options : KeysKnown(data.options[id], data.coefficients)
    PROVE  \A line \in ToSet(EstimateLines(c, data)) : Harmless(line)
<1> SUFFICES ASSUME NEW line \in ToSet(EstimateLines(c, data)) PROVE Harmless(line)
  OBVIOUS
<1>1. PICK bare \in ToSet(BareLines(c, data)) : line = WithKopecks(bare, data.rate)
  BY EstimateLinesAre
<1>2. DOMAIN bare = LineFields
  BY BareLineIs
<1>3. line.error = bare.error
  BY <1>1, <1>2, WithKopecksIs DEF LineFields
<1>4. ASSUME IsObjectLine(c, data, bare) PROVE Harmless(bare)
  BY <1>4, ObjectLineHarmless DEF IsObjectLine
<1>5. ASSUME IsMaterialLine(c, data, bare) PROVE Harmless(bare)
  BY <1>5, RoomsHarmless DEF IsMaterialLine
<1>6. ASSUME IsPackageLine(c, data, bare) PROVE Harmless(bare)
  BY <1>6, PackageLineHarmless DEF IsPackageLine
<1>7. ASSUME IsOptionLine(c, data, bare) PROVE Harmless(bare)
  <2>1. PICK s \in KnownOptions(c, data) : bare = LineOfOption(c, data, s)
    BY <1>7 DEF IsOptionLine
  <2>2. s.optionId \in DOMAIN data.options
    BY <2>1 DEF KnownOptions
  <2> DEFINE option == data.options[s.optionId]
             coefficients == data.coefficients
  <2>3. KeysKnown(option, coefficients)
    BY <2>2
  <2>4. bare = OptionLine(c, option, s, coefficients)
    BY <2>1 DEF LineOfOption
  <2> HIDE DEF option, coefficients
  <2> QED
    BY <2>3, <2>4, OptionLineHarmless
<1>8. Harmless(bare)
  BY <1>4, <1>5, <1>6, <1>7, OriginOfLines
<1> QED
  BY <1>3, <1>8 DEF Harmless

-----------------------------------------------------------------------------
(* Rules stay accepted: what they need is not deleted.                     *)

LEMMA FormulaKept ==
    ASSUME NEW formula \in Trees, NEW r, NEW s, r.level = s.level, r.kind = s.kind,
           ValidateFormula(formula, r).errors = {},
           ValidateFormula(formula, r).coefficientKeys \subseteq s.keys
    PROVE  ValidateFormula(formula, s).errors = {}
<1> DEFINE found == Infer(formula, r)
<1>1. ParseError(formula) = "none"
  <2> SUFFICES ASSUME ParseError(formula) # "none" PROVE FALSE
    OBVIOUS
  <2>1. ValidateFormula(formula, r).errors = {ParseError(formula)}
    BY DEF ValidateFormula
  <2> QED
    BY <2>1
<1>2. \A q : /\ ValidateFormula(formula, q).coefficientKeys = Keys(Infer(formula, q))
             /\ ValidateFormula(formula, q).errors
                   = Errors(Infer(formula, q))
                     \cup IF Infer(formula, q).type \in {"unknown", "number"} THEN {}
                          ELSE {"TYPE_MISMATCH"}
  BY <1>1 DEF ValidateFormula
<1>3. Errors(found) = {} /\ Keys(found) \subseteq s.keys
  <2>1. /\ ValidateFormula(formula, r).coefficientKeys = Keys(found)
        /\ Errors(found) \subseteq ValidateFormula(formula, r).errors
    BY <1>2
  <2> HIDE DEF found
  <2> QED
    BY <2>1
<1>4. Infer(formula, s) = found
  <2>1. found = InferOf(r)[formula] /\ Infer(formula, s) = InferOf(s)[formula]
    BY InferredIs
  <2> HIDE DEF found
  <2>2. Fits(found.notes, s.keys)
    BY <1>3, FitsWhole
  <2>3. Fits(InferOf(r)[formula].notes, s.keys)
    BY <2>1, <2>2
  <2> QED
    BY <2>1, <2>3, SameInferred
<1>5. ValidateFormula(formula, s).errors = ValidateFormula(formula, r).errors
  BY <1>2, <1>4
<1> QED
  BY <1>5

LEMMA StaysAccepted ==
    ASSUME NEW rule, NEW keys, AcceptedWith(rule, keys), NEW others,
           CheckFormulas(rule, keys).coefficientKeys \subseteq others
    PROVE  AcceptedWith(rule, others)
<1> DEFINE some == {f \in FormulasOf(rule) : f[2] # NoFormula}
           result(f, k) == ValidateFormula(f[2], CheckedAs(f[1], rule, k))
<1>1. \A k : /\ CheckFormulas(rule, k).errors = UNION {r.errors : r \in {result(f, k) : f \in some}}
             /\ CheckFormulas(rule, k).coefficientKeys =
                   UNION {r.coefficientKeys : r \in {result(f, k) : f \in some}}
  BY DEF CheckFormulas, CheckedAs
<1>2. \A f \in some : f[2] \in Trees
  BY DEF AcceptedWith, FormulasWritten, FormulasOf
<1>3. ASSUME NEW f \in some
      PROVE  result(f, others).errors = {}
  <2> DEFINE R(k) == {result(g, k) : g \in some}
  <2>1. result(f, keys) \in R(keys)
    OBVIOUS
  <2>2. /\ UNION {r.errors : r \in R(keys)} = {}
        /\ UNION {r.coefficientKeys : r \in R(keys)} \subseteq others
    BY <1>1 DEF AcceptedWith
  <2>3. /\ result(f, keys).errors = {}
        /\ result(f, keys).coefficientKeys \subseteq others
    <3> HIDE DEF R, result, some
    <3> QED
      BY <2>1, <2>2
  <2> DEFINE a == CheckedAs(f[1], rule, keys)
             b == CheckedAs(f[1], rule, others)
             formula == f[2]
  <2>4. a.level = b.level /\ a.kind = b.kind /\ b.keys = others
    BY DEF CheckedAs
  <2>5. /\ formula \in Trees /\ ValidateFormula(formula, a).errors = {}
        /\ ValidateFormula(formula, a).coefficientKeys \subseteq b.keys
    BY <1>2, <2>3, <2>4
  <2> HIDE DEF a, b, formula
  <2>6. ValidateFormula(formula, b).errors = {}
    BY <2>4, <2>5, FormulaKept
  <2> QED
    BY <2>6 DEF a, b, formula
<1>4. CheckFormulas(rule, others).errors = {}
  <2> HIDE DEF result, some
  <2>1. \A r \in {result(f, others) : f \in some} : r.errors = {}
    BY <1>3
  <2> QED
    BY <1>1, <2>1
<1> QED
  BY <1>4 DEF AcceptedWith

\* The saved rule of a pricing was accepted with the coefficients beside it.
RuleAccepted(pricing) ==
    pricing.rule # NoRule =>
        /\ FormulaFields \subseteq DOMAIN pricing.rule
        /\ AcceptedWith(pricing.rule, DOMAIN Dataset(pricing.dataset).coefficients)

AcceptedInv ==
    /\ RuleAccepted(catalog) /\ RuleAccepted(cached)
    /\ \A v \in DOMAIN versions : RuleAccepted(versions[v].pricing)

LEMMA AcceptedInit == Init => AcceptedInv
<1> SUFFICES ASSUME Init PROVE AcceptedInv
  OBVIOUS
<1>1. catalog.rule = NoRule /\ cached = catalog /\ versions = <<>>
  BY DEF Init
<1> QED
  BY <1>1 DEF AcceptedInv, RuleAccepted

LEMMA VersionAccepted ==
    ASSUME AcceptedInv, Inv, NEW version, version.pricing = cached,
           versions' = Append(versions, version), UNCHANGED <<catalog, cached>>
    PROVE  AcceptedInv'
<1> DEFINE more == Append(versions, version)
<1>1. IsSequence(versions)
  BY DEF Inv, VersionsInv
<1>2. /\ IsSequence(more) /\ Len(more) = Len(versions) + 1
      /\ more[Len(versions) + 1] = version
      /\ \A i \in 1 .. Len(versions) : more[i] = versions[i]
  BY <1>1, AppendIs
<1>3. Len(versions) \in Nat /\ DOMAIN versions = 1 .. Len(versions)
  BY <1>1, SequenceIs
<1>4. versions' = more
  OBVIOUS
<1> HIDE DEF more
<1>5. DOMAIN more = 1 .. Len(versions) + 1
  BY <1>2, SequenceIs
<1>6. \A v \in DOMAIN more : RuleAccepted(more[v].pricing)
  BY <1>2, <1>3, <1>5 DEF AcceptedInv
<1> QED
  BY <1>4, <1>6 DEF AcceptedInv

LEMMA PatchWritten ==
    ASSUME NEW rule, FormulaFields \subseteq DOMAIN rule, FormulasWritten(rule),
           NEW patch \in Patches
    PROVE  /\ FormulaFields \subseteq DOMAIN PatchOf(rule, patch)
           /\ FormulasWritten(PatchOf(rule, patch))
<1> DEFINE new == PatchOf(rule, patch)
<1>1. DOMAIN new = DOMAIN rule
  BY DEF PatchOf
<1>2. \A field \in FormulaFields :
          new[field] = IF field \in DOMAIN patch THEN patch[field] ELSE rule[field]
  BY DEF PatchOf
<1>3. \A field \in FormulaFields \cap DOMAIN patch :
          patch[field] \in Trees \cup IF field = "costFormula" THEN {} ELSE {NoFormula}
  BY RulesAssumption
<1> HIDE DEF new
<1>4. /\ new.costFormula \in Trees
      /\ new.quantityFormula \in Trees \cup {NoFormula}
      /\ new.laborFormula \in Trees \cup {NoFormula}
  BY <1>2, <1>3 DEF FormulaFields, FormulasWritten
<1> QED
  BY <1>1, <1>4 DEF FormulasWritten, new

LEMMA AcceptedStep == AcceptedInv /\ Inv /\ [Next]_vars => AcceptedInv'
<1> SUFFICES ASSUME AcceptedInv, Inv, [Next]_vars PROVE AcceptedInv'
  OBVIOUS
<1>1. ASSUME NEW c \in Configurations, Save(c) PROVE AcceptedInv'
  <2> DEFINE version == Snapshot(c, EstimateOf(c, Current), {}, 0)
  <2>1. versions = <<>> /\ versions' = <<version>> /\ UNCHANGED <<catalog, cached>>
    BY <1>1 DEF Save
  <2>2. version.pricing = cached
    BY DEF Snapshot
  <2> HIDE DEF version
  <2>3. versions' = Append(versions, version)
    BY <2>1
  <2> QED
    BY <2>1, <2>2, <2>3, VersionAccepted
<1>2. ASSUME NEW v \in DOMAIN versions, Recalculate(v) PROVE AcceptedInv'
  <2> DEFINE estimate == Recalculated(versions[v].configuration, Current,
                                      versions[v].estimate.lines)
             version == Snapshot(versions[v].configuration, estimate, versions[v].names, v)
  <2>1. versions' = Append(versions, version) /\ UNCHANGED <<catalog, cached>>
    BY <1>2 DEF Recalculate
  <2>2. version.pricing = cached
    BY DEF Snapshot
  <2> HIDE DEF version
  <2> QED
    BY <2>1, <2>2, VersionAccepted
<1>3. ASSUME UNCHANGED <<catalog, cached, versions>> PROVE AcceptedInv'
  BY <1>3 DEF AcceptedInv, RuleAccepted
<1>4. ASSUME RuleAccepted(catalog'), UNCHANGED <<cached, versions>> PROVE AcceptedInv'
  BY <1>4 DEF AcceptedInv, RuleAccepted
<1>5. ASSUME NEW name \in Datasets, ChangeDataset(name) PROVE AcceptedInv'
  <2> DEFINE keys == DOMAIN Dataset(catalog.dataset).coefficients
             others == DOMAIN Dataset(name).coefficients
             rule == catalog.rule
  <2>1. /\ catalog' = [dataset |-> name, rule |-> rule] /\ UNCHANGED <<cached, versions>>
        /\ RuleKeys(rule) \subseteq others
    BY <1>5 DEF ChangeDataset, Inv, PricesInv
  <2>2. ASSUME rule # NoRule
        PROVE  FormulaFields \subseteq DOMAIN rule /\ AcceptedWith(rule, others)
    <3>1. FormulaFields \subseteq DOMAIN rule /\ AcceptedWith(rule, keys)
      BY <2>2 DEF AcceptedInv, RuleAccepted
    <3>2. CheckFormulas(rule, keys).coefficientKeys \subseteq others
      BY <2>1, <2>2 DEF RuleKeys
    <3> HIDE DEF keys, others, rule
    <3> QED
      BY <3>1, <3>2, StaysAccepted
  <2>3. catalog'.dataset = name /\ catalog'.rule = rule
    BY <2>1
  <2>4. RuleAccepted(catalog')
    BY <2>2, <2>3 DEF RuleAccepted
  <2> QED
    BY <1>4, <2>1, <2>4
<1>6. ASSUME NEW rule, FormulaFields \subseteq DOMAIN rule, FormulasWritten(rule),
             FormulasValid(rule), catalog' = [catalog EXCEPT !.rule = rule],
             UNCHANGED <<cached, versions>>
      PROVE  AcceptedInv'
  <2>1. catalog'.dataset = catalog.dataset /\ catalog'.rule = rule
    BY <1>6 DEF Inv, PricesInv
  <2>2. AcceptedWith(rule, DOMAIN Dataset(catalog.dataset).coefficients)
    BY <1>6 DEF FormulasValid, AcceptedWith
  <2>3. RuleAccepted(catalog')
    BY <1>6, <2>1, <2>2 DEF RuleAccepted
  <2> QED
    BY <1>4, <1>6, <2>3
<1>7. ASSUME NEW input \in RuleInputs, CreateRule(input) PROVE AcceptedInv'
  <2>1. FormulaFields \subseteq DOMAIN input /\ FormulasWritten(input)
    BY RulesAssumption
  <2>2. /\ FormulasValid(input) /\ catalog' = [catalog EXCEPT !.rule = input]
        /\ UNCHANGED <<cached, versions>>
    BY <1>7 DEF CreateRule
  <2> QED
    BY <1>6, <2>1, <2>2
<1>8. ASSUME NEW patch \in Patches, PatchRule(patch) PROVE AcceptedInv'
  <2> DEFINE rule == PatchOf(catalog.rule, patch)
  <2>1. /\ catalog.rule # NoRule /\ FormulasValid(rule)
        /\ catalog' = [catalog EXCEPT !.rule = rule] /\ UNCHANGED <<cached, versions>>
    BY <1>8 DEF PatchRule
  <2>2. FormulaFields \subseteq DOMAIN catalog.rule /\ FormulasWritten(catalog.rule)
    BY <2>1 DEF AcceptedInv, RuleAccepted, AcceptedWith
  <2>3. FormulaFields \subseteq DOMAIN rule /\ FormulasWritten(rule)
    BY <2>2, PatchWritten
  <2> HIDE DEF rule
  <2> QED
    BY <1>6, <2>1, <2>3
<1>9. ASSUME Refresh PROVE AcceptedInv'
  <2>1. cached' = catalog /\ UNCHANGED <<catalog, versions>>
    BY <1>9 DEF Refresh
  <2> QED
    BY <2>1 DEF AcceptedInv, RuleAccepted
<1>10. (AnswerStatus \/ StatusUnavailable \/ UNCHANGED vars
           \/ \E v \in DOMAIN versions : AskStatus(v))
       => UNCHANGED <<catalog, cached, versions>>
  BY DEF AnswerStatus, StatusUnavailable, vars, AskStatus
<1> QED
  BY <1>1, <1>2, <1>3, <1>5, <1>7, <1>8, <1>9, <1>10 DEF Next

\* The data of a version's pricing: accepted, unless a rule has a stray string.
LEMMA VersionAccepts ==
    ASSUME NEW version, VersionInv(version), RuleAccepted(version.pricing),
           \A rule \in ToSet(DataOf(version.pricing).rules) : ~HasStrayString(rule),
           NEW data, data = PricedWith(version)
    PROVE  /\ Accepts(data)
           /\ \A id \in DOMAIN data.options : KeysKnown(data.options[id], data.coefficients)
<1> DEFINE p == version.pricing
           c == version.configuration
           retired == RetiredOptionsOf(version.estimate.lines)
           all == DataOf(p)
           coefficients == data.coefficients
<1>1. PricingInv(p) /\ KindsTyped(retired)
  BY DEF VersionInv
<1>2. /\ all.rules = ReadRules(p) /\ PricingDataTyped(all)
      /\ all.options = Dataset(p.dataset).options
      /\ all.coefficients = Dataset(p.dataset).coefficients
  <2> HIDE DEF p
  <2>1. /\ DataOf(p).rules = ReadRules(p) /\ PricingDataTyped(DataOf(p))
        /\ \A field \in DataFields \ {"rules"} : DataOf(p)[field] = Dataset(p.dataset)[field]
    BY <1>1, DataIs
  <2> QED
    BY <2>1 DEF DataFields
<1>3. /\ data.rules = all.rules /\ data.coefficients = all.coefficients
      /\ data.options = WithPlaces(c, all, retired)
  <2>1. data = WithRetiredOptions(c, all, retired)
    BY DEF PricedWith
  <2> HIDE DEF all, retired, c
  <2>2. /\ \A field \in DataFields \ {"options"} : data[field] = all[field]
        /\ data.options = WithPlaces(c, all, retired)
    BY <1>1, <1>2, <2>1, RetiredIs
  <2> QED
    BY <2>2 DEF DataFields
<1>4. /\ \A rule \in ToSet(Dataset(p.dataset).rules) : AcceptedWith(rule, DOMAIN coefficients)
      /\ \A id \in DOMAIN all.options : KeysKnown(all.options[id], coefficients)
  <2>1. p.dataset \in Datasets
    BY <1>1 DEF PricingInv
  <2>2. /\ \A rule \in ToSet(Dataset(p.dataset).rules) :
              AcceptedWith(rule, DOMAIN Dataset(p.dataset).coefficients)
        /\ \A id \in DOMAIN Dataset(p.dataset).options :
              KeysKnown(Dataset(p.dataset).options[id], Dataset(p.dataset).coefficients)
    BY <2>1, AcceptanceAssumption DEF AcceptedWith
  <2> HIDE DEF all, p
  <2> QED
    BY <1>2, <1>3, <2>2
<1>5. ASSUME NEW rule \in ToSet(data.rules)
      PROVE  /\ AcceptedWith(rule, DOMAIN coefficients)
             /\ ~HasStrayString(rule) /\ Counted(rule)
  <2>1. rule \in ToSet(ReadRules(p)) /\ ~HasStrayString(rule)
    BY <1>2, <1>3
  <2>2. /\ Counted(rule)
        /\ rule \in ToSet(Dataset(p.dataset).rules) \/ (rule = p.rule /\ RuleTyped(rule))
    <3> HIDE DEF p
    <3> QED
      BY <1>1, <2>1, ReadRulesAre
  <2>3. rule = p.rule /\ RuleTyped(rule) => AcceptedWith(rule, DOMAIN coefficients)
    <3> SUFFICES ASSUME rule = p.rule, RuleTyped(rule)
                 PROVE  AcceptedWith(rule, DOMAIN coefficients)
      OBVIOUS
    <3>1. p.rule # NoRule
      <4>1. "id" \in DOMAIN rule /\ "id" \notin DOMAIN NoRule
        BY DEF RuleTyped, NoRule
      <4> QED
        BY <4>1
    <3>2. AcceptedWith(p.rule, DOMAIN Dataset(p.dataset).coefficients)
      BY <3>1 DEF RuleAccepted
    <3>3. coefficients = Dataset(p.dataset).coefficients
      BY <1>2, <1>3
    <3> HIDE DEF coefficients, p
    <3> QED
      BY <3>2, <3>3
  <2> QED
    BY <1>4, <2>1, <2>2, <2>3
<1>6. ASSUME NEW id \in DOMAIN data.options
      PROVE  KeysKnown(data.options[id], coefficients)
  <2>1. CASE id \in DOMAIN all.options
    <3>1. data.options[id] = all.options[id]
      <4> HIDE DEF all, retired, c
      <4> QED
        BY <1>3, <2>1 DEF WithPlaces
    <3> QED
      BY <1>4, <2>1, <3>1
  <2>2. CASE id \notin DOMAIN all.options
    <3>1. \E kind : data.options[id] = Placeholder(kind)
      <4> HIDE DEF all, retired, c
      <4> QED
        BY <1>3, <2>2 DEF WithPlaces
    <3>2. data.options[id].keys = <<>>
      BY <3>1 DEF Placeholder
    <3> QED
      BY <3>2, EmptyIs DEF KeysKnown
  <2> QED
    BY <2>1, <2>2
<1> QED
  BY <1>5, <1>6 DEF Accepts

LEMMA InvAcceptedRulesEvaluate == Inv /\ AcceptedInv => AcceptedRulesEvaluate
<1> SUFFICES ASSUME Inv, AcceptedInv, NEW v \in DOMAIN versions,
                    \A rule \in ToSet(DataOf(versions[v].pricing).rules) :
                       ~HasStrayString(rule),
                    NEW line \in ToSet(versions[v].estimate.lines)
             PROVE  line.error \notin FormulaErrors
  BY DEF AcceptedRulesEvaluate
<1> DEFINE version == versions[v]
           c == version.configuration
           data == PricedWith(version)
<1>1. VersionInv(version) /\ RuleAccepted(version.pricing)
  BY VersionsAre DEF AcceptedInv
<1>2. \A rule \in ToSet(DataOf(version.pricing).rules) : ~HasStrayString(rule)
  OBVIOUS
<1>3. line \in ToSet(version.estimate.lines)
  OBVIOUS
<1> HIDE DEF version
<1>4. /\ ConfigurationTyped(c) /\ PricingDataTyped(data)
      /\ version.estimate.lines = EstimateLines(c, data)
  BY <1>1, VersionIs
<1>5. /\ Accepts(data)
      /\ \A id \in DOMAIN data.options : KeysKnown(data.options[id], data.coefficients)
  <2> HIDE DEF c
  <2> QED
    BY <1>1, <1>2, VersionAccepts
<1> HIDE DEF c, data
<1>6. \A l \in ToSet(EstimateLines(c, data)) : Harmless(l)
  BY <1>4, <1>5, EstimateHarmless
<1> QED
  BY <1>3, <1>4, <1>6 DEF Harmless

\* A rule that was accepted only fails in an estimate for its numbers, whatever
\* was changed since, unless it or another rule has a stray string: the check of
\* its formulas (formula/validate.ts) is sound for their evaluation
\* (formula/evaluate.ts) with the variables that every estimate supplies.
THEOREM AcceptedRulesAreSound == Spec => []AcceptedRulesEvaluate
<1>1. AcceptedInv /\ Inv /\ [Next]_vars => AcceptedInv'
  BY AcceptedStep
<1>2. Inv /\ AcceptedInv => AcceptedRulesEvaluate
  BY InvAcceptedRulesEvaluate
<1> QED
  BY <1>1, <1>2, AcceptedInit, InvHolds, PTL DEF Spec
=============================================================================
