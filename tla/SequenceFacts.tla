--------------------------- MODULE SequenceFacts ---------------------------
(***************************************************************************)
(* Lemmas about the sequences that stand for the arrays of the code: what  *)
(* push, shift and splice make of their elements, and where the parts of a *)
(* text are that is put together of many.                                  *)
(***************************************************************************)
EXTENDS Integers, Sequences, SequencesExt, SequenceTheorems, WellFoundedInduction, TLAPS

\* The set of the elements of a sequence, when one is added or removed.
LEMMA AppendToSet ==
    ASSUME NEW S, NEW s \in Seq(S), NEW e \in S
    PROVE  ToSet(Append(s, e)) = ToSet(s) \cup {e}
  <1>1. /\ Append(s, e) \in Seq(S) /\ Len(Append(s, e)) = Len(s) + 1
        /\ Append(s, e)[Len(s) + 1] = e
        /\ \A i \in 1 .. Len(s) : Append(s, e)[i] = s[i]
    OBVIOUS
  <1>2. Len(s) \in Nat
    OBVIOUS
  <1>3. DOMAIN s = 1 .. Len(s) /\ DOMAIN Append(s, e) = 1 .. (Len(s) + 1)
    BY <1>1
  <1>4. ToSet(Append(s, e)) \subseteq ToSet(s) \cup {e}
    BY <1>1, <1>2, <1>3 DEF ToSet
  <1>5. ToSet(s) \cup {e} \subseteq ToSet(Append(s, e))
    BY <1>1, <1>2, <1>3 DEF ToSet
  <1> QED
    BY <1>4, <1>5

LEMMA TailToSet ==
    ASSUME NEW S, NEW s \in Seq(S), s # <<>>
    PROVE  /\ Head(s) \in S /\ Head(s) \in ToSet(s)
           /\ Tail(s) \in Seq(S) /\ Len(Tail(s)) = Len(s) - 1
           /\ ToSet(s) = {Head(s)} \cup ToSet(Tail(s))
  <1>1. Len(s) > 0
    OBVIOUS
  <1>2. Tail(s) \in Seq(S) /\ Len(Tail(s)) = Len(s) - 1
    OBVIOUS
  <1>3. \A i \in 1 .. Len(Tail(s)) : Tail(s)[i] = s[i + 1]
    OBVIOUS
  <1>4. ToSet(s) \subseteq {Head(s)} \cup ToSet(Tail(s))
    <2> SUFFICES ASSUME NEW i \in 1 .. Len(s), i # 1
                 PROVE  s[i] \in ToSet(Tail(s))
      BY DEF ToSet
    <2>1. i - 1 \in 1 .. Len(Tail(s)) /\ Tail(s)[i - 1] = s[i]
      BY <1>2, <1>3
    <2>2. DOMAIN Tail(s) = 1 .. Len(Tail(s))
      BY <1>2
    <2> QED
      BY <2>1, <2>2 DEF ToSet
  <1>5. {Head(s)} \cup ToSet(Tail(s)) \subseteq ToSet(s)
    BY <1>1, <1>2, <1>3 DEF ToSet
  <1> QED
    BY <1>1, <1>2, <1>4, <1>5

LEMMA EmptyToSet == ToSet(<<>>) = {}
  BY DEF ToSet

-----------------------------------------------------------------------------
(***************************************************************************)
(* Sequences without repetition.                                           *)
(***************************************************************************)
Distinct(s) == \A a, b \in 1 .. Len(s) : s[a] = s[b] => a = b

LEMMA EmptyDistinct == Distinct(<<>>)
  BY DEF Distinct

\* An element that is new can be added.
LEMMA AppendDistinct ==
    ASSUME NEW S, NEW s \in Seq(S), NEW e \in S, Distinct(s), e \notin ToSet(s)
    PROVE  Distinct(Append(s, e))
  <1>1. /\ Len(Append(s, e)) = Len(s) + 1 /\ Append(s, e)[Len(s) + 1] = e
        /\ \A i \in 1 .. Len(s) : Append(s, e)[i] = s[i] /\ s[i] # e
    BY DEF ToSet
  <1> QED
    BY <1>1 DEF Distinct

\* The first one can be removed, and is gone then.
LEMMA TailDistinct ==
    ASSUME NEW S, NEW s \in Seq(S), s # <<>>, Distinct(s)
    PROVE  Distinct(Tail(s)) /\ ToSet(Tail(s)) = ToSet(s) \ {Head(s)}
  <1>1. /\ Tail(s) \in Seq(S) /\ Len(Tail(s)) = Len(s) - 1 /\ Len(s) \in Nat \ {0}
        /\ \A i \in 1 .. Len(Tail(s)) : Tail(s)[i] = s[i + 1]
        /\ Head(s) = s[1]
    OBVIOUS
  <1>2. Distinct(Tail(s))
    BY <1>1 DEF Distinct
  <1>3. Head(s) \notin ToSet(Tail(s))
    BY <1>1 DEF Distinct, ToSet
  <1> QED
    BY <1>2, <1>3, TailToSet

\* So can the last one.
LEMMA FrontDistinct ==
    ASSUME NEW S, NEW s \in Seq(S), Distinct(s)
    PROVE  /\ Front(s) \in Seq(S) /\ Distinct(Front(s))
           /\ ToSet(Front(s)) \subseteq ToSet(s)
           /\ s # <<>> => Len(Front(s)) = Len(s) - 1
           /\ s = <<>> => Front(s) = <<>>
  <1>1. /\ Front(s) \in Seq(S) /\ Len(s) \in Nat
        /\ Len(Front(s)) = IF Len(s) = 0 THEN 0 ELSE Len(s) - 1
        /\ \A i \in 1 .. Len(Front(s)) : Front(s)[i] = s[i]
    BY DEF Front
  <1> QED
    BY <1>1 DEF Distinct, ToSet

\* splice(indexOf(e), 1) of an element that is there removes it and nothing else.
LEMMA RemoveDistinct ==
    ASSUME NEW S, NEW s \in Seq(S), Distinct(s), NEW e \in ToSet(s)
    PROVE  /\ RemoveFirst(s, e) \in Seq(S) /\ Distinct(RemoveFirst(s, e))
           /\ ToSet(RemoveFirst(s, e)) = ToSet(s) \ {e}
           /\ Len(RemoveFirst(s, e)) = Len(s) - 1
  <1>1. PICK k \in 1 .. Len(s) : s[k] = e
    BY DEF ToSet
  <1>2. {i \in 1 .. Len(s) : s[i] = e} = {k}
    BY <1>1 DEF Distinct
  <1>3. SelectInSeq(s, LAMBDA v : v = e) = k
    BY <1>1, <1>2 DEF SelectInSeq, Min
  <1> DEFINE t == SubSeq(s, 1, k - 1) \o SubSeq(s, k + 1, Len(s))
  <1>4. RemoveFirst(s, e) = t
    BY <1>1, <1>3 DEF RemoveFirst, RemoveAt
  <1>5. /\ SubSeq(s, 1, k - 1) \in Seq(S) /\ Len(SubSeq(s, 1, k - 1)) = k - 1
        /\ \A i \in 1 .. k - 1 : SubSeq(s, 1, k - 1)[i] = s[i]
    BY <1>1
  <1>6. /\ SubSeq(s, k + 1, Len(s)) \in Seq(S)
        /\ Len(SubSeq(s, k + 1, Len(s))) = Len(s) - k
        /\ \A i \in 1 .. Len(s) - k : SubSeq(s, k + 1, Len(s))[i] = s[k + i]
    BY <1>1
  <1>7. /\ t \in Seq(S) /\ Len(t) = Len(s) - 1
        /\ \A i \in 1 .. Len(s) - 1 : t[i] = IF i < k THEN s[i] ELSE s[i + 1]
    <2> DEFINE u == SubSeq(s, 1, k - 1)
               v == SubSeq(s, k + 1, Len(s))
    <2>1. u \in Seq(S) /\ v \in Seq(S) /\ t = u \o v
      BY <1>5, <1>6
    <2>2. Len(u) = k - 1 /\ Len(v) = Len(s) - k /\ k \in 1 .. Len(s) /\ Len(s) \in Nat
      BY <1>1, <1>5, <1>6
    <2>3. /\ \A i \in 1 .. k - 1 : u[i] = s[i]
          /\ \A i \in 1 .. Len(s) - k : v[i] = s[k + i]
      BY <1>5, <1>6
    <2> HIDE DEF u, v, t
    <2>4. /\ t \in Seq(S) /\ Len(t) = Len(u) + Len(v)
          /\ \A i \in 1 .. Len(u) + Len(v) :
                t[i] = IF i <= Len(u) THEN u[i] ELSE v[i - Len(u)]
      BY <2>1
    <2>5. ASSUME NEW i \in 1 .. Len(s) - 1
          PROVE  t[i] = IF i < k THEN s[i] ELSE s[i + 1]
      <3>1. CASE i < k
        <4>1. i \in 1 .. Len(u) + Len(v) /\ i <= Len(u) /\ i \in 1 .. k - 1
          BY <2>2, <3>1
        <4>2. t[i] = u[i]
          BY <2>4, <4>1
        <4> QED
          BY <2>3, <3>1, <4>1, <4>2
      <3>2. CASE i >= k
        <4>1. i - (k - 1) \in 1 .. Len(s) - k /\ k + (i - (k - 1)) = i + 1
          BY <2>2, <3>2
        <4>2. t[i] = v[i - (k - 1)]
          BY <2>2, <2>4, <3>2
        <4> QED
          BY <2>2, <2>3, <3>2, <4>1, <4>2
      <3> QED
        BY <2>2, <3>1, <3>2
    <2> QED
      BY <2>2, <2>4, <2>5
  <1> HIDE DEF t
  <1>8. Distinct(t)
    BY <1>1, <1>7 DEF Distinct
  <1>9. ToSet(t) = ToSet(s) \ {e}
    <2>1. \A i \in 1 .. Len(s) - 1 : t[i] \in ToSet(s) /\ t[i] # e
      BY <1>1, <1>7, SMTT(30) DEF Distinct, ToSet
    <2>2. \A j \in 1 .. Len(s) : j # k => s[j] \in ToSet(t)
      <3> SUFFICES ASSUME NEW j \in 1 .. Len(s), j # k PROVE s[j] \in ToSet(t)
        OBVIOUS
      <3>1. CASE j < k
        BY <1>1, <1>7, <3>1 DEF ToSet
      <3>2. CASE j > k
        <4>1. j - 1 \in 1 .. Len(t) /\ t[j - 1] = s[j]
          BY <1>1, <1>7, <3>2
        <4> QED
          BY <1>7, <4>1 DEF ToSet
      <3> QED
        BY <1>1, <3>1, <3>2
    <2> QED
      BY <1>1, <1>7, <2>1, <2>2, SMTT(30) DEF ToSet
  <1> QED
    BY <1>4, <1>7, <1>8, <1>9

-----------------------------------------------------------------------------
(***************************************************************************)
(* What moves from the front of one sequence to the end of another.        *)
(***************************************************************************)
LEMMA ConcatToSet ==
    ASSUME NEW S, NEW s \in Seq(S), NEW t \in Seq(S)
    PROVE  s \o t \in Seq(S) /\ ToSet(s \o t) = ToSet(s) \cup ToSet(t)
  <1>1. /\ s \o t \in Seq(S) /\ Len(s \o t) = Len(s) + Len(t)
        /\ Len(s) \in Nat /\ Len(t) \in Nat
        /\ \A i \in 1 .. Len(s) : (s \o t)[i] = s[i]
        /\ \A i \in 1 .. Len(t) : (s \o t)[Len(s) + i] = t[i]
    OBVIOUS
  <1>2. DOMAIN (s \o t) = 1 .. Len(s) + Len(t) /\ DOMAIN s = 1 .. Len(s)
        /\ DOMAIN t = 1 .. Len(t)
    BY <1>1
  <1>3. ASSUME NEW i \in 1 .. Len(s) + Len(t)
        PROVE  (s \o t)[i] \in ToSet(s) \cup ToSet(t)
    <2>1. CASE i <= Len(s)
      BY <1>1, <1>2, <2>1 DEF ToSet
    <2>2. CASE i > Len(s)
      <3>1. i - Len(s) \in 1 .. Len(t) /\ (s \o t)[Len(s) + (i - Len(s))] = t[i - Len(s)]
        BY <1>1, <2>2
      <3>2. Len(s) + (i - Len(s)) = i
        BY <1>1
      <3> QED
        BY <1>2, <3>1, <3>2 DEF ToSet
    <2> QED
      BY <1>1, <2>1, <2>2
  <1>4. ASSUME NEW i \in 1 .. Len(s) PROVE s[i] \in ToSet(s \o t)
    BY <1>1, <1>2 DEF ToSet
  <1>5. ASSUME NEW i \in 1 .. Len(t) PROVE t[i] \in ToSet(s \o t)
    <2>1. Len(s) + i \in 1 .. Len(s) + Len(t) /\ (s \o t)[Len(s) + i] = t[i]
      BY <1>1
    <2> QED
      BY <1>2, <2>1 DEF ToSet
  <1> QED
    BY <1>1, <1>2, <1>3, <1>4, <1>5, ZenonT(60) DEF ToSet

\* Each element of a concatenation is where its part says.
LEMMA ConcatParts ==
    ASSUME NEW S, NEW s \in Seq(S), NEW t \in Seq(S)
    PROVE  /\ s \o t \in Seq(S) /\ Len(s \o t) = Len(s) + Len(t)
           /\ Len(s) \in Nat /\ Len(t) \in Nat
           /\ \A i \in 1 .. Len(s) : (s \o t)[i] = s[i]
           /\ \A i \in 1 .. Len(t) : (s \o t)[Len(s) + i] = t[i]
  OBVIOUS

LEMMA ConcatAppend ==
    ASSUME NEW S, NEW s \in Seq(S), NEW t \in Seq(S), NEW e \in S
    PROVE  s \o Append(t, e) = Append(s \o t, e)
  OBVIOUS

LEMMA MoveHead ==
    ASSUME NEW S, NEW s \in Seq(S), NEW t \in Seq(S), t # <<>>
    PROVE  Append(s, Head(t)) \o Tail(t) = s \o t
  OBVIOUS

LEMMA ConcatEmpty ==
    ASSUME NEW S, NEW s \in Seq(S)
    PROVE  s \o <<>> = s
  OBVIOUS

-----------------------------------------------------------------------------
(***************************************************************************)
(* Induction, which the lemmas below need: the elements of a concatenation *)
(* of any number of sequences.                                             *)
(***************************************************************************)
\* Every set of natural numbers has a smallest one ...
LEMMA Smallest ==
    ASSUME NEW T, T \subseteq Nat, T # {}
    PROVE  \E n \in T : \A m \in T : n <= m
  <1> DEFINE Less == {x \in Nat \X Nat : x[1] < x[2]}
  <1>1. IsWellFoundedOn(Less, Nat)
    BY NatLessThanWellFounded DEF OpToRel
  <1>2. PICK n \in T : \A m \in T : ~ (<<m, n>> \in Less)
    BY <1>1, WFMin, Zenon
  <1>3. ASSUME NEW m \in T PROVE n <= m
    <2>1. m \in Nat /\ n \in Nat /\ <<m, n>> \notin Less
      BY <1>2
    <2>2. <<m, n>> \in Nat \X Nat /\ <<m, n>>[1] = m /\ <<m, n>>[2] = n
      BY <2>1
    <2>3. ~(m < n)
      BY <2>1, <2>2, Zenon
    <2> QED
      BY <2>1, <2>3
  <1> QED
    BY <1>3

\* ... so a set with 0 and the successors of its elements has all of them: the
\* principle of induction, of sets instead of predicates.
LEMMA Induct ==
    ASSUME NEW T, T \subseteq Nat, 0 \in T, \A n \in T : n + 1 \in T
    PROVE  T = Nat
  <1> SUFFICES ASSUME Nat \ T # {} PROVE FALSE
    OBVIOUS
  <1>1. PICK n \in Nat \ T : \A m \in Nat \ T : n <= m
    BY Smallest
  <1>2. n # 0
    OBVIOUS
  <1>3. n - 1 \in Nat
    BY <1>2
  <1>4. n - 1 \in T
    BY <1>1, <1>3
  <1> QED
    BY <1>1, <1>3, <1>4

-----------------------------------------------------------------------------
(***************************************************************************)
(* FlattenSeq, of which the bytes of a stream of messages are made.        *)
(***************************************************************************)
\* The recursive function inside FlattenSeq.
Flattens(f, s) == f = [i \in 1 .. Len(s) |-> IF i = 1 THEN s[i] ELSE f[i - 1] \o s[i]]

\* There is such a function for every sequence.
LEMMA FlattenExists ==
    ASSUME NEW s, Len(s) \in Nat
    PROVE  \E f : Flattens(f, s)
  <1> DEFINE Up(f, n) == f = [i \in 1 .. n |-> IF i = 1 THEN s[i] ELSE f[i - 1] \o s[i]]
             T == {n \in Nat : \E f : Up(f, n)}
  <1>1. 0 \in T
    <2>1. Up([i \in 1 .. 0 |-> 0], 0)
      OBVIOUS
    <2> QED
      BY <2>1
  <1>2. ASSUME NEW n \in T PROVE n + 1 \in T
    <2>1. n \in Nat /\ \E f : Up(f, n)
      BY <1>2
    <2>2. PICK f : Up(f, n)
      BY <2>1
    <2> DEFINE g == [i \in 1 .. n + 1 |-> IF i = n + 1
                       THEN IF i = 1 THEN s[i] ELSE f[n] \o s[i] ELSE f[i]]
    <2>3. ASSUME NEW i \in 1 .. n + 1
          PROVE  g[i] = IF i = 1 THEN s[i] ELSE g[i - 1] \o s[i]
      <3>1. CASE i = n + 1 /\ i = 1
        BY <3>1
      <3>2. CASE i = n + 1 /\ i # 1
        <4>1. n \in 1 .. n + 1 /\ n # n + 1 /\ i - 1 = n
          BY <2>1, <3>2
        <4>2. g[n] = f[n]
          BY <4>1
        <4> QED
          BY <3>2, <4>1, <4>2
      <3>3. CASE i # n + 1
        <4>1. i \in 1 .. n
          BY <2>1, <3>3
        <4>2. f[i] = IF i = 1 THEN s[i] ELSE f[i - 1] \o s[i]
          BY <2>2, <4>1
        <4>3. g[i] = f[i]
          BY <3>3
        <4>4. i # 1 => g[i - 1] = f[i - 1]
          BY <2>1, <4>1
        <4> QED
          BY <4>2, <4>3, <4>4
      <3> QED
        BY <3>1, <3>2, <3>3
    <2> HIDE DEF g
    <2>4. g = [i \in 1 .. n + 1 |-> g[i]]
      BY DEF g
    <2>5. Up(g, n + 1)
      BY <2>3, <2>4
    <2> HIDE DEF Up
    <2>6. \E h : Up(h, n + 1)
      BY <2>5
    <2> QED
      BY <2>1, <2>6
  <1>3. T = Nat
    <2> HIDE DEF T
    <2>1. T \subseteq Nat
      BY DEF T
    <2> QED
      BY <1>1, <1>2, <2>1, Induct
  <1>4. \E f : Up(f, Len(s))
    BY <1>3
  <1> QED
    BY <1>4 DEF Flattens

Flat(s) == CHOOSE f : Flattens(f, s)

\* FlattenSeq is its last value.
LEMMA FlattenIs ==
    ASSUME NEW S, NEW s \in Seq(Seq(S))
    PROVE  /\ \A i \in 1 .. Len(s) : Flat(s)[i] = IF i = 1 THEN s[i] ELSE Flat(s)[i - 1] \o s[i]
           /\ FlattenSeq(s) = IF s = <<>> THEN <<>> ELSE Flat(s)[Len(s)]
  <1>1. Len(s) \in Nat /\ (Len(s) = 0 <=> s = <<>>)
    OBVIOUS
  <1>2. Flattens(Flat(s), s)
    BY <1>1, FlattenExists DEF Flat
  <1>3. FlattenSeq(s) = IF Len(s) = 0 THEN s ELSE Flat(s)[Len(s)]
    BY DEF FlattenSeq, Flat, Flattens
  <1>4. \A f : Flattens(f, s) =>
          \A i \in 1 .. Len(s) : f[i] = IF i = 1 THEN s[i] ELSE f[i - 1] \o s[i]
    BY DEF Flattens
  <1> QED
    BY <1>1, <1>2, <1>3, <1>4

\* FlattenSeq of one sequence more.
LEMMA FlattenAppend ==
    ASSUME NEW S, NEW s \in Seq(Seq(S)), NEW x \in Seq(S)
    PROVE  FlattenSeq(Append(s, x)) = FlattenSeq(s) \o x
  <1> DEFINE t == Append(s, x)
             f == Flat(s)
             g == Flat(t)
             n == Len(s)
  <1>1. /\ t \in Seq(Seq(S)) /\ Len(t) = n + 1 /\ t[n + 1] = x /\ n \in Nat
        /\ \A i \in 1 .. n : t[i] = s[i]
    <2> HIDE DEF f, g
    <2> QED
      OBVIOUS
  <1> HIDE DEF t
  <1>2. /\ \A i \in 1 .. n : f[i] = IF i = 1 THEN s[i] ELSE f[i - 1] \o s[i]
        /\ FlattenSeq(s) = IF s = <<>> THEN <<>> ELSE f[n]
    BY FlattenIs
  <1>3. /\ \A i \in 1 .. n + 1 : g[i] = IF i = 1 THEN t[i] ELSE g[i - 1] \o t[i]
        /\ FlattenSeq(t) = g[n + 1]
    <2>1. t # <<>>
      BY <1>1
    <2> QED
      BY <1>1, <2>1, FlattenIs
  <1> HIDE DEF f, g
  <1> DEFINE T == {i \in Nat : i \in 1 .. n => f[i] = g[i]}
  <1>4. T = Nat
    <2>1. 0 \in T
      OBVIOUS
    <2>2. ASSUME NEW i \in T PROVE i + 1 \in T
      <3>1. i \in Nat /\ (i \in 1 .. n => f[i] = g[i])
        BY <2>2
      <3> SUFFICES ASSUME i + 1 \in 1 .. n PROVE f[i + 1] = g[i + 1]
        BY <3>1
      <3>2. i + 1 \in 1 .. n + 1 /\ i + 1 - 1 = i
        BY <1>1, <3>1
      <3>3. PICK j \in 1 .. n : j = i + 1 /\ j - 1 = i /\ (j # 1 => i \in 1 .. n)
        BY <1>1, <3>1
      <3>4. f[j] = IF j = 1 THEN s[j] ELSE f[j - 1] \o s[j]
        BY <1>2, Zenon
      <3>5. g[j] = IF j = 1 THEN t[j] ELSE g[j - 1] \o t[j]
        <4>1. j \in 1 .. n + 1
          BY <3>2, <3>3
        <4> QED
          BY <1>3, <4>1, Zenon
      <3>6. t[j] = s[j] /\ (j # 1 => f[j - 1] = g[j - 1])
        BY <1>1, <3>1, <3>3, Zenon
      <3>7. f[j] = g[j]
        BY <3>4, <3>5, <3>6, Zenon
      <3> QED
        BY <3>3, <3>7, Zenon
    <2> HIDE DEF T
    <2>3. T \subseteq Nat
      BY DEF T
    <2> QED
      BY <2>1, <2>2, <2>3, Induct
  <1>5. g[n + 1] = IF n = 0 THEN x ELSE g[n] \o x
    <2>1. n + 1 \in 1 .. n + 1 /\ n + 1 - 1 = n
      BY <1>1
    <2>2. g[n + 1] = IF n + 1 = 1 THEN t[n + 1] ELSE g[n] \o t[n + 1]
      BY <1>3, <2>1
    <2> QED
      BY <1>1, <2>2
  <1>6. CASE n = 0
    <2>1. s = <<>> /\ <<>> \o x = x
      BY <1>6
    <2> QED
      BY <1>2, <1>3, <1>5, <1>6, <2>1 DEF t
  <1>7. CASE n # 0
    <2>1. f[n] = g[n]
      <3>1. n \in T /\ n \in 1 .. n
        BY <1>1, <1>4, <1>7
      <3> QED
        BY <3>1
    <2>2. s # <<>>
      BY <1>7
    <2> QED
      BY <1>2, <1>3, <1>5, <1>7, <2>1, <2>2 DEF t
  <1> QED
    BY <1>6, <1>7

\* Where the k-th sequence of s begins in FlattenSeq(s): how much is before it.
Offset(s, k) == Len(FlattenSeq(SubSeq(s, 1, k - 1)))

\* FlattenSeq of the first k sequences, and of those before.
LEMMA FlattenPrefix ==
    ASSUME NEW S, NEW s \in Seq(Seq(S))
    PROVE  /\ FlattenSeq(SubSeq(s, 1, 0)) = <<>> /\ SubSeq(s, 1, Len(s)) = s
           /\ \A k \in 1 .. Len(s) :
                 FlattenSeq(SubSeq(s, 1, k)) = FlattenSeq(SubSeq(s, 1, k - 1)) \o s[k]
           /\ \A k \in 0 .. Len(s) : FlattenSeq(SubSeq(s, 1, k)) \in Seq(S)
  <1>1. Len(s) \in Nat
    OBVIOUS
  <1>2. FlattenSeq(SubSeq(s, 1, 0)) = <<>>
    <2>1. SubSeq(s, 1, 0) = <<>> /\ <<>> \in Seq(Seq(S))
      OBVIOUS
    <2> QED
      BY <2>1, FlattenIs
  <1>3. ASSUME NEW k \in 1 .. Len(s)
        PROVE  FlattenSeq(SubSeq(s, 1, k)) = FlattenSeq(SubSeq(s, 1, k - 1)) \o s[k]
    <2>1. k \in Nat /\ k - 1 \in Nat /\ k - 1 <= Len(s)
      BY <1>1
    <2>2. SubSeq(s, 1, k - 1) \in Seq(Seq(S)) /\ s[k] \in Seq(S)
      BY <1>1, <2>1
    <2>3. SubSeq(s, 1, k) = Append(SubSeq(s, 1, k - 1), s[k])
      <3>1. /\ SubSeq(s, 1, k) \in Seq(Seq(S)) /\ Len(SubSeq(s, 1, k)) = k
            /\ Len(SubSeq(s, 1, k - 1)) = k - 1
            /\ \A i \in 1 .. k : SubSeq(s, 1, k)[i] = s[i]
            /\ \A i \in 1 .. k - 1 : SubSeq(s, 1, k - 1)[i] = s[i]
        BY <1>1, <2>1
      <3> QED
        BY <2>1, <2>2, <3>1
    <2> QED
      BY <2>2, <2>3, FlattenAppend
  <1>4. SubSeq(s, 1, Len(s)) = s
    OBVIOUS
  <1> DEFINE G(k) == FlattenSeq(SubSeq(s, 1, k))
             T == {k \in Nat : k <= Len(s) => G(k) \in Seq(S)}
  <1>5. T = Nat
    <2>1. <<>> \in Seq(S) /\ G(0) = <<>>
      BY <1>2
    <2>2. 0 \in T
      BY <2>1
    <2>3. ASSUME NEW k \in T PROVE k + 1 \in T
      <3>1. k \in Nat /\ (k <= Len(s) => G(k) \in Seq(S))
        BY <2>3
      <3>2. ASSUME NEW w, w = k + 1, w <= Len(s) PROVE G(w) \in Seq(S)
        <4>1. w \in 1 .. Len(s) /\ w - 1 = k /\ s[w] \in Seq(S) /\ k <= Len(s)
          BY <1>1, <3>1, <3>2
        <4>2. G(w) = G(w - 1) \o s[w]
          BY <1>3, <4>1
        <4>3. G(w - 1) \in Seq(S)
          BY <3>1, <4>1
        <4> HIDE DEF G
        <4> QED
          BY <4>1, <4>2, <4>3, ConcatProperties
      <3> QED
        BY <3>1, <3>2
    <2>4. T \subseteq Nat
      OBVIOUS
    <2> HIDE DEF T
    <2> QED
      BY <2>2, <2>3, <2>4, Induct
  <1>6. \A k \in 0 .. Len(s) : FlattenSeq(SubSeq(s, 1, k)) \in Seq(S)
    <2> SUFFICES ASSUME NEW k \in 0 .. Len(s) PROVE G(k) \in Seq(S)
      OBVIOUS
    <2>1. k \in T /\ k <= Len(s)
      BY <1>1, <1>5
    <2> QED
      BY <2>1
  <1> QED
    BY <1>2, <1>3, <1>4, <1>6

\* Of sequences that grow, the last one begins with each of them.
Grow(g, n) ==
    /\ \A k \in 0 .. n : Len(g[k]) \in Nat
    /\ \A k \in 1 .. n : /\ Len(g[k - 1]) <= Len(g[k])
                         /\ \A j \in 1 .. Len(g[k - 1]) : g[k][j] = g[k - 1][j]

\* The last of them is as long, and begins alike.
LEMMA GrowingSeqs ==
    ASSUME NEW n \in Nat, NEW g, Grow(g, n), NEW k \in 0 .. n
    PROVE  /\ Len(g[k]) <= Len(g[n])
           /\ \A j \in 1 .. Len(g[k]) : g[n][j] = g[k][j]
  <1> USE DEF Grow
  <1> DEFINE Begins(m) == /\ Len(g[k]) <= Len(g[m])
                          /\ \A j \in 1 .. Len(g[k]) : g[m][j] = g[k][j]
             T == {m \in Nat : k + m <= n => Begins(k + m)}
  <1>1. 0 \in T
    OBVIOUS
  <1>2. ASSUME NEW m \in T PROVE m + 1 \in T
    <2>1. m \in Nat /\ (k + m <= n => Begins(k + m))
      BY <1>2
    <2>2. ASSUME NEW w, w = k + (m + 1), w <= n PROVE Begins(w)
      <3>1. w \in 1 .. n /\ w - 1 = k + m /\ w - 1 <= n /\ w \in 0 .. n /\ w - 1 \in 0 .. n
        BY <2>1, <2>2
      <3>2. Begins(w - 1)
        BY <2>1, <3>1
      <3>3. /\ Len(g[w - 1]) <= Len(g[w])
            /\ \A j \in 1 .. Len(g[w - 1]) : g[w][j] = g[w - 1][j]
        BY <3>1
      <3>4. Len(g[k]) \in Nat /\ Len(g[w]) \in Nat /\ Len(g[w - 1]) \in Nat
        BY <3>1
      <3> QED
        BY <3>2, <3>3, <3>4
    <2> HIDE DEF Begins
    <2> QED
      BY <2>1, <2>2
  <1>3. T \subseteq Nat
    OBVIOUS
  <1>4. T = Nat
    <2> HIDE DEF T
    <2> QED
      BY <1>1, <1>2, <1>3, Induct
  <1> HIDE DEF Begins
  <1>5. n - k \in T /\ k + (n - k) = n
    BY <1>4
  <1>6. Begins(n)
    BY <1>5
  <1> QED
    BY <1>6 DEF Begins

\* What is appended is found behind what was there.
GrowBy(g, n, s, S) ==
    /\ \A k \in 0 .. n : g[k] \in Seq(S)
    /\ \A k \in 1 .. n : s[k] \in Seq(S) /\ g[k] = g[k - 1] \o s[k]

Stacked(g, n, s) ==
    /\ \A k \in 0 .. n : Len(g[k]) \in Nat /\ Len(g[k]) <= Len(g[n])
    /\ \A k \in 1 .. n :
          /\ Len(g[k]) = Len(g[k - 1]) + Len(s[k])
          /\ \A j \in 1 .. Len(s[k]) : g[n][Len(g[k - 1]) + j] = s[k][j]

\* Each part is where the parts before it end.
LEMMA GrowsBy ==
    ASSUME NEW S, NEW n \in Nat, NEW g, NEW s, GrowBy(g, n, s, S)
    PROVE  Stacked(g, n, s)
  <1> USE DEF GrowBy
  <1>1. \A k \in 0 .. n : Len(g[k]) \in Nat
    OBVIOUS
  <1>2. ASSUME NEW k \in 1 .. n
        PROVE  /\ Len(g[k]) = Len(g[k - 1]) + Len(s[k])
               /\ \A j \in 1 .. Len(g[k - 1]) : g[k][j] = g[k - 1][j]
               /\ \A j \in 1 .. Len(s[k]) : g[k][Len(g[k - 1]) + j] = s[k][j]
               /\ Len(s[k]) \in Nat /\ Len(g[k - 1]) \in Nat
    <2>1. k - 1 \in 0 .. n
      OBVIOUS
    <2>2. PICK a \in Seq(S) : a = g[k - 1]
      BY <2>1
    <2>3. PICK b \in Seq(S) : b = s[k]
      OBVIOUS
    <2>4. g[k] = a \o b
      BY <2>2, <2>3
    <2>5. /\ Len(a \o b) = Len(a) + Len(b)
          /\ \A j \in 1 .. Len(a) : (a \o b)[j] = a[j]
          /\ \A j \in 1 .. Len(b) : (a \o b)[Len(a) + j] = b[j]
          /\ Len(a) \in Nat /\ Len(b) \in Nat
      OBVIOUS
    <2> QED
      BY <2>2, <2>3, <2>4, <2>5, Zenon
  <1>3. \A k \in 1 .. n : /\ Len(g[k - 1]) <= Len(g[k])
                          /\ \A j \in 1 .. Len(g[k - 1]) : g[k][j] = g[k - 1][j]
    <2> SUFFICES ASSUME NEW k \in 1 .. n
                 PROVE  /\ Len(g[k - 1]) <= Len(g[k])
                        /\ \A j \in 1 .. Len(g[k - 1]) : g[k][j] = g[k - 1][j]
      OBVIOUS
    <2>1. PICK a \in Nat : a = Len(g[k - 1])
      BY <1>2
    <2>2. PICK b \in Nat : b = Len(s[k])
      BY <1>2
    <2>3. Len(g[k]) = a + b
      BY <1>2, <2>1, <2>2, Zenon
    <2>4. a <= a + b
      OBVIOUS
    <2>5. Len(g[k - 1]) <= Len(g[k])
      BY <2>1, <2>3, <2>4, Zenon
    <2> QED
      BY <1>2, <2>5, Zenon
  <1>4. ASSUME NEW k \in 0 .. n
        PROVE  /\ Len(g[k]) <= Len(g[n])
               /\ \A j \in 1 .. Len(g[k]) : g[n][j] = g[k][j]
    <2>1. Grow(g, n)
      BY <1>1, <1>3, Zenon DEF Grow
    <2> QED
      BY <2>1, GrowingSeqs
  <1>5. ASSUME NEW k \in 1 .. n, NEW j \in 1 .. Len(s[k])
        PROVE  g[n][Len(g[k - 1]) + j] = s[k][j]
    <2>1. k \in 0 .. n
      OBVIOUS
    <2>2. PICK a \in Nat : a = Len(g[k - 1])
      BY <1>2
    <2>3. PICK b \in Nat : b = Len(s[k])
      BY <1>2
    <2>4. Len(g[k]) = a + b
      BY <1>2, <2>2, <2>3, Zenon
    <2>5. a + j \in 1 .. a + b
      BY <2>3
    <2>6. g[n][a + j] = g[k][a + j]
      BY <1>4, <2>1, <2>4, <2>5, Zenon
    <2>7. g[k][a + j] = s[k][j]
      BY <1>2, <2>2, Zenon
    <2> QED
      BY <2>2, <2>6, <2>7, Zenon
  <1> QED
    BY <1>1, <1>2, <1>4, <1>5, Zenon DEF Stacked

\* FlattenSeq puts its sequences one behind the other, without a gap.
Flattened(s, S) ==
    /\ FlattenSeq(s) \in Seq(S)
    /\ Offset(s, 1) = 0 /\ Offset(s, Len(s) + 1) = Len(FlattenSeq(s))
    /\ \A k \in 1 .. Len(s) + 1 :
          Offset(s, k) \in Nat /\ Offset(s, k) <= Len(FlattenSeq(s))
    /\ \A k \in 1 .. Len(s) :
          /\ Offset(s, k + 1) = Offset(s, k) + Len(s[k])
          /\ \A j \in 1 .. Len(s[k]) : FlattenSeq(s)[Offset(s, k) + j] = s[k][j]

\* So are the sequences of s in FlattenSeq(s).
LEMMA FlattenAt ==
    ASSUME NEW S, NEW s \in Seq(Seq(S))
    PROVE  Flattened(s, S)
  <1>1. PICK n \in Nat : n = Len(s)
    OBVIOUS
  <1>2. PICK g : g = [k \in 0 .. n |-> FlattenSeq(SubSeq(s, 1, k))]
    OBVIOUS
  <1>3. \A k \in 0 .. n : g[k] = FlattenSeq(SubSeq(s, 1, k))
    BY <1>2
  <1>4. \A k \in 1 .. n : s[k] \in Seq(S) /\ k - 1 \in 0 .. n /\ k \in 0 .. n
    BY <1>1
  <1>5. \A k \in 0 .. n : g[k] \in Seq(S)
    BY <1>1, <1>3, FlattenPrefix
  <1>6. \A k \in 1 .. n : g[k] = g[k - 1] \o s[k]
    BY <1>1, <1>3, <1>4, FlattenPrefix
  <1>7. 0 \in 0 .. n /\ n \in 0 .. n
    OBVIOUS
  <1>8. g[0] = <<>> /\ g[n] = FlattenSeq(s)
    BY <1>1, <1>3, <1>7, FlattenPrefix
  <1>9. /\ \A k \in 0 .. n : Len(g[k]) \in Nat /\ Len(g[k]) <= Len(g[n])
        /\ \A k \in 1 .. n :
              /\ Len(g[k]) = Len(g[k - 1]) + Len(s[k])
              /\ \A j \in 1 .. Len(s[k]) : g[n][Len(g[k - 1]) + j] = s[k][j]
    <2>1. GrowBy(g, n, s, S)
      BY <1>4, <1>5, <1>6, Zenon DEF GrowBy
    <2>2. Stacked(g, n, s)
      BY <2>1, GrowsBy, Zenon
    <2> QED
      BY <2>2, Zenon DEF Stacked
  <1>10. ASSUME NEW k \in 1 .. n + 1 PROVE Offset(s, k) = Len(g[k - 1]) /\ k - 1 \in 0 .. n
    BY <1>3 DEF Offset
  <1>11. ASSUME NEW k \in 1 .. n
         PROVE  /\ Offset(s, k) = Len(g[k - 1]) /\ Offset(s, k + 1) = Len(g[k])
                /\ Len(g[k]) = Len(g[k - 1]) + Len(s[k])
                /\ \A j \in 1 .. Len(s[k]) : g[n][Len(g[k - 1]) + j] = s[k][j]
    <2>1. k \in 1 .. n + 1 /\ k + 1 \in 1 .. n + 1 /\ k + 1 - 1 = k
      OBVIOUS
    <2>2. Offset(s, k) = Len(g[k - 1]) /\ Offset(s, k + 1) = Len(g[k + 1 - 1])
      BY <1>10, <2>1
    <2> QED
      BY <1>9, <2>1, <2>2
  <1>12. Offset(s, 1) = 0 /\ Offset(s, n + 1) = Len(g[n])
    <2>1. 1 \in 1 .. n + 1 /\ n + 1 \in 1 .. n + 1 /\ 1 - 1 = 0 /\ n + 1 - 1 = n
      OBVIOUS
    <2>2. Offset(s, 1) = Len(g[1 - 1]) /\ Offset(s, n + 1) = Len(g[n + 1 - 1])
      BY <1>10, <2>1
    <2> QED
      BY <1>8, <2>1, <2>2
  <1>13. \A k \in 1 .. n + 1 : Offset(s, k) \in Nat /\ Offset(s, k) <= Len(g[n])
    BY <1>9, <1>10
  <1> QED
    BY <1>1, <1>5, <1>7, <1>8, <1>11, <1>12, <1>13 DEF Flattened

\* The elements of s lie in w, behind the first a of them.
HasAt(w, a, s) ==
    /\ a \in Nat /\ a + Len(s) <= Len(w)
    /\ \A j \in 1 .. Len(s) : w[a + j] = s[j]

\* Both parts of a concatenation lie in w when it does ...
LEMMA HasAtConcat ==
    ASSUME NEW S, NEW s \in Seq(S), NEW t \in Seq(S), NEW w, NEW a, HasAt(w, a, s \o t),
           Len(w) \in Nat
    PROVE  HasAt(w, a, s) /\ HasAt(w, a + Len(s), t)
  <1>1. PICK m \in Nat : m = Len(s)
    OBVIOUS
  <1>2. PICK n \in Nat : n = Len(t)
    OBVIOUS
  <1>3. Len(s \o t) = m + n
    BY <1>1, <1>2
  <1>4. \A j \in 1 .. m : (s \o t)[j] = s[j]
    BY <1>1
  <1>5. \A j \in 1 .. n : (s \o t)[m + j] = t[j]
    BY <1>1, <1>2
  <1>6. /\ a \in Nat /\ a + (m + n) <= Len(w)
        /\ \A j \in 1 .. m + n : w[a + j] = (s \o t)[j]
    BY <1>3 DEF HasAt
  <1>7. HasAt(w, a, s)
    <2>1. a + m <= Len(w)
      BY <1>6
    <2>2. ASSUME NEW j \in 1 .. m PROVE w[a + j] = s[j]
      <3>1. j \in 1 .. m + n
        OBVIOUS
      <3> QED
        BY <1>4, <1>6, <3>1, Zenon
    <2> QED
      BY <1>1, <1>6, <2>1, <2>2, Zenon DEF HasAt
  <1>8. HasAt(w, a + m, t)
    <2>1. a + m \in Nat /\ a + m + n <= Len(w)
      BY <1>6
    <2>2. ASSUME NEW j \in 1 .. n PROVE w[a + m + j] = t[j]
      <3>1. m + j \in 1 .. m + n /\ a + (m + j) = a + m + j
        BY <1>6
      <3>2. w[a + (m + j)] = (s \o t)[m + j]
        BY <1>6, <3>1, Zenon
      <3> QED
        BY <1>5, <3>1, <3>2, Zenon
    <2> QED
      BY <1>2, <2>1, <2>2, Zenon DEF HasAt
  <1> QED
    BY <1>1, <1>7, <1>8, Zenon

\* ... each of the sequences of s, when FlattenSeq(s) does.
LEMMA HasAtFlatten ==
    ASSUME NEW S, NEW s \in Seq(Seq(S)), NEW w, NEW a, HasAt(w, a, FlattenSeq(s)),
           Len(w) \in Nat, NEW k \in 1 .. Len(s)
    PROVE  HasAt(w, a + Offset(s, k), s[k])
  <1>1. Flattened(s, S)
    BY FlattenAt
  <1>2. s[k] \in Seq(S) /\ k \in 1 .. Len(s) + 1 /\ k + 1 \in 1 .. Len(s) + 1
    OBVIOUS
  <1>3. PICK n \in Nat : n = Len(s[k])
    BY <1>2
  <1>4. PICK f : f = FlattenSeq(s)
    OBVIOUS
  <1>5. Len(f) \in Nat
    <2>1. f \in Seq(S)
      BY <1>1, <1>4 DEF Flattened
    <2> QED
      BY <2>1
  <1>6. PICK c \in Nat : c = Offset(s, k)
    BY <1>1, <1>2, Zenon DEF Flattened
  <1>7. c + n <= Len(f)
    <2>1. Offset(s, k + 1) = c + n /\ Offset(s, k + 1) <= Len(f)
      BY <1>1, <1>2, <1>3, <1>4, <1>6, Zenon DEF Flattened
    <2> QED
      BY <2>1, Zenon
  <1>8. \A j \in 1 .. n : f[c + j] = s[k][j]
    BY <1>1, <1>3, <1>4, <1>6, Zenon DEF Flattened
  <1>9. /\ a \in Nat /\ a + Len(f) <= Len(w)
        /\ \A j \in 1 .. Len(f) : w[a + j] = f[j]
    BY <1>4, Zenon DEF HasAt
  <1>10. a + c \in Nat /\ a + c + n <= Len(w)
    BY <1>5, <1>7, <1>9
  <1>11. ASSUME NEW j \in 1 .. n PROVE w[a + c + j] = s[k][j]
    <2>1. c + j \in 1 .. Len(f) /\ a + (c + j) = a + c + j
      BY <1>5, <1>7, <1>9
    <2> QED
      BY <1>8, <1>9, <2>1, Zenon
  <1> QED
    BY <1>3, <1>6, <1>10, <1>11, Zenon DEF HasAt
=============================================================================
