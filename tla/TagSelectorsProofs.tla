------------------------ MODULE TagSelectorsProofs ------------------------
(***************************************************************************)
(* What is proved of the selection of tags, for any devices, of any        *)
(* number, and any options: they are refused exactly if the documentation  *)
(* does not allow them together, and the server picks the tags that the    *)
(* documentation says they select, or fails as it says.                    *)
(*                                                                         *)
(* Filter and FlattenSeq are recursive functions on the indices of a       *)
(* sequence.  What they do is proved by induction on its length, for which *)
(* the library's theorems need an operator as a parameter; the principle   *)
(* is stated here with a set instead.                                      *)
(***************************************************************************)
EXTENDS TagSelectors, SequenceTheorems, WellFoundedInduction, TLAPS

(* A set of numbers that has 0, and n + 1 with n, has all of them.         *)
LEMMA NatSetInduction ==
  ASSUME NEW S, 0 \in S, \A n \in Nat : n \in S => n + 1 \in S
  PROVE  Nat \subseteq S
<1> DEFINE T == {n \in Nat : n \notin S}
<1> SUFFICES ASSUME T # {} PROVE FALSE
  OBVIOUS
<1>1. T \subseteq Nat
  OBVIOUS
<1>2. PICK x \in T : \A y \in T : <<y, x>> \notin OpToRel(<, Nat)
  BY <1>1, WFMin, NatLessThanWellFounded, Zenon
<1>3. x # 0 /\ x - 1 \in Nat /\ x \in Nat
  OBVIOUS
<1>4. x - 1 \in T
  BY <1>3
<1>5. <<x - 1, x>> \in OpToRel(<, Nat)
  BY <1>3, <1>4 DEF OpToRel
<1> QED
  BY <1>2, <1>4, <1>5

(* A set of sequences that has the empty one, and with each one all that   *)
(* are longer by one element, has all of them.                             *)
LEMMA SeqSetInduction ==
  ASSUME NEW X, NEW Q, <<>> \in Q,
         \A s \in Seq(X), e \in X : s \in Q => Append(s, e) \in Q
  PROVE  Seq(X) \subseteq Q
<1> DEFINE S == {n \in Nat : \A s \in Seq(X) : Len(s) = n => s \in Q}
<1>1. 0 \in S
  BY EmptySeq
<1>2. ASSUME NEW n \in Nat, n \in S PROVE n + 1 \in S
  <2> SUFFICES ASSUME NEW s \in Seq(X), Len(s) = n + 1 PROVE s \in Q
    OBVIOUS
  <2>1. s # <<>>
    BY EmptySeq
  <2>2. PICK t \in Seq(X), e \in X : s = Append(t, e)
    BY <2>1, SequenceEmptyOrAppend
  <2>3. Len(t) = n
    BY <2>2, AppendProperties
  <2> QED
    BY <1>2, <2>2, <2>3
<1> HIDE DEF S
<1>3. Nat \subseteq S
  BY <1>1, <1>2, NatSetInduction
<1> QED
  BY <1>3, LenProperties DEF S

-----------------------------------------------------------------------------
(* What Filter has collected before and after each index.                  *)
Collects(seq, S, f) ==
  f = [i \in 0..Len(seq) |->
         IF i = 0 THEN <<>>
         ELSE IF seq[i] \in S THEN Append(f[i - 1], seq[i]) ELSE f[i - 1]]

LEMMA CollectsOfAppend ==
  ASSUME NEW X, NEW s \in Seq(X), NEW e \in X, NEW S, NEW f, Collects(s, S, f)
  PROVE  \E g : /\ Collects(Append(s, e), S, g)
                /\ g[Len(s)] = f[Len(s)]
<1> DEFINE last == IF e \in S THEN Append(f[Len(s)], e) ELSE f[Len(s)]
           g == [i \in 0..(Len(s) + 1) |-> IF i = Len(s) + 1 THEN last ELSE f[i]]
<1>1. Len(s) \in Nat /\ Len(Append(s, e)) = Len(s) + 1
  OBVIOUS
<1>2. \A i \in 1..Len(s) : Append(s, e)[i] = s[i]
  OBVIOUS
<1>3. Append(s, e)[Len(s) + 1] = e
  OBVIOUS
<1>4. \A i \in 0..Len(s) : f[i] = IF i = 0 THEN <<>>
        ELSE IF s[i] \in S THEN Append(f[i - 1], s[i]) ELSE f[i - 1]
  BY DEF Collects
<1>5. ASSUME NEW i \in 0..(Len(s) + 1)
      PROVE  g[i] = IF i = 0 THEN <<>>
                    ELSE IF Append(s, e)[i] \in S
                         THEN Append(g[i - 1], Append(s, e)[i]) ELSE g[i - 1]
  <2>1. CASE i = Len(s) + 1
    BY <2>1, <1>1, <1>3
  <2>2. CASE i # Len(s) + 1
    BY <2>2, <1>1, <1>2, <1>4
  <2> QED
    BY <2>1, <2>2
<1>6. Collects(Append(s, e), S, g)
  BY <1>1, <1>5 DEF Collects
<1> QED
  BY <1>1, <1>6

(* The equation of Filter has a solution.                                  *)
LEMMA CollectsExists ==
  ASSUME NEW X, NEW s \in Seq(X), NEW S
  PROVE  \E f : Collects(s, S, f)
<1> DEFINE Q == {t \in Seq(X) : \E f : Collects(t, S, f)}
<1>1. <<>> \in Q
  <2>1. Collects(<<>>, S, [i \in 0..0 |-> <<>>])
    BY DEF Collects
  <2> QED
    BY <2>1, EmptySeq
<1>2. \A t \in Seq(X), e \in X : t \in Q => Append(t, e) \in Q
  BY CollectsOfAppend, AppendProperties
<1> HIDE DEF Q
<1>3. Seq(X) \subseteq Q
  BY <1>1, <1>2, SeqSetInduction
<1> QED
  BY <1>3 DEF Q

(* And only one.                                                           *)
LEMMA CollectsUnique ==
  ASSUME NEW X, NEW s \in Seq(X), NEW S, NEW f, NEW g,
         Collects(s, S, f), NEW t \in Seq(X), Collects(t, S, g),
         Len(s) <= Len(t), \A i \in 1..Len(s) : t[i] = s[i]
  PROVE  f[Len(s)] = g[Len(s)]
<1> DEFINE N == {n \in Nat : n <= Len(s) => f[n] = g[n]}
<1>1. Len(s) \in Nat /\ Len(t) \in Nat
  OBVIOUS
<1>2. \A i \in 0..Len(s) : f[i] = IF i = 0 THEN <<>>
        ELSE IF s[i] \in S THEN Append(f[i - 1], s[i]) ELSE f[i - 1]
  BY DEF Collects
<1>3. \A i \in 0..Len(t) : g[i] = IF i = 0 THEN <<>>
        ELSE IF t[i] \in S THEN Append(g[i - 1], t[i]) ELSE g[i - 1]
  BY DEF Collects
<1>4. 0 \in N
  BY <1>1, <1>2, <1>3
<1>5. ASSUME NEW n \in Nat, n \in N PROVE n + 1 \in N
  <2> SUFFICES ASSUME n + 1 <= Len(s) PROVE f[n + 1] = g[n + 1]
    OBVIOUS
  <2>1. /\ n + 1 \in 0..Len(s) /\ n + 1 \in 0..Len(t)
        /\ n + 1 # 0 /\ (n + 1) - 1 = n /\ t[n + 1] = s[n + 1]
    BY <1>1
  <2>2. f[n] = g[n]
    BY <1>1, <1>5
  <2>3. f[n + 1] = IF s[n + 1] \in S THEN Append(f[n], s[n + 1]) ELSE f[n]
    BY <1>2, <2>1
  <2>4. g[n + 1] = IF t[n + 1] \in S THEN Append(g[n], t[n + 1]) ELSE g[n]
    BY <1>3, <2>1
  <2> QED
    BY <2>1, <2>2, <2>3, <2>4
<1> HIDE DEF N
<1>6. Nat \subseteq N
  BY <1>4, <1>5, NatSetInduction
<1> QED
  BY <1>1, <1>6 DEF N

LEMMA FilterCollects ==
  ASSUME NEW X, NEW s \in Seq(X), NEW S
  PROVE  \E f : Collects(s, S, f) /\ Filter(s, S) = f[Len(s)]
<1> DEFINE f == CHOOSE f : Collects(s, S, f)
<1>1. Collects(s, S, f)
  BY CollectsExists
<1>2. Filter(s, S) = f[Len(s)]
  BY DEF Filter, Collects
<1> QED
  BY <1>1, <1>2

(* What is filtered of the empty sequence, and of one with a last element. *)
LEMMA FilterEmpty ==
  ASSUME NEW S
  PROVE  Filter(<<>>, S) = <<>>
<1>1. <<>> \in Seq({}) /\ Len(<<>>) = 0
  BY EmptySeq
<1>2. PICK f : Collects(<<>>, S, f) /\ Filter(<<>>, S) = f[0]
  BY <1>1, FilterCollects
<1> QED
  BY <1>1, <1>2 DEF Collects

LEMMA FilterAppend ==
  ASSUME NEW X, NEW s \in Seq(X), NEW e \in X, NEW S
  PROVE  Filter(Append(s, e), S) = IF e \in S THEN Append(Filter(s, S), e) ELSE Filter(s, S)
<1> DEFINE t == Append(s, e)
<1>1. t \in Seq(X) /\ Len(t) = Len(s) + 1 /\ Len(s) \in Nat /\ t[Len(t)] = e
  OBVIOUS
<1>2. \A i \in 1..Len(s) : t[i] = s[i]
  OBVIOUS
<1>3. PICK f : Collects(s, S, f) /\ Filter(s, S) = f[Len(s)]
  BY FilterCollects
<1>4. PICK g : Collects(t, S, g) /\ Filter(t, S) = g[Len(t)]
  BY <1>1, FilterCollects
<1> HIDE DEF t
<1>5. f[Len(s)] = g[Len(s)]
  BY <1>1, <1>2, <1>3, <1>4, CollectsUnique
<1>6. g[Len(t)] = IF t[Len(t)] \in S THEN Append(g[Len(t) - 1], t[Len(t)]) ELSE g[Len(t) - 1]
  <2>1. Len(t) \in 0..Len(t) /\ Len(t) # 0
    BY <1>1
  <2>2. \A i \in 0..Len(t) : g[i] = IF i = 0 THEN <<>>
          ELSE IF t[i] \in S THEN Append(g[i - 1], t[i]) ELSE g[i - 1]
    BY <1>4 DEF Collects
  <2> QED
    BY <2>1, <2>2
<1> QED
  BY <1>1, <1>3, <1>4, <1>5, <1>6 DEF t

LEMMA FilterType ==
  ASSUME NEW X, NEW s \in Seq(X), NEW S
  PROVE  Filter(s, S) \in Seq(X)
<1> DEFINE Q == {t \in Seq(X) : Filter(t, S) \in Seq(X)}
<1>1. <<>> \in Q
  BY FilterEmpty, EmptySeq
<1>2. ASSUME NEW t \in Seq(X), NEW e \in X, t \in Q PROVE Append(t, e) \in Q
  <2>1. Append(t, e) \in Seq(X) /\ Append(Filter(t, S), e) \in Seq(X)
    BY <1>2, AppendProperties
  <2>2. Filter(Append(t, e), S) = IF e \in S THEN Append(Filter(t, S), e) ELSE Filter(t, S)
    BY FilterAppend
  <2> QED
    BY <1>2, <2>1, <2>2
<1> HIDE DEF Q
<1>3. Seq(X) \subseteq Q
  BY <1>1, <1>2, SeqSetInduction
<1> QED
  BY <1>3 DEF Q

(* What an element appended adds to the set of elements.                   *)
LEMMA ToSetAppend ==
  ASSUME NEW X, NEW s \in Seq(X), NEW e \in X
  PROVE  ToSet(Append(s, e)) = ToSet(s) \cup {e}
<1>1. /\ Append(s, e) \in Seq(X) /\ Len(Append(s, e)) = Len(s) + 1
      /\ \A i \in 1..Len(s) : Append(s, e)[i] = s[i]
      /\ Append(s, e)[Len(s) + 1] = e
      /\ Len(s) \in Nat /\ DOMAIN s = 1..Len(s)
      /\ DOMAIN Append(s, e) = 1..(Len(s) + 1)
  BY AppendProperties, LenProperties
<1>2. Len(s) + 1 \in 1..(Len(s) + 1) /\ \A i \in 1..Len(s) : i \in 1..(Len(s) + 1)
  BY <1>1
<1>3. ASSUME NEW x \in ToSet(Append(s, e)) PROVE x \in ToSet(s) \cup {e}
  <2>1. PICK i \in 1..(Len(s) + 1) : x = Append(s, e)[i]
    BY <1>1 DEF ToSet
  <2>2. i \in 1..Len(s) \/ i = Len(s) + 1
    BY <1>1
  <2> QED
    BY <1>1, <2>1, <2>2 DEF ToSet
<1>4. ASSUME NEW x \in ToSet(s) PROVE x \in ToSet(Append(s, e))
  BY <1>1, <1>2 DEF ToSet
<1>5. e \in ToSet(Append(s, e))
  BY <1>1, <1>2 DEF ToSet
<1> QED
  BY <1>3, <1>4, <1>5

(* The elements of what is filtered are those in the set.                  *)
LEMMA FilterToSet ==
  ASSUME NEW X, NEW s \in Seq(X), NEW S
  PROVE  ToSet(Filter(s, S)) = ToSet(s) \cap S
<1> DEFINE Q == {t \in Seq(X) : ToSet(Filter(t, S)) = ToSet(t) \cap S}
<1>1. <<>> \in Q
  <2>1. <<>> \in Seq(X) /\ ToSet(<<>>) = {}
    BY EmptySeq DEF ToSet
  <2> QED
    BY <2>1, FilterEmpty
<1>2. ASSUME NEW t \in Seq(X), NEW e \in X, t \in Q PROVE Append(t, e) \in Q
  <2>1. Append(t, e) \in Seq(X) /\ Filter(t, S) \in Seq(X)
    BY AppendProperties, FilterType
  <2>2. ToSet(Append(t, e)) = ToSet(t) \cup {e}
    BY ToSetAppend
  <2>3. CASE e \in S
    <3>1. Filter(Append(t, e), S) = Append(Filter(t, S), e)
      BY <2>3, FilterAppend
    <3>2. ToSet(Append(Filter(t, S), e)) = ToSet(Filter(t, S)) \cup {e}
      BY <2>1, ToSetAppend
    <3> QED
      BY <1>2, <2>1, <2>2, <2>3, <3>1, <3>2
  <2>4. CASE e \notin S
    <3>1. Filter(Append(t, e), S) = Filter(t, S)
      BY <2>4, FilterAppend
    <3> QED
      BY <1>2, <2>1, <2>2, <2>4, <3>1
  <2> QED
    BY <2>3, <2>4
<1> HIDE DEF Q
<1>3. Seq(X) \subseteq Q
  BY <1>1, <1>2, SeqSetInduction
<1> QED
  BY <1>3 DEF Q

(* No element twice.                                                       *)
Once(s) == \A i, j \in DOMAIN s : s[i] = s[j] => i = j

LEMMA OnceAppend ==
  ASSUME NEW X, NEW s \in Seq(X), NEW e \in X
  PROVE  Once(Append(s, e)) <=> Once(s) /\ e \notin ToSet(s)
<1>1. /\ Append(s, e) \in Seq(X) /\ Len(Append(s, e)) = Len(s) + 1
      /\ \A i \in 1..Len(s) : Append(s, e)[i] = s[i]
      /\ Append(s, e)[Len(s) + 1] = e
      /\ Len(s) \in Nat /\ DOMAIN s = 1..Len(s)
      /\ DOMAIN Append(s, e) = 1..(Len(s) + 1)
  BY AppendProperties, LenProperties
<1>2. ASSUME Once(Append(s, e)) PROVE Once(s) /\ e \notin ToSet(s)
  BY <1>1, <1>2 DEF Once, ToSet
<1>3. ASSUME Once(s), e \notin ToSet(s) PROVE Once(Append(s, e))
  BY <1>1, <1>3 DEF Once, ToSet
<1> QED
  BY <1>2, <1>3

LEMMA FilterOnce ==
  ASSUME NEW X, NEW s \in Seq(X), NEW S, Once(s)
  PROVE  Once(Filter(s, S))
<1> DEFINE Q == {t \in Seq(X) : Once(t) => Once(Filter(t, S))}
<1>1. <<>> \in Q
  BY FilterEmpty, EmptySeq DEF Once
<1>2. ASSUME NEW t \in Seq(X), NEW e \in X, t \in Q PROVE Append(t, e) \in Q
  <2> SUFFICES ASSUME Once(Append(t, e)) PROVE Once(Filter(Append(t, e), S))
    BY AppendProperties
  <2>1. Once(t) /\ e \notin ToSet(t)
    BY OnceAppend
  <2>2. Once(Filter(t, S)) /\ e \notin ToSet(Filter(t, S)) /\ Filter(t, S) \in Seq(X)
    BY <1>2, <2>1, FilterToSet, FilterType
  <2>3. Once(Append(Filter(t, S), e))
    BY <2>2, OnceAppend
  <2> QED
    BY <2>2, <2>3, FilterAppend
<1> HIDE DEF Q
<1>3. Seq(X) \subseteq Q
  BY <1>1, <1>2, SeqSetInduction
<1> QED
  BY <1>3 DEF Q

(* Filter asks of the set only which elements of the sequence it has.      *)
LEMMA FilterAgrees ==
  ASSUME NEW X, NEW s \in Seq(X), NEW S, NEW T,
         \A e \in ToSet(s) : e \in S <=> e \in T
  PROVE  Filter(s, S) = Filter(s, T)
<1> DEFINE Q == {t \in Seq(X) : (\A e \in ToSet(t) : e \in S <=> e \in T)
                                  => Filter(t, S) = Filter(t, T)}
<1>1. <<>> \in Q
  BY FilterEmpty, EmptySeq
<1>2. ASSUME NEW t \in Seq(X), NEW e \in X, t \in Q PROVE Append(t, e) \in Q
  <2> SUFFICES ASSUME \A d \in ToSet(Append(t, e)) : d \in S <=> d \in T
               PROVE  Filter(Append(t, e), S) = Filter(Append(t, e), T)
    BY AppendProperties
  <2>1. ToSet(Append(t, e)) = ToSet(t) \cup {e}
    BY ToSetAppend
  <2>2. Filter(t, S) = Filter(t, T) /\ (e \in S <=> e \in T)
    BY <1>2, <2>1
  <2>3. Filter(Append(t, e), S) = IF e \in S THEN Append(Filter(t, S), e) ELSE Filter(t, S)
    BY FilterAppend
  <2>4. Filter(Append(t, e), T) = IF e \in T THEN Append(Filter(t, T), e) ELSE Filter(t, T)
    BY FilterAppend
  <2> QED
    BY <2>2, <2>3, <2>4
<1> HIDE DEF Q
<1>3. Seq(X) \subseteq Q
  BY <1>1, <1>2, SeqSetInduction
<1> QED
  BY <1>3 DEF Q

(* A sequence all of whose elements are in the set is left as it is.       *)
LEMMA FilterAll ==
  ASSUME NEW X, NEW s \in Seq(X)
  PROVE  Filter(s, X) = s
<1> DEFINE Q == {t \in Seq(X) : Filter(t, X) = t}
<1>1. <<>> \in Q
  BY FilterEmpty, EmptySeq
<1>2. \A t \in Seq(X), e \in X : t \in Q => Append(t, e) \in Q
  BY FilterAppend, AppendProperties
<1> HIDE DEF Q
<1>3. Seq(X) \subseteq Q
  BY <1>1, <1>2, SeqSetInduction
<1> QED
  BY <1>3 DEF Q

(* What is filtered of one sequence after another is filtered of each.     *)
LEMMA FilterConcat ==
  ASSUME NEW X, NEW s \in Seq(X), NEW t \in Seq(X), NEW S
  PROVE  Filter(s \o t, S) = Filter(s, S) \o Filter(t, S)
<1> DEFINE Q == {u \in Seq(X) : Filter(s \o u, S) = Filter(s, S) \o Filter(u, S)}
<1>1. <<>> \in Q
  <2>1. Filter(s, S) \in Seq(X)
    BY FilterType
  <2> QED
    BY <2>1, FilterEmpty, ConcatEmptySeq, EmptySeq
<1>2. ASSUME NEW u \in Seq(X), NEW e \in X, u \in Q PROVE Append(u, e) \in Q
  <2>1. s \o u \in Seq(X) /\ Append(u, e) \in Seq(X) /\ s \o Append(u, e) = Append(s \o u, e)
    OBVIOUS
  <2>2. Filter(Append(s \o u, e), S)
          = IF e \in S THEN Append(Filter(s \o u, S), e) ELSE Filter(s \o u, S)
    BY <2>1, FilterAppend
  <2>3. Filter(Append(u, e), S) = IF e \in S THEN Append(Filter(u, S), e) ELSE Filter(u, S)
    BY FilterAppend
  <2>4. Filter(s, S) \in Seq(X) /\ Filter(u, S) \in Seq(X)
    BY FilterType
  <2>5. Append(Filter(s, S) \o Filter(u, S), e) = Filter(s, S) \o Append(Filter(u, S), e)
    <3> DEFINE p == Filter(s, S)
               q == Filter(u, S)
               last == <<e>>
    <3>1. p \in Seq(X) /\ q \in Seq(X) /\ last \in Seq(X) /\ p \o q \in Seq(X)
      BY <2>4, ConcatProperties
    <3> HIDE DEF p, q
    <3> DEFINE r == p \o q
    <3>2. Append(q, e) = q \o last
      BY <3>1, AppendIsConcat
    <3>3. r \in Seq(X)
      BY <3>1
    <3> HIDE DEF r
    <3>4. Append(r, e) = r \o last
      BY <3>3, AppendIsConcat
    <3> HIDE DEF last
    <3>5. (p \o q) \o last = p \o (q \o last)
      BY <3>1, ConcatAssociative, SMTT(20)
    <3> USE DEF r
    <3>6. Append(p \o q, e) = p \o Append(q, e)
      BY <3>2, <3>4, <3>5
    <3> QED
      BY <3>6 DEF p, q
  <2>6. Filter(s \o u, S) = Filter(s, S) \o Filter(u, S)
    BY <1>2
  <2>7. CASE e \in S
    BY <2>1, <2>2, <2>3, <2>5, <2>6, <2>7
  <2>8. CASE e \notin S
    BY <2>1, <2>2, <2>3, <2>6, <2>8
  <2> QED
    BY <2>1, <2>7, <2>8
<1> HIDE DEF Q
<1>3. Seq(X) \subseteq Q
  BY <1>1, <1>2, SeqSetInduction
<1> QED
  BY <1>3 DEF Q

-----------------------------------------------------------------------------
(* What FlattenSeq has put together at each index.                         *)
Joins(seqs, f) ==
  f = [i \in 1..Len(seqs) |-> IF i = 1 THEN seqs[i] ELSE f[i - 1] \o seqs[i]]

LEMMA JoinsOfAppend ==
  ASSUME NEW X, NEW s \in Seq(X), NEW e \in X, NEW f, Joins(s, f)
  PROVE  \E g : Joins(Append(s, e), g)
<1> DEFINE last == IF Len(s) = 0 THEN e ELSE f[Len(s)] \o e
           g == [i \in 1..(Len(s) + 1) |-> IF i = Len(s) + 1 THEN last ELSE f[i]]
<1>1. Len(s) \in Nat /\ Len(Append(s, e)) = Len(s) + 1
  OBVIOUS
<1>2. \A i \in 1..Len(s) : Append(s, e)[i] = s[i]
  OBVIOUS
<1>3. Append(s, e)[Len(s) + 1] = e
  OBVIOUS
<1>4. \A i \in 1..Len(s) : f[i] = IF i = 1 THEN s[i] ELSE f[i - 1] \o s[i]
  BY DEF Joins
<1>5. ASSUME NEW i \in 1..(Len(s) + 1)
      PROVE  g[i] = IF i = 1 THEN Append(s, e)[i] ELSE g[i - 1] \o Append(s, e)[i]
  <2>1. CASE i = Len(s) + 1
    BY <2>1, <1>1, <1>3
  <2>2. CASE i # Len(s) + 1
    BY <2>2, <1>1, <1>2, <1>4
  <2> QED
    BY <2>1, <2>2
<1>6. Joins(Append(s, e), g)
  <2>1. g = [i \in 1..(Len(s) + 1) |-> g[i]]
    OBVIOUS
  <2> HIDE DEF g
  <2> QED
    BY <1>1, <1>5, <2>1 DEF Joins
<1> QED
  BY <1>6

LEMMA JoinsExists ==
  ASSUME NEW X, NEW s \in Seq(X)
  PROVE  \E f : Joins(s, f)
<1> DEFINE Q == {t \in Seq(X) : \E f : Joins(t, f)}
<1>1. <<>> \in Q
  <2>1. Joins(<<>>, [i \in 1..0 |-> <<>>])
    BY DEF Joins
  <2> QED
    BY <2>1, EmptySeq
<1>2. \A t \in Seq(X), e \in X : t \in Q => Append(t, e) \in Q
  BY JoinsOfAppend, AppendProperties
<1> HIDE DEF Q
<1>3. Seq(X) \subseteq Q
  BY <1>1, <1>2, SeqSetInduction
<1> QED
  BY <1>3 DEF Q

LEMMA JoinsUnique ==
  ASSUME NEW X, NEW s \in Seq(X), NEW f, NEW g, Joins(s, f),
         NEW t \in Seq(X), Joins(t, g),
         Len(s) <= Len(t), \A i \in 1..Len(s) : t[i] = s[i]
  PROVE  Len(s) # 0 => f[Len(s)] = g[Len(s)]
<1> DEFINE N == {n \in Nat : n \in 1..Len(s) => f[n] = g[n]}
<1>1. Len(s) \in Nat /\ Len(t) \in Nat
  OBVIOUS
<1>2. \A i \in 1..Len(s) : f[i] = IF i = 1 THEN s[i] ELSE f[i - 1] \o s[i]
  BY DEF Joins
<1>3. \A i \in 1..Len(t) : g[i] = IF i = 1 THEN t[i] ELSE g[i - 1] \o t[i]
  BY DEF Joins
<1>4. 0 \in N
  OBVIOUS
<1>5. ASSUME NEW n \in Nat, n \in N PROVE n + 1 \in N
  <2> SUFFICES ASSUME n + 1 \in 1..Len(s) PROVE f[n + 1] = g[n + 1]
    OBVIOUS
  <2>1. /\ n + 1 \in 1..Len(t) /\ (n + 1) - 1 = n /\ t[n + 1] = s[n + 1]
        /\ n + 1 # 1 => n \in 1..Len(s)
    BY <1>1
  <2>2. n + 1 # 1 => f[n] = g[n]
    BY <1>1, <1>5, <2>1
  <2>3. f[n + 1] = IF n + 1 = 1 THEN s[n + 1] ELSE f[n] \o s[n + 1]
    BY <1>2, <2>1
  <2>4. g[n + 1] = IF n + 1 = 1 THEN t[n + 1] ELSE g[n] \o t[n + 1]
    BY <1>3, <2>1
  <2> QED
    BY <2>1, <2>2, <2>3, <2>4
<1> HIDE DEF N
<1>6. Nat \subseteq N
  BY <1>4, <1>5, NatSetInduction
<1> QED
  BY <1>1, <1>6 DEF N

LEMMA FlattenJoins ==
  ASSUME NEW X, NEW s \in Seq(X), Len(s) # 0
  PROVE  \E f : Joins(s, f) /\ FlattenSeq(s) = f[Len(s)]
<1> DEFINE f == CHOOSE f : Joins(s, f)
<1>1. Joins(s, f)
  BY JoinsExists
<1>2. FlattenSeq(s) = f[Len(s)]
  BY DEF FlattenSeq, Joins
<1> QED
  BY <1>1, <1>2

(* The concatenation of no sequences, and of some and a last one.          *)
LEMMA FlattenEmpty == FlattenSeq(<<>>) = <<>>
  BY EmptySeq DEF FlattenSeq

LEMMA FlattenAppend ==
  ASSUME NEW X, NEW s \in Seq(Seq(X)), NEW e \in Seq(X)
  PROVE  FlattenSeq(Append(s, e)) = FlattenSeq(s) \o e
<1> DEFINE t == Append(s, e)
<1>1. /\ t \in Seq(Seq(X)) /\ Len(t) = Len(s) + 1 /\ Len(s) \in Nat
      /\ t[Len(t)] = e /\ Len(t) # 0 /\ Len(t) \in 1..Len(t) /\ Len(t) - 1 = Len(s)
  BY AppendProperties, LenProperties
<1>2. \A i \in 1..Len(s) : t[i] = s[i]
  OBVIOUS
<1>3. PICK g : Joins(t, g) /\ FlattenSeq(t) = g[Len(t)]
  BY <1>1, FlattenJoins
<1> HIDE DEF t
<1>4. g[Len(t)] = IF Len(t) = 1 THEN e ELSE g[Len(s)] \o e
  <2>1. \A i \in 1..Len(t) : g[i] = IF i = 1 THEN t[i] ELSE g[i - 1] \o t[i]
    BY <1>3 DEF Joins
  <2> QED
    BY <1>1, <2>1
<1>5. CASE Len(s) = 0
  <2>1. s = <<>> /\ <<>> \o e = e
    BY <1>5, EmptySeq, ConcatEmptySeq
  <2> QED
    BY <1>1, <1>3, <1>4, <1>5, <2>1, FlattenEmpty DEF t
<1>6. CASE Len(s) # 0
  <2>1. PICK f : Joins(s, f) /\ FlattenSeq(s) = f[Len(s)]
    BY <1>6, FlattenJoins
  <2>2. t \in Seq(Seq(X)) /\ Len(s) <= Len(t)
    BY <1>1
  <2>3. f[Len(s)] = g[Len(s)]
    BY <1>2, <1>3, <1>6, <2>1, <2>2, JoinsUnique
  <2> QED
    BY <1>1, <1>3, <1>4, <1>6, <2>1, <2>3 DEF t
<1> QED
  BY <1>5, <1>6

LEMMA FlattenType ==
  ASSUME NEW X, NEW s \in Seq(Seq(X))
  PROVE  FlattenSeq(s) \in Seq(X)
<1> DEFINE Q == {t \in Seq(Seq(X)) : FlattenSeq(t) \in Seq(X)}
<1>1. <<>> \in Q
  BY FlattenEmpty, EmptySeq
<1>2. ASSUME NEW t \in Seq(Seq(X)), NEW e \in Seq(X), t \in Q PROVE Append(t, e) \in Q
  BY <1>2, FlattenAppend, AppendProperties, ConcatProperties
<1> HIDE DEF Q
<1>3. Seq(Seq(X)) \subseteq Q
  BY <1>1, <1>2, SeqSetInduction
<1> QED
  BY <1>3 DEF Q

LEMMA ToSetConcat ==
  ASSUME NEW X, NEW s \in Seq(X), NEW t \in Seq(X)
  PROVE  ToSet(s \o t) = ToSet(s) \cup ToSet(t)
<1>1. /\ s \o t \in Seq(X) /\ Len(s \o t) = Len(s) + Len(t)
      /\ \A i \in 1..(Len(s) + Len(t)) : (s \o t)[i] = IF i <= Len(s) THEN s[i] ELSE t[i - Len(s)]
      /\ Len(s) \in Nat /\ Len(t) \in Nat
      /\ DOMAIN s = 1..Len(s) /\ DOMAIN t = 1..Len(t)
      /\ DOMAIN (s \o t) = 1..(Len(s) + Len(t))
  BY ConcatProperties, LenProperties
<1>2. ASSUME NEW x \in ToSet(s \o t) PROVE x \in ToSet(s) \cup ToSet(t)
  <2>1. PICK i \in 1..(Len(s) + Len(t)) : x = (s \o t)[i]
    BY <1>1 DEF ToSet
  <2>2. i \in 1..Len(s) \/ (i - Len(s) \in 1..Len(t) /\ ~(i <= Len(s)))
    BY <1>1
  <2> QED
    BY <1>1, <2>1, <2>2 DEF ToSet
<1>3. ASSUME NEW x \in ToSet(s) PROVE x \in ToSet(s \o t)
  <2>1. PICK i \in 1..Len(s) : x = s[i]
    BY <1>1 DEF ToSet
  <2>2. i \in 1..(Len(s) + Len(t)) /\ (s \o t)[i] = s[i]
    BY <1>1
  <2> QED
    BY <1>1, <2>1, <2>2 DEF ToSet
<1>4. ASSUME NEW x \in ToSet(t) PROVE x \in ToSet(s \o t)
  <2>1. PICK i \in 1..Len(t) : x = t[i]
    BY <1>1 DEF ToSet
  <2>2. Len(s) + i \in 1..(Len(s) + Len(t)) /\ (s \o t)[Len(s) + i] = t[i]
    BY <1>1
  <2> QED
    BY <1>1, <2>1, <2>2 DEF ToSet
<1> QED
  BY <1>2, <1>3, <1>4

(* The elements of the concatenation are those of the parts.               *)
LEMMA FlattenToSet ==
  ASSUME NEW X, NEW s \in Seq(Seq(X))
  PROVE  ToSet(FlattenSeq(s)) = UNION {ToSet(t) : t \in ToSet(s)}
<1> DEFINE Q == {t \in Seq(Seq(X)) : ToSet(FlattenSeq(t)) = UNION {ToSet(u) : u \in ToSet(t)}}
<1>1. <<>> \in Q
  <2>1. ToSet(<<>>) = {}
    BY DEF ToSet
  <2> QED
    BY <2>1, FlattenEmpty, EmptySeq
<1>2. ASSUME NEW t \in Seq(Seq(X)), NEW e \in Seq(X), t \in Q PROVE Append(t, e) \in Q
  <2>1. ToSet(Append(t, e)) = ToSet(t) \cup {e} /\ Append(t, e) \in Seq(Seq(X))
    BY ToSetAppend, AppendProperties
  <2>2. ToSet(FlattenSeq(Append(t, e))) = ToSet(FlattenSeq(t)) \cup ToSet(e)
    <3>1. FlattenSeq(Append(t, e)) = FlattenSeq(t) \o e
      BY FlattenAppend
    <3>2. FlattenSeq(t) \in Seq(X)
      BY FlattenType
    <3> QED
      BY <3>1, <3>2, ToSetConcat
  <2> QED
    BY <1>2, <2>1, <2>2
<1> HIDE DEF Q
<1>3. Seq(Seq(X)) \subseteq Q
  BY <1>1, <1>2, SeqSetInduction
<1> QED
  BY <1>3 DEF Q

LEMMA OnceConcat ==
  ASSUME NEW X, NEW s \in Seq(X), NEW t \in Seq(X),
         Once(s), Once(t), ToSet(s) \cap ToSet(t) = {}
  PROVE  Once(s \o t)
<1>1. /\ s \o t \in Seq(X) /\ Len(s \o t) = Len(s) + Len(t)
      /\ \A i \in 1..(Len(s) + Len(t)) : (s \o t)[i] = IF i <= Len(s) THEN s[i] ELSE t[i - Len(s)]
      /\ Len(s) \in Nat /\ Len(t) \in Nat
      /\ DOMAIN s = 1..Len(s) /\ DOMAIN t = 1..Len(t)
      /\ DOMAIN (s \o t) = 1..(Len(s) + Len(t))
  BY ConcatProperties, LenProperties
<1>2. \A i \in 1..Len(s), j \in 1..Len(t) : s[i] # t[j]
  BY <1>1 DEF ToSet
<1> SUFFICES ASSUME NEW i \in 1..(Len(s) + Len(t)), NEW j \in 1..(Len(s) + Len(t)),
                    (s \o t)[i] = (s \o t)[j]
             PROVE  i = j
  BY <1>1 DEF Once
<1>3. CASE i <= Len(s) /\ j <= Len(s)
  BY <1>1, <1>3 DEF Once
<1>4. CASE ~(i <= Len(s)) /\ ~(j <= Len(s))
  <2>1. i - Len(s) \in 1..Len(t) /\ j - Len(s) \in 1..Len(t)
    BY <1>1, <1>4
  <2>2. i - Len(s) = j - Len(s)
    BY <1>1, <1>4, <2>1 DEF Once
  <2> QED
    BY <1>1, <2>2
<1>5. CASE i <= Len(s) /\ ~(j <= Len(s))
  <2>1. i \in 1..Len(s) /\ j - Len(s) \in 1..Len(t)
    BY <1>1, <1>5
  <2> QED
    BY <1>1, <1>2, <1>5, <2>1
<1>6. CASE ~(i <= Len(s)) /\ j <= Len(s)
  <2>1. j \in 1..Len(s) /\ i - Len(s) \in 1..Len(t)
    BY <1>1, <1>6
  <2> QED
    BY <1>1, <1>2, <1>6, <2>1
<1> QED
  BY <1>3, <1>4, <1>5, <1>6

(* Nor twice in a concatenation, of parts that have none in common.        *)
LEMMA FlattenOnce ==
  ASSUME NEW X, NEW s \in Seq(Seq(X)),
         \A i \in DOMAIN s : Once(s[i]),
         \A i, j \in DOMAIN s : i # j => ToSet(s[i]) \cap ToSet(s[j]) = {}
  PROVE  Once(FlattenSeq(s))
<1> DEFINE Apart(t) == /\ \A i \in DOMAIN t : Once(t[i])
                       /\ \A i, j \in DOMAIN t : i # j => ToSet(t[i]) \cap ToSet(t[j]) = {}
           Q == {t \in Seq(Seq(X)) : Apart(t) => Once(FlattenSeq(t))}
<1>1. <<>> \in Q
  BY FlattenEmpty, EmptySeq DEF Once
<1>2. ASSUME NEW t \in Seq(Seq(X)), NEW e \in Seq(X), t \in Q PROVE Append(t, e) \in Q
  <2> SUFFICES ASSUME Apart(Append(t, e)) PROVE Once(FlattenSeq(Append(t, e)))
    BY AppendProperties
  <2>1. /\ \A i \in 1..Len(t) : Append(t, e)[i] = t[i]
        /\ Append(t, e)[Len(t) + 1] = e
        /\ Len(t) \in Nat /\ DOMAIN t = 1..Len(t)
        /\ DOMAIN Append(t, e) = 1..(Len(t) + 1)
    BY AppendProperties, LenProperties
  <2>2. \A i \in 1..Len(t) : i \in 1..(Len(t) + 1) /\ i # Len(t) + 1
    BY <2>1
  <2>3. Len(t) + 1 \in 1..(Len(t) + 1)
    BY <2>1
  <2>4. Apart(t)
    BY <2>1, <2>2
  <2>5. Once(e) /\ \A i \in 1..Len(t) : ToSet(t[i]) \cap ToSet(e) = {}
    BY <2>1, <2>2, <2>3
  <2>6. FlattenSeq(t) \in Seq(X) /\ Once(FlattenSeq(t))
    BY <1>2, <2>4, FlattenType
  <2>7. ToSet(FlattenSeq(t)) \cap ToSet(e) = {}
    <3>1. ASSUME NEW u \in ToSet(t) PROVE ToSet(u) \cap ToSet(e) = {}
      <4>1. PICK i \in 1..Len(t) : u = t[i]
        BY <2>1 DEF ToSet
      <4> QED
        BY <2>5, <4>1
    <3>2. ToSet(FlattenSeq(t)) = UNION {ToSet(u) : u \in ToSet(t)}
      BY FlattenToSet
    <3> QED
      BY <3>1, <3>2
  <2>8. Once(FlattenSeq(t) \o e)
    BY <2>5, <2>6, <2>7, OnceConcat
  <2> QED
    BY <2>8, FlattenAppend
<1>3. Apart(s)
  OBVIOUS
<1> HIDE DEF Apart
<1>4. Seq(Seq(X)) \subseteq Q
  <2> HIDE DEF Q
  <2> QED
    BY <1>1, <1>2, SeqSetInduction
<1> QED
  BY <1>3, <1>4

LEMMA EmptyToSet ==
  ASSUME NEW X, NEW s \in Seq(X)
  PROVE  s = <<>> <=> ToSet(s) = {}
<1>1. DOMAIN s = 1..Len(s) /\ Len(s) \in Nat /\ (s # <<>> => Len(s) \in Nat \ {0})
  BY LenProperties, EmptySeq
<1>2. ASSUME s # <<>> PROVE s[1] \in ToSet(s)
  <2>1. 1 \in DOMAIN s
    BY <1>1, <1>2
  <2> QED
    BY <2>1 DEF ToSet
<1>3. ToSet(<<>>) = {}
  BY DEF ToSet
<1> QED
  BY <1>2, <1>3

(* The first of the elements is the only one if they are all the same.     *)
LEMMA FirstToSet ==
  ASSUME NEW X, NEW s \in Seq(X)
  PROVE  /\ First(s) \in Seq(X)
         /\ First(s) = <<>> <=> ToSet(s) = {}
         /\ (\A x, y \in ToSet(s) : x = y) => ToSet(First(s)) = ToSet(s)
<1>1. CASE s = <<>>
  <2>1. First(s) = <<>>
    BY <1>1 DEF First
  <2> QED
    BY <1>1, <2>1, EmptyToSet
<1>2. CASE s # <<>>
  <2>1. Len(s) \in Nat \ {0} /\ DOMAIN s = 1..Len(s)
    BY <1>2, EmptySeq, LenProperties
  <2>2. s[1] \in X /\ s[1] \in ToSet(s)
    BY <2>1 DEF ToSet
  <2>3. First(s) = <<s[1]>>
    <3>1. SubSeq(s, 1, 1) \in Seq(X) /\ Len(SubSeq(s, 1, 1)) = 1 /\ SubSeq(s, 1, 1)[1] = s[1]
      BY <2>2, SubSeqProperties
    <3>2. <<s[1]>> \in Seq(X) /\ Len(<<s[1]>>) = 1 /\ <<s[1]>>[1] = s[1]
      BY <2>2
    <3>3. \A i \in 1..1 : SubSeq(s, 1, 1)[i] = <<s[1]>>[i]
      BY <3>1, <3>2
    <3>4. SubSeq(s, 1, 1) = <<s[1]>>
      BY <3>1, <3>2, <3>3, SeqEqual
    <3> QED
      BY <1>2, <3>4 DEF First
  <2>4. ToSet(<<s[1]>>) = {s[1]} /\ <<s[1]>> \in Seq(X) /\ <<s[1]>> # <<>>
    BY <2>2 DEF ToSet
  <2> QED
    BY <2>2, <2>3, <2>4
<1> QED
  BY <1>1, <1>2

LEMMA SeveralToSet ==
  ASSUME NEW X, NEW s \in Seq(X), Once(s)
  PROVE  Len(s) > 1 <=> \E x, y \in ToSet(s) : x # y
<1>1. DOMAIN s = 1..Len(s) /\ Len(s) \in Nat
  BY LenProperties
<1>2. ASSUME Len(s) > 1 PROVE \E x, y \in ToSet(s) : x # y
  <2>1. 1 \in DOMAIN s /\ 2 \in DOMAIN s /\ 1 # 2
    BY <1>1, <1>2
  <2>2. s[1] # s[2]
    BY <2>1 DEF Once
  <2> QED
    BY <2>1, <2>2 DEF ToSet
<1>3. ASSUME NEW x \in ToSet(s), NEW y \in ToSet(s), x # y PROVE Len(s) > 1
  <2>1. PICK i \in 1..Len(s), j \in 1..Len(s) : x = s[i] /\ y = s[j]
    BY <1>1 DEF ToSet
  <2> QED
    BY <1>1, <1>3, <2>1
<1> QED
  BY <1>2, <1>3

-----------------------------------------------------------------------------
(* The tags of a device, as a sequence and as a set.                       *)
LEMMA TagsOfDevice ==
  ASSUME NEW devices, Distinct(devices), NEW i \in DOMAIN devices
  PROVE  /\ TagsOf(devices[i]) \in Seq(TagSet(devices))
         /\ ToSet(TagsOf(devices[i])) = {t \in TagSet(devices) : t.device = devices[i].key}
         /\ Once(TagsOf(devices[i]))
         /\ \A s, t \in ToSet(TagsOf(devices[i])) : s.browseName = t.browseName => s = t
<1> DEFINE d == devices[i]
           tags == TagsOf(d)
<1>1. PICK n \in Nat : DOMAIN d.tags = 1..n
  BY LenProperties DEF Distinct, IsSeq
<1>2. /\ DOMAIN tags = 1..n
      /\ \A j \in 1..n : tags[j] = Label(d, d.tags[j])
  BY <1>1 DEF TagsOf
<1>3. \A j \in 1..n : tags[j] \in TagSet(devices)
  BY <1>1, <1>2 DEF TagSet
<1>4. tags \in Seq(TagSet(devices))
  BY <1>1, <1>3 DEF TagsOf
<1>5. \A j, k \in 1..n : tags[j].nodeId = tags[k].nodeId => j = k
  BY <1>1, <1>2 DEF Distinct, Label
<1>6. \A j, k \in 1..n : tags[j].browseName = tags[k].browseName => j = k
  BY <1>1, <1>2 DEF Distinct, Label
<1>7. ASSUME NEW t \in TagSet(devices), t.device = d.key PROVE t \in ToSet(tags)
  <2>1. PICK j \in DOMAIN devices : \E k \in DOMAIN devices[j].tags :
          t = Label(devices[j], devices[j].tags[k])
    BY DEF TagSet
  <2>2. devices[j].key = devices[i].key
    BY <1>7, <2>1 DEF Label
  <2>3. j = i
    BY <2>2 DEF Distinct
  <2> QED
    BY <1>1, <1>2, <2>1, <2>3 DEF ToSet
<1>8. ASSUME NEW t \in ToSet(tags) PROVE t \in TagSet(devices) /\ t.device = d.key
  <2>1. PICK j \in 1..n : t = tags[j]
    BY <1>2 DEF ToSet
  <2> QED
    BY <1>2, <1>3, <2>1 DEF Label
<1>9. ToSet(tags) = {t \in TagSet(devices) : t.device = d.key}
  <2> HIDE DEF d, tags
  <2> QED
    BY <1>7, <1>8
<1>10. Once(tags)
  BY <1>2, <1>5 DEF Once
<1>11. \A s, t \in ToSet(tags) : s.browseName = t.browseName => s = t
  BY <1>2, <1>6 DEF ToSet
<1> QED
  BY <1>4, <1>9, <1>10, <1>11

(* Those of all devices.                                                   *)
LEMMA TagsOfAll ==
  ASSUME NEW devices, Distinct(devices)
  PROVE  /\ AllTags(devices) \in Seq(TagSet(devices))
         /\ ToSet(AllTags(devices)) = TagSet(devices)
         /\ Once(AllTags(devices))
         /\ \A s, t \in TagSet(devices) : s.nodeId = t.nodeId => s = t
<1> DEFINE parts == [i \in DOMAIN devices |-> TagsOf(devices[i])]
<1>1. PICK n \in Nat : DOMAIN devices = 1..n
  BY LenProperties DEF Distinct, IsSeq
<1>2. /\ DOMAIN parts = 1..n
      /\ \A i \in 1..n : /\ parts[i] = TagsOf(devices[i])
                         /\ parts[i] \in Seq(TagSet(devices))
                         /\ Once(parts[i])
                         /\ ToSet(parts[i]) = {t \in TagSet(devices) : t.device = devices[i].key}
  BY <1>1, TagsOfDevice
<1>3. parts \in Seq(Seq(TagSet(devices)))
  BY <1>1, <1>2
<1>4. AllTags(devices) = FlattenSeq(parts)
  BY DEF AllTags
<1> HIDE DEF parts
<1>5. \A i, j \in 1..n : i # j => ToSet(parts[i]) \cap ToSet(parts[j]) = {}
  <2>1. \A i, j \in 1..n : i # j => devices[i].key # devices[j].key
    BY <1>1 DEF Distinct
  <2> QED
    BY <1>2, <2>1
<1>6. Once(FlattenSeq(parts))
  BY <1>2, <1>3, <1>5, FlattenOnce
<1>7. FlattenSeq(parts) \in Seq(TagSet(devices))
  BY <1>3, FlattenType
<1>8. ASSUME NEW t \in TagSet(devices) PROVE t \in ToSet(FlattenSeq(parts))
  <2>1. PICK i \in 1..n : \E k \in DOMAIN devices[i].tags : t = Label(devices[i], devices[i].tags[k])
    BY <1>1 DEF TagSet
  <2>2. t.device = devices[i].key
    BY <2>1 DEF Label
  <2>3. t \in ToSet(parts[i])
    BY <1>2, <2>2
  <2>4. parts[i] \in ToSet(parts)
    BY <1>2 DEF ToSet
  <2>5. ToSet(FlattenSeq(parts)) = UNION {ToSet(u) : u \in ToSet(parts)}
    BY <1>3, FlattenToSet
  <2> QED
    BY <2>3, <2>4, <2>5
<1>9. ToSet(FlattenSeq(parts)) \subseteq TagSet(devices)
  <2>1. FlattenSeq(parts) \in [1..Len(FlattenSeq(parts)) -> TagSet(devices)]
    BY <1>7, LenProperties
  <2> QED
    BY <2>1 DEF ToSet
<1>10. \A s, t \in TagSet(devices) : s.nodeId = t.nodeId => s = t
  <2> TAKE s, t \in TagSet(devices)
  <2> HAVE s.nodeId = t.nodeId
  <2>1. PICK i \in DOMAIN devices : \E k \in DOMAIN devices[i].tags :
          s = Label(devices[i], devices[i].tags[k])
    BY DEF TagSet
  <2>2. PICK j \in DOMAIN devices : \E l \in DOMAIN devices[j].tags :
          t = Label(devices[j], devices[j].tags[l])
    BY DEF TagSet
  <2>3. PICK k \in DOMAIN devices[i].tags : s = Label(devices[i], devices[i].tags[k])
    BY <2>1
  <2>4. PICK l \in DOMAIN devices[j].tags : t = Label(devices[j], devices[j].tags[l])
    BY <2>2
  <2>5. devices[i].tags[k].nodeId = devices[j].tags[l].nodeId
    BY <2>3, <2>4 DEF Label
  <2>6. i = j /\ k = l
    BY <2>5 DEF Distinct
  <2> QED
    BY <2>3, <2>4, <2>6
<1> QED
  BY <1>4, <1>6, <1>7, <1>8, <1>9, <1>10

-----------------------------------------------------------------------------
(* What the combinations of the documentation are, flag by flag.           *)
LEMMA AllowedFlags ==
  ASSUME NEW options
  PROVE  AllowedTogether(options) <=>
           /\ Given(options.nodeId) =>
                /\ ~Given(options.device) /\ ~Given(options.browseName)
                /\ options.tags = Unset
           /\ options.tags # Unset => Given(options.device) /\ ~Given(options.browseName)
<1> DEFINE N == Given(options.nodeId)
           D == Given(options.device)
           B == Given(options.browseName)
           T == options.tags # Unset
           flags == {o \in {"device", "nodeId", "browseName"} : Given(options[o])}
                      \cup {o \in {"tags"} : T}
<1>1. /\ "nodeId" \in flags <=> N
      /\ "device" \in flags <=> D
      /\ "browseName" \in flags <=> B
      /\ "tags" \in flags <=> T
      /\ \A o \in flags : o \in {"device", "nodeId", "browseName", "tags"}
  OBVIOUS
<1>2. AllowedTogether(options) <=> flags \in Combinations
  BY DEF AllowedTogether
<1> HIDE DEF flags, N, D, B, T
<1>3. flags \in Combinations =>
        (N => ~D /\ ~B /\ ~T) /\ (T => D /\ ~B)
  BY <1>1 DEF Combinations
<1>4. ASSUME N => ~D /\ ~B /\ ~T, T => D /\ ~B PROVE flags \in Combinations
  <2>1. CASE N
    <3>1. flags = {"nodeId"}
      BY <1>1, <1>4, <2>1
    <3> QED
      BY <3>1 DEF Combinations
  <2>2. CASE ~N /\ T
    <3>1. flags = {"device", "tags"}
      BY <1>1, <1>4, <2>2
    <3> QED
      BY <3>1 DEF Combinations
  <2>3. CASE ~N /\ ~T /\ D /\ B
    <3>1. flags = {"device", "browseName"}
      BY <1>1, <2>3
    <3> QED
      BY <3>1 DEF Combinations
  <2>4. CASE ~N /\ ~T /\ D /\ ~B
    <3>1. flags = {"device"}
      BY <1>1, <2>4
    <3> QED
      BY <3>1 DEF Combinations
  <2>5. CASE ~N /\ ~T /\ ~D /\ B
    <3>1. flags = {"browseName"}
      BY <1>1, <2>5
    <3> QED
      BY <3>1 DEF Combinations
  <2>6. CASE ~N /\ ~T /\ ~D /\ ~B
    <3>1. flags = {}
      BY <1>1, <2>6
    <3> QED
      BY <3>1 DEF Combinations
  <2> QED
    BY <2>1, <2>2, <2>3, <2>4, <2>5, <2>6
<1> QED
  BY <1>2, <1>3, <1>4 DEF N, D, B, T

(* buildTagSelectorPayload throws for exactly the options that the         *)
(* documentation does not allow together, whatever they are given.         *)
THEOREM RefusedAsDocumented ==
  ASSUME NEW options
  PROVE  Invalid(options) <=> ~AllowedTogether(options)
<1>1. Given(options.tags) => options.tags # Unset
  BY DEF Given
<1>2. Invalid(options) <=>
        \/ /\ Given(options.nodeId)
           /\ Given(options.device) \/ Given(options.browseName) \/ Given(options.tags)
        \/ options.tags # Unset /\ (Given(options.browseName) \/ ~Given(options.device))
  BY DEF Invalid
<1> QED
  BY <1>1, <1>2, AllowedFlags

-----------------------------------------------------------------------------
(* find, where there is one at most.                                       *)
LEMMA FindToSet ==
  ASSUME NEW X, NEW s \in Seq(X), NEW S, \A x, y \in ToSet(s) \cap S : x = y
  PROVE  /\ First(Filter(s, S)) \in Seq(X)
         /\ First(Filter(s, S)) = <<>> <=> ToSet(s) \cap S = {}
         /\ ToSet(First(Filter(s, S))) = ToSet(s) \cap S
<1>1. Filter(s, S) \in Seq(X) /\ ToSet(Filter(s, S)) = ToSet(s) \cap S
  BY FilterType, FilterToSet
<1> QED
  BY <1>1, FirstToSet

(* What an answer has to be: the documented error, and the documented tags.*)
Documented(answer, devices, options) ==
  /\ answer.error = Selection(devices, options).error
  /\ answer.tags \in Seq(TagSet(devices))
  /\ ToSet(answer.tags) = Selection(devices, options).tags

LEMMA FoundOrFields ==
  ASSUME NEW X, NEW tags \in Seq(X)
  PROVE  /\ FoundOr(tags).error = IF ToSet(tags) = {} THEN "TAG_NOT_FOUND" ELSE "none"
         /\ FoundOr(tags).tags = tags
BY EmptyToSet DEF FoundOr, Error, Resolved

LEMMA ResolvesNodeId ==
  ASSUME NEW devices, Distinct(devices), NEW options, AllowedTogether(options),
         Given(options.nodeId)
  PROVE  Documented(ResolveTagSelector(devices, BuildTagSelectorPayload(options)),
                    devices, options)
<1> DEFINE all == AllTags(devices)
           wanted == {t \in TagSet(devices) : t.nodeId = options.nodeId}
           found == First(ByNodeId(all, options.nodeId))
<1>1. ~Given(options.device) /\ ~Given(options.browseName) /\ options.tags = Unset
  BY AllowedFlags
<1>2. ResolveTagSelector(devices, BuildTagSelectorPayload(options)) = FoundOr(found)
  BY DEF ResolveTagSelector, BuildTagSelectorPayload
<1>3. /\ all \in Seq(TagSet(devices)) /\ ToSet(all) = TagSet(devices)
      /\ \A s, t \in wanted : s = t
  BY TagsOfAll
<1>4. found = First(Filter(all, wanted))
  BY <1>3 DEF ByNodeId
<1>5. found \in Seq(TagSet(devices)) /\ ToSet(found) = wanted
  <2>1. \A s, t \in ToSet(all) \cap wanted : s = t
    BY <1>3
  <2>2. ToSet(all) \cap wanted = wanted
    BY <1>3
  <2> HIDE DEF all, wanted, found
  <2> QED
    BY <1>3, <1>4, <2>1, <2>2, FindToSet
<1>6. {t \in TagSet(devices) : AskedFor(options, t)} = wanted
  BY <1>1 DEF AskedFor, Names
<1>7. /\ Selection(devices, options).error = IF wanted = {} THEN "TAG_NOT_FOUND" ELSE "none"
      /\ Selection(devices, options).tags = wanted
  <2> HIDE DEF wanted
  <2> QED
    BY <1>1, <1>6 DEF Selection, Resolved, Names
<1> HIDE DEF all, wanted, found
<1>8. /\ FoundOr(found).error = IF wanted = {} THEN "TAG_NOT_FOUND" ELSE "none"
      /\ FoundOr(found).tags = found
  BY <1>5, FoundOrFields
<1> QED
  BY <1>2, <1>5, <1>7, <1>8 DEF Documented

LEMMA ResolvesAll ==
  ASSUME NEW devices, Distinct(devices), NEW options, AllowedTogether(options),
         ~Given(options.nodeId), ~Given(options.device), ~Given(options.browseName)
  PROVE  Documented(ResolveTagSelector(devices, BuildTagSelectorPayload(options)),
                    devices, options)
<1>1. options.tags = Unset
  BY AllowedFlags
<1>2. ResolveTagSelector(devices, BuildTagSelectorPayload(options))
        = Resolved("none", AllTags(devices))
  BY DEF ResolveTagSelector, BuildTagSelectorPayload
<1>3. AllTags(devices) \in Seq(TagSet(devices)) /\ ToSet(AllTags(devices)) = TagSet(devices)
  BY TagsOfAll
<1>4. {t \in TagSet(devices) : AskedFor(options, t)} = TagSet(devices)
  BY <1>1 DEF AskedFor, Names
<1>5. /\ Selection(devices, options).error = "none"
      /\ Selection(devices, options).tags = TagSet(devices)
  BY <1>1, <1>4 DEF Selection, Resolved, Names
<1> QED
  BY <1>2, <1>3, <1>5 DEF Documented, Resolved

LEMMA ResolvesAmongAll ==
  ASSUME NEW devices, Distinct(devices), NEW options, AllowedTogether(options),
         ~Given(options.nodeId), ~Given(options.device), Given(options.browseName)
  PROVE  Documented(ResolveTagSelector(devices, BuildTagSelectorPayload(options)),
                    devices, options)
<1> DEFINE all == AllTags(devices)
           wanted == {t \in TagSet(devices) : t.browseName = options.browseName}
           found == ByBrowseName(all, options.browseName)
<1>1. options.tags = Unset
  BY AllowedFlags
<1>2. ResolveTagSelector(devices, BuildTagSelectorPayload(options))
        = IF Len(found) > 1 THEN Error("TAG_BROWSE_NAME_AMBIGUOUS") ELSE FoundOr(found)
  BY DEF ResolveTagSelector, BuildTagSelectorPayload, ResolveAmongAll
<1>3. all \in Seq(TagSet(devices)) /\ ToSet(all) = TagSet(devices) /\ Once(all)
  BY TagsOfAll
<1>4. found = Filter(all, wanted)
  BY <1>3 DEF ByBrowseName
<1>5. found \in Seq(TagSet(devices)) /\ ToSet(found) = wanted /\ Once(found)
  <2>1. ToSet(all) \cap wanted = wanted
    BY <1>3
  <2> HIDE DEF all, wanted, found
  <2> QED
    BY <1>3, <1>4, <2>1, FilterType, FilterToSet, FilterOnce
<1>6. {t \in TagSet(devices) : AskedFor(options, t)} = wanted
  BY <1>1 DEF AskedFor, Names
<1> HIDE DEF all, found
<1>7. Len(found) > 1 <=> \E s, t \in wanted : s # t
  BY <1>5, SeveralToSet
<1>8. /\ Selection(devices, options).error =
           IF \E s, t \in wanted : s # t THEN "TAG_BROWSE_NAME_AMBIGUOUS"
           ELSE IF wanted = {} THEN "TAG_NOT_FOUND" ELSE "none"
      /\ Selection(devices, options).tags =
           IF \E s, t \in wanted : s # t THEN {} ELSE wanted
  <2> HIDE DEF wanted
  <2> QED
    BY <1>1, <1>6 DEF Selection, Resolved, Names
<1>9. /\ FoundOr(found).error = IF wanted = {} THEN "TAG_NOT_FOUND" ELSE "none"
      /\ FoundOr(found).tags = found
  BY <1>5, FoundOrFields
<1>10. /\ Error("TAG_BROWSE_NAME_AMBIGUOUS").error = "TAG_BROWSE_NAME_AMBIGUOUS"
       /\ Error("TAG_BROWSE_NAME_AMBIGUOUS").tags \in Seq(TagSet(devices))
       /\ ToSet(Error("TAG_BROWSE_NAME_AMBIGUOUS").tags) = {}
  BY DEF Error, Resolved, ToSet
<1> HIDE DEF wanted
<1> QED
  BY <1>2, <1>5, <1>7, <1>8, <1>9, <1>10 DEF Documented

(* One of the names is that of none of the tags.                           *)
Lacks(tags, names) == \E name \in names : \A t \in tags : t.browseName # name

(* A subset of names, on a device on which names are not given twice.      *)
LEMMA SubsetToSet ==
  ASSUME NEW X, NEW tags \in Seq(X), NEW Y, NEW names \in Seq(Y),
         \A s, t \in ToSet(tags) : s.browseName = t.browseName => s = t
  PROVE  /\ ResolveSubset(tags, names).tags \in Seq(X)
         /\ Lacks(ToSet(tags), ToSet(names)) =>
              /\ ResolveSubset(tags, names).error = "TAG_NOT_FOUND"
              /\ ToSet(ResolveSubset(tags, names).tags) = {}
         /\ ~Lacks(ToSet(tags), ToSet(names)) =>
              /\ ResolveSubset(tags, names).error = "none"
              /\ ToSet(ResolveSubset(tags, names).tags) =
                   {t \in ToSet(tags) : t.browseName \in ToSet(names)}
<1> DEFINE missing == Lacks(ToSet(tags), ToSet(names))
           wanted(name) == {t \in ToSet(tags) : t.browseName = name}
           found == [i \in DOMAIN names |-> First(ByBrowseName(tags, names[i]))]
<1>1. PICK n \in Nat : DOMAIN names = 1..n
  BY LenProperties
<1>2. ASSUME NEW name
      PROVE  /\ First(ByBrowseName(tags, name)) \in Seq(X)
             /\ First(ByBrowseName(tags, name)) = <<>> <=> wanted(name) = {}
             /\ ToSet(First(ByBrowseName(tags, name))) = wanted(name)
  <2>1. \A s, t \in ToSet(tags) \cap wanted(name) : s = t
    OBVIOUS
  <2>2. ToSet(tags) \cap wanted(name) = wanted(name)
    OBVIOUS
  <2>3. First(ByBrowseName(tags, name)) = First(Filter(tags, wanted(name)))
    BY DEF ByBrowseName
  <2>4. /\ First(Filter(tags, wanted(name))) \in Seq(X)
        /\ First(Filter(tags, wanted(name))) = <<>> <=> ToSet(tags) \cap wanted(name) = {}
        /\ ToSet(First(Filter(tags, wanted(name)))) = ToSet(tags) \cap wanted(name)
    <3> DEFINE S == wanted(name)
    <3>1. \A s, t \in ToSet(tags) \cap S : s = t
      BY <2>1
    <3> HIDE DEF S
    <3>2. /\ First(Filter(tags, S)) \in Seq(X)
          /\ First(Filter(tags, S)) = <<>> <=> ToSet(tags) \cap S = {}
          /\ ToSet(First(Filter(tags, S))) = ToSet(tags) \cap S
      BY <3>1, FindToSet
    <3> QED
      BY <3>2 DEF S
  <2> HIDE DEF wanted
  <2> QED
    BY <2>2, <2>3, <2>4
<1>3. /\ DOMAIN found = 1..n
      /\ \A i \in 1..n : /\ found[i] \in Seq(X)
                         /\ found[i] = <<>> <=> wanted(names[i]) = {}
                         /\ ToSet(found[i]) = wanted(names[i])
  BY <1>1, <1>2
<1>4. found \in Seq(Seq(X))
  <2>1. found \in [1..n -> Seq(X)]
    BY <1>1, <1>2
  <2> QED
    BY <2>1
<1>5. ResolveSubset(tags, names) =
        IF \E i \in DOMAIN names : found[i] = <<>>
        THEN Error("TAG_NOT_FOUND") ELSE Resolved("none", FlattenSeq(found))
  BY DEF ResolveSubset
<1>6. missing <=> \E i \in DOMAIN names : found[i] = <<>>
  <2>1. \A name : wanted(name) = {} <=> \A t \in ToSet(tags) : t.browseName # name
    OBVIOUS
  <2>2. missing <=> \E i \in 1..n : wanted(names[i]) = {}
    <3>1. missing <=> \E name \in ToSet(names) : wanted(name) = {}
      BY <2>1 DEF Lacks
    <3> HIDE DEF wanted
    <3> QED
      BY <1>1, <3>1 DEF ToSet
  <2> HIDE DEF wanted, found
  <2> QED
    BY <1>1, <1>3, <2>2
<1>7. CASE missing
  <2>1. ResolveSubset(tags, names) = Error("TAG_NOT_FOUND")
    BY <1>5, <1>6, <1>7
  <2>2. Error("TAG_NOT_FOUND").tags = <<>> /\ Error("TAG_NOT_FOUND").error = "TAG_NOT_FOUND"
    BY DEF Error, Resolved
  <2>3. <<>> \in Seq(X) /\ ToSet(<<>>) = {}
    BY DEF ToSet
  <2> QED
    BY <1>7, <2>1, <2>2, <2>3
<1>8. CASE ~missing
  <2>1. ResolveSubset(tags, names) = Resolved("none", FlattenSeq(found))
    BY <1>5, <1>6, <1>8
  <2>2. ResolveSubset(tags, names).error = "none"
        /\ ResolveSubset(tags, names).tags = FlattenSeq(found)
    BY <2>1 DEF Resolved
  <2> HIDE DEF found, wanted
  <2>3. /\ FlattenSeq(found) \in Seq(X)
        /\ ToSet(FlattenSeq(found)) = UNION {ToSet(u) : u \in ToSet(found)}
    BY <1>4, FlattenType, FlattenToSet
  <2>4. ASSUME NEW t \in ToSet(FlattenSeq(found))
        PROVE  t \in ToSet(tags) /\ t.browseName \in ToSet(names)
    <3>1. PICK u \in ToSet(found) : t \in ToSet(u)
      BY <2>3
    <3>2. PICK i \in 1..n : u = found[i]
      BY <1>3 DEF ToSet
    <3>3. t \in wanted(names[i])
      BY <1>3, <3>1, <3>2
    <3>4. names[i] \in ToSet(names)
      BY <1>1 DEF ToSet
    <3> QED
      BY <3>3, <3>4 DEF wanted
  <2>5. ASSUME NEW t \in ToSet(tags), t.browseName \in ToSet(names)
        PROVE  t \in ToSet(FlattenSeq(found))
    <3>1. PICK i \in 1..n : t.browseName = names[i]
      BY <1>1, <2>5 DEF ToSet
    <3>2. t \in ToSet(found[i])
      BY <1>3, <3>1 DEF wanted
    <3>3. found[i] \in ToSet(found)
      BY <1>3 DEF ToSet
    <3> QED
      BY <2>3, <3>2, <3>3
  <2> QED
    BY <1>8, <2>2, <2>3, <2>4, <2>5
<1> QED
  BY <1>7, <1>8

LEMMA NoSuchDevice ==
  ASSUME NEW devices, Distinct(devices), NEW options,
         ~Given(options.nodeId), Given(options.device), AllowedTogether(options),
         \A i \in DOMAIN devices : devices[i].key # options.device
  PROVE  Documented(ResolveTagSelector(devices, BuildTagSelectorPayload(options)),
                    devices, options)
<1> DEFINE named == Filter(devices, {d \in ToSet(devices) : d.key = options.device})
<1>1. {d \in ToSet(devices) : d.key = options.device} = {}
  BY DEF ToSet
<1>2. devices \in Seq(ToSet(devices))
  BY DEF Distinct, IsSeq
<1>3. named \in Seq(ToSet(devices)) /\ ToSet(named) = {}
  BY <1>1, <1>2, FilterType, FilterToSet
<1>4. named = <<>>
  <2> HIDE DEF named
  <2> QED
    BY <1>3, EmptyToSet
<1>5. ResolveTagSelector(devices, BuildTagSelectorPayload(options)) = Error("DEVICE_NOT_FOUND")
  BY <1>4 DEF ResolveTagSelector, BuildTagSelectorPayload
<1>6. /\ Selection(devices, options).error = "DEVICE_NOT_FOUND"
      /\ Selection(devices, options).tags = {}
  BY DEF Selection, Resolved
<1>7. /\ Error("DEVICE_NOT_FOUND").error = "DEVICE_NOT_FOUND"
      /\ Error("DEVICE_NOT_FOUND").tags \in Seq(TagSet(devices))
      /\ ToSet(Error("DEVICE_NOT_FOUND").tags) = {}
  BY DEF Error, Resolved, ToSet
<1> QED
  BY <1>5, <1>6, <1>7 DEF Documented

(* The device that is found is the one of the key.                         *)
LEMMA FindDevice ==
  ASSUME NEW devices, Distinct(devices), NEW options,
         ~Given(options.nodeId), Given(options.device),
         NEW i \in DOMAIN devices, devices[i].key = options.device
  PROVE  ResolveTagSelector(devices, BuildTagSelectorPayload(options))
           = ResolveOnDevice(devices[i], BuildTagSelectorPayload(options))
<1> DEFINE wanted == {d \in ToSet(devices) : d.key = options.device}
           named == Filter(devices, wanted)
<1>1. devices \in Seq(ToSet(devices))
  BY DEF Distinct, IsSeq
<1>2. wanted = {devices[i]} /\ ToSet(devices) \cap wanted = wanted
  BY DEF ToSet, Distinct
<1>3. named \in Seq(ToSet(devices)) /\ ToSet(named) = {devices[i]}
  <2> HIDE DEF wanted
  <2> QED
    BY <1>1, <1>2, FilterType, FilterToSet
<1> HIDE DEF named
<1>4. named # <<>>
  BY <1>3, EmptyToSet
<1>5. Head(named) = devices[i]
  <2>1. Len(named) \in Nat \ {0} /\ DOMAIN named = 1..Len(named)
    BY <1>3, <1>4, EmptySeq, LenProperties
  <2>2. named[1] \in ToSet(named)
    BY <2>1 DEF ToSet
  <2>3. Head(named) = named[1]
    BY <1>3, <1>4
  <2> QED
    BY <1>3, <2>2, <2>3
<1> QED
  BY <1>4, <1>5 DEF ResolveTagSelector, BuildTagSelectorPayload, named

(* The names that the server is sent are those that are not blank.         *)
LEMMA NamesAreSent ==
  ASSUME NEW options, WellFormed(options)
  PROVE  LET sent == BuildTagSelectorPayload(options).tags IN
         IF Names(options) = {} THEN ~(Given(sent) /\ sent # <<>>)
         ELSE /\ Given(sent) /\ sent # <<>>
              /\ sent \in Seq(ToSet(options.tags)) /\ ToSet(sent) = Names(options)
<1> DEFINE sent == BuildTagSelectorPayload(options).tags
           tags == options.tags
<1>1. sent = IF Given(tags) THEN NamesIn(tags) ELSE Unset
  BY DEF BuildTagSelectorPayload
<1>2. ~Given(Unset)
  BY DEF Given
<1>3. CASE tags = Unset
  BY <1>1, <1>2, <1>3 DEF Names
<1>4. CASE tags # Unset
  <2>1. /\ tags \in Seq(ToSet(tags)) /\ Unset \notin Seq(ToSet(tags))
        /\ Blank \notin Seq(ToSet(tags)) /\ Names(options) = ToSet(tags) \ {Blank}
    BY <1>4 DEF WellFormed, IsSeq, Names
  <2>2. CASE tags = <<Blank>>
    <3>1. ~Given(tags)
      BY <2>2 DEF Given
    <3>2. ToSet(<<Blank>>) = {Blank}
      BY DEF ToSet
    <3> QED
      BY <1>1, <1>2, <2>1, <2>2, <3>1, <3>2
  <2>3. CASE tags # <<Blank>>
    <3>1. tags # Blank /\ tags # Unset
      BY <2>1
    <3>2. sent = NamesIn(tags)
      BY <1>1, <2>3, <3>1 DEF Given
    <3>3. /\ NamesIn(tags) \in Seq(ToSet(tags))
          /\ ToSet(NamesIn(tags)) = Names(options)
          /\ Blank \notin ToSet(NamesIn(tags))
      <4>1. ToSet(tags) \cap (ToSet(tags) \ {Blank}) = ToSet(tags) \ {Blank}
        OBVIOUS
      <4> QED
        BY <2>1, <4>1, FilterType, FilterToSet DEF NamesIn
    <3>4. NamesIn(tags) # <<Blank>>
      <4>1. Blank \in ToSet(<<Blank>>)
        BY DEF ToSet
      <4> QED
        BY <3>3, <4>1
    <3>5. Given(sent)
      BY <2>1, <3>2, <3>3, <3>4 DEF Given
    <3>6. sent = <<>> <=> Names(options) = {}
      BY <3>2, <3>3, EmptyToSet
    <3> QED
      BY <3>2, <3>3, <3>5, <3>6
  <2> QED
    BY <2>2, <2>3
<1> QED
  BY <1>3, <1>4

LEMMA ResolvesDevice ==
  ASSUME NEW devices, Distinct(devices), NEW options, WellFormed(options),
         ~Given(options.nodeId), Given(options.device), AllowedTogether(options),
         NEW i \in DOMAIN devices, devices[i].key = options.device
  PROVE  Documented(ResolveTagSelector(devices, BuildTagSelectorPayload(options)),
                    devices, options)
<1> DEFINE sel == BuildTagSelectorPayload(options)
           own == ToSet(TagsOf(devices[i]))
           names == Names(options)
           answer == ResolveTagSelector(devices, sel)
           wanted == {t \in TagSet(devices) : AskedFor(options, t)}
           missing == \/ wanted = {} /\ Given(options.browseName)
                      \/ Lacks(wanted, names)
<1>1. answer = ResolveOnDevice(devices[i], sel)
  BY FindDevice
<1>2. /\ TagsOf(devices[i]) \in Seq(TagSet(devices))
      /\ own = {t \in TagSet(devices) : t.device = options.device}
      /\ \A s, t \in own : s.browseName = t.browseName => s = t
  BY TagsOfDevice
<1>3. \A t : t \in wanted <=>
              /\ t \in own
              /\ Given(options.browseName) => t.browseName = options.browseName
              /\ names # {} => t.browseName \in names
  <2> HIDE DEF own
  <2> QED
    BY <1>2 DEF AskedFor
<1>4. /\ Selection(devices, options).error = IF missing THEN "TAG_NOT_FOUND" ELSE "none"
      /\ Selection(devices, options).tags = IF missing THEN {} ELSE wanted
  <2>1. ~(\A j \in DOMAIN devices : devices[j].key # options.device)
    OBVIOUS
  <2> HIDE DEF wanted
  <2> QED
    BY <2>1 DEF Selection, Resolved, wanted, Lacks
<1>5. names # {} => ~Given(options.browseName)
  BY AllowedFlags DEF Names
<1>6. sel.browseName = options.browseName
  BY DEF BuildTagSelectorPayload
<1>7. IF names = {} THEN ~(Given(sel.tags) /\ sel.tags # <<>>)
      ELSE /\ Given(sel.tags) /\ sel.tags # <<>>
           /\ sel.tags \in Seq(ToSet(options.tags)) /\ ToSet(sel.tags) = names
  BY NamesAreSent
<1> HIDE DEF sel, own, names, answer
<1>8. CASE names # {}
  <2> DEFINE sent == sel.tags
  <2>0. /\ Given(sent) /\ sent # <<>>
        /\ sent \in Seq(ToSet(options.tags)) /\ ToSet(sent) = names
    BY <1>7, <1>8
  <2>1. answer = ResolveSubset(TagsOf(devices[i]), sent)
    BY <1>1, <2>0 DEF ResolveOnDevice
  <2>2. \A t : t \in wanted <=> t \in own /\ t.browseName \in names
    BY <1>3, <1>5, <1>8
  <2>3. missing <=> Lacks(own, names)
    <3> HIDE DEF wanted
    <3> QED
      BY <1>5, <1>8, <2>2 DEF Lacks
  <2> HIDE DEF wanted, missing, sent
  <2>4. /\ answer.tags \in Seq(TagSet(devices))
        /\ missing => answer.error = "TAG_NOT_FOUND" /\ ToSet(answer.tags) = {}
        /\ ~missing => answer.error = "none" /\ ToSet(answer.tags) = wanted
    <3> DEFINE tags == TagsOf(devices[i])
    <3>1. /\ tags \in Seq(TagSet(devices)) /\ ToSet(tags) = own
          /\ \A s, t \in ToSet(tags) : s.browseName = t.browseName => s = t
      BY <1>2 DEF own
    <3>2. missing <=> Lacks(ToSet(tags), ToSet(sent))
      BY <2>0, <2>3, <3>1
    <3>3. wanted = {t \in ToSet(tags) : t.browseName \in ToSet(sent)}
      BY <2>0, <2>2, <3>1
    <3>4. answer = ResolveSubset(tags, sent)
      BY <2>1
    <3> HIDE DEF tags
    <3>5. /\ ResolveSubset(tags, sent).tags \in Seq(TagSet(devices))
          /\ Lacks(ToSet(tags), ToSet(sent)) =>
               /\ ResolveSubset(tags, sent).error = "TAG_NOT_FOUND"
               /\ ToSet(ResolveSubset(tags, sent).tags) = {}
          /\ ~Lacks(ToSet(tags), ToSet(sent)) =>
               /\ ResolveSubset(tags, sent).error = "none"
               /\ ToSet(ResolveSubset(tags, sent).tags) =
                    {t \in ToSet(tags) : t.browseName \in ToSet(sent)}
      BY <2>0, <3>1, SubsetToSet
    <3> QED
      BY <3>2, <3>3, <3>4, <3>5
  <2> QED
    BY <1>4, <2>4 DEF Documented, answer, sel
<1>9. CASE names = {} /\ Given(options.browseName)
  <2> DEFINE found == First(ByBrowseName(TagsOf(devices[i]), options.browseName))
  <2>1. answer = FoundOr(found)
    BY <1>1, <1>6, <1>7, <1>9 DEF ResolveOnDevice
  <2>2. \A t : t \in wanted <=> t \in own /\ t.browseName = options.browseName
    <3> HIDE DEF wanted
    <3> QED
      BY <1>3, <1>9
  <2>3. missing <=> wanted = {}
    BY <1>9 DEF Lacks
  <2> HIDE DEF wanted, missing
  <2>4. found = First(Filter(TagsOf(devices[i]), wanted))
    <3>1. wanted = {t \in own : t.browseName = options.browseName}
      BY <2>2
    <3> QED
      BY <3>1 DEF ByBrowseName, own
  <2>5. (\A s, t \in own \cap wanted : s = t) /\ own \cap wanted = wanted
    BY <1>2, <2>2
  <2>6. found \in Seq(TagSet(devices)) /\ ToSet(found) = wanted
    <3> HIDE DEF found
    <3> QED
      BY <1>2, <2>4, <2>5, FindToSet DEF own
  <2> HIDE DEF found
  <2>7. /\ answer.error = IF wanted = {} THEN "TAG_NOT_FOUND" ELSE "none"
        /\ answer.tags = found
    BY <2>1, <2>6, FoundOrFields
  <2> QED
    BY <1>4, <2>3, <2>6, <2>7 DEF Documented, answer, sel
<1>10. CASE names = {} /\ ~Given(options.browseName)
  <2>1. answer = Resolved("none", TagsOf(devices[i]))
    BY <1>1, <1>6, <1>7, <1>10 DEF ResolveOnDevice
  <2>2. wanted = own
    <3> HIDE DEF wanted
    <3> QED
      BY <1>3, <1>10
  <2>3. ~missing
    BY <1>10 DEF Lacks
  <2> HIDE DEF wanted, missing
  <2>4. answer.error = "none" /\ answer.tags = TagsOf(devices[i])
    BY <2>1 DEF Resolved
  <2> QED
    BY <1>2, <1>4, <2>2, <2>3, <2>4 DEF Documented, own, answer, sel
<1> QED
  BY <1>8, <1>9, <1>10

(* The server answers what the documentation says the options select, of   *)
(* whatever devices it has, or with the error that it says.                *)
THEOREM ResolvesAsDocumented ==
  ASSUME NEW devices, Distinct(devices),
         NEW options, WellFormed(options), AllowedTogether(options)
  PROVE  LET answer == ResolveTagSelector(devices, BuildTagSelectorPayload(options))
             expected == Selection(devices, options)
         IN /\ answer.error = expected.error
            /\ answer.tags \in Seq(TagSet(devices)) /\ ToSet(answer.tags) = expected.tags
<1>1. CASE Given(options.nodeId)
  BY <1>1, ResolvesNodeId DEF Documented
<1>2. CASE ~Given(options.nodeId) /\ Given(options.device)
  <2>1. CASE \A i \in DOMAIN devices : devices[i].key # options.device
    BY <1>2, <2>1, NoSuchDevice DEF Documented
  <2>2. CASE \E i \in DOMAIN devices : devices[i].key = options.device
    BY <1>2, <2>2, ResolvesDevice DEF Documented
  <2> QED
    BY <2>1, <2>2
<1>3. CASE ~Given(options.nodeId) /\ ~Given(options.device) /\ Given(options.browseName)
  BY <1>3, ResolvesAmongAll DEF Documented
<1>4. CASE ~Given(options.nodeId) /\ ~Given(options.device) /\ ~Given(options.browseName)
  BY <1>4, ResolvesAll DEF Documented
<1> QED
  BY <1>1, <1>2, <1>3, <1>4

=============================================================================
