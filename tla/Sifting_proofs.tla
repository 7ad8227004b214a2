----------------------------- MODULE Sifting_proofs -----------------------------
(***************************************************************************)
(* The laws of Sift: what it makes of an empty sequence, of one element    *)
(* more, of a concatenation, of a head and a tail; and what a second       *)
(* filter does.  Each holds of every sequence, by induction on its length. *)
(***************************************************************************)
EXTENDS Sifting, SequenceTheorems, WellFoundedInduction, TLAPS

\* The order of Nat as a relation.
Below == {ss \in Nat \X Nat : ss[1] < ss[2]}

\* Induction on Nat for a set: the library's theorem is about an operator.
LEMMA SetInduction ==
  ASSUME NEW S, 0 \in S, \A n \in Nat : n \in S => n + 1 \in S
  PROVE  Nat \subseteq S
<1>0. SUFFICES ASSUME Nat \ S # {} PROVE FALSE
  OBVIOUS
<1> DEFINE T == Nat \ S
<1>w. IsWellFoundedOn(Below, Nat)
  BY NatLessThanWellFounded DEF OpToRel, Below
<1>1. PICK x \in T : \A y \in T : ~ (<<y, x>> \in Below)
  BY <1>0, <1>w, WFMin
<1>2. x # 0 /\ x \in Nat
  OBVIOUS
<1>3. x - 1 \in Nat /\ x - 1 < x /\ (x - 1) + 1 = x
  BY <1>2
<1>4. <<x - 1, x>> \in Below
  BY <1>2, <1>3 DEF Below
<1> QED
  BY <1>1, <1>3, <1>4

\* kept[n] is what passes of the first n elements.
Sieve(s, S, kept, m) ==
  kept = [n \in 0 .. m |->
            IF n = 0 THEN <<>>
            ELSE IF s[n] \in S THEN Append(kept[n - 1], s[n]) ELSE kept[n - 1]]

\* The recursive function of Sift exists for every length.
LEMMA SieveExists ==
  ASSUME NEW s, NEW S
  PROVE  \A m \in Nat : \E kept : Sieve(s, S, kept, m)
<1> DEFINE Done == {m \in Nat : \E kept : Sieve(s, S, kept, m)}
<1>1. 0 \in Done
  <2>1. Sieve(s, S, [n \in 0 .. 0 |-> <<>>], 0)
    BY DEF Sieve
  <2> QED
    BY <2>1
<1>2. ASSUME NEW m \in Nat, m \in Done PROVE m + 1 \in Done
  <2>1. PICK kept : Sieve(s, S, kept, m)
    BY <1>2
  <2> DEFINE more == [n \in 0 .. m + 1 |->
                        IF n <= m THEN kept[n]
                        ELSE IF s[n] \in S THEN Append(kept[n - 1], s[n]) ELSE kept[n - 1]]
  <2>2. \A n \in 0 .. m : more[n] = kept[n]
    OBVIOUS
  <2>3. \A n \in 0 .. m : kept[n] = IF n = 0 THEN <<>>
            ELSE IF s[n] \in S THEN Append(kept[n - 1], s[n]) ELSE kept[n - 1]
    BY <2>1 DEF Sieve
  <2>4. \A n \in 0 .. m + 1 : more[n] = IF n = 0 THEN <<>>
            ELSE IF s[n] \in S THEN Append(more[n - 1], s[n]) ELSE more[n - 1]
    <3> SUFFICES ASSUME NEW n \in 0 .. m + 1
                 PROVE  more[n] = IF n = 0 THEN <<>>
                           ELSE IF s[n] \in S THEN Append(more[n - 1], s[n]) ELSE more[n - 1]
      OBVIOUS
    <3>1. CASE n <= m
      <4>1. n \in 0 .. m /\ (n # 0 => n - 1 \in 0 .. m)
        BY <3>1
      <4> QED
        BY <2>2, <2>3, <4>1
    <3>2. CASE n = m + 1
      BY <2>2, <3>2
    <3> QED
      BY <3>1, <3>2
  <2>5. Sieve(s, S, more, m + 1)
    <3>1. more = [n \in 0 .. m + 1 |-> more[n]]
      OBVIOUS
    <3> HIDE DEF more
    <3> QED
      BY <2>4, <3>1 DEF Sieve
  <2> QED
    BY <2>5
<1> HIDE DEF Done
<1>3. Nat \subseteq Done
  BY <1>1, <1>2, SetInduction
<1> QED
  BY <1>3 DEF Done

\* ... and is the one that Sift applies.
LEMMA SiftIsSieve ==
  ASSUME NEW M, NEW s \in Seq(M), NEW S
  PROVE  \E kept : Sieve(s, S, kept, Len(s)) /\ Sift(s, S) = kept[Len(s)]
<1> DEFINE kept == CHOOSE k : Sieve(s, S, k, Len(s))
<1>1. Len(s) \in Nat
  BY LenProperties
<1>2. Sieve(s, S, kept, Len(s))
  BY <1>1, SieveExists
<1>3. Sift(s, S) = kept[Len(s)]
  BY DEF Sift, Sieve
<1> QED
  BY <1>2, <1>3

-----------------------------------------------------------------------------
(***************************************************************************)
(* Induction on sequences, one element at a time.                          *)
(***************************************************************************)

LEMMA SeqInduction ==
  ASSUME NEW M, NEW Q, <<>> \in Q,
         \A s \in Seq(M), e \in M : s \in Q => Append(s, e) \in Q
  PROVE  Seq(M) \subseteq Q
<1> DEFINE Ok == {n \in Nat : \A s \in Seq(M) : Len(s) = n => s \in Q}
<1>1. 0 \in Ok
  <2>1. ASSUME NEW s \in Seq(M), Len(s) = 0 PROVE s \in Q
    <3>1. s = <<>>
      BY <2>1, EmptySeq
    <3> QED
      BY <3>1
  <2> QED
    BY <2>1
<1>2. ASSUME NEW n \in Nat, n \in Ok PROVE n + 1 \in Ok
  <2>1. ASSUME NEW s \in Seq(M), Len(s) = n + 1 PROVE s \in Q
    <3>1. s # <<>>
      BY <2>1, EmptySeq
    <3>2. PICK t \in Seq(M), e \in M : s = Append(t, e)
      BY <3>1, SequenceEmptyOrAppend
    <3>3. Len(t) = n
      BY <2>1, <3>2, AppendProperties, LenProperties
    <3> QED
      BY <1>2, <3>2, <3>3
  <2> QED
    BY <2>1
<1> HIDE DEF Ok
<1>3. Nat \subseteq Ok
  BY <1>1, <1>2, SetInduction
<1>4. \A s \in Seq(M) : Len(s) \in Nat
  BY LenProperties
<1> QED
  BY <1>3, <1>4 DEF Ok

\* Its equations.
LEMMA SieveAt ==
  ASSUME NEW s, NEW S, NEW kept, NEW m \in Nat, Sieve(s, S, kept, m)
  PROVE  /\ kept[0] = <<>>
         /\ \A n \in 1 .. m :
              /\ s[n] \in S => kept[n] = Append(kept[n - 1], s[n])
              /\ s[n] \notin S => kept[n] = kept[n - 1]
<1>1. 0 \in 0 .. m
  OBVIOUS
<1>2. kept[0] = <<>>
  BY <1>1 DEF Sieve
<1>3. ASSUME NEW n \in 1 .. m
      PROVE  /\ s[n] \in S => kept[n] = Append(kept[n - 1], s[n])
             /\ s[n] \notin S => kept[n] = kept[n - 1]
  <2>1. n \in 0 .. m /\ n # 0
    OBVIOUS
  <2> QED
    BY <2>1 DEF Sieve
<1> QED
  BY <1>2, <1>3

\* Nothing passes of nothing.
LEMMA SiftEmpty == ASSUME NEW S PROVE Sift(<<>>, S) = <<>>
<1>1. <<>> \in Seq({}) /\ Len(<<>>) = 0
  BY EmptySeq
<1>2. PICK kept : Sieve(<<>>, S, kept, 0) /\ Sift(<<>>, S) = kept[0]
  BY <1>1, SiftIsSieve
<1> QED
  BY <1>2 DEF Sieve

\* One element more passes or does not.
LEMMA SiftAppend ==
  ASSUME NEW M, NEW s \in Seq(M), NEW e \in M, NEW S
  PROVE  /\ e \in S => Sift(Append(s, e), S) = Append(Sift(s, S), e)
         /\ e \notin S => Sift(Append(s, e), S) = Sift(s, S)
<1> DEFINE t == Append(s, e)
<1>1. /\ t \in Seq(M) /\ Len(t) = Len(s) + 1 /\ Len(s) \in Nat
      /\ t[Len(s) + 1] = e /\ \A i \in 1 .. Len(s) : t[i] = s[i]
  BY AppendProperties, LenProperties
<1> HIDE DEF t
<1>2. PICK k : Sieve(s, S, k, Len(s)) /\ Sift(s, S) = k[Len(s)]
  BY SiftIsSieve
<1>3. PICK l : Sieve(t, S, l, Len(s) + 1) /\ Sift(t, S) = l[Len(s) + 1]
  BY <1>1, SiftIsSieve
<1>4. /\ k[0] = <<>> /\ l[0] = <<>>
      /\ \A n \in 1 .. Len(s) :
           /\ s[n] \in S => k[n] = Append(k[n - 1], s[n])
           /\ s[n] \notin S => k[n] = k[n - 1]
      /\ \A n \in 1 .. Len(s) + 1 :
           /\ t[n] \in S => l[n] = Append(l[n - 1], t[n])
           /\ t[n] \notin S => l[n] = l[n - 1]
  BY <1>1, <1>2, <1>3, SieveAt
<1> DEFINE Same == {n \in Nat : n <= Len(s) => k[n] = l[n]}
<1>5. 0 \in Same
  BY <1>4
<1>6. ASSUME NEW n \in Nat, n \in Same PROVE n + 1 \in Same
  <2>1. SUFFICES ASSUME n + 1 <= Len(s) PROVE k[n + 1] = l[n + 1]
    OBVIOUS
  <2>2. n + 1 \in 1 .. Len(s) /\ n + 1 \in 1 .. Len(s) + 1 /\ (n + 1) - 1 = n /\ n <= Len(s)
    BY <1>1, <2>1
  <2>3. k[n] = l[n] /\ t[n + 1] = s[n + 1]
    BY <1>1, <1>6, <2>2
  <2>4. /\ s[n + 1] \in S => k[n + 1] = Append(k[n], s[n + 1])
        /\ s[n + 1] \notin S => k[n + 1] = k[n]
    BY <1>4, <2>2
  <2>5. /\ t[n + 1] \in S => l[n + 1] = Append(l[n], t[n + 1])
        /\ t[n + 1] \notin S => l[n + 1] = l[n]
    BY <1>4, <2>2
  <2> QED
    BY <2>3, <2>4, <2>5
<1> HIDE DEF Same
<1>7. Nat \subseteq Same
  BY <1>5, <1>6, SetInduction
<1>8. k[Len(s)] = l[Len(s)]
  BY <1>1, <1>7 DEF Same
<1>9. Len(s) + 1 \in 1 .. Len(s) + 1 /\ (Len(s) + 1) - 1 = Len(s)
  BY <1>1
<1>10. /\ e \in S => l[Len(s) + 1] = Append(l[Len(s)], e)
       /\ e \notin S => l[Len(s) + 1] = l[Len(s)]
  BY <1>1, <1>4, <1>9
<1> QED
  BY <1>2, <1>3, <1>8, <1>10 DEF t

\* What passes is in both sets.
LEMMA SiftType ==
  ASSUME NEW M, NEW s \in Seq(M), NEW S
  PROVE  Sift(s, S) \in Seq(M \cap S)
<1> DEFINE Q == {q \in Seq(M) : Sift(q, S) \in Seq(M \cap S)}
<1>1. <<>> \in Q
  BY EmptySeq, SiftEmpty
<1>2. ASSUME NEW q \in Seq(M), NEW e \in M, q \in Q PROVE Append(q, e) \in Q
  <2>1. Sift(q, S) \in Seq(M \cap S) /\ Append(q, e) \in Seq(M)
    BY <1>2, AppendProperties
  <2>2. CASE e \in S
    <3>1. Append(Sift(q, S), e) \in Seq(M \cap S)
      BY <2>1, <2>2, AppendProperties
    <3> QED
      BY <2>1, <2>2, <3>1, SiftAppend
  <2>3. CASE e \notin S
    BY <2>1, <2>3, SiftAppend
  <2> QED
    BY <2>2, <2>3
<1> HIDE DEF Q
<1>3. Seq(M) \subseteq Q
  BY <1>1, <1>2, SeqInduction
<1> QED
  BY <1>3 DEF Q

\* To append to the second part is to append to the whole.
LEMMA ConcatAppend ==
  ASSUME NEW M, NEW s \in Seq(M), NEW t \in Seq(M), NEW e \in M
  PROVE  s \o Append(t, e) = Append(s \o t, e)
<1>1. Append(t, e) = t \o <<e>> /\ Append(s \o t, e) = (s \o t) \o <<e>> /\ <<e>> \in Seq(M)
  BY AppendIsConcat, ConcatProperties
<1> QED
  BY <1>1, ConcatAssociative

\* Sift distributes over concatenation.
LEMMA SiftConcat ==
  ASSUME NEW M, NEW s \in Seq(M), NEW t \in Seq(M), NEW S
  PROVE  Sift(s \o t, S) = Sift(s, S) \o Sift(t, S)
<1> DEFINE Q == {q \in Seq(M) : Sift(s \o q, S) = Sift(s, S) \o Sift(q, S)}
<1>0. Sift(s, S) \in Seq(M \cap S)
  BY SiftType
<1>1. <<>> \in Q
  BY <1>0, EmptySeq, SiftEmpty, ConcatEmptySeq
<1>2. ASSUME NEW q \in Seq(M), NEW e \in M, q \in Q PROVE Append(q, e) \in Q
  <2>1. /\ Append(q, e) \in Seq(M) /\ s \o q \in Seq(M)
        /\ Sift(s \o q, S) = Sift(s, S) \o Sift(q, S)
    BY <1>2, AppendProperties, ConcatProperties
  <2>2. s \o Append(q, e) = Append(s \o q, e)
    BY ConcatAppend
  <2>3. Sift(q, S) \in Seq(M \cap S)
    BY SiftType
  <2>4. CASE e \in S
    <3>1. Sift(s \o Append(q, e), S) = Append(Sift(s, S) \o Sift(q, S), e)
      <4>1. Sift(Append(s \o q, e), S) = Append(Sift(s \o q, S), e)
        BY <2>1, <2>4, SiftAppend
      <4> QED
        BY <2>1, <2>2, <4>1
    <3>2. Sift(Append(q, e), S) = Append(Sift(q, S), e)
      BY <2>4, SiftAppend
    <3>3. e \in M \cap S
      BY <2>4
    <3>4. Sift(s, S) \o Append(Sift(q, S), e) = Append(Sift(s, S) \o Sift(q, S), e)
      BY <1>0, <2>3, <3>3, ConcatAppend
    <3> QED
      BY <2>1, <3>1, <3>2, <3>4
  <2>5. CASE e \notin S
    <3>1. Sift(Append(s \o q, e), S) = Sift(s \o q, S) /\ Sift(Append(q, e), S) = Sift(q, S)
      BY <2>1, <2>5, SiftAppend
    <3> QED
      BY <2>1, <2>2, <3>1
  <2> QED
    BY <2>4, <2>5
<1> HIDE DEF Q
<1>3. Seq(M) \subseteq Q
  BY <1>1, <1>2, SeqInduction
<1> QED
  BY <1>3 DEF Q

\* Sifting twice keeps what passes both.
LEMMA SiftSift ==
  ASSUME NEW M, NEW s \in Seq(M), NEW S, NEW T
  PROVE  Sift(Sift(s, S), T) = Sift(s, S \cap T)
<1> DEFINE Q == {q \in Seq(M) : Sift(Sift(q, S), T) = Sift(q, S \cap T)}
<1>1. <<>> \in Q
  BY EmptySeq, SiftEmpty
<1>2. ASSUME NEW q \in Seq(M), NEW e \in M, q \in Q PROVE Append(q, e) \in Q
  <2>1. Append(q, e) \in Seq(M) /\ Sift(Sift(q, S), T) = Sift(q, S \cap T)
    BY <1>2, AppendProperties
  <2>2. Sift(q, S) \in Seq(M \cap S)
    BY SiftType
  <2>3. CASE e \in S
    <3>1. Sift(Append(q, e), S) = Append(Sift(q, S), e) /\ e \in M \cap S
      BY <2>3, SiftAppend
    <3> DEFINE M1 == M \cap S
               p  == Sift(q, S)
    <3>2. p \in Seq(M1) /\ e \in M1
      BY <2>2, <3>1
    <3> HIDE DEF M1, p
    <3>3. /\ e \in T => Sift(Append(p, e), T) = Append(Sift(p, T), e)
          /\ e \notin T => Sift(Append(p, e), T) = Sift(p, T)
      BY <3>2, SiftAppend
    <3>4. /\ e \in T => Sift(Append(q, e), S \cap T) = Append(Sift(q, S \cap T), e)
          /\ e \notin T => Sift(Append(q, e), S \cap T) = Sift(q, S \cap T)
      <4>1. e \in S \cap T <=> e \in T
        BY <2>3
      <4> QED
        BY <4>1, SiftAppend
    <3> QED
      BY <2>1, <3>1, <3>3, <3>4 DEF p
  <2>4. CASE e \notin S
    <3>1. Sift(Append(q, e), S) = Sift(q, S)
      BY <2>4, SiftAppend
    <3>2. e \notin S \cap T
      BY <2>4
    <3>3. Sift(Append(q, e), S \cap T) = Sift(q, S \cap T)
      BY <3>2, SiftAppend
    <3> QED
      BY <2>1, <3>1, <3>3
  <2> QED
    BY <2>3, <2>4
<1> HIDE DEF Q
<1>3. Seq(M) \subseteq Q
  BY <1>1, <1>2, SeqInduction
<1> QED
  BY <1>3 DEF Q

\* Only membership of the elements matters.
LEMMA SiftSame ==
  ASSUME NEW M, NEW s \in Seq(M), NEW S, NEW T, M \cap S = M \cap T
  PROVE  Sift(s, S) = Sift(s, T)
<1> DEFINE Q == {q \in Seq(M) : Sift(q, S) = Sift(q, T)}
<1>1. <<>> \in Q
  BY EmptySeq, SiftEmpty
<1>2. ASSUME NEW q \in Seq(M), NEW e \in M, q \in Q PROVE Append(q, e) \in Q
  <2>1. Append(q, e) \in Seq(M) /\ Sift(q, S) = Sift(q, T) /\ (e \in S <=> e \in T)
    BY <1>2, AppendProperties
  <2>2. /\ e \in S => Sift(Append(q, e), S) = Append(Sift(q, S), e)
        /\ e \notin S => Sift(Append(q, e), S) = Sift(q, S)
    BY SiftAppend
  <2>3. /\ e \in T => Sift(Append(q, e), T) = Append(Sift(q, T), e)
        /\ e \notin T => Sift(Append(q, e), T) = Sift(q, T)
    BY SiftAppend
  <2> QED
    BY <2>1, <2>2, <2>3
<1> HIDE DEF Q
<1>3. Seq(M) \subseteq Q
  BY <1>1, <1>2, SeqInduction
<1> QED
  BY <1>3 DEF Q

\* A filter that lets every element pass changes nothing.
LEMMA SiftAll ==
  ASSUME NEW M, NEW s \in Seq(M), NEW S, M \subseteq S
  PROVE  Sift(s, S) = s
<1> DEFINE Q == {q \in Seq(M) : Sift(q, S) = q}
<1>1. <<>> \in Q
  BY EmptySeq, SiftEmpty
<1>2. ASSUME NEW q \in Seq(M), NEW e \in M, q \in Q PROVE Append(q, e) \in Q
  <2>1. Append(q, e) \in Seq(M) /\ Sift(q, S) = q /\ e \in S
    BY <1>2, AppendProperties
  <2> QED
    BY <2>1, SiftAppend
<1> HIDE DEF Q
<1>3. Seq(M) \subseteq Q
  BY <1>1, <1>2, SeqInduction
<1> QED
  BY <1>3 DEF Q

\* A filter that lets no element pass leaves nothing.
LEMMA SiftNone ==
  ASSUME NEW M, NEW s \in Seq(M), NEW S, M \cap S = {}
  PROVE  Sift(s, S) = <<>>
<1>1. Sift(s, S) \in Seq({})
  BY SiftType
<1> QED
  BY <1>1, EmptySeq, ElementOfSeq

\* One element passes or does not.
LEMMA SiftOne ==
  ASSUME NEW e, NEW S
  PROVE  Sift(<<e>>, S) = IF e \in S THEN <<e>> ELSE <<>>
<1>1. <<>> \in Seq({e}) /\ <<e>> = Append(<<>>, e)
  BY EmptySeq
<1>2. Sift(<<>>, S) = <<>>
  BY SiftEmpty
<1>3. /\ e \in S => Sift(Append(<<>>, e), S) = Append(Sift(<<>>, S), e)
      /\ e \notin S => Sift(Append(<<>>, e), S) = Sift(<<>>, S)
  <2>1. <<>> \in Seq({e}) /\ e \in {e}
    BY <1>1
  <2> QED
    BY <2>1, SiftAppend
<1> QED
  BY <1>1, <1>2, <1>3

\* A sequence cut in two.
LEMMA Cut ==
  ASSUME NEW M, NEW s \in Seq(M), NEW n \in 0 .. Len(s)
  PROVE  /\ SubSeq(s, 1, n) \in Seq(M) /\ SubSeq(s, n + 1, Len(s)) \in Seq(M)
         /\ SubSeq(s, 1, n) \o SubSeq(s, n + 1, Len(s)) = s
<1>1. Len(s) \in Nat /\ n \in Nat /\ n <= Len(s)
  BY LenProperties
<1>2. /\ \A i \in 1 .. n : s[i] \in M
      /\ \A i \in n + 1 .. Len(s) : s[i] \in M
  BY <1>1, ElementOfSeq
<1>3. SubSeq(s, 1, n) \in Seq(M) /\ SubSeq(s, n + 1, Len(s)) \in Seq(M)
  BY <1>1, <1>2, SubSeqProperties
<1>4. SubSeq(s, 1, n) \o SubSeq(s, n + 1, Len(s)) = SubSeq(s, 1, Len(s))
  <2>1. 1 \in 1 .. Len(s) + 1 /\ n \in 1 - 1 .. Len(s) /\ Len(s) \in n .. Len(s)
    BY <1>1
  <2> QED
    BY <2>1, ConcatAdjacentSubSeq
<1> QED
  BY <1>3, <1>4, SubSeqFull

\* ... and sifted part by part.
LEMMA SiftCut ==
  ASSUME NEW M, NEW s \in Seq(M), NEW n \in 0 .. Len(s), NEW S
  PROVE  Sift(SubSeq(s, 1, n), S) \o Sift(SubSeq(s, n + 1, Len(s)), S) = Sift(s, S)
<1> DEFINE left == SubSeq(s, 1, n)
           right == SubSeq(s, n + 1, Len(s))
<1>1. left \in Seq(M) /\ right \in Seq(M)
  BY Cut
<1>2. left \o right = s
  BY Cut
<1> HIDE DEF left, right
<1>3. Sift(left \o right, S) = Sift(left, S) \o Sift(right, S)
  BY <1>1, SiftConcat
<1> QED
  BY <1>2, <1>3 DEF left, right

\* What sifts away entirely has no such element.
LEMMA SiftFree ==
  ASSUME NEW M, NEW s \in Seq(M), NEW S, Sift(s, S) = <<>>
  PROVE  s \in Seq(M \ S)
<1> DEFINE Q == {q \in Seq(M) : Sift(q, S) = <<>> => q \in Seq(M \ S)}
<1>1. <<>> \in Q
  BY EmptySeq
<1>2. ASSUME NEW q \in Seq(M), NEW e \in M, q \in Q PROVE Append(q, e) \in Q
  <2>1. Append(q, e) \in Seq(M) /\ (Sift(q, S) = <<>> => q \in Seq(M \ S))
    BY <1>2, AppendProperties
  <2>2. CASE e \in S
    <3>1. Sift(Append(q, e), S) = Append(Sift(q, S), e) /\ Sift(q, S) \in Seq(M \cap S)
      BY <2>2, SiftAppend, SiftType
    <3>2. Sift(Append(q, e), S) # <<>>
      <4>1. e \in M \cap S
        BY <2>2
      <4> QED
        BY <3>1, <4>1, AppendProperties
    <3> QED
      BY <2>1, <3>2
  <2>3. CASE e \notin S
    <3>1. Sift(Append(q, e), S) = Sift(q, S) /\ e \in M \ S
      BY <2>3, SiftAppend
    <3>2. q \in Seq(M \ S) => Append(q, e) \in Seq(M \ S)
      BY <3>1, AppendProperties
    <3> QED
      BY <2>1, <3>1, <3>2
  <2> QED
    BY <2>2, <2>3
<1> HIDE DEF Q
<1>3. Seq(M) \subseteq Q
  BY <1>1, <1>2, SeqInduction
<1> QED
  BY <1>3 DEF Q

\* A sequence is its head and its tail.
LEMMA HeadAndTail ==
  ASSUME NEW M, NEW s \in Seq(M), s # <<>>
  PROVE  /\ Head(s) \in M /\ Tail(s) \in Seq(M) /\ <<Head(s)>> \in Seq(M)
         /\ <<Head(s)>> \o Tail(s) = s
<1>1. Len(s) \in Nat \ {0}
  BY EmptySeq
<1>2. Head(s) \in M /\ Tail(s) \in Seq(M) /\ Tail(s) = SubSeq(s, 2, Len(s))
  BY HeadTailProperties, TailIsSubSeq
<1>3. 1 \in 1 .. Len(s) /\ Len(s) \in 1 .. Len(s) /\ 1 + 1 = 2
  BY <1>1
<1>4. SubSeq(s, 1, Len(s)) = <<s[1]>> \o SubSeq(s, 1 + 1, Len(s))
  BY <1>3, SubSeqRecursiveFirst
<1>5. Head(s) = s[1]
  OBVIOUS
<1> QED
  BY <1>2, <1>3, <1>4, <1>5, SubSeqFull

\* The head passes or does not, before the rest.
LEMMA SiftHead ==
  ASSUME NEW M, NEW s \in Seq(M), s # <<>>, NEW S
  PROVE  /\ Head(s) \in S => Sift(s, S) = <<Head(s)>> \o Sift(Tail(s), S)
         /\ Head(s) \notin S => Sift(s, S) = Sift(Tail(s), S)
<1> DEFINE h == Head(s)
           t == Tail(s)
           one == <<h>>
<1>1. h \in M /\ t \in Seq(M) /\ one \in Seq(M)
  BY HeadAndTail
<1>2. one \o t = s
  BY HeadAndTail
<1>4. /\ h \in S => Sift(one, S) = one
      /\ h \notin S => Sift(one, S) = <<>>
  BY SiftOne
<1> HIDE DEF h, t, one
<1>3. Sift(one \o t, S) = Sift(one, S) \o Sift(t, S)
  BY <1>1, SiftConcat
<1>5. Sift(t, S) \in Seq(M \cap S)
  BY <1>1, SiftType
<1>6. <<>> \o Sift(t, S) = Sift(t, S)
  BY <1>5, ConcatEmptySeq
<1> QED
  BY <1>2, <1>3, <1>4, <1>6 DEF h, t, one

\* A sequence that starts with e.
LEMMA Cons ==
  ASSUME NEW M, NEW e \in M, NEW t \in Seq(M)
  PROVE  /\ <<e>> \o t \in Seq(M) /\ <<e>> \o t # <<>>
         /\ Len(<<e>> \o t) = Len(t) + 1
         /\ (<<e>> \o t)[1] = e
         /\ \A i \in 1 .. Len(t) : (<<e>> \o t)[i + 1] = t[i]
<1>1. <<e>> \in Seq(M) /\ Len(<<e>>) = 1 /\ <<e>>[1] = e
  OBVIOUS
<1>2. Len(t) \in Nat
  BY LenProperties
<1>3. /\ <<e>> \o t \in Seq(M) /\ Len(<<e>> \o t) = 1 + Len(t)
      /\ \A i \in 1 .. 1 + Len(t) : (<<e>> \o t)[i] = IF i <= 1 THEN <<e>>[i] ELSE t[i - 1]
  BY <1>1, ConcatProperties
<1>4. (<<e>> \o t)[1] = e
  BY <1>1, <1>2, <1>3
<1>5. ASSUME NEW i \in 1 .. Len(t) PROVE (<<e>> \o t)[i + 1] = t[i]
  <2>1. i + 1 \in 1 .. 1 + Len(t) /\ ~(i + 1 <= 1) /\ (i + 1) - 1 = i
    BY <1>2
  <2> QED
    BY <1>3, <2>1
<1> QED
  BY <1>2, <1>3, <1>4, <1>5, EmptySeq

\* One element more.
LEMMA CountOneMore ==
  ASSUME NEW M, NEW s \in Seq(M), NEW e \in M, NEW S
  PROVE  /\ s \o <<e>> = Append(s, e) /\ Len(Sift(s, S)) \in Nat
         /\ e \in S => Len(Sift(Append(s, e), S)) = Len(Sift(s, S)) + 1
         /\ e \notin S => Len(Sift(Append(s, e), S)) = Len(Sift(s, S))
<1> DEFINE p == Sift(s, S)
           N == M \cap S
<1>1. s \o <<e>> = Append(s, e)
  BY AppendIsConcat
<1>2. p \in Seq(N) /\ (e \in S => e \in N)
  BY SiftType
<1>3. /\ e \in S => Sift(Append(s, e), S) = Append(p, e)
      /\ e \notin S => Sift(Append(s, e), S) = p
  BY SiftAppend
<1> HIDE DEF p, N
<1>4. Len(p) \in Nat /\ (e \in N => Len(Append(p, e)) = Len(p) + 1)
  BY <1>2, LenProperties, AppendProperties
<1> QED
  BY <1>1, <1>2, <1>3, <1>4 DEF p
=============================================================================
