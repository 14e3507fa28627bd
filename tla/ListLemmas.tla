----------------------------- MODULE ListLemmas -----------------------------
(***************************************************************************)
(* What the operations on the linked lists of the event loop do to the     *)
(* entries of a list: dlist_del is RemoveAt, dlist_add is InsertAt, and    *)
(* freeing a whole list onto a stack is Reverse followed by concatenation. *)
(***************************************************************************)
EXTENDS Integers, Sequences, SequencesExt, SequenceTheorems,
        WellFoundedInduction, TLAPS

Member(s, e) == \E i \in DOMAIN s : s[i] = e
Distinct(s) == \A i, j \in DOMAIN s : s[i] = s[j] => i = j

\* Every nonempty set of natural numbers has a least element.
LEMMA LeastNat ==
    ASSUME NEW S, S \subseteq Nat, S # {}
    PROVE  \E j \in S : \A i \in S : j <= i
  <1> DEFINE R == {ss \in Nat \X Nat : ss[1] < ss[2]}
  <1>1. IsWellFoundedOn(R, Nat)
    <2>1. R = OpToRel(<, Nat)
      BY Zenon DEF OpToRel
    <2> QED BY <2>1, NatLessThanWellFounded, Zenon
  <1>2. PICK j \in S : \A i \in S : ~(<<i, j>> \in R)
    BY <1>1, WFMin, Zenon
  <1>3. ASSUME NEW i \in S  PROVE j <= i
    <2>1. i \in Nat /\ j \in Nat
      OBVIOUS
    <2>2. <<i, j>> \in Nat \X Nat /\ (i < j => <<i, j>> \in R)
      BY <2>1
    <2>3. ~(i < j)
      BY <1>2, <2>2
    <2> QED BY <2>1, <2>3
  <1> QED BY <1>3

\* RemoveAt, entry by entry.
LEMMA RemoveAtEntries ==
    ASSUME NEW S, NEW s \in Seq(S), NEW k \in 1..Len(s)
    PROVE  /\ RemoveAt(s, k) \in Seq(S)
           /\ Len(RemoveAt(s, k)) = Len(s) - 1
           /\ \A i \in 1..(Len(s) - 1) :
                RemoveAt(s, k)[i] = IF i < k THEN s[i] ELSE s[i + 1]
  <1> DEFINE p == SubSeq(s, 1, k - 1)
             q == SubSeq(s, k + 1, Len(s))
  <1>1. /\ p \in Seq(S) /\ Len(p) = k - 1
        /\ \A i \in 1..(k - 1) : p[i] = s[i]
    BY SubSeqProperties
  <1>2. /\ q \in Seq(S) /\ Len(q) = Len(s) - k
        /\ \A i \in 1..(Len(s) - k) : q[i] = s[k + i]
    BY SubSeqProperties
  <1>3. RemoveAt(s, k) = p \o q
    BY DEF RemoveAt
  <1> HIDE DEF p, q
  <1>4. /\ p \o q \in Seq(S) /\ Len(p \o q) = Len(s) - 1
        /\ \A i \in 1..(Len(s) - 1) :
             (p \o q)[i] = IF i <= k - 1 THEN p[i] ELSE q[i - (k - 1)]
    BY <1>1, <1>2, ConcatProperties
  <1> QED BY <1>1, <1>2, <1>3, <1>4

\* InsertAt, entry by entry.
LEMMA InsertAtEntries ==
    ASSUME NEW S, NEW s \in Seq(S), NEW m \in 1..(Len(s) + 1), NEW e \in S
    PROVE  /\ InsertAt(s, m, e) \in Seq(S)
           /\ Len(InsertAt(s, m, e)) = Len(s) + 1
           /\ \A i \in 1..(Len(s) + 1) :
                InsertAt(s, m, e)[i] =
                    IF i < m THEN s[i] ELSE IF i = m THEN e ELSE s[i - 1]
  <1> DEFINE p == SubSeq(s, 1, m - 1)
             q == SubSeq(s, m, Len(s))
             r == p \o <<e>>
  <1>1. /\ p \in Seq(S) /\ Len(p) = m - 1
        /\ \A i \in 1..(m - 1) : p[i] = s[i]
    BY SubSeqProperties
  <1>2. /\ q \in Seq(S) /\ Len(q) = Len(s) - m + 1
        /\ \A i \in 1..(Len(s) - m + 1) : q[i] = s[m + i - 1]
    BY SubSeqProperties
  <1>3. InsertAt(s, m, e) = r \o q
    BY DEF InsertAt
  <1> HIDE DEF p, q
  <1>4. /\ r \in Seq(S) /\ Len(r) = m
        /\ \A i \in 1..m : r[i] = IF i < m THEN p[i] ELSE e
    BY <1>1, ConcatProperties
  <1> HIDE DEF r
  <1>5. /\ r \o q \in Seq(S) /\ Len(r \o q) = Len(s) + 1
        /\ \A i \in 1..(Len(s) + 1) :
             (r \o q)[i] = IF i <= m THEN r[i] ELSE q[i - m]
    BY <1>2, <1>4, ConcatProperties
  <1> QED BY <1>1, <1>2, <1>3, <1>4, <1>5

\* Reverse(s) \o t, entry by entry.
LEMMA ReverseConcatEntries ==
    ASSUME NEW S, NEW s \in Seq(S), NEW t \in Seq(S)
    PROVE  /\ Reverse(s) \o t \in Seq(S)
           /\ Len(Reverse(s) \o t) = Len(s) + Len(t)
           /\ \A i \in 1..(Len(s) + Len(t)) :
                (Reverse(s) \o t)[i] =
                    IF i <= Len(s) THEN s[Len(s) - i + 1] ELSE t[i - Len(s)]
  BY DEF Reverse

\* RemoveAt takes away one member of a sequence without repetitions.
LEMMA RemoveAtMembers ==
    ASSUME NEW S, NEW s \in Seq(S), NEW k \in 1..Len(s), Distinct(s)
    PROVE  /\ RemoveAt(s, k) \in Seq(S)
           /\ Distinct(RemoveAt(s, k))
           /\ \A e : Member(RemoveAt(s, k), e) <=> Member(s, e) /\ e # s[k]
  <1> DEFINE t == RemoveAt(s, k)
  <1>1. /\ t \in Seq(S) /\ Len(t) = Len(s) - 1
        /\ \A i \in 1..(Len(s) - 1) : t[i] = IF i < k THEN s[i] ELSE s[i + 1]
    BY RemoveAtEntries
  <1> HIDE DEF t
  <1> DEFINE from(i) == IF i < k THEN i ELSE i + 1
  <1>2. Distinct(t)
    <2> SUFFICES ASSUME NEW i \in DOMAIN t, NEW j \in DOMAIN t, t[i] = t[j]
                 PROVE  i = j
      BY DEF Distinct
    <2>1. /\ from(i) \in DOMAIN s /\ t[i] = s[from(i)]
          /\ from(j) \in DOMAIN s /\ t[j] = s[from(j)]
      BY <1>1
    <2>2. from(i) = from(j)
      BY <2>1 DEF Distinct
    <2> QED BY <1>1, <2>2
  <1>3. ASSUME NEW e, Member(t, e)  PROVE Member(s, e) /\ e # s[k]
    BY <1>1, <1>3 DEF Member, Distinct
  <1>4. ASSUME NEW e, Member(s, e), e # s[k]  PROVE Member(t, e)
    <2>1. PICK i \in 1..Len(s) : s[i] = e
      BY <1>4 DEF Member
    <2>2. CASE i < k
      BY <1>1, <2>1, <2>2 DEF Member
    <2>3. CASE i > k
      <3>1. i - 1 \in DOMAIN t /\ t[i - 1] = e
        BY <1>1, <2>1, <2>3
      <3> QED BY <3>1 DEF Member
    <2> QED BY <1>4, <2>1, <2>2, <2>3
  <1> QED BY <1>1, <1>2, <1>3, <1>4 DEF t

\* InsertAt adds one member to a sequence without repetitions.
LEMMA InsertAtMembers ==
    ASSUME NEW S, NEW s \in Seq(S), NEW m \in 1..(Len(s) + 1), NEW e \in S,
           Distinct(s), ~Member(s, e)
    PROVE  /\ InsertAt(s, m, e) \in Seq(S)
           /\ Distinct(InsertAt(s, m, e))
           /\ \A x : Member(InsertAt(s, m, e), x) <=> Member(s, x) \/ x = e
  <1> DEFINE t == InsertAt(s, m, e)
  <1>1. /\ t \in Seq(S) /\ Len(t) = Len(s) + 1
        /\ \A i \in 1..(Len(s) + 1) :
             t[i] = IF i < m THEN s[i] ELSE IF i = m THEN e ELSE s[i - 1]
    BY InsertAtEntries
  <1> HIDE DEF t
  <1> DEFINE from(i) == IF i < m THEN i ELSE i - 1
  <1>6. ASSUME NEW i \in DOMAIN t
        PROVE  \/ i = m /\ t[i] = e
               \/ i # m /\ from(i) \in DOMAIN s /\ t[i] = s[from(i)]
    BY <1>1
  <1>2. Distinct(t)
    <2> SUFFICES ASSUME NEW i \in DOMAIN t, NEW j \in DOMAIN t, t[i] = t[j]
                 PROVE  i = j
      BY DEF Distinct
    <2>1. CASE i = m \/ j = m
      BY <1>6, <2>1 DEF Member
    <2>2. CASE i # m /\ j # m
      <3>1. from(i) = from(j)
        BY <1>6, <2>2 DEF Distinct
      <3>2. i \in Int /\ j \in Int
        BY <1>1
      <3> QED BY <2>2, <3>1, <3>2
    <2> QED BY <2>1, <2>2
  <1>3. ASSUME NEW x, Member(t, x)  PROVE Member(s, x) \/ x = e
    <2>1. PICK i \in DOMAIN t : t[i] = x
      BY <1>3 DEF Member
    <2> QED BY <1>6, <2>1 DEF Member
  <1>4. ASSUME NEW x, Member(s, x)  PROVE Member(t, x)
    <2>1. PICK i \in 1..Len(s) : s[i] = x
      BY <1>4 DEF Member
    <2>2. CASE i < m
      BY <1>1, <2>1, <2>2 DEF Member
    <2>3. CASE i >= m
      <3>1. i + 1 \in DOMAIN t /\ t[i + 1] = x
        BY <1>1, <2>1, <2>3
      <3> QED BY <3>1 DEF Member
    <2> QED BY <2>1, <2>2, <2>3
  <1>5. Member(t, e)
    BY <1>1 DEF Member
  <1> QED BY <1>1, <1>2, <1>3, <1>4, <1>5 DEF t

\* Reverse(s) \o t has the members of both.
LEMMA ReverseConcatMembers ==
    ASSUME NEW S, NEW s \in Seq(S), NEW t \in Seq(S), Distinct(s), Distinct(t),
           \A e : ~(Member(s, e) /\ Member(t, e))
    PROVE  /\ Reverse(s) \o t \in Seq(S)
           /\ Distinct(Reverse(s) \o t)
           /\ \A e : Member(Reverse(s) \o t, e) <=> Member(s, e) \/ Member(t, e)
  <1> DEFINE u == Reverse(s) \o t
  <1>1. /\ u \in Seq(S) /\ Len(u) = Len(s) + Len(t)
        /\ \A i \in 1..(Len(s) + Len(t)) :
             u[i] = IF i <= Len(s) THEN s[Len(s) - i + 1] ELSE t[i - Len(s)]
    BY ReverseConcatEntries
  <1> HIDE DEF u
  <1>2. ASSUME NEW i \in DOMAIN u
        PROVE  \/ i <= Len(s) /\ Len(s) - i + 1 \in DOMAIN s /\ u[i] = s[Len(s) - i + 1]
               \/ i > Len(s) /\ i - Len(s) \in DOMAIN t /\ u[i] = t[i - Len(s)]
    BY <1>1, <1>2
  <1>3. Distinct(u)
    <2> SUFFICES ASSUME NEW i \in DOMAIN u, NEW j \in DOMAIN u, u[i] = u[j]
                 PROVE  i = j
      BY DEF Distinct
    <2>1. i \in Int /\ j \in Int /\ Len(s) \in Int
      BY <1>1
    <2>2. CASE i <= Len(s) /\ j <= Len(s)
      <3>1. Len(s) - i + 1 = Len(s) - j + 1
        BY <1>2, <2>1, <2>2 DEF Distinct
      <3> QED BY <2>1, <3>1
    <2>3. CASE i > Len(s) /\ j > Len(s)
      <3>1. i - Len(s) = j - Len(s)
        BY <1>2, <2>1, <2>3 DEF Distinct
      <3> QED BY <2>1, <3>1
    <2>4. CASE i <= Len(s) /\ j > Len(s)
      <3>1. Member(s, u[i]) /\ Member(t, u[i])
        BY <1>2, <2>1, <2>4 DEF Member
      <3> QED BY <3>1
    <2>5. CASE i > Len(s) /\ j <= Len(s)
      <3>1. Member(t, u[i]) /\ Member(s, u[i])
        BY <1>2, <2>1, <2>5 DEF Member
      <3> QED BY <3>1
    <2> QED BY <2>1, <2>2, <2>3, <2>4, <2>5
  <1>4. ASSUME NEW e, Member(u, e)  PROVE Member(s, e) \/ Member(t, e)
    BY <1>2, <1>4 DEF Member
  <1>5. ASSUME NEW e, Member(s, e)  PROVE Member(u, e)
    <2>1. PICK i \in 1..Len(s) : s[i] = e
      BY <1>5 DEF Member
    <2>2. Len(s) - i + 1 \in DOMAIN u /\ u[Len(s) - i + 1] = e
      BY <1>1, <2>1
    <2> QED BY <2>2 DEF Member
  <1>6. ASSUME NEW e, Member(t, e)  PROVE Member(u, e)
    <2>1. PICK i \in 1..Len(t) : t[i] = e
      BY <1>6 DEF Member
    <2>2. i + Len(s) \in DOMAIN u /\ u[i + Len(s)] = e
      BY <1>1, <2>1
    <2> QED BY <2>2 DEF Member
  <1> QED BY <1>1, <1>3, <1>4, <1>5, <1>6 DEF u
=============================================================================
