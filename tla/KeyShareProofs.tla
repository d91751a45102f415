---------------------------- MODULE KeyShareProofs ----------------------------
(***************************************************************************)
(* What KeyShare and Panctl guarantee for any panctls, devices, requests,  *)
(* runs of the daemon and commands in a run: types, and answers that find  *)
(* the panctl that asked.                                                  *)
(***************************************************************************)
EXTENDS KeyShare, SequenceTheorems, WellFoundedInduction, TLAPS

-----------------------------------------------------------------------------
(* Sequences and what is in them.                                          *)

(* A set of numbers has a least one, since < is well founded on them.     *)
LEMMA LeastOf ==
  ASSUME NEW T, T \subseteq Nat, T # {}
  PROVE  \E x \in T : \A y \in T : x <= y
<1> DEFINE R == OpToRel(<, Nat)
<1>1. IsWellFoundedOn(R, Nat)  BY NatLessThanWellFounded
<1>2. \A x, y \in Nat : <<y, x>> \in R <=> y < x  BY DEF OpToRel
<1> HIDE DEF R
<1>3. PICK x \in T : \A y \in T : ~ (<<y, x>> \in R)  BY <1>1, WFMin
<1>4. ASSUME NEW y \in T PROVE x <= y
  <2>1. ~ (y < x) /\ x \in Nat /\ y \in Nat  BY <1>2, <1>3
  <2> QED  BY <2>1
<1> QED  BY <1>4

(* A sequence contains its head and what is in its tail.                   *)
LEMMA TailIs ==
  ASSUME NEW S, NEW s \in Seq(S), s # <<>>
  PROVE  /\ Head(s) \in S /\ Tail(s) \in Seq(S) /\ Head(s) \in Range(s)
         /\ Range(Tail(s)) \subseteq Range(s)
         /\ Range(s) = {Head(s)} \cup Range(Tail(s))
         /\ Len(s) \in Nat /\ Len(Tail(s)) < Len(s)
<1>1. /\ Head(s) \in S /\ Head(s) = s[1] /\ 1 \in 1..Len(s) /\ Tail(s) \in Seq(S)
      /\ Len(s) \in Nat /\ Len(Tail(s)) = Len(s) - 1
      /\ \A i \in 1..Len(Tail(s)) : i + 1 \in 1..Len(s) /\ Tail(s)[i] = s[i + 1]
      /\ \A j \in 2..Len(s) : j - 1 \in 1..Len(Tail(s)) /\ Tail(s)[j - 1] = s[j]
  OBVIOUS
<1>2. DOMAIN s = 1..Len(s) /\ DOMAIN Tail(s) = 1..Len(Tail(s))  BY <1>1
<1>3. Head(s) \in Range(s)  BY <1>1, <1>2 DEF Range
<1>4. Range(Tail(s)) \subseteq Range(s)  BY <1>1, <1>2 DEF Range
<1>5. ASSUME NEW i \in 1..Len(s) PROVE s[i] \in {Head(s)} \cup Range(Tail(s))
  <2>1. CASE i = 1  BY <1>1, <2>1
  <2>2. CASE i # 1
    <3>1. i \in 2..Len(s)  BY <1>1, <2>2
    <3> QED  BY <1>1, <1>2, <3>1 DEF Range
  <2> QED  BY <2>1, <2>2
<1>6. Range(s) \subseteq {Head(s)} \cup Range(Tail(s))  BY <1>2, <1>5 DEF Range
<1> QED  BY <1>1, <1>3, <1>4, <1>6

(* An append adds its element.                                             *)
LEMMA AppendIs ==
  ASSUME NEW S, NEW s \in Seq(S), NEW e \in S
  PROVE  /\ Append(s, e) \in Seq(S) /\ Range(Append(s, e)) = Range(s) \cup {e}
         /\ Len(s) \in Nat /\ Len(Append(s, e)) = Len(s) + 1
<1> DEFINE t == Append(s, e)
<1>1. /\ t \in Seq(S) /\ Len(s) \in Nat /\ Len(t) = Len(s) + 1 /\ t[Len(s) + 1] = e
      /\ \A i \in 1..Len(s) : i \in 1..Len(t) /\ t[i] = s[i]
  OBVIOUS
<1> HIDE DEF t
<1>2. DOMAIN s = 1..Len(s) /\ DOMAIN t = 1..Len(t)  BY <1>1
<1>3. Len(s) + 1 \in 1..Len(t)  BY <1>1
<1>4. Range(s) \cup {e} \subseteq Range(t)  BY <1>1, <1>2, <1>3 DEF Range
<1>5. ASSUME NEW i \in 1..Len(t) PROVE t[i] \in Range(s) \cup {e}
  <2>1. i \in 1..Len(s) \/ i = Len(s) + 1  BY <1>1
  <2> QED  BY <1>1, <1>2, <2>1 DEF Range
<1>6. Range(t) \subseteq Range(s) \cup {e}  BY <1>2, <1>5 DEF Range
<1>7. Range(t) = Range(s) \cup {e}  BY <1>4, <1>6
<1> QED  BY <1>1, <1>7 DEF t

(* No two places hold messages with the same number.                       *)
Distinct(s) == \A i, j \in 1..Len(s) : s[i].id = s[j].id => i = j

(* A tail stays distinct, and the head's number is not in it.              *)
LEMMA DistinctTail ==
  ASSUME NEW S, NEW s \in Seq(S), s # <<>>, Distinct(s)
  PROVE  Distinct(Tail(s)) /\ \A m \in Range(Tail(s)) : m.id # Head(s).id
<1>1. /\ Head(s) = s[1] /\ 1 \in 1..Len(s) /\ Tail(s) \in Seq(S)
      /\ Len(s) \in Nat /\ Len(Tail(s)) = Len(s) - 1
      /\ \A i \in 1..Len(Tail(s)) : i \in Nat /\ i > 0 /\ i + 1 \in 1..Len(s) /\ Tail(s)[i] = s[i + 1]
  OBVIOUS
<1>2. Distinct(Tail(s))
  <2> SUFFICES ASSUME NEW i \in 1..Len(Tail(s)), NEW j \in 1..Len(Tail(s)),
                      Tail(s)[i].id = Tail(s)[j].id
               PROVE  i = j
    BY DEF Distinct
  <2>1. i + 1 = j + 1  BY <1>1 DEF Distinct
  <2> QED  BY <1>1, <2>1
<1>3. ASSUME NEW i \in 1..Len(Tail(s)) PROVE Tail(s)[i].id # Head(s).id
  <2>1. i + 1 # 1  BY <1>1
  <2> QED  BY <1>1, <2>1 DEF Distinct
<1>4. DOMAIN Tail(s) = 1..Len(Tail(s))  BY <1>1
<1> QED  BY <1>2, <1>3, <1>4 DEF Range

(* An append of a new number keeps a sequence distinct.                    *)
LEMMA DistinctAppend ==
  ASSUME NEW S, NEW s \in Seq(S), NEW e \in S, Distinct(s), \A m \in Range(s) : m.id # e.id
  PROVE  Distinct(Append(s, e))
<1> DEFINE t == Append(s, e)
<1>1. /\ Len(s) \in Nat /\ Len(t) = Len(s) + 1 /\ t[Len(s) + 1] = e
      /\ \A i \in 1..Len(s) : t[i] = s[i]
  OBVIOUS
<1> HIDE DEF t
<1>2. DOMAIN s = 1..Len(s)  OBVIOUS
<1>3. \A i \in 1..Len(s) : t[i].id # e.id  BY <1>1, <1>2 DEF Range
<1>4. \A i \in 1..Len(t) : i \in 1..Len(s) \/ i = Len(s) + 1  BY <1>1
<1>5. ASSUME NEW i \in 1..Len(t), NEW j \in 1..Len(t), t[i].id = t[j].id PROVE i = j
  <2>1. CASE i \in 1..Len(s) /\ j \in 1..Len(s)  BY <1>1, <1>5, <2>1 DEF Distinct
  <2>2. CASE i = Len(s) + 1 \/ j = Len(s) + 1
    <3>1. i = Len(s) + 1 => t[i] = e  BY <1>1
    <3>2. j = Len(s) + 1 => t[j] = e  BY <1>1
    <3> QED  BY <1>3, <1>4, <1>5, <2>2, <3>1, <3>2
  <2> QED  BY <1>4, <2>1, <2>2
<1> QED  BY <1>5 DEF Distinct, t

(* Two sequences, joined, of n - 1 places in all.                          *)
LEMMA JoinIs ==
  ASSUME NEW S, NEW a \in Seq(S), NEW b \in Seq(S), NEW n \in Nat, NEW k \in 1..n,
         Len(a) = k - 1, Len(b) = n - k
  PROVE  /\ a \o b \in Seq(S) /\ Len(a \o b) = n - 1
         /\ \A i \in 1..n - 1 : /\ i < k => i \in 1..k - 1 /\ (a \o b)[i] = a[i]
                                /\ ~(i < k) => /\ i - k + 1 \in 1..n - k
                                               /\ (a \o b)[i] = b[i - k + 1]
<1> DEFINE t == a \o b
<1>1. /\ t \in Seq(S) /\ Len(t) = Len(a) + Len(b)
      /\ \A i \in 1..Len(a) + Len(b) : t[i] = IF i <= Len(a) THEN a[i] ELSE b[i - Len(a)]
  BY ConcatProperties
<1> HIDE DEF t
<1>2. Len(t) = n - 1  BY <1>1
<1>3. ASSUME NEW i \in 1..n - 1
      PROVE  /\ i < k => i \in 1..k - 1 /\ t[i] = a[i]
             /\ ~(i < k) => i - k + 1 \in 1..n - k /\ t[i] = b[i - k + 1]
  <2>1. t[i] = IF i <= k - 1 THEN a[i] ELSE b[i - (k - 1)]  BY <1>1
  <2>2. i - (k - 1) = i - k + 1  OBVIOUS
  <2> QED  BY <2>1, <2>2
<1> QED  BY <1>1, <1>2, <1>3 DEF t

(* A sequence without its place k.                                         *)
LEMMA CutIs ==
  ASSUME NEW S, NEW s \in Seq(S), NEW k \in 1..Len(s)
  PROVE  LET t == SubSeq(s, 1, k - 1) \o SubSeq(s, k + 1, Len(s)) IN
           /\ t \in Seq(S) /\ Len(t) = Len(s) - 1
           /\ \A i \in 1..Len(s) - 1 : t[i] = IF i < k THEN s[i] ELSE s[i + 1]
<1> DEFINE a == SubSeq(s, 1, k - 1)
           b == SubSeq(s, k + 1, Len(s))
           n == Len(s)
<1>1. n \in Nat /\ k \in 1..n /\ \A i \in 1..n : s[i] \in S
  OBVIOUS
<1>2. /\ a \in Seq(S) /\ Len(a) = k - 1 /\ \A i \in 1..k - 1 : a[i] = s[i]
  <2>1. 1 \in Int /\ k - 1 \in Int /\ \A i \in 1..k - 1 : s[i] \in S  BY <1>1
  <2> QED  BY <1>1, <2>1, SubSeqProperties
<1>3. /\ b \in Seq(S) /\ Len(b) = n - k /\ \A i \in 1..n - k : b[i] = s[k + i]
  <2>1. k + 1 \in Int /\ n \in Int /\ \A i \in k + 1..n : s[i] \in S  BY <1>1
  <2>2. /\ b \in Seq(S) /\ Len(b) = (IF k + 1 <= n THEN n - (k + 1) + 1 ELSE 0)
        /\ \A i \in 1..n - (k + 1) + 1 : b[i] = s[k + 1 + i - 1]
    BY <2>1, SubSeqProperties
  <2> HIDE DEF b
  <2> QED  BY <1>1, <2>2
<1> HIDE DEF a, b, n
<1>4. /\ a \o b \in Seq(S) /\ Len(a \o b) = n - 1
      /\ \A i \in 1..n - 1 : /\ i < k => i \in 1..k - 1 /\ (a \o b)[i] = a[i]
                             /\ ~(i < k) => /\ i - k + 1 \in 1..n - k
                                            /\ (a \o b)[i] = b[i - k + 1]
  BY <1>1, <1>2, <1>3, JoinIs
<1>5. ASSUME NEW i \in 1..n - 1 PROVE (a \o b)[i] = IF i < k THEN s[i] ELSE s[i + 1]
  <2>1. CASE i < k  BY <1>2, <1>4, <2>1
  <2>2. CASE ~(i < k)
    <3>1. (a \o b)[i] = s[k + (i - k + 1)]  BY <1>3, <1>4, <2>2
    <3>2. k + (i - k + 1) = i + 1  BY <1>1
    <3> QED  BY <2>2, <3>1, <3>2
  <2> QED  BY <2>1, <2>2
<1> QED  BY <1>4, <1>5 DEF a, b, n

(* RemoveFirstMatch, as ShowResponse uses it.                              *)
LEMMA FirstMatch ==
  ASSUME NEW S, NEW s \in Seq(S), NEW m, \E i \in 1..Len(s) : s[i].id = m.id
  PROVE  \E k \in 1..Len(s) :
           /\ s[k].id = m.id /\ \A i \in 1..Len(s) : s[i].id = m.id => k <= i
           /\ ShowResponse(s, m) = SubSeq(s, 1, k - 1) \o SubSeq(s, k + 1, Len(s))
<1> DEFINE I == {i \in 1..Len(s) : s[i].id = m.id}
           k == Min(I)
<1>1. I \subseteq Nat /\ I # {}  OBVIOUS
<1>2. ShowResponse(s, m) = RemoveAt(s, k)
  BY <1>1 DEF ShowResponse, RemoveFirstMatch, SelectInSeq
<1>3. \E x \in I : \A y \in I : x <= y  BY <1>1, LeastOf
<1>4. k \in I /\ \A y \in I : k <= y  BY <1>3 DEF Min
<1>5. ShowResponse(s, m) = SubSeq(s, 1, k - 1) \o SubSeq(s, k + 1, Len(s))
  BY <1>2 DEF RemoveAt
<1> HIDE DEF k
<1> QED  BY <1>4, <1>5

(* show_response takes one number off the list, if it is there, and leaves *)
(* the others.                                                             *)
LEMMA ShowIs ==
  ASSUME NEW S, NEW s \in Seq(S), NEW m
  PROVE  /\ ShowResponse(s, m) \in Seq(S)
         /\ Range(ShowResponse(s, m)) \subseteq Range(s)
         /\ \A c \in Range(s) : c.id # m.id => c \in Range(ShowResponse(s, m))
         /\ Len(ShowResponse(s, m)) < Len(s) <=> \E c \in Range(s) : c.id = m.id
<1> DEFINE t == ShowResponse(s, m)
<1>0. DOMAIN s = 1..Len(s) /\ Len(s) \in Nat  OBVIOUS
<1>1. CASE ~ \E i \in 1..Len(s) : s[i].id = m.id
  <2>1. t = s  BY <1>1 DEF ShowResponse, RemoveFirstMatch
  <2>2. ~ \E c \in Range(s) : c.id = m.id  BY <1>0, <1>1 DEF Range
  <2> QED  BY <1>0, <2>1, <2>2
<1>2. CASE \E i \in 1..Len(s) : s[i].id = m.id
  <2>1. PICK k \in 1..Len(s) : /\ s[k].id = m.id
                               /\ t = SubSeq(s, 1, k - 1) \o SubSeq(s, k + 1, Len(s))
    BY <1>2, FirstMatch
  <2> DEFINE r == SubSeq(s, 1, k - 1) \o SubSeq(s, k + 1, Len(s))
  <2>11. /\ r \in Seq(S) /\ Len(r) = Len(s) - 1
         /\ \A i \in 1..Len(s) - 1 : r[i] = IF i < k THEN s[i] ELSE s[i + 1]
    BY CutIs
  <2> HIDE DEF t, r
  <2>12. t = r  BY <2>1 DEF r
  <2>2. /\ t \in Seq(S) /\ Len(t) = Len(s) - 1
        /\ \A i \in 1..Len(t) : t[i] = IF i < k THEN s[i] ELSE s[i + 1]
    BY <2>11, <2>12
  <2>3. DOMAIN t = 1..Len(t)  BY <2>2
  <2>4. \A i \in 1..Len(t) : t[i] \in Range(s)
    <3> SUFFICES ASSUME NEW i \in 1..Len(t) PROVE t[i] \in Range(s)
      OBVIOUS
    <3>1. i \in 1..Len(s) /\ i + 1 \in 1..Len(s)  BY <1>0, <2>2
    <3> QED  BY <1>0, <2>2, <3>1 DEF Range
  <2>5. Range(t) \subseteq Range(s)  BY <2>3, <2>4 DEF Range
  <2>6. ASSUME NEW i \in 1..Len(s), s[i].id # m.id PROVE s[i] \in Range(t)
    <3>1. i # k  BY <2>1, <2>6
    <3>2. CASE i < k
      <4>1. i \in 1..Len(t) /\ t[i] = s[i]  BY <1>0, <2>2, <3>2
      <4> QED  BY <2>3, <4>1 DEF Range
    <3>3. CASE i > k
      <4>1. i - 1 \in 1..Len(t) /\ ~(i - 1 < k) /\ i - 1 + 1 = i  BY <1>0, <2>2, <3>3
      <4>2. t[i - 1] = s[i]  BY <2>2, <4>1
      <4> QED  BY <2>3, <4>1, <4>2 DEF Range
    <3> QED  BY <1>0, <3>1, <3>2, <3>3
  <2>7. \A c \in Range(s) : c.id # m.id => c \in Range(t)  BY <1>0, <2>6 DEF Range
  <2>8. s[k] \in Range(s) /\ Len(t) < Len(s)  BY <1>0, <2>2 DEF Range
  <2>9. (Len(t) < Len(s)) <=> \E c \in Range(s) : c.id = m.id  BY <2>1, <2>8
  <2>10. /\ t \in Seq(S) /\ Range(t) \subseteq Range(s)
         /\ \A c \in Range(s) : c.id # m.id => c \in Range(t)
         /\ Len(t) < Len(s) <=> \E c \in Range(s) : c.id = m.id
    BY <2>2, <2>5, <2>7, <2>9
  <2> QED  BY <2>10 DEF t
<1> QED  BY <1>1, <1>2

\* The calls of a sequence are in the order of the daemon's runs.
Sorted(s) == \A i, j \in 1..Len(s) : i < j => s[i].run <= s[j].run

\* Of the answers with the same number, those of the earlier run come first.
InOrder(s) == \A i, j \in 1..Len(s) : i < j /\ s[i].id = s[j].id => s[i].run < s[j].run

(* show_response removes the earliest of the calls with the number, and    *)
(* keeps their order: a call to a later run than one of them stays.        *)
LEMMA ShowSorted ==
  ASSUME NEW S, \A e \in S : e.run \in Nat, NEW s \in Seq(S), Sorted(s), NEW m
  PROVE  /\ Sorted(ShowResponse(s, m))
         /\ \A e \in Range(s), c \in Range(s) :
              e.id = m.id /\ e.run < c.run => c \in Range(ShowResponse(s, m))
<1> DEFINE t == ShowResponse(s, m)
<1>0. DOMAIN s = 1..Len(s) /\ Len(s) \in Nat /\ \A i \in 1..Len(s) : s[i].run \in Nat
  OBVIOUS
<1>1. CASE ~ \E i \in 1..Len(s) : s[i].id = m.id
  <2>1. t = s  BY <1>1 DEF ShowResponse, RemoveFirstMatch
  <2> QED  BY <2>1
<1>2. CASE \E i \in 1..Len(s) : s[i].id = m.id
  <2>1. PICK k \in 1..Len(s) :
          /\ s[k].id = m.id /\ \A i \in 1..Len(s) : s[i].id = m.id => k <= i
          /\ t = SubSeq(s, 1, k - 1) \o SubSeq(s, k + 1, Len(s))
    BY <1>2, FirstMatch
  <2> DEFINE r == SubSeq(s, 1, k - 1) \o SubSeq(s, k + 1, Len(s))
  <2>2. /\ r \in Seq(S) /\ Len(r) = Len(s) - 1
        /\ \A i \in 1..Len(s) - 1 : r[i] = IF i < k THEN s[i] ELSE s[i + 1]
    BY CutIs
  <2> HIDE DEF t, r
  <2>3. /\ t \in Seq(S) /\ Len(t) = Len(s) - 1
        /\ \A i \in 1..Len(t) : t[i] = IF i < k THEN s[i] ELSE s[i + 1]
    BY <2>1, <2>2 DEF r
  <2>4. ASSUME NEW i \in 1..Len(t), NEW j \in 1..Len(t), i < j PROVE t[i].run <= t[j].run
    <3>1. /\ i \in 1..Len(s) /\ i + 1 \in 1..Len(s) /\ j \in 1..Len(s) /\ j + 1 \in 1..Len(s)
          /\ i < j + 1 /\ i + 1 < j + 1 /\ (~(i < k) => ~(j < k))
      BY <1>0, <2>3, <2>4
    <3>2. s[i].run <= s[j].run /\ s[i].run <= s[j + 1].run /\ s[i + 1].run <= s[j + 1].run
      BY <2>4, <3>1 DEF Sorted
    <3> QED  BY <2>3, <3>1, <3>2
  <2>5. ASSUME NEW e \in Range(s), NEW c \in Range(s), e.id = m.id, e.run < c.run
        PROVE  c \in Range(t)
    <3>1. PICK i \in 1..Len(s) : e = s[i]  BY <1>0 DEF Range
    <3>2. PICK j \in 1..Len(s) : c = s[j]  BY <1>0 DEF Range
    <3>3. k <= i /\ i \in Nat /\ j \in Nat /\ k \in Nat  BY <2>1, <2>5, <3>1
    <3>4. s[k].run <= s[i].run
      <4>1. CASE k = i  BY <1>0, <4>1
      <4>2. CASE k < i  BY <4>2 DEF Sorted
      <4> QED  BY <3>3, <4>1, <4>2
    <3>5. j # k  BY <1>0, <2>5, <3>1, <3>2, <3>4
    <3>6. DOMAIN t = 1..Len(t)  BY <2>3
    <3>7. CASE j < k
      <4>1. j \in 1..Len(t) /\ t[j] = s[j]  BY <1>0, <2>3, <3>7
      <4> QED  BY <3>2, <3>6, <4>1 DEF Range
    <3>8. CASE j > k
      <4>1. j - 1 \in 1..Len(t) /\ ~(j - 1 < k) /\ j - 1 + 1 = j  BY <1>0, <2>3, <3>8
      <4>2. t[j - 1] = s[j]  BY <2>3, <4>1
      <4> QED  BY <3>2, <3>6, <4>1, <4>2 DEF Range
    <3> QED  BY <3>3, <3>5, <3>7, <3>8
  <2>6. Sorted(t)  BY <2>4 DEF Sorted
  <2> QED  BY <2>5, <2>6 DEF t
<1> QED  BY <1>1, <1>2

(* A call to the latest run of all is appended.                            *)
LEMMA SortedAppend ==
  ASSUME NEW S, NEW s \in Seq(S), NEW e \in S, Sorted(s), \A c \in Range(s) : c.run <= e.run
  PROVE  Sorted(Append(s, e))
<1> DEFINE t == Append(s, e)
<1>1. /\ Len(s) \in Nat /\ Len(t) = Len(s) + 1 /\ t[Len(s) + 1] = e
      /\ \A i \in 1..Len(s) : t[i] = s[i]
  OBVIOUS
<1> HIDE DEF t
<1>2. DOMAIN s = 1..Len(s)  OBVIOUS
<1>3. \A i \in 1..Len(s) : t[i].run <= e.run  BY <1>1, <1>2 DEF Range
<1>4. ASSUME NEW i \in 1..Len(t), NEW j \in 1..Len(t), i < j PROVE t[i].run <= t[j].run
  <2>1. i \in 1..Len(s) /\ (j \in 1..Len(s) \/ j = Len(s) + 1)  BY <1>1, <1>4
  <2>2. CASE j \in 1..Len(s)  BY <1>1, <1>4, <2>1, <2>2 DEF Sorted
  <2>3. CASE j = Len(s) + 1  BY <1>1, <1>3, <2>1, <2>3
  <2> QED  BY <2>1, <2>2, <2>3
<1> QED  BY <1>4 DEF Sorted, t

(* An answer is appended after those with its number of earlier runs.      *)
LEMMA InOrderAppend ==
  ASSUME NEW S, NEW s \in Seq(S), NEW e \in S, InOrder(s),
         \A m \in Range(s) : m.id = e.id => m.run < e.run
  PROVE  InOrder(Append(s, e))
<1> DEFINE t == Append(s, e)
<1>1. /\ Len(s) \in Nat /\ Len(t) = Len(s) + 1 /\ t[Len(s) + 1] = e
      /\ \A i \in 1..Len(s) : t[i] = s[i]
  OBVIOUS
<1> HIDE DEF t
<1>2. DOMAIN s = 1..Len(s)  OBVIOUS
<1>3. \A i \in 1..Len(s) : t[i].id = e.id => t[i].run < e.run  BY <1>1, <1>2 DEF Range
<1>4. ASSUME NEW i \in 1..Len(t), NEW j \in 1..Len(t), i < j, t[i].id = t[j].id
      PROVE  t[i].run < t[j].run
  <2>1. i \in 1..Len(s) /\ (j \in 1..Len(s) \/ j = Len(s) + 1)  BY <1>1, <1>4
  <2>2. CASE j \in 1..Len(s)  BY <1>1, <1>4, <2>1, <2>2 DEF InOrder
  <2>3. CASE j = Len(s) + 1  BY <1>1, <1>3, <1>4, <2>1, <2>3
  <2> QED  BY <2>1, <2>2, <2>3
<1> QED  BY <1>4 DEF InOrder, t

(* The tail of such a sequence is one, and the head is of an earlier run   *)
(* than the others with its number.                                        *)
LEMMA InOrderTail ==
  ASSUME NEW S, NEW s \in Seq(S), s # <<>>, InOrder(s)
  PROVE  InOrder(Tail(s)) /\ \A m \in Range(Tail(s)) : m.id = Head(s).id => Head(s).run < m.run
<1>1. /\ Head(s) = s[1] /\ 1 \in 1..Len(s) /\ Tail(s) \in Seq(S)
      /\ Len(s) \in Nat /\ Len(Tail(s)) = Len(s) - 1
      /\ \A i \in 1..Len(Tail(s)) : /\ i \in Nat /\ 1 < i + 1 /\ i + 1 \in 1..Len(s)
                                     /\ Tail(s)[i] = s[i + 1]
  OBVIOUS
<1>2. DOMAIN Tail(s) = 1..Len(Tail(s))  BY <1>1
<1>3. ASSUME NEW i \in 1..Len(Tail(s)), NEW j \in 1..Len(Tail(s)), i < j,
             Tail(s)[i].id = Tail(s)[j].id
      PROVE  Tail(s)[i].run < Tail(s)[j].run
  <2>1. i + 1 < j + 1  BY <1>1, <1>3
  <2> QED  BY <1>1, <1>3, <2>1 DEF InOrder
<1>4. \A i \in 1..Len(Tail(s)) : Tail(s)[i].id = Head(s).id => Head(s).run < Tail(s)[i].run
  BY <1>1 DEF InOrder
<1> QED  BY <1>2, <1>3, <1>4 DEF InOrder, Range

-----------------------------------------------------------------------------
(* Types.                                                                  *)

Message == [id : Nat, run : 1 .. MaxRuns, by : Panctls, command : Command]
Answer == [id : Nat, run : 1 .. MaxRuns, by : Panctls]
Reply(m) == [id |-> m.id, run |-> m.run, by |-> m.by]

Queues == /\ to_router \in Seq(Message) /\ to_ui \in Seq(Answer)
          /\ signals \in [Panctls -> Seq(Answer)] /\ handling \subseteq Message

\* What is being sent is still queued, unless it has been sent meanwhile:
\* this keeps the key of a request that waits from being on its way.
Flights == \A f \in in_flight : f[2] \in outgoing \cup sent

TypeInv == TypeOK /\ Queues /\ Flights

(* What PanctlTypeOK says of the queues follows from their types.          *)
LEMMA QueuesTyped ==
  ASSUME NEW r \in Seq(Message), NEW u \in Seq(Answer), NEW g \in [Panctls -> Seq(Answer)],
         NEW h \in SUBSET Message
  PROVE  /\ Range(r) \subseteq Message /\ Range(u) \subseteq Answer
         /\ \A m \in Range(r) \cup Range(u) : Call(m) \in Calls /\ m.by \in Panctls
         /\ \A p \in Panctls : Range(g[p]) \subseteq Answer
         /\ \A p \in Panctls : \A m \in Range(g[p]) : Call(m) \in Calls /\ m.by \in Panctls
         /\ \A m \in Range(r) \cup h : m.command \in Command
<1>1. DOMAIN r = 1..Len(r) /\ \A i \in 1..Len(r) : r[i] \in Message  OBVIOUS
<1>2. DOMAIN u = 1..Len(u) /\ \A i \in 1..Len(u) : u[i] \in Answer  OBVIOUS
<1>3. Range(r) \subseteq Message  BY <1>1 DEF Range
<1>4. Range(u) \subseteq Answer  BY <1>2 DEF Range
<1>5. \A m \in Message : Call(m) \in Calls /\ m.by \in Panctls /\ m.command \in Command
  BY DEF Message, Call, Calls
<1>6. \A m \in Answer : Call(m) \in Calls /\ m.by \in Panctls
  BY DEF Answer, Call, Calls
<1>7. ASSUME NEW p \in Panctls PROVE Range(g[p]) \subseteq Answer
  <2>1. g[p] \in Seq(Answer)  OBVIOUS
  <2>2. DOMAIN g[p] = 1..Len(g[p]) /\ \A i \in 1..Len(g[p]) : g[p][i] \in Answer  BY <2>1
  <2> QED  BY <2>2 DEF Range
<1> QED  BY <1>3, <1>4, <1>5, <1>6, <1>7

(* A reply to a message is an answer with its number.                      *)
LEMMA ReplyIs ==
  ASSUME NEW m \in Message
  PROVE  /\ Reply(m) \in Answer /\ Reply(m).id = m.id /\ Reply(m).run = m.run
         /\ Reply(m).by = m.by /\ Call(Reply(m)) = Call(m) /\ Call(m) \in Calls
         /\ Call(m).id = m.id /\ Call(m).run = m.run
         /\ m.id \in Nat /\ m.by \in Panctls
BY DEF Message, Answer, Reply, Call, Calls

(* The message a handler is given, and the queue it leaves.                *)
LEMMA RoutedIs ==
  ASSUME TypeInv, NEW kind, NEW d, Routed(kind, d)
  PROVE  /\ handling = {} /\ Head(to_router) \in Message
         /\ Head(to_router) \in Range(to_router)
         /\ to_router' = Tail(to_router) /\ to_router' \in Seq(Message)
         /\ Range(to_router) = {Head(to_router)} \cup Range(to_router')
<1>1. to_router \in Seq(Message) /\ to_router # <<>>
  BY DEF TypeInv, Queues, Routed, Take
<1> QED  BY <1>1, TailIs DEF Routed, Take

\* A step of panctl or of the UI thread, and the types of what it changes.
PanctlStep ==
  \/ \E p \in Panctls, c \in Command : CallMethod(p, c)
  \/ \E p \in Panctls : RecordId(p) \/ ReceiveResponse(p)
  \/ EmitResponse

PanctlTypes ==
  /\ run \in 1 .. MaxRuns /\ message_id \in 0 .. MaxCommands[run]
  /\ to_router \in Seq(Message) /\ to_ui \in Seq(Answer)
  /\ calling \in [Panctls -> Calls \cup {None}]
  /\ own_message_ids \in [Panctls -> Seq(Calls)]
  /\ signals \in [Panctls -> Seq(Answer)]
  /\ mistaken \in [Panctls -> SUBSET Nat]

(* The bounds are numbers.                                                 *)
LEMMA BoundsAre ==
  \A r \in 1 .. MaxRuns : r \in Nat /\ MaxCommands[r] \in Nat /\ 0 \in 0 .. MaxCommands[r]
BY BoundsAssumption

(* Such a step keeps those types.                                          *)
LEMMA PanctlStepTyped ==
  ASSUME PanctlTypes, PanctlStep
  PROVE  PanctlTypes'
<1> USE DEF PanctlTypes
<1>1. ASSUME NEW p \in Panctls, RecordId(p) PROVE PanctlTypes'
  <2>1. calling[p] \in Calls /\ own_message_ids[p] \in Seq(Calls)  BY <1>1 DEF RecordId
  <2>2. Append(own_message_ids[p], calling[p]) \in Seq(Calls)  BY <2>1
  <2>3. own_message_ids' \in [Panctls -> Seq(Calls)]  BY <1>1, <2>2 DEF RecordId
  <2>4. calling' \in [Panctls -> Calls \cup {None}]  BY <1>1 DEF RecordId
  <2> QED  BY <1>1, <2>3, <2>4 DEF RecordId
<1>2. ASSUME NEW p \in Panctls, NEW c \in Command, CallMethod(p, c) PROVE PanctlTypes'
  <2> DEFINE m == [id |-> message_id, run |-> run, by |-> p, command |-> c]
  <2>1. m \in Message  BY BoundsAre DEF Message
  <2>2. to_router' = Append(to_router, m) /\ calling' = [calling EXCEPT ![p] = Call(m)]
    BY <1>2 DEF CallMethod
  <2>3. message_id' \in 0 .. MaxCommands[run]  BY <1>2, BoundsAre DEF CallMethod
  <2> HIDE DEF m
  <2>4. to_router' \in Seq(Message)  BY <2>1, <2>2
  <2>5. Call(m) \in Calls  BY <2>1, ReplyIs
  <2>6. calling' \in [Panctls -> Calls \cup {None}]  BY <2>2, <2>5
  <2>7. UNCHANGED <<run, to_ui, own_message_ids, signals, mistaken>>
    BY <1>2 DEF CallMethod, memory
  <2> QED  BY <2>3, <2>4, <2>6, <2>7
<1>3. CASE EmitResponse
  <2>1. to_ui # <<>> /\ to_ui' = Tail(to_ui)  BY <1>3 DEF EmitResponse
  <2>2. to_ui' \in Seq(Answer) /\ Head(to_ui) \in Answer  BY <2>1, TailIs
  <2>3. \A p \in Panctls : Append(signals[p], Head(to_ui)) \in Seq(Answer)
    BY <2>2, AppendIs
  <2>4. signals' \in [Panctls -> Seq(Answer)]  BY <1>3, <2>3 DEF EmitResponse
  <2> QED  BY <1>3, <2>2, <2>4 DEF EmitResponse
<1>4. ASSUME NEW p \in Panctls, ReceiveResponse(p) PROVE PanctlTypes'
  <2> DEFINE h == Head(signals[p])
             t == ShowResponse(own_message_ids[p], h)
  <2>1. signals[p] \in Seq(Answer) /\ signals[p] # <<>>  BY <1>4 DEF ReceiveResponse
  <2>2. h \in Answer /\ Tail(signals[p]) \in Seq(Answer)  BY <2>1, TailIs
  <2>3. t \in Seq(Calls)  BY ShowIs
  <2>4. /\ signals' = [signals EXCEPT ![p] = Tail(signals[p])]
        /\ own_message_ids' = [own_message_ids EXCEPT ![p] = t]
        /\ mistaken' = [mistaken EXCEPT ![p] = IF h.by # p /\ t # own_message_ids[p]
                                               THEN mistaken[p] \cup {h.id} ELSE mistaken[p]]
        /\ UNCHANGED <<run, message_id, to_router, to_ui, calling>>
    BY <1>4 DEF ReceiveResponse
  <2>5. h.id \in Nat  BY <2>2 DEF Answer
  <2> HIDE DEF h, t
  <2>6. signals' \in [Panctls -> Seq(Answer)]  BY <2>2, <2>4
  <2>7. own_message_ids' \in [Panctls -> Seq(Calls)]  BY <2>3, <2>4
  <2>8. mistaken' \in [Panctls -> SUBSET Nat]  BY <2>4, <2>5
  <2> QED  BY <2>4, <2>6, <2>7, <2>8
<1> QED  BY <1>1, <1>2, <1>3, <1>4 DEF PanctlStep

(* A restart keeps what panctl remembers, or starts it anew.               *)
LEMMA RestartIs ==
  ASSUME RestartDaemon
  PROVE  \E broken \in SUBSET Panctls :
           /\ calling' = [p \in Panctls |-> IF p \in broken THEN None ELSE calling[p]]
           /\ own_message_ids' = [p \in Panctls |-> IF p \in broken THEN <<>>
                                                     ELSE own_message_ids[p]]
           /\ signals' = [p \in Panctls |-> IF p \in broken THEN <<>> ELSE signals[p]]
           /\ mistaken' = [p \in Panctls |-> IF p \in broken THEN {} ELSE mistaken[p]]
BY DEF RestartDaemon

(* ... with its types.                                                     *)
LEMMA RestartTyped ==
  ASSUME PanctlTypes, RestartDaemon
  PROVE  PanctlTypes'
<1> USE DEF PanctlTypes
<1>1. PICK broken \in SUBSET Panctls :
        /\ calling' = [p \in Panctls |-> IF p \in broken THEN None ELSE calling[p]]
        /\ own_message_ids' = [p \in Panctls |-> IF p \in broken THEN <<>>
                                                  ELSE own_message_ids[p]]
        /\ signals' = [p \in Panctls |-> IF p \in broken THEN <<>> ELSE signals[p]]
        /\ mistaken' = [p \in Panctls |-> IF p \in broken THEN {} ELSE mistaken[p]]
  BY RestartIs
<1>2. <<>> \in Seq(Calls) /\ <<>> \in Seq(Message) /\ <<>> \in Seq(Answer)  OBVIOUS
<1>3. calling' \in [Panctls -> Calls \cup {None}]  BY <1>1
<1>4. own_message_ids' \in [Panctls -> Seq(Calls)]  BY <1>1, <1>2
<1>5. signals' \in [Panctls -> Seq(Answer)]  BY <1>1, <1>2
<1>6. mistaken' \in [Panctls -> SUBSET Nat]  BY <1>1
<1>7. run' \in 1 .. MaxRuns /\ message_id' = 0  BY BoundsAssumption DEF RestartDaemon
<1>8. message_id' \in 0 .. MaxCommands[run']  BY <1>7, BoundsAre
<1>9. to_router' \in Seq(Message) /\ to_ui' \in Seq(Answer)  BY <1>2 DEF RestartDaemon
<1> QED  BY <1>3, <1>4, <1>5, <1>6, <1>7, <1>8, <1>9

(* The requests' part of the types.                                        *)
SharingTypes ==
  /\ verified \subseteq Devices
  /\ waiting \subseteq KeyRequests /\ outgoing \subseteq KeyRequests
  /\ waiting \cap (outgoing \cup sent) = {}
  /\ in_flight \subseteq Sends /\ sent \subseteq KeyRequests /\ failures \in 0 .. MaxFailures
  /\ Flights

\* What is awaited is one command.
HandlingTypes == handling \subseteq Message /\ \A m, n \in handling : m = n

(* The three parts make up the types.                                      *)
LEMMA TypeParts ==
  TypeInv <=> PanctlTypes /\ SharingTypes /\ HandlingTypes
<1>1. TypeInv => PanctlTypes /\ SharingTypes /\ HandlingTypes
  BY DEF TypeInv, TypeOK, PanctlTypeOK, Queues, PanctlTypes, SharingTypes, HandlingTypes
<1>2. ASSUME PanctlTypes, SharingTypes, HandlingTypes PROVE TypeInv
  <2>1. Queues  BY <1>2 DEF Queues, PanctlTypes, HandlingTypes
  <2>2. PanctlTypeOK  BY <1>2, <2>1, QueuesTyped DEF Queues, PanctlTypes, PanctlTypeOK
  <2>3. \A m \in Range(to_router) \cup handling : m.command \in Command
    BY <2>1, QueuesTyped DEF Queues
  <2> QED  BY <1>2, <2>1, <2>2, <2>3 DEF TypeInv, TypeOK, SharingTypes, HandlingTypes
<1> QED  BY <1>1, <1>2

(* The same of the next state.                                             *)
LEMMA TypePartsNext ==
  ASSUME PanctlTypes', SharingTypes', HandlingTypes'
  PROVE  TypeInv'
<1>1. Queues'  BY DEF Queues, PanctlTypes, HandlingTypes
<1>2. PanctlTypeOK'  BY <1>1, QueuesTyped DEF Queues, PanctlTypes, PanctlTypeOK
<1>3. \A m \in Range(to_router') \cup handling' : m.command \in Command
  BY <1>1, QueuesTyped DEF Queues
<1> QED  BY <1>1, <1>2, <1>3 DEF TypeInv, TypeOK, SharingTypes, HandlingTypes

(* The initial state has the types.                                        *)
LEMMA TypeInit == Init => TypeInv
<1> SUFFICES ASSUME Init PROVE TypeInv
  OBVIOUS
<1>1. <<>> \in Seq(Calls) /\ <<>> \in Seq(Message) /\ <<>> \in Seq(Answer)  OBVIOUS
<1>2. run \in 1 .. MaxRuns /\ message_id \in 0 .. MaxCommands[run]
  <2>1. run = 1 /\ 1 \in 1 .. MaxRuns /\ message_id = 0
    BY BoundsAssumption DEF Init, PanctlInit
  <2> QED  BY <2>1, BoundsAre
<1>3. /\ calling \in [Panctls -> Calls \cup {None}]
      /\ own_message_ids \in [Panctls -> Seq(Calls)]
      /\ signals \in [Panctls -> Seq(Answer)] /\ mistaken \in [Panctls -> SUBSET Nat]
      /\ to_router \in Seq(Message) /\ to_ui \in Seq(Answer)
  BY <1>1 DEF Init, PanctlInit
<1>4. PanctlTypes  BY <1>2, <1>3 DEF PanctlTypes
<1>5. SharingTypes  BY FailuresAssumption DEF Init, SharingTypes, Flights
<1>6. HandlingTypes  BY DEF Init, HandlingTypes
<1> QED  BY <1>4, <1>5, <1>6, TypeParts

(* A step that leaves the requests alone.                                  *)
LEMMA SharingKept ==
  ASSUME SharingTypes, UNCHANGED <<waiting, outgoing, in_flight, verified, sent, failures>>
  PROVE  SharingTypes'
BY DEF SharingTypes, Flights

(* A step that leaves panctl and its queues alone.                         *)
LEMMA PanctlKept ==
  ASSUME PanctlTypes, UNCHANGED panctlVars
  PROVE  PanctlTypes'
BY DEF PanctlTypes, panctlVars, memory

(* A handler takes a message and answers it at once.                       *)
LEMMA AnsweredTyped ==
  ASSUME TypeInv, NEW kind, NEW d, Routed(kind, d), Respond(Head(to_router)),
         UNCHANGED <<run, message_id, calling, memory>>
  PROVE  PanctlTypes'
<1>1. Head(to_router) \in Message /\ to_router' \in Seq(Message)  BY RoutedIs
<1>2. to_ui' = Append(to_ui, Reply(Head(to_router)))  BY DEF Respond, Reply
<1>3. to_ui \in Seq(Answer) /\ Reply(Head(to_router)) \in Answer
  BY <1>1, ReplyIs DEF TypeInv, Queues
<1>4. to_ui' \in Seq(Answer)  BY <1>2, <1>3, AppendIs
<1>5. PanctlTypes  BY TypeParts
<1> QED  BY <1>1, <1>4, <1>5 DEF PanctlTypes, memory

(* Each step of the handlers keeps the types.                              *)
LEMMA HandlerTyped ==
  ASSUME TypeInv, Handler
  PROVE  TypeInv'
<1>1. PanctlTypes /\ SharingTypes /\ HandlingTypes  BY TypeParts
<1>2. CASE Continued
  <2>1. PICK m \in handling : Respond(m)  BY <1>2 DEF Continued
  <2>2. m \in Message /\ to_ui' = Append(to_ui, Reply(m)) /\ to_ui \in Seq(Answer)
    BY <1>1, <2>1 DEF HandlingTypes, PanctlTypes, Respond, Reply
  <2>3. to_ui' \in Seq(Answer)  BY <2>2, ReplyIs, AppendIs
  <2>4. PanctlTypes'
    BY <1>1, <1>2, <2>3 DEF Continued, PanctlTypes, memory
  <2>5. SharingTypes'  BY <1>1, <1>2, SharingKept DEF Continued
  <2>6. HandlingTypes'  BY <1>2 DEF Continued, HandlingTypes
  <2> QED  BY <2>4, <2>5, <2>6, TypePartsNext
<1>3. ASSUME NEW d \in Devices, ContinueRefused(d) PROVE TypeInv'
  <2>1. PanctlTypes'  BY <1>3, AnsweredTyped DEF ContinueRefused
  <2>2. SharingTypes'  BY <1>1, <1>3, SharingKept DEF ContinueRefused, sharing
  <2>3. HandlingTypes'  BY <1>1, <1>3 DEF ContinueRefused, sharing, HandlingTypes
  <2> QED  BY <2>1, <2>2, <2>3, TypePartsNext
<1>4. ASSUME NEW d \in Devices, Continue(d) PROVE TypeInv'
  <2>1. Head(to_router) \in Message /\ to_router' \in Seq(Message)
    BY <1>4, RoutedIs DEF Continue
  <2>2. PanctlTypes'
    BY <1>1, <1>4, <2>1 DEF Continue, PanctlTypes, memory
  <2>3. SharingTypes'
    <3>1. Active(d) \subseteq waiting  BY DEF Active
    <3>2. in_flight' \subseteq Sends
      BY <1>1, <1>4, <3>1 DEF Continue, SharingTypes, Sends
    <3>3. Flights'
      BY <1>1, <1>4, <3>1 DEF Continue, SharingTypes, Flights
    <3> QED  BY <1>1, <1>4, <3>1, <3>2, <3>3 DEF Continue, SharingTypes
  <2>4. HandlingTypes'  BY <1>4, <2>1 DEF Continue, HandlingTypes
  <2> QED  BY <2>2, <2>3, <2>4, TypePartsNext
<1>5. ASSUME NEW d \in Devices, Cancel(d) PROVE TypeInv'
  <2>1. PanctlTypes'  BY <1>5, AnsweredTyped DEF Cancel
  <2>2. SharingTypes'  BY <1>1, <1>5 DEF Cancel, SharingTypes, Flights
  <2>3. HandlingTypes'  BY <1>1, <1>5 DEF Cancel, HandlingTypes
  <2> QED  BY <2>1, <2>2, <2>3, TypePartsNext
<1> QED  BY <1>2, <1>3, <1>4, <1>5 DEF Handler

(* A send that returns or fails keeps the requests' types.                 *)
LEMMA SendTyped ==
  ASSUME SharingTypes, NEW f \in Sends, Send(f)
  PROVE  SharingTypes'
<1>1. f \in in_flight /\ f[2] \in KeyRequests /\ f[2] \in outgoing \cup sent
  BY DEF Send, SendReturns, SendFails, SharingTypes, Flights, Sends
<1>2. CASE SendReturns(f)
  BY <1>1, <1>2 DEF SendReturns, SharingTypes, Flights
<1>3. CASE SendFails(f)
  <2>1. \A g \in in_flight : g[2] \in KeyRequests /\ <<"nobody", g[2]>> \in Sends
    BY DEF SharingTypes, Sends
  <2>2. in_flight' \subseteq Sends  BY <1>3, <2>1 DEF SendFails, SharingTypes
  <2>3. ASSUME NEW g \in in_flight' PROVE \E h \in in_flight : g[2] = h[2]
    BY <1>3 DEF SendFails
  <2>4. Flights'  BY <1>3, <2>3 DEF SendFails, SharingTypes, Flights
  <2>5. failures' \in 0 .. MaxFailures
    BY <1>3, FailuresAssumption DEF SendFails, SharingTypes
  <2> QED  BY <1>3, <2>2, <2>4, <2>5 DEF SendFails, SharingTypes
<1> QED  BY <1>2, <1>3 DEF Send

(* Every step keeps the types.                                             *)
LEMMA TypeStep == TypeInv /\ [Next]_vars => TypeInv'
<1> SUFFICES ASSUME TypeInv, [Next]_vars PROVE TypeInv'
  OBVIOUS
<1>1. PanctlTypes /\ SharingTypes /\ HandlingTypes  BY TypeParts
<1>2. CASE Interface
  <2>1. PanctlTypes'  BY <1>1, <1>2, PanctlStepTyped DEF Interface, PanctlStep
  <2>2. SharingTypes'  BY <1>1, <1>2, SharingKept DEF Interface, sharing
  <2>3. HandlingTypes'  BY <1>1, <1>2 DEF Interface, sharing, HandlingTypes
  <2> QED  BY <2>1, <2>2, <2>3, TypePartsNext
<1>3. CASE Handler  BY <1>3, HandlerTyped
<1>4. CASE SyncSends
  <2>1. PanctlTypes'  BY <1>1, <1>4, PanctlKept DEF SyncSends
  <2>2. SharingTypes'  BY <1>1, <1>4 DEF SyncSends, SharingTypes, Flights, Sends
  <2>3. HandlingTypes'  BY <1>1, <1>4 DEF SyncSends, HandlingTypes
  <2> QED  BY <2>1, <2>2, <2>3, TypePartsNext
<1>5. CASE Restart
  <2>1. PanctlTypes'  BY <1>1, <1>5, RestartTyped DEF Restart
  <2>2. SharingTypes'  BY <1>1, <1>5 DEF Restart, SharingTypes, Flights
  <2>3. HandlingTypes'  BY <1>5 DEF Restart, HandlingTypes
  <2> QED  BY <2>1, <2>2, <2>3, TypePartsNext
<1>6. ASSUME NEW k \in KeyRequests, DeviceRequests(k) \/ DeviceCancels(k) PROVE TypeInv'
  <2>1. PanctlTypes'  BY <1>1, <1>6, PanctlKept DEF DeviceRequests, DeviceCancels
  <2>2. SharingTypes'
    BY <1>1, <1>6 DEF DeviceRequests, DeviceCancels, SharingTypes, Flights
  <2>3. HandlingTypes'
    BY <1>1, <1>6 DEF DeviceRequests, DeviceCancels, HandlingTypes
  <2> QED  BY <2>1, <2>2, <2>3, TypePartsNext
<1>7. ASSUME NEW d \in Devices, SetTrust(d) PROVE TypeInv'
  <2>1. PanctlTypes'  BY <1>1, <1>7, PanctlKept DEF SetTrust
  <2>2. SharingTypes'  BY <1>1, <1>7 DEF SetTrust, sharing, SharingTypes, Flights
  <2>3. HandlingTypes'  BY <1>1, <1>7 DEF SetTrust, sharing, HandlingTypes
  <2> QED  BY <2>1, <2>2, <2>3, TypePartsNext
<1>8. ASSUME NEW f \in Sends, Send(f) PROVE TypeInv'
  <2>1. PanctlTypes'  BY <1>1, <1>8, PanctlKept DEF Send, SendReturns, SendFails
  <2>2. SharingTypes'  BY <1>1, <1>8, SendTyped
  <2>3. HandlingTypes'  BY <1>1, <1>8 DEF Send, SendReturns, SendFails, HandlingTypes
  <2> QED  BY <2>1, <2>2, <2>3, TypePartsNext
<1>9. CASE UNCHANGED vars
  <2>1. PanctlTypes'  BY <1>1, <1>9, PanctlKept DEF vars
  <2>2. SharingTypes'  BY <1>1, <1>9, SharingKept DEF vars, sharing
  <2>3. HandlingTypes'  BY <1>1, <1>9 DEF vars, sharing, HandlingTypes
  <2> QED  BY <2>1, <2>2, <2>3, TypePartsNext
<1> QED  BY <1>2, <1>3, <1>4, <1>5, <1>6, <1>7, <1>8, <1>9 DEF Next

(* Every variable has its type, and a request waits or its key is on its   *)
(* way, not both.                                                          *)
THEOREM TypeCorrect == Spec => []TypeOK
<1>1. TypeInv => TypeOK  BY DEF TypeInv
<1> QED  BY <1>1, TypeInit, TypeStep, PTL DEF Spec

-----------------------------------------------------------------------------
(* Who waits for what.                                                     *)

\* The answers that are still to come, wherever their command is.
Pending == Range(to_router) \cup handling
Due == {Reply(m) : m \in Pending} \cup Range(to_ui)

\* The calls a panctl has made and whose answer it has not shown.
Held(p) == Range(own_message_ids[p]) \cup ({calling[p]} \ {None})

Holding == [p \in Panctls |-> Held(p)]

\* What a panctl will still hear of.
Coming == [p \in Panctls |-> Due \cup Range(signals[p])]

\* What is due is of this run of the daemon, what is on its way or waited for
\* of no later one.  Who is owed an answer waits for it, unless it has shown
\* another's for its number; and no one else waits for it.
Awaited(due, coming, held, mistaken_, run_, ids) ==
  /\ \A m \in due : m.run = run_ /\ m.id < ids
  /\ \A p \in Panctls : \A c \in coming[p] \cup held[p] :
       c.run <= run_ /\ (c.run = run_ => c.id < ids)
  /\ \A p \in Panctls : \A m \in coming[p] :
       /\ m.by = p => Call(m) \in held[p] \/ m.id \in mistaken_[p]
       /\ Call(m) \in held[p] => m.by = p

\* Calls are made, and signals come, in the order of the runs.
Lines ==
  \A p \in Panctls :
    /\ Sorted(own_message_ids[p])
    /\ \A c \in Range(own_message_ids[p]) : calling[p] # None => c.run <= calling[p].run
    /\ InOrder(signals[p])
    /\ \A m \in Range(signals[p]), n \in Due : m.id = n.id => m.run < n.run

\* An answer is due once: a command is queued, in hand or answered.
Once ==
  /\ Distinct(to_router) /\ Distinct(to_ui)
  /\ \A m \in Pending, n \in Range(to_ui) : m.id # n.id
  /\ \A m \in Range(to_router), n \in handling : m.id # n.id

AnswersInv ==
  Awaited(Due, Coming, Holding, mistaken, run, message_id) /\ Once /\ Lines

IInv == TypeInv /\ AnswersInv

(* The empty sequence is all that.                                         *)
LEMMA EmptyIs ==
  Range(<<>>) = {} /\ Distinct(<<>>) /\ Sorted(<<>>) /\ InOrder(<<>>)
<1>1. Len(<<>>) = 0 /\ DOMAIN <<>> = {}  OBVIOUS
<1>2. 1..Len(<<>>) = {}  BY <1>1
<1> QED  BY <1>1, <1>2 DEF Range, Distinct, Sorted, InOrder

(* Before the first command nothing is due.                                *)
LEMMA AnswersInit == Init => AnswersInv
<1> SUFFICES ASSUME Init PROVE AnswersInv
  OBVIOUS
<1>1. Due = {} /\ Pending = {}  BY EmptyIs DEF Init, PanctlInit, Due, Pending
<1>2. \A p \in Panctls : Holding[p] = {} /\ Coming[p] = {}
  BY <1>1, EmptyIs DEF Init, PanctlInit, Holding, Held, Coming
<1>3. Awaited(Due, Coming, Holding, mistaken, run, message_id)  BY <1>1, <1>2 DEF Awaited
<1>4. Once  BY <1>1, EmptyIs DEF Init, PanctlInit, Once
<1>5. Lines  BY <1>1, EmptyIs DEF Init, PanctlInit, Lines
<1> QED  BY <1>3, <1>4, <1>5 DEF AnswersInv

(* What is due are answers, each with the number of a call.                *)
LEMMA DueIs ==
  ASSUME TypeInv
  PROVE  /\ Due \subseteq Answer /\ Pending \subseteq Message
         /\ \A p \in Panctls : Holding[p] \subseteq Calls /\ Coming[p] \subseteq Answer
         /\ \A m \in Answer : m.id \in Nat /\ m.run \in Nat /\ m.by \in Panctls
         /\ \A c \in Calls : c.id \in Nat /\ c.run \in Nat
         /\ run \in Nat /\ message_id \in Nat
<1>1. /\ Pending \subseteq Message /\ Range(to_ui) \subseteq Answer
      /\ \A p \in Panctls : Range(signals[p]) \subseteq Answer
  BY QueuesTyped DEF TypeInv, Queues, Pending
<1>2. Due \subseteq Answer  BY <1>1, ReplyIs DEF Due
<1>3. PanctlTypes  BY TypeParts
<1>4. ASSUME NEW p \in Panctls PROVE Holding[p] \subseteq Calls
  <2>1. own_message_ids[p] \in Seq(Calls) /\ calling[p] \in Calls \cup {None}
    BY <1>3 DEF PanctlTypes
  <2>2. \A i \in DOMAIN own_message_ids[p] : own_message_ids[p][i] \in Calls  BY <2>1
  <2> QED  BY <2>1, <2>2 DEF Holding, Held, Range
<1>5. \A p \in Panctls : Coming[p] \subseteq Answer  BY <1>1, <1>2 DEF Coming
<1>6. \A m \in Answer : m.id \in Nat /\ m.run \in Nat /\ m.by \in Panctls  BY DEF Answer
<1>7. \A c \in Calls : c.id \in Nat /\ c.run \in Nat  BY DEF Calls
<1>8. run \in Nat /\ message_id \in Nat
  <2>1. run \in 1 .. MaxRuns /\ message_id \in 0 .. MaxCommands[run]  BY <1>3 DEF PanctlTypes
  <2> QED  BY <2>1, BoundsAre
<1> QED  BY <1>1, <1>2, <1>4, <1>5, <1>6, <1>7, <1>8

(* A command that moves from the queue to its handler or to its answer     *)
(* leaves what is due, and who waits for it.                               *)
LEMMA Moved ==
  ASSUME AnswersInv, Due' = Due, Once', UNCHANGED <<run, message_id, calling, memory>>
  PROVE  AnswersInv'
<1>1. UNCHANGED <<own_message_ids, signals, mistaken>>  BY DEF memory
<1>2. Holding' = Holding /\ Coming' = Coming  BY <1>1 DEF Holding, Held, Coming
<1>3. Lines'  BY <1>1 DEF AnswersInv, Lines
<1>4. Awaited(Due', Coming', Holding', mistaken', run', message_id')
  BY <1>1, <1>2 DEF AnswersInv
<1> QED  BY <1>3, <1>4 DEF AnswersInv

(* A handler takes a message and answers it at once.                       *)
LEMMA AnsweredAwaited ==
  ASSUME TypeInv, AnswersInv, NEW kind, NEW d, Routed(kind, d), Respond(Head(to_router)),
         UNCHANGED <<run, message_id, calling, memory, handling>>
  PROVE  AnswersInv'
<1> DEFINE h == Head(to_router)
<1>1. /\ handling = {} /\ h \in Message /\ h \in Range(to_router)
      /\ to_router' = Tail(to_router) /\ to_router' \in Seq(Message)
      /\ Range(to_router) = {h} \cup Range(to_router')
  BY RoutedIs
<1>2. to_ui' = Append(to_ui, Reply(h)) /\ to_ui \in Seq(Answer) /\ Reply(h) \in Answer
  BY <1>1, ReplyIs DEF Respond, Reply, TypeInv, Queues
<1>3. to_router \in Seq(Message) /\ to_router # <<>>
  BY DEF TypeInv, Queues, Routed, Take
<1>4. Distinct(to_router') /\ \A m \in Range(to_router') : m.id # h.id
  BY <1>1, <1>3, DistinctTail DEF AnswersInv, Once
<1> HIDE DEF h
<1>5. Range(to_ui') = Range(to_ui) \cup {Reply(h)}  BY <1>2, AppendIs
<1>6. Reply(h).id = h.id  BY <1>1, ReplyIs
<1>7. Distinct(to_ui')
  <2>1. \A n \in Range(to_ui) : n.id # Reply(h).id
    BY <1>1, <1>6 DEF AnswersInv, Once, Pending
  <2> QED  BY <1>2, <2>1, DistinctAppend DEF AnswersInv, Once
<1>8. Once'
  <2>1. Pending' = Range(to_router') /\ Pending' \subseteq Pending  BY <1>1 DEF Pending
  <2>2. \A m \in Pending', n \in Range(to_ui') : m.id # n.id
    BY <1>4, <1>5, <1>6, <2>1 DEF AnswersInv, Once
  <2> QED  BY <1>1, <1>4, <1>7, <2>2 DEF Once
<1>9. Due' = Due
  BY <1>1, <1>5 DEF Due, Pending
<1> QED  BY <1>8, <1>9, Moved

(* Each step of the handlers.                                              *)
LEMMA HandlerAwaited ==
  ASSUME TypeInv, AnswersInv, Handler
  PROVE  AnswersInv'
<1>1. CASE Continued
  <2>1. PICK m \in handling : Respond(m)  BY <1>1 DEF Continued
  <2>2. handling = {m} /\ m \in Message
    BY <2>1 DEF TypeInv, TypeOK, Queues
  <2>3. to_ui' = Append(to_ui, Reply(m)) /\ to_ui \in Seq(Answer) /\ Reply(m) \in Answer
    BY <2>1, <2>2, ReplyIs DEF Respond, Reply, TypeInv, Queues
  <2>4. Range(to_ui') = Range(to_ui) \cup {Reply(m)} /\ Reply(m).id = m.id
    BY <2>2, <2>3, AppendIs, ReplyIs
  <2>5. handling' = {} /\ UNCHANGED <<run, message_id, to_router, calling, memory>>
    BY <1>1 DEF Continued
  <2>6. Distinct(to_ui')
    <3>1. \A n \in Range(to_ui) : n.id # Reply(m).id
      BY <2>2, <2>4 DEF AnswersInv, Once, Pending
    <3> QED  BY <2>3, <3>1, DistinctAppend DEF AnswersInv, Once
  <2>7. Once'
    <3>1. Pending' = Range(to_router) /\ Pending' \subseteq Pending  BY <2>5 DEF Pending
    <3>2. \A k \in Range(to_router) : k.id # m.id  BY <2>2 DEF AnswersInv, Once
    <3>3. \A k \in Pending', n \in Range(to_ui') : k.id # n.id
      BY <2>4, <3>1, <3>2 DEF AnswersInv, Once
    <3> QED  BY <2>5, <2>6, <3>3 DEF AnswersInv, Once
  <2>8. Due' = Due  BY <2>2, <2>4, <2>5 DEF Due, Pending
  <2> QED  BY <2>5, <2>7, <2>8, Moved
<1>2. ASSUME NEW d \in Devices, ContinueRefused(d) PROVE AnswersInv'
  BY <1>2, AnsweredAwaited DEF ContinueRefused, sharing
<1>3. ASSUME NEW d \in Devices, Cancel(d) PROVE AnswersInv'
  BY <1>3, AnsweredAwaited DEF Cancel
<1>4. ASSUME NEW d \in Devices, Continue(d) PROVE AnswersInv'
  <2> DEFINE h == Head(to_router)
  <2>1. /\ handling = {} /\ h \in Message /\ h \in Range(to_router)
        /\ to_router' = Tail(to_router) /\ to_router' \in Seq(Message)
        /\ Range(to_router) = {h} \cup Range(to_router')
    BY <1>4, RoutedIs DEF Continue
  <2>2. to_router \in Seq(Message) /\ to_router # <<>>
    BY <1>4 DEF TypeInv, Queues, Continue, Routed, Take
  <2>3. Distinct(to_router') /\ \A m \in Range(to_router') : m.id # h.id
    BY <2>1, <2>2, DistinctTail DEF AnswersInv, Once
  <2>4. handling' = {h} /\ UNCHANGED <<run, message_id, to_ui, calling, memory>>
    BY <1>4 DEF Continue
  <2> HIDE DEF h
  <2>5. Pending' = Pending  BY <2>1, <2>4 DEF Pending
  <2>6. Once'  BY <2>3, <2>4, <2>5 DEF AnswersInv, Once
  <2>7. Due' = Due  BY <2>4, <2>5 DEF Due
  <2> QED  BY <2>4, <2>6, <2>7, Moved
<1> QED  BY <1>1, <1>2, <1>3, <1>4 DEF Handler

(* A call is given a number that no other has in this run.                 *)
LEMMA CallAwaited ==
  ASSUME TypeInv, AnswersInv, NEW p \in Panctls, NEW c \in Command, CallMethod(p, c),
         handling' = handling
  PROVE  AnswersInv'
<1> DEFINE m == [id |-> message_id, run |-> run, by |-> p, command |-> c]
<1>0. PanctlTypes  BY TypeParts
<1>1. m \in Message /\ m.id = message_id /\ m.run = run /\ m.by = p
  BY <1>0, DueIs DEF Message, PanctlTypes
<1>2. /\ to_router' = Append(to_router, m) /\ calling' = [calling EXCEPT ![p] = Call(m)]
      /\ calling[p] = None /\ message_id' = message_id + 1
      /\ UNCHANGED <<run, to_ui, own_message_ids, signals, mistaken>>
  BY DEF CallMethod, memory
<1> HIDE DEF m
<1> DEFINE r == Reply(m)
<1>3. /\ r \in Answer /\ r.id = message_id /\ r.run = run /\ r.by = p
      /\ Call(r) = Call(m) /\ Call(m) \in Calls
      /\ Call(m).id = message_id /\ Call(m).run = run
  BY <1>1, ReplyIs
<1>4. to_router \in Seq(Message) /\ calling \in [Panctls -> Calls \cup {None}]
  BY <1>0 DEF PanctlTypes
<1>5. Range(to_router') = Range(to_router) \cup {m}  BY <1>1, <1>2, <1>4, AppendIs
<1>6. Pending' = Pending \cup {m} /\ Due' = Due \cup {r}
  BY <1>2, <1>5 DEF Pending, Due
<1> HIDE DEF r
<1>7. \A q \in Panctls : calling'[q] = IF q = p THEN Call(m) ELSE calling[q]
  BY <1>2, <1>4
<1>8. \A q \in Panctls :
        /\ Holding'[q] = IF q = p THEN Holding[q] \cup {Call(m)} ELSE Holding[q]
        /\ Coming'[q] = Coming[q] \cup {r}
  <2>1. Call(m) # None  BY <1>3, NoneAssumption
  <2> QED  BY <1>2, <1>6, <1>7, <2>1 DEF Holding, Held, Coming
<1>9. Awaited(Due, Coming, Holding, mistaken, run, message_id) /\ Once /\ Lines
  BY DEF AnswersInv
<1>10. run \in Nat /\ message_id \in Nat /\ ~(message_id < message_id)
       /\ message_id < message_id + 1 /\ run <= run
  BY DueIs
<1>11. \A n \in Due' : n.run = run /\ n.id < message_id + 1
  <2>1. \A n \in Due : n.run = run /\ n.id < message_id /\ n.id \in Nat
    BY <1>9, DueIs DEF Awaited
  <2>2. \A n \in Due : n.id < message_id + 1  BY <1>10, <2>1
  <2> QED  BY <1>3, <1>6, <1>10, <2>1, <2>2
<1>12. ASSUME NEW q \in Panctls, NEW k \in Coming'[q] \cup Holding'[q]
       PROVE  k.run <= run /\ (k.run = run => k.id < message_id + 1)
  <2>1. CASE k \in Coming[q] \cup Holding[q]
    <3>1. k.run <= run /\ (k.run = run => k.id < message_id)  BY <1>9, <2>1 DEF Awaited
    <3>2. k.id \in Nat  BY <2>1, DueIs
    <3>3. k.id < message_id => k.id < message_id + 1  BY <1>10, <3>2
    <3> QED  BY <3>1, <3>3
  <2>2. CASE k = r \/ k = Call(m)  BY <1>3, <1>10, <2>2
  <2> QED  BY <1>8, <2>1, <2>2
<1>13. ASSUME NEW q \in Panctls, NEW n \in Coming'[q]
       PROVE  /\ n.by = q => Call(n) \in Holding'[q] \/ n.id \in mistaken[q]
              /\ Call(n) \in Holding'[q] => n.by = q
  <2>1. CASE n = r
    <3>1. Call(n) \notin Holding[q]
      <4>1. ASSUME Call(n) \in Holding[q] PROVE Call(n).id < message_id
        BY <1>3, <1>9, <2>1, <4>1 DEF Awaited
      <4> QED  BY <1>3, <1>10, <2>1, <4>1
    <3> QED  BY <1>3, <1>8, <2>1, <3>1
  <2>2. CASE n \in Coming[q]
    <3>1. /\ n.by = q => Call(n) \in Holding[q] \/ n.id \in mistaken[q]
          /\ Call(n) \in Holding[q] => n.by = q
          /\ n.run <= run /\ (n.run = run => n.id < message_id)
      BY <1>9, <2>2 DEF Awaited
    <3>2. Call(n) # Call(m)
      <4>1. Call(n).id = n.id /\ Call(n).run = n.run  BY DEF Call
      <4> QED  BY <1>3, <1>10, <3>1, <4>1
    <3> QED  BY <1>8, <3>1, <3>2
  <2> QED  BY <1>8, <2>1, <2>2
<1>14. Awaited(Due', Coming', Holding', mistaken', run', message_id')
  BY <1>2, <1>11, <1>12, <1>13 DEF Awaited
<1>15. \A n \in Pending \cup Range(to_ui) : n.id # m.id
  <2>1. \A n \in Due : n.id < message_id  BY <1>9 DEF Awaited
  <2>2. \A n \in Pending : Reply(n) \in Due /\ Reply(n).id = n.id
    BY DueIs, ReplyIs DEF Due
  <2>3. Range(to_ui) \subseteq Due  BY DEF Due
  <2> QED  BY <1>1, <1>10, <2>1, <2>2, <2>3
<1>16. Once'
  <2>1. Distinct(to_router')
    BY <1>1, <1>2, <1>4, <1>9, <1>15, DistinctAppend DEF Once, Pending
  <2> QED  BY <1>2, <1>5, <1>6, <1>9, <1>15, <2>1 DEF Once, Pending
<1>17. Lines'
  <2> SUFFICES ASSUME NEW q \in Panctls
               PROVE  /\ Sorted(own_message_ids[q])
                      /\ \A k \in Range(own_message_ids[q]) :
                           calling'[q] # None => k.run <= calling'[q].run
                      /\ InOrder(signals[q])
                      /\ \A k \in Range(signals[q]), n \in Due' : k.id = n.id => k.run < n.run
    BY <1>2 DEF Lines
  <2>1. \A k \in Range(own_message_ids[q]) : calling'[q] # None => k.run <= calling'[q].run
    <3>1. CASE q = p
      <4>1. \A k \in Range(own_message_ids[q]) : k \in Holding[q]  BY DEF Holding, Held
      <4>2. \A k \in Range(own_message_ids[q]) : k.run <= run  BY <1>9, <4>1 DEF Awaited
      <4> QED  BY <1>3, <1>7, <3>1, <4>2
    <3>2. CASE q # p  BY <1>7, <1>9, <3>2 DEF Lines
    <3> QED  BY <3>1, <3>2
  <2>2. ASSUME NEW k \in Range(signals[q]), k.id = message_id PROVE k.run < run
    <3>1. k \in Coming[q]  BY DEF Coming
    <3>2. k.run <= run /\ (k.run = run => k.id < message_id) /\ k.run \in Nat
      BY <1>9, <3>1, DueIs DEF Awaited
    <3> QED  BY <1>10, <2>2, <3>2
  <2> QED  BY <1>3, <1>6, <1>9, <2>1, <2>2 DEF Lines
<1> QED  BY <1>14, <1>16, <1>17 DEF AnswersInv

(* The number a call returned is recorded: who waits for what stays.       *)
LEMMA RecordAwaited ==
  ASSUME TypeInv, AnswersInv, NEW p \in Panctls, RecordId(p), handling' = handling
  PROVE  AnswersInv'
<1>0. PanctlTypes  BY TypeParts
<1>1. /\ own_message_ids \in [Panctls -> Seq(Calls)] /\ calling[p] \in Calls /\ calling[p] # None
      /\ calling \in [Panctls -> Calls \cup {None}] /\ own_message_ids[p] \in Seq(Calls)
  BY <1>0 DEF PanctlTypes, RecordId
<1>2. /\ own_message_ids' = [own_message_ids EXCEPT ![p] = Append(own_message_ids[p], calling[p])]
      /\ calling' = [calling EXCEPT ![p] = None]
      /\ UNCHANGED <<run, message_id, to_router, to_ui, signals, mistaken>>
  BY DEF RecordId
<1>3. Range(Append(own_message_ids[p], calling[p])) = Range(own_message_ids[p]) \cup {calling[p]}
  BY <1>1, AppendIs
<1>4. Held(p)' = Held(p)
  BY <1>1, <1>2, <1>3, NoneAssumption DEF Held
<1>5. ASSUME NEW q \in Panctls, q # p
      PROVE  own_message_ids'[q] = own_message_ids[q] /\ calling'[q] = calling[q]
  BY <1>1, <1>2, <1>5
<1>6. \A q \in Panctls : Held(q)' = Held(q)  BY <1>4, <1>5 DEF Held
<1>7. Holding' = Holding  BY <1>6 DEF Holding
<1>8. Due' = Due /\ Pending' = Pending /\ Coming' = Coming  BY <1>2 DEF Due, Pending, Coming
<1>9. Once'  BY <1>2, <1>8 DEF AnswersInv, Once
<1>10. Sorted(Append(own_message_ids[p], calling[p]))
  BY <1>1, SortedAppend DEF AnswersInv, Lines
<1>11. own_message_ids'[p] = Append(own_message_ids[p], calling[p]) /\ calling'[p] = None
  BY <1>1, <1>2
<1>12. Lines'
  <2>1. ASSUME NEW q \in Panctls
        PROVE  /\ Sorted(own_message_ids'[q])
               /\ \A k \in Range(own_message_ids'[q]) :
                    calling'[q] # None => k.run <= calling'[q].run
    <3>1. CASE q = p  BY <1>10, <1>11, <3>1
    <3>2. CASE q # p  BY <1>5, <3>2 DEF AnswersInv, Lines
    <3> QED  BY <3>1, <3>2
  <2> QED  BY <1>2, <1>8, <2>1 DEF AnswersInv, Lines
<1> QED  BY <1>2, <1>7, <1>8, <1>9, <1>12 DEF AnswersInv

(* A signal is emitted: what was due to the bus is on its way to all.      *)
LEMMA EmitAwaited ==
  ASSUME TypeInv, AnswersInv, EmitResponse, handling' = handling
  PROVE  AnswersInv'
<1> DEFINE h == Head(to_ui)
<1>0. PanctlTypes  BY TypeParts
<1>1. to_ui \in Seq(Answer) /\ to_ui # <<>> /\ to_ui' = Tail(to_ui)
  BY <1>0 DEF EmitResponse, PanctlTypes
<1>2. /\ h \in Answer /\ h \in Range(to_ui) /\ Range(to_ui') \subseteq Range(to_ui)
      /\ Range(to_ui) = {h} \cup Range(to_ui')
  BY <1>1, TailIs
<1>3. Distinct(to_ui') /\ \A n \in Range(to_ui') : n.id # h.id
  BY <1>1, DistinctTail DEF AnswersInv, Once
<1>4. /\ signals' = [p \in Panctls |-> Append(signals[p], h)]
      /\ UNCHANGED <<run, message_id, to_router, calling, own_message_ids, mistaken>>
  BY DEF EmitResponse
<1> HIDE DEF h
<1>5. \A p \in Panctls : /\ signals[p] \in Seq(Answer) /\ signals'[p] = Append(signals[p], h)
                         /\ Range(signals'[p]) = Range(signals[p]) \cup {h}
  <2>1. \A p \in Panctls : signals[p] \in Seq(Answer) /\ signals'[p] = Append(signals[p], h)
    BY <1>0, <1>4 DEF PanctlTypes
  <2>2. ASSUME NEW p \in Panctls PROVE Range(signals'[p]) = Range(signals[p]) \cup {h}
    <3> DEFINE g == signals[p]
    <3>1. g \in Seq(Answer) /\ signals'[p] = Append(g, h)  BY <2>1
    <3> HIDE DEF g
    <3>2. Range(Append(g, h)) = Range(g) \cup {h}  BY <1>2, <3>1, AppendIs
    <3> QED  BY <3>1, <3>2 DEF g
  <2> QED  BY <2>1, <2>2
<1>6. Pending' = Pending /\ Due = Due' \cup {h}  BY <1>2, <1>4 DEF Pending, Due
<1>7. Holding' = Holding /\ Coming' = Coming
  <2>1. Holding' = Holding  BY <1>4 DEF Holding, Held
  <2>2. \A p \in Panctls : Due' \cup Range(signals'[p]) = Due \cup Range(signals[p])
    BY <1>5, <1>6
  <2> QED  BY <2>1, <2>2 DEF Coming
<1>8. Awaited(Due', Coming', Holding', mistaken', run', message_id')
  BY <1>4, <1>6, <1>7 DEF AnswersInv, Awaited
<1>9. \A n \in Due' : n.id # h.id
  <2>1. \A n \in Pending : n.id # h.id  BY <1>2 DEF AnswersInv, Once
  <2>2. \A n \in Pending : Reply(n).id = n.id  BY DueIs, ReplyIs
  <2> QED  BY <1>3, <1>6, <2>1, <2>2 DEF Due
<1>10. Once'  BY <1>2, <1>3, <1>4, <1>6 DEF AnswersInv, Once
<1>11. ASSUME NEW p \in Panctls
       PROVE  /\ InOrder(signals'[p])
              /\ \A m \in Range(signals'[p]), n \in Due' : m.id = n.id => m.run < n.run
  <2>1. /\ InOrder(signals[p])
        /\ \A m \in Range(signals[p]), n \in Due : m.id = n.id => m.run < n.run
    BY DEF AnswersInv, Lines
  <2>2. InOrder(Append(signals[p], h))  BY <1>2, <1>5, <1>6, <2>1, InOrderAppend
  <2>3. signals'[p] = Append(signals[p], h) /\ Range(signals'[p]) = Range(signals[p]) \cup {h}
    BY <1>5
  <2>4. ASSUME NEW m \in Range(signals'[p]), NEW n \in Due', m.id = n.id PROVE m.run < n.run
    <3>1. n \in Due /\ n.id # h.id  BY <1>6, <1>9
    <3>2. m \in Range(signals[p])  BY <2>3, <2>4, <3>1
    <3> QED  BY <2>1, <2>4, <3>1, <3>2
  <2> QED  BY <2>2, <2>3, <2>4
<1>12. Lines'  BY <1>4, <1>11 DEF AnswersInv, Lines
<1> QED  BY <1>8, <1>10, <1>12 DEF AnswersInv

(* A signal is handled: what the panctl waits for stays, but for the call  *)
(* that is answered, or the number that is used up by mistake.             *)
LEMMA ReceiveAwaited ==
  ASSUME TypeInv, AnswersInv, NEW p \in Panctls, ReceiveResponse(p), handling' = handling
  PROVE  AnswersInv'
<1> DEFINE h == Head(signals[p])
           o == own_message_ids[p]
           t == ShowResponse(o, h)
<1>0. PanctlTypes  BY TypeParts
<1>1. /\ signals[p] \in Seq(Answer) /\ signals[p] # <<>> /\ o \in Seq(Calls)
      /\ signals' = [signals EXCEPT ![p] = Tail(signals[p])]
      /\ own_message_ids' = [own_message_ids EXCEPT ![p] = t]
      /\ mistaken' = [mistaken EXCEPT ![p] = IF h.by # p /\ t # o
                                             THEN mistaken[p] \cup {h.id} ELSE mistaken[p]]
      /\ UNCHANGED <<run, message_id, to_router, to_ui, calling>>
  BY <1>0 DEF ReceiveResponse, PanctlTypes
<1>2. /\ h \in Answer /\ h \in Range(signals[p])
      /\ Range(Tail(signals[p])) \subseteq Range(signals[p])
  BY <1>1, TailIs
<1>3. /\ InOrder(Tail(signals[p]))
      /\ \A m \in Range(Tail(signals[p])) : m.id = h.id => h.run < m.run
  BY <1>1, InOrderTail DEF AnswersInv, Lines
<1>4. \A e \in Calls : e.run \in Nat  BY DEF Calls
<1>5. /\ Sorted(o)
      /\ \A c \in Range(o) : calling[p] # None => c.run <= calling[p].run
  BY DEF AnswersInv, Lines
<1>6. /\ Sorted(t) /\ Range(t) \subseteq Range(o)
      /\ \A c \in Range(o) : c.id # h.id => c \in Range(t)
      /\ \A e \in Range(o), c \in Range(o) : e.id = h.id /\ e.run < c.run => c \in Range(t)
  <2> HIDE DEF h, o
  <2> QED  BY <1>1, <1>4, <1>5, ShowIs, ShowSorted
<1> HIDE DEF h, t
<1>7. /\ signals'[p] = Tail(signals[p]) /\ own_message_ids'[p] = t
      /\ mistaken'[p] = IF h.by # p /\ t # o THEN mistaken[p] \cup {h.id} ELSE mistaken[p]
      /\ \A q \in Panctls \ {p} : /\ signals'[q] = signals[q] /\ mistaken'[q] = mistaken[q]
                                  /\ own_message_ids'[q] = own_message_ids[q]
  BY <1>0, <1>1 DEF PanctlTypes
<1> HIDE DEF o
<1>8. Due' = Due /\ Pending' = Pending  BY <1>1 DEF Due, Pending
<1>9. /\ Holding[p] = Range(o) \cup ({calling[p]} \ {None})
      /\ Holding'[p] = Range(t) \cup ({calling[p]} \ {None})
  BY <1>1, <1>7 DEF Holding, Held, o
<1>10. /\ \A q \in Panctls : Holding'[q] \subseteq Holding[q] /\ Coming'[q] \subseteq Coming[q]
       /\ \A q \in Panctls \ {p} : Holding'[q] = Holding[q]
  <2>1. \A q \in Panctls \ {p} : Holding'[q] = Holding[q] /\ Coming'[q] = Coming[q]
    BY <1>1, <1>7, <1>8 DEF Holding, Held, Coming
  <2>2. Coming'[p] \subseteq Coming[p]  BY <1>2, <1>7, <1>8 DEF Coming
  <2> QED  BY <1>6, <1>9, <2>1, <2>2
<1>11. Awaited(Due, Coming, Holding, mistaken, run, message_id)  BY DEF AnswersInv
\* The number of the answer that is handled: what comes later under it is
\* of a later run.
<1>12. ASSUME NEW m \in Coming'[p], m.id = h.id PROVE h.run < m.run
  <2>1. m \in Due => h.run < m.run  BY <1>2, <1>12 DEF AnswersInv, Lines
  <2>2. m \in Range(Tail(signals[p])) => h.run < m.run  BY <1>3, <1>12
  <2> QED  BY <1>7, <1>8, <2>1, <2>2 DEF Coming
<1>13. ASSUME NEW m \in Coming'[p], m.by = p
       PROVE  Call(m) \in Holding'[p] \/ m.id \in mistaken'[p]
  <2>1. Call(m) \in Holding[p] \/ m.id \in mistaken[p]  BY <1>10, <1>11, <1>13 DEF Awaited
  <2>2. CASE m.id \in mistaken[p]  BY <1>7, <2>2
  <2>3. CASE Call(m) \in Holding[p] /\ m.id # h.id
    <3>1. Call(m).id = m.id  BY DEF Call
    <3> QED  BY <1>6, <1>9, <2>3, <3>1
  <2>4. CASE Call(m) \in Holding[p] /\ m.id = h.id /\ h.by # p
    BY <1>7, <1>9, <2>4
  <2>5. CASE Call(m) \in Holding[p] /\ m.id = h.id /\ h.by = p /\ m.id \notin mistaken[p]
    <3>1. h \in Coming[p]  BY <1>2 DEF Coming
    <3>2. Call(h) \in Holding[p]  BY <1>11, <2>5, <3>1 DEF Awaited
    <3>3. /\ Call(h).id = h.id /\ Call(h).run = h.run
          /\ Call(m).id = m.id /\ Call(m).run = m.run
      BY DEF Call
    <3>4. h.run < m.run  BY <1>12, <2>5
    <3>5. CASE Call(h) \in Range(o) /\ Call(m) \in Range(o)
      BY <1>6, <1>9, <3>3, <3>4, <3>5
    <3>6. CASE Call(m) \notin Range(o)  BY <1>9, <2>5, <3>6
    <3>7. CASE Call(h) \notin Range(o) /\ Call(m) \in Range(o)
      <4>1. calling[p] = Call(h) /\ calling[p] # None  BY <1>9, <3>2, <3>7
      <4>2. Call(m).run <= Call(h).run  BY <1>5, <3>7, <4>1
      <4>3. m.run \in Nat /\ h.run \in Nat  BY <1>2, <1>10, DueIs
      <4> QED  BY <3>3, <3>4, <4>2, <4>3
    <3> QED  BY <3>5, <3>6, <3>7
  <2> QED  BY <2>1, <2>2, <2>3, <2>4, <2>5
<1>14. ASSUME NEW q \in Panctls, NEW m \in Coming'[q]
       PROVE  /\ m.by = q => Call(m) \in Holding'[q] \/ m.id \in mistaken'[q]
              /\ Call(m) \in Holding'[q] => m.by = q
  <2>1. m \in Coming[q]  BY <1>10
  <2>2. /\ m.by = q => Call(m) \in Holding[q] \/ m.id \in mistaken[q]
        /\ Call(m) \in Holding[q] => m.by = q
    BY <1>11, <2>1 DEF Awaited
  <2>3. CASE q = p  BY <1>10, <1>13, <2>2, <2>3
  <2>4. CASE q # p  BY <1>7, <1>10, <2>2, <2>4
  <2> QED  BY <2>3, <2>4
<1>15. Awaited(Due', Coming', Holding', mistaken', run', message_id')
  <2>1. UNCHANGED <<run, message_id>>  BY <1>1
  <2> QED  BY <1>8, <1>10, <1>11, <1>14, <2>1 DEF Awaited
<1>16. Once'  BY <1>1, <1>8 DEF AnswersInv, Once
<1>17. Lines'
  <2> SUFFICES ASSUME NEW q \in Panctls
               PROVE  /\ Sorted(own_message_ids'[q])
                      /\ \A c \in Range(own_message_ids'[q]) :
                           calling[q] # None => c.run <= calling[q].run
                      /\ InOrder(signals'[q])
                      /\ \A m \in Range(signals'[q]), n \in Due : m.id = n.id => m.run < n.run
    BY <1>1, <1>8 DEF Lines
  <2>1. CASE q = p
    BY <1>2, <1>3, <1>5, <1>6, <1>7, <2>1 DEF AnswersInv, Lines
  <2>2. CASE q # p  BY <1>7, <2>2 DEF AnswersInv, Lines
  <2> QED  BY <2>1, <2>2
<1> QED  BY <1>15, <1>16, <1>17 DEF AnswersInv

(* A restart: nothing is due any more, what is on its way and who waits    *)
(* for it is of an earlier run.                                            *)
LEMMA RestartAwaited ==
  ASSUME TypeInv, AnswersInv, Restart
  PROVE  AnswersInv'
<1>1. /\ run' = run + 1 /\ message_id' = 0
      /\ to_router' = <<>> /\ to_ui' = <<>> /\ handling' = {}
  BY DEF Restart, RestartDaemon
<1>2. Due' = {} /\ Pending' = {}  BY <1>1, EmptyIs DEF Due, Pending
<1>3. PICK broken \in SUBSET Panctls :
        /\ calling' = [p \in Panctls |-> IF p \in broken THEN None ELSE calling[p]]
        /\ own_message_ids' = [p \in Panctls |-> IF p \in broken THEN <<>>
                                                  ELSE own_message_ids[p]]
        /\ signals' = [p \in Panctls |-> IF p \in broken THEN <<>> ELSE signals[p]]
        /\ mistaken' = [p \in Panctls |-> IF p \in broken THEN {} ELSE mistaken[p]]
  BY RestartIs DEF Restart
<1>4. ASSUME NEW p \in Panctls
      PROVE  \/ /\ calling'[p] = None /\ own_message_ids'[p] = <<>>
                /\ signals'[p] = <<>> /\ mistaken'[p] = {}
             \/ /\ calling'[p] = calling[p] /\ own_message_ids'[p] = own_message_ids[p]
                /\ signals'[p] = signals[p] /\ mistaken'[p] = mistaken[p]
  BY <1>3
<1>5. ASSUME NEW p \in Panctls
      PROVE  \/ Holding'[p] = {} /\ Coming'[p] = {}
             \/ /\ Holding'[p] = Holding[p] /\ Coming'[p] \subseteq Coming[p]
                /\ mistaken'[p] = mistaken[p]
  BY <1>2, <1>4, EmptyIs DEF Holding, Held, Coming
<1>6. Awaited(Due, Coming, Holding, mistaken, run, message_id)  BY DEF AnswersInv
<1>7. ASSUME NEW p \in Panctls, NEW c \in Coming'[p] \cup Holding'[p]
      PROVE  c.run <= run' /\ c.run # run'
  <2>1. c \in Coming[p] \cup Holding[p]  BY <1>5
  <2>2. c.run \in Nat /\ run \in Nat  BY <2>1, DueIs
  <2>3. c.run <= run  BY <1>6, <2>1 DEF Awaited
  <2> QED  BY <1>1, <2>2, <2>3
<1>8. ASSUME NEW p \in Panctls, NEW m \in Coming'[p]
      PROVE  /\ m.by = p => Call(m) \in Holding'[p] \/ m.id \in mistaken'[p]
             /\ Call(m) \in Holding'[p] => m.by = p
  <2>1. m \in Coming[p] /\ Holding'[p] = Holding[p] /\ mistaken'[p] = mistaken[p]  BY <1>5
  <2> QED  BY <1>6, <2>1 DEF Awaited
<1>9. Awaited(Due', Coming', Holding', mistaken', run', message_id')
  BY <1>2, <1>7, <1>8 DEF Awaited
<1>10. Once'  BY <1>1, <1>2, EmptyIs DEF Once
<1>11. Lines'
  <2> SUFFICES ASSUME NEW p \in Panctls
               PROVE  /\ Sorted(own_message_ids'[p])
                      /\ \A c \in Range(own_message_ids'[p]) :
                           calling'[p] # None => c.run <= calling'[p].run
                      /\ InOrder(signals'[p])
    BY <1>2 DEF Lines
  <2> QED  BY <1>4, EmptyIs DEF AnswersInv, Lines
<1> QED  BY <1>9, <1>10, <1>11 DEF AnswersInv

(* A step that leaves panctl, the queues and the handler alone.            *)
LEMMA AnswersKept ==
  ASSUME AnswersInv, UNCHANGED <<panctlVars, handling>>
  PROVE  AnswersInv'
<1>1. UNCHANGED <<run, message_id, to_router, to_ui, calling, memory, handling>>
  BY DEF panctlVars
<1>2. Due' = Due /\ Pending' = Pending  BY <1>1 DEF Due, Pending
<1>3. Once'  BY <1>1, <1>2 DEF AnswersInv, Once
<1> QED  BY <1>1, <1>2, <1>3, Moved

(* Every step keeps the invariant.                                         *)
LEMMA InvStep == IInv /\ [Next]_vars => IInv'
<1> SUFFICES ASSUME TypeInv, AnswersInv, [Next]_vars PROVE AnswersInv'
  BY TypeStep DEF IInv
<1>1. CASE Interface
  <2>1. handling' = handling  BY <1>1 DEF Interface, sharing
  <2>2. CASE \E p \in Panctls : RecordId(p)  BY <2>1, <2>2, RecordAwaited
  <2>3. CASE \E p \in Panctls, c \in Command : CallMethod(p, c)  BY <2>1, <2>3, CallAwaited
  <2>4. CASE EmitResponse  BY <2>1, <2>4, EmitAwaited
  <2>5. CASE \E p \in Panctls : ReceiveResponse(p)  BY <2>1, <2>5, ReceiveAwaited
  <2> QED  BY <1>1, <2>2, <2>3, <2>4, <2>5 DEF Interface
<1>2. CASE Handler  BY <1>2, HandlerAwaited
<1>3. CASE Restart  BY <1>3, RestartAwaited
<1>4. CASE SyncSends  BY <1>4, AnswersKept DEF SyncSends
<1>5. CASE \E k \in KeyRequests : DeviceRequests(k) \/ DeviceCancels(k)
  BY <1>5, AnswersKept DEF DeviceRequests, DeviceCancels
<1>6. CASE \E d \in Devices : SetTrust(d)
  BY <1>6, AnswersKept DEF SetTrust, sharing
<1>7. CASE \E f \in Sends : Send(f)
  BY <1>7, AnswersKept DEF Send, SendReturns, SendFails
<1>8. CASE UNCHANGED vars  BY <1>8, AnswersKept DEF vars, sharing
<1> QED  BY <1>1, <1>2, <1>3, <1>4, <1>5, <1>6, <1>7, <1>8 DEF Next

(* Who is owed an answer waits for it, and it is due once.                 *)
THEOREM Invariance == Spec => []IInv
<1>1. Init => IInv  BY TypeInit, AnswersInit DEF IInv
<1> QED  BY <1>1, InvStep, PTL DEF Spec

(* Signals are fewer only when panctl handles one, or is started anew.     *)
LEMMA OnlyReceiveTakes ==
  ASSUME TypeInv, [Next]_vars, NEW p \in Panctls, run' = run,
         Len(signals'[p]) < Len(signals[p])
  PROVE  ReceiveResponse(p)
<1>1. /\ signals \in [Panctls -> Seq(Answer)] /\ Len(signals[p]) \in Nat
      /\ to_ui \in Seq(Answer) /\ run \in Nat
  <2>1. signals[p] \in Seq(Answer) /\ signals \in [Panctls -> Seq(Answer)]
    BY DEF TypeInv, Queues
  <2> QED  BY <2>1, DueIs DEF TypeInv, Queues
<1>2. ~ (signals' = signals)  BY <1>1
<1>3. CASE Interface
  <2>1. ~ EmitResponse
    <3> SUFFICES ASSUME EmitResponse PROVE FALSE
      OBVIOUS
    <3>1. Head(to_ui) \in Answer  BY <1>1, TailIs DEF EmitResponse
    <3>2. signals'[p] = Append(signals[p], Head(to_ui))  BY DEF EmitResponse
    <3>3. Len(signals'[p]) = Len(signals[p]) + 1  BY <1>1, <3>1, <3>2, AppendIs
    <3> QED  BY <1>1, <3>3
  <2>2. ASSUME NEW q \in Panctls, ReceiveResponse(q), q # p PROVE FALSE
    <3>1. signals'[p] = signals[p]  BY <1>1, <2>2 DEF ReceiveResponse
    <3> QED  BY <1>1, <3>1
  <2> QED  BY <1>2, <1>3, <2>1, <2>2 DEF Interface, RecordId, CallMethod, memory
<1>4. CASE Handler
  BY <1>2, <1>4 DEF Handler, Continued, ContinueRefused, Continue, Cancel, memory
<1>5. ~ Restart
  <2>1. run + 1 # run  BY <1>1
  <2> QED  BY <2>1 DEF Restart, RestartDaemon
<1>6. CASE SyncSends  BY <1>2, <1>6 DEF SyncSends, panctlVars, memory
<1>7. CASE \E k \in KeyRequests : DeviceRequests(k) \/ DeviceCancels(k)
  BY <1>2, <1>7 DEF DeviceRequests, DeviceCancels, panctlVars, memory
<1>8. CASE \E d \in Devices : SetTrust(d)  BY <1>2, <1>8 DEF SetTrust, panctlVars, memory
<1>9. CASE \E f \in Sends : Send(f)
  BY <1>2, <1>9 DEF Send, SendReturns, SendFails, panctlVars, memory
<1>10. CASE UNCHANGED vars  BY <1>2, <1>10 DEF vars, panctlVars, memory
<1> QED  BY <1>3, <1>4, <1>5, <1>6, <1>7, <1>8, <1>9, <1>10 DEF Next

\* What AnswersFindTheirPanctl says of a signal that a panctl handles.
Finds(p) ==
  LET m == Head(signals[p])
  IN IF m.by = p
     THEN Shows(p) \/ calling[p] = Call(m) \/ m.id \in mistaken[p]
     ELSE Shows(p) => \E c \in Range(own_message_ids[p]) : c.id = m.id /\ c.run # m.run

(* A panctl shows its own answer, unless the number is not recorded yet or *)
(* used up; another's only in place of one to a call to another run.       *)
LEMMA ReceivedIsShown ==
  ASSUME IInv, NEW p \in Panctls, ReceiveResponse(p)
  PROVE  Finds(p)
<1> DEFINE m == Head(signals[p])
<1>0. PanctlTypes  BY TypeParts DEF IInv
<1>1. /\ m \in Coming[p] /\ own_message_ids[p] \in Seq(Calls)
      /\ own_message_ids'[p] = ShowResponse(own_message_ids[p], m)
  <2>1. signals[p] \in Seq(Answer) /\ signals[p] # <<>>  BY <1>0 DEF ReceiveResponse, PanctlTypes
  <2>2. m \in Range(signals[p])  BY <2>1, TailIs
  <2> QED  BY <1>0, <2>2 DEF ReceiveResponse, Coming, PanctlTypes
<1> HIDE DEF m
<1>2. /\ m.by = p => Call(m) \in Holding[p] \/ m.id \in mistaken[p]
      /\ Call(m) \in Holding[p] => m.by = p
  BY <1>1 DEF IInv, AnswersInv, Awaited
<1>3. Shows(p) <=> \E c \in Range(own_message_ids[p]) : c.id = m.id
  BY <1>1, ShowIs DEF Shows
<1>4. Call(m).id = m.id /\ Call(m) = [id |-> m.id, run |-> m.run]  BY DEF Call
<1>5. CASE m.by = p
  <2>1. Call(m) \in Holding[p] => Shows(p) \/ calling[p] = Call(m)
    BY <1>3, <1>4 DEF Holding, Held
  <2> QED  BY <1>2, <1>5, <2>1 DEF Finds, m
<1>6. CASE m.by # p
  <2>1. ASSUME NEW c \in Range(own_message_ids[p]), c.id = m.id PROVE c.run # m.run
    <3>1. c \in Holding[p] /\ c \in Calls
      BY DueIs DEF Holding, Held, IInv
    <3>2. c.run = m.run => c = Call(m)  BY <1>4, <2>1, <3>1 DEF Calls
    <3> QED  BY <1>2, <1>6, <3>1, <3>2
  <2> QED  BY <1>3, <1>6, <2>1 DEF Finds, m
<1> QED  BY <1>5, <1>6

(* A panctl shows the response to its own command when the signal comes,   *)
(* unless it comes before the number is recorded or the number was used up *)
(* by another's response; and that it shows only when it waits for the     *)
(* response to a call with the same number, made to another run.           *)
THEOREM FindTheirPanctl == Spec => AnswersFindTheirPanctl
<1> DEFINE A == \A p \in Panctls : run' = run /\ Len(signals'[p]) < Len(signals[p]) => Finds(p)
<1>1. IInv /\ [Next]_vars => [A]_panctlVars
  BY OnlyReceiveTakes, ReceivedIsShown DEF IInv
<1>2. IInv /\ [Next]_vars =>
        [\A p \in Panctls : run' = run /\ Len(signals'[p]) < Len(signals[p]) =>
           LET m == Head(signals[p])
           IN IF m.by = p
              THEN Shows(p) \/ calling[p] = Call(m) \/ m.id \in mistaken[p]
              ELSE Shows(p) => \E c \in Range(own_message_ids[p]) :
                                 c.id = m.id /\ c.run # m.run]_panctlVars
  BY <1>1 DEF Finds
<1> QED  BY <1>2, Invariance, PTL DEF Spec, AnswersFindTheirPanctl
=============================================================================
