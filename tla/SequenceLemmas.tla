--------------------------- MODULE SequenceLemmas ---------------------------
(***************************************************************************)
(* What the operators on sequences return that model the C++ vectors: the  *)
(* erase of an element, the move of the elements behind it, and the pop of *)
(* the last one.                                                           *)
(***************************************************************************)
EXTENDS Integers, Sequences, SequencesExt, SequenceTheorems, TLAPS

\* A function on 1..n is a sequence of length n.
LEMMA MapIsSeq ==
  ASSUME NEW S, NEW n \in Nat, NEW f \in [1..n -> S]
  PROVE  f \in Seq(S) /\ Len(f) = n /\ DOMAIN f = 1..n
  <1>1. f \in Seq(S)
    BY SeqDef
  <1>2. DOMAIN f = 1..n /\ DOMAIN f = 1..Len(f) /\ Len(f) \in Nat
    BY <1>1, LenProperties
  <1> QED
    BY <1>1, <1>2

\* Front keeps the elements but the last, as returning from a call does.
LEMMA FrontProperties ==
  ASSUME NEW S, NEW s \in Seq(S), s # <<>>
  PROVE  /\ Front(s) \in Seq(S) /\ Len(Front(s)) = Len(s) - 1
         /\ \A i \in 1..(Len(s) - 1): Front(s)[i] = s[i]
         /\ Last(s) \in S /\ Last(s) = s[Len(s)]
  <1>1. Len(s) \in Nat \ {0} /\ \A i \in 1..Len(s): s[i] \in S
    BY EmptySeq, LenProperties, ElementOfSeq
  <1>2. \A i \in 1..(Len(s) - 1): s[i] \in S
    BY <1>1
  <1>. DEFINE n == Len(s) - 1
  <1>3. n \in Int /\ \A i \in 1..n: s[i] \in S
    BY <1>1, <1>2
  <1>. HIDE DEF n
  <1>4. /\ SubSeq(s, 1, n) \in Seq(S)
        /\ Len(SubSeq(s, 1, n)) = IF 1 <= n THEN n - 1 + 1 ELSE 0
        /\ \A i \in 1..(n - 1 + 1): SubSeq(s, 1, n)[i] = s[1 + i - 1]
    BY <1>3, SubSeqProperties
  <1>5. Front(s) = SubSeq(s, 1, n)
    BY DEF Front, n
  <1>6. n = Len(s) - 1
    BY DEF n
  <1>7. Last(s) \in S /\ Last(s) = s[Len(s)]
    BY <1>1 DEF Last
  <1>. DEFINE f == SubSeq(s, 1, n)
  <1>8. /\ f \in Seq(S) /\ Len(f) = IF 1 <= n THEN n - 1 + 1 ELSE 0
        /\ \A i \in 1..(n - 1 + 1): f[i] = s[1 + i - 1]
    BY <1>4
  <1>. HIDE DEF f
  <1>9. f \in Seq(S) /\ Len(f) = Len(s) - 1 /\ \A i \in 1..(Len(s) - 1): f[i] = s[i]
    BY <1>1, <1>6, <1>8
  <1> QED
    BY <1>5, <1>7, <1>9 DEF f

\* RemoveAt moves the elements behind down, as the erase of a vector does.
LEMMA RemoveAtProperties ==
  ASSUME NEW S, NEW s \in Seq(S), NEW i \in 1..Len(s)
  PROVE  /\ RemoveAt(s, i) \in Seq(S) /\ Len(RemoveAt(s, i)) = Len(s) - 1
         /\ \A j \in 1..(Len(s) - 1):
              RemoveAt(s, i)[j] = IF j < i THEN s[j] ELSE s[j + 1]
  <1>1. Len(s) \in Nat /\ \A k \in 1..Len(s): s[k] \in S
    BY LenProperties, ElementOfSeq
  <1>. DEFINE n == i - 1
              p == i + 1
              q == Len(s)
              u == SubSeq(s, 1, n)
              v == SubSeq(s, p, q)
  <1>2. n \in Int /\ p \in Int /\ q \in Int
        /\ (\A k \in 1..n: s[k] \in S) /\ (\A k \in p..q: s[k] \in S)
    BY <1>1
  <1>. HIDE DEF n, p, q
  <1>3. /\ u \in Seq(S)
        /\ Len(u) = IF 1 <= n THEN n - 1 + 1 ELSE 0
        /\ \A k \in 1..(n - 1 + 1): u[k] = s[1 + k - 1]
    BY <1>2, SubSeqProperties
  <1>4. /\ v \in Seq(S)
        /\ Len(v) = IF p <= q THEN q - p + 1 ELSE 0
        /\ \A k \in 1..(q - p + 1): v[k] = s[p + k - 1]
    BY <1>2, SubSeqProperties
  <1>. HIDE DEF u, v
  <1>5. /\ u \o v \in Seq(S) /\ Len(u \o v) = Len(u) + Len(v)
        /\ \A k \in 1..(Len(u) + Len(v)):
             (u \o v)[k] = IF k <= Len(u) THEN u[k] ELSE v[k - Len(u)]
    BY <1>3, <1>4, ConcatProperties
  <1>6. RemoveAt(s, i) = u \o v
    BY DEF RemoveAt, u, v, n, p, q
  <1>7. Len(u) = i - 1 /\ Len(v) = Len(s) - i
    BY <1>1, <1>3, <1>4 DEF n, p, q
  <1>8. ASSUME NEW j \in 1..(Len(s) - 1)
        PROVE  (u \o v)[j] = IF j < i THEN s[j] ELSE s[j + 1]
    <2>1. CASE j < i
      BY <2>1, <1>1, <1>3, <1>5, <1>7 DEF n
    <2>2. CASE ~(j < i)
      <3>1. (u \o v)[j] = v[j - (i - 1)]
        BY <2>2, <1>1, <1>5, <1>7
      <3>2. j - (i - 1) \in 1..(q - p + 1)
        BY <2>2, <1>1 DEF p, q
      <3>3. v[j - (i - 1)] = s[p + (j - (i - 1)) - 1]
        BY <3>2, <1>4
      <3> QED
        BY <3>1, <3>3, <2>2, <1>1 DEF p
    <2> QED
      BY <2>1, <2>2
  <1>. DEFINE r == u \o v
  <1>9. r \in Seq(S) /\ Len(r) = Len(s) - 1
    BY <1>1, <1>5, <1>7
  <1>10. \A j \in 1..(Len(s) - 1): r[j] = IF j < i THEN s[j] ELSE s[j + 1]
    BY <1>8
  <1> QED
    BY <1>6, <1>9, <1>10
=============================================================================
