---------------------------- MODULE SequenceLemmas ----------------------------
(***************************************************************************)
(* Facts about the queues of messages and handlers of the specifications,  *)
(* in the form the proofs use them: where the elements of a longer or      *)
(* shorter queue come from.                                                *)
(***************************************************************************)
EXTENDS Integers, Sequences, SequencesExt, SequenceTheorems, TLAPS

\* A queue holds what has been put in, in the end.
LEMMA Appended ==
  ASSUME NEW S, NEW q \in Seq(S), NEW m \in S
  PROVE  /\ Append(q, m) \in Seq(S) /\ Len(Append(q, m)) = Len(q) + 1
         /\ ToSet(Append(q, m)) = ToSet(q) \cup {m}
         /\ \A k \in 1 .. Len(Append(q, m)) :
              \/ k \in 1 .. Len(q) /\ Append(q, m)[k] = q[k]
              \/ k = Len(q) + 1 /\ Append(q, m)[k] = m
<1>1. Len(q) \in Nat /\ DOMAIN q = 1 .. Len(q)
  BY LenProperties
<1>2. /\ Append(q, m) \in Seq(S) /\ Len(Append(q, m)) = Len(q) + 1
      /\ \A k \in 1 .. Len(q) : Append(q, m)[k] = q[k]
      /\ Append(q, m)[Len(q) + 1] = m
  BY AppendProperties
<1>3. DOMAIN Append(q, m) = 1 .. Len(q) + 1
  BY <1>2, LenProperties
<1>4. \A k \in 1 .. Len(q) + 1 : k \in 1 .. Len(q) \/ k = Len(q) + 1
  BY <1>1
<1>5. \A k \in 1 .. Len(q) : k \in 1 .. Len(q) + 1
  BY <1>1
<1>6. Len(q) + 1 \in 1 .. Len(q) + 1
  BY <1>1
<1>7. ToSet(Append(q, m)) = ToSet(q) \cup {m}
  BY <1>1, <1>2, <1>3, <1>4, <1>5, <1>6 DEF ToSet
<1> QED  BY <1>2, <1>4, <1>7

\* What is left after the element at i is removed.
LEMMA Removed ==
  ASSUME NEW S, NEW q \in Seq(S), NEW i \in 1 .. Len(q)
  PROVE  /\ RemoveAt(q, i) \in Seq(S) /\ Len(RemoveAt(q, i)) = Len(q) - 1
         /\ \A k \in 1 .. Len(RemoveAt(q, i)) :
              /\ k < i => k \in 1 .. Len(q) /\ RemoveAt(q, i)[k] = q[k]
              /\ k >= i => k + 1 \in 1 .. Len(q) /\ RemoveAt(q, i)[k] = q[k + 1]
<1> DEFINE a == SubSeq(q, 1, i - 1)
           b == SubSeq(q, i + 1, Len(q))
<1>1. Len(q) \in Nat /\ i \in Int /\ i - 1 \in Int /\ i + 1 \in Int /\ Len(q) \in Int
  BY LenProperties
<1>2. \A k \in 1 .. Len(q) : q[k] \in S
  BY ElementOfSeq
<1>3. /\ a \in Seq(S) /\ Len(a) = i - 1
      /\ \A k \in 1 .. i - 1 : a[k] = q[k]
  <2>1. \A k \in 1 .. i - 1 : q[k] \in S
    BY <1>1, <1>2
  <2>2. /\ SubSeq(q, 1, i - 1) \in Seq(S)
        /\ Len(SubSeq(q, 1, i - 1)) = IF 1 <= i - 1 THEN (i - 1) - 1 + 1 ELSE 0
        /\ \A k \in 1 .. (i - 1) - 1 + 1 : SubSeq(q, 1, i - 1)[k] = q[1 + k - 1]
    BY <1>1, <2>1, SubSeqProperties
  <2> QED  BY <1>1, <2>2
<1>4. /\ b \in Seq(S) /\ Len(b) = Len(q) - i
      /\ \A k \in 1 .. Len(q) - i : b[k] = q[i + k]
  <2>1. \A k \in i + 1 .. Len(q) : q[k] \in S
    BY <1>1, <1>2
  <2>2. /\ SubSeq(q, i + 1, Len(q)) \in Seq(S)
        /\ Len(SubSeq(q, i + 1, Len(q))) = IF i + 1 <= Len(q) THEN Len(q) - (i + 1) + 1 ELSE 0
        /\ \A k \in 1 .. Len(q) - (i + 1) + 1 : SubSeq(q, i + 1, Len(q))[k] = q[(i + 1) + k - 1]
    BY <1>1, <2>1, SubSeqProperties
  <2> QED  BY <1>1, <2>2
<1> HIDE DEF a, b
<1>5. /\ a \o b \in Seq(S) /\ Len(a \o b) = Len(a) + Len(b)
      /\ \A k \in 1 .. Len(a) + Len(b) :
           (a \o b)[k] = IF k <= Len(a) THEN a[k] ELSE b[k - Len(a)]
  BY <1>3, <1>4, ConcatProperties
<1>6. RemoveAt(q, i) = a \o b
  BY DEF RemoveAt, a, b
<1>7. ASSUME NEW k \in 1 .. Len(q) - 1, k < i
      PROVE  k \in 1 .. Len(q) /\ (a \o b)[k] = q[k]
  BY <1>1, <1>3, <1>4, <1>5, <1>7
<1>8. ASSUME NEW k \in 1 .. Len(q) - 1, k >= i
      PROVE  k + 1 \in 1 .. Len(q) /\ (a \o b)[k] = q[k + 1]
  <2>1. k - Len(a) \in 1 .. Len(q) - i /\ i + (k - Len(a)) = k + 1 /\ ~(k <= Len(a))
    BY <1>1, <1>3, <1>8
  <2>2. k \in 1 .. Len(a) + Len(b) /\ k + 1 \in 1 .. Len(q)
    BY <1>1, <1>3, <1>4, <1>8
  <2>3. (a \o b)[k] = b[k - Len(a)]
    BY <1>5, <2>1, <2>2
  <2>4. b[k - Len(a)] = q[i + (k - Len(a))]
    BY <1>4, <2>1
  <2> QED  BY <2>1, <2>2, <2>3, <2>4
<1>9. Len(a \o b) = Len(q) - 1
  BY <1>1, <1>3, <1>4, <1>5
<1> QED  BY <1>5, <1>6, <1>7, <1>8, <1>9

\* A function on 1 .. n is a sequence.
LEMMA FunctionIsSeq ==
  ASSUME NEW S, NEW n \in Nat, NEW f \in [1 .. n -> S]
  PROVE  f \in Seq(S) /\ Len(f) = n
BY SeqDef, LenProperties

\* A message taken from a queue leaves the others, one place further on.
LEMMA Taken ==
  ASSUME NEW S, NEW q \in Seq(S), q # <<>>
  PROVE  /\ Head(q) = q[1] /\ Head(q) \in S /\ 1 \in 1 .. Len(q)
         /\ Tail(q) \in Seq(S)
         /\ \A k \in 1 .. Len(Tail(q)) : k + 1 \in 1 .. Len(q) /\ Tail(q)[k] = q[k + 1]
<1>1. Len(q) \in Nat /\ Len(q) # 0
  BY EmptySeq, LenProperties
<1> QED  BY <1>1, HeadTailProperties

\* A queue of queued messages holds those of both.
LEMMA Queued ==
  ASSUME NEW S, NEW q \in Seq(S), NEW r \in Seq(S)
  PROVE  /\ q \o r \in Seq(S)
         /\ \A k \in 1 .. Len(q \o r) :
              \/ k \in 1 .. Len(q) /\ (q \o r)[k] = q[k]
              \/ \E j \in 1 .. Len(r) : (q \o r)[k] = r[j]
<1>1. Len(q) \in Nat /\ Len(r) \in Nat
  BY LenProperties
<1>2. ASSUME NEW k \in 1 .. Len(q \o r), k > Len(q)
      PROVE  k - Len(q) \in 1 .. Len(r) /\ (q \o r)[k] = r[k - Len(q)]
  BY <1>1, <1>2, ConcatProperties
<1>3. ASSUME NEW k \in 1 .. Len(q \o r), k <= Len(q)
      PROVE  k \in 1 .. Len(q) /\ (q \o r)[k] = q[k]
  BY <1>1, <1>3, ConcatProperties
<1>4. ASSUME NEW k \in 1 .. Len(q \o r)
      PROVE  k <= Len(q) \/ k > Len(q)
  BY <1>1
<1> QED  BY <1>2, <1>3, <1>4, ConcatProperties

\* The queues of none and of one.
LEMMA Short ==
  ASSUME NEW S, NEW m \in S
  PROVE  <<m>> \in Seq(S) /\ <<>> \in Seq(S)
BY EmptySeq
===============================================================================
