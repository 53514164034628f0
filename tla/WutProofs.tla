----------------------------- MODULE WutProofs -----------------------------
(***************************************************************************)
(* Proofs about Wut for every bound on thread ids and every set of exit    *)
(* arguments.                                                              *)
(***************************************************************************)
EXTENDS Wut, SequenceTheorems, TLAPS

-----------------------------------------------------------------------------
(* The sequence operators that queues are updated with: what they do to    *)
(* the elements, to the set of elements and to the absence of duplicates.  *)

\* Appending adds one element to a queue, and keeps it free of duplicates.
LEMMA AppendLemma ==
    ASSUME NEW S, NEW q \in Seq(S), NEW e \in S
    PROVE  /\ Append(q, e) \in Seq(S)
           /\ Append(q, e) # <<>>
           /\ ToSet(Append(q, e)) = ToSet(q) \cup {e}
           /\ q # <<>> => Head(Append(q, e)) = Head(q)
           /\ q = <<>> => Head(Append(q, e)) = e
           /\ IsInjective(q) /\ e \notin ToSet(q) => IsInjective(Append(q, e))
<1> DEFINE r == Append(q, e)
<1>1. /\ r \in Seq(S)
      /\ Len(r) = Len(q) + 1
      /\ \A k \in 1..Len(q) : r[k] = q[k]
      /\ r[Len(q) + 1] = e
      BY AppendProperties
<1>2. Len(q) \in Nat /\ DOMAIN q = 1..Len(q) /\ DOMAIN r = 1..(Len(q) + 1)
      BY <1>1, LenProperties
<1>3. r # <<>>
      BY <1>1, <1>2, EmptySeq
<1>4. ToSet(r) = ToSet(q) \cup {e}
  <2>1. ASSUME NEW x \in ToSet(r) PROVE x \in ToSet(q) \cup {e}
        BY <1>1, <1>2 DEF ToSet
  <2>2. ASSUME NEW x \in ToSet(q) PROVE x \in ToSet(r)
        BY <1>1, <1>2 DEF ToSet
  <2>3. e \in ToSet(r)
        BY <1>1, <1>2 DEF ToSet
  <2> QED BY <2>1, <2>2, <2>3
<1>5. Head(r) = r[1] /\ (q # <<>> => Head(q) = q[1] /\ 1 \in 1..Len(q)) /\ (q = <<>> => Len(q) = 0)
      BY <1>1, <1>2, <1>3, HeadTailProperties, EmptySeq
<1>6. ASSUME IsInjective(q), e \notin ToSet(q) PROVE IsInjective(r)
  <2>1. \A k \in 1..Len(q) : q[k] # e
        BY <1>2, <1>6 DEF ToSet
  <2> QED BY <1>1, <1>2, <1>6, <2>1 DEF IsInjective
<1> QED BY <1>1, <1>3, <1>4, <1>5, <1>6

\* Removing the head removes one element.
LEMMA TailLemma ==
    ASSUME NEW S, NEW q \in Seq(S), q # <<>>
    PROVE  /\ Tail(q) \in Seq(S)
           /\ Head(q) \in ToSet(q) /\ Head(q) \in S
           /\ ToSet(q) = ToSet(Tail(q)) \cup {Head(q)}
           /\ IsInjective(q) => /\ IsInjective(Tail(q))
                                /\ Head(q) \notin ToSet(Tail(q))
<1> DEFINE r == Tail(q)
<1>1. /\ r \in Seq(S)
      /\ Len(r) = Len(q) - 1
      /\ \A k \in 1..Len(r) : r[k] = q[k + 1]
      /\ Head(q) = q[1] /\ Head(q) \in S
      /\ Len(q) \in Nat /\ Len(q) >= 1
      BY HeadTailProperties, EmptySeq, LenProperties
<1>2. DOMAIN q = 1..Len(q) /\ DOMAIN r = 1..(Len(q) - 1)
      BY <1>1, LenProperties
<1>3. ToSet(q) = ToSet(r) \cup {Head(q)}
  <2>1. ASSUME NEW k \in 1..Len(q) PROVE q[k] \in ToSet(r) \cup {Head(q)}
    <3>1. CASE k = 1 BY <1>1, <3>1
    <3>2. CASE k # 1
          <4>1. k - 1 \in 1..Len(r) /\ r[k - 1] = q[k] BY <1>1, <1>2, <3>2
          <4> QED BY <4>1, <1>1, <1>2 DEF ToSet
    <3> QED BY <3>1, <3>2
  <2>2. ASSUME NEW k \in 1..Len(r) PROVE r[k] \in ToSet(q)
        BY <1>1, <1>2 DEF ToSet
  <2>3. Head(q) \in ToSet(q)
        BY <1>1, <1>2 DEF ToSet
  <2> QED BY <1>1, <1>2, <2>1, <2>2, <2>3 DEF ToSet
<1>4. ASSUME IsInjective(q) PROVE IsInjective(r) /\ Head(q) \notin ToSet(r)
  <2>1. \A a, b \in 1..Len(q) : q[a] = q[b] => a = b
        BY <1>2, <1>4 DEF IsInjective
  <2>2. IsInjective(r)
        BY <1>1, <1>2, <2>1 DEF IsInjective
  <2>3. ASSUME NEW k \in 1..Len(r), r[k] = Head(q) PROVE FALSE
        BY <1>1, <1>2, <2>1, <2>3
  <2> QED BY <1>1, <1>2, <2>2, <2>3 DEF ToSet
<1> QED BY <1>1, <1>3, <1>4

\* The elements of a sequence after one of them was removed.
LEMMA RemoveAtProperties ==
    ASSUME NEW S, NEW q \in Seq(S), NEW i \in 1..Len(q)
    PROVE  /\ RemoveAt(q, i) \in Seq(S)
           /\ Len(RemoveAt(q, i)) = Len(q) - 1
           /\ \A k \in 1..(Len(q) - 1) :
                RemoveAt(q, i)[k] = IF k < i THEN q[k] ELSE q[k + 1]
<1> DEFINE a == SubSeq(q, 1, i - 1)
           b == SubSeq(q, i + 1, Len(q))
<1>1. Len(q) \in Nat /\ i \in Nat /\ i >= 1 /\ i <= Len(q)
      BY LenProperties
<1>2. /\ a \in Seq(S) /\ Len(a) = i - 1
      /\ \A k \in 1..(i - 1) : a[k] = q[k]
      BY <1>1, SubSeqProperties
<1>3. /\ b \in Seq(S) /\ Len(b) = Len(q) - i
      /\ \A k \in 1..(Len(q) - i) : b[k] = q[i + k]
      BY <1>1, SubSeqProperties
<1> HIDE DEF a, b
<1>4. /\ a \o b \in Seq(S) /\ Len(a \o b) = Len(a) + Len(b)
      /\ \A k \in 1..(Len(a) + Len(b)) :
            (a \o b)[k] = IF k <= Len(a) THEN a[k] ELSE b[k - Len(a)]
      BY <1>2, <1>3, ConcatProperties, Zenon
<1>5. ASSUME NEW k \in 1..(Len(q) - 1)
      PROVE  (a \o b)[k] = IF k < i THEN q[k] ELSE q[k + 1]
  <2>1. CASE k < i BY <1>1, <1>2, <1>3, <1>4, <2>1
  <2>2. CASE ~(k < i)
    <3>1. k - Len(a) \in 1..(Len(q) - i) BY <1>1, <1>2, <2>2
    <3>2. (a \o b)[k] = b[k - Len(a)] BY <1>1, <1>2, <1>3, <1>4, <2>2
    <3>3. i + (k - Len(a)) = k + 1 BY <1>1, <1>2
    <3> QED BY <1>1, <1>3, <2>2, <3>1, <3>2, <3>3
  <2> QED BY <2>1, <2>2
<1>6. Len(a \o b) = Len(q) - 1
      BY <1>1, <1>2, <1>3, <1>4
<1> QED BY <1>4, <1>5, <1>6 DEF RemoveAt, a, b

\* The elements of a sequence after one was inserted.
LEMMA InsertAtProperties ==
    ASSUME NEW S, NEW q \in Seq(S), NEW i \in 1..(Len(q) + 1), NEW e \in S
    PROVE  /\ InsertAt(q, i, e) \in Seq(S)
           /\ Len(InsertAt(q, i, e)) = Len(q) + 1
           /\ \A k \in 1..(Len(q) + 1) :
                InsertAt(q, i, e)[k] = IF k < i THEN q[k]
                                       ELSE IF k = i THEN e ELSE q[k - 1]
<1> DEFINE a == SubSeq(q, 1, i - 1)
           b == SubSeq(q, i, Len(q))
           ae == Append(a, e)
<1>1. Len(q) \in Nat /\ i \in Nat /\ i >= 1 /\ i <= Len(q) + 1
      BY LenProperties
<1>2. /\ a \in Seq(S) /\ Len(a) = i - 1
      /\ \A k \in 1..(i - 1) : a[k] = q[k]
      BY <1>1, SubSeqProperties
<1>3. /\ b \in Seq(S) /\ Len(b) = Len(q) - i + 1
      /\ \A k \in 1..(Len(q) - i + 1) : b[k] = q[i + k - 1]
      BY <1>1, SubSeqProperties
<1>4. /\ ae \in Seq(S) /\ Len(ae) = i /\ ae[i] = e
      /\ \A k \in 1..(i - 1) : ae[k] = q[k]
      BY <1>1, <1>2, AppendProperties
<1>5. a \o <<e>> = ae
      BY <1>2, AppendIsConcat
<1> HIDE DEF a, b, ae
<1>6. /\ ae \o b \in Seq(S) /\ Len(ae \o b) = Len(q) + 1
      /\ \A k \in 1..(Len(ae) + Len(b)) :
            (ae \o b)[k] = IF k <= Len(ae) THEN ae[k] ELSE b[k - Len(ae)]
      BY <1>1, <1>3, <1>4, ConcatProperties
<1>7. ASSUME NEW k \in 1..(Len(q) + 1)
      PROVE  (ae \o b)[k] = IF k < i THEN q[k]
                            ELSE IF k = i THEN e ELSE q[k - 1]
  <2>1. CASE k <= i BY <1>1, <1>3, <1>4, <1>6, <2>1
  <2>2. CASE ~(k <= i)
    <3>1. k - Len(ae) \in 1..(Len(q) - i + 1) BY <1>1, <1>4, <2>2
    <3>2. (ae \o b)[k] = b[k - Len(ae)] BY <1>1, <1>3, <1>4, <1>6, <2>2
    <3>3. i + (k - Len(ae)) - 1 = k - 1 BY <1>1, <1>4
    <3>4. b[k - Len(ae)] = q[k - 1] BY <1>3, <3>1, <3>3
    <3>5. ~(k < i) /\ k # i BY <1>1, <2>2
    <3> QED BY <3>2, <3>4, <3>5
  <2> QED BY <2>1, <2>2
<1> QED BY <1>5, <1>6, <1>7 DEF InsertAt, a, b, ae

\* Removing one position takes its element out of a queue without duplicates,
\* and leaves the head alone unless it is the one removed.
LEMMA RemoveLemma ==
    ASSUME NEW S, NEW q \in Seq(S), NEW i \in 1..Len(q), IsInjective(q)
    PROVE  /\ RemoveAt(q, i) \in Seq(S)
           /\ ToSet(RemoveAt(q, i)) = ToSet(q) \ {q[i]}
           /\ IsInjective(RemoveAt(q, i))
           /\ q[i] # Head(q) => /\ RemoveAt(q, i) # <<>>
                                /\ Head(RemoveAt(q, i)) = Head(q)
<1> DEFINE r == RemoveAt(q, i)
<1>1. /\ r \in Seq(S)
      /\ Len(r) = Len(q) - 1
      /\ \A k \in 1..(Len(q) - 1) : r[k] = IF k < i THEN q[k] ELSE q[k + 1]
      BY RemoveAtProperties
<1>2. /\ Len(q) \in Nat /\ i \in Nat /\ i >= 1 /\ i <= Len(q)
      /\ DOMAIN q = 1..Len(q) /\ DOMAIN r = 1..(Len(q) - 1)
      BY <1>1, LenProperties
<1> HIDE DEF r
<1>3. \A a, b \in 1..Len(q) : q[a] = q[b] => a = b
      BY <1>2 DEF IsInjective
<1>4. ToSet(r) = ToSet(q) \ {q[i]}
  <2>1. ASSUME NEW k \in 1..(Len(q) - 1) PROVE r[k] \in ToSet(q) \ {q[i]}
    <3>1. CASE k < i
      <4>1. r[k] = q[k] /\ k \in 1..Len(q) /\ k # i BY <1>1, <1>2, <3>1
      <4> QED BY <4>1, <1>2, <1>3 DEF ToSet
    <3>2. CASE ~(k < i)
      <4>1. r[k] = q[k + 1] /\ k + 1 \in 1..Len(q) /\ k + 1 # i
            BY <1>1, <1>2, <3>2
      <4> QED BY <4>1, <1>2, <1>3 DEF ToSet
    <3> QED BY <3>1, <3>2
  <2>2. ASSUME NEW k \in 1..Len(q), k # i PROVE q[k] \in ToSet(r)
    <3>1. CASE k < i
      <4>1. q[k] = r[k] /\ k \in 1..(Len(q) - 1) BY <1>1, <1>2, <3>1
      <4> QED BY <4>1, <1>2 DEF ToSet
    <3>2. CASE ~(k < i)
      <4>1. k - 1 \in 1..(Len(q) - 1) /\ ~(k - 1 < i) /\ (k - 1) + 1 = k
            BY <1>2, <2>2, <3>2
      <4>2. q[k] = r[k - 1] BY <1>1, <4>1
      <4> QED BY <4>1, <4>2, <1>2 DEF ToSet
    <3> QED BY <3>1, <3>2
  <2>3. ToSet(r) \subseteq ToSet(q) \ {q[i]}
        BY <1>2, <2>1 DEF ToSet
  <2>4. ToSet(q) \ {q[i]} \subseteq ToSet(r)
        BY <1>2, <2>2 DEF ToSet
  <2> QED BY <2>3, <2>4
<1>5. IsInjective(r)
  <2>1. ASSUME NEW a \in 1..(Len(q) - 1), NEW b \in 1..(Len(q) - 1), r[a] = r[b]
        PROVE  a = b
    <3>1. /\ a \in 1..Len(q) /\ b \in 1..Len(q)
          /\ a + 1 \in 1..Len(q) /\ b + 1 \in 1..Len(q)
          BY <1>2
    <3>2. /\ r[a] = IF a < i THEN q[a] ELSE q[a + 1]
          /\ r[b] = IF b < i THEN q[b] ELSE q[b + 1]
          BY <1>1
    <3>3. CASE a < i /\ b < i BY <1>3, <2>1, <3>1, <3>2, <3>3
    <3>4. CASE a < i /\ ~(b < i)
      <4>1. q[a] = q[b + 1] BY <2>1, <3>2, <3>4
      <4>2. a = b + 1 BY <1>3, <3>1, <4>1
      <4> QED BY <1>2, <3>4, <4>2
    <3>5. CASE ~(a < i) /\ b < i
      <4>1. q[a + 1] = q[b] BY <2>1, <3>2, <3>5
      <4>2. a + 1 = b BY <1>3, <3>1, <4>1
      <4> QED BY <1>2, <3>5, <4>2
    <3>6. CASE ~(a < i) /\ ~(b < i)
      <4>1. q[a + 1] = q[b + 1] BY <2>1, <3>2, <3>6
      <4>2. a + 1 = b + 1 BY <1>3, <3>1, <4>1
      <4> QED BY <1>2, <4>2
    <3> QED BY <3>3, <3>4, <3>5, <3>6
  <2> QED BY <1>2, <2>1 DEF IsInjective
<1>6. ASSUME q[i] # Head(q) PROVE r # <<>> /\ Head(r) = Head(q)
  <2>1. q # <<>> BY <1>2, EmptySeq
  <2>2. Head(q) = q[1] BY <2>1
  <2>3. i > 1 BY <1>2, <1>6, <2>2
  <2>4. 1 \in 1..(Len(q) - 1) /\ r[1] = q[1] BY <1>1, <1>2, <2>3
  <2>5. r # <<>> BY <1>1, <1>2, <2>3, EmptySeq
  <2> QED BY <1>1, <2>2, <2>4, <2>5
<1> QED BY <1>1, <1>4, <1>5, <1>6 DEF r

\* Inserting adds one element, and keeps a queue free of duplicates.
LEMMA InsertLemma ==
    ASSUME NEW S, NEW q \in Seq(S), NEW i \in 1..(Len(q) + 1), NEW e \in S
    PROVE  /\ InsertAt(q, i, e) \in Seq(S)
           /\ ToSet(InsertAt(q, i, e)) = ToSet(q) \cup {e}
<1> DEFINE r == InsertAt(q, i, e)
<1>1. /\ r \in Seq(S)
      /\ Len(r) = Len(q) + 1
      /\ \A k \in 1..(Len(q) + 1) :
            r[k] = IF k < i THEN q[k] ELSE IF k = i THEN e ELSE q[k - 1]
      BY InsertAtProperties
<1>2. /\ Len(q) \in Nat /\ i \in Nat /\ i >= 1 /\ i <= Len(q) + 1
      /\ DOMAIN q = 1..Len(q) /\ DOMAIN r = 1..(Len(q) + 1)
      BY <1>1, LenProperties
<1> HIDE DEF r
<1>3. ASSUME NEW k \in 1..(Len(q) + 1) PROVE r[k] \in ToSet(q) \cup {e}
  <2>1. CASE k < i
    <3>1. r[k] = q[k] /\ k \in 1..Len(q) BY <1>1, <1>2, <2>1
    <3> QED BY <3>1, <1>2 DEF ToSet
  <2>2. CASE k = i BY <1>1, <1>2, <2>2
  <2>3. CASE ~(k < i) /\ k # i
    <3>1. r[k] = q[k - 1] /\ k - 1 \in 1..Len(q) BY <1>1, <1>2, <2>3
    <3> QED BY <3>1, <1>2 DEF ToSet
  <2> QED BY <2>1, <2>2, <2>3
<1>4. ASSUME NEW k \in 1..Len(q) PROVE q[k] \in ToSet(r)
  <2>1. CASE k < i
    <3>1. q[k] = r[k] /\ k \in 1..(Len(q) + 1) BY <1>1, <1>2, <2>1
    <3> QED BY <3>1, <1>2 DEF ToSet
  <2>2. CASE ~(k < i)
    <3>1. /\ k + 1 \in 1..(Len(q) + 1) /\ ~(k + 1 < i) /\ k + 1 # i
          /\ (k + 1) - 1 = k
          BY <1>2, <2>2
    <3>2. q[k] = r[k + 1] BY <1>1, <3>1
    <3> QED BY <3>1, <3>2, <1>2 DEF ToSet
  <2> QED BY <2>1, <2>2
<1>5. e \in ToSet(r)
  <2>1. i \in 1..(Len(q) + 1) /\ r[i] = e BY <1>1, <1>2
  <2> QED BY <2>1, <1>2 DEF ToSet
<1>6. ToSet(r) \subseteq ToSet(q) \cup {e}
      BY <1>2, <1>3 DEF ToSet
<1>7. ToSet(q) \subseteq ToSet(r)
      BY <1>2, <1>4 DEF ToSet
<1> QED BY <1>1, <1>5, <1>6, <1>7 DEF r

\* Moving the head to the back keeps the elements and brings another to the
\* head.
LEMMA RotateLemma ==
    ASSUME NEW S, NEW q \in Seq(S), IsInjective(q), Len(q) > 1
    PROVE  LET r == Append(Tail(q), Head(q))
           IN /\ r \in Seq(S) /\ r # <<>>
              /\ ToSet(r) = ToSet(q)
              /\ IsInjective(r)
              /\ Head(r) \in ToSet(q) \ {Head(q)}
<1>1. q # <<>> /\ Len(q) \in Nat
      BY EmptySeq, LenProperties
<1> DEFINE t == Tail(q)
           h == Head(q)
<1>2. /\ t \in Seq(S) /\ h \in S
      /\ ToSet(q) = ToSet(t) \cup {h} /\ IsInjective(t) /\ h \notin ToSet(t)
      BY <1>1, TailLemma
<1>3. Len(t) = Len(q) - 1 BY <1>1, HeadTailProperties
<1> DEFINE m == Len(t)
           n == Len(q)
<1>4. t # <<>>
  <2>1. m = n - 1 /\ n > 1 /\ n \in Nat BY <1>1, <1>3
  <2> HIDE DEF m, n
  <2>2. m # 0 BY <2>1
  <2>3. t = <<>> => m = 0 BY EmptySeq DEF m
  <2> QED BY <2>2, <2>3
<1> HIDE DEF t, h, m, n
<1>5. Head(t) \in ToSet(t) BY <1>2, <1>4, TailLemma
<1>6. /\ Append(t, h) \in Seq(S) /\ Append(t, h) # <<>>
      /\ ToSet(Append(t, h)) = ToSet(t) \cup {h}
      /\ Head(Append(t, h)) = Head(t) /\ IsInjective(Append(t, h))
      BY <1>2, <1>4, AppendLemma
<1> QED BY <1>2, <1>5, <1>6 DEF t, h

\* Pos finds an element that is there.
LEMMA PosLemma ==
    ASSUME NEW S, NEW q \in Seq(S), NEW t \in ToSet(q)
    PROVE  Pos(q, t) \in 1..Len(q) /\ q[Pos(q, t)] = t
<1>1. \E i \in 1..Len(q) : q[i] = t
      BY LenProperties DEF ToSet
<1> QED BY <1>1 DEF Pos

\* In a queue without repetitions the position of an element is the only one
\* where it is.
LEMMA PosIs ==
    ASSUME NEW S, NEW q \in Seq(S), IsInjective(q), NEW i \in 1..Len(q)
    PROVE  Pos(q, q[i]) = i
<1>1. \A j, k \in 1..Len(q) : q[j] = q[k] => j = k
      BY LenProperties DEF IsInjective
<1>2. q[i] \in ToSet(q) BY LenProperties DEF ToSet
<1>3. Pos(q, q[i]) \in 1..Len(q) /\ q[Pos(q, q[i])] = q[i] BY <1>2, PosLemma
<1> QED BY <1>1, <1>3

\* Appending moves no element.
LEMMA PosAppend ==
    ASSUME NEW S, NEW q \in Seq(S), NEW e \in S, IsInjective(Append(q, e)),
           NEW t \in ToSet(q)
    PROVE  Pos(Append(q, e), t) = Pos(q, t)
<1> DEFINE p == Pos(q, t)
           r == Append(q, e)
<1>1. p \in 1..Len(q) /\ q[p] = t BY PosLemma
<1> HIDE DEF p
<1>2. r \in Seq(S) /\ Len(r) = Len(q) + 1 /\ r[p] = t
      BY <1>1, AppendProperties
<1>3. p \in 1..Len(r) BY <1>1, <1>2, LenProperties
<1>4. IsInjective(r) OBVIOUS
<1> HIDE DEF r
<1>5. Pos(r, r[p]) = p BY <1>2, <1>3, <1>4, PosIs
<1> QED BY <1>2, <1>5 DEF p, r

\* Taking the first element off moves every other one place forward.
LEMMA PosTail ==
    ASSUME NEW S, NEW q \in Seq(S), q # <<>>, IsInjective(q),
           NEW t \in ToSet(q), t # Head(q)
    PROVE  Pos(Tail(q), t) = Pos(q, t) - 1
<1> DEFINE p == Pos(q, t)
           r == Tail(q)
<1>1. p \in 1..Len(q) /\ q[p] = t BY PosLemma
<1> HIDE DEF p
<1>2. p # 1 BY <1>1
<1>3. /\ r \in Seq(S) /\ Len(r) = Len(q) - 1 /\ IsInjective(r)
      /\ \A i \in 1..Len(r) : r[i] = q[i + 1]
      BY HeadTailProperties, TailLemma
<1> HIDE DEF r
<1>4. p - 1 \in 1..Len(r) BY <1>1, <1>2, <1>3, LenProperties
<1>5. r[p - 1] = t BY <1>1, <1>3, <1>4
<1>6. Pos(r, r[p - 1]) = p - 1 BY <1>3, <1>4, PosIs
<1> QED BY <1>5, <1>6 DEF p, r

\* Taking an element out moves no other one back.
LEMMA PosRemove ==
    ASSUME NEW S, NEW q \in Seq(S), IsInjective(q), NEW i \in 1..Len(q),
           NEW t \in ToSet(q), t # q[i]
    PROVE  Pos(RemoveAt(q, i), t) <= Pos(q, t)
<1> DEFINE p == Pos(q, t)
           r == RemoveAt(q, i)
<1>1. p \in 1..Len(q) /\ q[p] = t /\ p # i BY PosLemma
<1> HIDE DEF p
<1>2. /\ r \in Seq(S) /\ Len(r) = Len(q) - 1 /\ IsInjective(r)
      /\ \A k \in 1..(Len(q) - 1) : r[k] = IF k < i THEN q[k] ELSE q[k + 1]
      BY RemoveAtProperties, RemoveLemma
<1> HIDE DEF r
<1>3. Len(q) \in Nat BY LenProperties
<1>4. CASE p < i
  <2>1. p \in 1..Len(r) BY <1>1, <1>2, <1>3, <1>4
  <2>2. r[p] = t BY <1>1, <1>2, <1>3, <1>4, <2>1
  <2> QED BY <1>1, <1>2, <2>1, <2>2, PosIs DEF p, r
<1>5. CASE ~(p < i)
  <2>1. p - 1 \in 1..Len(r) /\ ~(p - 1 < i) BY <1>1, <1>2, <1>3, <1>5
  <2>2. r[p - 1] = t BY <1>1, <1>2, <1>3, <2>1
  <2>3. Pos(r, r[p - 1]) = p - 1 BY <1>2, <2>1, PosIs
  <2>4. Pos(r, t) <= p BY <1>1, <2>2, <2>3
  <2> QED BY <2>4 DEF p, r
<1> QED BY <1>4, <1>5

-----------------------------------------------------------------------------
(* Type correctness, whatever the client does.                             *)

\* Control blocks and queue entries belong to threads.
LEMMA LiveType == TypeOK => Live \subseteq Tid /\ Queued \subseteq Tid
BY LenProperties DEF TypeOK, Live, Queued, ToSet

\* The running thread is a thread.
LEMMA MeType == TypeOK /\ fifo # <<>> => Me \in Tid /\ Me \in Queued /\ Tail(fifo) \in Seq(Tid)
BY TailLemma DEF TypeOK, Me, Queued

\* Waking a thread keeps the type of the queue.
LEMMA WakeType ==
    ASSUME TypeOK, NEW q \in Seq(Tid), NEW t \in Tid
    PROVE  WakeWaiter(q, t) \in Seq(Tid)
BY LiveType, AppendProperties DEF WakeWaiter

\* A context switch keeps the types of what it assigns.
LEMMA SwitchType ==
    ASSUME TypeOK, NEW q \in Seq(Tid), NEW c \in [Tid -> Code \cup {None}],
           SwitchTo(q, c)
    PROVE  proc' \in Procs /\ cpu' \in Code /\ fifo' \in Seq(Tid)
<1> DEFINE Able == /\ q # <<>> /\ Head(q) \in Live /\ c[Head(q)] # None
                   /\ stack[c[Head(q)]] # None
<1>1. fifo' \in Seq(Tid) BY DEF SwitchTo, Resume
<1>2. CASE Able
  <2>1. Head(q) \in Tid BY <1>2, LiveType
  <2>2. c[Head(q)] \in Code BY <1>2, <2>1
  <2>3. cpu' = c[Head(q)] /\ proc' = proc BY <1>2 DEF SwitchTo, Resume
  <2> QED BY <1>1, <2>2, <2>3 DEF TypeOK
<1>3. CASE ~Able
  <2>1. proc' = "crashed" /\ cpu' = cpu BY <1>3 DEF SwitchTo, Resume
  <2> QED BY <1>1, <2>1 DEF TypeOK, Procs
<1> QED BY <1>2, <1>3

\* Unmapping a stack keeps the type of the stacks.
LEMMA UnmapType ==
    ASSUME TypeOK, NEW t
    PROVE  Unmapped(t) \in [Code -> Tid \cup {None, ProcessStack}]
BY DEF TypeOK, Unmapped

\* Freeing a tcb keeps the types of what it assigns.
LEMMA FreeType ==
    ASSUME TypeOK, NEW t \in Live, Free(t)
    PROVE  /\ tcbq' \in Seq(Tid)
           /\ status' \in [Tid -> 0..255]
           /\ waiter' \in [Tid -> Tid \cup {None}]
           /\ exited' \in [Tid -> BOOLEAN]
           /\ ctx' \in [Tid -> Code \cup {None}]
           /\ isInit' \in [Tid -> BOOLEAN]
           /\ stack' \in [Code -> Tid \cup {None, ProcessStack}]
<1>1. tcbq' \in Seq(Tid)
      BY PosLemma, RemoveAtProperties DEF TypeOK, Free, Live
<1>2. stack' \in [Code -> Tid \cup {None, ProcessStack}]
      BY UnmapType DEF Free
<1>5. status' \in [Tid -> 0..255]
  <2>1. status \in [Tid -> 0..255] /\ status' = [status EXCEPT ![t] = 0] /\ 0 \in 0..255
        BY DEF TypeOK, Free
  <2> QED BY <2>1
<1>3. /\ waiter' \in [Tid -> Tid \cup {None}]
      /\ ctx' \in [Tid -> Code \cup {None}]
      BY DEF TypeOK, Free
<1>4. exited' \in [Tid -> BOOLEAN] /\ isInit' \in [Tid -> BOOLEAN]
      BY DEF TypeOK, Free
<1> QED BY <1>1, <1>2, <1>3, <1>4, <1>5

\* So does _exit_cleanup.
LEMMA CleanupType ==
    ASSUME TypeOK, NEW q \in Seq(Tid), q # <<>>, NEW ex \in [Tid -> BOOLEAN],
           ExitCleanup(q, ex), status' \in [Tid -> 0..255]
    PROVE  TypeOK'
<1> DEFINE rest == WakeWaiter(Tail(q), Head(q))
<1>1. rest \in Seq(Tid)
      BY TailLemma, WakeType
<1>2. proc' \in Procs /\ cpu' \in Code /\ fifo' \in Seq(Tid)
  <2>1. CASE rest # <<>>
    <3>1. SwitchTo(rest, ctx) BY <2>1 DEF ExitCleanup, Finished
    <3> QED BY <1>1, <3>1, SwitchType DEF TypeOK
  <2>2. CASE rest = <<>>
        BY <1>1, <2>2 DEF ExitCleanup, Finished, TypeOK, Procs
  <2> QED BY <2>1, <2>2
<1>3. exited' \in [Tid -> BOOLEAN] /\ over' \subseteq Code
      BY DEF ExitCleanup, TypeOK
<1>4. UNCHANGED <<tcbq, waiter, waiting, ctx, isInit, stack, pend, linkNull>>
      BY DEF ExitCleanup
<1> QED BY <1>2, <1>3, <1>4 DEF TypeOK

\* Every state of every behaviour has the right type: TypeOK of the runs.
THEOREM TypeCorrect == Spec => []TypeOK
<1>1. Init => TypeOK
  <2> SUFFICES ASSUME Init PROVE TypeOK OBVIOUS
  <2>1. 0 \in Tid BY MaxTidAssumption DEF Tid
  <2>2. <<0>> \in Seq(Tid) BY <2>1
  <2>3. 0 \in Code BY MaxTidAssumption DEF Code
  <2>4. /\ ctx \in [Tid -> Code \cup {None}]
        /\ stack \in [Code -> Tid \cup {None, ProcessStack}]
        /\ pend \in [Code -> Tid \cup {None}]
        /\ over \subseteq Code
        BY <2>3 DEF Init
  <2> QED BY <2>1, <2>2, <2>3, <2>4 DEF Init, TypeOK, Procs
<1>2. TypeOK /\ [Next]_vars => TypeOK'
  <2> SUFFICES ASSUME TypeOK, [Next]_vars PROVE TypeOK' OBVIOUS
  <2>1. ASSUME NEW how \in Procs, Halt(how) PROVE TypeOK'
        BY <2>1 DEF Halt, TypeOK
  <2>2. CASE Create
    <3>1. PICK i \in 1..(Len(tcbq) + 1) :
            /\ fifo' = Append(fifo, i - 1)
            /\ tcbq' = InsertAt(tcbq, i, i - 1)
            /\ status' = [status EXCEPT ![i - 1] = 0]
            /\ waiter' = [waiter EXCEPT ![i - 1] = None]
            /\ waiting' = [waiting EXCEPT ![i - 1] = None]
            /\ exited' = [exited EXCEPT ![i - 1] = FALSE]
            /\ isInit' = [isInit EXCEPT ![i - 1] = FALSE]
            /\ \E c \in NewCode(i - 1) :
                 /\ ctx' = [ctx EXCEPT ![i - 1] = c]
                 /\ stack' = [stack EXCEPT ![c] = i - 1]
                 /\ pend' = [pend EXCEPT ![c] = None]
                 /\ over' = over \ {c}
          BY <2>2 DEF Create
    <3>2. i - 1 \in Tid
          BY <2>2, LenProperties, MaxTidAssumption DEF Create, Tid, TypeOK
    <3>3. fifo' \in Seq(Tid) /\ tcbq' \in Seq(Tid)
          BY <3>1, <3>2, AppendProperties, InsertAtProperties DEF TypeOK
    <3>4. UNCHANGED <<proc, cpu, linkNull>>
          BY <2>2 DEF Create
    <3>5. /\ ctx' \in [Tid -> Code \cup {None}]
          /\ stack' \in [Code -> Tid \cup {None, ProcessStack}]
          /\ pend' \in [Code -> Tid \cup {None}]
          /\ over' \subseteq Code
          BY <3>1, <3>2 DEF TypeOK, NewCode
    <3> QED BY <3>1, <3>2, <3>3, <3>4, <3>5 DEF TypeOK
  <2>3. CASE YieldNowhere BY <2>1, <2>3 DEF YieldNowhere, Procs
  <2>4. CASE YieldAlone
    <3>1. <<>> \in Seq(Tid) OBVIOUS
    <3> QED BY <2>4, <3>1 DEF YieldAlone, TypeOK
  <2>5. CASE CancelNoThread BY <2>1, <2>5 DEF CancelNoThread, Procs
  <2>6. ASSUME NEW id \in Tid, Cancel(id) PROVE TypeOK'
    <3>1. fifo' \in Seq(Tid)
      <4>1. Without(id) \in Seq(Tid)
            BY PosLemma, RemoveAtProperties DEF TypeOK, Queued, Without
      <4>2. fifo' = WakeWaiter(Without(id), id) BY <2>6 DEF Cancel
      <4> QED BY <4>1, <4>2, WakeType
    <3>2. /\ waiting' \in [Tid -> Tid \cup {None}]
          /\ waiter' \in [Tid -> Tid \cup {None}]
          BY <2>6 DEF Cancel, TypeOK, WaitsOnLive
    <3>3. over' \subseteq Code
          BY <2>6 DEF Cancel, TypeOK, Lost
    <3>8. stack' \in [Code -> Tid \cup {None, ProcessStack}]
          BY <2>6, UnmapType DEF Cancel
    <3>7. status' \in [Tid -> 0..255]
      <4>1. /\ status \in [Tid -> 0..255]
            /\ status' = [status EXCEPT ![id] = CancelStatus]
            BY <2>6 DEF Cancel, TypeOK
      <4>2. CancelStatus \in 0..255 BY DEF CancelStatus
      <4> QED BY <4>1, <4>2
    <3>4. exited' \in [Tid -> BOOLEAN]
          BY <2>6 DEF Cancel, TypeOK
    <3>5. /\ ctx' \in [Tid -> Code \cup {None}]
          /\ pend' \in [Code -> Tid \cup {None}]
          BY <2>6 DEF Cancel, TypeOK
    <3>6. UNCHANGED <<proc, cpu, tcbq, isInit, linkNull>>
          BY <2>6 DEF Cancel
    <3> QED BY <3>1, <3>2, <3>3, <3>4, <3>5, <3>6, <3>7, <3>8 DEF TypeOK
  <2>7. ASSUME NEW id \in Tid, JoinNoThread(id) PROVE TypeOK'
        BY <2>1, <2>7 DEF JoinNoThread, Procs
  <2>8. ASSUME NEW id \in Tid, JoinReap(id) PROVE TypeOK'
    <3>1. id \in Live BY <2>8 DEF JoinReap, JoinAccepted
    <3>2. Free(id) BY <2>8 DEF JoinReap
    <3> QED BY <2>8, <3>1, <3>2, FreeType DEF JoinReap, TypeOK
  <2>9. CASE JoinReturn
    <3>1. CASE pend[cpu] \in Live /\ OtherStack(pend[cpu])
      <4>1. Free(pend[cpu]) BY <2>9, <3>1 DEF JoinReturn
      <4> QED BY <2>9, <3>1, <4>1, FreeType DEF JoinReturn, TypeOK
    <3>2. CASE ~(pend[cpu] \in Live /\ OtherStack(pend[cpu]))
          BY <2>1, <2>9, <3>2 DEF JoinReturn, Procs
    <3> QED BY <3>1, <3>2
  <2>10. CASE ReturnNowhere BY <2>1, <2>10 DEF ReturnNowhere, Procs
  <2>11. CASE ExitNowhere BY <2>1, <2>11 DEF ExitNowhere, Procs
  <2>12. CASE ExitLast BY <2>1, <2>12 DEF ExitLast, Procs
  <2>13. ASSUME NEW arg \in ExitArgs PROVE Masked(arg) \in 0..255
         BY ExitArgsAssumption DEF Masked
  <2>14. ASSUME fifo # <<>> PROVE AfterExit \in Seq(Tid)
         BY <2>14, MeType, WakeType DEF AfterExit
  <2>15. ASSUME NEW arg \in ExitArgs, ExitUnlinked(arg) PROVE TypeOK'
    <3>1. fifo # <<>> /\ AfterExit # <<>>
          /\ ExitCleanup(AfterExit, [exited EXCEPT ![Me] = TRUE])
          BY <2>15 DEF ExitUnlinked
    <3>2. status' \in [Tid -> 0..255]
          BY <2>13, <2>15 DEF ExitUnlinked, TypeOK
    <3>3. [exited EXCEPT ![Me] = TRUE] \in [Tid -> BOOLEAN]
          BY DEF TypeOK
    <3> QED BY <2>14, <3>1, <3>2, <3>3, CleanupType
  <2>16. CASE Yield
    <3>1. Rotated \in Seq(Tid)
          BY <2>16, MeType, EmptySeq, AppendProperties DEF Yield, Rotated
    <3>2. ctx' \in [Tid -> Code \cup {None}]
          BY <2>16 DEF Yield, TypeOK
    <3>3. SwitchTo(Rotated, ctx') BY <2>16 DEF Yield
    <3>4. proc' \in Procs /\ cpu' \in Code /\ fifo' \in Seq(Tid)
          BY <3>1, <3>2, <3>3, SwitchType
    <3> QED BY <2>16, <3>2, <3>4 DEF Yield, TypeOK
  <2>17. ASSUME NEW id \in Tid, JoinBlock(id) PROVE TypeOK'
    <3>1. Me \in Tid /\ Tail(fifo) \in Seq(Tid)
          BY <2>17, MeType DEF JoinBlock, JoinAccepted
    <3>2. ctx' \in [Tid -> Code \cup {None}]
          BY <2>17 DEF JoinBlock, TypeOK
    <3>3. SwitchTo(Tail(fifo), ctx') BY <2>17 DEF JoinBlock
    <3>4. proc' \in Procs /\ cpu' \in Code /\ fifo' \in Seq(Tid)
          BY <3>1, <3>2, <3>3, SwitchType
    <3> QED BY <2>17, <3>1, <3>2, <3>4 DEF JoinBlock, TypeOK
  <2>18. CASE Return
    <3>1. fifo # <<>> /\ ExitCleanup(fifo, exited) BY <2>18 DEF Return
    <3> QED BY <2>18, <3>1, CleanupType DEF Return, TypeOK
  <2>19. ASSUME NEW arg \in ExitArgs, Exit(arg) PROVE TypeOK'
    <3>1. fifo # <<>> /\ SwitchTo(AfterExit, ctx) BY <2>19 DEF Exit
    <3>2. proc' \in Procs /\ cpu' \in Code /\ fifo' \in Seq(Tid)
          BY <2>14, <3>1, SwitchType DEF TypeOK
    <3> QED BY <2>13, <2>19, <3>2 DEF Exit, TypeOK
  <2>20. CASE UNCHANGED vars BY <2>20 DEF vars, TypeOK
  <2>21. ASSUME NEW id \in Tid, UnmapOwnStack(id) PROVE TypeOK'
         BY <2>1, <2>21 DEF UnmapOwnStack, Procs
  <2> QED BY <2>2, <2>3, <2>4, <2>5, <2>6, <2>7, <2>8, <2>9, <2>10, <2>11,
             <2>12, <2>15, <2>16, <2>17, <2>18, <2>19, <2>20, <2>21
          DEF Next, Switch, CancelRefused, JoinRefused, Stopped
<1> QED BY <1>1, <1>2, PTL DEF Spec

-----------------------------------------------------------------------------
(* The list of control blocks, whatever the client does.                   *)

\* The ids of the list increase by at least one from each tcb to the next.
\* (Stated over all pairs of positions, because it is used without induction.)
TidsSorted ==
    \A j \in 1..Len(tcbq) :
        /\ tcbq[j] >= j - 1
        /\ \A k \in 1..Len(tcbq) : j <= k => tcbq[k] - tcbq[j] >= k - j

\* Only wut_create and wut_join change the list of control blocks.
LEMMA ListSteps ==
    ASSUME [Next]_vars
    PROVE  Create \/ UNCHANGED tcbq \/ \E t \in Live : Free(t)
<1>1. CASE Create BY <1>1
<1>2. ASSUME NEW how \in Procs, Halt(how) PROVE UNCHANGED tcbq
      BY <1>2 DEF Halt
<1>3. CASE \E id \in Tid : JoinReap(id)
      BY <1>3 DEF JoinReap, JoinAccepted
<1>4. CASE JoinReturn
      BY <1>2, <1>4 DEF JoinReturn, Procs
<1>5. CASE \/ YieldNowhere \/ YieldAlone \/ CancelNoThread
           \/ \E id \in Tid : Cancel(id) \/ JoinNoThread(id) \/ UnmapOwnStack(id)
           \/ ReturnNowhere \/ ExitNowhere \/ ExitLast
      BY <1>2, <1>5 DEF YieldNowhere, YieldAlone, CancelNoThread, Cancel,
         JoinNoThread, UnmapOwnStack, ReturnNowhere, ExitNowhere, ExitLast, Procs
<1>6. CASE (\E arg \in ExitArgs : ExitUnlinked(arg)) \/ Switch
      BY <1>6 DEF ExitUnlinked, ExitCleanup, Switch, Yield, JoinBlock, Return, Exit
<1>7. CASE \/ \E id \in Tid : CancelRefused(id) \/ JoinRefused(id)
           \/ Stopped \/ UNCHANGED vars
      BY <1>7 DEF CancelRefused, JoinRefused, Stopped, vars
<1> QED BY <1>1, <1>3, <1>4, <1>5, <1>6, <1>7 DEF Next

\* Where the scan of wut_create stops, every lower id is taken and the id it
\* found is not.
LEMMA ScanLemma ==
    ASSUME TypeOK, TidsSorted, NEW i \in 1..(Len(tcbq) + 1), ScanStops(i)
    PROVE  /\ \A j \in 1..(i - 1) : tcbq[j] = j - 1
           /\ \A k \in i..Len(tcbq) : tcbq[k] > (i - 1) + (k - i)
           /\ 0..(i - 2) \subseteq Live
           /\ i - 1 \notin Live
<1>1. /\ Len(tcbq) \in Nat /\ i \in Nat /\ i >= 1 /\ i <= Len(tcbq) + 1
      /\ DOMAIN tcbq = 1..Len(tcbq)
      /\ \A j \in 1..Len(tcbq) : tcbq[j] \in Int
      BY LenProperties, MaxTidAssumption DEF TypeOK, Tid
<1>2. ASSUME NEW j \in 1..(i - 1) PROVE tcbq[j] = j - 1
  <2>1. j \in 1..Len(tcbq) BY <1>1
  <2>2. tcbq[j] <= j - 1 /\ tcbq[j] >= j - 1 /\ tcbq[j] \in Int
        BY <1>1, <2>1 DEF ScanStops, TidsSorted
  <2> QED BY <2>1, <2>2
<1>3. ASSUME NEW k \in i..Len(tcbq) PROVE tcbq[k] > (i - 1) + (k - i)
  <2>1. i \in 1..Len(tcbq) /\ k \in 1..Len(tcbq) /\ i <= k BY <1>1
  <2>2. tcbq[i] > i - 1 BY <2>1 DEF ScanStops
  <2>3. tcbq[k] - tcbq[i] >= k - i BY <2>1 DEF TidsSorted
  <2>4. tcbq[i] \in Int /\ tcbq[k] \in Int BY <1>1, <2>1
  <2> QED BY <1>1, <2>2, <2>3, <2>4
<1>4. ASSUME NEW t \in 0..(i - 2) PROVE t \in Live
  <2>1. t + 1 \in 1..(i - 1) /\ t + 1 \in 1..Len(tcbq) BY <1>1
  <2>2. tcbq[t + 1] = t BY <1>2, <2>1
  <2> QED BY <1>1, <2>1, <2>2 DEF Live, ToSet
<1>5. ASSUME NEW k \in 1..Len(tcbq) PROVE tcbq[k] # i - 1
  <2>1. CASE k < i
    <3>1. k \in 1..(i - 1) BY <1>1, <2>1
    <3> QED BY <1>1, <1>2, <2>1, <3>1
  <2>2. CASE ~(k < i)
    <3>1. k \in i..Len(tcbq) BY <1>1, <2>2
    <3>2. tcbq[k] > (i - 1) + (k - i) /\ tcbq[k] \in Int BY <1>1, <1>3, <3>1
    <3> QED BY <1>1, <2>2, <3>2
  <2> QED BY <2>1, <2>2
<1>6. i - 1 \notin Live BY <1>1, <1>5 DEF Live, ToSet
<1> QED BY <1>2, <1>3, <1>4, <1>6

\* Freeing a tcb leaves the list in order.
LEMMA FreeSorted ==
    ASSUME TypeOK, TidsSorted, NEW t \in Live, Free(t)
    PROVE  TidsSorted'
<1> DEFINE p == Pos(tcbq, t)
           n == Len(tcbq)
<1>1. p \in 1..n /\ tcbq' = RemoveAt(tcbq, p)
      BY PosLemma DEF TypeOK, Live, Free
<1> HIDE DEF p
<1>2. /\ Len(tcbq') = n - 1
      /\ \A k \in 1..(n - 1) : tcbq'[k] = IF k < p THEN tcbq[k] ELSE tcbq[k + 1]
      BY <1>1, RemoveAtProperties DEF TypeOK
<1>3. n \in Nat /\ p \in Nat /\ p >= 1 /\ p <= n /\ \A k \in 1..n : tcbq[k] \in Int
      BY <1>1, LenProperties, MaxTidAssumption DEF TypeOK, Tid
<1> HIDE DEF n
<1>4. ASSUME NEW j \in 1..(n - 1)
      PROVE  /\ tcbq'[j] >= j - 1
             /\ \A k \in 1..(n - 1) : j <= k => tcbq'[k] - tcbq'[j] >= k - j
  <2>1. \A a, b \in 1..n : a <= b => tcbq[a] >= a - 1 /\ tcbq[b] - tcbq[a] >= b - a
        BY DEF TidsSorted, n
  <2>2. j \in 1..n /\ j + 1 \in 1..n BY <1>3
  <2>3. tcbq[j] >= j - 1 /\ tcbq[j + 1] >= j /\ tcbq[j] \in Int /\ tcbq[j + 1] \in Int
    <3>1. tcbq[j] \in Int /\ tcbq[j + 1] \in Int BY <1>3, <2>2
    <3>2. tcbq[j] >= j - 1 BY <2>1, <2>2
    <3>3. tcbq[j + 1] >= (j + 1) - 1 BY <2>1, <2>2
    <3> QED BY <3>1, <3>2, <3>3
  <2>4. ASSUME NEW k \in 1..(n - 1), j <= k PROVE tcbq'[k] - tcbq'[j] >= k - j
    <3>1. k \in 1..n /\ k + 1 \in 1..n BY <1>3
    <3>2. tcbq[k] \in Int /\ tcbq[k + 1] \in Int BY <1>3, <3>1
    <3>3. /\ tcbq[k] - tcbq[j] >= k - j
          /\ tcbq[k + 1] - tcbq[j] >= (k + 1) - j
          /\ tcbq[k + 1] - tcbq[j + 1] >= (k + 1) - (j + 1)
          BY <2>1, <2>2, <2>4, <3>1
    <3>4. CASE k < p BY <1>2, <1>3, <2>4, <3>3, <3>4
    <3>5. CASE ~(k < p) /\ j < p BY <1>2, <1>3, <2>3, <3>2, <3>3, <3>5
    <3>6. CASE ~(k < p) /\ ~(j < p) BY <1>2, <1>3, <2>3, <3>2, <3>3, <3>6
    <3> QED BY <3>4, <3>5, <3>6
  <2>5. tcbq'[j] >= j - 1 BY <1>2, <2>3
  <2> QED BY <2>4, <2>5
<1> QED BY <1>2, <1>4 DEF TidsSorted

\* Creating a tcb leaves the list in order.
LEMMA CreateSorted ==
    ASSUME TypeOK, TidsSorted, Create
    PROVE  TidsSorted'
<1> DEFINE n == Len(tcbq)
<1>1. PICK i \in 1..(n + 1) : ScanStops(i) /\ tcbq' = InsertAt(tcbq, i, i - 1)
      BY DEF Create
<1>2. /\ n \in Nat /\ i \in Nat /\ i >= 1 /\ i <= n + 1
      /\ \A k \in 1..n : tcbq[k] \in Int
      BY LenProperties, MaxTidAssumption DEF TypeOK, Tid
<1>3. i - 1 \in Tid
      BY <1>2, MaxTidAssumption DEF Create, Tid
<1>4. /\ Len(tcbq') = n + 1
      /\ \A k \in 1..(n + 1) :
            tcbq'[k] = IF k < i THEN tcbq[k]
                       ELSE IF k = i THEN i - 1 ELSE tcbq[k - 1]
      BY <1>1, <1>3, InsertAtProperties DEF TypeOK
<1>5. /\ \A j \in 1..(i - 1) : tcbq[j] = j - 1
      /\ \A k \in i..n : tcbq[k] > (i - 1) + (k - i)
      BY <1>1, ScanLemma
<1>6. \A a, b \in 1..n : a <= b => tcbq[b] - tcbq[a] >= b - a
      BY DEF TidsSorted
<1> HIDE DEF n
<1>7. ASSUME NEW k \in 1..(n + 1)
      PROVE  /\ tcbq'[k] \in Int
             /\ k <= i => tcbq'[k] = k - 1
             /\ k > i => k - 1 \in i..n /\ tcbq'[k] = tcbq[k - 1] /\ tcbq'[k] > k - 2
  <2>1. CASE k < i
    <3>1. k \in 1..(i - 1) BY <1>2, <2>1
    <3> QED BY <1>2, <1>4, <1>5, <2>1, <3>1
  <2>2. CASE k = i BY <1>2, <1>4, <2>2
  <2>3. CASE k > i
    <3>1. k - 1 \in i..n /\ k - 1 \in 1..n BY <1>2, <2>3
    <3>2. tcbq'[k] = tcbq[k - 1] BY <1>2, <1>4, <2>3
    <3>3. tcbq[k - 1] \in Int /\ tcbq[k - 1] > (i - 1) + ((k - 1) - i)
          BY <1>2, <1>5, <3>1
    <3> QED BY <1>2, <2>3, <3>1, <3>2, <3>3
  <2> QED BY <1>2, <2>1, <2>2, <2>3
<1>8. ASSUME NEW j \in 1..(n + 1), NEW k \in 1..(n + 1), j <= k
      PROVE  tcbq'[k] - tcbq'[j] >= k - j
  <2>1. tcbq'[j] \in Int /\ tcbq'[k] \in Int BY <1>7
  <2>2. CASE j <= i BY <1>2, <1>7, <1>8, <2>1, <2>2
  <2>3. CASE j > i
    <3>1. /\ j - 1 \in i..n /\ tcbq'[j] = tcbq[j - 1]
          /\ k - 1 \in i..n /\ tcbq'[k] = tcbq[k - 1]
          BY <1>2, <1>7, <1>8, <2>3
    <3>2. j - 1 \in 1..n /\ k - 1 \in 1..n /\ j - 1 <= k - 1
          BY <1>2, <1>8, <3>1
    <3>3. tcbq[k - 1] - tcbq[j - 1] >= (k - 1) - (j - 1)
          BY <1>6, <3>2
    <3> QED BY <1>2, <2>1, <3>1, <3>3
  <2> QED BY <1>2, <2>2, <2>3
<1>9. ASSUME NEW j \in 1..(n + 1) PROVE tcbq'[j] >= j - 1
      BY <1>2, <1>7
<1> QED BY <1>4, <1>8, <1>9 DEF TidsSorted

\* The ids of the control blocks are always in increasing order.
THEOREM TidsStaySorted == Spec => []TidsSorted
<1>1. Init => TidsSorted
  <2> SUFFICES ASSUME Init PROVE TidsSorted OBVIOUS
  <2>1. Len(tcbq) = 1 /\ tcbq[1] = 0 BY DEF Init
  <2> QED BY <2>1 DEF TidsSorted
<1>2. TypeOK /\ TidsSorted /\ [Next]_vars => TidsSorted'
  <2> SUFFICES ASSUME TypeOK, TidsSorted, [Next]_vars PROVE TidsSorted'
        OBVIOUS
  <2>1. CASE Create BY <2>1, CreateSorted
  <2>2. CASE UNCHANGED tcbq BY <2>2 DEF TidsSorted
  <2>3. CASE \E t \in Live : Free(t) BY <2>3, FreeSorted
  <2> QED BY <2>1, <2>2, <2>3, ListSteps
<1> QED BY <1>1, <1>2, TypeCorrect, PTL DEF Spec

\* A freed tcb is one that was there.
LEMMA FreeLive ==
    ASSUME TypeOK, NEW t \in Live, Free(t)
    PROVE  Live' \subseteq Live
<1> DEFINE p == Pos(tcbq, t)
<1>1. p \in 1..Len(tcbq) /\ tcbq' = RemoveAt(tcbq, p)
      BY PosLemma DEF TypeOK, Live, Free
<1> HIDE DEF p
<1>2. /\ tcbq' \in Seq(Tid) /\ Len(tcbq') = Len(tcbq) - 1
      /\ \A k \in 1..(Len(tcbq) - 1) :
            tcbq'[k] = IF k < p THEN tcbq[k] ELSE tcbq[k + 1]
      BY <1>1, RemoveAtProperties DEF TypeOK
<1>3. /\ Len(tcbq) \in Nat /\ DOMAIN tcbq = 1..Len(tcbq)
      /\ DOMAIN tcbq' = 1..(Len(tcbq) - 1)
      BY <1>2, LenProperties DEF TypeOK
<1>4. ASSUME NEW k \in 1..(Len(tcbq) - 1) PROVE tcbq'[k] \in Live
  <2>1. k \in 1..Len(tcbq) /\ k + 1 \in 1..Len(tcbq) BY <1>3
  <2>2. tcbq[k] \in Live /\ tcbq[k + 1] \in Live
        BY <1>3, <2>1 DEF Live, ToSet
  <2> QED BY <1>2, <2>2
<1> QED BY <1>3, <1>4 DEF Live, ToSet

\* wut_create hands out the lowest free id: LowestFreeTid of the runs.
THEOREM LowestTidFirst == Spec => LowestFreeTid
<1> DEFINE A == \A t \in Live' \ Live : 0..(t - 1) \subseteq Live
<1>1. TypeOK /\ TidsSorted /\ [Next]_vars => [A]_vars
  <2> SUFFICES ASSUME TypeOK, TidsSorted, [Next]_vars PROVE A
        OBVIOUS
  <2>1. CASE Create
    <3>1. PICK i \in 1..(Len(tcbq) + 1) :
            ScanStops(i) /\ tcbq' = InsertAt(tcbq, i, i - 1)
          BY <2>1 DEF Create
    <3>2. i - 1 \in Tid
          BY <2>1, LenProperties, MaxTidAssumption DEF Create, Tid, TypeOK
    <3>3. Live' = Live \cup {i - 1}
          BY <3>1, <3>2, InsertLemma DEF TypeOK, Live
    <3>4. 0..(i - 2) \subseteq Live BY <3>1, ScanLemma
    <3>5. (i - 1) - 1 = i - 2 BY <3>1, LenProperties DEF TypeOK
    <3> QED BY <3>3, <3>4, <3>5
  <2>2. CASE UNCHANGED tcbq BY <2>2 DEF Live
  <2>3. CASE \E t \in Live : Free(t) BY <2>3, FreeLive
  <2> QED BY <2>1, <2>2, <2>3, ListSteps
<1> QED BY <1>1, TypeCorrect, TidsStaySorted, PTL DEF Spec, LowestFreeTid
-----------------------------------------------------------------------------
(* Codes that have nothing left to run never run, whatever the client      *)
(* does.  After a lone wut_yield codes and control blocks come apart, and  *)
(* wut_exit without a link marks a thread that has not finished.  The      *)
(* invariant AnyInv therefore speaks of the threads that can still be      *)
(* resumed only, and of the codes their contexts resume.                   *)

\* The queue q holds threads that are not marked in ex, each once.
QueueOK(q, ex) ==
    /\ q \in Seq(Tid) /\ IsInjective(q)
    /\ \A t \in ToSet(q) : t \in Live /\ ~ex[t]

\* With the links waiting = w and waiter = r: the links of the threads that are
\* not marked agree, and nobody in the queue is to be woken.
LinksOK(q, ex, w, r) ==
    \A t \in Live : ~ex[t] =>
        /\ w[t] # None => w[t] \in Live /\ r[w[t]] = t
        /\ r[t] # None =>
               /\ r[t] \in Live /\ ~ex[r[t]]
               /\ r[t] \notin ToSet(q) /\ r[t] # t
               /\ w[r[t]] = t

\* The threads that queue q or the links w can bring back to the processor.
Resumable(q, ex, w) == {t \in Live : ~ex[t] /\ (t \in ToSet(q) \/ w[t] # None)}

\* Those of them that are not the running one.
Parked == {t \in Live : ~exited[t] /\ IF t \in Queued THEN t # Me
                                      ELSE waiting[t] # None}

\* With the contexts c, the calls in progress p and the history o: the threads
\* of S resume different codes, none of them over, each in the wut_join that
\* its thread waits in.
CodesOK(S, c, p, w, o) ==
    /\ \A t \in S : c[t] \in Code /\ c[t] \notin o /\ p[c[t]] = w[t]
    /\ \A t, u \in S : c[t] = c[u] => t = u

\* The running code is not over, and saved in no context that can be resumed;
\* inside wut_join it is the code of the head of the FIFO.
RunningOK ==
    /\ cpu \notin over
    /\ \A t \in Parked : ctx[t] # cpu
    /\ fifo # <<>> => pend[cpu] = waiting[Me]
    /\ fifo = <<>> => pend[cpu] = None

AnyInv ==
    /\ TypeOK
    /\ TidsSorted
    /\ proc = "running" =>
        /\ QueueOK(fifo, exited)
        /\ LinksOK(fifo, exited, waiting, waiter)
        /\ CodesOK(Parked, ctx, pend, waiting, over)
        /\ RunningOK

LEMMA NoneNotTid == None \notin Tid /\ None \notin Code /\ ProcessStack \notin Tid
BY MaxTidAssumption DEF None, Tid, Code, ProcessStack

\* The list of control blocks has no duplicates, so freeing one removes it.
LEMMA FreeSet ==
    ASSUME TypeOK, TidsSorted, NEW t \in Live, Free(t)
    PROVE  Live' = Live \ {t}
<1>1. ASSUME NEW j \in 1..Len(tcbq), NEW k \in 1..Len(tcbq), tcbq[j] = tcbq[k]
      PROVE  j = k
  <2>1. /\ j <= k => tcbq[k] - tcbq[j] >= k - j
        /\ k <= j => tcbq[j] - tcbq[k] >= j - k
        BY DEF TidsSorted
  <2>2. tcbq[j] \in Int /\ tcbq[k] \in Int
        BY LenProperties, MaxTidAssumption DEF TypeOK, Tid
  <2> QED BY <1>1, <2>1, <2>2, LenProperties DEF TypeOK
<1>2. IsInjective(tcbq)
      BY <1>1, LenProperties DEF TypeOK, IsInjective
<1>3. Pos(tcbq, t) \in 1..Len(tcbq) /\ tcbq[Pos(tcbq, t)] = t
      BY PosLemma DEF TypeOK, Live
<1> QED BY <1>2, <1>3, RemoveLemma DEF TypeOK, Free, Live

\* Waking a waiter that is not in the queue adds it.
LEMMA WakeQueue ==
    ASSUME TypeOK, NEW q \in Seq(Tid), IsInjective(q), NEW t,
           waiter[t] \in Live => waiter[t] \notin ToSet(q)
    PROVE  /\ WakeWaiter(q, t) \in Seq(Tid)
           /\ IsInjective(WakeWaiter(q, t))
           /\ ToSet(WakeWaiter(q, t)) =
                ToSet(q) \cup (IF waiter[t] \in Live THEN {waiter[t]} ELSE {})
<1>1. CASE waiter[t] \in Live
  <2>1. WakeWaiter(q, t) = Append(q, waiter[t]) BY <1>1 DEF WakeWaiter
  <2>2. waiter[t] \in Tid BY <1>1, LiveType
  <2> QED BY <1>1, <2>1, <2>2, AppendLemma
<1>2. CASE waiter[t] \notin Live
  <2>1. WakeWaiter(q, t) = q BY <1>2 DEF WakeWaiter
  <2> QED BY <1>2, <2>1
<1> QED BY <1>1, <1>2

\* The head of a queue is marked, taken out, and its waiter woken.
LEMMA EndQueue ==
    ASSUME TypeOK, NEW q, q # <<>>, NEW ex \in [Tid -> BOOLEAN],
           QueueOK(q, ex), LinksOK(q, ex, waiting, waiter)
    PROVE  LET r == WakeWaiter(Tail(q), Head(q))
               x == [ex EXCEPT ![Head(q)] = TRUE]
           IN  /\ QueueOK(r, x) /\ LinksOK(r, x, waiting, waiter)
               /\ \A t \in ToSet(r) : t \in ToSet(q) \/ waiting[t] # None
<1> DEFINE h == Head(q)
           r == WakeWaiter(Tail(q), h)
           x == [ex EXCEPT ![h] = TRUE]
           W == IF waiter[h] \in Live THEN {waiter[h]} ELSE {}
<1>1. q \in Seq(Tid) /\ IsInjective(q) BY DEF QueueOK
<1>2. /\ Tail(q) \in Seq(Tid) /\ IsInjective(Tail(q))
      /\ h \in ToSet(q) /\ h \in Tid
      /\ ToSet(Tail(q)) = ToSet(q) \ {h}
      BY <1>1, TailLemma
<1>3. h \in Live /\ ~ex[h] BY <1>2 DEF QueueOK
<1>4. None \notin Live BY LiveType, NoneNotTid
<1>5. \A w \in W : /\ w = waiter[h] /\ w \in Live /\ w \in Tid /\ ~ex[w]
                   /\ w \notin ToSet(q) /\ w # h /\ waiting[w] = h
      BY <1>3, <1>4, LiveType DEF LinksOK
<1> HIDE DEF h
<1>6. r \in Seq(Tid) /\ IsInjective(r) /\ ToSet(r) = (ToSet(q) \ {h}) \cup W
  <2> DEFINE tl == Tail(q)
  <2>1. \A w \in W : w \notin ToSet(tl) BY <1>2, <1>5
  <2>2. tl \in Seq(Tid) /\ IsInjective(tl) /\ ToSet(tl) = ToSet(q) \ {h} BY <1>2
  <2> HIDE DEF tl
  <2>3. r = WakeWaiter(tl, h) BY DEF tl
  <2> HIDE DEF r
  <2> QED BY <2>1, <2>2, <2>3, WakeQueue
<1> HIDE DEF r, W
<1>7. /\ \A t \in Tid \ {h} : x[t] = ex[t]
      /\ x[h] = TRUE
      BY <1>2
<1> HIDE DEF x
<1>8. QueueOK(r, x)
  <2>1. ASSUME NEW t \in ToSet(r) PROVE t \in Live /\ ~x[t]
    <3>1. t \in Live /\ ~ex[t] /\ t # h BY <1>5, <1>6, <2>1 DEF QueueOK
    <3> QED BY <1>7, <3>1, LiveType
  <2> QED BY <1>6, <2>1 DEF QueueOK
<1>9. LinksOK(r, x, waiting, waiter)
  <2> SUFFICES ASSUME NEW t \in Live, ~x[t]
               PROVE  /\ waiting[t] # None =>
                            waiting[t] \in Live /\ waiter[waiting[t]] = t
                      /\ waiter[t] # None =>
                            /\ waiter[t] \in Live /\ ~x[waiter[t]]
                            /\ waiter[t] \notin ToSet(r) /\ waiter[t] # t
                            /\ waiting[waiter[t]] = t
        BY DEF LinksOK
  <2>1. t # h /\ ~ex[t] BY <1>7, LiveType
  <2>2. waiting[t] # None => waiting[t] \in Live /\ waiter[waiting[t]] = t
        BY <2>1 DEF LinksOK
  <2>3. ASSUME waiter[t] # None
        PROVE  /\ waiter[t] \in Live /\ ~x[waiter[t]]
               /\ waiter[t] \notin ToSet(r) /\ waiter[t] # t
               /\ waiting[waiter[t]] = t
    <3>1. /\ waiter[t] \in Live /\ ~ex[waiter[t]]
          /\ waiter[t] \notin ToSet(q) /\ waiter[t] # t
          /\ waiting[waiter[t]] = t
          BY <2>1, <2>3 DEF LinksOK
    <3>2. waiter[t] # h BY <1>2, <3>1
    <3>3. waiter[t] \notin W BY <1>5, <2>1, <3>1
    <3> QED BY <1>6, <1>7, <3>1, <3>2, <3>3, LiveType
  <2> QED BY <2>2, <2>3
<1>10. \A t \in ToSet(r) : t \in ToSet(q) \/ waiting[t] # None
  <2>1. h # None BY <1>2, NoneNotTid
  <2> QED BY <1>5, <1>6, <2>1
<1> QED BY <1>8, <1>9, <1>10 DEF h, r, x

\* A switch to the head of the queue q, in a state with the marks ex, the links
\* w and r, the contexts c, the calls p and the history o.
LEMMA AnySwitch ==
    ASSUME TypeOK', TidsSorted', Live' = Live,
           NEW q, q # <<>>, NEW ex, NEW w, NEW r, NEW c, NEW p, NEW o,
           exited' = ex, waiting' = w, waiter' = r, ctx' = c, pend' = p, over' = o,
           QueueOK(q, ex), LinksOK(q, ex, w, r),
           CodesOK(Resumable(q, ex, w), c, p, w, o), SwitchTo(q, c)
    PROVE  AnyInv'
<1> DEFINE h == Head(q)
<1> SUFFICES ASSUME proc' = "running"
             PROVE  /\ QueueOK(fifo, exited)'
                    /\ LinksOK(fifo, exited, waiting, waiter)'
                    /\ CodesOK(Parked, ctx, pend, waiting, over)'
                    /\ RunningOK'
      BY DEF AnyInv
<1>1. fifo' = q /\ cpu' = c[h] BY DEF SwitchTo, Resume
<1>2. Queued' = ToSet(q) /\ Me' = h BY <1>1 DEF Queued, Me
<1>3. h \in ToSet(q) /\ h \in Resumable(q, ex, w)
  <2>1. h \in ToSet(q) BY TailLemma DEF QueueOK
  <2> QED BY <2>1 DEF QueueOK, Resumable
<1> HIDE DEF h
<1>4. Parked' \subseteq Resumable(q, ex, w) \ {h}
      BY <1>2, <1>3 DEF Parked, Resumable
<1>5. QueueOK(fifo, exited)' BY <1>1 DEF QueueOK
<1>6. LinksOK(fifo, exited, waiting, waiter)' BY <1>1 DEF LinksOK
<1>7. CodesOK(Parked, ctx, pend, waiting, over)' BY <1>4 DEF CodesOK
<1>8. \A t \in Parked' : c[t] # c[h] BY <1>3, <1>4 DEF CodesOK
<1>9. c[h] \notin o /\ p[c[h]] = w[h] BY <1>3 DEF CodesOK
<1>10. RunningOK' BY <1>1, <1>2, <1>8, <1>9 DEF RunningOK
<1> QED BY <1>5, <1>6, <1>7, <1>10

\* What AnyInv says when the client's code is executing and the FIFO is not
\* empty.
LEMMA AnyActive ==
    ASSUME AnyInv, proc = "running", fifo # <<>>
    PROVE  /\ Me \in Tid /\ Me \in Queued /\ Me \in Live /\ ~exited[Me]
           /\ Me \notin Parked /\ cpu \in Code
           /\ pend[cpu] = waiting[Me]
           /\ Tail(fifo) \in Seq(Tid) /\ IsInjective(Tail(fifo))
           /\ ToSet(Tail(fifo)) = Queued \ {Me}
<1>1. Me \in Tid /\ Me \in Queued BY MeType DEF AnyInv
<1>2. Me \in Live /\ ~exited[Me] BY <1>1 DEF AnyInv, QueueOK, Queued
<1>3. Me \notin Parked BY <1>1 DEF Parked
<1>4. pend[cpu] = waiting[Me] BY DEF AnyInv, RunningOK
<1>5. /\ Tail(fifo) \in Seq(Tid) /\ IsInjective(Tail(fifo))
      /\ Queued = ToSet(Tail(fifo)) \cup {Me} /\ Me \notin ToSet(Tail(fifo))
      BY TailLemma DEF AnyInv, QueueOK, Queued, Me
<1>6. cpu \in Code BY DEF AnyInv, TypeOK
<1> QED BY <1>1, <1>2, <1>3, <1>4, <1>5, <1>6

\* The running code ends, by wut_exit or by returning, and leaves the queue r
\* and the marks x.
LEMMA AnyEnd ==
    ASSUME AnyInv, TypeOK', Active, fifo # <<>>,
           NEW r, NEW x \in [Tid -> BOOLEAN],
           QueueOK(r, x), LinksOK(r, x, waiting, waiter), x[Me],
           \A t \in Tid : exited[t] => x[t],
           \A t \in ToSet(r) : t \in Queued \/ waiting[t] # None,
           exited' = x, over' = over \cup {cpu},
           UNCHANGED <<tcbq, waiter, waiting, ctx, pend>>,
           IF r # <<>> THEN SwitchTo(r, ctx)
           ELSE proc' # "running" /\ fifo' = r
    PROVE  AnyInv'
<1>1. Live' = Live /\ Live \subseteq Tid BY LiveType DEF Live, AnyInv
<1>2. TidsSorted' BY DEF AnyInv, TidsSorted
<1>3. CASE r # <<>>
  <2>1. proc = "running" BY DEF Active
  <2>2. CodesOK(Parked, ctx, pend, waiting, over) /\ \A t \in Parked : ctx[t] # cpu
        BY <2>1 DEF AnyInv, RunningOK
  <2>3. Resumable(r, x, waiting) \subseteq Parked
    <3>1. ASSUME NEW t \in Resumable(r, x, waiting) PROVE t \in Parked
      <4>1. t \in Live /\ t \in Tid /\ ~exited[t] /\ t # Me
            BY <1>1 DEF Resumable
      <4>2. t \in Queued \/ waiting[t] # None BY DEF Resumable
      <4> QED BY <4>1, <4>2 DEF Parked
    <3> QED BY <3>1
  <2>4. CodesOK(Resumable(r, x, waiting), ctx, pend, waiting, over \cup {cpu})
        BY <2>2, <2>3 DEF CodesOK
  <2>5. SwitchTo(r, ctx) BY <1>3
  <2> QED BY <1>1, <1>2, <1>3, <2>4, <2>5, AnySwitch
<1>4. CASE r = <<>> BY <1>2, <1>4 DEF AnyInv
<1> QED BY <1>3, <1>4

LEMMA AnyReturn ==
    ASSUME AnyInv, TypeOK', Return
    PROVE  AnyInv'
<1> DEFINE r == WakeWaiter(Tail(fifo), Head(fifo))
           x == [exited EXCEPT ![Head(fifo)] = TRUE]
<1>1. Active /\ fifo # <<>> /\ ExitCleanup(fifo, exited) BY DEF Return
<1>2. proc = "running" BY <1>1 DEF Active
<1>3. Head(fifo) = Me /\ Me \in Tid BY <1>1, <1>2, AnyActive DEF Me
<1>4. exited \in [Tid -> BOOLEAN] BY DEF AnyInv, TypeOK
<1>5. /\ QueueOK(r, x) /\ LinksOK(r, x, waiting, waiter)
      /\ \A t \in ToSet(r) : t \in Queued \/ waiting[t] # None
      BY <1>1, <1>2, <1>4, EndQueue DEF AnyInv, Queued
<1>6. /\ x \in [Tid -> BOOLEAN] /\ x[Me] /\ \A t \in Tid : exited[t] => x[t]
      BY <1>3, <1>4
<1>7. /\ exited' = x /\ over' = over \cup {cpu}
      /\ UNCHANGED <<tcbq, waiter, waiting, ctx, pend>>
      /\ IF r # <<>> THEN SwitchTo(r, ctx)
         ELSE proc' # "running" /\ fifo' = r
      BY <1>1 DEF ExitCleanup, Finished
<1> HIDE DEF r, x
<1> QED BY <1>1, <1>5, <1>6, <1>7, AnyEnd

\* What wut_exit leaves in the FIFO.
LEMMA ExitQueue ==
    ASSUME AnyInv, proc = "running", fifo # <<>>
    PROVE  LET x == [exited EXCEPT ![Me] = TRUE]
           IN  /\ QueueOK(AfterExit, x) /\ LinksOK(AfterExit, x, waiting, waiter)
               /\ \A t \in ToSet(AfterExit) : t \in Queued \/ waiting[t] # None
               /\ x \in [Tid -> BOOLEAN] /\ x[Me]
               /\ \A t \in Tid : exited[t] => x[t]
<1>1. exited \in [Tid -> BOOLEAN] /\ Me \in Tid BY AnyActive DEF AnyInv, TypeOK
<1> QED BY <1>1, EndQueue DEF AnyInv, AfterExit, Me, Queued

LEMMA AnyExit ==
    ASSUME AnyInv, TypeOK', NEW arg \in ExitArgs, Exit(arg)
    PROVE  AnyInv'
<1> DEFINE x == [exited EXCEPT ![Me] = TRUE]
<1>1. Active /\ fifo # <<>> /\ AfterExit # <<>> /\ proc = "running"
      BY DEF Exit, Active
<1>2. /\ QueueOK(AfterExit, x) /\ LinksOK(AfterExit, x, waiting, waiter)
      /\ \A t \in ToSet(AfterExit) : t \in Queued \/ waiting[t] # None
      /\ x \in [Tid -> BOOLEAN] /\ x[Me] /\ \A t \in Tid : exited[t] => x[t]
      BY <1>1, ExitQueue
<1>3. /\ exited' = x /\ over' = over \cup {cpu}
      /\ UNCHANGED <<tcbq, waiter, waiting, ctx, pend>>
      /\ SwitchTo(AfterExit, ctx)
      BY DEF Exit
<1> HIDE DEF x
<1> QED BY <1>1, <1>2, <1>3, AnyEnd

\* The exit that removes two threads: the next one is marked in its stead.
LEMMA AnyExitUnlinked ==
    ASSUME AnyInv, TypeOK', NEW arg \in ExitArgs, ExitUnlinked(arg)
    PROVE  AnyInv'
<1> DEFINE x == [exited EXCEPT ![Me] = TRUE]
           r == WakeWaiter(Tail(AfterExit), Head(AfterExit))
           y == [x EXCEPT ![Head(AfterExit)] = TRUE]
<1>1. /\ Active /\ fifo # <<>> /\ AfterExit # <<>> /\ proc = "running"
      /\ ExitCleanup(AfterExit, x)
      BY DEF ExitUnlinked, Active
<1>2. /\ QueueOK(AfterExit, x) /\ LinksOK(AfterExit, x, waiting, waiter)
      /\ \A t \in ToSet(AfterExit) : t \in Queued \/ waiting[t] # None
      /\ x \in [Tid -> BOOLEAN] /\ x[Me] /\ \A t \in Tid : exited[t] => x[t]
      BY <1>1, ExitQueue
<1>3. /\ exited' = y /\ over' = over \cup {cpu}
      /\ UNCHANGED <<tcbq, waiter, waiting, ctx, pend>>
      /\ IF r # <<>> THEN SwitchTo(r, ctx)
         ELSE proc' # "running" /\ fifo' = r
      BY <1>1 DEF ExitCleanup, Finished
<1> HIDE DEF x
<1>4. /\ QueueOK(r, y) /\ LinksOK(r, y, waiting, waiter)
      /\ \A t \in ToSet(r) : t \in ToSet(AfterExit) \/ waiting[t] # None
      BY <1>1, <1>2, EndQueue DEF AnyInv
<1>5. /\ y \in [Tid -> BOOLEAN] /\ y[Me] /\ \A t \in Tid : exited[t] => y[t]
      BY <1>1, <1>2, AnyActive
<1>6. \A t \in ToSet(r) : t \in Queued \/ waiting[t] # None BY <1>2, <1>4
<1> HIDE DEF r, y
<1> QED BY <1>1, <1>3, <1>4, <1>5, <1>6, AnyEnd

\* The running thread is saved under the id that the library knows it by, with
\* the links w and the calls p that wut_yield and wut_join leave.
LEMMA SavedCodes ==
    ASSUME AnyInv, proc = "running", fifo # <<>>, NEW w, NEW p,
           \A t \in Parked : w[t] = waiting[t] /\ p[ctx[t]] = pend[ctx[t]],
           p[cpu] = w[Me]
    PROVE  CodesOK(Parked \cup {Me}, [ctx EXCEPT ![Me] = cpu], p, w, over)
<1> DEFINE c == [ctx EXCEPT ![Me] = cpu]
<1>1. /\ CodesOK(Parked, ctx, pend, waiting, over)
      /\ cpu \notin over /\ \A t \in Parked : ctx[t] # cpu
      BY DEF AnyInv, RunningOK
<1>2. Me \in Tid /\ Me \notin Parked /\ cpu \in Code BY AnyActive
<1>3. Parked \subseteq Tid BY LiveType DEF AnyInv, Parked
<1>4. c[Me] = cpu /\ \A t \in Parked : c[t] = ctx[t]
      BY <1>2, <1>3 DEF AnyInv, TypeOK
<1> HIDE DEF c
<1>5. \A t \in Parked \cup {Me} : c[t] \in Code /\ c[t] \notin over /\ p[c[t]] = w[t]
      BY <1>1, <1>2, <1>4 DEF CodesOK
<1>6. \A t, u \in Parked \cup {Me} : c[t] = c[u] => t = u
      BY <1>1, <1>4 DEF CodesOK
<1> QED BY <1>5, <1>6 DEF CodesOK, c

LEMMA AnyYield ==
    ASSUME AnyInv, TypeOK', Yield
    PROVE  AnyInv'
<1> DEFINE q == Append(Tail(fifo), Head(fifo))
<1>1. Active /\ Len(fifo) > 1 /\ fifo # <<>> /\ proc = "running"
      BY EmptySeq DEF Yield, Active
<1>2. /\ fifo \in Seq(Tid) /\ IsInjective(fifo)
      /\ \A t \in ToSet(fifo) : t \in Live /\ ~exited[t]
      BY <1>1 DEF AnyInv, QueueOK
<1>3. q \in Seq(Tid) /\ q # <<>> /\ IsInjective(q) /\ ToSet(q) = Queued
      BY <1>1, <1>2, RotateLemma DEF Queued
<1>4. SwitchTo(q, ctx') /\ ctx' = [ctx EXCEPT ![Me] = cpu]
      BY DEF Yield, Rotated, Me
<1> HIDE DEF q
<1>5. UNCHANGED <<tcbq, waiter, waiting, exited, pend, over>> /\ Live' = Live
      BY DEF Yield, Live
<1>6. TidsSorted' BY <1>5 DEF AnyInv, TidsSorted
<1>7. QueueOK(q, exited) BY <1>2, <1>3 DEF QueueOK, Queued
<1>8. LinksOK(q, exited, waiting, waiter)
      BY <1>1, <1>3 DEF AnyInv, LinksOK, Queued
<1>9. CodesOK(Parked \cup {Me}, ctx', pend, waiting, over)
  <2>1. pend[cpu] = waiting[Me] BY <1>1, AnyActive
  <2> QED BY <1>1, <1>4, <2>1, SavedCodes
<1>10. Resumable(q, exited, waiting) \subseteq Parked \cup {Me}
       BY <1>3 DEF Resumable, Parked
<1>11. CodesOK(Resumable(q, exited, waiting), ctx', pend, waiting, over)
       BY <1>9, <1>10 DEF CodesOK
<1> QED BY <1>3, <1>4, <1>5, <1>6, <1>7, <1>8, <1>11, AnySwitch

LEMMA AnyJoinBlock ==
    ASSUME AnyInv, TypeOK', NEW id \in Tid, JoinBlock(id)
    PROVE  AnyInv'
<1> DEFINE q == Tail(fifo)
<1>1. /\ Active /\ proc = "running" /\ fifo # <<>> /\ id \in Live /\ id # Me
      /\ waiter[id] = None /\ ~exited[id] /\ id \in Queued /\ pend[cpu] = None
      BY DEF JoinBlock, JoinAccepted, Joinable, Unjoined, NotBlocked, Active
<1>2. /\ Me \in Tid /\ Me \in Queued /\ Me \in Live /\ ~exited[Me]
      /\ cpu \in Code /\ waiting[Me] = None
      /\ q \in Seq(Tid) /\ IsInjective(q) /\ ToSet(q) = Queued \ {Me}
      BY <1>1, AnyActive
<1>3. Live \subseteq Tid /\ None \notin Live BY LiveType, NoneNotTid DEF AnyInv
<1>4. /\ ctx' = [ctx EXCEPT ![Me] = cpu]
      /\ SwitchTo(q, ctx')
      /\ UNCHANGED <<tcbq, exited, over>> /\ Live' = Live
      BY DEF JoinBlock, Live
<1>5. q # <<>> BY <1>1, <1>2 DEF ToSet
<1> HIDE DEF q
<1>6. TidsSorted' BY <1>4 DEF AnyInv, TidsSorted
<1>7. QueueOK(q, exited) BY <1>1, <1>2 DEF AnyInv, QueueOK, Queued
<1>8. /\ \A t \in Tid \ {Me} : waiting'[t] = waiting[t]
      /\ \A c \in Code \ {cpu} : pend'[c] = pend[c]
      /\ waiting'[Me] = id /\ pend'[cpu] = id
      /\ \A t \in Tid \ {id} : waiter'[t] = waiter[t]
      /\ waiter'[id] = Me
      BY <1>2 DEF JoinBlock, AnyInv, TypeOK
<1>9. LinksOK(q, exited, waiting', waiter')
  <2> SUFFICES ASSUME NEW t \in Live, ~exited[t]
               PROVE  /\ waiting'[t] # None =>
                            waiting'[t] \in Live /\ waiter'[waiting'[t]] = t
                      /\ waiter'[t] # None =>
                            /\ waiter'[t] \in Live /\ ~exited[waiter'[t]]
                            /\ waiter'[t] \notin ToSet(q) /\ waiter'[t] # t
                            /\ waiting'[waiter'[t]] = t
        BY DEF LinksOK
  <2>1. /\ waiting[t] # None => waiting[t] \in Live /\ waiter[waiting[t]] = t
        /\ waiter[t] # None =>
               /\ waiter[t] \in Live /\ ~exited[waiter[t]]
               /\ waiter[t] \notin Queued /\ waiter[t] # t
               /\ waiting[waiter[t]] = t
        BY <1>1 DEF AnyInv, LinksOK, Queued
  <2>2. t \in Tid BY <1>3
  <2>3. ASSUME waiting'[t] # None
        PROVE  waiting'[t] \in Live /\ waiter'[waiting'[t]] = t
    <3>1. CASE t = Me BY <1>1, <1>8, <3>1
    <3>2. CASE t # Me
      <4>1. waiting'[t] = waiting[t] BY <1>8, <2>2, <3>2
      <4>2. waiting[t] \in Live /\ waiter[waiting[t]] = t BY <2>1, <2>3, <4>1
      <4>3. waiting[t] # id BY <1>1, <1>3, <4>2
      <4> QED BY <1>3, <1>8, <4>1, <4>2, <4>3
    <3> QED BY <3>1, <3>2
  <2>4. ASSUME waiter'[t] # None
        PROVE  /\ waiter'[t] \in Live /\ ~exited[waiter'[t]]
               /\ waiter'[t] \notin ToSet(q) /\ waiter'[t] # t
               /\ waiting'[waiter'[t]] = t
    <3>1. CASE t = id BY <1>1, <1>2, <1>8, <3>1
    <3>2. CASE t # id
      <4>1. waiter'[t] = waiter[t] BY <1>8, <2>2, <3>2
      <4>2. waiter[t] # Me BY <1>2, <2>1, <2>4, <4>1
      <4> QED BY <1>2, <1>3, <1>8, <2>1, <2>4, <4>1, <4>2
    <3> QED BY <3>1, <3>2
  <2> QED BY <2>3, <2>4
<1>10. CodesOK(Parked \cup {Me}, ctx', pend', waiting', over)
  <2>1. CodesOK(Parked, ctx, pend, waiting, over) /\ \A t \in Parked : ctx[t] # cpu
        BY <1>1 DEF AnyInv, RunningOK
  <2>2. Parked \subseteq Tid \ {Me} BY <1>1, <1>3, AnyActive DEF Parked
  <2>3. \A t \in Parked : waiting'[t] = waiting[t] /\ pend'[ctx[t]] = pend[ctx[t]]
        BY <1>8, <2>1, <2>2 DEF CodesOK
  <2> QED BY <1>1, <1>4, <1>8, <2>3, SavedCodes
<1>11. Resumable(q, exited, waiting') \subseteq Parked \cup {Me}
       BY <1>2, <1>3, <1>8 DEF Resumable, Parked
<1>12. CodesOK(Resumable(q, exited, waiting'), ctx', pend', waiting', over)
       BY <1>10, <1>11 DEF CodesOK
<1> QED BY <1>4, <1>5, <1>6, <1>7, <1>9, <1>12, AnySwitch

LEMMA AnyCreate ==
    ASSUME AnyInv, TypeOK', Create
    PROVE  AnyInv'
<1>1. PICK i \in 1..(Len(tcbq) + 1) :
        /\ ScanStops(i)
        /\ fifo' = Append(fifo, i - 1)
        /\ tcbq' = InsertAt(tcbq, i, i - 1)
        /\ waiter' = [waiter EXCEPT ![i - 1] = None]
        /\ waiting' = [waiting EXCEPT ![i - 1] = None]
        /\ exited' = [exited EXCEPT ![i - 1] = FALSE]
        /\ \E c \in NewCode(i - 1) :
             /\ ctx' = [ctx EXCEPT ![i - 1] = c]
             /\ pend' = [pend EXCEPT ![c] = None]
             /\ over' = over \ {c}
      BY DEF Create
<1> DEFINE new == i - 1
<1>2. new \in Tid /\ new \notin Live
  <2>1. new \in Tid
        BY LenProperties, MaxTidAssumption DEF Create, Tid, AnyInv, TypeOK
  <2> QED BY <1>1, <2>1, ScanLemma DEF AnyInv
<1>3. Live' = Live \cup {new} /\ Live \subseteq Tid
  <2>1. tcbq \in Seq(Tid) BY DEF AnyInv, TypeOK
  <2>2. Live' = Live \cup {new} BY <1>1, <1>2, <2>1, InsertLemma DEF Live
  <2> QED BY <2>2, LiveType DEF AnyInv
<1> HIDE DEF new
<1>4. PICK c \in Code \ InUse : /\ ctx' = [ctx EXCEPT ![new] = c]
                                /\ pend' = [pend EXCEPT ![c] = None]
                                /\ over' = over \ {c}
      BY <1>1 DEF NewCode, new
<1>5. c # cpu /\ \A t \in Tid : ctx[t] # c BY <1>4 DEF InUse
<1>6. Active /\ proc = "running" /\ pend[cpu] = None /\ UNCHANGED <<proc, cpu>>
      BY DEF Create, Active
<1>7. /\ QueueOK(fifo, exited) /\ LinksOK(fifo, exited, waiting, waiter)
      /\ CodesOK(Parked, ctx, pend, waiting, over) /\ RunningOK
      BY <1>6 DEF AnyInv
<1>8. /\ \A t \in Tid \ {new} : /\ waiter'[t] = waiter[t]
                                /\ waiting'[t] = waiting[t]
                                /\ exited'[t] = exited[t]
                                /\ ctx'[t] = ctx[t]
      /\ waiter'[new] = None /\ waiting'[new] = None
      /\ exited'[new] = FALSE /\ ctx'[new] = c
      /\ pend'[c] = None /\ \A d \in Code \ {c} : pend'[d] = pend[d]
      BY <1>1, <1>2, <1>4 DEF AnyInv, TypeOK, new
<1>9. /\ fifo \in Seq(Tid) /\ IsInjective(fifo) /\ new \notin ToSet(fifo)
      /\ \A t \in ToSet(fifo) : t \in Live /\ ~exited[t]
      BY <1>2, <1>7 DEF QueueOK
<1>10. /\ fifo' \in Seq(Tid) /\ IsInjective(fifo') /\ fifo' # <<>>
       /\ Queued' = Queued \cup {new}
       /\ Me' = IF fifo = <<>> THEN new ELSE Me
  <2>1. fifo' = Append(fifo, new) BY <1>1 DEF new
  <2> QED BY <1>2, <1>9, <2>1, AppendLemma DEF Me, Queued
<1>11. TidsSorted' BY CreateSorted DEF AnyInv
<1>12. QueueOK(fifo, exited)'
  <2>1. ASSUME NEW t \in Queued' PROVE t \in Live' /\ ~exited'[t]
        BY <1>2, <1>3, <1>8, <1>9, <1>10, <2>1 DEF Queued
  <2> QED BY <1>10, <2>1 DEF QueueOK, Queued
<1>13. LinksOK(fifo, exited, waiting, waiter)'
  <2> SUFFICES ASSUME NEW t \in Live', ~exited'[t]
               PROVE  /\ waiting'[t] # None =>
                            waiting'[t] \in Live' /\ waiter'[waiting'[t]] = t
                      /\ waiter'[t] # None =>
                            /\ waiter'[t] \in Live' /\ ~exited'[waiter'[t]]
                            /\ waiter'[t] \notin Queued' /\ waiter'[t] # t
                            /\ waiting'[waiter'[t]] = t
        BY DEF LinksOK, Queued
  <2>1. CASE t = new BY <1>8, <2>1
  <2>2. CASE t # new
    <3>1. t \in Live /\ t \in Tid /\ ~exited[t] BY <1>3, <1>8, <2>2
    <3>2. /\ waiting[t] # None => waiting[t] \in Live /\ waiter[waiting[t]] = t
          /\ waiter[t] # None =>
               /\ waiter[t] \in Live /\ ~exited[waiter[t]]
               /\ waiter[t] \notin Queued /\ waiter[t] # t
               /\ waiting[waiter[t]] = t
          BY <1>7, <3>1 DEF LinksOK, Queued
    <3> QED BY <1>2, <1>3, <1>8, <1>10, <2>2, <3>1, <3>2
  <2> QED BY <2>1, <2>2
<1>14. Parked' \subseteq Parked \cup {new} /\ (fifo = <<>> => new \notin Parked')
  <2>1. ASSUME NEW t \in Parked', t # new PROVE t \in Parked
    <3>1. t \in Live /\ t \in Tid /\ ~exited[t] /\ waiting'[t] = waiting[t]
          BY <1>3, <1>8, <2>1 DEF Parked
    <3>2. t \in Queued <=> t \in Queued' BY <1>10, <2>1
    <3>3. CASE t \in Queued
      <4>1. fifo # <<>> BY <3>3 DEF Queued, ToSet
      <4>2. t # Me BY <1>10, <2>1, <3>2, <3>3, <4>1 DEF Parked
      <4> QED BY <3>1, <3>3, <4>2 DEF Parked
    <3>4. CASE t \notin Queued BY <2>1, <3>1, <3>2, <3>4 DEF Parked
    <3> QED BY <3>3, <3>4
  <2>2. fifo = <<>> => new \notin Parked' BY <1>10 DEF Parked
  <2> QED BY <2>1, <2>2
<1>15. ASSUME NEW t \in Parked', t # new
       PROVE  /\ t \in Parked /\ t \in Tid /\ ctx'[t] = ctx[t] /\ ctx[t] \in Code
              /\ ctx[t] # c /\ ctx[t] \notin over' /\ ctx[t] # cpu
              /\ pend'[ctx[t]] = waiting'[t]
  <2>1. t \in Parked /\ t \in Tid BY <1>3, <1>14, <1>15 DEF Parked
  <2>2. ctx'[t] = ctx[t] /\ waiting'[t] = waiting[t] BY <1>8, <1>15, <2>1
  <2>3. ctx[t] # c BY <1>5, <2>1
  <2>4. ctx[t] \in Code /\ ctx[t] \notin over /\ pend[ctx[t]] = waiting[t]
        BY <1>7, <2>1 DEF CodesOK
  <2>5. ctx[t] # cpu BY <1>7, <2>1 DEF RunningOK
  <2> QED BY <1>4, <1>8, <2>1, <2>2, <2>3, <2>4, <2>5
<1>16. CodesOK(Parked, ctx, pend, waiting, over)'
  <2>1. \A t \in Parked' : /\ ctx'[t] \in Code /\ ctx'[t] \notin over'
                           /\ pend'[ctx'[t]] = waiting'[t]
        BY <1>4, <1>8, <1>15
  <2>2. ASSUME NEW t \in Parked', NEW u \in Parked', ctx'[t] = ctx'[u]
        PROVE  t = u
    <3>1. CASE t # new /\ u # new
      <4>1. t \in Parked /\ u \in Parked /\ ctx[t] = ctx[u]
            BY <1>15, <2>2, <3>1
      <4> QED BY <1>7, <4>1 DEF CodesOK
    <3>2. CASE t = new \/ u = new BY <1>8, <1>15, <2>2, <3>2
    <3> QED BY <3>1, <3>2
  <2> QED BY <2>1, <2>2 DEF CodesOK
<1>17. RunningOK'
  <2>1. cpu' \notin over' BY <1>4, <1>6, <1>7 DEF RunningOK
  <2>2. \A t \in Parked' : ctx'[t] # cpu' BY <1>5, <1>6, <1>8, <1>15
  <2>3. pend'[cpu'] = None BY <1>5, <1>6, <1>8 DEF AnyInv, TypeOK
  <2>4. waiting'[Me'] = None
    <3>1. CASE fifo = <<>> BY <1>8, <1>10, <3>1
    <3>2. CASE fifo # <<>>
      <4>1. Me \in Tid /\ Me \in Live /\ waiting[Me] = None
            BY <1>6, <3>2, AnyActive
      <4> QED BY <1>2, <1>8, <1>10, <3>2, <4>1
    <3> QED BY <3>1, <3>2
  <2> QED BY <1>10, <2>1, <2>2, <2>3, <2>4 DEF RunningOK
<1> QED BY <1>11, <1>12, <1>13, <1>16, <1>17 DEF AnyInv

LEMMA AnyCancel ==
    ASSUME AnyInv, TypeOK', NEW id \in Tid, Cancel(id)
    PROVE  AnyInv'
<1> DEFINE q == Without(id)
           W == IF waiter[id] \in Live THEN {waiter[id]} ELSE {}
<1>1. /\ Active /\ proc = "running" /\ fifo # <<>> /\ id # Me /\ id \in Live
      /\ ~exited[id]
      BY DEF Cancel, Cancellable, Active
<1>2. Me \in Tid /\ Me \in Queued /\ Me \in Live /\ cpu \in Code
      BY <1>1, AnyActive
<1>3. /\ QueueOK(fifo, exited) /\ LinksOK(fifo, exited, waiting, waiter)
      /\ CodesOK(Parked, ctx, pend, waiting, over) /\ RunningOK
      /\ fifo \in Seq(Tid) /\ IsInjective(fifo)
      /\ \A t \in Queued : t \in Live /\ ~exited[t]
      BY <1>1 DEF AnyInv, QueueOK, Queued
<1>4. Live \subseteq Tid /\ None \notin Live BY LiveType, NoneNotTid DEF AnyInv
<1>5. /\ q \in Seq(Tid) /\ IsInjective(q) /\ ToSet(q) = Queued \ {id}
  <2>1. CASE id \in Queued
    <3>1. Pos(fifo, id) \in 1..Len(fifo) /\ fifo[Pos(fifo, id)] = id
          BY <1>3, <2>1, PosLemma DEF Queued
    <3> QED BY <1>3, <2>1, <3>1, RemoveLemma DEF Queued, Without
  <2>2. CASE id \notin Queued BY <1>3, <2>2 DEF Queued, Without
  <2> QED BY <2>1, <2>2
<1>6. fifo' = WakeWaiter(q, id) BY DEF Cancel
<1>7. \A w \in W : /\ w = waiter[id] /\ w \in Live /\ ~exited[w]
                   /\ w \notin Queued /\ w # id /\ waiting[w] = id
      BY <1>1, <1>3, <1>4 DEF LinksOK, Queued
<1> HIDE DEF q
<1>8. /\ fifo' \in Seq(Tid) /\ IsInjective(fifo')
      /\ Queued' = (Queued \ {id}) \cup W
      BY <1>5, <1>6, <1>7, WakeQueue DEF AnyInv, Queued
<1> HIDE DEF W
<1>9. UNCHANGED <<proc, cpu, tcbq>> /\ Live' = Live BY DEF Cancel, Live
<1>10. /\ \A t \in Tid \ {id} : exited'[t] = exited[t] /\ ctx'[t] = ctx[t]
       /\ exited'[id] /\ over' = over \cup Lost(id)
       /\ \A c \in Code \ Lost(id) : pend'[c] = pend[c]
       /\ cpu \notin Lost(id) /\ \A t \in Tid \ {id} : ctx[t] \notin Lost(id)
       BY DEF Cancel, AnyInv, TypeOK, Lost
<1>11. waiting[id] # None => waiting[id] \in Live /\ waiter[waiting[id]] = id
       BY <1>1, <1>3 DEF LinksOK
<1>12. /\ \A t \in Tid \ {id} : waiting'[t] = waiting[t]
       /\ \A t \in Tid : waiter'[t] = IF t = waiting[id] THEN None ELSE waiter[t]
  <2>1. CASE waiting[id] \in Live
        BY <2>1 DEF Cancel, WaitsOnLive, AnyInv, TypeOK
  <2>2. CASE waiting[id] \notin Live
    <3>1. waiting' = waiting /\ waiter' = waiter
          BY <2>2 DEF Cancel, WaitsOnLive
    <3> QED BY <1>11, <2>2, <3>1, NoneNotTid
  <2> QED BY <2>1, <2>2
<1>13. TidsSorted' BY <1>9 DEF AnyInv, TidsSorted
<1>14. fifo' # <<>> /\ Me' = Me
  <2>1. Me \in Queued' BY <1>1, <1>2, <1>8
  <2>2. fifo' # <<>> BY <2>1 DEF Queued, ToSet
  <2>3. q # <<>> /\ Head(q) = Me
    <3>1. CASE id \in Queued
      <4>1. Pos(fifo, id) \in 1..Len(fifo) /\ fifo[Pos(fifo, id)] = id
            BY <1>3, <3>1, PosLemma DEF Queued
      <4> QED BY <1>1, <1>3, <3>1, <4>1, RemoveLemma
              DEF Queued, Without, Me, q
    <3>2. CASE id \notin Queued BY <1>1, <3>2 DEF Without, Me, q
    <3> QED BY <3>1, <3>2
  <2>4. Head(fifo') = Me
    <3>1. CASE waiter[id] \in Live
      <4>1. fifo' = Append(q, waiter[id]) BY <1>6, <3>1 DEF WakeWaiter
      <4>2. waiter[id] \in Tid BY <1>4, <3>1
      <4> QED BY <1>5, <2>3, <4>1, <4>2, AppendLemma
    <3>2. CASE waiter[id] \notin Live BY <1>6, <2>3, <3>2 DEF WakeWaiter
    <3> QED BY <3>1, <3>2
  <2> QED BY <2>2, <2>4 DEF Me
<1>15. QueueOK(fifo, exited)'
  <2>1. ASSUME NEW t \in Queued' PROVE t \in Live' /\ ~exited'[t]
    <3>1. t \in Live /\ ~exited[t] /\ t # id BY <1>3, <1>7, <1>8, <2>1
    <3> QED BY <1>4, <1>9, <1>10, <3>1
  <2> QED BY <1>8, <2>1 DEF QueueOK, Queued
<1>16. LinksOK(fifo, exited, waiting, waiter)'
  <2> SUFFICES ASSUME NEW t \in Live, ~exited'[t]
               PROVE  /\ waiting'[t] # None =>
                            waiting'[t] \in Live /\ waiter'[waiting'[t]] = t
                      /\ waiter'[t] # None =>
                            /\ waiter'[t] \in Live /\ ~exited'[waiter'[t]]
                            /\ waiter'[t] \notin Queued' /\ waiter'[t] # t
                            /\ waiting'[waiter'[t]] = t
        BY <1>9 DEF LinksOK, Queued
  <2>1. t \in Tid /\ t # id /\ ~exited[t] BY <1>4, <1>10
  <2>2. /\ waiting[t] # None => waiting[t] \in Live /\ waiter[waiting[t]] = t
        /\ waiter[t] # None =>
               /\ waiter[t] \in Live /\ ~exited[waiter[t]]
               /\ waiter[t] \notin Queued /\ waiter[t] # t
               /\ waiting[waiter[t]] = t
        BY <1>3, <2>1 DEF LinksOK, Queued
  <2>3. ASSUME waiting'[t] # None
        PROVE  waiting'[t] \in Live /\ waiter'[waiting'[t]] = t
    <3>1. waiting[t] \in Live /\ waiter[waiting[t]] = t /\ waiting'[t] = waiting[t]
          BY <1>12, <2>1, <2>2, <2>3
    <3>2. waiting[t] # waiting[id]
          BY <1>4, <1>11, <2>1, <3>1
    <3> QED BY <1>4, <1>12, <3>1, <3>2
  <2>4. ASSUME waiter'[t] # None
        PROVE  /\ waiter'[t] \in Live /\ ~exited'[waiter'[t]]
               /\ waiter'[t] \notin Queued' /\ waiter'[t] # t
               /\ waiting'[waiter'[t]] = t
    <3>1. t # waiting[id] /\ waiter'[t] = waiter[t] BY <1>12, <2>1, <2>4
    <3>2. /\ waiter[t] \in Live /\ ~exited[waiter[t]]
          /\ waiter[t] \notin Queued /\ waiter[t] # t
          /\ waiting[waiter[t]] = t
          BY <2>2, <2>4, <3>1
    <3>3. waiter[t] # id BY <3>1, <3>2
    <3>4. waiter[t] \notin W BY <1>7, <2>1, <3>2
    <3>5. waiter[t] \in Tid \ {id} BY <1>4, <3>2, <3>3
    <3> QED BY <1>8, <1>10, <1>12, <3>1, <3>2, <3>4, <3>5
  <2> QED BY <2>3, <2>4
<1>17. Parked' \subseteq Parked \ {id}
  <2>1. ASSUME NEW t \in Parked' PROVE t \in Parked \ {id}
    <3>1. t \in Live /\ t \in Tid /\ t # id /\ ~exited[t] /\ waiting'[t] = waiting[t]
          BY <1>4, <1>9, <1>10, <1>12 DEF Parked
    <3>2. CASE t \in Queued'
      <4>1. t # Me BY <1>14, <3>2 DEF Parked
      <4>2. t \in Queued \/ (t \in W /\ waiting[t] # None)
            BY <1>1, <1>4, <1>7, <1>8, <3>2
      <4> QED BY <3>1, <4>1, <4>2 DEF Parked
    <3>3. CASE t \notin Queued'
      <4>1. t \notin Queued BY <1>8, <3>1, <3>3
      <4>2. waiting[t] # None BY <3>1, <3>3 DEF Parked
      <4> QED BY <3>1, <4>1, <4>2 DEF Parked
    <3> QED BY <3>2, <3>3
  <2> QED BY <2>1
<1>18. ASSUME NEW t \in Parked'
       PROVE  /\ t \in Parked /\ ctx'[t] = ctx[t] /\ ctx[t] \in Code
              /\ ctx[t] \notin over' /\ ctx[t] # cpu
              /\ pend'[ctx[t]] = waiting'[t]
  <2>1. t \in Parked /\ t \in Tid \ {id} BY <1>4, <1>17 DEF Parked
  <2>2. ctx[t] \in Code /\ ctx[t] \notin over /\ pend[ctx[t]] = waiting[t]
        BY <1>3, <2>1 DEF CodesOK
  <2>3. ctx[t] # cpu BY <1>3, <2>1 DEF RunningOK
  <2> QED BY <1>10, <1>12, <2>1, <2>2, <2>3
<1>19. CodesOK(Parked, ctx, pend, waiting, over)'
  <2>1. \A t \in Parked' : /\ ctx'[t] \in Code /\ ctx'[t] \notin over'
                           /\ pend'[ctx'[t]] = waiting'[t]
        BY <1>18
  <2>2. ASSUME NEW t \in Parked', NEW u \in Parked', ctx'[t] = ctx'[u]
        PROVE  t = u
    <3>1. t \in Parked /\ u \in Parked /\ ctx[t] = ctx[u] BY <1>18, <2>2
    <3> QED BY <1>3, <3>1 DEF CodesOK
  <2> QED BY <2>1, <2>2 DEF CodesOK
<1>20. RunningOK'
  <2>1. cpu' \notin over' BY <1>3, <1>9, <1>10 DEF RunningOK
  <2>2. \A t \in Parked' : ctx'[t] # cpu' BY <1>9, <1>18
  <2>3. pend'[cpu'] = waiting'[Me']
    <3>1. pend[cpu] = waiting[Me] BY <1>1, AnyActive
    <3> QED BY <1>1, <1>2, <1>9, <1>10, <1>12, <1>14, <3>1
  <2> QED BY <1>14, <2>1, <2>2, <2>3 DEF RunningOK
<1> QED BY <1>13, <1>15, <1>16, <1>19, <1>20 DEF AnyInv

\* A tcb is freed for the running thread: it has exited, and no other thread
\* waits on it.
LEMMA AnyReap ==
    ASSUME AnyInv, TypeOK', proc = "running", fifo # <<>>,
           NEW u \in Live, exited[u], Free(u), waiter[u] \in {None, Me},
           waiting' = [waiting EXCEPT ![Me] = None, ![u] = None],
           pend' = [pend EXCEPT ![cpu] = None],
           UNCHANGED <<proc, cpu, fifo, over>>
    PROVE  AnyInv'
<1>1. Live' = Live \ {u} BY FreeSet DEF AnyInv
<1>2. Live \subseteq Tid /\ None \notin Live BY LiveType, NoneNotTid DEF AnyInv
<1>3. /\ Me \in Tid /\ Me \in Queued /\ Me \in Live /\ ~exited[Me] /\ Me # u
      /\ cpu \in Code /\ Me' = Me /\ Queued' = Queued
      BY AnyActive DEF Me, Queued
<1>4. /\ QueueOK(fifo, exited) /\ LinksOK(fifo, exited, waiting, waiter)
      /\ CodesOK(Parked, ctx, pend, waiting, over) /\ RunningOK
      BY DEF AnyInv
<1>5. /\ \A t \in Tid \ {u} : /\ waiter'[t] = waiter[t]
                              /\ exited'[t] = exited[t] /\ ctx'[t] = ctx[t]
      /\ \A t \in Tid \ {u, Me} : waiting'[t] = waiting[t]
      /\ \A c \in Code \ {cpu} : pend'[c] = pend[c]
      /\ waiting'[Me] = None /\ pend'[cpu] = None
      BY <1>2, <1>3 DEF Free, AnyInv, TypeOK
<1>6. TidsSorted' BY FreeSorted DEF AnyInv
<1>7. QueueOK(fifo, exited)'
  <2>1. ASSUME NEW t \in ToSet(fifo) PROVE t \in Live' /\ ~exited'[t]
        BY <1>1, <1>2, <1>4, <1>5 DEF QueueOK
  <2> QED BY <1>4, <2>1 DEF QueueOK
<1>8. LinksOK(fifo, exited, waiting, waiter)'
  <2> SUFFICES ASSUME NEW t \in Live', ~exited'[t]
               PROVE  /\ waiting'[t] # None =>
                            waiting'[t] \in Live' /\ waiter'[waiting'[t]] = t
                      /\ waiter'[t] # None =>
                            /\ waiter'[t] \in Live' /\ ~exited'[waiter'[t]]
                            /\ waiter'[t] \notin Queued /\ waiter'[t] # t
                            /\ waiting'[waiter'[t]] = t
        BY DEF LinksOK, Queued
  <2>1. t \in Live /\ t \in Tid /\ t # u /\ ~exited[t] BY <1>1, <1>2, <1>5
  <2>2. /\ waiting[t] # None => waiting[t] \in Live /\ waiter[waiting[t]] = t
        /\ waiter[t] # None =>
               /\ waiter[t] \in Live /\ ~exited[waiter[t]]
               /\ waiter[t] \notin Queued /\ waiter[t] # t
               /\ waiting[waiter[t]] = t
        BY <1>4, <2>1 DEF LinksOK, Queued
  <2>3. ASSUME waiting'[t] # None
        PROVE  waiting'[t] \in Live' /\ waiter'[waiting'[t]] = t
    <3>1. t # Me /\ waiting'[t] = waiting[t] BY <1>5, <2>1, <2>3
    <3>2. waiting[t] \in Live /\ waiter[waiting[t]] = t BY <2>2, <2>3, <3>1
    <3>3. waiting[t] # u BY <1>2, <2>1, <3>1, <3>2
    <3> QED BY <1>1, <1>2, <1>5, <3>1, <3>2, <3>3
  <2>4. ASSUME waiter'[t] # None
        PROVE  /\ waiter'[t] \in Live' /\ ~exited'[waiter'[t]]
               /\ waiter'[t] \notin Queued /\ waiter'[t] # t
               /\ waiting'[waiter'[t]] = t
    <3>1. waiter'[t] = waiter[t] BY <1>5, <2>1
    <3>2. /\ waiter[t] \in Live /\ ~exited[waiter[t]]
          /\ waiter[t] \notin Queued /\ waiter[t] # t
          /\ waiting[waiter[t]] = t
          BY <2>2, <2>4, <3>1
    <3>3. waiter[t] # Me /\ waiter[t] # u BY <1>3, <3>2
    <3> DEFINE w == waiter[t]
    <3>4. w \in Tid \ {u, Me} /\ w \in Live' BY <1>1, <1>2, <3>2, <3>3
    <3>5. exited'[w] = exited[w] /\ waiting'[w] = waiting[w] BY <1>5, <3>4
    <3> HIDE DEF w
    <3>6. waiter'[t] = w BY <3>1 DEF w
    <3>7. ~exited[w] /\ w \notin Queued /\ w # t /\ waiting[w] = t BY <3>2 DEF w
    <3> QED BY <3>4, <3>5, <3>6, <3>7
  <2> QED BY <2>3, <2>4
<1>9. ASSUME NEW t \in Parked'
      PROVE  /\ t \in Parked /\ ctx'[t] = ctx[t] /\ ctx[t] \in Code
             /\ ctx[t] \notin over /\ ctx[t] # cpu
             /\ pend'[ctx[t]] = waiting'[t]
  <2>1. /\ t \in Live /\ t \in Tid \ {u, Me} /\ ~exited[t]
        /\ waiting'[t] = waiting[t]
        BY <1>1, <1>2, <1>3, <1>5 DEF Parked
  <2>2. t \in Parked BY <1>3, <2>1 DEF Parked
  <2>3. ctx[t] \in Code /\ ctx[t] \notin over /\ pend[ctx[t]] = waiting[t]
        BY <1>4, <2>2 DEF CodesOK
  <2>4. ctx[t] # cpu BY <1>4, <2>2 DEF RunningOK
  <2> QED BY <1>5, <2>1, <2>2, <2>3, <2>4
<1>10. CodesOK(Parked, ctx, pend, waiting, over)'
  <2>1. \A t \in Parked' : /\ ctx'[t] \in Code /\ ctx'[t] \notin over'
                           /\ pend'[ctx'[t]] = waiting'[t]
        BY <1>9
  <2>2. ASSUME NEW t \in Parked', NEW v \in Parked', ctx'[t] = ctx'[v]
        PROVE  t = v
    <3>1. t \in Parked /\ v \in Parked /\ ctx[t] = ctx[v] BY <1>9, <2>2
    <3> QED BY <1>4, <3>1 DEF CodesOK
  <2> QED BY <2>1, <2>2 DEF CodesOK
<1>11. RunningOK'
  <2>1. cpu' \notin over' BY <1>4 DEF RunningOK
  <2>2. \A t \in Parked' : ctx'[t] # cpu' BY <1>9
  <2>3. pend'[cpu'] = waiting'[Me'] BY <1>3, <1>5
  <2> QED BY <2>1, <2>2, <2>3 DEF RunningOK
<1> QED BY <1>6, <1>7, <1>8, <1>10, <1>11 DEF AnyInv

LEMMA AnyJoinReap ==
    ASSUME AnyInv, TypeOK', NEW id \in Tid, JoinReap(id)
    PROVE  AnyInv'
<1>1. /\ Active /\ proc = "running" /\ pend[cpu] = None /\ fifo # <<>>
      /\ id \in Live /\ exited[id] /\ waiter[id] = None /\ Free(id)
      /\ waiting' = [waiting EXCEPT ![Me] = None, ![id] = None]
      /\ UNCHANGED <<proc, cpu, fifo, pend, over>>
      BY DEF JoinReap, JoinAccepted, Joinable, Unjoined, Active
<1>2. pend' = [pend EXCEPT ![cpu] = None] BY <1>1 DEF AnyInv, TypeOK
<1> QED BY <1>1, <1>2, AnyReap

\* The control block that a resumed wut_join frees is that of its target, which
\* has exited.
LEMMA JoinedExited ==
    ASSUME AnyInv, proc = "running", pend[cpu] # None
    PROVE  /\ fifo # <<>> /\ pend[cpu] = waiting[Me] /\ pend[cpu] \in Live
           /\ waiter[pend[cpu]] = Me /\ exited[pend[cpu]]
<1> DEFINE u == pend[cpu]
<1>1. /\ QueueOK(fifo, exited) /\ LinksOK(fifo, exited, waiting, waiter)
      /\ RunningOK
      BY DEF AnyInv
<1>2. fifo # <<>> BY <1>1 DEF RunningOK
<1>3. Me \in Queued /\ Me \in Live /\ ~exited[Me] /\ u = waiting[Me]
      BY <1>2, AnyActive
<1>4. u \in Live /\ waiter[u] = Me BY <1>1, <1>3 DEF LinksOK
<1>5. Me # None BY <1>3, LiveType, NoneNotTid DEF AnyInv
<1> HIDE DEF u
<1>6. exited[u] BY <1>1, <1>3, <1>4, <1>5 DEF LinksOK, Queued
<1> QED BY <1>2, <1>3, <1>4, <1>6 DEF u

LEMMA AnyJoinReturn ==
    ASSUME AnyInv, TypeOK', JoinReturn, proc' = "running"
    PROVE  AnyInv'
<1> DEFINE u == pend[cpu]
<1>1. proc = "running" /\ u # None BY DEF JoinReturn
<1>2. fifo # <<>> /\ u \in Live /\ waiter[u] = Me /\ exited[u]
      BY <1>1, JoinedExited
<1>3. /\ Free(u) /\ UNCHANGED <<proc, cpu, fifo, over>>
      /\ waiting' = [waiting EXCEPT ![Me] = None, ![u] = None]
      /\ pend' = [pend EXCEPT ![cpu] = None]
      BY DEF JoinReturn, Halt
<1> HIDE DEF u
<1> QED BY <1>1, <1>2, <1>3, AnyReap

LEMMA AnyInit == Init => AnyInv
<1> SUFFICES ASSUME Init PROVE AnyInv OBVIOUS
<1>1. 0 \in Tid /\ 0 \in Code BY MaxTidAssumption DEF Tid, Code
<1>2. TypeOK
  <2>1. <<0>> \in Seq(Tid) BY <1>1
  <2> QED BY <1>1, <2>1 DEF Init, TypeOK, Procs, None, ProcessStack
<1>3. TidsSorted
  <2>1. Len(tcbq) = 1 /\ tcbq[1] = 0 BY DEF Init
  <2> QED BY <2>1 DEF TidsSorted
<1>4. /\ Live = {0} /\ ToSet(fifo) = {0} /\ Queued = {0} /\ Me = 0
      /\ fifo # <<>> /\ IsInjective(fifo)
      BY DEF Init, Live, Queued, ToSet, Me, IsInjective
<1>5. /\ cpu = 0 /\ 0 \notin over /\ pend[0] = None
      /\ waiting[0] = None /\ waiter[0] = None /\ ~exited[0]
      BY <1>1 DEF Init
<1>6. Parked = {} BY <1>4 DEF Parked
<1> QED BY <1>2, <1>3, <1>4, <1>5, <1>6
        DEF AnyInv, RunningOK, QueueOK, LinksOK, CodesOK, TypeOK

\* Every step preserves AnyInv.
LEMMA AnyNext ==
    ASSUME AnyInv, TypeOK', [Next]_vars
    PROVE  AnyInv'
<1>1. ASSUME UNCHANGED tcbq, proc' # "running" PROVE AnyInv'
      BY <1>1 DEF AnyInv, TidsSorted
<1>2. ASSUME NEW how, how # "running", Halt(how) PROVE AnyInv'
      BY <1>1, <1>2 DEF Halt
<1>3. CASE Create BY <1>3, AnyCreate
<1>4. CASE Yield BY <1>4, AnyYield
<1>5. ASSUME NEW id \in Tid, Cancel(id) PROVE AnyInv' BY <1>5, AnyCancel
<1>6. ASSUME NEW id \in Tid, JoinReap(id) PROVE AnyInv' BY <1>6, AnyJoinReap
<1>7. ASSUME NEW id \in Tid, JoinBlock(id) PROVE AnyInv' BY <1>7, AnyJoinBlock
<1>8. CASE JoinReturn
  <2>1. CASE proc' = "running" BY <1>8, <2>1, AnyJoinReturn
  <2>2. CASE proc' # "running"
        BY <1>1, <1>2, <1>8, <2>2 DEF JoinReturn
  <2> QED BY <2>1, <2>2
<1>9. CASE Return BY <1>9, AnyReturn
<1>10. ASSUME NEW arg \in ExitArgs, Exit(arg) PROVE AnyInv' BY <1>10, AnyExit
<1>11. ASSUME NEW arg \in ExitArgs, ExitUnlinked(arg) PROVE AnyInv'
       BY <1>11, AnyExitUnlinked
<1>12. CASE YieldAlone
  <2>1. /\ Active /\ proc = "running" /\ pend[cpu] = None /\ fifo # <<>>
        /\ Len(fifo) = 1 /\ fifo' = <<>> /\ Live' = Live
        /\ UNCHANGED <<proc, cpu, tcbq, waiter, waiting, exited, ctx, pend, over>>
        BY <1>12 DEF YieldAlone, Live, Active
  <2>2. /\ ToSet(fifo') = {} /\ Queued' = {}
        /\ IsInjective(fifo') /\ fifo' \in Seq(Tid)
        BY <2>1 DEF Queued, ToSet, IsInjective
  <2>3. waiting[Me] = None /\ ToSet(Tail(fifo)) = Queued \ {Me}
        BY <2>1, AnyActive
  <2>4. Parked' \subseteq Parked
    <3>1. ASSUME NEW t \in Parked' PROVE t \in Parked
      <4>1. t \in Live /\ ~exited[t] /\ waiting[t] # None
            BY <2>1, <2>2 DEF Parked
      <4>2. t # Me BY <2>3, <4>1
      <4> QED BY <4>1, <4>2 DEF Parked
    <3> QED BY <3>1
  <2>5. QueueOK(fifo, exited)' BY <2>2 DEF QueueOK
  <2>6. LinksOK(fifo, exited, waiting, waiter)'
        BY <2>1, <2>2 DEF AnyInv, LinksOK
  <2>7. CodesOK(Parked, ctx, pend, waiting, over)' /\ RunningOK'
        BY <2>1, <2>4 DEF AnyInv, CodesOK, RunningOK
  <2>8. TidsSorted' BY <2>1 DEF AnyInv, TidsSorted
  <2> QED BY <2>5, <2>6, <2>7, <2>8 DEF AnyInv
<1>13. CASE \/ YieldNowhere \/ CancelNoThread \/ ReturnNowhere \/ ExitNowhere
            \/ ExitLast \/ \E id \in Tid : JoinNoThread(id)
            \/ \E id \in Tid : UnmapOwnStack(id)
       BY <1>2, <1>13 DEF YieldNowhere, CancelNoThread, ReturnNowhere,
          ExitNowhere, ExitLast, JoinNoThread, UnmapOwnStack
<1>14. CASE UNCHANGED vars
  <2>1. UNCHANGED <<Live, Queued, Me>> BY <1>14 DEF vars, Live, Queued, Me
  <2>2. UNCHANGED Parked BY <1>14, <2>1 DEF vars, Parked
  <2> QED BY <1>14, <2>1, <2>2
      DEF vars, AnyInv, TidsSorted, QueueOK, LinksOK, CodesOK, RunningOK
<1> QED BY <1>3, <1>4, <1>5, <1>6, <1>7, <1>8, <1>9, <1>10, <1>11,
           <1>12, <1>13, <1>14
        DEF Next, Switch, CancelRefused, JoinRefused, Stopped

\* AnyInv holds whatever the client does.
THEOREM AnyInvariance == Spec => []AnyInv
<1>1. Init => AnyInv BY AnyInit
<1>2. TypeOK' /\ AnyInv /\ [Next]_vars => AnyInv' BY AnyNext
<1> QED BY <1>1, <1>2, TypeCorrect, PTL DEF Spec

\* A code that has finished, or whose only context was freed, never runs again,
\* whatever the client does: NoResurrection of the runs.
THEOREM NoThreadResurrected == Spec => []NoResurrection
<1>1. AnyInv => NoResurrection
      BY DEF AnyInv, RunningOK, NoResurrection
<1> QED BY <1>1, AnyInvariance, PTL

\* The outcome of a thread is kept until it is collected by the thread that
\* joined it: OutcomeKept of the runs.
THEOREM OutcomesKept == Spec => OutcomeKept
<1> DEFINE Kept(t) == \/ t \in Live' /\ exited'[t] /\ status'[t] = status[t]
                      \/ t \notin Live' /\ waiter[t] \in {None, Me}
           A == \A t \in Live : exited[t] => Kept(t)
<1>1. AnyInv /\ [Next]_vars => [A]_vars
  <2> SUFFICES ASSUME AnyInv, [Next]_vars, NEW t \in Live, exited[t] PROVE Kept(t)
        OBVIOUS
  <2>0. TypeOK /\ TidsSorted BY DEF AnyInv
  <2>1. t \in Tid BY <2>0, LiveType
  <2>2. ASSUME UNCHANGED <<tcbq, exited, status>> PROVE Kept(t)
        BY <2>2 DEF Live
  <2>3. ASSUME NEW how, Halt(how) PROVE Kept(t) BY <2>2, <2>3 DEF Halt
  <2>4. ASSUME NEW u \in Live, Free(u), waiter[u] \in {None, Me} PROVE Kept(t)
    <3>1. Live' = Live \ {u} BY <2>0, <2>4, FreeSet
    <3> QED BY <2>0, <2>1, <2>4, <3>1 DEF Free, TypeOK
  <2>5. CASE Create
    <3>1. PICK i \in 1..(Len(tcbq) + 1) :
            /\ ScanStops(i)
            /\ tcbq' = InsertAt(tcbq, i, i - 1)
            /\ exited' = [exited EXCEPT ![i - 1] = FALSE]
            /\ status' = [status EXCEPT ![i - 1] = 0]
          BY <2>5 DEF Create
    <3>2. i - 1 \in Tid
          BY <2>0, <2>5, LenProperties, MaxTidAssumption DEF Create, Tid, TypeOK
    <3>3. tcbq \in Seq(Tid) BY <2>0 DEF TypeOK
    <3>4. Live' = Live \cup {i - 1} BY <3>1, <3>2, <3>3, InsertLemma DEF Live
    <3>5. t # i - 1 BY <2>0, <3>1, ScanLemma
    <3> QED BY <2>0, <2>1, <3>1, <3>4, <3>5 DEF TypeOK
  <2>6. ASSUME NEW id \in Tid, Cancel(id) PROVE Kept(t)
        BY <2>0, <2>1, <2>6 DEF Cancel, Cancellable, TypeOK, Live
  <2>7. ASSUME NEW id \in Tid, JoinReap(id) PROVE Kept(t)
        BY <2>4, <2>7 DEF JoinReap, JoinAccepted, Joinable, Unjoined, NotBlocked
  <2>8. CASE JoinReturn
    <3>1. /\ pend[cpu] \in Live /\ waiter[pend[cpu]] = Me
          BY <2>8, JoinedExited DEF JoinReturn
    <3>2. CASE OtherStack(pend[cpu])
          BY <2>4, <2>8, <3>1, <3>2 DEF JoinReturn
    <3>3. CASE ~OtherStack(pend[cpu])
          BY <2>3, <2>8, <3>3 DEF JoinReturn
    <3> QED BY <3>2, <3>3
  <2>9. ASSUME Active, exited[Me], fifo # <<>> PROVE FALSE
        BY <2>9, AnyActive DEF Active
  <2>10. ASSUME NEW arg \in ExitArgs, Exit(arg) PROVE Kept(t)
         BY <2>0, <2>1, <2>9, <2>10 DEF Exit, TypeOK, Live
  <2>11. CASE Return
    <3>1. exited' = [exited EXCEPT ![Me] = TRUE] /\ UNCHANGED <<tcbq, status>>
          BY <2>11 DEF Return, ExitCleanup, Finished, Me
    <3> QED BY <2>0, <2>1, <2>9, <2>11, <3>1 DEF Return, TypeOK, Live
  <2>12. ASSUME NEW arg \in ExitArgs, ExitUnlinked(arg) PROVE Kept(t)
    <3>1. /\ exited' = [exited EXCEPT ![Me] = TRUE, ![Head(AfterExit)] = TRUE]
          /\ status' = [status EXCEPT ![Me] = Masked(arg)]
          /\ UNCHANGED tcbq
          BY <2>12 DEF ExitUnlinked, ExitCleanup, Finished
    <3>2. t # Me BY <2>9, <2>12 DEF ExitUnlinked
    <3> QED BY <2>0, <2>1, <3>1, <3>2 DEF TypeOK, Live
  <2>13. CASE Yield \/ \E id \in Tid : JoinBlock(id)
         BY <2>2, <2>13 DEF Yield, JoinBlock
  <2>14. CASE \/ YieldNowhere \/ YieldAlone \/ CancelNoThread \/ ReturnNowhere
              \/ ExitNowhere \/ ExitLast \/ \E id \in Tid : JoinNoThread(id)
              \/ \E id \in Tid : UnmapOwnStack(id)
         BY <2>2, <2>3, <2>14 DEF YieldNowhere, YieldAlone, CancelNoThread,
            ReturnNowhere, ExitNowhere, ExitLast, JoinNoThread, UnmapOwnStack
  <2>15. CASE UNCHANGED vars BY <2>2, <2>15 DEF vars
  <2> QED BY <2>5, <2>6, <2>7, <2>8, <2>10, <2>11, <2>12, <2>13, <2>14, <2>15
          DEF Next, Switch, CancelRefused, JoinRefused, Stopped
<1> QED BY <1>1, AnyInvariance, PTL DEF Spec, OutcomeKept
=============================================================================
