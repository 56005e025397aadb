------------------------- MODULE SmpcChannelsProofs -------------------------
(***************************************************************************)
(* The nodes of smpc_signer.py, for any nodes, numbers of commands, of     *)
(* halts and of rounds.                                                    *)
(*                                                                         *)
(* 1. TypeCorrect, whatever the timing: tasks hold channels of their own   *)
(*    node and command, the nodes still to be connected to are not those   *)
(*    already reached, a dictionary has one channel for a node, and a      *)
(*    message lies in the inbox of an end of its channel.                  *)
(*                                                                         *)
(* 2. SignedByAll: a client that lets the nodes settle between two         *)
(*    commands is enough for SignedTogether, whatever the order in which   *)
(*    messages are handled, whenever the sleeps end and whichever nodes    *)
(*    are halted. The inductive invariant has three parts: Types; Own, by  *)
(*    which what runs and what is under way belongs to the last command;   *)
(*    and Progress, by which the main node is never ahead of the shares    *)
(*    it has read.                                                         *)
(*                                                                         *)
(* 3. The invariant Mesh of SmpcTogetherProofs, as a predicate of a state  *)
(*    s that is a value, what follows from it, and that the moves by       *)
(*    which nodes connect and are asked to sign keep it.                   *)
(***************************************************************************)
EXTENDS SmpcChannels, FiniteSetTheorems, SequenceTheorems, TLAPS

-----------------------------------------------------------------------------
(* Keep(), by induction on the length of the sequence.                     *)

(* Induction on the natural numbers, for a set of them.                    *)
LEMMA NatSet ==
  ASSUME NEW S, 0 \in S, \A n \in Nat : n \in S => n + 1 \in S
  PROVE  Nat \subseteq S
<1> SUFFICES ASSUME NEW k \in Nat, k \notin S PROVE FALSE
  OBVIOUS
<1> DEFINE T == {0..n : n \in Nat \ S}
           R == StrictSubsetOrdering(Nat)
           F == FiniteSubsetsOf(Nat)
<1>1. IsWellFoundedOn(R, F)
  BY FS_StrictSubsetOrderingWellFounded
<1>2. T \subseteq F
  <2> SUFFICES ASSUME NEW n \in Nat PROVE 0..n \in F
    OBVIOUS
  <2>1. IsFiniteSet(0..n)
    BY FS_Interval
  <2>2. 0..n \in SUBSET Nat
    OBVIOUS
  <2> QED
    BY <2>1, <2>2 DEF FiniteSubsetsOf
<1>3. 0..k \in T
  OBVIOUS
<1>4. PICK x \in T : \A y \in T : ~(<<y, x>> \in R)
  <2> HIDE DEF T, R, F
  <2> QED
    BY <1>1, <1>2, <1>3, WFMin
<1>5. PICK n \in Nat \ S : x = 0..n
  BY <1>4
<1>6. n # 0 /\ n - 1 \in Nat
  BY <1>5
<1>7. n - 1 \notin S
  BY <1>5, <1>6
<1>8. 0..(n - 1) \in T
  BY <1>6, <1>7
<1>9. <<0..(n - 1), x>> \in R
  <2>1. 0..(n - 1) \subseteq 0..n /\ n \in 0..n /\ n \notin 0..(n - 1)
    BY <1>5, <1>6
  <2>2. 0..(n - 1) \in SUBSET Nat /\ 0..n \in SUBSET Nat
    BY <1>5, <1>6
  <2> QED
    BY <1>5, <2>1, <2>2 DEF StrictSubsetOrdering
<1> QED
  BY <1>4, <1>8, <1>9

LEMMA KeepExists ==
  ASSUME NEW X, NEW s \in Seq(X), NEW S
  PROVE  \E kept : /\ kept = [i \in 0..Len(s) |->
                        IF i = 0 THEN <<>>
                        ELSE IF s[i] \in S THEN Append(kept[i - 1], s[i])
                                           ELSE kept[i - 1]]
                   /\ Keep(s, S) = kept[Len(s)]
<1> DEFINE F(k, n) == k = [i \in 0..n |->
                        IF i = 0 THEN <<>>
                        ELSE IF s[i] \in S THEN Append(k[i - 1], s[i])
                                           ELSE k[i - 1]]
           P == {n \in Nat : \E k : F(k, n)}
<1>1. 0 \in P
  <2> DEFINE k == [i \in 0..0 |-> <<>>]
  <2>1. F(k, 0)
    OBVIOUS
  <2> QED
    BY <2>1
<1>2. ASSUME NEW n \in Nat, n \in P
      PROVE  n + 1 \in P
  <2>1. PICK k : F(k, n)
    BY <1>2
  <2> HIDE DEF P
  <2> DEFINE e == IF s[n + 1] \in S THEN Append(k[n], s[n + 1]) ELSE k[n]
             h == [i \in 0..(n + 1) |-> IF i = n + 1 THEN e ELSE k[i]]
  <2>2. \A i \in 0..n : h[i] = k[i]
    OBVIOUS
  <2>3. ASSUME NEW i \in 0..(n + 1)
        PROVE  h[i] = IF i = 0 THEN <<>>
                      ELSE IF s[i] \in S THEN Append(h[i - 1], s[i])
                                         ELSE h[i - 1]
    <3>1. CASE i = n + 1
      <4>1. h[i] = e /\ i # 0 /\ i - 1 = n /\ h[n] = k[n]
        BY <3>1, <2>2
      <4> HIDE DEF h
      <4> QED
        BY <4>1, <3>1
    <3>2. CASE i # n + 1 /\ i # 0
      <4>1. i \in 0..n /\ i - 1 \in 0..n
        BY <3>2
      <4>2. k[i] = IF s[i] \in S THEN Append(k[i - 1], s[i]) ELSE k[i - 1]
        BY <4>1, <3>2, <2>1
      <4>3. h[i] = k[i] /\ h[i - 1] = k[i - 1]
        BY <4>1, <2>2
      <4> HIDE DEF h
      <4> QED
        BY <4>2, <4>3, <3>2
    <3>3. CASE i = 0
      <4>1. k[0] = <<>>
        BY <2>1
      <4>2. h[0] = k[0]
        BY <2>2
      <4> HIDE DEF h
      <4> QED
        BY <4>1, <4>2, <3>3
    <3> QED
      BY <3>1, <3>2, <3>3
  <2>4. h = [i \in 0..(n + 1) |-> h[i]]
    OBVIOUS
  <2>5. F(h, n + 1)
    <3> HIDE DEF h
    <3> QED
      BY <2>3, <2>4, Zenon
  <2> QED
    <3> HIDE DEF F, h
    <3> QED
      BY <2>5 DEF P
<1>3. Len(s) \in P
  <2>1. Nat \subseteq P
    <3> HIDE DEF P
    <3> QED
      BY <1>1, <1>2, NatSet
  <2> HIDE DEF P
  <2> QED
    BY <2>1
<1>4. \E k : F(k, Len(s))
  BY <1>3
<1> DEFINE c == CHOOSE k : F(k, Len(s))
<1>5. F(c, Len(s))
  <2> HIDE DEF F
  <2> QED
    BY <1>4
<1>6. Keep(s, S) = c[Len(s)]
  BY DEF Keep
<1> QED
  BY <1>5, <1>6

(* What is kept, and in which order.                                       *)
LEMMA KeepElements ==
  ASSUME NEW X, NEW s \in Seq(X), NEW S
  PROVE  /\ Keep(s, S) \in Seq(X)
         /\ \E e \in [1..Len(Keep(s, S)) -> 1..Len(s)] :
              /\ \A j \in 1..Len(Keep(s, S)) :
                   /\ Keep(s, S)[j] = s[e[j]] /\ s[e[j]] \in S
                   /\ \A i \in 1..(j - 1) : e[i] < e[j]
              /\ \A p \in 1..Len(s) : s[p] \in S =>
                   \E j \in 1..Len(Keep(s, S)) : e[j] = p
<1> DEFINE OK(k, n, e) ==
             /\ e \in [1..Len(k) -> 1..n]
             /\ \A j \in 1..Len(k) :
                  /\ k[j] = s[e[j]] /\ s[e[j]] \in S
                  /\ \A i \in 1..(j - 1) : e[i] < e[j]
             /\ \A p \in 1..n : s[p] \in S => \E j \in 1..Len(k) : e[j] = p
<1>1. PICK kept : /\ kept = [i \in 0..Len(s) |->
                        IF i = 0 THEN <<>>
                        ELSE IF s[i] \in S THEN Append(kept[i - 1], s[i])
                                           ELSE kept[i - 1]]
                  /\ Keep(s, S) = kept[Len(s)]
  BY KeepExists
<1> DEFINE P == {n \in Nat : n <= Len(s) =>
                   kept[n] \in Seq(X) /\ \E e : OK(kept[n], n, e)}
<1>2. 0 \in P
  <2>1. kept[0] = <<>>
    BY <1>1
  <2> DEFINE e == [j \in {} |-> 1]
  <2>2. OK(<<>>, 0, e)
    OBVIOUS
  <2>3. <<>> \in Seq(X)
    OBVIOUS
  <2> QED
    <3> HIDE DEF OK, e
    <3> QED
      BY <2>1, <2>2, <2>3
<1>3. ASSUME NEW n \in Nat, n \in P
      PROVE  n + 1 \in P
  <2> SUFFICES ASSUME n + 1 <= Len(s)
               PROVE  kept[n + 1] \in Seq(X) /\ \E e : OK(kept[n + 1], n + 1, e)
    OBVIOUS
  <2>1. kept[n] \in Seq(X) /\ \E e : OK(kept[n], n, e)
    BY <1>3
  <2>2. PICK e : OK(kept[n], n, e)
    BY <2>1
  <2>3. kept[n + 1] = IF s[n + 1] \in S THEN Append(kept[n], s[n + 1]) ELSE kept[n]
    <3>1. n + 1 \in 0..Len(s) /\ n + 1 # 0 /\ (n + 1) - 1 = n
      OBVIOUS
    <3> QED
      BY <1>1, <3>1
  <2>4. s[n + 1] \in X
    OBVIOUS
  <2> HIDE DEF P
  <2>5. CASE s[n + 1] \notin S
    <3>1. kept[n + 1] = kept[n]
      BY <2>3, <2>5
    <3>2. e \in [1..Len(kept[n]) -> 1..(n + 1)]
      BY <2>2
    <3>3. \A p \in 1..(n + 1) : s[p] \in S => \E j \in 1..Len(kept[n]) : e[j] = p
      BY <2>2, <2>5
    <3>4. OK(kept[n], n + 1, e)
      BY <2>2, <3>2, <3>3
    <3> QED
      <4> HIDE DEF OK
      <4> QED
        BY <2>1, <3>1, <3>4
  <2>6. CASE s[n + 1] \in S
    <3> DEFINE k == kept[n]
               L == Len(kept[n])
               h == [j \in 1..(L + 1) |-> IF j = L + 1 THEN n + 1 ELSE e[j]]
    <3>1. kept[n + 1] = Append(k, s[n + 1])
      BY <2>3, <2>6
    <3>2. /\ k \in Seq(X) /\ L \in Nat
          /\ Append(k, s[n + 1]) \in Seq(X)
          /\ Len(Append(k, s[n + 1])) = L + 1
          /\ Append(k, s[n + 1])[L + 1] = s[n + 1]
          /\ \A j \in 1..L : Append(k, s[n + 1])[j] = k[j]
      BY <2>1, <2>4
    <3> DEFINE w == Append(k, s[n + 1])
    <3>3. /\ e \in [1..L -> 1..n]
          /\ \A j \in 1..L : /\ k[j] = s[e[j]] /\ s[e[j]] \in S
                             /\ \A i \in 1..(j - 1) : e[i] < e[j]
          /\ \A p \in 1..n : s[p] \in S => \E j \in 1..L : e[j] = p
      BY <2>2
    <3> HIDE DEF k, L, w, OK
    <3>4. h \in [1..(L + 1) -> 1..(n + 1)]
      BY <3>2, <3>3
    <3>5. ASSUME NEW j \in 1..(L + 1)
          PROVE  /\ w[j] = s[h[j]] /\ s[h[j]] \in S
                 /\ \A i \in 1..(j - 1) : h[i] < h[j]
      <4>1. CASE j = L + 1
        <5>1. h[j] = n + 1 /\ w[j] = s[n + 1]
          BY <4>1, <3>2 DEF w
        <5>2. \A i \in 1..(j - 1) : i \in 1..L /\ h[i] = e[i] /\ e[i] \in 1..n
          BY <4>1, <3>2, <3>3
        <5> HIDE DEF h
        <5> QED
          BY <5>1, <5>2, <2>6
      <4>2. CASE j # L + 1
        <5>1. j \in 1..L /\ h[j] = e[j] /\ w[j] = k[j]
          BY <4>2, <3>2 DEF w
        <5>2. \A i \in 1..(j - 1) : h[i] = e[i]
          BY <5>1, <3>2
        <5> HIDE DEF h
        <5> QED
          BY <5>1, <5>2, <3>3
      <4> QED
        BY <4>1, <4>2
    <3>6. ASSUME NEW p \in 1..(n + 1), s[p] \in S
          PROVE  \E j \in 1..(L + 1) : h[j] = p
      <4>1. CASE p = n + 1
        <5>1. h[L + 1] = p /\ L + 1 \in 1..(L + 1)
          BY <4>1, <3>2
        <5> QED
          BY <5>1
      <4>2. CASE p # n + 1
        <5>1. PICK j \in 1..L : e[j] = p
          BY <4>2, <3>6, <3>3
        <5>2. h[j] = p /\ j \in 1..(L + 1)
          BY <5>1, <3>2
        <5> QED
          BY <5>2
      <4> QED
        BY <4>1, <4>2
    <3>7. Len(w) = L + 1
      BY <3>2 DEF w
    <3> HIDE DEF h
    <3>8. OK(w, n + 1, h)
      BY <3>4, <3>5, <3>6, <3>7 DEF OK
    <3>9. kept[n + 1] = w /\ w \in Seq(X)
      BY <3>1, <3>2 DEF w
    <3> QED
      BY <3>8, <3>9
  <2> QED
    BY <2>5, <2>6
<1>4. Nat \subseteq P
  <2> HIDE DEF P
  <2> QED
    BY <1>2, <1>3, NatSet
<1>5. kept[Len(s)] \in Seq(X) /\ \E e : OK(kept[Len(s)], Len(s), e)
  BY <1>4
<1>6. PICK e : OK(kept[Len(s)], Len(s), e)
  BY <1>5
<1> DEFINE k == kept[Len(s)]
<1>7. k = Keep(s, S) /\ k \in Seq(X) /\ OK(k, Len(s), e)
  BY <1>1, <1>5, <1>6
<1> HIDE DEF k
<1> QED
  BY <1>7

-----------------------------------------------------------------------------
(* Sequences without one of their elements, boxes, what is sent.           *)

Ran(s) == {s[i] : i \in 1..Len(s)}

Injective(s) == \A i, j \in 1..Len(s) : s[i] = s[j] => i = j

Removed(s, i) == SubSeq(s, 1, i - 1) \o SubSeq(s, i + 1, Len(s))

LEMMA RanType ==
  ASSUME NEW X, NEW s \in Seq(X)
  PROVE  Ran(s) \subseteq X
BY DEF Ran

LEMMA RanConcat ==
  ASSUME NEW X, NEW s \in Seq(X), NEW t \in Seq(X)
  PROVE  s \o t \in Seq(X) /\ Ran(s \o t) = Ran(s) \cup Ran(t)
<1>1. /\ s \o t \in Seq(X) /\ Len(s \o t) = Len(s) + Len(t)
      /\ \A i \in 1..Len(s) : (s \o t)[i] = s[i]
      /\ \A i \in 1..Len(t) : (s \o t)[Len(s) + i] = t[i]
  OBVIOUS
<1>2. Len(s) \in Nat /\ Len(t) \in Nat
  OBVIOUS
<1> DEFINE w == s \o t
<1> HIDE DEF w
<1>3. ASSUME NEW x \in Ran(s) PROVE x \in Ran(w)
  <2>1. PICK i \in 1..Len(s) : x = s[i]
    BY <1>3 DEF Ran
  <2>2. i \in 1..Len(w) /\ w[i] = x
    BY <2>1, <1>1, <1>2 DEF w
  <2> QED
    BY <2>2 DEF Ran
<1>4. ASSUME NEW x \in Ran(t) PROVE x \in Ran(w)
  <2>1. PICK i \in 1..Len(t) : x = t[i]
    BY <1>4 DEF Ran
  <2>2. Len(s) + i \in 1..Len(w) /\ w[Len(s) + i] = x
    BY <2>1, <1>1, <1>2 DEF w
  <2> QED
    BY <2>2 DEF Ran
<1>5. ASSUME NEW x \in Ran(w) PROVE x \in Ran(s) \cup Ran(t)
  <2>1. PICK i \in 1..Len(w) : x = w[i]
    BY <1>5 DEF Ran
  <2>2. CASE i <= Len(s)
    <3>1. i \in 1..Len(s) /\ x = s[i]
      BY <2>1, <2>2, <1>1, <1>2 DEF w
    <3> QED
      BY <3>1 DEF Ran
  <2>3. CASE i > Len(s)
    <3>1. i - Len(s) \in 1..Len(t) /\ i = Len(s) + (i - Len(s))
      BY <2>1, <2>3, <1>1, <1>2 DEF w
    <3>2. x = t[i - Len(s)]
      BY <2>1, <3>1, <1>1 DEF w
    <3> QED
      BY <3>1, <3>2 DEF Ran
  <2> QED
    BY <2>1, <2>2, <2>3, <1>1, <1>2 DEF w
<1> QED
  BY <1>1, <1>3, <1>4, <1>5 DEF w

LEMMA RemovedIs ==
  ASSUME NEW X, NEW s \in Seq(X), NEW i \in 1..Len(s)
  PROVE  /\ Removed(s, i) \in Seq(X) /\ Len(Removed(s, i)) = Len(s) - 1
         /\ \A j \in 1..(Len(s) - 1) :
              Removed(s, i)[j] = s[IF j < i THEN j ELSE j + 1]
<1> DEFINE u == SubSeq(s, 1, i - 1)
           v == SubSeq(s, i + 1, Len(s))
<1>0. i \in Nat /\ 1 <= i /\ i <= Len(s) /\ Len(s) \in Nat
  OBVIOUS
<1>1. u \in Seq(X) /\ Len(u) = i - 1 /\ \A j \in 1..(i - 1) : u[j] = s[j]
  OBVIOUS
<1>2. /\ v \in Seq(X) /\ Len(v) = Len(s) - i
      /\ \A j \in 1..(Len(s) - i) : v[j] = s[i + j]
  OBVIOUS
<1>3. /\ u \o v \in Seq(X) /\ Len(u \o v) = Len(u) + Len(v)
      /\ \A j \in 1..Len(u) : (u \o v)[j] = u[j]
      /\ \A j \in 1..Len(v) : (u \o v)[Len(u) + j] = v[j]
  <2> HIDE DEF u, v
  <2>1. u \in Seq(X) /\ v \in Seq(X)
    BY <1>1, <1>2
  <2> QED
    BY ONLY <2>1
<1> DEFINE w == u \o v
<1>4. w = Removed(s, i)
  BY DEF Removed
<1> HIDE DEF u, v, w
<1>5. w \in Seq(X) /\ Len(w) = Len(s) - 1
  BY <1>0, <1>1, <1>2, <1>3 DEF w
<1>6. ASSUME NEW j \in 1..(Len(s) - 1)
      PROVE  w[j] = s[IF j < i THEN j ELSE j + 1]
  <2>1. CASE j < i
    <3>1. j \in 1..(i - 1)
      BY <2>1, <1>0
    <3> QED
      BY <3>1, <2>1, <1>1, <1>3 DEF w
  <2>2. CASE ~(j < i)
    <3>1. j - (i - 1) \in 1..(Len(s) - i) /\ (i - 1) + (j - (i - 1)) = j
      BY <2>2, <1>0
    <3>2. w[j] = v[j - (i - 1)]
      BY <3>1, <1>1, <1>2, <1>3 DEF w
    <3>3. v[j - (i - 1)] = s[i + (j - (i - 1))] /\ i + (j - (i - 1)) = j + 1
      BY <3>1, <1>2, <1>0
    <3> QED
      BY <3>2, <3>3, <2>2
  <2> QED
    BY <2>1, <2>2
<1> QED
  BY <1>4, <1>5, <1>6

LEMMA RanRemoved ==
  ASSUME NEW X, NEW s \in Seq(X), NEW i \in 1..Len(s)
  PROVE  /\ Ran(Removed(s, i)) \subseteq Ran(s)
         /\ \A x \in Ran(s) : x # s[i] => x \in Ran(Removed(s, i))
         /\ Injective(s) => s[i] \notin Ran(Removed(s, i))
<1> DEFINE w == Removed(s, i)
<1>1. /\ w \in Seq(X) /\ Len(w) = Len(s) - 1
      /\ \A j \in 1..(Len(s) - 1) : w[j] = s[IF j < i THEN j ELSE j + 1]
  BY RemovedIs
<1>2. i \in Nat /\ 1 <= i /\ i <= Len(s) /\ Len(s) \in Nat
  OBVIOUS
<1> HIDE DEF w
<1>3. ASSUME NEW x \in Ran(w)
      PROVE  x \in Ran(s) /\ (Injective(s) => x # s[i])
  <2>1. PICK j \in 1..Len(w) : x = w[j]
    BY <1>3 DEF Ran
  <2> DEFINE q == IF j < i THEN j ELSE j + 1
  <2>2. q \in 1..Len(s) /\ q # i /\ x = s[q]
    BY <2>1, <1>1, <1>2
  <2> HIDE DEF q
  <2> QED
    BY <2>2 DEF Ran, Injective
<1>4. ASSUME NEW x \in Ran(s), x # s[i] PROVE x \in Ran(w)
  <2>1. PICK p \in 1..Len(s) : x = s[p]
    BY <1>4 DEF Ran
  <2>2. p # i
    BY <2>1, <1>4
  <2> DEFINE j == IF p < i THEN p ELSE p - 1
  <2>3. j \in 1..Len(w) /\ (IF j < i THEN j ELSE j + 1) = p
    BY <2>2, <1>1, <1>2
  <2> HIDE DEF j
  <2>4. j \in 1..(Len(s) - 1)
    BY <2>3, <1>1
  <2>5. w[j] = x
    BY <2>3, <2>4, <2>1, <1>1
  <2> QED
    BY <2>3, <2>5 DEF Ran
<1> QED
  BY <1>3, <1>4 DEF w

Ordered(s, R) == \A i, j \in 1..Len(s) : i < j => <<s[i], s[j]>> \in R

LEMMA OrderedConcat ==
  ASSUME NEW X, NEW s \in Seq(X), NEW t \in Seq(X), NEW R,
         Ordered(s, R), Ordered(t, R),
         \A x \in Ran(s), y \in Ran(t) : <<x, y>> \in R
  PROVE  Ordered(s \o t, R)
<1> DEFINE w == s \o t
<1>1. /\ w \in Seq(X) /\ Len(w) = Len(s) + Len(t)
      /\ Len(s) \in Nat /\ Len(t) \in Nat
      /\ \A i \in 1..Len(w) : w[i] = IF i <= Len(s) THEN s[i] ELSE t[i - Len(s)]
  OBVIOUS
<1> HIDE DEF w
<1> SUFFICES ASSUME NEW i \in 1..Len(w), NEW j \in 1..Len(w), i < j
             PROVE  <<w[i], w[j]>> \in R
  BY DEF Ordered, w
<1>2. CASE j <= Len(s)
  <2>1. i \in 1..Len(s) /\ j \in 1..Len(s) /\ w[i] = s[i] /\ w[j] = s[j]
    BY <1>1, <1>2
  <2> QED
    BY <2>1 DEF Ordered
<1>3. CASE i <= Len(s) /\ j > Len(s)
  <2>1. i \in 1..Len(s) /\ j - Len(s) \in 1..Len(t)
    BY <1>1, <1>3
  <2>2. w[i] = s[i] /\ w[j] = t[j - Len(s)]
    BY <1>1, <1>3
  <2>3. w[i] \in Ran(s) /\ w[j] \in Ran(t)
    BY <2>1, <2>2 DEF Ran
  <2> QED
    BY <2>3
<1>4. CASE i > Len(s)
  <2> DEFINE p == i - Len(s)
             q == j - Len(s)
  <2>1. p \in 1..Len(t) /\ q \in 1..Len(t) /\ p < q
    BY <1>1, <1>4
  <2>2. w[i] = t[p] /\ w[j] = t[q]
    BY <1>1, <1>4
  <2> HIDE DEF p, q
  <2> QED
    BY <2>1, <2>2 DEF Ordered
<1> QED
  BY <1>1, <1>2, <1>3, <1>4

LEMMA OrderedRemoved ==
  ASSUME NEW X, NEW s \in Seq(X), NEW i \in 1..Len(s), NEW R, Ordered(s, R)
  PROVE  Ordered(Removed(s, i), R)
<1> DEFINE w == Removed(s, i)
           at(j) == IF j < i THEN j ELSE j + 1
<1>1. /\ w \in Seq(X) /\ Len(w) = Len(s) - 1
      /\ \A j \in 1..(Len(s) - 1) : w[j] = s[at(j)]
  BY RemovedIs
<1>2. i \in Nat /\ Len(s) \in Nat
  OBVIOUS
<1>3. /\ \A j \in 1..(Len(s) - 1) : at(j) \in 1..Len(s)
      /\ \A j, k \in 1..(Len(s) - 1) : j < k => at(j) < at(k)
  BY <1>2
<1> HIDE DEF w, at
<1>4. ASSUME NEW j \in 1..Len(w), NEW k \in 1..Len(w), j < k
      PROVE  <<w[j], w[k]>> \in R
  <2>1. /\ at(j) \in 1..Len(s) /\ at(k) \in 1..Len(s) /\ at(j) < at(k)
        /\ w[j] = s[at(j)] /\ w[k] = s[at(k)]
    BY <1>1, <1>3, <1>4
  <2> QED
    BY <2>1 DEF Ordered
<1> QED
  BY <1>4 DEF Ordered, w

-----------------------------------------------------------------------------

Kinds == {"hello", "x", "level0", "level1", "payload", "ack", "share", "eof"}

Message == [c : Chan, kind : Kinds, round : 0..Rounds, nodes : Seq(Node)]

Boxes == [Node -> Seq(Message)]

LEMMA After ==
  ASSUME NEW box \in Boxes, NEW out \in Boxes
  PROVE  /\ box ++ out \in Boxes
         /\ \A k \in Node : Ran((box ++ out)[k]) = Ran(box[k]) \cup Ran(out[k])
<1>1. \A k \in Node : box[k] \in Seq(Message) /\ out[k] \in Seq(Message)
  BY DEF Boxes
<1>2. \A k \in Node : (box ++ out)[k] = box[k] \o out[k]
  BY DEF ++
<1>3. \A k \in Node :
        /\ (box ++ out)[k] \in Seq(Message)
        /\ Ran((box ++ out)[k]) = Ran(box[k]) \cup Ran(out[k])
  <2> TAKE k \in Node
  <2>1. box[k] \in Seq(Message) /\ out[k] \in Seq(Message)
    BY <1>1
  <2>2. /\ box[k] \o out[k] \in Seq(Message)
        /\ Ran(box[k] \o out[k]) = Ran(box[k]) \cup Ran(out[k])
    BY <2>1, RanConcat
  <2> QED
    BY <1>2, <2>2
<1>4. box ++ out = [k \in Node |-> (box ++ out)[k]]
  BY DEF ++
<1>5. box ++ out \in Boxes
  BY <1>3, <1>4 DEF Boxes
<1> QED
  BY <1>3, <1>5

LEMMA AfterOrdered ==
  ASSUME NEW box \in Boxes, NEW out \in Boxes, NEW R, NEW k \in Node,
         Ordered(box[k], R), Ordered(out[k], R),
         \A x \in Ran(box[k]), y \in Ran(out[k]) : <<x, y>> \in R
  PROVE  Ordered((box ++ out)[k], R)
<1>1. box[k] \in Seq(Message) /\ out[k] \in Seq(Message)
  BY DEF Boxes
<1>2. (box ++ out)[k] = box[k] \o out[k]
  BY DEF ++
<1> QED
  BY <1>1, <1>2, OrderedConcat

LEMMA Taken ==
  ASSUME inbox \in Boxes, NEW n \in Node, NEW i \in 1..Len(inbox[n])
  PROVE  /\ Take(n, i) \in Boxes
         /\ Take(n, i)[n] = Removed(inbox[n], i)
         /\ \A k \in Node : k # n => Take(n, i)[k] = inbox[k]
         /\ \A k \in Node : Ran(Take(n, i)[k]) \subseteq Ran(inbox[k])
         /\ \A k \in Node : \A u \in Ran(inbox[k]) :
              k # n \/ u # inbox[n][i] => u \in Ran(Take(n, i)[k])
<1>1. inbox[n] \in Seq(Message)
  BY DEF Boxes
<1>2. /\ Take(n, i)[n] = Removed(inbox[n], i)
      /\ \A k \in Node : k # n => Take(n, i)[k] = inbox[k]
  BY DEF Take, Removed, Boxes
<1>3. Removed(inbox[n], i) \in Seq(Message)
  BY <1>1, RemovedIs
<1>4. Take(n, i) \in Boxes
  BY <1>3 DEF Take, Removed, Boxes
<1>5. /\ Ran(Removed(inbox[n], i)) \subseteq Ran(inbox[n])
      /\ \A x \in Ran(inbox[n]) :
           x # inbox[n][i] => x \in Ran(Removed(inbox[n], i))
  BY <1>1, RanRemoved
<1> QED
  BY <1>2, <1>4, <1>5

LEMMA TakenOrdered ==
  ASSUME inbox \in Boxes, NEW n \in Node, NEW i \in 1..Len(inbox[n]), NEW R,
         NEW k \in Node, Ordered(inbox[k], R)
  PROVE  Ordered(Take(n, i)[k], R)
<1>1. inbox[n] \in Seq(Message)
  BY DEF Boxes
<1> QED
  BY <1>1, Taken, OrderedRemoved

LEMMA NothingSent ==
  Nothing \in Boxes /\ \A k \in Node : Ran(Nothing[k]) = {}
BY DEF Nothing, Boxes, Ran

LEMMA Posted ==
  ASSUME NEW to, NEW m \in Message
  PROVE  /\ Post(to, m) \in Boxes
         /\ \A k \in Node : \A u \in Ran(Post(to, m)[k]) :
              k = to /\ u = m /\ ~Closed(k, m.c)
         /\ to \in Node /\ ~Closed(to, m.c) => m \in Ran(Post(to, m)[to])
         /\ \A R : \A k \in Node : Ordered(Post(to, m)[k], R)
<1>1. <<m>> \in Seq(Message) /\ <<>> \in Seq(Message)
  OBVIOUS
<1>2. Ran(<<m>>) = {m} /\ Ran(<<>>) = {}
  BY DEF Ran
<1>3. \A R : Ordered(<<m>>, R) /\ Ordered(<<>>, R)
  BY DEF Ordered
<1>4. \A k \in Node : Post(to, m)[k] = <<m>> \/ Post(to, m)[k] = <<>>
  BY DEF Post
<1>5. Post(to, m) \in Boxes
  BY <1>1 DEF Post, Boxes
<1> QED
  BY <1>2, <1>3, <1>4, <1>5 DEF Post

LEMMA Key ==
  ASSUME NEW n, NEW act, NEW k, Has(n, act, k)
  PROVE  \E i \in 1..Len(act) : At(n, act, k) = act[i] /\ Other(n, act[i]) = k
BY DEF Has, At

LEMMA PostedEach ==
  ASSUME NEW n \in Node, NEW chans \in Seq(Chan), NEW kind \in Kinds,
         NEW r \in 0..Rounds
  PROVE  /\ PostEach(n, chans, kind, r) \in Boxes
         /\ \A k \in Node : \A u \in Ran(PostEach(n, chans, kind, r)[k]) :
              /\ u.c \in Ran(chans) /\ Other(n, u.c) = k /\ ~Closed(k, u.c)
              /\ u = [c |-> u.c, kind |-> kind, round |-> r, nodes |-> <<>>]
         /\ \A R : \A k \in Node : Ordered(PostEach(n, chans, kind, r)[k], R)
<1> DEFINE M(c) == [c |-> c, kind |-> kind, round |-> r, nodes |-> <<>>]
           P == PostEach(n, chans, kind, r)
<1>1. \A c \in Chan : M(c) \in Message
  BY DEF Message
<1>2. \A c : [Msg(c, kind) EXCEPT !.round = r] = M(c)
  BY DEF Msg
<1>3. ASSUME NEW k \in Node
      PROVE  \/ P[k] = <<>>
             \/ \E c \in Ran(chans) :
                  /\ Other(n, c) = k /\ ~Closed(k, c)
                  /\ P[k] = <<M(c)>>
  <2>1. CASE Has(n, chans, k) /\ ~Closed(k, At(n, chans, k))
    <3>1. PICK i \in 1..Len(chans) :
            At(n, chans, k) = chans[i] /\ Other(n, chans[i]) = k
      BY <2>1, Key
    <3>2. P[k] = <<[Msg(chans[i], kind) EXCEPT !.round = r]>>
      BY <2>1, <3>1 DEF PostEach
    <3>3. P[k] = <<M(chans[i])>>
      BY <3>2, <1>2
    <3>4. chans[i] \in Ran(chans)
      BY DEF Ran
    <3> QED
      BY <2>1, <3>1, <3>3, <3>4
  <2>2. CASE ~(Has(n, chans, k) /\ ~Closed(k, At(n, chans, k)))
    BY <2>2 DEF PostEach
  <2> QED
    BY <2>1, <2>2
<1>4. Ran(chans) \subseteq Chan
  BY RanType
<1>5. \A k \in Node : P[k] \in Seq(Message)
  <2> TAKE k \in Node
  <2>1. <<>> \in Seq(Message)
    OBVIOUS
  <2>2. \A c \in Ran(chans) : <<M(c)>> \in Seq(Message)
    <3> TAKE c \in Ran(chans)
    <3>1. M(c) \in Message
      BY <1>1, <1>4
    <3> HIDE DEF M
    <3> QED
      BY <3>1
  <2> HIDE DEF M, P
  <2> QED
    BY <1>3, <2>1, <2>2
<1>6. P = [k \in Node |-> P[k]]
  BY DEF PostEach
<1>7. P \in Boxes
  <2> HIDE DEF P
  <2> QED
    BY <1>5, <1>6 DEF Boxes
<1>8. \A x : Ran(<<x>>) = {x}
  BY DEF Ran
<1>9. Ran(<<>>) = {}
  BY DEF Ran
<1>10. \A R : (\A x : Ordered(<<x>>, R)) /\ Ordered(<<>>, R)
  BY DEF Ordered
<1>11. \A k \in Node : \A u \in Ran(P[k]) :
         /\ u.c \in Ran(chans) /\ Other(n, u.c) = k /\ ~Closed(k, u.c)
         /\ u = M(u.c)
  <2> TAKE k \in Node
  <2> TAKE u \in Ran(P[k])
  <2>1. PICK c \in Ran(chans) :
                  /\ Other(n, c) = k /\ ~Closed(k, c)
                  /\ P[k] = <<M(c)>>
    <3> HIDE DEF P, M
    <3> QED
      BY <1>3, <1>9
  <2>2. u = M(c)
    <3> HIDE DEF P, M
    <3> QED
      BY <2>1, <1>8
  <2>3. u.c = c
    BY <2>2
  <2> HIDE DEF P, M
  <2> QED
    BY <2>1, <2>2, <2>3
<1>12. \A R : \A k \in Node : Ordered(P[k], R)
  <2> HIDE DEF P, M
  <2> QED
    BY <1>3, <1>10
<1> QED
  BY <1>7, <1>11, <1>12

-----------------------------------------------------------------------------
(* The types.                                                              *)

States == {"none", "level", "payload", "sign", "hold", "closed", "failed"}

Task ==
  [pc : {"idle", "connect", "ack", "share", "sleep", "sleep2"} \cup Ended,
   wait : Chan \cup {NoChan}, from : Chan \cup {NoChan}, list : Seq(Node),
   opened : Seq(Chan), asked : Nat, round : 0..Rounds, members : Seq(Chan),
   at : Nat, rebound : BOOLEAN]

Reached(t) == {t.opened[i].b : i \in 1..Len(t.opened)}

(* What the fields of a task are, whatever it waits for: the channels it   *)
(* opened lead to different nodes, which it is not still to connect to.    *)
TaskData(n, g, t) ==
  /\ t \in Task
  /\ t.from # NoChan => t.from.b = n /\ t.from.g = g
  /\ Injective(t.list) /\ n \notin Ran(t.list)
  /\ \A c \in Ran(t.opened) : c.a = n /\ c.g = g
  /\ \A i, j \in 1..Len(t.opened) : t.opened[i].b = t.opened[j].b => i = j
  /\ \A i \in 1..Len(t.opened) : t.opened[i].b \notin Ran(t.list)

TaskOK(n, g, t) ==
  /\ TaskData(n, g, t)
  /\ t.pc = "connect" =>
       /\ t.wait \in Chan /\ t.wait.a = n /\ t.wait.g = g /\ t.asked = 0
       /\ t.wait.b \notin Ran(t.list)
       /\ \A i \in 1..Len(t.opened) : t.opened[i].b # t.wait.b
  /\ t.pc = "ack" => t.wait \in Chan /\ t.asked \in 1..Len(t.opened)
  /\ t.pc = "share" => t.at \in 1..Len(t.members) /\ t.wait = t.members[t.at]

(* A dictionary has a channel of n for every key.                          *)
Dictionary(n, act) ==
  /\ act \in Seq(Chan)
  /\ \A i \in 1..Len(act) : n \in {act[i].a, act[i].b}
  /\ \A i, j \in 1..Len(act) : Other(n, act[i]) = Other(n, act[j]) => i = j

(* A message that is sent to k.                                            *)
MessageOK(k, u) ==
  /\ k \in {u.c.a, u.c.b}
  /\ u.kind = "payload" => Injective(u.nodes) /\ k \notin Ran(u.nodes)

MessagesOK(f) ==
  f \in Boxes /\ \A k \in Node : \A u \in Ran(f[k]) : MessageOK(k, u)

Requests == [Sign -> [main : Node \cup {None}, peers : Seq(Node), nodes : SUBSET Node]]

Types ==
  /\ request \in Requests
  /\ task \in [Node \X Sign -> Task]
  /\ \A n \in Node, g \in Sign : TaskOK(n, g, task[<<n, g>>])
  /\ resp \in [Chan -> States]
  /\ down \in SUBSET Node
  /\ active \in [Node -> Seq(Chan)]
  /\ \A n \in Node : Dictionary(n, active[n])
  /\ MessagesOK(inbox)

LEMMA NotAChannel == NoChan \notin Chan
BY NoneAssumption DEF NoChan, Chan

LEMMA TypesTypeOK == Types => TypeOK
<1> SUFFICES ASSUME Types PROVE TypeOK
  OBVIOUS
<1>1. request \in [Sign -> [main : Node \cup {None}, peers : Seq(Node),
                            nodes : SUBSET Node]]
  BY DEF Types, Requests
<1>2. ASSUME NEW p \in Node \X Sign
      PROVE  /\ task[p].pc \in {"idle", "connect", "ack", "share", "sleep", "sleep2"}
                                  \cup Ended
             /\ task[p].wait \in Chan \cup {NoChan}
             /\ task[p].from \in Chan \cup {NoChan}
             /\ task[p].round \in 0..Rounds
             /\ task[p].pc \in {"connect", "ack", "share"} => task[p].wait # NoChan
             /\ task[p].pc = "share" => task[p].members[task[p].at] = task[p].wait
  <2>1. PICK n \in Node, g \in Sign : p = <<n, g>>
    OBVIOUS
  <2>2. TaskOK(n, g, task[p])
    BY <2>1 DEF Types
  <2> DEFINE t == task[p]
  <2>3. t \in Task
    BY <2>2 DEF TaskOK, TaskData
  <2>4. t.pc = "share" => t.members[t.at] \in Chan /\ t.wait = t.members[t.at]
    <3>1. t.members \in Seq(Chan)
      BY <2>3 DEF Task
    <3> HIDE DEF t
    <3> QED
      BY <2>2, <3>1 DEF TaskOK, t
  <2>5. t.pc \in {"connect", "ack"} => t.wait \in Chan
    BY <2>2 DEF TaskOK
  <2> HIDE DEF t
  <2> QED
    BY <2>3, <2>4, <2>5, NotAChannel DEF Task, t
<1>3. ASSUME NEW n \in Node, NEW i \in 1..Len(active[n])
      PROVE  /\ active[n][i] \in Chan
             /\ n \in {active[n][i].a, active[n][i].b}
             /\ \A j \in 1..(i - 1) : Other(n, active[n][j]) # Other(n, active[n][i])
  <2>1. Dictionary(n, active[n]) /\ active[n] \in Seq(Chan)
    BY DEF Types
  <2>2. ASSUME NEW j \in 1..(i - 1)
        PROVE  Other(n, active[n][j]) # Other(n, active[n][i])
    <3>1. j \in 1..Len(active[n]) /\ j # i
      BY <2>1
    <3> QED
      BY <2>1, <3>1 DEF Dictionary
  <2> QED
    BY <2>1, <2>2 DEF Dictionary
<1>4. resp \in [Chan -> {"none", "level", "payload", "sign", "hold", "closed",
                         "failed"}] /\ down \subseteq Node
  BY DEF Types, States
<1> QED
  BY <1>1, <1>2, <1>3, <1>4 DEF TypeOK

LEMMA InitTypes == Init => Types
<1> SUFFICES ASSUME Init PROVE Types
  OBVIOUS
<1>0. Idle \in Task /\ <<>> \in Seq(Node)
  BY BoundAssumption DEF Idle, Task, Ended
<1>1. request \in Requests
  BY <1>0 DEF Init, Requests
<1>2. task \in [Node \X Sign -> Task]
  BY <1>0 DEF Init
<1>3. ASSUME NEW n \in Node, NEW g \in Sign PROVE TaskOK(n, g, task[<<n, g>>])
  <2>1. task[<<n, g>>] = Idle
    BY DEF Init
  <2> QED
    BY <2>1, <1>0 DEF TaskOK, TaskData, Idle, Ran, Injective
<1>4. resp \in [Chan -> States] /\ down \in SUBSET Node
  BY DEF Init, States
<1>5. active \in [Node -> Seq(Chan)] /\ \A n \in Node : Dictionary(n, active[n])
  BY DEF Init, Dictionary
<1>6. MessagesOK(inbox)
  BY DEF Init, MessagesOK, Boxes, Ran
<1> QED
  BY <1>1, <1>2, <1>3, <1>4, <1>5, <1>6 DEF Types

-----------------------------------------------------------------------------
(* Operations on a dictionary.                                             *)

LEMMA KeepDictionary ==
  ASSUME NEW n, NEW act, Dictionary(n, act), NEW S
  PROVE  /\ Dictionary(n, Keep(act, S)) /\ Ran(Keep(act, S)) = Ran(act) \cap S
<1> DEFINE k == Keep(act, S)
<1>0. act \in Seq(Chan)
  BY DEF Dictionary
<1>1. PICK e \in [1..Len(k) -> 1..Len(act)] :
              /\ \A j \in 1..Len(k) :
                   /\ k[j] = act[e[j]] /\ act[e[j]] \in S
                   /\ \A i \in 1..(j - 1) : e[i] < e[j]
              /\ \A p \in 1..Len(act) : act[p] \in S =>
                   \E j \in 1..Len(k) : e[j] = p
  BY <1>0, KeepElements
<1>2. k \in Seq(Chan)
  BY <1>0, KeepElements
<1> HIDE DEF k
<1>3. ASSUME NEW i \in 1..Len(k), NEW j \in 1..Len(k),
             Other(n, k[i]) = Other(n, k[j]), i # j
      PROVE  FALSE
  <2>1. k[i] = act[e[i]] /\ k[j] = act[e[j]] /\ e[i] = e[j]
    BY <1>1, <1>3 DEF Dictionary
  <2>2. i \in 1..(j - 1) \/ j \in 1..(i - 1)
    BY <1>2, <1>3
  <2>3. e[i] \in 1..Len(act) /\ e[j] \in 1..Len(act)
    BY <1>1
  <2>4. e[i] < e[j] \/ e[j] < e[i]
    BY <1>1, <2>2
  <2> QED
    BY <2>1, <2>3, <2>4, <1>0
<1>4. \A j \in 1..Len(k) : n \in {k[j].a, k[j].b}
  BY <1>1 DEF Dictionary
<1>5. Ran(k) = Ran(act) \cap S
  <2>1. Ran(k) \subseteq Ran(act) \cap S
    BY <1>1 DEF Ran
  <2>2. ASSUME NEW x \in Ran(act), x \in S PROVE x \in Ran(k)
    <3>1. PICK p \in 1..Len(act) : x = act[p]
      BY <2>2 DEF Ran
    <3>2. PICK j \in 1..Len(k) : e[j] = p
      BY <1>1, <3>1, <2>2
    <3>3. k[j] = x
      BY <1>1, <3>1, <3>2
    <3> QED
      BY <3>3 DEF Ran
  <2> QED
    BY <2>1, <2>2
<1> QED
  BY <1>2, <1>3, <1>4, <1>5 DEF Dictionary, k

LEMMA WithoutDictionary ==
  ASSUME NEW n, NEW act, Dictionary(n, act), NEW ks
  PROVE  /\ Dictionary(n, Without(n, act, ks))
         /\ Ran(Without(n, act, ks)) = {c \in Ran(act) : Other(n, c) \notin ks}
<1>1. Ran(act) \subseteq Chan
  BY RanType DEF Dictionary
<1> DEFINE S == {c \in Chan : Other(n, c) \notin ks}
<1>2. Dictionary(n, Keep(act, S)) /\ Ran(Keep(act, S)) = Ran(act) \cap S
  BY KeepDictionary
<1> QED
  BY <1>1, <1>2 DEF Without

LEMMA HasRan ==
  ASSUME NEW n, NEW act, NEW k
  PROVE  Has(n, act, k) <=> \E c \in Ran(act) : Other(n, c) = k
BY DEF Has, Ran

LEMMA AppendDictionary ==
  ASSUME NEW n, NEW act, Dictionary(n, act), NEW c \in Chan, n \in {c.a, c.b},
         ~Has(n, act, Other(n, c))
  PROVE  Dictionary(n, Append(act, c)) /\ Ran(Append(act, c)) = Ran(act) \cup {c}
<1> DEFINE w == Append(act, c)
<1>1. /\ act \in Seq(Chan) /\ w \in Seq(Chan) /\ Len(w) = Len(act) + 1
      /\ Len(act) \in Nat /\ w[Len(act) + 1] = c
      /\ \A i \in 1..Len(act) : w[i] = act[i]
  BY DEF Dictionary
<1> HIDE DEF w
<1>2. \A i \in 1..Len(w) : i \in 1..Len(act) \/ i = Len(act) + 1
  BY <1>1
<1>3. \A i \in 1..Len(w) : n \in {w[i].a, w[i].b}
  BY <1>1, <1>2 DEF Dictionary
<1>4. \A i, j \in 1..Len(w) : Other(n, w[i]) = Other(n, w[j]) => i = j
  BY <1>1, <1>2 DEF Dictionary, Has
<1>5. Ran(w) = Ran(act) \cup {c}
  <2>1. \A i \in 1..Len(act) : i \in 1..Len(w)
    BY <1>1
  <2>2. Len(act) + 1 \in 1..Len(w)
    BY <1>1
  <2> QED
    BY <1>1, <1>2, <2>1, <2>2 DEF Ran
<1> QED
  BY <1>1, <1>3, <1>4, <1>5 DEF Dictionary, w

LEMMA PutDictionary ==
  ASSUME NEW n, NEW act, Dictionary(n, act), NEW c \in Chan, n \in {c.a, c.b}
  PROVE  /\ Dictionary(n, Put(n, act, c))
         /\ Ran(Put(n, act, c)) = {d \in Ran(act) : Other(n, d) # Other(n, c)} \cup {c}
<1>1. CASE ~Has(n, act, Other(n, c))
  <2>1. Put(n, act, c) = Append(act, c)
    BY <1>1 DEF Put
  <2>2. \A d \in Ran(act) : Other(n, d) # Other(n, c)
    BY <1>1, HasRan
  <2> QED
    BY <1>1, <2>1, <2>2, AppendDictionary
<1>2. CASE Has(n, act, Other(n, c))
  <2> DEFINE w == Put(n, act, c)
  <2>1. w = [i \in 1..Len(act) |->
               IF Other(n, act[i]) = Other(n, c) THEN c ELSE act[i]]
    BY <1>2 DEF Put
  <2>2. act \in Seq(Chan)
    BY DEF Dictionary
  <2>3. w \in Seq(Chan) /\ Len(w) = Len(act)
    BY <2>1, <2>2
  <2>4. \A i \in 1..Len(act) :
          w[i] = IF Other(n, act[i]) = Other(n, c) THEN c ELSE act[i]
    BY <2>1
  <2> HIDE DEF w
  <2>5. \A i \in 1..Len(w) : n \in {w[i].a, w[i].b}
    BY <2>3, <2>4 DEF Dictionary
  <2>6. \A i \in 1..Len(w) : Other(n, w[i]) = Other(n, act[i])
    BY <2>3, <2>4
  <2>7. \A i, j \in 1..Len(w) : Other(n, w[i]) = Other(n, w[j]) => i = j
    BY <2>3, <2>6 DEF Dictionary
  <2>8. PICK p \in 1..Len(act) : Other(n, act[p]) = Other(n, c)
    BY <1>2 DEF Has
  <2>9. c \in Ran(w)
    BY <2>3, <2>4, <2>8 DEF Ran
  <2>10. \A d \in Ran(act) : Other(n, d) # Other(n, c) => d \in Ran(w)
    BY <2>3, <2>4 DEF Ran
  <2>11. \A d \in Ran(w) : d = c \/ (d \in Ran(act) /\ Other(n, d) # Other(n, c))
    BY <2>3, <2>4 DEF Ran
  <2>12. Ran(w) = {d \in Ran(act) : Other(n, d) # Other(n, c)} \cup {c}
    BY <2>9, <2>10, <2>11
  <2> QED
    BY <2>3, <2>5, <2>7, <2>12 DEF Dictionary, w
<1> QED
  BY <1>1, <1>2

LEMMA SmallDictionary ==
  ASSUME NEW n
  PROVE  /\ Dictionary(n, <<>>) /\ Ran(<<>>) = {}
         /\ \A c \in Chan : /\ n \in {c.a, c.b} => Dictionary(n, <<c>>)
                            /\ Ran(<<c>>) = {c}
BY DEF Dictionary, Ran

-----------------------------------------------------------------------------
(* How the steps keep them.                                                *)

(* What is sent.                                                           *)
LEMMA MessagesAfter ==
  ASSUME NEW box, NEW out, MessagesOK(box), MessagesOK(out)
  PROVE  MessagesOK(box ++ out)
BY After DEF MessagesOK

LEMMA MessagesTaken ==
  ASSUME Types, NEW n \in Node, NEW i \in 1..Len(inbox[n])
  PROVE  MessagesOK(Take(n, i)) /\ inbox[n][i] \in Message /\ MessageOK(n, inbox[n][i])
<1>1. inbox \in Boxes /\ MessagesOK(inbox)
  BY DEF Types, MessagesOK
<1>2. inbox[n] \in Seq(Message) /\ inbox[n][i] \in Ran(inbox[n])
  BY <1>1 DEF Boxes, Ran
<1>3. inbox[n][i] \in Message
  BY <1>2, RanType
<1>4. MessagesOK(Take(n, i))
  BY <1>1, Taken DEF MessagesOK
<1> QED
  BY <1>1, <1>2, <1>3, <1>4 DEF MessagesOK

LEMMA MessagesNothing == MessagesOK(Nothing)
BY NothingSent DEF MessagesOK

LEMMA MessagesPosted ==
  ASSUME NEW to, NEW m \in Message, MessageOK(to, m)
  PROVE  MessagesOK(Post(to, m))
BY Posted DEF MessagesOK

LEMMA MsgType ==
  ASSUME NEW c \in Chan, NEW kind \in Kinds
  PROVE  Msg(c, kind) \in Message
BY BoundAssumption DEF Msg, Message

LEMMA MessagesPlain ==
  ASSUME NEW c \in Chan, NEW to \in {c.a, c.b}, NEW kind \in Kinds \ {"payload"}
  PROVE  MessagesOK(Post(to, Msg(c, kind)))
<1>1. MessageOK(to, Msg(c, kind))
  BY DEF MessageOK, Msg
<1> QED
  BY <1>1, MsgType, MessagesPosted

LEMMA OtherEnd ==
  ASSUME NEW c \in Chan, NEW n \in {c.a, c.b}
  PROVE  /\ Other(n, c) \in Node /\ Other(n, c) # n
         /\ Other(n, c) \in {c.a, c.b} /\ Other(Other(n, c), c) = n
BY DEF Chan, Other

LEMMA MessagesEach ==
  ASSUME NEW n \in Node, NEW chans, Dictionary(n, chans),
         NEW kind \in Kinds \ {"payload"}, NEW r \in 0..Rounds
  PROVE  MessagesOK(PostEach(n, chans, kind, r))
<1>1. chans \in Seq(Chan)
  BY DEF Dictionary
<1> DEFINE P == PostEach(n, chans, kind, r)
<1>2. /\ P \in Boxes
      /\ \A k \in Node : \A u \in Ran(P[k]) :
              /\ u.c \in Ran(chans) /\ Other(n, u.c) = k
              /\ u = [c |-> u.c, kind |-> kind, round |-> r, nodes |-> <<>>]
  BY <1>1, PostedEach
<1> HIDE DEF P
<1>3. ASSUME NEW k \in Node, NEW u \in Ran(P[k]) PROVE MessageOK(k, u)
  <2>1. u.c \in Chan /\ n \in {u.c.a, u.c.b}
    BY <1>1, <1>2, <1>3, RanType DEF Dictionary, Ran
  <2>2. k \in {u.c.a, u.c.b}
    BY <1>2, <2>1, OtherEnd
  <2>3. u.kind # "payload"
    BY <1>2
  <2> QED
    BY <2>2, <2>3 DEF MessageOK
<1> QED
  BY <1>2, <1>3 DEF MessagesOK, P

LEMMA MessagesEofs ==
  ASSUME NEW n \in Node, NEW chans, Dictionary(n, chans)
  PROVE  MessagesOK(Eofs(n, chans)) /\ \A d \in Dropped(n, chans) : MessagesOK(d)
<1>1. 0 \in 0..Rounds /\ "eof" \in Kinds \ {"payload"}
  BY BoundAssumption DEF Kinds
<1>2. MessagesOK(Eofs(n, chans))
  BY <1>1, MessagesEach DEF Eofs
<1> QED
  BY <1>2, MessagesNothing DEF Dropped

-----------------------------------------------------------------------------
(* The ways a step of smpc_sign() ends keep the types.                     *)

LEMMA LeaveType ==
  ASSUME NEW t \in Task, NEW label \in Ended
  PROVE  Leave(t, label) \in Task
<1>1. Idle \in Task
  BY BoundAssumption DEF Idle, Task
<1>2. t.round \in 0..Rounds
  BY DEF Task
<1>3. [Idle EXCEPT !.pc = label] \in Task
  BY <1>1 DEF Task
<1> QED
  BY <1>2, <1>3 DEF Task, Leave

LEMMA AwaitTypes ==
  ASSUME Types, UNCHANGED <<request, down>>,
         NEW n \in Node, NEW g \in Sign, NEW t, NEW act, NEW box, NEW out,
         TaskOK(n, g, t), Dictionary(n, act), MessagesOK(box), MessagesOK(out),
         Await(n, g, t, act, box, out)
  PROVE  Types'
<1>1. request' \in Requests /\ down' \in SUBSET Node
  BY DEF Types
<1>2. t \in Task
  BY DEF TaskOK, TaskData
<1>3. task' \in [Node \X Sign -> Task]
  BY <1>2 DEF Types, Await
<1>4. ASSUME NEW k \in Node, NEW h \in Sign PROVE TaskOK(k, h, task'[<<k, h>>])
  <2>1. task'[<<k, h>>] = IF <<k, h>> = <<n, g>> THEN t ELSE task[<<k, h>>]
    BY DEF Types, Await
  <2> QED
    BY <2>1 DEF Types
<1>5. resp' \in [Chan -> States]
  BY DEF Types, Await, States
<1>6. act \in Seq(Chan)
  BY DEF Dictionary
<1>7. active' \in [Node -> Seq(Chan)] /\ \A k \in Node : Dictionary(k, active'[k])
  BY <1>6 DEF Types, Await
<1>8. MessagesOK(inbox')
  BY MessagesAfter DEF Await
<1> QED
  BY <1>1, <1>3, <1>4, <1>5, <1>7, <1>8 DEF Types

LEMMA RaiseTypes ==
  ASSUME Types, UNCHANGED <<request, down>>,
         NEW n \in Node, NEW g \in Sign, NEW t, NEW act, NEW box, NEW out,
         TaskData(n, g, t), Dictionary(n, act), MessagesOK(box), MessagesOK(out),
         Raise(n, g, t, act, box, out)
  PROVE  Types'
<1>1. request' \in Requests /\ down' \in SUBSET Node
  BY DEF Types
<1>2. t \in Task
  BY DEF TaskData
<1> DEFINE f == Leave(t, "failed")
<1>3. f \in Task
  BY <1>2, LeaveType DEF Ended
<1>4. TaskOK(n, g, f)
  BY <1>3 DEF TaskOK, TaskData, Leave, Idle, Ran, Injective
<1>5. task' = [task EXCEPT ![<<n, g>>] = f]
  BY DEF Raise
<1> HIDE DEF f
<1>6. task' \in [Node \X Sign -> Task]
  BY <1>3, <1>5 DEF Types
<1>7. ASSUME NEW k \in Node, NEW h \in Sign PROVE TaskOK(k, h, task'[<<k, h>>])
  <2>1. task'[<<k, h>>] = IF <<k, h>> = <<n, g>> THEN f ELSE task[<<k, h>>]
    BY <1>5 DEF Types
  <2> QED
    BY <2>1, <1>4 DEF Types
<1>8. resp' \in [Chan -> States]
  BY DEF Types, Raise, States
<1>9. /\ active' \in [Node -> Seq(Chan)] /\ \A k \in Node : Dictionary(k, active'[k])
      /\ MessagesOK(inbox')
  <2>1. CASE t.from = NoChan
    <3>1. active' = [active EXCEPT ![n] = act] /\ inbox' = box ++ out
      BY <2>1 DEF Raise
    <3>2. act \in Seq(Chan)
      BY DEF Dictionary
    <3> QED
      BY <3>1, <3>2, MessagesAfter DEF Types
  <2>2. CASE t.from # NoChan
    <3> DEFINE w == Without(n, act, {t.from.a})
    <3>1. active' = [active EXCEPT ![n] = w]
      BY <2>2 DEF Raise
    <3>2. PICK d \in Dropped(n, <<t.from>>) : inbox' = box ++ (out ++ d)
      BY <2>2 DEF Raise
    <3>3. Dictionary(n, w)
      BY WithoutDictionary
    <3>4. w \in Seq(Chan)
      BY <3>3 DEF Dictionary
    <3>5. t.from \in Chan /\ n \in {t.from.a, t.from.b}
      BY <1>2, <2>2 DEF TaskData, Task
    <3>6. Dictionary(n, <<t.from>>)
      BY <3>5, SmallDictionary
    <3>7. MessagesOK(d)
      BY <3>6, MessagesEofs
    <3>8. MessagesOK(out ++ d)
      BY <3>7, MessagesAfter
    <3>9. MessagesOK(inbox')
      BY <3>2, <3>8, MessagesAfter
    <3> HIDE DEF w
    <3> QED
      BY <3>1, <3>3, <3>4, <3>9 DEF Types
  <2> QED
    BY <2>1, <2>2
<1> QED
  BY <1>1, <1>6, <1>7, <1>8, <1>9 DEF Types

LEMMA BeginRoundTypes ==
  ASSUME Types, UNCHANGED <<request, down>>,
         NEW n \in Node, NEW g \in Sign, NEW t, NEW act, NEW box, NEW out,
         NEW r \in 0..Rounds,
         TaskData(n, g, t), Dictionary(n, act), MessagesOK(box), MessagesOK(out),
         BeginRound(n, g, t, act, box, out, r)
  PROVE  Types'
<1>0. t \in Task /\ act \in Seq(Chan) /\ Rounds \in 0..Rounds
  BY BoundAssumption DEF TaskData, Dictionary
<1>1. CASE act = <<>>
  <2> DEFINE u == [t EXCEPT !.pc = "sleep", !.wait = NoChan, !.round = Rounds]
  <2>1. u \in Task
    BY <1>0 DEF Task
  <2>2. TaskData(n, g, u) /\ u.pc = "sleep"
    BY <1>0, <2>1 DEF TaskData, Task
  <2>3. Await(n, g, u, act, box, out)
    BY <1>1 DEF BeginRound
  <2> HIDE DEF u
  <2>4. TaskOK(n, g, u)
    BY <2>2 DEF TaskOK
  <2> QED
    BY <2>3, <2>4, AwaitTypes
<1>2. CASE act # <<>>
  <2> DEFINE u == [t EXCEPT !.pc = "share", !.wait = act[1], !.round = r,
                            !.members = act, !.at = 1, !.rebound = FALSE]
  <2>0. Len(act) \in Nat \ {0} /\ act[1] \in Chan
    BY <1>0, <1>2
  <2>1. u \in Task
    BY <1>0, <2>0 DEF Task
  <2>2. TaskData(n, g, u)
    BY <1>0, <2>1 DEF TaskData, Task
  <2>3. u.pc = "share" /\ u.at = 1 /\ u.members = act /\ u.wait = act[1]
    BY ONLY <1>0 DEF Task, u
  <2>4. Await(n, g, u, act, box, out ++ Shares(n, act, r))
    BY <1>2 DEF BeginRound
  <2> HIDE DEF u
  <2>5. TaskOK(n, g, u)
    BY <2>0, <2>2, <2>3 DEF TaskOK
  <2>6. MessagesOK(Shares(n, act, r))
    BY MessagesEach DEF Shares, Kinds
  <2>7. MessagesOK(out ++ Shares(n, act, r))
    BY <2>6, MessagesAfter
  <2> QED
    BY <2>4, <2>5, <2>7, AwaitTypes
<1> QED
  BY <1>1, <1>2

(* The nodes after the k-th one the task has connected to.                 *)
Rest(t, k) == [i \in 1..(Len(t.opened) - k) |-> t.opened[k + i].b]

LEMMA RestPeers ==
  ASSUME NEW n, NEW g, NEW t, TaskData(n, g, t), NEW k \in 1..Len(t.opened)
  PROVE  /\ Rest(t, k) \in Seq(Node) /\ Injective(Rest(t, k))
         /\ t.opened[k].b \notin Ran(Rest(t, k))
<1> DEFINE o == t.opened
           L == Len(o)
           w == Rest(t, k)
<1>1. o \in Seq(Chan) /\ L \in Nat /\ k \in 1..L
  BY DEF TaskData, Task
<1>2. \A i, j \in 1..L : o[i].b = o[j].b => i = j
  BY DEF TaskData
<1>3. w = [i \in 1..(L - k) |-> o[k + i].b]
  BY DEF Rest
<1>4. \A i \in 1..L : o[i].b \in Node
  BY <1>1 DEF Chan
<1> HIDE DEF o, w, L
<1>5. \A i \in 1..(L - k) : k + i \in 1..L /\ k + i # k
  BY <1>1
<1>6. L - k \in Nat
  BY <1>1
<1>7. w \in Seq(Node) /\ Len(w) = L - k
  BY <1>3, <1>4, <1>5, <1>6
<1>8. Injective(w)
  BY <1>1, <1>2, <1>3, <1>5, <1>7 DEF Injective
<1>9. o[k].b \notin Ran(w)
  BY <1>1, <1>2, <1>3, <1>5, <1>7 DEF Ran
<1> QED
  BY <1>7, <1>8, <1>9 DEF w, o

LEMMA AskTypes ==
  ASSUME Types, UNCHANGED <<request, down>>,
         NEW n \in Node, NEW g \in Sign, NEW t, NEW act, NEW box, NEW out,
         TaskData(n, g, t), Dictionary(n, act), MessagesOK(box), MessagesOK(out),
         t.asked < Len(t.opened),
         Ask(n, g, t, act, box, out)
  PROVE  Types'
<1> DEFINE k == t.asked + 1
           peer == t.opened[k].b
           c == At(n, act, peer)
<1>1. CASE Raise(n, g, t, act, box, out)
  BY <1>1, RaiseTypes
<1>2. CASE /\ Has(n, act, peer)
           /\ Await(n, g, [t EXCEPT !.pc = "ack", !.wait = c, !.asked = k], act, box,
             out ++ Post(peer, [Msg(c, "payload") EXCEPT
               !.nodes = [i \in 1..(Len(t.opened) - k) |-> t.opened[k + i].b]]))
  <2> DEFINE u == [t EXCEPT !.pc = "ack", !.wait = c, !.asked = k]
             m == [Msg(c, "payload") EXCEPT !.nodes = Rest(t, k)]
  <2>1. t \in Task /\ t.opened \in Seq(Chan) /\ k \in 1..Len(t.opened)
    BY DEF TaskData, Task
  <2>2. c \in Chan /\ n \in {c.a, c.b} /\ Other(n, c) = peer
    <3>1. PICK i \in 1..Len(act) : c = act[i] /\ Other(n, act[i]) = peer
      BY <1>2, Key
    <3> HIDE DEF c
    <3> QED
      BY <3>1 DEF Dictionary
  <2>3. peer \in {c.a, c.b}
    BY <2>2, OtherEnd
  <2>4. Rest(t, k) \in Seq(Node) /\ Injective(Rest(t, k)) /\ peer \notin Ran(Rest(t, k))
    BY <2>1, RestPeers
  <2>5. m \in Message /\ MessageOK(peer, m)
    <3>1. Msg(c, "payload") \in Message
      BY <2>2, MsgType DEF Kinds
    <3>2. Msg(c, "payload").c = c
      BY DEF Msg
    <3> HIDE DEF c, k
    <3> QED
      BY <2>3, <2>4, <3>1, <3>2 DEF MessageOK, Message
  <2>6. MessagesOK(out ++ Post(peer, m))
    <3> HIDE DEF m, peer
    <3>1. MessagesOK(Post(peer, m))
      BY <2>5, MessagesPosted
    <3> QED
      BY <3>1, MessagesAfter
  <2>7. Await(n, g, u, act, box, out ++ Post(peer, m))
    BY <1>2 DEF Rest
  <2>8. u \in Task
    <3>1. k \in Nat
      BY <2>1
    <3> HIDE DEF c, k
    <3> QED
      BY <3>1, <2>1, <2>2 DEF Task
  <2>9. TaskData(n, g, u)
    <3> HIDE DEF c
    <3> QED
      BY <2>8, <2>1 DEF TaskData, Task
  <2>10. u.pc = "ack" /\ u.wait = c /\ u.asked = k /\ u.opened = t.opened
    BY <2>1 DEF Task
  <2>11. TaskOK(n, g, u)
    <3> HIDE DEF u, c
    <3> QED
      BY <2>1, <2>2, <2>9, <2>10 DEF TaskOK
  <2> HIDE DEF u, m, c, peer, k
  <2> QED
    BY <2>6, <2>7, <2>11, AwaitTypes
<1> QED
  BY <1>1, <1>2 DEF Ask

LEMMA HeadTail ==
  ASSUME NEW s \in Seq(Node), s # <<>>
  PROVE  /\ Head(s) \in Ran(s) /\ Head(s) \in Node
         /\ Tail(s) \in Seq(Node)
         /\ Ran(Tail(s)) \subseteq Ran(s)
         /\ Ran(s) = Ran(Tail(s)) \cup {Head(s)}
         /\ Injective(s) => Injective(Tail(s)) /\ Head(s) \notin Ran(Tail(s))
<1> DEFINE w == Tail(s)
<1>1. /\ Len(s) \in Nat \ {0} /\ w \in Seq(Node) /\ Len(w) = Len(s) - 1
      /\ \A i \in 1..Len(w) : w[i] = s[i + 1]
      /\ Head(s) = s[1] /\ Head(s) \in Node
  OBVIOUS
<1> HIDE DEF w
<1>2. /\ \A i \in 1..Len(w) : i + 1 \in 1..Len(s) /\ i + 1 # 1
      /\ \A i \in 1..Len(s) : i = 1 \/ (i - 1 \in 1..Len(w) /\ (i - 1) + 1 = i)
      /\ 1 \in 1..Len(s)
  BY <1>1
<1>3. Ran(w) \subseteq Ran(s)
  BY <1>1, <1>2 DEF Ran
<1>4. Ran(s) \subseteq Ran(w) \cup {Head(s)}
  <2> SUFFICES ASSUME NEW i \in 1..Len(s), i # 1 PROVE s[i] \in Ran(w)
    BY <1>1 DEF Ran
  <2>1. i - 1 \in 1..Len(w) /\ w[i - 1] = s[i]
    BY <1>1, <1>2
  <2> QED
    BY <2>1 DEF Ran
<1>5. Head(s) \in Ran(s)
  BY <1>1, <1>2 DEF Ran
<1>6. ASSUME Injective(s) PROVE Injective(w) /\ Head(s) \notin Ran(w)
  <2>1. Head(s) \notin Ran(w)
    BY <1>1, <1>2, <1>6 DEF Ran, Injective
  <2>2. ASSUME NEW i \in 1..Len(w), NEW j \in 1..Len(w), w[i] = w[j] PROVE i = j
    <3>1. s[i + 1] = s[j + 1] /\ i + 1 \in 1..Len(s) /\ j + 1 \in 1..Len(s)
      BY <1>1, <1>2, <2>2
    <3>2. i + 1 = j + 1
      BY <3>1, <1>6 DEF Injective
    <3> QED
      BY <3>2
  <2> QED
    BY <2>1, <2>2 DEF Injective
<1> QED
  BY <1>1, <1>3, <1>4, <1>5, <1>6 DEF w

(* What a task that connects to its next peer has at hand.                 *)
ConnectReady(n, g, t) ==
  /\ TaskData(n, g, t) /\ t.asked = 0
  /\ t.list = <<>> /\ t.from = NoChan => Len(t.opened) > 0

LEMMA HelloTask ==
  ASSUME NEW n \in Node, NEW g \in Sign, NEW t, TaskData(n, g, t), t.asked = 0,
         t.list # <<>>
  PROVE  LET c == [a |-> n, b |-> Head(t.list), g |-> g]
         IN /\ c \in Chan
            /\ TaskOK(n, g, [t EXCEPT !.pc = "connect", !.wait = c,
                                      !.list = Tail(@)])
<1> DEFINE c == [a |-> n, b |-> Head(t.list), g |-> g]
           u == [t EXCEPT !.pc = "connect", !.wait = c, !.list = Tail(@)]
           l == t.list
<1>1. t \in Task /\ l \in Seq(Node) /\ l # <<>> /\ Injective(l) /\ n \notin Ran(l)
  BY DEF TaskData, Task
<1> HIDE DEF l
<1>2. /\ Head(l) \in Ran(l) /\ Head(l) \in Node
      /\ Tail(l) \in Seq(Node) /\ Ran(Tail(l)) \subseteq Ran(l)
      /\ Injective(Tail(l)) /\ Head(l) \notin Ran(Tail(l))
  BY <1>1, HeadTail
<1>3. c \in Chan
  BY <1>1, <1>2 DEF Chan, l
<1>4. u \in Task
  <2> HIDE DEF c
  <2> QED
    BY <1>1, <1>2, <1>3 DEF Task, l
<1>5. u.list = Tail(l) /\ u.opened = t.opened /\ u.from = t.from /\ u.wait = c
      /\ u.pc = "connect" /\ u.asked = 0
  BY <1>1 DEF Task, l
<1>6. c.a = n /\ c.b = Head(l) /\ c.g = g
  BY DEF l
<1> HIDE DEF u, c
<1>7. TaskData(n, g, u)
  BY <1>1, <1>2, <1>4, <1>5 DEF TaskData, l
<1>8. TaskOK(n, g, u)
  BY <1>1, <1>2, <1>3, <1>5, <1>6, <1>7 DEF TaskOK, TaskData, l
<1> QED
  BY <1>3, <1>8 DEF u, c

LEMMA ConnectNextTypes ==
  ASSUME Types, UNCHANGED <<request, down>>,
         NEW n \in Node, NEW g \in Sign, NEW t, NEW act, NEW box, NEW out,
         ConnectReady(n, g, t),
         Dictionary(n, act), MessagesOK(box), MessagesOK(out),
         ConnectNext(n, g, t, act, box, out)
  PROVE  Types'
<1>0. TaskData(n, g, t) /\ t \in Task
  BY DEF ConnectReady, TaskData
<1>1. CASE Raise(n, g, t, act, box, out)
  BY <1>0, <1>1, RaiseTypes
<1>2. CASE t.list # <<>> /\ Head(t.list) \notin down
  <2> DEFINE c == [a |-> n, b |-> Head(t.list), g |-> g]
             u == [t EXCEPT !.pc = "connect", !.wait = c, !.list = Tail(@)]
  <2>1. \/ Raise(n, g, t, act, box, out)
        \/ Await(n, g, u, act, box, out ++ Post(c.b, Msg(c, "hello")))
    BY <1>2 DEF ConnectNext
  <2>2. c \in Chan /\ TaskOK(n, g, u)
    BY <1>2, HelloTask DEF ConnectReady
  <2> HIDE DEF c, u
  <2>3. MessagesOK(Post(c.b, Msg(c, "hello")))
    BY <2>2, MessagesPlain DEF Kinds
  <2>4. MessagesOK(out ++ Post(c.b, Msg(c, "hello")))
    BY <2>3, MessagesAfter
  <2> QED
    BY <1>1, <2>1, <2>2, <2>4, AwaitTypes
<1>3. CASE t.list = <<>> /\ t.from = NoChan /\ Ask(n, g, t, act, box, out)
  <2>1. t.asked < Len(t.opened)
    BY <1>3 DEF ConnectReady
  <2> QED
    BY <1>0, <1>3, <2>1, AskTypes
<1>4. CASE /\ t.list = <<>> /\ t.from # NoChan
           /\ BeginRound(n, g, t, act, box,
                         out ++ Post(t.from.a, Msg(t.from, "ack")), 1)
  <2>1. t.from \in Chan
    BY <1>0, <1>4 DEF Task
  <2>2. MessagesOK(Post(t.from.a, Msg(t.from, "ack")))
    BY <2>1, MessagesPlain DEF Kinds
  <2>3. MessagesOK(out ++ Post(t.from.a, Msg(t.from, "ack")))
    BY <2>2, MessagesAfter
  <2>4. 1 \in 0..Rounds
    BY BoundAssumption
  <2> QED
    BY <1>0, <1>4, <2>3, <2>4, BeginRoundTypes
<1> QED
  BY <1>1, <1>2, <1>3, <1>4 DEF ConnectNext

-----------------------------------------------------------------------------
(* The operations.                                                         *)

LEMMA ConnectedReady ==
  ASSUME NEW n \in Node, NEW g \in Sign, NEW t, NEW u, NEW c \in Chan,
         TaskData(n, g, t), t.asked = 0, c.a = n, c.g = g, c.b \notin Ran(t.list),
         \A j \in 1..Len(t.opened) : t.opened[j].b # c.b,
         u \in Task, u.opened = Append(t.opened, c), u.list = t.list,
         u.from = t.from, u.asked = t.asked
  PROVE  ConnectReady(n, g, u)
<1>1. t.opened \in Seq(Chan)
  BY DEF TaskData, Task
<1>2. /\ Len(u.opened) = Len(t.opened) + 1 /\ Len(t.opened) \in Nat
      /\ \A j \in 1..Len(t.opened) : u.opened[j] = t.opened[j]
      /\ u.opened[Len(t.opened) + 1] = c
  BY <1>1
<1>3. \A j \in 1..Len(u.opened) : j \in 1..Len(t.opened) \/ j = Len(t.opened) + 1
  BY <1>2
<1>4. \A d \in Ran(u.opened) : d.a = n /\ d.g = g
  BY <1>2, <1>3 DEF TaskData, Ran
<1>5. ASSUME NEW j \in 1..Len(u.opened), NEW k \in 1..Len(u.opened),
             u.opened[j].b = u.opened[k].b
      PROVE  j = k
  <2>1. \A p, q \in 1..Len(t.opened) : t.opened[p].b = t.opened[q].b => p = q
    BY DEF TaskData
  <2>2. CASE j \in 1..Len(t.opened) /\ k \in 1..Len(t.opened)
    BY <1>2, <1>5, <2>1, <2>2
  <2>3. CASE j = Len(t.opened) + 1 \/ k = Len(t.opened) + 1
    BY <1>2, <1>3, <1>5, <2>3
  <2> QED
    BY <1>3, <2>2, <2>3
<1>6. \A j \in 1..Len(u.opened) : u.opened[j].b \notin Ran(u.list)
  BY <1>2, <1>3 DEF TaskData
<1>7. TaskData(n, g, u)
  BY <1>4, <1>5, <1>6 DEF TaskData
<1> QED
  BY <1>2, <1>7 DEF ConnectReady

LEMMA ConnectedTypes ==
  ASSUME Types, UNCHANGED <<request, down>>,
         NEW n \in Node, NEW i \in 1..Len(inbox[n]), Connected(n, i)
  PROVE  Types'
<1> DEFINE m == inbox[n][i]
<1>1. PICK g \in Sign :
        LET t == task[<<n, g>>]
            level == IF t.from = NoChan THEN "level0" ELSE "level1"
        IN /\ t.pc = "connect" /\ t.wait = m.c
           /\ \/ /\ m.kind = "x" /\ ~Has(n, active[n], m.c.b)
                 /\ ConnectNext(n, g, [t EXCEPT !.opened = Append(@, m.c)],
                      Append(active[n], m.c), Take(n, i), Post(m.c.b, Msg(m.c, level)))
              \/ /\ m.kind # "x" \/ Has(n, active[n], m.c.b)
                 /\ \E d \in Dropped(n, <<m.c>>) :
                      Raise(n, g, t, active[n], Take(n, i), d)
  BY DEF Connected
<1> DEFINE t == task[<<n, g>>]
           level == IF t.from = NoChan THEN "level0" ELSE "level1"
           u == [t EXCEPT !.opened = Append(@, m.c)]
<1>2. TaskOK(n, g, t) /\ Dictionary(n, active[n])
  BY DEF Types
<1>3. TaskData(n, g, t) /\ t \in Task /\ t.opened \in Seq(Chan)
  BY <1>2 DEF TaskOK, TaskData, Task
<1>4. /\ m.c \in Chan /\ m.c.a = n /\ m.c.g = g /\ t.asked = 0 /\ t.pc = "connect"
      /\ m.c.b \notin Ran(t.list)
      /\ \A j \in 1..Len(t.opened) : t.opened[j].b # m.c.b
  BY <1>1, <1>2 DEF TaskOK
<1>5. MessagesOK(Take(n, i))
  BY MessagesTaken
<1> HIDE DEF m, t, level
<1>6. CASE /\ m.kind = "x" /\ ~Has(n, active[n], m.c.b)
           /\ ConnectNext(n, g, u, Append(active[n], m.c), Take(n, i),
                          Post(m.c.b, Msg(m.c, level)))
  <2>1. Other(n, m.c) = m.c.b
    BY <1>4 DEF Other, Chan
  <2>2. Dictionary(n, Append(active[n], m.c))
    BY <1>2, <1>4, <1>6, <2>1, AppendDictionary
  <2>3. MessagesOK(Post(m.c.b, Msg(m.c, level)))
    BY <1>4, MessagesPlain DEF level, Kinds
  <2>4. u \in Task /\ u.opened = Append(t.opened, m.c) /\ u.list = t.list
        /\ u.from = t.from /\ u.asked = 0
    <3>1. Append(t.opened, m.c) \in Seq(Chan)
      BY <1>3, <1>4
    <3> QED
      BY <1>3, <1>4, <3>1 DEF Task
  <2>5. ConnectReady(n, g, u)
    BY <1>3, <1>4, <2>4, ConnectedReady
  <2> QED
    BY <1>5, <1>6, <2>2, <2>3, <2>5, ConnectNextTypes
<1>7. CASE \E d \in Dropped(n, <<m.c>>) : Raise(n, g, t, active[n], Take(n, i), d)
  <2>1. PICK d \in Dropped(n, <<m.c>>) : Raise(n, g, t, active[n], Take(n, i), d)
    BY <1>7
  <2>2. MessagesOK(d)
    BY <1>4, SmallDictionary, MessagesEofs
  <2> QED
    BY <1>2, <1>3, <1>5, <2>1, <2>2, RaiseTypes
<1> QED
  BY <1>1, <1>6, <1>7 DEF m, t, level

LEMMA AcknowledgedTypes ==
  ASSUME Types, UNCHANGED <<request, down>>,
         NEW n \in Node, NEW i \in 1..Len(inbox[n]), Acknowledged(n, i)
  PROVE  Types'
<1> DEFINE m == inbox[n][i]
<1>1. PICK g \in Sign :
        LET t == task[<<n, g>>]
        IN /\ t.pc = "ack" /\ t.wait = m.c
           /\ \/ /\ m.kind = "ack" /\ t.asked < Len(t.opened)
                 /\ Ask(n, g, t, active[n], Take(n, i), Nothing)
              \/ /\ m.kind = "ack" /\ t.asked = Len(t.opened)
                 /\ BeginRound(n, g, t, active[n], Take(n, i), Nothing, 1)
              \/ /\ m.kind # "ack"
                 /\ Raise(n, g, t, active[n], Take(n, i), Nothing)
  BY DEF Acknowledged
<1> DEFINE t == task[<<n, g>>]
<1>2. TaskOK(n, g, t) /\ Dictionary(n, active[n])
  BY DEF Types
<1>3. TaskData(n, g, t)
  BY <1>2 DEF TaskOK
<1>4. MessagesOK(Take(n, i)) /\ MessagesOK(Nothing) /\ 1 \in 0..Rounds
  BY MessagesTaken, MessagesNothing, BoundAssumption
<1> HIDE DEF t
<1> QED
  BY <1>1, <1>2, <1>3, <1>4, AskTypes, BeginRoundTypes, RaiseTypes DEF t

LEMMA ShareTypes ==
  ASSUME Types, UNCHANGED <<request, down>>,
         NEW n \in Node, NEW i \in 1..Len(inbox[n]), Share(n, i)
  PROVE  Types'
<1> DEFINE m == inbox[n][i]
           box == Take(n, i)
<1>1. PICK g \in Sign :
        LET t == task[<<n, g>>]
            ok == m.kind = "share" /\ ~Resized(n, t)
        IN /\ t.pc = "share" /\ t.wait = m.c
           /\ \/ /\ ~ok
                 /\ \E end \in {box, inbox} : Raise(n, g, t, active[n], end, Nothing)
              \/ /\ ok /\ t.at < Len(t.members)
                 /\ Await(n, g, [t EXCEPT !.at = @ + 1, !.wait = t.members[t.at + 1]],
                          active[n], box, Nothing)
              \/ /\ ok /\ t.at = Len(t.members) /\ t.round < Rounds
                 /\ BeginRound(n, g, t, active[n], box, Nothing, t.round + 1)
              \/ /\ ok /\ t.at = Len(t.members) /\ t.round = Rounds
                 /\ Await(n, g, [t EXCEPT !.pc = "sleep", !.wait = NoChan],
                          active[n], box, Nothing)
  BY DEF Share, ReadEnd
<1> DEFINE t == task[<<n, g>>]
           next == [t EXCEPT !.at = @ + 1, !.wait = t.members[t.at + 1]]
           last == [t EXCEPT !.pc = "sleep", !.wait = NoChan]
<1>2. TaskOK(n, g, t) /\ Dictionary(n, active[n])
  BY DEF Types
<1>3. TaskData(n, g, t) /\ t \in Task /\ t.members \in Seq(Chan)
  BY <1>2 DEF TaskOK, TaskData, Task
<1>4. MessagesOK(box) /\ MessagesOK(inbox) /\ MessagesOK(Nothing)
  BY MessagesTaken, MessagesNothing DEF Types
<1>5. t.pc = "share" /\ t.at \in 1..Len(t.members)
  BY <1>1, <1>2 DEF TaskOK
<1> HIDE DEF t, m, box
<1>6. ASSUME t.at < Len(t.members) PROVE TaskOK(n, g, next)
  <2>1. /\ t.at + 1 \in 1..Len(t.members) /\ t.members[t.at + 1] \in Chan
        /\ t.at + 1 \in Nat
    BY <1>3, <1>5, <1>6
  <2>2. next \in Task /\ next.at = t.at + 1 /\ next.wait = t.members[t.at + 1]
        /\ next.members = t.members /\ next.pc = "share"
    BY <1>3, <1>5, <2>1 DEF Task
  <2>3. TaskData(n, g, next)
    BY <1>3, <2>2 DEF TaskData, Task
  <2> HIDE DEF next
  <2> QED
    BY <2>1, <2>2, <2>3 DEF TaskOK
<1>7. TaskOK(n, g, last)
  <2>1. last \in Task /\ last.pc = "sleep"
    BY <1>3 DEF Task
  <2>2. TaskData(n, g, last)
    BY <1>3, <2>1 DEF TaskData, Task
  <2> HIDE DEF last
  <2> QED
    BY <2>1, <2>2 DEF TaskOK
<1>8. t.round < Rounds => t.round + 1 \in 0..Rounds
  BY <1>3, BoundAssumption DEF Task
<1> HIDE DEF next, last
<1>9. \/ \E end \in {box, inbox} : Raise(n, g, t, active[n], end, Nothing)
      \/ t.at < Len(t.members) /\ Await(n, g, next, active[n], box, Nothing)
      \/ t.round < Rounds /\ BeginRound(n, g, t, active[n], box, Nothing, t.round + 1)
      \/ Await(n, g, last, active[n], box, Nothing)
  BY <1>1 DEF t, next, last, m, box
<1> QED
  BY <1>2, <1>3, <1>4, <1>6, <1>7, <1>8, <1>9, AwaitTypes, BeginRoundTypes, RaiseTypes

LEMMA CloseChannelsTypes ==
  ASSUME Types, NEW n \in Node, NEW g \in Sign, CloseChannels(n, g)
  PROVE  Types'
<1> DEFINE t == task[<<n, g>>]
           u == [t EXCEPT !.pc = "sleep2"]
           held == {i \in 1..Len(t.opened) : Has(n, active[n], t.opened[i].b)}
           done == {i \in held : 1..i \subseteq held}
           peers == {t.opened[i].b : i \in done}
           out == Eofs(n, Keep(active[n], {c \in Chan : Other(n, c) \in peers}))
<1>1. /\ \/ Await(n, g, u, Without(n, active[n], peers), inbox, out)
         \/ Raise(n, g, t, Without(n, active[n], peers), inbox, out)
      /\ UNCHANGED <<request, down>>
  BY DEF CloseChannels
<1> HIDE DEF peers
<1>2. TaskOK(n, g, t) /\ Dictionary(n, active[n]) /\ MessagesOK(inbox)
  BY DEF Types
<1>3. TaskData(n, g, t) /\ t \in Task
  BY <1>2 DEF TaskOK, TaskData
<1> HIDE DEF t
<1>4. TaskOK(n, g, u)
  <2>1. u \in Task /\ u.pc = "sleep2"
    BY <1>3 DEF Task
  <2>2. TaskData(n, g, u)
    BY <1>3, <2>1 DEF TaskData, Task
  <2> HIDE DEF u
  <2> QED
    BY <2>1, <2>2 DEF TaskOK
<1>5. Dictionary(n, Without(n, active[n], peers))
  BY <1>2, WithoutDictionary
<1>6. MessagesOK(out)
  BY <1>1, <1>2, KeepDictionary, MessagesEofs
<1> HIDE DEF u, out
<1> QED
  BY <1>1, <1>2, <1>3, <1>4, <1>5, <1>6, AwaitTypes, RaiseTypes

(* A step that changes no task but those it ends or marks.                 *)
LEMMA OtherTypes ==
  ASSUME Types, request' \in Requests, down' \in SUBSET Node,
         task' \in [Node \X Sign -> Task],
         \A k \in Node, h \in Sign : TaskOK(k, h, task'[<<k, h>>]),
         NEW n \in Node, NEW act, Dictionary(n, act),
         active' = [active EXCEPT ![n] = act],
         resp' \in [Chan -> States], MessagesOK(inbox')
  PROVE  Types'
<1>1. act \in Seq(Chan)
  BY DEF Dictionary
<1>2. active' \in [Node -> Seq(Chan)] /\ \A k \in Node : Dictionary(k, active'[k])
  BY <1>1 DEF Types
<1> QED
  BY <1>2 DEF Types

LEMMA LeaveOK ==
  ASSUME NEW n, NEW g, NEW t \in Task, NEW label \in Ended
  PROVE  TaskOK(n, g, Leave(t, label)) /\ Leave(t, label) \in Task
<1> DEFINE f == Leave(t, label)
<1>1. f \in Task
  BY LeaveType
<1>2. f.from = NoChan /\ f.list = <<>> /\ f.opened = <<>> /\ f.pc = label
  BY DEF Leave, Idle
<1> HIDE DEF f
<1>3. TaskOK(n, g, f)
  BY <1>1, <1>2 DEF TaskOK, TaskData, Ran, Injective, Ended
<1> QED
  BY <1>1, <1>3 DEF f

LEMMA FinishTypes ==
  ASSUME Types, NEW n \in Node, NEW g \in Sign, Finish(n, g)
  PROVE  Types'
<1> DEFINE t == task[<<n, g>>]
           f == Leave(t, "done")
<1>1. TaskOK(n, g, t) /\ Dictionary(n, active[n]) /\ MessagesOK(inbox)
  BY DEF Types
<1>2. TaskData(n, g, t) /\ t \in Task
  BY <1>1 DEF TaskOK, TaskData
<1>3. UNCHANGED <<request, down>>
  BY DEF Finish
<1> HIDE DEF t
<1>4. f \in Task /\ TaskOK(n, g, f)
  BY <1>2, LeaveOK DEF Ended
<1> HIDE DEF f
<1>5. ASSUME task' = [task EXCEPT ![<<n, g>>] = f]
      PROVE  /\ task' \in [Node \X Sign -> Task]
             /\ \A k \in Node, h \in Sign : TaskOK(k, h, task'[<<k, h>>])
  <2>1. task' \in [Node \X Sign -> Task]
    BY <1>4, <1>5 DEF Types
  <2>2. ASSUME NEW k \in Node, NEW h \in Sign PROVE TaskOK(k, h, task'[<<k, h>>])
    <3>1. task'[<<k, h>>] = IF <<k, h>> = <<n, g>> THEN f ELSE task[<<k, h>>]
      BY <1>5 DEF Types
    <3> QED
      BY <3>1, <1>4 DEF Types
  <2> QED
    BY <2>1, <2>2
<1>6. CASE Raise(n, g, t, active[n], inbox, Nothing)
  BY <1>1, <1>2, <1>3, <1>6, MessagesNothing, RaiseTypes
<1>7. CASE /\ t.from # NoChan
           /\ task' = [task EXCEPT ![<<n, g>>] = f]
           /\ active' = [active EXCEPT ![n] = Without(n, @, {t.from.a})]
           /\ inbox' = inbox ++ Eofs(n, <<t.from>>)
           /\ resp' = [resp EXCEPT ![t.from] = "closed"]
  <2>1. t.from \in Chan /\ n \in {t.from.a, t.from.b}
    BY <1>2, <1>7 DEF TaskData, Task
  <2>2. Dictionary(n, Without(n, active[n], {t.from.a}))
    BY <1>1, WithoutDictionary
  <2>3. active' = [active EXCEPT ![n] = Without(n, active[n], {t.from.a})]
    BY <1>7
  <2>4. MessagesOK(inbox')
    BY <2>1, <1>1, <1>7, SmallDictionary, MessagesEofs, MessagesAfter
  <2>5. resp' \in [Chan -> States] /\ request' \in Requests /\ down' \in SUBSET Node
    BY <1>3, <1>7 DEF Types, States
  <2> QED
    BY <1>5, <1>7, <2>2, <2>3, <2>4, <2>5, OtherTypes
<1>8. CASE /\ task' = [task EXCEPT ![<<n, g>>] = f]
           /\ UNCHANGED <<active, inbox, resp>>
  BY <1>3, <1>5, <1>8 DEF Types
<1> QED
  BY <1>6, <1>7, <1>8 DEF Finish, t, f

-----------------------------------------------------------------------------

LEMMA RespondTypes ==
  ASSUME Types, UNCHANGED <<request, down>>,
         task' \in [Node \X Sign -> Task],
         \A k \in Node, h \in Sign : TaskOK(k, h, task'[<<k, h>>]),
         NEW c \in Chan, NEW state \in States, NEW act, NEW box, NEW out,
         Dictionary(c.b, act), MessagesOK(box), MessagesOK(out),
         Respond(c, state, act, box, out)
  PROVE  Types'
<1>1. c.b \in Node
  BY DEF Chan
<1>2. resp' \in [Chan -> States]
  BY DEF Respond, Types
<1>3. MessagesOK(inbox') /\ active' = [active EXCEPT ![c.b] = act]
  BY MessagesAfter DEF Respond
<1>4. request' \in Requests /\ down' \in SUBSET Node
  BY DEF Types
<1> QED
  BY <1>1, <1>2, <1>3, <1>4, OtherTypes

LEMMA SameTasks ==
  ASSUME Types, UNCHANGED task
  PROVE  /\ task' \in [Node \X Sign -> Task]
         /\ \A k \in Node, h \in Sign : TaskOK(k, h, task'[<<k, h>>])
BY DEF Types

LEMMA AbortTypes ==
  ASSUME Types, UNCHANGED <<request, down, task>>,
         NEW c \in Chan, NEW act, NEW box, Dictionary(c.b, act), MessagesOK(box),
         Abort(c, act, box)
  PROVE  Types'
<1>1. PICK d \in Dropped(c.b, <<c>>) : Respond(c, "failed", act, box, d)
  BY DEF Abort
<1>2. Dictionary(c.b, <<c>>) /\ c.b \in Node
  BY SmallDictionary DEF Chan
<1>3. MessagesOK(d)
  BY <1>2, MessagesEofs
<1> QED
  BY <1>1, <1>3, SameTasks, RespondTypes DEF States

LEMMA AcceptTypes ==
  ASSUME Types, UNCHANGED <<request, down>>,
         NEW n \in Node, NEW i \in 1..Len(inbox[n]), Accept(n, i)
  PROVE  Types'
<1> DEFINE c == inbox[n][i].c
           x == Post(c.a, Msg(c, "x"))
           e == Post(c.a, Msg(c, "eof"))
<1>1. c \in Chan /\ MessagesOK(Take(n, i))
  BY MessagesTaken DEF Message
<1>2. /\ n = c.b /\ UNCHANGED task
      /\ \/ Respond(c, "closed", active[n], Take(n, i), x ++ e)
         \/ Respond(c, "level", active[n], Take(n, i), x)
  BY DEF Accept
<1> HIDE DEF c
<1>3. MessagesOK(x) /\ MessagesOK(e)
  BY <1>1, MessagesPlain DEF Kinds
<1> HIDE DEF x, e
<1>4. MessagesOK(x ++ e)
  BY <1>3, MessagesAfter
<1>5. Dictionary(c.b, active[n])
  BY <1>2 DEF Types
<1> QED
  BY <1>1, <1>2, <1>3, <1>4, <1>5, SameTasks, RespondTypes DEF States

LEMMA RebindOK ==
  ASSUME Types, NEW n \in Node
  PROVE  /\ Rebind(n) \in [Node \X Sign -> Task]
         /\ \A k \in Node, h \in Sign : TaskOK(k, h, Rebind(n)[<<k, h>>])
<1>1. ASSUME NEW k \in Node, NEW h \in Sign
      PROVE  Rebind(n)[<<k, h>>] \in Task /\ TaskOK(k, h, Rebind(n)[<<k, h>>])
  <2> DEFINE t == task[<<k, h>>]
             u == [t EXCEPT !.rebound = TRUE]
  <2>1. Rebind(n)[<<k, h>>] = t \/ Rebind(n)[<<k, h>>] = u
    BY DEF Rebind
  <2>2. t \in Task /\ TaskOK(k, h, t)
    BY DEF Types
  <2> HIDE DEF t
  <2>3. u \in Task
    BY <2>2 DEF Task
  <2>4. TaskOK(k, h, u)
    BY <2>2, <2>3 DEF TaskOK, TaskData, Task
  <2> QED
    BY <2>1, <2>2, <2>3, <2>4
<1>2. Rebind(n) = [p \in Node \X Sign |-> Rebind(n)[p]]
  BY DEF Rebind
<1>3. \A p \in Node \X Sign : Rebind(n)[p] \in Task
  BY <1>1
<1>4. Rebind(n) \in [Node \X Sign -> Task]
  BY <1>2, <1>3
<1> QED
  BY <1>1, <1>4

LEMMA TreeLevelTypes ==
  ASSUME Types, UNCHANGED <<request, down>>,
         NEW n \in Node, NEW i \in 1..Len(inbox[n]), TreeLevel(n, i)
  PROVE  Types'
<1> DEFINE m == inbox[n][i]
           c == m.c
           box == Take(n, i)
<1>1. c \in Chan /\ MessagesOK(box)
  BY MessagesTaken DEF Message
<1>2. n = c.b
  BY DEF TreeLevel
<1>3. \/ /\ task' = Rebind(n)
         /\ resp' = [resp EXCEPT ![c] = "payload"]
         /\ active' = [active EXCEPT ![n] = <<c>>]
         /\ \E d \in Dropped(n, active[n]) : inbox' = box ++ d
      \/ /\ Respond(c, "hold", Put(n, active[n], c), box, Nothing)
         /\ UNCHANGED task
      \/ /\ Abort(c, active[n], box)
         /\ UNCHANGED task
  BY DEF TreeLevel
<1> HIDE DEF m, c, box
<1>4. Dictionary(n, active[n])
  BY DEF Types
<1>5. CASE /\ task' = Rebind(n)
           /\ resp' = [resp EXCEPT ![c] = "payload"]
           /\ active' = [active EXCEPT ![n] = <<c>>]
           /\ \E d \in Dropped(n, active[n]) : inbox' = box ++ d
  <2>1. MessagesOK(inbox')
    BY <1>1, <1>4, <1>5, MessagesEofs, MessagesAfter
  <2>2. Dictionary(n, <<c>>)
    BY <1>1, <1>2, SmallDictionary
  <2>3. resp' \in [Chan -> States] /\ request' \in Requests /\ down' \in SUBSET Node
    BY <1>5 DEF Types, States
  <2> QED
    BY <1>5, <2>1, <2>2, <2>3, RebindOK, OtherTypes
<1>6. CASE Respond(c, "hold", Put(n, active[n], c), box, Nothing) /\ UNCHANGED task
  <2>1. Dictionary(n, Put(n, active[n], c))
    BY <1>1, <1>2, <1>4, PutDictionary
  <2> QED
    BY <1>1, <1>2, <1>6, <2>1, SameTasks, MessagesNothing, RespondTypes DEF States
<1>7. CASE Abort(c, active[n], box) /\ UNCHANGED task
  BY <1>1, <1>2, <1>4, <1>7, AbortTypes
<1> QED
  BY <1>3, <1>5, <1>6, <1>7

(* The task of a peer begins.                                              *)
LEMMA PayloadData ==
  ASSUME NEW m \in Message, m.kind = "payload", MessageOK(m.c.b, m),
         NEW t \in Task, t.from = m.c, t.list = m.nodes, t.opened = <<>>
  PROVE  TaskData(m.c.b, m.c.g, t)
BY DEF TaskData, MessageOK, Ran

LEMMA PayloadTypes ==
  ASSUME Types, UNCHANGED <<request, down>>,
         NEW n \in Node, NEW i \in 1..Len(inbox[n]), Payload(n, i)
  PROVE  Types'
<1> DEFINE m == inbox[n][i]
           c == m.c
           t == [Idle EXCEPT !.from = c, !.list = m.nodes]
           box == Take(n, i)
<1>1. m \in Message /\ c \in Chan /\ MessageOK(n, m) /\ MessagesOK(box)
  BY MessagesTaken DEF Message
<1>2. n = c.b
  BY DEF Payload
<1>3. \/ /\ m.kind = "payload"
         /\ ConnectNext(n, c.g, t, active[n], box, Nothing)
      \/ /\ Abort(c, Without(n, active[n], {c.a}), box)
         /\ UNCHANGED task
  BY DEF Payload
<1> HIDE DEF m
<1>4. Dictionary(n, active[n]) /\ c.g \in Sign
  BY <1>1 DEF Types, Chan
<1>5. CASE m.kind = "payload" /\ ConnectNext(n, c.g, t, active[n], box, Nothing)
  <2>1. Idle \in Task
    BY BoundAssumption DEF Idle, Task
  <2>2. t \in Task /\ t.from = c /\ t.list = m.nodes /\ t.opened = <<>> /\ t.asked = 0
    <3> HIDE DEF c
    <3>1. m.nodes \in Seq(Node)
      BY <1>1 DEF Message
    <3> QED
      BY <1>1, <2>1, <3>1 DEF Task, Idle
  <2> HIDE DEF c, t
  <2>3. TaskData(n, c.g, t)
    BY <1>1, <1>2, <1>5, <2>2, PayloadData DEF c
  <2>4. ConnectReady(n, c.g, t)
    BY <1>1, <2>2, <2>3, NotAChannel DEF ConnectReady
  <2> HIDE DEF box
  <2> QED
    BY <1>1, <1>4, <1>5, <2>4, MessagesNothing, ConnectNextTypes
<1>6. CASE Abort(c, Without(n, active[n], {c.a}), box) /\ UNCHANGED task
  BY <1>1, <1>2, <1>4, <1>6, WithoutDictionary, AbortTypes
<1> QED
  BY <1>3, <1>5, <1>6

LEMMA EndOfFileTypes ==
  ASSUME Types, UNCHANGED <<request, down>>,
         NEW n \in Node, NEW i \in 1..Len(inbox[n]), EndOfFile(n, i)
  PROVE  Types'
<1> DEFINE c == inbox[n][i].c
           box == ReadEnd(n, i, \E g \in Sign : task[<<n, g>>].wait = c)
<1>1. c \in Chan /\ MessagesOK(box)
  BY MessagesTaken DEF Message, ReadEnd, Types
<1>2. n = c.b /\ UNCHANGED task
  BY DEF EndOfFile
<1>3. \/ Respond(c, "closed", Without(n, active[n], {c.a}), box,
                 Post(c.a, Msg(c, "eof")))
      \/ Abort(c, active[n], box)
  BY DEF EndOfFile
<1> HIDE DEF c, box
<1>4. Dictionary(n, active[n]) /\ Dictionary(n, Without(n, active[n], {c.a}))
  BY WithoutDictionary DEF Types
<1>5. MessagesOK(Post(c.a, Msg(c, "eof")))
  BY <1>1, MessagesPlain DEF Kinds
<1> QED
  BY <1>1, <1>2, <1>3, <1>4, <1>5, SameTasks, RespondTypes, AbortTypes DEF States

-----------------------------------------------------------------------------

LEMMA ListsAre ==
  ASSUME NEW m \in Node, NEW peers \in Lists(m)
  PROVE  /\ peers \in Seq(Node) /\ peers # <<>> /\ Injective(peers)
         /\ m \notin Ran(peers)
<1>1. PICK k \in 1..Cardinality(Node) : peers \in [1..k -> Node \ {m}]
  BY DEF Lists
<1>2. k \in Nat /\ k >= 1
  BY <1>1
<1>3. peers \in Seq(Node \ {m}) /\ Len(peers) = k
  BY <1>1, <1>2
<1>4. \A i, j \in DOMAIN peers : peers[i] = peers[j] => i = j
  BY DEF Lists
<1>5. Injective(peers)
  BY <1>1, <1>3, <1>4 DEF Injective
<1>6. Ran(peers) \subseteq Node \ {m}
  BY <1>3, RanType
<1> QED
  BY <1>2, <1>3, <1>5, <1>6

LEMMA SignCommandTypes ==
  ASSUME Types, NEW g \in Sign, NEW m \in Node, NEW peers \in Lists(m),
         SignCommand(g, m, peers)
  PROVE  Types'
<1> DEFINE c == [a |-> m, b |-> peers[1], g |-> g]
           t == [Idle EXCEPT !.list = peers]
           u == [t EXCEPT !.pc = "connect", !.wait = c, !.list = Tail(peers)]
           f == Leave(t, "failed")
<1>1. /\ peers \in Seq(Node) /\ peers # <<>> /\ Injective(peers)
      /\ m \notin Ran(peers)
  BY ListsAre
<1>2. Idle \in Task
  BY BoundAssumption DEF Idle, Task
<1>3. t \in Task /\ t.list = peers /\ t.opened = <<>> /\ t.asked = 0 /\ t.from = NoChan
  BY <1>1, <1>2 DEF Task, Idle
<1>4. peers[1] = Head(peers)
  BY <1>1
<1>5. TaskData(m, g, t)
  BY <1>1, <1>3 DEF TaskData, Ran
<1> HIDE DEF t
<1>6. c \in Chan /\ TaskOK(m, g, u)
  BY <1>1, <1>3, <1>4, <1>5, HelloTask
<1>7. f \in Task /\ TaskOK(m, g, f)
  BY <1>3, LeaveOK DEF Ended
<1>8. u \in Task
  BY <1>6 DEF TaskOK, TaskData
<1>9. PICK d \in Dropped(m, active[m]) :
        \/ /\ task' = [Rebind(m) EXCEPT ![<<m, g>>] = f]
           /\ inbox' = inbox ++ d
        \/ /\ task' = [Rebind(m) EXCEPT ![<<m, g>>] = u]
           /\ inbox' = inbox ++ (d ++ Post(c.b, Msg(c, "hello")))
  BY DEF SignCommand, t
<1>10. request' = [request EXCEPT ![g] =
         [main |-> m, peers |-> peers,
          nodes |-> {m} \cup {peers[i] : i \in 1..Len(peers)}]]
  BY DEF SignCommand
<1>11. request' \in Requests
  BY <1>1, <1>10 DEF Types, Requests
<1>12. MessagesOK(d)
  BY MessagesEofs DEF Types
<1> HIDE DEF c, u, f
<1>13. MessagesOK(Post(c.b, Msg(c, "hello")))
  BY <1>6, MessagesPlain DEF Kinds
<1>14. MessagesOK(inbox')
  <2>1. MessagesOK(inbox)
    BY DEF Types
  <2>2. MessagesOK(d ++ Post(c.b, Msg(c, "hello")))
    BY <1>12, <1>13, MessagesAfter
  <2> QED
    BY <1>9, <1>12, <2>1, <2>2, MessagesAfter
<1>15. /\ task' \in [Node \X Sign -> Task]
       /\ \A k \in Node, h \in Sign : TaskOK(k, h, task'[<<k, h>>])
  <2>1. PICK v \in {f, u} : task' = [Rebind(m) EXCEPT ![<<m, g>>] = v]
    BY <1>9
  <2>2. /\ Rebind(m) \in [Node \X Sign -> Task]
        /\ \A k \in Node, h \in Sign : TaskOK(k, h, Rebind(m)[<<k, h>>])
    BY RebindOK
  <2>3. task' \in [Node \X Sign -> Task]
    BY <1>7, <1>8, <2>1, <2>2
  <2>4. ASSUME NEW k \in Node, NEW h \in Sign PROVE TaskOK(k, h, task'[<<k, h>>])
    <3>1. task'[<<k, h>>] = IF <<k, h>> = <<m, g>> THEN v ELSE Rebind(m)[<<k, h>>]
      BY <2>1, <2>2
    <3> QED
      BY <1>6, <1>7, <2>2, <3>1
  <2> QED
    BY <2>3, <2>4
<1>16. resp' \in [Chan -> States] /\ down' \in SUBSET Node
       /\ active' = [active EXCEPT ![m] = <<>>]
  BY DEF SignCommand, Types
<1> QED
  BY <1>11, <1>14, <1>15, <1>16, SmallDictionary, OtherTypes

(* The channels between n and k, for the end of file of those that are     *)
(* open when n is halted.                                                  *)
Between(n, k) ==
  [i \in 1..(2 * MaxSigns) |->
     IF i <= MaxSigns THEN [a |-> n, b |-> k, g |-> i]
                      ELSE [a |-> k, b |-> n, g |-> i - MaxSigns]]

Open ==
  {c \in Chan :
     /\ ~Closed(c.a, c) /\ ~Closed(c.b, c)
     /\ \/ resp[c] # "none"
        \/ \E i \in 1..Len(inbox[c.b]) : inbox[c.b][i].c = c}

Ends(n, k) ==
  LET cut == Keep(Between(n, k), Open)
  IN  [i \in 1..Len(cut) |-> Msg(cut[i], "eof")]

LEMMA EndsAre ==
  ASSUME NEW n \in Node, NEW k \in Node
  PROVE  /\ Ends(n, k) \in Seq(Message)
         /\ \A u \in Ran(Ends(n, k)) :
              u.c \in Open /\ u.c \in Chan /\ {u.c.a, u.c.b} = {n, k}
                /\ u.kind = "eof" /\ u.round = 0 /\ u.nodes = <<>>
<1> DEFINE w == Between(n, k)
           cut == Keep(w, Open)
           X == [a : Node, b : Node, g : Nat]
<1>0. MaxSigns \in Nat \ {0}
  BY BoundAssumption
<1>1. w \in Seq(X) /\ \A x \in Ran(w) : {x.a, x.b} = {n, k}
  <2>1. ASSUME NEW i \in 1..(2 * MaxSigns)
        PROVE  w[i] \in X /\ {w[i].a, w[i].b} = {n, k}
    <3>1. CASE i <= MaxSigns
      BY <1>0, <3>1 DEF Between
    <3>2. CASE ~(i <= MaxSigns)
      <4>1. i - MaxSigns \in Nat
        BY <1>0, <3>2
      <4> QED
        BY <4>1, <3>2 DEF Between
    <3> QED
      BY <3>1, <3>2
  <2>2. w = [i \in 1..(2 * MaxSigns) |-> w[i]] /\ 2 * MaxSigns \in Nat
    BY <1>0 DEF Between
  <2> HIDE DEF w
  <2>3. w \in Seq(X) /\ Len(w) = 2 * MaxSigns
    <3> DEFINE L == 2 * MaxSigns
    <3>1. w \in [1..L -> X] /\ L \in Nat
      BY <2>1, <2>2
    <3> HIDE DEF L, X
    <3>2. w \in Seq(X) /\ Len(w) = L
      BY ONLY <3>1
    <3> QED
      BY <3>2 DEF L
  <2> QED
    BY <2>1, <2>3 DEF Ran
<1> HIDE DEF w, X
<1>2. PICK e \in [1..Len(cut) -> 1..Len(w)] :
             \A j \in 1..Len(cut) : cut[j] = w[e[j]] /\ w[e[j]] \in Open
  BY <1>1, KeepElements
<1>3. cut \in Seq(X)
  BY <1>1, KeepElements
<1> HIDE DEF cut
<1>4. ASSUME NEW j \in 1..Len(cut)
      PROVE  cut[j] \in Chan /\ cut[j] \in Open /\ {cut[j].a, cut[j].b} = {n, k}
  BY <1>1, <1>2 DEF Open, Ran
<1> DEFINE E == [i \in 1..Len(cut) |-> Msg(cut[i], "eof")]
<1>5. Ends(n, k) = E
  BY DEF Ends, cut, w
<1>6. \A j \in 1..Len(cut) : E[j] \in Message /\ E[j].c = cut[j]
        /\ E[j].kind = "eof" /\ E[j].round = 0 /\ E[j].nodes = <<>>
  BY <1>4, MsgType DEF Kinds, Msg
<1>7. Len(cut) \in Nat /\ E \in Seq(Message) /\ Len(E) = Len(cut)
  BY <1>3, <1>6
<1> HIDE DEF E
<1>8. ASSUME NEW u \in Ran(E)
      PROVE  u.c \in Open /\ u.c \in Chan /\ {u.c.a, u.c.b} = {n, k}
                /\ u.kind = "eof" /\ u.round = 0 /\ u.nodes = <<>>
  <2>1. PICK j \in 1..Len(cut) : u = E[j]
    BY <1>7 DEF Ran
  <2> QED
    BY <1>4, <1>6, <2>1
<1> QED
  BY <1>5, <1>7, <1>8

LEMMA HaltIs ==
  ASSUME NEW n, Halt(n)
  PROVE  inbox' = [k \in Node |-> IF k = n THEN <<>> ELSE inbox[k] \o Ends(n, k)]
BY DEF Halt, Ends, Between, Open

LEMMA HaltSends ==
  ASSUME Types, NEW n \in Node, Halt(n), NEW k \in Node
  PROVE  /\ k = n => inbox'[k] = <<>>
         /\ k # n => /\ inbox'[k] = inbox[k] \o Ends(n, k)
                     /\ Ran(inbox'[k]) = Ran(inbox[k]) \cup Ran(Ends(n, k))
         /\ Ran(inbox'[k]) \subseteq Ran(inbox[k]) \cup Ran(Ends(n, k))
<1>1. inbox' = [j \in Node |-> IF j = n THEN <<>> ELSE inbox[j] \o Ends(n, j)]
  BY HaltIs
<1>2. inbox[k] \in Seq(Message) /\ Ends(n, k) \in Seq(Message)
  BY EndsAre DEF Types, MessagesOK, Boxes
<1>3. Ran(inbox[k] \o Ends(n, k)) = Ran(inbox[k]) \cup Ran(Ends(n, k))
  BY <1>2, RanConcat
<1>4. Ran(<<>>) = {}
  BY SmallDictionary
<1> QED
  BY <1>1, <1>3, <1>4

LEMMA HaltTypes ==
  ASSUME Types, NEW n \in Node, Halt(n)
  PROVE  Types'
<1>1. request' \in Requests /\ down' \in SUBSET Node
  BY DEF Halt, Types
<1>2. /\ task' \in [Node \X Sign -> Task]
      /\ \A k \in Node, h \in Sign : TaskOK(k, h, task'[<<k, h>>])
  <2>1. ASSUME NEW k \in Node, NEW h \in Sign
        PROVE  task'[<<k, h>>] \in Task /\ TaskOK(k, h, task'[<<k, h>>])
    <3> DEFINE t == task[<<k, h>>]
    <3>1. t \in Task /\ TaskOK(k, h, t)
      BY DEF Types
    <3>2. task'[<<k, h>>] = Leave(t, "failed") \/ task'[<<k, h>>] = t
      BY DEF Halt
    <3> HIDE DEF t
    <3> QED
      BY <3>1, <3>2, LeaveOK DEF Ended
  <2>2. task' = [p \in Node \X Sign |-> task'[p]]
    BY DEF Halt
  <2>3. \A p \in Node \X Sign : task'[p] \in Task
    BY <2>1
  <2> QED
    BY <2>1, <2>2, <2>3
<1>3. resp' \in [Chan -> States]
  <2>1. \A c \in Chan : (IF c.b = n /\ resp[c] # "none" THEN "failed" ELSE resp[c])
                          \in States
    BY DEF Types, States
  <2> QED
    BY <2>1 DEF Halt
<1>4. active' = [active EXCEPT ![n] = <<>>]
  BY DEF Halt
<1>5. MessagesOK(inbox')
  <2>1. inbox' = [k \in Node |-> IF k = n THEN <<>> ELSE inbox[k] \o Ends(n, k)]
    BY HaltIs
  <2>2. ASSUME NEW k \in Node
        PROVE  /\ inbox'[k] \in Seq(Message)
               /\ \A u \in Ran(inbox'[k]) : MessageOK(k, u)
    <3>1. CASE k = n
      BY <2>1, <3>1 DEF Ran
    <3>2. CASE k # n
      <4>1. inbox'[k] = inbox[k] \o Ends(n, k)
        BY <2>1, <3>2
      <4>2. /\ inbox[k] \in Seq(Message)
            /\ \A u \in Ran(inbox[k]) : MessageOK(k, u)
        BY DEF Types, MessagesOK, Boxes
      <4>3. /\ Ends(n, k) \in Seq(Message)
            /\ \A u \in Ran(Ends(n, k)) : MessageOK(k, u)
        <5>1. /\ Ends(n, k) \in Seq(Message)
              /\ \A u \in Ran(Ends(n, k)) :
                   {u.c.a, u.c.b} = {n, k} /\ u.kind = "eof"
          BY EndsAre
        <5>2. ASSUME NEW u \in Ran(Ends(n, k)) PROVE MessageOK(k, u)
          <6>1. {u.c.a, u.c.b} = {n, k} /\ u.kind = "eof"
            BY <5>1
          <6> QED
            BY ONLY <6>1 DEF MessageOK
        <5> QED
          BY <5>1, <5>2
      <4>4. /\ inbox[k] \o Ends(n, k) \in Seq(Message)
            /\ Ran(inbox[k] \o Ends(n, k)) = Ran(inbox[k]) \cup Ran(Ends(n, k))
        BY <4>2, <4>3, RanConcat
      <4> QED
        BY <4>1, <4>2, <4>3, <4>4
    <3> QED
      BY <3>1, <3>2
  <2>3. inbox' = [k \in Node |-> inbox'[k]]
    BY <2>1
  <2>4. inbox' \in Boxes
    BY <2>2, <2>3 DEF Boxes
  <2> QED
    BY <2>2, <2>4 DEF MessagesOK
<1> QED
  BY <1>1, <1>2, <1>3, <1>4, <1>5, SmallDictionary, OtherTypes

LEMMA NextTypes ==
  ASSUME Types, [Next]_vars
  PROVE  Types'
<1>1. CASE UNCHANGED vars
  BY <1>1 DEF vars, Types
<1>2. ASSUME NEW n \in Node,
             \E g \in Sign : \E peers \in Lists(n) : SignCommand(g, n, peers)
      PROVE  Types'
  BY <1>2, SignCommandTypes
<1>3. ASSUME NEW n \in Node, Handle(n)
      PROVE  Types'
  <2>1. PICK i \in 1..Len(inbox[n]) :
          /\ \/ Connected(n, i) \/ Acknowledged(n, i) \/ Share(n, i)
             \/ Accept(n, i) \/ TreeLevel(n, i) \/ Payload(n, i) \/ EndOfFile(n, i)
          /\ UNCHANGED <<request, down>>
    BY <1>3 DEF Handle
  <2> QED
    BY <2>1, ConnectedTypes, AcknowledgedTypes, ShareTypes, AcceptTypes,
       TreeLevelTypes, PayloadTypes, EndOfFileTypes
<1>4. ASSUME NEW n \in Node, Wake(n)
      PROVE  Types'
  BY <1>4, CloseChannelsTypes, FinishTypes DEF Wake
<1>5. ASSUME NEW n \in Node, Halt(n)
      PROVE  Types'
  BY <1>5, HaltTypes
<1> QED
  BY <1>1, <1>2, <1>3, <1>4, <1>5 DEF Next

(* Types is an invariant.                                                  *)
THEOREM AlwaysTypes == Spec => []Types
<1>1. Types /\ [Next]_vars => Types'
  BY NextTypes
<1> QED
  BY <1>1, InitTypes, PTL DEF Spec

(* The variables have their types, and a dictionary one channel for a node *)
(* (TypeOK).                                                               *)
THEOREM TypeCorrect == Spec => []TypeOK
BY AlwaysTypes, TypesTypeOK, PTL

-----------------------------------------------------------------------------
(* What belongs to which command.                                          *)

Made(g) == request[g].main # None

Main(g) == request[g].main

Peers(g) == Ran(request[g].peers)

(* The last command.                                                       *)
Current(g) == Made(g) /\ \A h \in Sign : h > g => ~Made(h)

(* A channel to a peer that its command names.                             *)
Known(c) == Made(c.g) /\ c.b \in Peers(c.g)

(* The channel on which a peer gets its payload.                           *)
Asked(n, g) == [a |-> Main(g), b |-> n, g |-> g]

Waiting == {"none", "level", "payload"}

RequestsOwn ==
  \A g \in Sign : Made(g) =>
    /\ \A h \in 1..(g - 1) : Made(h)
    /\ Main(g) \in Node /\ Main(g) \notin Peers(g) /\ request[g].peers # <<>>
    /\ request[g].nodes = {Main(g)} \cup Peers(g)

(* A task t of n for the command g, whose record is q, with the dictionary *)
(* act.                                                                    *)
TaskOwn(q, n, g, t, act) ==
  /\ t.pc = "idle" => t = Idle
  /\ t.pc \in {"connect", "ack"} => t.round = 0
  /\ t.pc \notin {"idle"} \cup Ended =>
       /\ t.from = IF n = q.main THEN NoChan ELSE [a |-> q.main, b |-> n, g |-> g]
       /\ n = q.main \/ (n \in Ran(q.peers) /\ t.pc # "ack")
       /\ Ran(t.list) \subseteq Ran(q.peers)
       /\ t.pc = "connect" => t.wait.b \in Ran(q.peers)
       /\ Reached(t) \subseteq Ran(q.peers)
       /\ n = q.main =>
            /\ t.pc = "connect" =>
                 Ran(q.peers) = Reached(t) \cup {t.wait.b} \cup Ran(t.list)
            /\ t.pc \in {"ack", "share", "sleep"} => Ran(q.peers) = Reached(t)
            /\ t.pc # "sleep2" => Ran(act) \subseteq Ran(t.opened)

TasksOwn ==
  \A n \in Node, g \in Sign :
    /\ task[<<n, g>>].pc # "idle" => Made(g)
    /\ Running(n, g) => Current(g) /\ \A e \in Ran(active[n]) : e.g = g
    /\ TaskOwn(request[g], n, g, task[<<n, g>>], active[n])

ChannelsOwn ==
  /\ \A c \in Chan :
       /\ resp[c] # "none" => Known(c)
       /\ resp[c] = "payload" => c.a = Main(c.g)
       /\ resp[c] = "payload" /\ Current(c.g) => \A e \in Ran(active[c.b]) : e.g = c.g
  /\ \A n \in Node, g \in Sign :
       task[<<n, g>>].pc # "idle" /\ n # Main(g) =>
         resp[Asked(n, g)] \notin Waiting
  /\ \A n \in Node : \A e \in Ran(active[n]) : Known(e)

MessageOwn(u) ==
  /\ Known(u.c)
  /\ u.kind \in {"level0", "payload"} => u.c.a = Main(u.c.g)
  /\ u.kind = "payload" => Ran(u.nodes) \subseteq Peers(u.c.g)

MessagesOwn ==
  \A k \in Node : \A u \in Ran(inbox[k]) :
    /\ MessageOwn(u)
    /\ k = u.c.b /\ resp[u.c] \in Waiting => u.kind = "eof" \/ Current(u.c.g)

Own == RequestsOwn /\ TasksOwn /\ ChannelsOwn /\ MessagesOwn

-----------------------------------------------------------------------------

LEMMA SameRequests ==
  ASSUME UNCHANGED request
  PROVE  /\ \A g : (Made(g)' <=> Made(g)) /\ Main(g)' = Main(g) /\ Peers(g)' = Peers(g)
                   /\ (Current(g)' <=> Current(g))
         /\ \A c : Known(c)' <=> Known(c)
         /\ \A n, g : Asked(n, g)' = Asked(n, g)
         /\ \A u : MessageOwn(u)' <=> MessageOwn(u)
         /\ RequestsOwn' <=> RequestsOwn
<1>1. \A g : (Made(g)' <=> Made(g)) /\ Main(g)' = Main(g) /\ Peers(g)' = Peers(g)
  BY DEF Made, Main, Peers, Ran
<1>2. \A g : Current(g)' <=> Current(g)
  BY <1>1 DEF Current
<1>3. \A c : Known(c)' <=> Known(c)
  BY <1>1 DEF Known
<1>4. \A n, g : Asked(n, g)' = Asked(n, g)
  BY <1>1 DEF Asked
<1>5. \A u : MessageOwn(u)' <=> MessageOwn(u)
  BY <1>1, <1>3 DEF MessageOwn
<1>6. RequestsOwn' <=> RequestsOwn
  BY <1>1 DEF RequestsOwn
<1> QED
  BY <1>1, <1>2, <1>3, <1>4, <1>5, <1>6

LEMMA InboxChan ==
  ASSUME Types, NEW k \in Node, NEW u \in Ran(inbox[k])
  PROVE  u \in Message /\ u.c \in Chan /\ MessageOK(k, u)
<1>1. inbox[k] \in Seq(Message) /\ MessageOK(k, u)
  BY DEF Types, MessagesOK, Boxes
<1>2. u \in Message
  BY <1>1, RanType
<1> QED
  BY <1>1, <1>2 DEF Message

(* The step of a task changes nothing of the commands, and makes box and   *)
(* out of what was there.                                                  *)
Sends(g, box, out) ==
  /\ \A k \in Node : Ran(box[k]) \subseteq Ran(inbox[k])
  /\ \A k \in Node : \A u \in Ran(out[k]) :
       MessageOwn(u) /\ (u.kind = "eof" \/ u.c.g = g)

OwnAct(g, act) == \A e \in Ran(act) : e.g = g /\ Known(e)

LEMMA TaskStepOwn ==
  ASSUME Types, Own, UNCHANGED request, NEW n \in Node, NEW g \in Sign,
         NEW t, NEW act, NEW box, NEW out, NEW state \in States \ Waiting,
         Current(g), n = Main(g) \/ n \in Peers(g),
         task' = [task EXCEPT ![<<n, g>>] = t], t.pc # "idle",
         TaskOwn(request[g], n, g, t, act), OwnAct(g, act),
         active' = [active EXCEPT ![n] = act],
         resp' = IF n = Main(g) THEN resp ELSE [resp EXCEPT ![Asked(n, g)] = state],
         box \in Boxes, out \in Boxes, inbox' = box ++ out, Sends(g, box, out)
  PROVE  Own'
<1>0. Made(g) /\ RequestsOwn /\ Main(g) \in Node
  BY DEF Own, RequestsOwn, Current
<1>1. n # Main(g) => Asked(n, g) \in Chan /\ Known(Asked(n, g))
  BY <1>0 DEF Chan, Asked, Known
<1>2. ASSUME NEW k \in Node, NEW h \in Sign
      PROVE  task'[<<k, h>>] = IF k = n /\ h = g THEN t ELSE task[<<k, h>>]
  BY DEF Types
<1>3. ASSUME NEW k \in Node
      PROVE  active'[k] = IF k = n THEN act ELSE active[k]
  BY DEF Types
<1>4. ASSUME NEW c \in Chan
      PROVE  resp'[c] = IF n # Main(g) /\ c = Asked(n, g) THEN state ELSE resp[c]
  BY <1>1 DEF Types
<1>5. ASSUME NEW k \in Node, NEW u \in Ran(inbox'[k])
      PROVE  u \in Ran(inbox[k]) \/ u \in Ran(out[k])
  BY <1>5, After DEF Sends
<1>6. \A h \in Sign : Current(h) => h = g
  <2> SUFFICES ASSUME NEW h \in Sign, Current(h), h # g PROVE FALSE
    OBVIOUS
  <2>1. h < g \/ g < h
    BY BoundAssumption DEF Sign
  <2> QED
    BY <2>1, <1>0 DEF Current
<1>7. TasksOwn'
  <2>1. ASSUME NEW k \in Node, NEW h \in Sign
        PROVE  /\ task'[<<k, h>>].pc # "idle" => Made(h)
               /\ Running(k, h)' =>
                    Current(h) /\ \A e \in Ran(active'[k]) : e.g = h
               /\ TaskOwn(request[h], k, h, task'[<<k, h>>], active'[k])
    <3>1. CASE k = n /\ h = g
      <4>1. task'[<<k, h>>] = t /\ active'[k] = act
        BY <1>2, <1>3, <3>1
      <4> QED
        BY <1>0, <3>1, <4>1 DEF OwnAct
    <3>2. CASE ~(k = n /\ h = g)
      <4>1. task'[<<k, h>>] = task[<<k, h>>]
        BY <1>2, <3>2
      <4>2. Running(k, h)' <=> Running(k, h)
        BY <4>1 DEF Running
      <4>3. /\ task[<<k, h>>].pc # "idle" => Made(h)
            /\ Running(k, h) => Current(h) /\ \A e \in Ran(active[k]) : e.g = h
            /\ TaskOwn(request[h], k, h, task[<<k, h>>], active[k])
        BY DEF Own, TasksOwn
      <4>4. CASE k # n
        <5>1. active'[k] = active[k]
          BY <1>3, <4>4
        <5> QED
          BY <4>1, <4>2, <4>3, <5>1
      <4>5. CASE k = n
        <5>1. ~Running(k, h)
          BY <1>6, <3>2, <4>3, <4>5
        <5>2. TaskOwn(request[h], k, h, task[<<k, h>>], active'[k])
          BY <4>3, <5>1 DEF TaskOwn, Running, Ended
        <5> QED
          BY <4>1, <4>2, <4>3, <5>1, <5>2
      <4> QED
        BY <4>4, <4>5
    <3> QED
      BY <3>1, <3>2
  <2> QED
    BY <2>1, SameRequests DEF TasksOwn
<1>8. ChannelsOwn'
  <2>0. ChannelsOwn
    BY DEF Own
  <2>1. ASSUME NEW c \in Chan
        PROVE  /\ resp'[c] # "none" => Known(c)
               /\ resp'[c] = "payload" => c.a = Main(c.g)
               /\ resp'[c] = "payload" /\ Current(c.g) =>
                    \A e \in Ran(active'[c.b]) : e.g = c.g
    <3>1. resp'[c] # "none" => Known(c)
      BY <1>1, <1>4, <2>0 DEF ChannelsOwn
    <3>2. resp'[c] = "payload" => resp[c] = "payload"
      BY <1>4 DEF Waiting
    <3>3. ASSUME resp'[c] = "payload", Current(c.g)
          PROVE  \A e \in Ran(active'[c.b]) : e.g = c.g
      <4>1. c.g = g /\ c.b \in Node
        BY <1>6, <3>3 DEF Chan
      <4> QED
        BY <1>3, <2>0, <3>2, <3>3, <4>1 DEF ChannelsOwn, OwnAct
    <3> QED
      BY <2>0, <3>1, <3>2, <3>3 DEF ChannelsOwn
  <2>2. ASSUME NEW k \in Node, NEW h \in Sign,
               task'[<<k, h>>].pc # "idle", k # Main(h)
        PROVE  resp'[Asked(k, h)] \notin Waiting
    <3>1. Asked(k, h) \in Chan
      <4>1. Made(h)
        BY <1>7, <2>2, SameRequests DEF TasksOwn
      <4> QED
        BY <1>0, <2>2, <4>1 DEF RequestsOwn, Asked, Chan
    <3>2. CASE k = n /\ h = g
      BY <1>4, <2>2, <3>1, <3>2
    <3>3. CASE ~(k = n /\ h = g)
      BY <1>2, <1>4, <2>0, <2>2, <3>1, <3>3 DEF ChannelsOwn
    <3> QED
      BY <3>2, <3>3
  <2>3. ASSUME NEW k \in Node, NEW e \in Ran(active'[k])
        PROVE  Known(e)
    BY <1>3, <2>0, <2>3 DEF ChannelsOwn, OwnAct
  <2> QED
    BY <2>1, <2>2, <2>3, SameRequests DEF ChannelsOwn
<1>9. MessagesOwn'
  <2>1. ASSUME NEW k \in Node, NEW u \in Ran(inbox'[k])
        PROVE  /\ MessageOwn(u)
               /\ k = u.c.b /\ resp'[u.c] \in Waiting =>
                    u.kind = "eof" \/ Current(u.c.g)
    <3>1. CASE u \in Ran(inbox[k])
      <4>1. u.c \in Chan
        BY <3>1, InboxChan
      <4>2. resp'[u.c] \in Waiting => resp[u.c] \in Waiting
        BY <1>4, <4>1
      <4> QED
        BY <3>1, <4>2 DEF Own, MessagesOwn
    <3>2. CASE u \in Ran(out[k])
      BY <3>2 DEF Sends
    <3> QED
      BY <1>5, <3>1, <3>2
  <2> QED
    BY <2>1, SameRequests DEF MessagesOwn
<1> QED
  BY <1>0, <1>7, <1>8, <1>9, SameRequests DEF Own

-----------------------------------------------------------------------------
(* What a task of n for g has at hand when its step ends.                  *)
OwnReady(n, g, t, act, box, out) ==
  /\ Current(g) /\ (n = Main(g) \/ n \in Peers(g))
  /\ t.from = IF n = Main(g) THEN NoChan ELSE Asked(n, g)
  /\ Ran(t.list) \subseteq Peers(g) /\ Reached(t) \subseteq Peers(g)
  /\ n = Main(g) => Ran(act) \subseteq Ran(t.opened)
  /\ OwnAct(g, act) /\ box \in Boxes /\ out \in Boxes /\ Sends(g, box, out)

LEMMA AskedIs ==
  ASSUME Own, NEW n \in Node, NEW g \in Sign, Current(g), n \in Peers(g)
  PROVE  /\ Asked(n, g) \in Chan /\ Known(Asked(n, g)) /\ Asked(n, g) # NoChan
         /\ n # Main(g) /\ Main(g) \in Node
<1>1. Made(g) /\ Main(g) \in Node /\ Main(g) \notin Peers(g)
  BY DEF Current, Own, RequestsOwn
<1> QED
  BY <1>1, NotAChannel DEF Asked, Chan, Known

LEMMA AwaitOwn ==
  ASSUME Types, Own, UNCHANGED <<request, down>>, NEW n \in Node, NEW g \in Sign,
         NEW t, NEW act, NEW box, NEW out,
         OwnReady(n, g, t, act, box, out),
         TaskOwn(request[g], n, g, t, act), t.pc # "idle",
         Await(n, g, t, act, box, out)
  PROVE  Own'
<1>1. n # Main(g) => t.from = Asked(n, g) /\ t.from # NoChan
  BY AskedIs DEF OwnReady
<1>2. n = Main(g) => t.from = NoChan
  BY DEF OwnReady
<1>3. resp' = IF n = Main(g) THEN resp ELSE [resp EXCEPT ![Asked(n, g)] = "sign"]
  BY <1>1, <1>2 DEF Await
<1>4. "sign" \in States \ Waiting
  BY DEF States, Waiting
<1> QED
  BY <1>3, <1>4, TaskStepOwn DEF OwnReady, Await

LEMMA EofsOwn ==
  ASSUME NEW n \in Node, NEW chans, Dictionary(n, chans),
         \A c \in Ran(chans) : Known(c)
  PROVE  \A d \in Dropped(n, chans) :
           /\ d \in Boxes
           /\ \A k \in Node : \A u \in Ran(d[k]) : MessageOwn(u) /\ u.kind = "eof"
<1>1. chans \in Seq(Chan)
  BY DEF Dictionary
<1>2. 0 \in 0..Rounds /\ "eof" \in Kinds
  BY BoundAssumption DEF Kinds
<1>3. /\ Eofs(n, chans) \in Boxes
      /\ \A k \in Node : \A u \in Ran(Eofs(n, chans)[k]) :
              /\ u.c \in Ran(chans)
              /\ u = [c |-> u.c, kind |-> "eof", round |-> 0, nodes |-> <<>>]
  BY <1>1, <1>2, PostedEach DEF Eofs
<1>4. ASSUME NEW k \in Node, NEW u \in Ran(Eofs(n, chans)[k])
      PROVE  MessageOwn(u) /\ u.kind = "eof"
  <2>1. Known(u.c) /\ u.kind = "eof"
    BY <1>3
  <2> QED
    BY <2>1 DEF MessageOwn
<1> QED
  BY <1>3, <1>4, NothingSent DEF Dropped

LEMMA SendsMore ==
  ASSUME NEW g, NEW box, NEW out \in Boxes, Sends(g, box, out), NEW d \in Boxes,
         \A k \in Node : \A u \in Ran(d[k]) :
           MessageOwn(u) /\ (u.kind = "eof" \/ u.c.g = g)
  PROVE  out ++ d \in Boxes /\ Sends(g, box, out ++ d)
<1>1. out ++ d \in Boxes /\ \A k \in Node : Ran((out ++ d)[k]) = Ran(out[k]) \cup Ran(d[k])
  BY After
<1> DEFINE sum == out ++ d
<1>2. sum \in Boxes /\ \A k \in Node : Ran(sum[k]) = Ran(out[k]) \cup Ran(d[k])
  BY <1>1
<1> HIDE DEF sum
<1>3. Sends(g, box, sum)
  BY <1>2 DEF Sends
<1> QED
  BY <1>2, <1>3 DEF sum

LEMMA RaiseOwn ==
  ASSUME Types, Own, UNCHANGED <<request, down>>, NEW n \in Node, NEW g \in Sign,
         NEW t, NEW act, NEW box, NEW out, Dictionary(n, act), t \in Task,
         OwnReady(n, g, t, act, box, out),
         Raise(n, g, t, act, box, out)
  PROVE  Own'
<1> DEFINE f == Leave(t, "failed")
<1>1. f.pc = "failed"
  BY DEF Leave, Idle
<1>2. task' = [task EXCEPT ![<<n, g>>] = f]
  BY DEF Raise
<1> HIDE DEF f
<1>3. \A a : TaskOwn(request[g], n, g, f, a)
  BY <1>1 DEF TaskOwn, Ended
<1>4. "failed" \in States \ Waiting /\ f.pc # "idle"
  BY <1>1 DEF States, Waiting
<1>5. CASE n = Main(g)
  <2>1. t.from = NoChan
    BY <1>5 DEF OwnReady
  <2>2. active' = [active EXCEPT ![n] = act] /\ inbox' = box ++ out /\ resp' = resp
    BY <2>1 DEF Raise
  <2> QED
    BY <1>2, <1>3, <1>4, <1>5, <2>2, TaskStepOwn DEF OwnReady
<1>6. CASE n # Main(g)
  <2>1. /\ t.from = Asked(n, g) /\ t.from # NoChan
        /\ t.from \in Chan /\ Known(t.from) /\ t.from.b = n
    <3>1. t.from = Asked(n, g) /\ n \in Peers(g)
      BY <1>6 DEF OwnReady
    <3> QED
      BY <3>1, AskedIs DEF OwnReady, Asked
  <2> DEFINE w == Without(n, act, {t.from.a})
  <2>2. PICK d \in Dropped(n, <<t.from>>) : inbox' = box ++ (out ++ d)
    BY <2>1 DEF Raise
  <2>3. active' = [active EXCEPT ![n] = w]
        /\ resp' = [resp EXCEPT ![Asked(n, g)] = "failed"]
    BY <2>1 DEF Raise
  <2>4. OwnAct(g, w)
    BY WithoutDictionary DEF OwnReady, OwnAct
  <2>5. Dictionary(n, <<t.from>>) /\ \A c \in Ran(<<t.from>>) : Known(c)
    BY <2>1, SmallDictionary
  <2>6. d \in Boxes /\ \A k \in Node : \A u \in Ran(d[k]) :
                          MessageOwn(u) /\ u.kind = "eof"
    BY <2>5, EofsOwn
  <2>7. out ++ d \in Boxes /\ Sends(g, box, out ++ d)
    BY <2>6, SendsMore DEF OwnReady
  <2> HIDE DEF w
  <2> QED
    BY <1>2, <1>3, <1>4, <1>6, <2>2, <2>3, <2>4, <2>7, TaskStepOwn DEF OwnReady
<1> QED
  BY <1>5, <1>6

LEMMA BeginRoundOwn ==
  ASSUME Types, Own, UNCHANGED <<request, down>>, NEW n \in Node, NEW g \in Sign,
         NEW t, NEW act, NEW box, NEW out, NEW r \in 0..Rounds,
         Dictionary(n, act), t \in Task,
         OwnReady(n, g, t, act, box, out), n = Main(g) => Peers(g) = Reached(t),
         BeginRound(n, g, t, act, box, out, r)
  PROVE  Own'
<1>1. CASE act = <<>>
  <2> DEFINE u == [t EXCEPT !.pc = "sleep", !.wait = NoChan, !.round = Rounds]
  <2>1. Await(n, g, u, act, box, out)
    BY <1>1 DEF BeginRound
  <2>2. u.pc = "sleep" /\ u.from = t.from /\ u.list = t.list /\ u.opened = t.opened
    BY DEF Task
  <2> HIDE DEF u
  <2>3. OwnReady(n, g, u, act, box, out)
    BY <2>2 DEF OwnReady, Reached
  <2>4. TaskOwn(request[g], n, g, u, act)
    BY <2>2 DEF TaskOwn, OwnReady, Reached, Ended, Asked, Main, Peers
  <2> QED
    BY <2>1, <2>2, <2>3, <2>4, AwaitOwn
<1>2. CASE act # <<>>
  <2> DEFINE u == [t EXCEPT !.pc = "share", !.wait = act[1], !.round = r,
                            !.members = act, !.at = 1, !.rebound = FALSE]
  <2>1. Await(n, g, u, act, box, out ++ Shares(n, act, r))
    BY <1>2 DEF BeginRound
  <2>2. u.pc = "share" /\ u.from = t.from /\ u.list = t.list /\ u.opened = t.opened
    BY DEF Task
  <2> HIDE DEF u
  <2>3. /\ Shares(n, act, r) \in Boxes
        /\ \A k \in Node : \A v \in Ran(Shares(n, act, r)[k]) :
             MessageOwn(v) /\ (v.kind = "eof" \/ v.c.g = g)
    <3>1. act \in Seq(Chan) /\ "share" \in Kinds
      BY DEF Dictionary, Kinds
    <3>2. /\ Shares(n, act, r) \in Boxes
          /\ \A k \in Node : \A v \in Ran(Shares(n, act, r)[k]) :
              /\ v.c \in Ran(act)
              /\ v = [c |-> v.c, kind |-> "share", round |-> r, nodes |-> <<>>]
      BY <3>1, PostedEach DEF Shares
    <3>3. ASSUME NEW k \in Node, NEW v \in Ran(Shares(n, act, r)[k])
          PROVE  MessageOwn(v) /\ (v.kind = "eof" \/ v.c.g = g)
      <4>1. Known(v.c) /\ v.c.g = g /\ v.kind = "share"
        BY <3>2 DEF OwnReady, OwnAct
      <4> QED
        BY <4>1 DEF MessageOwn
    <3> QED
      BY <3>2, <3>3
  <2>4. out ++ Shares(n, act, r) \in Boxes /\ Sends(g, box, out ++ Shares(n, act, r))
    BY <2>3, SendsMore DEF OwnReady
  <2>5. OwnReady(n, g, u, act, box, out ++ Shares(n, act, r))
    BY <2>2, <2>4 DEF OwnReady, Reached
  <2>6. TaskOwn(request[g], n, g, u, act)
    BY <2>2 DEF TaskOwn, OwnReady, Reached, Ended, Asked, Main, Peers
  <2> QED
    BY <2>1, <2>2, <2>5, <2>6, AwaitOwn
<1> QED
  BY <1>1, <1>2

(* The step of the main node that asks a peer, unless it fails.            *)
LEMMA AskSends ==
  ASSUME Types, Own, NEW n \in Node, NEW g \in Sign,
         NEW t, NEW act, NEW box, NEW out, Dictionary(n, act), TaskData(n, g, t),
         OwnReady(n, g, t, act, box, out), n = Main(g), Peers(g) = Reached(t),
         t.asked < Len(t.opened),
         Ask(n, g, t, act, box, out)
  PROVE  \/ Raise(n, g, t, act, box, out)
         \/ \E u, d :
              /\ Await(n, g, u, act, box, out ++ d)
              /\ u.pc = "ack" /\ u.from = t.from /\ u.list = t.list
              /\ u.opened = t.opened /\ u.round = t.round
              /\ d \in Boxes
              /\ \A j \in Node : \A v \in Ran(d[j]) :
                   MessageOwn(v) /\ v.kind = "payload" /\ v.c.g = g
<1>0. t \in Task /\ t.opened \in Seq(Chan)
  BY DEF TaskData, Task
<1> DEFINE k == t.asked + 1
           peer == t.opened[k].b
           c == At(n, act, peer)
<1>2. CASE /\ Has(n, act, peer)
           /\ Await(n, g, [t EXCEPT !.pc = "ack", !.wait = c, !.asked = k], act, box,
             out ++ Post(peer, [Msg(c, "payload") EXCEPT
               !.nodes = [i \in 1..(Len(t.opened) - k) |-> t.opened[k + i].b]]))
  <2> DEFINE u == [t EXCEPT !.pc = "ack", !.wait = c, !.asked = k]
             m == [Msg(c, "payload") EXCEPT !.nodes = Rest(t, k)]
  <2>1. c \in Ran(act) /\ c \in Chan
    <3>1. PICK i \in 1..Len(act) : c = act[i]
      BY <1>2, Key
    <3> HIDE DEF c
    <3> QED
      BY <3>1 DEF Dictionary, Ran
  <2>2. c.a = n /\ c.g = g /\ Known(c)
    <3> HIDE DEF c
    <3> QED
      BY <2>1 DEF OwnReady, OwnAct, TaskData
  <2>3. Await(n, g, u, act, box, out ++ Post(peer, m))
    BY <1>2 DEF Rest
  <2>4. u.pc = "ack" /\ u.from = t.from /\ u.list = t.list /\ u.opened = t.opened
        /\ u.round = t.round
    BY <1>0 DEF Task
  <2>5. k \in 1..Len(t.opened)
    BY <1>0 DEF Task
  <2>6. Ran(Rest(t, k)) \subseteq Reached(t) /\ Rest(t, k) \in Seq(Node)
    <3>1. Rest(t, k) \in Seq(Node)
      BY <2>5, RestPeers
    <3>2. Len(Rest(t, k)) = Len(t.opened) - k
      BY <1>0, <2>5 DEF Rest
    <3>3. ASSUME NEW i \in 1..(Len(t.opened) - k)
          PROVE  Rest(t, k)[i] \in Reached(t)
      <4>1. k + i \in 1..Len(t.opened) /\ Rest(t, k)[i] = t.opened[k + i].b
        BY <1>0, <2>5 DEF Rest
      <4> QED
        BY <4>1 DEF Reached
    <3> QED
      BY <3>1, <3>2, <3>3 DEF Ran
  <2>7. m \in Message /\ m.c = c /\ m.kind = "payload" /\ m.nodes = Rest(t, k)
    <3>1. Msg(c, "payload") \in Message
      BY <2>1, MsgType DEF Kinds
    <3>2. Msg(c, "payload").c = c /\ Msg(c, "payload").kind = "payload"
      BY DEF Msg
    <3> HIDE DEF c, k
    <3> QED
      BY <2>6, <3>1, <3>2 DEF Message
  <2> HIDE DEF m, c, u, k, peer
  <2>8. MessageOwn(m) /\ m.c.g = g
    BY <2>2, <2>6, <2>7 DEF MessageOwn
  <2>9. /\ Post(peer, m) \in Boxes
        /\ \A j \in Node : \A v \in Ran(Post(peer, m)[j]) : v = m
    <3>1. m \in Message
      BY <2>7
    <3> QED
      BY <3>1, Posted
  <2>10. \A j \in Node : \A v \in Ran(Post(peer, m)[j]) :
           MessageOwn(v) /\ v.kind = "payload" /\ v.c.g = g
    BY <2>7, <2>8, <2>9
  <2> QED
    BY <2>3, <2>4, <2>9, <2>10
<1> QED
  BY <1>2 DEF Ask

LEMMA AskOwn ==
  ASSUME Types, Own, UNCHANGED <<request, down>>, NEW n \in Node, NEW g \in Sign,
         NEW t, NEW act, NEW box, NEW out, Dictionary(n, act), TaskData(n, g, t),
         OwnReady(n, g, t, act, box, out), n = Main(g), Peers(g) = Reached(t),
         t.asked < Len(t.opened), t.round = 0,
         Ask(n, g, t, act, box, out)
  PROVE  Own'
<1>0. t \in Task
  BY DEF TaskData
<1>1. CASE Raise(n, g, t, act, box, out)
  BY <1>0, <1>1, RaiseOwn
<1>2. ASSUME NEW u, NEW d,
             Await(n, g, u, act, box, out ++ d),
             u.pc = "ack", u.from = t.from, u.list = t.list,
             u.opened = t.opened, u.round = t.round, d \in Boxes,
             \A j \in Node : \A v \in Ran(d[j]) :
               MessageOwn(v) /\ v.kind = "payload" /\ v.c.g = g
      PROVE  Own'
  <2>1. out ++ d \in Boxes /\ Sends(g, box, out ++ d)
    BY <1>2, SendsMore DEF OwnReady
  <2>2. OwnReady(n, g, u, act, box, out ++ d)
    BY <1>2, <2>1 DEF OwnReady, Reached
  <2>3. TaskOwn(request[g], n, g, u, act)
    <3>1. /\ u.from = NoChan /\ n = request[g].main /\ Ran(u.list) \subseteq Peers(g)
          /\ Reached(u) = Peers(g) /\ Ran(act) \subseteq Ran(u.opened)
      BY <1>2 DEF OwnReady, Reached, Main
    <3> QED
      BY <1>2, <3>1 DEF TaskOwn, Ended, Peers
  <2>4. u.pc # "idle"
    BY <1>2
  <2> QED
    BY <1>2, <2>2, <2>3, <2>4, AwaitOwn
<1> QED
  BY <1>1, <1>2, AskSends

LEMMA PlainOwn ==
  ASSUME NEW c \in Chan, Known(c), NEW to, NEW kind \in Kinds \ {"payload"},
         kind = "level0" => c.a = Main(c.g)
  PROVE  /\ Post(to, Msg(c, kind)) \in Boxes
         /\ \A k \in Node : \A u \in Ran(Post(to, Msg(c, kind))[k]) :
              k = to /\ MessageOwn(u) /\ u.kind = kind /\ u.c = c /\ ~Closed(k, c)
<1> DEFINE m == Msg(c, kind)
<1>1. m \in Message /\ m.c = c /\ m.kind = kind
  BY MsgType DEF Msg
<1> HIDE DEF m
<1>2. MessageOwn(m)
  BY <1>1 DEF MessageOwn
<1>3. /\ Post(to, m) \in Boxes
      /\ \A k \in Node : \A u \in Ran(Post(to, m)[k]) :
           k = to /\ u = m /\ ~Closed(k, m.c)
  BY <1>1, Posted
<1>4. /\ Post(to, m) \in Boxes
      /\ \A k \in Node : \A u \in Ran(Post(to, m)[k]) :
           k = to /\ MessageOwn(u) /\ u.kind = kind /\ u.c = c /\ ~Closed(k, c)
  BY <1>1, <1>2, <1>3
<1> QED
  BY <1>4 DEF m

LEMMA ConnectNextOwn ==
  ASSUME Types, Own, UNCHANGED <<request, down>>, NEW n \in Node, NEW g \in Sign,
         NEW t, NEW act, NEW box, NEW out, Dictionary(n, act),
         ConnectReady(n, g, t), OwnReady(n, g, t, act, box, out), t.round = 0,
         n = Main(g) => Peers(g) = Reached(t) \cup Ran(t.list),
         ConnectNext(n, g, t, act, box, out)
  PROVE  Own'
<1>0. TaskData(n, g, t) /\ t \in Task /\ t.list \in Seq(Node)
  BY DEF ConnectReady, TaskData, Task
<1>1. CASE Raise(n, g, t, act, box, out)
  BY <1>0, <1>1, RaiseOwn
<1>2. CASE t.list # <<>> /\ Head(t.list) \notin down
  <2> DEFINE c == [a |-> n, b |-> Head(t.list), g |-> g]
             u == [t EXCEPT !.pc = "connect", !.wait = c, !.list = Tail(@)]
  <2>1. \/ Raise(n, g, t, act, box, out)
        \/ Await(n, g, u, act, box, out ++ Post(c.b, Msg(c, "hello")))
    BY <1>2 DEF ConnectNext
  <2>2. c \in Chan /\ TaskOK(n, g, u)
    BY <1>2, HelloTask DEF ConnectReady
  <2>3. /\ u.pc = "connect" /\ u.from = t.from /\ u.list = Tail(t.list)
        /\ u.opened = t.opened /\ u.wait = c /\ u.round = 0
    BY <1>0 DEF Task
  <2>4. c.b \in Ran(t.list) /\ Ran(t.list) = Ran(Tail(t.list)) \cup {c.b} /\ c.g = g
    BY <1>0, <1>2, HeadTail
  <2> HIDE DEF c, u
  <2>5. Known(c)
    BY <2>4 DEF OwnReady, Known, Current
  <2>6. /\ Post(c.b, Msg(c, "hello")) \in Boxes
        /\ \A k \in Node : \A v \in Ran(Post(c.b, Msg(c, "hello"))[k]) :
             MessageOwn(v) /\ v.c.g = g
    BY <2>2, <2>4, <2>5, PlainOwn DEF Kinds
  <2>7. /\ out ++ Post(c.b, Msg(c, "hello")) \in Boxes
        /\ Sends(g, box, out ++ Post(c.b, Msg(c, "hello")))
    BY <2>6, SendsMore DEF OwnReady
  <2>8. OwnReady(n, g, u, act, box, out ++ Post(c.b, Msg(c, "hello")))
    BY <2>3, <2>4, <2>7 DEF OwnReady, Reached
  <2>9. TaskOwn(request[g], n, g, u, act)
    BY <2>3, <2>4 DEF TaskOwn, OwnReady, Reached, Ended, Asked, Main, Peers
  <2> QED
    BY <1>1, <2>1, <2>3, <2>8, <2>9, AwaitOwn
<1>3. CASE t.list = <<>> /\ t.from = NoChan /\ Ask(n, g, t, act, box, out)
  <2>1. t.asked < Len(t.opened)
    BY <1>3 DEF ConnectReady
  <2>2. n = Main(g)
    BY <1>3, AskedIs DEF OwnReady
  <2>3. Ran(t.list) = {}
    BY <1>3 DEF Ran
  <2>4. Peers(g) = Reached(t)
    BY <2>2, <2>3
  <2> QED
    BY <1>0, <1>3, <2>1, <2>2, <2>4, AskOwn
<1>4. CASE /\ t.list = <<>> /\ t.from # NoChan
           /\ BeginRound(n, g, t, act, box,
                         out ++ Post(t.from.a, Msg(t.from, "ack")), 1)
  <2>1. n # Main(g) /\ t.from = Asked(n, g)
    BY <1>4 DEF OwnReady
  <2>2. t.from \in Chan /\ Known(t.from) /\ t.from.g = g
    BY <2>1, AskedIs DEF OwnReady, Asked
  <2>3. /\ Post(t.from.a, Msg(t.from, "ack")) \in Boxes
        /\ \A k \in Node : \A v \in Ran(Post(t.from.a, Msg(t.from, "ack"))[k]) :
             MessageOwn(v) /\ v.c.g = g
    BY <2>2, PlainOwn DEF Kinds
  <2> DEFINE all == out ++ Post(t.from.a, Msg(t.from, "ack"))
  <2>4. all \in Boxes /\ Sends(g, box, all)
    BY <2>3, SendsMore DEF OwnReady
  <2> HIDE DEF all
  <2>5. OwnReady(n, g, t, act, box, all)
    BY <2>4 DEF OwnReady
  <2>6. 1 \in 0..Rounds
    BY BoundAssumption
  <2>7. BeginRound(n, g, t, act, box, all, 1)
    BY <1>4 DEF all
  <2> QED
    BY <1>0, <2>1, <2>5, <2>6, <2>7, BeginRoundOwn
<1> QED
  BY <1>1, <1>2, <1>3, <1>4 DEF ConnectNext

-----------------------------------------------------------------------------
(* A task that waits has at hand what its step needs.                      *)
LEMMA RunningOwn ==
  ASSUME Types, Own, NEW n \in Node, NEW g \in Sign, Running(n, g),
         NEW box \in Boxes, \A k \in Node : Ran(box[k]) \subseteq Ran(inbox[k])
  PROVE  LET t == task[<<n, g>>]
         IN /\ Current(g) /\ Made(g)
            /\ OwnAct(g, active[n])
            /\ TaskOwn(request[g], n, g, t, active[n])
            /\ t.pc # "sleep2" \/ n # Main(g) =>
                 OwnReady(n, g, t, active[n], box, Nothing)
<1> DEFINE t == task[<<n, g>>]
<1>1. /\ Current(g) /\ \A e \in Ran(active[n]) : e.g = g
      /\ TaskOwn(request[g], n, g, t, active[n])
  BY DEF Own, TasksOwn
<1>2. OwnAct(g, active[n])
  BY <1>1 DEF Own, ChannelsOwn, OwnAct
<1>3. t.pc \notin {"idle"} \cup Ended
  BY DEF Running
<1> HIDE DEF t
<1>4. /\ t.from = IF n = Main(g) THEN NoChan ELSE Asked(n, g)
      /\ n = Main(g) \/ n \in Peers(g)
      /\ Ran(t.list) \subseteq Peers(g)
      /\ Reached(t) \subseteq Peers(g)
      /\ n = Main(g) /\ t.pc # "sleep2" => Ran(active[n]) \subseteq Ran(t.opened)
  BY <1>1, <1>3 DEF TaskOwn, Main, Peers, Asked
<1>5. Nothing \in Boxes /\ Sends(g, box, Nothing)
  BY NothingSent DEF Sends
<1>6. t.pc # "sleep2" \/ n # Main(g) => OwnReady(n, g, t, active[n], box, Nothing)
  BY <1>1, <1>2, <1>4, <1>5 DEF OwnReady
<1> QED
  BY <1>1, <1>2, <1>6 DEF Current, t

LEMMA AppendOpened ==
  ASSUME NEW t \in Task, NEW c \in Chan
  PROVE  LET u == [t EXCEPT !.opened = Append(@, c)]
         IN /\ u \in Task /\ u.pc = t.pc /\ u.from = t.from /\ u.list = t.list
            /\ u.round = t.round /\ u.asked = t.asked
            /\ u.opened = Append(t.opened, c)
            /\ Reached(u) = Reached(t) \cup {c.b}
            /\ Ran(u.opened) = Ran(t.opened) \cup {c}
<1> DEFINE u == [t EXCEPT !.opened = Append(@, c)]
           s == t.opened
           w == Append(s, c)
<1>1. s \in Seq(Chan) /\ w \in Seq(Chan)
  BY DEF Task
<1>2. /\ u \in Task /\ u.pc = t.pc /\ u.from = t.from /\ u.list = t.list
      /\ u.round = t.round /\ u.asked = t.asked /\ u.opened = w
  BY <1>1 DEF Task
<1> HIDE DEF u, s
<1>3. /\ Len(s) \in Nat /\ Len(w) = Len(s) + 1 /\ w[Len(s) + 1] = c
      /\ \A i \in 1..Len(s) : w[i] = s[i]
  BY <1>1
<1> HIDE DEF w
<1>4. /\ \A i \in 1..Len(w) : i \in 1..Len(s) \/ i = Len(s) + 1
      /\ \A i \in 1..Len(s) : i \in 1..Len(w)
      /\ Len(s) + 1 \in 1..Len(w)
  BY <1>3
<1>5. {w[i].b : i \in 1..Len(w)} = {s[i].b : i \in 1..Len(s)} \cup {c.b}
  BY <1>3, <1>4
<1>6. Ran(w) = Ran(s) \cup {c}
  BY <1>3, <1>4 DEF Ran
<1>7. Reached(u) = Reached(t) \cup {c.b}
  BY <1>2, <1>5 DEF Reached, s
<1> QED
  BY <1>2, <1>6, <1>7 DEF u, s, w

(* The step of a task that connects to its peers.                          *)
NoShares(out) == \A k \in Node : \A u \in Ran(out[k]) : u.kind # "share"

Connecting(n, g, t, act, box, out) ==
  /\ Dictionary(n, act) /\ TaskData(n, g, t) /\ t.round = 0
  /\ task[<<n, g>>].round = 0 /\ NoShares(out)
  /\ OwnReady(n, g, t, act, box, out)
  /\ \/ /\ ConnectReady(n, g, t)
        /\ n = Main(g) => Peers(g) = Reached(t) \cup Ran(t.list)
        /\ ConnectNext(n, g, t, act, box, out)
     \/ Raise(n, g, t, act, box, out)

LEMMA ConnectingOwn ==
  ASSUME Types, Own, UNCHANGED <<request, down>>, NEW n \in Node, NEW g \in Sign,
         NEW t, NEW act, NEW box, NEW out, Connecting(n, g, t, act, box, out)
  PROVE  Own'
BY ConnectNextOwn, RaiseOwn DEF Connecting, TaskData

LEMMA ConnectedIs ==
  ASSUME Types, Own, NEW n \in Node, NEW i \in 1..Len(inbox[n]), Connected(n, i)
  PROVE  \E g \in Sign : \E t, act, out : Connecting(n, g, t, act, Take(n, i), out)
<1> DEFINE m == inbox[n][i]
           box == Take(n, i)
<1>1. PICK g \in Sign :
        LET t == task[<<n, g>>]
            level == IF t.from = NoChan THEN "level0" ELSE "level1"
        IN /\ t.pc = "connect" /\ t.wait = m.c
           /\ \/ /\ m.kind = "x" /\ ~Has(n, active[n], m.c.b)
                 /\ ConnectNext(n, g, [t EXCEPT !.opened = Append(@, m.c)],
                      Append(active[n], m.c), box, Post(m.c.b, Msg(m.c, level)))
              \/ /\ m.kind # "x" \/ Has(n, active[n], m.c.b)
                 /\ \E d \in Dropped(n, <<m.c>>) :
                      Raise(n, g, t, active[n], box, d)
  BY DEF Connected
<1> DEFINE t == task[<<n, g>>]
           level == IF t.from = NoChan THEN "level0" ELSE "level1"
           u == [t EXCEPT !.opened = Append(@, m.c)]
<1>2. TaskOK(n, g, t) /\ Dictionary(n, active[n])
  BY DEF Types
<1>3. TaskData(n, g, t) /\ t \in Task
  BY <1>2 DEF TaskOK, TaskData
<1>4. /\ m.c \in Chan /\ m.c.a = n /\ m.c.g = g /\ t.asked = 0 /\ t.pc = "connect"
      /\ m.c.b \notin Ran(t.list)
      /\ \A j \in 1..Len(t.opened) : t.opened[j].b # m.c.b
  BY <1>1, <1>2 DEF TaskOK
<1>5. box \in Boxes /\ \A k \in Node : Ran(box[k]) \subseteq Ran(inbox[k])
  BY Taken DEF Types, MessagesOK
<1>6. Running(n, g)
  BY <1>4 DEF Running, Ended
<1>7. /\ Current(g) /\ Made(g) /\ OwnAct(g, active[n])
      /\ TaskOwn(request[g], n, g, t, active[n])
      /\ OwnReady(n, g, t, active[n], box, Nothing)
  BY <1>4, <1>5, <1>6, RunningOwn
<1>8. m.c.b \in Peers(g) /\ Known(m.c) /\ t.round = 0
  <2>1. m.c.b \in Ran(request[g].peers) /\ t.round = 0
    BY <1>1, <1>4, <1>7 DEF TaskOwn, Ended
  <2> QED
    BY <1>4, <1>7, <2>1 DEF Known, Peers
<1>9. n = Main(g) => Peers(g) = Reached(t) \cup {m.c.b} \cup Ran(t.list)
  BY <1>1, <1>4, <1>7 DEF TaskOwn, Ended, Main, Peers
<1>10. /\ u \in Task /\ u.from = t.from /\ u.list = t.list /\ u.round = t.round
       /\ u.asked = t.asked /\ u.opened = Append(t.opened, m.c)
       /\ Reached(u) = Reached(t) \cup {m.c.b}
       /\ Ran(u.opened) = Ran(t.opened) \cup {m.c}
  BY <1>3, <1>4, AppendOpened
<1> HIDE DEF m, t, box, level
<1>11. CASE /\ m.kind = "x" /\ ~Has(n, active[n], m.c.b)
            /\ ConnectNext(n, g, u, Append(active[n], m.c), box,
                           Post(m.c.b, Msg(m.c, level)))
  <2> DEFINE out == Post(m.c.b, Msg(m.c, level))
             act == Append(active[n], m.c)
  <2>1. Other(n, m.c) = m.c.b
    BY <1>4 DEF Other, Chan
  <2>2. Dictionary(n, act) /\ Ran(act) = Ran(active[n]) \cup {m.c}
    BY <1>2, <1>4, <1>11, <2>1, AppendDictionary
  <2>3. level = "level0" => m.c.a = Main(m.c.g)
    <3>1. ASSUME n # Main(g) PROVE level = "level1"
      <4>1. t.from # NoChan
        BY <1>7, <3>1, AskedIs DEF OwnReady
      <4> QED
        BY <4>1 DEF level
    <3> QED
      BY <1>4, <3>1
  <2>4. level \in Kinds \ {"payload"}
    BY DEF level, Kinds
  <2>5. out \in Boxes /\ \A k \in Node : \A v \in Ran(out[k]) :
                          MessageOwn(v) /\ v.c.g = g /\ v.kind = level
    BY <1>4, <1>8, <2>3, <2>4, PlainOwn
  <2>11. level # "share"
    BY DEF level
  <2> HIDE DEF out, act, u
  <2>6. ConnectReady(n, g, u)
    BY ConnectedReady, <1>10, <1>3, <1>4
  <2>7. Sends(g, box, out)
    BY <1>5, <2>5 DEF Sends
  <2>8. OwnReady(n, g, u, act, box, out)
    BY <1>4, <1>5, <1>7, <1>8, <1>10, <2>2, <2>5, <2>7 DEF OwnReady, OwnAct
  <2>9. n = Main(g) => Peers(g) = Reached(u) \cup Ran(u.list)
    BY <1>9, <1>10
  <2>10. ConnectNext(n, g, u, act, box, out)
    BY <1>11 DEF out, act
  <2>12. Connecting(n, g, u, act, box, out)
    BY <1>8, <1>10, <2>2, <2>5, <2>6, <2>8, <2>9, <2>10, <2>11
       DEF Connecting, NoShares, ConnectReady, t
  <2> QED
    BY <2>12 DEF box
<1>12. CASE \E d \in Dropped(n, <<m.c>>) : Raise(n, g, t, active[n], box, d)
  <2>1. PICK d \in Dropped(n, <<m.c>>) : Raise(n, g, t, active[n], box, d)
    BY <1>12
  <2>2. Dictionary(n, <<m.c>>) /\ \A c \in Ran(<<m.c>>) : Known(c)
    BY <1>4, <1>8, SmallDictionary
  <2>3. d \in Boxes /\ \A k \in Node : \A v \in Ran(d[k]) : MessageOwn(v) /\ v.kind = "eof"
    BY <2>2, EofsOwn
  <2>4. OwnReady(n, g, t, active[n], box, d)
    BY <1>5, <1>7, <2>3 DEF OwnReady, Sends
  <2>5. Connecting(n, g, t, active[n], box, d)
    BY <1>2, <1>3, <1>8, <2>1, <2>3, <2>4 DEF Connecting, NoShares, t
  <2> QED
    BY <2>5 DEF box
<1> QED
  BY <1>1, <1>11, <1>12 DEF m, t, level, box

LEMMA ConnectedOwn ==
  ASSUME Types, Own, UNCHANGED <<request, down>>,
         NEW n \in Node, NEW i \in 1..Len(inbox[n]), Connected(n, i)
  PROVE  Own'
BY ConnectedIs, ConnectingOwn

LEMMA AddNothing ==
  ASSUME NEW box \in Boxes
  PROVE  box ++ Nothing = box
<1>1. ASSUME NEW k \in Node PROVE box[k] \o Nothing[k] = box[k]
  <2>1. box[k] \in Seq(Message) /\ Nothing[k] = <<>>
    BY DEF Boxes, Nothing
  <2> QED
    BY <2>1
<1> QED
  BY <1>1 DEF ++, Boxes

LEMMA AcknowledgedOwn ==
  ASSUME Types, Own, UNCHANGED <<request, down>>,
         NEW n \in Node, NEW i \in 1..Len(inbox[n]), Acknowledged(n, i)
  PROVE  Own'
<1> DEFINE m == inbox[n][i]
           box == Take(n, i)
<1>1. PICK g \in Sign :
        LET t == task[<<n, g>>]
        IN /\ t.pc = "ack" /\ t.wait = m.c
           /\ \/ /\ m.kind = "ack" /\ t.asked < Len(t.opened)
                 /\ Ask(n, g, t, active[n], box, Nothing)
              \/ /\ m.kind = "ack" /\ t.asked = Len(t.opened)
                 /\ BeginRound(n, g, t, active[n], box, Nothing, 1)
              \/ /\ m.kind # "ack"
                 /\ Raise(n, g, t, active[n], box, Nothing)
  BY DEF Acknowledged
<1> DEFINE t == task[<<n, g>>]
<1>2. TaskOK(n, g, t) /\ Dictionary(n, active[n])
  BY DEF Types
<1>3. TaskData(n, g, t) /\ t \in Task
  BY <1>2 DEF TaskOK, TaskData
<1>4. box \in Boxes /\ \A k \in Node : Ran(box[k]) \subseteq Ran(inbox[k])
  BY Taken DEF Types, MessagesOK
<1>5. Running(n, g) /\ t.pc = "ack"
  BY <1>1 DEF Running, Ended
<1>6. /\ TaskOwn(request[g], n, g, t, active[n])
      /\ OwnReady(n, g, t, active[n], box, Nothing)
  BY <1>4, <1>5, RunningOwn
<1> HIDE DEF m, t, box
<1>7. t.round = 0 /\ n = Main(g) /\ Peers(g) = Reached(t)
  BY <1>5, <1>6 DEF TaskOwn, Ended, Main, Peers
<1>8. 1 \in 0..Rounds
  BY BoundAssumption
<1>9. CASE t.asked < Len(t.opened) /\ Ask(n, g, t, active[n], box, Nothing)
  BY <1>2, <1>3, <1>6, <1>7, <1>9, AskOwn
<1>10. CASE BeginRound(n, g, t, active[n], box, Nothing, 1)
  BY <1>2, <1>3, <1>6, <1>7, <1>8, <1>10, BeginRoundOwn
<1>11. CASE Raise(n, g, t, active[n], box, Nothing)
  BY <1>2, <1>3, <1>6, <1>11, RaiseOwn
<1> QED
  BY <1>1, <1>9, <1>10, <1>11 DEF m, t

LEMMA ShareOwn ==
  ASSUME Types, Own, UNCHANGED <<request, down>>,
         NEW n \in Node, NEW i \in 1..Len(inbox[n]), Share(n, i)
  PROVE  Own'
<1> DEFINE m == inbox[n][i]
           box == Take(n, i)
<1>1. PICK g \in Sign :
        LET t == task[<<n, g>>]
            ok == m.kind = "share" /\ ~Resized(n, t)
        IN /\ t.pc = "share" /\ t.wait = m.c
           /\ \/ /\ ~ok
                 /\ \E end \in {box, inbox} : Raise(n, g, t, active[n], end, Nothing)
              \/ /\ ok /\ t.at < Len(t.members)
                 /\ Await(n, g, [t EXCEPT !.at = @ + 1, !.wait = t.members[t.at + 1]],
                          active[n], box, Nothing)
              \/ /\ ok /\ t.at = Len(t.members) /\ t.round < Rounds
                 /\ BeginRound(n, g, t, active[n], box, Nothing, t.round + 1)
              \/ /\ ok /\ t.at = Len(t.members) /\ t.round = Rounds
                 /\ Await(n, g, [t EXCEPT !.pc = "sleep", !.wait = NoChan],
                          active[n], box, Nothing)
  BY DEF Share, ReadEnd
<1> DEFINE t == task[<<n, g>>]
           next == [t EXCEPT !.at = @ + 1, !.wait = t.members[t.at + 1]]
           last == [t EXCEPT !.pc = "sleep", !.wait = NoChan]
<1>2. TaskOK(n, g, t) /\ Dictionary(n, active[n])
  BY DEF Types
<1>3. TaskData(n, g, t) /\ t \in Task
  BY <1>2 DEF TaskOK, TaskData
<1>4. /\ box \in Boxes /\ \A k \in Node : Ran(box[k]) \subseteq Ran(inbox[k])
      /\ inbox \in Boxes /\ \A k \in Node : Ran(inbox[k]) \subseteq Ran(inbox[k])
  BY Taken DEF Types, MessagesOK
<1>5. Running(n, g) /\ t.pc = "share"
  BY <1>1 DEF Running, Ended
<1>6. /\ TaskOwn(request[g], n, g, t, active[n])
      /\ OwnReady(n, g, t, active[n], box, Nothing)
      /\ OwnReady(n, g, t, active[n], inbox, Nothing)
  BY <1>4, <1>5, RunningOwn
<1>7. /\ \/ \E end \in {box, inbox} : Raise(n, g, t, active[n], end, Nothing)
         \/ Await(n, g, next, active[n], box, Nothing)
         \/ t.round < Rounds /\ BeginRound(n, g, t, active[n], box, Nothing, t.round + 1)
         \/ Await(n, g, last, active[n], box, Nothing)
  BY <1>1
<1> HIDE DEF m, t, box
<1>8. /\ next.pc = "share" /\ next.from = t.from /\ next.list = t.list
      /\ next.opened = t.opened
      /\ last.pc = "sleep" /\ last.from = t.from /\ last.list = t.list
      /\ last.opened = t.opened
  BY <1>3, <1>5 DEF Task
<1> HIDE DEF next, last
<1>9. n = Main(g) => Peers(g) = Reached(t)
  BY <1>5, <1>6 DEF TaskOwn, Ended, Main, Peers
<1>10. ASSUME NEW u \in {next, last}
       PROVE  /\ TaskOwn(request[g], n, g, u, active[n]) /\ u.pc # "idle"
              /\ OwnReady(n, g, u, active[n], box, Nothing)
  <2>1. /\ u.pc \in {"share", "sleep"} /\ u.from = t.from /\ u.list = t.list
        /\ u.opened = t.opened
    BY <1>8
  <2>2. OwnReady(n, g, u, active[n], box, Nothing)
    BY <1>6, <2>1 DEF OwnReady, Reached
  <2>3. TaskOwn(request[g], n, g, u, active[n])
    BY <1>5, <1>6, <2>1 DEF TaskOwn, Reached, Ended
  <2> QED
    BY <2>1, <2>2, <2>3
<1>11. t.round < Rounds => t.round + 1 \in 0..Rounds
  BY <1>3, BoundAssumption DEF Task
<1> QED
  BY <1>2, <1>3, <1>6, <1>7, <1>9, <1>10, <1>11, AwaitOwn, BeginRoundOwn, RaiseOwn

LEMMA CloseChannelsOwn ==
  ASSUME Types, Own, NEW n \in Node, NEW g \in Sign, CloseChannels(n, g)
  PROVE  Own'
<1> DEFINE t == task[<<n, g>>]
           u == [t EXCEPT !.pc = "sleep2"]
           held == {i \in 1..Len(t.opened) : Has(n, active[n], t.opened[i].b)}
           done == {i \in held : 1..i \subseteq held}
           peers == {t.opened[i].b : i \in done}
           kept == Keep(active[n], {c \in Chan : Other(n, c) \in peers})
           act == Without(n, active[n], peers)
           out == Eofs(n, kept)
<1>1. /\ \/ Await(n, g, u, act, inbox, out)
         \/ Raise(n, g, t, act, inbox, out)
      /\ UNCHANGED <<request, down>> /\ t.pc = "sleep"
  BY DEF CloseChannels
<1> HIDE DEF peers
<1>2. TaskOK(n, g, t) /\ Dictionary(n, active[n]) /\ inbox \in Boxes
  BY DEF Types, MessagesOK
<1>3. TaskData(n, g, t) /\ t \in Task
  BY <1>2 DEF TaskOK, TaskData
<1>4. Running(n, g)
  BY <1>1 DEF Running, Ended
<1>5. /\ OwnAct(g, active[n]) /\ TaskOwn(request[g], n, g, t, active[n])
      /\ OwnReady(n, g, t, active[n], inbox, Nothing)
  BY <1>1, <1>2, <1>4, RunningOwn
<1> HIDE DEF t
<1>6. Dictionary(n, act) /\ Ran(act) \subseteq Ran(active[n])
  BY <1>2, WithoutDictionary
<1>7. Dictionary(n, kept) /\ \A c \in Ran(kept) : Known(c)
  BY <1>2, <1>5, KeepDictionary DEF OwnAct
<1>8. out \in Dropped(n, kept)
  BY DEF Dropped
<1> HIDE DEF kept, act, out
<1>9. out \in Boxes /\ \A k \in Node : \A v \in Ran(out[k]) : MessageOwn(v) /\ v.kind = "eof"
  BY <1>7, <1>8, EofsOwn
<1>10. OwnReady(n, g, t, act, inbox, out)
  BY <1>2, <1>5, <1>6, <1>9 DEF OwnReady, OwnAct, Sends
<1>11. /\ u.pc = "sleep2" /\ u.from = t.from /\ u.list = t.list
       /\ u.opened = t.opened
  BY <1>3 DEF Task
<1> HIDE DEF u
<1>12. OwnReady(n, g, u, act, inbox, out)
  BY <1>10, <1>11 DEF OwnReady, Reached
<1>13. TaskOwn(request[g], n, g, u, act)
  BY <1>1, <1>5, <1>11 DEF TaskOwn, Reached, Ended
<1> QED
  BY <1>1, <1>3, <1>6, <1>10, <1>11, <1>12, <1>13, AwaitOwn, RaiseOwn

LEMMA FinishOwn ==
  ASSUME Types, Own, NEW n \in Node, NEW g \in Sign, Finish(n, g)
  PROVE  Own'
<1> DEFINE t == task[<<n, g>>]
           f == Leave(t, "done")
           w == Without(n, active[n], {t.from.a})
<1>1. t.pc = "sleep2" /\ UNCHANGED <<request, down>>
  BY DEF Finish
<1>2. TaskOK(n, g, t) /\ Dictionary(n, active[n]) /\ inbox \in Boxes
  BY DEF Types, MessagesOK
<1>3. TaskData(n, g, t) /\ t \in Task
  BY <1>2 DEF TaskOK, TaskData
<1>4. Running(n, g)
  BY <1>1 DEF Running, Ended
<1>5. /\ Current(g) /\ OwnAct(g, active[n])
      /\ TaskOwn(request[g], n, g, t, active[n])
      /\ n # Main(g) => OwnReady(n, g, t, active[n], inbox, Nothing)
  BY <1>2, <1>4, RunningOwn
<1>6. /\ t.from = IF n = Main(g) THEN NoChan ELSE Asked(n, g)
      /\ n = Main(g) \/ n \in Peers(g)
  BY <1>1, <1>5 DEF TaskOwn, Ended, Main, Peers, Asked
<1>7. n # Main(g) => t.from \in Chan /\ Known(t.from) /\ t.from # NoChan /\ t.from.b = n
  BY <1>5, <1>6, AskedIs DEF Asked
<1>8. /\ \/ t.from # NoChan /\ Raise(n, g, t, active[n], inbox, Nothing)
         \/ /\ t.from # NoChan
            /\ task' = [task EXCEPT ![<<n, g>>] = f]
            /\ active' = [active EXCEPT ![n] = w]
            /\ inbox' = inbox ++ Eofs(n, <<t.from>>)
            /\ resp' = [resp EXCEPT ![t.from] = "closed"]
         \/ /\ t.from = NoChan
            /\ task' = [task EXCEPT ![<<n, g>>] = f]
            /\ UNCHANGED <<active, inbox, resp>>
  BY DEF Finish
<1>9. f.pc = "done"
  BY DEF Leave, Idle
<1> HIDE DEF t, f
<1>10. f.pc # "idle" /\ \A a : TaskOwn(request[g], n, g, f, a)
  BY <1>9 DEF TaskOwn, Ended
<1>11. CASE t.from # NoChan /\ Raise(n, g, t, active[n], inbox, Nothing)
  BY <1>1, <1>2, <1>3, <1>5, <1>6, <1>11, RaiseOwn
<1>12. CASE /\ t.from # NoChan
            /\ task' = [task EXCEPT ![<<n, g>>] = f]
            /\ active' = [active EXCEPT ![n] = w]
            /\ inbox' = inbox ++ Eofs(n, <<t.from>>)
            /\ resp' = [resp EXCEPT ![t.from] = "closed"]
  <2>1. n # Main(g) /\ t.from = Asked(n, g)
    BY <1>6, <1>12
  <2>2. OwnAct(g, w)
    BY <1>2, <1>5, WithoutDictionary DEF OwnAct
  <2>3. Dictionary(n, <<t.from>>) /\ \A c \in Ran(<<t.from>>) : Known(c)
    BY <1>7, <2>1, SmallDictionary
  <2> DEFINE out == Eofs(n, <<t.from>>)
  <2>4. out \in Dropped(n, <<t.from>>)
    BY DEF Dropped
  <2> HIDE DEF out, w
  <2>5. out \in Boxes /\ \A k \in Node : \A v \in Ran(out[k]) : MessageOwn(v) /\ v.kind = "eof"
    BY <2>3, <2>4, EofsOwn
  <2>6. Sends(g, inbox, out)
    BY <2>5 DEF Sends
  <2>7. "closed" \in States \ Waiting
    BY DEF States, Waiting
  <2>8. inbox' = inbox ++ out
    BY <1>12 DEF out
  <2> QED
    BY <1>1, <1>2, <1>5, <1>6, <1>10, <1>12, <2>1, <2>2, <2>5, <2>6, <2>7, <2>8,
       TaskStepOwn
<1>13. CASE /\ t.from = NoChan
            /\ task' = [task EXCEPT ![<<n, g>>] = f]
            /\ UNCHANGED <<active, inbox, resp>>
  <2>1. n = Main(g)
    BY <1>6, <1>7, <1>13
  <2>2. active' = [active EXCEPT ![n] = active[n]]
    BY <1>13 DEF Types
  <2>3. inbox' = inbox ++ Nothing
    BY <1>2, <1>13, AddNothing
  <2>4. Nothing \in Boxes /\ Sends(g, inbox, Nothing)
    BY NothingSent DEF Sends
  <2>5. "closed" \in States \ Waiting
    BY DEF States, Waiting
  <2> QED
    BY <1>1, <1>2, <1>5, <1>6, <1>10, <1>13, <2>1, <2>2, <2>3, <2>4, <2>5,
       TaskStepOwn
<1> QED
  BY <1>8, <1>11, <1>12, <1>13

LEMMA OnlyCurrent ==
  ASSUME NEW g \in Sign, NEW h \in Sign, Current(g), Current(h)
  PROVE  g = h
<1>1. g < h \/ h < g \/ g = h
  BY BoundAssumption DEF Sign
<1> QED
  BY <1>1 DEF Current

(* What Rebind() makes of a task t.                                        *)
Marked(t, u) == u = t \/ (t.pc = "share" /\ u = [t EXCEPT !.rebound = TRUE])

(* Nothing of a task that runs depends on whether the dictionary was       *)
(* assigned, nor on what is not in it.                                     *)
LEMMA TaskOwnLess ==
  ASSUME NEW q, NEW n, NEW g, NEW t \in Task, NEW act, NEW other,
         TaskOwn(q, n, g, t, act),
         \/ t.pc \in {"idle"} \cup Ended
         \/ n # q.main
         \/ Ran(other) \subseteq Ran(act),
         NEW u, Marked(t, u)
  PROVE  TaskOwn(q, n, g, u, other) /\ u.pc = t.pc
<1>1. /\ u.pc = t.pc /\ u.from = t.from /\ u.list = t.list /\ u.opened = t.opened
      /\ u.wait = t.wait /\ u.round = t.round /\ (t.pc = "idle" => u = t)
  BY DEF Task, Marked
<1>2. Reached(u) = Reached(t)
  BY <1>1 DEF Reached
<1>3. CASE t.pc \in {"idle"} \cup Ended
  BY <1>1, <1>3 DEF TaskOwn, Ended
<1>4. CASE t.pc \notin {"idle"} \cup Ended
  <2> DEFINE from == IF n = q.main THEN NoChan ELSE [a |-> q.main, b |-> n, g |-> g]
  <2>1. /\ t.pc \in {"connect", "ack"} => t.round = 0
        /\ t.from = from
        /\ n = q.main \/ (n \in Ran(q.peers) /\ t.pc # "ack")
        /\ Ran(t.list) \subseteq Ran(q.peers)
        /\ t.pc = "connect" => t.wait.b \in Ran(q.peers)
        /\ Reached(t) \subseteq Ran(q.peers)
        /\ n = q.main =>
             /\ t.pc = "connect" =>
                  Ran(q.peers) = Reached(t) \cup {t.wait.b} \cup Ran(t.list)
             /\ t.pc \in {"ack", "share", "sleep"} => Ran(q.peers) = Reached(t)
             /\ t.pc # "sleep2" => Ran(act) \subseteq Ran(t.opened)
    BY <1>4 DEF TaskOwn
  <2>2. n = q.main => Ran(other) \subseteq Ran(act)
    BY <1>4
  <2> HIDE DEF from
  <2>3. /\ u.pc \in {"connect", "ack"} => u.round = 0
        /\ u.from = from
        /\ n = q.main \/ (n \in Ran(q.peers) /\ u.pc # "ack")
        /\ Ran(u.list) \subseteq Ran(q.peers)
        /\ u.pc = "connect" => u.wait.b \in Ran(q.peers)
        /\ Reached(u) \subseteq Ran(q.peers)
        /\ n = q.main =>
             /\ u.pc = "connect" =>
                  Ran(q.peers) = Reached(u) \cup {u.wait.b} \cup Ran(u.list)
             /\ u.pc \in {"ack", "share", "sleep"} => Ran(q.peers) = Reached(u)
             /\ u.pc # "sleep2" => Ran(other) \subseteq Ran(u.opened)
    BY <1>1, <1>2, <2>1, <2>2
  <2>4. u.pc # "idle"
    BY <1>1, <1>4
  <2> QED
    BY <1>1, <2>3, <2>4 DEF TaskOwn, from
<1> QED
  BY <1>3, <1>4

LEMMA RebindIs ==
  ASSUME Types, NEW n, task' \in {task, Rebind(n)}, NEW k \in Node, NEW h \in Sign
  PROVE  /\ task[<<k, h>>] \in Task
         /\ Marked(task[<<k, h>>], task'[<<k, h>>])
BY DEF Types, Rebind, Marked

(* What the node at the end b of the channel c has at hand when its step   *)
(* ends.                                                                   *)
ReplyOwn(c, state, act, box, out) ==
  /\ c \in Chan /\ Known(c) /\ state \in States
  /\ box \in Boxes /\ out \in Boxes
  /\ \A k \in Node : Ran(box[k]) \subseteq Ran(inbox[k])
  /\ \A k \in Node : \A u \in Ran(out[k]) :
       MessageOwn(u) /\ (u.kind = "eof" \/ k # u.c.b)
  /\ \A e \in Ran(act) : e \in Ran(active[c.b]) \/ (e = c /\ Current(c.g))
  /\ state \in Waiting => resp[c] \in Waiting
  /\ state = "payload" => c.a = Main(c.g) /\ \A e \in Ran(act) : e.g = c.g

LEMMA RespondOwn ==
  ASSUME Types, Own, UNCHANGED request,
         NEW c, NEW state, NEW act, NEW box, NEW out,
         task' \in {task, Rebind(c.b)}, ReplyOwn(c, state, act, box, out),
         Respond(c, state, act, box, out)
  PROVE  Own'
<1>a. /\ resp' = [resp EXCEPT ![c] = state]
      /\ active' = [active EXCEPT ![c.b] = act]
      /\ inbox' = box ++ out
  BY DEF Respond
<1>b. /\ c \in Chan /\ Known(c) /\ state \in States
      /\ box \in Boxes /\ out \in Boxes
      /\ \A k \in Node : Ran(box[k]) \subseteq Ran(inbox[k])
      /\ \A k \in Node : \A u \in Ran(out[k]) :
           MessageOwn(u) /\ (u.kind = "eof" \/ k # u.c.b)
      /\ \A e \in Ran(act) : e \in Ran(active[c.b]) \/ (e = c /\ Current(c.g))
      /\ state \in Waiting => resp[c] \in Waiting
      /\ state = "payload" => c.a = Main(c.g) /\ \A e \in Ran(act) : e.g = c.g
  BY DEF ReplyOwn
<1> DEFINE n == c.b
<1>0. n \in Node /\ c.g \in Sign /\ RequestsOwn /\ n # Main(c.g)
  BY <1>b DEF Chan, Known, Own, RequestsOwn
<1>1. ASSUME NEW k \in Node
      PROVE  active'[k] = IF k = n THEN act ELSE active[k]
  BY <1>a, <1>b DEF Types
<1>2. ASSUME NEW d \in Chan
      PROVE  resp'[d] = IF d = c THEN state ELSE resp[d]
  BY <1>a, <1>b DEF Types
<1> HIDE DEF n
<1>3. TasksOwn'
  <2>1. ASSUME NEW k \in Node, NEW h \in Sign
        PROVE  /\ task'[<<k, h>>].pc # "idle" => Made(h)
               /\ Running(k, h)' =>
                    Current(h) /\ \A e \in Ran(active'[k]) : e.g = h
               /\ TaskOwn(request[h], k, h, task'[<<k, h>>], active'[k])
    <3> DEFINE t == task[<<k, h>>]
               u == task'[<<k, h>>]
    <3>1. t \in Task /\ Marked(t, u)
      BY RebindIs
    <3>2. /\ t.pc # "idle" => Made(h)
          /\ Running(k, h) => Current(h) /\ \A e \in Ran(active[k]) : e.g = h
          /\ TaskOwn(request[h], k, h, t, active[k])
      BY DEF Own, TasksOwn
    <3>3. ASSUME Running(k, h)
          PROVE  \A e \in Ran(active'[k]) : e.g = h
      BY <1>b, <1>0, <1>1, <3>2, <3>3, OnlyCurrent DEF n
    <3>4. \/ t.pc \in {"idle"} \cup Ended
          \/ k # request[h].main
          \/ Ran(active'[k]) \subseteq Ran(active[k])
      <4> SUFFICES ASSUME t.pc \notin {"idle"} \cup Ended, k = request[h].main
                   PROVE  Ran(active'[k]) \subseteq Ran(active[k])
        OBVIOUS
      <4>1. Running(k, h) /\ Current(h) /\ k = Main(h)
        BY <3>2 DEF Running, Main
      <4>2. CASE k # n
        BY <1>1, <4>2
      <4>3. CASE k = n
        <5>1. ~Current(c.g)
          BY <1>0, <4>1, <4>3, OnlyCurrent
        <5> QED
          BY <1>b, <1>1, <4>3, <5>1 DEF n
      <4> QED
        BY <4>2, <4>3
    <3>5. Running(k, h) <=> t.pc \notin {"idle"} \cup Ended
      BY DEF Running
    <3>6. Running(k, h)' <=> u.pc \notin {"idle"} \cup Ended
      BY DEF Running
    <3> DEFINE q == request[h]
               old == active[k]
               new == active'[k]
    <3> HIDE DEF t, u, q, old, new
    <3>7. TaskOwn(q, k, h, u, new) /\ u.pc = t.pc
      <4>1. TaskOwn(q, k, h, t, old)
        BY <3>2 DEF q, old
      <4>2. \/ t.pc \in {"idle"} \cup Ended
            \/ k # q.main
            \/ Ran(new) \subseteq Ran(old)
        BY <3>4 DEF q, old, new
      <4> QED
        BY <3>1, <4>1, <4>2, TaskOwnLess
    <3> QED
      BY <3>2, <3>3, <3>5, <3>6, <3>7 DEF u, q, new
  <2> QED
    BY <2>1, SameRequests DEF TasksOwn
<1>4. ChannelsOwn'
  <2>0. ChannelsOwn
    BY DEF Own
  <2>1. ASSUME NEW d \in Chan
        PROVE  /\ resp'[d] # "none" => Known(d)
               /\ resp'[d] = "payload" => d.a = Main(d.g)
               /\ resp'[d] = "payload" /\ Current(d.g) =>
                    \A e \in Ran(active'[d.b]) : e.g = d.g
    <3>1. CASE d = c
      BY <1>b, <1>0, <1>1, <1>2, <3>1 DEF n
    <3>2. CASE d # c
      <4>1. resp'[d] = resp[d] /\ d.b \in Node /\ d.g \in Sign
        BY <1>2, <3>2 DEF Chan
      <4>2. ASSUME resp[d] = "payload", Current(d.g), NEW e \in Ran(active'[d.b])
            PROVE  e.g = d.g
        <5>1. \A f \in Ran(active[d.b]) : f.g = d.g
          BY <2>0, <4>2 DEF ChannelsOwn
        <5>2. e \in Ran(active[d.b]) \/ (e = c /\ Current(c.g))
          BY <1>b, <1>1, <4>1, <4>2 DEF n
        <5> QED
          BY <1>0, <4>1, <4>2, <5>1, <5>2, OnlyCurrent
      <4> QED
        BY <2>0, <4>1, <4>2 DEF ChannelsOwn
    <3> QED
      BY <3>1, <3>2
  <2>2. ASSUME NEW k \in Node, NEW h \in Sign,
               task'[<<k, h>>].pc # "idle", k # Main(h)
        PROVE  resp'[Asked(k, h)] \notin Waiting
    <3>1. task[<<k, h>>].pc # "idle" /\ Made(h)
      <4> DEFINE t == task[<<k, h>>]
      <4>1. t \in Task /\ Marked(t, task'[<<k, h>>])
        BY RebindIs
      <4> HIDE DEF t
      <4>2. t.pc # "idle"
        BY <2>2, <4>1 DEF Task, Marked
      <4> QED
        BY <4>2 DEF Own, TasksOwn, t
    <3>2. Asked(k, h) \in Chan
      BY <1>0, <2>2, <3>1 DEF RequestsOwn, Asked, Chan
    <3>3. resp[Asked(k, h)] \notin Waiting
      BY <2>0, <2>2, <3>1 DEF ChannelsOwn
    <3> QED
      BY <1>b, <1>2, <3>2, <3>3
  <2>3. ASSUME NEW k \in Node, NEW e \in Ran(active'[k])
        PROVE  Known(e)
    BY <1>b, <1>1, <2>0, <2>3 DEF ChannelsOwn, n
  <2> QED
    BY <2>1, <2>2, <2>3, SameRequests DEF ChannelsOwn
<1>5. MessagesOwn'
  <2>1. ASSUME NEW k \in Node, NEW u \in Ran(inbox'[k])
        PROVE  /\ MessageOwn(u)
               /\ k = u.c.b /\ resp'[u.c] \in Waiting =>
                    u.kind = "eof" \/ Current(u.c.g)
    <3>0. u \in Ran(inbox[k]) \/ u \in Ran(out[k])
      BY <1>a, <1>b, <2>1, After
    <3>1. CASE u \in Ran(inbox[k])
      <4>1. u.c \in Chan
        BY <3>1, InboxChan
      <4>2. resp'[u.c] \in Waiting => resp[u.c] \in Waiting
        BY <1>b, <1>2, <4>1
      <4> QED
        BY <3>1, <4>2 DEF Own, MessagesOwn
    <3>2. CASE u \in Ran(out[k])
      BY <1>b, <3>2
    <3> QED
      BY <3>0, <3>1, <3>2
  <2> QED
    BY <2>1, SameRequests DEF MessagesOwn
<1> QED
  BY <1>0, <1>3, <1>4, <1>5, SameRequests DEF Own

(* A step of the node at the end b of some channel, that leaves box.       *)
Replying(box) ==
  \E c, state, act, out :
    /\ task' \in {task, Rebind(c.b)}
    /\ ReplyOwn(c, state, act, box, out) /\ NoShares(out)
    /\ Respond(c, state, act, box, out)

-----------------------------------------------------------------------------
(* What is known of the message a node reads.                              *)
LEMMA ReadOwn ==
  ASSUME Types, Own, NEW n \in Node, NEW i \in 1..Len(inbox[n])
  PROVE  LET m == inbox[n][i]
         IN /\ m \in Message /\ m.c \in Chan /\ Known(m.c) /\ MessageOwn(m)
            /\ n = m.c.b /\ resp[m.c] \in Waiting => m.kind = "eof" \/ Current(m.c.g)
            /\ Take(n, i) \in Boxes
            /\ \A k \in Node : Ran(Take(n, i)[k]) \subseteq Ran(inbox[k])
<1> DEFINE m == inbox[n][i]
<1>1. m \in Ran(inbox[n])
  BY DEF Ran
<1>2. m \in Message /\ m.c \in Chan
  BY <1>1, InboxChan
<1>3. /\ MessageOwn(m)
      /\ n = m.c.b /\ resp[m.c] \in Waiting => m.kind = "eof" \/ Current(m.c.g)
  BY <1>1 DEF Own, MessagesOwn
<1>4. /\ Take(n, i) \in Boxes
      /\ \A k \in Node : Ran(Take(n, i)[k]) \subseteq Ran(inbox[k])
  BY Taken DEF Types, MessagesOK
<1> QED
  BY <1>2, <1>3, <1>4 DEF MessageOwn

LEMMA EofOwn ==
  ASSUME NEW c \in Chan, Known(c), NEW n \in {c.a, c.b}
  PROVE  \A d \in Dropped(n, <<c>>) :
           /\ d \in Boxes
           /\ \A k \in Node : \A u \in Ran(d[k]) : MessageOwn(u) /\ u.kind = "eof"
<1>1. Dictionary(n, <<c>>) /\ \A e \in Ran(<<c>>) : Known(e)
  BY SmallDictionary
<1>2. n \in Node
  BY DEF Chan
<1> QED
  BY <1>1, <1>2, EofsOwn

LEMMA AbortIs ==
  ASSUME Types, Own, UNCHANGED task,
         NEW c \in Chan, NEW act, NEW box, Known(c), box \in Boxes,
         \A k \in Node : Ran(box[k]) \subseteq Ran(inbox[k]),
         Ran(act) \subseteq Ran(active[c.b]),
         Abort(c, act, box)
  PROVE  Replying(box)
<1>1. PICK d \in Dropped(c.b, <<c>>) : Respond(c, "failed", act, box, d)
  BY DEF Abort
<1>2. /\ d \in Boxes
      /\ \A k \in Node : \A u \in Ran(d[k]) : MessageOwn(u) /\ u.kind = "eof"
  BY EofOwn
<1>3. "failed" \in States \ Waiting
  BY DEF States, Waiting
<1>4. "failed" # "payload" /\ "failed" \notin Waiting
  BY <1>3 DEF Waiting
<1>5. ReplyOwn(c, "failed", act, box, d)
  BY <1>2, <1>3, <1>4 DEF ReplyOwn
<1> QED
  BY <1>1, <1>2, <1>5 DEF Replying, NoShares

LEMMA AcceptIs ==
  ASSUME Types, Own, NEW n \in Node, NEW i \in 1..Len(inbox[n]), Accept(n, i)
  PROVE  Replying(Take(n, i))
<1> DEFINE c == inbox[n][i].c
           x == Post(c.a, Msg(c, "x"))
           e == Post(c.a, Msg(c, "eof"))
           box == Take(n, i)
<1>1. /\ c \in Chan /\ Known(c) /\ box \in Boxes
      /\ \A k \in Node : Ran(box[k]) \subseteq Ran(inbox[k])
  BY ReadOwn
<1>2. /\ n = c.b /\ UNCHANGED task /\ resp[c] = "none"
      /\ \/ Respond(c, "closed", active[n], box, x ++ e)
         \/ Respond(c, "level", active[n], box, x)
  BY DEF Accept
<1> HIDE DEF c, box
<1>3. c.a # c.b
  BY <1>1 DEF Chan
<1>4. /\ x \in Boxes /\ e \in Boxes
      /\ \A k \in Node : \A u \in Ran(x[k]) :
           k = c.a /\ MessageOwn(u) /\ u.c = c /\ u.kind = "x"
      /\ \A k \in Node : \A u \in Ran(e[k]) :
           k = c.a /\ MessageOwn(u) /\ u.c = c /\ u.kind = "eof"
  BY <1>1, PlainOwn DEF Kinds
<1> HIDE DEF x, e
<1>5. /\ x ++ e \in Boxes
      /\ \A k \in Node : Ran((x ++ e)[k]) = Ran(x[k]) \cup Ran(e[k])
  BY <1>4, After
<1> DEFINE both == x ++ e
<1>6. \A out \in {x, both} :
        /\ out \in Boxes
        /\ \A k \in Node : \A u \in Ran(out[k]) :
             MessageOwn(u) /\ (u.kind = "eof" \/ k # u.c.b) /\ u.kind # "share"
  BY <1>3, <1>4, <1>5
<1>7. \E state \in {"closed", "level"}, out \in {x, both} :
        Respond(c, state, active[n], box, out)
  BY <1>2
<1> HIDE DEF both
<1>8. PICK state \in {"closed", "level"}, out \in {x, both} :
        Respond(c, state, active[n], box, out)
  BY <1>7
<1>9. state \in States /\ state # "payload" /\ resp[c] \in Waiting
  BY <1>2 DEF States, Waiting
<1>10. ReplyOwn(c, state, active[n], box, out) /\ NoShares(out)
  BY <1>1, <1>2, <1>6, <1>9 DEF ReplyOwn, NoShares
<1>11. Replying(box)
  BY <1>2, <1>8, <1>10 DEF Replying
<1> QED
  BY <1>11 DEF box

LEMMA TreeLevelIs ==
  ASSUME Types, Own, NEW n \in Node, NEW i \in 1..Len(inbox[n]), TreeLevel(n, i)
  PROVE  Replying(Take(n, i))
<1> DEFINE m == inbox[n][i]
           c == m.c
           box == Take(n, i)
<1>1. /\ c \in Chan /\ Known(c) /\ MessageOwn(m) /\ box \in Boxes
      /\ \A k \in Node : Ran(box[k]) \subseteq Ran(inbox[k])
      /\ n = c.b /\ resp[c] \in Waiting => m.kind = "eof" \/ Current(c.g)
  BY ReadOwn
<1>2. n = c.b /\ resp[c] = "level"
  BY DEF TreeLevel
<1>3. \/ /\ m.kind = "level0"
         /\ task' = Rebind(n)
         /\ resp' = [resp EXCEPT ![c] = "payload"]
         /\ active' = [active EXCEPT ![n] = <<c>>]
         /\ \E d \in Dropped(n, active[n]) : inbox' = box ++ d
      \/ /\ m.kind = "level1"
         /\ Respond(c, "hold", Put(n, active[n], c), box, Nothing)
         /\ UNCHANGED task
      \/ /\ Abort(c, active[n], box)
         /\ UNCHANGED task
  BY DEF TreeLevel
<1>4. m.kind \in {"level0", "level1"} => Current(c.g)
  BY <1>1, <1>2 DEF Waiting
<1>5. m.kind = "level0" => c.a = Main(c.g)
  BY <1>1 DEF MessageOwn
<1> HIDE DEF m, c, box
<1>6. Dictionary(n, active[n]) /\ \A e \in Ran(active[n]) : Known(e)
  BY DEF Types, Own, ChannelsOwn
<1>7. CASE /\ m.kind = "level0"
           /\ task' = Rebind(n)
           /\ resp' = [resp EXCEPT ![c] = "payload"]
           /\ active' = [active EXCEPT ![n] = <<c>>]
           /\ \E d \in Dropped(n, active[n]) : inbox' = box ++ d
  <2>1. PICK d \in Dropped(n, active[n]) : inbox' = box ++ d
    BY <1>7
  <2>2. /\ d \in Boxes
        /\ \A k \in Node : \A u \in Ran(d[k]) : MessageOwn(u) /\ u.kind = "eof"
    BY <1>6, EofsOwn
  <2>3. Ran(<<c>>) = {c} /\ "payload" \in States /\ resp[c] \in Waiting
    BY <1>1, <1>2, SmallDictionary DEF States, Waiting
  <2> DEFINE act == <<c>>
  <2>4. Ran(act) = {c} /\ active' = [active EXCEPT ![c.b] = act]
    BY <1>2, <1>7, <2>3
  <2> HIDE DEF act
  <2>5. ReplyOwn(c, "payload", act, box, d)
    BY <1>1, <1>4, <1>5, <1>7, <2>2, <2>3, <2>4 DEF ReplyOwn
  <2>6. Respond(c, "payload", act, box, d)
    BY <1>7, <2>1, <2>4 DEF Respond
  <2>7. task' = Rebind(c.b) /\ NoShares(d)
    BY <1>2, <1>7, <2>2 DEF NoShares
  <2>8. Replying(box)
    BY <2>5, <2>6, <2>7 DEF Replying
  <2> QED
    BY <2>8 DEF box
<1>8. CASE /\ m.kind = "level1"
           /\ Respond(c, "hold", Put(n, active[n], c), box, Nothing)
           /\ UNCHANGED task
  <2> DEFINE act == Put(n, active[n], c)
  <2>1. Ran(act) \subseteq Ran(active[n]) \cup {c}
    BY <1>1, <1>2, <1>6, PutDictionary
  <2> HIDE DEF act
  <2>2. \A e \in Ran(act) : e \in Ran(active[c.b]) \/ (e = c /\ Current(c.g))
    BY <1>2, <1>4, <1>8, <2>1
  <2>3. "hold" \in States \ Waiting /\ "hold" # "payload"
    BY DEF States, Waiting
  <2>4. Respond(c, "hold", act, box, Nothing)
    BY <1>8 DEF act
  <2>5. /\ Nothing \in Boxes
        /\ \A k \in Node : \A u \in Ran(Nothing[k]) :
             MessageOwn(u) /\ (u.kind = "eof" \/ k # u.c.b)
    BY NothingSent
  <2>6. ReplyOwn(c, "hold", act, box, Nothing)
    BY <1>1, <2>2, <2>3, <2>5 DEF ReplyOwn
  <2>7. Replying(box)
    BY <1>8, <2>4, <2>5, <2>6, NothingSent DEF Replying, NoShares
  <2> QED
    BY <2>7 DEF box
<1>9. CASE Abort(c, active[n], box) /\ UNCHANGED task
  BY <1>1, <1>2, <1>9, AbortIs DEF box
<1> QED
  BY <1>3, <1>7, <1>8, <1>9

LEMMA EndOfFileIs ==
  ASSUME Types, Own, NEW n \in Node, NEW i \in 1..Len(inbox[n]), EndOfFile(n, i)
  PROVE  \E left \in {Take(n, i), inbox} : Replying(left)
<1> DEFINE c == inbox[n][i].c
           box == ReadEnd(n, i, \E g \in Sign : task[<<n, g>>].wait = c)
           w == Without(n, active[n], {c.a})
           out == Post(c.a, Msg(c, "eof"))
<1>0. box \in {Take(n, i), inbox}
  BY DEF ReadEnd
<1>1. /\ c \in Chan /\ Known(c) /\ box \in Boxes
      /\ \A k \in Node : Ran(box[k]) \subseteq Ran(inbox[k])
  <2>1. inbox \in Boxes
    BY DEF Types, MessagesOK
  <2> QED
    BY <1>0, <2>1, ReadOwn
<1>2. n = c.b /\ UNCHANGED task
  BY DEF EndOfFile
<1>3. Respond(c, "closed", w, box, out) \/ Abort(c, active[n], box)
  BY DEF EndOfFile
<1> HIDE DEF c, box
<1>4. Ran(w) \subseteq Ran(active[n])
  BY WithoutDictionary DEF Types
<1>5. /\ out \in Boxes
      /\ \A k \in Node : \A u \in Ran(out[k]) : MessageOwn(u) /\ u.kind = "eof"
  BY <1>1, PlainOwn DEF Kinds
<1> HIDE DEF w, out
<1>6. "closed" \in States \ Waiting /\ "closed" # "payload"
  BY DEF States, Waiting
<1>7. CASE Respond(c, "closed", w, box, out)
  <2>1. ReplyOwn(c, "closed", w, box, out) /\ NoShares(out)
    BY <1>1, <1>2, <1>4, <1>5, <1>6 DEF ReplyOwn, NoShares
  <2>2. Replying(box)
    BY <1>2, <1>7, <2>1 DEF Replying
  <2> QED
    BY <1>0, <2>2
<1>8. CASE Abort(c, active[n], box)
  <2>1. Replying(box)
    BY <1>1, <1>2, <1>8, AbortIs
  <2> QED
    BY <1>0, <2>1
<1> QED
  BY <1>0, <1>3, <1>7, <1>8

LEMMA PayloadIs ==
  ASSUME Types, Own, NEW n \in Node, NEW i \in 1..Len(inbox[n]), Payload(n, i)
  PROVE  LET c == inbox[n][i].c
         IN \/ \E t : Connecting(n, c.g, t, active[n], Take(n, i), Nothing)
            \/ Replying(Take(n, i))
<1> DEFINE m == inbox[n][i]
           c == m.c
           t == [Idle EXCEPT !.from = c, !.list = m.nodes]
           box == Take(n, i)
<1>1. /\ m \in Message /\ c \in Chan /\ Known(c) /\ MessageOwn(m) /\ box \in Boxes
      /\ \A k \in Node : Ran(box[k]) \subseteq Ran(inbox[k])
      /\ n = c.b /\ resp[c] \in Waiting => m.kind = "eof" \/ Current(c.g)
  BY ReadOwn
<1>2. n = c.b /\ resp[c] = "payload"
  BY DEF Payload
<1>3. \/ /\ m.kind = "payload"
         /\ ConnectNext(n, c.g, t, active[n], box, Nothing)
      \/ /\ Abort(c, Without(n, active[n], {c.a}), box)
         /\ UNCHANGED task
  BY DEF Payload
<1>4. MessageOK(n, m)
  BY MessagesTaken
<1> HIDE DEF m
<1>5. Dictionary(n, active[n]) /\ c.g \in Sign
  BY <1>1 DEF Types, Chan
<1>6. CASE m.kind = "payload" /\ ConnectNext(n, c.g, t, active[n], box, Nothing)
  <2>0. t = [Idle EXCEPT !.from = c, !.list = m.nodes]
    OBVIOUS
  <2>1. Idle \in Task
    BY BoundAssumption DEF Idle, Task
  <2>2. /\ t \in Task /\ t.from = c /\ t.list = m.nodes /\ t.opened = <<>>
        /\ t.asked = 0 /\ t.round = 0
    <3> HIDE DEF c
    <3>1. m.nodes \in Seq(Node)
      BY <1>1 DEF Message
    <3> QED
      BY <1>1, <2>1, <3>1 DEF Task, Idle
  <2> HIDE DEF c, t, box
  <2>3. ConnectReady(n, c.g, t)
    <3>1. TaskData(n, c.g, t)
      BY <1>1, <1>2, <1>4, <1>6, <2>2, PayloadData DEF c
    <3> QED
      BY <1>1, <2>2, <3>1, NotAChannel DEF ConnectReady
  <2>4. Current(c.g) /\ c.a = Main(c.g) /\ n \in Peers(c.g) /\ n # Main(c.g)
    <3>1. Current(c.g) /\ c.a = Main(c.g)
      BY <1>1, <1>2, <1>6 DEF Waiting, Own, ChannelsOwn
    <3> QED
      BY <1>1, <1>2, <1>5, <3>1 DEF Known, Own, RequestsOwn
  <2>5. c = Asked(n, c.g)
    BY <1>1, <1>2, <2>4 DEF Chan, Asked
  <2>6. OwnAct(c.g, active[n])
    BY <1>1, <1>2, <2>4 DEF Own, ChannelsOwn, OwnAct, Chan
  <2>7. Ran(t.list) \subseteq Peers(c.g) /\ Reached(t) \subseteq Peers(c.g)
    <3>1. Reached(t) = {}
      BY <2>2 DEF Reached
    <3>2. Ran(m.nodes) \subseteq Peers(m.c.g)
      BY <1>1, <1>6 DEF MessageOwn
    <3> QED
      BY <2>2, <3>1, <3>2 DEF c
  <2>8. Nothing \in Boxes /\ Sends(c.g, box, Nothing)
    BY <1>1, NothingSent DEF Sends
  <2>9. OwnReady(n, c.g, t, active[n], box, Nothing)
    BY <1>1, <2>2, <2>4, <2>5, <2>6, <2>7, <2>8 DEF OwnReady
  <2>10. task[<<n, c.g>>].round = 0
    <3>1. task[<<n, c.g>>].pc = "idle"
      BY <1>2, <1>5, <2>4, <2>5 DEF Own, ChannelsOwn, Waiting
    <3>2. TaskOwn(request[c.g], n, c.g, task[<<n, c.g>>], active[n])
      BY <1>5 DEF Own, TasksOwn
    <3> QED
      BY <3>1, <3>2 DEF TaskOwn, Idle
  <2>11. Connecting(n, c.g, t, active[n], box, Nothing)
    BY <1>5, <1>6, <2>2, <2>3, <2>4, <2>9, <2>10, NothingSent
       DEF Connecting, NoShares, ConnectReady
  <2> QED
    BY <2>11 DEF c, box, m
<1>7. CASE Abort(c, Without(n, active[n], {c.a}), box) /\ UNCHANGED task
  <2>1. Ran(Without(n, active[n], {c.a})) \subseteq Ran(active[n])
    BY <1>5, WithoutDictionary
  <2> HIDE DEF c, box
  <2>2. Replying(box)
    BY <1>1, <1>2, <1>7, <2>1, AbortIs
  <2> QED
    BY <2>2 DEF box
<1> QED
  BY <1>3, <1>6, <1>7 DEF m

(* What a node does with a message of its inbox.                           *)
Answering(n, i) ==
  Accept(n, i) \/ TreeLevel(n, i) \/ Payload(n, i) \/ EndOfFile(n, i)

LEMMA AnsweringIs ==
  ASSUME Types, Own, NEW n \in Node, NEW i \in 1..Len(inbox[n]), Answering(n, i)
  PROVE  \/ \E g \in Sign : \E t, act, out : Connecting(n, g, t, act, Take(n, i), out)
         \/ \E left \in {Take(n, i), inbox} : Replying(left)
<1>1. inbox[n][i].c.g \in Sign
  BY ReadOwn DEF Chan
<1> QED
  BY <1>1, AcceptIs, TreeLevelIs, PayloadIs, EndOfFileIs DEF Answering

LEMMA AnsweringOwn ==
  ASSUME Types, Own, UNCHANGED <<request, down>>,
         NEW n \in Node, NEW i \in 1..Len(inbox[n]), Answering(n, i)
  PROVE  Own'
<1>1. ASSUME NEW box \in {Take(n, i), inbox}, Replying(box) PROVE Own'
  BY <1>1, RespondOwn DEF Replying
<1> QED
  BY <1>1, AnsweringIs, ConnectingOwn

LEMMA FirstOf ==
  ASSUME NEW X, NEW s \in Seq(X), NEW i \in 1..Len(s)
  PROVE  \E j \in 1..i : s[j].c = s[i].c /\ \A l \in 1..(j - 1) : s[l].c # s[i].c
<1> DEFINE c == s[i].c
           First(j) == s[j].c = c /\ \A l \in 1..(j - 1) : s[l].c # c
           S == {x \in Nat : (\E l \in 1..x : s[l].c = c) => \E j \in 1..x : First(j)}
<1>1. 0 \in S
  OBVIOUS
<1>2. ASSUME NEW x \in Nat, x \in S PROVE x + 1 \in S
  <2> SUFFICES ASSUME \E l \in 1..(x + 1) : s[l].c = c
               PROVE  \E j \in 1..(x + 1) : First(j)
    OBVIOUS
  <2>1. CASE \E l \in 1..x : s[l].c = c
    <3>1. PICK j \in 1..x : First(j)
      BY <1>2, <2>1
    <3>2. j \in 1..(x + 1)
      OBVIOUS
    <3> QED
      BY <3>1, <3>2
  <2>2. CASE ~ \E l \in 1..x : s[l].c = c
    <3>1. x + 1 \in 1..(x + 1) /\ (x + 1) - 1 = x
      OBVIOUS
    <3>2. s[x + 1].c = c
      <4>1. PICK l \in 1..(x + 1) : s[l].c = c
        OBVIOUS
      <4>2. l = x + 1
        BY <2>2, <4>1
      <4> QED
        BY <4>1, <4>2
    <3>3. First(x + 1)
      BY <2>2, <3>1, <3>2
    <3> HIDE DEF First
    <3> QED
      BY <3>1, <3>3
  <2> QED
    BY <2>1, <2>2
<1> HIDE DEF S
<1>3. i \in S
  <2>1. Nat \subseteq S
    BY <1>1, <1>2, NatSet
  <2> QED
    BY <2>1
<1>4. i \in 1..i
  OBVIOUS
<1>5. \E j \in 1..i : First(j)
  BY <1>3, <1>4 DEF S
<1> QED
  BY <1>5

(* When no one can read anything, nothing has come on the channels that    *)
(* wait for a message.                                                     *)
LEMMA Quiet ==
  ASSUME Types, ~Busy, NEW k \in Node, NEW u \in Ran(inbox[k])
  PROVE  ~(k = u.c.b /\ resp[u.c] \in Waiting)
<1> SUFFICES ASSUME k = u.c.b, resp[u.c] \in Waiting PROVE FALSE
  OBVIOUS
<1>1. PICK i \in 1..Len(inbox[k]) : u = inbox[k][i]
  BY DEF Ran
<1>2. inbox[k] \in Seq(Message)
  BY DEF Types, MessagesOK, Boxes
<1>3. PICK j \in 1..i : /\ inbox[k][j].c = inbox[k][i].c
                        /\ \A l \in 1..(j - 1) : inbox[k][l].c # inbox[k][i].c
  <2> DEFINE s == inbox[k]
             X == Message
  <2>1. s \in Seq(X) /\ i \in 1..Len(s)
    BY <1>2
  <2> HIDE DEF s, X
  <2>2. \E j \in 1..i : s[j].c = s[i].c /\ \A l \in 1..(j - 1) : s[l].c # s[i].c
    BY ONLY <2>1, FirstOf
  <2> QED
    BY <2>2 DEF s
<1>4. j \in 1..Len(inbox[k])
  BY <1>2
<1>5. Awaited(k, inbox[k][j])
  BY <1>1, <1>3 DEF Awaited, Waiting
<1>6. Readable(k, j)
  BY <1>3, <1>5 DEF Readable
<1> QED
  BY <1>4, <1>6 DEF Busy

LEMMA SignCommandOwn ==
  ASSUME Types, Own, "client" \in Timing,
         NEW g \in Sign, NEW m \in Node, NEW peers \in Lists(m),
         SignCommand(g, m, peers)
  PROVE  Own'
<1> DEFINE c == [a |-> m, b |-> peers[1], g |-> g]
           t == [Idle EXCEPT !.list = peers]
           u == [t EXCEPT !.pc = "connect", !.wait = c, !.list = Tail(peers)]
           f == Leave(t, "failed")
           q == [main |-> m, peers |-> peers,
                 nodes |-> {m} \cup {peers[i] : i \in 1..Len(peers)}]
<1>1. /\ peers \in Seq(Node) /\ peers # <<>> /\ Injective(peers)
      /\ m \notin Ran(peers)
  BY ListsAre
<1>2. ~Busy /\ ~Made(g) /\ \A h \in 1..(g - 1) : Made(h)
  BY DEF SignCommand, Made
<1>3. PICK d \in Dropped(m, active[m]) :
        \/ /\ task' = [Rebind(m) EXCEPT ![<<m, g>>] = f]
           /\ inbox' = inbox ++ d
        \/ /\ task' = [Rebind(m) EXCEPT ![<<m, g>>] = u]
           /\ inbox' = inbox ++ (d ++ Post(c.b, Msg(c, "hello")))
  BY DEF SignCommand
<1>4. /\ request' = [request EXCEPT ![g] = q]
      /\ active' = [active EXCEPT ![m] = <<>>] /\ UNCHANGED <<resp, down>>
  BY DEF SignCommand
<1>5. Idle \in Task
  BY BoundAssumption DEF Idle, Task
<1>6. /\ u.pc = "connect" /\ u.from = NoChan /\ u.list = Tail(peers) /\ u.opened = <<>>
      /\ u.wait = c /\ u.round = 0 /\ f.pc = "failed"
  BY <1>5 DEF Task, Idle, Leave
<1>7. c.b \in Ran(peers) /\ Ran(peers) = Ran(Tail(peers)) \cup {c.b} /\ c.b = Head(peers)
  <2>1. peers[1] = Head(peers)
    BY <1>1
  <2> QED
    BY <1>1, <2>1, HeadTail
<1>8. c \in Chan /\ c.g = g /\ c.a = m
  <2>1. Ran(peers) \subseteq Node
    BY <1>1, RanType
  <2> QED
    BY <1>1, <1>7, <2>1 DEF Chan
<1>9. q.main = m /\ q.peers = peers /\ q.nodes = {m} \cup Ran(peers)
  BY DEF Ran
<1> HIDE DEF q, u, f, c
<1>10. ASSUME NEW h \in Sign
       PROVE  request'[h] = IF h = g THEN q ELSE request[h]
  BY <1>4 DEF Types, Requests
<1>11. \A h \in Sign : Made(h) => h < g
  <2> SUFFICES ASSUME NEW h \in Sign, Made(h), g < h PROVE FALSE
    BY <1>2, BoundAssumption DEF Sign
  <2>1. g \in 1..(h - 1)
    BY BoundAssumption DEF Sign
  <2> QED
    BY <1>2, <2>1 DEF Own, RequestsOwn
<1>12. /\ \A h \in Sign : Made(h) => Made(h)' /\ Main(h)' = Main(h) /\ Peers(h)' = Peers(h)
       /\ Made(g)' /\ Main(g)' = m /\ Peers(g)' = Ran(peers)
  <2>1. \A h \in Sign : Made(h) => h # g
    BY <1>2
  <2>2. m # None
    BY NoneAssumption
  <2>3. ASSUME NEW h \in Sign, h # g
        PROVE  Made(h)' = Made(h) /\ Main(h)' = Main(h) /\ Peers(h)' = Peers(h)
    <3>1. request'[h] = request[h]
      BY <1>10, <2>3
    <3> QED
      BY <3>1 DEF Made, Main, Peers
  <2>4. request'[g] = q
    BY <1>10
  <2> QED
    BY <1>9, <2>1, <2>2, <2>3, <2>4 DEF Made, Main, Peers
<1>13. \A h \in Sign : Made(h)' => h = g \/ Made(h)
  BY <1>10 DEF Made
<1>14. \A h \in Sign : Current(h)' <=> h = g
  <2>1. Current(g)'
    <3> SUFFICES ASSUME NEW h \in Sign, h > g PROVE ~Made(h)'
      BY <1>12 DEF Current
    <3> QED
      BY <1>11, <1>13, BoundAssumption DEF Sign
  <2>2. ASSUME NEW h \in Sign, Current(h)', h # g PROVE FALSE
    <3>1. h < g
      BY <1>11, <1>13, <2>2 DEF Current
    <3>2. g > h
      BY <3>1, BoundAssumption DEF Sign
    <3> QED
      BY <1>12, <2>2, <3>2 DEF Current
  <2> QED
    BY <2>1, <2>2
<1>15. \A e \in Chan : Known(e) => Known(e)' /\ Made(e.g) /\ e.g # g /\ Main(e.g)' = Main(e.g)
  BY <1>2, <1>12 DEF Known, Chan
<1>16. ASSUME NEW k \in Node, NEW h \in Sign
       PROVE  /\ ~Running(k, h)
              /\ Made(h) \/ task[<<k, h>>] = Idle
              /\ TaskOwn(request[h], k, h, task[<<k, h>>], active[k])
              /\ task[<<k, h>>].pc # "idle" => Made(h)
  <2>1. ~Running(k, h)
    BY <1>2 DEF Busy
  <2>2. /\ task[<<k, h>>].pc # "idle" => Made(h)
        /\ TaskOwn(request[h], k, h, task[<<k, h>>], active[k])
    BY DEF Own, TasksOwn
  <2> QED
    BY <2>1, <2>2 DEF TaskOwn
<1>17. ASSUME NEW k \in Node, NEW h \in Sign
       PROVE  task'[<<k, h>>] = IF k = m /\ h = g THEN task'[<<m, g>>]
                                                  ELSE task[<<k, h>>]
  <2>1. Rebind(m)[<<k, h>>] = task[<<k, h>>]
    BY <1>16 DEF Rebind, Running, Ended
  <2> QED
    BY <1>3, <2>1 DEF Rebind
<1>18. task'[<<m, g>>] \in {f, u}
  BY <1>3 DEF Rebind
<1>19. ASSUME NEW k \in Node
       PROVE  active'[k] = IF k = m THEN <<>> ELSE active[k]
  BY <1>4 DEF Types
<1>20. RequestsOwn'
  <2>1. ASSUME NEW h \in Sign, Made(h)'
        PROVE  /\ \A j \in 1..(h - 1) : Made(j)'
               /\ Main(h)' \in Node /\ Main(h)' \notin Peers(h)'
               /\ request'[h].peers # <<>>
               /\ request'[h].nodes = {Main(h)'} \cup Peers(h)'
    <3>0. \A j \in 1..(h - 1) : j \in Sign
      BY BoundAssumption DEF Sign
    <3>1. CASE h = g
      BY <1>1, <1>2, <1>9, <1>10, <1>12, <3>0, <3>1
    <3>2. CASE h # g
      <4>1. /\ Made(h) /\ \A j \in 1..(h - 1) : Made(j)
            /\ Main(h) \in Node /\ Main(h) \notin Peers(h)
            /\ request[h].peers # <<>> /\ request[h].nodes = {Main(h)} \cup Peers(h)
        BY <1>13, <2>1, <3>2 DEF Own, RequestsOwn
      <4> QED
        BY <1>10, <1>12, <3>0, <3>2, <4>1
    <3> QED
      BY <3>1, <3>2
  <2> QED
    BY <2>1 DEF RequestsOwn
<1>21. TasksOwn'
  <2>1. ASSUME NEW k \in Node, NEW h \in Sign
        PROVE  /\ task'[<<k, h>>].pc # "idle" => Made(h)'
               /\ Running(k, h)' =>
                    Current(h)' /\ \A e \in Ran(active'[k]) : e.g = h
               /\ TaskOwn(request'[h], k, h, task'[<<k, h>>], active'[k])
    <3>1. CASE k = m /\ h = g
      <4>1. active'[k] = <<>> /\ Ran(<<>>) = {} /\ request'[h] = q
        BY <1>10, <1>19, <3>1, SmallDictionary
      <4>2. \A v \in {f, u} : TaskOwn(q, m, g, v, <<>>)
        <5>1. TaskOwn(q, m, g, f, <<>>)
          BY <1>6 DEF TaskOwn, Ended
        <5>2. TaskOwn(q, m, g, u, <<>>)
          <6>1. Reached(u) = {}
            BY <1>6 DEF Reached
          <6>2. Ran(q.peers) = Reached(u) \cup {u.wait.b} \cup Ran(u.list)
            BY <1>6, <1>7, <1>9, <6>1
          <6> QED
            BY <1>6, <1>9, <4>1, <6>1, <6>2 DEF TaskOwn
        <5> QED
          BY <5>1, <5>2
      <4> QED
        BY <1>12, <1>14, <1>18, <3>1, <4>1, <4>2
    <3>2. CASE ~(k = m /\ h = g)
      <4>1. task'[<<k, h>>] = task[<<k, h>>]
        BY <1>17, <3>2
      <4>2. ~Running(k, h)'
        BY <1>16, <4>1 DEF Running
      <4>3. TaskOwn(request'[h], k, h, task[<<k, h>>], active'[k])
        BY <1>16 DEF TaskOwn, Running, Ended
      <4> QED
        BY <1>12, <1>16, <4>1, <4>2, <4>3
    <3> QED
      BY <3>1, <3>2
  <2> QED
    BY <2>1 DEF TasksOwn
<1>22. ChannelsOwn'
  <2>0. ChannelsOwn /\ resp' = resp
    BY <1>4 DEF Own
  <2>1. ASSUME NEW e \in Chan
        PROVE  /\ resp'[e] # "none" => Known(e)'
               /\ resp'[e] = "payload" => e.a = Main(e.g)'
               /\ resp'[e] = "payload" /\ Current(e.g)' =>
                    \A x \in Ran(active'[e.b]) : x.g = e.g
    BY <1>14, <1>15, <2>0 DEF ChannelsOwn, Chan
  <2>2. ASSUME NEW k \in Node, NEW h \in Sign,
               task'[<<k, h>>].pc # "idle", k # Main(h)'
        PROVE  resp'[Asked(k, h)'] \notin Waiting
    <3>1. ~(k = m /\ h = g)
      BY <1>12, <2>2
    <3>2. task[<<k, h>>].pc # "idle" /\ Made(h)
      BY <1>16, <1>17, <2>2, <3>1
    <3>3. Main(h)' = Main(h)
      BY <1>12, <3>2
    <3> QED
      BY <2>0, <2>2, <3>2, <3>3 DEF ChannelsOwn, Asked
  <2>3. ASSUME NEW k \in Node, NEW e \in Ran(active'[k])
        PROVE  Known(e)'
    <3>1. k # m /\ e \in Ran(active[k])
      BY <1>19, <2>3 DEF Ran
    <3>2. e \in Chan /\ Known(e)
      <4>1. active[k] \in Seq(Chan)
        BY DEF Types
      <4> QED
        BY <2>0, <3>1, <4>1, RanType DEF ChannelsOwn
    <3> QED
      BY <1>15, <3>2
  <2> QED
    BY <2>1, <2>2, <2>3 DEF ChannelsOwn
<1>23. MessagesOwn'
  <2> DEFINE hello == Post(c.b, Msg(c, "hello"))
             out == d ++ hello
  <2>1. c.b \in Node /\ Msg(c, "hello") \in Message /\ Msg(c, "hello").c = c
        /\ Msg(c, "hello").kind = "hello"
    BY <1>8, MsgType DEF Chan, Kinds, Msg
  <2>2. hello \in Boxes /\ \A k \in Node : \A v \in Ran(hello[k]) : v = Msg(c, "hello")
    BY <2>1, Posted
  <2>3. d \in Boxes /\ \A k \in Node : \A v \in Ran(d[k]) : MessageOwn(v) /\ v.kind = "eof"
    <3>1. Dictionary(m, active[m]) /\ \A e \in Ran(active[m]) : Known(e)
      BY DEF Types, Own, ChannelsOwn
    <3> QED
      BY <3>1, EofsOwn
  <2> HIDE DEF hello
  <2>4. out \in Boxes /\ \A k \in Node : Ran(out[k]) = Ran(d[k]) \cup Ran(hello[k])
    BY <2>2, <2>3, After
  <2>5. inbox \in Boxes /\ (inbox' = inbox ++ d \/ inbox' = inbox ++ out)
    BY <1>3 DEF Types, MessagesOK, hello
  <2> HIDE DEF out
  <2>6. ASSUME NEW k \in Node, NEW v \in Ran(inbox'[k])
        PROVE  v \in Ran(inbox[k]) \/ v \in Ran(d[k]) \/ v = Msg(c, "hello")
    <3>1. CASE inbox' = inbox ++ d
      BY <2>3, <2>5, <2>6, <3>1, After
    <3>2. CASE inbox' = inbox ++ out
      <4>1. Ran((inbox ++ out)[k]) = Ran(inbox[k]) \cup Ran(out[k])
        BY <2>4, <2>5, After
      <4>2. v \in Ran(inbox[k]) \/ v \in Ran(d[k]) \/ v \in Ran(hello[k])
        BY <2>4, <2>6, <3>2, <4>1
      <4> QED
        BY <2>2, <4>2
    <3> QED
      BY <2>5, <3>1, <3>2
  <2>7. ASSUME NEW v, MessageOwn(v), v.c \in Chan
        PROVE  MessageOwn(v)'
    BY <1>12, <1>15, <2>7 DEF MessageOwn, Chan
  <2>8. ASSUME NEW k \in Node, NEW v \in Ran(inbox'[k])
        PROVE  /\ MessageOwn(v)'
               /\ k = v.c.b /\ resp'[v.c] \in Waiting =>
                    v.kind = "eof" \/ Current(v.c.g)'
    <3>1. CASE v \in Ran(inbox[k])
      <4>1. v.c \in Chan /\ MessageOwn(v)
        BY <3>1, InboxChan DEF Own, MessagesOwn
      <4>2. ~(k = v.c.b /\ resp[v.c] \in Waiting)
        BY <1>2, <3>1, Quiet
      <4> QED
        BY <1>4, <2>7, <4>1, <4>2
    <3>2. CASE v \in Ran(d[k])
      <4>1. d[k] \in Seq(Message)
        BY <2>3 DEF Boxes
      <4>2. v.c \in Chan
        BY <3>2, <4>1, RanType DEF Message
      <4> QED
        BY <2>3, <2>7, <3>2, <4>2
    <3>3. CASE v = Msg(c, "hello")
      <4>1. v.c = c /\ v.kind = "hello"
        BY <2>1, <3>3
      <4>2. Known(c)'
        BY <1>7, <1>8, <1>12 DEF Known
      <4> QED
        BY <1>8, <1>14, <4>1, <4>2 DEF MessageOwn
    <3> QED
      BY <2>6, <2>8, <3>1, <3>2, <3>3
  <2> QED
    BY <2>8 DEF MessagesOwn
<1> QED
  BY <1>20, <1>21, <1>22, <1>23 DEF Own

LEMMA HaltOwn ==
  ASSUME Types, Own, NEW n \in Node, Halt(n)
  PROVE  Own'
<1>0. UNCHANGED request /\ RequestsOwn /\ ChannelsOwn
  BY DEF Halt, Own
<1>1. ASSUME NEW k \in Node, NEW h \in Sign
      PROVE  LET t == task[<<k, h>>]
                 u == task'[<<k, h>>]
             IN u = t \/ (Running(k, h) /\ u.pc = "failed" /\ k = n)
  BY DEF Halt, Leave, Idle
<1>2. ASSUME NEW c \in Chan
      PROVE  resp'[c] = resp[c] \/ (resp'[c] = "failed" /\ resp[c] # "none")
  BY DEF Halt
<1>3. ASSUME NEW k \in Node
      PROVE  active'[k] = IF k = n THEN <<>> ELSE active[k]
  BY DEF Halt, Types
<1>4. Ran(<<>>) = {}
  BY SmallDictionary
<1>5. TasksOwn'
  <2>1. ASSUME NEW k \in Node, NEW h \in Sign
        PROVE  /\ task'[<<k, h>>].pc # "idle" => Made(h)
               /\ Running(k, h)' =>
                    Current(h) /\ \A e \in Ran(active'[k]) : e.g = h
               /\ TaskOwn(request[h], k, h, task'[<<k, h>>], active'[k])
    <3>1. /\ task[<<k, h>>].pc # "idle" => Made(h)
          /\ Running(k, h) => Current(h) /\ \A e \in Ran(active[k]) : e.g = h
          /\ TaskOwn(request[h], k, h, task[<<k, h>>], active[k])
      BY DEF Own, TasksOwn
    <3>2. CASE task'[<<k, h>>] = task[<<k, h>>]
      <4>1. Running(k, h)' <=> Running(k, h)
        BY <3>2 DEF Running
      <4>2. Ran(active'[k]) \subseteq Ran(active[k])
        BY <1>3, <1>4
      <4> DEFINE t == task[<<k, h>>]
                 q == request[h]
                 old == active[k]
                 new == active'[k]
      <4>3. t \in Task /\ Marked(t, t)
        BY DEF Types, Marked
      <4>4. TaskOwn(q, k, h, t, old) /\ Ran(new) \subseteq Ran(old)
        BY <3>1, <4>2
      <4> HIDE DEF t, q, old, new
      <4>5. TaskOwn(q, k, h, t, new)
        BY <4>3, <4>4, TaskOwnLess
      <4> QED
        BY <3>1, <3>2, <4>1, <4>2, <4>5 DEF t, q, new
    <3>3. CASE Running(k, h) /\ task'[<<k, h>>].pc = "failed" /\ k = n
      <4>1. ~Running(k, h)'
        BY <3>3 DEF Running, Ended
      <4>2. TaskOwn(request[h], k, h, task'[<<k, h>>], active'[k])
        BY <3>3 DEF TaskOwn, Ended
      <4> QED
        BY <3>1, <3>3, <4>1, <4>2 DEF Current
    <3> QED
      BY <1>1, <3>2, <3>3
  <2> QED
    BY <1>0, <2>1, SameRequests DEF TasksOwn
<1>6. ChannelsOwn'
  <2>1. ASSUME NEW c \in Chan
        PROVE  /\ resp'[c] # "none" => Known(c)
               /\ resp'[c] = "payload" => c.a = Main(c.g)
               /\ resp'[c] = "payload" /\ Current(c.g) =>
                    \A e \in Ran(active'[c.b]) : e.g = c.g
    BY <1>0, <1>2, <1>3, <1>4 DEF ChannelsOwn, Chan
  <2>2. ASSUME NEW k \in Node, NEW h \in Sign,
               task'[<<k, h>>].pc # "idle", k # Main(h)
        PROVE  resp'[Asked(k, h)] \notin Waiting
    <3>1. task[<<k, h>>].pc # "idle"
      BY <1>1, <2>2 DEF Running
    <3>2. Made(h) /\ Asked(k, h) \in Chan
      BY <1>0, <2>2, <3>1 DEF Own, TasksOwn, RequestsOwn, Asked, Chan
    <3> QED
      BY <1>0, <1>2, <2>2, <3>1, <3>2 DEF ChannelsOwn, Waiting
  <2>3. ASSUME NEW k \in Node, NEW e \in Ran(active'[k])
        PROVE  Known(e)
    BY <1>0, <1>3, <1>4, <2>3 DEF ChannelsOwn
  <2> QED
    BY <1>0, <2>1, <2>2, <2>3, SameRequests DEF ChannelsOwn
<1>7. MessagesOwn'
  <2>1. ASSUME NEW k \in Node, NEW u \in Ran(inbox'[k])
        PROVE  /\ MessageOwn(u)
               /\ k = u.c.b /\ resp'[u.c] \in Waiting =>
                    u.kind = "eof" \/ Current(u.c.g)
    <3>1. u \in Ran(inbox[k]) \/ u \in Ran(Ends(n, k))
      BY <2>1, HaltSends
    <3>2. CASE u \in Ran(inbox[k])
      <4>1. u.c \in Chan
        BY <3>2, InboxChan
      <4>2. resp'[u.c] \in Waiting => resp[u.c] \in Waiting
        BY <1>2, <4>1 DEF Waiting
      <4> QED
        BY <3>2, <4>2 DEF Own, MessagesOwn
    <3>3. CASE u \in Ran(Ends(n, k))
      <4>1. u.c \in Open /\ u.c \in Chan /\ u.kind = "eof"
        BY <3>3, EndsAre
      <4>2. Known(u.c)
        <5>1. CASE resp[u.c] # "none"
          BY <1>0, <4>1, <5>1 DEF ChannelsOwn
        <5>2. CASE \E i \in 1..Len(inbox[u.c.b]) : inbox[u.c.b][i].c = u.c
          <6>1. PICK v \in Ran(inbox[u.c.b]) : v.c = u.c
            BY <5>2 DEF Ran
          <6> QED
            BY <4>1, <6>1 DEF Own, MessagesOwn, MessageOwn, Chan
        <5> QED
          BY <4>1, <5>1, <5>2 DEF Open
      <4> QED
        BY <4>1, <4>2 DEF MessageOwn
    <3> QED
      BY <3>1, <3>2, <3>3
  <2> QED
    BY <1>0, <2>1, SameRequests DEF MessagesOwn
<1> QED
  BY <1>0, <1>5, <1>6, <1>7, SameRequests DEF Own

LEMMA InitOwn == Init => Own
<1> SUFFICES ASSUME Init PROVE Own
  OBVIOUS
<1>1. \A g \in Sign : ~Made(g)
  BY DEF Init, Made
<1>2. \A k \in Node, h \in Sign : task[<<k, h>>] = Idle /\ Idle.pc = "idle"
  BY DEF Init, Idle
<1>3. \A k \in Node : Ran(active[k]) = {} /\ Ran(inbox[k]) = {}
  BY DEF Init, Ran
<1>4. \A c \in Chan : resp[c] = "none"
  BY DEF Init
<1>5. TasksOwn
  BY <1>2 DEF TasksOwn, TaskOwn, Running
<1>6. ChannelsOwn
  BY <1>2, <1>3, <1>4 DEF ChannelsOwn
<1> QED
  BY <1>1, <1>3, <1>5, <1>6 DEF Own, RequestsOwn, MessagesOwn

LEMMA NextOwn ==
  ASSUME "client" \in Timing, Types, Own, [Next]_vars
  PROVE  Own'
<1>1. CASE UNCHANGED vars
  <2>1. UNCHANGED <<request, task, resp, active, inbox, down>>
    BY <1>1 DEF vars
  <2>2. TasksOwn' /\ ChannelsOwn' /\ MessagesOwn'
    BY <2>1, SameRequests DEF Own, TasksOwn, ChannelsOwn, MessagesOwn, Running
  <2> QED
    BY <2>1, <2>2, SameRequests DEF Own
<1>2. ASSUME NEW n \in Node,
             \E g \in Sign : \E peers \in Lists(n) : SignCommand(g, n, peers)
      PROVE  Own'
  BY <1>2, SignCommandOwn
<1>3. ASSUME NEW n \in Node, Handle(n)
      PROVE  Own'
  <2>1. PICK i \in 1..Len(inbox[n]) :
          /\ \/ Connected(n, i) \/ Acknowledged(n, i) \/ Share(n, i)
             \/ Accept(n, i) \/ TreeLevel(n, i) \/ Payload(n, i) \/ EndOfFile(n, i)
          /\ UNCHANGED <<request, down>>
    BY <1>3 DEF Handle
  <2> QED
    BY <2>1, ConnectedOwn, AcknowledgedOwn, ShareOwn, AnsweringOwn DEF Answering
<1>4. ASSUME NEW n \in Node, Wake(n)
      PROVE  Own'
  BY <1>4, CloseChannelsOwn, FinishOwn DEF Wake
<1>5. ASSUME NEW n \in Node, Halt(n)
      PROVE  Own'
  BY <1>5, HaltOwn
<1> QED
  BY <1>1, <1>2, <1>3, <1>4, <1>5 DEF Next

-----------------------------------------------------------------------------
(* The rounds.                                                             *)

(* Shares: each is of a round its sender has begun, those of a channel in  *)
(* the order of the rounds.                                                *)
SharesIn ==
  \A k \in Node : \A u \in Ran(inbox[k]) : u.kind = "share" =>
    u.round \in 1..task[<<Other(k, u.c), u.c.g>>].round

ShareOrder ==
  {p \in Message \X Message :
     p[1].kind = "share" /\ p[2].kind = "share" /\ p[1].c = p[2].c
       => p[1].round < p[2].round}

SharesInOrder == \A k \in Node : Ordered(inbox[k], ShareOrder)

(* The other end of the channel e has begun the round r, and its shares in *)
(* box are of later ones.                                                  *)
Past(e, g, tasks, box, r) ==
  /\ tasks[<<e.b, g>>].round >= r
  /\ \A u \in Ran(box) : u.kind = "share" /\ u.c = e => u.round > r

(* The task t of the main node for g, with its dictionary and the messages *)
(* it has not read: in a round, the members before the position have sent  *)
(* their share of it, the others that of the round before.                 *)
MainTask(peers, g, t, act, tasks, box) ==
  /\ t.pc = "share" =>
       /\ Ran(act) \subseteq Ran(t.members)
       /\ \A i \in 1..Len(t.members) : t.members[i] \in Ran(act) =>
            Past(t.members[i], g, tasks, box,
                 IF i < t.at THEN t.round ELSE t.round - 1)
  /\ t.pc = "sleep" => t.round = Rounds /\
       \A e \in Ran(act) : tasks[<<e.b, g>>].round = Rounds
  /\ t.pc \in {"sleep2", "done"} => t.round = Rounds /\
       \A p \in peers : tasks[<<p, g>>].round = Rounds

MainTasks ==
  \A g \in Sign : Made(g) =>
    MainTask(Peers(g), g, task[<<Main(g), g>>], active[Main(g)], task, inbox[Main(g)])

Progress == SharesIn /\ SharesInOrder /\ MainTasks

-----------------------------------------------------------------------------
(* Rounds only grow, and what a peer sends is of a round it begins.        *)
Later(g, tasks, after) ==
  \A p \in Node : tasks[<<p, g>>].round <= after[<<p, g>>].round

NewShares(g, tasks, box, new) ==
  \A v \in Ran(new) : v.kind = "share" /\ v \notin Ran(box) =>
    v.round \in Nat /\ v.round > tasks[<<v.c.b, g>>].round

LEMMA MainTaskGrows ==
  ASSUME NEW peers, peers \subseteq Node, NEW g \in Sign, NEW t \in Task, NEW u,
         Marked(t, u), NEW act, Ran(act) \subseteq Chan,
         NEW other, Ran(other) \subseteq Ran(act),
         NEW tasks \in [Node \X Sign -> Task], NEW after \in [Node \X Sign -> Task],
         Later(g, tasks, after), NEW box, NEW new, NewShares(g, tasks, box, new),
         MainTask(peers, g, t, act, tasks, box)
  PROVE  MainTask(peers, g, u, other, after, new)
<1>1. /\ u.pc = t.pc /\ u.members = t.members /\ u.at = t.at /\ u.round = t.round
      /\ t.round \in 0..Rounds /\ t.members \in Seq(Chan)
  BY DEF Task, Marked
<1>2. \A p \in Node : tasks[<<p, g>>].round \in 0..Rounds /\ after[<<p, g>>].round \in 0..Rounds
  BY DEF Task
<1>3. ASSUME NEW e \in Chan, NEW r \in Int, Past(e, g, tasks, box, r)
      PROVE  Past(e, g, after, new, r)
  <2>1. e.b \in Node
    BY DEF Chan
  <2>2. after[<<e.b, g>>].round >= r
    BY <1>2, <1>3, <2>1, BoundAssumption DEF Past, Later
  <2>3. ASSUME NEW v \in Ran(new), v.kind = "share", v.c = e
        PROVE  v.round > r
    <3>1. CASE v \in Ran(box)
      BY <1>3, <2>3, <3>1 DEF Past
    <3>2. CASE v \notin Ran(box)
      <4>1. v.round \in Nat /\ v.round > tasks[<<e.b, g>>].round
        BY <2>3, <3>2 DEF NewShares
      <4>2. tasks[<<e.b, g>>].round >= r
        BY <1>3 DEF Past
      <4>3. tasks[<<e.b, g>>].round \in Int
        BY <1>2, <2>1, BoundAssumption
      <4> QED
        BY ONLY <4>1, <4>2, <4>3, r \in Int
    <3> QED
      BY <3>1, <3>2
  <2> QED
    BY <2>2, <2>3 DEF Past
<1>4. ASSUME u.pc = "share"
      PROVE  /\ Ran(other) \subseteq Ran(u.members)
             /\ \A i \in 1..Len(u.members) : u.members[i] \in Ran(other) =>
                  Past(u.members[i], g, after, new,
                       IF i < u.at THEN u.round ELSE u.round - 1)
  <2>1. Ran(other) \subseteq Ran(u.members)
    BY <1>1, <1>4 DEF MainTask
  <2>2. ASSUME NEW i \in 1..Len(u.members), u.members[i] \in Ran(other)
        PROVE  Past(u.members[i], g, after, new,
                    IF i < u.at THEN u.round ELSE u.round - 1)
    <3> DEFINE r == IF i < u.at THEN u.round ELSE u.round - 1
    <3>1. r \in Int
      BY <1>1, BoundAssumption
    <3>2. Past(t.members[i], g, tasks, box, r)
      BY <1>1, <1>4, <2>2 DEF MainTask
    <3>3. t.members[i] \in Chan
      BY <1>1, <2>2
    <3> HIDE DEF r
    <3>4. Past(t.members[i], g, after, new, r)
      BY <1>3, <3>1, <3>2, <3>3
    <3> QED
      BY <1>1, <3>4 DEF r
  <2> QED
    BY <2>1, <2>2
<1>5. ASSUME NEW p \in Node, tasks[<<p, g>>].round = Rounds
      PROVE  after[<<p, g>>].round = Rounds
  BY <1>2, <1>5, BoundAssumption DEF Later
<1>6. ASSUME u.pc = "sleep"
      PROVE  u.round = Rounds /\ \A e \in Ran(other) : after[<<e.b, g>>].round = Rounds
  BY <1>1, <1>5, <1>6 DEF MainTask, Chan
<1>7. ASSUME u.pc \in {"sleep2", "done"}
      PROVE  u.round = Rounds /\ \A p \in peers : after[<<p, g>>].round = Rounds
  BY <1>1, <1>5, <1>7 DEF MainTask
<1> QED
  BY <1>4, <1>6, <1>7 DEF MainTask

LEMMA SameMainTask ==
  ASSUME NEW peers, peers \subseteq Node, NEW g \in Sign, NEW t \in Task,
         NEW act, Ran(act) \subseteq Chan,
         NEW tasks \in [Node \X Sign -> Task], NEW after \in [Node \X Sign -> Task],
         Later(g, tasks, after), NEW box, NEW new, NewShares(g, tasks, box, new),
         MainTask(peers, g, t, act, tasks, box)
  PROVE  MainTask(peers, g, t, act, after, new)
<1>1. Marked(t, t) /\ Ran(act) \subseteq Ran(act)
  BY DEF Marked
<1> QED
  BY <1>1, MainTaskGrows

(* A task that has ended keeps what it knew of its peers.                  *)
LEMMA EndedMain ==
  ASSUME NEW peers, NEW g, NEW t, t.pc \in {"idle"} \cup Ended,
         NEW act, NEW other, NEW tasks, NEW after, NEW box, NEW new,
         MainTask(peers, g, t, act, tasks, box),
         \A p \in peers : after[<<p, g>>].round = tasks[<<p, g>>].round
  PROVE  MainTask(peers, g, t, other, after, new)
BY DEF MainTask, Ended

(* What a task of n sends in its step: shares of the rounds it begins.     *)
SharesSent(n, g, old, new, out) ==
  \A k \in Node :
    /\ Ordered(out[k], ShareOrder)
    /\ \A u \in Ran(out[k]) : u.kind = "share" =>
         /\ u.c.g = g /\ n \in {u.c.a, u.c.b} /\ k = Other(n, u.c)
         /\ old < u.round /\ u.round <= new

(* The messages that are left are in the order they were in.               *)
Left(box) ==
  /\ box \in Boxes
  /\ \A k \in Node : Ran(box[k]) \subseteq Ran(inbox[k]) /\ Ordered(box[k], ShareOrder)

Turn(n, g, round, box, out) ==
  /\ Current(g) /\ (n = Main(g) \/ n \in Peers(g))
  /\ round \in 0..Rounds /\ task[<<n, g>>].round <= round
  /\ Left(box) /\ out \in Boxes
  /\ SharesSent(n, g, task[<<n, g>>].round, round, out)
  /\ \A k \in Node : \A u \in Ran(out[k]) : Known(u.c)

LEMMA TaskStepProgress ==
  ASSUME Types, Types', Own, Progress, UNCHANGED request,
         NEW n \in Node, NEW g \in Sign, NEW t, NEW act, NEW box, NEW out,
         Turn(n, g, t.round, box, out),
         n = Main(g) => MainTask(Peers(g), g, t, act, task, box[n]),
         task' = [task EXCEPT ![<<n, g>>] = t],
         active' = [active EXCEPT ![n] = act],
         inbox' = box ++ out
  PROVE  Progress'
<1>0. /\ Made(g) /\ RequestsOwn /\ Main(g) \in Node /\ Main(g) \notin Peers(g)
      /\ SharesIn /\ SharesInOrder /\ MainTasks
      /\ box \in Boxes /\ out \in Boxes
      /\ \A k \in Node : Ran(box[k]) \subseteq Ran(inbox[k]) /\ Ordered(box[k], ShareOrder)
  BY DEF Own, RequestsOwn, Current, Progress, Turn, Left
<1>1. ASSUME NEW k \in Node, NEW h \in Sign
      PROVE  task'[<<k, h>>] = IF k = n /\ h = g THEN t ELSE task[<<k, h>>]
  BY DEF Types
<1>2. ASSUME NEW k \in Node, NEW h \in Sign
      PROVE  /\ task[<<k, h>>].round <= task'[<<k, h>>].round
             /\ task[<<k, h>>].round \in 0..Rounds
             /\ task'[<<k, h>>].round \in 0..Rounds
  <2>1. task[<<k, h>>] \in Task /\ task'[<<k, h>>] \in Task
    BY DEF Types
  <2>2. task[<<k, h>>].round \in 0..Rounds /\ task'[<<k, h>>].round \in 0..Rounds
    BY <2>1 DEF Task
  <2>3. task[<<k, h>>].round <= task[<<k, h>>].round
    BY <2>2, BoundAssumption
  <2> QED
    BY <1>1, <2>2, <2>3 DEF Turn
<1>3. ASSUME NEW k \in Node
      PROVE  active'[k] = IF k = n THEN act ELSE active[k]
  BY DEF Types
<1>4. ASSUME NEW k \in Node
      PROVE  Ran(inbox'[k]) = Ran(box[k]) \cup Ran(out[k])
  BY <1>0, After
<1>5. ASSUME NEW k \in Node, NEW u \in Ran(out[k]), u.kind = "share"
      PROVE  /\ u \in Message /\ u.c \in Chan /\ u.c.g = g
             /\ Other(k, u.c) = n /\ k # n /\ {u.c.a, u.c.b} = {k, n}
             /\ u.round \in 1..t.round /\ u.round > task[<<n, g>>].round
             /\ u.round \in Nat
  <2>1. out[k] \in Seq(Message)
    BY <1>0 DEF Boxes
  <2>2. u \in Message /\ u.c \in Chan /\ u.round \in 0..Rounds
    BY <2>1, RanType DEF Message
  <2>3. /\ u.c.g = g /\ n \in {u.c.a, u.c.b} /\ k = Other(n, u.c)
        /\ task[<<n, g>>].round < u.round /\ u.round <= t.round
    BY <1>5 DEF Turn, SharesSent
  <2>4. k # n /\ Other(k, u.c) = n /\ {u.c.a, u.c.b} = {k, n}
    BY <2>2, <2>3 DEF Chan, Other
  <2>5. u.round \in 1..t.round /\ u.round \in Nat
    <3>1. task[<<n, g>>].round \in 0..Rounds /\ t.round \in 0..Rounds
      BY <1>2 DEF Turn
    <3> QED
      BY <2>2, <2>3, <3>1, BoundAssumption
  <2> QED
    BY <2>2, <2>3, <2>4, <2>5
<1>6. SharesIn'
  <2> SUFFICES ASSUME NEW k \in Node, NEW u \in Ran(inbox'[k]), u.kind = "share"
               PROVE  u.round \in 1..task'[<<Other(k, u.c), u.c.g>>].round
    BY DEF SharesIn
  <2>1. CASE u \in Ran(box[k])
    <3>1. u \in Ran(inbox[k])
      BY <1>0, <2>1
    <3>2. u.c \in Chan /\ Other(k, u.c) \in Node /\ u.c.g \in Sign
      BY <3>1, InboxChan, OtherEnd DEF MessageOK, Chan
    <3>3. u.round \in 1..task[<<Other(k, u.c), u.c.g>>].round
      BY <1>0, <3>1 DEF SharesIn
    <3> DEFINE old == task[<<Other(k, u.c), u.c.g>>].round
               new == task'[<<Other(k, u.c), u.c.g>>].round
    <3>4. old <= new /\ old \in 0..Rounds /\ new \in 0..Rounds /\ u.round \in 1..old
      BY <1>2, <3>2, <3>3
    <3> HIDE DEF old, new
    <3>5. u.round \in 1..new
      BY <3>4, BoundAssumption
    <3> QED
      BY <3>5 DEF new
  <2>2. CASE u \in Ran(out[k])
    <3>1. Other(k, u.c) = n /\ u.c.g = g /\ u.round \in 1..t.round
      BY <1>5, <2>2
    <3> QED
      BY <1>1, <3>1
  <2> QED
    BY <1>4, <2>1, <2>2
<1>7. SharesInOrder'
  <2> SUFFICES ASSUME NEW k \in Node PROVE Ordered((box ++ out)[k], ShareOrder)
    BY DEF SharesInOrder
  <2>1. ASSUME NEW x \in Ran(box[k]), NEW y \in Ran(out[k])
        PROVE  <<x, y>> \in ShareOrder
    <3>1. x \in Message /\ y \in Message
      <4>1. box[k] \in Seq(Message) /\ out[k] \in Seq(Message)
        BY <1>0 DEF Boxes
      <4> QED
        BY <4>1, RanType
    <3>2. ASSUME x.kind = "share", y.kind = "share", x.c = y.c
          PROVE  x.round < y.round
      <4>1. /\ Other(k, y.c) = n /\ y.c.g = g /\ y.round > task[<<n, g>>].round
            /\ y.round \in Nat
        BY <1>5, <3>2
      <4>2. x.round \in 1..task[<<n, g>>].round
        BY <1>0, <3>2, <4>1 DEF SharesIn
      <4>3. task[<<n, g>>].round \in 0..Rounds
        BY <1>2
      <4> QED
        BY <4>1, <4>2, <4>3, BoundAssumption
    <3> QED
      BY <3>1, <3>2 DEF ShareOrder
  <2>2. Ordered(out[k], ShareOrder)
    BY DEF Turn, SharesSent
  <2> QED
    BY <1>0, <2>1, <2>2, AfterOrdered
<1>9. /\ task \in [Node \X Sign -> Task] /\ task' \in [Node \X Sign -> Task]
      /\ Later(g, task, task')
  BY <1>2 DEF Types, Later
<1>8. MainTasks'
  <2>1. ASSUME NEW h \in Sign, Made(h)
        PROVE  MainTask(Peers(h), h, task'[<<Main(h), h>>], active'[Main(h)],
                        task', inbox'[Main(h)])
    <3>0. /\ Main(h) \in Node /\ Peers(h) \subseteq Node
          /\ MainTask(Peers(h), h, task[<<Main(h), h>>], active[Main(h)],
                      task, inbox[Main(h)])
      <4>1. request[h].peers \in Seq(Node)
        BY DEF Types, Requests
      <4> QED
        BY <1>0, <2>1, <4>1, RanType DEF MainTasks, RequestsOwn, Peers
    <3>1. CASE h # g
      <4>1. task'[<<Main(h), h>>] = task[<<Main(h), h>>]
            /\ \A p \in Peers(h) : task'[<<p, h>>].round = task[<<p, h>>].round
        BY <1>1, <3>0, <3>1
      <4>2. task[<<Main(h), h>>].pc \in {"idle"} \cup Ended
        <5>1. ~Running(Main(h), h)
          BY <3>0, <3>1, OnlyCurrent DEF Own, TasksOwn, Turn
        <5> QED
          BY <5>1 DEF Running
      <4> DEFINE peers == Peers(h)
                 u == task[<<Main(h), h>>]
                 old == active[Main(h)]
                 new == active'[Main(h)]
                 from == inbox[Main(h)]
                 to == inbox'[Main(h)]
      <4>3. MainTask(peers, h, u, old, task, from)
        BY <3>0
      <4>4. /\ u.pc \in {"idle"} \cup Ended
            /\ \A p \in peers : task'[<<p, h>>].round = task[<<p, h>>].round
        BY <4>1, <4>2
      <4> HIDE DEF peers, u, old, new, from, to
      <4>5. MainTask(peers, h, u, new, task', to)
        BY <4>3, <4>4, EndedMain
      <4> QED
        BY <4>1, <4>5 DEF peers, u, new, to
    <3>2. CASE h = g /\ n # Main(g)
      <4> DEFINE main == Main(g)
      <4>1. task'[<<main, g>>] = task[<<main, g>>] /\ active'[main] = active[main]
        BY <1>0, <1>1, <1>3, <3>2
      <4>2. ASSUME NEW v \in Ran(inbox'[main]), v.kind = "share", v \notin Ran(inbox[main])
            PROVE  v.round \in Nat /\ v.round > task[<<v.c.b, g>>].round
        <5>1. v \in Ran(out[main])
          BY <1>0, <1>4, <4>2
        <5>2. /\ {v.c.a, v.c.b} = {main, n} /\ v.round > task[<<n, g>>].round
              /\ v.round \in Nat /\ v.c.g = g
          BY <1>0, <1>5, <4>2, <5>1
        <5>3. v.c.b # main
          BY <1>0, <5>1, <5>2 DEF Turn, Known
        <5> QED
          BY <5>2, <5>3
      <4>3. task[<<main, g>>] \in Task
        BY <1>0 DEF Types
      <4>4. Ran(active[main]) \subseteq Chan
        <5>1. active[main] \in Seq(Chan)
          BY <1>0 DEF Types
        <5> QED
          BY <5>1, RanType
      <4>5. MainTask(Peers(g), g, task[<<main, g>>], active[main], task, inbox[main])
            /\ Peers(g) \subseteq Node
        BY <3>0, <3>2
      <4>7. NewShares(g, task, inbox[main], inbox'[main])
        BY <4>2 DEF NewShares
      <4>6. MainTask(Peers(g), g, task[<<main, g>>], active[main], task', inbox'[main])
        BY <4>3, <4>4, <4>5, <4>7, <1>9, SameMainTask
      <4> QED
        BY <3>2, <4>1, <4>6
    <3>3. CASE h = g /\ n = Main(g)
      <4>1. MainTask(Peers(g), g, t, act, task, box[n]) /\ Peers(g) \subseteq Node
        BY <3>0, <3>3
      <4>2. task'[<<n, g>>] = t /\ active'[n] = act /\ t \in Task
        BY <1>1, <1>3 DEF Types
      <4>3. NewShares(g, task, box[n], inbox'[n])
        BY <1>4, <1>5 DEF NewShares
      <4>4. Ran(act) \subseteq Chan
        <5>1. active'[n] \in Seq(Chan)
          BY DEF Types
        <5> QED
          BY <4>2, <5>1, RanType
      <4>5. MainTask(Peers(g), g, t, act, task', inbox'[n])
        BY <4>1, <4>2, <4>3, <4>4, <1>9, SameMainTask
      <4> QED
        BY <3>3, <4>2, <4>5
    <3> QED
      BY <3>1, <3>2, <3>3
  <2> QED
    BY <2>1, SameRequests DEF MainTasks
<1> QED
  BY <1>6, <1>7, <1>8 DEF Progress

(* What a task of n for g has at hand when its step ends; it has sent no   *)
(* share yet.                                                              *)
Ready(n, g, t, act, box, out) ==
  /\ OwnReady(n, g, t, act, box, out) /\ Left(box) /\ NoShares(out)
  /\ t \in Task /\ t.round = task[<<n, g>>].round

LEMMA Unordered ==
  ASSUME NEW out \in Boxes, NoShares(out), NEW k \in Node
  PROVE  Ordered(out[k], ShareOrder)
<1>1. out[k] \in Seq(Message) /\ Ran(out[k]) \subseteq Message
  BY RanType DEF Boxes
<1>2. ASSUME NEW i \in 1..Len(out[k]), NEW j \in 1..Len(out[k])
      PROVE  <<out[k][i], out[k][j]>> \in ShareOrder
  <2>1. out[k][i] \in Ran(out[k]) /\ out[k][j] \in Ran(out[k])
    BY DEF Ran
  <2> QED
    BY <1>1, <2>1 DEF NoShares, ShareOrder
<1> QED
  BY <1>2 DEF Ordered

LEMMA SharesMore ==
  ASSUME NEW n, NEW g, NEW old, NEW new, NEW out \in Boxes, NEW more \in Boxes,
         NoShares(out), SharesSent(n, g, old, new, more)
  PROVE  SharesSent(n, g, old, new, out ++ more)
<1> DEFINE all == out ++ more
<1>1. \A k \in Node : Ran(all[k]) = Ran(out[k]) \cup Ran(more[k])
  BY After
<1>2. ASSUME NEW k \in Node PROVE Ordered(all[k], ShareOrder)
  <2>1. ASSUME NEW x \in Ran(out[k]), NEW y \in Ran(more[k])
        PROVE  <<x, y>> \in ShareOrder
    <3>1. out[k] \in Seq(Message) /\ more[k] \in Seq(Message)
      BY DEF Boxes
    <3>2. x \in Message /\ y \in Message
      BY <3>1, RanType
    <3> QED
      BY <3>2 DEF ShareOrder, NoShares
  <2>2. Ordered(out[k], ShareOrder) /\ Ordered(more[k], ShareOrder)
    BY Unordered DEF SharesSent
  <2> QED
    BY <2>1, <2>2, AfterOrdered
<1> HIDE DEF all
<1>3. SharesSent(n, g, old, new, all)
  BY <1>1, <1>2 DEF SharesSent, NoShares
<1> QED
  BY <1>3 DEF all

LEMMA NoSharesSent ==
  ASSUME NEW n, NEW g, NEW old, NEW new, NEW out \in Boxes, NoShares(out)
  PROVE  SharesSent(n, g, old, new, out)
BY Unordered DEF SharesSent, NoShares

LEMMA NoSharesMore ==
  ASSUME NEW out \in Boxes, NEW more \in Boxes, NoShares(out), NoShares(more)
  PROVE  NoShares(out ++ more)
<1> DEFINE all == out ++ more
<1>1. \A k \in Node : Ran(all[k]) = Ran(out[k]) \cup Ran(more[k])
  BY After
<1> HIDE DEF all
<1>2. NoShares(all)
  BY <1>1 DEF NoShares
<1> QED
  BY <1>2 DEF all

LEMMA TurnIs ==
  ASSUME Types, NEW n \in Node, NEW g \in Sign, NEW t, NEW act, NEW box, NEW out,
         Ready(n, g, t, act, box, out), NEW round \in 0..Rounds, t.round <= round,
         NEW more \in Boxes, SharesSent(n, g, t.round, round, more),
         \A k \in Node : \A u \in Ran(more[k]) : Known(u.c)
  PROVE  Turn(n, g, round, box, more)
BY DEF Turn, Ready, OwnReady

LEMMA ReadyTurn ==
  ASSUME Types, NEW n \in Node, NEW g \in Sign, NEW t, NEW act, NEW box, NEW out,
         Ready(n, g, t, act, box, out), NEW round \in 0..Rounds, t.round <= round
  PROVE  Turn(n, g, round, box, out)
<1>1. out \in Boxes /\ SharesSent(n, g, t.round, round, out)
  BY NoSharesSent DEF Ready, OwnReady
<1>2. \A k \in Node : \A u \in Ran(out[k]) : Known(u.c)
  BY DEF Ready, OwnReady, Sends, MessageOwn
<1> QED
  BY <1>1, <1>2, TurnIs

LEMMA AwaitProgress ==
  ASSUME Types, Types', Own, Progress, UNCHANGED request,
         NEW n \in Node, NEW g \in Sign, NEW t, NEW act, NEW box, NEW out,
         Turn(n, g, t.round, box, out),
         n = Main(g) => MainTask(Peers(g), g, t, act, task, box[n]),
         Await(n, g, t, act, box, out)
  PROVE  Progress'
BY TaskStepProgress DEF Await

LEMMA RaiseProgress ==
  ASSUME Types, Types', Own, Progress, UNCHANGED request,
         NEW n \in Node, NEW g \in Sign, NEW t, NEW act, NEW box, NEW out,
         Ready(n, g, t, act, box, out),
         Raise(n, g, t, act, box, out)
  PROVE  Progress'
<1> DEFINE f == Leave(t, "failed")
<1>1. f.pc = "failed" /\ f.round = t.round
  BY DEF Leave, Idle
<1>2. task' = [task EXCEPT ![<<n, g>>] = f]
  BY DEF Raise
<1>3. t.round \in 0..Rounds /\ t.round <= t.round /\ t.from \in Chan \cup {NoChan}
  BY BoundAssumption DEF Ready, Task
<1> HIDE DEF f
<1>4. \A a, b : MainTask(Peers(g), g, f, a, task, b)
  BY <1>1 DEF MainTask
<1>5. CASE /\ active' = [active EXCEPT ![n] = act]
           /\ inbox' = box ++ out
  <2>1. Turn(n, g, f.round, box, out)
    BY <1>1, <1>3, ReadyTurn
  <2> QED
    BY <1>2, <1>4, <1>5, <2>1, TaskStepProgress
<1>6. CASE /\ t.from # NoChan
           /\ active' = [active EXCEPT ![n] = Without(n, act, {t.from.a})]
           /\ \E d \in Dropped(n, <<t.from>>) : inbox' = box ++ (out ++ d)
  <2>1. n # Main(g) /\ t.from = Asked(n, g) /\ n \in Peers(g) /\ Current(g)
    BY <1>6 DEF Ready, OwnReady
  <2>2. t.from \in Chan /\ Known(t.from) /\ t.from.b = n
    BY <2>1, AskedIs DEF Asked
  <2>3. PICK d \in Dropped(n, <<t.from>>) : inbox' = box ++ (out ++ d)
    BY <1>6
  <2>4. /\ d \in Boxes
        /\ \A k \in Node : \A u \in Ran(d[k]) : MessageOwn(u) /\ u.kind = "eof"
    BY <2>2, EofOwn
  <2> DEFINE all == out ++ d
  <2>5. out \in Boxes /\ NoShares(out) /\ NoShares(d)
    BY <2>4 DEF Ready, OwnReady, NoShares
  <2>6. all \in Boxes /\ \A k \in Node : Ran(all[k]) = Ran(out[k]) \cup Ran(d[k])
    BY <2>4, <2>5, After
  <2>7. NoShares(all)
    BY <2>4, <2>5, NoSharesMore
  <2> HIDE DEF all
  <2>8. SharesSent(n, g, t.round, t.round, all)
    BY <2>6, <2>7, NoSharesSent
  <2>9. \A k \in Node : \A u \in Ran(all[k]) : Known(u.c)
    BY <2>4, <2>6 DEF Ready, OwnReady, Sends, MessageOwn
  <2>10. Turn(n, g, f.round, box, all)
    BY <1>1, <1>3, <2>6, <2>8, <2>9, TurnIs
  <2>11. inbox' = box ++ all
    BY <2>3 DEF all
  <2> QED
    BY <1>2, <1>6, <2>1, <2>10, <2>11, TaskStepProgress
<1> QED
  BY <1>5, <1>6 DEF Raise

LEMMA BeginRoundProgress ==
  ASSUME Types, Types', Own, Progress, UNCHANGED request,
         NEW n \in Node, NEW g \in Sign, NEW t, NEW act, NEW box, NEW out,
         Ready(n, g, t, act, box, out), Dictionary(n, act), t.round < Rounds,
         n = Main(g) => \A e \in Ran(act) : Past(e, g, task, box[n], t.round),
         BeginRound(n, g, t, act, box, out, t.round + 1)
  PROVE  Progress'
<1>0. t \in Task /\ t.round \in 0..Rounds /\ Rounds \in 0..Rounds
      /\ t.round + 1 \in 0..Rounds /\ t.round <= t.round + 1 /\ t.round <= Rounds
      /\ (t.round + 1) - 1 = t.round /\ t.round < t.round + 1
  <2>1. t \in Task /\ t.round \in 0..Rounds
    BY DEF Ready, Task
  <2> QED
    BY <2>1, BoundAssumption
<1> DEFINE r == t.round + 1
<1>1. CASE act = <<>>
  <2> DEFINE u == [t EXCEPT !.pc = "sleep", !.wait = NoChan, !.round = Rounds]
  <2>1. Await(n, g, u, act, box, out)
    BY <1>1 DEF BeginRound
  <2>2. u.pc = "sleep" /\ u.round = Rounds
    BY <1>0 DEF Task
  <2> HIDE DEF u
  <2>3. Turn(n, g, u.round, box, out)
    BY <1>0, <2>2, ReadyTurn
  <2>4. MainTask(Peers(g), g, u, act, task, box[n])
    BY <1>1, <2>2, SmallDictionary DEF MainTask
  <2> QED
    BY <2>1, <2>3, <2>4, AwaitProgress
<1>2. CASE act # <<>>
  <2> DEFINE u == [t EXCEPT !.pc = "share", !.wait = act[1], !.round = r,
                            !.members = act, !.at = 1, !.rebound = FALSE]
             more == Shares(n, act, r)
  <2>1. Await(n, g, u, act, box, out ++ more)
    BY <1>2 DEF BeginRound
  <2>2. u.pc = "share" /\ u.round = r /\ u.members = act /\ u.at = 1
    BY <1>0 DEF Task
  <2> HIDE DEF u
  <2>3. /\ more \in Boxes
        /\ \A k \in Node : \A v \in Ran(more[k]) :
             /\ v.c \in Ran(act) /\ Other(n, v.c) = k
             /\ v = [c |-> v.c, kind |-> "share", round |-> r, nodes |-> <<>>]
        /\ \A k \in Node : Ordered(more[k], ShareOrder)
    <3>1. act \in Seq(Chan) /\ "share" \in Kinds /\ r \in 0..Rounds
      BY <1>0 DEF Dictionary, Kinds
    <3>2. /\ more \in Boxes
          /\ \A k \in Node : \A v \in Ran(more[k]) :
               /\ v.c \in Ran(act) /\ Other(n, v.c) = k /\ ~Closed(k, v.c)
               /\ v = [c |-> v.c, kind |-> "share", round |-> r, nodes |-> <<>>]
          /\ \A R : \A k \in Node : Ordered(more[k], R)
      BY <3>1, PostedEach DEF Shares
    <3> QED
      BY <3>2
  <2> HIDE DEF more
  <2>4. \A e \in Ran(act) : n \in {e.a, e.b} /\ e.g = g /\ Known(e)
    BY DEF Ready, OwnReady, OwnAct, Dictionary, Ran
  <2>5. SharesSent(n, g, t.round, r, more)
    <3>1. ASSUME NEW k \in Node, NEW v \in Ran(more[k])
          PROVE  /\ v.c.g = g /\ n \in {v.c.a, v.c.b} /\ k = Other(n, v.c)
                 /\ t.round < v.round /\ v.round <= r
      <4>1. v.c \in Ran(act) /\ Other(n, v.c) = k /\ v.round = r
        BY <2>3
      <4>2. r <= r
        BY <1>0
      <4> HIDE DEF r
      <4> QED
        BY <1>0, <2>4, <4>1, <4>2 DEF r
    <3> QED
      BY <2>3, <3>1 DEF SharesSent
  <2> DEFINE all == out ++ more
  <2>6. out \in Boxes /\ NoShares(out)
    BY DEF Ready, OwnReady
  <2>7. all \in Boxes /\ \A k \in Node : Ran(all[k]) = Ran(out[k]) \cup Ran(more[k])
    BY <2>3, <2>6, After
  <2>8. SharesSent(n, g, t.round, r, all)
    BY <2>3, <2>5, <2>6, SharesMore
  <2> HIDE DEF all
  <2>9. \A k \in Node : \A v \in Ran(all[k]) : Known(v.c)
    BY <2>3, <2>4, <2>7 DEF Ready, OwnReady, Sends, MessageOwn
  <2>10. Turn(n, g, u.round, box, all)
    BY <1>0, <2>2, <2>7, <2>8, <2>9, TurnIs
  <2>11. n = Main(g) => MainTask(Peers(g), g, u, act, task, box[n])
    <3> SUFFICES ASSUME n = Main(g) PROVE MainTask(Peers(g), g, u, act, task, box[n])
      OBVIOUS
    <3>1. ASSUME NEW i \in 1..Len(act)
          PROVE  Past(act[i], g, task, box[n], IF i < 1 THEN r ELSE r - 1)
      <4>1. act[i] \in Ran(act) /\ ~(i < 1)
        BY DEF Ran
      <4>2. Past(act[i], g, task, box[n], t.round)
        BY <4>1
      <4> QED
        BY <1>0, <4>1, <4>2
    <3> HIDE DEF r
    <3> QED
      BY <2>2, <3>1 DEF MainTask
  <2>12. Await(n, g, u, act, box, all)
    BY <2>1 DEF all
  <2> QED
    BY <2>10, <2>11, <2>12, AwaitProgress
<1> QED
  BY <1>1, <1>2

LEMMA ReadyMore ==
  ASSUME NEW n, NEW g, NEW t, NEW act, NEW box, NEW out, NEW d \in Boxes,
         Ready(n, g, t, act, box, out),
         \A k \in Node : \A u \in Ran(d[k]) :
           MessageOwn(u) /\ (u.kind = "eof" \/ u.c.g = g) /\ u.kind # "share"
  PROVE  Ready(n, g, t, act, box, out ++ d)
<1>1. out \in Boxes /\ NoShares(out) /\ NoShares(d) /\ Sends(g, box, out)
  BY DEF Ready, OwnReady, NoShares
<1>2. NoShares(out ++ d)
  BY <1>1, NoSharesMore
<1>3. out ++ d \in Boxes /\ Sends(g, box, out ++ d)
  BY <1>1, SendsMore
<1> QED
  BY <1>2, <1>3 DEF Ready, OwnReady

(* A task that waits for something else than a share.                      *)
LEMMA WaitProgress ==
  ASSUME Types, Types', Own, Progress, UNCHANGED request,
         NEW n \in Node, NEW g \in Sign, NEW t, NEW u, NEW act, NEW box, NEW out,
         Ready(n, g, t, act, box, out), u.round = t.round,
         u.pc \in {"connect", "ack"},
         Await(n, g, u, act, box, out)
  PROVE  Progress'
<1>1. t.round \in 0..Rounds /\ t.round <= t.round
  BY BoundAssumption DEF Ready, Task
<1>2. Turn(n, g, u.round, box, out)
  BY <1>1, ReadyTurn
<1>3. MainTask(Peers(g), g, u, act, task, box[n])
  BY DEF MainTask
<1> QED
  BY <1>2, <1>3, AwaitProgress

LEMMA AskProgress ==
  ASSUME Types, Types', Own, Progress, UNCHANGED request,
         NEW n \in Node, NEW g \in Sign, NEW t, NEW act, NEW box, NEW out,
         Ready(n, g, t, act, box, out), Dictionary(n, act), TaskData(n, g, t),
         n = Main(g), Peers(g) = Reached(t), t.asked < Len(t.opened),
         Ask(n, g, t, act, box, out)
  PROVE  Progress'
<1>1. CASE Raise(n, g, t, act, box, out)
  BY <1>1, RaiseProgress
<1>2. ASSUME NEW u, NEW d,
             Await(n, g, u, act, box, out ++ d),
             u.pc = "ack", u.round = t.round, d \in Boxes,
             \A j \in Node : \A v \in Ran(d[j]) :
               MessageOwn(v) /\ v.kind = "payload" /\ v.c.g = g
      PROVE  Progress'
  <2>1. Ready(n, g, t, act, box, out ++ d)
    BY <1>2, ReadyMore
  <2> QED
    BY <1>2, <2>1, WaitProgress
<1> QED
  BY <1>1, <1>2, AskSends DEF Ready

LEMMA ConnectNextProgress ==
  ASSUME Types, Types', Own, Progress, UNCHANGED request,
         NEW n \in Node, NEW g \in Sign, NEW t, NEW act, NEW box, NEW out,
         Dictionary(n, act), ConnectReady(n, g, t), Ready(n, g, t, act, box, out),
         t.round = 0, n = Main(g) => Peers(g) = Reached(t) \cup Ran(t.list),
         ConnectNext(n, g, t, act, box, out)
  PROVE  Progress'
<1>0. /\ TaskData(n, g, t) /\ t \in Task /\ t.list \in Seq(Node)
      /\ OwnReady(n, g, t, act, box, out)
  BY DEF ConnectReady, TaskData, Task, Ready
<1>1. CASE Raise(n, g, t, act, box, out)
  BY <1>1, RaiseProgress
<1>2. CASE t.list # <<>> /\ Head(t.list) \notin down
  <2> DEFINE c == [a |-> n, b |-> Head(t.list), g |-> g]
             u == [t EXCEPT !.pc = "connect", !.wait = c, !.list = Tail(@)]
             hello == Post(c.b, Msg(c, "hello"))
  <2>1. \/ Raise(n, g, t, act, box, out)
        \/ Await(n, g, u, act, box, out ++ hello)
    BY <1>2 DEF ConnectNext
  <2>2. c \in Chan
    BY <1>2, HelloTask DEF ConnectReady
  <2>3. u.pc = "connect" /\ u.round = t.round
    BY <1>0 DEF Task
  <2>4. c.b \in Ran(t.list) /\ c.g = g
    BY <1>0, <1>2, HeadTail
  <2> HIDE DEF c, u
  <2>5. Known(c)
    BY <1>0, <2>4 DEF OwnReady, Known, Current
  <2>6. /\ hello \in Boxes
        /\ \A k \in Node : \A v \in Ran(hello[k]) :
             MessageOwn(v) /\ v.kind = "hello" /\ v.c.g = g
    BY <2>2, <2>4, <2>5, PlainOwn DEF Kinds
  <2> HIDE DEF hello
  <2>7. Ready(n, g, t, act, box, out ++ hello)
    BY <2>6, ReadyMore
  <2> QED
    BY <1>1, <2>1, <2>3, <2>7, WaitProgress
<1>3. CASE t.list = <<>> /\ t.from = NoChan /\ Ask(n, g, t, act, box, out)
  <2>1. t.asked < Len(t.opened)
    BY <1>3 DEF ConnectReady
  <2>2. n = Main(g)
    BY <1>0, <1>3, AskedIs DEF OwnReady
  <2>3. Ran(t.list) = {}
    BY <1>3 DEF Ran
  <2>4. Peers(g) = Reached(t)
    BY <2>2, <2>3
  <2> QED
    BY <1>0, <1>3, <2>1, <2>2, <2>4, AskProgress
<1>4. CASE /\ t.list = <<>> /\ t.from # NoChan
           /\ BeginRound(n, g, t, act, box,
                         out ++ Post(t.from.a, Msg(t.from, "ack")), 1)
  <2> DEFINE ack == Post(t.from.a, Msg(t.from, "ack"))
             all == out ++ ack
  <2>1. n # Main(g) /\ t.from = Asked(n, g)
    BY <1>0, <1>4 DEF OwnReady
  <2>2. t.from \in Chan /\ Known(t.from) /\ t.from.g = g
    BY <1>0, <2>1, AskedIs DEF OwnReady, Asked
  <2>3. /\ ack \in Boxes
        /\ \A k \in Node : \A v \in Ran(ack[k]) :
             MessageOwn(v) /\ v.kind = "ack" /\ v.c.g = g
    BY <2>2, PlainOwn DEF Kinds
  <2> HIDE DEF ack
  <2>4. Ready(n, g, t, act, box, all)
    BY <2>3, ReadyMore
  <2>5. BeginRound(n, g, t, act, box, all, t.round + 1) /\ t.round < Rounds
    BY <1>4, BoundAssumption DEF ack
  <2> HIDE DEF all
  <2> QED
    BY <2>1, <2>4, <2>5, BeginRoundProgress
<1> QED
  BY <1>1, <1>2, <1>3, <1>4 DEF ConnectNext

LEMMA TakeLeft ==
  ASSUME Types, Progress, NEW n \in Node, NEW i \in 1..Len(inbox[n])
  PROVE  Left(Take(n, i))
<1>1. inbox \in Boxes
  BY DEF Types, MessagesOK
<1>2. \A k \in Node : Ordered(inbox[k], ShareOrder)
  BY DEF Progress, SharesInOrder
<1>3. \A k \in Node : Ordered(Take(n, i)[k], ShareOrder)
  BY <1>1, <1>2, TakenOrdered
<1> QED
  BY <1>1, <1>3, Taken DEF Left

LEMMA InboxLeft ==
  ASSUME Types, Progress
  PROVE  Left(inbox)
BY DEF Types, MessagesOK, Left, Progress, SharesInOrder

LEMMA ConnectingProgress ==
  ASSUME Types, Types', Own, Progress, UNCHANGED request,
         NEW n \in Node, NEW g \in Sign, NEW t, NEW act, NEW box, NEW out,
         Left(box), Connecting(n, g, t, act, box, out)
  PROVE  Progress'
<1>1. Ready(n, g, t, act, box, out)
  BY DEF Connecting, TaskData, Ready
<1>2. Dictionary(n, act) /\ t.round = 0
  BY DEF Connecting
<1>3. \/ /\ ConnectReady(n, g, t)
         /\ n = Main(g) => Peers(g) = Reached(t) \cup Ran(t.list)
         /\ ConnectNext(n, g, t, act, box, out)
      \/ Raise(n, g, t, act, box, out)
  BY DEF Connecting
<1> QED
  BY <1>1, <1>2, <1>3, ConnectNextProgress, RaiseProgress

LEMMA ConnectedProgress ==
  ASSUME Types, Types', Own, Progress, UNCHANGED request,
         NEW n \in Node, NEW i \in 1..Len(inbox[n]), Connected(n, i)
  PROVE  Progress'
BY ConnectedIs, TakeLeft, ConnectingProgress

(* A task that waits has at hand what its step needs.                      *)
LEMMA RunningReady ==
  ASSUME Types, Own, NEW n \in Node, NEW g \in Sign, Running(n, g),
         NEW box, Left(box), task[<<n, g>>].pc # "sleep2" \/ n # Main(g)
  PROVE  Ready(n, g, task[<<n, g>>], active[n], box, Nothing)
<1>1. box \in Boxes /\ \A k \in Node : Ran(box[k]) \subseteq Ran(inbox[k])
  BY DEF Left
<1>2. OwnReady(n, g, task[<<n, g>>], active[n], box, Nothing)
  BY <1>1, RunningOwn
<1>3. NoShares(Nothing) /\ task[<<n, g>>] \in Task
  BY NothingSent DEF NoShares, Types
<1> QED
  BY <1>2, <1>3 DEF Ready

LEMMA AcknowledgedProgress ==
  ASSUME Types, Types', Own, Progress, UNCHANGED request,
         NEW n \in Node, NEW i \in 1..Len(inbox[n]), Acknowledged(n, i)
  PROVE  Progress'
<1> DEFINE m == inbox[n][i]
           box == Take(n, i)
<1>1. PICK g \in Sign :
        LET t == task[<<n, g>>]
        IN /\ t.pc = "ack" /\ t.wait = m.c
           /\ \/ /\ m.kind = "ack" /\ t.asked < Len(t.opened)
                 /\ Ask(n, g, t, active[n], box, Nothing)
              \/ /\ m.kind = "ack" /\ t.asked = Len(t.opened)
                 /\ BeginRound(n, g, t, active[n], box, Nothing, 1)
              \/ /\ m.kind # "ack"
                 /\ Raise(n, g, t, active[n], box, Nothing)
  BY DEF Acknowledged
<1> DEFINE t == task[<<n, g>>]
<1>2. TaskOK(n, g, t) /\ Dictionary(n, active[n])
  BY DEF Types
<1>3. TaskData(n, g, t) /\ t \in Task
  BY <1>2 DEF TaskOK, TaskData
<1>4. Running(n, g) /\ t.pc = "ack"
  BY <1>1 DEF Running, Ended
<1>5. Left(box)
  BY TakeLeft
<1>6. TaskOwn(request[g], n, g, t, active[n])
  BY DEF Own, TasksOwn
<1>7. Ready(n, g, t, active[n], box, Nothing)
  BY <1>4, <1>5, RunningReady
<1>8. \/ t.asked < Len(t.opened) /\ Ask(n, g, t, active[n], box, Nothing)
      \/ BeginRound(n, g, t, active[n], box, Nothing, 1)
      \/ Raise(n, g, t, active[n], box, Nothing)
  BY <1>1
<1> HIDE DEF m, t, box
<1>9. t.round = 0 /\ n = Main(g) /\ Peers(g) = Reached(t)
  BY <1>4, <1>6 DEF TaskOwn, Ended, Main, Peers
<1>10. CASE t.asked < Len(t.opened) /\ Ask(n, g, t, active[n], box, Nothing)
  BY <1>2, <1>3, <1>7, <1>9, <1>10, AskProgress
<1>11. CASE BeginRound(n, g, t, active[n], box, Nothing, 1)
  <2>1. t.round < Rounds /\ t.round + 1 = 1
    BY <1>9, BoundAssumption
  <2>2. ASSUME NEW e \in Ran(active[n])
        PROVE  Past(e, g, task, box[n], t.round)
    <3>1. e \in Chan
      BY <1>2, <2>2, RanType DEF Dictionary
    <3>2. task[<<e.b, g>>].round \in 0..Rounds
      <4>1. task[<<e.b, g>>] \in Task
        BY <3>1 DEF Types, Chan
      <4> QED
        BY <4>1 DEF Task
    <3>3. ASSUME NEW u \in Ran(box[n]), u.kind = "share"
          PROVE  u.round > 0
      <4>1. u \in Ran(inbox[n])
        BY <1>5, <3>3 DEF Left
      <4>2. u.round \in 1..task[<<Other(n, u.c), u.c.g>>].round
        BY <3>3, <4>1 DEF Progress, SharesIn
      <4> QED
        BY <4>2
    <3> QED
      BY <1>9, <3>2, <3>3, BoundAssumption DEF Past
  <2>3. BeginRound(n, g, t, active[n], box, Nothing, t.round + 1)
    BY <1>11, <2>1
  <2> QED
    BY <1>2, <1>7, <2>1, <2>2, <2>3, BeginRoundProgress
<1>12. CASE Raise(n, g, t, active[n], box, Nothing)
  BY <1>7, <1>12, RaiseProgress
<1> QED
  BY <1>8, <1>10, <1>11, <1>12

-----------------------------------------------------------------------------
(* What is left of a channel, when its first share is taken, is of later   *)
(* rounds.                                                                 *)
LEMMA FirstShare ==
  ASSUME Types, Progress, NEW n \in Node, NEW i \in 1..Len(inbox[n]),
         \A j \in 1..(i - 1) : inbox[n][j].c # inbox[n][i].c,
         inbox[n][i].kind = "share"
  PROVE  LET m == inbox[n][i]
         IN /\ m.round \in 1..task[<<Other(n, m.c), m.c.g>>].round
            /\ \A u \in Ran(Take(n, i)[n]) :
                 u.kind = "share" /\ u.c = m.c => u.round > m.round
<1> DEFINE s == inbox[n]
           m == s[i]
<1>1. s \in Seq(Message) /\ inbox \in Boxes
  BY DEF Types, MessagesOK, Boxes
<1>2. m \in Ran(s) /\ m \in Message
  BY <1>1, RanType DEF Ran
<1>3. m.round \in 1..task[<<Other(n, m.c), m.c.g>>].round
  BY <1>2 DEF Progress, SharesIn
<1>4. Ordered(s, ShareOrder) /\ Take(n, i)[n] = Removed(s, i)
  BY <1>1, Taken DEF Progress, SharesInOrder
<1> HIDE DEF s
<1>5. ASSUME NEW u \in Ran(Removed(s, i)), u.kind = "share", u.c = m.c
      PROVE  u.round > m.round
  <2>0. i \in 1..Len(s)
    BY DEF s
  <2>1. /\ Removed(s, i) \in Seq(Message) /\ Len(Removed(s, i)) = Len(s) - 1
        /\ \A j \in 1..(Len(s) - 1) :
             Removed(s, i)[j] = s[IF j < i THEN j ELSE j + 1]
    BY <1>1, <2>0, RemovedIs
  <2>2. PICK j \in 1..(Len(s) - 1) : u = s[IF j < i THEN j ELSE j + 1]
    BY <1>5, <2>1 DEF Ran
  <2>3. CASE j < i
    <3>1. j \in 1..(i - 1) /\ u = s[j]
      BY <2>0, <2>2, <2>3
    <3> QED
      BY <1>5, <3>1 DEF s
  <2>4. CASE ~(j < i)
    <3>1. j + 1 \in 1..Len(s) /\ i < j + 1 /\ u = s[j + 1]
      BY <1>1, <2>0, <2>2, <2>4
    <3>2. <<m, u>> \in ShareOrder
      BY <1>4, <2>0, <3>1 DEF Ordered
    <3>3. <<m, u>>[1] = m /\ <<m, u>>[2] = u
      OBVIOUS
    <3>4. m.kind = "share"
      BY DEF s
    <3>5. m.round < u.round
      BY <1>5, <3>2, <3>3, <3>4 DEF ShareOrder
    <3>6. m.round \in 0..Rounds /\ u.round \in 0..Rounds
      <4>1. u \in Message
        BY <1>1, <3>1
      <4> QED
        BY <1>2, <4>1 DEF Message
    <3> QED
      BY <3>5, <3>6, BoundAssumption
  <2> QED
    BY <2>3, <2>4
<1> QED
  BY <1>3, <1>4, <1>5 DEF s

(* When a share is taken, the next member has sent that of the round.      *)
LEMMA PastMore ==
  ASSUME Types, Own, Progress, NEW n \in Node, NEW g \in Sign,
         NEW i \in 1..Len(inbox[n]), Readable(n, i), inbox[n][i].kind = "share",
         LET t == task[<<n, g>>] IN t.pc = "share" /\ t.wait = inbox[n][i].c,
         n = Main(g)
  PROVE  LET t == task[<<n, g>>]
         IN /\ Ran(active[n]) \subseteq Ran(t.members)
            /\ \A j \in 1..Len(t.members) : t.members[j] \in Ran(active[n]) =>
                 Past(t.members[j], g, task, Take(n, i)[n],
                      IF j < t.at + 1 THEN t.round ELSE t.round - 1)
<1> DEFINE t == task[<<n, g>>]
           m == inbox[n][i]
           box == Take(n, i)
           members == t.members
<1>1. TaskOK(n, g, t) /\ t \in Task /\ TaskOwn(request[g], n, g, t, active[n])
      /\ t.pc = "share"
  BY DEF Types, Own, TasksOwn
<1>2. t.at \in 1..Len(members) /\ t.wait = members[t.at] /\ TaskData(n, g, t)
  BY <1>1 DEF TaskOK
<1>3. t.round \in 0..Rounds /\ t.round \in Int /\ members \in Seq(Chan)
  BY <1>1, BoundAssumption DEF Task
<1>4. Ran(active[n]) \subseteq Ran(t.opened)
  BY <1>1 DEF TaskOwn, Ended, Main
<1>5. Made(g)
  BY <1>1 DEF Own, TasksOwn
<1>6. MainTask(Peers(g), g, t, active[n], task, inbox[n])
  BY <1>5 DEF Progress, MainTasks
<1>7. Ran(box[n]) \subseteq Ran(inbox[n])
  BY Taken DEF Types, MessagesOK
<1>8. /\ m.round \in 1..task[<<Other(n, m.c), m.c.g>>].round
      /\ \A u \in Ran(box[n]) : u.kind = "share" /\ u.c = m.c => u.round > m.round
  BY FirstShare DEF Readable
<1>9. m \in Ran(inbox[n]) /\ m.kind = "share" /\ m.c = t.wait
  BY DEF Ran
<1>10. m.c \in Chan /\ m \in Message
  BY <1>9, InboxChan
<1> HIDE DEF m, t, box, members
<1>11. /\ Ran(active[n]) \subseteq Ran(members)
       /\ \A j \in 1..Len(members) : members[j] \in Ran(active[n]) =>
            Past(members[j], g, task, inbox[n],
                 IF j < t.at THEN t.round ELSE t.round - 1)
  BY <1>1, <1>6 DEF MainTask, members
<1>12. ASSUME NEW e, NEW r, Past(e, g, task, inbox[n], r)
       PROVE  Past(e, g, task, box[n], r)
  BY <1>7, <1>12 DEF Past
<1>13. ASSUME members[t.at] \in Ran(active[n])
       PROVE  Past(m.c, g, task, box[n], t.round)
  <2>1. m.c = members[t.at] /\ m.c \in Ran(t.opened)
    BY <1>2, <1>4, <1>9, <1>13
  <2>2. m.c.a = n /\ m.c.g = g /\ Other(n, m.c) = m.c.b
    BY <1>2, <2>1 DEF TaskData, Other
  <2>3. ~(t.at < t.at)
    BY <1>2
  <2>4. Past(m.c, g, task, inbox[n], t.round - 1)
    BY <1>2, <1>11, <1>13, <2>1, <2>3
  <2>5. m.round > t.round - 1
    BY <1>9, <2>4 DEF Past
  <2>6. m.round \in 1..task[<<m.c.b, g>>].round
    BY <1>8, <2>2
  <2>7. task[<<m.c.b, g>>].round \in 0..Rounds
    <3>1. task[<<m.c.b, g>>] \in Task
      BY <1>10 DEF Types, Chan
    <3> QED
      BY <3>1 DEF Task
  <2>8. m.round \in Int /\ m.round >= t.round
    BY ONLY <1>3, <2>5, <2>6
  <2>9. task[<<m.c.b, g>>].round >= t.round
    BY <1>3, <2>6, <2>7, <2>8, BoundAssumption
  <2>10. ASSUME NEW u \in Ran(box[n]), u.kind = "share", u.c = m.c
         PROVE  u.round > t.round
    <3>1. u.round > m.round
      BY <1>8, <2>10
    <3>2. u.round \in 0..Rounds
      BY <1>7, <2>10, InboxChan DEF Message
    <3>3. u.round \in Int
      BY <3>2, BoundAssumption
    <3> QED
      BY ONLY <1>3, <2>8, <3>1, <3>3
  <2> QED
    BY <2>9, <2>10 DEF Past
<1>14. ASSUME NEW j \in 1..Len(members), members[j] \in Ran(active[n])
       PROVE  Past(members[j], g, task, box[n],
                   IF j < t.at + 1 THEN t.round ELSE t.round - 1)
  <2>1. CASE j = t.at
    <3>1. members[j] = m.c /\ j < t.at + 1
      BY <1>2, <1>9, <2>1
    <3>2. Past(m.c, g, task, box[n], t.round)
      BY <1>13, <1>14, <2>1
    <3> QED
      BY <3>1, <3>2
  <2>2. CASE j # t.at
    <3>1. (j < t.at + 1) <=> (j < t.at)
      BY <1>2, <1>3, <2>2
    <3> DEFINE r == IF j < t.at THEN t.round ELSE t.round - 1
    <3>2. Past(members[j], g, task, inbox[n], r)
      BY <1>11, <1>14
    <3> HIDE DEF r
    <3>3. Past(members[j], g, task, box[n], r)
      BY <1>12, <3>2
    <3> QED
      BY <3>1, <3>3 DEF r
  <2> QED
    BY <2>1, <2>2
<1> QED
  BY <1>11, <1>14 DEF t, box, members

LEMMA ShareProgress ==
  ASSUME Types, Types', Own, Progress, UNCHANGED request,
         NEW n \in Node, NEW i \in 1..Len(inbox[n]), Readable(n, i), Share(n, i)
  PROVE  Progress'
<1> DEFINE m == inbox[n][i]
           box == Take(n, i)
<1>1. PICK g \in Sign :
        LET t == task[<<n, g>>]
            ok == m.kind = "share" /\ ~Resized(n, t)
        IN /\ t.pc = "share" /\ t.wait = m.c
           /\ \/ /\ ~ok
                 /\ \E end \in {box, inbox} : Raise(n, g, t, active[n], end, Nothing)
              \/ /\ ok /\ t.at < Len(t.members)
                 /\ Await(n, g, [t EXCEPT !.at = @ + 1, !.wait = t.members[t.at + 1]],
                          active[n], box, Nothing)
              \/ /\ ok /\ t.at = Len(t.members) /\ t.round < Rounds
                 /\ BeginRound(n, g, t, active[n], box, Nothing, t.round + 1)
              \/ /\ ok /\ t.at = Len(t.members) /\ t.round = Rounds
                 /\ Await(n, g, [t EXCEPT !.pc = "sleep", !.wait = NoChan],
                          active[n], box, Nothing)
  BY DEF Share, ReadEnd
<1> DEFINE t == task[<<n, g>>]
           next == [t EXCEPT !.at = @ + 1, !.wait = t.members[t.at + 1]]
           last == [t EXCEPT !.pc = "sleep", !.wait = NoChan]
<1>2. TaskOK(n, g, t) /\ Dictionary(n, active[n]) /\ t \in Task
  BY DEF Types
<1>3. Running(n, g) /\ t.pc = "share"
  BY <1>1 DEF Running, Ended
<1>4. Left(box) /\ Left(inbox)
  BY TakeLeft, InboxLeft
<1>5. \A end \in {box, inbox} : Ready(n, g, t, active[n], end, Nothing)
  BY <1>3, <1>4, RunningReady
<1>6. ASSUME m.kind = "share", n = Main(g)
      PROVE  /\ Ran(active[n]) \subseteq Ran(t.members)
             /\ \A j \in 1..Len(t.members) : t.members[j] \in Ran(active[n]) =>
                  Past(t.members[j], g, task, box[n],
                       IF j < t.at + 1 THEN t.round ELSE t.round - 1)
  BY <1>1, <1>6, PastMore
<1>7. \/ \E end \in {box, inbox} : Raise(n, g, t, active[n], end, Nothing)
      \/ m.kind = "share" /\ Await(n, g, next, active[n], box, Nothing)
      \/ /\ m.kind = "share" /\ t.at = Len(t.members) /\ t.round < Rounds
         /\ BeginRound(n, g, t, active[n], box, Nothing, t.round + 1)
      \/ /\ m.kind = "share" /\ t.at = Len(t.members) /\ t.round = Rounds
         /\ Await(n, g, last, active[n], box, Nothing)
  BY <1>1
<1> HIDE DEF m, t, box
<1>8. /\ next.pc = "share" /\ next.round = t.round /\ next.members = t.members
      /\ next.at = t.at + 1
      /\ last.pc = "sleep" /\ last.round = t.round
  BY <1>2, <1>3 DEF Task
<1> HIDE DEF next, last
<1>9. t.round \in 0..Rounds /\ t.round <= t.round /\ t.at \in Nat /\ t.members \in Seq(Chan)
  BY <1>2, BoundAssumption DEF Task
<1>10. \A u : u.round = t.round => Turn(n, g, u.round, box, Nothing)
  BY <1>5, <1>9, ReadyTurn
<1>11. ASSUME NEW end \in {box, inbox}, Raise(n, g, t, active[n], end, Nothing)
       PROVE  Progress'
  BY <1>5, <1>11, RaiseProgress
<1>12. CASE m.kind = "share" /\ Await(n, g, next, active[n], box, Nothing)
  <2>1. n = Main(g) => MainTask(Peers(g), g, next, active[n], task, box[n])
    BY <1>6, <1>8, <1>12 DEF MainTask
  <2> QED
    BY <1>8, <1>10, <1>12, <2>1, AwaitProgress
<1>13. ASSUME m.kind = "share", t.at = Len(t.members), n = Main(g),
              NEW e \in Ran(active[n])
       PROVE  Past(e, g, task, box[n], t.round)
  <2>1. e \in Ran(t.members)
    BY <1>6, <1>13
  <2>2. PICK j \in 1..Len(t.members) : e = t.members[j]
    BY <2>1 DEF Ran
  <2>3. j < t.at + 1
    BY <1>9, <1>13
  <2> QED
    BY <1>6, <1>13, <2>2, <2>3
<1>14. CASE /\ m.kind = "share" /\ t.at = Len(t.members) /\ t.round < Rounds
            /\ BeginRound(n, g, t, active[n], box, Nothing, t.round + 1)
  BY <1>2, <1>5, <1>13, <1>14, BeginRoundProgress
<1>15. CASE /\ m.kind = "share" /\ t.at = Len(t.members) /\ t.round = Rounds
            /\ Await(n, g, last, active[n], box, Nothing)
  <2>1. ASSUME n = Main(g), NEW e \in Ran(active[n])
        PROVE  task[<<e.b, g>>].round = Rounds
    <3>1. task[<<e.b, g>>].round >= Rounds
      BY <1>13, <1>15, <2>1 DEF Past
    <3>2. e \in Chan
      BY <1>2, RanType DEF Dictionary
    <3>3. task[<<e.b, g>>] \in Task
      BY <3>2 DEF Types, Chan
    <3>4. task[<<e.b, g>>].round \in 0..Rounds
      BY <3>3 DEF Task
    <3> QED
      BY <3>1, <3>4, BoundAssumption
  <2>2. n = Main(g) => MainTask(Peers(g), g, last, active[n], task, box[n])
    BY <1>8, <1>15, <2>1 DEF MainTask
  <2> QED
    BY <1>8, <1>10, <1>15, <2>2, AwaitProgress
<1> QED
  BY <1>7, <1>11, <1>12, <1>14, <1>15

LEMMA CloseChannelsProgress ==
  ASSUME Types, Types', Own, Progress, NEW n \in Node, NEW g \in Sign,
         CloseChannels(n, g)
  PROVE  Progress'
<1> DEFINE t == task[<<n, g>>]
           u == [t EXCEPT !.pc = "sleep2"]
           held == {i \in 1..Len(t.opened) : Has(n, active[n], t.opened[i].b)}
           done == {i \in held : 1..i \subseteq held}
           peers == {t.opened[i].b : i \in done}
           kept == Keep(active[n], {c \in Chan : Other(n, c) \in peers})
           act == Without(n, active[n], peers)
           out == Eofs(n, kept)
<1>1. /\ \/ done = 1..Len(t.opened) /\ Await(n, g, u, act, inbox, out)
         \/ Raise(n, g, t, act, inbox, out)
      /\ UNCHANGED <<request, down>> /\ t.pc = "sleep"
  BY DEF CloseChannels
<1> HIDE DEF peers
<1>2. TaskOK(n, g, t) /\ Dictionary(n, active[n])
  BY DEF Types
<1>3. TaskData(n, g, t) /\ t \in Task
  BY <1>2 DEF TaskOK, TaskData
<1>4. Running(n, g) /\ TaskOwn(request[g], n, g, t, active[n]) /\ Made(g)
  BY <1>1 DEF Running, Ended, Own, TasksOwn
<1>5. Left(inbox)
  BY InboxLeft
<1>6. Ready(n, g, t, active[n], inbox, Nothing)
  BY <1>1, <1>4, <1>5, RunningReady
<1>7. n = Main(g) => MainTask(Peers(g), g, t, active[n], task, inbox[n])
  BY <1>4 DEF Progress, MainTasks
<1>8. n = Main(g) => Peers(g) = Reached(t) /\ Ran(active[n]) \subseteq Ran(t.opened)
  BY <1>1, <1>4 DEF TaskOwn, Ended, Main, Peers
<1>9. ASSUME n = Main(g), done = 1..Len(t.opened), NEW p \in Peers(g)
      PROVE  task[<<p, g>>].round = Rounds
  <2>1. PICK i \in 1..Len(t.opened) : p = t.opened[i].b
    BY <1>8, <1>9 DEF Reached
  <2>2. Has(n, active[n], p)
    BY <1>9, <2>1
  <2>3. PICK e \in Ran(active[n]) : Other(n, e) = p
    BY <2>2, HasRan
  <2>4. e.b = p
    BY <1>3, <1>8, <1>9, <2>3 DEF TaskData, Other
  <2> QED
    BY <1>1, <1>7, <1>9, <2>3, <2>4 DEF MainTask
<1>10. n = Main(g) => t.round = Rounds
  BY <1>1, <1>7 DEF MainTask
<1> HIDE DEF t, done
<1>11. Dictionary(n, act) /\ Ran(act) \subseteq Ran(active[n])
  BY <1>2, WithoutDictionary
<1>12. Dictionary(n, kept) /\ \A c \in Ran(kept) : Known(c)
  BY <1>2, <1>6, KeepDictionary DEF Ready, OwnReady, OwnAct
<1>13. out \in Dropped(n, kept)
  BY DEF Dropped
<1> HIDE DEF kept, act, out
<1>14. out \in Boxes /\ \A k \in Node : \A v \in Ran(out[k]) : MessageOwn(v) /\ v.kind = "eof"
  BY <1>12, <1>13, EofsOwn
<1>15. Ready(n, g, t, act, inbox, out)
  <2>1. OwnReady(n, g, t, act, inbox, out)
    BY <1>6, <1>11, <1>14 DEF Ready, OwnReady, OwnAct, Sends
  <2> QED
    BY <1>6, <1>14, <2>1 DEF Ready, NoShares
<1>16. u.pc = "sleep2" /\ u.round = t.round
  BY <1>3 DEF Task
<1> HIDE DEF u
<1>17. CASE done = 1..Len(t.opened) /\ Await(n, g, u, act, inbox, out)
  <2>1. t.round \in 0..Rounds /\ t.round <= t.round
    BY <1>3, BoundAssumption DEF Task
  <2>2. Turn(n, g, u.round, inbox, out)
    BY <1>15, <1>16, <2>1, ReadyTurn
  <2>3. n = Main(g) => MainTask(Peers(g), g, u, act, task, inbox[n])
    BY <1>9, <1>10, <1>16, <1>17 DEF MainTask
  <2> QED
    BY <1>1, <1>17, <2>2, <2>3, AwaitProgress
<1>18. CASE Raise(n, g, t, act, inbox, out)
  BY <1>1, <1>15, <1>18, RaiseProgress
<1> QED
  BY <1>1, <1>17, <1>18

LEMMA FinishProgress ==
  ASSUME Types, Types', Own, Progress, NEW n \in Node, NEW g \in Sign, Finish(n, g)
  PROVE  Progress'
<1> DEFINE t == task[<<n, g>>]
           f == Leave(t, "done")
           w == Without(n, active[n], {t.from.a})
<1>1. t.pc = "sleep2" /\ UNCHANGED <<request, down>>
  BY DEF Finish
<1>2. t \in Task /\ Dictionary(n, active[n])
  BY DEF Types
<1>3. Running(n, g) /\ Made(g) /\ TaskOwn(request[g], n, g, t, active[n]) /\ Current(g)
  BY <1>1 DEF Running, Ended, Own, TasksOwn
<1>4. /\ t.from = IF n = Main(g) THEN NoChan ELSE Asked(n, g)
      /\ n = Main(g) \/ n \in Peers(g)
  BY <1>1, <1>3 DEF TaskOwn, Ended, Main, Peers, Asked
<1>5. n # Main(g) => t.from \in Chan /\ Known(t.from) /\ t.from # NoChan /\ t.from.b = n
  BY <1>3, <1>4, AskedIs DEF Asked
<1>6. Left(inbox) /\ inbox \in Boxes
  BY InboxLeft DEF Left
<1>7. n # Main(g) => Ready(n, g, t, active[n], inbox, Nothing)
  BY <1>3, <1>6, RunningReady
<1>8. n = Main(g) => MainTask(Peers(g), g, t, active[n], task, inbox[n])
  BY <1>3 DEF Progress, MainTasks
<1>9. /\ \/ t.from # NoChan /\ Raise(n, g, t, active[n], inbox, Nothing)
         \/ /\ t.from # NoChan
            /\ task' = [task EXCEPT ![<<n, g>>] = f]
            /\ active' = [active EXCEPT ![n] = w]
            /\ inbox' = inbox ++ Eofs(n, <<t.from>>)
            /\ resp' = [resp EXCEPT ![t.from] = "closed"]
         \/ /\ t.from = NoChan
            /\ task' = [task EXCEPT ![<<n, g>>] = f]
            /\ UNCHANGED <<active, inbox, resp>>
  BY DEF Finish
<1>10. f.pc = "done" /\ f.round = t.round
  BY DEF Leave, Idle
<1>11. t.round \in 0..Rounds /\ t.round <= t.round /\ t.round = task[<<n, g>>].round
  BY <1>2, BoundAssumption DEF Task
<1> HIDE DEF t, f
<1>12. CASE t.from # NoChan /\ Raise(n, g, t, active[n], inbox, Nothing)
  BY <1>1, <1>4, <1>7, <1>12, RaiseProgress
<1>13. CASE /\ t.from # NoChan
            /\ task' = [task EXCEPT ![<<n, g>>] = f]
            /\ active' = [active EXCEPT ![n] = w]
            /\ inbox' = inbox ++ Eofs(n, <<t.from>>)
  <2>1. n # Main(g)
    BY <1>4, <1>13
  <2>2. Dictionary(n, <<t.from>>) /\ \A c \in Ran(<<t.from>>) : Known(c)
    BY <1>5, <2>1, SmallDictionary
  <2> DEFINE out == Eofs(n, <<t.from>>)
  <2>3. out \in Dropped(n, <<t.from>>)
    BY DEF Dropped
  <2> HIDE DEF out, w
  <2>4. out \in Boxes /\ \A k \in Node : \A v \in Ran(out[k]) : MessageOwn(v) /\ v.kind = "eof"
    BY <2>2, <2>3, EofsOwn
  <2>5. NoShares(out) /\ \A k \in Node : \A v \in Ran(out[k]) : Known(v.c)
    BY <2>4 DEF NoShares, MessageOwn
  <2>6. SharesSent(n, g, t.round, t.round, out)
    BY <2>4, <2>5, NoSharesSent
  <2>7. Turn(n, g, f.round, inbox, out)
    BY <1>7, <1>10, <1>11, <2>1, <2>4, <2>5, <2>6, TurnIs
  <2>8. inbox' = inbox ++ out
    BY <1>13 DEF out
  <2> QED
    BY <1>1, <1>13, <2>1, <2>7, <2>8, TaskStepProgress
<1>14. CASE /\ t.from = NoChan
            /\ task' = [task EXCEPT ![<<n, g>>] = f]
            /\ UNCHANGED <<active, inbox, resp>>
  <2>1. n = Main(g)
    BY <1>4, <1>5, <1>14
  <2> DEFINE act == active[n]
             out == Nothing
  <2>2. active' = [active EXCEPT ![n] = act]
    BY <1>14 DEF Types
  <2>3. inbox' = inbox ++ out
    BY <1>6, <1>14, AddNothing
  <2>4. Nothing \in Boxes /\ NoShares(Nothing)
        /\ \A k \in Node : \A v \in Ran(Nothing[k]) : Known(v.c)
    BY NothingSent DEF NoShares
  <2>5. SharesSent(n, g, t.round, t.round, Nothing)
    BY <2>4, NoSharesSent
  <2>6. Turn(n, g, f.round, inbox, out)
    BY <1>3, <1>4, <1>6, <1>10, <1>11, <2>4, <2>5 DEF Turn
  <2>7. MainTask(Peers(g), g, f, act, task, inbox[n])
    BY <1>1, <1>8, <1>10, <2>1 DEF MainTask
  <2> HIDE DEF act, out
  <2> QED
    BY <1>1, <1>14, <2>2, <2>3, <2>6, <2>7, TaskStepProgress
<1> QED
  BY <1>9, <1>12, <1>13, <1>14

(* A step that begins no round: the main node's task has not begun or has  *)
(* ended, or is as it was with no other channels.                          *)
TaskKept(t, u, old, new) ==
  \/ t.pc \in {"idle"} \cup Ended /\ u = t
  \/ Marked(t, u) /\ Ran(new) \subseteq Ran(old)

MainKept(g) ==
  \/ task'[<<Main(g)', g>>].pc \in {"connect", "failed"}
  \/ /\ Made(g) /\ Main(g)' = Main(g) /\ Peers(g)' = Peers(g)
     /\ TaskKept(task[<<Main(g), g>>], task'[<<Main(g), g>>],
                 active[Main(g)], active'[Main(g)])

NoNewShares(old, new) ==
  /\ Ordered(new, ShareOrder)
  /\ \A u \in Ran(new) : u.kind = "share" => u \in Ran(old)

LEMMA QuietProgress ==
  ASSUME Types, Types', Own, Progress,
         \A k \in Node : NoNewShares(inbox[k], inbox'[k]),
         \A k \in Node, h \in Sign : task'[<<k, h>>].round = task[<<k, h>>].round,
         \A h \in Sign : Made(h)' => MainKept(h)
  PROVE  Progress'
<1>1. SharesIn'
  <2> SUFFICES ASSUME NEW k \in Node, NEW u \in Ran(inbox'[k]), u.kind = "share"
               PROVE  u.round \in 1..task'[<<Other(k, u.c), u.c.g>>].round
    BY DEF SharesIn
  <2>1. u \in Ran(inbox[k])
    BY DEF NoNewShares
  <2>2. Other(k, u.c) \in Node /\ u.c.g \in Sign
    BY <2>1, InboxChan, OtherEnd DEF MessageOK, Chan
  <2>3. u.round \in 1..task[<<Other(k, u.c), u.c.g>>].round
    BY <2>1 DEF Progress, SharesIn
  <2> QED
    BY <2>2, <2>3
<1>2. SharesInOrder'
  BY DEF NoNewShares, SharesInOrder
<1>3. /\ task \in [Node \X Sign -> Task] /\ task' \in [Node \X Sign -> Task]
  BY DEF Types
<1>4. ASSUME NEW h \in Sign, Made(h), Main(h)' = Main(h), Peers(h)' = Peers(h),
             TaskKept(task[<<Main(h), h>>], task'[<<Main(h), h>>],
                      active[Main(h)], active'[Main(h)])
      PROVE  MainTask(Peers(h), h, task'[<<Main(h), h>>], active'[Main(h)],
                      task', inbox'[Main(h)])
  <2> DEFINE n == Main(h)
             t == task[<<n, h>>]
             u == task'[<<n, h>>]
             old == active[n]
             new == active'[n]
             from == inbox[n]
             to == inbox'[n]
             peers == Peers(h)
  <2>1. MainTask(peers, h, t, old, task, from) /\ n \in Node
    BY <1>4 DEF Progress, MainTasks, Own, RequestsOwn
  <2>2. TaskKept(t, u, old, new)
    BY <1>4
  <2>3. NoNewShares(from, to)
    BY <2>1
  <2>4. old \in Seq(Chan) /\ peers \subseteq Node /\ t \in Task
    <3>1. request[h].peers \in Seq(Node)
      BY DEF Types, Requests
    <3> QED
      BY <2>1, <3>1, RanType DEF Types, Peers
  <2>5. Later(h, task, task')
    <3> SUFFICES ASSUME NEW p \in Node
                 PROVE  task[<<p, h>>].round <= task'[<<p, h>>].round
      BY DEF Later
    <3>1. task[<<p, h>>].round \in 0..Rounds
      BY <1>3 DEF Task
    <3>2. task'[<<p, h>>].round = task[<<p, h>>].round
      OBVIOUS
    <3> QED
      BY <3>1, <3>2, BoundAssumption
  <2>6. \A p \in peers : task'[<<p, h>>].round = task[<<p, h>>].round
    BY <2>4
  <2>7. NewShares(h, task, from, to)
    BY <2>3 DEF NoNewShares, NewShares
  <2> HIDE DEF n, t, u, old, new, from, to, peers
  <2>8. ASSUME t.pc \in {"idle"} \cup Ended, u = t
        PROVE  MainTask(peers, h, u, new, task', to)
    <3>1. MainTask(peers, h, t, new, task', to)
      BY <2>1, <2>6, <2>8, EndedMain
    <3> QED
      BY <2>8, <3>1
  <2>9. ASSUME Marked(t, u), Ran(new) \subseteq Ran(old)
         PROVE  MainTask(peers, h, u, new, task', to)
    <3>1. Ran(old) \subseteq Chan
      BY <2>4, RanType
    <3> QED
      BY <1>3, <2>1, <2>4, <2>5, <2>7, <2>9, <3>1, MainTaskGrows
  <2>10. MainTask(peers, h, u, new, task', to)
    BY <2>2, <2>8, <2>9 DEF TaskKept
  <2> QED
    BY <2>10 DEF n, u, new, to, peers
<1>5. ASSUME NEW h \in Sign, Made(h)'
      PROVE  MainTask(Peers(h)', h, task'[<<Main(h)', h>>], active'[Main(h)'],
                      task', inbox'[Main(h)'])
  <2>1. CASE task'[<<Main(h)', h>>].pc \in {"connect", "failed"}
    BY <2>1 DEF MainTask
  <2>2. CASE ~(task'[<<Main(h)', h>>].pc \in {"connect", "failed"})
    BY <1>4, <1>5, <2>2 DEF MainKept
  <2> QED
    BY <2>1, <2>2
<1> QED
  BY <1>1, <1>2, <1>5 DEF Progress, MainTasks

(* What a node at the end b of a channel does.                             *)
LEMMA RespondProgress ==
  ASSUME Types, Types', Own, Progress, UNCHANGED request,
         NEW c, NEW state, NEW act, NEW box, NEW out,
         task' \in {task, Rebind(c.b)}, ReplyOwn(c, state, act, box, out),
         Left(box), NoShares(out),
         Respond(c, state, act, box, out)
  PROVE  Progress'
<1>1. /\ c \in Chan /\ Known(c) /\ box \in Boxes /\ out \in Boxes
      /\ \A e \in Ran(act) : e \in Ran(active[c.b]) \/ (e = c /\ Current(c.g))
      /\ inbox' = box ++ out /\ active' = [active EXCEPT ![c.b] = act]
  BY DEF ReplyOwn, Respond
<1>2. ASSUME NEW k \in Node
      PROVE  NoNewShares(inbox[k], inbox'[k])
  <2>1. Ran(inbox'[k]) = Ran(box[k]) \cup Ran(out[k])
    BY <1>1, After
  <2>2. Ran(box[k]) \subseteq Ran(inbox[k]) /\ Ordered(box[k], ShareOrder)
    BY DEF Left
  <2>3. Ordered(out[k], ShareOrder)
    BY <1>1, Unordered
  <2>4. \A x \in Ran(box[k]), y \in Ran(out[k]) : <<x, y>> \in ShareOrder
    <3>1. box[k] \in Seq(Message) /\ out[k] \in Seq(Message)
      BY <1>1 DEF Boxes
    <3>2. Ran(box[k]) \subseteq Message /\ Ran(out[k]) \subseteq Message
      BY <3>1, RanType
    <3> QED
      BY <3>2 DEF ShareOrder, NoShares
  <2>5. Ordered((box ++ out)[k], ShareOrder)
    BY <1>1, <2>2, <2>3, <2>4, AfterOrdered
  <2> QED
    BY <1>1, <2>1, <2>2, <2>5 DEF NoNewShares, NoShares
<1>3. ASSUME NEW k \in Node, NEW h \in Sign
      PROVE  /\ task[<<k, h>>] \in Task
             /\ Marked(task[<<k, h>>], task'[<<k, h>>])
  BY RebindIs
<1>4. ASSUME NEW k \in Node, NEW h \in Sign
      PROVE  task'[<<k, h>>].round = task[<<k, h>>].round
  <2>1. task[<<k, h>>] \in Task /\ Marked(task[<<k, h>>], task'[<<k, h>>])
    BY <1>3
  <2> QED
    BY <2>1 DEF Marked, Task
<1>5. ASSUME NEW h \in Sign, Made(h)
      PROVE  TaskKept(task[<<Main(h), h>>], task'[<<Main(h), h>>],
                      active[Main(h)], active'[Main(h)])
  <2>1. Main(h) \in Node /\ Main(h) \notin Peers(h)
    BY <1>5 DEF Own, RequestsOwn
  <2>2. Marked(task[<<Main(h), h>>], task'[<<Main(h), h>>])
    BY <1>3, <2>1
  <2>3. CASE Main(h) # c.b
    <3>1. active'[Main(h)] = active[Main(h)]
      BY <1>1, <2>1, <2>3 DEF Types
    <3> QED
      BY <2>2, <3>1 DEF TaskKept
  <2>4. CASE Main(h) = c.b /\ ~Running(Main(h), h)
    BY <2>2, <2>4 DEF TaskKept, Marked, Running, Ended
  <2>5. CASE Main(h) = c.b /\ Running(Main(h), h)
    <3>1. Current(h)
      BY <2>1, <2>5 DEF Own, TasksOwn
    <3>2. ~Current(c.g)
      <4>1. c.g \in Sign
        BY <1>1 DEF Chan
      <4>2. ASSUME c.g = h PROVE FALSE
        BY <1>1, <2>1, <2>5, <4>2 DEF Known
      <4> QED
        BY <3>1, <4>1, <4>2, OnlyCurrent
    <3>3. Ran(act) \subseteq Ran(active[c.b])
      BY <1>1, <3>2
    <3>4. active'[c.b] = act
      BY <1>1, <2>1, <2>5 DEF Types
    <3> QED
      BY <2>2, <2>5, <3>3, <3>4 DEF TaskKept
  <2> QED
    BY <2>3, <2>4, <2>5
<1>6. \A h \in Sign : Made(h)' => MainKept(h)
  BY <1>5, SameRequests DEF MainKept
<1> QED
  BY <1>2, <1>4, <1>6, QuietProgress

LEMMA AnsweringProgress ==
  ASSUME Types, Types', Own, Progress, UNCHANGED request,
         NEW n \in Node, NEW i \in 1..Len(inbox[n]), Answering(n, i)
  PROVE  Progress'
<1>1. Left(Take(n, i)) /\ Left(inbox)
  BY TakeLeft, InboxLeft
<1>2. ASSUME NEW box \in {Take(n, i), inbox}, Replying(box) PROVE Progress'
  BY <1>1, <1>2, RespondProgress DEF Replying
<1> QED
  BY <1>1, <1>2, AnsweringIs, ConnectingProgress

(* Nothing but shares has a round.                                         *)
LEMMA AddedLast ==
  ASSUME Types, Progress, NEW k \in Node, NEW new \in Seq(Message),
         \A u \in Ran(new) : u.kind # "share"
  PROVE  NoNewShares(inbox[k], inbox[k] \o new)
<1>1. inbox[k] \in Seq(Message)
  BY DEF Types, MessagesOK, Boxes
<1>2. Ran(inbox[k]) \subseteq Message /\ Ran(new) \subseteq Message
  BY <1>1, RanType
<1>3. Ordered(inbox[k], ShareOrder)
  BY DEF Progress, SharesInOrder
<1>4. Ordered(new, ShareOrder)
  <2> SUFFICES ASSUME NEW i \in 1..Len(new), NEW j \in 1..Len(new), i < j
               PROVE  <<new[i], new[j]>> \in ShareOrder
    BY DEF Ordered
  <2>1. new[i] \in Ran(new) /\ new[j] \in Ran(new)
    BY DEF Ran
  <2> QED
    BY <1>2, <2>1 DEF ShareOrder
<1>5. \A x \in Ran(inbox[k]), y \in Ran(new) : <<x, y>> \in ShareOrder
  BY <1>2 DEF ShareOrder
<1>6. Ordered(inbox[k] \o new, ShareOrder)
  BY <1>1, <1>3, <1>4, <1>5, OrderedConcat
<1>7. Ran(inbox[k] \o new) = Ran(inbox[k]) \cup Ran(new)
  BY <1>1, RanConcat
<1> QED
  BY <1>6, <1>7 DEF NoNewShares

LEMMA SignCommandProgress ==
  ASSUME Types, Types', Own, Progress, "client" \in Timing,
         NEW g \in Sign, NEW m \in Node, NEW peers \in Lists(m),
         SignCommand(g, m, peers)
  PROVE  Progress'
<1> DEFINE c == [a |-> m, b |-> peers[1], g |-> g]
           t == [Idle EXCEPT !.list = peers]
           u == [t EXCEPT !.pc = "connect", !.wait = c, !.list = Tail(peers)]
           f == Leave(t, "failed")
           q == [main |-> m, peers |-> peers,
                 nodes |-> {m} \cup {peers[i] : i \in 1..Len(peers)}]
           hello == Post(c.b, Msg(c, "hello"))
<1>1. peers \in Seq(Node) /\ peers # <<>> /\ m \notin Ran(peers)
  BY ListsAre
<1>2. ~Busy /\ ~Made(g) /\ request' = [request EXCEPT ![g] = q]
  BY DEF SignCommand, Made
<1>3. PICK d \in Dropped(m, active[m]) :
        \/ /\ task' = [Rebind(m) EXCEPT ![<<m, g>>] = f]
           /\ inbox' = inbox ++ d
        \/ /\ task' = [Rebind(m) EXCEPT ![<<m, g>>] = u]
           /\ inbox' = inbox ++ (d ++ hello)
  BY DEF SignCommand
<1>4. Idle \in Task
  BY BoundAssumption DEF Idle, Task
<1>5. u.pc = "connect" /\ f.pc = "failed" /\ u.round = 0 /\ f.round = 0
  BY <1>4 DEF Task, Idle, Leave
<1>6. c \in Chan
  <2>1. peers[1] \in Ran(peers) /\ Ran(peers) \subseteq Node
    BY <1>1, RanType DEF Ran
  <2> QED
    BY <1>1, <2>1 DEF Chan
<1>7. hello \in Boxes /\ NoShares(hello)
  <2>1. /\ Msg(c, "hello") \in Message /\ Msg(c, "hello").kind = "hello"
    BY <1>6, MsgType DEF Kinds, Msg
  <2> QED
    BY <2>1, Posted DEF NoShares
<1>8. q.main = m
  OBVIOUS
<1> HIDE DEF u, f, q, c, hello
<1>9. d \in Boxes /\ NoShares(d)
  <2>1. Dictionary(m, active[m]) /\ \A e \in Ran(active[m]) : Known(e)
    BY DEF Types, Own, ChannelsOwn
  <2> QED
    BY <2>1, EofsOwn DEF NoShares
<1>10. \E out \in Boxes : NoShares(out) /\ inbox' = inbox ++ out
  <2>1. d ++ hello \in Boxes /\ NoShares(d ++ hello)
    BY <1>7, <1>9, After, NoSharesMore
  <2> QED
    BY <1>3, <1>9, <2>1
<1>11. \A k \in Node : NoNewShares(inbox[k], inbox'[k])
  <2>1. PICK out \in Boxes : NoShares(out) /\ inbox' = inbox ++ out
    BY <1>10
  <2> SUFFICES ASSUME NEW k \in Node PROVE NoNewShares(inbox[k], inbox'[k])
    OBVIOUS
  <2>2. inbox'[k] = inbox[k] \o out[k] /\ out[k] \in Seq(Message)
    BY <2>1 DEF ++, Boxes
  <2> QED
    BY <2>1, <2>2, AddedLast DEF NoShares
<1>12. ASSUME NEW k \in Node, NEW h \in Sign
       PROVE  /\ ~Running(k, h)
              /\ Made(h) \/ task[<<k, h>>] = Idle
  <2>1. /\ task[<<k, h>>].pc # "idle" => Made(h)
        /\ TaskOwn(request[h], k, h, task[<<k, h>>], active[k])
    BY DEF Own, TasksOwn
  <2> QED
    BY <1>2, <2>1 DEF TaskOwn, Busy
<1>13. ASSUME NEW k \in Node, NEW h \in Sign
       PROVE  task'[<<k, h>>] = IF k = m /\ h = g THEN task'[<<m, g>>]
                                                  ELSE task[<<k, h>>]
  <2>1. Rebind(m)[<<k, h>>] = task[<<k, h>>]
    BY <1>12 DEF Rebind, Running, Ended
  <2> QED
    BY <1>3, <2>1 DEF Rebind
<1>14. task'[<<m, g>>] \in {f, u}
  BY <1>3 DEF Rebind
<1>15. ASSUME NEW k \in Node, NEW h \in Sign
       PROVE  task'[<<k, h>>].round = task[<<k, h>>].round
  <2>1. task[<<m, g>>].round = 0
    BY <1>2, <1>12 DEF Idle
  <2> QED
    BY <1>5, <1>13, <1>14, <2>1
<1>16. ASSUME NEW h \in Sign, Made(h)'
       PROVE  MainKept(h)
  <2>1. CASE h = g
    <3>1. Main(h)' = m
      BY <1>2, <1>8, <2>1 DEF Main, Types, Requests
    <3> QED
      BY <1>5, <1>14, <2>1, <3>1 DEF MainKept
  <2>2. CASE h # g
    <3>1. request'[h] = request[h]
      BY <1>2, <2>2 DEF Types, Requests
    <3>2. Made(h) /\ Main(h)' = Main(h) /\ Peers(h)' = Peers(h)
      BY <1>16, <3>1 DEF Made, Main, Peers
    <3>3. Main(h) \in Node
      BY <3>2 DEF Own, RequestsOwn
    <3>4. task'[<<Main(h), h>>] = task[<<Main(h), h>>]
      BY <1>13, <2>2, <3>3
    <3>5. task[<<Main(h), h>>].pc \in {"idle"} \cup Ended
      BY <1>12, <3>3 DEF Running
    <3> QED
      BY <3>2, <3>4, <3>5 DEF MainKept, TaskKept
  <2> QED
    BY <2>1, <2>2
<1> QED
  BY <1>11, <1>15, <1>16, QuietProgress

LEMMA HaltProgress ==
  ASSUME Types, Types', Own, Progress, NEW n \in Node, Halt(n)
  PROVE  Progress'
<1>1. UNCHANGED request
  BY DEF Halt
<1>2. ASSUME NEW k \in Node, NEW h \in Sign
      PROVE  LET t == task[<<k, h>>]
                 u == task'[<<k, h>>]
             IN u = t \/ (u.pc = "failed" /\ u.round = t.round)
  BY DEF Halt, Leave, Idle
<1>3. ASSUME NEW k \in Node
      PROVE  Ran(active'[k]) \subseteq Ran(active[k])
  <2>1. active'[k] = IF k = n THEN <<>> ELSE active[k]
    BY DEF Halt, Types
  <2> QED
    BY <2>1, SmallDictionary
<1>4. ASSUME NEW k \in Node
      PROVE  NoNewShares(inbox[k], inbox'[k])
  <2>1. CASE k = n
    <3>1. inbox'[k] = <<>>
      BY <2>1, HaltSends
    <3> QED
      BY <3>1 DEF NoNewShares, Ordered, Ran
  <2>2. CASE k # n
    <3>1. inbox'[k] = inbox[k] \o Ends(n, k)
      BY <2>2, HaltSends
    <3>2. Ends(n, k) \in Seq(Message) /\ \A u \in Ran(Ends(n, k)) : u.kind # "share"
      BY EndsAre
    <3> QED
      BY <3>1, <3>2, AddedLast
  <2> QED
    BY <2>1, <2>2
<1>5. \A k \in Node, h \in Sign : task'[<<k, h>>].round = task[<<k, h>>].round
  BY <1>2
<1>6. ASSUME NEW h \in Sign, Made(h)'
      PROVE  MainKept(h)
  <2>1. Made(h) /\ Main(h)' = Main(h) /\ Peers(h)' = Peers(h)
    BY <1>1, <1>6, SameRequests
  <2>2. Main(h) \in Node
    BY <2>1 DEF Own, RequestsOwn
  <2> QED
    BY <1>2, <1>3, <2>1, <2>2 DEF MainKept, TaskKept, Marked
<1> QED
  BY <1>4, <1>5, <1>6, QuietProgress

LEMMA InitProgress == Init => Progress
<1> SUFFICES ASSUME Init PROVE Progress
  OBVIOUS
<1>1. \A k \in Node : Ran(inbox[k]) = {} /\ Ordered(inbox[k], ShareOrder)
  BY DEF Init, Ran, Ordered
<1>2. \A h \in Sign : ~Made(h)
  BY DEF Init, Made
<1> QED
  BY <1>1, <1>2 DEF Progress, SharesIn, SharesInOrder, MainTasks

LEMMA NextProgress ==
  ASSUME "client" \in Timing, Types, Types', Own, Progress, [Next]_vars
  PROVE  Progress'
<1>1. CASE UNCHANGED vars
  <2>1. UNCHANGED <<request, task, resp, active, inbox, down>>
    BY <1>1 DEF vars
  <2>2. SharesIn' /\ SharesInOrder' /\ MainTasks'
    BY <2>1, SameRequests DEF Progress, SharesIn, SharesInOrder, MainTasks
  <2> QED
    BY <2>2 DEF Progress
<1>2. ASSUME NEW n \in Node,
             \E g \in Sign : \E peers \in Lists(n) : SignCommand(g, n, peers)
      PROVE  Progress'
  BY <1>2, SignCommandProgress
<1>3. ASSUME NEW n \in Node, Handle(n)
      PROVE  Progress'
  <2>1. PICK i \in 1..Len(inbox[n]) :
          /\ Next1(n, i)
          /\ \/ Connected(n, i) \/ Acknowledged(n, i) \/ Share(n, i)
             \/ Accept(n, i) \/ TreeLevel(n, i) \/ Payload(n, i) \/ EndOfFile(n, i)
          /\ UNCHANGED <<request, down>>
    BY <1>3 DEF Handle
  <2>2. Readable(n, i)
    BY <2>1 DEF Next1
  <2> QED
    BY <2>1, <2>2, ConnectedProgress, AcknowledgedProgress, ShareProgress,
       AnsweringProgress DEF Answering
<1>4. ASSUME NEW n \in Node, Wake(n)
      PROVE  Progress'
  BY <1>4, CloseChannelsProgress, FinishProgress DEF Wake
<1>5. ASSUME NEW n \in Node, Halt(n)
      PROVE  Progress'
  BY <1>5, HaltProgress
<1> QED
  BY <1>1, <1>2, <1>3, <1>4, <1>5 DEF Next

LEMMA ProgressSigned ==
  ASSUME Types, Own, Progress
  PROVE  SignedTogether
<1> SUFFICES ASSUME NEW n \in Node, NEW g \in Sign, Answered(g), n \in request[g].nodes
             PROVE  task[<<n, g>>].round = Rounds
  BY DEF SignedTogether
<1>1. Made(g) /\ task[<<Main(g), g>>].pc = "done"
  BY DEF Answered, Made, Main
<1>2. n = Main(g) \/ n \in Peers(g)
  BY <1>1 DEF Own, RequestsOwn
<1>3. MainTask(Peers(g), g, task[<<Main(g), g>>], active[Main(g)], task, inbox[Main(g)])
  BY <1>1 DEF Progress, MainTasks
<1> QED
  BY <1>1, <1>2, <1>3 DEF MainTask

(* When a signature is returned, every node the command names has taken    *)
(* part to the last round (SignedTogether), if clients send a command when *)
(* the nodes are done with the last one.                                   *)
THEOREM SignedByAll ==
  ASSUME "client" \in Timing
  PROVE  Spec => []SignedTogether
<1> DEFINE Inv == Types /\ Own /\ Progress
<1>1. Init => Inv
  BY InitTypes, InitOwn, InitProgress
<1>2. Inv /\ [Next]_vars => Inv'
  BY NextTypes, NextOwn, NextProgress
<1>3. Inv => SignedTogether
  BY ProgressSigned
<1> QED
  BY <1>1, <1>2, <1>3, PTL DEF Spec

-----------------------------------------------------------------------------
(* The mesh: an invariant of the nodes of every command.                   *)

(* A state: the commands, the tasks, the states of the channels, the       *)
(* dictionaries, and the set of messages each node has not read.           *)
Now == [req |-> request, task |-> task, resp |-> resp, act |-> active,
        mail |-> [k \in Node |-> Ran(inbox[k])]]

Over == {"sleep", "sleep2", "done"}
Rounding == {"share"} \cup Over

Tk(s, n, g) == s.task[<<n, g>>]

Called(s, g) == s.req[g].main # None

(* In a command q, a connects to b.                                        *)
Before(q, a, b) ==
  \/ a = q.main /\ b \in Ran(q.peers)
  \/ \E i, j \in 1..Len(q.peers) : i < j /\ q.peers[i] = a /\ q.peers[j] = b

Link(s, c) == c \in Chan /\ Called(s, c.g) /\ Before(s.req[c.g], c.a, c.b)

(* The channel of the main node of g to n.                                 *)
Up(s, n, g) == [a |-> s.req[g].main, b |-> n, g |-> g]

Opened(s, c) ==
  c.b \in Reached(Tk(s, c.a, c.g)) \/ Tk(s, c.a, c.g).pc \in Rounding

Waited(s, c) == Tk(s, c.a, c.g).pc = "connect" /\ Tk(s, c.a, c.g).wait = c

(* The last round whose share the task t has read from the channel c.      *)
Read(t, c) ==
  IF t.pc \in Over THEN Rounds
  ELSE IF t.pc = "share"
         THEN IF \E i \in 1..Len(t.members) : i < t.at /\ t.members[i] = c
                THEN t.round ELSE t.round - 1
         ELSE 0

(* A command names its main node and others, each of them once.            *)
CommandJ(q) ==
  q.main # None =>
    /\ q.main \in Node /\ q.main \notin Ran(q.peers)
    /\ Injective(q.peers) /\ q.peers # <<>>
    /\ q.nodes = {q.main} \cup Ran(q.peers)

(* Nothing of g is under way.                                              *)
Settled(s, g) ==
  /\ \A n \in Node : Tk(s, n, g).pc \in {"idle", "done"}
  /\ \A c \in Chan : c.g = g => s.resp[c] \in {"none", "closed"}

(* A command is sent when those before it are settled.                     *)
CommandsJ(s) ==
  /\ s.req \in Requests
  /\ \A g \in Sign : CommandJ(s.req[g])
  /\ \A g, h \in Sign : Called(s, g) /\ Called(s, h) /\ h < g => Settled(s, h)

(* The task t of n for g, whose command is q: who it waits for and what it *)
(* has opened are of q; only the main node waits for acknowledgements.     *)
TaskJ(q, n, g, t) ==
  /\ t \in Task
  /\ t.pc # "failed"
  /\ t.pc # "idle" => q.main # None /\ n \in q.nodes
  /\ t.pc = "idle" => t.opened = <<>>
  /\ t.pc \in {"idle", "connect", "ack"} => t.round = 0
  /\ t.pc \in {"idle", "connect"} => t.asked = 0
  /\ t.pc = "ack" => n = q.main
  /\ t.pc = "done" => t.opened = <<>>
  /\ t.pc \in Over => t.round = Rounds
  /\ t.pc \in {"idle"} \cup Over => t.wait = NoChan
  /\ t.pc \notin {"idle", "done"} =>
       t.from = IF n = q.main THEN NoChan ELSE [a |-> q.main, b |-> n, g |-> g]
  /\ \A c \in Ran(t.opened) : c.a = n /\ c.g = g
  /\ \A i, j \in 1..Len(t.opened) : t.opened[i].b = t.opened[j].b => i = j

(* The nodes that n connects to are those reached, the one waited for and  *)
(* those left, each of them once.                                          *)
ConnectJ(q, n, g, t) ==
  t.pc = "connect" =>
    /\ t.wait # NoChan =>
         /\ t.wait \in Chan /\ t.wait.a = n /\ t.wait.g = g
         /\ t.wait.b \notin Reached(t) /\ t.wait.b \notin Ran(t.list)
    /\ Injective(t.list)
    /\ \A b \in Ran(t.list) : b \notin Reached(t)
    /\ \A b \in Node : Before(q, n, b) <=>
         b \in Reached(t) \/ b \in Ran(t.list) \/ (t.wait # NoChan /\ t.wait.b = b)

(* When n is through with its connections, it has reached all of them.     *)
ReachJ(q, n, t) ==
  t.pc \in {"ack", "share", "sleep", "sleep2"} =>
    \A b \in Node : Before(q, n, b) <=> b \in Reached(t)

(* In a round, the loop is over the dictionary as it still is: no channel  *)
(* is registered and none leaves while a round lasts.                      *)
ShareJ(t, act) ==
  t.pc = "share" =>
    /\ t.round \in 1..Rounds
    /\ t.members = act
    /\ t.at \in 1..(Len(act) + 1)
    /\ t.wait = IF t.at <= Len(act) THEN act[t.at] ELSE NoChan

(* The main node opens the channels in the order of the command.           *)
MainJ(q, g, t) ==
  /\ t.pc # "idle"
  /\ t.pc \in {"connect", "ack"} =>
       \A i \in 1..Len(t.opened) : i <= Len(q.peers) /\ t.opened[i].b = q.peers[i]
  /\ t.pc = "connect" =>
       LET l == Len(t.opened) + (IF t.wait = NoChan THEN 0 ELSE 1)
       IN  /\ l + Len(t.list) = Len(q.peers)
           /\ \A i \in 1..Len(t.list) : t.list[i] = q.peers[l + i]
           /\ t.wait # NoChan => t.wait.b = q.peers[l]
  /\ t.pc = "ack" =>
       /\ Len(t.opened) = Len(q.peers)
       /\ t.asked \in 1..Len(q.peers)
       /\ t.wait = NoChan \/ t.wait = [a |-> q.main, b |-> q.peers[t.asked], g |-> g]

(* The peers begin one after the other, as the main node asks them: those  *)
(* asked before have begun their rounds, those after are idle.             *)
StageJ(s, g) ==
  LET q == s.req[g]
      t == Tk(s, q.main, g)
  IN  /\ t.pc = "connect" => \A b \in Ran(q.peers) : Tk(s, b, g).pc = "idle"
      /\ t.pc = "ack" =>
           \A i \in 1..Len(q.peers) :
             /\ i < t.asked => Tk(s, q.peers[i], g).pc \in Rounding
             /\ i > t.asked => Tk(s, q.peers[i], g).pc = "idle"
             /\ i = t.asked /\ t.wait = NoChan => Tk(s, q.peers[i], g).pc \in Rounding
      /\ t.pc \in Rounding => \A b \in Ran(q.peers) : Tk(s, b, g).pc \in Rounding

TasksJ(s) ==
  /\ \A n \in Node, g \in Sign :
       /\ TaskJ(s.req[g], n, g, Tk(s, n, g))
       /\ ConnectJ(s.req[g], n, g, Tk(s, n, g))
       /\ ReachJ(s.req[g], n, Tk(s, n, g))
       /\ ShareJ(Tk(s, n, g), s.act[n])
  /\ \A g \in Sign : Called(s, g) =>
       MainJ(s.req[g], g, Tk(s, s.req[g].main, g)) /\ StageJ(s, g)

(* The state of c at the node connected to, by the tasks at its two ends. A*)
(* channel of the main node waits until its peer begins, and is closed when*)
(* it is done; any other is `hold` as soon as that node connects.          *)
ChannelJ(s, c) ==
  /\ s.resp[c] \in States \ {"failed"}
  /\ s.resp[c] # "none" => Link(s, c)
  /\ Link(s, c) =>
       /\ Opened(s, c) => s.resp[c] # "none"
       /\ s.resp[c] # "none" => Opened(s, c) \/ Waited(s, c)
       /\ s.resp[c] \notin {"none", "level"} => Opened(s, c)
       /\ c.a = s.req[c.g].main =>
            /\ s.resp[c] # "hold"
            /\ s.resp[c] \in Waiting <=> Tk(s, c.b, c.g).pc = "idle"
            /\ s.resp[c] = "closed" <=> Tk(s, c.b, c.g).pc = "done"
       /\ c.a # s.req[c.g].main =>
            /\ s.resp[c] \in {"none", "level", "hold", "closed"}
            /\ s.resp[c] = "closed" => Tk(s, c.a, c.g).pc \in {"sleep2", "done"}
            /\ s.resp[c] = "hold" => s.resp[Up(s, c.b, c.g)] \notin {"none", "level"}
            /\ Tk(s, c.b, c.g).pc \in {"connect", "share"} => s.resp[c] = "hold"
            /\ Tk(s, c.b, c.g).pc # "idle" => s.resp[c] \in {"hold", "closed"}

(* What is in the dictionary of n.                                         *)
Holds(s, n, e) ==
  \/ e.b = n /\ s.resp[e] \in {"payload", "sign", "hold"}
  \/ e.a = n /\ e \in Ran(Tk(s, n, e.g).opened) /\ Tk(s, n, e.g).pc # "sleep2"

DictionariesJ(s) ==
  \A n \in Node :
    /\ Dictionary(n, s.act[n])
    /\ \A e \in Chan : e \in Ran(s.act[n]) <=> Holds(s, n, e)

(* A message u that k has not read: where it may come from, and what its   *)
(* sender and its receiver are doing.                                      *)
Sound(s, k, u) ==
  LET c == u.c
      main == s.req[c.g].main
      up == c.a = main
  IN  /\ u \in Message /\ Link(s, c) /\ k \in {c.a, c.b}
      /\ u.kind = "hello" => k = c.b /\ s.resp[c] = "none" /\ Waited(s, c)
      /\ u.kind = "x" => k = c.a /\ s.resp[c] = "level" /\ Waited(s, c)
      /\ u.kind = "level0" => k = c.b /\ up /\ s.resp[c] = "level" /\ Opened(s, c)
      /\ u.kind = "level1" => k = c.b /\ ~up /\ s.resp[c] = "level" /\ Opened(s, c)
      /\ u.kind = "payload" =>
           /\ k = c.b /\ up /\ Tk(s, main, c.g).pc = "ack" /\ Tk(s, main, c.g).wait = c
           /\ Tk(s, c.b, c.g).pc = "idle"
           /\ Injective(u.nodes)
           /\ \A b \in Node : b \in Ran(u.nodes) <=> Before(s.req[c.g], c.b, b)
      /\ u.kind = "ack" =>
           /\ k = c.a /\ up /\ Tk(s, main, c.g).pc = "ack" /\ Tk(s, main, c.g).wait = c
           /\ Tk(s, c.b, c.g).pc \in Rounding
      /\ u.kind = "share" =>
           /\ u.round > Read(Tk(s, k, c.g), c)
           /\ u.round <= Tk(s, Other(k, c), c.g).round
      /\ u.kind = "eof" =>
           /\ \A n \in s.req[c.g].nodes : Tk(s, n, c.g).round = Rounds
           /\ k = c.a => s.resp[c] = "closed"
           /\ k = c.b => Tk(s, c.a, c.g).pc \in {"sleep2", "done"}

(* No message is there twice.                                              *)
Alone(u, v) ==
  u.c = v.c /\ u.kind = v.kind /\ (u.kind = "share" => u.round = v.round) => u = v

MailJ(s) ==
  \A k \in Node : \A u \in s.mail[k] :
    Sound(s, k, u) /\ \A v \in s.mail[k] : Alone(u, v)

(* What must be under way on a channel: its level, once it is opened.      *)
LevelJ(s, c) ==
  s.resp[c] = "level" /\ Opened(s, c) =>
    \E u \in s.mail[c.b] : u.c = c /\ u.kind \in {"level0", "level1"}

(* The shares from the round last read to the round of the sender.         *)
SharesJ(s, c) ==
  \A k \in {c.a, c.b} :
    /\ Read(Tk(s, k, c.g), c) <= Tk(s, Other(k, c), c.g).round
    /\ \A r \in 1..Rounds :
         Read(Tk(s, k, c.g), c) < r /\ r <= Tk(s, Other(k, c), c.g).round =>
           \E u \in s.mail[k] : u.c = c /\ u.kind = "share" /\ u.round = r

(* The end of file of a channel that its opener has closed.                *)
EofJ(s, c) ==
  s.resp[c] = "hold" /\ Tk(s, c.a, c.g).pc \in {"sleep2", "done"} =>
    \E u \in s.mail[c.b] : u.c = c /\ u.kind = "eof"

LinkJ(s, c) ==
  ChannelJ(s, c) /\ (Link(s, c) => LevelJ(s, c) /\ SharesJ(s, c) /\ EofJ(s, c))

(* The acknowledgement of a peer that has begun.                           *)
AckJ(s, g) ==
  LET t == Tk(s, s.req[g].main, g)
  IN  t.pc = "ack" /\ t.wait # NoChan /\ Tk(s, t.wait.b, g).pc \in Rounding =>
        \E u \in s.mail[s.req[g].main] : u.c = t.wait /\ u.kind = "ack"

(* The invariant.                                                          *)
Mesh(s) ==
  /\ CommandsJ(s) /\ TasksJ(s) /\ DictionariesJ(s) /\ MailJ(s)
  /\ \A c \in Chan : LinkJ(s, c)
  /\ \A g \in Sign : Called(s, g) => AckJ(s, g)

(* A message u may lie before v in an inbox: on a channel, the greeting,   *)
(* its level, the payload or the acknowledgement, the shares by round, the *)
(* end of file. Only ends of file are before a level 0; a payload lies     *)
(* behind the greetings and levels of the other channels; no share lies    *)
(* behind an end of file of its command.                                   *)
Rank(u) ==
  IF u.kind \in {"hello", "x"} THEN 0
  ELSE IF u.kind \in {"level0", "level1"} THEN 1
  ELSE IF u.kind \in {"payload", "ack"} THEN 2
  ELSE IF u.kind = "share" THEN 2 + u.round
  ELSE 3 + Rounds

May(u, v) ==
  /\ u.c = v.c => Rank(u) < Rank(v)
  /\ v.kind = "level0" => u.kind = "eof"
  /\ u.kind = "payload" => v.kind \notin {"hello", "level1"}
  /\ v.kind = "share" /\ u.kind = "eof" => u.c.g # v.c.g

-----------------------------------------------------------------------------
(* What a step of one node for one command leaves as it was.               *)

Touches(c, n, g) == c.g = g /\ n \in {c.a, c.b}

(* A step from s to u in which n does something for the command g, whose   *)
(* task is t afterwards.                                                   *)
Step(s, u, n, g, t) ==
  /\ u.req = s.req
  /\ Tk(u, n, g) = t
  /\ \A k \in Node, h \in Sign : k # n \/ h # g => Tk(u, k, h) = Tk(s, k, h)
  /\ \A k \in Node : k # n => u.act[k] = s.act[k]
  /\ \A c \in Chan : c.b # n \/ c.g # g => u.resp[c] = s.resp[c]
  /\ \A k \in Node : \A m \in s.mail[k] : m \in u.mail[k] \/ Touches(m.c, n, g)

Local(s, u, n, g, t) ==
  /\ TaskJ(s.req[g], n, g, t) /\ ConnectJ(s.req[g], n, g, t)
  /\ ReachJ(s.req[g], n, t) /\ ShareJ(t, u.act[n])
  /\ n = s.req[g].main => MainJ(s.req[g], g, t)
  /\ StageJ(u, g) /\ AckJ(u, g)
  /\ \A c \in Chan : Touches(c, n, g) => LinkJ(u, c)
  /\ Dictionary(n, u.act[n])
  /\ \A e \in Chan : e \in Ran(u.act[n]) <=> Holds(u, n, e)
  /\ \A k \in Node : \A m \in u.mail[k] :
       /\ (m \in s.mail[k] /\ ~Touches(m.c, n, g)) \/ Sound(u, k, m)
       /\ \A v \in u.mail[k] : Alone(m, v)
  /\ Tk(s, n, g).round = Rounds => t.round = Rounds

LEMMA ChanFields == \A c \in Chan : c.a \in Node /\ c.b \in Node /\ c.g \in Sign /\ c.a # c.b
BY DEF Chan

LEMMA OneActive ==
  ASSUME NEW s, Mesh(s), NEW g \in Sign, NEW h \in Sign,
         Called(s, g), Called(s, h), ~Settled(s, g), ~Settled(s, h)
  PROVE  g = h
<1>1. g < h \/ h < g \/ g = h
  BY BoundAssumption DEF Sign
<1> QED
  BY <1>1 DEF Mesh, CommandsJ

LEMMA Runs ==
  ASSUME NEW s, Mesh(s), NEW n \in Node, NEW g \in Sign
  PROVE  /\ Tk(s, n, g).pc # "idle" => Called(s, g) /\ n \in s.req[g].nodes
         /\ Tk(s, n, g).pc \notin {"idle", "done"} => ~Settled(s, g)
<1>1. TaskJ(s.req[g], n, g, Tk(s, n, g))
  BY DEF Mesh, TasksJ
<1> QED
  BY <1>1 DEF TaskJ, Called, Settled

LEMMA MainNode ==
  ASSUME NEW s, Mesh(s), NEW g \in Sign, Called(s, g)
  PROVE  s.req[g].main \in Node
BY DEF Mesh, CommandsJ, CommandJ, Called

(* What a step does not touch keeps what is said of it.                    *)
LEMMA Untouched ==
  ASSUME NEW s, NEW u, NEW n \in Node, NEW g \in Sign, NEW t, Step(s, u, n, g, t),
         NEW c \in Chan, ~Touches(c, n, g)
  PROVE  /\ Tk(u, c.a, c.g) = Tk(s, c.a, c.g) /\ Tk(u, c.b, c.g) = Tk(s, c.b, c.g)
         /\ u.resp[c] = s.resp[c]
         /\ Up(s, c.b, c.g) = Up(u, c.b, c.g)
         /\ Up(s, c.b, c.g) \in Chan =>
              u.resp[Up(s, c.b, c.g)] = s.resp[Up(s, c.b, c.g)]
         /\ Link(u, c) <=> Link(s, c)
         /\ Opened(u, c) <=> Opened(s, c)
         /\ Waited(u, c) <=> Waited(s, c)
<1>1. c.a \in Node /\ c.b \in Node /\ c.g \in Sign
  BY ChanFields
<1>2. Tk(u, c.a, c.g) = Tk(s, c.a, c.g) /\ Tk(u, c.b, c.g) = Tk(s, c.b, c.g)
  BY <1>1 DEF Step, Touches
<1>3. u.resp[c] = s.resp[c]
  BY DEF Step, Touches
<1>4. u.req = s.req
  BY DEF Step
<1>5. Up(s, c.b, c.g) = Up(u, c.b, c.g)
  BY <1>4 DEF Up
<1>6. ASSUME Up(s, c.b, c.g) \in Chan
      PROVE  u.resp[Up(s, c.b, c.g)] = s.resp[Up(s, c.b, c.g)]
  <2> DEFINE d == Up(s, c.b, c.g)
  <2>1. d.b = c.b /\ d.g = c.g
    BY DEF Up
  <2> HIDE DEF d
  <2>2. d.b # n \/ d.g # g
    BY <2>1 DEF Touches
  <2> QED
    BY <1>6, <2>2 DEF Step, d
<1> QED
  BY <1>2, <1>3, <1>4, <1>5, <1>6 DEF Link, Called, Opened, Waited

LEMMA UpChannel ==
  ASSUME NEW s, Mesh(s), NEW c \in Chan, Link(s, c)
  PROVE  c.a # s.req[c.g].main => Up(s, c.b, c.g) \in Chan
<1>1. c.a \in Node /\ c.b \in Node /\ c.g \in Sign
  BY ChanFields
<1>2. /\ s.req[c.g].main \in Node /\ s.req[c.g].main \notin Ran(s.req[c.g].peers)
      /\ Before(s.req[c.g], c.a, c.b)
  BY <1>1 DEF Mesh, CommandsJ, CommandJ, Link, Called
<1>3. c.b \in Ran(s.req[c.g].peers)
  BY <1>2 DEF Before, Ran
<1> QED
  BY <1>1, <1>2, <1>3 DEF Up, Chan

LEMMA UntouchedLink ==
  ASSUME NEW s, NEW u, NEW n \in Node, NEW g \in Sign, NEW t, Mesh(s),
         Step(s, u, n, g, t), NEW c \in Chan, ~Touches(c, n, g)
  PROVE  LinkJ(u, c)
<1>1. LinkJ(s, c) /\ c.a \in Node /\ c.b \in Node /\ c.g \in Sign
  BY ChanFields DEF Mesh
<1>3. /\ Tk(u, c.a, c.g) = Tk(s, c.a, c.g) /\ Tk(u, c.b, c.g) = Tk(s, c.b, c.g)
      /\ u.resp[c] = s.resp[c]
      /\ Link(s, c) /\ c.a # s.req[c.g].main =>
           /\ Up(s, c.b, c.g) = Up(u, c.b, c.g)
           /\ u.resp[Up(s, c.b, c.g)] = s.resp[Up(s, c.b, c.g)]
      /\ Link(u, c) <=> Link(s, c)
      /\ Opened(u, c) <=> Opened(s, c)
      /\ Waited(u, c) <=> Waited(s, c)
  <2>1. Link(s, c) /\ c.a # s.req[c.g].main => Up(s, c.b, c.g) \in Chan
    BY UpChannel
  <2> QED
    BY <2>1, Untouched
<1>4. u.req = s.req
  BY DEF Step
<1>5. ChannelJ(u, c)
  BY <1>1, <1>3, <1>4 DEF LinkJ, ChannelJ
<1>6. \A k \in {c.a, c.b} : \A m \in s.mail[k] : m.c = c => m \in u.mail[k]
  BY <1>1 DEF Step
<1>7. Link(u, c) => LevelJ(u, c)
  BY <1>1, <1>3, <1>6 DEF LinkJ, LevelJ
<1>8. Link(u, c) => EofJ(u, c)
  BY <1>1, <1>3, <1>6 DEF LinkJ, EofJ
<1>9. \A k \in {c.a, c.b} : Tk(u, k, c.g) = Tk(s, k, c.g) /\ Tk(u, Other(k, c), c.g) = Tk(s, Other(k, c), c.g)
  BY <1>3 DEF Other
<1>10. Link(u, c) => SharesJ(u, c)
  BY <1>1, <1>3, <1>6, <1>9 DEF LinkJ, SharesJ
<1> QED
  BY <1>5, <1>7, <1>8, <1>10 DEF LinkJ

(* A step of the one command that is not finished keeps what it does not   *)
(* touch.                                                                  *)
LEMMA Frame ==
  ASSUME NEW s, NEW u, NEW n \in Node, NEW g \in Sign, NEW t,
         Mesh(s), Called(s, g), ~Settled(s, g), Step(s, u, n, g, t), Local(s, u, n, g, t)
  PROVE  Mesh(u)
<1>1. u.req = s.req
  BY DEF Step
<1>2. CommandsJ(u)
  <2> SUFFICES ASSUME NEW h1 \in Sign, NEW h \in Sign, Called(s, h1), Called(s, h), h < h1
               PROVE  Settled(u, h)
    BY <1>1 DEF Mesh, CommandsJ, Called
  <2>1. Settled(s, h)
    BY DEF Mesh, CommandsJ
  <2>2. h # g
    BY <2>1
  <2> QED
    BY <2>1, <2>2 DEF Settled, Step
<1>3. ASSUME NEW k \in Node, NEW h \in Sign, k # n \/ h # g
      PROVE  /\ TaskJ(u.req[h], k, h, Tk(u, k, h))
             /\ ConnectJ(u.req[h], k, h, Tk(u, k, h))
             /\ ReachJ(u.req[h], k, Tk(u, k, h))
             /\ ShareJ(Tk(u, k, h), u.act[k])
  <2>1. Tk(u, k, h) = Tk(s, k, h)
    BY <1>3 DEF Step
  <2>2. /\ TaskJ(s.req[h], k, h, Tk(s, k, h))
        /\ ConnectJ(s.req[h], k, h, Tk(s, k, h))
        /\ ReachJ(s.req[h], k, Tk(s, k, h))
        /\ ShareJ(Tk(s, k, h), s.act[k])
    BY DEF Mesh, TasksJ
  <2>3. ShareJ(Tk(s, k, h), u.act[k])
    <3>1. CASE k # n
      BY <2>2, <3>1 DEF Step
    <3>2. CASE k = n
      <4>1. Tk(s, k, h).pc # "share"
        BY <1>3, <3>2, Runs, OneActive
      <4> QED
        BY <4>1 DEF ShareJ
    <3> QED
      BY <3>1, <3>2
  <2> QED
    BY <1>1, <2>1, <2>2, <2>3
<1>4. ASSUME NEW h \in Sign, Called(u, h)
      PROVE  /\ MainJ(u.req[h], h, Tk(u, u.req[h].main, h)) /\ StageJ(u, h)
             /\ AckJ(u, h)
  <2>1. Called(s, h)
    BY <1>1, <1>4 DEF Called
  <2>2. s.req[h].main \in Node
    BY <2>1, MainNode
  <2>3. /\ MainJ(s.req[h], h, Tk(s, s.req[h].main, h)) /\ StageJ(s, h)
        /\ AckJ(s, h)
    BY <2>1 DEF Mesh, TasksJ
  <2>4. CASE h = g
    <3>1. MainJ(s.req[g], g, Tk(u, s.req[g].main, g))
      <4>1. CASE n = s.req[g].main
        BY <4>1 DEF Local, Step
      <4>2. CASE n # s.req[g].main
        BY <2>2, <2>3, <2>4, <4>2 DEF Step
      <4> QED
        BY <4>1, <4>2
    <3> QED
      BY <1>1, <2>4, <3>1 DEF Local
  <2>5. CASE h # g
    <3>1. \A k \in Node : Tk(u, k, h) = Tk(s, k, h)
      BY <2>5 DEF Step
    <3>2. Ran(s.req[h].peers) \subseteq Node
      <4>1. s.req[h].peers \in Seq(Node)
        BY DEF Mesh, CommandsJ, Requests
      <4> QED
        BY <4>1, RanType
    <3>3. \A i \in 1..Len(s.req[h].peers) : s.req[h].peers[i] \in Node
      BY <3>2 DEF Ran
    <3>4. StageJ(u, h)
      BY <1>1, <2>2, <2>3, <3>1, <3>2, <3>3 DEF StageJ
    <3>5. AckJ(u, h)
      <4> DEFINE v == Tk(s, s.req[h].main, h)
      <4> SUFFICES ASSUME v.pc = "ack", v.wait # NoChan, Tk(u, v.wait.b, h).pc \in Rounding
                   PROVE  \E m \in u.mail[s.req[h].main] : m.c = v.wait /\ m.kind = "ack"
        BY <1>1, <2>2, <3>1 DEF AckJ
      <4>1. Tk(u, v.wait.b, h) = Tk(s, v.wait.b, h) /\ v.wait.g = h
        <5>1. \E i \in 1..Len(s.req[h].peers) :
                v.wait = [a |-> s.req[h].main, b |-> s.req[h].peers[i], g |-> h]
          BY <2>3 DEF MainJ
        <5> QED
          BY <3>1, <3>3, <5>1
      <4>2. PICK m \in s.mail[s.req[h].main] : m.c = v.wait /\ m.kind = "ack"
        BY <2>3, <4>1 DEF AckJ
      <4>3. m \in u.mail[s.req[h].main]
        BY <2>2, <2>5, <4>1, <4>2 DEF Step, Touches
      <4> QED
        BY <4>2, <4>3
    <3>6. MainJ(s.req[h], h, Tk(u, s.req[h].main, h))
      BY <2>2, <2>3, <3>1
    <3> QED
      BY <1>1, <3>4, <3>5, <3>6
  <2> QED
    BY <2>4, <2>5
<1>5. TasksJ(u)
  <2>1. /\ TaskJ(u.req[g], n, g, Tk(u, n, g)) /\ ConnectJ(u.req[g], n, g, Tk(u, n, g))
        /\ ReachJ(u.req[g], n, Tk(u, n, g)) /\ ShareJ(Tk(u, n, g), u.act[n])
    BY <1>1 DEF Local, Step
  <2> QED
    BY <1>3, <1>4, <2>1 DEF TasksJ
<1>6. DictionariesJ(u)
  <2> SUFFICES ASSUME NEW k \in Node
               PROVE  /\ Dictionary(k, u.act[k])
                      /\ \A e \in Chan : e \in Ran(u.act[k]) <=> Holds(u, k, e)
    BY DEF DictionariesJ
  <2>1. CASE k = n
    BY <2>1 DEF Local
  <2>2. CASE k # n
    <3>1. u.act[k] = s.act[k]
      BY <2>2 DEF Step
    <3>2. Dictionary(k, s.act[k]) /\ \A e \in Chan : e \in Ran(s.act[k]) <=> Holds(s, k, e)
      BY DEF Mesh, DictionariesJ
    <3>3. \A e \in Chan : Holds(u, k, e) <=> Holds(s, k, e)
      <4> TAKE e \in Chan
      <4>1. Tk(u, k, e.g) = Tk(s, k, e.g) /\ (e.b = k => u.resp[e] = s.resp[e])
        BY <2>2, ChanFields DEF Step
      <4> QED
        BY <4>1 DEF Holds
    <3> QED
      BY <3>1, <3>2, <3>3
  <2> QED
    BY <2>1, <2>2
<1>7. MailJ(u)
  <2> SUFFICES ASSUME NEW k \in Node, NEW m \in u.mail[k] PROVE Sound(u, k, m)
    BY DEF MailJ, Local
  <2>1. CASE ~(m \in s.mail[k] /\ ~Touches(m.c, n, g))
    BY <2>1 DEF Local
  <2>2. CASE m \in s.mail[k] /\ ~Touches(m.c, n, g)
    <3>1. Sound(s, k, m)
      BY <2>2 DEF Mesh, MailJ
    <3>c. PICK c \in Chan : c = m.c
      BY <3>1 DEF Sound, Link
    <3>2. Link(s, c) /\ Called(s, c.g) /\ k \in {c.a, c.b}
      BY <3>1, <3>c DEF Sound, Link
    <3>3. /\ s.req[c.g].main \in Node /\ c.a \in Node /\ c.b \in Node /\ c.g \in Sign
      BY <3>2, ChanFields, MainNode
    <3>4. /\ Tk(u, c.a, c.g) = Tk(s, c.a, c.g) /\ Tk(u, c.b, c.g) = Tk(s, c.b, c.g)
          /\ u.resp[c] = s.resp[c]
          /\ Link(u, c) <=> Link(s, c)
          /\ Opened(u, c) <=> Opened(s, c)
          /\ Waited(u, c) <=> Waited(s, c)
      <4>1. ~Touches(c, n, g)
        BY <2>2, <3>c
      <4> QED
        <5>1. c \in Chan /\ Step(s, u, n, g, t) /\ n \in Node /\ g \in Sign
          BY <3>c
        <5> QED
          BY ONLY <5>1, <4>1, Untouched
    <3>5. \A p \in Node : Tk(s, p, c.g).round = Rounds => Tk(u, p, c.g).round = Rounds
      BY <3>3 DEF Step, Local
    <3>6. s.req[c.g].nodes \subseteq Node
      BY <3>3 DEF Mesh, CommandsJ, Requests
    <3>7. Tk(u, k, c.g) = Tk(s, k, c.g) /\ Tk(u, Other(k, c), c.g) = Tk(s, Other(k, c), c.g)
      BY <3>2, <3>4 DEF Other
    <3> QED
      BY <1>1, <3>1, <3>c, <3>4, <3>5, <3>6, <3>7 DEF Sound
  <2> QED
    BY <2>1, <2>2
<1>8. \A c \in Chan : LinkJ(u, c)
  BY UntouchedLink DEF Local
<1> QED
  BY <1>2, <1>4, <1>5, <1>6, <1>7, <1>8 DEF Mesh

-----------------------------------------------------------------------------
(* What the invariant says of the nodes of a command.                      *)

(* The order in which the nodes of a command connect.                      *)

LEMMA BeforeIs ==
  ASSUME NEW q, CommandJ(q), q.main # None, q.peers \in Seq(Node),
         NEW a, NEW b, Before(q, a, b)
  PROVE  /\ a # b /\ a \in q.nodes /\ b \in q.nodes /\ b \in Ran(q.peers) /\ b # q.main
         /\ ~Before(q, b, a)
<1>1. /\ q.main \notin Ran(q.peers) /\ Injective(q.peers)
      /\ q.nodes = {q.main} \cup Ran(q.peers)
  BY DEF CommandJ
<1>2. Len(q.peers) \in Nat
  OBVIOUS
<1>3. CASE a = q.main /\ b \in Ran(q.peers)
  <2>1. b # q.main
    BY <1>1, <1>3
  <2>2. \A j \in 1..Len(q.peers) : q.peers[j] # a
    BY <1>1, <1>3 DEF Ran
  <2> QED
    BY <1>1, <1>3, <2>1, <2>2 DEF Before
<1>4. CASE ~(a = q.main /\ b \in Ran(q.peers))
  <2>1. PICK i \in 1..Len(q.peers), j \in 1..Len(q.peers) :
          i < j /\ q.peers[i] = a /\ q.peers[j] = b
    BY <1>4 DEF Before
  <2>2. a \in Ran(q.peers) /\ b \in Ran(q.peers)
    BY <2>1 DEF Ran
  <2>3. \A k \in 1..Len(q.peers) : (q.peers[k] = a => k = i) /\ (q.peers[k] = b => k = j)
    BY <1>1, <2>1 DEF Injective
  <2>4. a # b
    BY <1>2, <2>1, <2>3
  <2>5. ~Before(q, b, a)
    BY <1>1, <1>2, <2>1, <2>2, <2>3 DEF Before
  <2> QED
    BY <1>1, <2>2, <2>4, <2>5
<1> QED
  BY <1>3, <1>4

LEMMA BeforeTotal ==
  ASSUME NEW q, CommandJ(q), q.main # None, q.peers \in Seq(Node),
         NEW a \in q.nodes, NEW b \in q.nodes, a # b
  PROVE  Before(q, a, b) \/ Before(q, b, a)
<1>1. q.nodes = {q.main} \cup Ran(q.peers) /\ Len(q.peers) \in Nat
  BY DEF CommandJ
<1>2. CASE a = q.main \/ b = q.main
  BY <1>1, <1>2 DEF Before
<1>3. CASE a # q.main /\ b # q.main
  <2>1. PICK i \in 1..Len(q.peers) : q.peers[i] = a
    BY <1>1, <1>3 DEF Ran
  <2>2. PICK j \in 1..Len(q.peers) : q.peers[j] = b
    BY <1>1, <1>3 DEF Ran
  <2>3. i < j \/ j < i
    BY <2>1, <2>2
  <2> QED
    BY <2>1, <2>2, <2>3 DEF Before
<1> QED
  BY <1>2, <1>3

LEMMA BeforeAt ==
  ASSUME NEW q, CommandJ(q), q.main # None, q.peers \in Seq(Node),
         NEW i \in 1..Len(q.peers), NEW b
  PROVE  Before(q, q.peers[i], b) <=>
           \E j \in 1..Len(q.peers) : i < j /\ q.peers[j] = b
<1>1. q.main \notin Ran(q.peers) /\ Injective(q.peers) /\ q.peers[i] # q.main
  BY DEF CommandJ, Ran
<1> QED
  BY <1>1 DEF Before, Injective

LEMMA Request ==
  ASSUME NEW s, Mesh(s), NEW g \in Sign, Called(s, g)
  PROVE  LET q == s.req[g]
         IN  /\ CommandJ(q) /\ q.main # None /\ q.main \in Node /\ q.peers \in Seq(Node)
             /\ Ran(q.peers) \subseteq Node /\ q.nodes = {q.main} \cup Ran(q.peers)
             /\ q.main \notin Ran(q.peers)
             /\ \A i \in 1..Len(q.peers) : q.peers[i] \in Ran(q.peers)
<1>1. s.req[g] \in [main : Node \cup {None}, peers : Seq(Node), nodes : SUBSET Node]
  BY DEF Mesh, CommandsJ, Requests
<1>2. CommandJ(s.req[g]) /\ s.req[g].main # None
  BY DEF Mesh, CommandsJ, Called
<1>3. Ran(s.req[g].peers) \subseteq Node
  BY <1>1, RanType
<1> QED
  BY <1>1, <1>2, <1>3 DEF CommandJ, Ran

LEMMA LinkIs ==
  ASSUME NEW s, Mesh(s), NEW c \in Chan, Link(s, c)
  PROVE  LET q == s.req[c.g]
         IN  /\ c.a \in q.nodes /\ c.b \in Ran(q.peers) /\ c.b # q.main /\ Called(s, c.g)
             /\ ~Before(q, c.b, c.a) /\ Before(q, c.a, c.b) /\ c.a # c.b
<1>1. Called(s, c.g) /\ Before(s.req[c.g], c.a, c.b) /\ c.g \in Sign
  BY ChanFields DEF Link
<1> QED
  BY <1>1, Request, BeforeIs

(* Between two nodes of a command there is one channel.                    *)
LEMMA OneLink ==
  ASSUME NEW s, Mesh(s), NEW c \in Chan, NEW d \in Chan, Link(s, c), Link(s, d),
         c.g = d.g, {c.a, c.b} = {d.a, d.b}
  PROVE  c = d
<1>1. c.a = d.a /\ c.b = d.b
  BY LinkIs
<1> QED
  BY <1>1 DEF Chan

-----------------------------------------------------------------------------
(* Rounds.                                                                 *)

LEMMA ReadIs ==
  ASSUME NEW s, Mesh(s), NEW n \in Node, NEW g \in Sign, NEW c
  PROVE  LET t == Tk(s, n, g)
         IN  /\ Read(t, c) \in 0..Rounds /\ t.round \in 0..Rounds
             /\ t.pc \in Rounding => t.round >= 1
             /\ t.pc \notin Rounding => t.round = 0 /\ Read(t, c) = 0
             /\ Read(t, c) <= t.round
<1> DEFINE t == Tk(s, n, g)
<1>1. /\ TaskJ(s.req[g], n, g, t) /\ ShareJ(t, s.act[n])
  BY DEF Mesh, TasksJ
<1> HIDE DEF t
<1>2. t.round \in 0..Rounds /\ Rounds \in Nat /\ Rounds >= 1
  BY <1>1, BoundAssumption DEF TaskJ, Task
<1>3. t.pc \in {"idle", "connect", "ack", "share", "sleep", "sleep2", "done"}
  BY <1>1 DEF TaskJ, Task, Ended
<1> QED
  BY <1>1, <1>2, <1>3 DEF TaskJ, ShareJ, Read, Rounding, Over, t

(* A peer begins when those before it are through with their connections.  *)
LEMMA Earlier ==
  ASSUME NEW s, Mesh(s), NEW c \in Chan, Link(s, c), Tk(s, c.b, c.g).pc # "idle"
  PROVE  /\ Opened(s, c)
         /\ c.a # s.req[c.g].main => Tk(s, c.a, c.g).pc \in Rounding
<1> DEFINE q == s.req[c.g]
           t == Tk(s, q.main, c.g)
<1>1. /\ c.g \in Sign /\ Called(s, c.g) /\ c.b \in Ran(q.peers) /\ c.a \in q.nodes
      /\ Before(q, c.a, c.b) /\ c.a \in Node /\ c.b \in Node
  BY LinkIs, ChanFields
<1>2. /\ MainJ(q, c.g, t) /\ StageJ(s, c.g)
  BY <1>1 DEF Mesh, TasksJ
<1>3. /\ CommandJ(q) /\ q.main # None /\ q.main \in Node /\ q.peers \in Seq(Node)
      /\ q.nodes = {q.main} \cup Ran(q.peers)
  BY <1>1, Request
<1>4. TaskJ(q, q.main, c.g, t) /\ ReachJ(q, q.main, t)
  BY <1>1, <1>3 DEF Mesh, TasksJ
<1> HIDE DEF t
<1>5. t.pc = "ack" \/ t.pc \in Rounding
  <2>1. t.pc # "connect"
    BY <1>1, <1>2 DEF StageJ, t
  <2> QED
    BY <1>2, <1>4, <2>1 DEF MainJ, TaskJ, Task, Rounding, Over, Ended
<1>6. CASE c.a = q.main
  <2>1. t.pc = "ack" => c.b \in Reached(t)
    BY <1>1, <1>4, <1>6 DEF ReachJ
  <2> QED
    BY <1>5, <1>6, <2>1 DEF Opened, t
<1>7. CASE c.a # q.main
  <2>1. PICK i \in 1..Len(q.peers), j \in 1..Len(q.peers) :
          i < j /\ q.peers[i] = c.a /\ q.peers[j] = c.b
    BY <1>1, <1>7 DEF Before
  <2>2. CASE t.pc \in Rounding
    <3>1. c.a \in Ran(q.peers)
      BY <2>1 DEF Ran
    <3> QED
      BY <1>2, <2>2, <3>1 DEF StageJ, Opened, t
  <2>3. CASE t.pc = "ack"
    <3>1. t.asked \in Nat /\ Len(q.peers) \in Nat
      BY <1>2, <1>3, <2>3 DEF MainJ
    <3>2. ~(j > t.asked)
      BY <1>2, <2>1, <2>3 DEF StageJ, t
    <3>3. i < t.asked
      BY <2>1, <3>1, <3>2
    <3>4. Tk(s, c.a, c.g).pc \in Rounding
      BY <1>2, <2>1, <2>3, <3>3 DEF StageJ, t
    <3> QED
      BY <3>4 DEF Opened
  <2> QED
    BY <1>5, <2>2, <2>3
<1> QED
  BY <1>6, <1>7

LEMMA ShareFrom ==
  ASSUME NEW s, Mesh(s), NEW k \in Node, NEW m \in s.mail[k], m.kind = "share"
  PROVE  /\ Tk(s, Other(k, m.c), m.c.g).pc \in Rounding /\ m.round \in 1..Rounds
         /\ Read(Tk(s, k, m.c.g), m.c) < m.round
         /\ m.round <= Tk(s, Other(k, m.c), m.c.g).round
<1>1. /\ m.c \in Chan /\ m \in Message /\ k \in {m.c.a, m.c.b}
      /\ m.round > Read(Tk(s, k, m.c.g), m.c)
      /\ m.round <= Tk(s, Other(k, m.c), m.c.g).round
  BY DEF Mesh, MailJ, Sound, Link
<1>2. m.round \in 0..Rounds /\ Rounds \in Nat
  BY <1>1, BoundAssumption DEF Message
<1>3. m.c.g \in Sign /\ Other(k, m.c) \in Node
  BY <1>1, ChanFields DEF Other
<1>4. Read(Tk(s, k, m.c.g), m.c) \in Nat
  BY <1>2, <1>3, ReadIs
<1>5. Tk(s, Other(k, m.c), m.c.g).round \in Nat
  BY <1>2, <1>3, ReadIs
<1>6. m.round >= 1 /\ Tk(s, Other(k, m.c), m.c.g).round # 0
  BY <1>1, <1>2, <1>4, <1>5
<1> QED
  BY <1>1, <1>2, <1>3, <1>6, ReadIs

LEMMA EofAll ==
  ASSUME NEW s, Mesh(s), NEW k \in Node, NEW m \in s.mail[k], m.kind = "eof",
         NEW n \in s.req[m.c.g].nodes
  PROVE  Tk(s, n, m.c.g).round = Rounds /\ Tk(s, n, m.c.g).pc \in Rounding
<1>1. Sound(s, k, m)
  BY DEF Mesh, MailJ
<1>2. m.c \in Chan /\ Called(s, m.c.g) /\ Tk(s, n, m.c.g).round = Rounds
  BY <1>1 DEF Sound, Link
<1>3. m.c.g \in Sign
  BY <1>2, ChanFields
<1>4. n \in Node
  BY <1>2, <1>3, Request
<1>5. Rounds # 0
  BY BoundAssumption
<1> QED
  BY <1>2, <1>3, <1>4, <1>5, ReadIs

(* Nothing is sent on a channel before it is opened.                       *)
LEMMA NoMail ==
  ASSUME NEW s, Mesh(s), NEW c \in Chan, ~Opened(s, c), ~Waited(s, c),
         NEW k \in Node, NEW m \in s.mail[k]
  PROVE  m.c # c
<1> SUFFICES ASSUME m.c = c PROVE FALSE
  OBVIOUS
<1>1. Sound(s, k, m) /\ LinkJ(s, c)
  BY DEF Mesh, MailJ
<1>2. Link(s, c) /\ k \in {c.a, c.b} /\ m \in Message
  BY <1>1 DEF Sound
<1>3. /\ Called(s, c.g) /\ c.a \in s.req[c.g].nodes /\ c.b \in s.req[c.g].nodes
      /\ c.g \in Sign /\ c.a \in Node /\ c.b \in Node
  BY <1>2, LinkIs, ChanFields, Request
<1>4. Tk(s, c.b, c.g).pc = "idle"
  BY <1>2, Earlier
<1>5. Tk(s, c.a, c.g).pc \notin Rounding /\ Tk(s, c.b, c.g).pc \notin Rounding
  BY <1>4 DEF Opened, Rounding, Over
<1>6. m.kind # "share"
  BY <1>2, <1>3, <1>5, ShareFrom DEF Other
<1>7. m.kind # "eof"
  BY <1>3, <1>5, EofAll
<1>8. m.kind \notin {"payload", "ack"}
  <2>1. ReachJ(s.req[c.g], c.a, Tk(s, c.a, c.g))
    BY <1>3 DEF Mesh, TasksJ
  <2>2. Before(s.req[c.g], c.a, c.b)
    BY <1>2 DEF Link
  <2> QED
    BY <1>1, <1>3, <2>1, <2>2 DEF Sound, ReachJ, Opened
<1> QED
  BY <1>1, <1>2, <1>6, <1>7, <1>8 DEF Sound, Message, Kinds

(* What is said of a channel is kept when what it depends on is.           *)
SameEnds(s, u, d) ==
  LET a == Tk(s, d.a, d.g)  a2 == Tk(u, d.a, d.g)
      b == Tk(s, d.b, d.g)  b2 == Tk(u, d.b, d.g)
  IN  /\ u.req = s.req
      /\ u.resp[d] = s.resp[d]
      /\ Opened(u, d) <=> Opened(s, d)
      /\ Waited(s, d) => Waited(u, d)
      /\ a2.pc \in {"sleep2", "done"} <=> a.pc \in {"sleep2", "done"}
      /\ b2.pc = "idle" <=> b.pc = "idle"
      /\ d.a = s.req[d.g].main => (b2.pc = "done" <=> b.pc = "done")
      /\ b2.pc \in {"connect", "share"} => b.pc \in {"connect", "share"}
      /\ d.a # s.req[d.g].main /\ s.resp[d] = "hold" =>
           s.resp[Up(s, d.b, d.g)] \in {"none", "level"}
             \/ u.resp[Up(s, d.b, d.g)] \notin {"none", "level"}

SameRounds(s, u, d) ==
  \A k \in {d.a, d.b} :
    /\ Read(Tk(u, k, d.g), d) = Read(Tk(s, k, d.g), d)
    /\ Tk(u, k, d.g).round = Tk(s, k, d.g).round

MailKept(s, u, d) ==
  \A k \in {d.a, d.b} : \A m \in s.mail[k] :
    m.c = d /\ m.kind \notin {"payload", "ack"} => m \in u.mail[k]

LEMMA LinkKept ==
  ASSUME NEW s, NEW u, NEW d \in Chan, LinkJ(s, d), SameEnds(s, u, d),
         SameRounds(s, u, d), MailKept(s, u, d)
  PROVE  LinkJ(u, d)
<1>1. u.req = s.req /\ (Link(u, d) <=> Link(s, d)) /\ Up(u, d.b, d.g) = Up(s, d.b, d.g)
  BY DEF SameEnds, Link, Called, Up
<1>2. ChannelJ(u, d)
  BY <1>1 DEF LinkJ, ChannelJ, SameEnds
<1>3. Link(s, d) => LevelJ(u, d) /\ EofJ(u, d)
  BY DEF LinkJ, LevelJ, EofJ, SameEnds, MailKept
<1>4. \A k \in {d.a, d.b} : Other(k, d) \in {d.a, d.b}
  BY DEF Other
<1>5. Link(s, d) => SharesJ(u, d)
  BY <1>4 DEF LinkJ, SharesJ, SameRounds, MailKept
<1> QED
  BY <1>1, <1>2, <1>3, <1>5 DEF LinkJ

(* What is said of a message.                                              *)
SoundKept(s, u, k, m) ==
  LET d == m.c
      main == s.req[d.g].main
  IN  /\ u.req = s.req
      /\ m.kind \in {"hello", "x"} =>
           u.resp[d] = s.resp[d] /\ (Waited(s, d) => Waited(u, d))
      /\ m.kind \in {"level0", "level1"} =>
           u.resp[d] = s.resp[d] /\ (Opened(s, d) => Opened(u, d))
      /\ m.kind \in {"payload", "ack"} /\ Tk(s, main, d.g).pc = "ack" /\ Tk(s, main, d.g).wait = d =>
           Tk(u, main, d.g).pc = "ack" /\ Tk(u, main, d.g).wait = d
      /\ m.kind = "payload" =>
           (Tk(s, d.b, d.g).pc = "idle" => Tk(u, d.b, d.g).pc = "idle")
      /\ m.kind = "ack" =>
           (Tk(s, d.b, d.g).pc \in Rounding => Tk(u, d.b, d.g).pc \in Rounding)
      /\ m.kind = "share" =>
           /\ Read(Tk(u, k, d.g), d) = Read(Tk(s, k, d.g), d)
           /\ m.round <= Tk(s, Other(k, d), d.g).round =>
                m.round <= Tk(u, Other(k, d), d.g).round
      /\ m.kind = "eof" =>
           \A p \in s.req[d.g].nodes :
             Tk(s, p, d.g).round = Rounds => Tk(u, p, d.g).round = Rounds
      /\ m.kind = "eof" /\ s.resp[d] = "closed" => u.resp[d] = "closed"
      /\ m.kind = "eof" /\ Tk(s, d.a, d.g).pc \in {"sleep2", "done"} =>
           Tk(u, d.a, d.g).pc \in {"sleep2", "done"}

LEMMA StillSound ==
  ASSUME NEW s, NEW u, NEW k, NEW m, Sound(s, k, m), SoundKept(s, u, k, m)
  PROVE  Sound(u, k, m)
<1>1. u.req = s.req
  BY DEF SoundKept
<1>2. Link(u, m.c) <=> Link(s, m.c)
  BY <1>1 DEF Link, Called
<1> QED
  BY <1>1, <1>2 DEF Sound, SoundKept

(* What the command of a task is, and what is known of a node that is      *)
(* connecting: it has begun no round.                                      *)
LEMMA AtTask ==
  ASSUME NEW s, Mesh(s), NEW n \in Node, NEW g \in Sign
  PROVE  LET t == Tk(s, n, g)
         IN  /\ TaskJ(s.req[g], n, g, t) /\ ConnectJ(s.req[g], n, g, t)
             /\ ReachJ(s.req[g], n, t) /\ ShareJ(t, s.act[n])
             /\ t \in Task
             /\ t.pc # "idle" =>
                  /\ Called(s, g) /\ n \in s.req[g].nodes
                  /\ n = s.req[g].main => MainJ(s.req[g], g, t)
                  /\ StageJ(s, g) /\ AckJ(s, g)
             /\ t.pc \notin {"idle", "done"} => ~Settled(s, g)
<1>1. LET t == Tk(s, n, g)
      IN  /\ TaskJ(s.req[g], n, g, t) /\ ConnectJ(s.req[g], n, g, t)
          /\ ReachJ(s.req[g], n, t) /\ ShareJ(t, s.act[n])
  BY DEF Mesh, TasksJ
<1>2. Called(s, g) =>
        /\ n = s.req[g].main => MainJ(s.req[g], g, Tk(s, n, g))
        /\ StageJ(s, g) /\ AckJ(s, g)
  BY DEF Mesh, TasksJ
<1> QED
  BY <1>1, <1>2, Runs DEF TaskJ

LEMMA AtDictionary ==
  ASSUME NEW s, Mesh(s), NEW n \in Node
  PROVE  Dictionary(n, s.act[n]) /\ \A e \in Chan : e \in Ran(s.act[n]) <=> Holds(s, n, e)
BY DEF Mesh, DictionariesJ

LEMMA AtMail ==
  ASSUME NEW s, Mesh(s), NEW k \in Node, NEW m \in s.mail[k]
  PROVE  Sound(s, k, m) /\ m \in Message /\ m.c \in Chan /\ Link(s, m.c) /\ k \in {m.c.a, m.c.b}
         /\ \A v \in s.mail[k] : Alone(m, v)
BY DEF Mesh, MailJ, Sound, Link

LEMMA Plain ==
  ASSUME NEW c \in Chan, NEW kind \in Kinds
  PROVE  LET m == Msg(c, kind)
         IN  m \in Message /\ m.c = c /\ m.kind = kind /\ m.round = 0 /\ m.nodes = <<>>
BY BoundAssumption DEF Msg, Message

-----------------------------------------------------------------------------
(* A move of one node: its task, its dictionary and one channel.           *)

(* n does something for the command g: its task is t afterwards, its       *)
(* dictionary act, the state of its channel c is r; of the messages it     *)
(* takes those of gone and sends those of new.                             *)
Move(s, u, n, g, t, act, c, r, gone, new) ==
  /\ u.req = s.req
  /\ \A k \in Node, h \in Sign : Tk(u, k, h) = IF k = n /\ h = g THEN t ELSE Tk(s, k, h)
  /\ \A k \in Node : u.act[k] = IF k = n THEN act ELSE s.act[k]
  /\ \A d \in Chan : u.resp[d] = IF d = c THEN r ELSE s.resp[d]
  /\ \A k \in Node : u.mail[k] = (s.mail[k] \ gone[k]) \cup new[k]

Silent == [k \in Node |-> {}]
Only(to, m) == [k \in Node |-> IF k = to THEN {m} ELSE {}]

LEMMA MoveExists ==
  ASSUME NEW s, NEW n \in Node, NEW g \in Sign, NEW t, NEW act, NEW c, NEW r, NEW gone, NEW new
  PROVE  \E u : Move(s, u, n, g, t, act, c, r, gone, new)
<1> DEFINE u == [req |-> s.req,
                 task |-> [p \in Node \X Sign |-> IF p = <<n, g>> THEN t ELSE s.task[p]],
                 act |-> [k \in Node |-> IF k = n THEN act ELSE s.act[k]],
                 resp |-> [d \in Chan |-> IF d = c THEN r ELSE s.resp[d]],
                 mail |-> [k \in Node |-> (s.mail[k] \ gone[k]) \cup new[k]]]
<1>1. \A k \in Node, h \in Sign : Tk(u, k, h) = IF k = n /\ h = g THEN t ELSE Tk(s, k, h)
  <2> TAKE k \in Node, h \in Sign
  <2>1. <<k, h>> \in Node \X Sign
    OBVIOUS
  <2>2. <<k, h>> = <<n, g>> <=> k = n /\ h = g
    OBVIOUS
  <2> QED
    BY <2>1, <2>2 DEF Tk
<1>2. Move(s, u, n, g, t, act, c, r, gone, new)
  BY <1>1 DEF Move
<1> QED
  BY <1>2

(* What a move sends is new, and after what was sent before.               *)
Fresh(s, k, v) == \A m \in s.mail[k] : May(m, v)

(* A move of a node at its own end of its channels.                        *)
Moves(s, u, n, g, t, act, c, r, gone, new) ==
  /\ Move(s, u, n, g, t, act, c, r, gone, new)
  /\ c \in Chan => c.b = n /\ c.g = g
  /\ \A k \in Node : \A m \in s.mail[k] : m \in gone[k] => Touches(m.c, n, g)

LEMMA MoveStep ==
  ASSUME NEW s, NEW u, NEW n \in Node, NEW g \in Sign, NEW t, NEW act, NEW c, NEW r,
         NEW gone, NEW new, Moves(s, u, n, g, t, act, c, r, gone, new)
  PROVE  Step(s, u, n, g, t)
BY DEF Moves, Move, Step

(* The task after a move.                                                  *)
MoveTask(s, u, n, g, t, act) ==
  /\ TaskJ(s.req[g], n, g, t) /\ ConnectJ(s.req[g], n, g, t)
  /\ ReachJ(s.req[g], n, t) /\ ShareJ(t, act)
  /\ n = s.req[g].main => MainJ(s.req[g], g, t)
  /\ StageJ(u, g) /\ AckJ(u, g)
  /\ Tk(s, n, g).round = Rounds => t.round = Rounds

MoveMail(s, u, n, g, gone, new) ==
  /\ \A k \in Node : \A m \in s.mail[k] :
       m \notin gone[k] /\ Touches(m.c, n, g) => Sound(u, k, m)
  /\ \A k \in Node : \A v \in new[k] :
       /\ Sound(u, k, v) /\ Fresh(s, k, v)
       /\ \A w \in new[k] : Alone(v, w)

MoveAct(u, n, act) ==
  Dictionary(n, act) /\ \A e \in Chan : e \in Ran(act) <=> Holds(u, n, e)

LEMMA RankIs ==
  ASSUME NEW m \in Message
  PROVE  Rank(m) \in Nat
BY BoundAssumption DEF Rank, Message

LEMMA MoveMesh ==
  ASSUME NEW s, NEW u, NEW n \in Node, NEW g \in Sign, NEW t, NEW act, NEW c, NEW r,
         NEW gone, NEW new, Mesh(s), Called(s, g), ~Settled(s, g),
         Moves(s, u, n, g, t, act, c, r, gone, new),
         MoveTask(s, u, n, g, t, act), MoveMail(s, u, n, g, gone, new),
         MoveAct(u, n, act),
         \A d \in Chan : Touches(d, n, g) => LinkJ(u, d)
  PROVE  Mesh(u)
<1>1. Step(s, u, n, g, t)
  BY MoveStep
<1>2. u.act[n] = act
  BY DEF Moves, Move
<1>3. ASSUME NEW k \in Node, NEW m \in u.mail[k]
      PROVE  /\ (m \in s.mail[k] /\ ~Touches(m.c, n, g)) \/ Sound(u, k, m)
             /\ \A v \in u.mail[k] : Alone(m, v)
  <2>1. u.mail[k] = (s.mail[k] \ gone[k]) \cup new[k]
    BY DEF Moves, Move
  <2>2. (m \in s.mail[k] /\ ~Touches(m.c, n, g)) \/ Sound(u, k, m)
    BY <1>3, <2>1 DEF MoveMail
  <2>3. ASSUME NEW x \in s.mail[k], NEW v \in new[k] PROVE Alone(x, v) /\ Alone(v, x)
    <3>1. x \in Message /\ v \in Message /\ May(x, v)
      BY AtMail DEF MoveMail, Sound, Fresh
    <3>2. x.c = v.c => Rank(x) < Rank(v)
      BY <3>1 DEF May
    <3>3. Rank(x) \in Nat /\ Rank(v) \in Nat
      BY <3>1, RankIs
    <3>4. ~(x.c = v.c /\ x.kind = v.kind /\ (x.kind = "share" => x.round = v.round))
      <4> SUFFICES ASSUME x.c = v.c, x.kind = v.kind, x.kind = "share" => x.round = v.round
                   PROVE  FALSE
        OBVIOUS
      <4>1. Rank(x) = Rank(v)
        BY DEF Rank
      <4> QED
        BY <3>2, <3>3, <4>1
    <3> QED
      BY <3>4 DEF Alone
  <2>4. \A v \in u.mail[k] : Alone(m, v)
    <3> TAKE v \in u.mail[k]
    <3>1. CASE m \in s.mail[k] /\ v \in s.mail[k]
      BY <3>1, AtMail
    <3>2. CASE m \in new[k] /\ v \in new[k]
      BY <3>2 DEF MoveMail
    <3> QED
      BY <1>3, <2>1, <2>3, <3>1, <3>2
  <2> QED
    BY <2>2, <2>4
<1>4. Local(s, u, n, g, t)
  BY <1>2, <1>3 DEF Local, MoveTask, MoveAct
<1> QED
  BY <1>1, <1>4, Frame

-----------------------------------------------------------------------------
(* Moves after which the task looks as before to the other nodes.          *)
Alike(o, t) ==
  /\ t.pc = "idle" <=> o.pc = "idle"
  /\ t.pc \in {"sleep2", "done"} <=> o.pc \in {"sleep2", "done"}
  /\ t.pc \in Rounding <=> o.pc \in Rounding
  /\ t.pc \in {"connect", "share"} => o.pc \in {"connect", "share"}
  /\ t.round = o.round

LEMMA AlikeSame ==
  ASSUME NEW o
  PROVE  Alike(o, o)
BY DEF Alike

(* The channel d is as before.                                             *)
LinkSame(s, u, d) ==
  /\ u.resp[d] = s.resp[d]
  /\ Opened(u, d) <=> Opened(s, d)
  /\ Waited(s, d) => Waited(u, d)
  /\ d.a = s.req[d.g].main => (Tk(u, d.b, d.g).pc = "done" <=> Tk(s, d.b, d.g).pc = "done")
  /\ \A k \in {d.a, d.b} : Read(Tk(u, k, d.g), d) = Read(Tk(s, k, d.g), d)

UpSame(s, u, d) ==
  d.a # s.req[d.g].main /\ s.resp[d] = "hold" =>
    s.resp[Up(s, d.b, d.g)] \in {"none", "level"}
      \/ u.resp[Up(s, d.b, d.g)] \notin {"none", "level"}

LEMMA UntouchedSame ==
  ASSUME NEW s, NEW u, NEW n \in Node, NEW g \in Sign, NEW t, Step(s, u, n, g, t),
         NEW d \in Chan, ~Touches(d, n, g)
  PROVE  LinkSame(s, u, d)
<1>1. /\ Tk(u, d.a, d.g) = Tk(s, d.a, d.g) /\ Tk(u, d.b, d.g) = Tk(s, d.b, d.g)
      /\ u.resp[d] = s.resp[d]
      /\ Opened(u, d) <=> Opened(s, d)
      /\ Waited(u, d) <=> Waited(s, d)
  BY Untouched
<1> QED
  BY <1>1 DEF LinkSame

LEMMA AlikeTask ==
  ASSUME NEW s, NEW u, NEW n \in Node, NEW g \in Sign, NEW t, Step(s, u, n, g, t),
         Alike(Tk(s, n, g), t), NEW k \in Node, NEW h \in Sign
  PROVE  Alike(Tk(s, k, h), Tk(u, k, h))
<1>1. CASE k = n /\ h = g
  BY <1>1 DEF Step
<1>2. CASE ~(k = n /\ h = g)
  BY <1>2, AlikeSame DEF Step
<1> QED
  BY <1>1, <1>2

LEMMA AlikeLink ==
  ASSUME NEW s, NEW u, NEW n \in Node, NEW g \in Sign, NEW t, Mesh(s), Step(s, u, n, g, t),
         Alike(Tk(s, n, g), t), NEW d \in Chan,
         u.resp[d] = s.resp[d], Link(s, d) => LinkSame(s, u, d),
         UpSame(s, u, d), MailKept(s, u, d)
  PROVE  LinkJ(u, d)
<1>1. LinkJ(s, d) /\ d.a \in Node /\ d.b \in Node /\ d.g \in Sign
  BY ChanFields DEF Mesh
<1>2. Alike(Tk(s, d.a, d.g), Tk(u, d.a, d.g)) /\ Alike(Tk(s, d.b, d.g), Tk(u, d.b, d.g))
  BY <1>1, AlikeTask
<1>3. u.req = s.req
  BY DEF Step
<1>4. CASE Link(s, d)
  <2>1. SameEnds(s, u, d)
    BY <1>2, <1>3, <1>4 DEF SameEnds, Alike, LinkSame, UpSame
  <2>2. SameRounds(s, u, d)
    BY <1>2, <1>4 DEF SameRounds, Alike, LinkSame
  <2> QED
    BY <1>1, <2>1, <2>2, LinkKept
<1>5. CASE ~Link(s, d)
  <2>1. ~Link(u, d)
    BY <1>3, <1>5 DEF Link, Called
  <2> QED
    BY <1>1, <1>5, <2>1 DEF LinkJ, ChannelJ
<1> QED
  BY <1>4, <1>5

(* The main node of the channel d waits for the acknowledgement as before. *)
AckSame(s, u, d) ==
  LET o == Tk(s, s.req[d.g].main, d.g)
      t == Tk(u, s.req[d.g].main, d.g)
  IN  o.pc = "ack" /\ o.wait = d => t.pc = "ack" /\ t.wait = d

LEMMA AlikeSound ==
  ASSUME NEW s, NEW u, NEW n \in Node, NEW g \in Sign, NEW t, Mesh(s), Step(s, u, n, g, t),
         Alike(Tk(s, n, g), t), NEW k \in Node, NEW m \in s.mail[k],
         LinkSame(s, u, m.c), m.kind \in {"payload", "ack"} => AckSame(s, u, m.c)
  PROVE  Sound(u, k, m)
<1> DEFINE d == m.c
<1>1. Sound(s, k, m) /\ d \in Chan /\ k \in {d.a, d.b} /\ Called(s, d.g)
  BY AtMail DEF Link
<1>2. d.a \in Node /\ d.b \in Node /\ d.g \in Sign /\ Other(k, d) \in Node
  BY <1>1, ChanFields DEF Other
<1>3. s.req[d.g].nodes \subseteq Node
  BY <1>1, <1>2, Request
<1>4. u.req = s.req
  BY DEF Step
<1>5. \A p \in Node : Alike(Tk(s, p, d.g), Tk(u, p, d.g))
  BY <1>2, AlikeTask
<1>6. Tk(u, Other(k, d), d.g).round = Tk(s, Other(k, d), d.g).round
  BY <1>2, <1>5 DEF Alike
<1>7. /\ Read(Tk(u, k, d.g), d) = Read(Tk(s, k, d.g), d)
      /\ (Tk(u, d.b, d.g).pc = "idle" <=> Tk(s, d.b, d.g).pc = "idle")
      /\ (Tk(u, d.b, d.g).pc \in Rounding <=> Tk(s, d.b, d.g).pc \in Rounding)
      /\ (Tk(u, d.a, d.g).pc \in {"sleep2", "done"} <=> Tk(s, d.a, d.g).pc \in {"sleep2", "done"})
      /\ \A p \in s.req[d.g].nodes : Tk(u, p, d.g).round = Tk(s, p, d.g).round
  BY <1>1, <1>2, <1>3, <1>5 DEF Alike, LinkSame
<1>8. SoundKept(s, u, k, m)
  BY <1>4, <1>6, <1>7 DEF SoundKept, LinkSame, AckSame
<1> QED
  BY <1>1, <1>8, StillSound

(* The stages, and the acknowledgement, when the main node waits as before.*)
MainSame(s, u, g) ==
  LET o == Tk(s, s.req[g].main, g)
      t == Tk(u, s.req[g].main, g)
  IN  /\ t.pc = "connect" <=> o.pc = "connect"
      /\ t.pc = "ack" <=> o.pc = "ack"
      /\ o.pc = "ack" => t.wait = o.wait /\ t.asked = o.asked

LEMMA AlikeStage ==
  ASSUME NEW s, NEW u, NEW n \in Node, NEW g \in Sign, NEW t, Mesh(s), Called(s, g),
         Step(s, u, n, g, t), Alike(Tk(s, n, g), t), MainSame(s, u, g)
  PROVE  StageJ(u, g)
<1>1. u.req = s.req
  BY DEF Step
<1>2. StageJ(s, g)
  BY DEF Mesh, TasksJ
<1>3. /\ s.req[g].main \in Node /\ Ran(s.req[g].peers) \subseteq Node
      /\ \A i \in 1..Len(s.req[g].peers) : s.req[g].peers[i] \in Node
  BY Request
<1>4. \A p \in Node :
        /\ Tk(u, p, g).pc = "idle" <=> Tk(s, p, g).pc = "idle"
        /\ Tk(u, p, g).pc \in Rounding <=> Tk(s, p, g).pc \in Rounding
  BY AlikeTask DEF Alike
<1> QED
  BY <1>1, <1>2, <1>3, <1>4 DEF StageJ, MainSame

LEMMA AlikeAck ==
  ASSUME NEW s, NEW u, NEW n \in Node, NEW g \in Sign, NEW t, Mesh(s), Called(s, g),
         Step(s, u, n, g, t), Alike(Tk(s, n, g), t), MainSame(s, u, g),
         \A k \in Node : \A m \in s.mail[k] : m.kind = "ack" => m \in u.mail[k]
  PROVE  AckJ(u, g)
<1> DEFINE o == Tk(s, s.req[g].main, g)
<1>1. u.req = s.req
  BY DEF Step
<1>2. AckJ(s, g) /\ MainJ(s.req[g], g, o)
  BY DEF Mesh, TasksJ
<1>3. /\ s.req[g].main \in Node
      /\ \A i \in 1..Len(s.req[g].peers) : s.req[g].peers[i] \in Node
  BY Request
<1>4. \A p \in Node : Tk(u, p, g).pc \in Rounding <=> Tk(s, p, g).pc \in Rounding
  BY AlikeTask DEF Alike
<1>5. o.pc = "ack" /\ o.wait # NoChan => o.wait.b \in Node
  BY <1>2, <1>3 DEF MainJ
<1> HIDE DEF o
<1> SUFFICES ASSUME o.pc = "ack", o.wait # NoChan, Tk(u, o.wait.b, g).pc \in Rounding
             PROVE  \E m \in u.mail[s.req[g].main] : m.c = o.wait /\ m.kind = "ack"
  BY <1>1 DEF AckJ, MainSame, o
<1>6. PICK m \in s.mail[s.req[g].main] : m.c = o.wait /\ m.kind = "ack"
  BY <1>2, <1>4, <1>5 DEF AckJ, o
<1> QED
  BY <1>3, <1>6

LEMMA UpAll ==
  ASSUME NEW s, NEW u, Mesh(s), NEW d \in Chan,
         \A e \in Chan : u.resp[e] = s.resp[e] \/ s.resp[e] \in {"none", "level"}
                           \/ u.resp[e] \notin {"none", "level"}
  PROVE  UpSame(s, u, d)
<1> SUFFICES ASSUME d.a # s.req[d.g].main, s.resp[d] = "hold"
             PROVE  s.resp[Up(s, d.b, d.g)] \in {"none", "level"}
                      \/ u.resp[Up(s, d.b, d.g)] \notin {"none", "level"}
  BY DEF UpSame
<1>1. Link(s, d)
  BY DEF Mesh, LinkJ, ChannelJ
<1>2. Up(s, d.b, d.g) \in Chan
  BY <1>1, UpChannel
<1>3. PICK e \in Chan : e = Up(s, d.b, d.g)
  BY <1>2
<1> QED
  BY <1>3

-----------------------------------------------------------------------------
(* A move that looks as before to the others, on no channel but x.         *)
Hushed(s, u, n, g, t, act, c, r, gone, new, x) ==
  /\ Called(s, g) /\ ~Settled(s, g)
  /\ Moves(s, u, n, g, t, act, c, r, gone, new)
  /\ Alike(Tk(s, n, g), t)
  /\ c \in Chan => c = x
  /\ \A d \in Chan : d # x /\ Link(s, d) /\ Touches(d, n, g) => LinkSame(s, u, d)
  /\ \A d \in Chan : d # x /\ Link(s, d) => AckSame(s, u, d)
  /\ \A e \in Chan : u.resp[e] = s.resp[e] \/ s.resp[e] \in {"none", "level"}
                       \/ u.resp[e] \notin {"none", "level"}
  /\ \A k \in Node : \A m \in s.mail[k] : m \in gone[k] => m.c = x
  /\ \A k \in Node : \A m \in s.mail[k] : m \notin gone[k] /\ m.c = x => Sound(u, k, m)
  /\ x \in Chan => LinkJ(u, x)
  /\ MoveTask(s, u, n, g, t, act) /\ MoveAct(u, n, act)
  /\ \A k \in Node : \A v \in new[k] :
       /\ Sound(u, k, v) /\ Fresh(s, k, v)
       /\ \A w \in new[k] : Alone(v, w)

LEMMA HushedMesh ==
  ASSUME NEW s, NEW u, NEW n \in Node, NEW g \in Sign, NEW t, NEW act, NEW c, NEW r,
         NEW gone, NEW new, NEW x, Mesh(s), Hushed(s, u, n, g, t, act, c, r, gone, new, x)
  PROVE  Mesh(u)
<1>0. /\ Called(s, g) /\ ~Settled(s, g)
      /\ Moves(s, u, n, g, t, act, c, r, gone, new)
      /\ Alike(Tk(s, n, g), t)
      /\ c \in Chan => c = x
      /\ \A d \in Chan : d # x /\ Link(s, d) /\ Touches(d, n, g) => LinkSame(s, u, d)
      /\ \A d \in Chan : d # x /\ Link(s, d) => AckSame(s, u, d)
      /\ \A e \in Chan : u.resp[e] = s.resp[e] \/ s.resp[e] \in {"none", "level"}
                           \/ u.resp[e] \notin {"none", "level"}
      /\ \A k \in Node : \A m \in s.mail[k] : m \in gone[k] => m.c = x
      /\ \A k \in Node : \A m \in s.mail[k] : m \notin gone[k] /\ m.c = x => Sound(u, k, m)
      /\ x \in Chan => LinkJ(u, x)
      /\ MoveTask(s, u, n, g, t, act) /\ MoveAct(u, n, act)
      /\ \A k \in Node : \A v \in new[k] :
           /\ Sound(u, k, v) /\ Fresh(s, k, v)
           /\ \A w \in new[k] : Alone(v, w)
  BY DEF Hushed
<1>1. Step(s, u, n, g, t)
  BY <1>0, MoveStep
<1>2. \A d \in Chan : d # x /\ Link(s, d) => LinkSame(s, u, d)
  BY <1>0, <1>1, UntouchedSame
<1>3. /\ \A d \in Chan : d # x => u.resp[d] = s.resp[d]
      /\ \A k \in Node : \A m \in s.mail[k] : m \in gone[k] \/ m \in u.mail[k]
  BY <1>0 DEF Moves, Move
<1>4. \A d \in Chan : LinkJ(u, d)
  <2> SUFFICES ASSUME NEW d \in Chan, d # x PROVE LinkJ(u, d)
    BY <1>0
  <2>1. UpSame(s, u, d)
    BY <1>0, UpAll
  <2>2. MailKept(s, u, d)
    BY <1>0, <1>3, ChanFields DEF MailKept
  <2> QED
    BY <1>0, <1>1, <1>2, <1>3, <2>1, <2>2, AlikeLink
<1>5. MoveMail(s, u, n, g, gone, new)
  <2>1. ASSUME NEW k \in Node, NEW m \in s.mail[k], m \notin gone[k] PROVE Sound(u, k, m)
    <3>1. m.c \in Chan /\ Link(s, m.c)
      BY AtMail
    <3> QED
      BY <1>0, <1>1, <1>2, <2>1, <3>1, AlikeSound
  <2> QED
    BY <1>0, <2>1 DEF MoveMail
<1> QED
  BY <1>0, <1>4, <1>5, MoveMesh

(* A move that does not concern the main node's wait.                      *)
Steady(o, t) ==
  /\ Alike(o, t)
  /\ t.pc = "connect" <=> o.pc = "connect"
  /\ t.pc = "ack" <=> o.pc = "ack"
  /\ o.pc = "ack" => t.wait = o.wait /\ t.asked = o.asked

NoAck(gone) == \A k \in Node : \A m \in gone[k] : m.kind # "ack"

LEMMA HushedMain ==
  ASSUME NEW s, NEW u, NEW n \in Node, NEW g \in Sign, NEW t, NEW act, NEW c, NEW r,
         NEW gone, NEW new, Mesh(s), Called(s, g),
         Moves(s, u, n, g, t, act, c, r, gone, new), Steady(Tk(s, n, g), t), NoAck(gone)
  PROVE  /\ StageJ(u, g) /\ AckJ(u, g)
         /\ \A d \in Chan : Link(s, d) => AckSame(s, u, d)
<1>1. Step(s, u, n, g, t)
  BY MoveStep
<1>2. /\ u.req = s.req /\ \A k \in Node, h \in Sign : Tk(u, k, h) = IF k = n /\ h = g THEN t ELSE Tk(s, k, h)
      /\ \A k \in Node : \A m \in s.mail[k] : m \in gone[k] \/ m \in u.mail[k]
  BY DEF Moves, Move
<1>3. \A d \in Chan : Link(s, d) => AckSame(s, u, d)
  <2> SUFFICES ASSUME NEW d \in Chan, Link(s, d) PROVE AckSame(s, u, d)
    OBVIOUS
  <2>1. s.req[d.g].main \in Node /\ d.g \in Sign
    BY LinkIs, Request, ChanFields
  <2> QED
    BY <1>2, <2>1 DEF AckSame, Steady
<1>4. MainSame(s, u, g)
  BY <1>2, Request DEF MainSame, Steady
<1>5. \A k \in Node : \A m \in s.mail[k] : m.kind = "ack" => m \in u.mail[k]
  BY <1>2 DEF NoAck
<1> QED
  BY <1>1, <1>3, <1>4, <1>5, AlikeStage, AlikeAck DEF Steady

-----------------------------------------------------------------------------
(* A node greets the next one of its list.                                 *)

LEMMA ShiftSum ==
  \A l, a, b, p \in Nat : a = b + 1 /\ l + a = p =>
    /\ (l + 1) + b = p /\ 1 \in 1..a
    /\ \A i \in 1..b : i + 1 \in 1..a /\ l + (i + 1) = (l + 1) + i
OBVIOUS

(* A payload is under way only while no node is connecting.                *)
LEMMA NoPayload ==
  ASSUME NEW s, Mesh(s), NEW n \in Node, NEW g \in Sign, Tk(s, n, g).pc = "connect",
         NEW k \in Node, NEW m \in s.mail[k]
  PROVE  m.kind # "payload"
<1> SUFFICES ASSUME m.kind = "payload" PROVE FALSE
  OBVIOUS
<1> DEFINE c == m.c
           q == s.req[g]
           t == Tk(s, q.main, g)
<1>1. /\ Sound(s, k, m) /\ c \in Chan /\ Called(s, c.g) /\ c.g \in Sign
      /\ c.a = s.req[c.g].main
      /\ Tk(s, s.req[c.g].main, c.g).pc = "ack" /\ Tk(s, s.req[c.g].main, c.g).wait = c
      /\ Tk(s, c.b, c.g).pc = "idle"
  BY AtMail, ChanFields DEF Link, Sound
<1>2. s.req[c.g].main \in Node /\ ~Settled(s, c.g)
  BY <1>1, Request, AtTask
<1>3. Called(s, g) /\ ~Settled(s, g) /\ n \in q.nodes /\ StageJ(s, g)
  BY AtTask
<1>4. c.g = g
  BY <1>1, <1>2, <1>3, OneActive
<1>5. t.pc = "ack" /\ t.wait = c /\ c.b \in Node /\ q.main \in Node
  BY <1>1, <1>2, <1>4, ChanFields
<1>6. MainJ(q, g, t) /\ q.nodes = {q.main} \cup Ran(q.peers) /\ q.peers \in Seq(Node)
  BY <1>3, <1>5, AtTask, Request
<1> HIDE DEF q, t
<1>7. n # q.main
  BY <1>5 DEF t
<1>8. PICK i \in 1..Len(q.peers) : q.peers[i] = n
  BY <1>3, <1>6, <1>7 DEF Ran
<1>9. t.asked \in 1..Len(q.peers) /\ Len(q.peers) \in Nat
      /\ (t.wait = NoChan \/ t.wait = [a |-> q.main, b |-> q.peers[t.asked], g |-> g])
  BY <1>5, <1>6 DEF MainJ
<1>10. c.b = q.peers[t.asked]
  BY <1>1, <1>5, <1>9, NotAChannel
<1>11. /\ i < t.asked => Tk(s, n, g).pc \in Rounding
       /\ i > t.asked => Tk(s, n, g).pc = "idle"
  BY <1>3, <1>5, <1>8 DEF StageJ, q, t
<1>12. i = t.asked
  BY <1>8, <1>9, <1>11 DEF Rounding, Over
<1> QED
  BY <1>1, <1>4, <1>8, <1>10, <1>12

LEMMA AlikeHolds ==
  ASSUME NEW s, NEW u, NEW n \in Node, NEW g \in Sign, NEW t, Mesh(s), Step(s, u, n, g, t),
         t.opened = Tk(s, n, g).opened, t.pc = "sleep2" <=> Tk(s, n, g).pc = "sleep2",
         \A d \in Chan : u.resp[d] = s.resp[d], NEW e \in Chan
  PROVE  Holds(u, n, e) <=> Holds(s, n, e)
<1>1. e.g \in Sign
  BY ChanFields
<1>2. e.g = g \/ Tk(u, n, e.g) = Tk(s, n, e.g)
  BY <1>1 DEF Step
<1>3. Tk(u, n, g) = t
  BY DEF Step
<1> QED
  BY <1>2, <1>3 DEF Holds

LikeEnds(s, u, n, g, t, d) ==
  /\ u.resp[d] = s.resp[d]
  /\ d.a = n /\ d.g = g => (Opened(u, d) <=> Opened(s, d)) /\ (Waited(s, d) => Waited(u, d))
  /\ d.a = s.req[d.g].main /\ d.b = n /\ d.g = g => (t.pc = "done" <=> Tk(s, n, g).pc = "done")
  /\ Touches(d, n, g) => Read(t, d) = Read(Tk(s, n, g), d)

LEMMA LinkLike ==
  ASSUME NEW s, NEW u, NEW n \in Node, NEW g \in Sign, NEW t, Step(s, u, n, g, t),
         NEW d \in Chan, LikeEnds(s, u, n, g, t, d)
  PROVE  LinkSame(s, u, d)
<1>1. d.a \in Node /\ d.b \in Node /\ d.g \in Sign
  BY ChanFields
<1>2. Tk(u, n, g) = t
  BY DEF Step
<1>3. (d.a = n /\ d.g = g) \/ Tk(u, d.a, d.g) = Tk(s, d.a, d.g)
  BY <1>1 DEF Step
<1>4. (d.b = n /\ d.g = g) \/ Tk(u, d.b, d.g) = Tk(s, d.b, d.g)
  BY <1>1 DEF Step
<1>5. (Opened(u, d) <=> Opened(s, d)) /\ (Waited(s, d) => Waited(u, d))
  BY <1>3 DEF Opened, Waited, LikeEnds
<1>6. d.a = s.req[d.g].main => (Tk(u, d.b, d.g).pc = "done" <=> Tk(s, d.b, d.g).pc = "done")
  BY <1>2, <1>4 DEF LikeEnds
<1>7. \A k \in {d.a, d.b} : Read(Tk(u, k, d.g), d) = Read(Tk(s, k, d.g), d)
  BY <1>2, <1>3, <1>4 DEF LikeEnds, Touches
<1> QED
  BY <1>5, <1>6, <1>7 DEF LinkSame, LikeEnds

-----------------------------------------------------------------------------
(* n begins to connect to the next node of its list.                       *)
Hello(s, u, n, g, t, c) ==
  LET o == Tk(s, n, g)
  IN  /\ o.pc = "connect" /\ o.wait = NoChan /\ o.list # <<>>
      /\ c = [a |-> n, b |-> Head(o.list), g |-> g]
      /\ t = [o EXCEPT !.wait = c, !.list = Tail(o.list)]
      /\ Move(s, u, n, g, t, s.act[n], NoChan, "none", Silent, Only(c.b, Msg(c, "hello")))

LEMMA HelloFacts ==
  ASSUME NEW s, Mesh(s), NEW u, NEW n \in Node, NEW g \in Sign, NEW t, NEW c,
         Hello(s, u, n, g, t, c)
  PROVE  LET o == Tk(s, n, g)
             q == s.req[g]
         IN  /\ c \in Chan /\ c.a = n /\ c.g = g /\ c.b \in Node /\ c.b # n
             /\ Link(s, c) /\ c # NoChan
             /\ c.b \notin Reached(o) /\ c.b \notin Ran(t.list)
             /\ Ran(o.list) = Ran(t.list) \cup {c.b} /\ t.list \in Seq(Node)
             /\ Injective(t.list) /\ Len(o.list) = Len(t.list) + 1
             /\ \A i \in 1..Len(t.list) : t.list[i] = o.list[i + 1]
             /\ c.b = o.list[1] /\ Len(o.list) \in Nat /\ Len(t.list) \in Nat
             /\ t \in Task /\ t.pc = "connect" /\ t.wait = c /\ t.opened = o.opened
             /\ t.from = o.from /\ t.round = o.round /\ t.asked = o.asked
             /\ Called(s, g) /\ ~Settled(s, g)
<1> DEFINE o == Tk(s, n, g)
           q == s.req[g]
<1>1. /\ o.pc = "connect" /\ o.wait = NoChan /\ o.list # <<>>
      /\ c = [a |-> n, b |-> Head(o.list), g |-> g]
      /\ t = [o EXCEPT !.wait = c, !.list = Tail(o.list)]
  BY DEF Hello
<1>2. /\ ConnectJ(q, n, g, o) /\ o \in Task /\ Called(s, g) /\ ~Settled(s, g)
  BY <1>1, AtTask
<1>3. /\ CommandJ(q) /\ q.main # None /\ q.peers \in Seq(Node)
  BY <1>2, Request
<1> HIDE DEF o, q
<1>4. o.list \in Seq(Node) /\ Injective(o.list)
  BY <1>1, <1>2 DEF Task, ConnectJ
<1>5. /\ Head(o.list) \in Ran(o.list) /\ Head(o.list) \in Node
      /\ Tail(o.list) \in Seq(Node)
      /\ Ran(o.list) = Ran(Tail(o.list)) \cup {Head(o.list)}
      /\ Injective(Tail(o.list)) /\ Head(o.list) \notin Ran(Tail(o.list))
  BY <1>1, <1>4, HeadTail
<1>6. /\ Len(o.list) = Len(Tail(o.list)) + 1
      /\ \A i \in 1..Len(Tail(o.list)) : Tail(o.list)[i] = o.list[i + 1]
      /\ Head(o.list) = o.list[1] /\ Len(o.list) \in Nat /\ Len(Tail(o.list)) \in Nat
  BY <1>1, <1>4
<1>7. Before(q, n, Head(o.list)) /\ Head(o.list) \notin Reached(o)
  BY <1>1, <1>2, <1>5 DEF ConnectJ
<1>8. n # Head(o.list)
  BY <1>3, <1>7, BeforeIs
<1>9. c \in Chan /\ c.a = n /\ c.g = g /\ c.b = Head(o.list)
  BY <1>1, <1>5, <1>8 DEF Chan
<1>10. Link(s, c)
  BY <1>2, <1>7, <1>9 DEF Link, q
<1>11. /\ t \in Task /\ t.pc = "connect" /\ t.wait = c /\ t.opened = o.opened
       /\ t.from = o.from /\ t.round = o.round /\ t.asked = o.asked /\ t.list = Tail(o.list)
  BY <1>1, <1>2, <1>5, <1>9 DEF Task
<1>12. c # NoChan
  BY <1>9, NotAChannel
<1> QED
  BY <1>2, <1>5, <1>6, <1>7, <1>8, <1>9, <1>10, <1>11, <1>12 DEF o, q

LEMMA HelloMoves ==
  ASSUME NEW s, Mesh(s), NEW u, NEW n \in Node, NEW g \in Sign, NEW t, NEW c,
         Hello(s, u, n, g, t, c)
  PROVE  Mesh(u) /\ Fresh(s, c.b, Msg(c, "hello"))
<1> DEFINE o == Tk(s, n, g)
           q == s.req[g]
           v == Msg(c, "hello")
<1>1. /\ o.pc = "connect" /\ o.wait = NoChan /\ o.list # <<>>
      /\ Move(s, u, n, g, t, s.act[n], NoChan, "none", Silent, Only(c.b, v))
  BY DEF Hello
<1>2. /\ c \in Chan /\ c.a = n /\ c.g = g /\ c.b \in Node /\ c.b # n
      /\ Link(s, c) /\ c # NoChan
      /\ c.b \notin Reached(o) /\ c.b \notin Ran(t.list)
      /\ Ran(o.list) = Ran(t.list) \cup {c.b} /\ t.list \in Seq(Node)
      /\ Injective(t.list) /\ Len(o.list) = Len(t.list) + 1
      /\ \A i \in 1..Len(t.list) : t.list[i] = o.list[i + 1]
      /\ c.b = o.list[1] /\ Len(o.list) \in Nat /\ Len(t.list) \in Nat
      /\ t \in Task /\ t.pc = "connect" /\ t.wait = c /\ t.opened = o.opened
      /\ t.from = o.from /\ t.round = o.round /\ t.asked = o.asked
      /\ Called(s, g) /\ ~Settled(s, g)
  BY HelloFacts
<1>3. /\ TaskJ(q, n, g, o) /\ ConnectJ(q, n, g, o) /\ (n = q.main => MainJ(q, g, o))
  BY <1>1, AtTask
<1>m. Moves(s, u, n, g, t, s.act[n], NoChan, "none", Silent, Only(c.b, v))
  BY <1>1, NotAChannel DEF Moves, Silent
<1>4. Step(s, u, n, g, t)
  BY <1>m, MoveStep
<1>v. v \in Message /\ v.c = c /\ v.kind = "hello"
  BY <1>2, Plain DEF Kinds
<1>u. /\ u.req = s.req /\ Tk(u, n, g) = t /\ u.act[n] = s.act[n]
      /\ \A d \in Chan : u.resp[d] = s.resp[d]
      /\ \A k \in Node : u.mail[k] = s.mail[k] \cup (IF k = c.b THEN {v} ELSE {})
  BY <1>1, NotAChannel DEF Move, Silent, Only
<1> HIDE DEF v, o, q
<1>5. Alike(o, t) /\ \A d : Read(t, d) = Read(o, d)
  BY <1>1, <1>2 DEF Alike, Read, Rounding, Over
<1>6. ~Opened(s, c) /\ ~Waited(s, c) /\ Waited(u, c)
  BY <1>1, <1>2, <1>u DEF Opened, Waited, Rounding, Over, o
<1>7. s.resp[c] = "none"
  BY <1>2, <1>6 DEF Mesh, LinkJ, ChannelJ
<1>8. Fresh(s, c.b, v)
  <2> SUFFICES ASSUME NEW m \in s.mail[c.b] PROVE May(m, v)
    BY DEF Fresh
  <2>1. m.c # c
    BY <1>2, <1>6, NoMail
  <2>2. m.kind # "payload"
    BY <1>1, <1>2, NoPayload DEF o
  <2> QED
    BY <1>v, <2>1, <2>2 DEF May
<1>9. \A d \in Chan : LinkSame(s, u, d)
  <2> TAKE d \in Chan
  <2>1. d.a = n /\ d.g = g => (Opened(u, d) <=> Opened(s, d)) /\ (Waited(s, d) => Waited(u, d))
    BY <1>1, <1>2, <1>u, NotAChannel DEF Opened, Waited, Reached, o
  <2>2. t.pc = "done" <=> o.pc = "done"
    BY <1>1, <1>2
  <2> QED
    <3>1. LikeEnds(s, u, n, g, t, d)
      BY <1>5, <1>u, <2>1, <2>2 DEF LikeEnds, o
    <3> QED
      BY <1>4, <3>1, LinkLike
<1>14. /\ StageJ(u, g) /\ AckJ(u, g)
       /\ \A d \in Chan : Link(s, d) => AckSame(s, u, d)
  <2>1. NoAck(Silent)
    BY DEF Silent, NoAck
  <2>2. Steady(Tk(s, n, g), t)
    BY <1>1, <1>2, <1>5 DEF o, Steady
  <2> QED
    BY <1>2, <1>m, <2>1, <2>2, HushedMain
<1>15. MoveTask(s, u, n, g, t, s.act[n])
  <2>1. TaskJ(q, n, g, t)
    BY <1>1, <1>2, <1>3 DEF TaskJ, Over
  <2>2. ConnectJ(q, n, g, t)
    BY <1>1, <1>2, <1>3, <1>6 DEF ConnectJ, Reached, Opened, Waited
  <2>3. ReachJ(q, n, t) /\ ShareJ(t, s.act[n])
    BY <1>2 DEF ReachJ, ShareJ
  <2>4. n = q.main => MainJ(q, g, t)
    <3> SUFFICES ASSUME n = q.main PROVE MainJ(q, g, t)
      OBVIOUS
    <3>1. o.opened \in Seq(Chan) /\ q.peers \in Seq(Node)
      BY <1>2, AtTask, Request DEF Task, o, q
    <3>2. Len(o.opened) \in Nat /\ Len(q.peers) \in Nat
      BY <3>1
    <3>3. /\ Len(o.opened) + Len(o.list) = Len(q.peers)
          /\ \A i \in 1..Len(o.list) : o.list[i] = q.peers[Len(o.opened) + i]
      <4>1. Len(o.opened) + 0 = Len(o.opened)
        BY ONLY <3>2
      <4> QED
        BY <1>1, <1>3, <4>1 DEF MainJ
    <3>a. Len(o.list) = Len(t.list) + 1 /\ Len(o.list) \in Nat /\ Len(t.list) \in Nat
      BY <1>2
    <3>b. PICK l \in Nat, x \in Nat, y \in Nat, z \in Nat :
            l = Len(o.opened) /\ x = Len(o.list) /\ y = Len(t.list) /\ z = Len(q.peers)
      BY <3>a, <3>2
    <3>c. x = y + 1 /\ l + x = z
      BY <3>a, <3>b, <3>3
    <3>4. /\ (l + 1) + y = z /\ 1 \in 1..x
          /\ \A i \in 1..y : i + 1 \in 1..x /\ l + (i + 1) = (l + 1) + i
      BY <3>c, ShiftSum
    <3>5. c.b = q.peers[l + 1]
      BY <1>2, <3>3, <3>4, <3>b
    <3>6. \A i \in 1..y : t.list[i] = q.peers[(l + 1) + i]
      <4> TAKE i \in 1..y
      <4>1. i + 1 \in 1..x /\ l + (i + 1) = (l + 1) + i
        BY <3>4
      <4> QED
        BY <1>2, <3>3, <3>b, <4>1
    <3> QED
      BY <1>1, <1>2, <1>3, <3>4, <3>5, <3>6, <3>b DEF MainJ, Rounding
  <2> QED
    BY <1>2, <1>14, <2>1, <2>2, <2>3, <2>4 DEF MoveTask, o, q
<1>16. Sound(u, c.b, v) /\ Alone(v, v)
  <2>1. Link(u, c)
    BY <1>2, <1>u DEF Link, Called
  <2> QED
    BY <1>2, <1>6, <1>7, <1>u, <1>v, <2>1 DEF Sound, Alone
<1>17. MoveAct(u, n, s.act[n])
  <2>1. \A e \in Chan : Holds(u, n, e) <=> Holds(s, n, e)
    BY <1>1, <1>2, <1>4, <1>u, AlikeHolds DEF o
  <2> QED
    BY <2>1, AtDictionary DEF MoveAct
<1>18. Mesh(u)
  <2>1. \A k \in Node : Silent[k] = {}
    BY DEF Silent
  <2>2. \A k \in Node : \A w \in Only(c.b, v)[k] :
         /\ Sound(u, k, w) /\ Fresh(s, k, w)
         /\ \A x \in Only(c.b, v)[k] : Alone(w, x)
    BY <1>8, <1>16 DEF Only
  <2>3. \A k \in Node : \A m \in s.mail[k] : m.c # NoChan
    BY AtMail, NotAChannel
  <2>4. Hushed(s, u, n, g, t, s.act[n], NoChan, "none", Silent, Only(c.b, v), NoChan)
    BY <1>2, <1>m, <1>5, <1>9, <1>14, <1>15, <1>17, <1>u, <2>1, <2>2, <2>3, NotAChannel DEF Hushed, o
  <2> QED
    BY <2>4, HushedMesh
<1> QED
  BY <1>8, <1>18 DEF v

-----------------------------------------------------------------------------
(* A node answers on a channel.                                            *)

(* A channel is not opened while its node still waits for it.              *)
LEMMA NotBoth ==
  ASSUME NEW s, Mesh(s), NEW c \in Chan
  PROVE  ~(Opened(s, c) /\ Waited(s, c))
<1> SUFFICES ASSUME Opened(s, c), Waited(s, c) PROVE FALSE
  OBVIOUS
<1>1. c.a \in Node /\ c.g \in Sign
  BY ChanFields
<1>2. ConnectJ(s.req[c.g], c.a, c.g, Tk(s, c.a, c.g))
  BY <1>1, AtTask
<1>3. c # NoChan
  BY NotAChannel
<1> QED
  BY <1>2, <1>3 DEF ConnectJ, Opened, Waited, Rounding, Over

LEMMA AtLink ==
  ASSUME NEW s, Mesh(s), NEW c \in Chan
  PROVE  /\ LinkJ(s, c) /\ ChannelJ(s, c)
         /\ c.a \in Node /\ c.b \in Node /\ c.g \in Sign /\ c.a # c.b
         /\ Link(s, c) => LevelJ(s, c) /\ SharesJ(s, c) /\ EofJ(s, c)
BY ChanFields DEF Mesh, LinkJ

(* Nothing but the greeting is sent on a channel that was not accepted.    *)
LEMMA OnlyHello ==
  ASSUME NEW s, Mesh(s), NEW k \in Node, NEW m \in s.mail[k], s.resp[m.c] = "none"
  PROVE  m.kind = "hello" /\ k = m.c.b /\ Waited(s, m.c) /\ ~Opened(s, m.c)
<1> DEFINE c == m.c
<1>1. Sound(s, k, m) /\ c \in Chan /\ Link(s, c) /\ m \in Message
  BY AtMail
<1>2. ~Opened(s, c)
  BY <1>1, AtLink DEF ChannelJ
<1>3. Waited(s, c)
  BY <1>1, <1>2, NoMail
<1>4. /\ Called(s, c.g) /\ c.a \in s.req[c.g].nodes /\ c.b \in s.req[c.g].nodes
      /\ c.g \in Sign /\ c.a \in Node /\ c.b \in Node
  BY <1>1, LinkIs, ChanFields, Request
<1>5. Tk(s, c.b, c.g).pc = "idle"
  BY <1>1, <1>2, Earlier
<1>6. Tk(s, c.a, c.g).pc = "connect"
  BY <1>3 DEF Waited
<1>7. m.kind # "share"
  BY <1>1, <1>4, <1>5, <1>6, ShareFrom DEF Other, Rounding, Over
<1>8. m.kind # "eof"
  BY <1>4, <1>5, EofAll DEF Rounding, Over
<1>9. m.kind \notin {"payload", "ack"}
  BY <1>1, <1>6 DEF Sound
<1> QED
  BY <1>1, <1>2, <1>3, <1>7, <1>8, <1>9 DEF Sound, Message, Kinds

(* What a dictionary holds belongs to the command that is not finished.    *)
LEMMA HeldActive ==
  ASSUME NEW s, Mesh(s), NEW n \in Node, NEW e \in Chan, Holds(s, n, e)
  PROVE  /\ Link(s, e) /\ Opened(s, e) /\ ~Settled(s, e.g) /\ Called(s, e.g) /\ n \in {e.a, e.b}
<1>1. /\ e.a \in Node /\ e.b \in Node /\ e.g \in Sign /\ ChannelJ(s, e)
  BY AtLink
<1>2. CASE e.b = n /\ s.resp[e] \in {"payload", "sign", "hold"}
  BY <1>1, <1>2 DEF ChannelJ, Settled, Link
<1>3. CASE e.a = n /\ e \in Ran(Tk(s, n, e.g).opened) /\ Tk(s, n, e.g).pc # "sleep2"
  <2> DEFINE t == Tk(s, n, e.g)
  <2>1. /\ TaskJ(s.req[e.g], n, e.g, t) /\ ConnectJ(s.req[e.g], n, e.g, t)
        /\ ReachJ(s.req[e.g], n, t) /\ t \in Task
        /\ t.pc # "idle" => Called(s, e.g)
        /\ t.pc \notin {"idle", "done"} => ~Settled(s, e.g)
    BY <1>1, AtTask
  <2>2. t.opened # <<>>
    BY <1>3 DEF Ran
  <2>3. t.pc \notin {"idle", "done"}
    BY <2>1, <2>2 DEF TaskJ
  <2>4. e.b \in Reached(t)
    BY <1>3 DEF Ran, Reached
  <2>5. t.pc \in {"connect", "ack", "share", "sleep", "sleep2"}
    BY <2>1, <2>3 DEF Task, TaskJ, Ended
  <2>6. Before(s.req[e.g], n, e.b)
    BY <1>1, <2>1, <2>4, <2>5 DEF ConnectJ, ReachJ
  <2> QED
    BY <1>1, <1>3, <2>1, <2>3, <2>4, <2>6 DEF Link, Opened
<1> QED
  BY <1>2, <1>3 DEF Holds

-----------------------------------------------------------------------------
(* A node answers at the end b of a channel: its task is as before.        *)
Answers(s, u, c, act, r, gone, new) ==
  /\ Link(s, c) /\ ~Settled(s, c.g)
  /\ Move(s, u, c.b, c.g, Tk(s, c.b, c.g), act, c, r, gone, new)
  /\ \A k \in Node : \A m \in gone[k] : m.c = c /\ m.kind # "ack"
  /\ act = s.act[c.b] \/ Tk(s, c.b, c.g).pc # "share"
  /\ s.resp[c] \in {"none", "level"} \/ r \notin {"none", "level"}
  /\ LinkJ(u, c) /\ MoveAct(u, c.b, act)
  /\ \A k \in Node : \A m \in s.mail[k] : m \notin gone[k] /\ m.c = c => Sound(u, k, m)
  /\ \A k \in Node : \A v \in new[k] :
       /\ Sound(u, k, v) /\ Fresh(s, k, v)
       /\ \A w \in new[k] : Alone(v, w)

LEMMA AnswerMesh ==
  ASSUME NEW s, Mesh(s), NEW u, NEW c \in Chan, NEW act, NEW r, NEW gone, NEW new,
         Answers(s, u, c, act, r, gone, new)
  PROVE  Mesh(u)
<1> DEFINE n == c.b
           g == c.g
           t == Tk(s, n, g)
<1>0. /\ Link(s, c) /\ ~Settled(s, c.g)
      /\ Move(s, u, c.b, c.g, t, act, c, r, gone, new)
      /\ \A k \in Node : \A m \in gone[k] : m.c = c /\ m.kind # "ack"
      /\ act = s.act[c.b] \/ t.pc # "share"
      /\ s.resp[c] \in {"none", "level"} \/ r \notin {"none", "level"}
      /\ LinkJ(u, c) /\ MoveAct(u, c.b, act)
      /\ \A k \in Node : \A m \in s.mail[k] : m \notin gone[k] /\ m.c = c => Sound(u, k, m)
      /\ \A k \in Node : \A v \in new[k] :
           /\ Sound(u, k, v) /\ Fresh(s, k, v)
           /\ \A w \in new[k] : Alone(v, w)
  BY DEF Answers
<1>1. c.b \in Node /\ c.g \in Sign /\ Called(s, g) /\ c.a \in Node
  BY <1>0, ChanFields DEF Link
<1>2. Moves(s, u, n, g, t, act, c, r, gone, new)
  BY <1>0 DEF Moves, Touches
<1>3. Step(s, u, n, g, t)
  BY <1>1, <1>2, MoveStep
<1> HIDE DEF t
<1>5. \A d \in Chan : u.resp[d] = IF d = c THEN r ELSE s.resp[d]
  BY <1>0 DEF Move
<1>t. Tk(u, n, g) = t /\ \A k \in Node, h \in Sign : Tk(u, k, h) = Tk(s, k, h)
  BY <1>0, <1>1 DEF Move, t
<1>6. \A d \in Chan : d # c => LinkSame(s, u, d)
  <2> SUFFICES ASSUME NEW d \in Chan, d # c PROVE LinkSame(s, u, d)
    OBVIOUS
  <2>1. (Opened(u, d) <=> Opened(s, d)) /\ (Waited(s, d) => Waited(u, d))
    BY <1>t, ChanFields DEF Opened, Waited
  <2>2. LikeEnds(s, u, n, g, t, d)
    BY <1>5, <2>1 DEF LikeEnds, t
  <2> QED
    BY <1>1, <1>3, <2>2, LinkLike
<1>7. Steady(Tk(s, n, g), t) /\ NoAck(gone)
  BY <1>0 DEF Steady, Alike, NoAck, t
<1>8. /\ StageJ(u, g) /\ AckJ(u, g)
      /\ \A d \in Chan : Link(s, d) => AckSame(s, u, d)
  BY <1>1, <1>2, <1>7, HushedMain
<1>11. MoveTask(s, u, n, g, t, act)
  <2>1. /\ TaskJ(s.req[g], n, g, t) /\ ConnectJ(s.req[g], n, g, t)
        /\ ReachJ(s.req[g], n, t) /\ ShareJ(t, s.act[n])
        /\ n = s.req[g].main => MainJ(s.req[g], g, t)
    BY <1>1 DEF Mesh, TasksJ, t
  <2>2. ShareJ(t, act)
    BY <1>0, <2>1 DEF ShareJ
  <2> QED
    BY <1>0, <1>8, <2>1, <2>2 DEF MoveTask, t
<1>12. Hushed(s, u, n, g, t, act, c, r, gone, new, c)
  BY <1>0, <1>1, <1>2, <1>5, <1>6, <1>7, <1>8, <1>11 DEF Hushed, Steady
<1> QED
  BY <1>1, <1>12, HushedMesh

-----------------------------------------------------------------------------
(* Greetings, levels and ends of file are read.                            *)

LEMMA AnswerSame ==
  ASSUME NEW s, Mesh(s), NEW u, NEW c \in Chan, NEW act, NEW r, NEW gone, NEW new,
         Move(s, u, c.b, c.g, Tk(s, c.b, c.g), act, c, r, gone, new)
  PROVE  /\ u.req = s.req /\ \A k \in Node, h \in Sign : Tk(u, k, h) = Tk(s, k, h)
         /\ u.resp[c] = r /\ \A d \in Chan : d # c => u.resp[d] = s.resp[d]
         /\ \A k \in Node : u.mail[k] = (s.mail[k] \ gone[k]) \cup new[k]
         /\ \A d : Link(u, d) <=> Link(s, d)
         /\ \A d \in Chan : (Opened(u, d) <=> Opened(s, d)) /\ (Waited(u, d) <=> Waited(s, d))
<1>1. /\ u.req = s.req /\ \A k \in Node, h \in Sign : Tk(u, k, h) = Tk(s, k, h)
      /\ u.resp[c] = r /\ \A d \in Chan : d # c => u.resp[d] = s.resp[d]
      /\ \A k \in Node : u.mail[k] = (s.mail[k] \ gone[k]) \cup new[k]
  BY DEF Move
<1>2. \A d : Link(u, d) <=> Link(s, d)
  BY <1>1 DEF Link, Called
<1>3. \A d \in Chan : (Opened(u, d) <=> Opened(s, d)) /\ (Waited(u, d) <=> Waited(s, d))
  BY <1>1, ChanFields DEF Opened, Waited
<1> QED
  BY <1>1, <1>2, <1>3

(* The shares of a channel are as before.                                  *)
LEMMA AnswerShares ==
  ASSUME NEW s, Mesh(s), NEW u, NEW c \in Chan, Link(s, c),
         \A k \in Node, h \in Sign : Tk(u, k, h) = Tk(s, k, h),
         \A k \in Node : \A m \in s.mail[k] : m.kind = "share" => m \in u.mail[k]
  PROVE  SharesJ(u, c)
<1>1. SharesJ(s, c) /\ c.a \in Node /\ c.b \in Node /\ c.g \in Sign
  BY AtLink
<1>2. \A k \in {c.a, c.b} : k \in Node /\ Other(k, c) \in Node
  BY <1>1 DEF Other
<1> QED
  BY <1>1, <1>2 DEF SharesJ

(* What is said of a message that does not depend on the channel's state.  *)
LEMMA AnswerSound ==
  ASSUME NEW s, Mesh(s), NEW u, NEW k \in Node, NEW m \in s.mail[k],
         u.req = s.req, \A p \in Node, h \in Sign : Tk(u, p, h) = Tk(s, p, h),
         m.kind \notin {"hello", "x", "level0", "level1"},
         m.kind = "eof" /\ s.resp[m.c] = "closed" => u.resp[m.c] = "closed"
  PROVE  Sound(u, k, m)
<1> DEFINE d == m.c
<1>1. Sound(s, k, m) /\ d \in Chan /\ k \in {d.a, d.b} /\ Called(s, d.g)
  BY AtMail DEF Link
<1>2. d.a \in Node /\ d.b \in Node /\ d.g \in Sign /\ Other(k, d) \in Node
  BY <1>1, ChanFields DEF Other
<1>3. s.req[d.g].nodes \subseteq Node /\ s.req[d.g].main \in Node
  BY <1>1, <1>2, Request
<1>4. SoundKept(s, u, k, m)
  BY <1>2, <1>3 DEF SoundKept
<1> QED
  BY <1>1, <1>4, StillSound

-----------------------------------------------------------------------------
(* accept_connection(): the greeting is answered.                          *)
Accepted(s, u, c, m) ==
  /\ s.resp[c] = "none" /\ m \in s.mail[c.b] /\ m.c = c
  /\ Move(s, u, c.b, c.g, Tk(s, c.b, c.g), s.act[c.b], c, "level",
          Only(c.b, m), Only(c.a, Msg(c, "x")))

LEMMA AcceptedMoves ==
  ASSUME NEW s, Mesh(s), NEW u, NEW c \in Chan, NEW m, Accepted(s, u, c, m)
  PROVE  Mesh(u) /\ Fresh(s, c.a, Msg(c, "x"))
<1> DEFINE v == Msg(c, "x")
           n == c.b
           g == c.g
           t == Tk(s, n, g)
<1>1. /\ s.resp[c] = "none" /\ m \in s.mail[n] /\ m.c = c
      /\ Move(s, u, n, g, t, s.act[n], c, "level", Only(n, m), Only(c.a, v))
  BY DEF Accepted
<1>2. ChannelJ(s, c) /\ c.a \in Node /\ c.b \in Node /\ c.g \in Sign /\ c.a # c.b
  BY AtLink
<1>3. /\ m.kind = "hello" /\ Waited(s, c) /\ ~Opened(s, c) /\ Link(s, c)
  BY <1>1, <1>2, OnlyHello, AtMail
<1>v. v \in Message /\ v.c = c /\ v.kind = "x"
  BY Plain DEF Kinds
<1> HIDE DEF v
<1>4. /\ u.req = s.req /\ \A k \in Node, h \in Sign : Tk(u, k, h) = Tk(s, k, h)
      /\ u.resp[c] = "level" /\ \A d \in Chan : d # c => u.resp[d] = s.resp[d]
      /\ \A k \in Node : u.mail[k] = (s.mail[k] \ Only(n, m)[k]) \cup Only(c.a, v)[k]
      /\ \A d : Link(u, d) <=> Link(s, d)
      /\ \A d \in Chan : (Opened(u, d) <=> Opened(s, d)) /\ (Waited(u, d) <=> Waited(s, d))
  <2>1. PICK a, x, y : Move(s, u, c.b, c.g, Tk(s, c.b, c.g), a, c, "level", x, y)
                         /\ x = Only(n, m) /\ y = Only(c.a, v)
    BY <1>1
  <2>2. /\ Mesh(s) /\ c \in Chan
        /\ Move(s, u, c.b, c.g, Tk(s, c.b, c.g), a, c, "level", x, y)
    BY <2>1
  <2>3. /\ u.req = s.req /\ \A k \in Node, h \in Sign : Tk(u, k, h) = Tk(s, k, h)
        /\ u.resp[c] = "level" /\ \A d \in Chan : d # c => u.resp[d] = s.resp[d]
        /\ \A k \in Node : u.mail[k] = (s.mail[k] \ x[k]) \cup y[k]
        /\ \A d : Link(u, d) <=> Link(s, d)
        /\ \A d \in Chan : (Opened(u, d) <=> Opened(s, d)) /\ (Waited(u, d) <=> Waited(s, d))
    BY ONLY <2>2, AnswerSame
  <2> QED
    BY <2>1, <2>3
<1>5. ~Settled(s, g) /\ t.pc = "idle"
  <2>1. Tk(s, c.a, c.g).pc = "connect"
    BY <1>3 DEF Waited
  <2> QED
    BY <1>2, <1>3, <2>1, AtTask, Earlier
<1> HIDE DEF t
<1>6. \A k \in Node : \A w \in s.mail[k] : w.c = c => w = m
  <2> SUFFICES ASSUME NEW k \in Node, NEW w \in s.mail[k], w.c = c PROVE w = m
    OBVIOUS
  <2>1. w.kind = "hello" /\ k = n
    BY <1>1, OnlyHello
  <2> QED
    BY <1>1, <1>2, <1>3, <2>1, AtMail DEF Alone
<1>7. Fresh(s, c.a, v)
  <2> SUFFICES ASSUME NEW w \in s.mail[c.a] PROVE May(w, v)
    BY DEF Fresh
  <2>1. w.c # c
    <3>1. w.c = c => w = m /\ w.kind = "hello" /\ c.a = c.b
      BY <1>1, <1>2, <1>6, OnlyHello
    <3> QED
      BY <1>2, <3>1
  <2> QED
    BY <1>v, <2>1 DEF May
<1>8. LinkJ(u, c)
  <2>1. ChannelJ(u, c)
    BY <1>1, <1>2, <1>3, <1>4, <1>5 DEF ChannelJ, States, Waiting, t
  <2>2. SharesJ(u, c)
    <3>1. \A k \in Node : \A w \in s.mail[k] : w.kind = "share" => w \in u.mail[k]
      BY <1>3, <1>4 DEF Only
    <3> QED
      BY <1>3, <1>4, <3>1, AnswerShares
  <2> QED
    BY <1>3, <1>4, <2>1, <2>2 DEF LinkJ, LevelJ, EofJ
<1>9. MoveAct(u, n, s.act[n])
  <2>1. \A e \in Chan : Holds(u, n, e) <=> Holds(s, n, e)
    <3> TAKE e \in Chan
    <3>1. Tk(u, n, e.g) = Tk(s, n, e.g)
      BY <1>2, <1>4, ChanFields
    <3> QED
      BY <1>1, <1>4, <3>1 DEF Holds
  <2> QED
    BY <1>2, <2>1, AtDictionary DEF MoveAct
<1>10. ASSUME NEW k \in Node, NEW w \in s.mail[k], w \notin Only(n, m)[k], w.c = c
       PROVE  Sound(u, k, w)
  <2>1. w = m /\ w.kind = "hello" /\ k = n
    BY <1>1, <1>6, <1>10, OnlyHello
  <2> QED
    BY <1>2, <1>10, <2>1 DEF Only
<1>11. Sound(u, c.a, v) /\ Alone(v, v)
  BY <1>3, <1>4, <1>v DEF Sound, Alone
<1>12. \A k \in Node : \A w \in Only(n, m)[k] : w.c = c /\ w.kind # "ack"
  BY <1>1, <1>3 DEF Only
<1>13. \A k \in Node : \A w \in Only(c.a, v)[k] :
         /\ Sound(u, k, w) /\ Fresh(s, k, w)
         /\ \A x \in Only(c.a, v)[k] : Alone(w, x)
  BY <1>7, <1>11 DEF Only
<1>14. Mesh(u)
  <2>1. Answers(s, u, c, s.act[c.b], "level", Only(c.b, m), Only(c.a, v))
    BY <1>1, <1>3, <1>5, <1>8, <1>9, <1>10, <1>12, <1>13 DEF Answers, t
  <2> QED
    BY <2>1, AnswerMesh
<1> QED
  BY <1>7, <1>14 DEF v

-----------------------------------------------------------------------------
(* A channel of the main node is given its level: it is the only one of n. *)
LevelTop(s, u, c, m) ==
  /\ s.resp[c] = "level" /\ m \in s.mail[c.b] /\ m.c = c /\ m.kind = "level0"
  /\ Move(s, u, c.b, c.g, Tk(s, c.b, c.g), <<c>>, c, "payload", Only(c.b, m), Silent)

(* A node that waits for its level from the main node holds no channel.    *)
LEMMA HoldsNone ==
  ASSUME NEW s, Mesh(s), NEW c \in Chan, s.resp[c] \in {"none", "level"},
         c.a = s.req[c.g].main, Link(s, c), ~Settled(s, c.g), NEW e \in Chan
  PROVE  ~Holds(s, c.b, e)
<1> SUFFICES ASSUME Holds(s, c.b, e) PROVE FALSE
  OBVIOUS
<1> DEFINE n == c.b
<1>1. ChannelJ(s, c) /\ ChannelJ(s, e) /\ c.b \in Node /\ c.g \in Sign /\ e.g \in Sign
  BY AtLink
<1>2. /\ Link(s, e) /\ ~Settled(s, e.g) /\ Called(s, e.g)
  BY <1>1, HeldActive
<1>3. e.g = c.g
  BY <1>1, <1>2, OneActive DEF Link
<1>4. Tk(s, n, c.g).pc = "idle"
  BY <1>1 DEF ChannelJ, Waiting
<1>5. CASE e.a = n /\ e \in Ran(Tk(s, n, e.g).opened)
  <2>1. Tk(s, n, e.g).opened = <<>>
    <3>1. TaskJ(s.req[c.g], c.b, c.g, Tk(s, c.b, c.g))
      BY <1>1, AtTask
    <3> QED
      BY <1>3, <1>4, <3>1 DEF TaskJ
  <2> QED
    BY <1>5, <2>1 DEF Ran
<1>6. CASE e.b = n /\ s.resp[e] \in {"payload", "sign", "hold"}
  <2>1. CASE e.a = c.a
    <3>1. e = c
      BY <1>3, <1>6, <2>1 DEF Chan
    <3> QED
      BY <1>6, <3>1
  <2>2. CASE e.a # c.a
    <3>1. s.resp[e] = "hold"
      BY <1>1, <1>2, <1>3, <1>6, <2>2 DEF ChannelJ
    <3>2. Up(s, e.b, e.g) = c
      BY <1>3, <1>6 DEF Up, Chan
    <3> QED
      BY <1>1, <1>2, <1>3, <2>2, <3>1, <3>2 DEF ChannelJ
  <2> QED
    BY <2>1, <2>2
<1> QED
  BY <1>5, <1>6 DEF Holds

LEMMA LevelTopMoves ==
  ASSUME NEW s, Mesh(s), NEW u, NEW c \in Chan, NEW m, LevelTop(s, u, c, m)
  PROVE  Mesh(u)
<1> DEFINE n == c.b
           g == c.g
           t == Tk(s, n, g)
<1>1. /\ s.resp[c] = "level" /\ m \in s.mail[n] /\ m.c = c /\ m.kind = "level0"
      /\ Move(s, u, n, g, t, <<c>>, c, "payload", Only(n, m), Silent)
  BY DEF LevelTop
<1>2. ChannelJ(s, c) /\ c.a \in Node /\ c.b \in Node /\ c.g \in Sign /\ c.a # c.b
  BY AtLink
<1>3. /\ Link(s, c) /\ c.a = s.req[g].main /\ Opened(s, c)
  BY <1>1, <1>2, AtMail DEF Sound
<1>4. /\ u.req = s.req /\ \A k \in Node, h \in Sign : Tk(u, k, h) = Tk(s, k, h)
      /\ u.resp[c] = "payload" /\ \A d \in Chan : d # c => u.resp[d] = s.resp[d]
      /\ \A k \in Node : u.mail[k] = (s.mail[k] \ Only(n, m)[k]) \cup Silent[k]
      /\ \A d : Link(u, d) <=> Link(s, d)
      /\ \A d \in Chan : (Opened(u, d) <=> Opened(s, d)) /\ (Waited(u, d) <=> Waited(s, d))
  <2>1. /\ Mesh(s) /\ c \in Chan
        /\ Move(s, u, c.b, c.g, Tk(s, c.b, c.g), <<c>>, c, "payload", Only(c.b, m), Silent)
    BY <1>1
  <2> QED
    BY ONLY <2>1, AnswerSame
<1>5. ~Settled(s, g) /\ t.pc = "idle"
  BY <1>1, <1>2, <1>3 DEF Settled, ChannelJ, Waiting
<1> HIDE DEF t
<1>6. ~Waited(s, c)
  BY <1>3, NotBoth
<1>8. LinkJ(u, c)
  <2>1. ChannelJ(u, c)
    BY <1>1, <1>2, <1>3, <1>4, <1>5 DEF ChannelJ, States, Waiting, t
  <2>2. SharesJ(u, c)
    <3>1. \A k \in Node : \A w \in s.mail[k] : w.kind = "share" => w \in u.mail[k]
      BY <1>1, <1>4 DEF Only
    <3> QED
      BY <1>3, <1>4, <3>1, AnswerShares
  <2> QED
    BY <1>3, <1>4, <2>1, <2>2 DEF LinkJ, LevelJ, EofJ
<1>9. MoveAct(u, n, <<c>>)
  <2>1. \A e \in Chan : Holds(u, n, e) <=> e = c
    <3> TAKE e \in Chan
    <3>1. Tk(u, n, e.g) = Tk(s, n, e.g)
      BY <1>2, <1>4, ChanFields
    <3>2. ~Holds(s, n, e)
      BY <1>1, <1>3, <1>5, HoldsNone
    <3> QED
      BY <1>1, <1>2, <1>4, <3>1, <3>2 DEF Holds
  <2>2. Dictionary(n, <<c>>) /\ Ran(<<c>>) = {c}
    BY DEF Dictionary, Ran
  <2> QED
    BY <2>1, <2>2 DEF MoveAct
<1>10. ASSUME NEW k \in Node, NEW w \in s.mail[k], w \notin Only(n, m)[k], w.c = c
       PROVE  Sound(u, k, w)
  <2>1. Sound(s, k, w) /\ \A x \in s.mail[k] : Alone(w, x)
    BY AtMail
  <2>2. w.kind \notin {"hello", "x", "level1"}
    BY <1>1, <1>3, <1>6, <1>10, <2>1 DEF Sound
  <2>3. w.kind # "level0"
    <3> SUFFICES ASSUME w.kind = "level0" PROVE FALSE
      OBVIOUS
    <3>1. k = n
      BY <1>10, <2>1 DEF Sound
    <3>2. w = m
      BY <1>1, <1>10, <2>1, <3>1 DEF Alone
    <3> QED
      BY <1>10, <3>1, <3>2 DEF Only
  <2> QED
    BY <1>1, <1>4, <1>10, <2>2, <2>3, AnswerSound
<1>12. \A k \in Node : \A w \in Only(n, m)[k] : w.c = c /\ w.kind # "ack"
  BY <1>1 DEF Only
<1>13. \A k \in Node : Silent[k] = {}
  BY DEF Silent
<1> QED
  <2>1. Answers(s, u, c, <<c>>, "payload", Only(c.b, m), Silent)
    BY <1>1, <1>3, <1>5, <1>8, <1>9, <1>10, <1>12, <1>13 DEF Answers, t
  <2> QED
    BY <2>1, AnswerMesh

-----------------------------------------------------------------------------
(* A channel of another peer is given its level.                           *)
LevelBelow(s, u, c, m, act) ==
  /\ s.resp[c] = "level" /\ m \in s.mail[c.b] /\ m.c = c /\ m.kind = "level1"
  /\ s.resp[Up(s, c.b, c.g)] \notin {"none", "level"}
  /\ Dictionary(c.b, act) /\ Ran(act) = Ran(s.act[c.b]) \cup {c}
  /\ Move(s, u, c.b, c.g, Tk(s, c.b, c.g), act, c, "hold", Only(c.b, m), Silent)

LEMMA LevelBelowMoves ==
  ASSUME NEW s, Mesh(s), NEW u, NEW c \in Chan, NEW m, NEW act, LevelBelow(s, u, c, m, act)
  PROVE  Mesh(u)
<1> DEFINE n == c.b
           g == c.g
           t == Tk(s, n, g)
<1>1. /\ s.resp[c] = "level" /\ m \in s.mail[n] /\ m.c = c /\ m.kind = "level1"
      /\ s.resp[Up(s, n, g)] \notin {"none", "level"}
      /\ Dictionary(n, act) /\ Ran(act) = Ran(s.act[n]) \cup {c}
      /\ Move(s, u, n, g, t, act, c, "hold", Only(n, m), Silent)
  BY DEF LevelBelow
<1>2. ChannelJ(s, c) /\ c.a \in Node /\ c.b \in Node /\ c.g \in Sign /\ c.a # c.b
  BY AtLink
<1>3. /\ Link(s, c) /\ c.a # s.req[g].main /\ Opened(s, c)
  BY <1>1, <1>2, AtMail DEF Sound
<1>4. /\ u.req = s.req /\ \A k \in Node, h \in Sign : Tk(u, k, h) = Tk(s, k, h)
      /\ u.resp[c] = "hold" /\ \A d \in Chan : d # c => u.resp[d] = s.resp[d]
      /\ \A k \in Node : u.mail[k] = (s.mail[k] \ Only(n, m)[k]) \cup Silent[k]
      /\ \A d : Link(u, d) <=> Link(s, d)
      /\ \A d \in Chan : (Opened(u, d) <=> Opened(s, d)) /\ (Waited(u, d) <=> Waited(s, d))
  <2>1. /\ Mesh(s) /\ c \in Chan
        /\ Move(s, u, c.b, c.g, Tk(s, c.b, c.g), act, c, "hold", Only(c.b, m), Silent)
    BY <1>1
  <2> QED
    BY ONLY <2>1, AnswerSame
<1>5. ~Settled(s, g) /\ t.pc = "idle"
  BY <1>1, <1>2, <1>3 DEF Settled, ChannelJ
<1> HIDE DEF t
<1>6. ~Waited(s, c)
  BY <1>3, NotBoth
<1>7. Tk(s, c.a, g).pc \notin Over
  <2>1. Read(Tk(s, c.a, g), c) <= Tk(s, c.b, g).round
    BY <1>3, AtLink DEF SharesJ, Other
  <2>2. Tk(s, c.b, g).round = 0
    BY <1>2, <1>5, ReadIs DEF t, Rounding, Over
  <2>3. Rounds \in Nat /\ Rounds # 0
    BY BoundAssumption
  <2> SUFFICES ASSUME Tk(s, c.a, g).pc \in Over PROVE FALSE
    OBVIOUS
  <2>4. Read(Tk(s, c.a, g), c) = Rounds
    BY DEF Read
  <2> QED
    BY <2>1, <2>2, <2>3, <2>4
<1>u. Up(u, n, g) = Up(s, n, g) /\ u.resp[Up(u, n, g)] \notin {"none", "level"}
  <2>1. Up(u, n, g) = Up(s, n, g)
    BY <1>4 DEF Up
  <2>2. Up(s, n, g) \in Chan /\ Up(s, n, g) # c
    BY <1>3, UpChannel DEF Up
  <2> QED
    BY <1>1, <1>4, <2>1, <2>2
<1>8. LinkJ(u, c)
  <2>1. ChannelJ(u, c)
    BY <1>1, <1>2, <1>3, <1>4, <1>5, <1>u DEF ChannelJ, States, t
  <2>2. SharesJ(u, c)
    <3>1. \A k \in Node : \A w \in s.mail[k] : w.kind = "share" => w \in u.mail[k]
      BY <1>1, <1>4 DEF Only
    <3> QED
      BY <1>3, <1>4, <3>1, AnswerShares
  <2>3. LevelJ(u, c) /\ EofJ(u, c)
    BY <1>2, <1>4, <1>7 DEF LevelJ, EofJ, Over
  <2> QED
    BY <2>1, <2>2, <2>3 DEF LinkJ
<1>9. MoveAct(u, n, act)
  <2>1. \A e \in Chan : Holds(u, n, e) <=> e = c \/ Holds(s, n, e)
    <3> TAKE e \in Chan
    <3>1. Tk(u, n, e.g) = Tk(s, n, e.g)
      BY <1>2, <1>4, ChanFields
    <3> QED
      BY <1>1, <1>2, <1>4, <3>1 DEF Holds
  <2> QED
    BY <1>1, <1>2, <2>1, AtDictionary DEF MoveAct
<1>10. ASSUME NEW k \in Node, NEW w \in s.mail[k], w \notin Only(n, m)[k], w.c = c
       PROVE  Sound(u, k, w)
  <2>1. Sound(s, k, w) /\ \A x \in s.mail[k] : Alone(w, x)
    BY AtMail
  <2>2. w.kind \notin {"hello", "x", "level0"}
    BY <1>1, <1>3, <1>6, <1>10, <2>1 DEF Sound
  <2>3. w.kind # "level1"
    <3> SUFFICES ASSUME w.kind = "level1" PROVE FALSE
      OBVIOUS
    <3>1. k = n
      BY <1>10, <2>1 DEF Sound
    <3>2. w = m
      BY <1>1, <1>10, <2>1, <3>1 DEF Alone
    <3> QED
      BY <1>10, <3>1, <3>2 DEF Only
  <2> QED
    BY <1>1, <1>4, <1>10, <2>2, <2>3, AnswerSound
<1>12. \A k \in Node : \A w \in Only(n, m)[k] : w.c = c /\ w.kind # "ack"
  BY <1>1 DEF Only
<1>13. \A k \in Node : Silent[k] = {}
  BY DEF Silent
<1> QED
  <2>1. Answers(s, u, c, act, "hold", Only(c.b, m), Silent)
    BY <1>1, <1>3, <1>5, <1>8, <1>9, <1>10, <1>12, <1>13 DEF Answers, t
  <2> QED
    BY <2>1, AnswerMesh

-----------------------------------------------------------------------------
(* The other end closed the channel.                                       *)
EofRead(s, u, c, m, act) ==
  /\ s.resp[c] = "hold" /\ m \in s.mail[c.b] /\ m.c = c /\ m.kind = "eof"
  /\ Tk(s, c.b, c.g).pc # "share"
  /\ Dictionary(c.b, act) /\ Ran(act) = Ran(s.act[c.b]) \ {c}
  /\ Move(s, u, c.b, c.g, Tk(s, c.b, c.g), act, c, "closed", Only(c.b, m), Silent)

LEMMA EofReadMoves ==
  ASSUME NEW s, Mesh(s), NEW u, NEW c \in Chan, NEW m, NEW act, EofRead(s, u, c, m, act)
  PROVE  Mesh(u)
<1> DEFINE n == c.b
           g == c.g
           t == Tk(s, n, g)
<1>1. /\ s.resp[c] = "hold" /\ m \in s.mail[n] /\ m.c = c /\ m.kind = "eof"
      /\ t.pc # "share"
      /\ Dictionary(n, act) /\ Ran(act) = Ran(s.act[n]) \ {c}
      /\ Move(s, u, n, g, t, act, c, "closed", Only(n, m), Silent)
  BY DEF EofRead
<1>2. ChannelJ(s, c) /\ c.a \in Node /\ c.b \in Node /\ c.g \in Sign /\ c.a # c.b
  BY AtLink
<1>3. /\ Link(s, c) /\ c.a # s.req[g].main /\ Opened(s, c)
      /\ Tk(s, c.a, c.g).pc \in {"sleep2", "done"}
  BY <1>1, <1>2, AtMail DEF Sound, ChannelJ
<1>4. /\ u.req = s.req /\ \A k \in Node, h \in Sign : Tk(u, k, h) = Tk(s, k, h)
      /\ u.resp[c] = "closed" /\ \A d \in Chan : d # c => u.resp[d] = s.resp[d]
      /\ \A k \in Node : u.mail[k] = (s.mail[k] \ Only(n, m)[k]) \cup Silent[k]
      /\ \A d : Link(u, d) <=> Link(s, d)
      /\ \A d \in Chan : (Opened(u, d) <=> Opened(s, d)) /\ (Waited(u, d) <=> Waited(s, d))
  <2>1. /\ Mesh(s) /\ c \in Chan
        /\ Move(s, u, c.b, c.g, Tk(s, c.b, c.g), act, c, "closed", Only(c.b, m), Silent)
    BY <1>1
  <2> QED
    BY ONLY <2>1, AnswerSame
<1>5. ~Settled(s, g)
  BY <1>1, <1>2, <1>3 DEF Settled, ChannelJ
<1>6. t.pc \in Rounding
  <2>1. c.b \in s.req[c.g].nodes
    BY <1>2, <1>3, LinkIs, Request
  <2> QED
    BY <1>1, <1>2, <2>1, EofAll
<1> HIDE DEF t
<1>7. ~Waited(s, c)
  BY <1>3, NotBoth
<1>8. LinkJ(u, c)
  <2>1. ChannelJ(u, c)
    BY <1>1, <1>2, <1>3, <1>4, <1>6 DEF ChannelJ, States, Rounding, Over, t
  <2>2. SharesJ(u, c)
    <3>1. \A k \in Node : \A w \in s.mail[k] : w.kind = "share" => w \in u.mail[k]
      BY <1>1, <1>4 DEF Only
    <3> QED
      BY <1>3, <1>4, <3>1, AnswerShares
  <2>3. LevelJ(u, c) /\ EofJ(u, c)
    BY <1>2, <1>4 DEF LevelJ, EofJ
  <2> QED
    BY <2>1, <2>2, <2>3 DEF LinkJ
<1>9. MoveAct(u, n, act)
  <2>1. \A e \in Chan : Holds(u, n, e) <=> e # c /\ Holds(s, n, e)
    <3> TAKE e \in Chan
    <3>1. Tk(u, n, e.g) = Tk(s, n, e.g)
      BY <1>2, <1>4, ChanFields
    <3> QED
      BY <1>1, <1>2, <1>4, <3>1 DEF Holds
  <2> QED
    BY <1>1, <1>2, <2>1, AtDictionary DEF MoveAct
<1>10. ASSUME NEW k \in Node, NEW w \in s.mail[k], w \notin Only(n, m)[k], w.c = c
       PROVE  Sound(u, k, w)
  <2>1. Sound(s, k, w)
    BY AtMail
  <2>2. w.kind \notin {"hello", "x", "level0", "level1"}
    BY <1>1, <1>10, <2>1 DEF Sound
  <2> QED
    BY <1>1, <1>4, <1>10, <2>2, AnswerSound
<1>12. \A k \in Node : \A w \in Only(n, m)[k] : w.c = c /\ w.kind # "ack"
  BY <1>1 DEF Only
<1>13. \A k \in Node : Silent[k] = {}
  BY DEF Silent
<1> QED
  <2>1. Answers(s, u, c, act, "closed", Only(c.b, m), Silent)
    BY <1>1, <1>3, <1>5, <1>8, <1>9, <1>10, <1>12, <1>13 DEF Answers, t
  <2> QED
    BY <2>1, AnswerMesh

-----------------------------------------------------------------------------
(* The node that was greeted has answered.                                 *)

(* On a channel that is not opened there is nothing but the handshake.     *)
LEMMA NotOpened ==
  ASSUME NEW s, Mesh(s), NEW k \in Node, NEW m \in s.mail[k], ~Opened(s, m.c)
  PROVE  m.kind \in {"hello", "x"} /\ Waited(s, m.c) /\ Tk(s, m.c.b, m.c.g).pc = "idle"
<1> DEFINE c == m.c
<1>1. Sound(s, k, m) /\ c \in Chan /\ Link(s, c) /\ m \in Message /\ k \in {c.a, c.b}
  BY AtMail
<1>3. Waited(s, c)
  BY <1>1, NoMail
<1>4. /\ Called(s, c.g) /\ c.a \in s.req[c.g].nodes /\ c.b \in s.req[c.g].nodes
      /\ c.g \in Sign /\ c.a \in Node /\ c.b \in Node
  BY <1>1, LinkIs, ChanFields, Request
<1>5. Tk(s, c.b, c.g).pc = "idle"
  BY <1>1, Earlier
<1>6. Tk(s, c.a, c.g).pc = "connect"
  BY <1>3 DEF Waited
<1>7. m.kind # "share"
  BY <1>1, <1>4, <1>5, <1>6, ShareFrom DEF Other, Rounding, Over
<1>8. m.kind # "eof"
  BY <1>4, <1>5, EofAll DEF Rounding, Over
<1>9. m.kind \notin {"payload", "ack", "level0", "level1"}
  BY <1>1, <1>6 DEF Sound
<1> QED
  BY <1>1, <1>3, <1>5, <1>7, <1>8, <1>9 DEF Message, Kinds

(* All the nodes of a command that is settled are through.                 *)
LEMMA SettledDone ==
  ASSUME NEW s, Mesh(s), NEW g \in Sign, Called(s, g), Settled(s, g), NEW n \in s.req[g].nodes
  PROVE  Tk(s, n, g).pc = "done"
<1> DEFINE q == s.req[g]
<1>1. q.main \in Node /\ q.nodes = {q.main} \cup Ran(q.peers) /\ n \in Node
  BY Request
<1>2. MainJ(q, g, Tk(s, q.main, g)) /\ StageJ(s, g)
  BY DEF Mesh, TasksJ
<1>3. Tk(s, q.main, g).pc = "done" /\ Tk(s, n, g).pc \in {"idle", "done"}
  BY <1>1, <1>2 DEF MainJ, Settled
<1> QED
  BY <1>1, <1>2, <1>3 DEF StageJ, Rounding, Over

(* Nothing but ends of files is left of a command that is settled.         *)
LEMMA SettledEof ==
  ASSUME NEW s, Mesh(s), NEW k \in Node, NEW m \in s.mail[k], Settled(s, m.c.g)
  PROVE  m.kind = "eof"
<1> DEFINE c == m.c
<1>1. Sound(s, k, m) /\ c \in Chan /\ Link(s, c) /\ m \in Message /\ k \in {c.a, c.b}
  BY AtMail
<1>2. /\ Called(s, c.g) /\ c.a \in s.req[c.g].nodes /\ c.b \in s.req[c.g].nodes
      /\ c.g \in Sign /\ c.a \in Node /\ c.b \in Node /\ s.req[c.g].main \in Node
  BY <1>1, LinkIs, ChanFields, Request
<1>3. Tk(s, k, c.g).pc = "done"
  BY <1>1, <1>2, SettledDone
<1>4. m.kind # "share"
  <2> SUFFICES ASSUME m.kind = "share" PROVE FALSE
    OBVIOUS
  <2>1. m.round \in 1..Rounds /\ Read(Tk(s, k, c.g), c) < m.round
    BY ShareFrom
  <2>2. Read(Tk(s, k, c.g), c) = Rounds
    BY <1>3 DEF Read, Over
  <2> QED
    BY <2>1, <2>2, BoundAssumption
<1>5. s.resp[c] \in {"none", "closed"} /\ ~Waited(s, c)
  BY <1>1, <1>2 DEF Settled, Waited
<1>6. Tk(s, s.req[c.g].main, c.g).pc # "ack"
  BY <1>2 DEF Settled
<1> QED
  BY <1>1, <1>4, <1>5, <1>6 DEF Sound, Message, Kinds

(* While the main node connects, nothing else concerns a peer.             *)
LEMMA TopFirst ==
  ASSUME NEW s, Mesh(s), NEW c \in Chan, Link(s, c), c.a = s.req[c.g].main,
         Tk(s, c.a, c.g).pc = "connect", NEW m \in s.mail[c.b], m.c # c
  PROVE  m.kind = "eof"
<1> DEFINE d == m.c
           g == c.g
           q == s.req[g]
<1>1. d \in Chan /\ Link(s, d) /\ c.b \in {d.a, d.b} /\ c.b \in Node
  BY AtMail, ChanFields
<1>2. Called(s, g) /\ g \in Sign /\ c.a \in Node /\ d.g \in Sign /\ d.a \in Node
  BY <1>1, ChanFields DEF Link
<1>3. ~Settled(s, g)
  BY <1>2, AtTask
<1> SUFFICES ASSUME ~Settled(s, d.g) PROVE FALSE
  BY <1>1, SettledEof
<1>4. d.g = g
  BY <1>1, <1>2, <1>3, OneActive DEF Link
<1>5. \A b \in Ran(q.peers) : Tk(s, b, g).pc = "idle"
  BY <1>2 DEF Mesh, TasksJ, StageJ
<1>6. d.a \in q.nodes /\ q.nodes = {q.main} \cup Ran(q.peers)
  BY <1>1, <1>2, <1>4, LinkIs, Request
<1>7. d.a # q.main
  BY <1>1, <1>4 DEF Chan
<1>8. Tk(s, d.a, d.g).pc = "idle" /\ TaskJ(q, d.a, d.g, Tk(s, d.a, d.g))
  BY <1>2, <1>4, <1>5, <1>6, <1>7, AtTask
<1>9. ~Opened(s, d) /\ ~Waited(s, d)
  BY <1>8 DEF Opened, Waited, Rounding, Over, TaskJ, Reached
<1> QED
  BY <1>1, <1>9, NoMail

-----------------------------------------------------------------------------
(* connect_peer() returns: the channel is in the dictionary, and is given  *)
(* its level.                                                              *)
Level(t) == IF t.from = NoChan THEN "level0" ELSE "level1"

Linked(s, u, n, g, t, c, m, act) ==
  LET o == Tk(s, n, g)
  IN  /\ o.pc = "connect" /\ o.wait = c /\ m \in s.mail[n] /\ m.c = c /\ m.kind = "x"
      /\ t = [o EXCEPT !.wait = NoChan, !.opened = Append(o.opened, c)]
      /\ Dictionary(n, act) /\ Ran(act) = Ran(s.act[n]) \cup {c}
      /\ Move(s, u, n, g, t, act, NoChan, "none", Only(n, m), Only(c.b, Msg(c, Level(o))))

LEMMA LinkedFacts ==
  ASSUME NEW s, Mesh(s), NEW u, NEW n \in Node, NEW g \in Sign, NEW t, NEW c, NEW m, NEW act,
         Linked(s, u, n, g, t, c, m, act)
  PROVE  LET o == Tk(s, n, g)
             q == s.req[g]
         IN  /\ c \in Chan /\ c.a = n /\ c.g = g /\ c.b \in Node /\ c.b # n
             /\ Link(s, c) /\ c # NoChan /\ s.resp[c] = "level"
             /\ Waited(s, c) /\ ~Opened(s, c) /\ Tk(s, c.b, g).pc = "idle"
             /\ c.b \notin Reached(o) /\ c.b \notin Ran(o.list)
             /\ t \in Task /\ t.pc = "connect" /\ t.wait = NoChan /\ t.list = o.list
             /\ t.from = o.from /\ t.round = o.round /\ t.asked = o.asked
             /\ t.opened = Append(o.opened, c) /\ o.opened \in Seq(Chan)
             /\ Reached(t) = Reached(o) \cup {c.b}
             /\ Ran(t.opened) = Ran(o.opened) \cup {c}
             /\ o.from = (IF n = q.main THEN NoChan ELSE Up(s, n, g))
             /\ Called(s, g) /\ ~Settled(s, g)
<1> DEFINE o == Tk(s, n, g)
           q == s.req[g]
<1>1. /\ o.pc = "connect" /\ o.wait = c /\ m \in s.mail[n] /\ m.c = c /\ m.kind = "x"
      /\ t = [o EXCEPT !.wait = NoChan, !.opened = Append(o.opened, c)]
  BY DEF Linked
<1>2. /\ ConnectJ(q, n, g, o) /\ o \in Task /\ Called(s, g) /\ ~Settled(s, g) /\ TaskJ(q, n, g, o)
  BY <1>1, AtTask
<1>3. Sound(s, n, m) /\ c \in Chan /\ Link(s, c)
  BY <1>1, AtMail
<1>4. c # NoChan
  BY <1>3, NotAChannel
<1> HIDE DEF o, q
<1>5. c.a = n /\ c.g = g /\ c.b \notin Reached(o) /\ c.b \notin Ran(o.list)
  BY <1>1, <1>2, <1>4 DEF ConnectJ
<1>6. c.b \in Node /\ c.b # n
  BY <1>3, <1>5, ChanFields
<1>7. s.resp[c] = "level" /\ Waited(s, c)
  BY <1>1, <1>3 DEF Sound
<1>8. ~Opened(s, c)
  BY <1>3, <1>7, NotBoth
<1>9. Tk(s, c.b, g).pc = "idle"
  BY <1>3, <1>5, <1>8, Earlier
<1>10. PICK w : w = [o EXCEPT !.opened = Append(@, c)]
  OBVIOUS
<1>11. /\ w \in Task /\ w.pc = o.pc /\ w.from = o.from /\ w.list = o.list
       /\ w.round = o.round /\ w.asked = o.asked
       /\ w.opened = Append(o.opened, c)
       /\ Reached(w) = Reached(o) \cup {c.b}
       /\ Ran(w.opened) = Ran(o.opened) \cup {c}
  BY <1>2, <1>3, <1>10, AppendOpened
<1>12. t = [w EXCEPT !.wait = NoChan]
  BY <1>1, <1>2, <1>10 DEF Task
<1>13. /\ t \in Task /\ t.pc = w.pc /\ t.wait = NoChan /\ t.list = w.list /\ t.opened = w.opened
       /\ t.from = w.from /\ t.round = w.round /\ t.asked = w.asked
  BY <1>11, <1>12 DEF Task
<1>14. Reached(t) = Reached(w)
  BY <1>13 DEF Reached
<1>15. o.opened \in Seq(Chan)
  BY <1>2 DEF Task
<1>16. o.from = (IF n = q.main THEN NoChan ELSE Up(s, n, g))
  BY <1>1, <1>2 DEF TaskJ, Up, q
<1>17. t.pc = "connect" /\ t.list = o.list /\ t.from = o.from /\ t.round = o.round /\ t.asked = o.asked
  BY <1>1, <1>11, <1>13
<1>18. t.opened = Append(o.opened, c) /\ Reached(t) = Reached(o) \cup {c.b} /\ Ran(t.opened) = Ran(o.opened) \cup {c}
  BY <1>11, <1>13, <1>14
<1> QED
  BY <1>2, <1>3, <1>4, <1>5, <1>6, <1>7, <1>8, <1>9, <1>13, <1>15, <1>16, <1>17, <1>18 DEF o, q

LEMMA LinkedMoves ==
  ASSUME NEW s, Mesh(s), NEW u, NEW n \in Node, NEW g \in Sign, NEW t, NEW c, NEW m, NEW act,
         Linked(s, u, n, g, t, c, m, act)
  PROVE  Mesh(u) /\ Fresh(s, c.b, Msg(c, Level(Tk(s, n, g))))
<1> DEFINE o == Tk(s, n, g)
           q == s.req[g]
           v == Msg(c, Level(o))
<1>1. /\ o.pc = "connect" /\ o.wait = c /\ m \in s.mail[n] /\ m.c = c /\ m.kind = "x"
      /\ Dictionary(n, act) /\ Ran(act) = Ran(s.act[n]) \cup {c}
      /\ Move(s, u, n, g, t, act, NoChan, "none", Only(n, m), Only(c.b, v))
  BY DEF Linked
<1>2. /\ c \in Chan /\ c.a = n /\ c.g = g /\ c.b \in Node /\ c.b # n
      /\ Link(s, c) /\ c # NoChan /\ s.resp[c] = "level"
      /\ Waited(s, c) /\ ~Opened(s, c) /\ Tk(s, c.b, g).pc = "idle"
      /\ c.b \notin Reached(o) /\ c.b \notin Ran(o.list)
      /\ t \in Task /\ t.pc = "connect" /\ t.wait = NoChan /\ t.list = o.list
      /\ t.from = o.from /\ t.round = o.round /\ t.asked = o.asked
      /\ t.opened = Append(o.opened, c) /\ o.opened \in Seq(Chan)
      /\ Reached(t) = Reached(o) \cup {c.b}
      /\ Ran(t.opened) = Ran(o.opened) \cup {c}
      /\ o.from = (IF n = q.main THEN NoChan ELSE Up(s, n, g))
      /\ Called(s, g) /\ ~Settled(s, g)
  BY LinkedFacts
<1>3. /\ TaskJ(q, n, g, o) /\ ConnectJ(q, n, g, o) /\ (n = q.main => MainJ(q, g, o))
  BY <1>1, AtTask
<1>m. Moves(s, u, n, g, t, act, NoChan, "none", Only(n, m), Only(c.b, v))
  BY <1>1, <1>2, NotAChannel DEF Moves, Only, Touches
<1>4. Step(s, u, n, g, t)
  BY <1>m, MoveStep
<1>5. q.main \in Node /\ CommandJ(q) /\ q.main # None /\ q.peers \in Seq(Node)
  BY <1>2, Request
<1>n. n # q.main => Up(s, n, g) # NoChan
  BY <1>5, NoneAssumption DEF Up, NoChan
<1>v. /\ v \in Message /\ v.c = c /\ v.kind \in {"level0", "level1"}
      /\ v.kind = "level0" <=> n = q.main
  BY <1>2, <1>n, Plain DEF Kinds, Level
<1>u. /\ u.req = s.req /\ Tk(u, n, g) = t /\ u.act[n] = act
      /\ \A k \in Node, h \in Sign : Tk(u, k, h) = IF k = n /\ h = g THEN t ELSE Tk(s, k, h)
      /\ \A d \in Chan : u.resp[d] = s.resp[d]
      /\ \A k \in Node : u.mail[k] = (s.mail[k] \ (IF k = n THEN {m} ELSE {})) \cup (IF k = c.b THEN {v} ELSE {})
  BY <1>1, NotAChannel DEF Move, Only
<1> HIDE DEF v, o, q
<1>6. Alike(o, t) /\ \A d : Read(t, d) = Read(o, d)
  BY <1>1, <1>2 DEF Alike, Read, Rounding, Over
<1>7. Opened(u, c)
  BY <1>2, <1>u DEF Opened
<1>8. Fresh(s, c.b, v)
  <2> SUFFICES ASSUME NEW w \in s.mail[c.b] PROVE May(w, v)
    BY DEF Fresh
  <2>1. w.kind # "payload"
    BY <1>1, <1>2, NoPayload DEF o
  <2>2. w.c = c => w.kind = "hello" \/ w.kind = "x"
    BY <1>2, NotOpened
  <2>3. w.c = c => Rank(w) < Rank(v)
    BY <2>2, <1>v DEF Rank
  <2>4. w.c # c /\ v.kind = "level0" => w.kind = "eof"
    BY <1>1, <1>2, <1>v, TopFirst DEF o, q
  <2>5. ~(w.c = c /\ v.kind = "level0")
    <3> SUFFICES ASSUME w.c = c PROVE FALSE
      OBVIOUS
    <3>1. w.kind \in {"hello", "x"} /\ Sound(s, c.b, w)
      BY <1>2, <2>2, AtMail
    <3> QED
      BY <1>2, <3>1 DEF Sound
  <2> QED
    BY <1>v, <2>1, <2>3, <2>4, <2>5 DEF May
<1>9. \A d \in Chan : d # c => LinkSame(s, u, d)
  <2> SUFFICES ASSUME NEW d \in Chan, d # c PROVE LinkSame(s, u, d)
    OBVIOUS
  <2>1. d.a = n /\ d.g = g => d.b # c.b
    BY <1>2 DEF Chan
  <2>2. d.a = n /\ d.g = g => (Opened(u, d) <=> Opened(s, d)) /\ (Waited(s, d) => Waited(u, d))
    BY <1>1, <1>2, <1>u, <2>1 DEF Opened, Waited, o
  <2>3. t.pc = "done" <=> o.pc = "done"
    BY <1>1, <1>2
  <2> QED
    <3>1. LikeEnds(s, u, n, g, t, d)
      BY <1>6, <1>u, <2>2, <2>3 DEF LikeEnds, o
    <3> QED
      BY <1>4, <3>1, LinkLike
<1>10. /\ StageJ(u, g) /\ AckJ(u, g)
       /\ \A d \in Chan : Link(s, d) => AckSame(s, u, d)
  <2>1. NoAck(Only(n, m))
    BY <1>1 DEF Only, NoAck
  <2>2. Steady(Tk(s, n, g), t)
    BY <1>1, <1>2, <1>6 DEF o, Steady
  <2> QED
    BY <1>2, <1>m, <2>1, <2>2, HushedMain
<1>11. MoveTask(s, u, n, g, t, act)
  <2>1. TaskJ(q, n, g, t)
    <3>1. \A i, j \in 1..Len(t.opened) : t.opened[i].b = t.opened[j].b => i = j
      <4>1. \A i \in 1..Len(o.opened) : o.opened[i].b # c.b
        BY <1>2 DEF Reached
      <4>2. \A i, j \in 1..Len(o.opened) : o.opened[i].b = o.opened[j].b => i = j
        BY <1>3 DEF TaskJ
      <4> QED
        BY <1>2, <4>1, <4>2
    <3>2. \A e \in Ran(t.opened) : e.a = n /\ e.g = g
      BY <1>2, <1>3 DEF TaskJ
    <3>3. /\ o.pc # "idle" => q.main # None /\ n \in q.nodes
          /\ o.pc = "connect" => o.round = 0 /\ o.asked = 0
          /\ o.from = IF n = q.main THEN NoChan ELSE [a |-> q.main, b |-> n, g |-> g]
      BY <1>1, <1>3 DEF TaskJ
    <3> QED
      BY <1>1, <1>2, <3>1, <3>2, <3>3 DEF TaskJ, Over
  <2>2. ConnectJ(q, n, g, t)
    BY <1>1, <1>2, <1>3 DEF ConnectJ
  <2>3. ReachJ(q, n, t) /\ ShareJ(t, act)
    BY <1>2 DEF ReachJ, ShareJ
  <2>4. n = q.main => MainJ(q, g, t)
    <3> SUFFICES ASSUME n = q.main PROVE MainJ(q, g, t)
      OBVIOUS
    <3>1. PICK l \in Nat : l = Len(o.opened)
      BY <1>2
    <3>2. /\ (l + 1) + Len(o.list) = Len(q.peers)
          /\ \A i \in 1..Len(o.list) : o.list[i] = q.peers[(l + 1) + i]
          /\ c.b = q.peers[l + 1]
          /\ \A i \in 1..l : i <= Len(q.peers) /\ o.opened[i].b = q.peers[i]
      BY <1>1, <1>2, <1>3, <3>1 DEF MainJ
    <3>3. /\ Len(t.opened) = l + 1 /\ t.opened[l + 1] = c
          /\ \A i \in 1..l : t.opened[i] = o.opened[i]
      BY <1>2, <3>1
    <3>4. Len(o.list) \in Nat /\ Len(q.peers) \in Nat
      <4>1. o.list \in Seq(Node)
        BY <1>3 DEF TaskJ, Task
      <4> QED
        BY <4>1, <1>5
    <3>5. l + 1 <= Len(q.peers)
      <4>1. PICK x \in Nat, y \in Nat : x = Len(o.list) /\ y = Len(q.peers)
        BY <3>4
      <4>2. (l + 1) + x = y
        BY <3>2, <4>1
      <4>3. \A a, b, d \in Nat : (a + 1) + b = d => a + 1 <= d
        OBVIOUS
      <4>4. l + 1 <= y
        BY <4>2, <4>3
      <4> QED
        BY <4>1, <4>4
    <3>6. \A i \in 1..(l + 1) : i <= Len(q.peers) /\ t.opened[i].b = q.peers[i]
      BY <3>1, <3>2, <3>3, <3>5
    <3>7. Len(t.opened) + 0 = l + 1
      BY <3>1, <3>3
    <3>8. Len(t.opened) + (IF t.wait = NoChan THEN 0 ELSE 1) = l + 1
      BY <1>2, <3>7
    <3>9. /\ (l + 1) + Len(t.list) = Len(q.peers)
          /\ \A i \in 1..Len(t.list) : t.list[i] = q.peers[(l + 1) + i]
          /\ \A i \in 1..Len(t.opened) : i <= Len(q.peers) /\ t.opened[i].b = q.peers[i]
      BY <1>2, <3>2, <3>3, <3>6
    <3> QED
      BY <1>2, <3>8, <3>9 DEF MainJ
  <2> QED
    BY <1>2, <1>10, <2>1, <2>2, <2>3, <2>4 DEF MoveTask, o, q
<1>12. Sound(u, c.b, v) /\ Alone(v, v)
  <2>1. Link(u, c)
    BY <1>2, <1>u DEF Link, Called
  <2> QED
    BY <1>2, <1>7, <1>u, <1>v, <2>1 DEF Sound, Alone, q
<1>13. MoveAct(u, n, act)
  <2>1. \A e \in Chan : Holds(u, n, e) <=> e = c \/ Holds(s, n, e)
    <3> TAKE e \in Chan
    <3>1. e.g \in Sign
      BY ChanFields
    <3>2. e.g = g \/ Tk(u, n, e.g) = Tk(s, n, e.g)
      BY <1>u, <3>1
    <3>3. CASE e.g = g
      <4>1. Tk(u, n, e.g) = t /\ Tk(s, n, e.g) = o
        BY <1>u, <3>3 DEF o
      <4>2. e \in Ran(t.opened) <=> e \in Ran(o.opened) \/ e = c
        BY <1>2
      <4>3. t.pc # "sleep2" /\ o.pc # "sleep2" /\ c.a = n /\ u.resp[e] = s.resp[e]
        BY <1>1, <1>2, <1>u
      <4> QED
        BY <4>1, <4>2, <4>3 DEF Holds
    <3>4. CASE e.g # g
      BY <1>2, <1>u, <3>2, <3>4 DEF Holds
    <3> QED
      BY <3>3, <3>4
  <2> QED
    BY <1>1, <1>2, <2>1, AtDictionary DEF MoveAct
<1>14. LinkJ(u, c)
  <2>0. Link(u, c)
    BY <1>2, <1>u DEF Link, Called
  <2>1. Tk(u, c.b, c.g) = Tk(s, c.b, c.g) /\ Tk(u, c.a, c.g) = t
    BY <1>2, <1>u
  <2>2. ChannelJ(u, c)
    BY <1>2, <1>7, <1>u, <2>0, <2>1 DEF ChannelJ, States, Waiting
  <2>3. SharesJ(u, c)
    <3>1. /\ Tk(u, c.b, c.g).round = 0 /\ Read(Tk(u, c.b, c.g), c) = 0
      BY <1>2, <2>1, ReadIs DEF Rounding, Over
    <3>2. t.round = 0 /\ Read(t, c) = 0
      BY <1>1, <1>2, <1>3 DEF TaskJ, Read, Over
    <3>3. \A k \in {c.a, c.b} : Read(Tk(u, k, c.g), c) = 0 /\ Tk(u, Other(k, c), c.g).round = 0
      BY <2>1, <3>1, <3>2 DEF Other
    <3> QED
      BY <3>3, BoundAssumption DEF SharesJ
  <2>4. LevelJ(u, c) /\ EofJ(u, c)
    BY <1>2, <1>u, <1>v DEF LevelJ, EofJ
  <2> QED
    BY <2>2, <2>3, <2>4 DEF LinkJ
<1>15. ASSUME NEW k \in Node, NEW w \in s.mail[k], w \notin Only(n, m)[k], w.c = c
       PROVE  Sound(u, k, w)
  <2>1. w.kind \in {"hello", "x"} /\ Sound(s, k, w)
    BY <1>2, <1>15, NotOpened, AtMail
  <2>2. w.kind = "x" /\ k = n
    BY <1>2, <1>15, <2>1 DEF Sound
  <2>3. w = m
    BY <1>1, <1>15, <2>2, AtMail DEF Alone
  <2> QED
    BY <1>15, <2>2, <2>3 DEF Only
<1>16. \A k \in Node : \A w \in Only(n, m)[k] : w.c = c
  BY <1>1 DEF Only
<1>17. \A k \in Node : \A w \in Only(c.b, v)[k] :
         /\ Sound(u, k, w) /\ Fresh(s, k, w)
         /\ \A x \in Only(c.b, v)[k] : Alone(w, x)
  BY <1>8, <1>12 DEF Only
<1>18. Mesh(u)
  <2>1. Hushed(s, u, n, g, t, act, NoChan, "none", Only(n, m), Only(c.b, v), c)
    BY <1>2, <1>m, <1>6, <1>9, <1>10, <1>11, <1>13, <1>14, <1>15, <1>16, <1>17, <1>u, NotAChannel DEF Hushed, o
  <2> QED
    BY <2>1, HushedMesh
<1> QED
  BY <1>8, <1>18 DEF v, o

-----------------------------------------------------------------------------
(* The main node asks the next peer, and gets its acknowledgement.         *)

(* The nodes after the k-th of the list of a command.                      *)
LEMMA AfterPeers ==
  ASSUME NEW q, CommandJ(q), q.main # None, q.peers \in Seq(Node), NEW k \in 1..Len(q.peers),
         NEW w, w = [i \in 1..(Len(q.peers) - k) |-> q.peers[k + i]]
  PROVE  /\ w \in Seq(Node) /\ Injective(w)
         /\ \A b : b \in Ran(w) <=> Before(q, q.peers[k], b)
<1>0. Len(q.peers) \in Nat
  OBVIOUS
<1>1. PICK l \in Nat : l = Len(q.peers)
  BY <1>0
<1>2. \A i \in 1..(l - k) : k + i \in 1..l /\ k < k + i
  BY <1>1
<1>3. l - k \in Nat
  BY <1>1
<1>4. w \in Seq(Node) /\ Len(w) = l - k
  BY <1>1, <1>2, <1>3
<1>5. Injective(w)
  <2> SUFFICES ASSUME NEW i \in 1..(l - k), NEW j \in 1..(l - k), w[i] = w[j] PROVE i = j
    BY <1>4 DEF Injective
  <2>1. q.peers[k + i] = q.peers[k + j] /\ k + i \in 1..l /\ k + j \in 1..l
    BY <1>1, <1>2
  <2>2. k + i = k + j
    BY <1>1, <2>1 DEF CommandJ, Injective
  <2> QED
    BY <2>2
<1>6. ASSUME NEW b PROVE b \in Ran(w) <=> Before(q, q.peers[k], b)
  <2>1. Before(q, q.peers[k], b) <=> \E j \in 1..Len(q.peers) : k < j /\ q.peers[j] = b
    BY BeforeAt
  <2>2. ASSUME NEW j \in 1..Len(q.peers), k < j, q.peers[j] = b PROVE b \in Ran(w)
    <3>1. j - k \in 1..(l - k) /\ k + (j - k) = j
      BY <1>1, <2>2
    <3>2. w[j - k] = b
      BY <1>1, <2>2, <3>1
    <3> QED
      BY <1>4, <3>1, <3>2 DEF Ran
  <2>3. ASSUME b \in Ran(w) PROVE \E j \in 1..Len(q.peers) : k < j /\ q.peers[j] = b
    <3>1. PICK i \in 1..(l - k) : w[i] = b
      BY <1>4, <2>3 DEF Ran
    <3>2. q.peers[k + i] = b /\ k + i \in 1..Len(q.peers) /\ k < k + i
      BY <1>1, <1>2, <3>1
    <3> QED
      BY <3>2
  <2> QED
    BY <2>1, <2>2, <2>3
<1> QED
  BY <1>4, <1>5, <1>6

-----------------------------------------------------------------------------
(* The main node sends its payload to the next peer.                       *)
AskNext(s, u, n, g, t, c, v) ==
  LET o == Tk(s, n, g)
      k == o.asked + 1
  IN  /\ n = s.req[g].main /\ o.wait = NoChan
      /\ \/ o.pc = "connect" /\ o.list = <<>>
         \/ o.pc = "ack" /\ o.asked < Len(o.opened)
      /\ c = o.opened[k]
      /\ t = [o EXCEPT !.pc = "ack", !.wait = c, !.asked = k]
      /\ v = [Msg(c, "payload") EXCEPT !.nodes = Rest(o, k)]
      /\ Move(s, u, n, g, t, s.act[n], NoChan, "none", Silent, Only(c.b, v))

LEMMA AskFacts ==
  ASSUME NEW s, Mesh(s), NEW u, NEW n \in Node, NEW g \in Sign, NEW t, NEW c, NEW v,
         AskNext(s, u, n, g, t, c, v)
  PROVE  LET o == Tk(s, n, g)
             q == s.req[g]
             k == o.asked + 1
         IN  /\ Called(s, g) /\ ~Settled(s, g) /\ o.pc \in {"connect", "ack"}
             /\ o.wait = NoChan /\ n = q.main
             /\ Len(o.opened) = Len(q.peers) /\ k \in 1..Len(q.peers)
             /\ o.opened \in Seq(Chan) /\ k \in Nat /\ Len(q.peers) \in Nat
             /\ \A i \in 1..Len(q.peers) : o.opened[i] = Up(s, q.peers[i], g)
             /\ \A b \in Node : Before(q, n, b) <=> b \in Reached(o)
             /\ c \in Chan /\ c.a = n /\ c.g = g /\ c.b = q.peers[k] /\ c.b \in Node
             /\ Link(s, c) /\ c # NoChan /\ Opened(s, c)
             /\ \A i \in 1..Len(q.peers) :
                  /\ i < k => Tk(s, q.peers[i], g).pc \in Rounding
                  /\ i >= k => Tk(s, q.peers[i], g).pc = "idle"
             /\ t \in Task /\ t.pc = "ack" /\ t.wait = c /\ t.asked = k
             /\ t.opened = o.opened /\ t.from = o.from /\ t.round = o.round
             /\ v \in Message /\ v.c = c /\ v.kind = "payload"
             /\ Injective(v.nodes) /\ \A b \in Node : b \in Ran(v.nodes) <=> Before(q, c.b, b)
<1> DEFINE o == Tk(s, n, g)
           q == s.req[g]
           k == o.asked + 1
<1>1. /\ n = q.main /\ o.wait = NoChan
      /\ \/ o.pc = "connect" /\ o.list = <<>>
         \/ o.pc = "ack" /\ o.asked < Len(o.opened)
      /\ c = o.opened[k]
      /\ t = [o EXCEPT !.pc = "ack", !.wait = c, !.asked = k]
      /\ v = [Msg(c, "payload") EXCEPT !.nodes = Rest(o, k)]
  BY DEF AskNext
<1>2. /\ ConnectJ(q, n, g, o) /\ ReachJ(q, n, o) /\ o \in Task /\ Called(s, g) /\ ~Settled(s, g)
      /\ TaskJ(q, n, g, o) /\ MainJ(q, g, o) /\ StageJ(s, g)
  BY <1>1, AtTask
<1>3. /\ CommandJ(q) /\ q.main # None /\ q.main \in Node /\ q.peers \in Seq(Node) /\ q.peers # <<>>
      /\ \A i \in 1..Len(q.peers) : q.peers[i] \in Node
      /\ \A i \in 1..Len(q.peers) : q.peers[i] \in Ran(q.peers)
  BY <1>2, Request DEF CommandJ, Called
<1> HIDE DEF q, o
<1>4. o.opened \in Seq(Chan) /\ o.asked \in Nat /\ Len(q.peers) \in Nat /\ Len(q.peers) >= 1
      /\ Len(o.opened) \in Nat
  BY <1>2, <1>3 DEF Task
<1>5. ASSUME o.pc = "connect"
      PROVE  /\ Len(o.opened) = Len(q.peers) /\ k \in 1..Len(q.peers)
             /\ \A i \in 1..Len(q.peers) : o.opened[i].b = q.peers[i]
             /\ \A b \in Node : Before(q, n, b) <=> b \in Reached(o)
             /\ \A i \in 1..Len(q.peers) :
                  /\ i < k => Tk(s, q.peers[i], g).pc \in Rounding
                  /\ i >= k => Tk(s, q.peers[i], g).pc = "idle"
  <2>1. o.asked = 0 /\ o.list = <<>> /\ Len(o.list) = 0
    BY <1>1, <1>2, <1>5 DEF TaskJ
  <2>2. (Len(o.opened) + (IF o.wait = NoChan THEN 0 ELSE 1)) + Len(o.list) = Len(q.peers)
    BY <1>2, <1>5 DEF MainJ
  <2>3. (Len(o.opened) + 0) + 0 = Len(q.peers)
    BY <1>1, <2>1, <2>2
  <2>4. Len(o.opened) = Len(q.peers)
    BY <1>4, <2>3
  <2>5. k = 1 /\ k \in 1..Len(q.peers)
    BY <1>4, <2>1
  <2>6. \A i \in 1..Len(q.peers) : Tk(s, q.peers[i], g).pc = "idle"
    BY <1>1, <1>2, <1>3, <1>5 DEF StageJ, q, o
  <2>7. \A b \in Node : Before(q, n, b) <=> b \in Reached(o)
    BY <1>1, <1>2, <1>5, <2>1 DEF ConnectJ, Ran
  <2>8. \A i \in 1..Len(q.peers) : o.opened[i].b = q.peers[i]
    BY <1>2, <1>5, <2>4 DEF MainJ
  <2>9. \A i \in 1..Len(q.peers) :
           /\ i < k => Tk(s, q.peers[i], g).pc \in Rounding
           /\ i >= k => Tk(s, q.peers[i], g).pc = "idle"
    BY <2>5, <2>6
  <2> HIDE DEF k
  <2> QED
    BY <2>4, <2>5, <2>7, <2>8, <2>9
<1>6. ASSUME o.pc = "ack"
      PROVE  /\ Len(o.opened) = Len(q.peers) /\ k \in 1..Len(q.peers)
             /\ \A i \in 1..Len(q.peers) : o.opened[i].b = q.peers[i]
             /\ \A b \in Node : Before(q, n, b) <=> b \in Reached(o)
             /\ \A i \in 1..Len(q.peers) :
                  /\ i < k => Tk(s, q.peers[i], g).pc \in Rounding
                  /\ i >= k => Tk(s, q.peers[i], g).pc = "idle"
  <2>1. Len(o.opened) = Len(q.peers) /\ o.asked \in 1..Len(q.peers)
    BY <1>2, <1>6 DEF MainJ
  <2>2. k \in 1..Len(q.peers)
    BY <1>1, <1>4, <1>6, <2>1
  <2>3. \A i \in 1..Len(q.peers) :
           /\ i < o.asked => Tk(s, q.peers[i], g).pc \in Rounding
           /\ i > o.asked => Tk(s, q.peers[i], g).pc = "idle"
           /\ i = o.asked => Tk(s, q.peers[i], g).pc \in Rounding
    BY <1>1, <1>2, <1>6 DEF StageJ, q, o
  <2>4. \A i \in 1..Len(q.peers) :
           /\ i < k => Tk(s, q.peers[i], g).pc \in Rounding
           /\ i >= k => Tk(s, q.peers[i], g).pc = "idle"
    <3> TAKE i \in 1..Len(q.peers)
    <3>1. i < k => i < o.asked \/ i = o.asked
      BY <1>4
    <3>2. i >= k => i > o.asked
      BY <1>4
    <3> HIDE DEF k
    <3> QED
      BY <2>3, <3>1, <3>2
  <2>5. \A b \in Node : Before(q, n, b) <=> b \in Reached(o)
    BY <1>2, <1>6 DEF ReachJ
  <2>6. \A i \in 1..Len(q.peers) : o.opened[i].b = q.peers[i]
    BY <1>2, <1>6, <2>1 DEF MainJ
  <2> QED
    BY <2>1, <2>2, <2>4, <2>5, <2>6
<1>7. /\ Len(o.opened) = Len(q.peers) /\ k \in 1..Len(q.peers)
      /\ \A i \in 1..Len(q.peers) : o.opened[i].b = q.peers[i]
      /\ \A b \in Node : Before(q, n, b) <=> b \in Reached(o)
      /\ \A i \in 1..Len(q.peers) :
           /\ i < k => Tk(s, q.peers[i], g).pc \in Rounding
           /\ i >= k => Tk(s, q.peers[i], g).pc = "idle"
  BY <1>1, <1>5, <1>6
<1>8. \A i \in 1..Len(q.peers) : o.opened[i] \in Chan /\ o.opened[i] = Up(s, q.peers[i], g)
  <2> TAKE i \in 1..Len(q.peers)
  <2>1. o.opened[i] \in Ran(o.opened) /\ o.opened[i] \in Chan
    BY <1>4, <1>7 DEF Ran
  <2>2. o.opened[i].a = q.main /\ o.opened[i].g = g /\ o.opened[i].b = q.peers[i]
    BY <1>1, <1>2, <1>7, <2>1 DEF TaskJ
  <2> QED
    BY <2>1, <2>2 DEF Up, Chan, q
<1>9. /\ c \in Chan /\ c.a = n /\ c.g = g /\ c.b = q.peers[k] /\ c.b \in Node
  <2> HIDE DEF k
  <2>1. c \in Chan /\ c = Up(s, q.peers[k], g)
    BY <1>1, <1>7, <1>8
  <2>2. \A b : Up(s, b, g) = [a |-> n, b |-> b, g |-> g]
    BY <1>1 DEF Up, q
  <2> QED
    BY <1>3, <1>7, <2>1, <2>2
<1>10. /\ k \in Nat /\ c.b \in Reached(o)
  <2>1. k \in Nat
    BY <1>4
  <2> HIDE DEF k
  <2> QED
    BY <1>1, <1>7, <2>1 DEF Reached
<1>11. Link(s, c) /\ c # NoChan /\ Opened(s, c)
  <2>1. Before(q, n, c.b)
    BY <1>7, <1>9, <1>10
  <2>2. c # NoChan
    BY <1>9, NotAChannel
  <2> QED
    BY <1>2, <1>9, <1>10, <2>1, <2>2 DEF Link, Opened, q, o
<1>12. /\ t \in Task /\ t.pc = "ack" /\ t.wait = c /\ t.asked = k
       /\ t.opened = o.opened /\ t.from = o.from /\ t.round = o.round
  <2> HIDE DEF k
  <2> QED
    BY <1>1, <1>2, <1>9, <1>10 DEF Task
<1>13. Rest(o, k) = [i \in 1..(Len(q.peers) - k) |-> q.peers[k + i]]
  <2>1. \A i \in 1..(Len(q.peers) - k) : k + i \in 1..Len(q.peers)
    BY <1>4, <1>7, <1>10
  <2> HIDE DEF k
  <2>2. \A i \in 1..(Len(q.peers) - k) : o.opened[k + i].b = q.peers[k + i]
    BY <1>7, <2>1
  <2> QED
    BY <1>7, <2>2 DEF Rest
<1>14. /\ Rest(o, k) \in Seq(Node) /\ Injective(Rest(o, k))
       /\ \A b : b \in Ran(Rest(o, k)) <=> Before(q, q.peers[k], b)
  <2>1. PICK w : w = Rest(o, k)
    OBVIOUS
  <2>2. PICK j : j = k
    OBVIOUS
  <2>3. /\ CommandJ(q) /\ q.main # None /\ q.peers \in Seq(Node) /\ j \in 1..Len(q.peers)
        /\ w = [i \in 1..(Len(q.peers) - j) |-> q.peers[j + i]]
    BY <1>3, <1>7, <1>13, <2>1, <2>2
  <2>4. /\ w \in Seq(Node) /\ Injective(w)
        /\ \A b : b \in Ran(w) <=> Before(q, q.peers[j], b)
    BY ONLY <2>3, AfterPeers
  <2> QED
    BY <2>1, <2>2, <2>4
<1>15. /\ v \in Message /\ v.c = c /\ v.kind = "payload" /\ v.nodes = Rest(o, k)
  <2> HIDE DEF k
  <2> QED
    BY <1>1, <1>9, <1>14, BoundAssumption DEF Msg, Message, Kinds
<1> HIDE DEF k
<1>16. Injective(v.nodes) /\ \A b \in Node : b \in Ran(v.nodes) <=> Before(q, c.b, b)
  BY <1>9, <1>14, <1>15
<1>17. \A i \in 1..Len(q.peers) : o.opened[i] = Up(s, q.peers[i], g)
  BY <1>8
<1>18. o.pc \in {"connect", "ack"} /\ o.wait = NoChan /\ n = q.main
  BY <1>1
<1> QED
  BY <1>2, <1>4, <1>7, <1>9, <1>10, <1>11, <1>12, <1>15, <1>16, <1>17, <1>18 DEF k, o, q

(* A task of the main node alone waits for an acknowledgement.             *)
LEMMA MainAck ==
  ASSUME NEW s, NEW u, Mesh(s), NEW n \in Node, NEW g \in Sign, NEW t, Step(s, u, n, g, t),
         NEW d \in Chan, Link(s, d), n = s.req[g].main,
         d.g = g => Tk(s, n, g).wait # d
  PROVE  AckSame(s, u, d)
<1>1. s.req[d.g].main \in Node /\ d.g \in Sign
  BY LinkIs, Request, ChanFields
<1>2. CASE d.g = g
  BY <1>2 DEF AckSame
<1>3. CASE d.g # g
  <2>1. Tk(u, s.req[d.g].main, d.g) = Tk(s, s.req[d.g].main, d.g)
    BY <1>1, <1>3 DEF Step
  <2> QED
    BY <2>1 DEF AckSame
<1> QED
  BY <1>2, <1>3

LEMMA AskMoves ==
  ASSUME NEW s, Mesh(s), NEW u, NEW n \in Node, NEW g \in Sign, NEW t, NEW c, NEW v,
         AskNext(s, u, n, g, t, c, v)
  PROVE  Mesh(u) /\ Fresh(s, c.b, v)
<1> DEFINE o == Tk(s, n, g)
           q == s.req[g]
           k == o.asked + 1
<1>1. Move(s, u, n, g, t, s.act[n], NoChan, "none", Silent, Only(c.b, v))
  BY DEF AskNext
<1>2. /\ Called(s, g) /\ ~Settled(s, g) /\ o.pc \in {"connect", "ack"}
      /\ o.wait = NoChan /\ n = q.main
      /\ Len(o.opened) = Len(q.peers) /\ k \in 1..Len(q.peers)
      /\ o.opened \in Seq(Chan) /\ k \in Nat /\ Len(q.peers) \in Nat
      /\ \A i \in 1..Len(q.peers) : o.opened[i] = Up(s, q.peers[i], g)
      /\ \A b \in Node : Before(q, n, b) <=> b \in Reached(o)
      /\ c \in Chan /\ c.a = n /\ c.g = g /\ c.b = q.peers[k] /\ c.b \in Node
      /\ Link(s, c) /\ c # NoChan /\ Opened(s, c)
      /\ \A i \in 1..Len(q.peers) :
           /\ i < k => Tk(s, q.peers[i], g).pc \in Rounding
           /\ i >= k => Tk(s, q.peers[i], g).pc = "idle"
      /\ t \in Task /\ t.pc = "ack" /\ t.wait = c /\ t.asked = k
      /\ t.opened = o.opened /\ t.from = o.from /\ t.round = o.round
      /\ v \in Message /\ v.c = c /\ v.kind = "payload"
      /\ Injective(v.nodes) /\ \A b \in Node : b \in Ran(v.nodes) <=> Before(q, c.b, b)
  BY AskFacts
<1>3. /\ TaskJ(q, n, g, o) /\ StageJ(s, g) /\ AckJ(s, g)
  BY <1>2, AtTask
<1>r. \A i \in 1..Len(q.peers) : q.peers[i] \in Node
  BY <1>2, Request
<1>m. Moves(s, u, n, g, t, s.act[n], NoChan, "none", Silent, Only(c.b, v))
  BY <1>1, NotAChannel DEF Moves, Silent
<1>4. Step(s, u, n, g, t)
  BY <1>m, MoveStep
<1>u. /\ u.req = s.req /\ Tk(u, n, g) = t /\ u.act[n] = s.act[n]
      /\ \A p \in Node, h \in Sign : Tk(u, p, h) = IF p = n /\ h = g THEN t ELSE Tk(s, p, h)
      /\ \A d \in Chan : u.resp[d] = s.resp[d]
      /\ \A p \in Node : u.mail[p] = s.mail[p] \cup (IF p = c.b THEN {v} ELSE {})
  BY <1>1, NotAChannel DEF Move, Silent, Only
<1> HIDE DEF k, o, q
<1>5. Alike(o, t) /\ \A d : Read(t, d) = Read(o, d)
  BY <1>2 DEF Alike, Read, Rounding, Over
<1>6. c.b # n /\ Tk(s, c.b, g).pc = "idle"
  BY <1>2, ChanFields
<1>8. Fresh(s, c.b, v)
  <2> SUFFICES ASSUME NEW w \in s.mail[c.b] PROVE May(w, v)
    BY DEF Fresh
  <2>1. CASE w.c = c
    <3>1. Sound(s, c.b, w) /\ w \in Message
      BY <1>2, AtMail
    <3>2. o.wait # c /\ o.pc \notin Rounding
      BY <1>2 DEF Rounding, Over
    <3>3. w.kind \notin {"payload", "ack"}
      BY <1>2, <2>1, <3>1, <3>2 DEF Sound, o, q
    <3>4. w.kind # "share"
      BY <1>2, <2>1, <3>2, ShareFrom DEF Other, o
    <3>5. w.kind # "eof"
      <4>1. n \in s.req[c.g].nodes
        BY <1>2, LinkIs
      <4> QED
        BY <1>2, <2>1, <3>2, <4>1, EofAll DEF o
    <3>6. Rank(w) < Rank(v)
      BY <1>2, <3>1, <3>3, <3>4, <3>5 DEF Rank, Message, Kinds
    <3> QED
      BY <1>2, <3>6 DEF May
  <2>2. CASE w.c # c
    BY <1>2, <2>2 DEF May
  <2> QED
    BY <2>1, <2>2
<1>9. \A d \in Chan : LinkSame(s, u, d)
  <2> TAKE d \in Chan
  <2>1. d.a = n /\ d.g = g => (Opened(u, d) <=> Opened(s, d)) /\ (Waited(s, d) => Waited(u, d))
    BY <1>2, <1>u, NotAChannel DEF Opened, Waited, Reached, Rounding, Over, o
  <2>2. t.pc = "done" <=> o.pc = "done"
    BY <1>2
  <2> QED
    <3>1. LikeEnds(s, u, n, g, t, d)
      BY <1>5, <1>u, <2>1, <2>2 DEF LikeEnds, o
    <3> QED
      BY <1>4, <3>1, LinkLike
<1>10. \A d \in Chan : Link(s, d) => AckSame(s, u, d)
  BY <1>2, <1>4, MainAck, NotAChannel DEF o, q
<1>11. StageJ(u, g) /\ AckJ(u, g)
  <2>1. \A i \in 1..Len(q.peers) : Tk(u, q.peers[i], g) = Tk(s, q.peers[i], g)
    <3> TAKE i \in 1..Len(q.peers)
    <3>1. q.peers[i] # n
      BY <1>2, Request DEF q
    <3> QED
      BY <1>r, <1>u, <3>1
  <2>2. Tk(u, q.main, g) = t /\ u.req[g] = q
    BY <1>2, <1>u DEF q
  <2>3. StageJ(u, g)
    <3>1. t.pc = "ack" /\ t.asked = k /\ t.wait # NoChan
      BY <1>2
    <3>2. t.pc \notin Rounding /\ t.pc # "connect"
      BY <3>1 DEF Rounding, Over
    <3>3. \A i \in 1..Len(q.peers) :
            /\ i < k => Tk(u, q.peers[i], g).pc \in Rounding
            /\ i > k => Tk(u, q.peers[i], g).pc = "idle"
      <4> TAKE i \in 1..Len(q.peers)
      <4>1. i > k => i >= k
        BY <1>2
      <4> QED
        BY <1>2, <2>1, <4>1
    <3> QED
      BY <2>2, <3>1, <3>2, <3>3 DEF StageJ
  <2>4. Tk(u, c.b, g).pc = "idle"
    BY <1>2, <1>6, <1>u
  <2> QED
    BY <1>2, <2>2, <2>3, <2>4 DEF AckJ, Rounding, Over
<1>15. MoveTask(s, u, n, g, t, s.act[n])
  <2>1. TaskJ(q, n, g, t)
    BY <1>2, <1>3 DEF TaskJ, Over
  <2>2. ConnectJ(q, n, g, t) /\ ShareJ(t, s.act[n])
    BY <1>2 DEF ConnectJ, ShareJ
  <2>3. ReachJ(q, n, t)
    BY <1>2 DEF ReachJ, Reached
  <2>4. MainJ(q, g, t)
    <3>1. \A i \in 1..Len(q.peers) : o.opened[i].b = q.peers[i]
      <4> TAKE i \in 1..Len(q.peers)
      <4>1. o.opened[i] = [a |-> s.req[g].main, b |-> q.peers[i], g |-> g]
        BY <1>2 DEF Up
      <4> QED
        BY <4>1
    <3>2. c = [a |-> q.main, b |-> q.peers[k], g |-> g]
      BY <1>2 DEF Chan
    <3> QED
      BY <1>2, <3>1, <3>2 DEF MainJ, Rounding, Over
  <2> QED
    BY <1>2, <1>11, <2>1, <2>2, <2>3, <2>4 DEF MoveTask, o, q
<1>16. Sound(u, c.b, v) /\ Alone(v, v)
  <2>1. Link(u, c) /\ u.req[g] = q
    BY <1>2, <1>u DEF Link, Called, q
  <2>2. Tk(u, c.b, g).pc = "idle" /\ Tk(u, n, g) = t
    BY <1>2, <1>6, <1>u
  <2> QED
    BY <1>2, <2>1, <2>2 DEF Sound, Alone
<1>17. MoveAct(u, n, s.act[n])
  <2>1. \A e \in Chan : Holds(u, n, e) <=> Holds(s, n, e)
    BY <1>2, <1>4, <1>u, AlikeHolds DEF o
  <2> QED
    BY <2>1, AtDictionary DEF MoveAct
<1>18. Mesh(u)
  <2>1. \A p \in Node : Silent[p] = {}
    BY DEF Silent
  <2>2. \A p \in Node : \A w \in Only(c.b, v)[p] :
         /\ Sound(u, p, w) /\ Fresh(s, p, w)
         /\ \A x \in Only(c.b, v)[p] : Alone(w, x)
    BY <1>8, <1>16 DEF Only
  <2>3. \A p \in Node : \A m \in s.mail[p] : m.c # NoChan
    BY AtMail, NotAChannel
  <2>4. Hushed(s, u, n, g, t, s.act[n], NoChan, "none", Silent, Only(c.b, v), NoChan)
    BY <1>2, <1>m, <1>5, <1>9, <1>10, <1>15, <1>17, <1>u, <2>1, <2>2, <2>3, NotAChannel DEF Hushed, o
  <2> QED
    BY <2>4, HushedMesh
<1> QED
  BY <1>8, <1>18

-----------------------------------------------------------------------------
(* The main node gets an acknowledgement.                                  *)
AckRead(s, u, n, g, t, c, m) ==
  LET o == Tk(s, n, g)
  IN  /\ o.pc = "ack" /\ o.wait = c /\ m \in s.mail[n] /\ m.c = c /\ m.kind = "ack"
      /\ t = [o EXCEPT !.wait = NoChan]
      /\ Move(s, u, n, g, t, s.act[n], NoChan, "none", Only(n, m), Silent)

LEMMA AckReadMoves ==
  ASSUME NEW s, Mesh(s), NEW u, NEW n \in Node, NEW g \in Sign, NEW t, NEW c, NEW m,
         AckRead(s, u, n, g, t, c, m)
  PROVE  Mesh(u)
<1> DEFINE o == Tk(s, n, g)
           q == s.req[g]
<1>1. /\ o.pc = "ack" /\ o.wait = c /\ m \in s.mail[n] /\ m.c = c /\ m.kind = "ack"
      /\ t = [o EXCEPT !.wait = NoChan]
      /\ Move(s, u, n, g, t, s.act[n], NoChan, "none", Only(n, m), Silent)
  BY DEF AckRead
<1>2. /\ ReachJ(q, n, o) /\ o \in Task /\ Called(s, g) /\ ~Settled(s, g)
      /\ TaskJ(q, n, g, o) /\ n = q.main /\ MainJ(q, g, o) /\ StageJ(s, g)
  <2>1. /\ ReachJ(q, n, o) /\ o \in Task /\ Called(s, g) /\ ~Settled(s, g)
        /\ TaskJ(q, n, g, o) /\ StageJ(s, g) /\ (n = q.main => MainJ(q, g, o))
    BY <1>1, AtTask
  <2>2. n = q.main
    BY <1>1, <2>1 DEF TaskJ
  <2> QED
    BY <2>1, <2>2
<1>3. Sound(s, n, m) /\ c \in Chan /\ Link(s, c)
  BY <1>1, AtMail
<1>4. c # NoChan /\ q.peers \in Seq(Node) /\ \A i \in 1..Len(q.peers) : q.peers[i] \in Node /\ q.peers[i] # n
  BY <1>2, <1>3, NotAChannel, Request
<1>5. /\ o.asked \in 1..Len(q.peers)
      /\ c = [a |-> q.main, b |-> q.peers[o.asked], g |-> g]
  BY <1>1, <1>2, <1>4 DEF MainJ
<1>6. c.a = n /\ c.g = g /\ c.b = q.peers[o.asked] /\ c.b \in Node /\ c.b # n
  BY <1>2, <1>4, <1>5
<1>7. Tk(s, c.b, g).pc \in Rounding
  BY <1>1, <1>3, <1>6 DEF Sound
<1>m. Moves(s, u, n, g, t, s.act[n], NoChan, "none", Only(n, m), Silent)
  BY <1>1, <1>6, NotAChannel DEF Moves, Only, Touches
<1>s. Step(s, u, n, g, t)
  BY <1>m, MoveStep
<1>u. /\ u.req = s.req /\ Tk(u, n, g) = t /\ u.act[n] = s.act[n]
      /\ \A p \in Node, h \in Sign : Tk(u, p, h) = IF p = n /\ h = g THEN t ELSE Tk(s, p, h)
      /\ \A d \in Chan : u.resp[d] = s.resp[d]
      /\ \A p \in Node : u.mail[p] = s.mail[p] \ (IF p = n THEN {m} ELSE {})
  BY <1>1, NotAChannel DEF Move, Silent, Only
<1> HIDE DEF o, q
<1>8. /\ t \in Task /\ t.pc = "ack" /\ t.wait = NoChan /\ t.asked = o.asked
      /\ t.opened = o.opened /\ t.from = o.from /\ t.round = o.round
  BY <1>1, <1>2 DEF Task
<1>9. Alike(o, t) /\ \A d : Read(t, d) = Read(o, d)
  BY <1>1, <1>8 DEF Alike, Read, Rounding, Over
<1>10. \A d \in Chan : LinkSame(s, u, d)
  <2> TAKE d \in Chan
  <2>1. d.a = n /\ d.g = g => (Opened(u, d) <=> Opened(s, d)) /\ (Waited(s, d) => Waited(u, d))
    <3> SUFFICES ASSUME d.a = n, d.g = g
                 PROVE  (Opened(u, d) <=> Opened(s, d)) /\ (Waited(s, d) => Waited(u, d))
      OBVIOUS
    <3>1. Tk(u, d.a, d.g) = t /\ Tk(s, d.a, d.g) = o
      BY <1>u DEF o
    <3>2. Reached(t) = Reached(o) /\ t.pc = o.pc /\ o.pc = "ack"
      BY <1>1, <1>8 DEF Reached
    <3> QED
      BY <3>1, <3>2 DEF Opened, Waited
  <2>2. t.pc = "done" <=> o.pc = "done"
    BY <1>1, <1>8
  <2> QED
    <3>1. LikeEnds(s, u, n, g, t, d)
      BY <1>9, <1>u, <2>1, <2>2 DEF LikeEnds, o
    <3> QED
      BY <1>s, <3>1, LinkLike
<1>11. \A d \in Chan : d # c /\ Link(s, d) => AckSame(s, u, d)
  BY <1>1, <1>2, <1>s, MainAck DEF o, q
<1>12. StageJ(u, g) /\ AckJ(u, g)
  <2>1. \A i \in 1..Len(q.peers) : Tk(u, q.peers[i], g) = Tk(s, q.peers[i], g)
    BY <1>4, <1>u
  <2>2. Tk(u, q.main, g) = t /\ u.req[g] = q
    BY <1>2, <1>u DEF q
  <2>3. \A i \in 1..Len(q.peers) :
          /\ i < o.asked => Tk(s, q.peers[i], g).pc \in Rounding
          /\ i > o.asked => Tk(s, q.peers[i], g).pc = "idle"
          /\ i = o.asked => Tk(s, q.peers[i], g).pc \in Rounding
    BY <1>1, <1>2, <1>6, <1>7 DEF StageJ, q, o
  <2>4. t.pc \notin Rounding /\ t.pc # "connect"
    BY <1>8 DEF Rounding, Over
  <2>5. StageJ(u, g)
    BY <1>8, <2>1, <2>2, <2>3, <2>4 DEF StageJ
  <2> QED
    BY <1>8, <2>2, <2>5 DEF AckJ
<1>15. MoveTask(s, u, n, g, t, s.act[n])
  <2>1. TaskJ(q, n, g, t)
    BY <1>1, <1>2, <1>8 DEF TaskJ, Over
  <2>2. ConnectJ(q, n, g, t) /\ ShareJ(t, s.act[n])
    BY <1>8 DEF ConnectJ, ShareJ
  <2>3. ReachJ(q, n, t)
    BY <1>1, <1>2, <1>8 DEF ReachJ, Reached
  <2>4. MainJ(q, g, t)
    BY <1>1, <1>2, <1>8 DEF MainJ, Rounding, Over
  <2> QED
    BY <1>8, <1>12, <2>1, <2>2, <2>3, <2>4 DEF MoveTask, o, q
<1>17. MoveAct(u, n, s.act[n])
  <2>1. \A e \in Chan : Holds(u, n, e) <=> Holds(s, n, e)
    BY <1>1, <1>8, <1>s, <1>u, AlikeHolds DEF o
  <2> QED
    BY <2>1, AtDictionary DEF MoveAct
<1>18. ASSUME NEW k \in Node, NEW w \in s.mail[k], w \notin Only(n, m)[k], w.c = c
       PROVE  Sound(u, k, w)
  <2>1. Sound(s, k, w) /\ k \in {c.a, c.b} /\ w \in Message
    BY <1>18, AtMail
  <2>2. w.kind # "ack"
    <3> SUFFICES ASSUME w.kind = "ack" PROVE FALSE
      OBVIOUS
    <3>1. k = n
      BY <1>6, <1>18, <2>1 DEF Sound
    <3>2. w = m
      BY <1>1, <1>18, <3>1, AtMail DEF Alone
    <3> QED
      BY <1>18, <3>1, <3>2 DEF Only
  <2>3. w.kind # "payload"
    BY <1>6, <1>7, <1>18, <2>1 DEF Sound, Rounding, Over
  <2> QED
    BY <1>3, <1>9, <1>10, <1>18, <1>s, <2>2, <2>3, AlikeSound DEF o
<1>19. LinkJ(u, c)
  <2>1. MailKept(s, u, c)
    BY <1>1, <1>3, <1>u, ChanFields DEF MailKept
  <2>2. UpSame(s, u, c)
    BY <1>3, <1>u, UpAll
  <2> QED
    BY <1>3, <1>9, <1>10, <1>s, <1>u, <2>1, <2>2, AlikeLink DEF o
<1>20. \A k \in Node : \A w \in Only(n, m)[k] : w.c = c
  BY <1>1 DEF Only
<1>21. \A k \in Node : Silent[k] = {}
  BY DEF Silent
<1> QED
  <2>1. Hushed(s, u, n, g, t, s.act[n], NoChan, "none", Only(n, m), Silent, c)
    BY <1>2, <1>3, <1>m, <1>9, <1>10, <1>11, <1>15, <1>17, <1>18, <1>19, <1>20, <1>21, <1>u, NotAChannel DEF Hushed, o
  <2> QED
    BY <2>1, HushedMesh

-----------------------------------------------------------------------------
(* A peer reads its payload.                                               *)

LEMMA SharesKept ==
  ASSUME NEW s, NEW u, NEW d, SharesJ(s, d), SameRounds(s, u, d), MailKept(s, u, d)
  PROVE  SharesJ(u, d)
<1>1. \A k \in {d.a, d.b} : Other(k, d) \in {d.a, d.b}
  BY DEF Other
<1> QED
  BY <1>1 DEF SharesJ, SameRounds, MailKept

LEMMA NotLinked ==
  ASSUME NEW s, Mesh(s), NEW u, NEW d \in Chan, ~Link(s, d), u.req = s.req, u.resp[d] = s.resp[d]
  PROVE  LinkJ(u, d)
<1>1. ~Link(u, d)
  BY DEF Link, Called
<1> QED
  BY <1>1, AtLink DEF LinkJ, ChannelJ

(* A peer is told which nodes to connect to; those before it are already   *)
(* connected to it.                                                        *)
PayloadRead(s, u, n, g, t, c, m) ==
  /\ c.b = n /\ c.g = g /\ s.resp[c] = "payload" /\ m \in s.mail[n] /\ m.c = c /\ m.kind = "payload"
  /\ \A d \in Chan : Link(s, d) /\ d.b = n /\ d.g = g /\ d # c => s.resp[d] = "hold"
  /\ t = [Idle EXCEPT !.pc = "connect", !.from = c, !.list = m.nodes]
  /\ Move(s, u, n, g, t, s.act[n], c, "sign", Only(n, m), Silent)

LEMMA PayloadFacts ==
  ASSUME NEW s, Mesh(s), NEW u, NEW n \in Node, NEW g \in Sign, NEW t, NEW c, NEW m,
         PayloadRead(s, u, n, g, t, c, m)
  PROVE  LET o == Tk(s, n, g)
             q == s.req[g]
             p == Tk(s, q.main, g)
         IN  /\ c \in Chan /\ Link(s, c) /\ c.a = q.main /\ q.main \in Node /\ n # q.main
             /\ c = Up(s, n, g) /\ c # NoChan /\ Opened(s, c) /\ ~Waited(s, c)
             /\ p.pc = "ack" /\ p.wait = c /\ p.asked \in 1..Len(q.peers)
             /\ q.peers[p.asked] = n /\ q.peers \in Seq(Node) /\ Injective(q.peers)
             /\ o.pc = "idle" /\ o.round = 0 /\ o.opened = <<>>
             /\ t \in Task /\ t.pc = "connect" /\ t.wait = NoChan /\ t.list = m.nodes
             /\ t.from = c /\ t.round = 0 /\ t.asked = 0 /\ t.opened = <<>>
             /\ Injective(m.nodes)
             /\ \A b \in Node : b \in Ran(m.nodes) <=> Before(q, n, b)
             /\ Called(s, g) /\ ~Settled(s, g) /\ n \in q.nodes
<1> DEFINE o == Tk(s, n, g)
           q == s.req[g]
           p == Tk(s, q.main, g)
<1>1. /\ c.b = n /\ c.g = g /\ s.resp[c] = "payload" /\ m \in s.mail[n] /\ m.c = c /\ m.kind = "payload"
      /\ t = [Idle EXCEPT !.pc = "connect", !.from = c, !.list = m.nodes]
  BY DEF PayloadRead
<1>2. Sound(s, n, m) /\ c \in Chan /\ Link(s, c) /\ m \in Message
  BY <1>1, AtMail
<1>3. Called(s, g) /\ q.main \in Node /\ q.peers \in Seq(Node) /\ Injective(q.peers)
      /\ \A i \in 1..Len(q.peers) : q.peers[i] \in Node
  BY <1>1, <1>2, LinkIs, Request DEF CommandJ
<1>4. /\ c.a = q.main /\ p.pc = "ack" /\ p.wait = c /\ o.pc = "idle"
      /\ Injective(m.nodes)
      /\ \A b \in Node : b \in Ran(m.nodes) <=> Before(q, n, b)
  BY <1>1, <1>2 DEF Sound
<1>5. /\ MainJ(q, g, p) /\ ~Settled(s, g) /\ TaskJ(q, n, g, o) /\ ReachJ(q, q.main, p)
  <2>1. MainJ(q, g, p) /\ ~Settled(s, g) /\ ReachJ(q, q.main, p)
    BY <1>3, <1>4, AtTask
  <2>2. TaskJ(q, n, g, o)
    BY AtTask
  <2> QED
    BY <2>1, <2>2
<1>6. n # q.main /\ c = Up(s, n, g) /\ n \in q.nodes
  BY <1>1, <1>2, <1>4, LinkIs, Request, ChanFields DEF Up, Chan
<1>7. c # NoChan
  BY <1>2, NotAChannel
<1> HIDE DEF o, q, p
<1>8. p.asked \in 1..Len(q.peers) /\ q.peers[p.asked] = n
  <2>1. p.asked \in 1..Len(q.peers) /\ c = [a |-> q.main, b |-> q.peers[p.asked], g |-> g]
    BY <1>4, <1>5, <1>7 DEF MainJ
  <2> QED
    BY <1>1, <2>1
<1>9. o.round = 0 /\ o.opened = <<>>
  BY <1>4, <1>5 DEF TaskJ
<1>10. Opened(s, c)
  <2>1. Before(q, q.main, n)
    BY <1>1, <1>2, <1>4 DEF Link, q
  <2>2. n \in Reached(p)
    BY <1>4, <1>5, <2>1 DEF ReachJ
  <2> QED
    BY <1>1, <1>4, <2>2 DEF Opened, p, q
<1>11. ~Waited(s, c)
  BY <1>2, <1>10, NotBoth
<1>12. /\ t.pc = "connect" /\ t.wait = NoChan /\ t.list = m.nodes
       /\ t.from = c /\ t.round = 0 /\ t.asked = 0 /\ t.opened = <<>>
       /\ t \in Task
  <2>1. t = [pc |-> "connect", wait |-> NoChan, from |-> c, list |-> m.nodes, opened |-> <<>>,
             asked |-> 0, round |-> 0, members |-> <<>>, at |-> 0, rebound |-> FALSE]
    BY <1>1 DEF Idle
  <2>2. m.nodes \in Seq(Node) /\ 0 \in 0..Rounds
    BY <1>2, BoundAssumption DEF Message
  <2> QED
    BY ONLY <1>2, <2>1, <2>2 DEF Task
<1> QED
  BY <1>2, <1>3, <1>4, <1>5, <1>6, <1>7, <1>8, <1>9, <1>10, <1>11, <1>12 DEF o, q, p

LEMMA PayloadReadMoves ==
  ASSUME NEW s, Mesh(s), NEW u, NEW n \in Node, NEW g \in Sign, NEW t, NEW c, NEW m,
         PayloadRead(s, u, n, g, t, c, m)
  PROVE  Mesh(u)
<1> DEFINE o == Tk(s, n, g)
           q == s.req[g]
           p == Tk(s, q.main, g)
<1>1. /\ c.b = n /\ c.g = g /\ s.resp[c] = "payload" /\ m \in s.mail[n] /\ m.c = c /\ m.kind = "payload"
      /\ \A d \in Chan : Link(s, d) /\ d.b = n /\ d.g = g /\ d # c => s.resp[d] = "hold"
      /\ Move(s, u, n, g, t, s.act[n], c, "sign", Only(n, m), Silent)
  BY DEF PayloadRead
<1>2. /\ c \in Chan /\ Link(s, c) /\ c.a = q.main /\ q.main \in Node /\ n # q.main
      /\ c = Up(s, n, g) /\ c # NoChan /\ Opened(s, c) /\ ~Waited(s, c)
      /\ p.pc = "ack" /\ p.wait = c /\ p.asked \in 1..Len(q.peers)
      /\ q.peers[p.asked] = n /\ q.peers \in Seq(Node) /\ Injective(q.peers)
      /\ o.pc = "idle" /\ o.round = 0 /\ o.opened = <<>>
      /\ t \in Task /\ t.pc = "connect" /\ t.wait = NoChan /\ t.list = m.nodes
      /\ t.from = c /\ t.round = 0 /\ t.asked = 0 /\ t.opened = <<>>
      /\ Injective(m.nodes)
      /\ \A b \in Node : b \in Ran(m.nodes) <=> Before(q, n, b)
      /\ Called(s, g) /\ ~Settled(s, g) /\ n \in q.nodes
  BY PayloadFacts
<1>m. Moves(s, u, n, g, t, s.act[n], c, "sign", Only(n, m), Silent)
  BY <1>1 DEF Moves, Only, Touches
<1>s. Step(s, u, n, g, t)
  BY <1>m, MoveStep
<1>u. /\ u.req = s.req /\ Tk(u, n, g) = t /\ u.act[n] = s.act[n]
      /\ \A k \in Node, h \in Sign : Tk(u, k, h) = IF k = n /\ h = g THEN t ELSE Tk(s, k, h)
      /\ \A d \in Chan : u.resp[d] = IF d = c THEN "sign" ELSE s.resp[d]
      /\ \A k \in Node : u.mail[k] = s.mail[k] \ (IF k = n THEN {m} ELSE {})
  BY <1>1 DEF Move, Silent, Only
<1> HIDE DEF o, q, p
<1>3. t.pc \notin Rounding /\ o.pc \notin Rounding /\ \A d : Read(t, d) = 0 /\ Read(o, d) = 0
  BY <1>2 DEF Read, Rounding, Over
<1>4. \A d \in Chan : d.g = g => SameRounds(s, u, d) /\ MailKept(s, u, d)
  <2> SUFFICES ASSUME NEW d \in Chan, d.g = g PROVE SameRounds(s, u, d) /\ MailKept(s, u, d)
    OBVIOUS
  <2>1. \A k \in {d.a, d.b} : k \in Node
    BY ChanFields
  <2>2. SameRounds(s, u, d)
    BY <1>2, <1>3, <1>u, <2>1 DEF SameRounds, o
  <2>3. MailKept(s, u, d)
    BY <1>1, <1>u, <2>1 DEF MailKept
  <2> QED
    BY <2>2, <2>3
<1>5. MoveTask(s, u, n, g, t, s.act[n])
  <2>1. TaskJ(q, n, g, t)
    BY <1>2 DEF TaskJ, Over, Called, Ran, Up, q
  <2>2. ConnectJ(q, n, g, t) /\ ShareJ(t, s.act[n]) /\ ReachJ(q, n, t)
    BY <1>2 DEF ConnectJ, ShareJ, ReachJ, Reached
  <2>3. StageJ(u, g) /\ AckJ(u, g)
    <3>1. u.req[g] = q /\ Tk(u, q.main, g) = p
      BY <1>2, <1>u DEF q, p
    <3>2. StageJ(s, g)
      BY <1>2 DEF Mesh, TasksJ
    <3>3. \A i \in 1..Len(q.peers) : i # p.asked => Tk(u, q.peers[i], g) = Tk(s, q.peers[i], g)
      <4> TAKE i \in 1..Len(q.peers)
      <4> HAVE i # p.asked
      <4>1. q.peers[i] # n /\ q.peers[i] \in Node
        BY <1>2 DEF Injective
      <4> QED
        BY <1>u, <4>1
    <3>4. /\ p.pc \notin Rounding /\ p.pc # "connect" /\ p.wait # NoChan
          /\ p.asked \in Nat
      BY <1>2 DEF Rounding, Over
    <3>5. \A i \in 1..Len(q.peers) :
             /\ i < p.asked => Tk(s, q.peers[i], g).pc \in Rounding
             /\ i > p.asked => Tk(s, q.peers[i], g).pc = "idle"
      BY <1>2, <3>2 DEF StageJ, q, p
    <3>6. \A i \in 1..Len(q.peers) :
             /\ i < p.asked => Tk(u, q.peers[i], g).pc \in Rounding
             /\ i > p.asked => Tk(u, q.peers[i], g).pc = "idle"
      <4> TAKE i \in 1..Len(q.peers)
      <4>1. (i < p.asked => i # p.asked) /\ (i > p.asked => i # p.asked)
        BY <3>4
      <4> QED
        BY <3>3, <3>5, <4>1
    <3>7. StageJ(u, g)
      BY <3>1, <3>4, <3>6 DEF StageJ
    <3>8. AckJ(u, g)
      BY <1>1, <1>2, <1>3, <1>u, <3>1 DEF AckJ
    <3> QED
      BY <3>7, <3>8
  <2>4. o.round = Rounds => t.round = Rounds
    BY <1>2
  <2> QED
    BY <1>2, <2>1, <2>2, <2>3, <2>4 DEF MoveTask, o, q
<1>6. MoveAct(u, n, s.act[n])
  <2>1. \A e \in Chan : Holds(u, n, e) <=> Holds(s, n, e)
    <3> TAKE e \in Chan
    <3>1. e.g \in Sign
      BY ChanFields
    <3>2. Tk(u, n, e.g).opened = Tk(s, n, e.g).opened /\ (Tk(u, n, e.g).pc = "sleep2" <=> Tk(s, n, e.g).pc = "sleep2")
      BY <1>2, <1>u, <3>1 DEF o
    <3> QED
      BY <1>1, <1>u, <3>2 DEF Holds
  <2> QED
    BY <2>1, AtDictionary DEF MoveAct
<1>7. ASSUME NEW d \in Chan, d.a = n, d.g = g PROVE ~Opened(s, d) /\ ~Waited(s, d) /\ ~Opened(u, d)
  BY <1>2, <1>3, <1>7, <1>u DEF Opened, Waited, Reached, o
<1>8. \A d \in Chan : Touches(d, n, g) => LinkJ(u, d)
  <2> SUFFICES ASSUME NEW d \in Chan, Touches(d, n, g) PROVE LinkJ(u, d)
    OBVIOUS
  <2>0. d.g = g /\ d.a \in Node /\ d.b \in Node /\ d.a # d.b /\ (d.a = n \/ d.b = n)
    BY ChanFields DEF Touches
  <2>1. CASE ~Link(s, d)
    BY <1>2, <1>u, <2>1, NotLinked
  <2>2. CASE Link(s, d) /\ d.a = n
    <3>1. ~Opened(s, d) /\ ~Waited(s, d) /\ ~Opened(u, d)
      BY <1>7, <2>0, <2>2
    <3>2. s.resp[d] = "none" /\ d # c /\ LinkJ(s, d)
      BY <1>2, <2>2, <3>1, AtLink DEF ChannelJ
    <3>3. Tk(u, d.b, d.g) = Tk(s, d.b, d.g) /\ Tk(u, d.a, d.g) = t /\ Tk(s, d.a, d.g) = o
      BY <1>u, <2>0, <2>2 DEF o
    <3>4. SameEnds(s, u, d)
      BY <1>2, <1>u, <3>1, <3>2, <3>3 DEF SameEnds
    <3> QED
      BY <1>4, <2>0, <3>2, <3>4, LinkKept
  <2>3. CASE Link(s, d) /\ d.b = n
    <3>1. /\ Tk(u, d.a, d.g) = Tk(s, d.a, d.g) /\ Tk(u, d.b, d.g) = t
          /\ u.req = s.req /\ Link(u, d) /\ (Opened(u, d) <=> Opened(s, d)) /\ (Waited(u, d) <=> Waited(s, d))
      BY <1>u, <2>0, <2>3 DEF Link, Called, Opened, Waited
    <3>2. SharesJ(u, d)
      BY <1>4, <2>0, <2>3, AtLink, SharesKept
    <3>3. CASE d = c
      <4>1. u.resp[d] = "sign"
        BY <1>2, <1>u, <3>3
      <4>2. ChannelJ(u, d)
        <5>1. u.req[d.g].main = d.a /\ d.a = q.main
          BY <1>1, <1>2, <1>u, <3>3 DEF q
        <5>2. Opened(u, d) /\ Link(u, d)
          BY <1>2, <3>1, <3>3
        <5>3. Tk(u, d.b, d.g).pc = "connect"
          BY <1>2, <3>1
        <5> QED
          BY <4>1, <5>1, <5>2, <5>3 DEF ChannelJ, States, Waiting
      <4> QED
        BY <3>1, <3>2, <4>1, <4>2 DEF LinkJ, LevelJ, EofJ
    <3>4. CASE d # c
      <4>1. d.a # q.main
        BY <1>1, <1>2, <2>0, <2>3, <3>4 DEF Chan
      <4>2. s.resp[d] = "hold" /\ u.resp[d] = "hold"
        BY <1>1, <1>u, <2>0, <2>3, <3>4
      <4>3. Opened(s, d) /\ EofJ(s, d)
        BY <2>3, <4>2, AtLink DEF ChannelJ
      <4>4. u.resp[Up(u, n, g)] = "sign"
        BY <1>2, <1>u DEF Up
      <4>5. ChannelJ(u, d)
        BY <1>2, <1>u, <2>0, <2>3, <3>1, <4>1, <4>2, <4>3, <4>4 DEF ChannelJ, States, q
      <4>6. EofJ(u, d)
        BY <1>1, <1>u, <2>0, <3>1, <4>2, <4>3 DEF EofJ
      <4> QED
        BY <3>1, <3>2, <4>2, <4>5, <4>6 DEF LinkJ, LevelJ
    <3> QED
      BY <3>3, <3>4
  <2> QED
    BY <2>0, <2>1, <2>2, <2>3
<1>9. MoveMail(s, u, n, g, Only(n, m), Silent)
  <2>1. ASSUME NEW k \in Node, NEW w \in s.mail[k], w \notin Only(n, m)[k], Touches(w.c, n, g)
        PROVE  Sound(u, k, w)
    <3> DEFINE d == w.c
    <3>1. Sound(s, k, w) /\ d \in Chan /\ Link(s, d) /\ k \in {d.a, d.b} /\ w \in Message
      BY AtMail
    <3>2. d.g = g /\ d.a # n /\ d.b = n /\ d.a \in Node
      BY <1>7, <2>1, <3>1, NoMail, ChanFields DEF Touches
    <3>3. n \in s.req[d.g].nodes
      BY <1>2, <3>2 DEF q
    <3>4. w.kind # "eof"
      BY <1>3, <3>2, <3>3, EofAll DEF o
    <3>5. w.kind = "share" => k = n
      BY <1>3, <3>1, <3>2, ShareFrom DEF Other, o
    <3>6. w.kind \notin {"hello", "x", "level0", "level1"}
      BY <1>1, <3>1, <3>2 DEF Sound
    <3>7. w.kind # "ack"
      BY <1>2, <1>3, <3>1, <3>2 DEF Sound, o
    <3>8. ASSUME w.kind = "payload" PROVE FALSE
      <4>1. k = n /\ d.a = q.main
        BY <3>1, <3>2, <3>8 DEF Sound, q
      <4>2. d = c
        BY <1>1, <1>2, <3>1, <3>2, <4>1 DEF Chan
      <4>3. w = m
        <5>1. Alone(w, m)
          BY <1>1, <4>1, AtMail
        <5> QED
          BY <1>1, <3>8, <4>2, <5>1 DEF Alone
      <4> QED
        BY <2>1, <4>1, <4>3 DEF Only
    <3>9. w.kind = "share" /\ k = n
      BY <3>1, <3>4, <3>5, <3>6, <3>7, <3>8 DEF Message, Kinds
    <3>10. Other(k, d) = d.a /\ Tk(u, d.a, d.g) = Tk(s, d.a, d.g) /\ Tk(u, k, d.g) = t /\ Tk(s, k, d.g) = o
      BY <1>u, <3>2, <3>9 DEF Other, o
    <3>11. SoundKept(s, u, k, w)
      BY <1>3, <1>u, <3>9, <3>10 DEF SoundKept
    <3> QED
      BY <3>1, <3>11, StillSound
  <2> QED
    BY <2>1 DEF MoveMail, Silent
<1> QED
  BY <1>2, <1>m, <1>5, <1>6, <1>8, <1>9, MoveMesh
=============================================================================
