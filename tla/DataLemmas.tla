----------------------------- MODULE DataLemmas ------------------------------
(***************************************************************************)
(* Append, Head, Tail and \o, for the proofs about queues; quotient and    *)
(* remainder for those about counters and clocks of a fixed width.         *)
(***************************************************************************)
EXTENDS Integers, Sequences, SequenceTheorems, TLAPS

(* The only sequence of length 0.                                          *)
LEMMA EmptyIffLenZero ==
    ASSUME NEW S, NEW s \in Seq(S)
    PROVE  /\ Len(s) \in Nat
           /\ s = <<>> <=> Len(s) = 0
BY EmptySeq, LenProperties

(* Appending to a concatenation appends to its second part.                *)
LEMMA AppendToConcat ==
    ASSUME NEW S, NEW s \in Seq(S), NEW t \in Seq(S), NEW e \in S
    PROVE  s \o Append(t, e) = Append(s \o t, e)
<1>1. <<e>> \in Seq(S)  OBVIOUS
<1>2. s \o (t \o <<e>>) = (s \o t) \o <<e>>
  BY <1>1, ConcatAssociative
<1>3. s \o t \in Seq(S)  BY ConcatProperties
<1> QED  BY <1>2, <1>3, AppendIsConcat

(* A non-empty sequence is its head followed by its tail.                  *)
LEMMA HeadThenTail ==
    ASSUME NEW S, NEW s \in Seq(S), s # <<>>
    PROVE  /\ s = <<Head(s)>> \o Tail(s)
           /\ Head(s) \in S
           /\ Tail(s) \in Seq(S)
           /\ Len(s) \in Nat \ {0}
           /\ Len(Tail(s)) = Len(s) - 1
<1>1. /\ Head(s) \in S
      /\ Tail(s) \in Seq(S)
      /\ Len(Tail(s)) = Len(s) - 1
      /\ \A i \in 1 .. Len(Tail(s)) : Tail(s)[i] = s[i + 1]
  BY HeadTailProperties
<1>2. Len(s) \in Nat \ {0}  BY EmptySeq
<1>3. <<Head(s)>> \in Seq(S)  BY <1>1
<1> DEFINE r == <<Head(s)>> \o Tail(s)
<1>4. /\ r \in Seq(S)
      /\ Len(r) = 1 + Len(Tail(s))
      /\ \A i \in 1 .. 1 + Len(Tail(s)) :
           r[i] = IF i <= 1 THEN <<Head(s)>>[i] ELSE Tail(s)[i - 1]
  BY <1>1, <1>3, ConcatProperties
<1>5. \A i \in 1 .. Len(s) : s[i] = r[i]
  <2> SUFFICES ASSUME NEW i \in 1 .. Len(s) PROVE s[i] = r[i]
    OBVIOUS
  <2>1. CASE i = 1
    BY <2>1, <1>1, <1>2, <1>4
  <2>2. CASE i # 1
    <3>1. i - 1 \in 1 .. Len(Tail(s)) /\ (i - 1) + 1 = i
      BY <2>2, <1>1, <1>2
    <3> QED  BY <3>1, <2>2, <1>1, <1>2, <1>4
  <2> QED  BY <2>1, <2>2
<1>6. Len(s) = Len(r)  BY <1>1, <1>2, <1>4
<1>7. s = r
  <2> HIDE DEF r
  <2> QED  BY <1>4, <1>5, <1>6, SeqEqual
<1> QED  BY <1>1, <1>2, <1>7

(* Moving the head of a list to the end of what precedes it changes        *)
(* nothing of the whole.                                                   *)
LEMMA MoveHead ==
    ASSUME NEW S, NEW d \in Seq(S), NEW s \in Seq(S), s # <<>>
    PROVE  Append(d, Head(s)) \o Tail(s) = d \o s
<1>1. /\ s = <<Head(s)>> \o Tail(s)
      /\ Head(s) \in S
      /\ Tail(s) \in Seq(S)
  BY HeadThenTail
<1>2. <<Head(s)>> \in Seq(S)  BY <1>1
<1>3. Append(d, Head(s)) = d \o <<Head(s)>>  BY <1>1, AppendIsConcat
<1>4. (d \o <<Head(s)>>) \o Tail(s) = d \o (<<Head(s)>> \o Tail(s))
  BY <1>1, <1>2, ConcatAssociative
<1> QED  BY <1>1, <1>3, <1>4

(* Two ways to split the same sequence remain so when a third one follows. *)
LEMMA SplitBefore ==
    ASSUME NEW S
    PROVE  \A a, b, d, s, q \in Seq(S) :
             a \o b = d \o s => a \o (b \o q) = d \o (s \o q)
<1>1. \A x, y, z \in Seq(S) : (x \o y) \o z = x \o (y \o z)
  <2> TAKE x, y, z \in Seq(S)
  <2> QED  BY ConcatAssociative
<1> TAKE a, b, d, s, q \in Seq(S)
<1> HAVE a \o b = d \o s
<1>2. (a \o b) \o q = a \o (b \o q)  BY <1>1, ZenonT(60)
<1>3. (d \o s) \o q = d \o (s \o q)  BY <1>1, ZenonT(60)
<1> QED  BY <1>2, <1>3, Zenon

(* Moving the head changes nothing of what comes before a third sequence.  *)
LEMMA MoveHeadBefore ==
    ASSUME NEW S, NEW d \in Seq(S), NEW s \in Seq(S), NEW q \in Seq(S), s # <<>>
    PROVE  Append(d, Head(s)) \o (Tail(s) \o q) = d \o (s \o q)
<1>1. Head(s) \in S  BY HeadThenTail
<1>2. Tail(s) \in Seq(S)  BY HeadThenTail
<1>3. Append(d, Head(s)) \in Seq(S)  BY <1>1, AppendProperties
<1>4. Append(d, Head(s)) \o Tail(s) = d \o s  BY MoveHead
<1> QED  BY <1>2, <1>3, <1>4, SplitBefore, Z3

(* Head and tail of a concatenation whose first part is not empty.         *)
LEMMA HeadTailOfConcat ==
    ASSUME NEW S, NEW s \in Seq(S), NEW t \in Seq(S), s # <<>>
    PROVE  /\ s \o t # <<>>
           /\ Head(s \o t) = Head(s)
           /\ Tail(s \o t) = Tail(s) \o t
<1>1. /\ Head(s) \in S
      /\ Tail(s) \in Seq(S)
      /\ Len(s) \in Nat \ {0}
      /\ Len(Tail(s)) = Len(s) - 1
      /\ \A i \in 1 .. Len(Tail(s)) : Tail(s)[i] = s[i + 1]
  BY HeadTailProperties, EmptySeq
<1>2. /\ s \o t \in Seq(S)
      /\ Len(s \o t) = Len(s) + Len(t)
      /\ \A i \in 1 .. Len(s) + Len(t) :
           (s \o t)[i] = IF i <= Len(s) THEN s[i] ELSE t[i - Len(s)]
  BY ConcatProperties
<1>3. Len(t) \in Nat  BY LenProperties
<1>4. s \o t # <<>>
  BY <1>1, <1>2, <1>3, EmptySeq
<1>5. Head(s \o t) = Head(s)
  BY <1>1, <1>2, <1>3
<1>6. /\ Tail(s \o t) \in Seq(S)
      /\ Len(Tail(s \o t)) = Len(s) + Len(t) - 1
      /\ \A i \in 1 .. Len(Tail(s \o t)) : Tail(s \o t)[i] = (s \o t)[i + 1]
  BY <1>2, <1>4, HeadTailProperties
<1>7. /\ Tail(s) \o t \in Seq(S)
      /\ Len(Tail(s) \o t) = Len(s) - 1 + Len(t)
      /\ \A i \in 1 .. Len(s) - 1 + Len(t) :
           (Tail(s) \o t)[i] = IF i <= Len(s) - 1 THEN Tail(s)[i]
                               ELSE t[i - (Len(s) - 1)]
  BY <1>1, ConcatProperties
<1>8. ASSUME NEW i \in 1 .. Len(Tail(s \o t))
      PROVE  Tail(s \o t)[i] = (Tail(s) \o t)[i]
  <2>1. /\ i \in 1 .. Len(s) - 1 + Len(t)
        /\ i + 1 \in 1 .. Len(s) + Len(t)
        /\ (i + 1) - Len(s) = i - (Len(s) - 1)
        /\ i + 1 <= Len(s) <=> i <= Len(s) - 1
        /\ i <= Len(s) - 1 => i \in 1 .. Len(Tail(s))
    BY <1>1, <1>3, <1>6
  <2> QED  BY <2>1, <1>1, <1>2, <1>6, <1>7
<1>9. Len(Tail(s \o t)) = Len(Tail(s) \o t)
  BY <1>1, <1>3, <1>6, <1>7
<1>10. Tail(s \o t) = Tail(s) \o t
  BY <1>6, <1>7, <1>8, <1>9, SeqEqual
<1> QED  BY <1>4, <1>5, <1>10

-----------------------------------------------------------------------------
(* The definition of quotient and remainder.                               *)
LEMMA DivMod ==
    ASSUME NEW w \in Nat \ {0}, NEW a \in Int
    PROVE  /\ a \div w \in Int
           /\ a % w \in 0 .. w - 1
           /\ a = w * (a \div w) + (a % w)
OBVIOUS

(* A number has one remainder.                                             *)
LEMMA ModUnique ==
    ASSUME NEW w \in Nat \ {0}, NEW q \in Int, NEW p \in Int,
           NEW r \in 0 .. w - 1, NEW s \in 0 .. w - 1,
           w * q + r = w * p + s
    PROVE  r = s
<1>1. CASE q = p
  BY <1>1
<1>2. CASE q > p
  <2>1. w * q >= w * (p + 1)
    BY <1>2
  <2>2. w * (p + 1) = w * p + w
    OBVIOUS
  <2> QED BY <2>1, <2>2
<1>3. CASE q < p
  <2>1. w * p >= w * (q + 1)
    BY <1>3
  <2>2. w * (q + 1) = w * q + w
    OBVIOUS
  <2> QED BY <2>1, <2>2
<1> QED BY <1>1, <1>2, <1>3

(* To reduce a summand changes nothing of the reduced sum.                 *)
LEMMA ModAdd ==
    ASSUME NEW w \in Nat \ {0}, NEW a \in Int, NEW b \in Int
    PROVE  ((a % w) + b) % w = (a + b) % w
<1> DEFINE q == a \div w
           p == ((a % w) + b) \div w
           s == (a + b) \div w
<1>1. /\ q \in Int /\ p \in Int /\ s \in Int
      /\ a % w \in 0 .. w - 1
      /\ ((a % w) + b) % w \in 0 .. w - 1
      /\ (a + b) % w \in 0 .. w - 1
  BY DivMod
<1>2. /\ a = w * q + (a % w)
      /\ (a % w) + b = w * p + (((a % w) + b) % w)
      /\ a + b = w * s + ((a + b) % w)
  BY DivMod
<1>3. w * (q + p) = w * q + w * p
  BY <1>1
<1> HIDE DEF q, p, s
<1>4. w * (q + p) + (((a % w) + b) % w) = w * s + ((a + b) % w)
  <2> DEFINE x == w * q
             y == w * p
             z == w * s
             u == a % w
             m == ((a % w) + b) % w
             n == (a + b) % w
  <2>1. x \in Int /\ y \in Int /\ z \in Int /\ u \in Int /\ m \in Int /\ n \in Int
    BY <1>1
  <2>2. a = x + u /\ u + b = y + m /\ a + b = z + n
    BY <1>2
  <2>3. w * (q + p) = x + y
    BY <1>3
  <2> HIDE DEF x, y, z, u, m, n
  <2>4. (x + y) + m = z + n
    BY <2>1, <2>2
  <2> QED BY <2>3, <2>4 DEF x, y, z, u, m, n
<1> QED
  <2>1. q + p \in Int  BY <1>1
  <2> QED BY <1>1, <1>4, <2>1, ModUnique

(* What is in range is its own remainder.                                  *)
LEMMA ModSmall ==
    ASSUME NEW w \in Nat \ {0}, NEW a \in 0 .. w - 1
    PROVE  a % w = a
<1>1. a \div w \in Int /\ a % w \in 0 .. w - 1 /\ a = w * (a \div w) + (a % w)
  BY DivMod
<1>2. w * (a \div w) + (a % w) = w * 0 + a
  BY <1>1
<1> QED BY <1>1, <1>2, ModUnique
==============================================================================
