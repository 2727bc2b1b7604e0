--------------------------- MODULE SequenceLemmas ---------------------------
(***************************************************************************)
(* What the two ends of a sequence do to its range and its injectivity.    *)
(***************************************************************************)
EXTENDS Functions, SequenceTheorems, TLAPS

LEMMA EmptyRange == Range(<<>>) = {} /\ IsInjective(<<>>)
  BY DEF Range, IsInjective

LEMMA AppendRange ==
  ASSUME NEW S, NEW s \in Seq(S), NEW e \in S
  PROVE  /\ Append(s, e) \in Seq(S)
         /\ Range(Append(s, e)) = Range(s) \cup {e}
         /\ IsInjective(s) /\ e \notin Range(s) => IsInjective(Append(s, e))
<1> DEFINE t == Append(s, e)
<1>1. /\ DOMAIN s = 1..Len(s) /\ Len(s) \in Nat
      /\ DOMAIN t = 1..(Len(s) + 1)
      /\ \A i \in 1..Len(s) : t[i] = s[i]
      /\ t[Len(s) + 1] = e
      /\ t \in Seq(S)
  OBVIOUS
<1> HIDE DEF t
<1>2. Range(t) = Range(s) \cup {e}
  BY <1>1 DEF Range
<1>3. IsInjective(s) /\ e \notin Range(s) => IsInjective(t)
  BY <1>1 DEF Range, IsInjective
<1> QED
  BY <1>1, <1>2, <1>3 DEF t

LEMMA TailRange ==
  ASSUME NEW S, NEW s \in Seq(S), s # <<>>
  PROVE  /\ Head(s) \in S
         /\ Head(s) \in Range(s)
         /\ Tail(s) \in Seq(S)
         /\ IsInjective(s) => /\ Range(Tail(s)) = Range(s) \ {Head(s)}
                              /\ IsInjective(Tail(s))
<1> DEFINE t == Tail(s)
<1>1. /\ DOMAIN s = 1..Len(s) /\ Len(s) \in Nat \ {0}
      /\ DOMAIN t = 1..(Len(s) - 1)
      /\ \A i \in 1..(Len(s) - 1) : t[i] = s[i + 1]
      /\ Head(s) = s[1] /\ s[1] \in S
      /\ t \in Seq(S)
  BY HeadTailProperties, LenProperties, EmptySeq
<1> HIDE DEF t
<1>2. Head(s) \in Range(s)
  BY <1>1 DEF Range
<1>3. ASSUME IsInjective(s)
      PROVE  Range(t) = Range(s) \ {Head(s)}
  <2>1. ASSUME NEW i \in 2..Len(s)
        PROVE  s[i] \in Range(t)
    <3>1. i - 1 \in DOMAIN t /\ t[i - 1] = s[i]
      BY <1>1
    <3> QED
      BY <3>1 DEF Range
  <2>2. Range(s) \ {Head(s)} \subseteq Range(t)
    BY <1>1, <2>1 DEF Range
  <2>3. Range(t) \subseteq Range(s) \ {Head(s)}
    BY <1>1, <1>3 DEF Range, IsInjective
  <2> QED
    BY <2>2, <2>3
<1>4. ASSUME IsInjective(s)
      PROVE  IsInjective(t)
  <2> SUFFICES ASSUME NEW a \in DOMAIN t, NEW b \in DOMAIN t, t[a] = t[b]
               PROVE  a = b
    BY DEF IsInjective
  <2>1. a + 1 \in DOMAIN s /\ b + 1 \in DOMAIN s /\ s[a + 1] = s[b + 1]
    BY <1>1
  <2>2. a + 1 = b + 1
    BY <1>4, <2>1 DEF IsInjective
  <2> QED
    BY <1>1, <2>2
<1> QED
  BY <1>1, <1>2, <1>3, <1>4 DEF t

LEMMA RangeOfSeqInSet ==
  ASSUME NEW S, NEW s \in Seq(S)
  PROVE  Range(s) \subseteq S
  BY ElementOfSeq DEF Range

LEMMA SubSeqRange ==
  ASSUME NEW S, NEW s \in Seq(S), NEW m \in Nat \ {0}, NEW n \in 0..Len(s)
  PROVE  /\ SubSeq(s, m, n) \in Seq(S)
         /\ Range(SubSeq(s, m, n)) = {s[i] : i \in m..n}
<1> DEFINE t == SubSeq(s, m, n)
<1>1. \A i \in m..n : s[i] \in S
  BY LenProperties
<1>2. /\ t \in Seq(S)
      /\ Len(t) = IF m <= n THEN n - m + 1 ELSE 0
      /\ \A i \in 1..(n - m + 1) : t[i] = s[m + i - 1]
  BY <1>1, SubSeqProperties
<1>3. DOMAIN t = 1..Len(t)
  BY <1>2, LenProperties
<1> HIDE DEF t
<1>4. ASSUME NEW i \in m..n
      PROVE  s[i] \in Range(t)
  <2>1. i - m + 1 \in DOMAIN t /\ t[i - m + 1] = s[i]
    BY <1>2, <1>3
  <2> QED
    BY <2>1 DEF Range
<1>5. ASSUME NEW i \in DOMAIN t
      PROVE  t[i] \in {s[j] : j \in m..n}
  BY <1>2, <1>3
<1> QED
  BY <1>2, <1>4, <1>5 DEF Range, t

\* A page of k from offset o, and what lies beyond it.
LEMMA PageRange ==
  ASSUME NEW S, NEW s \in Seq(S), NEW o \in Nat, NEW k \in Nat \ {0}
  PROVE  /\ Range(SubSeq(s, o + 1, IF o + k > Len(s) THEN Len(s) ELSE o + k)) \subseteq S
         /\ Range(SubSeq(s, o + 1, Len(s))) \subseteq S
         /\ Range(SubSeq(s, o + 1, Len(s)))
              \subseteq Range(SubSeq(s, o + 1, IF o + k > Len(s) THEN Len(s) ELSE o + k))
                          \cup Range(SubSeq(s, o + k + 1, Len(s)))
<1> DEFINE n == IF o + k > Len(s) THEN Len(s) ELSE o + k
<1>1. Len(s) \in Nat /\ n \in 0..Len(s) /\ \A i \in 1..Len(s) : s[i] \in S
  BY LenProperties
<1>2. /\ Range(SubSeq(s, o + 1, n)) = {s[i] : i \in (o + 1)..n}
      /\ Range(SubSeq(s, o + 1, Len(s))) = {s[i] : i \in (o + 1)..Len(s)}
      /\ Range(SubSeq(s, o + k + 1, Len(s))) = {s[i] : i \in (o + k + 1)..Len(s)}
  BY <1>1, SubSeqRange
<1>3. (o + 1)..Len(s) \subseteq ((o + 1)..n) \cup ((o + k + 1)..Len(s))
  BY <1>1
<1>4. (o + 1)..n \subseteq 1..Len(s) /\ (o + 1)..Len(s) \subseteq 1..Len(s)
  BY <1>1
<1> HIDE DEF n
<1>5. Range(SubSeq(s, o + 1, n)) \subseteq S
  BY <1>1, <1>2, <1>4
<1>6. Range(SubSeq(s, o + 1, Len(s))) \subseteq S
  BY <1>1, <1>2, <1>4
<1>7. Range(SubSeq(s, o + 1, Len(s)))
        \subseteq Range(SubSeq(s, o + 1, n)) \cup Range(SubSeq(s, o + k + 1, Len(s)))
  BY <1>2, <1>3
<1> QED
  BY <1>5, <1>6, <1>7 DEF n

\* The elements from the first on are all.
LEMMA AllRange ==
  ASSUME NEW S, NEW s \in Seq(S)
  PROVE  Range(SubSeq(s, 0 + 1, Len(s))) = Range(s)
<1>1. 0 + 1 = 1
  OBVIOUS
<1> QED
  BY <1>1, SubSeqFull

\* An element put in front moves the others one place back.
LEMMA FrontRange ==
  ASSUME NEW S, NEW s \in Seq(S), NEW e \in S, NEW o \in Nat
  PROVE  /\ <<e>> \o s \in Seq(S)
         /\ Range(<<e>> \o s) = {e} \cup Range(s)
         /\ Range(SubSeq(s, o + 1, Len(s)))
              \subseteq Range(SubSeq(<<e>> \o s, o + 1, Len(<<e>> \o s)))
<1> DEFINE t == <<e>> \o s
<1>1. /\ t \in Seq(S) /\ Len(t) = Len(s) + 1 /\ Len(s) \in Nat
      /\ DOMAIN s = 1..Len(s) /\ DOMAIN t = 1..Len(t)
      /\ t[1] = e /\ \A i \in 1..Len(s) : s[i] = t[i + 1]
  BY ConcatProperties, LenProperties
<1> HIDE DEF t
<1>2. Range(t) = {e} \cup Range(s)
  <2>1. \A i \in DOMAIN t : i = 1 \/ (i - 1 \in DOMAIN s /\ t[i] = s[i - 1])
    BY <1>1
  <2>2. 1 \in DOMAIN t /\ \A i \in DOMAIN s : i + 1 \in DOMAIN t /\ t[i + 1] = s[i]
    BY <1>1
  <2> QED
    BY <1>1, <2>1, <2>2 DEF Range
<1>3. /\ Range(SubSeq(s, o + 1, Len(s))) = {s[i] : i \in (o + 1)..Len(s)}
      /\ Range(SubSeq(t, o + 1, Len(t))) = {t[i] : i \in (o + 1)..Len(t)}
  <2>1. o + 1 \in Nat \ {0} /\ Len(s) \in 0..Len(s) /\ Len(t) \in 0..Len(t)
    BY <1>1
  <2>2. Range(SubSeq(s, o + 1, Len(s))) = {s[i] : i \in (o + 1)..Len(s)}
    BY <2>1, SubSeqRange
  <2>3. Range(SubSeq(t, o + 1, Len(t))) = {t[i] : i \in (o + 1)..Len(t)}
    BY <1>1, <2>1, SubSeqRange
  <2> QED
    BY <2>2, <2>3
<1>4. \A i \in (o + 1)..Len(s) : s[i] = t[i + 1] /\ i + 1 \in (o + 1)..Len(t)
  BY <1>1
<1> QED
  BY <1>1, <1>2, <1>3, <1>4 DEF t
=============================================================================
