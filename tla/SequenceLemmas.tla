--------------------------- MODULE SequenceLemmas ---------------------------
(***************************************************************************)
(* What the proofs about the components need to know of sequences (queues, *)
(* channels, batches).                                                     *)
(***************************************************************************)
EXTENDS Naturals, Sequences, Functions, TLAPS

USE ZenonT(8), SMTT(60)

-----------------------------------------------------------------------------
(* Types *)

\* Sending to a channel respects the channel's type.
LEMMA AppendType ==
  ASSUME NEW S, NEW q \in Seq(S), NEW e \in S
  PROVE  Append(q, e) \in Seq(S)
  OBVIOUS

\* A channel starts empty.
LEMMA EmptyType ==
  ASSUME NEW S
  PROVE  <<>> \in Seq(S)
  OBVIOUS

\* Receiving from a channel gives a value of its type and a shorter channel.
LEMMA PopType ==
  ASSUME NEW S, NEW q \in Seq(S), q # <<>>
  PROVE  Head(q) \in S /\ Tail(q) \in Seq(S)
  OBVIOUS

\* Receiving leaves something in a channel that had more than one value.
LEMMA PopMore ==
  ASSUME NEW S, NEW q \in Seq(S), q # <<>>
  PROVE  Len(q) > 1 <=> Tail(q) # <<>>
  <1>1. Len(q) \in Nat \ {0} /\ Tail(q) \in Seq(S) /\ Len(Tail(q)) = Len(q) - 1
    OBVIOUS
  <1>2. \A r \in Seq(S) : r = <<>> <=> Len(r) = 0
    OBVIOUS
  <1>3. Len(Tail(q)) = 0 <=> ~(Len(q) > 1)
    BY <1>1
  <1>4. Tail(q) = <<>> <=> Len(Tail(q)) = 0
    BY <1>1, <1>2, Zenon
  <1> QED
    BY <1>3, <1>4, Zenon

\* A sequence of some values is one of more values.
LEMMA SeqMono ==
  ASSUME NEW S, NEW T, S \subseteq T, NEW q \in Seq(S)
  PROVE  q \in Seq(T)
  OBVIOUS

-----------------------------------------------------------------------------
(* The values that a sequence holds *)

\* A sequence that grows by one value holds that value too.
LEMMA RangeAppend ==
  ASSUME NEW S, NEW q \in Seq(S), NEW e \in S
  PROVE  Range(Append(q, e)) = Range(q) \cup {e}
  <1>1. /\ DOMAIN q = 1..Len(q) /\ Len(q) \in Nat
        /\ DOMAIN Append(q, e) = 1..(Len(q) + 1)
        /\ \A i \in 1..Len(q) : Append(q, e)[i] = q[i]
        /\ Append(q, e)[Len(q) + 1] = e
    OBVIOUS
  <1>2. 1..(Len(q) + 1) = 1..Len(q) \cup {Len(q) + 1}
    BY <1>1
  <1> QED
    BY <1>1, <1>2 DEF Range

\* The head and the tail of a sequence hold all of it.
LEMMA RangeTail ==
  ASSUME NEW S, NEW q \in Seq(S), q # <<>>
  PROVE  /\ Range(q) = Range(Tail(q)) \cup {Head(q)}
         /\ Head(q) \in S /\ Tail(q) \in Seq(S)
  <1>1. /\ DOMAIN q = 1..Len(q) /\ Len(q) \in Nat \ {0}
        /\ DOMAIN Tail(q) = 1..(Len(q) - 1)
        /\ \A i \in 1..(Len(q) - 1) : Tail(q)[i] = q[i + 1]
        /\ Head(q) = q[1]
    OBVIOUS
  <1>2. \A i \in 1..Len(q) : i = 1 \/ (i - 1 \in 1..(Len(q) - 1) /\ i - 1 + 1 = i)
    BY <1>1
  <1>3. ASSUME NEW i \in 1..Len(q)
        PROVE  q[i] \in Range(Tail(q)) \cup {Head(q)}
    <2>1. CASE i = 1
      BY <1>1, <2>1
    <2>2. CASE i # 1
      <3>1. i - 1 \in DOMAIN Tail(q) /\ Tail(q)[i - 1] = q[i]
        BY <1>1, <1>2, <2>2
      <3> QED
        BY <3>1 DEF Range
    <2> QED
      BY <2>1, <2>2
  <1>4. ASSUME NEW i \in 1..(Len(q) - 1)
        PROVE  Tail(q)[i] \in Range(q)
    <2>1. i + 1 \in DOMAIN q /\ q[i + 1] = Tail(q)[i]
      BY <1>1
    <2> QED
      BY <2>1 DEF Range
  <1>5. Head(q) \in Range(q)
    BY <1>1 DEF Range
  <1>6. Head(q) \in S /\ Tail(q) \in Seq(S)
    OBVIOUS
  <1>7. Range(q) = Range(Tail(q)) \cup {Head(q)}
    BY <1>1, <1>3, <1>4, <1>5 DEF Range
  <1> QED
    BY <1>6, <1>7

\* An empty sequence holds nothing.
LEMMA RangeEmpty == Range(<<>>) = {}
  BY DEF Range

\* A sequence of one value holds that value.
LEMMA RangeOne ==
  ASSUME NEW e
  PROVE  Range(<<e>>) = {e}
  BY DEF Range

\* What a sequence holds has the type of its values, and is at its positions.
LEMMA RangeType ==
  ASSUME NEW S, NEW q \in Seq(S)
  PROVE  /\ Range(q) \subseteq S
         /\ Range(q) = {q[i] : i \in 1..Len(q)}
  BY DEF Range

\* Sequences of one value, and of one value more, keep their type.
LEMMA SeqTypes ==
  ASSUME NEW S, NEW q \in Seq(S), NEW e \in S
  PROVE  /\ Append(q, e) \in Seq(S) /\ Append(q, e) # <<>>
         /\ <<e>> \in Seq(S) /\ <<e>> # <<>> /\ <<>> \in Seq(S)
  <1>1. Append(q, e) \in Seq(S) /\ Len(Append(q, e)) = Len(q) + 1 /\ Len(q) \in Nat
    OBVIOUS
  <1>2. <<e>> \in Seq(S) /\ Len(<<e>>) = 1 /\ <<>> \in Seq(S) /\ Len(<<>>) = 0
    OBVIOUS
  <1> QED
    BY <1>1, <1>2

\* Two sequences, one after the other, hold what both hold.
LEMMA RangeConcat ==
  ASSUME NEW S, NEW q \in Seq(S), NEW r \in Seq(S)
  PROVE  Range(q \o r) = Range(q) \cup Range(r)
  <1>1. /\ q \o r \in Seq(S) /\ Len(q \o r) = Len(q) + Len(r)
        /\ Len(q) \in Nat /\ Len(r) \in Nat
        /\ \A i \in 1..Len(q) : (q \o r)[i] = q[i]
        /\ \A i \in (Len(q) + 1)..(Len(q) + Len(r)) : (q \o r)[i] = r[i - Len(q)]
    OBVIOUS
  <1>2. /\ Range(q) = {q[i] : i \in 1..Len(q)}
        /\ Range(r) = {r[i] : i \in 1..Len(r)}
        /\ Range(q \o r) = {(q \o r)[i] : i \in 1..(Len(q) + Len(r))}
    BY <1>1, RangeType
  <1>3. ASSUME NEW i \in 1..(Len(q) + Len(r))
        PROVE  (q \o r)[i] \in Range(q) \cup Range(r)
    <2>1. CASE i <= Len(q)
      BY <1>1, <1>2, <2>1
    <2>2. CASE i > Len(q)
      <3>1. i - Len(q) \in 1..Len(r) /\ (q \o r)[i] = r[i - Len(q)]
        BY <1>1, <2>2
      <3> QED
        BY <1>2, <3>1
    <2> QED
      BY <1>1, <2>1, <2>2
  <1>4. ASSUME NEW i \in 1..Len(q) PROVE q[i] \in Range(q \o r)
    BY <1>1, <1>2
  <1>5. ASSUME NEW i \in 1..Len(r) PROVE r[i] \in Range(q \o r)
    <2>1. i + Len(q) \in 1..(Len(q) + Len(r)) /\ (q \o r)[i + Len(q)] = r[i]
      BY <1>1
    <2> QED
      BY <1>2, <2>1
  <1> QED
    BY <1>2, <1>3, <1>4, <1>5

-----------------------------------------------------------------------------
(* Sequences one after the other *)

\* Sequences with the same values at the same places are the same.
LEMMA SeqSame ==
  ASSUME NEW S, NEW q \in Seq(S), NEW r \in Seq(S), Len(q) = Len(r),
         \A i \in 1..Len(q) : q[i] = r[i]
  PROVE  q = r
  OBVIOUS

\* Moving the first value of a sequence to the end of the one before it leaves
\* the two, one after the other, as they were.
LEMMA ConcatMove ==
  ASSUME NEW S, NEW q \in Seq(S), NEW r \in Seq(S), r # <<>>
  PROVE  Append(q, Head(r)) \o Tail(r) = q \o r
  <1> DEFINE a == Append(q, Head(r))
             b == Tail(r)
  <1>1. /\ a \in Seq(S) /\ Len(a) = Len(q) + 1 /\ Len(q) \in Nat
        /\ a[Len(q) + 1] = r[1] /\ \A i \in 1..Len(q) : a[i] = q[i]
    OBVIOUS
  <1>2. /\ b \in Seq(S) /\ Len(b) = Len(r) - 1 /\ Len(r) \in Nat \ {0}
        /\ \A i \in 1..Len(b) : b[i] = r[i + 1]
    OBVIOUS
  <1> HIDE DEF a, b
  <1>3. /\ a \o b \in Seq(S) /\ Len(a \o b) = Len(a) + Len(b)
        /\ \A i \in 1..(Len(a) + Len(b)) :
             (a \o b)[i] = IF i <= Len(a) THEN a[i] ELSE b[i - Len(a)]
    <2>1. a \in Seq(S) /\ b \in Seq(S)
      BY <1>1, <1>2
    <2> QED
      BY <2>1
  <1>4. /\ q \o r \in Seq(S) /\ Len(q \o r) = Len(q) + Len(r)
        /\ \A i \in 1..(Len(q) + Len(r)) :
             (q \o r)[i] = IF i <= Len(q) THEN q[i] ELSE r[i - Len(q)]
    OBVIOUS
  <1>5. ASSUME NEW i \in 1..(Len(q) + Len(r)) PROVE (a \o b)[i] = (q \o r)[i]
    <2>1. CASE i <= Len(q)
      BY <1>1, <1>2, <1>3, <1>4, <2>1
    <2>2. CASE i = Len(q) + 1
      BY <1>1, <1>2, <1>3, <1>4, <2>2
    <2>3. CASE i > Len(q) + 1
      <3>1. i - Len(a) \in 1..Len(b) /\ i - Len(a) + 1 = i - Len(q)
        BY <1>1, <1>2, <2>3
      <3>2. (a \o b)[i] = b[i - Len(a)] /\ (q \o r)[i] = r[i - Len(q)]
        BY <1>1, <1>2, <1>3, <1>4, <2>3
      <3> QED
        BY <1>2, <3>1, <3>2
    <2> QED
      BY <1>1, <1>2, <2>1, <2>2, <2>3
  <1>6. Len(a \o b) = Len(q \o r)
    BY <1>1, <1>2, <1>3, <1>4
  <1>7. a \o b = q \o r
    BY <1>3, <1>4, <1>5, <1>6, SeqSame
  <1> QED
    BY <1>7 DEF a, b

\* A sequence after another has their type, and an empty one changes nothing.
LEMMA ConcatType ==
  ASSUME NEW S, NEW q \in Seq(S), NEW r \in Seq(S)
  PROVE  q \o r \in Seq(S) /\ <<>> \o q = q /\ q \o <<>> = q
  OBVIOUS

\* Putting sequences one after the other is associative.
LEMMA ConcatAssoc ==
  ASSUME NEW S, NEW q \in Seq(S), NEW r \in Seq(S), NEW t \in Seq(S)
  PROVE  (q \o r) \o t = q \o (r \o t)
  OBVIOUS

\* Four sequences one after the other, put together from the left and from the
\* right; the two have names so that ConcatAssocFour applies without a search
\* through the terms.
FromLeft(q, r, s, t) == ((q \o r) \o s) \o t
FromRight(q, r, s, t) == q \o (r \o (s \o t))

\* It makes no difference from which side four sequences are put together.
LEMMA ConcatAssocFour ==
  ASSUME NEW S, NEW q \in Seq(S), NEW r \in Seq(S), NEW s \in Seq(S), NEW t \in Seq(S)
  PROVE  FromLeft(q, r, s, t) = FromRight(q, r, s, t)
  <1> DEFINE a == q \o r
             b == s \o t
  <1>1. a \in Seq(S) /\ b \in Seq(S)
    BY ConcatType
  <1>2. a \o b = q \o (r \o b)
    <2> HIDE DEF b
    <2> QED
      BY <1>1, ConcatAssoc DEF a
  <1>3. (a \o s) \o t = a \o b
    <2> HIDE DEF a
    <2> QED
      BY <1>1, ConcatAssoc DEF b
  <1> QED
    BY <1>2, <1>3 DEF a, b, FromLeft, FromRight

\* ConcatMove, with a third sequence behind the two
LEMMA ConcatMoveBefore ==
  ASSUME NEW S, NEW q \in Seq(S), NEW r \in Seq(S), NEW t \in Seq(S), r # <<>>
  PROVE  Append(q, Head(r)) \o (Tail(r) \o t) = q \o (r \o t)
  <1> DEFINE a == Append(q, Head(r))
             b == Tail(r)
  <1>1. a \in Seq(S) /\ b \in Seq(S)
    BY PopType, AppendType
  <1>2. a \o b = q \o r
    BY ConcatMove
  <1> HIDE DEF a, b
  <1>3. (a \o b) \o t = a \o (b \o t)
    BY <1>1, ConcatAssoc
  <1>4. (q \o r) \o t = q \o (r \o t)
    BY ConcatAssoc
  <1> QED
    BY <1>2, <1>3, <1>4 DEF a, b
=============================================================================
