--------------------------- MODULE SequenceLemmas ---------------------------
(***************************************************************************)
(* Sequences without repetitions, which is what the nodes of client_list   *)
(* are: what adding, removing and walking do to their members and to the   *)
(* order the members come in.                                              *)
(***************************************************************************)
EXTENDS Integers, Sequences, SequencesExt, SequenceTheorems, TLAPS

(* m comes before n in s.                                                  *)
Precedes(s, m, n) == \E i, j \in DOMAIN s : i < j /\ s[i] = m /\ s[j] = n

(* Removing one position of a sequence keeps the others in order.          *)
LEMMA RemoveAtProperties ==
  ASSUME NEW S, NEW s \in Seq(S), NEW i \in 1..Len(s)
  PROVE  /\ RemoveAt(s, i) \in Seq(S)
         /\ Len(RemoveAt(s, i)) = Len(s) - 1
         /\ \A j \in 1..(Len(s) - 1) : RemoveAt(s, i)[j] = IF j < i THEN s[j] ELSE s[j + 1]
<1> DEFINE a == SubSeq(s, 1, i - 1)
           b == SubSeq(s, i + 1, Len(s))
<1>0. Len(s) \in Nat /\ i \in Int
  BY LenProperties
<1>1. /\ a \in Seq(S) /\ Len(a) = i - 1
      /\ \A j \in 1..(i - 1) : a[j] = s[j]
  <2>1. \A j \in 1..(i - 1) : s[j] \in S
    BY <1>0, ElementOfSeq
  <2>2. /\ a \in Seq(S)
        /\ Len(a) = IF 1 <= i - 1 THEN (i - 1) - 1 + 1 ELSE 0
        /\ \A j \in 1..((i - 1) - 1 + 1) : a[j] = s[1 + j - 1]
    <3> HIDE DEF a
    <3>1. 1 \in Int /\ i - 1 \in Int
      BY <1>0
    <3> QED
      BY <2>1, <3>1, SubSeqProperties DEF a
  <2> QED
    BY <1>0, <2>2
<1>2. /\ b \in Seq(S) /\ Len(b) = Len(s) - i
      /\ \A j \in 1..(Len(s) - i) : b[j] = s[i + j]
  <2>1. \A j \in (i + 1)..Len(s) : s[j] \in S
    BY <1>0, ElementOfSeq
  <2>2. /\ b \in Seq(S)
        /\ Len(b) = IF i + 1 <= Len(s) THEN Len(s) - (i + 1) + 1 ELSE 0
        /\ \A j \in 1..(Len(s) - (i + 1) + 1) : b[j] = s[(i + 1) + j - 1]
    <3> HIDE DEF b
    <3>1. i + 1 \in Int /\ Len(s) \in Int
      BY <1>0
    <3> QED
      BY <2>1, <3>1, SubSeqProperties DEF b
  <2> QED
    BY <1>0, <2>2
<1>3. /\ a \o b \in Seq(S) /\ Len(a \o b) = Len(s) - 1
      /\ \A j \in 1..(Len(s) - 1) : (a \o b)[j] = IF j <= i - 1 THEN a[j] ELSE b[j - (i - 1)]
  <2> HIDE DEF a, b
  <2> QED
    BY <1>0, <1>1, <1>2, ConcatProperties
<1>4. \A j \in 1..(Len(s) - 1) : (a \o b)[j] = IF j < i THEN s[j] ELSE s[j + 1]
  <2> HIDE DEF a, b
  <2> TAKE j \in 1..(Len(s) - 1)
  <2>1. CASE j < i
    BY <1>0, <1>1, <1>3, <2>1
  <2>2. CASE ~ (j < i)
    BY <1>0, <1>2, <1>3, <2>2
  <2> QED
    BY <2>1, <2>2
<1> QED
  BY <1>3, <1>4 DEF RemoveAt

(* Appending a new member leaves the order of the others, and comes last.  *)
LEMMA AppendKeepsOrder ==
  ASSUME NEW S, NEW s \in Seq(S), IsInjective(s), NEW x \in S, x \notin Range(s)
  PROVE  /\ Append(s, x) \in Seq(S) /\ Len(Append(s, x)) = Len(s) + 1
         /\ IsInjective(Append(s, x))
         /\ Range(Append(s, x)) = Range(s) \cup {x}
         /\ \A m, n \in Range(s) : Precedes(Append(s, x), m, n) <=> Precedes(s, m, n)
         /\ \A m \in Range(s) : Precedes(Append(s, x), m, x) /\ ~ Precedes(Append(s, x), x, m)
<1> DEFINE t == Append(s, x)
           L == Len(s)
<1>1. /\ L \in Nat /\ DOMAIN s = 1..L
      /\ t \in Seq(S) /\ Len(t) = L + 1 /\ DOMAIN t = 1..(L + 1)
      /\ (\A i \in 1..L : t[i] = s[i]) /\ t[L + 1] = x
  BY AppendProperties, LenProperties
<1> HIDE DEF t, L
<1>2. \A i \in 1..(L + 1) : (i \in 1..L /\ t[i] = s[i] /\ t[i] # x) \/ (i = L + 1 /\ t[i] = x)
  BY <1>1 DEF Range
<1>3. 1..L \subseteq 1..(L + 1) /\ L + 1 \in 1..(L + 1) /\ \A i \in 1..L : i < L + 1
  BY <1>1
<1>4. IsInjective(t)
  BY <1>1, <1>2 DEF IsInjective
<1>5. Range(t) = Range(s) \cup {x}
  BY <1>1, <1>2, <1>3 DEF Range
<1>6. \A m, n \in Range(s) : Precedes(t, m, n) <=> Precedes(s, m, n)
  BY <1>1, <1>2, <1>3 DEF Precedes, Range
<1>7. \A m \in Range(s) : Precedes(t, m, x) /\ ~ Precedes(t, x, m)
  <2> TAKE m \in Range(s)
  <2>1. PICK i \in 1..L : s[i] = m
    BY <1>1 DEF Range
  <2>2. t[i] = m /\ i < L + 1
    BY <1>1, <1>3, <2>1
  <2>3. Precedes(t, m, x)
    BY <1>1, <1>3, <2>2 DEF Precedes
  <2>4. ~ Precedes(t, x, m)
    <3> SUFFICES ASSUME NEW j \in 1..(L + 1), NEW k \in 1..(L + 1), j < k, t[j] = x, t[k] = m
                 PROVE  FALSE
      BY <1>1 DEF Precedes
    <3>1. j = L + 1
      BY <1>2
    <3> QED
      BY <1>1, <3>1
  <2> QED
    BY <2>3, <2>4
<1> QED
  BY <1>1, <1>4, <1>5, <1>6, <1>7 DEF t, L

(* Removing a member leaves the others, in their order.                    *)
LEMMA RemoveKeepsOrder ==
  ASSUME NEW S, NEW s \in Seq(S), IsInjective(s), NEW i \in 1..Len(s)
  PROVE  /\ RemoveAt(s, i) \in Seq(S) /\ Len(RemoveAt(s, i)) = Len(s) - 1
         /\ IsInjective(RemoveAt(s, i))
         /\ Range(RemoveAt(s, i)) = Range(s) \ {s[i]}
         /\ \A m, n \in Range(s) \ {s[i]} :
              Precedes(RemoveAt(s, i), m, n) <=> Precedes(s, m, n)
<1> DEFINE t == RemoveAt(s, i)
           L == Len(s)
           Old(j) == IF j < i THEN j ELSE j + 1
           New(j) == IF j < i THEN j ELSE j - 1
<1>1. /\ L \in Nat /\ DOMAIN s = 1..L /\ i \in 1..L
      /\ t \in Seq(S) /\ Len(t) = L - 1 /\ DOMAIN t = 1..(L - 1)
      /\ \A j \in 1..(L - 1) : t[j] = s[Old(j)]
  BY RemoveAtProperties, LenProperties
<1> HIDE DEF t, L
<1>2. \A j \in 1..(L - 1) : Old(j) \in 1..L /\ Old(j) # i
  BY <1>1
<1>3. \A j \in 1..L : j # i => New(j) \in 1..(L - 1) /\ Old(New(j)) = j
  BY <1>1
<1>4. \A j, k \in 1..(L - 1) : (Old(j) = Old(k) => j = k) /\ (j < k => Old(j) < Old(k))
  BY <1>1
<1>5. \A j, k \in 1..L : j # i /\ k # i /\ j < k => New(j) < New(k)
  BY <1>1
<1> HIDE DEF Old, New
<1>6. IsInjective(t)
  BY <1>1, <1>2, <1>4 DEF IsInjective
<1>7. Range(t) = Range(s) \ {s[i]}
  <2>1. \A j \in 1..(L - 1) : t[j] \in Range(s) /\ t[j] # s[i]
    BY <1>1, <1>2 DEF Range, IsInjective
  <2>2. \A j \in 1..L : s[j] # s[i] => New(j) \in 1..(L - 1) /\ t[New(j)] = s[j]
    BY <1>1, <1>3
  <2> QED
    BY <1>1, <2>1, <2>2 DEF Range
<1>8. ASSUME NEW m, NEW n, Precedes(t, m, n) PROVE Precedes(s, m, n)
  BY <1>1, <1>2, <1>4, <1>8 DEF Precedes
<1>9. ASSUME NEW m, NEW n, m # s[i], n # s[i], Precedes(s, m, n) PROVE Precedes(t, m, n)
  <2>1. PICK j, k \in 1..L : j < k /\ s[j] = m /\ s[k] = n
    BY <1>1, <1>9 DEF Precedes
  <2>2. j # i /\ k # i
    BY <1>9, <2>1
  <2>3. /\ New(j) \in 1..(L - 1) /\ New(k) \in 1..(L - 1) /\ New(j) < New(k)
        /\ t[New(j)] = m /\ t[New(k)] = n
    BY <1>1, <1>3, <1>5, <2>1, <2>2
  <2> QED
    BY <1>1, <2>3 DEF Precedes
<1> QED
  BY <1>1, <1>6, <1>7, <1>8, <1>9 DEF t, L

(* The member after position i: what comes before it is that member and    *)
(* what came before that one; behind the last member there is nothing.     *)
LEMMA Successor ==
  ASSUME NEW S, NEW s \in Seq(S), IsInjective(s), NEW i \in 1..Len(s)
  PROVE  /\ s[i] \in Range(s)
         /\ i < Len(s) =>
              /\ i + 1 \in 1..Len(s) /\ s[i + 1] \in Range(s) /\ s[i + 1] # s[i]
              /\ \A m : Precedes(s, m, s[i + 1]) <=> m = s[i] \/ Precedes(s, m, s[i])
         /\ ~ (i < Len(s)) => \A m \in Range(s) : m = s[i] \/ Precedes(s, m, s[i])
<1> DEFINE L == Len(s)
<1>1. L \in Nat /\ DOMAIN s = 1..L /\ i \in 1..L
  BY LenProperties
<1> HIDE DEF L
<1>2. \A m : \A k \in 1..L : Precedes(s, m, s[k]) <=> \E j \in 1..L : j < k /\ s[j] = m
  BY <1>1 DEF Precedes, IsInjective
<1>3. ASSUME i < L
      PROVE  /\ i + 1 \in 1..L /\ s[i + 1] \in Range(s) /\ s[i + 1] # s[i]
             /\ \A m : Precedes(s, m, s[i + 1]) <=> m = s[i] \/ Precedes(s, m, s[i])
  <2>1. i + 1 \in 1..L /\ i + 1 # i
    BY <1>1, <1>3
  <2>2. \A j \in 1..L : j < i + 1 <=> j = i \/ j < i
    BY <1>1
  <2> QED
    BY <1>1, <1>2, <2>1, <2>2 DEF Range, IsInjective
<1>4. ASSUME ~ (i < L) PROVE \A m \in Range(s) : m = s[i] \/ Precedes(s, m, s[i])
  <2>1. \A j \in 1..L : j = i \/ j < i
    BY <1>1, <1>4
  <2> QED
    BY <1>1, <1>2, <2>1 DEF Range
<1> QED
  BY <1>1, <1>3, <1>4 DEF L, Range

(* Nothing comes before the first member.                                  *)
LEMMA FirstMember ==
  ASSUME NEW S, NEW s \in Seq(S), IsInjective(s), s # <<>>
  PROVE  /\ 1 \in 1..Len(s) /\ Head(s) = s[1] /\ Head(s) \in Range(s)
         /\ \A m : ~ Precedes(s, m, Head(s))
<1> DEFINE L == Len(s)
<1>1. L \in Nat /\ DOMAIN s = 1..L /\ 1 \in 1..L /\ Head(s) = s[1]
  BY LenProperties, HeadTailProperties, EmptySeq
<1> HIDE DEF L
<1>2. \A m : ~ Precedes(s, m, s[1])
  BY <1>1 DEF Precedes, IsInjective
<1> QED
  BY <1>1, <1>2 DEF L, Range

(* No two members come before each other.                                  *)
LEMMA OrderIsStrict ==
  ASSUME NEW S, NEW s \in Seq(S), IsInjective(s), NEW m, NEW n, Precedes(s, m, n)
  PROVE  ~ Precedes(s, n, m) /\ m # n /\ m \in Range(s) /\ n \in Range(s)
<1>1. DOMAIN s = 1..Len(s) /\ Len(s) \in Nat
  BY LenProperties
<1> QED
  BY <1>1 DEF Precedes, IsInjective, Range

(* What is left of a sequence from one position on.                        *)
LEMMA SuffixProperties ==
  ASSUME NEW S, NEW s \in Seq(S), IsInjective(s), NEW i \in 1..Len(s)
  PROVE  /\ SubSeq(s, i, Len(s)) \in Seq(S)
         /\ Len(SubSeq(s, i, Len(s))) = Len(s) - i + 1
         /\ IsInjective(SubSeq(s, i, Len(s)))
         /\ Range(SubSeq(s, i, Len(s))) \subseteq Range(s)
         /\ \A j \in DOMAIN SubSeq(s, i, Len(s)) :
              i + j - 1 \in DOMAIN s /\ SubSeq(s, i, Len(s))[j] = s[i + j - 1]
<1> DEFINE t == SubSeq(s, i, Len(s))
           L == Len(s)
<1>0. L \in Nat /\ i \in Int /\ i <= L /\ 1 <= i /\ DOMAIN s = 1..L
  BY LenProperties
<1>1. /\ t \in Seq(S)
      /\ Len(t) = IF i <= L THEN L - i + 1 ELSE 0
      /\ \A j \in 1..(L - i + 1) : t[j] = s[i + j - 1]
  <2>1. \A j \in i..L : s[j] \in S
    BY <1>0, ElementOfSeq
  <2>2. i \in Int /\ L \in Int
    BY <1>0
  <2> QED
    BY <2>1, <2>2, SubSeqProperties
<1>2. DOMAIN t = 1..(L - i + 1)
  BY <1>0, <1>1, LenProperties
<1> HIDE DEF t, L
<1>3. \A j \in DOMAIN t : i + j - 1 \in DOMAIN s /\ t[j] = s[i + j - 1]
  BY <1>0, <1>1, <1>2
<1>4. IsInjective(t)
  <2> SUFFICES ASSUME NEW j \in DOMAIN t, NEW k \in DOMAIN t, t[j] = t[k]
               PROVE  j = k
    BY DEF IsInjective
  <2>1. i + j - 1 = i + k - 1
    BY <1>3 DEF IsInjective
  <2> QED
    BY <1>0, <1>2, <2>1
<1>5. Range(t) \subseteq Range(s)
  BY <1>3 DEF Range
<1> QED
  BY <1>0, <1>1, <1>3, <1>4, <1>5 DEF t, L
=============================================================================
