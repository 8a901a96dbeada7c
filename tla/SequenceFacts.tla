----------------------------- MODULE SequenceFacts -----------------------------
(***************************************************************************)
(* Facts that the proofs share: about suffixes, prefixes, parts and        *)
(* concatenations of sequences, about definitions by recursion, and a few  *)
(* about numbers and finite sets.                                          *)
(***************************************************************************)
EXTENDS SequencesExt, SequenceTheorems, FiniteSetTheorems, WellFoundedInduction, TLAPS

(* Every nonempty set of naturals has a least element.  Facts about all    *)
(* naturals follow from it: there is no least counterexample.              *)
LEMMA LeastNatural ==
  ASSUME NEW S, S \subseteq Nat, S # {}
  PROVE  \E least \in S : \A n \in S : least <= n
<1>. DEFINE R == OpToRel(<, Nat)
<1>1. IsWellFoundedOn(R, Nat)
  BY NatLessThanWellFounded
<1>2. PICK least \in S : \A n \in S : ~ (<<n, least>> \in R)
  <2>. HIDE DEF R
  <2>. QED
    BY <1>1, WFMin
<1>3. ASSUME NEW n \in S
      PROVE  least <= n
  <2>1. ~(n < least)
    BY <1>2 DEF OpToRel
  <2>. QED
    BY <2>1
<1>. QED
  BY <1>3

(* Among things with a natural each, one has the least. *)
LEMMA LeastOf ==
  ASSUME NEW S, S # {}, NEW f, \A k \in S : f[k] \in Nat
  PROVE  \E k \in S : \A j \in S : f[k] <= f[j]
<1>. DEFINE G == {f[k] : k \in S}
<1>1. G \subseteq Nat /\ G # {}
  OBVIOUS
<1>2. PICK least \in G : \A g \in G : least <= g
  <2>. HIDE DEF G
  <2>. QED
    BY <1>1, LeastNatural
<1>. QED
  BY <1>2

(* A finite set of at most max elements, or of one when max is 0, that     *)
(* loses an element when it has max of them, has room for one more.        *)
LEMMA RoomForOne ==
  ASSUME NEW S, IsFiniteSet(S), NEW max \in Nat,
         Cardinality(S) <= IF max = 0 THEN 1 ELSE max,
         NEW gone, gone \in S \/ Cardinality(S) < max \/ S = {}, NEW key
  PROVE  /\ IsFiniteSet((S \ {gone}) \cup {key})
         /\ Cardinality((S \ {gone}) \cup {key}) <= IF max = 0 THEN 1 ELSE max
<1>. DEFINE kept == S \ {gone}
            limit == IF max = 0 THEN 1 ELSE max
<1>1. Cardinality(S) \in Nat
  BY FS_CardinalityType
<1>2. IsFiniteSet(kept) /\ Cardinality(kept) \in Nat /\ Cardinality(kept) < limit
  <2>1. CASE gone \in S
    <3>1. IsFiniteSet(kept) /\ Cardinality(kept) = Cardinality(S) - 1
      BY <2>1, FS_RemoveElement
    <3>2. Cardinality(kept) \in Nat
      BY <3>1, FS_CardinalityType
    <3>. QED
      BY <1>1, <3>1, <3>2
  <2>2. CASE gone \notin S
    <3>1. kept = S
      BY <2>2, Zenon
    <3>2. S = {} => Cardinality(S) = 0
      BY FS_EmptySet
    <3>. QED
      BY <1>1, <2>2, <3>1, <3>2
  <2>. QED
    BY <2>1, <2>2
<1>3. /\ IsFiniteSet(kept \cup {key})
      /\ Cardinality(kept \cup {key}) =
           IF key \in kept THEN Cardinality(kept) ELSE Cardinality(kept) + 1
  <2>. HIDE DEF kept
  <2>. QED
    BY <1>2, FS_AddElement
<1>. HIDE DEF kept
<1>. QED
  BY <1>2, <1>3 DEF kept

(* Division with remainder, and that it is unique. *)
LEMMA DivMod ==
  ASSUME NEW n \in Nat, NEW a \in Nat \ {0}
  PROVE  n \div a \in Nat /\ n % a \in 0..a - 1 /\ n = a * (n \div a) + (n % a)
OBVIOUS

LEMMA DivModUnique ==
  ASSUME NEW n \in Nat, NEW a \in Nat \ {0}, NEW q \in Nat, NEW r \in 0..a - 1, n = a * q + r
  PROVE  n \div a = q /\ n % a = r
OBVIOUS

(* The library's SubSeqRecursiveSecond, with the bounds of a suffix.        *)
LEMMA LastOfSubSeq ==
  ASSUME NEW S, NEW s \in Seq(S), NEW n \in Nat,
         NEW l \in 1..Len(s), n + 1 \in l..Len(s)
  PROVE  SubSeq(s, l, n + 1) = SubSeq(s, l, n) \o <<s[n + 1]>>
<1>1. \A m \in l..Len(s) : SubSeq(s, l, m) = SubSeq(s, l, m - 1) \o <<s[m]>>
  BY SubSeqRecursiveSecond
<1>2. (n + 1) - 1 = n
  OBVIOUS
<1>3. SubSeq(s, l, n + 1) = SubSeq(s, l, (n + 1) - 1) \o <<s[n + 1]>>
  BY <1>1, Zenon
<1>. QED
  BY <1>2, <1>3, Zenon

(* A suffix of a sequence, extended, is a suffix of the extended sequence. *)
LEMMA SuffixAppend ==
  ASSUME NEW S, NEW s \in Seq(S), NEW t \in Suffixes(s), NEW e \in S
  PROVE  /\ Append(t, e) \in Suffixes(Append(s, e))
         /\ <<e>> \in Suffixes(Append(s, e))
<1>1. /\ Append(s, e) \in Seq(S) /\ Len(Append(s, e)) = Len(s) + 1
      /\ Append(s, e)[Len(s) + 1] = e
      /\ \A i \in 1..Len(s) : Append(s, e)[i] = s[i]
  BY AppendProperties
<1>2. Len(s) \in Nat
  BY LenProperties
<1>3. ASSUME NEW l \in 1..Len(s)
      PROVE  SubSeq(Append(s, e), l, Len(s) + 1) = Append(SubSeq(s, l, Len(s)), e)
  <2>1. Append(s, e) = s \o <<e>>
    BY AppendIsConcat
  <2>2. SubSeq(Append(s, e), l, Len(s) + 1)
          = SubSeq(Append(s, e), l, Len(s)) \o <<e>>
    <3>1. l \in 1..Len(Append(s, e)) /\ Len(s) + 1 \in l..Len(Append(s, e))
      BY <1>1, <1>2
    <3>. QED
      BY <1>1, <1>2, <3>1, LastOfSubSeq
  <2>3. SubSeq(Append(s, e), l, Len(s)) = SubSeq(s, l, Len(s))
    <3>1. Len(s) \in 1..Len(s)
      BY <1>2
    <3>2. <<e>> \in Seq(S)
      OBVIOUS
    <3>. QED
      BY <2>1, <3>1, <3>2, SubSeqOfConcat1
  <2>4. SubSeq(s, l, Len(s)) \in Seq(S)
    BY <1>2, SubSeqProperties, ElementOfSeq
  <2>. QED
    BY <2>2, <2>3, <2>4, AppendIsConcat
<1>4. <<e>> \in Suffixes(Append(s, e))
  <2>0. Len(s) + 1 \in 1..Len(Append(s, e)) /\ Len(s) + 1 \in (Len(s) + 1)..Len(Append(s, e))
    BY <1>1, <1>2
  <2>1. SubSeq(Append(s, e), Len(s) + 1, Len(s) + 1) = <<e>>
    <3>1. SubSeq(Append(s, e), Len(s) + 1, Len(s) + 1)
            = SubSeq(Append(s, e), Len(s) + 1, Len(s)) \o <<e>>
      BY <1>1, <1>2, <2>0, LastOfSubSeq
    <3>2. SubSeq(Append(s, e), Len(s) + 1, Len(s)) = <<>>
      BY <1>2, SubSeqEmpty
    <3>3. <<>> \o <<e>> = <<e>>
      BY ConcatEmptySeq
    <3>. QED
      BY <3>1, <3>2, <3>3
  <2>2. Len(s) + 1 \in 1..Len(Append(s, e))
    BY <2>0
  <2>. QED
    BY <1>1, <2>1, <2>2 DEF Suffixes
<1>5. CASE t = <<>>
  <2>1. Append(t, e) = <<e>>
    BY <1>5
  <2>. QED
    BY <1>4, <2>1
<1>6. ASSUME NEW l \in 1..Len(s), t = SubSeq(s, l, Len(s))
      PROVE  Append(t, e) \in Suffixes(Append(s, e))
  <2>1. l \in 1..Len(Append(s, e))
    BY <1>1, <1>2
  <2>2. Append(t, e) = SubSeq(Append(s, e), l, Len(Append(s, e)))
    BY <1>1, <1>3, <1>6, Zenon
  <2>. QED
    BY <2>1, <2>2 DEF Suffixes
<1>. QED
  BY <1>4, <1>5, <1>6 DEF Suffixes

(* So is a suffix followed by nothing or one element more.                 *)
LEMMA SuffixExtended ==
  ASSUME NEW S, NEW s \in Seq(S), NEW t \in Suffixes(s), t \in Seq(S),
         NEW more \in Seq(S), more = <<>> \/ \E e \in S : more = <<e>>
  PROVE  t \o more \in Suffixes(s \o more)
<1>1. CASE more = <<>>
  BY <1>1, ConcatEmptySeq, Zenon
<1>2. ASSUME NEW e \in S, more = <<e>>
      PROVE  t \o more \in Suffixes(s \o more)
  <2>1. Append(t, e) = t \o <<e>> /\ Append(s, e) = s \o <<e>>
    BY AppendIsConcat
  <2>. QED
    BY <1>2, <2>1, SuffixAppend, Zenon
<1>. QED
  BY <1>1, <1>2

(* A sequence is a prefix of its concatenation with another, and of        *)
(* itself; without its end it is a prefix of the whole.                    *)
LEMMA ConcatIsPrefix ==
  ASSUME NEW S, NEW s \in Seq(S), NEW t \in Seq(S)
  PROVE  IsPrefix(s, s \o t)
<1>1. Len(s) \in Nat /\ Len(t) \in Nat /\ Len(s \o t) = Len(s) + Len(t)
  BY LenProperties, ConcatProperties
<1>2. SubSeq(s, 1, Len(s)) = SubSeq(s \o t, 1, Len(s))
  <2>1. CASE Len(s) = 0
    BY <2>1, SubSeqEmpty
  <2>2. CASE Len(s) > 0
    <3>1. 1 \in 1..Len(s) /\ Len(s) \in 1..Len(s)
      BY <1>1, <2>2
    <3>. QED
      BY <3>1, SubSeqOfConcat1
  <2>. QED
    BY <1>1, <2>1, <2>2
<1>. QED
  BY <1>1, <1>2 DEF IsPrefix

LEMMA CutIsPrefix ==
  ASSUME NEW S, NEW s \in Seq(S), NEW b \in Seq(S), NEW n \in 0..Len(b)
  PROVE  IsPrefix(s \o SubSeq(b, 1, n), s \o b)
<1>1. Len(b) \in Nat
  BY LenProperties
<1>2. /\ SubSeq(b, 1, n) \in Seq(S)
      /\ SubSeq(b, n + 1, Len(b)) \in Seq(S)
  BY <1>1, SubSeqProperties, ElementOfSeq
<1>3. b = SubSeq(b, 1, n) \o SubSeq(b, n + 1, Len(b))
  <2>1. 1 \in 1..Len(b) + 1 /\ n \in 1 - 1..Len(b) /\ Len(b) \in n..Len(b)
    BY <1>1
  <2>2. SubSeq(b, 1, n) \o SubSeq(b, n + 1, Len(b)) = SubSeq(b, 1, Len(b))
    BY <2>1, ConcatAdjacentSubSeq
  <2>. QED
    BY <2>2, SubSeqFull
<1>. DEFINE head == SubSeq(b, 1, n)
            rest == SubSeq(b, n + 1, Len(b))
<1>4. head \in Seq(S) /\ rest \in Seq(S) /\ b = head \o rest
  BY <1>2, <1>3
<1>. HIDE DEF head, rest
<1>5. (s \o head) \o rest = s \o (head \o rest)
  BY <1>4, ConcatAssociative
<1>6. IsPrefix(s \o head, (s \o head) \o rest)
  <2>1. s \o head \in Seq(S)
    BY <1>4, ConcatProperties
  <2>. QED
    BY <1>4, <2>1, ConcatIsPrefix
<1>7. IsPrefix(s \o head, s \o b)
  BY <1>4, <1>5, <1>6, Zenon
<1>. QED
  BY <1>7 DEF head

LEMMA SubSeqIsPrefix ==
  ASSUME NEW S, NEW s \in Seq(S), NEW k \in 0..Len(s)
  PROVE  IsPrefix(SubSeq(s, 1, k), s)
<1>. DEFINE e == <<>>
<1>1. e \in Seq(S)
  OBVIOUS
<1>2. Len(s) \in Nat /\ SubSeq(s, 1, k) \in Seq(S)
  BY LenProperties, SubSeqProperties, ElementOfSeq
<1>. HIDE DEF e
<1>3. IsPrefix(e \o SubSeq(s, 1, k), e \o s)
  BY <1>1, CutIsPrefix
<1>4. e \o SubSeq(s, 1, k) = SubSeq(s, 1, k) /\ e \o s = s
  BY <1>2, ConcatEmptySeq DEF e
<1>. QED
  BY <1>3, <1>4, Zenon

(* So it is of a concatenation of three. *)
LEMMA FirstOfThreeIsPrefix ==
  ASSUME NEW S, NEW s \in Seq(S), NEW t \in Seq(S), NEW u \in Seq(S)
  PROVE  IsPrefix(s, (s \o t) \o u)
<1>1. (s \o t) \o u = s \o (t \o u)
  BY ConcatAssociative
<1>2. t \o u \in Seq(S)
  BY ConcatProperties
<1>3. IsPrefix(s, s \o (t \o u))
  BY <1>2, ConcatIsPrefix
<1>. QED
  BY <1>1, <1>3, Zenon

(* A prefix has the elements of the sequence at their places. *)
LEMMA PrefixAgrees ==
  ASSUME NEW S, NEW r \in Seq(S), NEW s \in Seq(S), IsPrefix(r, s), NEW i \in DOMAIN r
  PROVE  i \in DOMAIN s /\ r[i] = s[i]
<1>1. /\ Len(r) \in Nat /\ Len(s) \in Nat /\ Len(r) <= Len(s)
      /\ DOMAIN r = 1..Len(r) /\ DOMAIN s = 1..Len(s)
      /\ SubSeq(r, 1, Len(r)) = SubSeq(s, 1, Len(r))
  BY LenProperties DEF IsPrefix
<1>2. SubSeq(r, 1, Len(r))[i] = r[i]
  BY SubSeqFull
<1>. DEFINE n == Len(r)
<1>3. n \in Nat /\ i \in 1..n /\ n <= Len(s) /\ i \in DOMAIN s
  BY <1>1
<1>4. SubSeq(s, 1, n)[i] = s[i]
  <2>. HIDE DEF n
  <2>. QED
    BY <1>3
<1>5. SubSeq(r, 1, n) = SubSeq(s, 1, n)
  BY <1>1
<1>. QED
  BY <1>2, <1>3, <1>4, <1>5

(* What makes up the beginning of a sequence, together with what follows,  *)
(* is a prefix of it.                                                      *)
LEMMA PrefixOfCut ==
  ASSUME NEW S, NEW b \in Seq(S), NEW n \in 0..Len(b), NEW r \in Seq(S), NEW t \in Seq(S),
         r \o t = SubSeq(b, 1, n)
  PROVE  IsPrefix(r, b)
<1>1. Len(b) \in Nat
  BY LenProperties
<1>. DEFINE rest == SubSeq(b, n + 1, Len(b))
<1>2. rest \in Seq(S)
  BY <1>1, SubSeqProperties, ElementOfSeq
<1>3. b = (r \o t) \o rest
  <2>1. 1 \in 1..Len(b) + 1 /\ n \in 1 - 1..Len(b) /\ Len(b) \in n..Len(b)
    BY <1>1
  <2>2. SubSeq(b, 1, n) \o SubSeq(b, n + 1, Len(b)) = SubSeq(b, 1, Len(b))
    BY <2>1, ConcatAdjacentSubSeq
  <2>. QED
    BY <2>2, SubSeqFull
<1>. HIDE DEF rest
<1>4. IsPrefix(r, (r \o t) \o rest)
  BY <1>2, FirstOfThreeIsPrefix
<1>. QED
  BY <1>3, <1>4, Zenon
-----------------------------------------------------------------------------
(* FlattenSeq joins one sequence after the other: what it has joined of    *)
(* the first n is a recursive function, of which it has to be shown that   *)
(* there is one, and only one.                                             *)
Concatenates(seqs, n, joined) ==
  joined = [i \in 1..n |-> IF i = 1 THEN seqs[i] ELSE joined[i-1] \o seqs[i]]

LEMMA JoinedValue ==
  ASSUME NEW seqs, NEW n, NEW joined, Concatenates(seqs, n, joined), NEW i \in 1..n
  PROVE  joined[i] = IF i = 1 THEN seqs[i] ELSE joined[i-1] \o seqs[i]
BY DEF Concatenates

LEMMA JoinedLast ==
  ASSUME NEW seqs, NEW n, NEW joined, Concatenates(seqs, n, joined)
  PROVE  n \in Nat \ {0} /\ n # 1 => joined[n] = joined[n - 1] \o seqs[n]
<1>1. n \in 1..n => joined[n] = IF n = 1 THEN seqs[n] ELSE joined[n - 1] \o seqs[n]
  BY JoinedValue
<1>2. n \in Nat \ {0} => n \in 1..n
  OBVIOUS
<1>. QED
  BY <1>1, <1>2, Zenon

LEMMA JoinedExists ==
  ASSUME NEW seqs, NEW n \in Nat
  PROVE  \E joined : Concatenates(seqs, n, joined)
<1>. DEFINE Bad == {m \in Nat : ~ \E joined : Concatenates(seqs, m, joined)}
<1>. SUFFICES ASSUME Bad # {}
              PROVE  FALSE
  OBVIOUS
<1>1. PICK m \in Bad : \A other \in Bad : m <= other
  <2>1. Bad \subseteq Nat
    OBVIOUS
  <2>. HIDE DEF Bad
  <2>. QED
    BY <2>1, LeastNatural
<1>2. m # 0
  <2>1. Concatenates(seqs, 0, [i \in 1..0 |-> <<>>])
    BY DEF Concatenates
  <2>. QED
    BY <1>1, <2>1
<1>3. PICK f : Concatenates(seqs, m - 1, f)
  BY <1>1, <1>2
<1>. DEFINE g == [i \in 1..m |-> IF i < m THEN f[i]
                                 ELSE IF m = 1 THEN seqs[m] ELSE f[m-1] \o seqs[m]]
<1>4. \A i \in 1..m : g[i] = IF i = 1 THEN seqs[i] ELSE g[i-1] \o seqs[i]
  <2>1. \A i \in 1..(m - 1) : f[i] = IF i = 1 THEN seqs[i] ELSE f[i-1] \o seqs[i]
    BY <1>3 DEF Concatenates
  <2>. QED
    BY <1>1, <1>2, <2>1
<1>5. Concatenates(seqs, m, g)
  BY <1>4 DEF Concatenates
<1>. QED
  BY <1>1, <1>5

LEMMA JoinedAgree ==
  ASSUME NEW s, NEW t, NEW m \in Nat, NEW n \in Nat, m <= n, \A i \in 1..m : s[i] = t[i],
         NEW f, Concatenates(s, m, f), NEW g, Concatenates(t, n, g)
  PROVE  \A i \in 1..m : f[i] = g[i]
<1>. DEFINE Bad == {i \in 1..m : f[i] # g[i]}
<1>. SUFFICES ASSUME Bad # {}
              PROVE  FALSE
  OBVIOUS
<1>1. PICK k \in Bad : \A other \in Bad : k <= other
  <2>1. Bad \subseteq Nat
    OBVIOUS
  <2>. HIDE DEF Bad
  <2>. QED
    BY <2>1, LeastNatural
<1>2. /\ f[k] = IF k = 1 THEN s[k] ELSE f[k-1] \o s[k]
      /\ g[k] = IF k = 1 THEN t[k] ELSE g[k-1] \o t[k]
  <2>1. k \in 1..m /\ k \in 1..n
    BY <1>1
  <2>. QED
    BY <2>1, JoinedValue
<1>3. k # 1 => k - 1 \in 1..m /\ k - 1 \notin Bad
  BY <1>1
<1>. QED
  BY <1>1, <1>2, <1>3

LEMMA JoinedOneMore ==
  ASSUME NEW s, NEW t, NEW n \in Nat, \A i \in 1..n : s[i] = t[i],
         NEW f, Concatenates(s, n, f), NEW g, Concatenates(t, n + 1, g)
  PROVE  \A i \in 1..n : f[i] = g[i]
<1>. DEFINE m == n + 1
<1>1. m \in Nat /\ n <= m /\ Concatenates(t, m, g)
  OBVIOUS
<1>. HIDE DEF m
<1>. QED
  BY <1>1, JoinedAgree

LEMMA JoinedType ==
  ASSUME NEW S, NEW seqs, NEW n \in Nat, \A i \in 1..n : seqs[i] \in Seq(S),
         NEW joined, Concatenates(seqs, n, joined)
  PROVE  \A i \in 1..n : joined[i] \in Seq(S)
<1>. DEFINE Bad == {i \in 1..n : joined[i] \notin Seq(S)}
<1>. SUFFICES ASSUME Bad # {}
              PROVE  FALSE
  OBVIOUS
<1>1. PICK k \in Bad : \A other \in Bad : k <= other
  <2>1. Bad \subseteq Nat
    OBVIOUS
  <2>. HIDE DEF Bad
  <2>. QED
    BY <2>1, LeastNatural
<1>2. joined[k] = IF k = 1 THEN seqs[k] ELSE joined[k-1] \o seqs[k]
  BY <1>1 DEF Concatenates
<1>3. k # 1 => joined[k-1] \in Seq(S)
  <2>1. k # 1 => k - 1 \in 1..n /\ k - 1 \notin Bad
    BY <1>1
  <2>. QED
    BY <2>1
<1>4. seqs[k] \in Seq(S) /\ joined[k] \notin Seq(S)
  BY <1>1
<1>5. CASE k = 1
  BY <1>2, <1>4, <1>5
<1>6. CASE k # 1
  BY <1>2, <1>3, <1>4, <1>6, ConcatProperties
<1>. QED
  BY <1>5, <1>6

LEMMA FlattenJoined ==
  ASSUME NEW seqs, NEW n \in Nat \ {0}, NEW joined, Concatenates(seqs, n, joined)
  PROVE  Len(seqs) = n => FlattenSeq(seqs) = joined[n]
<1>. SUFFICES ASSUME Len(seqs) = n
              PROVE  FlattenSeq(seqs) = joined[n]
  OBVIOUS
<1>. DEFINE flatten ==
       CHOOSE f : f = [i \in 1..Len(seqs) |-> IF i = 1 THEN seqs[i] ELSE f[i-1] \o seqs[i]]
<1>1. Concatenates(seqs, Len(seqs), flatten)
  BY DEF Concatenates
<1>2. FlattenSeq(seqs) = flatten[Len(seqs)]
  BY DEF FlattenSeq
<1>. HIDE DEF flatten
<1>. QED
  <2>1. n \in Nat /\ n \in 1..n /\ n <= n /\ \A i \in 1..n : seqs[i] = seqs[i]
    OBVIOUS
  <2>2. Concatenates(seqs, n, flatten)
    BY <1>1
  <2>3. \A i \in 1..n : flatten[i] = joined[i]
    BY <2>1, <2>2, JoinedAgree
  <2>. QED
    BY <1>2, <2>1, <2>3

(* Nothing joined is nothing; and an element more is joined at the end.    *)
LEMMA FlattenEmpty == FlattenSeq(<<>>) = <<>>
BY DEF FlattenSeq

OneMore(S, seqs, more) ==
  /\ Len(seqs) \in Nat \ {0} /\ Len(more) = Len(seqs) + 1
  /\ \A i \in 1..Len(seqs) : seqs[i] = more[i]
  /\ \A i \in 1..Len(seqs) : seqs[i] \in Seq(S)

LEMMA FlattenMore ==
  ASSUME NEW S, NEW seqs, NEW more, OneMore(S, seqs, more)
  PROVE  /\ FlattenSeq(seqs) \in Seq(S)
         /\ FlattenSeq(more) = FlattenSeq(seqs) \o more[Len(seqs) + 1]
<1>. DEFINE n == Len(seqs)
            m == n + 1
<1>1. /\ n \in Nat \ {0} /\ Len(more) = m
      /\ m \in Nat \ {0} /\ m \in 1..m /\ m # 1 /\ m - 1 = n
  BY DEF OneMore
<1>. HIDE DEF n
<1>2. PICK f : Concatenates(seqs, n, f)
  BY <1>1, JoinedExists
<1>3. PICK g : Concatenates(more, m, g)
  <2>. HIDE DEF m
  <2>. QED
    BY <1>1, JoinedExists
<1>4. \A i \in 1..n : seqs[i] = more[i]
  BY DEF OneMore, n
<1>5. f[n] = g[n]
  <2>1. \A i \in 1..n : f[i] = g[i]
    BY <1>1, <1>2, <1>3, <1>4, JoinedOneMore, SMTT(30)
  <2>. QED
    BY <1>1, <2>1
<1>. HIDE DEF m
<1>6. g[m] = g[m - 1] \o more[m]
  BY <1>1, <1>3, JoinedLast, Zenon
<1>7. FlattenSeq(seqs) = f[n]
  BY <1>1, <1>2, FlattenJoined DEF n
<1>8. FlattenSeq(more) = g[m]
  BY <1>1, <1>3, FlattenJoined
<1>9. f[n] \in Seq(S)
  <2>1. \A i \in 1..n : seqs[i] \in Seq(S)
    BY DEF OneMore, n
  <2>2. \A i \in 1..n : f[i] \in Seq(S)
    BY <1>1, <1>2, <2>1, JoinedType
  <2>. QED
    BY <1>1, <2>2
<1>. QED
  BY <1>1, <1>5, <1>6, <1>7, <1>8, <1>9 DEF m, n

LEMMA FlattenOne ==
  ASSUME NEW seqs, NEW x
  PROVE  Len(seqs) = 1 /\ seqs[1] = x => FlattenSeq(seqs) = x
<1>. DEFINE f == [i \in 1..1 |-> seqs[1]]
<1>1. Concatenates(seqs, 1, f) /\ f[1] = seqs[1]
  BY DEF Concatenates
<1>. HIDE DEF f
<1>2. Len(seqs) = 1 => FlattenSeq(seqs) = f[1]
  <2>1. 1 \in Nat \ {0}
    OBVIOUS
  <2>. QED
    BY <1>1, <2>1, FlattenJoined, Zenon
<1>. QED
  BY <1>1, <1>2

LEMMA FlattenAppend ==
  ASSUME NEW S, NEW seqs \in Seq(Seq(S)), NEW last \in Seq(S)
  PROVE  /\ FlattenSeq(seqs) \in Seq(S)
         /\ FlattenSeq(Append(seqs, last)) = FlattenSeq(seqs) \o last
<1>. DEFINE n == Len(seqs)
            more == Append(seqs, last)
<1>1. /\ n \in Nat /\ Len(more) = n + 1 /\ more[n + 1] = last
      /\ \A i \in 1..n : seqs[i] = more[i] /\ seqs[i] \in Seq(S)
  BY LenProperties, AppendProperties, ElementOfSeq
<1>2. CASE n = 0
  <2>1. seqs = <<>>
    BY <1>2, EmptySeq
  <2>2. FlattenSeq(seqs) = <<>> /\ <<>> \o last = last
    BY <2>1, FlattenEmpty, ConcatEmptySeq
  <2>3. Len(more) = 1 /\ more[1] = last
    BY <1>1, <1>2
  <2>. HIDE DEF more
  <2>4. FlattenSeq(more) = last
    BY <2>3, FlattenOne
  <2>. QED
    BY <2>2, <2>4, EmptySeq DEF more
<1>3. CASE n # 0
  <2>1. OneMore(S, seqs, more)
    BY <1>1, <1>3 DEF OneMore
  <2>. HIDE DEF more
  <2>2. FlattenSeq(seqs) \in Seq(S) /\ FlattenSeq(more) = FlattenSeq(seqs) \o more[n + 1]
    BY <2>1, FlattenMore
  <2>. QED
    BY <1>1, <2>2, Zenon DEF more
<1>. QED
  BY <1>1, <1>2, <1>3

(* The same of two sequences given as functions. *)
LEMMA FlattenLonger ==
  ASSUME NEW S, NEW a \in Seq(Seq(S)), NEW b,
         b = [i \in 1..(Len(a) + 1) |-> b[i]],
         \A i \in 1..Len(a) : b[i] = a[i], b[Len(a) + 1] \in Seq(S)
  PROVE  /\ FlattenSeq(a) \in Seq(S) /\ b \in Seq(Seq(S))
         /\ FlattenSeq(b) = FlattenSeq(a) \o b[Len(a) + 1]
<1>. DEFINE n == Len(a)
            last == b[n + 1]
<1>1. PICK c : c = Append(a, last)
  OBVIOUS
<1>2. /\ n \in Nat /\ c \in Seq(Seq(S)) /\ Len(c) = n + 1
      /\ c[n + 1] = last /\ \A i \in 1..n : c[i] = a[i]
  BY <1>1, LenProperties, AppendProperties
<1>3. c = [i \in 1..(n + 1) |-> c[i]]
  <2>1. c \in [1..Len(c) -> Seq(S)]
    BY <1>2, LenProperties
  <2>. QED
    BY <1>2, <2>1
<1>4. ASSUME NEW i \in 1..(n + 1)
      PROVE  b[i] = c[i]
  <2>1. i \in 1..n \/ i = n + 1
    BY <1>2
  <2>2. CASE i \in 1..n
    <3>1. b[i] = a[i]
      BY <2>2, Zenon
    <3>. QED
      BY <1>2, <2>2, <3>1, Zenon
  <2>3. CASE i = n + 1
    <3>1. c[i] = last
      BY <1>2, <2>3, Zenon
    <3>. QED
      BY <2>3, <3>1, Zenon
  <2>. QED
    BY <2>1, <2>2, <2>3
<1>5. b = c
  BY <1>3, <1>4
<1>6. FlattenSeq(a) \in Seq(S) /\ FlattenSeq(Append(a, last)) = FlattenSeq(a) \o last
  BY FlattenAppend
<1>. QED
  BY <1>1, <1>2, <1>5, <1>6

(* Parts that depend on the elements of a sequence alone: an element more  *)
(* joins its part at the end.                                              *)
FlattenImage(f, s) == FlattenSeq([i \in DOMAIN s |-> f[s[i]]])

Parts(A, S) == [A -> Seq(S)]

LEMMA ImageAppend ==
  ASSUME NEW A, NEW S, NEW f \in Parts(A, S), NEW s \in Seq(A), NEW e \in A
  PROVE  /\ FlattenImage(f, s) \in Seq(S)
         /\ FlattenImage(f, Append(s, e)) = FlattenImage(f, s) \o f[e]
<1>. DEFINE n == Len(s)
            more == Append(s, e)
            a == [i \in DOMAIN s |-> f[s[i]]]
            b == [i \in DOMAIN more |-> f[more[i]]]
<1>1. /\ n \in Nat /\ DOMAIN s = 1..n /\ DOMAIN more = 1..(n + 1)
      /\ \A i \in 1..n : more[i] = s[i] /\ s[i] \in A
      /\ more[n + 1] = e
  BY LenProperties, AppendProperties, ElementOfSeq
<1>. HIDE DEF n, more
<1>2. a \in Seq(Seq(S)) /\ Len(a) = n
  <2>. DEFINE Q == Seq(S)
  <2>1. f \in [A -> Q]
    BY DEF Parts
  <2>. HIDE DEF Q
  <2>2. a \in [1..n -> Q]
    BY <1>1, <2>1
  <2>. HIDE DEF a
  <2>3. a \in Seq(Q)
    BY <1>1, <2>2, SeqDef
  <2>4. Len(a) = n
    BY <1>1, <2>2, <2>3, LenProperties
  <2>. QED
    BY <2>3, <2>4 DEF Q
<1>3. /\ b = [i \in 1..(n + 1) |-> b[i]]
      /\ \A i \in 1..n : b[i] = a[i]
      /\ b[n + 1] = f[e] /\ f[e] \in Seq(S)
  BY <1>1 DEF Parts
<1>. HIDE DEF a, b
<1>4. /\ b = [i \in 1..(Len(a) + 1) |-> b[i]]
      /\ \A i \in 1..Len(a) : b[i] = a[i]
      /\ b[Len(a) + 1] \in Seq(S)
  BY <1>2, <1>3, Zenon
<1>5. FlattenSeq(a) \in Seq(S) /\ FlattenSeq(b) = FlattenSeq(a) \o b[Len(a) + 1]
  BY <1>2, <1>4, FlattenLonger, Zenon
<1>6. FlattenSeq(b) = FlattenSeq(a) \o f[e]
  BY <1>2, <1>3, <1>5, Zenon
<1>. QED
  BY <1>5, <1>6 DEF a, b, more, FlattenImage

(* One element before others. *)
LEMMA OneBefore ==
  ASSUME NEW S, NEW x \in S, NEW t \in Seq(S)
  PROVE  /\ <<x>> \o t \in Seq(S) /\ Len(<<x>> \o t) = Len(t) + 1 /\ <<x>> \o t # <<>>
         /\ Head(<<x>> \o t) = x /\ Tail(<<x>> \o t) = t
         /\ \A c \in 1..Len(t) + 1 : SubSeq(<<x>> \o t, 1, c) = <<x>> \o SubSeq(t, 1, c - 1)
<1>. DEFINE one == <<x>>
            s == one \o t
<1>1. one \in Seq(S) /\ Len(one) = 1 /\ one[1] = x
  OBVIOUS
<1>. HIDE DEF one
<1>2. /\ s \in Seq(S) /\ Len(s) = Len(t) + 1 /\ Len(t) \in Nat
      /\ \A i \in 1..Len(t) + 1 : s[i] = IF i <= 1 THEN one[i] ELSE t[i - 1]
  <2>1. /\ s \in Seq(S) /\ Len(s) = Len(one) + Len(t) /\ Len(t) \in Nat
        /\ \A i \in 1..Len(one) + Len(t) : s[i] = IF i <= Len(one) THEN one[i] ELSE t[i - Len(one)]
    BY <1>1, ConcatProperties, LenProperties
  <2>. HIDE DEF s
  <2>. QED
    BY <1>1, <2>1
<1>. HIDE DEF s
<1>3. s # <<>> /\ Head(s) = x
  <2>1. s # <<>>
    BY <1>2, EmptySeq
  <2>2. s[1] = x
    BY <1>1, <1>2
  <2>. QED
    BY <1>2, <2>1, <2>2, HeadTailProperties
<1>4. Tail(s) = t
  <2>1. /\ Tail(s) \in Seq(S) /\ Len(Tail(s)) = Len(s) - 1
        /\ \A i \in 1..Len(Tail(s)) : Tail(s)[i] = s[i + 1]
    BY <1>2, <1>3, HeadTailProperties
  <2>2. \A i \in 1..Len(t) : Tail(s)[i] = t[i]
    <3>. SUFFICES ASSUME NEW i \in 1..Len(t)
                  PROVE  Tail(s)[i] = t[i]
      OBVIOUS
    <3>1. Tail(s)[i] = s[i + 1] /\ i + 1 \in 1..Len(t) + 1 /\ ~(i + 1 <= 1) /\ (i + 1) - 1 = i
      BY <1>2, <2>1
    <3>2. s[i + 1] = t[(i + 1) - 1]
      BY <1>2, <3>1
    <3>. QED
      BY <3>1, <3>2
  <2>3. Len(Tail(s)) = Len(t)
    BY <1>2, <2>1
  <2>. QED
    BY <2>1, <2>2, <2>3, SeqEqual
<1>5. ASSUME NEW c \in 1..Len(t) + 1
      PROVE  SubSeq(s, 1, c) = one \o SubSeq(t, 1, c - 1)
  <2>. DEFINE u == SubSeq(t, 1, c - 1)
              v == SubSeq(s, 1, c)
  <2>1. /\ u \in Seq(S) /\ Len(u) = c - 1
        /\ \A i \in 1..c - 1 : u[i] = t[i]
    BY <1>2, SubSeqProperties, ElementOfSeq
  <2>2. /\ v \in Seq(S) /\ Len(v) = c
        /\ \A i \in 1..c : v[i] = s[i]
    BY <1>2, SubSeqProperties, ElementOfSeq
  <2>. HIDE DEF u, v
  <2>3. /\ one \o u \in Seq(S) /\ Len(one \o u) = c
        /\ \A i \in 1..c : (one \o u)[i] = IF i <= 1 THEN one[i] ELSE u[i - 1]
    <3>1. /\ one \o u \in Seq(S) /\ Len(one \o u) = Len(one) + Len(u)
          /\ \A i \in 1..Len(one) + Len(u) :
               (one \o u)[i] = IF i <= Len(one) THEN one[i] ELSE u[i - Len(one)]
      BY <1>1, <2>1, ConcatProperties
    <3>2. Len(one) + Len(u) = c
      BY <1>1, <1>2, <2>1
    <3>. QED
      BY <1>1, <3>1, <3>2
  <2>4. ASSUME NEW i \in 1..c
        PROVE  v[i] = (one \o u)[i]
    <3>1. v[i] = IF i <= 1 THEN one[i] ELSE t[i - 1]
      BY <1>2, <2>2
    <3>2. ~(i <= 1) => i - 1 \in 1..c - 1
      BY <1>2
    <3>. QED
      BY <2>1, <2>3, <3>1, <3>2
  <2>. QED
    BY <2>2, <2>3, <2>4, SeqEqual DEF u, v
<1>. QED
  BY <1>2, <1>3, <1>4, <1>5 DEF s, one


(* Concatenation of three, behind a name the provers can match. *)
Grouped(a, b, c) == (a \o b) \o c = a \o (b \o c)

LEMMA Regroup ==
  ASSUME NEW S, NEW a \in Seq(S), NEW b \in Seq(S), NEW c \in Seq(S)
  PROVE  Grouped(a, b, c)
<1>1. (a \o b) \o c = a \o (b \o c)
  BY ConcatAssociative
<1>. QED
  BY <1>1, Zenon DEF Grouped

(* What is left of a sequence after its beginning h, when it is cut off    *)
(* within the part c that follows, or after that part.                     *)
CutFalls(S, h, c, t, cut) ==
  LET left == SubSeq(SubSeq(h \o (c \o t), 1, cut), Len(h) + 1, cut)
  IN /\ cut < Len(h) + Len(c) => left = SubSeq(c, 1, cut - Len(h))
     /\ cut >= Len(h) + Len(c) => \E rest \in Seq(S) : left = c \o rest

LEMMA CutAfter ==
  ASSUME NEW S, NEW h \in Seq(S), NEW c \in Seq(S), NEW t \in Seq(S),
         NEW cut \in Nat, Len(h) <= cut, cut <= Len(h \o (c \o t))
  PROVE  CutFalls(S, h, c, t, cut)
<1>. DEFINE d == c \o t
            b == h \o d
            v == SubSeq(b, 1, cut)
            left == SubSeq(v, Len(h) + 1, cut)
<1>1. /\ d \in Seq(S) /\ Len(d) = Len(c) + Len(t)
      /\ Len(c) \in Nat /\ Len(t) \in Nat /\ Len(h) \in Nat
      /\ \A i \in 1..Len(c) + Len(t) : d[i] = IF i <= Len(c) THEN c[i] ELSE t[i - Len(c)]
  BY ConcatProperties, LenProperties
<1>. HIDE DEF d
<1>2. /\ b \in Seq(S) /\ Len(b) = Len(h) + Len(d)
      /\ \A i \in 1..Len(h) + Len(d) : b[i] = IF i <= Len(h) THEN h[i] ELSE d[i - Len(h)]
  <2>1. h \in Seq(S) /\ d \in Seq(S)
    BY <1>1
  <2>. QED
    BY <2>1, ConcatProperties
<1>3. cut <= Len(b)
  BY DEF d
<1>. HIDE DEF b
<1>4. v \in Seq(S) /\ Len(v) = cut /\ \A i \in 1..cut : v[i] = b[i]
  BY <1>1, <1>2, <1>3, SubSeqProperties, ElementOfSeq
<1>. HIDE DEF v
<1>. DEFINE n == cut - Len(h)
<1>5. n \in Nat /\ n <= Len(d)
  BY <1>1, <1>2, <1>3
<1>6. left \in Seq(S) /\ Len(left) = n /\ \A i \in 1..n : left[i] = v[Len(h) + i]
  <2>1. \A i \in Len(h) + 1..cut : v[i] \in S
    BY <1>1, <1>4, ElementOfSeq
  <2>2. Len(h) + 1 \in Int /\ cut \in Int
    BY <1>1
  <2>3. /\ left \in Seq(S)
        /\ Len(left) = IF Len(h) + 1 <= cut THEN cut - (Len(h) + 1) + 1 ELSE 0
        /\ \A i \in 1..cut - (Len(h) + 1) + 1 : left[i] = v[Len(h) + 1 + i - 1]
    BY <2>1, <2>2, SubSeqProperties
  <2>. HIDE DEF left
  <2>. QED
    BY <1>1, <2>3
<1>. HIDE DEF left
<1>7. ASSUME NEW i \in 1..n
      PROVE  left[i] = d[i]
  <2>. DEFINE j == Len(h) + i
  <2>1. j \in 1..cut /\ j \in 1..Len(h) + Len(d) /\ ~(j <= Len(h)) /\ j - Len(h) = i
    BY <1>1, <1>5
  <2>2. left[i] = v[j]
    BY <1>6
  <2>. HIDE DEF j
  <2>. QED
    BY <1>2, <1>4, <2>1, <2>2
<1>. HIDE DEF n
<1>8. ASSUME cut < Len(h) + Len(c)
      PROVE  left = SubSeq(c, 1, cut - Len(h))
  <2>. DEFINE u == SubSeq(c, 1, n)
  <2>1. n < Len(c)
    BY <1>1, <1>8 DEF n
  <2>2. u \in Seq(S) /\ Len(u) = n /\ \A i \in 1..n : u[i] = c[i]
    BY <1>1, <1>5, <2>1, SubSeqProperties, ElementOfSeq
  <2>3. \A i \in 1..n : d[i] = c[i]
    BY <1>1, <1>5, <2>1
  <2>. HIDE DEF u
  <2>4. left = u
    BY <1>5, <1>6, <1>7, <2>2, <2>3, SeqEqual
  <2>. QED
    BY <2>4 DEF u, n
<1>9. ASSUME cut >= Len(h) + Len(c)
      PROVE  \E rest \in Seq(S) : left = c \o rest
  <2>. DEFINE k == n - Len(c)
              rest == SubSeq(t, 1, k)
  <2>1. k \in Nat /\ k <= Len(t) /\ Len(c) + k = n
    BY <1>1, <1>5, <1>9 DEF n
  <2>. HIDE DEF k
  <2>2. rest \in Seq(S) /\ Len(rest) = k /\ \A i \in 1..k : rest[i] = t[i]
    BY <1>1, <2>1, SubSeqProperties, ElementOfSeq
  <2>. HIDE DEF rest
  <2>3. /\ c \o rest \in Seq(S) /\ Len(c \o rest) = n
        /\ \A i \in 1..n : (c \o rest)[i] = IF i <= Len(c) THEN c[i] ELSE rest[i - Len(c)]
    <3>1. /\ c \o rest \in Seq(S) /\ Len(c \o rest) = Len(c) + Len(rest)
          /\ \A i \in 1..Len(c) + Len(rest) :
               (c \o rest)[i] = IF i <= Len(c) THEN c[i] ELSE rest[i - Len(c)]
      <4>1. c \in Seq(S) /\ rest \in Seq(S)
        BY <2>2
      <4>. QED
        BY <4>1, ConcatProperties
    <3>2. Len(c) + Len(rest) = n
      BY <2>1, <2>2
    <3>. QED
      BY <3>1, <3>2
  <2>4. ASSUME NEW i \in 1..n
        PROVE  left[i] = (c \o rest)[i]
    <3>1. left[i] = IF i <= Len(c) THEN c[i] ELSE t[i - Len(c)]
      <4>1. i \in 1..Len(c) + Len(t)
        BY <1>1, <1>5
      <4>. QED
        BY <1>1, <1>7, <4>1
    <3>2. ~(i <= Len(c)) => i - Len(c) \in 1..k
      BY <1>1, <1>5, <2>1
    <3>. QED
      BY <2>2, <2>3, <3>1, <3>2
  <2>5. left = c \o rest
    BY <1>6, <2>3, <2>4, SeqEqual
  <2>. QED
    BY <2>2, <2>5
<1>. QED
  BY <1>8, <1>9 DEF CutFalls, left, v, b, d
-----------------------------------------------------------------------------
(* Induction, with a set for what is to be shown. *)
LEMMA CourseInduction ==
  ASSUME NEW S, \A m \in Nat : (\A k \in 0..m - 1 : k \in S) => m \in S
  PROVE  Nat \subseteq S
<1>. DEFINE Bad == Nat \ S
<1>. SUFFICES ASSUME Bad # {}
              PROVE  FALSE
  OBVIOUS
<1>1. PICK i \in Bad : \A other \in Bad : i <= other
  <2>1. Bad \subseteq Nat
    OBVIOUS
  <2>. HIDE DEF Bad
  <2>. QED
    BY <2>1, LeastNatural
<1>2. \A k \in 0..i - 1 : k \in S
  BY <1>1
<1>. QED
  BY <1>1, <1>2

LEMMA CountInduction ==
  ASSUME NEW n \in Nat, NEW S, 0 \in S, \A i \in 0..n - 1 : i \in S => i + 1 \in S
  PROVE  \A i \in 0..n : i \in S
<1>. DEFINE T == {i \in Nat : i \in 0..n => i \in S}
<1>1. ASSUME NEW m \in Nat, \A k \in 0..m - 1 : k \in T
      PROVE  m \in T
  <2>. SUFFICES ASSUME m \in 0..n, m # 0
                PROVE  m \in S
    OBVIOUS
  <2>1. m - 1 \in 0..n - 1 /\ m - 1 \in 0..m - 1 /\ (m - 1) + 1 = m
    OBVIOUS
  <2>2. m - 1 \in S
    BY <1>1, <2>1
  <2>3. (m - 1) + 1 \in S
    BY <2>1, <2>2
  <2>. QED
    BY <2>1, <2>3
<1>. HIDE DEF T
<1>2. Nat \subseteq T
  BY <1>1, CourseInduction
<1>. QED
  BY <1>2 DEF T

(* A recursive definition descends through its domain: f[x] is given       *)
(* where x is one of `ends', and otherwise made from f[next[x]], of which  *)
(* the measure is smaller.  There is a function that follows it.           *)
Descends(f, D, ends, next, base, step) ==
  \A x \in D : f[x] = IF x \in ends THEN base[x] ELSE step[<<x, f[next[x]]>>]

Below(D, mu, m) == {x \in D : mu[x] < m}

LEMMA DescentExists ==
  ASSUME NEW D, NEW mu, \A x \in D : mu[x] \in Nat,
         NEW ends, NEW next, \A x \in D \ ends : next[x] \in D /\ mu[next[x]] < mu[x],
         NEW base, NEW step
  PROVE  \E f : f = [x \in D |-> f[x]] /\ Descends(f, D, ends, next, base, step)
<1>. DEFINE Up(m) == Below(D, mu, m)
            Part(f, m) == Descends(f, Up(m), ends, next, base, step)
<1>1. \A m \in Nat : \A x \in Up(m) \ ends : next[x] \in Up(m)
  <2>. SUFFICES ASSUME NEW m \in Nat, NEW x \in Up(m) \ ends
                PROVE  next[x] \in Up(m)
    OBVIOUS
  <2>1. x \in D \ ends /\ mu[x] \in Nat /\ mu[x] < m
    BY DEF Below
  <2>2. next[x] \in D /\ mu[next[x]] \in Nat /\ mu[next[x]] < mu[x]
    BY <2>1
  <2>3. mu[next[x]] < m
    BY <2>1, <2>2
  <2>. QED
    BY <2>2, <2>3 DEF Below
<1>2. ASSUME NEW m \in Nat, NEW n \in Nat, m <= n, NEW f, NEW g, Part(f, m), Part(g, n)
      PROVE  \A x \in Up(m) : f[x] = g[x]
  <2>. DEFINE Bad == {i \in Nat : \E x \in Up(m) : mu[x] = i /\ f[x] # g[x]}
  <2>. SUFFICES ASSUME Bad # {}
                PROVE  FALSE
    BY DEF Below
  <2>1. PICK i \in Bad : \A other \in Bad : i <= other
    <3>1. Bad \subseteq Nat
      OBVIOUS
    <3>. HIDE DEF Bad
    <3>. QED
      BY <3>1, LeastNatural
  <2>2. PICK x \in Up(m) : mu[x] = i /\ f[x] # g[x] /\ i \in Nat
    BY <2>1
  <2>3. x \in Up(n)
    BY <1>2, <2>2 DEF Below
  <2>4. /\ f[x] = IF x \in ends THEN base[x] ELSE step[<<x, f[next[x]]>>]
        /\ g[x] = IF x \in ends THEN base[x] ELSE step[<<x, g[next[x]]>>]
    BY <1>2, <2>2, <2>3 DEF Descends
  <2>5. CASE x \in ends
    BY <2>2, <2>4, <2>5
  <2>6. CASE x \notin ends
    <3>1. next[x] \in Up(m) /\ mu[next[x]] \in Nat /\ mu[next[x]] < i
      BY <1>1, <2>2, <2>6 DEF Below
    <3>2. mu[next[x]] \notin Bad
      BY <2>1, <2>2, <3>1
    <3>3. f[next[x]] = g[next[x]]
      BY <3>1, <3>2
    <3>. QED
      BY <2>2, <2>4, <2>6, <3>3
  <2>. QED
    BY <2>5, <2>6
<1>3. ASSUME NEW m \in Nat
      PROVE  \E f : Part(f, m)
  <2>. DEFINE Bad == {i \in Nat : ~ \E f : Part(f, i)}
  <2>. SUFFICES ASSUME Bad # {}
                PROVE  FALSE
    OBVIOUS
  <2>1. PICK i \in Bad : \A other \in Bad : i <= other
    <3>1. Bad \subseteq Nat
      OBVIOUS
    <3>. HIDE DEF Bad
    <3>. QED
      BY <3>1, LeastNatural
  <2>2. i # 0
    <3>1. Up(0) = {}
      BY DEF Below
    <3>2. Part([x \in {} |-> x], 0)
      BY <3>1 DEF Descends
    <3>. QED
      BY <2>1, <3>2
  <2>3. i - 1 \in Nat /\ i - 1 \notin Bad
    BY <2>1, <2>2
  <2>4. PICK f : Part(f, i - 1)
    BY <2>3
  <2>. DEFINE g == [x \in Up(i) |-> IF mu[x] < i - 1 THEN f[x]
                                    ELSE IF x \in ends THEN base[x]
                                    ELSE step[<<x, f[next[x]]>>]]
  <2>5. ASSUME NEW x \in Up(i)
        PROVE  g[x] = IF x \in ends THEN base[x] ELSE step[<<x, g[next[x]]>>]
    <3>1. x \in D /\ mu[x] \in Nat /\ mu[x] < i /\ i \in Nat
      BY <2>1, <2>5 DEF Below
    <3>2. x \notin ends => /\ next[x] \in Up(i) /\ mu[next[x]] < i - 1
                           /\ g[next[x]] = f[next[x]]
      <4>1. ASSUME x \notin ends
            PROVE  next[x] \in Up(i) /\ mu[next[x]] < i - 1
        <5>1. next[x] \in D /\ mu[next[x]] \in Nat /\ mu[next[x]] < mu[x]
          BY <3>1, <4>1
        <5>2. mu[next[x]] < i - 1
          BY <3>1, <5>1
        <5>. QED
          BY <1>1, <3>1, <4>1, <5>2
      <4>. QED
        BY <4>1
    <3>3. CASE mu[x] < i - 1
      <4>1. x \in Up(i - 1)
        BY <3>1, <3>3 DEF Below
      <4>2. f[x] = IF x \in ends THEN base[x] ELSE step[<<x, f[next[x]]>>]
        BY <2>4, <4>1 DEF Descends
      <4>3. g[x] = f[x]
        BY <3>3
      <4>. HIDE DEF g
      <4>. QED
        BY <3>2, <4>2, <4>3
    <3>4. CASE ~(mu[x] < i - 1)
      <4>1. g[x] = IF x \in ends THEN base[x] ELSE step[<<x, f[next[x]]>>]
        BY <3>4
      <4>. HIDE DEF g
      <4>. QED
        BY <3>2, <4>1
    <3>. QED
      BY <3>3, <3>4
  <2>. HIDE DEF g
  <2>6. Part(g, i)
    BY <2>5 DEF Descends
  <2>. QED
    BY <2>1, <2>6
<1>. DEFINE Whole(x) == CHOOSE f : Part(f, mu[x] + 1)
            F == [x \in D |-> Whole(x)[x]]
<1>4. ASSUME NEW x \in D
      PROVE  Part(Whole(x), mu[x] + 1) /\ x \in Up(mu[x] + 1)
  <2>1. mu[x] \in Nat /\ mu[x] + 1 \in Nat
    OBVIOUS
  <2>2. \E f : Part(f, mu[x] + 1)
    <3>. HIDE DEF Part
    <3>. QED
      BY <1>3, <2>1
  <2>3. Part(Whole(x), mu[x] + 1)
    <3>. HIDE DEF Part
    <3>. QED
      BY <2>2
  <2>. QED
    BY <2>1, <2>3 DEF Below
<1>. HIDE DEF Whole
<1>5. ASSUME NEW x \in D
      PROVE  F[x] = IF x \in ends THEN base[x] ELSE step[<<x, F[next[x]]>>]
  <2>1. F[x] = Whole(x)[x]
    OBVIOUS
  <2>2. Whole(x)[x] = IF x \in ends THEN base[x] ELSE step[<<x, Whole(x)[next[x]]>>]
    BY <1>4 DEF Descends
  <2>3. x \notin ends => Whole(x)[next[x]] = F[next[x]]
    <3>. SUFFICES ASSUME x \notin ends
                  PROVE  Whole(x)[next[x]] = F[next[x]]
      OBVIOUS
    <3>1. /\ next[x] \in D /\ mu[next[x]] \in Nat /\ mu[x] \in Nat
          /\ mu[next[x]] + 1 \in Nat /\ mu[x] + 1 \in Nat
          /\ mu[next[x]] + 1 <= mu[x] + 1
      OBVIOUS
    <3>2. Part(Whole(next[x]), mu[next[x]] + 1) /\ next[x] \in Up(mu[next[x]] + 1)
      BY <1>4, <3>1
    <3>3. Part(Whole(x), mu[x] + 1)
      BY <1>4
    <3>. HIDE DEF Part, Up
    <3>4. Whole(next[x])[next[x]] = Whole(x)[next[x]]
      BY <1>2, <3>1, <3>2, <3>3
    <3>. QED
      BY <3>1, <3>4
  <2>. HIDE DEF F
  <2>. QED
    BY <2>1, <2>2, <2>3
<1>6. F = [x \in D |-> F[x]]
  OBVIOUS
<1>. HIDE DEF F
<1>7. Descends(F, D, ends, next, base, step)
  BY <1>5 DEF Descends
<1>. QED
  BY <1>6, <1>7

(* With types for the values, given and made. *)
LEMMA DescentTyped ==
  ASSUME NEW D, NEW mu, \A x \in D : mu[x] \in Nat,
         NEW ends, NEW next, \A x \in D \ ends : next[x] \in D /\ mu[next[x]] < mu[x],
         NEW V, NEW base, \A x \in D \cap ends : base[x] \in V,
         NEW step, \A x \in D \ ends : \A v \in V : step[<<x, v>>] \in V
  PROVE  \E f \in [D -> V] : Descends(f, D, ends, next, base, step)
<1>1. PICK f : f = [x \in D |-> f[x]] /\ Descends(f, D, ends, next, base, step)
  BY DescentExists
<1>2. \A x \in D : f[x] \in V
  <2>. DEFINE Bad == {i \in Nat : \E x \in D : mu[x] = i /\ f[x] \notin V}
  <2>. SUFFICES ASSUME Bad # {}
                PROVE  FALSE
    OBVIOUS
  <2>1. PICK i \in Bad : \A other \in Bad : i <= other
    <3>1. Bad \subseteq Nat
      OBVIOUS
    <3>. HIDE DEF Bad
    <3>. QED
      BY <3>1, LeastNatural
  <2>2. PICK x \in D : mu[x] = i /\ f[x] \notin V /\ i \in Nat
    BY <2>1
  <2>3. f[x] = IF x \in ends THEN base[x] ELSE step[<<x, f[next[x]]>>]
    BY <1>1 DEF Descends
  <2>4. x \notin ends => f[next[x]] \in V
    <3>. SUFFICES ASSUME x \notin ends
                  PROVE  f[next[x]] \in V
      OBVIOUS
    <3>1. next[x] \in D /\ mu[next[x]] \in Nat /\ mu[next[x]] < i
      BY <2>2
    <3>2. mu[next[x]] \notin Bad
      BY <2>1, <2>2, <3>1
    <3>. QED
      BY <3>1, <3>2
  <2>. QED
    BY <2>2, <2>3, <2>4
<1>3. f \in [D -> V]
  <2>1. [x \in D |-> f[x]] \in [D -> V]
    BY <1>2
  <2>. QED
    BY <1>1, <2>1, Zenon
<1>. QED
  BY <1>1, <1>3

(* The case of a count from zero. *)
Counts(f, n, zero, step) ==
  \A i \in 0..n : f[i] = IF i = 0 THEN zero ELSE step[<<i, f[i - 1]>>]

LEMMA CountExists ==
  ASSUME NEW n \in Nat, NEW V, NEW zero \in V, NEW step,
         \A i \in 1..n : \A v \in V : step[<<i, v>>] \in V
  PROVE  \E f \in [0..n -> V] : Counts(f, n, zero, step)
<1>. DEFINE D == 0..n
            mu == [i \in D |-> i]
            next == [i \in D |-> i - 1]
            base == [i \in D |-> zero]
<1>1. /\ \A x \in D : mu[x] \in Nat
      /\ \A x \in D \ {0} : next[x] \in D /\ mu[next[x]] < mu[x]
      /\ \A x \in D \cap {0} : base[x] \in V
      /\ \A x \in D \ {0} : \A v \in V : step[<<x, v>>] \in V
  OBVIOUS
<1>. HIDE DEF mu, next, base, D
<1>2. PICK f \in [D -> V] : Descends(f, D, {0}, next, base, step)
  BY <1>1, DescentTyped
<1>. QED
  BY <1>2 DEF Counts, Descends, D, next, base
-----------------------------------------------------------------------------
(* Sequences of anything.  A file is one: it holds cells at a place, and   *)
(* still holds them there when more is appended.                           *)
IsSequence(s) == Len(s) \in Nat /\ s = [i \in 1..Len(s) |-> s[i]]

LEMMA SequenceOfItsElements ==
  ASSUME NEW s, IsSequence(s)
  PROVE  s \in Seq({s[i] : i \in 1..Len(s)}) /\ DOMAIN s = 1..Len(s)
<1>. DEFINE S == {s[i] : i \in 1..Len(s)}
            n == Len(s)
<1>1. n \in Nat /\ s = [i \in 1..n |-> s[i]] /\ \A i \in 1..n : s[i] \in S
  BY DEF IsSequence
<1>. HIDE DEF S, n
<1>2. s \in [1..n -> S]
  BY <1>1
<1>3. s \in Seq(S)
  BY <1>1, <1>2, SeqDef
<1>4. DOMAIN s = 1..n
  BY <1>2
<1>. QED
  BY <1>3, <1>4 DEF S, n

LEMMA SeqIsSequence ==
  ASSUME NEW S, NEW s \in Seq(S)
  PROVE  IsSequence(s) /\ DOMAIN s = 1..Len(s)
<1>1. Len(s) \in Nat /\ DOMAIN s = 1..Len(s) /\ s \in [1..Len(s) -> S]
  BY LenProperties
<1>. QED
  BY <1>1 DEF IsSequence

LEMMA SequenceByValue ==
  ASSUME NEW n \in Nat, NEW s, s = [i \in 1..n |-> s[i]]
  PROVE  IsSequence(s) /\ Len(s) = n /\ DOMAIN s = 1..n
<1>. DEFINE S == {s[i] : i \in 1..n}
<1>1. \A i \in 1..n : s[i] \in S
  OBVIOUS
<1>. HIDE DEF S
<1>2. s \in [1..n -> S]
  BY <1>1
<1>3. s \in Seq(S) /\ DOMAIN s = 1..n
  BY <1>2, SeqDef
<1>4. Len(s) \in Nat /\ DOMAIN s = 1..Len(s)
  BY <1>3, LenProperties
<1>5. Len(s) = n
  BY <1>3, <1>4
<1>. QED
  BY <1>3, <1>5, SeqIsSequence

LEMMA SequenceConcat ==
  ASSUME NEW s, IsSequence(s), NEW t, IsSequence(t)
  PROVE  /\ IsSequence(s \o t) /\ Len(s \o t) = Len(s) + Len(t)
         /\ \A i \in 1..Len(s) : (s \o t)[i] = s[i]
         /\ \A i \in 1..Len(t) : (s \o t)[Len(s) + i] = t[i]
<1>. DEFINE S == {s[i] : i \in 1..Len(s)}
            T == {t[i] : i \in 1..Len(t)}
            U == S \cup T
            u == s \o t
<1>1. s \in Seq(S) /\ t \in Seq(T)
  BY SequenceOfItsElements
<1>2. Len(s) \in Nat /\ Len(t) \in Nat
  BY DEF IsSequence
<1>. HIDE DEF S, T
<1>3. s \in Seq(U) /\ t \in Seq(U)
  <2>1. S \subseteq U /\ T \subseteq U
    OBVIOUS
  <2>2. s \in [1..Len(s) -> S] /\ t \in [1..Len(t) -> T]
    BY <1>1, LenProperties
  <2>. HIDE DEF U
  <2>3. s \in [1..Len(s) -> U] /\ t \in [1..Len(t) -> U]
    BY <2>1, <2>2
  <2>. QED
    BY <1>2, <2>3, SeqDef
<1>. HIDE DEF U
<1>4. /\ u \in Seq(U) /\ Len(u) = Len(s) + Len(t)
      /\ \A i \in 1..Len(s) + Len(t) : u[i] = IF i <= Len(s) THEN s[i] ELSE t[i - Len(s)]
  BY <1>3, ConcatProperties
<1>5. IsSequence(u)
  BY <1>4, SeqIsSequence
<1>6. ASSUME NEW i \in 1..Len(s)
      PROVE  u[i] = s[i]
  <2>1. i \in 1..Len(s) + Len(t) /\ i <= Len(s)
    BY <1>2
  <2>. HIDE DEF u
  <2>. QED
    BY <1>4, <2>1
<1>7. ASSUME NEW i \in 1..Len(t)
      PROVE  u[Len(s) + i] = t[i]
  <2>. DEFINE k == Len(s) + i
  <2>1. k \in 1..Len(s) + Len(t) /\ ~(k <= Len(s)) /\ k - Len(s) = i
    BY <1>2
  <2>. HIDE DEF u, k
  <2>2. u[k] = t[k - Len(s)]
    BY <1>4, <2>1
  <2>. QED
    BY <2>1, <2>2 DEF k
<1>. QED
  BY <1>4, <1>5, <1>6, <1>7

LEMMA SequencesRegroup ==
  ASSUME NEW a, IsSequence(a), NEW b, IsSequence(b), NEW c, IsSequence(c)
  PROVE  Grouped(a, b, c)
<1>. DEFINE A == {a[i] : i \in 1..Len(a)}
            B == {b[i] : i \in 1..Len(b)}
            C == {c[i] : i \in 1..Len(c)}
            U == A \cup (B \cup C)
<1>1. /\ a \in [1..Len(a) -> A] /\ b \in [1..Len(b) -> B] /\ c \in [1..Len(c) -> C]
      /\ Len(a) \in Nat /\ Len(b) \in Nat /\ Len(c) \in Nat
  BY SequenceOfItsElements, LenProperties DEF IsSequence
<1>. HIDE DEF A, B, C
<1>2. A \subseteq U /\ B \subseteq U /\ C \subseteq U
  OBVIOUS
<1>. HIDE DEF U
<1>3. a \in Seq(U) /\ b \in Seq(U) /\ c \in Seq(U)
  <2>1. a \in [1..Len(a) -> U] /\ b \in [1..Len(b) -> U] /\ c \in [1..Len(c) -> U]
    BY <1>1, <1>2
  <2>2. a \in Seq(U)
    BY <1>1, <2>1, SeqDef
  <2>3. b \in Seq(U)
    BY <1>1, <2>1, SeqDef
  <2>4. c \in Seq(U)
    BY <1>1, <2>1, SeqDef
  <2>. QED
    BY <2>2, <2>3, <2>4
<1>. QED
  BY <1>3, Regroup

(* file holds the cells from pos on. *)
HasAt(file, pos, cells) ==
  /\ pos \in Nat /\ pos + Len(cells) <= Len(file)
  /\ \A i \in 1..Len(cells) : file[pos + i] = cells[i]

LEMMA HasWhatIsAppended ==
  ASSUME NEW file, IsSequence(file), NEW cells, IsSequence(cells)
  PROVE  HasAt(file \o cells, Len(file), cells)
<1>1. /\ Len(file) \in Nat /\ Len(cells) \in Nat
      /\ Len(file \o cells) = Len(file) + Len(cells)
      /\ \A i \in 1..Len(cells) : (file \o cells)[Len(file) + i] = cells[i]
  BY SequenceConcat DEF IsSequence
<1>. QED
  BY <1>1 DEF HasAt

LEMMA StillHas ==
  ASSUME NEW file, IsSequence(file), NEW more, IsSequence(more),
         NEW pos, NEW cells, IsSequence(cells), HasAt(file, pos, cells)
  PROVE  HasAt(file \o more, pos, cells)
<1>. DEFINE all == file \o more
<1>1. /\ Len(file) \in Nat /\ Len(more) \in Nat /\ Len(cells) \in Nat
      /\ Len(all) = Len(file) + Len(more)
      /\ \A i \in 1..Len(file) : all[i] = file[i]
  BY SequenceConcat DEF IsSequence
<1>2. /\ pos \in Nat /\ pos + Len(cells) <= Len(file)
      /\ \A i \in 1..Len(cells) : file[pos + i] = cells[i]
  BY DEF HasAt
<1>. HIDE DEF all
<1>3. ASSUME NEW i \in 1..Len(cells)
      PROVE  all[pos + i] = cells[i]
  <2>1. pos + i \in 1..Len(file)
    BY <1>1, <1>2
  <2>. QED
    BY <1>1, <1>2, <2>1
<1>4. HasAt(all, pos, cells)
  BY <1>1, <1>2, <1>3 DEF HasAt
<1>. QED
  BY <1>4 DEF all

LEMMA HasAtWithin ==
  ASSUME NEW file, IsSequence(file), NEW pos, NEW region, IsSequence(region),
         HasAt(file, pos, region), NEW off, NEW cells, IsSequence(cells), HasAt(region, off, cells)
  PROVE  HasAt(file, pos + off, cells)
<1>1. Len(file) \in Nat /\ Len(region) \in Nat /\ Len(cells) \in Nat
  BY DEF IsSequence
<1>2. /\ pos \in Nat /\ pos + Len(region) <= Len(file)
      /\ \A i \in 1..Len(region) : file[pos + i] = region[i]
      /\ off \in Nat /\ off + Len(cells) <= Len(region)
      /\ \A i \in 1..Len(cells) : region[off + i] = cells[i]
  BY DEF HasAt
<1>3. ASSUME NEW i \in 1..Len(cells)
      PROVE  file[(pos + off) + i] = cells[i]
  <2>1. off + i \in 1..Len(region) /\ pos + (off + i) = (pos + off) + i
    BY <1>1, <1>2
  <2>2. file[pos + (off + i)] = region[off + i]
    BY <1>2, <2>1
  <2>. QED
    BY <1>2, <2>1, <2>2
<1>4. pos + off \in Nat /\ (pos + off) + Len(cells) <= Len(file)
  BY <1>1, <1>2
<1>. QED
  BY <1>3, <1>4 DEF HasAt

LEMMA SliceOfWhatItHas ==
  ASSUME NEW file, IsSequence(file), NEW pos, NEW cells, IsSequence(cells),
         HasAt(file, pos, cells)
  PROVE  SubSeq(file, pos + 1, pos + Len(cells)) = cells
<1>. DEFINE S == {file[i] : i \in 1..Len(file)}
            n == Len(cells)
            t == SubSeq(file, pos + 1, pos + n)
<1>1. file \in Seq(S) /\ DOMAIN file = 1..Len(file)
  BY SequenceOfItsElements
<1>2. Len(file) \in Nat /\ n \in Nat /\ cells = [i \in 1..n |-> cells[i]]
  BY DEF IsSequence
<1>3. pos \in Nat /\ pos + n <= Len(file) /\ \A i \in 1..n : file[pos + i] = cells[i]
  BY DEF HasAt
<1>. HIDE DEF n, S
<1>4. t = [i \in 1..n |-> file[pos + i]]
  <2>. DEFINE l == pos + 1
              h == pos + n
  <2>1. l \in Int /\ h \in Int /\ h - l + 1 = n /\ l <= h + 1
        /\ (IF l <= h THEN h - l + 1 ELSE 0) = n
    BY <1>2, <1>3
  <2>2. \A i \in l..h : file[i] \in S
    BY <1>2, <1>3 DEF S
  <2>7. \A i \in 1..n : l + i - 1 = pos + i
    BY <1>2, <1>3
  <2>. HIDE DEF l, h
  <2>3. SubSeq(file, l, h) \in Seq(S) /\ Len(SubSeq(file, l, h)) = n
        /\ \A i \in 1..n : SubSeq(file, l, h)[i] = file[l + i - 1]
    BY <2>1, <2>2, SubSeqProperties
  <2>4. t = SubSeq(file, l, h)
    BY DEF l, h
  <2>. HIDE DEF t
  <2>5. t = [i \in 1..n |-> t[i]]
    BY <2>3, <2>4, SeqIsSequence DEF IsSequence
  <2>6. \A i \in 1..n : t[i] = file[pos + i]
    BY <2>3, <2>4, <2>7
  <2>. QED
    BY <2>5, <2>6
<1>. HIDE DEF n, t, S
<1>5. t = [i \in 1..n |-> cells[i]]
  BY <1>3, <1>4
<1>. QED
  BY <1>2, <1>5 DEF t, n

(* Flattening, one part after the other: where each of them starts.        *)
Flattens(parts, n, f) ==
  /\ f[0] = <<>>
  /\ \A m \in 0..n : f[m] = FlattenSeq([j \in 1..m |-> parts[j]])
  /\ \A m \in 0..n - 1 : f[m + 1] = f[m] \o parts[m + 1]

LEMMA FlattenByParts ==
  ASSUME NEW S, NEW n \in Nat, NEW parts, \A i \in 1..n : parts[i] \in Seq(S)
  PROVE  \E f \in [0..n -> Seq(S)] : Flattens(parts, n, f)
<1>. DEFINE First(m) == [j \in 1..m |-> parts[j]]
            f == [m \in 0..n |-> FlattenSeq(First(m))]
            One(m) == FlattenSeq(First(m)) \in Seq(S)
            G == {m \in 0..n : One(m)}
<1>1. First(0) = <<>>
  OBVIOUS
<1>2. FlattenSeq(First(0)) = <<>> /\ <<>> \in Seq(S)
  BY <1>1, FlattenEmpty, EmptySeq, Zenon
<1>3. ASSUME NEW m \in 0..n - 1
      PROVE  /\ FlattenSeq(First(m)) \in Seq(S)
             /\ FlattenSeq(First(m + 1)) = FlattenSeq(First(m)) \o parts[m + 1]
  <2>. DEFINE a == First(m)
              b == First(m + 1)
  <2>1. m \in Nat /\ m + 1 \in 1..n /\ \A i \in 1..m : i \in 1..n /\ i \in 1..m + 1
    OBVIOUS
  <2>2. a \in Seq(Seq(S)) /\ Len(a) = m
    <3>. DEFINE Q == Seq(S)
    <3>1. \A i \in 1..m : parts[i] \in Q
      BY <2>1
    <3>. HIDE DEF Q
    <3>2. a \in [1..m -> Q]
      BY <3>1
    <3>3. a \in Seq(Q)
      BY <2>1, <3>2, SeqDef
    <3>. HIDE DEF a
    <3>4. Len(a) = m
      BY <2>1, <3>2, <3>3, LenProperties
    <3>. QED
      BY <3>3, <3>4 DEF Q
  <2>3. /\ b = [i \in 1..m + 1 |-> b[i]]
        /\ \A i \in 1..m : b[i] = a[i]
        /\ b[m + 1] = parts[m + 1] /\ parts[m + 1] \in Seq(S)
    BY <2>1
  <2>. HIDE DEF a, b
  <2>4. FlattenSeq(a) \in Seq(S) /\ FlattenSeq(b) = FlattenSeq(a) \o b[Len(a) + 1]
    <3>1. b = [i \in 1..(Len(a) + 1) |-> b[i]]
      BY <2>2, <2>3
    <3>2. \A i \in 1..Len(a) : b[i] = a[i]
      BY <2>2, <2>3
    <3>3. b[Len(a) + 1] \in Seq(S)
      BY <2>2, <2>3
    <3>. QED
      BY <2>2, <3>1, <3>2, <3>3, FlattenLonger
  <2>5. b[Len(a) + 1] = parts[m + 1]
    BY <2>2, <2>3
  <2>. QED
    BY <2>4, <2>5 DEF a, b
<1>4. ASSUME NEW m \in 0..n
      PROVE  FlattenSeq(First(m)) \in Seq(S)
  <2>1. CASE m = 0
    BY <1>2, <2>1, Zenon
  <2>2. CASE m # 0
    <3>1. m - 1 \in 0..n - 1 /\ (m - 1) + 1 = m
      BY <2>2
    <3>. HIDE DEF First
    <3>2. PICK k \in 0..n - 1 : k + 1 = m
      BY <3>1
    <3>3. FlattenSeq(First(k)) \in Seq(S) /\ FlattenSeq(First(m)) = FlattenSeq(First(k)) \o parts[m]
      BY <1>3, <3>2
    <3>4. parts[m] \in Seq(S)
      BY <2>2
    <3>. QED
      BY <3>3, <3>4, ConcatProperties
  <2>. QED
    BY <2>1, <2>2
<1>5. f \in [0..n -> Seq(S)]
  BY <1>4
<1>6. \A m \in 0..n : f[m] = FlattenSeq(First(m))
  OBVIOUS
<1>7. ASSUME NEW m \in 0..n - 1
      PROVE  f[m + 1] = f[m] \o parts[m + 1]
  <2>1. m \in 0..n /\ m + 1 \in 0..n
    OBVIOUS
  <2>. HIDE DEF f, First
  <2>. QED
    BY <1>3, <1>6, <2>1
<1>8. f[0] = <<>>
  <2>1. 0 \in 0..n
    OBVIOUS
  <2>. HIDE DEF f, First
  <2>. QED
    BY <1>2, <1>6, <2>1
<1>. HIDE DEF f
<1>9. Flattens(parts, n, f)
  BY <1>6, <1>7, <1>8 DEF Flattens
<1>. QED
  BY <1>5, <1>9

(* Every part is where the parts before it end. *)
LEMMA FlattenHasParts ==
  ASSUME NEW S, NEW n \in Nat, NEW parts, parts = [i \in 1..n |-> parts[i]],
         \A i \in 1..n : parts[i] \in Seq(S), NEW i \in 1..n
  PROVE  HasAt(FlattenSeq(parts), Len(FlattenSeq([j \in 1..i - 1 |-> parts[j]])), parts[i])
<1>1. PICK f \in [0..n -> Seq(S)] : Flattens(parts, n, f)
  BY FlattenByParts
<1>2. /\ f[n] = FlattenSeq([j \in 1..n |-> parts[j]])
      /\ f[i - 1] = FlattenSeq([j \in 1..i - 1 |-> parts[j]])
      /\ \A m \in 0..n - 1 : f[m + 1] = f[m] \o parts[m + 1]
  <2>1. n \in 0..n /\ i - 1 \in 0..n
    OBVIOUS
  <2>. QED
    BY <1>1, <2>1 DEF Flattens
<1>3. f[n] = FlattenSeq(parts)
  BY <1>2
<1>. DEFINE pos == Len(f[i - 1])
            d == n - i
            G == {k \in 0..d : HasAt(f[i + k], pos, parts[i])}
<1>4. d \in Nat /\ i + d = n /\ i - 1 \in 0..n - 1 /\ (i - 1) + 1 = i
  OBVIOUS
<1>5. \A m \in 0..n : IsSequence(f[m])
  <2>1. \A m \in 0..n : f[m] \in Seq(S)
    BY <1>1
  <2>. QED
    BY <2>1, SeqIsSequence
<1>6. \A m \in 1..n : IsSequence(parts[m])
  BY SeqIsSequence
<1>7. HasAt(f[i], pos, parts[i])
  <2>1. f[i] = f[i - 1] \o parts[i]
    BY <1>2, <1>4
  <2>2. IsSequence(f[i - 1]) /\ IsSequence(parts[i])
    BY <1>4, <1>5, <1>6
  <2>3. HasAt(f[i - 1] \o parts[i], Len(f[i - 1]), parts[i])
    BY <2>2, HasWhatIsAppended
  <2>. QED
    BY <2>1, <2>3
<1>. HIDE DEF pos, d
<1>8. ASSUME NEW k \in 0..d - 1, HasAt(f[i + k], pos, parts[i])
      PROVE  HasAt(f[i + (k + 1)], pos, parts[i])
  <2>1. i + k \in 0..n - 1 /\ (i + k) + 1 = i + (k + 1) /\ (i + k) + 1 \in 1..n /\ i + k \in 0..n
    BY <1>4
  <2>2. f[i + (k + 1)] = f[i + k] \o parts[(i + k) + 1]
    BY <1>2, <2>1
  <2>3. IsSequence(f[i + k]) /\ IsSequence(parts[(i + k) + 1]) /\ IsSequence(parts[i])
    BY <1>5, <1>6, <2>1
  <2>4. HasAt(f[i + k] \o parts[(i + k) + 1], pos, parts[i])
    BY <1>8, <2>3, StillHas
  <2>. QED
    BY <2>2, <2>4
<1>9. 0 \in G
  <2>1. i + 0 = i /\ 0 \in 0..d
    BY <1>4
  <2>. QED
    BY <1>7, <2>1
<1>10. ASSUME NEW k \in 0..d - 1, k \in G
       PROVE  k + 1 \in G
  <2>1. HasAt(f[i + k], pos, parts[i])
    BY <1>10, Zenon
  <2>2. HasAt(f[i + (k + 1)], pos, parts[i])
    BY <1>8, <2>1
  <2>3. k + 1 \in 0..d
    BY <1>4
  <2>. QED
    BY <2>2, <2>3, Zenon
<1>. HIDE DEF G
<1>11. d \in G
  BY <1>4, <1>9, <1>10, CountInduction
<1>12. HasAt(f[i + d], pos, parts[i])
  BY <1>11 DEF G
<1>13. HasAt(f[n], pos, parts[i])
  BY <1>4, <1>12
<1>. QED
  BY <1>2, <1>3, <1>13 DEF pos

LEMMA FlattenType ==
  ASSUME NEW S, NEW n \in Nat, NEW parts, parts = [i \in 1..n |-> parts[i]],
         \A i \in 1..n : parts[i] \in Seq(S)
  PROVE  FlattenSeq(parts) \in Seq(S)
<1>1. PICK f \in [0..n -> Seq(S)] : Flattens(parts, n, f)
  BY FlattenByParts
<1>2. f[n] = FlattenSeq([j \in 1..n |-> parts[j]]) /\ f[n] \in Seq(S)
  <2>1. n \in 0..n
    OBVIOUS
  <2>. QED
    BY <1>1, <2>1 DEF Flattens
<1>. QED
  BY <1>2

LEMMA FlattenIsSequence ==
  ASSUME NEW n \in Nat, NEW parts, parts = [i \in 1..n |-> parts[i]],
         \A i \in 1..n : IsSequence(parts[i])
  PROVE  IsSequence(FlattenSeq(parts))
<1>. DEFINE Elements(i) == {parts[i][j] : j \in 1..Len(parts[i])}
            S == UNION {Elements(i) : i \in 1..n}
<1>1. ASSUME NEW i \in 1..n
      PROVE  parts[i] \in Seq(S)
  <2>. DEFINE s == parts[i]
  <2>1. s \in Seq(Elements(i)) /\ Len(s) \in Nat
    BY SequenceOfItsElements DEF IsSequence
  <2>2. Elements(i) \subseteq S
    OBVIOUS
  <2>. HIDE DEF s, Elements, S
  <2>3. s \in [1..Len(s) -> Elements(i)]
    BY <2>1, LenProperties
  <2>4. s \in [1..Len(s) -> S]
    BY <2>2, <2>3
  <2>5. s \in Seq(S)
    BY <2>1, <2>4, SeqDef
  <2>. QED
    BY <2>5 DEF s
<1>. HIDE DEF S
<1>2. FlattenSeq(parts) \in Seq(S)
  BY <1>1, FlattenType
<1>. QED
  BY <1>2, SeqIsSequence

(* Parts of one element each. *)
LEMMA FlattenOnes ==
  ASSUME NEW S, NEW s \in Seq(S), NEW parts, parts = [i \in 1..Len(s) |-> <<s[i]>>]
  PROVE  FlattenSeq(parts) = s
<1>. DEFINE n == Len(s)
<1>1. n \in Nat /\ \A i \in 1..n : parts[i] = <<s[i]>> /\ s[i] \in S
  BY LenProperties, ElementOfSeq
<1>2. \A i \in 1..n : parts[i] \in Seq(S)
  BY <1>1
<1>. HIDE DEF n
<1>3. PICK f \in [0..n -> Seq(S)] : Flattens(parts, n, f)
  BY <1>1, <1>2, FlattenByParts
<1>4. /\ f[0] = <<>> /\ f[n] = FlattenSeq([j \in 1..n |-> parts[j]])
      /\ \A m \in 0..n - 1 : f[m + 1] = f[m] \o parts[m + 1]
  <2>1. n \in 0..n
    BY <1>1
  <2>. QED
    BY <1>3, <2>1 DEF Flattens
<1>. DEFINE G == {m \in 0..n : f[m] = SubSeq(s, 1, m)}
<1>5. 0 \in G
  <2>1. SubSeq(s, 1, 0) = <<>> /\ 0 \in 0..n
    BY <1>1, SubSeqEmpty
  <2>. QED
    BY <1>4, <2>1
<1>6. ASSUME NEW m \in 0..n - 1, m \in G
      PROVE  m + 1 \in G
  <2>1. m \in Nat /\ 1 \in 1..Len(s) /\ m + 1 \in 1..Len(s) /\ m + 1 \in 0..n
    BY <1>1 DEF n
  <2>2. SubSeq(s, 1, m + 1) = SubSeq(s, 1, m) \o <<s[m + 1]>>
    BY <2>1, LastOfSubSeq
  <2>3. f[m + 1] = f[m] \o <<s[m + 1]>>
    <3>1. m + 1 \in 1..n
      BY <1>1
    <3>. QED
      BY <1>1, <1>4, <3>1
  <2>4. f[m] = SubSeq(s, 1, m)
    BY <1>6
  <2>5. f[m + 1] = SubSeq(s, 1, m + 1)
    BY <2>2, <2>3, <2>4
  <2>. QED
    BY <2>1, <2>5
<1>. HIDE DEF G
<1>10. \A m \in 0..n - 1 : m \in G => m + 1 \in G
  BY <1>6
<1>7. n \in G
  <2>1. \A m \in 0..n : m \in G
    BY <1>1, <1>5, <1>10, CountInduction
  <2>. QED
    BY <1>1, <2>1
<1>8. f[n] = SubSeq(s, 1, n) /\ SubSeq(s, 1, n) = s
  BY <1>7, SubSeqFull DEF G, n
<1>9. [j \in 1..n |-> parts[j]] = parts
  BY DEF n
<1>. QED
  BY <1>4, <1>8, <1>9
=============================================================================
