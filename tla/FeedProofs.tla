----------------------------- MODULE FeedProofs -----------------------------
(***************************************************************************)
(* What holds of the feed and of the scores taken from it, for every       *)
(* number of sellers, rounds and starts of the buyer, whatever free text   *)
(* the sellers write, and for every price, budget, score, amount, wallet   *)
(* and token; and of the run ledger that the feed writes, for any number   *)
(* of polls and grading passes.                                            *)
(*                                                                         *)
(* In order: induction and sequences; what a filter leaves, and how        *)
(* filtered sequences are put together; a field is read back as it was     *)
(* meant; one message taken into a round; what the messages of a round     *)
(* come to (FoldsRight); what the agents say (Sound) and the invariant     *)
(* FoldInv; the feed; the history and trust; division and payments; quotes *)
(* and awards; the ledger.                                                 *)
(*                                                                         *)
(* A fold is a recursive function, and an induction principle that takes   *)
(* an operator cannot be instantiated here.  The lemmas go by the least    *)
(* counterexample instead: the numbers, or the lengths, for which a        *)
(* statement fails have a least one (LeastNumber) or there are none.       *)
(***************************************************************************)
EXTENDS Ledger, Transfers, SequenceTheorems, FiniteSetTheorems, WellFoundedInduction, TLAPS

-----------------------------------------------------------------------------
(* Induction, over a set of numbers or of sequences.                          *)

LEMMA LeastNumber ==
  ASSUME NEW T, T \subseteq Nat, T # {}
  PROVE  \E n \in T : \A m \in T : n =< m
<1>1. IsWellFoundedOn(OpToRel(<, Nat), Nat)
  BY NatLessThanWellFounded
<1>2. PICK n \in T : \A m \in T : <<m, n>> \notin OpToRel(<, Nat)
  BY <1>1, WFMin
<1>3. ASSUME NEW m \in T PROVE n =< m
  <2>1. SUFFICES ASSUME m < n PROVE FALSE
    BY <1>3
  <2>2. <<m, n>> \in Nat \X Nat
    BY <1>3
  <2>3. <<m, n>> \in OpToRel(<, Nat)
    BY <2>1, <2>2, Zenon DEF OpToRel
  <2> QED
    BY <1>2, <2>3
<1> QED
  BY <1>3

LEMMA NumbersInduction ==
  ASSUME NEW T, 0 \in T, \A n \in Nat : n \in T => n + 1 \in T
  PROVE  Nat \subseteq T
<1> DEFINE U == {n \in Nat : n \notin T}
<1> SUFFICES ASSUME U # {} PROVE FALSE
  OBVIOUS
<1>1. PICK k \in U : \A m \in U : k =< m
  <2>1. U \subseteq Nat
    OBVIOUS
  <2> HIDE DEF U
  <2> QED
    BY <2>1, LeastNumber
<1>2. k # 0 /\ k \in Nat
  BY <1>1
<1>3. k - 1 \in Nat /\ k - 1 \notin U
  BY <1>1, <1>2
<1>4. k - 1 \in T
  BY <1>3
<1>5. (k - 1) + 1 \in T
  BY <1>3, <1>4
<1>6. (k - 1) + 1 = k
  BY <1>2
<1> QED
  BY <1>1, <1>5, <1>6

LEMMA SequencesInduction ==
  ASSUME NEW S, NEW T, <<>> \in T, \A s \in Seq(S), x \in S : s \in T => Append(s, x) \in T
  PROVE  Seq(S) \subseteq T
<1> DEFINE U == {n \in Nat : \A s \in Seq(S) : Len(s) = n => s \in T}
<1>1. 0 \in U
  BY EmptySeq
<1>2. ASSUME NEW n \in Nat, n \in U PROVE n + 1 \in U
  <2>1. ASSUME NEW s \in Seq(S), Len(s) = n + 1 PROVE s \in T
    <3>1. s # <<>>
      BY <1>2, <2>1, EmptySeq
    <3>2. PICK t \in Seq(S), x \in S : s = Append(t, x)
      BY <3>1, SequenceEmptyOrAppend
    <3>3. Len(t) \in Nat /\ Len(s) = Len(t) + 1
      BY <3>2, AppendProperties, LenProperties
    <3>4. Len(t) = n
      BY <1>2, <2>1, <3>3
    <3>5. t \in T
      BY <1>2, <3>4
    <3> QED
      BY <3>2, <3>5
  <2> QED
    BY <2>1
<1>3. Nat \subseteq U
  <2> HIDE DEF U
  <2> QED
    BY <1>1, <1>2, NumbersInduction
<1>4. ASSUME NEW s \in Seq(S) PROVE s \in T
  <2>1. Len(s) \in Nat
    BY LenProperties
  <2>2. Len(s) \in U
    BY <1>3, <2>1
  <2> QED
    BY <2>2
<1> QED
  BY <1>4

-----------------------------------------------------------------------------
(* Sequences.                                                                 *)

LEMMA AppendLemma ==
  ASSUME NEW S, NEW s \in Seq(S), NEW x \in S
  PROVE  /\ Append(s, x) \in Seq(S) /\ Len(s) \in Nat /\ Len(Append(s, x)) = Len(s) + 1
         /\ DOMAIN s = 1..Len(s) /\ DOMAIN Append(s, x) = 1..(Len(s) + 1)
         /\ \A i \in 1..Len(s) : Append(s, x)[i] = s[i] /\ s[i] \in S
         /\ Append(s, x)[Len(s) + 1] = x
         /\ ToSet(Append(s, x)) = ToSet(s) \cup {x}
<1>1. Len(s) \in Nat /\ DOMAIN s = 1..Len(s) /\ \A i \in 1..Len(s) : s[i] \in S
  BY LenProperties, ElementOfSeq
<1>2. /\ Append(s, x) \in Seq(S) /\ DOMAIN Append(s, x) = 1..(Len(s) + 1) /\ Len(Append(s, x)) = Len(s) + 1
      /\ Append(s, x)[Len(s) + 1] = x /\ \A i \in 1..Len(s) : Append(s, x)[i] = s[i]
  BY <1>1, AppendProperties, LenProperties
<1>3. ToSet(Append(s, x)) = ToSet(s) \cup {x}
  BY <1>1, <1>2 DEF ToSet
<1> QED
  BY <1>1, <1>2, <1>3

LEMMA ConcatAppend ==
  ASSUME NEW S, NEW s \in Seq(S), NEW t \in Seq(S), NEW x \in S
  PROVE  s \o Append(t, x) = Append(s \o t, x)
<1>1. s \o t \in Seq(S) /\ <<x>> \in Seq(S)
  BY ConcatProperties, EmptySeq, AppendProperties
<1>2. Append(t, x) = t \o <<x>> /\ Append(s \o t, x) = (s \o t) \o <<x>>
  BY <1>1, AppendIsConcat
<1> QED
  BY <1>1, <1>2, ConcatAssociative

LEMMA ConcatThree ==
  ASSUME NEW S, NEW s \in Seq(S), NEW x \in S, NEW y \in S, NEW z \in S,
         NEW q \in Seq(S), Len(q) = 3, q[1] = x, q[2] = y, q[3] = z
  PROVE  s \o q = Append(Append(Append(s, x), y), z)
<1>0. ASSUME NEW t \in Seq(S), NEW v \in S
      PROVE  s \o Append(t, v) = Append(s \o t, v)
  BY ConcatAppend
<1>1. PICK e \in Seq(S) : e = <<>> /\ Len(e) = 0
  BY EmptySeq
<1>2. PICK a \in Seq(S) : a = Append(e, x)
  BY AppendLemma
<1>3. Len(a) = 1 /\ a[1] = x
  <2>1. Len(a) = Len(e) + 1 /\ a[Len(e) + 1] = x
    BY <1>2, AppendLemma
  <2> QED
    BY <1>1, <2>1
<1>4. PICK b \in Seq(S) : b = Append(a, y)
  BY AppendLemma
<1>5. Len(b) = 2 /\ b[1] = x /\ b[2] = y
  <2>1. Len(b) = Len(a) + 1 /\ b[Len(a) + 1] = y /\ \A i \in 1..Len(a) : b[i] = a[i]
    BY <1>4, AppendLemma
  <2> QED
    BY <1>3, <2>1
<1>6. PICK c \in Seq(S) : c = Append(b, z)
  BY AppendLemma
<1>7. Len(c) = 3 /\ c[1] = x /\ c[2] = y /\ c[3] = z
  <2>1. Len(c) = Len(b) + 1 /\ c[Len(b) + 1] = z /\ \A i \in 1..Len(b) : c[i] = b[i]
    BY <1>6, AppendLemma
  <2> QED
    BY <1>5, <2>1
<1>8. c = q
  <2>1. \A i \in 1..3 : i = 1 \/ i = 2 \/ i = 3
    OBVIOUS
  <2>2. \A i \in 1..3 : c[i] = q[i]
    BY <1>7, <2>1
  <2> QED
    BY <1>7, <2>2, SeqEqual
<1>9. s \o e = s
  BY <1>1, ConcatEmptySeq
<1>10. s \o Append(e, x) = Append(s \o e, x)
  BY <1>0
<1>11. s \o Append(a, y) = Append(s \o a, y)
  BY <1>0
<1>12. s \o Append(b, z) = Append(s \o b, z)
  BY <1>0
<1> QED
  BY <1>2, <1>4, <1>6, <1>8, <1>9, <1>10, <1>11, <1>12

LEMMA ConcatLemma ==
  ASSUME NEW S, NEW s \in Seq(S), NEW t \in Seq(S)
  PROVE  /\ s \o t \in Seq(S) /\ Len(s) \in Nat /\ Len(t) \in Nat /\ Len(s \o t) = Len(s) + Len(t)
         /\ DOMAIN s = 1..Len(s) /\ DOMAIN t = 1..Len(t) /\ DOMAIN (s \o t) = 1..(Len(s) + Len(t))
         /\ \A i \in 1..Len(s) : (s \o t)[i] = s[i]
         /\ \A i \in 1..Len(t) : (s \o t)[Len(s) + i] = t[i]
         /\ \A i \in DOMAIN (s \o t) : i \notin DOMAIN s => i - Len(s) \in DOMAIN t /\ (s \o t)[i] = t[i - Len(s)]
         /\ ToSet(s \o t) = ToSet(s) \cup ToSet(t)
<1>1. Len(s) \in Nat /\ DOMAIN s = 1..Len(s) /\ Len(t) \in Nat /\ DOMAIN t = 1..Len(t)
  BY LenProperties
<1>2. /\ s \o t \in Seq(S) /\ Len(s \o t) = Len(s) + Len(t)
      /\ \A i \in 1..(Len(s) + Len(t)) : (s \o t)[i] = IF i <= Len(s) THEN s[i] ELSE t[i - Len(s)]
  BY ConcatProperties
<1>3. DOMAIN (s \o t) = 1..(Len(s) + Len(t))
  BY <1>2, LenProperties
<1>4. \A i \in 1..Len(s) : (s \o t)[i] = s[i]
  BY <1>1, <1>2
<1>5. ASSUME NEW i \in 1..Len(t) PROVE (s \o t)[Len(s) + i] = t[i]
  <2>1. Len(s) + i \in 1..(Len(s) + Len(t)) /\ ~(Len(s) + i <= Len(s)) /\ (Len(s) + i) - Len(s) = i
    BY <1>1
  <2> QED
    BY <1>2, <2>1
<1>6. ASSUME NEW i \in DOMAIN (s \o t), i \notin DOMAIN s PROVE i - Len(s) \in DOMAIN t /\ (s \o t)[i] = t[i - Len(s)]
  BY <1>1, <1>2, <1>3, <1>6
<1>7. ToSet(s \o t) = ToSet(s) \cup ToSet(t)
  <2>1. ASSUME NEW y \in ToSet(s \o t) PROVE y \in ToSet(s) \cup ToSet(t)
    <3>1. PICK i \in DOMAIN (s \o t) : y = (s \o t)[i]
      BY DEF ToSet
    <3> QED
      BY <1>1, <1>4, <1>6, <3>1 DEF ToSet
  <2>2. ASSUME NEW y \in ToSet(s) PROVE y \in ToSet(s \o t)
    <3>1. PICK i \in DOMAIN s : y = s[i]
      BY DEF ToSet
    <3>2. i \in DOMAIN (s \o t)
      BY <1>1, <1>3
    <3> QED
      BY <1>1, <1>4, <3>1, <3>2 DEF ToSet
  <2>3. ASSUME NEW y \in ToSet(t) PROVE y \in ToSet(s \o t)
    <3>1. PICK i \in DOMAIN t : y = t[i]
      BY DEF ToSet
    <3>2. Len(s) + i \in DOMAIN (s \o t)
      BY <1>1, <1>3
    <3> QED
      BY <1>1, <1>5, <3>1, <3>2 DEF ToSet
  <2> QED
    BY <2>1, <2>2, <2>3
<1> QED
  BY <1>1, <1>2, <1>3, <1>4, <1>5, <1>6, <1>7

-----------------------------------------------------------------------------
(* What a filter leaves.                                                      *)

(* f holds what is left of the first n elements.                              *)
IsFiltering(f, n, s, those) ==
  f = [i \in 0..n |-> IF i = 0 THEN <<>>
                      ELSE IF s[i] \in those THEN Append(f[i - 1], s[i]) ELSE f[i - 1]]

LEMMA FiltersExist ==
  ASSUME NEW s, NEW those, NEW n \in Nat
  PROVE  \E f : IsFiltering(f, n, s, those)
<1> DEFINE T == {k \in Nat : \E f : IsFiltering(f, k, s, those)}
<1>1. 0 \in T
  <2> DEFINE f == [i \in 0..0 |-> <<>>]
  <2>1. IsFiltering(f, 0, s, those)
    BY DEF IsFiltering
  <2> QED
    BY <2>1
<1>2. ASSUME NEW j \in Nat, j \in T PROVE j + 1 \in T
  <2>1. PICK f : IsFiltering(f, j, s, those)
    BY <1>2
  <2> DEFINE k == j + 1
  <2> DEFINE g == [i \in 0..k |-> IF i < k THEN f[i]
                                  ELSE IF s[k] \in those THEN Append(f[j], s[k]) ELSE f[j]]
  <2>2. ASSUME NEW i \in 0..k
        PROVE  g[i] = IF i = 0 THEN <<>> ELSE IF s[i] \in those THEN Append(g[i - 1], s[i]) ELSE g[i - 1]
    <3>1. CASE i = k
      <4>1. g[i] = IF s[k] \in those THEN Append(f[j], s[k]) ELSE f[j]
        BY <3>1
      <4>2. g[i - 1] = f[j] /\ i # 0
        BY <3>1
      <4> QED
        BY <3>1, <4>1, <4>2
    <3>2. CASE i # k
      <4>1. i \in 0..j /\ g[i] = f[i]
        BY <3>2
      <4>2. i # 0 => g[i - 1] = f[i - 1]
        BY <3>2
      <4>3. f[i] = IF i = 0 THEN <<>> ELSE IF s[i] \in those THEN Append(f[i - 1], s[i]) ELSE f[i - 1]
        BY <2>1, <4>1 DEF IsFiltering
      <4> QED
        BY <4>1, <4>2, <4>3
    <3> QED
      BY <3>1, <3>2
  <2>3. IsFiltering(g, k, s, those)
    BY <2>2 DEF IsFiltering
  <2> QED
    BY <2>3
<1>3. Nat \subseteq T
  <2> HIDE DEF T
  <2> QED
    BY <1>1, <1>2, NumbersInduction
<1> QED
  BY <1>3

LEMMA OnlyIsFiltered ==
  ASSUME NEW S, NEW s \in Seq(S), NEW those
  PROVE  \E f : IsFiltering(f, Len(s), s, those) /\ Only(s, those) = f[Len(s)]
<1> DEFINE f == CHOOSE f : IsFiltering(f, Len(s), s, those)
<1>1. Len(s) \in Nat
  BY LenProperties
<1>2. IsFiltering(f, Len(s), s, those)
  BY <1>1, FiltersExist
<1>3. Only(s, those) = f[Len(s)]
  BY DEF Only, IsFiltering
<1> QED
  BY <1>2, <1>3

LEMMA OnlyAppend ==
  ASSUME NEW S, NEW s \in Seq(S), NEW x \in S, NEW those
  PROVE  Only(Append(s, x), those) = IF x \in those THEN Append(Only(s, those), x) ELSE Only(s, those)
<1>1. PICK n \in Nat : n = Len(s)
  BY LenProperties
<1>2. PICK t \in Seq(S) : t = Append(s, x)
  BY AppendLemma
<1>3. Len(t) = n + 1 /\ (\A i \in 1..n : t[i] = s[i]) /\ t[n + 1] = x
  BY <1>1, <1>2, AppendLemma
<1>4. PICK f : IsFiltering(f, n, s, those) /\ Only(s, those) = f[n]
  BY <1>1, OnlyIsFiltered
<1>5. PICK g : IsFiltering(g, n + 1, t, those) /\ Only(t, those) = g[n + 1]
  <2>1. \E g : IsFiltering(g, Len(t), t, those) /\ Only(t, those) = g[Len(t)]
    BY OnlyIsFiltered
  <2> QED
    BY <1>3, <2>1
<1> DEFINE U == {i \in Nat : i <= n => g[i] = f[i]}
<1>6. \A i \in 0..n : f[i] = IF i = 0 THEN <<>> ELSE IF s[i] \in those THEN Append(f[i - 1], s[i]) ELSE f[i - 1]
  BY <1>4, Zenon DEF IsFiltering
<1>7. \A i \in 0..(n + 1) : g[i] = IF i = 0 THEN <<>> ELSE IF t[i] \in those THEN Append(g[i - 1], t[i]) ELSE g[i - 1]
  BY <1>5, Zenon DEF IsFiltering
<1>8. 0 \in U
  <2>1. 0 \in 0..n /\ 0 \in 0..(n + 1)
    OBVIOUS
  <2>2. f[0] = <<>> /\ g[0] = <<>>
    BY <1>6, <1>7, <2>1, Zenon
  <2> QED
    BY <2>2
<1>9. ASSUME NEW i \in Nat, i \in U PROVE i + 1 \in U
  <2> SUFFICES ASSUME i + 1 <= n PROVE g[i + 1] = f[i + 1]
    OBVIOUS
  <2> DEFINE k == i + 1
  <2>1. k \in 0..n /\ k \in 0..(n + 1) /\ k # 0 /\ k - 1 = i /\ k \in 1..n
    OBVIOUS
  <2>2. f[k] = IF s[k] \in those THEN Append(f[k - 1], s[k]) ELSE f[k - 1]
    BY <1>6, <2>1, Zenon
  <2>3. g[k] = IF t[k] \in those THEN Append(g[k - 1], t[k]) ELSE g[k - 1]
    BY <1>7, <2>1, Zenon
  <2>4. t[k] = s[k] /\ g[i] = f[i]
    BY <1>3, <1>9, <2>1
  <2> HIDE DEF k
  <2>5. g[k] = f[k]
    BY <2>1, <2>2, <2>3, <2>4
  <2> QED
    BY <2>5 DEF k
<1>10. Nat \subseteq U
  <2> HIDE DEF U
  <2> QED
    BY <1>8, <1>9, NumbersInduction
<1>11. g[n] = f[n]
  BY <1>10
<1>12. g[n + 1] = IF x \in those THEN Append(g[n], x) ELSE g[n]
  <2> DEFINE k == n + 1
  <2>1. k \in 0..(n + 1) /\ k # 0 /\ k - 1 = n /\ t[k] = x
    BY <1>3
  <2>2. g[k] = IF t[k] \in those THEN Append(g[k - 1], t[k]) ELSE g[k - 1]
    BY <1>7, <2>1, Zenon
  <2> QED
    BY <2>1, <2>2
<1> QED
  BY <1>2, <1>4, <1>5, <1>11, <1>12

LEMMA OnlyEmpty ==
  ASSUME NEW those
  PROVE  Only(<<>>, those) = <<>>
<1>1. <<>> \in Seq({}) /\ Len(<<>>) = 0
  BY EmptySeq
<1>2. PICK f : IsFiltering(f, 0, <<>>, those) /\ Only(<<>>, those) = f[0]
  <2>1. \E f : IsFiltering(f, Len(<<>>), <<>>, those) /\ Only(<<>>, those) = f[Len(<<>>)]
    BY <1>1, OnlyIsFiltered
  <2> QED
    BY <1>1, <2>1
<1> DEFINE s == <<>>
<1>3. IsFiltering(f, 0, s, those)
  BY <1>2
<1> HIDE DEF s
<1>4. \A i \in 0..0 : f[i] = IF i = 0 THEN <<>> ELSE IF s[i] \in those THEN Append(f[i - 1], s[i]) ELSE f[i - 1]
  BY <1>3, Zenon DEF IsFiltering
<1>5. f[0] = <<>>
  BY <1>4
<1> QED
  BY <1>2, <1>5

LEMMA OnlyLemma ==
  ASSUME NEW S, NEW s \in Seq(S), NEW those
  PROVE  Only(s, those) \in Seq(S) /\ ToSet(Only(s, those)) = ToSet(s) \cap those
<1> DEFINE T == {u \in Seq(S) : Only(u, those) \in Seq(S) /\ ToSet(Only(u, those)) = ToSet(u) \cap those}
<1>1. <<>> \in T
  <2>1. <<>> \in Seq(S) /\ Only(<<>>, those) = <<>> /\ DOMAIN <<>> = {}
    BY OnlyEmpty, EmptySeq
  <2>2. ToSet(<<>>) = {}
    BY <2>1 DEF ToSet
  <2> QED
    BY <2>1, <2>2
<1>2. ASSUME NEW u \in Seq(S), NEW x \in S, u \in T PROVE Append(u, x) \in T
  <2>1. PICK v \in Seq(S) : v = Only(u, those)
    BY <1>2
  <2>2. Append(u, x) \in Seq(S) /\ ToSet(Append(u, x)) = ToSet(u) \cup {x}
    BY AppendLemma
  <2>3. Append(v, x) \in Seq(S) /\ ToSet(Append(v, x)) = ToSet(v) \cup {x}
    BY AppendLemma
  <2>4. Only(Append(u, x), those) = IF x \in those THEN Append(v, x) ELSE v
    BY <2>1, OnlyAppend
  <2>5. ToSet(v) = ToSet(u) \cap those
    BY <1>2, <2>1
  <2> QED
    BY <2>2, <2>3, <2>4, <2>5
<1>3. Seq(S) \subseteq T
  <2> HIDE DEF T
  <2> QED
    BY <1>1, <1>2, SequencesInduction
<1> QED
  BY <1>3

LEMMA OnlyConcat ==
  ASSUME NEW S, NEW s \in Seq(S), NEW t \in Seq(S), NEW those
  PROVE  Only(s \o t, those) = Only(s, those) \o Only(t, those)
<1>1. PICK a \in Seq(S) : a = Only(s, those)
  BY OnlyLemma
<1> DEFINE T == {u \in Seq(S) : Only(s \o u, those) = a \o Only(u, those)}
<1>2. <<>> \in T
  <2>1. <<>> \in Seq(S) /\ s \o <<>> = s /\ a \o <<>> = a
    BY ConcatEmptySeq, EmptySeq
  <2>2. Only(<<>>, those) = <<>>
    BY OnlyEmpty
  <2> QED
    BY <1>1, <2>1, <2>2
<1>3. ASSUME NEW u \in Seq(S), NEW x \in S, u \in T PROVE Append(u, x) \in T
  <2>1. PICK v \in Seq(S) : v = Only(u, those)
    BY OnlyLemma
  <2>2. PICK w \in Seq(S) : w = s \o u
    BY ConcatProperties
  <2>3. s \o Append(u, x) = Append(w, x) /\ a \o Append(v, x) = Append(a \o v, x)
    <3>1. s \o Append(u, x) = Append(s \o u, x)
      BY ConcatAppend
    <3>2. a \o Append(v, x) = Append(a \o v, x)
      BY ConcatAppend
    <3> QED
      BY <2>2, <3>1, <3>2
  <2>4. Only(Append(w, x), those) = IF x \in those THEN Append(Only(w, those), x) ELSE Only(w, those)
    BY OnlyAppend
  <2>5. Only(Append(u, x), those) = IF x \in those THEN Append(v, x) ELSE v
    BY <2>1, OnlyAppend
  <2>6. Only(w, those) = a \o v
    BY <1>3, <2>1, <2>2
  <2>7. Append(u, x) \in Seq(S)
    BY AppendLemma
  <2> QED
    BY <2>3, <2>4, <2>5, <2>6, <2>7
<1>4. Seq(S) \subseteq T
  <2> HIDE DEF T
  <2> QED
    BY <1>2, <1>3, SequencesInduction
<1> QED
  BY <1>1, <1>4

(* Only what is in the sequence counts of the set. *)
LEMMA OnlyAgrees ==
  ASSUME NEW S, NEW s \in Seq(S), NEW P, NEW Q, ToSet(s) \cap P = ToSet(s) \cap Q
  PROVE  Only(s, P) = Only(s, Q)
<1> DEFINE T == {u \in Seq(S) : ToSet(u) \cap P = ToSet(u) \cap Q => Only(u, P) = Only(u, Q)}
<1>1. <<>> \in T
  BY OnlyEmpty, EmptySeq
<1>2. ASSUME NEW u \in Seq(S), NEW x \in S, u \in T PROVE Append(u, x) \in T
  <2>1. Append(u, x) \in Seq(S) /\ ToSet(Append(u, x)) = ToSet(u) \cup {x}
    BY AppendLemma
  <2>2. Only(Append(u, x), P) = IF x \in P THEN Append(Only(u, P), x) ELSE Only(u, P)
    BY OnlyAppend
  <2>3. Only(Append(u, x), Q) = IF x \in Q THEN Append(Only(u, Q), x) ELSE Only(u, Q)
    BY OnlyAppend
  <2>4. ASSUME ToSet(Append(u, x)) \cap P = ToSet(Append(u, x)) \cap Q PROVE ToSet(u) \cap P = ToSet(u) \cap Q /\ (x \in P <=> x \in Q)
    <3> HIDE DEF T
    <3> QED
      BY <2>1, <2>4
  <2> QED
    BY <1>2, <2>1, <2>2, <2>3, <2>4
<1>3. Seq(S) \subseteq T
  <2> HIDE DEF T
  <2> QED
    BY <1>1, <1>2, SequencesInduction
<1> QED
  BY <1>3

(* One filter after another. *)
LEMMA OnlyTwice ==
  ASSUME NEW S, NEW s \in Seq(S), NEW P, NEW Q
  PROVE  Only(Only(s, P), Q) = Only(s, P \cap Q)
<1> DEFINE T == {u \in Seq(S) : Only(Only(u, P), Q) = Only(u, P \cap Q)}
<1>1. <<>> \in T
  BY OnlyEmpty, EmptySeq
<1>2. ASSUME NEW u \in Seq(S), NEW x \in S, u \in T PROVE Append(u, x) \in T
  <2>1. PICK v \in Seq(S) : v = Only(u, P)
    BY OnlyLemma
  <2>2. Only(Append(u, x), P) = IF x \in P THEN Append(v, x) ELSE v
    BY <2>1, OnlyAppend
  <2>3. Only(Append(v, x), Q) = IF x \in Q THEN Append(Only(v, Q), x) ELSE Only(v, Q)
    BY OnlyAppend
  <2>4. Only(Append(u, x), P \cap Q) = IF x \in P \cap Q THEN Append(Only(u, P \cap Q), x) ELSE Only(u, P \cap Q)
    BY OnlyAppend
  <2>5. Append(u, x) \in Seq(S)
    BY AppendLemma
  <2>6. Only(v, Q) = Only(u, P \cap Q)
    BY <1>2, <2>1
  <2>7. Only(Only(Append(u, x), P), Q) = Only(Append(u, x), P \cap Q)
    <3> HIDE DEF T
    <3>1. CASE x \in P
      <4>1. Only(Only(Append(u, x), P), Q) = IF x \in Q THEN Append(Only(v, Q), x) ELSE Only(v, Q)
        BY <2>2, <2>3, <3>1
      <4>2. x \in P \cap Q <=> x \in Q
        BY <3>1
      <4> QED
        BY <2>4, <2>6, <4>1, <4>2
    <3>2. CASE x \notin P
      BY <2>2, <2>4, <2>6, <3>2
    <3> QED
      BY <3>1, <3>2
  <2> QED
    BY <2>5, <2>7
<1>3. Seq(S) \subseteq T
  <2> HIDE DEF T
  <2> QED
    BY <1>1, <1>2, SequencesInduction
<1> QED
  BY <1>3

LEMMA OnlyAll ==
  ASSUME NEW S, NEW s \in Seq(S), NEW P
  PROVE  /\ ToSet(s) \subseteq P => Only(s, P) = s
         /\ ToSet(s) \cap P = {} => Only(s, P) = <<>>
<1> DEFINE T == {u \in Seq(S) : /\ ToSet(u) \subseteq P => Only(u, P) = u
                                /\ ToSet(u) \cap P = {} => Only(u, P) = <<>>}
<1>1. <<>> \in T
  BY OnlyEmpty, EmptySeq
<1>2. ASSUME NEW u \in Seq(S), NEW x \in S, u \in T PROVE Append(u, x) \in T
  <2>1. Append(u, x) \in Seq(S) /\ ToSet(Append(u, x)) = ToSet(u) \cup {x}
    BY AppendLemma
  <2>2. Only(Append(u, x), P) = IF x \in P THEN Append(Only(u, P), x) ELSE Only(u, P)
    BY OnlyAppend
  <2>3. /\ ToSet(u) \subseteq P => Only(u, P) = u
        /\ ToSet(u) \cap P = {} => Only(u, P) = <<>>
    BY <1>2
  <2>4. ToSet(Append(u, x)) \subseteq P => Only(Append(u, x), P) = Append(u, x)
    BY <2>1, <2>2, <2>3
  <2>5. ToSet(Append(u, x)) \cap P = {} => Only(Append(u, x), P) = <<>>
    BY <2>1, <2>2, <2>3
  <2> QED
    BY <2>1, <2>4, <2>5
<1>3. Seq(S) \subseteq T
  <2> HIDE DEF T
  <2> QED
    BY <1>1, <1>2, SequencesInduction
<1> QED
  BY <1>3

LEMMA NoElements ==
  ASSUME NEW S, NEW s \in Seq(S)
  PROVE  s = <<>> <=> ToSet(s) = {}
<1>1. Len(s) \in Nat /\ DOMAIN s = 1..Len(s)
  BY LenProperties
<1>2. CASE s = <<>>
  BY <1>2 DEF ToSet
<1>3. CASE s # <<>>
  <2>1. Len(s) \in Nat \ {0}
    BY <1>3, EmptySeq
  <2>2. 1 \in DOMAIN s
    BY <1>1, <2>1
  <2> QED
    BY <1>3, <2>2 DEF ToSet
<1> QED
  BY <1>2, <1>3

-----------------------------------------------------------------------------
(* Sequences one after the other. *)

IsFlattening(f, n, s) == f = [i \in 1..n |-> IF i = 1 THEN s[i] ELSE f[i - 1] \o s[i]]

LEMMA FlatteningsExist ==
  ASSUME NEW s, NEW n \in Nat
  PROVE  \E f : IsFlattening(f, n, s)
<1> DEFINE T == {k \in Nat : \E f : IsFlattening(f, k, s)}
<1>1. 0 \in T
  <2> DEFINE f == [i \in 1..0 |-> <<>>]
  <2>1. IsFlattening(f, 0, s)
    BY DEF IsFlattening
  <2> QED
    BY <2>1
<1>2. ASSUME NEW j \in Nat, j \in T PROVE j + 1 \in T
  <2>1. PICK f : IsFlattening(f, j, s)
    BY <1>2
  <2> DEFINE k == j + 1
  <2> DEFINE g == [i \in 1..k |-> IF i < k THEN f[i] ELSE IF i = 1 THEN s[i] ELSE f[j] \o s[i]]
  <2>2. ASSUME NEW i \in 1..k PROVE g[i] = IF i = 1 THEN s[i] ELSE g[i - 1] \o s[i]
    <3>1. CASE i = k
      <4>1. g[i] = IF i = 1 THEN s[i] ELSE f[j] \o s[i]
        BY <3>1
      <4>2. i # 1 => g[i - 1] = f[j]
        BY <3>1
      <4> QED
        BY <4>1, <4>2
    <3>2. CASE i # k
      <4>1. i \in 1..j /\ g[i] = f[i]
        BY <3>2
      <4>2. i # 1 => g[i - 1] = f[i - 1]
        BY <3>2
      <4>3. f[i] = IF i = 1 THEN s[i] ELSE f[i - 1] \o s[i]
        BY <2>1, <4>1 DEF IsFlattening
      <4> QED
        BY <4>1, <4>2, <4>3
    <3> QED
      BY <3>1, <3>2
  <2>3. IsFlattening(g, k, s)
    BY <2>2 DEF IsFlattening
  <2> QED
    BY <2>3
<1>3. Nat \subseteq T
  <2> HIDE DEF T
  <2> QED
    BY <1>1, <1>2, NumbersInduction
<1> QED
  BY <1>3

LEMMA FlattenIsFlattening ==
  ASSUME NEW S, NEW s \in Seq(S), s # <<>>
  PROVE  \E f : IsFlattening(f, Len(s), s) /\ FlattenSeq(s) = f[Len(s)]
<1> DEFINE f == CHOOSE f : IsFlattening(f, Len(s), s)
<1>1. Len(s) \in Nat /\ Len(s) # 0
  BY LenProperties, EmptySeq
<1>2. IsFlattening(f, Len(s), s)
  BY <1>1, FlatteningsExist
<1>3. FlattenSeq(s) = f[Len(s)]
  BY <1>1 DEF FlattenSeq, IsFlattening
<1> QED
  BY <1>2, <1>3

LEMMA FlattenEmpty == FlattenSeq(<<>>) = <<>>
<1>1. Len(<<>>) = 0
  BY EmptySeq
<1> QED
  BY <1>1 DEF FlattenSeq

LEMMA FlattenAppend ==
  ASSUME NEW S, NEW s \in Seq(Seq(S)), NEW x \in Seq(S)
  PROVE  FlattenSeq(Append(s, x)) = FlattenSeq(s) \o x
<1>1. PICK n \in Nat : n = Len(s)
  BY LenProperties
<1>2. PICK t \in Seq(Seq(S)) : t = Append(s, x)
  BY AppendLemma
<1>3. Len(t) = n + 1 /\ (\A i \in 1..n : t[i] = s[i]) /\ t[n + 1] = x /\ t # <<>>
  BY <1>1, <1>2, AppendLemma, EmptySeq
<1>4. PICK g : IsFlattening(g, n + 1, t) /\ FlattenSeq(t) = g[n + 1]
  <2>1. \E g : IsFlattening(g, Len(t), t) /\ FlattenSeq(t) = g[Len(t)]
    BY <1>3, FlattenIsFlattening
  <2> QED
    BY <1>3, <2>1
<1>5. \A i \in 1..(n + 1) : g[i] = IF i = 1 THEN t[i] ELSE g[i - 1] \o t[i]
  BY <1>4, Zenon DEF IsFlattening
<1>6. CASE n = 0
  <2>1. s = <<>>
    BY <1>1, <1>6, EmptySeq
  <2>2. g[1] = t[1] /\ t[1] = x
    <3>1. 1 \in 1..(n + 1)
      OBVIOUS
    <3> QED
      BY <1>3, <1>5, <1>6, <3>1
  <2>3. FlattenSeq(s) \o x = x
    BY <2>1, FlattenEmpty, ConcatEmptySeq
  <2> QED
    BY <1>2, <1>4, <1>6, <2>2, <2>3
<1>7. CASE n # 0
  <2>0. s # <<>>
    BY <1>1, <1>7, EmptySeq
  <2>1. PICK f : IsFlattening(f, n, s) /\ FlattenSeq(s) = f[n]
    <3>1. \E f : IsFlattening(f, Len(s), s) /\ FlattenSeq(s) = f[Len(s)]
      BY <2>0, FlattenIsFlattening
    <3> QED
      BY <1>1, <3>1
  <2>2. \A i \in 1..n : f[i] = IF i = 1 THEN s[i] ELSE f[i - 1] \o s[i]
    BY <2>1, Zenon DEF IsFlattening
  <2> DEFINE U == {i \in Nat : i \in 1..n => g[i] = f[i]}
  <2>3. 0 \in U
    OBVIOUS
  <2>4. ASSUME NEW i \in Nat, i \in U PROVE i + 1 \in U
    <3> SUFFICES ASSUME i + 1 <= n PROVE g[i + 1] = f[i + 1]
      OBVIOUS
    <3> DEFINE k == i + 1
    <3>1. k \in 1..n /\ k \in 1..(n + 1) /\ k - 1 = i /\ (k # 1 => i \in 1..n)
      OBVIOUS
    <3>2. f[k] = IF k = 1 THEN s[k] ELSE f[k - 1] \o s[k]
      BY <2>2, <3>1, Zenon
    <3>3. g[k] = IF k = 1 THEN t[k] ELSE g[k - 1] \o t[k]
      BY <1>5, <3>1, Zenon
    <3>4. t[k] = s[k] /\ (k # 1 => g[i] = f[i])
      BY <1>3, <2>4, <3>1
    <3> HIDE DEF k
    <3>5. g[k] = f[k]
      BY <3>1, <3>2, <3>3, <3>4
    <3> QED
      BY <3>5 DEF k
  <2>5. Nat \subseteq U
    <3> HIDE DEF U
    <3> QED
      BY <2>3, <2>4, NumbersInduction
  <2>6. g[n] = f[n]
    BY <1>7, <2>5
  <2>7. g[n + 1] = g[n] \o x
    <3> DEFINE k == n + 1
    <3>1. k \in 1..(n + 1) /\ k # 1 /\ k - 1 = n /\ t[k] = x
      BY <1>3, <1>7
    <3>2. g[k] = IF k = 1 THEN t[k] ELSE g[k - 1] \o t[k]
      BY <1>5, <3>1, Zenon
    <3> QED
      BY <3>1, <3>2
  <2> QED
    BY <1>2, <1>4, <2>1, <2>6, <2>7
<1> QED
  BY <1>6, <1>7

LEMMA FlattenLemma ==
  ASSUME NEW S, NEW s \in Seq(Seq(S))
  PROVE  FlattenSeq(s) \in Seq(S) /\ ToSet(FlattenSeq(s)) = UNION {ToSet(s[i]) : i \in DOMAIN s}
<1> DEFINE T == {u \in Seq(Seq(S)) : FlattenSeq(u) \in Seq(S) /\ ToSet(FlattenSeq(u)) = UNION {ToSet(u[i]) : i \in DOMAIN u}}
<1>1. <<>> \in T
  <2>1. <<>> \in Seq(S) /\ <<>> \in Seq(Seq(S)) /\ FlattenSeq(<<>>) = <<>>
    BY FlattenEmpty, EmptySeq
  <2>2. ToSet(<<>>) = {}
    BY <2>1, NoElements
  <2>3. DOMAIN <<>> = {}
    OBVIOUS
  <2>4. UNION {ToSet(<<>>[i]) : i \in DOMAIN <<>>} = {}
    BY <2>3
  <2> QED
    BY <2>1, <2>2, <2>4
<1>2. ASSUME NEW u \in Seq(Seq(S)), NEW x \in Seq(S), u \in T PROVE Append(u, x) \in T
  <2>1. PICK v \in Seq(S) : v = FlattenSeq(u)
    BY <1>2
  <2>2. FlattenSeq(Append(u, x)) = v \o x
    BY <2>1, FlattenAppend
  <2>3. v \o x \in Seq(S) /\ ToSet(v \o x) = ToSet(v) \cup ToSet(x)
    BY ConcatLemma
  <2>4. PICK w \in Seq(Seq(S)) : w = Append(u, x)
    BY AppendLemma
  <2>5. PICK n \in Nat : n = Len(u)
    BY LenProperties
  <2>6. DOMAIN u = 1..n /\ DOMAIN w = 1..(n + 1) /\ (\A i \in 1..n : w[i] = u[i]) /\ w[n + 1] = x
    BY <2>4, <2>5, AppendLemma
  <2>7. ASSUME NEW y PROVE y \in UNION {ToSet(w[i]) : i \in DOMAIN w} <=> y \in ToSet(x) \/ \E i \in 1..n : y \in ToSet(u[i])
    <3>1. \A i \in 1..(n + 1) : i \in 1..n \/ i = n + 1
      OBVIOUS
    <3>2. 1..n \subseteq 1..(n + 1) /\ n + 1 \in 1..(n + 1)
      OBVIOUS
    <3>3. (\E i \in 1..(n + 1) : y \in ToSet(w[i])) <=> y \in ToSet(x) \/ \E i \in 1..n : y \in ToSet(u[i])
      BY <2>6, <3>1, <3>2
    <3>4. y \in UNION {ToSet(w[i]) : i \in DOMAIN w} <=> \E i \in 1..(n + 1) : y \in ToSet(w[i])
      BY <2>6, Zenon
    <3> QED
      BY <3>3, <3>4
  <2>8. ASSUME NEW y PROVE y \in ToSet(v) <=> \E i \in 1..n : y \in ToSet(u[i])
    <3>1. ToSet(v) = UNION {ToSet(u[i]) : i \in DOMAIN u}
      BY <1>2, <2>1
    <3>2. y \in UNION {ToSet(u[i]) : i \in DOMAIN u} <=> \E i \in 1..n : y \in ToSet(u[i])
      BY <2>6, Zenon
    <3> QED
      BY <3>1, <3>2
  <2>9. FlattenSeq(w) = v \o x
    BY <2>2, <2>4
  <2>10. ToSet(FlattenSeq(w)) = UNION {ToSet(w[i]) : i \in DOMAIN w}
    <3> DEFINE all == UNION {ToSet(w[i]) : i \in DOMAIN w}
    <3>1. \A y : y \in all <=> y \in ToSet(v) \/ y \in ToSet(x)
      BY <2>7, <2>8
    <3> HIDE DEF all
    <3>2. all = ToSet(v) \cup ToSet(x)
      BY <3>1
    <3>3. all = ToSet(FlattenSeq(w))
      BY <2>3, <2>9, <3>2
    <3> QED
      BY <3>3 DEF all
  <2>11. FlattenSeq(w) \in Seq(S)
    BY <2>3, <2>9
  <2> QED
    BY <2>4, <2>10, <2>11
<1>3. Seq(Seq(S)) \subseteq T
  <2> HIDE DEF T
  <2> QED
    BY <1>1, <1>2, SequencesInduction
<1> QED
  BY <1>3

(* A filter may be applied before or after. *)
LEMMA OnlyFlatten ==
  ASSUME NEW S, NEW s \in Seq(Seq(S)), NEW those
  PROVE  Only(FlattenSeq(s), those) = FlattenSeq([i \in DOMAIN s |-> Only(s[i], those)])
<1> DEFINE each(u) == [i \in DOMAIN u |-> Only(u[i], those)]
<1> DEFINE T == {u \in Seq(Seq(S)) : Only(FlattenSeq(u), those) = FlattenSeq(each(u))}
<1>1. <<>> \in T
  <2>1. each(<<>>) = <<>>
    OBVIOUS
  <2>2. <<>> \in Seq(Seq(S))
    BY EmptySeq
  <2> QED
    BY <2>1, <2>2, FlattenEmpty, OnlyEmpty
<1>2. ASSUME NEW u \in Seq(Seq(S)), NEW x \in Seq(S), u \in T PROVE Append(u, x) \in T
  <2>1. PICK v \in Seq(S) : v = FlattenSeq(u)
    BY FlattenLemma
  <2>2. FlattenSeq(Append(u, x)) = v \o x
    BY <2>1, FlattenAppend
  <2>3. PICK y \in Seq(S) : y = Only(x, those)
    BY OnlyLemma
  <2>4. Only(v \o x, those) = Only(v, those) \o y
    <3>1. Only(v \o x, those) = Only(v, those) \o Only(x, those)
      BY OnlyConcat
    <3> QED
      BY <2>3, <3>1
  <2>5. PICK n \in Nat : n = Len(u)
    BY LenProperties
  <2>6. PICK w \in Seq(Seq(S)) : w = Append(u, x)
    BY AppendLemma
  <2>7. DOMAIN u = 1..n /\ DOMAIN w = 1..(n + 1) /\ (\A i \in 1..n : w[i] = u[i] /\ u[i] \in Seq(S)) /\ w[n + 1] = x
    BY <2>5, <2>6, AppendLemma
  <2>8. PICK a \in Seq(Seq(S)) : a = each(u) /\ Len(a) = n
    <3>1. \A i \in 1..n : Only(u[i], those) \in Seq(S)
      BY <2>7, OnlyLemma
    <3>2. each(u) \in [1..n -> Seq(S)]
      BY <2>7, <3>1
    <3> DEFINE c == each(u)
    <3>3. c \in [1..n -> Seq(S)]
      BY <3>2
    <3> HIDE DEF c
    <3>4. c \in Seq(Seq(S)) /\ Len(c) = n
      BY <3>3
    <3> QED
      BY <3>4 DEF c
  <2>9. each(w) = Append(a, y)
    <3>1. PICK b \in Seq(Seq(S)) : b = Append(a, y)
      BY AppendLemma
    <3>2. DOMAIN a = 1..n /\ DOMAIN b = 1..(n + 1) /\ (\A i \in 1..n : b[i] = a[i]) /\ b[n + 1] = y
      BY <2>8, <3>1, AppendLemma
    <3>3. \A i \in 1..(n + 1) : each(w)[i] = b[i]
      <4>1. ASSUME NEW i \in 1..n PROVE each(w)[i] = b[i]
        <5>1. i \in DOMAIN w /\ i \in DOMAIN u
          BY <2>7
        <5>2. each(w)[i] = Only(w[i], those) /\ each(u)[i] = Only(u[i], those)
          BY <5>1
        <5> QED
          BY <2>7, <2>8, <3>2, <5>2
      <4>2. each(w)[n + 1] = y
        BY <2>3, <2>7
      <4>3. ASSUME NEW i \in 1..(n + 1) PROVE i \in 1..n \/ i = n + 1
        OBVIOUS
      <4> HIDE DEF each
      <4> QED
        BY <3>2, <4>1, <4>2, <4>3
    <3>4. b \in [1..(n + 1) -> Seq(S)]
      BY <3>1, <3>2, LenProperties
    <3> QED
      BY <2>7, <3>1, <3>3, <3>4
  <2>10. FlattenSeq(Append(a, y)) = FlattenSeq(a) \o y
    BY FlattenAppend
  <2>11. Only(v, those) = FlattenSeq(a)
    BY <1>2, <2>1, <2>8
  <2> QED
    BY <2>2, <2>4, <2>6, <2>9, <2>10, <2>11
<1>3. Seq(Seq(S)) \subseteq T
  <2> HIDE DEF T
  <2> QED
    BY <1>1, <1>2, SequencesInduction
<1>4. s \in T
  BY <1>3
<1> QED
  BY <1>4

(* Of sequences of which all but one are empty, that one is left. *)
LEMMA FlattenOne ==
  ASSUME NEW S, NEW s \in Seq(Seq(S)), NEW k \in DOMAIN s, \A i \in DOMAIN s : i # k => s[i] = <<>>
  PROVE  FlattenSeq(s) = s[k]
<1> DEFINE T == {u \in Seq(Seq(S)) : \A l \in Nat \ {0} : (\A i \in DOMAIN u : i # l => u[i] = <<>>) =>
                                        FlattenSeq(u) = IF l \in DOMAIN u THEN u[l] ELSE <<>>}
<1>1. <<>> \in T
  <2>1. <<>> \in Seq(Seq(S)) /\ DOMAIN <<>> = {}
    BY EmptySeq
  <2> QED
    BY <2>1, FlattenEmpty
<1>2. ASSUME NEW u \in Seq(Seq(S)), NEW x \in Seq(S), u \in T PROVE Append(u, x) \in T
  <2>1. PICK n \in Nat : n = Len(u)
    BY LenProperties
  <2>2. PICK w \in Seq(Seq(S)) : w = Append(u, x)
    BY AppendLemma
  <2>3. DOMAIN u = 1..n /\ DOMAIN w = 1..(n + 1) /\ (\A i \in 1..n : w[i] = u[i] /\ u[i] \in Seq(S)) /\ w[n + 1] = x
    BY <2>1, <2>2, AppendLemma
  <2>4. FlattenSeq(w) = FlattenSeq(u) \o x
    BY <2>2, FlattenAppend
  <2>5. ASSUME NEW l \in Nat \ {0}, \A i \in DOMAIN w : i # l => w[i] = <<>>
        PROVE  FlattenSeq(w) = IF l \in DOMAIN w THEN w[l] ELSE <<>>
    <3>1. \A i \in DOMAIN u : i # l => u[i] = <<>>
      BY <2>3, <2>5
    <3>2. FlattenSeq(u) = IF l \in DOMAIN u THEN u[l] ELSE <<>>
      BY <1>2, <3>1
    <3>3. CASE l = n + 1
      <4>1. FlattenSeq(u) = <<>>
        BY <2>3, <3>2, <3>3
      <4>2. <<>> \o x = x
        BY ConcatEmptySeq
      <4> QED
        BY <2>3, <2>4, <3>3, <4>1, <4>2
    <3>4. CASE l # n + 1
      <4>1. x = <<>>
        <5>1. n + 1 \in DOMAIN w
          BY <2>3
        <5> QED
          BY <2>3, <2>5, <3>4, <5>1
      <4>2. l \in DOMAIN w <=> l \in DOMAIN u
        BY <2>3, <3>4
      <4>3. PICK v \in Seq(S) : v = FlattenSeq(u)
        BY FlattenLemma
      <4>4. v \o <<>> = v
        BY ConcatEmptySeq
      <4>5. l \in DOMAIN u => w[l] = u[l]
        BY <2>3
      <4> QED
        BY <2>4, <3>2, <4>1, <4>2, <4>3, <4>4, <4>5
    <3> QED
      BY <3>3, <3>4
  <2> QED
    BY <2>2, <2>5
<1>3. Seq(Seq(S)) \subseteq T
  <2> HIDE DEF T
  <2> QED
    BY <1>1, <1>2, SequencesInduction
<1>4. s \in T
  BY <1>3
<1>5. k \in Nat \ {0}
  BY LenProperties
<1> QED
  BY <1>4, <1>5

-----------------------------------------------------------------------------
(* foldRounds, message by message. *)

IsFolding(f, n, texts) == f = [i \in 0..n |-> IF i = 0 THEN <<>> ELSE TakeText(f[i - 1], texts[i])]

LEMMA FoldingsExist ==
  ASSUME NEW texts, NEW n \in Nat
  PROVE  \E f : IsFolding(f, n, texts)
<1> DEFINE T == {k \in Nat : \E f : IsFolding(f, k, texts)}
<1>1. 0 \in T
  <2> DEFINE f == [i \in 0..0 |-> <<>>]
  <2>1. IsFolding(f, 0, texts)
    BY DEF IsFolding
  <2> QED
    BY <2>1
<1>2. ASSUME NEW j \in Nat, j \in T PROVE j + 1 \in T
  <2>1. PICK f : IsFolding(f, j, texts)
    BY <1>2
  <2> DEFINE k == j + 1
  <2> DEFINE g == [i \in 0..k |-> IF i < k THEN f[i] ELSE TakeText(f[j], texts[k])]
  <2>2. ASSUME NEW i \in 0..k PROVE g[i] = IF i = 0 THEN <<>> ELSE TakeText(g[i - 1], texts[i])
    <3>1. CASE i = k
      <4>1. g[i] = TakeText(f[j], texts[k])
        BY <3>1
      <4>2. g[i - 1] = f[j] /\ i # 0
        BY <3>1
      <4> QED
        BY <3>1, <4>1, <4>2
    <3>2. CASE i # k
      <4>1. i \in 0..j /\ g[i] = f[i]
        BY <3>2
      <4>2. i # 0 => g[i - 1] = f[i - 1]
        BY <3>2
      <4>3. f[i] = IF i = 0 THEN <<>> ELSE TakeText(f[i - 1], texts[i])
        BY <2>1, <4>1 DEF IsFolding
      <4> QED
        BY <4>1, <4>2, <4>3
    <3> QED
      BY <3>1, <3>2
  <2>3. IsFolding(g, k, texts)
    BY <2>2 DEF IsFolding
  <2> QED
    BY <2>3
<1>3. Nat \subseteq T
  <2> HIDE DEF T
  <2> QED
    BY <1>1, <1>2, NumbersInduction
<1> QED
  BY <1>3

LEMMA FoldIsFolding ==
  ASSUME NEW S, NEW texts \in Seq(S)
  PROVE  \E f : IsFolding(f, Len(texts), texts) /\ FoldRounds(texts) = f[Len(texts)]
<1> DEFINE f == CHOOSE f : IsFolding(f, Len(texts), texts)
<1>1. Len(texts) \in Nat
  BY LenProperties
<1>2. IsFolding(f, Len(texts), texts)
  BY <1>1, FoldingsExist
<1>3. FoldRounds(texts) = f[Len(texts)]
  BY DEF FoldRounds, IsFolding
<1> QED
  BY <1>2, <1>3

LEMMA FoldEmpty == FoldRounds(<<>>) = <<>>
<1> DEFINE s == <<>>
<1>1. s \in Seq({}) /\ Len(s) = 0
  BY EmptySeq
<1> HIDE DEF s
<1>2. PICK f : IsFolding(f, 0, s) /\ FoldRounds(s) = f[0]
  <2>1. \E f : IsFolding(f, Len(s), s) /\ FoldRounds(s) = f[Len(s)]
    BY <1>1, FoldIsFolding
  <2> QED
    BY <1>1, <2>1
<1>3. \A i \in 0..0 : f[i] = IF i = 0 THEN <<>> ELSE TakeText(f[i - 1], s[i])
  BY <1>2, Zenon DEF IsFolding
<1>4. f[0] = <<>>
  BY <1>3
<1>5. FoldRounds(s) = <<>>
  BY <1>2, <1>4
<1> QED
  BY <1>5 DEF s

LEMMA FoldAppend ==
  ASSUME NEW S, NEW s \in Seq(S), NEW x \in S
  PROVE  FoldRounds(Append(s, x)) = TakeText(FoldRounds(s), x)
<1>1. PICK n \in Nat : n = Len(s)
  BY LenProperties
<1>2. PICK t \in Seq(S) : t = Append(s, x)
  BY AppendLemma
<1>3. Len(t) = n + 1 /\ (\A i \in 1..n : t[i] = s[i]) /\ t[n + 1] = x
  BY <1>1, <1>2, AppendLemma
<1>4. PICK f : IsFolding(f, n, s) /\ FoldRounds(s) = f[n]
  BY <1>1, FoldIsFolding
<1>5. PICK g : IsFolding(g, n + 1, t) /\ FoldRounds(t) = g[n + 1]
  <2>1. \E g : IsFolding(g, Len(t), t) /\ FoldRounds(t) = g[Len(t)]
    BY FoldIsFolding
  <2> QED
    BY <1>3, <2>1
<1> DEFINE U == {i \in Nat : i <= n => g[i] = f[i]}
<1>6. \A i \in 0..n : f[i] = IF i = 0 THEN <<>> ELSE TakeText(f[i - 1], s[i])
  BY <1>4, Zenon DEF IsFolding
<1>7. \A i \in 0..(n + 1) : g[i] = IF i = 0 THEN <<>> ELSE TakeText(g[i - 1], t[i])
  BY <1>5, Zenon DEF IsFolding
<1>8. 0 \in U
  <2>1. 0 \in 0..n /\ 0 \in 0..(n + 1)
    OBVIOUS
  <2>2. f[0] = <<>> /\ g[0] = <<>>
    BY <1>6, <1>7, <2>1, Zenon
  <2> QED
    BY <2>2
<1>9. ASSUME NEW i \in Nat, i \in U PROVE i + 1 \in U
  <2> SUFFICES ASSUME i + 1 <= n PROVE g[i + 1] = f[i + 1]
    OBVIOUS
  <2> DEFINE k == i + 1
  <2>1. k \in 0..n /\ k \in 0..(n + 1) /\ k # 0 /\ k - 1 = i /\ k \in 1..n
    OBVIOUS
  <2>2. f[k] = TakeText(f[k - 1], s[k])
    BY <1>6, <2>1, Zenon
  <2>3. g[k] = TakeText(g[k - 1], t[k])
    BY <1>7, <2>1, Zenon
  <2>4. t[k] = s[k] /\ g[i] = f[i]
    BY <1>3, <1>9, <2>1
  <2> HIDE DEF k
  <2>5. g[k] = f[k]
    BY <2>1, <2>2, <2>3, <2>4
  <2> QED
    BY <2>5 DEF k
<1>10. Nat \subseteq U
  <2> HIDE DEF U
  <2> QED
    BY <1>8, <1>9, NumbersInduction
<1>11. g[n] = f[n]
  BY <1>10
<1>12. g[n + 1] = TakeText(g[n], x)
  <2> DEFINE k == n + 1
  <2>1. k \in 0..(n + 1) /\ k # 0 /\ k - 1 = n /\ t[k] = x
    BY <1>3
  <2>2. g[k] = TakeText(g[k - 1], t[k])
    BY <1>7, <2>1, Zenon
  <2> QED
    BY <2>1, <2>2
<1> QED
  BY <1>2, <1>4, <1>5, <1>11, <1>12

-----------------------------------------------------------------------------
(* The least and the greatest of some numbers. *)

LEMMA LeastIsThere ==
  ASSUME NEW T, T \subseteq Nat, T # {}
  PROVE  Min(T) \in T /\ \A n \in T : Min(T) <= n
<1>1. \E n \in T : \A m \in T : n =< m
  BY LeastNumber
<1> QED
  BY <1>1 DEF Min

LEMMA GreatestIsThere ==
  ASSUME NEW T, NEW n \in Nat, T \subseteq 0..n, T # {}
  PROVE  Max(T) \in T /\ \A m \in T : Max(T) >= m
<1> DEFINE U == {n - m : m \in T}
<1>1. U \subseteq Nat /\ U # {}
  OBVIOUS
<1>2. PICK k \in U : \A m \in U : k =< m
  <2> HIDE DEF U
  <2> QED
    BY <1>1, LeastNumber
<1>3. PICK m \in T : k = n - m
  BY <1>2
<1>4. \A p \in T : m >= p
  <2>1. TAKE p \in T
  <2>2. n - p \in U
    OBVIOUS
  <2>3. k =< n - p
    BY <1>2, <2>2
  <2> QED
    BY <1>3, <2>3
<1>5. \E x \in T : \A y \in T : x >= y
  BY <1>4
<1> QED
  BY <1>5 DEF Max

-----------------------------------------------------------------------------
(* On the wire. *)

(* A field is read back as it was meant, whatever the free text holds. *)
LEMMA FieldIsReadBack ==
  ASSUME NEW K, NEW keys \in Seq(K), NEW fields, NEW free, free \in Seq(ToSet(free)), NEW key,
         NEW text, text.tokens = Tokens(keys, fields) \o free
  PROVE  /\ key \in ToSet(keys) /\ key \in DOMAIN fields => Found(text, key) /\ FirstValue(text, key) = fields[key]
         /\ free = <<>> /\ key \notin DOMAIN fields => ~Found(text, key)
<1>1. PICK ks \in Seq(K) : ks = Keyed(keys, fields) /\ ToSet(ks) = ToSet(keys) \cap DOMAIN fields
  BY OnlyLemma DEF Keyed
<1>2. PICK n \in Nat : n = Len(ks) /\ DOMAIN ks = 1..n
  BY LenProperties
<1> DEFINE ts == [i \in 1..n |-> [key |-> ks[i], val |-> fields[ks[i]]]]
           S == ToSet(free) \cup {ts[i] : i \in 1..n}
<1>3. ts = Tokens(keys, fields)
  BY <1>1, <1>2 DEF Tokens
<1>4. PICK t \in Seq(S) : t = ts /\ Len(t) = n
  <2>1. ts \in [1..n -> S]
    OBVIOUS
  <2> HIDE DEF S
  <2>2. ts \in Seq(S) /\ Len(ts) = n
    BY <2>1
  <2> QED
    BY <2>2
<1>5. free \in Seq(S)
  BY SeqMonotonic
<1>6. PICK m \in Nat : m = Len(free) /\ DOMAIN free = 1..m
  BY LenProperties
<1>7. PICK w : w = text.tokens /\ w = t \o free
  BY <1>3, <1>4
<1>8. DOMAIN w = 1..(n + m) /\ \A i \in 1..n : w[i] = t[i]
  <2> HIDE DEF S
  <2> QED
    BY <1>2, <1>4, <1>5, <1>6, <1>7, ConcatLemma
<1>9. \A i \in 1..n : w[i].key = ks[i] /\ w[i].val = fields[ks[i]]
  BY <1>4, <1>8
<1>10. Tagged(w, key) = {i \in 1..(n + m) : w[i].key = key}
  BY <1>8 DEF Tagged
<1>11. ASSUME key \in ToSet(keys), key \in DOMAIN fields PROVE Found(text, key) /\ FirstValue(text, key) = fields[key]
  <2>1. key \in ToSet(ks)
    BY <1>1, <1>11
  <2>2. PICK j \in 1..n : ks[j] = key
    BY <1>2, <2>1 DEF ToSet
  <2>3. PICK at : at = Tagged(w, key)
    OBVIOUS
  <2>4. j \in at /\ at \subseteq Nat
    BY <1>9, <1>10, <2>2, <2>3
  <2>5. PICK k \in at : k = Min(at) /\ k <= j
    BY <2>4, LeastIsThere
  <2>6. k \in 1..n /\ w[k].key = key
    BY <1>10, <2>3, <2>5
  <2>7. w[k].val = fields[key]
    BY <1>9, <2>6
  <2> QED
    BY <1>7, <2>3, <2>4, <2>5, <2>7 DEF Found, FirstValue
<1>12. ASSUME free = <<>>, key \notin DOMAIN fields PROVE ~Found(text, key)
  <2>1. m = 0
    BY <1>6, <1>12, EmptySeq
  <2>2. SUFFICES ASSUME NEW i \in Tagged(w, key) PROVE FALSE
    BY <1>7 DEF Found
  <2>3. i \in 1..n /\ ks[i] = key
    BY <1>9, <1>10, <2>1
  <2>4. key \in ToSet(ks)
    BY <1>2, <2>3 DEF ToSet
  <2> QED
    BY <1>1, <1>12, <2>4
<1> QED
  BY <1>11, <1>12

-----------------------------------------------------------------------------
(* The texts the agents may post in a thread about a round. *)

(* By which rail, reference, proof and buyer: the order's payment and the seller's own. *)
Orders(l, n)    == [rail : Rails, reference : {Order(l, n)}, proof : {"signed"}, buyer : {"wallet"}]
Purchases(l, n) == [rail : {"x402"}, reference : {Upstream(l, n)}, proof : {"tx"}, buyer : {"seller"}]

Payments(l, n) == Orders(l, n) \cup Purchases(l, n)

FieldsOf(l, n, verb) ==
  CASE verb = "WANT"      -> {[round |-> n, service |-> "edge", arg |-> n, budget |-> 2]}
    [] verb = "BID"       -> [round : {n}, price : {1}, by : Sellers]
    [] verb = "AWARD"     -> [round : {n}, to : Sellers]
    [] verb = "DELIVERED" -> [round : {n}]
    [] verb = "VERIFIED"  -> [round : {n}, verdict : {"pass", "fail"}, by : {"verifier"}]
    [] verb = "PAYMENT_REQUIRED" ->
         {[round |-> n, rail |-> p.rail, amount |-> 1, currency |-> "SOL", reference |-> p.reference] : p \in Payments(l, n)}
    [] verb = "PAYMENT_PROOF" ->
         {[round |-> n, rail |-> p.rail, reference |-> p.reference, proof |-> p.proof, buyer |-> p.buyer] : p \in Payments(l, n)}
    [] verb = "PAYMENT_CONFIRMED" ->
         {[round |-> n, rail |-> p.rail, reference |-> p.reference, paid |-> TRUE, sig |-> "tx"] : p \in Payments(l, n)}
           \cup {[round |-> n, rail |-> p.rail, reference |-> p.reference, paid |-> FALSE] : p \in Orders(l, n)}
    [] OTHER -> {[round |-> n, rail |-> p.rail, reference |-> p.reference] : p \in Orders(l, n)}

FreeOf(verb) == IF verb = "BID" THEN Notes ELSE {<<>>}

IsText(t, l, n) ==
  /\ t.verb \in Verbs /\ t.fields \in FieldsOf(l, n, t.verb)
  /\ \E free \in FreeOf(t.verb) : t = Posted(l, [verb |-> t.verb, fields |-> t.fields, free |-> free])

IsTuple(s, n) == s = [i \in 1..n |-> s[i]]

LEMMA TuplesAreSequences ==
  ASSUME NEW s, NEW n \in Nat, IsTuple(s, n)
  PROVE  s \in Seq(ToSet(s)) /\ DOMAIN s = 1..n /\ (n > 0 => s # <<>>)
<1>0. PICK g : g = s
  OBVIOUS
<1>1. DOMAIN s = 1..n /\ s = [i \in 1..n |-> g[i]]
  BY <1>0, Zenon DEF IsTuple
<1>2. \A i \in 1..n : s[i] \in ToSet(s)
  BY <1>1 DEF ToSet
<1>3. s \in [1..n -> ToSet(s)]
  BY <1>0, <1>1, <1>2
<1>4. s \in Seq(ToSet(s)) /\ Len(s) = n
  BY <1>3
<1>5. n > 0 => s # <<>>
  <2>1. Len(<<>>) = 0
    BY EmptySeq
  <2> QED
    BY <1>4, <2>1
<1> QED
  BY <1>1, <1>4, <1>5

(* Which keys a kind of message has. *)
LEMMA LayoutSets ==
  /\ ToSet(Layout("WANT")) = {"round", "service", "arg", "budget"}
  /\ ToSet(Layout("BID")) = {"round", "price", "by"}
  /\ ToSet(Layout("AWARD")) = {"round", "to"}
  /\ ToSet(Layout("PAYMENT_REQUIRED")) = {"round", "rail", "amount", "currency", "reference", "seller", "url", "deadline"}
  /\ ToSet(Layout("PAYMENT_PROOF")) = {"round", "rail", "reference", "proof", "buyer", "sig"}
  /\ ToSet(Layout("PAYMENT_CONFIRMED")) = {"round", "rail", "reference", "paid", "amount", "currency", "sig"}
  /\ ToSet(Layout("SETTLED")) = {"round", "rail", "reference", "amount", "currency", "sig"}
  /\ ToSet(Layout("VERIFIED")) = {"round", "verdict", "by", "sha"}
  /\ ToSet(Layout("DELIVERED")) = {"round"}
<1>1. ToSet(<<"round", "service", "arg", "budget">>) = {"round", "service", "arg", "budget"}
  BY DEF ToSet
<1>2. ToSet(<<"round", "price", "by">>) = {"round", "price", "by"}
  BY DEF ToSet
<1>3. ToSet(<<"round", "to">>) = {"round", "to"}
  BY DEF ToSet
<1>4. ToSet(<<"round", "rail", "amount", "currency", "reference", "seller", "url", "deadline">>) = {"round", "rail", "amount", "currency", "reference", "seller", "url", "deadline"}
  BY DEF ToSet
<1>5. ToSet(<<"round", "rail", "reference", "proof", "buyer", "sig">>) = {"round", "rail", "reference", "proof", "buyer", "sig"}
  BY DEF ToSet
<1>6. ToSet(<<"round", "rail", "reference", "paid", "amount", "currency", "sig">>) = {"round", "rail", "reference", "paid", "amount", "currency", "sig"}
  BY DEF ToSet
<1>7. ToSet(<<"round", "rail", "reference", "amount", "currency", "sig">>) = {"round", "rail", "reference", "amount", "currency", "sig"}
  BY DEF ToSet
<1>8. ToSet(<<"round", "verdict", "by", "sha">>) = {"round", "verdict", "by", "sha"}
  BY DEF ToSet
<1>9. ToSet(<<"round">>) = {"round"}
  BY DEF ToSet
<1> QED
  BY <1>1, <1>2, <1>3, <1>4, <1>5, <1>6, <1>7, <1>8, <1>9 DEF Layout

LEMMA LayoutsAreTuples ==
  ASSUME NEW v \in Verbs
  PROVE  Layout(v) \in Seq(ToSet(Layout(v))) /\ Layout(v) # <<>>
<1>1. PICK s : s = Layout(v)
  OBVIOUS
<1>2. v = "WANT" => 4 \in Nat /\ 4 > 0 /\ IsTuple(s, 4)
  BY <1>1 DEF Layout, IsTuple
<1>3. v = "BID" => 3 \in Nat /\ 3 > 0 /\ IsTuple(s, 3)
  BY <1>1 DEF Layout, IsTuple
<1>4. v = "AWARD" => 2 \in Nat /\ 2 > 0 /\ IsTuple(s, 2)
  BY <1>1 DEF Layout, IsTuple
<1>5. v = "PAYMENT_REQUIRED" => 8 \in Nat /\ 8 > 0 /\ IsTuple(s, 8)
  BY <1>1 DEF Layout, IsTuple
<1>6. v = "PAYMENT_PROOF" => 6 \in Nat /\ 6 > 0 /\ IsTuple(s, 6)
  BY <1>1 DEF Layout, IsTuple
<1>7. v = "PAYMENT_CONFIRMED" => 7 \in Nat /\ 7 > 0 /\ IsTuple(s, 7)
  BY <1>1 DEF Layout, IsTuple
<1>8. v \in {"SETTLED", "REFUNDED"} => 6 \in Nat /\ 6 > 0 /\ IsTuple(s, 6)
  BY <1>1 DEF Layout, IsTuple
<1>9. v = "VERIFIED" => 4 \in Nat /\ 4 > 0 /\ IsTuple(s, 4)
  BY <1>1 DEF Layout, IsTuple
<1>10. v = "DELIVERED" => 1 \in Nat /\ 1 > 0 /\ IsTuple(s, 1)
  BY <1>1 DEF Layout, IsTuple
<1>11. \E n \in Nat : n > 0 /\ IsTuple(s, n)
  BY <1>2, <1>3, <1>4, <1>5, <1>6, <1>7, <1>8, <1>9, <1>10, Zenon DEF Verbs
<1>12. PICK n \in Nat : n > 0 /\ IsTuple(s, n)
  BY <1>11
<1>13. s \in Seq(ToSet(s)) /\ DOMAIN s = 1..n /\ (n > 0 => s # <<>>)
  BY <1>12, TuplesAreSequences, Zenon
<1> QED
  BY <1>1, <1>12, <1>13

LEMMA LayoutsFit ==
  ASSUME NEW l, NEW n, NEW v \in Verbs, NEW f \in FieldsOf(l, n, v)
  PROVE  /\ DOMAIN f \subseteq ToSet(Layout(v)) /\ (v = "BID" => ToSet(Layout(v)) \subseteq DOMAIN f)
         /\ Required(v) \subseteq DOMAIN f /\ "round" \in DOMAIN f /\ f.round = n
<1>1. CASE v = "WANT"
  <2>1. ToSet(Layout(v)) = {"round", "service", "arg", "budget"}
    BY <1>1, LayoutSets
  <2>2. Required(v) = {"round", "service", "arg", "budget"}
    BY <1>1, <2>1 DEF Required
  <2>3. DOMAIN f = {"round", "service", "arg", "budget"} /\ f.round = n
    BY <1>1 DEF FieldsOf
  <2> QED
    BY <1>1, <2>1, <2>2, <2>3
<1>2. CASE v = "BID"
  <2>1. ToSet(Layout(v)) = {"round", "price", "by"}
    BY <1>2, LayoutSets
  <2>2. Required(v) = {"round", "price", "by"}
    BY <1>2, <2>1 DEF Required
  <2>3. DOMAIN f = {"round", "price", "by"} /\ f.round = n
    BY <1>2 DEF FieldsOf
  <2> QED
    BY <2>1, <2>2, <2>3
<1>3. CASE v = "AWARD"
  <2>1. ToSet(Layout(v)) = {"round", "to"}
    BY <1>3, LayoutSets
  <2>2. Required(v) = {"round", "to"}
    BY <1>3, <2>1 DEF Required
  <2>3. DOMAIN f = {"round", "to"} /\ f.round = n
    BY <1>3 DEF FieldsOf
  <2> QED
    BY <1>3, <2>1, <2>2, <2>3
<1>4. CASE v = "PAYMENT_REQUIRED"
  <2>1. ToSet(Layout(v)) = {"round", "rail", "amount", "currency", "reference", "seller", "url", "deadline"}
    BY <1>4, LayoutSets
  <2>2. Required(v) = {"round", "rail", "amount", "currency", "reference"}
    BY <1>4 DEF Required
  <2>3. DOMAIN f = {"round", "rail", "amount", "currency", "reference"} /\ f.round = n
    BY <1>4 DEF FieldsOf
  <2> QED
    BY <1>4, <2>1, <2>2, <2>3
<1>5. CASE v = "PAYMENT_PROOF"
  <2>1. ToSet(Layout(v)) = {"round", "rail", "reference", "proof", "buyer", "sig"}
    BY <1>5, LayoutSets
  <2>2. Required(v) = {"round", "rail", "reference", "proof"}
    BY <1>5 DEF Required
  <2>3. DOMAIN f = {"round", "rail", "reference", "proof", "buyer"} /\ f.round = n
    BY <1>5 DEF FieldsOf
  <2> QED
    BY <1>5, <2>1, <2>2, <2>3
<1>6. CASE v = "PAYMENT_CONFIRMED"
  <2>1. ToSet(Layout(v)) = {"round", "rail", "reference", "paid", "amount", "currency", "sig"}
    BY <1>6, LayoutSets
  <2>2. Required(v) = {"round", "rail", "reference", "paid"}
    BY <1>6 DEF Required
  <2>3. PICK p : \/ f = [round |-> n, rail |-> p.rail, reference |-> p.reference, paid |-> TRUE, sig |-> "tx"]
                 \/ f = [round |-> n, rail |-> p.rail, reference |-> p.reference, paid |-> FALSE]
    BY <1>6 DEF FieldsOf
  <2>4. f.round = n
    BY <2>3
  <2>5. DOMAIN f = {"round", "rail", "reference", "paid", "sig"} \/ DOMAIN f = {"round", "rail", "reference", "paid"}
    BY <2>3
  <2> QED
    BY <1>6, <2>1, <2>2, <2>4, <2>5
<1>7. CASE v \in {"SETTLED", "REFUNDED"}
  <2>1. ToSet(Layout(v)) = {"round", "rail", "reference", "amount", "currency", "sig"}
    BY <1>7, LayoutSets DEF Layout
  <2>2. Required(v) = {"round", "rail", "reference"}
    BY <1>7 DEF Required
  <2>3. DOMAIN f = {"round", "rail", "reference"} /\ f.round = n
    BY <1>7 DEF FieldsOf
  <2> QED
    BY <1>7, <2>1, <2>2, <2>3
<1>8. CASE v = "VERIFIED"
  <2>1. ToSet(Layout(v)) = {"round", "verdict", "by", "sha"}
    BY <1>8, LayoutSets
  <2>2. Required(v) = {"round", "verdict", "by"}
    BY <1>8 DEF Required
  <2>3. DOMAIN f = {"round", "verdict", "by"} /\ f.round = n
    BY <1>8 DEF FieldsOf
  <2> QED
    BY <1>8, <2>1, <2>2, <2>3
<1>9. CASE v = "DELIVERED"
  <2>1. ToSet(Layout(v)) = {"round"}
    BY <1>9, LayoutSets
  <2>2. Required(v) = {"round"}
    BY <1>9, <2>1 DEF Required
  <2>3. DOMAIN f = {"round"} /\ f.round = n
    BY <1>9 DEF FieldsOf
  <2> QED
    BY <1>9, <2>1, <2>2, <2>3
<1> QED
  BY <1>1, <1>2, <1>3, <1>4, <1>5, <1>6, <1>7, <1>8, <1>9 DEF Verbs

LEMMA FieldsAreAcceptable ==
  ASSUME NEW l, NEW n, NEW v \in Verbs, NEW f \in FieldsOf(l, n, v), NEW k \in DOMAIN f
  PROVE  Acceptable(k, f[k])
<1>0. Rails \subseteq Known.rail
  BY FoldAssumption DEF FoldAssumption
<1>1. DOMAIN Known = {"rail", "currency", "paid", "verdict"}
  BY DEF Known
<1>2. "SOL" \in Known["currency"] /\ "pass" \in Known["verdict"] /\ "fail" \in Known["verdict"]
      /\ TRUE \in Known["paid"] /\ FALSE \in Known["paid"] /\ "x402" \in Known["rail"]
  BY DEF Known
<1>3. \A p \in Payments(l, n) : p.rail \in Known["rail"]
  BY <1>0, <1>2 DEF Payments, Orders, Purchases
<1>4. Orders(l, n) \subseteq Payments(l, n)
  BY DEF Payments
<1>5. CASE k = "rail"
  <2>1. v \in {"PAYMENT_REQUIRED", "PAYMENT_PROOF", "PAYMENT_CONFIRMED", "SETTLED", "REFUNDED"}
    BY <1>5 DEF FieldsOf, Verbs
  <2>2. \E p \in Payments(l, n) : f["rail"] = p.rail
    BY <1>4, <2>1 DEF FieldsOf
  <2> QED
    BY <1>3, <1>5, <2>2 DEF Acceptable
<1>6. CASE k = "currency"
  <2>1. v = "PAYMENT_REQUIRED"
    BY <1>6 DEF FieldsOf, Verbs
  <2>2. f["currency"] = "SOL"
    BY <2>1 DEF FieldsOf
  <2> QED
    BY <1>2, <1>6, <2>2 DEF Acceptable
<1>7. CASE k = "paid"
  <2>1. v = "PAYMENT_CONFIRMED"
    BY <1>7 DEF FieldsOf, Verbs
  <2>2. f["paid"] = TRUE \/ f["paid"] = FALSE
    BY <2>1 DEF FieldsOf
  <2> QED
    BY <1>2, <1>7, <2>2 DEF Acceptable
<1>8. CASE k = "verdict"
  <2>1. v = "VERIFIED"
    BY <1>8 DEF FieldsOf, Verbs
  <2>2. f["verdict"] = "pass" \/ f["verdict"] = "fail"
    BY <2>1 DEF FieldsOf
  <2> QED
    BY <1>2, <1>8, <2>2 DEF Acceptable
<1> QED
  BY <1>1, <1>5, <1>6, <1>7, <1>8 DEF Acceptable

LEMMA FieldsAreAFunction ==
  ASSUME NEW l, NEW n, NEW v \in Verbs, NEW f \in FieldsOf(l, n, v)
  PROVE  f = [k \in DOMAIN f |-> f[k]]
  BY DEF FieldsOf, Verbs

(* A text is understood as it was meant. *)
LEMMA TextsAreUnderstood ==
  ASSUME NEW l, NEW n, NEW t, IsText(t, l, n)
  PROVE  /\ Parsed(t) = t.fields /\ Parses(t.verb, t.fields)
         /\ HasRound(t) /\ MessageRound(t) = n /\ t.fields.round = n /\ t.thread = l
<1> DEFINE v == t.verb
           f == t.fields
<1>0. v \in Verbs /\ f \in FieldsOf(l, n, v)
  BY DEF IsText
<1>1. PICK free \in FreeOf(v) : t = Posted(l, [verb |-> v, fields |-> f, free |-> free])
  BY DEF IsText
<1>2. t.verb = v /\ t.fields = f /\ t.thread = l /\ t.tokens = Tokens(Layout(v), f) \o free
  BY <1>1 DEF Posted, Format
<1> HIDE DEF v, f
<1>3. /\ Layout(v) # <<>>
      /\ DOMAIN f \subseteq ToSet(Layout(v)) /\ (v = "BID" => ToSet(Layout(v)) \subseteq DOMAIN f)
      /\ Required(v) \subseteq DOMAIN f /\ "round" \in DOMAIN f /\ f.round = n
  BY <1>0, LayoutsFit, LayoutsAreTuples
<1>4. free \in Seq(ToSet(free)) /\ (v # "BID" => free = <<>>)
  <2>1. CASE v = "BID"
    BY <2>1, FoldAssumption DEF FreeOf, FoldAssumption
  <2>2. CASE v # "BID"
    BY <2>2, EmptySeq DEF FreeOf
  <2> QED
    BY <2>1, <2>2
<1>5. PICK keys : keys = Layout(v) /\ keys \in Seq(ToSet(keys))
  BY <1>0, LayoutsAreTuples
<1>6. t.tokens = Tokens(keys, f) \o free
  BY <1>2, <1>5
<1>7. PICK K : K = ToSet(keys) /\ keys \in Seq(K)
  BY <1>5
<1>8. ASSUME NEW k \in DOMAIN f PROVE Found(t, k) /\ FirstValue(t, k) = f[k]
  <2>1. k \in ToSet(keys)
    BY <1>3, <1>5
  <2> QED
    BY <1>4, <1>6, <1>7, <2>1, FieldIsReadBack
<1>9. ASSUME NEW k \in ToSet(keys), k \notin DOMAIN f PROVE ~Found(t, k)
  <2>1. free = <<>>
    BY <1>3, <1>4, <1>5, <1>9
  <2> QED
    BY <1>4, <1>6, <1>7, <1>9, <2>1, FieldIsReadBack
<1>10. KeysRead(t) = DOMAIN f
  <2>1. \A k \in DOMAIN f : Acceptable(k, FirstValue(t, k))
    BY <1>0, <1>8, FieldsAreAcceptable
  <2>2. KeysRead(t) = {k \in ToSet(keys) : Found(t, k) /\ Acceptable(k, FirstValue(t, k))}
    BY <1>2, <1>5 DEF KeysRead
  <2> QED
    BY <1>3, <1>5, <1>8, <1>9, <2>1, <2>2
<1>11. Parsed(t) = f
  <2>1. Parsed(t) = [k \in DOMAIN f |-> FirstValue(t, k)]
    BY <1>10 DEF Parsed
  <2>2. Parsed(t) = [k \in DOMAIN f |-> f[k]]
    BY <1>8, <2>1
  <2> QED
    BY <1>0, <2>2, FieldsAreAFunction
<1>12. HasRound(t) /\ MessageRound(t) = n
  BY <1>3, <1>8 DEF HasRound, MessageRound
<1> QED
  BY <1>2, <1>3, <1>11, <1>12 DEF Parses, v, f

-----------------------------------------------------------------------------
(* What a fold makes of texts: each round is folded from its own. *)

Drafts(l, n, verb) == [verb : {verb}, fields : FieldsOf(l, n, verb), free : FreeOf(verb)]

TextsOf(l, n) == UNION {{Posted(l, d) : d \in Drafts(l, n, verb)} : verb \in Verbs}

Texts == UNION {TextsOf(p[1], p[2]) : p \in (1..Lives) \X Rounds}

LEMMA TextsAreTexts ==
  ASSUME NEW l \in 1..Lives, NEW n \in Rounds
  PROVE  /\ \A v \in Verbs : \A d \in Drafts(l, n, v) : Posted(l, d) \in Texts
         /\ \A t \in TextsOf(l, n) : IsText(t, l, n)
<1>1. ASSUME NEW v \in Verbs, NEW d \in Drafts(l, n, v) PROVE Posted(l, d) \in Texts
  <2>1. Posted(l, d) \in TextsOf(l, n)
    <3>1. Posted(l, d) \in {Posted(l, e) : e \in Drafts(l, n, v)}
      OBVIOUS
    <3> QED
      BY <3>1, Zenon DEF TextsOf
  <2>2. <<l, n>> \in (1..Lives) \X Rounds /\ <<l, n>>[1] = l /\ <<l, n>>[2] = n
    OBVIOUS
  <2>3. Posted(l, d) \in TextsOf(<<l, n>>[1], <<l, n>>[2])
    BY <2>1, <2>2
  <2> QED
    BY <2>2, <2>3, Zenon DEF Texts
<1>2. ASSUME NEW t \in TextsOf(l, n) PROVE IsText(t, l, n)
  <2>1. \E v \in Verbs : \E d \in Drafts(l, n, v) : t = Posted(l, d)
    BY Zenon DEF TextsOf
  <2>2. PICK v \in Verbs : \E d \in Drafts(l, n, v) : t = Posted(l, d)
    BY <2>1
  <2>3. PICK d \in Drafts(l, n, v) : t = Posted(l, d)
    BY <2>2
  <2>4. t.verb = v /\ t.fields = d.fields /\ d.fields \in FieldsOf(l, n, v) /\ d.free \in FreeOf(v)
    BY <2>3 DEF Posted, Drafts
  <2>5. d = [verb |-> v, fields |-> d.fields, free |-> d.free]
    BY DEF Drafts
  <2>6. t = Posted(l, [verb |-> v, fields |-> d.fields, free |-> d.free])
    BY <2>3, <2>5
  <2> QED
    BY <2>4, <2>6 DEF IsText
<1> QED
  BY <1>1, <1>2

LEMMA TextsAreOfRounds ==
  ASSUME NEW t \in Texts
  PROVE  \E l \in 1..Lives : \E n \in Rounds : t \in TextsOf(l, n) /\ IsText(t, l, n)
<1>1. \E p \in (1..Lives) \X Rounds : t \in TextsOf(p[1], p[2])
  BY Zenon DEF Texts
<1>2. PICK p \in (1..Lives) \X Rounds : t \in TextsOf(p[1], p[2])
  BY <1>1
<1>3. p[1] \in 1..Lives /\ p[2] \in Rounds
  OBVIOUS
<1> QED
  BY <1>2, <1>3, TextsAreTexts

(* What all of these say of themselves. *)
LEMMA TextLemma ==
  ASSUME NEW t \in Texts
  PROVE  /\ t.verb \in Verbs /\ Parsed(t) = t.fields /\ Parses(t.verb, t.fields)
         /\ HasRound(t) /\ MessageRound(t) = t.fields.round
         /\ t.fields.round \in Rounds /\ t.thread \in 1..Lives
         /\ t.fields \in FieldsOf(t.thread, t.fields.round, t.verb)
<1>1. PICK l \in 1..Lives : \E n \in Rounds : IsText(t, l, n)
  BY TextsAreOfRounds
<1>2. PICK n \in Rounds : IsText(t, l, n)
  BY <1>1
<1>3. /\ Parsed(t) = t.fields /\ Parses(t.verb, t.fields)
      /\ HasRound(t) /\ MessageRound(t) = n /\ t.fields.round = n /\ t.thread = l
  BY <1>2, TextsAreUnderstood
<1>4. t.verb \in Verbs /\ t.fields \in FieldsOf(l, n, t.verb)
  BY <1>2 DEF IsText
<1> QED
  BY <1>3, <1>4

(* What has been folded of a round. *)
RoundOf(texts, n) == IF n \in DOMAIN FoldRounds(texts) THEN FoldRounds(texts)[n] ELSE NewRound

LEMMA FoldOneMore ==
  ASSUME NEW s \in Seq(Texts), NEW x \in Texts
  PROVE  /\ DOMAIN FoldRounds(Append(s, x)) = DOMAIN FoldRounds(s) \cup {x.fields.round}
         /\ FoldRounds(Append(s, x)) = [k \in DOMAIN FoldRounds(Append(s, x)) |-> FoldRounds(Append(s, x))[k]]
         /\ \A k : RoundOf(Append(s, x), k) =
                     IF k = x.fields.round THEN Take(RoundOf(s, k), x.verb, x.fields) ELSE RoundOf(s, k)
<1>1. PICK f : f = FoldRounds(s)
  OBVIOUS
<1>2. PICK g : g = FoldRounds(Append(s, x))
  OBVIOUS
<1>3. PICK n : n = x.fields.round
  OBVIOUS
<1>4. g = TakeText(f, x)
  BY <1>1, <1>2, FoldAppend
<1>5. PICK new : new = Take(IF n \in DOMAIN f THEN f[n] ELSE NewRound, x.verb, x.fields)
  OBVIOUS
<1>6. g = Put(f, n, new)
  BY <1>3, <1>4, <1>5, TextLemma DEF TakeText, Has
<1>7. /\ DOMAIN g = DOMAIN f \cup {n} /\ g[n] = new /\ (\A k \in DOMAIN f : k # n => g[k] = f[k])
      /\ g = [k \in DOMAIN g |-> g[k]]
  BY <1>6 DEF Put
<1>8. ASSUME NEW k
      PROVE  RoundOf(Append(s, x), k) =
               IF k = x.fields.round THEN Take(RoundOf(s, k), x.verb, x.fields) ELSE RoundOf(s, k)
  <2>1. RoundOf(Append(s, x), k) = IF k \in DOMAIN g THEN g[k] ELSE NewRound
    BY <1>2 DEF RoundOf
  <2>2. RoundOf(s, k) = IF k \in DOMAIN f THEN f[k] ELSE NewRound
    BY <1>1 DEF RoundOf
  <2>3. CASE k = n
    <3>1. new = Take(RoundOf(s, k), x.verb, x.fields)
      BY <1>5, <2>2, <2>3
    <3> QED
      BY <1>3, <1>7, <2>1, <2>3, <3>1
  <2>4. CASE k # n
    BY <1>3, <1>7, <2>1, <2>2, <2>4
  <2> QED
    BY <2>3, <2>4
<1> QED
  BY <1>1, <1>2, <1>3, <1>7, <1>8

LEMMA AppendIsNotEmpty ==
  ASSUME NEW S, NEW s \in Seq(S), NEW x \in S
  PROVE  Append(s, x) # <<>>
<1>1. PICK w \in Seq(S) : w = Append(s, x)
  BY AppendLemma
<1>2. Len(w) = Len(s) + 1 /\ Len(s) \in Nat
  BY <1>1, AppendLemma
<1>3. Len(<<>>) = 0
  BY EmptySeq
<1>4. w # <<>>
  BY <1>2, <1>3
<1> QED
  BY <1>1, <1>4

LEMMA OfRoundEmpty ==
  ASSUME NEW n
  PROVE  OfRound(<<>>, n) = <<>>
  BY OnlyEmpty DEF OfRound

LEMMA OfRoundAppend ==
  ASSUME NEW S, NEW s \in Seq(S), NEW x \in S, NEW n
  PROVE  OfRound(Append(s, x), n) = IF x.fields.round = n THEN Append(OfRound(s, n), x) ELSE OfRound(s, n)
<1>0. PICK w \in Seq(S) : w = Append(s, x)
  BY AppendLemma
<1>1. w = Append(s, x) /\ ToSet(w) = ToSet(s) \cup {x}
  BY <1>0, AppendLemma
<1> DEFINE P == {m \in ToSet(s) : m.fields.round = n}
           Q == {m \in ToSet(w) : m.fields.round = n}
<1>2. ToSet(s) \cap P = ToSet(s) \cap Q /\ (x \in Q <=> x.fields.round = n)
  BY <1>1
<1>3. OfRound(s, n) = Only(s, P) /\ OfRound(Append(s, x), n) = Only(Append(s, x), Q)
  BY <1>1 DEF OfRound
<1> HIDE DEF P, Q
<1>4. Only(s, P) = Only(s, Q)
  BY <1>2, OnlyAgrees
<1>5. Only(Append(s, x), Q) = IF x \in Q THEN Append(Only(s, Q), x) ELSE Only(s, Q)
  BY OnlyAppend
<1> QED
  BY <1>2, <1>3, <1>4, <1>5

LEMMA OfRoundConcat ==
  ASSUME NEW S, NEW s \in Seq(S), NEW t \in Seq(S), NEW n
  PROVE  OfRound(s \o t, n) = OfRound(s, n) \o OfRound(t, n)
<1>0. PICK w \in Seq(S) : w = s \o t
  BY ConcatLemma
<1>1. w = s \o t /\ ToSet(w) = ToSet(s) \cup ToSet(t)
  BY <1>0, ConcatLemma
<1> DEFINE P == {m \in ToSet(s) : m.fields.round = n}
           Q == {m \in ToSet(t) : m.fields.round = n}
           R == {m \in ToSet(w) : m.fields.round = n}
<1>2. ToSet(s) \cap P = ToSet(s) \cap R /\ ToSet(t) \cap Q = ToSet(t) \cap R
  BY <1>1
<1>3. OfRound(s, n) = Only(s, P) /\ OfRound(t, n) = Only(t, Q) /\ OfRound(s \o t, n) = Only(s \o t, R)
  BY <1>1 DEF OfRound
<1> HIDE DEF P, Q, R
<1>4. Only(s, P) = Only(s, R)
  BY <1>2, OnlyAgrees
<1>5. Only(t, Q) = Only(t, R)
  BY <1>2, OnlyAgrees
<1>6. Only(s \o t, R) = Only(s, R) \o Only(t, R)
  BY OnlyConcat
<1> QED
  BY <1>3, <1>4, <1>5, <1>6

LEMMA OfRoundLemma ==
  ASSUME NEW S, NEW s \in Seq(S), NEW n
  PROVE  OfRound(s, n) \in Seq(S) /\ ToSet(OfRound(s, n)) = {m \in ToSet(s) : m.fields.round = n}
<1> DEFINE P == {m \in ToSet(s) : m.fields.round = n}
<1>1. OfRound(s, n) = Only(s, P)
  BY DEF OfRound
<1>2. ToSet(s) \cap P = P
  OBVIOUS
<1> HIDE DEF P
<1>3. Only(s, P) \in Seq(S) /\ ToSet(Only(s, P)) = ToSet(s) \cap P
  BY OnlyLemma
<1>4. OfRound(s, n) \in Seq(S) /\ ToSet(OfRound(s, n)) = P
  BY <1>1, <1>2, <1>3
<1> QED
  BY <1>4 DEF P

(* A round is folded from the texts about it. *)
IsFoldedByRounds(u) ==
  /\ FoldRounds(u) = [k \in DOMAIN FoldRounds(u) |-> FoldRounds(u)[k]]
  /\ \A k \in DOMAIN FoldRounds(u) : k \in Rounds
  /\ \A k \in Rounds : /\ k \in DOMAIN FoldRounds(u) <=> OfRound(u, k) # <<>>
                       /\ RoundOf(u, k) = RoundOf(OfRound(u, k), k)

LEMMA RoundsAreFoldedApart ==
  ASSUME NEW u \in Seq(Texts)
  PROVE  IsFoldedByRounds(u)
<1> DEFINE T == {s \in Seq(Texts) : IsFoldedByRounds(s)}
<1>1. <<>> \in T
  <2>1. PICK e \in Seq(Texts) : e = <<>>
    BY EmptySeq
  <2>2. DOMAIN <<>> = {}
    OBVIOUS
  <2>3. FoldRounds(e) = e /\ DOMAIN e = {} /\ \A k \in Rounds : OfRound(e, k) = e
    BY <2>1, <2>2, FoldEmpty, OfRoundEmpty
  <2>4. e = [k \in {} |-> e[k]]
    BY <2>1
  <2>5. IsFoldedByRounds(e)
    BY <2>1, <2>3, <2>4 DEF IsFoldedByRounds
  <2> QED
    BY <2>1, <2>5
<1>2. ASSUME NEW s \in Seq(Texts), NEW x \in Texts, s \in T PROVE Append(s, x) \in T
  <2>0. IsFoldedByRounds(s)
    BY <1>2
  <2>1. PICK w \in Seq(Texts) : w = Append(s, x)
    BY AppendLemma
  <2>2. PICK n \in Rounds : n = x.fields.round
    BY TextLemma
  <2>3. /\ DOMAIN FoldRounds(w) = DOMAIN FoldRounds(s) \cup {n}
        /\ FoldRounds(w) = [k \in DOMAIN FoldRounds(w) |-> FoldRounds(w)[k]]
        /\ \A k : RoundOf(w, k) = IF k = n THEN Take(RoundOf(s, k), x.verb, x.fields) ELSE RoundOf(s, k)
    <3>1. /\ DOMAIN FoldRounds(Append(s, x)) = DOMAIN FoldRounds(s) \cup {x.fields.round}
          /\ FoldRounds(Append(s, x)) = [k \in DOMAIN FoldRounds(Append(s, x)) |-> FoldRounds(Append(s, x))[k]]
          /\ \A k : RoundOf(Append(s, x), k) =
                      IF k = x.fields.round THEN Take(RoundOf(s, k), x.verb, x.fields) ELSE RoundOf(s, k)
      BY FoldOneMore
    <3> QED
      BY <2>1, <2>2, <3>1, Zenon
  <2>4. ASSUME NEW k \in Rounds
        PROVE  (k \in DOMAIN FoldRounds(w) <=> OfRound(w, k) # <<>>) /\ RoundOf(w, k) = RoundOf(OfRound(w, k), k)
    <3>1. PICK v \in Seq(Texts) : v = OfRound(s, k)
      BY OfRoundLemma
    <3>2. OfRound(w, k) = IF n = k THEN Append(v, x) ELSE v
      BY <2>1, <2>2, <3>1, OfRoundAppend
    <3>3. Append(v, x) # <<>>
      BY AppendIsNotEmpty
    <3>4. RoundOf(Append(v, x), k) = IF k = n THEN Take(RoundOf(v, k), x.verb, x.fields) ELSE RoundOf(v, k)
      <4>1. \A k1 : RoundOf(Append(v, x), k1) =
                      IF k1 = x.fields.round THEN Take(RoundOf(v, k1), x.verb, x.fields) ELSE RoundOf(v, k1)
        BY FoldOneMore
      <4> QED
        BY <2>2, <4>1
    <3>5. (k \in DOMAIN FoldRounds(s) <=> v # <<>>) /\ RoundOf(s, k) = RoundOf(v, k)
      BY <2>0, <3>1 DEF IsFoldedByRounds
    <3>6. CASE k = n
      BY <2>3, <3>2, <3>3, <3>4, <3>5, <3>6
    <3>7. CASE k # n
      BY <2>3, <3>2, <3>5, <3>7
    <3> QED
      BY <3>6, <3>7
  <2>5. \A k \in DOMAIN FoldRounds(w) : k \in Rounds
    BY <2>0, <2>3 DEF IsFoldedByRounds
  <2>6. IsFoldedByRounds(w)
    BY <2>3, <2>4, <2>5, Zenon DEF IsFoldedByRounds
  <2> QED
    BY <2>1, <2>6
<1>3. Seq(Texts) \subseteq T
  <2> HIDE DEF T
  <2> QED
    BY <1>1, <1>2, SequencesInduction
<1> QED
  BY <1>3

(* Texts that say the same of every round are folded into the same. *)
LEMMA SameRoundsSameFold ==
  ASSUME NEW u \in Seq(Texts), NEW v \in Seq(Texts), \A n \in Rounds : OfRound(u, n) = OfRound(v, n)
  PROVE  FoldRounds(u) = FoldRounds(v)
<1>1. PICK f : f = FoldRounds(u)
  OBVIOUS
<1>2. PICK g : g = FoldRounds(v)
  OBVIOUS
<1>3. IsFoldedByRounds(u) /\ IsFoldedByRounds(v)
  BY RoundsAreFoldedApart
<1>4. f = [k \in DOMAIN f |-> f[k]] /\ g = [k \in DOMAIN g |-> g[k]]
  BY <1>1, <1>2, <1>3, Zenon DEF IsFoldedByRounds
<1>5. DOMAIN f = DOMAIN g /\ DOMAIN f \subseteq Rounds
  BY <1>1, <1>2, <1>3 DEF IsFoldedByRounds
<1>6. \A k \in DOMAIN f : f[k] = g[k]
  <2>1. TAKE k \in DOMAIN f
  <2>2. RoundOf(u, k) = RoundOf(v, k)
    BY <1>3, <1>5 DEF IsFoldedByRounds
  <2>3. RoundOf(u, k) = f[k] /\ RoundOf(v, k) = g[k]
    BY <1>1, <1>2, <1>5 DEF RoundOf
  <2> QED
    BY <2>2, <2>3
<1>7. f = g
  BY <1>4, <1>5, <1>6
<1> QED
  BY <1>1, <1>2, <1>7

-----------------------------------------------------------------------------
(* One message taken into a round. *)

AboutRound(n) == {t \in Texts : t.fields.round = n}

PaymentVerbs == {"PAYMENT_REQUIRED", "PAYMENT_PROOF", "PAYMENT_CONFIRMED"}

LEMMA ReferencesAreOfThreads ==
  ASSUME NEW l \in 1..Lives, NEW n \in Rounds, NEW p \in Payments(l, n)
  PROVE  /\ p.reference \in Refs /\ p.reference # None
         /\ p.reference[2] = l
         /\ (p.reference = Order(l, n) /\ p.rail \in Rails) \/ (p.reference = Upstream(l, n) /\ p.rail = "x402")
<1>1. Order(l, n) \in Refs /\ Upstream(l, n) \in Refs
  BY DEF Order, Upstream, Refs
<1>2. None \notin Refs
  BY FoldAssumption DEF FoldAssumption
<1>3. (p.reference = Order(l, n) /\ p.rail \in Rails) \/ (p.reference = Upstream(l, n) /\ p.rail = "x402")
  BY DEF Payments, Orders, Purchases
<1>4. Order(l, n)[2] = l /\ Upstream(l, n)[2] = l
  BY DEF Order, Upstream
<1> QED
  BY <1>1, <1>2, <1>3, <1>4

(* The fields of each kind of message. *)
LEMMA FieldsLemma ==
  ASSUME NEW t \in Texts
  PROVE  /\ t.verb = "WANT" => t.fields.service = "edge"
         /\ t.verb = "BID" => t.fields.by \in Sellers /\ t.fields.price = 1
         /\ t.verb = "AWARD" => t.fields.to \in Sellers
         /\ t.verb = "VERIFIED" => t.fields.verdict \in {"pass", "fail"}
         /\ t.verb = "PAYMENT_PROOF" =>
              /\ Has(t.fields, "buyer") /\ t.fields.buyer \in {"wallet", "seller"} /\ t.fields.proof \in {"signed", "tx"}
              /\ t.fields.reference = Upstream(t.thread, t.fields.round) => t.fields.proof = "tx"
         /\ t.verb = "PAYMENT_CONFIRMED" =>
              /\ t.fields.paid \in BOOLEAN /\ (t.fields.paid => Has(t.fields, "sig"))
              /\ t.fields.reference = Upstream(t.thread, t.fields.round) => t.fields.paid = TRUE
         /\ t.verb \in PaymentVerbs =>
              /\ t.fields.reference \in Refs /\ t.fields.reference # None /\ t.fields.reference[2] = t.thread
              /\ \/ t.fields.reference = Order(t.thread, t.fields.round) /\ t.fields.rail \in Rails
                 \/ t.fields.reference = Upstream(t.thread, t.fields.round) /\ t.fields.rail = "x402"
<1>1. PICK l \in 1..Lives, n \in Rounds : l = t.thread /\ n = t.fields.round
  BY TextLemma
<1>2. PICK f : f = t.fields
  OBVIOUS
<1>3. f \in FieldsOf(l, n, t.verb) /\ t.verb \in Verbs
  BY <1>1, <1>2, TextLemma
<1>4. \A p \in Orders(l, n) : p \in Payments(l, n) /\ p.proof = "signed" /\ p.buyer = "wallet" /\ p.reference = Order(l, n)
  BY DEF Payments, Orders
<1>5. \A p \in Payments(l, n) :
        /\ p.buyer \in {"wallet", "seller"} /\ p.proof \in {"signed", "tx"}
        /\ p \in Orders(l, n) \/ p.proof = "tx"
  BY DEF Payments, Orders, Purchases
<1>6. Order(l, n) # Upstream(l, n)
  BY DEF Order, Upstream
<1>7. CASE t.verb \notin PaymentVerbs
  <2>1. t.verb = "WANT" => f.service = "edge"
    BY <1>3 DEF FieldsOf
  <2>2. t.verb = "BID" => f.by \in Sellers /\ f.price = 1
    BY <1>3 DEF FieldsOf
  <2>3. t.verb = "AWARD" => f.to \in Sellers
    BY <1>3 DEF FieldsOf
  <2>4. t.verb = "VERIFIED" => f.verdict \in {"pass", "fail"}
    BY <1>3 DEF FieldsOf
  <2> QED
    BY <1>2, <1>7, <2>1, <2>2, <2>3, <2>4 DEF PaymentVerbs
<1>8. CASE t.verb = "PAYMENT_REQUIRED"
  <2>1. PICK p \in Payments(l, n) :
          f = [round |-> n, rail |-> p.rail, amount |-> 1, currency |-> "SOL", reference |-> p.reference]
    BY <1>3, <1>8 DEF FieldsOf
  <2>2. f.rail = p.rail /\ f.reference = p.reference
    BY <2>1
  <2> QED
    BY <1>1, <1>2, <1>8, <2>2, ReferencesAreOfThreads
<1>9. CASE t.verb = "PAYMENT_PROOF"
  <2>1. PICK p \in Payments(l, n) :
          f = [round |-> n, rail |-> p.rail, reference |-> p.reference, proof |-> p.proof, buyer |-> p.buyer]
    BY <1>3, <1>9 DEF FieldsOf
  <2>2. f.rail = p.rail /\ f.reference = p.reference /\ f.proof = p.proof /\ f.buyer = p.buyer /\ Has(f, "buyer")
    BY <2>1 DEF Has
  <2>3. /\ p.reference \in Refs /\ p.reference # None /\ p.reference[2] = l
        /\ (p.reference = Order(l, n) /\ p.rail \in Rails) \/ (p.reference = Upstream(l, n) /\ p.rail = "x402")
    BY ReferencesAreOfThreads
  <2> QED
    BY <1>1, <1>2, <1>4, <1>5, <1>6, <1>9, <2>2, <2>3
<1>10. CASE t.verb = "PAYMENT_CONFIRMED"
  <2>1. \/ \E p \in Payments(l, n) : f = [round |-> n, rail |-> p.rail, reference |-> p.reference, paid |-> TRUE, sig |-> "tx"]
        \/ \E p \in Orders(l, n) : f = [round |-> n, rail |-> p.rail, reference |-> p.reference, paid |-> FALSE]
    BY <1>3, <1>10 DEF FieldsOf
  <2>2. \E p \in Payments(l, n) :
          /\ f.rail = p.rail /\ f.reference = p.reference
          /\ (f.paid = TRUE /\ Has(f, "sig")) \/ (f.paid = FALSE /\ p.reference = Order(l, n))
    <3>1. CASE \E p \in Payments(l, n) : f = [round |-> n, rail |-> p.rail, reference |-> p.reference, paid |-> TRUE, sig |-> "tx"]
      <4>1. PICK p \in Payments(l, n) : f = [round |-> n, rail |-> p.rail, reference |-> p.reference, paid |-> TRUE, sig |-> "tx"]
        BY <3>1
      <4>2. f.rail = p.rail /\ f.reference = p.reference /\ f.paid = TRUE /\ Has(f, "sig")
        BY <4>1 DEF Has
      <4> QED
        BY <4>2
    <3>2. CASE \E p \in Orders(l, n) : f = [round |-> n, rail |-> p.rail, reference |-> p.reference, paid |-> FALSE]
      <4>1. PICK p \in Orders(l, n) : f = [round |-> n, rail |-> p.rail, reference |-> p.reference, paid |-> FALSE]
        BY <3>2
      <4>2. f.rail = p.rail /\ f.reference = p.reference /\ f.paid = FALSE
        BY <4>1
      <4> QED
        BY <1>4, <4>2
    <3> QED
      BY <2>1, <3>1, <3>2
  <2>3. PICK p \in Payments(l, n) :
          /\ f.rail = p.rail /\ f.reference = p.reference
          /\ (f.paid = TRUE /\ Has(f, "sig")) \/ (f.paid = FALSE /\ p.reference = Order(l, n))
    BY <2>2
  <2>4. /\ p.reference \in Refs /\ p.reference # None /\ p.reference[2] = l
        /\ (p.reference = Order(l, n) /\ p.rail \in Rails) \/ (p.reference = Upstream(l, n) /\ p.rail = "x402")
    BY ReferencesAreOfThreads
  <2> QED
    BY <1>1, <1>2, <1>6, <1>10, <2>3, <2>4
<1> QED
  BY <1>7, <1>8, <1>9, <1>10 DEF PaymentVerbs

Keys == (Rails \cup {"x402"}) \X Refs

Legs == [paid : {None, TRUE, FALSE}, proof : {None, "signed", "tx"}]

Bids == [by : Sellers, price : {1}]

Receipt == [key : Keys, paid : BOOLEAN, proof : {None, "signed", "tx"}]

RoundType ==
  [want : {None, "edge"}, bids : Seq(Bids), award : {None} \cup Sellers,
   payment : {None} \cup [reference : Refs, buyer : {None, "wallet", "seller"}], paid : BOOLEAN, delivered : BOOLEAN,
   verdict : {None, "pass", "fail"}, legs : UNION {[K -> Legs] : K \in SUBSET Keys}, receipts : Seq(Receipt),
   status : {"bidding", "awarded", "paid", "delivered", "refunded", "settled"}]

(* The reference of a round's payment, and where a message's payment is kept. *)
PaidFor(r) == IF r.payment = None THEN None ELSE r.payment.reference

KeyOf(m) == <<m.rail, m.reference>>

LEMMA PaymentLemma ==
  ASSUME NEW r \in RoundType
  PROVE  /\ PaidFor(r) = None <=> r.payment = None
         /\ \A m : m.reference \in Refs => (IsPrimary(r, m) <=> PaidFor(r) = m.reference)
<1>1. None \notin Refs /\ None \notin [reference : Refs, buyer : {None, "wallet", "seller"}]
  BY FoldAssumption DEF FoldAssumption
<1>2. r.payment = None \/ r.payment \in [reference : Refs, buyer : {None, "wallet", "seller"}]
  BY DEF RoundType
<1> QED
  BY <1>1, <1>2 DEF PaidFor, IsPrimary

LEMMA LegLemma ==
  ASSUME NEW r \in RoundType, NEW m, KeyOf(m) \in Keys
  PROVE  /\ Leg(r, m) \in Legs
         /\ Leg(r, m) = IF KeyOf(m) \in DOMAIN r.legs THEN r.legs[KeyOf(m)] ELSE [paid |-> None, proof |-> None]
<1>1. \E K \in SUBSET Keys : r.legs \in [K -> Legs]
  <2>1. r.legs \in UNION {[K -> Legs] : K \in SUBSET Keys}
    BY DEF RoundType
  <2> QED
    BY <2>1, Zenon
<1>2. [paid |-> None, proof |-> None] \in Legs
  BY DEF Legs
<1>3. Leg(r, m) = IF KeyOf(m) \in DOMAIN r.legs THEN r.legs[KeyOf(m)] ELSE [paid |-> None, proof |-> None]
  BY DEF Leg, Has, KeyOf
<1> QED
  BY <1>1, <1>2, <1>3

LEMMA SetLegLemma ==
  ASSUME NEW r \in RoundType, NEW m, KeyOf(m) \in Keys, NEW leg \in Legs
  PROVE  /\ SetLeg(r, m, leg) \in UNION {[K -> Legs] : K \in SUBSET Keys}
         /\ DOMAIN SetLeg(r, m, leg) = DOMAIN r.legs \cup {KeyOf(m)}
         /\ SetLeg(r, m, leg)[KeyOf(m)] = leg
         /\ \A k \in DOMAIN r.legs : k # KeyOf(m) => SetLeg(r, m, leg)[k] = r.legs[k]
<1>1. PICK K \in SUBSET Keys : r.legs \in [K -> Legs]
  <2>1. r.legs \in UNION {[K -> Legs] : K \in SUBSET Keys}
    BY DEF RoundType
  <2> QED
    BY <2>1, Zenon
<1>2. PICK k : k = KeyOf(m)
  OBVIOUS
<1>3. PICK g : g = SetLeg(r, m, leg)
  OBVIOUS
<1>4. g = [x \in {k} \cup K |-> IF x = k THEN leg ELSE r.legs[x]]
  BY <1>1, <1>2, <1>3 DEF SetLeg, Put, KeyOf
<1>5. ({k} \cup K) \in SUBSET Keys /\ g \in [({k} \cup K) -> Legs]
  BY <1>1, <1>2, <1>4
<1>6. g \in UNION {[J -> Legs] : J \in SUBSET Keys}
  <2>1. PICK J \in SUBSET Keys : g \in [J -> Legs]
    BY <1>5
  <2> QED
    BY <2>1, Zenon
<1> QED
  BY <1>1, <1>2, <1>3, <1>4, <1>6

LEMMA ReceiptsLemma ==
  ASSUME NEW r \in RoundType, NEW m, KeyOf(m) \in Keys, NEW leg \in Legs
  PROVE  Receipts(r, m, leg) \in Seq(Receipt)
<1>1. r.receipts \in Seq(Receipt)
  BY DEF RoundType
<1>2. PICK rs \in Seq(Receipt), n \in Nat : rs = r.receipts /\ n = Len(rs)
  BY <1>1, LenProperties
<1>3. DOMAIN rs = 1..n /\ \A i \in 1..n : rs[i] \in Receipt
  BY <1>2, LenProperties, ElementOfSeq
<1> DEFINE key     == KeyOf(m)
           receipt == [key |-> key, paid |-> leg.paid, proof |-> leg.proof]
           known   == {i \in DOMAIN rs : rs[i].key = key}
           changed == [i \in DOMAIN rs |-> IF i \in known THEN receipt ELSE rs[i]]
<1>4. Receipts(r, m, leg) = IF leg.paid = None THEN rs ELSE IF known # {} THEN changed ELSE Append(rs, receipt)
  BY <1>2 DEF Receipts, KeyOf
<1>5. CASE leg.paid = None
  BY <1>4, <1>5
<1>6. CASE leg.paid # None
  <2>1. receipt \in Receipt
    BY <1>6 DEF Receipt, Legs
  <2>2. Append(rs, receipt) \in Seq(Receipt)
    <3> HIDE DEF receipt
    <3> QED
      BY <2>1, AppendLemma
  <2>3. changed \in Seq(Receipt)
    <3>1. changed \in [1..n -> Receipt]
      <4> HIDE DEF receipt
      <4> QED
        BY <1>3, <2>1
    <3> HIDE DEF changed
    <3> QED
      BY <3>1
  <2> QED
    BY <1>4, <1>6, <2>2, <2>3
<1> QED
  BY <1>5, <1>6

(* What a message changes of a round. *)
NewLeg(r, x) ==
  IF x.verb = "PAYMENT_PROOF" THEN [Leg(r, x.fields) EXCEPT !.proof = x.fields.proof]
  ELSE [Leg(r, x.fields) EXCEPT !.paid = x.fields.paid]

IsOfLeg(r, x) == x.verb \in {"PAYMENT_PROOF", "PAYMENT_CONFIRMED"} /\ PaidFor(r) # x.fields.reference

IsNewBid(r, x) == x.verb = "BID" /\ \A i \in DOMAIN r.bids : r.bids[i].by # x.fields.by

IsNewPayment(r, x) == PaidFor(r) = None /\ x.verb = "PAYMENT_REQUIRED" /\ x.fields.rail = "x402"

Pays(r, x) == x.verb = "PAYMENT_CONFIRMED" /\ PaidFor(r) = x.fields.reference /\ x.fields.paid

NextStatus(r, x) ==
  CASE x.verb = "SETTLED" -> "settled"
    [] x.verb = "REFUNDED" -> "refunded"
    [] x.verb = "DELIVERED" /\ r.status # "settled" -> "delivered"
    [] Pays(r, x) /\ r.status \in {"bidding", "awarded"} -> "paid"
    [] x.verb = "AWARD" /\ r.status = "bidding" -> "awarded"
    [] OTHER -> r.status

TakenBid(r, x, q) ==
  q.bids = IF IsNewBid(r, x) THEN Append(r.bids, [by |-> x.fields.by, price |-> x.fields.price]) ELSE r.bids

TakenFields(r, x, q) ==
  /\ q.want = IF x.verb = "WANT" THEN "edge" ELSE r.want
  /\ q.award = IF x.verb = "AWARD" THEN x.fields.to ELSE r.award
  /\ q.verdict = IF x.verb = "VERIFIED" THEN x.fields.verdict ELSE r.verdict
  /\ q.delivered <=> r.delivered \/ x.verb = "DELIVERED"

TakenPayment(r, x, q) ==
  /\ PaidFor(q) = IF IsNewPayment(r, x) THEN x.fields.reference ELSE PaidFor(r)
  /\ q.paid <=> r.paid \/ Pays(r, x)
  /\ q.status = NextStatus(r, x)

TakenLeg(r, x, q) ==
  IF IsOfLeg(r, x)
  THEN q.legs = SetLeg(r, x.fields, NewLeg(r, x)) /\ q.receipts = Receipts(r, x.fields, NewLeg(r, x))
  ELSE /\ q.receipts = r.receipts
       /\ q.legs = r.legs \/ (x.verb = "PAYMENT_REQUIRED" /\ q.legs = SetLeg(r, x.fields, Leg(r, x.fields)))

IsTaken(r, x, q) == TakenBid(r, x, q) /\ TakenFields(r, x, q) /\ TakenPayment(r, x, q) /\ TakenLeg(r, x, q)

LEMMA TakeOther ==
  ASSUME NEW r \in RoundType, NEW x \in Texts, x.verb \in {"WANT", "AWARD", "VERIFIED", "SETTLED", "REFUNDED", "DELIVERED"}
  PROVE  Take(r, x.verb, x.fields) \in RoundType /\ IsTaken(r, x, Take(r, x.verb, x.fields))
<1> DEFINE q == Take(r, x.verb, x.fields)
<1>0. PaidFor(q) = IF q.payment = None THEN None ELSE q.payment.reference
  BY DEF PaidFor
<1>00. PaidFor(r) = IF r.payment = None THEN None ELSE r.payment.reference
  BY DEF PaidFor
<1>1. CASE x.verb = "WANT"
  <2>1. q = [r EXCEPT !.want = "edge"]
    BY <1>1, FieldsLemma DEF Take
  <2> HIDE DEF q
  <2>2. q \in RoundType
    BY <2>1 DEF RoundType
  <2>3. TakenBid(r, x, q) /\ TakenLeg(r, x, q)
    BY <1>1, <2>1 DEF TakenBid, IsNewBid, TakenLeg, IsOfLeg, RoundType
  <2>4. TakenFields(r, x, q)
    BY <1>1, <2>1 DEF TakenFields, RoundType
  <2>5. TakenPayment(r, x, q)
    BY <1>0, <1>00, <1>1, <2>1 DEF TakenPayment, IsNewPayment, Pays, NextStatus, RoundType
  <2> QED
    BY <2>2, <2>3, <2>4, <2>5 DEF IsTaken, q
<1>2. CASE x.verb = "AWARD"
  <2>1. q = [r EXCEPT !.award = x.fields.to, !.status = IF @ = "bidding" THEN "awarded" ELSE @]
    BY <1>2 DEF Take, TakeAward
  <2> HIDE DEF q
  <2>2. q \in RoundType
    <3>1. x.fields.to \in Sellers
      BY <1>2, FieldsLemma
    <3> QED
      BY <2>1, <3>1 DEF RoundType
  <2>3. TakenBid(r, x, q) /\ TakenLeg(r, x, q)
    BY <1>2, <2>1 DEF TakenBid, IsNewBid, TakenLeg, IsOfLeg, RoundType
  <2>4. TakenFields(r, x, q)
    BY <1>2, <2>1 DEF TakenFields, RoundType
  <2>5. TakenPayment(r, x, q)
    BY <1>0, <1>00, <1>2, <2>1 DEF TakenPayment, IsNewPayment, Pays, NextStatus, RoundType
  <2> QED
    BY <2>2, <2>3, <2>4, <2>5 DEF IsTaken, q
<1>3. CASE x.verb = "VERIFIED"
  <2>1. q = [r EXCEPT !.verdict = x.fields.verdict]
    BY <1>3 DEF Take
  <2> HIDE DEF q
  <2>2. q \in RoundType
    BY <1>3, <2>1, FieldsLemma DEF RoundType
  <2>3. TakenBid(r, x, q) /\ TakenLeg(r, x, q)
    BY <1>3, <2>1 DEF TakenBid, IsNewBid, TakenLeg, IsOfLeg, RoundType
  <2>4. TakenFields(r, x, q)
    BY <1>3, <2>1 DEF TakenFields, RoundType
  <2>5. TakenPayment(r, x, q)
    BY <1>0, <1>00, <1>3, <2>1 DEF TakenPayment, IsNewPayment, Pays, NextStatus, RoundType
  <2> QED
    BY <2>2, <2>3, <2>4, <2>5 DEF IsTaken, q
<1>4. CASE x.verb = "SETTLED"
  <2>1. q = [r EXCEPT !.status = "settled"]
    BY <1>4 DEF Take
  <2> HIDE DEF q
  <2>2. q \in RoundType
    BY <2>1 DEF RoundType
  <2>3. TakenBid(r, x, q) /\ TakenLeg(r, x, q)
    BY <1>4, <2>1 DEF TakenBid, IsNewBid, TakenLeg, IsOfLeg, RoundType
  <2>4. TakenFields(r, x, q)
    BY <1>4, <2>1 DEF TakenFields, RoundType
  <2>5. TakenPayment(r, x, q)
    BY <1>0, <1>00, <1>4, <2>1 DEF TakenPayment, IsNewPayment, Pays, NextStatus, RoundType
  <2> QED
    BY <2>2, <2>3, <2>4, <2>5 DEF IsTaken, q
<1>5. CASE x.verb = "REFUNDED"
  <2>1. q = [r EXCEPT !.status = "refunded"]
    BY <1>5 DEF Take
  <2> HIDE DEF q
  <2>2. q \in RoundType
    BY <2>1 DEF RoundType
  <2>3. TakenBid(r, x, q) /\ TakenLeg(r, x, q)
    BY <1>5, <2>1 DEF TakenBid, IsNewBid, TakenLeg, IsOfLeg, RoundType
  <2>4. TakenFields(r, x, q)
    BY <1>5, <2>1 DEF TakenFields, RoundType
  <2>5. TakenPayment(r, x, q)
    BY <1>0, <1>00, <1>5, <2>1 DEF TakenPayment, IsNewPayment, Pays, NextStatus, RoundType
  <2> QED
    BY <2>2, <2>3, <2>4, <2>5 DEF IsTaken, q
<1>6. CASE x.verb = "DELIVERED"
  <2>1. q = [r EXCEPT !.delivered = TRUE, !.status = IF @ # "settled" THEN "delivered" ELSE @]
    BY <1>6 DEF Take, TakeDelivered
  <2> HIDE DEF q
  <2>2. q \in RoundType
    BY <2>1 DEF RoundType
  <2>3. TakenBid(r, x, q) /\ TakenLeg(r, x, q)
    BY <1>6, <2>1 DEF TakenBid, IsNewBid, TakenLeg, IsOfLeg, RoundType
  <2>4. TakenFields(r, x, q)
    BY <1>6, <2>1 DEF TakenFields, RoundType
  <2>5. TakenPayment(r, x, q)
    BY <1>0, <1>00, <1>6, <2>1 DEF TakenPayment, IsNewPayment, Pays, NextStatus, RoundType
  <2> QED
    BY <2>2, <2>3, <2>4, <2>5 DEF IsTaken, q
<1> QED
  BY <1>1, <1>2, <1>3, <1>4, <1>5, <1>6

LEMMA TakeABid ==
  ASSUME NEW r \in RoundType, NEW x \in Texts, x.verb = "BID"
  PROVE  Take(r, x.verb, x.fields) \in RoundType /\ IsTaken(r, x, Take(r, x.verb, x.fields))
<1> DEFINE q == Take(r, x.verb, x.fields)
<1>0. PaidFor(q) = IF q.payment = None THEN None ELSE q.payment.reference
  BY DEF PaidFor
<1>00. PaidFor(r) = IF r.payment = None THEN None ELSE r.payment.reference
  BY DEF PaidFor
<1>1. PICK bid \in Bids : bid = [by |-> x.fields.by, price |-> x.fields.price]
  BY FieldsLemma DEF Bids
<1>2. PICK bids \in Seq(Bids) : bids = IF IsNewBid(r, x) THEN Append(r.bids, bid) ELSE r.bids
  <2>1. r.bids \in Seq(Bids)
    BY DEF RoundType
  <2>2. Append(r.bids, bid) \in Seq(Bids)
    BY <2>1, AppendLemma
  <2> QED
    BY <2>1, <2>2
<1>3. q = IF IsNewBid(r, x) THEN [r EXCEPT !.bids = bids] ELSE r
  BY <1>1, <1>2 DEF Take, TakeBid, IsNewBid
<1> HIDE DEF q
<1>4. q \in RoundType
  BY <1>3 DEF RoundType
<1>5. TakenBid(r, x, q)
  BY <1>1, <1>2, <1>3 DEF TakenBid, RoundType
<1>6. TakenLeg(r, x, q)
  BY <1>3 DEF TakenLeg, IsOfLeg, RoundType
<1>7. TakenFields(r, x, q)
  BY <1>3 DEF TakenFields, RoundType
<1>8. TakenPayment(r, x, q)
  BY <1>0, <1>00, <1>3 DEF TakenPayment, IsNewPayment, Pays, NextStatus, RoundType
<1> QED
  BY <1>4, <1>5, <1>6, <1>7, <1>8 DEF IsTaken, q

LEMMA KeyLemma ==
  ASSUME NEW x \in Texts, x.verb \in PaymentVerbs
  PROVE  KeyOf(x.fields) \in Keys /\ x.fields.reference \in Refs /\ x.fields.reference # None
  BY FieldsLemma DEF KeyOf, Keys

LEMMA NewLegLemma ==
  ASSUME NEW r \in RoundType, NEW x \in Texts, x.verb \in {"PAYMENT_PROOF", "PAYMENT_CONFIRMED"}
  PROVE  /\ NewLeg(r, x) \in Legs
         /\ x.verb = "PAYMENT_PROOF" => NewLeg(r, x) = [paid |-> Leg(r, x.fields).paid, proof |-> x.fields.proof]
         /\ x.verb = "PAYMENT_CONFIRMED" => NewLeg(r, x) = [paid |-> x.fields.paid, proof |-> Leg(r, x.fields).proof]
<1>1. PICK leg \in Legs : leg = Leg(r, x.fields)
  BY LegLemma, KeyLemma DEF PaymentVerbs
<1>2. x.verb = "PAYMENT_PROOF" => NewLeg(r, x) = [leg EXCEPT !.proof = x.fields.proof] /\ x.fields.proof \in {"signed", "tx"}
  BY <1>1, FieldsLemma DEF NewLeg
<1>3. x.verb = "PAYMENT_CONFIRMED" => NewLeg(r, x) = [leg EXCEPT !.paid = x.fields.paid] /\ x.fields.paid \in BOOLEAN
  BY <1>1, FieldsLemma DEF NewLeg
<1>4. CASE x.verb = "PAYMENT_PROOF"
  BY <1>1, <1>2, <1>4 DEF Legs
<1>5. CASE x.verb = "PAYMENT_CONFIRMED"
  <2>1. x.fields.paid = TRUE \/ x.fields.paid = FALSE
    BY <1>3, <1>5
  <2> QED
    BY <1>1, <1>3, <1>5, <2>1 DEF Legs
<1> QED
  BY <1>4, <1>5

LEMMA TakeTerms ==
  ASSUME NEW r \in RoundType, NEW x \in Texts, x.verb = "PAYMENT_REQUIRED"
  PROVE  Take(r, x.verb, x.fields) \in RoundType /\ IsTaken(r, x, Take(r, x.verb, x.fields))
<1> DEFINE q == Take(r, x.verb, x.fields)
           new == [reference |-> x.fields.reference, buyer |-> None]
<1>1. KeyOf(x.fields) \in Keys /\ x.fields.reference \in Refs /\ x.fields.reference # None
  BY KeyLemma DEF PaymentVerbs
<1>2. IsNewPayment(r, x) <=> r.payment = None /\ x.fields.rail = "x402"
  BY PaymentLemma DEF IsNewPayment
<1>3. PICK legs \in UNION {[K -> Legs] : K \in SUBSET Keys} : legs = SetLeg(r, x.fields, Leg(r, x.fields))
  <2>1. Leg(r, x.fields) \in Legs
    BY <1>1, LegLemma
  <2> QED
    BY <1>1, <2>1, SetLegLemma
<1>4. q = IF IsNewPayment(r, x) THEN [r EXCEPT !.payment = new] ELSE [r EXCEPT !.legs = legs]
  BY <1>2, <1>3 DEF Take, TakeRequired
<1>5. new \in [reference : Refs, buyer : {None, "wallet", "seller"}] /\ new # None /\ new.reference = x.fields.reference
  BY <1>1, FoldAssumption DEF FoldAssumption
<1>6. PaidFor(q) = IF q.payment = None THEN None ELSE q.payment.reference
  BY DEF PaidFor
<1>7. PaidFor(r) = IF r.payment = None THEN None ELSE r.payment.reference
  BY DEF PaidFor
<1> HIDE DEF q, new
<1>8. CASE IsNewPayment(r, x)
  <2>1. q = [r EXCEPT !.payment = new]
    BY <1>4, <1>8
  <2>2. q \in RoundType
    BY <1>5, <2>1 DEF RoundType
  <2>3. TakenBid(r, x, q) /\ TakenLeg(r, x, q) /\ TakenFields(r, x, q)
    BY <2>1 DEF TakenBid, IsNewBid, TakenLeg, IsOfLeg, TakenFields, RoundType
  <2>4. TakenPayment(r, x, q)
    BY <1>5, <1>6, <1>8, <2>1 DEF TakenPayment, Pays, NextStatus, RoundType
  <2> QED
    BY <2>2, <2>3, <2>4 DEF IsTaken, q
<1>9. CASE ~IsNewPayment(r, x)
  <2>1. q = [r EXCEPT !.legs = legs]
    BY <1>4, <1>9
  <2>2. q \in RoundType
    BY <2>1 DEF RoundType
  <2>3. TakenBid(r, x, q) /\ TakenFields(r, x, q)
    BY <2>1 DEF TakenBid, IsNewBid, TakenFields, RoundType
  <2>4. TakenLeg(r, x, q)
    BY <1>3, <2>1 DEF TakenLeg, IsOfLeg, RoundType
  <2>5. TakenPayment(r, x, q)
    BY <1>6, <1>7, <1>9, <2>1 DEF TakenPayment, Pays, NextStatus, RoundType
  <2> QED
    BY <2>2, <2>3, <2>4, <2>5 DEF IsTaken, q
<1> QED
  BY <1>8, <1>9

(* A message about a payment that is not the round's own. *)
LEMMA TakeALeg ==
  ASSUME NEW r \in RoundType, NEW x \in Texts, IsOfLeg(r, x)
  PROVE  Take(r, x.verb, x.fields) \in RoundType /\ IsTaken(r, x, Take(r, x.verb, x.fields))
<1> DEFINE q == Take(r, x.verb, x.fields)
<1>0. x.verb \in {"PAYMENT_PROOF", "PAYMENT_CONFIRMED"}
  BY DEF IsOfLeg
<1>1. KeyOf(x.fields) \in Keys /\ x.fields.reference \in Refs /\ x.fields.reference # None
  BY <1>0, KeyLemma DEF PaymentVerbs
<1>2. ~IsPrimary(r, x.fields)
  BY <1>1, PaymentLemma DEF IsOfLeg
<1>3. NewLeg(r, x) \in Legs
  BY <1>0, NewLegLemma
<1>4. PICK legs \in UNION {[K -> Legs] : K \in SUBSET Keys} : legs = SetLeg(r, x.fields, NewLeg(r, x))
  BY <1>1, <1>3, SetLegLemma
<1>5. PICK receipts \in Seq(Receipt) : receipts = Receipts(r, x.fields, NewLeg(r, x))
  BY <1>1, <1>3, ReceiptsLemma
<1>6. q = [r EXCEPT !.legs = legs, !.receipts = receipts]
  <2>1. q = WithLeg(r, x.fields, NewLeg(r, x))
    BY <1>0, <1>2 DEF Take, TakeProof, TakeConfirmed, NewLeg
  <2> QED
    BY <1>4, <1>5, <2>1 DEF WithLeg
<1>7. PaidFor(q) = IF q.payment = None THEN None ELSE q.payment.reference
  BY DEF PaidFor
<1>8. PaidFor(r) = IF r.payment = None THEN None ELSE r.payment.reference
  BY DEF PaidFor
<1> HIDE DEF q
<1>9. q \in RoundType
  BY <1>6 DEF RoundType
<1>10. TakenBid(r, x, q) /\ TakenFields(r, x, q)
  BY <1>0, <1>6 DEF TakenBid, IsNewBid, TakenFields, RoundType
<1>11. TakenLeg(r, x, q)
  BY <1>4, <1>5, <1>6 DEF TakenLeg, RoundType
<1>12. TakenPayment(r, x, q)
  BY <1>0, <1>6, <1>7, <1>8 DEF TakenPayment, IsNewPayment, IsOfLeg, Pays, NextStatus, RoundType
<1> QED
  BY <1>9, <1>10, <1>11, <1>12 DEF IsTaken, q

LEMMA TakeThePayment ==
  ASSUME NEW r \in RoundType, NEW x \in Texts, x.verb \in {"PAYMENT_PROOF", "PAYMENT_CONFIRMED"}, ~IsOfLeg(r, x)
  PROVE  Take(r, x.verb, x.fields) \in RoundType /\ IsTaken(r, x, Take(r, x.verb, x.fields))
<1> DEFINE q == Take(r, x.verb, x.fields)
<1>1. x.fields.reference \in Refs /\ x.fields.reference # None /\ PaidFor(r) = x.fields.reference
  BY KeyLemma DEF PaymentVerbs, IsOfLeg
<1>2. IsPrimary(r, x.fields) /\ r.payment # None
  BY <1>1, PaymentLemma
<1>3. r.payment \in [reference : Refs, buyer : {None, "wallet", "seller"}]
  BY <1>2 DEF RoundType
<1>4. PaidFor(q) = IF q.payment = None THEN None ELSE q.payment.reference
  BY DEF PaidFor
<1>5. PaidFor(r) = IF r.payment = None THEN None ELSE r.payment.reference
  BY DEF PaidFor
<1>6. CASE x.verb = "PAYMENT_PROOF"
  <2>1. PICK payment \in [reference : Refs, buyer : {None, "wallet", "seller"}] :
          payment = [r.payment EXCEPT !.buyer = x.fields.buyer] /\ payment.reference = r.payment.reference /\ payment # None
    <3>1. x.fields.buyer \in {"wallet", "seller"}
      BY <1>6, FieldsLemma
    <3>2. [r.payment EXCEPT !.buyer = x.fields.buyer] \in [reference : Refs, buyer : {None, "wallet", "seller"}]
      BY <1>3, <3>1
    <3>3. [r.payment EXCEPT !.buyer = x.fields.buyer].reference = r.payment.reference
      BY <1>3
    <3> QED
      BY <3>2, <3>3, FoldAssumption DEF FoldAssumption
  <2>2. q = [r EXCEPT !.payment = payment]
    <3>1. q = [r EXCEPT !.payment.buyer = x.fields.buyer]
      BY <1>2, <1>6, FieldsLemma DEF Take, TakeProof
    <3> QED
      BY <2>1, <3>1
  <2> HIDE DEF q
  <2>3. q \in RoundType
    BY <2>1, <2>2 DEF RoundType
  <2>4. TakenBid(r, x, q) /\ TakenFields(r, x, q) /\ TakenLeg(r, x, q)
    BY <1>6, <2>2 DEF TakenBid, IsNewBid, TakenFields, TakenLeg, RoundType
  <2>5. PaidFor(q) = PaidFor(r)
    BY <1>2, <1>4, <1>5, <2>1, <2>2 DEF RoundType
  <2>6. TakenPayment(r, x, q)
    BY <1>6, <2>2, <2>5 DEF TakenPayment, IsNewPayment, Pays, NextStatus, RoundType
  <2> QED
    BY <2>3, <2>4, <2>6 DEF IsTaken, q
<1>7. CASE x.verb = "PAYMENT_CONFIRMED"
  <2>1. x.fields.paid \in BOOLEAN /\ (x.fields.paid => Has(x.fields, "sig"))
    BY <1>7, FieldsLemma
  <2>2. Pays(r, x) <=> x.fields.paid
    BY <1>1, <1>7, <2>1 DEF Pays
  <2>3. q = IF Pays(r, x) THEN [r EXCEPT !.paid = TRUE, !.status = IF @ \in {"bidding", "awarded"} THEN "paid" ELSE @] ELSE r
    BY <1>2, <1>7, <2>1, <2>2 DEF Take, TakeConfirmed
  <2> HIDE DEF q
  <2>4. q \in RoundType
    BY <2>3 DEF RoundType
  <2>5. TakenBid(r, x, q) /\ TakenLeg(r, x, q)
    BY <1>7, <2>3 DEF TakenBid, IsNewBid, TakenLeg, RoundType
  <2>6. TakenFields(r, x, q)
    BY <1>7, <2>3 DEF TakenFields, RoundType
  <2>7. PaidFor(q) = PaidFor(r)
    BY <1>4, <1>5, <2>3 DEF RoundType
  <2>8. TakenPayment(r, x, q)
    <3>1. q.paid <=> r.paid \/ Pays(r, x)
      BY <2>3 DEF RoundType
    <3>2. q.status = NextStatus(r, x)
      BY <1>7, <2>3 DEF NextStatus, RoundType
    <3> QED
      BY <1>7, <2>7, <3>1, <3>2 DEF TakenPayment, IsNewPayment
  <2> QED
    BY <2>4, <2>5, <2>6, <2>8 DEF IsTaken, q
<1> QED
  BY <1>6, <1>7

LEMMA TakeLemma ==
  ASSUME NEW r \in RoundType, NEW x \in Texts
  PROVE  Take(r, x.verb, x.fields) \in RoundType /\ IsTaken(r, x, Take(r, x.verb, x.fields))
<1>1. x.verb \in Verbs
  BY TextLemma
<1> QED
  BY <1>1, TakeOther, TakeABid, TakeTerms, TakeALeg, TakeThePayment DEF Verbs

-----------------------------------------------------------------------------
(* What the messages of a round come to, with one more of them. *)

LEMMA LastOfLemma ==
  ASSUME NEW S, NEW s \in Seq(S), NEW V
  PROVE  /\ LastOf(s, V) \in 0..Len(s) /\ Len(s) \in Nat
         /\ LastOf(s, V) > 0 => LastOf(s, V) \in DOMAIN s /\ s[LastOf(s, V)].verb \in V
         /\ \A i \in DOMAIN s : s[i].verb \in V => i <= LastOf(s, V)
         /\ LastOf(s, V) = 0 <=> \A i \in DOMAIN s : s[i].verb \notin V
<1>1. PICK n \in Nat : n = Len(s) /\ DOMAIN s = 1..n
  BY LenProperties
<1>2. PICK at : at = {i \in DOMAIN s : s[i].verb \in V}
  OBVIOUS
<1>3. LastOf(s, V) = IF at = {} THEN 0 ELSE Max(at)
  BY <1>2 DEF LastOf
<1>4. at \subseteq 0..n /\ at \subseteq 1..n
  BY <1>1, <1>2
<1>5. CASE at = {}
  BY <1>1, <1>2, <1>3, <1>5
<1>6. CASE at # {}
  <2>1. Max(at) \in at /\ \A m \in at : Max(at) >= m
    BY <1>4, <1>6, GreatestIsThere
  <2>2. PICK k \in at : k = Max(at)
    BY <2>1
  <2>3. k \in 1..n /\ s[k].verb \in V /\ LastOf(s, V) = k /\ \A m \in at : k >= m
    BY <1>2, <1>3, <1>4, <1>6, <2>1, <2>2
  <2>4. \A i \in DOMAIN s : s[i].verb \in V => i <= k
    BY <1>1, <1>2, <2>3
  <2> QED
    BY <1>1, <2>3, <2>4
<1> QED
  BY <1>5, <1>6

LEMMA LastOfEmpty == \A V : LastOf(<<>>, V) = 0
  BY DEF LastOf

LEMMA LastOfAppend ==
  ASSUME NEW S, NEW s \in Seq(S), NEW x \in S, NEW V
  PROVE  LastOf(Append(s, x), V) = IF x.verb \in V THEN Len(s) + 1 ELSE LastOf(s, V)
<1>1. PICK n \in Nat : n = Len(s) /\ DOMAIN s = 1..n
  BY LenProperties
<1>2. PICK w \in Seq(S) : w = Append(s, x)
  BY AppendLemma
<1>3. DOMAIN w = 1..(n + 1) /\ (\A i \in 1..n : w[i] = s[i]) /\ w[n + 1] = x /\ Len(w) = n + 1
  BY <1>1, <1>2, AppendLemma
<1>4. CASE x.verb \in V
  <2>1. PICK k : k = LastOf(w, V)
    OBVIOUS
  <2>2. k \in 0..(n + 1) /\ \A i \in DOMAIN w : w[i].verb \in V => i <= k
    BY <1>3, <2>1, LastOfLemma
  <2>3. n + 1 \in DOMAIN w
    BY <1>3
  <2>4. n + 1 <= k
    BY <1>3, <1>4, <2>2, <2>3
  <2>5. k = n + 1
    BY <2>2, <2>4
  <2> QED
    BY <1>1, <1>2, <1>4, <2>1, <2>5
<1>5. CASE x.verb \notin V
  <2>1. {i \in DOMAIN w : w[i].verb \in V} = {i \in DOMAIN s : s[i].verb \in V}
    BY <1>1, <1>3, <1>5
  <2>2. LastOf(w, V) = LastOf(s, V)
    BY <2>1, Zenon DEF LastOf
  <2> QED
    BY <1>2, <1>5, <2>2
<1> QED
  BY <1>4, <1>5

LEMMA FirstTermsEmpty == FirstTerms(<<>>) = None
  BY DEF FirstTerms

LEMMA FirstTermsAppend ==
  ASSUME NEW s \in Seq(Texts), NEW x \in Texts
  PROVE  /\ FirstTerms(Append(s, x)) =
              IF FirstTerms(s) = None /\ x.verb = "PAYMENT_REQUIRED" /\ x.fields.rail = "x402" THEN x.fields.reference
              ELSE FirstTerms(s)
         /\ FirstTerms(s) # None => \E i \in DOMAIN s : /\ s[i].verb = "PAYMENT_REQUIRED" /\ s[i].fields.rail = "x402"
                                                        /\ s[i].fields.reference = FirstTerms(s)
<1>1. PICK n \in Nat : n = Len(s) /\ DOMAIN s = 1..n
  BY LenProperties
<1>2. PICK w \in Seq(Texts) : w = Append(s, x)
  BY AppendLemma
<1>3. DOMAIN w = 1..(n + 1) /\ (\A i \in 1..n : w[i] = s[i] /\ s[i] \in Texts) /\ w[n + 1] = x
  BY <1>1, <1>2, AppendLemma
<1> DEFINE Terms1(t) == t.verb = "PAYMENT_REQUIRED" /\ t.fields.rail = "x402"
<1>4. PICK at : at = {i \in 1..n : Terms1(s[i])}
  OBVIOUS
<1>5. PICK then : then = {i \in 1..(n + 1) : Terms1(w[i])}
  OBVIOUS
<1>6. FirstTerms(s) = IF at = {} THEN None ELSE s[Min(at)].fields.reference
  BY <1>1, <1>4 DEF FirstTerms
<1>7. FirstTerms(w) = IF then = {} THEN None ELSE w[Min(then)].fields.reference
  BY <1>3, <1>5 DEF FirstTerms
<1>8. then = IF Terms1(x) THEN at \cup {n + 1} ELSE at
  BY <1>3, <1>4, <1>5
<1>9. CASE at # {}
  <2>1. at \subseteq Nat /\ then \subseteq Nat /\ then # {}
    BY <1>4, <1>5, <1>8, <1>9
  <2>2. Min(at) \in at /\ (\A m \in at : Min(at) <= m) /\ Min(then) \in then /\ (\A m \in then : Min(then) <= m)
    BY <1>9, <2>1, LeastIsThere
  <2>3. PICK k \in at : k = Min(at)
    BY <2>2
  <2>4. PICK j \in then : j = Min(then)
    BY <2>2
  <2>5. k \in then /\ k \in 1..n /\ j <= k
    BY <1>4, <1>8, <2>2, <2>3, <2>4
  <2>6. j \in at
    BY <1>5, <1>8, <2>4, <2>5
  <2>7. k <= j
    BY <2>2, <2>3, <2>6
  <2>8. j = k
    BY <2>1, <2>5, <2>6, <2>7
  <2>9. s[k] \in Texts /\ w[k] = s[k] /\ Terms1(s[k])
    BY <1>3, <1>4, <2>5
  <2>10. s[k].fields.reference # None
    BY <2>9, FieldsLemma DEF PaymentVerbs
  <2>11. FirstTerms(w) = FirstTerms(s) /\ FirstTerms(s) # None /\ FirstTerms(s) = s[k].fields.reference
    BY <1>6, <1>7, <1>9, <2>1, <2>3, <2>4, <2>8, <2>9, <2>10
  <2> QED
    BY <1>1, <1>2, <2>5, <2>9, <2>11
<1>10. CASE at = {}
  <2>1. FirstTerms(s) = None
    BY <1>6, <1>10
  <2>2. CASE Terms1(x)
    <3>1. then = {n + 1}
      BY <1>8, <1>10, <2>2
    <3>2. then \subseteq Nat /\ then # {}
      BY <3>1
    <3>3. Min(then) \in then
      BY <3>2, LeastIsThere
    <3>4. Min(then) = n + 1
      BY <3>1, <3>3
    <3>5. FirstTerms(w) = x.fields.reference
      BY <1>3, <1>7, <3>2, <3>4
    <3> QED
      BY <1>2, <2>1, <2>2, <3>5
  <2>3. CASE ~Terms1(x)
    BY <1>2, <1>7, <1>8, <1>10, <2>1, <2>3
  <2> QED
    BY <2>2, <2>3
<1> QED
  BY <1>9, <1>10

LEMMA AboutTexts ==
  ASSUME NEW n
  PROVE  AboutRound(n) \subseteq Texts /\ Seq(AboutRound(n)) \subseteq Seq(Texts)
<1>1. AboutRound(n) \subseteq Texts
  BY DEF AboutRound
<1> QED
  BY <1>1, SeqMonotonic

LEMMA RoundEmpty ==
  ASSUME NEW n
  PROVE  RoundOf(<<>>, n) = NewRound /\ NewRound \in RoundType
<1>1. RoundOf(<<>>, n) = NewRound
  BY FoldEmpty DEF RoundOf
<1>2. <<>> \in Seq(Bids) /\ <<>> \in Seq(Receipt)
  BY EmptySeq
<1>3. <<>> \in UNION {[K -> Legs] : K \in SUBSET Keys}
  <2>1. <<>> \in [{} -> Legs] /\ {} \in SUBSET Keys
    OBVIOUS
  <2>2. PICK K \in SUBSET Keys : <<>> \in [K -> Legs]
    BY <2>1
  <2> QED
    BY <2>2, Zenon
<1>4. NewRound \in RoundType
  BY <1>2, <1>3 DEF NewRound, RoundType
<1> QED
  BY <1>1, <1>4

LEMMA RoundIsOne ==
  ASSUME NEW n, NEW u \in Seq(AboutRound(n))
  PROVE  RoundOf(u, n) \in RoundType
<1> DEFINE T == {s \in Seq(AboutRound(n)) : RoundOf(s, n) \in RoundType}
<1>1. <<>> \in T
  <2>1. <<>> \in Seq(AboutRound(n))
    BY EmptySeq
  <2> QED
    BY <2>1, RoundEmpty
<1>2. ASSUME NEW s \in Seq(AboutRound(n)), NEW x \in AboutRound(n), s \in T PROVE Append(s, x) \in T
  <2>1. s \in Seq(Texts) /\ x \in Texts /\ x.fields.round = n
    BY AboutTexts DEF AboutRound
  <2>2. RoundOf(Append(s, x), n) = Take(RoundOf(s, n), x.verb, x.fields)
    BY <2>1, FoldOneMore
  <2>3. RoundOf(s, n) \in RoundType
    BY <1>2
  <2>4. Take(RoundOf(s, n), x.verb, x.fields) \in RoundType
    BY <2>1, <2>3, TakeLemma
  <2>5. Append(s, x) \in Seq(AboutRound(n))
    BY AppendLemma
  <2> QED
    BY <2>2, <2>4, <2>5
<1>3. Seq(AboutRound(n)) \subseteq T
  <2> HIDE DEF T
  <2> QED
    BY <1>1, <1>2, SequencesInduction
<1> QED
  BY <1>3

LEMMA RoundStep ==
  ASSUME NEW n, NEW s \in Seq(AboutRound(n)), NEW x \in AboutRound(n)
  PROVE  /\ RoundOf(s, n) \in RoundType /\ RoundOf(Append(s, x), n) \in RoundType
         /\ IsTaken(RoundOf(s, n), x, RoundOf(Append(s, x), n))
         /\ s \in Seq(Texts) /\ x \in Texts /\ Append(s, x) \in Seq(AboutRound(n))
<1>1. s \in Seq(Texts) /\ x \in Texts /\ x.fields.round = n
  BY AboutTexts DEF AboutRound
<1>2. RoundOf(Append(s, x), n) = Take(RoundOf(s, n), x.verb, x.fields)
  BY <1>1, FoldOneMore
<1>3. RoundOf(s, n) \in RoundType
  BY RoundIsOne
<1>4. Append(s, x) \in Seq(AboutRound(n))
  BY AppendLemma
<1> QED
  BY <1>1, <1>2, <1>3, <1>4, TakeLemma

(* The award, the verdict, the payment: the last of its kind, or the first. *)
FieldsFold(ms, r) ==
  /\ PaidFor(r) = FirstTerms(ms)
  /\ r.award = IF LastOf(ms, {"AWARD"}) = 0 THEN None ELSE ms[LastOf(ms, {"AWARD"})].fields.to
  /\ r.verdict = IF LastOf(ms, {"VERIFIED"}) = 0 THEN None ELSE ms[LastOf(ms, {"VERIFIED"})].fields.verdict
  /\ r.want = IF LastOf(ms, {"WANT"}) = 0 THEN None ELSE "edge"
  /\ r.delivered <=> LastOf(ms, {"DELIVERED"}) > 0

LEMMA FieldsAreFolded ==
  ASSUME NEW n, NEW u \in Seq(AboutRound(n))
  PROVE  FieldsFold(u, RoundOf(u, n))
<1> DEFINE T == {s \in Seq(AboutRound(n)) : FieldsFold(s, RoundOf(s, n))}
<1>1. <<>> \in T
  <2>1. <<>> \in Seq(AboutRound(n))
    BY EmptySeq
  <2>2. FieldsFold(<<>>, NewRound)
    BY LastOfEmpty, FirstTermsEmpty DEF FieldsFold, NewRound, PaidFor
  <2> QED
    BY <2>1, <2>2, RoundEmpty
<1>2. ASSUME NEW s \in Seq(AboutRound(n)), NEW x \in AboutRound(n), s \in T PROVE Append(s, x) \in T
  <2>1. PICK r \in RoundType, q \in RoundType : r = RoundOf(s, n) /\ q = RoundOf(Append(s, x), n)
    BY RoundStep
  <2>2. PICK w \in Seq(AboutRound(n)) : w = Append(s, x)
    BY RoundStep
  <2>3. IsTaken(r, x, q) /\ s \in Seq(Texts) /\ x \in Texts
    BY <2>1, RoundStep
  <2>4. FieldsFold(s, r)
    BY <1>2, <2>1
  <2>5. PICK k \in Nat : k = Len(s) /\ DOMAIN s = 1..k
    BY LenProperties
  <2>6. (\A i \in 1..k : w[i] = s[i]) /\ w[k + 1] = x
    BY <2>2, <2>5, AppendLemma
  <2>7. ASSUME NEW V
        PROVE  /\ LastOf(w, V) = IF x.verb \in V THEN k + 1 ELSE LastOf(s, V)
               /\ LastOf(s, V) \in 0..k
               /\ LastOf(s, V) # 0 => w[LastOf(s, V)] = s[LastOf(s, V)]
    <3>1. LastOf(w, V) = IF x.verb \in V THEN k + 1 ELSE LastOf(s, V)
      BY <2>2, <2>5, LastOfAppend
    <3>2. LastOf(s, V) \in 0..k
      BY <2>5, LastOfLemma
    <3> QED
      BY <2>6, <3>1, <3>2
  <2>8. q.award = IF LastOf(w, {"AWARD"}) = 0 THEN None ELSE w[LastOf(w, {"AWARD"})].fields.to
    <3>1. q.award = IF x.verb = "AWARD" THEN x.fields.to ELSE r.award
      BY <2>3 DEF IsTaken, TakenFields
    <3> QED
      BY <2>4, <2>6, <2>7, <3>1 DEF FieldsFold
  <2>9. q.verdict = IF LastOf(w, {"VERIFIED"}) = 0 THEN None ELSE w[LastOf(w, {"VERIFIED"})].fields.verdict
    <3>1. q.verdict = IF x.verb = "VERIFIED" THEN x.fields.verdict ELSE r.verdict
      BY <2>3 DEF IsTaken, TakenFields
    <3> QED
      BY <2>4, <2>6, <2>7, <3>1 DEF FieldsFold
  <2>10. q.want = IF LastOf(w, {"WANT"}) = 0 THEN None ELSE "edge"
    <3>1. q.want = IF x.verb = "WANT" THEN "edge" ELSE r.want
      BY <2>3 DEF IsTaken, TakenFields
    <3> QED
      BY <2>4, <2>7, <3>1 DEF FieldsFold
  <2>11. q.delivered <=> LastOf(w, {"DELIVERED"}) > 0
    <3>1. q.delivered <=> r.delivered \/ x.verb = "DELIVERED"
      BY <2>3 DEF IsTaken, TakenFields
    <3> QED
      BY <2>4, <2>7, <3>1 DEF FieldsFold
  <2>12. PaidFor(q) = FirstTerms(w)
    <3>1. PaidFor(q) = IF IsNewPayment(r, x) THEN x.fields.reference ELSE PaidFor(r)
      BY <2>3 DEF IsTaken, TakenPayment
    <3>2. FirstTerms(Append(s, x)) =
            IF FirstTerms(s) = None /\ x.verb = "PAYMENT_REQUIRED" /\ x.fields.rail = "x402" THEN x.fields.reference
            ELSE FirstTerms(s)
      BY <2>3, FirstTermsAppend
    <3>3. PaidFor(r) = FirstTerms(s)
      BY <2>4 DEF FieldsFold
    <3> QED
      BY <2>2, <3>1, <3>2, <3>3 DEF IsNewPayment
  <2>13. FieldsFold(w, q)
    BY <2>8, <2>9, <2>10, <2>11, <2>12 DEF FieldsFold
  <2> QED
    BY <2>1, <2>2, <2>13
<1>3. Seq(AboutRound(n)) \subseteq T
  <2> HIDE DEF T
  <2> QED
    BY <1>1, <1>2, SequencesInduction
<1> QED
  BY <1>3

(* Of each seller its first bid. *)
BidsAt(ms) == {i \in DOMAIN ms : ms[i].verb = "BID"}

IsFirstBid(ms, j) == j \in BidsAt(ms) /\ \A k \in BidsAt(ms) : k < j => ms[k].fields.by # ms[j].fields.by

BidsFold(ms, r) ==
  /\ \A i \in DOMAIN r.bids : \E j \in DOMAIN ms :
       IsFirstBid(ms, j) /\ ms[j].fields.by = r.bids[i].by /\ ms[j].fields.price = r.bids[i].price
  /\ \A j \in BidsAt(ms) : \E i \in DOMAIN r.bids : r.bids[i].by = ms[j].fields.by
  /\ \A i, j \in DOMAIN r.bids : r.bids[i].by = r.bids[j].by => i = j

LEMMA BidsAreFolded ==
  ASSUME NEW n, NEW u \in Seq(AboutRound(n))
  PROVE  BidsFold(u, RoundOf(u, n))
<1> DEFINE T == {s \in Seq(AboutRound(n)) : BidsFold(s, RoundOf(s, n))}
<1>1. <<>> \in T
  <2>1. <<>> \in Seq(AboutRound(n))
    BY EmptySeq
  <2>2. BidsFold(<<>>, NewRound)
    BY DEF BidsFold, NewRound, BidsAt
  <2> QED
    BY <2>1, <2>2, RoundEmpty
<1>2. ASSUME NEW s \in Seq(AboutRound(n)), NEW x \in AboutRound(n), s \in T PROVE Append(s, x) \in T
  <2>1. PICK r \in RoundType, q \in RoundType : r = RoundOf(s, n) /\ q = RoundOf(Append(s, x), n)
    BY RoundStep
  <2>2. PICK w \in Seq(AboutRound(n)) : w = Append(s, x)
    BY RoundStep
  <2>3. IsTaken(r, x, q) /\ x \in Texts
    BY <2>1, RoundStep
  <2>4. BidsFold(s, r)
    BY <1>2, <2>1
  <2>5. PICK k \in Nat : k = Len(s) /\ DOMAIN s = 1..k
    BY LenProperties
  <2>6. DOMAIN w = 1..(k + 1) /\ (\A i \in 1..k : w[i] = s[i]) /\ w[k + 1] = x
    BY <2>2, <2>5, AppendLemma
  <2>7. PICK b \in Seq(Bids), m \in Nat : b = r.bids /\ m = Len(b) /\ DOMAIN b = 1..m
    <3>1. r.bids \in Seq(Bids)
      BY DEF RoundType
    <3> QED
      BY <3>1, LenProperties
  <2>8. ASSUME NEW j \in 1..k, IsFirstBid(s, j) PROVE IsFirstBid(w, j)
    <3>1. j \in BidsAt(w) /\ w[j] = s[j]
      BY <2>5, <2>6, <2>8 DEF IsFirstBid, BidsAt
    <3>2. ASSUME NEW i \in BidsAt(w), i < j PROVE w[i].fields.by # w[j].fields.by
      <4>1. i \in 1..(k + 1) /\ w[i].verb = "BID"
        BY <2>6 DEF BidsAt
      <4>2. i \in 1..k
        BY <3>2, <4>1
      <4>3. i \in BidsAt(s) /\ w[i] = s[i]
        BY <2>5, <2>6, <4>1, <4>2 DEF BidsAt
      <4>4. s[i].fields.by # s[j].fields.by
        BY <2>8, <3>2, <4>3 DEF IsFirstBid
      <4> QED
        BY <3>1, <4>3, <4>4
    <3> QED
      BY <3>1, <3>2 DEF IsFirstBid
  <2>9. \A i \in 1..m : \E j \in 1..k : IsFirstBid(w, j) /\ w[j].fields.by = b[i].by /\ w[j].fields.price = b[i].price
    <3>1. TAKE i \in 1..m
    <3>2. PICK j \in 1..k : IsFirstBid(s, j) /\ s[j].fields.by = b[i].by /\ s[j].fields.price = b[i].price
      BY <2>4, <2>5, <2>7 DEF BidsFold
    <3> QED
      BY <2>6, <2>8, <3>2
  <2>10. \A j \in BidsAt(s) : \E i \in 1..m : b[i].by = s[j].fields.by
    BY <2>4, <2>7 DEF BidsFold
  <2>11. \A i, j \in 1..m : b[i].by = b[j].by => i = j
    BY <2>4, <2>7 DEF BidsFold
  <2>12. CASE IsNewBid(r, x)
    <3>1. x.verb = "BID" /\ \A i \in 1..m : b[i].by # x.fields.by
      BY <2>7, <2>12 DEF IsNewBid
    <3>2. PICK bid \in Bids : bid = [by |-> x.fields.by, price |-> x.fields.price]
      BY <2>3, <3>1, FieldsLemma DEF Bids
    <3>3. PICK c \in Seq(Bids) : c = Append(b, bid)
      BY AppendLemma
    <3>4. q.bids = c
      BY <2>3, <2>7, <2>12, <3>2, <3>3 DEF IsTaken, TakenBid
    <3>5. DOMAIN c = 1..(m + 1) /\ (\A i \in 1..m : c[i] = b[i]) /\ c[m + 1] = bid
      BY <2>7, <3>3, AppendLemma
    <3>6. bid.by = x.fields.by /\ bid.price = x.fields.price
      BY <3>2
    <3>7. IsFirstBid(w, k + 1)
      <4>1. k + 1 \in BidsAt(w)
        BY <2>6, <3>1 DEF BidsAt
      <4>2. ASSUME NEW j \in BidsAt(w), j < k + 1 PROVE w[j].fields.by # x.fields.by
        <5>1. j \in 1..k /\ j \in BidsAt(s) /\ w[j] = s[j]
          BY <2>5, <2>6, <4>2 DEF BidsAt
        <5> QED
          BY <2>10, <3>1, <5>1
      <4> QED
        BY <2>6, <4>1, <4>2 DEF IsFirstBid
    <3>8. \A i \in DOMAIN c : \E j \in DOMAIN w :
            IsFirstBid(w, j) /\ w[j].fields.by = c[i].by /\ w[j].fields.price = c[i].price
      <4>1. TAKE i \in DOMAIN c
      <4>2. CASE i \in 1..m
        <5>1. PICK j \in 1..k : IsFirstBid(w, j) /\ w[j].fields.by = b[i].by /\ w[j].fields.price = b[i].price
          BY <2>9, <4>2
        <5>2. j \in DOMAIN w /\ c[i] = b[i]
          BY <2>6, <3>5, <4>2
        <5> QED
          BY <5>1, <5>2
      <4>3. CASE i = m + 1
        <5>1. k + 1 \in DOMAIN w /\ c[i] = bid
          BY <2>6, <3>5, <4>3
        <5> QED
          BY <2>6, <3>6, <3>7, <5>1
      <4> QED
        BY <3>5, <4>2, <4>3
    <3>9. \A j \in BidsAt(w) : \E i \in DOMAIN c : c[i].by = w[j].fields.by
      <4>1. TAKE j \in BidsAt(w)
      <4>2. CASE j \in 1..k
        <5>1. j \in BidsAt(s) /\ w[j] = s[j]
          BY <2>5, <2>6, <4>2 DEF BidsAt
        <5>2. PICK i \in 1..m : b[i].by = s[j].fields.by
          BY <2>10, <5>1
        <5>3. i \in DOMAIN c /\ c[i] = b[i]
          BY <3>5
        <5> QED
          BY <5>1, <5>2, <5>3
      <4>3. CASE j = k + 1
        <5>1. m + 1 \in DOMAIN c
          BY <3>5
        <5> QED
          BY <2>6, <3>5, <3>6, <4>3, <5>1
      <4> QED
        BY <2>6, <4>2, <4>3 DEF BidsAt
    <3>10. \A i, j \in DOMAIN c : c[i].by = c[j].by => i = j
      <4>1. TAKE i, j \in DOMAIN c
      <4>2. HAVE c[i].by = c[j].by
      <4>3. i \in 1..m \/ i = m + 1
        BY <3>5
      <4>4. j \in 1..m \/ j = m + 1
        BY <3>5
      <4>5. CASE i \in 1..m /\ j \in 1..m
        BY <2>11, <3>5, <4>2, <4>5
      <4>6. CASE i \in 1..m /\ j = m + 1
        BY <3>1, <3>5, <3>6, <4>2, <4>6
      <4>7. CASE i = m + 1 /\ j \in 1..m
        BY <3>1, <3>5, <3>6, <4>2, <4>7
      <4> QED
        BY <4>3, <4>4, <4>5, <4>6, <4>7
    <3>11. BidsFold(w, q)
      BY <3>4, <3>8, <3>9, <3>10 DEF BidsFold
    <3> QED
      BY <2>1, <2>2, <3>11
  <2>13. CASE ~IsNewBid(r, x)
    <3>1. q.bids = b
      BY <2>3, <2>7, <2>13 DEF IsTaken, TakenBid
    <3>2. \A j \in BidsAt(w) : \E i \in 1..m : b[i].by = w[j].fields.by
      <4>1. TAKE j \in BidsAt(w)
      <4>2. CASE j \in 1..k
        <5>1. j \in BidsAt(s) /\ w[j] = s[j]
          BY <2>5, <2>6, <4>2 DEF BidsAt
        <5> QED
          BY <2>10, <5>1
      <4>3. CASE j = k + 1
        <5>1. x.verb = "BID" /\ w[j] = x
          BY <2>6, <4>3 DEF BidsAt
        <5> QED
          BY <2>7, <2>13, <5>1 DEF IsNewBid
      <4> QED
        BY <2>6, <4>2, <4>3 DEF BidsAt
    <3>3. \A i \in 1..m : \E j \in DOMAIN w :
            IsFirstBid(w, j) /\ w[j].fields.by = b[i].by /\ w[j].fields.price = b[i].price
      <4>1. 1..k \subseteq DOMAIN w
        BY <2>6
      <4> QED
        BY <2>9, <4>1
    <3>4. BidsFold(w, q)
      <4>1. DOMAIN b = 1..m
        BY <2>7
      <4> QED
        BY <2>11, <3>1, <3>2, <3>3, <4>1, Zenon DEF BidsFold
    <3> QED
      BY <2>1, <2>2, <3>4
  <2> QED
    BY <2>12, <2>13
<1>3. Seq(AboutRound(n)) \subseteq T
  <2> HIDE DEF T
  <2> QED
    BY <1>1, <1>2, SequencesInduction
<1> QED
  BY <1>3

(* The messages about a payment come in order, and its terms come once. *)
SamePayment(s, t) == KeyOf(s.fields) = KeyOf(t.fields)

Follows(ms, i, verb) == \E j \in DOMAIN ms : j < i /\ ms[j].verb = verb /\ SamePayment(ms[j], ms[i])

Orderly(ms) ==
  /\ \A i \in DOMAIN ms : ms[i].verb \in {"PAYMENT_PROOF", "PAYMENT_CONFIRMED"} => Follows(ms, i, "PAYMENT_REQUIRED")
  /\ \A i \in DOMAIN ms : ms[i].verb = "PAYMENT_CONFIRMED" => Follows(ms, i, "PAYMENT_PROOF")
  /\ \A i, j \in DOMAIN ms : ms[i].verb = "PAYMENT_REQUIRED" /\ ms[j].verb = "PAYMENT_REQUIRED" =>
       (ms[i].fields.reference = ms[j].fields.reference => i = j)

(* One more message, then, is of a payment whose messages it may follow. *)
Continues(ms, x) ==
  /\ x.verb \in {"PAYMENT_PROOF", "PAYMENT_CONFIRMED"} =>
       \E j \in DOMAIN ms : ms[j].verb = "PAYMENT_REQUIRED" /\ SamePayment(ms[j], x)
  /\ x.verb = "PAYMENT_CONFIRMED" => \E j \in DOMAIN ms : ms[j].verb = "PAYMENT_PROOF" /\ SamePayment(ms[j], x)
  /\ x.verb = "PAYMENT_REQUIRED" =>
       \A j \in DOMAIN ms : ms[j].verb \in PaymentVerbs => ms[j].fields.reference # x.fields.reference

LEMMA SamePaymentLemma ==
  ASSUME NEW s, NEW t
  PROVE  SamePayment(s, t) <=> s.fields.rail = t.fields.rail /\ s.fields.reference = t.fields.reference
  BY DEF SamePayment, KeyOf

LEMMA OrderlyAppend ==
  ASSUME NEW S, NEW s \in Seq(S), NEW x \in S
  PROVE  /\ Orderly(Append(s, x)) => Orderly(s) /\ Continues(s, x)
         /\ Orderly(s) /\ Continues(s, x) => Orderly(Append(s, x))
<1>1. PICK n \in Nat : n = Len(s) /\ DOMAIN s = 1..n
  BY LenProperties
<1>2. PICK w \in Seq(S) : w = Append(s, x)
  BY AppendLemma
<1>3. DOMAIN w = 1..(n + 1) /\ (\A i \in 1..n : w[i] = s[i]) /\ w[n + 1] = x
  BY <1>1, <1>2, AppendLemma
<1>4. ASSUME NEW i \in 1..n, NEW v PROVE Follows(w, i, v) <=> Follows(s, i, v)
  <2>1. \A j \in 1..(n + 1) : j < i <=> j \in 1..n /\ j < i
    OBVIOUS
  <2> QED
    BY <1>1, <1>3, <2>1 DEF Follows
<1>5. ASSUME NEW v PROVE Follows(w, n + 1, v) <=> \E j \in 1..n : s[j].verb = v /\ SamePayment(s[j], x)
  <2>1. \A j \in 1..(n + 1) : j < n + 1 <=> j \in 1..n
    OBVIOUS
  <2>2. 1..n \subseteq 1..(n + 1)
    OBVIOUS
  <2> QED
    BY <1>3, <2>1, <2>2 DEF Follows
<1>6. 1..n \subseteq 1..(n + 1) /\ n + 1 \in 1..(n + 1) /\ (\A i \in 1..(n + 1) : i \in 1..n \/ i = n + 1) /\ n + 1 \notin 1..n
  OBVIOUS
<1>7. ASSUME Orderly(w) PROVE Orderly(s) /\ Continues(s, x)
  <2>1. Orderly(s)
    BY <1>1, <1>3, <1>4, <1>6, <1>7 DEF Orderly
  <2>2. x.verb \in {"PAYMENT_PROOF", "PAYMENT_CONFIRMED"} => Follows(w, n + 1, "PAYMENT_REQUIRED")
    BY <1>3, <1>6, <1>7 DEF Orderly
  <2>3. x.verb = "PAYMENT_CONFIRMED" => Follows(w, n + 1, "PAYMENT_PROOF")
    BY <1>3, <1>6, <1>7 DEF Orderly
  <2>4. ASSUME x.verb = "PAYMENT_REQUIRED", NEW j \in 1..n, s[j].verb \in PaymentVerbs
        PROVE  s[j].fields.reference # x.fields.reference
    <3>1. \A i \in 1..n : s[i].verb = "PAYMENT_REQUIRED" => s[i].fields.reference # x.fields.reference
      BY <1>3, <1>6, <1>7, <2>4 DEF Orderly
    <3>2. CASE s[j].verb = "PAYMENT_REQUIRED"
      BY <3>1, <3>2
    <3>3. CASE s[j].verb # "PAYMENT_REQUIRED"
      <4>1. Follows(s, j, "PAYMENT_REQUIRED")
        BY <1>1, <2>1, <2>4, <3>3 DEF Orderly, PaymentVerbs
      <4>2. PICK i \in 1..n : s[i].verb = "PAYMENT_REQUIRED" /\ SamePayment(s[i], s[j])
        BY <1>1, <4>1 DEF Follows
      <4> QED
        BY <3>1, <4>2, SamePaymentLemma
    <3> QED
      BY <3>2, <3>3
  <2>5. Continues(s, x)
    BY <1>1, <1>5, <2>2, <2>3, <2>4 DEF Continues
  <2> QED
    BY <2>1, <2>5
<1>8. ASSUME Orderly(s), Continues(s, x) PROVE Orderly(w)
  <2>1. x.verb \in {"PAYMENT_PROOF", "PAYMENT_CONFIRMED"} => Follows(w, n + 1, "PAYMENT_REQUIRED")
    BY <1>1, <1>5, <1>8 DEF Continues
  <2>2. x.verb = "PAYMENT_CONFIRMED" => Follows(w, n + 1, "PAYMENT_PROOF")
    BY <1>1, <1>5, <1>8 DEF Continues
  <2>3. x.verb = "PAYMENT_REQUIRED" =>
          \A j \in 1..n : s[j].verb = "PAYMENT_REQUIRED" => s[j].fields.reference # x.fields.reference
    BY <1>1, <1>8 DEF Continues, PaymentVerbs
  <2>4. ASSUME NEW i \in DOMAIN w, w[i].verb \in {"PAYMENT_PROOF", "PAYMENT_CONFIRMED"}
        PROVE  Follows(w, i, "PAYMENT_REQUIRED")
    BY <1>1, <1>3, <1>4, <1>6, <1>8, <2>1, <2>4 DEF Orderly
  <2>5. ASSUME NEW i \in DOMAIN w, w[i].verb = "PAYMENT_CONFIRMED"
        PROVE  Follows(w, i, "PAYMENT_PROOF")
    BY <1>1, <1>3, <1>4, <1>6, <1>8, <2>2, <2>5 DEF Orderly
  <2>6. ASSUME NEW i \in DOMAIN w, NEW j \in DOMAIN w, w[i].verb = "PAYMENT_REQUIRED", w[j].verb = "PAYMENT_REQUIRED",
               w[i].fields.reference = w[j].fields.reference
        PROVE  i = j
    <3>1. CASE i \in 1..n /\ j \in 1..n
      BY <1>1, <1>3, <1>8, <2>6, <3>1 DEF Orderly
    <3>2. CASE i = n + 1 /\ j \in 1..n
      BY <1>3, <2>3, <2>6, <3>2
    <3>3. CASE i \in 1..n /\ j = n + 1
      BY <1>3, <2>3, <2>6, <3>3
    <3> QED
      BY <1>3, <1>6, <3>1, <3>2, <3>3
  <2> QED
    BY <2>4, <2>5, <2>6, Zenon DEF Orderly
<1> QED
  BY <1>2, <1>7, <1>8

-----------------------------------------------------------------------------
(* The status, by what has been said last. *)

Ends == {"SETTLED", "REFUNDED"}

IsSettled(ms) == LastOf(ms, Ends) > 0 /\ ms[LastOf(ms, Ends)].verb = "SETTLED"
IsEnded(ms)   == LastOf(ms, Ends) > 0
IsDelivered(ms) == LastOf(ms, {"DELIVERED"}) > LastOf(ms, Ends)
IsAwarded(ms) == LastOf(ms, {"AWARD"}) > 0
IsPaid(ms) == \E i \in DOMAIN ms : ms[i].verb = "PAYMENT_CONFIRMED" /\ ms[i].fields.paid /\ ms[i].fields.reference = FirstTerms(ms)

StatusBy(settled, delivered, ended, paid, awarded) ==
  IF settled THEN "settled" ELSE IF delivered THEN "delivered" ELSE IF ended THEN "refunded"
  ELSE IF paid THEN "paid" ELSE IF awarded THEN "awarded" ELSE "bidding"

LEMMA StatusLemma ==
  ASSUME NEW ms
  PROVE  StatusOf(ms) = StatusBy(IsSettled(ms), IsDelivered(ms), IsEnded(ms), IsPaid(ms), IsAwarded(ms))
  BY DEF StatusOf, StatusBy, IsSettled, IsEnded, IsDelivered, IsPaid, IsAwarded, Ends

LEMMA StatusAppend ==
  ASSUME NEW S, NEW s \in Seq(S), NEW x \in S
  PROVE  /\ IsSettled(Append(s, x)) <=> x.verb = "SETTLED" \/ (IsSettled(s) /\ x.verb # "REFUNDED")
         /\ IsEnded(Append(s, x)) <=> IsEnded(s) \/ x.verb \in Ends
         /\ IsDelivered(Append(s, x)) <=> x.verb = "DELIVERED" \/ (IsDelivered(s) /\ x.verb \notin Ends)
         /\ IsAwarded(Append(s, x)) <=> IsAwarded(s) \/ x.verb = "AWARD"
<1>1. PICK n \in Nat : n = Len(s) /\ DOMAIN s = 1..n
  BY LenProperties
<1>2. PICK w \in Seq(S) : w = Append(s, x)
  BY AppendLemma
<1>3. (\A i \in 1..n : w[i] = s[i]) /\ w[n + 1] = x
  BY <1>1, <1>2, AppendLemma
<1>4. ASSUME NEW V
      PROVE  LastOf(w, V) = (IF x.verb \in V THEN n + 1 ELSE LastOf(s, V)) /\ LastOf(s, V) \in 0..n
  BY <1>1, <1>2, LastOfAppend, LastOfLemma
<1>5. PICK e \in 0..n : e = LastOf(s, Ends) /\ LastOf(w, Ends) = IF x.verb \in Ends THEN n + 1 ELSE e
  BY <1>4
<1>6. PICK d \in 0..n : d = LastOf(s, {"DELIVERED"}) /\ LastOf(w, {"DELIVERED"}) = IF x.verb = "DELIVERED" THEN n + 1 ELSE d
  BY <1>4
<1>7. PICK a \in 0..n : a = LastOf(s, {"AWARD"}) /\ LastOf(w, {"AWARD"}) = IF x.verb = "AWARD" THEN n + 1 ELSE a
  BY <1>4
<1>8. IsSettled(w) <=> x.verb = "SETTLED" \/ (IsSettled(s) /\ x.verb # "REFUNDED")
  <2>1. CASE x.verb \in Ends
    BY <1>3, <1>5, <2>1 DEF IsSettled, Ends
  <2>2. CASE x.verb \notin Ends
    BY <1>3, <1>5, <2>2 DEF IsSettled, Ends
  <2> QED
    BY <2>1, <2>2
<1>9. IsEnded(w) <=> IsEnded(s) \/ x.verb \in Ends
  BY <1>5 DEF IsEnded
<1>10. IsDelivered(w) <=> x.verb = "DELIVERED" \/ (IsDelivered(s) /\ x.verb \notin Ends)
  BY <1>5, <1>6 DEF IsDelivered, Ends
<1>11. IsAwarded(w) <=> IsAwarded(s) \/ x.verb = "AWARD"
  BY <1>7 DEF IsAwarded
<1> QED
  BY <1>2, <1>8, <1>9, <1>10, <1>11

StatusFold(ms, r) == r.status = StatusOf(ms) /\ (r.paid <=> IsPaid(ms))

LEMMA IsPaidAppend ==
  ASSUME NEW s \in Seq(Texts), NEW x \in Texts, Continues(s, x), Orderly(s)
  PROVE  IsPaid(Append(s, x)) <=>
           IsPaid(s) \/ (x.verb = "PAYMENT_CONFIRMED" /\ FirstTerms(s) = x.fields.reference /\ x.fields.paid)
<1>1. PICK n \in Nat : n = Len(s) /\ DOMAIN s = 1..n
  BY LenProperties
<1>2. PICK w \in Seq(Texts) : w = Append(s, x)
  BY AppendLemma
<1>3. DOMAIN w = 1..(n + 1) /\ (\A i \in 1..n : w[i] = s[i] /\ s[i] \in Texts) /\ w[n + 1] = x
  BY <1>1, <1>2, AppendLemma
<1>4. FirstTerms(w) = IF FirstTerms(s) = None /\ x.verb = "PAYMENT_REQUIRED" /\ x.fields.rail = "x402" THEN x.fields.reference
                      ELSE FirstTerms(s)
  BY <1>2, FirstTermsAppend
<1>5. \A i \in 1..(n + 1) : i \in 1..n \/ i = n + 1
  OBVIOUS
<1>6. 1..n \subseteq 1..(n + 1) /\ n + 1 \in 1..(n + 1)
  OBVIOUS
<1>7. CASE FirstTerms(w) = FirstTerms(s)
  BY <1>1, <1>2, <1>3, <1>5, <1>6, <1>7 DEF IsPaid
<1>8. CASE FirstTerms(w) # FirstTerms(s)
  <2>1. FirstTerms(s) = None /\ x.verb = "PAYMENT_REQUIRED" /\ FirstTerms(w) = x.fields.reference
    BY <1>4, <1>8
  <2>2. ~IsPaid(s)
    <3>1. SUFFICES ASSUME NEW i \in 1..n, s[i].verb = "PAYMENT_CONFIRMED", s[i].fields.reference = None PROVE FALSE
      BY <1>1, <2>1 DEF IsPaid
    <3> QED
      BY <1>3, <3>1, FieldsLemma DEF PaymentVerbs
  <2>3. ~IsPaid(w)
    <3>1. SUFFICES ASSUME NEW i \in 1..(n + 1), w[i].verb = "PAYMENT_CONFIRMED", w[i].fields.reference = x.fields.reference PROVE FALSE
      BY <1>3, <2>1 DEF IsPaid
    <3>2. i \in 1..n
      BY <1>3, <1>5, <2>1, <3>1
    <3> QED
      BY <1>1, <1>3, <2>1, <3>1, <3>2 DEF Continues, PaymentVerbs
  <2> QED
    BY <1>2, <2>1, <2>2, <2>3
<1> QED
  BY <1>7, <1>8

LEMMA StatusIsFolded ==
  ASSUME NEW n, NEW u \in Seq(AboutRound(n)), Orderly(u)
  PROVE  StatusFold(u, RoundOf(u, n))
<1> DEFINE T == {s \in Seq(AboutRound(n)) : Orderly(s) => StatusFold(s, RoundOf(s, n))}
<1>1. <<>> \in T
  <2>1. <<>> \in Seq(AboutRound(n))
    BY EmptySeq
  <2>2. StatusFold(<<>>, NewRound)
    BY LastOfEmpty, FirstTermsEmpty, StatusLemma
       DEF StatusFold, NewRound, StatusBy, IsSettled, IsEnded, IsDelivered, IsPaid, IsAwarded
  <2> QED
    BY <2>1, <2>2, RoundEmpty
<1>2. ASSUME NEW s \in Seq(AboutRound(n)), NEW x \in AboutRound(n), s \in T PROVE Append(s, x) \in T
  <2>1. PICK r \in RoundType, q \in RoundType : r = RoundOf(s, n) /\ q = RoundOf(Append(s, x), n)
    BY RoundStep
  <2>2. PICK w \in Seq(AboutRound(n)) : w = Append(s, x)
    BY RoundStep
  <2>3. IsTaken(r, x, q) /\ s \in Seq(Texts) /\ x \in Texts
    BY <2>1, RoundStep
  <2> SUFFICES ASSUME Orderly(w) PROVE StatusFold(w, q)
    BY <2>1, <2>2
  <2>4. Orderly(s) /\ Continues(s, x)
    BY <2>2, OrderlyAppend
  <2>5. StatusFold(s, r)
    BY <1>2, <2>1, <2>4
  <2>6. PaidFor(r) = FirstTerms(s)
    BY <2>1, FieldsAreFolded DEF FieldsFold
  <2>7. IsPaid(w) <=> IsPaid(s) \/ Pays(r, x)
    BY <2>2, <2>3, <2>4, <2>6, IsPaidAppend DEF Pays
  <2>8. /\ IsSettled(w) <=> x.verb = "SETTLED" \/ (IsSettled(s) /\ x.verb # "REFUNDED")
        /\ IsEnded(w) <=> IsEnded(s) \/ x.verb \in Ends
        /\ IsDelivered(w) <=> x.verb = "DELIVERED" \/ (IsDelivered(s) /\ x.verb \notin Ends)
        /\ IsAwarded(w) <=> IsAwarded(s) \/ x.verb = "AWARD"
    BY <2>2, StatusAppend
  <2>9. q.paid <=> IsPaid(w)
    BY <2>3, <2>5, <2>7 DEF StatusFold, IsTaken, TakenPayment
  <2>10. r.status = StatusBy(IsSettled(s), IsDelivered(s), IsEnded(s), IsPaid(s), IsAwarded(s))
    BY <2>5, StatusLemma DEF StatusFold
  <2>11. q.status = NextStatus(r, x)
    BY <2>3 DEF IsTaken, TakenPayment
  <2>12. NextStatus(r, x) = StatusBy(IsSettled(w), IsDelivered(w), IsEnded(w), IsPaid(w), IsAwarded(w))
    <3>1. IsSettled(s) => IsEnded(s)
      BY DEF IsSettled, IsEnded
    <3>2. Pays(r, x) => x.verb = "PAYMENT_CONFIRMED"
      BY DEF Pays
    <3> QED
      BY <2>7, <2>8, <2>10, <3>1, <3>2 DEF NextStatus, StatusBy, Ends
  <2>13. q.status = StatusOf(w)
    BY <2>11, <2>12, StatusLemma
  <2> QED
    BY <2>9, <2>13 DEF StatusFold
<1>3. Seq(AboutRound(n)) \subseteq T
  <2> HIDE DEF T
  <2> QED
    BY <1>1, <1>2, SequencesInduction
<1> QED
  BY <1>3

-----------------------------------------------------------------------------
(* The legs: the payments that are not the round's own. *)

LegAt(r, k) == IF k \in DOMAIN r.legs THEN r.legs[k] ELSE [paid |-> None, proof |-> None]

LEMMA LegAtLemma ==
  ASSUME NEW r \in RoundType, NEW x \in Texts, NEW q \in RoundType, IsTaken(r, x, q)
  PROVE  /\ \A k : LegAt(q, k) = IF IsOfLeg(r, x) /\ k = KeyOf(x.fields) THEN NewLeg(r, x) ELSE LegAt(r, k)
         /\ x.verb \in PaymentVerbs => Leg(r, x.fields) = LegAt(r, KeyOf(x.fields)) /\ LegAt(r, KeyOf(x.fields)) \in Legs
<1>1. PICK key : key = KeyOf(x.fields)
  OBVIOUS
<1>2. ASSUME x.verb \in PaymentVerbs PROVE key \in Keys /\ Leg(r, x.fields) = LegAt(r, key) /\ LegAt(r, key) \in Legs
  <2>1. KeyOf(x.fields) \in Keys
    BY <1>2, KeyLemma
  <2> QED
    BY <1>1, <2>1, LegLemma DEF LegAt
<1>3. ASSUME IsOfLeg(r, x), NEW k PROVE LegAt(q, k) = IF k = key THEN NewLeg(r, x) ELSE LegAt(r, k)
  <2>1. x.verb \in {"PAYMENT_PROOF", "PAYMENT_CONFIRMED"}
    BY <1>3 DEF IsOfLeg
  <2>2. q.legs = SetLeg(r, x.fields, NewLeg(r, x))
    BY <1>3 DEF IsTaken, TakenLeg
  <2>3. KeyOf(x.fields) \in Keys /\ NewLeg(r, x) \in Legs
    BY <2>1, KeyLemma, NewLegLemma DEF PaymentVerbs
  <2>4. /\ DOMAIN q.legs = DOMAIN r.legs \cup {key} /\ q.legs[key] = NewLeg(r, x)
        /\ \A j \in DOMAIN r.legs : j # key => q.legs[j] = r.legs[j]
    <3>1. PICK leg : leg = NewLeg(r, x)
      OBVIOUS
    <3>2. q.legs = [j \in {key} \cup DOMAIN r.legs |-> IF j = key THEN leg ELSE r.legs[j]]
      BY <1>1, <2>2, <3>1 DEF SetLeg, Put, KeyOf
    <3> QED
      BY <3>1, <3>2
  <2> QED
    BY <2>4 DEF LegAt
<1>4. ASSUME ~IsOfLeg(r, x), NEW k PROVE LegAt(q, k) = LegAt(r, k)
  <2>1. q.legs = r.legs \/ (x.verb = "PAYMENT_REQUIRED" /\ q.legs = SetLeg(r, x.fields, Leg(r, x.fields)))
    BY <1>4 DEF IsTaken, TakenLeg
  <2>2. CASE q.legs = r.legs
    BY <2>2 DEF LegAt
  <2>3. CASE x.verb = "PAYMENT_REQUIRED" /\ q.legs = SetLeg(r, x.fields, Leg(r, x.fields))
    <3>1. KeyOf(x.fields) \in Keys /\ Leg(r, x.fields) \in Legs /\ Leg(r, x.fields) = LegAt(r, key)
      BY <1>1, <1>2, <2>3 DEF PaymentVerbs
    <3>2. /\ DOMAIN q.legs = DOMAIN r.legs \cup {key} /\ q.legs[key] = LegAt(r, key)
          /\ \A j \in DOMAIN r.legs : j # key => q.legs[j] = r.legs[j]
      <4>1. PICK leg : leg = Leg(r, x.fields) /\ leg = LegAt(r, key)
        BY <3>1
      <4>2. q.legs = [j \in {key} \cup DOMAIN r.legs |-> IF j = key THEN leg ELSE r.legs[j]]
        BY <1>1, <2>3, <4>1 DEF SetLeg, Put, KeyOf
      <4> QED
        BY <4>1, <4>2
    <3> QED
      BY <3>2 DEF LegAt
  <2> QED
    BY <2>1, <2>2, <2>3
<1> QED
  BY <1>1, <1>2, <1>3, <1>4

KeysOf(r) == {r.receipts[i].key : i \in DOMAIN r.receipts}

OneEach(r) == \A i, j \in DOMAIN r.receipts : r.receipts[i].key = r.receipts[j].key => i = j

(* A leg that was confirmed has its receipt, the others none. *)
LEMMA ReceiptLemma ==
  ASSUME NEW r \in RoundType, NEW q \in RoundType, NEW m, KeyOf(m) \in Keys, NEW leg \in Legs,
         q.receipts = Receipts(r, m, leg), leg.paid # None
  PROVE  /\ KeysOf(q) = KeysOf(r) \cup {KeyOf(m)}
         /\ OneEach(r) => OneEach(q)
         /\ \A i \in DOMAIN q.receipts :
              \/ i \in DOMAIN r.receipts /\ q.receipts[i] = r.receipts[i]
              \/ q.receipts[i].key = KeyOf(m) /\ q.receipts[i].paid = leg.paid /\ q.receipts[i].proof = leg.proof
<1>1. r.receipts \in Seq(Receipt)
  BY DEF RoundType
<1>2. PICK rs \in Seq(Receipt), n \in Nat : rs = r.receipts /\ n = Len(rs) /\ DOMAIN rs = 1..n
  BY <1>1, LenProperties
<1>3. PICK key \in Keys : key = KeyOf(m)
  OBVIOUS
<1>4. PICK receipt \in Receipt : receipt = [key |-> key, paid |-> leg.paid, proof |-> leg.proof]
  BY DEF Receipt, Legs
<1>5. receipt.key = key /\ receipt.paid = leg.paid /\ receipt.proof = leg.proof
  BY <1>4
<1>6. PICK known : known = {i \in 1..n : rs[i].key = key}
  OBVIOUS
<1>7. PICK cs : cs = q.receipts
  OBVIOUS
<1>8. cs = IF known # {} THEN [i \in 1..n |-> IF i \in known THEN receipt ELSE rs[i]] ELSE Append(rs, receipt)
  BY <1>2, <1>3, <1>4, <1>6, <1>7 DEF Receipts, KeyOf
<1>9. KeysOf(r) = {rs[i].key : i \in 1..n} /\ (OneEach(r) <=> \A i, j \in 1..n : rs[i].key = rs[j].key => i = j)
  BY <1>2 DEF KeysOf, OneEach
<1>10. KeysOf(q) = {cs[i].key : i \in DOMAIN cs} /\ (OneEach(q) <=> \A i, j \in DOMAIN cs : cs[i].key = cs[j].key => i = j)
  BY <1>7 DEF KeysOf, OneEach
<1>11. CASE known # {}
  <2>1. DOMAIN cs = 1..n /\ \A i \in 1..n : cs[i] = IF i \in known THEN receipt ELSE rs[i]
    BY <1>8, <1>11
  <2>2. \A i \in 1..n : cs[i].key = rs[i].key
    BY <1>5, <1>6, <2>1
  <2>3. key \in KeysOf(r)
    BY <1>6, <1>9, <1>11
  <2>4. KeysOf(q) = KeysOf(r)
    BY <1>9, <1>10, <2>1, <2>2
  <2>5. OneEach(r) => OneEach(q)
    BY <1>9, <1>10, <2>1, <2>2
  <2>6. \A i \in 1..n : cs[i] = rs[i] \/ cs[i] = receipt
    BY <2>1
  <2> QED
    BY <1>2, <1>3, <1>5, <1>7, <2>1, <2>3, <2>4, <2>5, <2>6
<1>12. CASE known = {}
  <2>1. cs = Append(rs, receipt)
    BY <1>8, <1>12
  <2>2. DOMAIN cs = 1..(n + 1) /\ (\A i \in 1..n : cs[i] = rs[i]) /\ cs[n + 1] = receipt
    BY <1>2, <2>1, AppendLemma
  <2>3. \A i \in 1..(n + 1) : i \in 1..n \/ i = n + 1
    OBVIOUS
  <2>4. 1..n \subseteq 1..(n + 1) /\ n + 1 \in 1..(n + 1)
    OBVIOUS
  <2>5. KeysOf(q) = KeysOf(r) \cup {key}
    <3>1. \A k : k \in KeysOf(q) <=> \E i \in 1..(n + 1) : k = cs[i].key
      BY <1>10, <2>2
    <3>2. \A k : k \in KeysOf(r) <=> \E i \in 1..n : k = rs[i].key
      BY <1>9
    <3>3. \A k : k \in KeysOf(q) <=> k \in KeysOf(r) \/ k = key
      BY <1>5, <2>2, <2>3, <2>4, <3>1, <3>2
    <3> QED
      BY <3>3
  <2>6. \A i \in 1..n : rs[i].key # key
    BY <1>6, <1>12
  <2>7. ASSUME OneEach(r), NEW i \in 1..(n + 1), NEW j \in 1..(n + 1), cs[i].key = cs[j].key PROVE i = j
    <3>1. CASE i \in 1..n /\ j \in 1..n
      BY <1>9, <2>2, <2>7, <3>1
    <3>2. CASE i = n + 1 /\ j \in 1..n
      BY <1>5, <2>2, <2>6, <2>7, <3>2
    <3>3. CASE i \in 1..n /\ j = n + 1
      BY <1>5, <2>2, <2>6, <2>7, <3>3
    <3> QED
      BY <2>3, <3>1, <3>2, <3>3
  <2>8. OneEach(r) => OneEach(q)
    BY <1>10, <2>2, <2>7
  <2> QED
    BY <1>2, <1>3, <1>5, <1>7, <2>2, <2>3, <2>5, <2>8
<1> QED
  BY <1>11, <1>12

IsUpstream(k) == k[2][1] = "upstream"

Others(ms, verb) == {KeyOf(ms[j].fields) : j \in {j \in DOMAIN ms : ms[j].verb = verb /\ ms[j].fields.reference # FirstTerms(ms)}}

LegsFold(ms, r) ==
  /\ KeysOf(r) = Others(ms, "PAYMENT_CONFIRMED") /\ OneEach(r)
  /\ \A k : LegAt(r, k).paid # None => k \in KeysOf(r)
  /\ \A k : IsUpstream(k) => LegAt(r, k).paid \in {None, TRUE} /\ LegAt(r, k).proof \in {None, "tx"}
  /\ \A k \in Others(ms, "PAYMENT_PROOF") : IsUpstream(k) => LegAt(r, k).proof = "tx"
  /\ \A i \in DOMAIN r.receipts : IsUpstream(r.receipts[i].key) => r.receipts[i].paid = TRUE /\ r.receipts[i].proof = "tx"

LEMMA OthersAppend ==
  ASSUME NEW s \in Seq(Texts), NEW x \in Texts, Continues(s, x), NEW v \in {"PAYMENT_PROOF", "PAYMENT_CONFIRMED"}
  PROVE  Others(Append(s, x), v) =
           IF x.verb = v /\ x.fields.reference # FirstTerms(s) THEN Others(s, v) \cup {KeyOf(x.fields)} ELSE Others(s, v)
<1>1. PICK n \in Nat : n = Len(s) /\ DOMAIN s = 1..n
  BY LenProperties
<1>2. PICK w \in Seq(Texts) : w = Append(s, x)
  BY AppendLemma
<1>3. DOMAIN w = 1..(n + 1) /\ (\A i \in 1..n : w[i] = s[i] /\ s[i] \in Texts) /\ w[n + 1] = x
  BY <1>1, <1>2, AppendLemma
<1>4. FirstTerms(w) = IF FirstTerms(s) = None /\ x.verb = "PAYMENT_REQUIRED" /\ x.fields.rail = "x402" THEN x.fields.reference
                      ELSE FirstTerms(s)
  BY <1>2, FirstTermsAppend
<1>5. ASSUME NEW j \in 1..n, s[j].verb = v PROVE s[j].fields.reference # FirstTerms(w) <=> s[j].fields.reference # FirstTerms(s)
  <2>1. s[j].fields.reference # None
    BY <1>3, <1>5, FieldsLemma DEF PaymentVerbs
  <2>2. x.verb = "PAYMENT_REQUIRED" => s[j].fields.reference # x.fields.reference
    BY <1>1, <1>5 DEF Continues, PaymentVerbs
  <2> QED
    BY <1>4, <2>1, <2>2
<1>6. x.verb = v => FirstTerms(w) = FirstTerms(s)
  BY <1>4
<1>7. PICK A : A = {j \in 1..n : s[j].verb = v /\ s[j].fields.reference # FirstTerms(s)}
  OBVIOUS
<1>8. PICK B : B = {j \in 1..(n + 1) : w[j].verb = v /\ w[j].fields.reference # FirstTerms(w)}
  OBVIOUS
<1>9. A \subseteq 1..n /\ B = IF x.verb = v /\ x.fields.reference # FirstTerms(s) THEN A \cup {n + 1} ELSE A
  <2>1. \A j \in 1..(n + 1) : j \in 1..n \/ j = n + 1
    OBVIOUS
  <2>2. 1..n \subseteq 1..(n + 1) /\ n + 1 \in 1..(n + 1)
    OBVIOUS
  <2>3. \A j \in 1..n : j \in B <=> j \in A
    BY <1>3, <1>5, <1>7, <1>8, <2>2
  <2>4. n + 1 \in B <=> x.verb = v /\ x.fields.reference # FirstTerms(s)
    BY <1>3, <1>6, <1>8, <2>2
  <2>5. A \subseteq 1..n /\ B \subseteq 1..(n + 1)
    BY <1>7, <1>8
  <2>6. B = IF x.verb = v /\ x.fields.reference # FirstTerms(s) THEN A \cup {n + 1} ELSE A
    <3>1. \A j : j \in B <=> j \in A \/ (j = n + 1 /\ x.verb = v /\ x.fields.reference # FirstTerms(s))
      <4>1. n + 1 \notin 1..n
        OBVIOUS
      <4> QED
        BY <2>1, <2>2, <2>3, <2>4, <2>5, <4>1
    <3>2. CASE x.verb = v /\ x.fields.reference # FirstTerms(s)
      BY <3>1, <3>2
    <3>3. CASE ~(x.verb = v /\ x.fields.reference # FirstTerms(s))
      BY <3>1, <3>3
    <3> QED
      BY <3>2, <3>3
  <2> QED
    BY <2>5, <2>6
<1>10. Others(s, v) = {KeyOf(s[j].fields) : j \in A}
  BY <1>1, <1>7, Zenon DEF Others
<1>11. Others(w, v) = {KeyOf(w[j].fields) : j \in B}
  BY <1>3, <1>8, Zenon DEF Others
<1>12. \A j \in A : KeyOf(w[j].fields) = KeyOf(s[j].fields)
  BY <1>3, <1>9
<1>13. KeyOf(w[n + 1].fields) = KeyOf(x.fields)
  BY <1>3
<1>14. CASE x.verb = v /\ x.fields.reference # FirstTerms(s)
  <2>1. B = A \cup {n + 1}
    BY <1>9, <1>14
  <2>2. \A k : k \in Others(w, v) <=> \E j \in B : k = KeyOf(w[j].fields)
    BY <1>11
  <2>3. \A k : k \in Others(s, v) <=> \E j \in A : k = KeyOf(s[j].fields)
    BY <1>10
  <2>4. \A k : k \in Others(w, v) <=> k \in Others(s, v) \/ k = KeyOf(x.fields)
    BY <1>12, <1>13, <2>1, <2>2, <2>3
  <2> QED
    BY <1>2, <1>14, <2>4
<1>15. CASE ~(x.verb = v /\ x.fields.reference # FirstTerms(s))
  <2>1. B = A
    BY <1>9, <1>15
  <2>2. Others(w, v) = Others(s, v)
    BY <1>10, <1>11, <1>12, <2>1
  <2> QED
    BY <1>2, <1>15, <2>2
<1> QED
  BY <1>14, <1>15

LEMMA OthersEmpty == \A v : Others(<<>>, v) = {}
  BY DEF Others

(* What a proof does to the legs. *)
LEMMA ProofOfLeg ==
  ASSUME NEW s \in Seq(Texts), NEW x \in Texts, NEW r \in RoundType, NEW q \in RoundType, IsTaken(r, x, q),
         Continues(s, x), LegsFold(s, r), PaidFor(r) = FirstTerms(s), IsOfLeg(r, x), x.verb = "PAYMENT_PROOF"
  PROVE  LegsFold(Append(s, x), q)
<1>1. PICK key \in Keys : key = KeyOf(x.fields)
  BY KeyLemma DEF PaymentVerbs
<1>2. PICK old \in Legs : old = Leg(r, x.fields) /\ old = LegAt(r, key)
  BY <1>1, LegAtLemma DEF PaymentVerbs
<1>3. PICK leg \in Legs : leg = NewLeg(r, x) /\ leg = [paid |-> old.paid, proof |-> x.fields.proof]
  BY <1>2, NewLegLemma
<1>4. leg.paid = old.paid /\ leg.proof = x.fields.proof
  BY <1>3
<1>5. IsUpstream(key) => x.fields.proof = "tx"
  <2>1. /\ x.fields.reference = Order(x.thread, x.fields.round) \/ x.fields.reference = Upstream(x.thread, x.fields.round)
        /\ x.fields.reference = Upstream(x.thread, x.fields.round) => x.fields.proof = "tx"
    BY FieldsLemma DEF PaymentVerbs
  <2>2. key[2] = x.fields.reference
    BY <1>1 DEF KeyOf
  <2> QED
    BY <2>1, <2>2 DEF IsUpstream, Order
<1>6. \A k : LegAt(q, k) = IF k = key THEN leg ELSE LegAt(r, k)
  <2>1. \A k : LegAt(q, k) = IF IsOfLeg(r, x) /\ k = KeyOf(x.fields) THEN NewLeg(r, x) ELSE LegAt(r, k)
    BY LegAtLemma
  <2> QED
    BY <1>1, <1>3, <2>1
<1>7. q.receipts = Receipts(r, x.fields, leg)
  BY <1>3 DEF IsTaken, TakenLeg
<1>8. Others(Append(s, x), "PAYMENT_CONFIRMED") = Others(s, "PAYMENT_CONFIRMED")
  BY OthersAppend
<1>9. Others(Append(s, x), "PAYMENT_PROOF") = Others(s, "PAYMENT_PROOF") \cup {key}
  <2>1. x.fields.reference # FirstTerms(s)
    BY DEF IsOfLeg
  <2> QED
    BY <1>1, <2>1, OthersAppend
<1>10. /\ KeysOf(q) = KeysOf(r) /\ OneEach(q)
       /\ \A i \in DOMAIN q.receipts :
            IsUpstream(q.receipts[i].key) => q.receipts[i].paid = TRUE /\ q.receipts[i].proof = "tx"
  <2>1. CASE leg.paid = None
    <3>1. q.receipts = r.receipts
      BY <1>7, <2>1 DEF Receipts
    <3> QED
      BY <3>1 DEF LegsFold, KeysOf, OneEach
  <2>2. CASE leg.paid # None
    <3>1. PICK m : m = x.fields
      OBVIOUS
    <3>2. KeyOf(m) \in Keys /\ KeyOf(m) = key /\ q.receipts = Receipts(r, m, leg)
      BY <1>1, <1>7, <3>1
    <3>3. /\ KeysOf(q) = KeysOf(r) \cup {KeyOf(m)}
          /\ OneEach(r) => OneEach(q)
          /\ \A i \in DOMAIN q.receipts :
               \/ i \in DOMAIN r.receipts /\ q.receipts[i] = r.receipts[i]
               \/ q.receipts[i].key = KeyOf(m) /\ q.receipts[i].paid = leg.paid /\ q.receipts[i].proof = leg.proof
      BY <2>2, <3>2, ReceiptLemma
    <3>4. key \in KeysOf(r) /\ (IsUpstream(key) => leg.paid = TRUE)
      BY <1>2, <1>4, <2>2 DEF LegsFold
    <3>5. OneEach(r)
      BY DEF LegsFold
    <3>6. \A i \in DOMAIN r.receipts :
            IsUpstream(r.receipts[i].key) => r.receipts[i].paid = TRUE /\ r.receipts[i].proof = "tx"
      BY DEF LegsFold
    <3>7. ASSUME NEW i \in DOMAIN q.receipts, IsUpstream(q.receipts[i].key)
          PROVE  q.receipts[i].paid = TRUE /\ q.receipts[i].proof = "tx"
      <4>1. CASE i \in DOMAIN r.receipts /\ q.receipts[i] = r.receipts[i]
        BY <3>6, <3>7, <4>1
      <4>2. CASE q.receipts[i].key = KeyOf(m) /\ q.receipts[i].paid = leg.paid /\ q.receipts[i].proof = leg.proof
        BY <1>4, <1>5, <3>2, <3>4, <3>7, <4>2
      <4> QED
        BY <3>3, <4>1, <4>2
    <3> QED
      BY <3>2, <3>3, <3>4, <3>5, <3>7
  <2> QED
    BY <2>1, <2>2
<1>11. \A k : LegAt(q, k).paid # None => k \in KeysOf(q)
  <2>1. \A k : LegAt(r, k).paid # None => k \in KeysOf(r)
    BY DEF LegsFold
  <2> QED
    BY <1>2, <1>4, <1>6, <1>10, <2>1
<1>12. \A k : IsUpstream(k) => LegAt(q, k).paid \in {None, TRUE} /\ LegAt(q, k).proof \in {None, "tx"}
  <2>1. \A k : IsUpstream(k) => LegAt(r, k).paid \in {None, TRUE} /\ LegAt(r, k).proof \in {None, "tx"}
    BY DEF LegsFold
  <2>2. TAKE k
  <2>3. HAVE IsUpstream(k)
  <2>4. CASE k = key
    <3>1. LegAt(q, k) = leg
      BY <1>6, <2>4
    <3>2. old.paid \in {None, TRUE}
      BY <1>2, <2>1, <2>3, <2>4
    <3> QED
      BY <1>4, <1>5, <2>3, <2>4, <3>1, <3>2
  <2>5. CASE k # key
    BY <1>6, <2>1, <2>3, <2>5
  <2> QED
    BY <2>4, <2>5
<1>13. \A k \in Others(Append(s, x), "PAYMENT_PROOF") : IsUpstream(k) => LegAt(q, k).proof = "tx"
  <2>1. \A k \in Others(s, "PAYMENT_PROOF") : IsUpstream(k) => LegAt(r, k).proof = "tx"
    BY DEF LegsFold
  <2> QED
    BY <1>4, <1>5, <1>6, <1>9, <2>1
<1>14. KeysOf(r) = Others(s, "PAYMENT_CONFIRMED")
  BY DEF LegsFold
<1> QED
  BY <1>8, <1>10, <1>11, <1>12, <1>13, <1>14, Zenon DEF LegsFold

(* What a confirmation does to the legs. *)
LEMMA ConfirmationOfLeg ==
  ASSUME NEW s \in Seq(Texts), NEW x \in Texts, NEW r \in RoundType, NEW q \in RoundType, IsTaken(r, x, q),
         Continues(s, x), LegsFold(s, r), PaidFor(r) = FirstTerms(s), IsOfLeg(r, x), x.verb = "PAYMENT_CONFIRMED"
  PROVE  LegsFold(Append(s, x), q)
<1>0. x.fields.reference # FirstTerms(s)
  BY DEF IsOfLeg
<1>1. PICK key \in Keys : key = KeyOf(x.fields)
  BY KeyLemma DEF PaymentVerbs
<1>2. PICK old \in Legs : old = Leg(r, x.fields) /\ old = LegAt(r, key)
  BY <1>1, LegAtLemma DEF PaymentVerbs
<1>3. PICK leg \in Legs : leg = NewLeg(r, x) /\ leg = [paid |-> x.fields.paid, proof |-> old.proof]
  BY <1>2, NewLegLemma
<1>4. leg.paid = x.fields.paid /\ leg.proof = old.proof
  BY <1>3
<1>5. leg.paid # None
  <2>1. x.fields.paid \in BOOLEAN
    BY FieldsLemma
  <2> QED
    BY <1>4, <2>1, FoldAssumption DEF FoldAssumption
<1>6. IsUpstream(key) => leg.paid = TRUE /\ leg.proof = "tx"
  <2>1. HAVE IsUpstream(key)
  <2>2. /\ x.fields.reference = Order(x.thread, x.fields.round) \/ x.fields.reference = Upstream(x.thread, x.fields.round)
        /\ x.fields.reference = Upstream(x.thread, x.fields.round) => x.fields.paid = TRUE
    BY FieldsLemma DEF PaymentVerbs
  <2>3. key[2] = x.fields.reference
    BY <1>1 DEF KeyOf
  <2>4. leg.paid = TRUE
    BY <1>4, <2>1, <2>2, <2>3 DEF IsUpstream, Order
  <2>5. PICK j \in DOMAIN s : s[j].verb = "PAYMENT_PROOF" /\ SamePayment(s[j], x)
    BY DEF Continues
  <2>6. KeyOf(s[j].fields) = key /\ s[j].fields.reference = x.fields.reference
    BY <1>1, <2>5, SamePaymentLemma DEF SamePayment
  <2>7. key \in Others(s, "PAYMENT_PROOF")
    BY <1>0, <2>5, <2>6 DEF Others
  <2>8. LegAt(r, key).proof = "tx"
    BY <2>1, <2>7 DEF LegsFold
  <2> QED
    BY <1>2, <1>4, <2>4, <2>8
<1>7. \A k : LegAt(q, k) = IF k = key THEN leg ELSE LegAt(r, k)
  <2>1. \A k : LegAt(q, k) = IF IsOfLeg(r, x) /\ k = KeyOf(x.fields) THEN NewLeg(r, x) ELSE LegAt(r, k)
    BY LegAtLemma
  <2> QED
    BY <1>1, <1>3, <2>1
<1>8. Others(Append(s, x), "PAYMENT_CONFIRMED") = Others(s, "PAYMENT_CONFIRMED") \cup {key}
  BY <1>0, <1>1, OthersAppend
<1>9. Others(Append(s, x), "PAYMENT_PROOF") = Others(s, "PAYMENT_PROOF")
  BY OthersAppend
<1>10. /\ KeysOf(q) = KeysOf(r) \cup {key} /\ OneEach(q)
       /\ \A i \in DOMAIN q.receipts :
            IsUpstream(q.receipts[i].key) => q.receipts[i].paid = TRUE /\ q.receipts[i].proof = "tx"
  <2>1. PICK m : m = x.fields
    OBVIOUS
  <2>2. KeyOf(m) \in Keys /\ KeyOf(m) = key /\ q.receipts = Receipts(r, m, leg)
    BY <1>1, <1>3, <2>1 DEF IsTaken, TakenLeg
  <2>3. /\ KeysOf(q) = KeysOf(r) \cup {KeyOf(m)}
        /\ OneEach(r) => OneEach(q)
        /\ \A i \in DOMAIN q.receipts :
             \/ i \in DOMAIN r.receipts /\ q.receipts[i] = r.receipts[i]
             \/ q.receipts[i].key = KeyOf(m) /\ q.receipts[i].paid = leg.paid /\ q.receipts[i].proof = leg.proof
    BY <1>5, <2>2, ReceiptLemma
  <2>4. OneEach(r)
    BY DEF LegsFold
  <2>5. \A i \in DOMAIN r.receipts :
          IsUpstream(r.receipts[i].key) => r.receipts[i].paid = TRUE /\ r.receipts[i].proof = "tx"
    BY DEF LegsFold
  <2>6. ASSUME NEW i \in DOMAIN q.receipts, IsUpstream(q.receipts[i].key)
        PROVE  q.receipts[i].paid = TRUE /\ q.receipts[i].proof = "tx"
    <3>1. CASE i \in DOMAIN r.receipts /\ q.receipts[i] = r.receipts[i]
      BY <2>5, <2>6, <3>1
    <3>2. CASE q.receipts[i].key = KeyOf(m) /\ q.receipts[i].paid = leg.paid /\ q.receipts[i].proof = leg.proof
      BY <1>6, <2>2, <2>6, <3>2
    <3> QED
      BY <2>3, <3>1, <3>2
  <2> QED
    BY <2>2, <2>3, <2>4, <2>6
<1>11. \A k : LegAt(q, k).paid # None => k \in KeysOf(q)
  <2>1. \A k : LegAt(r, k).paid # None => k \in KeysOf(r)
    BY DEF LegsFold
  <2> QED
    BY <1>7, <1>10, <2>1
<1>12. \A k : IsUpstream(k) => LegAt(q, k).paid \in {None, TRUE} /\ LegAt(q, k).proof \in {None, "tx"}
  <2>1. \A k : IsUpstream(k) => LegAt(r, k).paid \in {None, TRUE} /\ LegAt(r, k).proof \in {None, "tx"}
    BY DEF LegsFold
  <2> QED
    BY <1>6, <1>7, <2>1
<1>13. \A k \in Others(Append(s, x), "PAYMENT_PROOF") : IsUpstream(k) => LegAt(q, k).proof = "tx"
  <2>1. \A k \in Others(s, "PAYMENT_PROOF") : IsUpstream(k) => LegAt(r, k).proof = "tx"
    BY DEF LegsFold
  <2> QED
    BY <1>6, <1>7, <1>9, <2>1
<1>14. KeysOf(r) = Others(s, "PAYMENT_CONFIRMED")
  BY DEF LegsFold
<1> QED
  BY <1>8, <1>10, <1>11, <1>12, <1>13, <1>14, Zenon DEF LegsFold

LEMMA LegsAreFolded ==
  ASSUME NEW n, NEW u \in Seq(AboutRound(n)), Orderly(u)
  PROVE  LegsFold(u, RoundOf(u, n))
<1> DEFINE T == {s \in Seq(AboutRound(n)) : Orderly(s) => LegsFold(s, RoundOf(s, n))}
<1>1. <<>> \in T
  <2>1. <<>> \in Seq(AboutRound(n))
    BY EmptySeq
  <2>2. NewRound.receipts = <<>> /\ NewRound.legs = <<>>
    BY DEF NewRound
  <2>3. KeysOf(NewRound) = {} /\ OneEach(NewRound) /\ \A k : LegAt(NewRound, k) = [paid |-> None, proof |-> None]
    BY <2>2 DEF KeysOf, OneEach, LegAt
  <2>4. LegsFold(<<>>, NewRound)
    <3>1. DOMAIN NewRound.receipts = {}
      BY <2>2
    <3>2. \A k : LegAt(NewRound, k).paid = None /\ LegAt(NewRound, k).proof = None
      BY <2>3
    <3>3. Others(<<>>, "PAYMENT_CONFIRMED") = {} /\ Others(<<>>, "PAYMENT_PROOF") = {}
      BY OthersEmpty
    <3>4. \A k : IsUpstream(k) => LegAt(NewRound, k).paid \in {None, TRUE} /\ LegAt(NewRound, k).proof \in {None, "tx"}
      BY <3>2
    <3>5. \A i \in DOMAIN NewRound.receipts :
            IsUpstream(NewRound.receipts[i].key) => NewRound.receipts[i].paid = TRUE /\ NewRound.receipts[i].proof = "tx"
      BY <3>1
    <3> QED
      BY <2>3, <3>2, <3>3, <3>4, <3>5, Zenon DEF LegsFold
  <2> QED
    BY <2>1, <2>4, RoundEmpty
<1>2. ASSUME NEW s \in Seq(AboutRound(n)), NEW x \in AboutRound(n), s \in T PROVE Append(s, x) \in T
  <2>1. PICK r \in RoundType, q \in RoundType : r = RoundOf(s, n) /\ q = RoundOf(Append(s, x), n)
    BY RoundStep
  <2>2. IsTaken(r, x, q) /\ s \in Seq(Texts) /\ x \in Texts /\ Append(s, x) \in Seq(AboutRound(n))
    BY <2>1, RoundStep
  <2> SUFFICES ASSUME Orderly(Append(s, x)) PROVE LegsFold(Append(s, x), q)
    BY <2>1, <2>2
  <2>3. Orderly(s) /\ Continues(s, x)
    BY OrderlyAppend
  <2>4. LegsFold(s, r)
    BY <1>2, <2>1, <2>3
  <2>5. PaidFor(r) = FirstTerms(s)
    BY <2>1, FieldsAreFolded DEF FieldsFold
  <2>6. CASE IsOfLeg(r, x)
    BY <2>2, <2>3, <2>4, <2>5, <2>6, ProofOfLeg, ConfirmationOfLeg DEF IsOfLeg
  <2>7. CASE ~IsOfLeg(r, x)
    <3>1. q.receipts = r.receipts
      BY <2>2, <2>7 DEF IsTaken, TakenLeg
    <3>2. \A k : LegAt(q, k) = LegAt(r, k)
      BY <2>2, <2>7, LegAtLemma
    <3>3. /\ Others(Append(s, x), "PAYMENT_CONFIRMED") = Others(s, "PAYMENT_CONFIRMED")
          /\ Others(Append(s, x), "PAYMENT_PROOF") = Others(s, "PAYMENT_PROOF")
      BY <2>2, <2>3, <2>5, <2>7, OthersAppend DEF IsOfLeg
    <3>4. KeysOf(q) = KeysOf(r) /\ (OneEach(q) <=> OneEach(r))
      BY <3>1 DEF KeysOf, OneEach
    <3> QED
      BY <2>4, <3>1, <3>2, <3>3, <3>4 DEF LegsFold
  <2> QED
    BY <2>6, <2>7
<1>3. Seq(AboutRound(n)) \subseteq T
  <2> HIDE DEF T
  <2> QED
    BY <1>1, <1>2, SequencesInduction
<1> QED
  BY <1>3

(* A round folded from orderly messages shows what they say. *)
LEMMA RoundsAreRight ==
  ASSUME NEW n, NEW u \in Seq(AboutRound(n)), Orderly(u)
  PROVE  FoldsRight(u, RoundOf(u, n))
<1>1. PICK r : r = RoundOf(u, n)
  OBVIOUS
<1>2. r.status = StatusOf(u)
  BY <1>1, StatusIsFolded DEF StatusFold
<1>3. /\ (IF r.payment = None THEN None ELSE r.payment.reference) = FirstTerms(u)
      /\ r.award = IF LastOf(u, {"AWARD"}) = 0 THEN None ELSE u[LastOf(u, {"AWARD"})].fields.to
  BY <1>1, FieldsAreFolded DEF FieldsFold, PaidFor
<1>4. /\ \A i \in DOMAIN r.bids : \E j \in DOMAIN u :
           IsFirstBid(u, j) /\ u[j].fields.by = r.bids[i].by /\ u[j].fields.price = r.bids[i].price
      /\ \A j \in BidsAt(u) : \E i \in DOMAIN r.bids : r.bids[i].by = u[j].fields.by
      /\ \A i, j \in DOMAIN r.bids : r.bids[i].by = r.bids[j].by => i = j
  BY <1>1, BidsAreFolded DEF BidsFold
<1>5. PICK bids : bids = {i \in DOMAIN u : u[i].verb = "BID"}
  OBVIOUS
<1>6. bids = BidsAt(u)
  BY <1>5 DEF BidsAt
<1>7. \A i \in DOMAIN r.bids : \E j \in bids :
        /\ u[j].fields.by = r.bids[i].by /\ u[j].fields.price = r.bids[i].price
        /\ \A k \in bids : k < j => u[k].fields.by # r.bids[i].by
  <2>1. TAKE i \in DOMAIN r.bids
  <2>2. PICK j \in DOMAIN u : IsFirstBid(u, j) /\ u[j].fields.by = r.bids[i].by /\ u[j].fields.price = r.bids[i].price
    BY <1>4
  <2>3. j \in bids /\ \A k \in bids : k < j => u[k].fields.by # r.bids[i].by
    BY <1>6, <2>2 DEF IsFirstBid
  <2> QED
    BY <2>2, <2>3
<1>8. {r.bids[i].by : i \in DOMAIN r.bids} = {u[j].fields.by : j \in bids}
  <2>1. \A s : s \in {r.bids[i].by : i \in DOMAIN r.bids} <=> \E i \in DOMAIN r.bids : s = r.bids[i].by
    OBVIOUS
  <2>2. \A s : s \in {u[j].fields.by : j \in bids} <=> \E j \in bids : s = u[j].fields.by
    OBVIOUS
  <2>3. \A i \in DOMAIN r.bids : \E j \in bids : r.bids[i].by = u[j].fields.by
    BY <1>7
  <2>4. \A j \in bids : \E i \in DOMAIN r.bids : r.bids[i].by = u[j].fields.by
    BY <1>4, <1>6
  <2>5. ASSUME NEW s, s \in {r.bids[i].by : i \in DOMAIN r.bids} PROVE s \in {u[j].fields.by : j \in bids}
    <3>1. PICK i \in DOMAIN r.bids : s = r.bids[i].by
      BY <2>1, <2>5
    <3>2. PICK j \in bids : r.bids[i].by = u[j].fields.by
      BY <2>3
    <3> QED
      BY <2>2, <3>1, <3>2
  <2>6. ASSUME NEW s, s \in {u[j].fields.by : j \in bids} PROVE s \in {r.bids[i].by : i \in DOMAIN r.bids}
    <3>1. PICK j \in bids : s = u[j].fields.by
      BY <2>2, <2>6
    <3>2. PICK i \in DOMAIN r.bids : r.bids[i].by = u[j].fields.by
      BY <2>4
    <3> QED
      BY <2>1, <3>1, <3>2
  <2> QED
    BY <2>5, <2>6
<1>9. FoldsRight(u, r)
  BY <1>2, <1>3, <1>4, <1>5, <1>7, <1>8, Zenon DEF FoldsRight
<1> QED
  BY <1>1, <1>9

-----------------------------------------------------------------------------
(* What the agents say of a round in one thread. *)

Says(ms, verb) == \E i \in DOMAIN ms : ms[i].verb = verb

IsConfirmed(ms, l, n) ==
  \E i \in DOMAIN ms : ms[i].verb = "PAYMENT_CONFIRMED" /\ ms[i].fields.reference = Order(l, n) /\ ms[i].fields.paid

(* The seller buys upstream and delivers once the order is paid, and what is verified was delivered. *)
Sound(ms, l, n) ==
  /\ ms \in Seq(AboutRound(n)) /\ Orderly(ms)
  /\ \A i \in DOMAIN ms : /\ ms[i].thread = l
                          /\ ms[i].verb \in PaymentVerbs /\ ms[i].fields.reference # Order(l, n) => IsConfirmed(ms, l, n)
                          /\ ms[i].verb = "DELIVERED" => IsConfirmed(ms, l, n)
                          /\ ms[i].verb = "VERIFIED" => Says(ms, "DELIVERED")
  /\ \A i, j \in DOMAIN ms : ms[i].verb \in {"AWARD", "VERIFIED"} /\ ms[j].verb = ms[i].verb => i = j

MayFollow(ms, x, l, n) ==
  /\ x \in TextsOf(l, n) /\ Continues(ms, x)
  /\ x.verb \in PaymentVerbs /\ x.fields.reference # Order(l, n) => IsConfirmed(ms, l, n)
  /\ x.verb = "DELIVERED" => IsConfirmed(ms, l, n)
  /\ x.verb = "VERIFIED" => Says(ms, "DELIVERED")
  /\ x.verb \in {"AWARD", "VERIFIED"} => ~Says(ms, x.verb)
  /\ x.verb \in Ends => ~Says(ms, "SETTLED") /\ ~Says(ms, "REFUNDED")

(* What is said takes nothing back. *)
Keeps(s, w) ==
  /\ IsSettled(s) => IsSettled(w)
  /\ IsEnded(s) => IsEnded(w)
  /\ IsDelivered(s) => IsDelivered(w) \/ IsEnded(w)
  /\ IsPaid(s) => IsPaid(w)
  /\ IsAwarded(s) => IsAwarded(w)
  /\ \A v \in {"AWARD", "VERIFIED"} : LastOf(s, {v}) # 0 => LastOf(w, {v}) = LastOf(s, {v})
  /\ \A i \in DOMAIN s : i \in DOMAIN w /\ w[i] = s[i]

LEMMA KeepsOn ==
  ASSUME NEW s, NEW w, NEW v, Keeps(s, w), Keeps(w, v)
  PROVE  Keeps(s, v)
<1>1. \A i \in DOMAIN s : i \in DOMAIN v /\ v[i] = s[i]
  BY DEF Keeps
<1>2. \A k \in {"AWARD", "VERIFIED"} : LastOf(s, {k}) # 0 => LastOf(v, {k}) = LastOf(s, {k})
  BY DEF Keeps
<1> QED
  BY <1>1, <1>2 DEF Keeps

(* What one more text of a round and a thread is. *)
LEMMA TextOfRound ==
  ASSUME NEW l \in 1..Lives, NEW n \in Rounds, NEW x \in TextsOf(l, n)
  PROVE  x \in Texts /\ x \in AboutRound(n) /\ x.fields.round = n /\ x.thread = l /\ x.verb \in Verbs
<1>1. x \in Texts
  <2>1. <<l, n>> \in (1..Lives) \X Rounds /\ <<l, n>>[1] = l /\ <<l, n>>[2] = n
    OBVIOUS
  <2>2. x \in TextsOf(<<l, n>>[1], <<l, n>>[2])
    BY <2>1
  <2> QED
    BY <2>1, <2>2, Zenon DEF Texts
<1>2. IsText(x, l, n)
  BY TextsAreTexts
<1>3. x.fields.round = n /\ x.thread = l
  BY <1>2, TextsAreUnderstood
<1> QED
  BY <1>1, <1>3, TextLemma DEF AboutRound

LEMMA SaysAppend ==
  ASSUME NEW S, NEW s \in Seq(S), NEW x \in S, NEW v
  PROVE  /\ Says(Append(s, x), v) <=> Says(s, v) \/ x.verb = v
         /\ \A l, n : IsConfirmed(Append(s, x), l, n) <=>
              IsConfirmed(s, l, n) \/ (x.verb = "PAYMENT_CONFIRMED" /\ x.fields.reference = Order(l, n) /\ x.fields.paid)
<1>1. PICK k \in Nat : k = Len(s) /\ DOMAIN s = 1..k
  BY LenProperties
<1>2. PICK w \in Seq(S) : w = Append(s, x)
  BY AppendLemma
<1>3. DOMAIN w = 1..(k + 1) /\ (\A i \in 1..k : w[i] = s[i]) /\ w[k + 1] = x
  BY <1>1, <1>2, AppendLemma
<1>4. (\A i \in 1..(k + 1) : i \in 1..k \/ i = k + 1) /\ 1..k \subseteq 1..(k + 1) /\ k + 1 \in 1..(k + 1)
  OBVIOUS
<1>5. Says(w, v) <=> Says(s, v) \/ x.verb = v
  BY <1>1, <1>3, <1>4 DEF Says
<1>6. ASSUME NEW l, NEW n
      PROVE  IsConfirmed(w, l, n) <=>
               IsConfirmed(s, l, n) \/ (x.verb = "PAYMENT_CONFIRMED" /\ x.fields.reference = Order(l, n) /\ x.fields.paid)
  BY <1>1, <1>3, <1>4, Zenon DEF IsConfirmed
<1> QED
  BY <1>2, <1>5, <1>6

LEMMA SaysLast ==
  ASSUME NEW S, NEW s \in Seq(S), NEW v
  PROVE  /\ LastOf(s, {v}) \in Nat /\ (LastOf(s, {v}) > 0 <=> Says(s, v)) /\ (LastOf(s, {v}) # 0 <=> Says(s, v))
         /\ LastOf(s, {v}) # 0 => LastOf(s, {v}) \in DOMAIN s /\ s[LastOf(s, {v})].verb = v
         /\ IsEnded(s) <=> Says(s, "SETTLED") \/ Says(s, "REFUNDED")
<1>1. PICK k : k = LastOf(s, {v})
  OBVIOUS
<1>2. k \in 0..Len(s) /\ Len(s) \in Nat /\ (k = 0 <=> \A i \in DOMAIN s : s[i].verb \notin {v})
  BY <1>1, LastOfLemma
<1>3. k > 0 => k \in DOMAIN s /\ s[k].verb \in {v}
  BY <1>1, LastOfLemma
<1>4. (k = 0 <=> ~Says(s, v)) /\ k \in Nat
  BY <1>2 DEF Says
<1>5. PICK e : e = LastOf(s, Ends)
  OBVIOUS
<1>6. e \in 0..Len(s) /\ Len(s) \in Nat /\ (e = 0 <=> \A i \in DOMAIN s : s[i].verb \notin Ends)
  BY <1>5, LastOfLemma
<1>7. e = 0 <=> ~(Says(s, "SETTLED") \/ Says(s, "REFUNDED"))
  BY <1>6 DEF Says, Ends
<1>8. IsEnded(s) <=> Says(s, "SETTLED") \/ Says(s, "REFUNDED")
  BY <1>5, <1>6, <1>7 DEF IsEnded
<1> QED
  BY <1>1, <1>3, <1>4, <1>8

LEMMA FollowLemma ==
  ASSUME NEW l \in 1..Lives, NEW n \in Rounds, NEW s, Sound(s, l, n), NEW x, MayFollow(s, x, l, n)
  PROVE  Sound(Append(s, x), l, n) /\ Keeps(s, Append(s, x))
<1>0. s \in Seq(AboutRound(n)) /\ Orderly(s) /\ s \in Seq(Texts) /\ Continues(s, x)
  BY AboutTexts DEF Sound, MayFollow
<1>1. x \in AboutRound(n) /\ x \in Texts /\ x.thread = l
  BY TextOfRound DEF MayFollow
<1>2. PICK k \in Nat : k = Len(s) /\ DOMAIN s = 1..k
  BY <1>0, LenProperties
<1>3. PICK w \in Seq(AboutRound(n)) : w = Append(s, x)
  BY <1>0, <1>1, AppendLemma
<1>4. DOMAIN w = 1..(k + 1) /\ (\A i \in 1..k : w[i] = s[i]) /\ w[k + 1] = x
  BY <1>0, <1>1, <1>2, <1>3, AppendLemma
<1>5. (\A i \in 1..(k + 1) : i \in 1..k \/ i = k + 1) /\ 1..k \subseteq 1..(k + 1)
  OBVIOUS
<1>6. Orderly(w)
  BY <1>0, <1>1, <1>3, OrderlyAppend
<1>7. (IsConfirmed(s, l, n) => IsConfirmed(w, l, n)) /\ (Says(s, "DELIVERED") => Says(w, "DELIVERED"))
  BY <1>0, <1>1, <1>3, SaysAppend
<1>8. ASSUME NEW i \in DOMAIN w
      PROVE  /\ w[i].thread = l
             /\ w[i].verb \in PaymentVerbs /\ w[i].fields.reference # Order(l, n) => IsConfirmed(w, l, n)
             /\ w[i].verb = "DELIVERED" => IsConfirmed(w, l, n)
             /\ w[i].verb = "VERIFIED" => Says(w, "DELIVERED")
  <2>1. CASE i \in 1..k
    <3>1. w[i] = s[i] /\ i \in DOMAIN s
      BY <1>2, <1>4, <2>1
    <3> QED
      BY <1>7, <3>1 DEF Sound
  <2>2. CASE i = k + 1
    <3>1. w[i] = x
      BY <1>4, <2>2
    <3> QED
      BY <1>1, <1>7, <3>1 DEF MayFollow
  <2> QED
    BY <1>4, <1>5, <2>1, <2>2
<1>9. Sound(w, l, n)
  <2>1. ASSUME NEW i \in DOMAIN w, NEW j \in DOMAIN w, w[i].verb \in {"AWARD", "VERIFIED"}, w[j].verb = w[i].verb
        PROVE  i = j
    <3>1. CASE i \in 1..k /\ j \in 1..k
      <4>1. i \in DOMAIN s /\ j \in DOMAIN s /\ w[i] = s[i] /\ w[j] = s[j]
        BY <1>2, <1>4, <3>1
      <4> QED
        BY <2>1, <4>1 DEF Sound
    <3>2. ASSUME NEW a \in 1..k, w[a].verb = x.verb, x.verb \in {"AWARD", "VERIFIED"} PROVE FALSE
      <4>1. a \in DOMAIN s /\ s[a].verb = x.verb
        BY <1>2, <1>4, <3>2
      <4> QED
        BY <3>2, <4>1 DEF MayFollow, Says
    <3> QED
      BY <1>4, <1>5, <2>1, <3>1, <3>2
  <2> QED
    BY <1>6, <1>8, <2>1 DEF Sound
<1>10. /\ IsSettled(w) <=> x.verb = "SETTLED" \/ (IsSettled(s) /\ x.verb # "REFUNDED")
       /\ IsEnded(w) <=> IsEnded(s) \/ x.verb \in Ends
       /\ IsDelivered(w) <=> x.verb = "DELIVERED" \/ (IsDelivered(s) /\ x.verb \notin Ends)
       /\ IsAwarded(w) <=> IsAwarded(s) \/ x.verb = "AWARD"
  BY <1>0, <1>1, <1>3, StatusAppend
<1>11. IsPaid(s) => IsPaid(w)
  BY <1>0, <1>1, <1>3, IsPaidAppend
<1>12. x.verb = "REFUNDED" => ~IsSettled(s)
  <2>1. x.verb = "REFUNDED" => ~Says(s, "SETTLED")
    BY DEF MayFollow, Ends
  <2>2. IsSettled(s) => Says(s, "SETTLED")
    BY <1>0, LastOfLemma DEF IsSettled, Says
  <2> QED
    BY <2>1, <2>2
<1>13. ASSUME NEW v \in {"AWARD", "VERIFIED"}, LastOf(s, {v}) # 0 PROVE LastOf(w, {v}) = LastOf(s, {v})
  <2>1. Says(s, v)
    BY <1>0, <1>13, SaysLast
  <2>2. x.verb # v
    BY <2>1 DEF MayFollow
  <2>3. LastOf(Append(s, x), {v}) = IF x.verb \in {v} THEN Len(s) + 1 ELSE LastOf(s, {v})
    BY <1>0, <1>1, LastOfAppend
  <2> QED
    BY <1>3, <2>2, <2>3
<1>14. \A i \in DOMAIN s : i \in DOMAIN w /\ w[i] = s[i]
  BY <1>2, <1>4, <1>5
<1>15. Keeps(s, w)
  BY <1>10, <1>11, <1>12, <1>13, <1>14 DEF Keeps
<1> QED
  BY <1>3, <1>9, <1>15

-----------------------------------------------------------------------------
(* The inductive invariant: what every thread says of every round is sound,   *)
(* and the feed shows what is said.                                           *)

Talk(l, n) == OfRound(said[l], n)

FoldInv ==
  /\ life \in 1..Lives /\ said \in [1..Lives -> Seq(Texts)]
  /\ \A l \in 1..Lives : l > life => said[l] = <<>>
  /\ \A l \in 1..Lives : \A n \in Rounds : Sound(Talk(l, n), l, n)
  /\ shown = FoldRounds(CollectMessages(said))

LEMMA LivesLemma == Lives \in Nat /\ 1 \in 1..Lives /\ \A n \in Rounds : n \in Nat /\ n > 0
  BY FoldAssumption DEF FoldAssumption

LEMMA TalkLemma ==
  ASSUME FoldInv, NEW l \in 1..Lives, NEW n \in Rounds
  PROVE  /\ Talk(l, n) \in Seq(AboutRound(n)) /\ Talk(l, n) \in Seq(Texts) /\ Sound(Talk(l, n), l, n)
         /\ \A v : \A m : m \in Of(l, n, v) <=> \E i \in DOMAIN Talk(l, n) : Talk(l, n)[i] = m /\ m.verb = v
         /\ \A v : IsSaid(l, n, v) <=> Says(Talk(l, n), v)
         /\ Confirmed(l, n) <=> IsConfirmed(Talk(l, n), l, n)
<1>1. PICK s \in Seq(Texts) : s = said[l]
  BY DEF FoldInv
<1>2. PICK ms : ms = Talk(l, n)
  OBVIOUS
<1>3. Sound(ms, l, n) /\ ms \in Seq(AboutRound(n)) /\ ms \in Seq(Texts)
  BY <1>2, AboutTexts DEF FoldInv, Sound
<1>4. ToSet(ms) = {m \in ToSet(s) : m.fields.round = n}
  BY <1>1, <1>2, OfRoundLemma DEF Talk
<1>5. \A m : m \in ToSet(ms) <=> \E i \in DOMAIN ms : ms[i] = m
  BY DEF ToSet
<1>6. \A v : \A m : m \in Of(l, n, v) <=> m \in ToSet(ms) /\ m.verb = v
  BY <1>1, <1>4 DEF Of
<1>7. \A v : \A m : m \in Of(l, n, v) <=> \E i \in DOMAIN ms : ms[i] = m /\ m.verb = v
  BY <1>5, <1>6
<1>8. ASSUME NEW v PROVE IsSaid(l, n, v) <=> Says(ms, v)
  <2>1. IsSaid(l, n, v) <=> \E m : m \in Of(l, n, v)
    BY DEF IsSaid
  <2> QED
    BY <1>7, <2>1 DEF Says
<1>9. Confirmed(l, n) <=> IsConfirmed(ms, l, n)
  <2>1. ASSUME Confirmed(l, n) PROVE IsConfirmed(ms, l, n)
    <3>1. PICK m \in Of(l, n, "PAYMENT_CONFIRMED") : m.fields.reference = Order(l, n) /\ m.fields.paid
      BY <2>1 DEF Confirmed
    <3>2. PICK i \in DOMAIN ms : ms[i] = m /\ m.verb = "PAYMENT_CONFIRMED"
      BY <1>7, <3>1
    <3> QED
      BY <3>1, <3>2 DEF IsConfirmed
  <2>2. ASSUME IsConfirmed(ms, l, n) PROVE Confirmed(l, n)
    <3>1. PICK i \in DOMAIN ms :
            ms[i].verb = "PAYMENT_CONFIRMED" /\ ms[i].fields.reference = Order(l, n) /\ ms[i].fields.paid
      BY <2>2 DEF IsConfirmed
    <3>2. ms[i] \in Of(l, n, "PAYMENT_CONFIRMED")
      BY <1>7, <3>1
    <3> QED
      BY <3>1, <3>2 DEF Confirmed
  <2> QED
    BY <2>1, <2>2
<1> QED
  BY <1>2, <1>3, <1>7, <1>8, <1>9

(* Once terms are said, the rail of the order's own is what every message about the order has. *)
LEMMA RailLemma ==
  ASSUME FoldInv, NEW l \in 1..Lives, NEW n \in Rounds, Says(Talk(l, n), "PAYMENT_REQUIRED")
  PROVE  /\ RailOf(l, n) \in Rails
         /\ \E i \in DOMAIN Talk(l, n) : /\ Talk(l, n)[i].verb = "PAYMENT_REQUIRED"
                                         /\ Talk(l, n)[i].fields.reference = Order(l, n) /\ Talk(l, n)[i].fields.rail = RailOf(l, n)
         /\ \A i \in DOMAIN Talk(l, n) : Talk(l, n)[i].verb \in PaymentVerbs /\ Talk(l, n)[i].fields.reference = Order(l, n) =>
              Talk(l, n)[i].fields.rail = RailOf(l, n)
<1>1. PICK ms : ms = Talk(l, n)
  OBVIOUS
<1>2. ms \in Seq(Texts) /\ Sound(ms, l, n) /\ Orderly(ms) /\ \A i \in DOMAIN ms : ms[i] \in Texts
  <2>1. ms \in Seq(Texts) /\ Sound(ms, l, n)
    BY <1>1, TalkLemma
  <2>2. \A i \in DOMAIN ms : ms[i] \in Texts
    BY <2>1
  <2> QED
    BY <2>1, <2>2 DEF Sound
<1>3. PICK i \in DOMAIN ms : ms[i].verb = "PAYMENT_REQUIRED"
  BY <1>1 DEF Says
<1>4. ASSUME NEW j \in DOMAIN ms, ms[j].verb \in PaymentVerbs, ms[j].fields.reference = Order(l, n)
      PROVE  \E k \in DOMAIN ms : /\ ms[k].verb = "PAYMENT_REQUIRED" /\ ms[k].fields.reference = Order(l, n)
                                  /\ ms[k].fields.rail = ms[j].fields.rail
  <2>1. CASE ms[j].verb = "PAYMENT_REQUIRED"
    BY <1>4, <2>1
  <2>2. CASE ms[j].verb # "PAYMENT_REQUIRED"
    <3>1. Follows(ms, j, "PAYMENT_REQUIRED")
      BY <1>2, <1>4, <2>2 DEF Orderly, PaymentVerbs
    <3>2. PICK k \in DOMAIN ms : ms[k].verb = "PAYMENT_REQUIRED" /\ SamePayment(ms[k], ms[j])
      BY <3>1 DEF Follows
    <3>3. ms[k].fields.rail = ms[j].fields.rail /\ ms[k].fields.reference = ms[j].fields.reference
      BY <3>2, SamePaymentLemma
    <3> QED
      BY <1>4, <3>2, <3>3
  <2> QED
    BY <2>1, <2>2
<1>5. \E j \in DOMAIN ms : ms[j].verb = "PAYMENT_REQUIRED" /\ ms[j].fields.reference = Order(l, n)
  <2>1. CASE ms[i].fields.reference = Order(l, n)
    BY <1>3, <2>1
  <2>2. CASE ms[i].fields.reference # Order(l, n)
    <3>1. IsConfirmed(ms, l, n)
      BY <1>2, <1>3, <2>2 DEF Sound, PaymentVerbs
    <3>2. PICK j \in DOMAIN ms : ms[j].verb = "PAYMENT_CONFIRMED" /\ ms[j].fields.reference = Order(l, n)
      BY <3>1 DEF IsConfirmed
    <3> QED
      BY <1>4, <3>2 DEF PaymentVerbs
  <2> QED
    BY <2>1, <2>2
<1>6. \A m : m \in Of(l, n, "PAYMENT_REQUIRED") <=> \E j \in DOMAIN ms : ms[j] = m /\ m.verb = "PAYMENT_REQUIRED"
  BY <1>1, TalkLemma
<1>7. PICK m : m = CHOOSE t \in Of(l, n, "PAYMENT_REQUIRED") : t.fields.reference = Order(l, n)
  OBVIOUS
<1>8. m \in Of(l, n, "PAYMENT_REQUIRED") /\ m.fields.reference = Order(l, n)
  BY <1>5, <1>6, <1>7
<1>9. PICK k \in DOMAIN ms : ms[k] = m /\ m.verb = "PAYMENT_REQUIRED"
  BY <1>6, <1>8
<1>10. RailOf(l, n) = ms[k].fields.rail
  BY <1>7, <1>9 DEF RailOf
<1>11. ASSUME NEW j \in DOMAIN ms, ms[j].verb = "PAYMENT_REQUIRED", ms[j].fields.reference = Order(l, n) PROVE j = k
  BY <1>2, <1>8, <1>9, <1>11 DEF Orderly
<1>12. \A j \in DOMAIN ms : ms[j].verb \in PaymentVerbs /\ ms[j].fields.reference = Order(l, n) =>
         ms[j].fields.rail = RailOf(l, n)
  BY <1>4, <1>10, <1>11
<1>13. RailOf(l, n) \in Rails
  <2>1. ms[k] \in Texts /\ ms[k].thread = l /\ ms[k].fields.reference = Order(l, n) /\ ms[k].verb \in PaymentVerbs
    BY <1>2, <1>8, <1>9 DEF Sound, PaymentVerbs
  <2>2. ms[k].fields.rail \in Rails \/ ms[k].fields.reference = Upstream(l, ms[k].fields.round)
    BY <2>1, FieldsLemma
  <2>3. Order(l, n) # Upstream(l, ms[k].fields.round)
    BY DEF Order, Upstream
  <2> QED
    BY <1>10, <2>1, <2>2, <2>3
<1> QED
  BY <1>1, <1>8, <1>9, <1>10, <1>12, <1>13

(* More is said of a round in a thread. *)
Speaks(l, p) ==
  /\ said' = [said EXCEPT ![l] = @ \o p]
  /\ shown' = FoldRounds(CollectMessages(said')) /\ life' = life

Uttered(l, n) ==
  \E p \in Seq(TextsOf(l, n)) :
    Speaks(l, p) /\ Sound(Talk(l, n) \o p, l, n) /\ Keeps(Talk(l, n), Talk(l, n) \o p)

LEMMA TextsOfRound ==
  ASSUME NEW l \in 1..Lives, NEW n \in Rounds
  PROVE  /\ Seq(TextsOf(l, n)) \subseteq Seq(Texts)
         /\ \A p \in Seq(TextsOf(l, n)) : \A m : OfRound(p, m) = IF m = n THEN p ELSE <<>>
<1>1. \A x \in TextsOf(l, n) : x \in Texts /\ x.fields.round = n
  BY TextOfRound
<1>2. TextsOf(l, n) \subseteq Texts
  BY <1>1
<1>3. Seq(TextsOf(l, n)) \subseteq Seq(Texts)
  BY <1>2, SeqMonotonic
<1>4. ASSUME NEW p \in Seq(TextsOf(l, n)), NEW m PROVE OfRound(p, m) = IF m = n THEN p ELSE <<>>
  <2>1. ToSet(p) \subseteq TextsOf(l, n)
    BY DEF ToSet
  <2>2. PICK P : P = {x \in ToSet(p) : x.fields.round = m}
    OBVIOUS
  <2>3. OfRound(p, m) = Only(p, P)
    BY <2>2 DEF OfRound
  <2>4. (m = n => ToSet(p) \subseteq P) /\ (m # n => ToSet(p) \cap P = {})
    BY <1>1, <2>1, <2>2
  <2> QED
    BY <2>3, <2>4, OnlyAll
<1> QED
  BY <1>3, <1>4

LEMMA SpeaksLemma ==
  ASSUME FoldInv, NEW l \in 1..life, NEW n \in Rounds, NEW p \in Seq(TextsOf(l, n)), Speaks(l, p),
         Sound(Talk(l, n) \o p, l, n)
  PROVE  /\ FoldInv'
         /\ \A k \in 1..Lives : \A m \in Rounds : Talk(k, m)' = IF k = l /\ m = n THEN Talk(l, n) \o p ELSE Talk(k, m)
<1>1. Lives \in Nat /\ life \in 1..Lives /\ l \in 1..Lives /\ life' = life
  BY LivesLemma DEF FoldInv, Speaks
<1>2. p \in Seq(Texts) /\ \A m : OfRound(p, m) = IF m = n THEN p ELSE <<>>
  BY <1>1, TextsOfRound
<1>3. PICK s \in Seq(Texts) : s = said[l]
  BY <1>1 DEF FoldInv
<1>4. s \o p \in Seq(Texts)
  BY <1>2, ConcatLemma
<1>5. said' \in [1..Lives -> Seq(Texts)] /\ said'[l] = s \o p /\ \A k \in 1..Lives : k # l => said'[k] = said[k]
  BY <1>1, <1>3, <1>4 DEF FoldInv, Speaks
<1>6. ASSUME NEW k \in 1..Lives, NEW m \in Rounds
      PROVE  Talk(k, m)' = IF k = l /\ m = n THEN Talk(l, n) \o p ELSE Talk(k, m)
  <2>1. Talk(k, m)' = OfRound(said'[k], m)
    BY DEF Talk
  <2>2. CASE k # l
    BY <1>5, <2>1, <2>2 DEF Talk
  <2>3. CASE k = l
    <3>1. OfRound(s \o p, m) = OfRound(s, m) \o OfRound(p, m)
      BY <1>2, OfRoundConcat
    <3>2. OfRound(s, m) \in Seq(Texts) /\ OfRound(s, m) = Talk(l, m)
      BY <1>3, OfRoundLemma DEF Talk
    <3>3. OfRound(s, m) \o <<>> = OfRound(s, m)
      BY <3>2
    <3> QED
      BY <1>2, <1>5, <2>1, <2>3, <3>1, <3>2, <3>3
  <2> QED
    BY <2>2, <2>3
<1>7. \A k \in 1..Lives : k > life' => said'[k] = <<>>
  BY <1>1, <1>5 DEF FoldInv
<1>8. \A k \in 1..Lives : \A m \in Rounds : Sound(Talk(k, m)', k, m)
  BY <1>6 DEF FoldInv
<1>9. FoldInv'
  BY <1>1, <1>5, <1>7, <1>8 DEF FoldInv, Speaks
<1> QED
  BY <1>6, <1>9

LEMMA PostedLemma ==
  ASSUME NEW l \in 1..Lives, NEW n \in Rounds, NEW v \in Verbs, NEW d \in Drafts(l, n, v)
  PROVE  /\ Posted(l, d) \in TextsOf(l, n) /\ Posted(l, d) \in Texts
         /\ Posted(l, d).verb = v /\ Posted(l, d).fields = d.fields
<1>1. Posted(l, d) \in TextsOf(l, n)
  <2>1. Posted(l, d) \in {Posted(l, e) : e \in Drafts(l, n, v)}
    OBVIOUS
  <2> QED
    BY <2>1, Zenon DEF TextsOf
<1> QED
  BY <1>1, TextOfRound DEF Posted, Drafts

LEMMA MsgLemma ==
  ASSUME NEW l \in 1..Lives, NEW n \in Rounds, NEW v \in Verbs, v # "BID", NEW f \in FieldsOf(l, n, v)
  PROVE  /\ Msg(v, f) \in Drafts(l, n, v)
         /\ Posted(l, Msg(v, f)) \in TextsOf(l, n) /\ Posted(l, Msg(v, f)) \in Texts
         /\ Posted(l, Msg(v, f)).verb = v /\ Posted(l, Msg(v, f)).fields = f
<1>1. Msg(v, f) \in Drafts(l, n, v) /\ Msg(v, f).fields = f
  BY DEF Msg, Drafts, FreeOf
<1> QED
  BY <1>1, PostedLemma

(* A message that may follow what was said. *)
LEMMA UtterOne ==
  ASSUME FoldInv, NEW l \in 1..life, NEW n \in Rounds, NEW d, Say(l, n, <<d>>),
         MayFollow(Talk(l, n), Posted(l, d), l, n)
  PROVE  Uttered(l, n)
<1>1. l \in 1..Lives
  BY LivesLemma DEF FoldInv
<1>2. PICK x \in TextsOf(l, n) : x = Posted(l, d)
  BY DEF MayFollow
<1>3. <<x>> \in Seq(TextsOf(l, n)) /\ Len(<<x>>) = 1 /\ <<x>>[1] = x
  OBVIOUS
<1>4. [i \in DOMAIN <<d>> |-> Posted(l, <<d>>[i])] = <<x>>
  BY <1>2
<1>5. Speaks(l, <<x>>)
  BY <1>4 DEF Say, Speaks
<1>6. Talk(l, n) \in Seq(Texts) /\ Sound(Talk(l, n), l, n)
  BY <1>1, TalkLemma
<1>7. x \in Texts
  BY <1>1, TextOfRound
<1>8. Talk(l, n) \o <<x>> = Append(Talk(l, n), x)
  BY <1>6, <1>7, AppendProperties
<1>9. Sound(Append(Talk(l, n), x), l, n) /\ Keeps(Talk(l, n), Append(Talk(l, n), x))
  BY <1>1, <1>2, <1>6, FollowLemma
<1> QED
  BY <1>3, <1>5, <1>8, <1>9 DEF Uttered

(* A message of no payment may follow where its kind may. *)
LEMMA PlainMessage ==
  ASSUME NEW ms, NEW l \in 1..Lives, NEW n \in Rounds, NEW x \in TextsOf(l, n), x.verb \notin PaymentVerbs,
         x.verb = "DELIVERED" => IsConfirmed(ms, l, n),
         x.verb = "VERIFIED" => Says(ms, "DELIVERED"),
         x.verb \in {"AWARD", "VERIFIED"} => ~Says(ms, x.verb),
         x.verb \in Ends => ~Says(ms, "SETTLED") /\ ~Says(ms, "REFUNDED")
  PROVE  MayFollow(ms, x, l, n)
  BY DEF MayFollow, Continues, PaymentVerbs

LEMMA WantSays ==
  ASSUME FoldInv, NEW n \in Rounds, Want(n)
  PROVE  Uttered(life, n)
<1>1. life \in 1..life /\ life \in 1..Lives
  BY DEF FoldInv
<1>2. PICK f : f = [round |-> n, service |-> "edge", arg |-> n, budget |-> 2]
  OBVIOUS
<1>3. f \in FieldsOf(life, n, "WANT") /\ "WANT" \in Verbs
  BY <1>2 DEF FieldsOf, Verbs
<1>4. Posted(life, Msg("WANT", f)) \in TextsOf(life, n) /\ Posted(life, Msg("WANT", f)).verb = "WANT"
  BY <1>1, <1>3, MsgLemma
<1>5. Say(life, n, <<Msg("WANT", f)>>)
  BY <1>2 DEF Want
<1>6. MayFollow(Talk(life, n), Posted(life, Msg("WANT", f)), life, n)
  BY <1>1, <1>4, PlainMessage DEF PaymentVerbs, Ends
<1> QED
  BY <1>1, <1>5, <1>6, UtterOne

LEMMA BidSays ==
  ASSUME FoldInv, NEW l \in 1..life, NEW n \in Rounds, NEW s \in Sellers, NEW note \in Notes, Bid(l, n, s, note)
  PROVE  Uttered(l, n)
<1>1. l \in 1..Lives
  BY LivesLemma DEF FoldInv
<1>2. PICK f : f = [round |-> n, price |-> 1, by |-> s]
  OBVIOUS
<1>3. f \in FieldsOf(l, n, "BID") /\ "BID" \in Verbs
  BY <1>2 DEF FieldsOf, Verbs
<1>4. PICK d : d = [verb |-> "BID", fields |-> f, free |-> note]
  OBVIOUS
<1>5. d \in Drafts(l, n, "BID")
  BY <1>3, <1>4 DEF Drafts, FreeOf
<1>6. Posted(l, d) \in TextsOf(l, n) /\ Posted(l, d).verb = "BID"
  BY <1>1, <1>3, <1>5, PostedLemma
<1>7. Say(l, n, <<d>>)
  BY <1>2, <1>4 DEF Bid, Msg
<1>8. MayFollow(Talk(l, n), Posted(l, d), l, n)
  BY <1>1, <1>6, PlainMessage DEF PaymentVerbs, Ends
<1> QED
  BY <1>7, <1>8, UtterOne

LEMMA AwardSays ==
  ASSUME FoldInv, NEW l \in 1..life, NEW n \in Rounds, NEW s \in Sellers, Award(l, n, s)
  PROVE  Uttered(l, n)
<1>1. l \in 1..Lives
  BY LivesLemma DEF FoldInv
<1>2. PICK f : f = [round |-> n, to |-> s]
  OBVIOUS
<1>3. f \in FieldsOf(l, n, "AWARD") /\ "AWARD" \in Verbs
  BY <1>2 DEF FieldsOf, Verbs
<1>4. Posted(l, Msg("AWARD", f)) \in TextsOf(l, n) /\ Posted(l, Msg("AWARD", f)).verb = "AWARD"
  BY <1>1, <1>3, MsgLemma
<1>5. Say(l, n, <<Msg("AWARD", f)>>) /\ ~IsSaid(l, n, "AWARD")
  BY <1>2 DEF Award
<1>6. ~Says(Talk(l, n), "AWARD")
  BY <1>1, <1>5, TalkLemma
<1>7. MayFollow(Talk(l, n), Posted(l, Msg("AWARD", f)), l, n)
  BY <1>1, <1>4, <1>6, PlainMessage DEF PaymentVerbs, Ends
<1> QED
  BY <1>5, <1>7, UtterOne

LEMMA DeliverSays ==
  ASSUME FoldInv, NEW l \in 1..life, NEW n \in Rounds, Deliver(l, n)
  PROVE  Uttered(l, n)
<1>1. l \in 1..Lives
  BY LivesLemma DEF FoldInv
<1>2. PICK f : f = [round |-> n]
  OBVIOUS
<1>3. f \in FieldsOf(l, n, "DELIVERED") /\ "DELIVERED" \in Verbs
  BY <1>2 DEF FieldsOf, Verbs
<1>4. Posted(l, Msg("DELIVERED", f)) \in TextsOf(l, n) /\ Posted(l, Msg("DELIVERED", f)).verb = "DELIVERED"
  BY <1>1, <1>3, MsgLemma
<1>5. Say(l, n, <<Msg("DELIVERED", f)>>) /\ Confirmed(l, n)
  BY <1>2 DEF Deliver
<1>6. IsConfirmed(Talk(l, n), l, n)
  BY <1>1, <1>5, TalkLemma
<1>7. MayFollow(Talk(l, n), Posted(l, Msg("DELIVERED", f)), l, n)
  BY <1>1, <1>4, <1>6, PlainMessage DEF PaymentVerbs, Ends
<1> QED
  BY <1>5, <1>7, UtterOne

LEMMA VerifySays ==
  ASSUME FoldInv, NEW l \in 1..life, NEW n \in Rounds, NEW verdict \in {"pass", "fail"}, Verify(l, n, verdict)
  PROVE  Uttered(l, n)
<1>1. l \in 1..Lives
  BY LivesLemma DEF FoldInv
<1>2. PICK f : f = [round |-> n, verdict |-> verdict, by |-> "verifier"]
  OBVIOUS
<1>3. f \in FieldsOf(l, n, "VERIFIED") /\ "VERIFIED" \in Verbs
  BY <1>2 DEF FieldsOf, Verbs
<1>4. Posted(l, Msg("VERIFIED", f)) \in TextsOf(l, n) /\ Posted(l, Msg("VERIFIED", f)).verb = "VERIFIED"
  BY <1>1, <1>3, MsgLemma
<1>5. Say(l, n, <<Msg("VERIFIED", f)>>) /\ IsSaid(l, n, "DELIVERED") /\ ~IsSaid(l, n, "VERIFIED")
  BY <1>2 DEF Verify
<1>6. Says(Talk(l, n), "DELIVERED") /\ ~Says(Talk(l, n), "VERIFIED")
  BY <1>1, <1>5, TalkLemma
<1>7. MayFollow(Talk(l, n), Posted(l, Msg("VERIFIED", f)), l, n)
  BY <1>1, <1>4, <1>6, PlainMessage DEF PaymentVerbs, Ends
<1> QED
  BY <1>5, <1>7, UtterOne

LEMMA EndSays ==
  ASSUME FoldInv, NEW l \in 1..life, NEW n \in Rounds, NEW v \in Ends, End(l, n, v), ~Ended(l, n),
         Says(Talk(l, n), "PAYMENT_REQUIRED")
  PROVE  Uttered(l, n)
<1>1. l \in 1..Lives
  BY LivesLemma DEF FoldInv
<1>2. PICK f : f = [round |-> n, rail |-> RailOf(l, n), reference |-> Order(l, n)]
  OBVIOUS
<1>3. PICK p : p = [rail |-> RailOf(l, n), reference |-> Order(l, n), proof |-> "signed", buyer |-> "wallet"]
  OBVIOUS
<1>4. p \in Orders(l, n)
  BY <1>1, <1>3, RailLemma DEF Orders
<1>5. f \in FieldsOf(l, n, v) /\ v \in Verbs /\ v # "BID"
  <2>1. f = [round |-> n, rail |-> p.rail, reference |-> p.reference]
    BY <1>2, <1>3
  <2>2. FieldsOf(l, n, v) = {[round |-> n, rail |-> q.rail, reference |-> q.reference] : q \in Orders(l, n)}
    BY DEF FieldsOf, Ends
  <2> QED
    BY <1>4, <2>1, <2>2 DEF Verbs, Ends
<1>6. Posted(l, Msg(v, f)) \in TextsOf(l, n) /\ Posted(l, Msg(v, f)).verb = v
  BY <1>1, <1>5, MsgLemma
<1>7. Say(l, n, <<Msg(v, f)>>) /\ ~IsSaid(l, n, "SETTLED") /\ ~IsSaid(l, n, "REFUNDED")
  BY <1>2 DEF End, Ended
<1>8. ~Says(Talk(l, n), "SETTLED") /\ ~Says(Talk(l, n), "REFUNDED")
  BY <1>1, <1>7, TalkLemma
<1>9. MayFollow(Talk(l, n), Posted(l, Msg(v, f)), l, n)
  BY <1>1, <1>6, <1>8, PlainMessage DEF PaymentVerbs, Ends
<1> QED
  BY <1>7, <1>9, UtterOne

(* What is confirmed has been asked for. *)
LEMMA ConfirmedWasRequired ==
  ASSUME FoldInv, NEW l \in 1..Lives, NEW n \in Rounds, IsConfirmed(Talk(l, n), l, n)
  PROVE  Says(Talk(l, n), "PAYMENT_REQUIRED")
<1>1. PICK ms : ms = Talk(l, n)
  OBVIOUS
<1>2. PICK i \in DOMAIN ms : ms[i].verb = "PAYMENT_CONFIRMED"
  BY <1>1 DEF IsConfirmed
<1>3. Orderly(ms)
  BY <1>1, TalkLemma DEF Sound
<1>4. Follows(ms, i, "PAYMENT_REQUIRED")
  BY <1>2, <1>3 DEF Orderly
<1> QED
  BY <1>1, <1>4 DEF Follows, Says

LEMMA SettleSays ==
  ASSUME FoldInv, NEW l \in 1..life, NEW n \in Rounds, Settle(l, n)
  PROVE  Uttered(l, n)
<1>1. l \in 1..Lives
  BY LivesLemma DEF FoldInv
<1>2. IsSaid(l, n, "DELIVERED") /\ ~Ended(l, n) /\ End(l, n, "SETTLED")
  BY DEF Settle
<1>3. Says(Talk(l, n), "DELIVERED") /\ Sound(Talk(l, n), l, n)
  BY <1>1, <1>2, TalkLemma
<1>4. IsConfirmed(Talk(l, n), l, n)
  BY <1>3 DEF Says, Sound
<1> QED
  BY <1>1, <1>2, <1>4, ConfirmedWasRequired, EndSays DEF Ends

LEMMA RefundSays ==
  ASSUME FoldInv, NEW l \in 1..life, NEW n \in Rounds, Refund(l, n)
  PROVE  Uttered(l, n)
<1>1. l \in 1..Lives
  BY LivesLemma DEF FoldInv
<1>2. Confirmed(l, n) /\ ~Ended(l, n) /\ End(l, n, "REFUNDED")
  BY DEF Refund
<1>3. IsConfirmed(Talk(l, n), l, n)
  BY <1>1, <1>2, TalkLemma
<1> QED
  BY <1>1, <1>2, <1>3, ConfirmedWasRequired, EndSays DEF Ends

(* A payment's later messages follow its terms. *)
LEMMA PaymentsHaveTerms ==
  ASSUME NEW ms, NEW l, NEW n, Sound(ms, l, n), NEW i \in DOMAIN ms, ms[i].verb \in PaymentVerbs
  PROVE  \E j \in DOMAIN ms : ms[j].verb = "PAYMENT_REQUIRED" /\ ms[j].fields.reference = ms[i].fields.reference
<1>1. CASE ms[i].verb = "PAYMENT_REQUIRED"
  BY <1>1
<1>2. CASE ms[i].verb # "PAYMENT_REQUIRED"
  <2>1. Follows(ms, i, "PAYMENT_REQUIRED")
    BY <1>2 DEF Sound, Orderly, PaymentVerbs
  <2>2. PICK j \in DOMAIN ms : ms[j].verb = "PAYMENT_REQUIRED" /\ SamePayment(ms[j], ms[i])
    BY <2>1 DEF Follows
  <2> QED
    BY <2>2, SamePaymentLemma
<1> QED
  BY <1>1, <1>2

LEMMA TermsSays ==
  ASSUME FoldInv, NEW l \in 1..life, NEW n \in Rounds, NEW rail \in Rails, Terms(l, n, rail)
  PROVE  Uttered(l, n)
<1>1. l \in 1..Lives
  BY LivesLemma DEF FoldInv
<1>2. PICK f : f = [round |-> n, rail |-> rail, amount |-> 1, currency |-> "SOL", reference |-> Order(l, n)]
  OBVIOUS
<1>3. PICK p : p = [rail |-> rail, reference |-> Order(l, n), proof |-> "signed", buyer |-> "wallet"]
  OBVIOUS
<1>4. p \in Payments(l, n)
  BY <1>3 DEF Payments, Orders
<1>5. f \in FieldsOf(l, n, "PAYMENT_REQUIRED") /\ "PAYMENT_REQUIRED" \in Verbs
  <2>1. f = [round |-> n, rail |-> p.rail, amount |-> 1, currency |-> "SOL", reference |-> p.reference]
    BY <1>2, <1>3
  <2> QED
    BY <1>4, <2>1 DEF FieldsOf, Verbs
<1>6. PICK x \in TextsOf(l, n) : x = Posted(l, Msg("PAYMENT_REQUIRED", f)) /\ x.verb = "PAYMENT_REQUIRED" /\ x.fields = f
  BY <1>1, <1>5, MsgLemma
<1>7. PICK ms : ms = Talk(l, n)
  OBVIOUS
<1>8. Say(l, n, <<Msg("PAYMENT_REQUIRED", f)>>) /\ ~IsSaid(l, n, "PAYMENT_REQUIRED")
  BY <1>2 DEF Terms
<1>9. Sound(ms, l, n) /\ ~Says(ms, "PAYMENT_REQUIRED")
  BY <1>1, <1>7, <1>8, TalkLemma
<1>10. \A j \in DOMAIN ms : ms[j].verb \notin PaymentVerbs
  BY <1>9, PaymentsHaveTerms DEF Says
<1>11. x.fields.reference = Order(l, n)
  BY <1>2, <1>6
<1>12. MayFollow(ms, x, l, n)
  BY <1>6, <1>10, <1>11 DEF MayFollow, Continues, Ends
<1> QED
  BY <1>6, <1>7, <1>8, <1>12, UtterOne

LEMMA PaySays ==
  ASSUME FoldInv, NEW l \in 1..life, NEW n \in Rounds, Pay(l, n)
  PROVE  Uttered(l, n)
<1>1. l \in 1..Lives
  BY LivesLemma DEF FoldInv
<1>2. PICK f : f = [round |-> n, rail |-> RailOf(l, n), reference |-> Order(l, n), proof |-> "signed", buyer |-> "wallet"]
  OBVIOUS
<1>3. PICK p : p = [rail |-> RailOf(l, n), reference |-> Order(l, n), proof |-> "signed", buyer |-> "wallet"]
  OBVIOUS
<1>4. Say(l, n, <<Msg("PAYMENT_PROOF", f)>>) /\ IsSaid(l, n, "PAYMENT_REQUIRED")
  BY <1>2 DEF Pay
<1>5. PICK ms : ms = Talk(l, n)
  OBVIOUS
<1>6. Says(ms, "PAYMENT_REQUIRED")
  BY <1>1, <1>4, <1>5, TalkLemma
<1>7. PICK i \in DOMAIN ms : ms[i].verb = "PAYMENT_REQUIRED" /\ ms[i].fields.reference = Order(l, n) /\ ms[i].fields.rail = RailOf(l, n)
  BY <1>1, <1>5, <1>6, RailLemma
<1>8. p \in Payments(l, n)
  BY <1>1, <1>3, <1>5, <1>6, RailLemma DEF Payments, Orders
<1>9. f \in FieldsOf(l, n, "PAYMENT_PROOF") /\ "PAYMENT_PROOF" \in Verbs
  <2>1. f = [round |-> n, rail |-> p.rail, reference |-> p.reference, proof |-> p.proof, buyer |-> p.buyer]
    BY <1>2, <1>3
  <2> QED
    BY <1>8, <2>1 DEF FieldsOf, Verbs
<1>10. PICK x \in TextsOf(l, n) : x = Posted(l, Msg("PAYMENT_PROOF", f)) /\ x.verb = "PAYMENT_PROOF" /\ x.fields = f
  BY <1>1, <1>9, MsgLemma
<1>11. x.fields.reference = Order(l, n) /\ x.fields.rail = RailOf(l, n)
  BY <1>2, <1>10
<1>12. SamePayment(ms[i], x)
  BY <1>7, <1>11, SamePaymentLemma
<1>13. MayFollow(ms, x, l, n)
  BY <1>7, <1>10, <1>11, <1>12 DEF MayFollow, Continues, Ends
<1> QED
  BY <1>4, <1>5, <1>10, <1>13, UtterOne

LEMMA ConfirmSays ==
  ASSUME FoldInv, NEW l \in 1..life, NEW n \in Rounds, NEW paid \in BOOLEAN, Confirm(l, n, paid)
  PROVE  Uttered(l, n)
<1>1. l \in 1..Lives
  BY LivesLemma DEF FoldInv
<1>2. PICK base : base = [round |-> n, rail |-> RailOf(l, n), reference |-> Order(l, n), paid |-> paid]
  OBVIOUS
<1>3. PICK f : f = IF paid THEN Put(base, "sig", "tx") ELSE base
  OBVIOUS
<1>4. PICK p : p = [rail |-> RailOf(l, n), reference |-> Order(l, n), proof |-> "signed", buyer |-> "wallet"]
  OBVIOUS
<1>5. Say(l, n, <<Msg("PAYMENT_CONFIRMED", f)>>) /\ IsSaid(l, n, "PAYMENT_PROOF") /\ ~IsSaid(l, n, "PAYMENT_CONFIRMED")
  BY <1>2, <1>3 DEF Confirm
<1>6. PICK ms : ms = Talk(l, n)
  OBVIOUS
<1>7. Says(ms, "PAYMENT_PROOF") /\ ~Says(ms, "PAYMENT_CONFIRMED") /\ Sound(ms, l, n)
  BY <1>1, <1>5, <1>6, TalkLemma
<1>8. PICK j \in DOMAIN ms : ms[j].verb = "PAYMENT_PROOF"
  BY <1>7 DEF Says
<1>9. ~IsConfirmed(ms, l, n)
  BY <1>7 DEF Says, IsConfirmed
<1>10. ms[j].fields.reference = Order(l, n)
  BY <1>7, <1>8, <1>9 DEF Sound, PaymentVerbs
<1>11. Says(ms, "PAYMENT_REQUIRED")
  BY <1>7, <1>8, PaymentsHaveTerms DEF Says, PaymentVerbs
<1>12. /\ RailOf(l, n) \in Rails
       /\ \E i \in DOMAIN ms : /\ ms[i].verb = "PAYMENT_REQUIRED"
                               /\ ms[i].fields.reference = Order(l, n) /\ ms[i].fields.rail = RailOf(l, n)
       /\ ms[j].fields.rail = RailOf(l, n)
  BY <1>1, <1>6, <1>8, <1>10, <1>11, RailLemma DEF PaymentVerbs
<1>13. p \in Orders(l, n) /\ p \in Payments(l, n)
  BY <1>4, <1>12 DEF Payments, Orders
<1>14. "PAYMENT_CONFIRMED" \in Verbs /\ f \in FieldsOf(l, n, "PAYMENT_CONFIRMED")
  <2>1. CASE paid
    <3>1. f = [x \in {"sig"} \cup DOMAIN base |-> IF x = "sig" THEN "tx" ELSE base[x]]
      BY <1>3, <2>1 DEF Put
    <3>2. f = [round |-> n, rail |-> RailOf(l, n), reference |-> Order(l, n), paid |-> TRUE, sig |-> "tx"]
      BY <1>2, <2>1, <3>1
    <3>3. f = [round |-> n, rail |-> p.rail, reference |-> p.reference, paid |-> TRUE, sig |-> "tx"]
      BY <1>4, <3>2
    <3> QED
      BY <1>13, <3>3 DEF FieldsOf, Verbs
  <2>2. CASE ~paid
    <3>1. f = [round |-> n, rail |-> p.rail, reference |-> p.reference, paid |-> FALSE]
      BY <1>2, <1>3, <1>4, <2>2
    <3> QED
      BY <1>13, <3>1 DEF FieldsOf, Verbs
  <2> QED
    BY <2>1, <2>2
<1>15. PICK x \in TextsOf(l, n) : x = Posted(l, Msg("PAYMENT_CONFIRMED", f)) /\ x.verb = "PAYMENT_CONFIRMED" /\ x.fields = f
  BY <1>1, <1>14, MsgLemma
<1>16. f.reference = Order(l, n) /\ f.rail = RailOf(l, n)
  BY <1>2, <1>3 DEF Put
<1>17. SamePayment(ms[j], x)
  BY <1>10, <1>12, <1>15, <1>16, SamePaymentLemma
<1>18. \E i \in DOMAIN ms : ms[i].verb = "PAYMENT_REQUIRED" /\ SamePayment(ms[i], x)
  BY <1>12, <1>15, <1>16, SamePaymentLemma
<1>19. MayFollow(ms, x, l, n)
  BY <1>8, <1>15, <1>16, <1>17, <1>18 DEF MayFollow, Continues, Ends
<1> QED
  BY <1>5, <1>6, <1>15, <1>19, UtterOne

(* The seller's purchase: three messages, each of which may follow the ones before. *)
LEMMA PurchaseFollows ==
  ASSUME NEW l \in 1..Lives, NEW n \in Rounds, NEW ms, Sound(ms, l, n), IsConfirmed(ms, l, n),
         \A i \in DOMAIN ms : ms[i].verb = "PAYMENT_REQUIRED" => ms[i].fields.reference = Order(l, n),
         NEW x \in TextsOf(l, n), NEW y \in TextsOf(l, n), NEW z \in TextsOf(l, n),
         x.verb = "PAYMENT_REQUIRED", y.verb = "PAYMENT_PROOF", z.verb = "PAYMENT_CONFIRMED",
         x.fields.reference = Upstream(l, n), SamePayment(x, y), SamePayment(x, z)
  PROVE  LET w == Append(Append(Append(ms, x), y), z) IN Sound(w, l, n) /\ Keeps(ms, w)
<1>1. ms \in Seq(Texts)
  BY AboutTexts DEF Sound
<1>2. x \in Texts /\ y \in Texts /\ z \in Texts
  BY TextOfRound
<1>3. PICK k \in Nat : k = Len(ms) /\ DOMAIN ms = 1..k
  BY <1>1, LenProperties
<1>4. PICK u \in Seq(Texts) : u = Append(ms, x)
  BY <1>1, <1>2, AppendLemma
<1>5. DOMAIN u = 1..(k + 1) /\ u[k + 1] = x /\ Len(u) = k + 1
  BY <1>1, <1>2, <1>3, <1>4, AppendLemma
<1>6. PICK v \in Seq(Texts) : v = Append(u, y)
  BY <1>2, AppendLemma
<1>7. DOMAIN v = 1..(k + 1 + 1) /\ (\A i \in 1..(k + 1) : v[i] = u[i]) /\ v[k + 1 + 1] = y
  BY <1>2, <1>5, <1>6, AppendLemma
<1>8. k + 1 \in 1..(k + 1) /\ k + 1 \in 1..(k + 1 + 1) /\ k + 1 + 1 \in 1..(k + 1 + 1)
  OBVIOUS
<1>9. MayFollow(ms, x, l, n)
  <2>1. \A j \in DOMAIN ms : ms[j].verb \in PaymentVerbs => ms[j].fields.reference = Order(l, n)
    BY PaymentsHaveTerms
  <2>2. Order(l, n) # Upstream(l, n)
    BY DEF Order, Upstream
  <2> QED
    BY <2>1, <2>2 DEF MayFollow, Continues, Ends
<1>10. Sound(u, l, n) /\ Keeps(ms, u)
  BY <1>4, <1>9, FollowLemma
<1>11. IsConfirmed(u, l, n)
  BY <1>1, <1>2, <1>4, SaysAppend
<1>12. MayFollow(u, y, l, n)
  <2>1. \E j \in DOMAIN u : u[j].verb = "PAYMENT_REQUIRED" /\ SamePayment(u[j], y)
    BY <1>5, <1>8
  <2> QED
    BY <1>11, <2>1 DEF MayFollow, Continues, Ends
<1>13. Sound(v, l, n) /\ Keeps(u, v)
  BY <1>6, <1>10, <1>12, FollowLemma
<1>14. IsConfirmed(v, l, n)
  BY <1>2, <1>6, <1>11, SaysAppend
<1>15. MayFollow(v, z, l, n)
  <2>1. \E j \in DOMAIN v : v[j].verb = "PAYMENT_REQUIRED" /\ SamePayment(v[j], z)
    BY <1>5, <1>7, <1>8
  <2>2. SamePayment(y, z)
    BY DEF SamePayment
  <2>3. \E j \in DOMAIN v : v[j].verb = "PAYMENT_PROOF" /\ SamePayment(v[j], z)
    BY <1>7, <1>8, <2>2
  <2> QED
    BY <1>14, <2>1, <2>3 DEF MayFollow, Continues, Ends
<1>16. Sound(Append(v, z), l, n) /\ Keeps(v, Append(v, z))
  BY <1>13, <1>15, FollowLemma
<1>17. Keeps(ms, Append(v, z))
  BY <1>10, <1>13, <1>16, KeepsOn
<1> QED
  BY <1>4, <1>6, <1>16, <1>17

LEMMA ProcureSays ==
  ASSUME FoldInv, NEW l \in 1..life, NEW n \in Rounds, Procure(l, n)
  PROVE  Uttered(l, n)
<1>1. l \in 1..Lives
  BY LivesLemma DEF FoldInv
<1>2. PICK ref : ref = Upstream(l, n)
  OBVIOUS
<1>3. PICK p : p = [rail |-> "x402", reference |-> ref, proof |-> "tx", buyer |-> "seller"]
  OBVIOUS
<1>4. p \in Payments(l, n)
  BY <1>2, <1>3 DEF Payments, Purchases
<1>5. PICK f : f = [round |-> n, rail |-> "x402", amount |-> 1, currency |-> "SOL", reference |-> ref]
  OBVIOUS
<1>6. PICK g : g = [round |-> n, rail |-> "x402", reference |-> ref, proof |-> "tx", buyer |-> "seller"]
  OBVIOUS
<1>7. PICK h : h = [round |-> n, rail |-> "x402", reference |-> ref, paid |-> TRUE, sig |-> "tx"]
  OBVIOUS
<1>8. f \in FieldsOf(l, n, "PAYMENT_REQUIRED") /\ "PAYMENT_REQUIRED" \in Verbs
  <2>1. f = [round |-> n, rail |-> p.rail, amount |-> 1, currency |-> "SOL", reference |-> p.reference]
    BY <1>3, <1>5
  <2> QED
    BY <1>4, <2>1 DEF FieldsOf, Verbs
<1>9. g \in FieldsOf(l, n, "PAYMENT_PROOF") /\ "PAYMENT_PROOF" \in Verbs
  <2>1. g = [round |-> n, rail |-> p.rail, reference |-> p.reference, proof |-> p.proof, buyer |-> p.buyer]
    BY <1>3, <1>6
  <2> QED
    BY <1>4, <2>1 DEF FieldsOf, Verbs
<1>10. h \in FieldsOf(l, n, "PAYMENT_CONFIRMED") /\ "PAYMENT_CONFIRMED" \in Verbs
  <2>1. h = [round |-> n, rail |-> p.rail, reference |-> p.reference, paid |-> TRUE, sig |-> "tx"]
    BY <1>3, <1>7
  <2> QED
    BY <1>4, <2>1 DEF FieldsOf, Verbs
<1>11. PICK x \in TextsOf(l, n) : x = Posted(l, Msg("PAYMENT_REQUIRED", f)) /\ x.verb = "PAYMENT_REQUIRED" /\ x.fields = f
  BY <1>1, <1>8, MsgLemma
<1>12. PICK y \in TextsOf(l, n) : y = Posted(l, Msg("PAYMENT_PROOF", g)) /\ y.verb = "PAYMENT_PROOF" /\ y.fields = g
  BY <1>1, <1>9, MsgLemma
<1>13. PICK z \in TextsOf(l, n) : z = Posted(l, Msg("PAYMENT_CONFIRMED", h)) /\ z.verb = "PAYMENT_CONFIRMED" /\ z.fields = h
  BY <1>1, <1>10, MsgLemma
<1>14. x.fields.reference = ref /\ SamePayment(x, y) /\ SamePayment(x, z)
  BY <1>5, <1>6, <1>7, <1>11, <1>12, <1>13, SamePaymentLemma
<1>15. PICK ms : ms = Talk(l, n)
  OBVIOUS
<1>16. Sound(ms, l, n) /\ IsConfirmed(ms, l, n) /\ ms \in Seq(Texts)
  BY <1>1, <1>15, TalkLemma DEF Procure
<1>17. \A i \in DOMAIN ms : ms[i].verb = "PAYMENT_REQUIRED" => ms[i].fields.reference = Order(l, n)
  <2>1. \A m : m \in Of(l, n, "PAYMENT_REQUIRED") <=> \E i \in DOMAIN ms : ms[i] = m /\ m.verb = "PAYMENT_REQUIRED"
    BY <1>1, <1>15, TalkLemma
  <2>2. \A m \in Of(l, n, "PAYMENT_REQUIRED") : m.fields.reference = Order(l, n)
    BY DEF Procure
  <2> QED
    BY <2>1, <2>2
<1>18. PICK w : w = Append(Append(Append(ms, x), y), z)
  OBVIOUS
<1>19. Sound(w, l, n) /\ Keeps(ms, w)
  BY <1>1, <1>2, <1>11, <1>12, <1>13, <1>14, <1>16, <1>17, <1>18, PurchaseFollows
<1>20. PICK q \in Seq(TextsOf(l, n)) : q = <<x, y, z>> /\ Len(q) = 3 /\ q[1] = x /\ q[2] = y /\ q[3] = z
  <2>1. PICK q : q = <<x, y, z>>
    OBVIOUS
  <2>2. IsTuple(q, 3) /\ DOMAIN q = 1..3 /\ q[1] = x /\ q[2] = y /\ q[3] = z
    BY <2>1 DEF IsTuple
  <2>3. q \in Seq(ToSet(q))
    BY <2>2, TuplesAreSequences
  <2>4. ToSet(q) \subseteq TextsOf(l, n)
    BY <2>2 DEF ToSet
  <2>5. q \in Seq(TextsOf(l, n))
    BY <2>3, <2>4, SeqMonotonic
  <2>6. Len(q) = 3
    BY <2>2, <2>5, LenProperties
  <2> QED
    BY <2>1, <2>2, <2>5, <2>6
<1>21. ms \o q = w
  <2>1. x \in Texts /\ y \in Texts /\ z \in Texts /\ q \in Seq(Texts)
    BY <1>1, TextOfRound, TextsOfRound
  <2>2. ms \in Seq(Texts)
    BY <1>16
  <2>3. Len(q) = 3 /\ q[1] = x /\ q[2] = y /\ q[3] = z
    BY <1>20
  <2>4. ms \o q = Append(Append(Append(ms, x), y), z)
    BY <2>1, <2>2, <2>3, ConcatThree
  <2> QED
    BY <1>18, <2>4
<1>22. PICK ds : ds = ProcurementLeg(l, n)
  OBVIOUS
<1>23. ds = << Msg("PAYMENT_REQUIRED", f), Msg("PAYMENT_PROOF", g), Msg("PAYMENT_CONFIRMED", h) >>
  BY <1>2, <1>5, <1>6, <1>7, <1>22, Zenon DEF ProcurementLeg
<1>24. [i \in DOMAIN ds |-> Posted(l, ds[i])] = q
  BY <1>11, <1>12, <1>13, <1>20, <1>23
<1>25. Speaks(l, q)
  BY <1>22, <1>24 DEF Procure, Say, Speaks
<1> QED
  BY <1>15, <1>19, <1>21, <1>25 DEF Uttered

LEMMA ThreadsAreSequences ==
  ASSUME NEW f \in [1..Lives -> Seq(Texts)]
  PROVE  f \in Seq(Seq(Texts)) /\ DOMAIN f = 1..Lives /\ Len(f) = Lives
  BY LivesLemma

LEMMA FoldStarts == Init => FoldInv
<1> SUFFICES ASSUME Init PROVE FoldInv
  OBVIOUS
<1>1. said \in [1..Lives -> Seq(Texts)] /\ \A l \in 1..Lives : said[l] = <<>>
  <2>1. <<>> \in Seq(Texts)
    BY EmptySeq
  <2> QED
    BY <2>1 DEF Init
<1>2. ASSUME NEW l \in 1..Lives, NEW n \in Rounds PROVE Sound(Talk(l, n), l, n)
  <2>1. Talk(l, n) = <<>>
    BY <1>1, OfRoundEmpty DEF Talk
  <2>2. <<>> \in Seq(AboutRound(n)) /\ DOMAIN <<>> = {}
    BY EmptySeq
  <2> QED
    BY <2>1, <2>2 DEF Sound, Orderly
<1>3. said \in Seq(Seq(Texts)) /\ 1 \in DOMAIN said
  BY <1>1, ThreadsAreSequences, LivesLemma
<1>4. FlattenSeq(said) = said[1]
  BY <1>1, <1>3, FlattenOne
<1>5. FoldRounds(CollectMessages(said)) = <<>>
  BY <1>1, <1>4, FoldEmpty, LivesLemma DEF CollectMessages
<1> QED
  BY <1>1, <1>2, <1>5, LivesLemma DEF Init, FoldInv

(* A step is one message more, or a purchase, or a restart. *)
LEMMA StepsSpeak ==
  ASSUME FoldInv, Next
  PROVE  Restart \/ \E l \in 1..life : \E n \in Rounds : Uttered(l, n)
<1>1. life \in 1..life
  BY LivesLemma DEF FoldInv
<1>2. CASE Restart
  BY <1>2
<1>3. ASSUME NEW n \in Rounds, Want(n) PROVE Uttered(life, n)
  BY <1>3, WantSays
<1>4. ASSUME NEW n \in Rounds, NEW l \in 1..life, Conversation(l, n) PROVE Uttered(l, n)
  <2>1. ASSUME NEW s \in Sellers, Award(l, n, s) PROVE Uttered(l, n)
    BY <2>1, AwardSays
  <2>2. ASSUME NEW s \in Sellers, NEW note \in Notes, Bid(l, n, s, note) PROVE Uttered(l, n)
    BY <2>2, BidSays
  <2>3. ASSUME NEW rail \in Rails, Terms(l, n, rail) PROVE Uttered(l, n)
    BY <2>3, TermsSays
  <2>4. CASE Pay(l, n)
    BY <2>4, PaySays
  <2>5. ASSUME NEW paid \in BOOLEAN, Confirm(l, n, paid) PROVE Uttered(l, n)
    BY <2>5, ConfirmSays
  <2>6. CASE Procure(l, n)
    BY <2>6, ProcureSays
  <2>7. CASE Deliver(l, n)
    BY <2>7, DeliverSays
  <2>8. ASSUME NEW verdict \in {"pass", "fail"}, Verify(l, n, verdict) PROVE Uttered(l, n)
    BY <2>8, VerifySays
  <2>9. CASE Settle(l, n)
    BY <2>9, SettleSays
  <2>10. CASE Refund(l, n)
    BY <2>10, RefundSays
  <2> QED
    BY <1>4, <2>1, <2>2, <2>3, <2>4, <2>5, <2>6, <2>7, <2>8, <2>9, <2>10 DEF Conversation
<1> QED
  BY <1>1, <1>2, <1>3, <1>4 DEF Next

LEMMA UtteredKeeps ==
  ASSUME FoldInv, NEW l \in 1..life, NEW n \in Rounds, Uttered(l, n)
  PROVE  FoldInv'
<1>1. PICK p \in Seq(TextsOf(l, n)) : Speaks(l, p) /\ Sound(Talk(l, n) \o p, l, n)
  BY DEF Uttered
<1> QED
  BY <1>1, SpeaksLemma

LEMMA FoldSteps == FoldInv /\ [Next]_vars => FoldInv'
<1> SUFFICES ASSUME FoldInv, [Next]_vars PROVE FoldInv'
  OBVIOUS
<1>1. CASE UNCHANGED vars
  BY <1>1 DEF vars, FoldInv, Talk
<1>2. CASE Restart
  <2>1. life' = life + 1 /\ life < Lives /\ said' = said /\ shown' = shown
    BY <1>2 DEF Restart
  <2>2. life' \in 1..Lives /\ \A l \in 1..Lives : l > life' => l > life
    BY <2>1, LivesLemma DEF FoldInv
  <2> QED
    BY <2>1, <2>2 DEF FoldInv, Talk
<1>3. ASSUME NEW l \in 1..life, NEW n \in Rounds, Uttered(l, n) PROVE FoldInv'
  BY <1>3, UtteredKeeps
<1>4. CASE Next
  BY <1>2, <1>3, <1>4, StepsSpeak
<1> QED
  BY <1>1, <1>4

(* FoldInv holds throughout: what the agents post of a round in a thread is   *)
(* sound, threads of lives to come are empty, and what the feed shows is the  *)
(* fold of all that is said.                                                  *)
THEOREM FoldStaysSound == Spec => []FoldInv
  BY FoldStarts, FoldSteps, PTL DEF Spec

(* Orderly messages that share no payment are orderly together. *)
LEMMA OrderlyConcat ==
  ASSUME NEW S, NEW s \in Seq(S), NEW t \in Seq(S), Orderly(s), Orderly(t),
         \A i \in DOMAIN s, j \in DOMAIN t : s[i].verb = "PAYMENT_REQUIRED" /\ t[j].verb = "PAYMENT_REQUIRED" =>
           s[i].fields.reference # t[j].fields.reference
  PROVE  Orderly(s \o t)
<1>1. PICK w \in Seq(S) : w = s \o t
  BY ConcatLemma
<1>2. PICK a \in Nat, b \in Nat : a = Len(s) /\ b = Len(t)
  BY LenProperties
<1>3. /\ DOMAIN s = 1..a /\ DOMAIN t = 1..b /\ DOMAIN w = 1..(a + b)
      /\ (\A i \in 1..a : w[i] = s[i]) /\ (\A i \in 1..b : w[a + i] = t[i])
  BY <1>1, <1>2, ConcatLemma
<1>4. \A i \in 1..(a + b) : i \in 1..a \/ \E j \in 1..b : i = a + j
  <2>1. TAKE i \in 1..(a + b)
  <2>2. CASE i > a
    <3>1. i - a \in 1..b /\ i = a + (i - a)
      BY <2>2
    <3> QED
      BY <3>1
  <2> QED
    BY <2>2
<1>5. /\ \A i \in 1..a : i \in 1..(a + b)
      /\ \A j \in 1..b : a + j \in 1..(a + b)
  OBVIOUS
<1>6. ASSUME NEW i \in 1..a, NEW v, Follows(s, i, v) PROVE Follows(w, i, v)
  <2>1. PICK j \in 1..a : j < i /\ s[j].verb = v /\ SamePayment(s[j], s[i])
    BY <1>3, <1>6 DEF Follows
  <2>2. w[j] = s[j] /\ w[i] = s[i] /\ j \in DOMAIN w
    BY <1>3, <1>5, <2>1
  <2> QED
    BY <2>1, <2>2 DEF Follows
<1>7. ASSUME NEW i \in 1..b, NEW v, Follows(t, i, v) PROVE Follows(w, a + i, v)
  <2>1. PICK j \in 1..b : j < i /\ t[j].verb = v /\ SamePayment(t[j], t[i])
    BY <1>3, <1>7 DEF Follows
  <2>2. w[a + j] = t[j] /\ w[a + i] = t[i] /\ a + j \in DOMAIN w /\ a + j < a + i
    BY <1>3, <1>5, <2>1
  <2> QED
    BY <2>1, <2>2 DEF Follows
<1>8. ASSUME NEW i \in 1..(a + b)
      PROVE  /\ w[i].verb \in {"PAYMENT_PROOF", "PAYMENT_CONFIRMED"} => Follows(w, i, "PAYMENT_REQUIRED")
             /\ w[i].verb = "PAYMENT_CONFIRMED" => Follows(w, i, "PAYMENT_PROOF")
  <2>1. CASE i \in 1..a
    BY <1>3, <1>6, <2>1 DEF Orderly
  <2>2. ASSUME NEW j \in 1..b, i = a + j
        PROVE  /\ w[i].verb \in {"PAYMENT_PROOF", "PAYMENT_CONFIRMED"} => Follows(w, i, "PAYMENT_REQUIRED")
               /\ w[i].verb = "PAYMENT_CONFIRMED" => Follows(w, i, "PAYMENT_PROOF")
    BY <1>3, <1>7, <2>2 DEF Orderly
  <2> QED
    BY <1>4, <2>1, <2>2
<1>9. ASSUME NEW i \in 1..(a + b), NEW j \in 1..(a + b), w[i].verb = "PAYMENT_REQUIRED", w[j].verb = "PAYMENT_REQUIRED",
             w[i].fields.reference = w[j].fields.reference
      PROVE  i = j
  <2>1. CASE i \in 1..a /\ j \in 1..a
    BY <1>3, <1>9, <2>1 DEF Orderly
  <2>2. CASE i \in 1..a /\ \E k \in 1..b : j = a + k
    <3>1. PICK k \in 1..b : j = a + k
      BY <2>2
    <3>2. w[i] = s[i] /\ w[j] = t[k] /\ i \in DOMAIN s /\ k \in DOMAIN t
      BY <1>3, <2>2, <3>1
    <3>3. s[i].verb = "PAYMENT_REQUIRED" /\ t[k].verb = "PAYMENT_REQUIRED" /\ s[i].fields.reference = t[k].fields.reference
      BY <1>9, <3>2
    <3> QED
      BY <3>2, <3>3
  <2>3. CASE j \in 1..a /\ \E k \in 1..b : i = a + k
    <3>1. PICK k \in 1..b : i = a + k
      BY <2>3
    <3>2. w[j] = s[j] /\ w[i] = t[k] /\ j \in DOMAIN s /\ k \in DOMAIN t
      BY <1>3, <2>3, <3>1
    <3>3. s[j].verb = "PAYMENT_REQUIRED" /\ t[k].verb = "PAYMENT_REQUIRED" /\ s[j].fields.reference = t[k].fields.reference
      BY <1>9, <3>2
    <3> QED
      BY <3>2, <3>3
  <2>4. ASSUME NEW h \in 1..b, NEW k \in 1..b, i = a + h, j = a + k PROVE i = j
    <3>1. w[i] = t[h] /\ w[j] = t[k] /\ h \in DOMAIN t /\ k \in DOMAIN t
      BY <1>3, <2>4
    <3>2. t[h].verb = "PAYMENT_REQUIRED" /\ t[k].verb = "PAYMENT_REQUIRED" /\ t[h].fields.reference = t[k].fields.reference
      BY <1>9, <3>1
    <3>3. h = k
      BY <3>1, <3>2 DEF Orderly
    <3> QED
      BY <2>4, <3>3
  <2> QED
    BY <1>4, <2>1, <2>2, <2>3, <2>4
<1>10. Orderly(w)
  BY <1>3, <1>8, <1>9 DEF Orderly
<1> QED
  BY <1>1, <1>10

(* Threads share no payment: a reference names its thread. *)
IsThreaded(ss) == \A i \in DOMAIN ss : Orderly(ss[i]) /\ \A j \in DOMAIN ss[i] : ss[i][j].thread = i

LEMMA ThreadsAreOrderly ==
  ASSUME NEW ss \in Seq(Seq(Texts)), IsThreaded(ss)
  PROVE  Orderly(FlattenSeq(ss))
<1> DEFINE T == {u \in Seq(Seq(Texts)) : IsThreaded(u) => Orderly(FlattenSeq(u))}
<1>1. <<>> \in T
  <2>1. <<>> \in Seq(Seq(Texts)) /\ DOMAIN <<>> = {}
    BY EmptySeq
  <2>2. Orderly(<<>>)
    BY <2>1 DEF Orderly
  <2> QED
    BY <2>1, <2>2, FlattenEmpty
<1>2. ASSUME NEW u \in Seq(Seq(Texts)), NEW x \in Seq(Texts), u \in T PROVE Append(u, x) \in T
  <2>1. PICK v \in Seq(Seq(Texts)) : v = Append(u, x)
    BY AppendLemma
  <2>2. PICK k \in Nat : k = Len(u)
    BY LenProperties
  <2>3. DOMAIN u = 1..k /\ DOMAIN v = 1..(k + 1) /\ (\A i \in 1..k : v[i] = u[i]) /\ v[k + 1] = x
    BY <2>1, <2>2, AppendLemma
  <2>4. FlattenSeq(v) = FlattenSeq(u) \o x
    BY <2>1, FlattenAppend
  <2>5. PICK s \in Seq(Texts) : s = FlattenSeq(u) /\ ToSet(s) = UNION {ToSet(u[i]) : i \in DOMAIN u}
    BY FlattenLemma
  <2> SUFFICES ASSUME IsThreaded(v) PROVE Orderly(s \o x)
    BY <2>1, <2>4, <2>5
  <2>6. 1..k \subseteq 1..(k + 1) /\ k + 1 \in 1..(k + 1)
    OBVIOUS
  <2>7. IsThreaded(u)
    BY <2>3, <2>6 DEF IsThreaded
  <2>8. Orderly(x) /\ \A j \in DOMAIN x : x[j].thread = k + 1
    BY <2>3, <2>6 DEF IsThreaded
  <2>9. Orderly(s)
    BY <1>2, <2>5, <2>7
  <2>10. ASSUME NEW i \in DOMAIN s PROVE s[i].thread \in 1..k
    <3>1. s[i] \in ToSet(s)
      BY DEF ToSet
    <3>2. PICK h \in DOMAIN u : s[i] \in ToSet(u[h])
      BY <2>5, <3>1
    <3>3. PICK j \in DOMAIN u[h] : s[i] = u[h][j]
      BY <3>2 DEF ToSet
    <3>4. s[i].thread = h
      BY <2>7, <3>2, <3>3 DEF IsThreaded
    <3> QED
      BY <2>3, <3>2, <3>4
  <2>11. ASSUME NEW i \in DOMAIN s, NEW j \in DOMAIN x, s[i].verb = "PAYMENT_REQUIRED", x[j].verb = "PAYMENT_REQUIRED"
         PROVE  s[i].fields.reference # x[j].fields.reference
    <3>1. s[i] \in Texts /\ x[j] \in Texts
      BY ElementOfSeq, LenProperties
    <3>2. s[i].fields.reference[2] = s[i].thread /\ x[j].fields.reference[2] = x[j].thread
      BY <2>11, <3>1, FieldsLemma DEF PaymentVerbs
    <3>3. s[i].thread # x[j].thread
      <4>1. s[i].thread \in 1..k /\ x[j].thread = k + 1
        BY <2>8, <2>10
      <4> QED
        BY <4>1
    <3> QED
      BY <3>2, <3>3
  <2> QED
    BY <2>8, <2>9, <2>11, OrderlyConcat
<1>3. Seq(Seq(Texts)) \subseteq T
  <2> HIDE DEF T
  <2> QED
    BY <1>1, <1>2, SequencesInduction
<1> QED
  BY <1>3

LEMMA OfRoundFlatten ==
  ASSUME NEW S, NEW ss \in Seq(Seq(S)), NEW n
  PROVE  OfRound(FlattenSeq(ss), n) = FlattenSeq([i \in DOMAIN ss |-> OfRound(ss[i], n)])
<1>1. PICK s \in Seq(S) : s = FlattenSeq(ss) /\ ToSet(s) = UNION {ToSet(ss[i]) : i \in DOMAIN ss}
  BY FlattenLemma
<1>2. PICK P : P = {m \in ToSet(s) : m.fields.round = n}
  OBVIOUS
<1>3. OfRound(s, n) = Only(s, P)
  BY <1>2 DEF OfRound
<1>4. Only(FlattenSeq(ss), P) = FlattenSeq([i \in DOMAIN ss |-> Only(ss[i], P)])
  BY OnlyFlatten
<1>5. ASSUME NEW i \in DOMAIN ss PROVE Only(ss[i], P) = OfRound(ss[i], n)
  <2>1. PICK t \in Seq(S) : t = ss[i]
    BY ElementOfSeq, LenProperties
  <2>2. ToSet(t) \subseteq ToSet(s)
    BY <1>1, <2>1
  <2>3. PICK Q : Q = {m \in ToSet(t) : m.fields.round = n}
    OBVIOUS
  <2>4. ToSet(t) \cap P = ToSet(t) \cap Q
    BY <1>2, <2>2, <2>3
  <2>5. Only(t, P) = Only(t, Q)
    BY <2>4, OnlyAgrees
  <2> QED
    BY <2>1, <2>3, <2>5 DEF OfRound
<1>6. [i \in DOMAIN ss |-> Only(ss[i], P)] = [i \in DOMAIN ss |-> OfRound(ss[i], n)]
  BY <1>5
<1> QED
  BY <1>1, <1>3, <1>4, <1>6

(* What is said of a round, in all threads. *)
LEMMA RoundSaidLemma ==
  ASSUME FoldInv, NEW n \in Rounds
  PROVE  /\ RoundSaid(n) \in Seq(AboutRound(n)) /\ Orderly(RoundSaid(n))
         /\ RoundSaid(n) = OfRound(CollectMessages(said), n)
         /\ ToSet(RoundSaid(n)) = UNION {ToSet(Talk(l, n)) : l \in 1..Lives}
<1>1. PICK ss : ss = [l \in 1..Lives |-> Talk(l, n)]
  OBVIOUS
<1>2. \A l \in 1..Lives : Talk(l, n) \in Seq(AboutRound(n)) /\ Talk(l, n) \in Seq(Texts) /\ Sound(Talk(l, n), l, n)
  BY TalkLemma
<1>3. ss \in [1..Lives -> Seq(Texts)] /\ ss \in [1..Lives -> Seq(AboutRound(n))]
  BY <1>1, <1>2
<1>4. ss \in Seq(Seq(Texts)) /\ ss \in Seq(Seq(AboutRound(n))) /\ DOMAIN ss = 1..Lives
  BY <1>3, LivesLemma
<1>5. RoundSaid(n) = FlattenSeq(ss)
  BY <1>1 DEF RoundSaid, Talk
<1>6. IsThreaded(ss)
  BY <1>1, <1>2 DEF IsThreaded, Sound
<1>7. Orderly(FlattenSeq(ss))
  BY <1>4, <1>6, ThreadsAreOrderly
<1>8. FlattenSeq(ss) \in Seq(AboutRound(n)) /\ ToSet(FlattenSeq(ss)) = UNION {ToSet(ss[l]) : l \in DOMAIN ss}
  BY <1>4, FlattenLemma
<1>9. {ToSet(ss[l]) : l \in DOMAIN ss} = {ToSet(Talk(l, n)) : l \in 1..Lives}
  BY <1>1
<1>10. OfRound(CollectMessages(said), n) = FlattenSeq(ss)
  <2>1. said \in Seq(Seq(Texts)) /\ DOMAIN said = 1..Lives
    BY ThreadsAreSequences DEF FoldInv
  <2>2. OfRound(FlattenSeq(said), n) = FlattenSeq([l \in DOMAIN said |-> OfRound(said[l], n)])
    BY <2>1, OfRoundFlatten
  <2> QED
    BY <1>1, <2>1, <2>2 DEF CollectMessages, Talk
<1> QED
  BY <1>5, <1>7, <1>8, <1>9, <1>10

(* What the feed shows of a round is folded from that. *)
LEMMA ShownLemma ==
  ASSUME FoldInv
  PROVE  /\ DOMAIN shown = {n \in Rounds : RoundSaid(n) # <<>>}
         /\ \A n \in Rounds : n \in DOMAIN shown => shown[n] = RoundOf(RoundSaid(n), n)
<1>1. PICK u \in Seq(Texts) : u = CollectMessages(said)
  <2>1. said \in Seq(Seq(Texts))
    BY ThreadsAreSequences DEF FoldInv
  <2>2. FlattenSeq(said) \in Seq(Texts)
    BY <2>1, FlattenLemma
  <2> QED
    BY <2>2 DEF CollectMessages
<1>2. IsFoldedByRounds(u) /\ shown = FoldRounds(u)
  BY <1>1, RoundsAreFoldedApart DEF FoldInv
<1>3. \A n \in Rounds : RoundSaid(n) = OfRound(u, n)
  BY <1>1, RoundSaidLemma
<1>4. DOMAIN shown \subseteq Rounds /\ \A n \in Rounds : n \in DOMAIN shown <=> RoundSaid(n) # <<>>
  BY <1>2, <1>3 DEF IsFoldedByRounds
<1>5. ASSUME NEW n \in Rounds, n \in DOMAIN shown PROVE shown[n] = RoundOf(RoundSaid(n), n)
  <2>1. RoundOf(u, n) = RoundOf(OfRound(u, n), n)
    BY <1>2 DEF IsFoldedByRounds
  <2>2. RoundOf(u, n) = shown[n]
    BY <1>2, <1>5 DEF RoundOf
  <2> QED
    BY <1>3, <2>1, <2>2
<1>6. DOMAIN shown = {n \in Rounds : RoundSaid(n) # <<>>}
  BY <1>4
<1> QED
  BY <1>5, <1>6

LEMMA FoldedRight == FoldInv => FoldIsRight
<1> SUFFICES ASSUME FoldInv PROVE FoldIsRight
  OBVIOUS
<1>1. TypeOK
  <2>1. ASSUME NEW l \in 1..Lives, NEW i \in DOMAIN said[l] PROVE said[l][i].verb \in Verbs /\ said[l][i].fields.round \in Rounds
    <3>1. PICK s \in Seq(Texts) : s = said[l]
      BY DEF FoldInv
    <3>2. s[i] \in Texts
      BY <2>1, <3>1, ElementOfSeq, LenProperties
    <3> QED
      BY <3>1, <3>2, TextLemma
  <2> QED
    BY <2>1 DEF TypeOK, FoldInv
<1>2. \A n \in DOMAIN shown : FoldsRight(RoundSaid(n), shown[n])
  <2>1. TAKE n \in DOMAIN shown
  <2>2. n \in Rounds /\ shown[n] = RoundOf(RoundSaid(n), n)
    BY ShownLemma
  <2>3. PICK u \in Seq(AboutRound(n)) : u = RoundSaid(n) /\ Orderly(u)
    BY <2>2, RoundSaidLemma
  <2>4. FoldsRight(u, RoundOf(u, n))
    BY <2>3, RoundsAreRight
  <2> QED
    BY <2>2, <2>3, <2>4
<1> QED
  BY <1>1, <1>2, ShownLemma DEF FoldIsRight

(* FoldIsRight: whatever free text the sellers write, the feed shows the      *)
(* rounds that were talked of, and of each the bids, the award, the payment,  *)
(* the delivery, the verdict and the status that its messages say.            *)
THEOREM FeedShowsWhatIsSaid == Spec => []FoldIsRight
  BY FoldStaysSound, FoldedRight, PTL

(* A payment's messages are in the thread its reference names. *)
LEMMA PaymentsAreInTheirThread ==
  ASSUME FoldInv, NEW n \in Rounds, NEW l \in 1..Lives, NEW t
  PROVE  t.verb \in PaymentVerbs /\ (t.fields.reference = Order(l, n) \/ t.fields.reference = Upstream(l, n)) =>
           ((\E i \in DOMAIN RoundSaid(n) : RoundSaid(n)[i] = t) <=> t \in Of(l, n, t.verb))
<1> SUFFICES ASSUME t.verb \in PaymentVerbs, t.fields.reference = Order(l, n) \/ t.fields.reference = Upstream(l, n)
             PROVE  (\E i \in DOMAIN RoundSaid(n) : RoundSaid(n)[i] = t) <=> t \in Of(l, n, t.verb)
  OBVIOUS
<1>1. PICK u \in Seq(AboutRound(n)) : u = RoundSaid(n) /\ ToSet(u) = UNION {ToSet(Talk(k, n)) : k \in 1..Lives}
  BY RoundSaidLemma
<1>2. (\E i \in DOMAIN u : u[i] = t) <=> t \in ToSet(u)
  BY DEF ToSet
<1>3. t \in ToSet(u) <=> \E k \in 1..Lives : t \in ToSet(Talk(k, n))
  BY <1>1
<1>4. ASSUME NEW k \in 1..Lives PROVE t \in ToSet(Talk(k, n)) <=> t \in Of(k, n, t.verb)
  <2>1. PICK ms : ms = Talk(k, n)
    OBVIOUS
  <2>2. t \in ToSet(ms) <=> \E i \in DOMAIN ms : ms[i] = t
    BY DEF ToSet
  <2>3. t \in Of(k, n, t.verb) <=> \E i \in DOMAIN ms : ms[i] = t /\ t.verb = t.verb
    BY <2>1, TalkLemma
  <2> QED
    BY <2>1, <2>2, <2>3
<1>5. ASSUME NEW k \in 1..Lives, t \in ToSet(Talk(k, n)) PROVE k = l
  <2>1. PICK ms : ms = Talk(k, n)
    OBVIOUS
  <2>2. PICK i \in DOMAIN ms : ms[i] = t
    BY <1>5, <2>1 DEF ToSet
  <2>3. ms \in Seq(Texts) /\ Sound(ms, k, n)
    BY <2>1, TalkLemma
  <2>4. t \in Texts /\ t.thread = k
    BY <2>2, <2>3, ElementOfSeq, LenProperties DEF Sound
  <2>5. t.fields.reference[2] = k
    BY <2>4, FieldsLemma
  <2>6. Order(l, n)[2] = l /\ Upstream(l, n)[2] = l
    BY DEF Order, Upstream
  <2> QED
    BY <2>5, <2>6
<1> QED
  BY <1>1, <1>2, <1>3, <1>4, <1>5

LEMMA ToldApartLemma ==
  ASSUME FoldInv, NEW n \in DOMAIN shown, NEW l \in 1..Lives,
         shown[n].payment # None, shown[n].payment.reference = Order(l, n)
  PROVE  ToldApart(shown[n], l, n)
<1>1. n \in Rounds /\ shown[n] = RoundOf(RoundSaid(n), n)
  BY ShownLemma
<1>2. PICK u \in Seq(AboutRound(n)) : u = RoundSaid(n) /\ Orderly(u)
  BY <1>1, RoundSaidLemma
<1>3. PICK r \in RoundType : r = shown[n] /\ r = RoundOf(u, n)
  BY <1>1, <1>2, RoundIsOne
<1>4. /\ PaidFor(r) = FirstTerms(u) /\ (r.paid <=> IsPaid(u))
      /\ KeysOf(r) = Others(u, "PAYMENT_CONFIRMED") /\ OneEach(r)
      /\ \A i \in DOMAIN r.receipts : IsUpstream(r.receipts[i].key) => r.receipts[i].paid = TRUE /\ r.receipts[i].proof = "tx"
  <2>1. FieldsFold(u, r)
    BY <1>3, FieldsAreFolded
  <2>2. StatusFold(u, r)
    BY <1>2, <1>3, StatusIsFolded
  <2>3. LegsFold(u, r)
    BY <1>2, <1>3, LegsAreFolded
  <2>4. PaidFor(r) = FirstTerms(u)
    BY <2>1 DEF FieldsFold
  <2>5. r.paid <=> IsPaid(u)
    BY <2>2 DEF StatusFold
  <2> QED
    BY <2>3, <2>4, <2>5 DEF LegsFold
<1>5. FirstTerms(u) = Order(l, n)
  BY <1>3, <1>4 DEF PaidFor
<1>6. \A i \in DOMAIN u : u[i] \in Texts
  BY ElementOfSeq, LenProperties, AboutTexts
<1>7. \A t : t.verb = "PAYMENT_CONFIRMED" /\ (t.fields.reference = Order(l, n) \/ t.fields.reference = Upstream(l, n)) =>
        ((\E i \in DOMAIN u : u[i] = t) <=> t \in Of(l, n, "PAYMENT_CONFIRMED"))
  BY <1>1, <1>2, PaymentsAreInTheirThread DEF PaymentVerbs
<1>8. \A t \in Of(l, n, "PAYMENT_CONFIRMED") : t.verb = "PAYMENT_CONFIRMED"
  BY DEF Of
<1>9. r.paid <=> Confirmed(l, n)
  <2>1. ASSUME IsPaid(u) PROVE Confirmed(l, n)
    <3>1. PICK i \in DOMAIN u : u[i].verb = "PAYMENT_CONFIRMED" /\ u[i].fields.paid /\ u[i].fields.reference = Order(l, n)
      BY <1>5, <2>1 DEF IsPaid
    <3>2. u[i] \in Of(l, n, "PAYMENT_CONFIRMED")
      BY <1>7, <3>1
    <3> QED
      BY <3>1, <3>2 DEF Confirmed
  <2>2. ASSUME Confirmed(l, n) PROVE IsPaid(u)
    <3>1. PICK m \in Of(l, n, "PAYMENT_CONFIRMED") : m.fields.reference = Order(l, n) /\ m.fields.paid
      BY <2>2 DEF Confirmed
    <3>2. m.verb = "PAYMENT_CONFIRMED"
      BY <1>8, <3>1
    <3>3. \E i \in DOMAIN u : u[i] = m
      BY <1>7, <3>1, <3>2
    <3> QED
      BY <1>5, <3>1, <3>2, <3>3 DEF IsPaid
  <2> QED
    BY <1>4, <2>1, <2>2
<1>10. r.paid = Confirmed(l, n)
  <2>1. r.paid \in BOOLEAN
    BY DEF RoundType
  <2>2. Confirmed(l, n) \in BOOLEAN
    BY Zenon DEF Confirmed
  <2> QED
    BY <1>9, <2>1, <2>2, Zenon
<1>11. PICK order : order = <<"x402", Order(l, n)>>
  OBVIOUS
<1>12. PICK upstream : upstream = <<"x402", Upstream(l, n)>>
  OBVIOUS
<1>13. \A k : k \in KeysOf(r) <=> \E j \in DOMAIN u : /\ u[j].verb = "PAYMENT_CONFIRMED" /\ u[j].fields.reference # Order(l, n)
                                                      /\ k = KeyOf(u[j].fields)
  BY <1>4, <1>5, Zenon DEF Others
<1>14. \A m : KeyOf(m)[1] = m.rail /\ KeyOf(m)[2] = m.reference
  BY DEF KeyOf
<1>15. order \notin KeysOf(r)
  <2>1. order[2] = Order(l, n)
    BY <1>11
  <2> QED
    BY <1>13, <1>14, <2>1
<1>16. upstream \in KeysOf(r) <=> Procured(l, n)
  <2>1. ASSUME upstream \in KeysOf(r) PROVE Procured(l, n)
    <3>1. PICK j \in DOMAIN u : u[j].verb = "PAYMENT_CONFIRMED" /\ upstream = KeyOf(u[j].fields)
      BY <1>13, <2>1
    <3>2. u[j].fields.reference = Upstream(l, n)
      BY <1>12, <1>14, <3>1
    <3>3. u[j] \in Of(l, n, "PAYMENT_CONFIRMED")
      BY <1>7, <3>1, <3>2
    <3> QED
      BY <3>2, <3>3 DEF Procured
  <2>2. ASSUME Procured(l, n) PROVE upstream \in KeysOf(r)
    <3>1. PICK m \in Of(l, n, "PAYMENT_CONFIRMED") : m.fields.reference = Upstream(l, n)
      BY <2>2 DEF Procured
    <3>2. PICK j \in DOMAIN u : u[j] = m
      BY <1>7, <1>8, <3>1
    <3>3. m \in Texts /\ m.verb = "PAYMENT_CONFIRMED"
      BY <1>6, <1>8, <3>1, <3>2
    <3>4. m.fields.rail = "x402"
      <4>1. \/ m.fields.reference = Order(m.thread, m.fields.round)
            \/ m.fields.rail = "x402"
        BY <3>3, FieldsLemma DEF PaymentVerbs
      <4>2. Order(m.thread, m.fields.round) # Upstream(l, n)
        BY DEF Order, Upstream
      <4> QED
        BY <3>1, <4>1, <4>2
    <3>5. m.fields.reference # Order(l, n)
      BY <3>1 DEF Order, Upstream
    <3>6. KeyOf(m.fields) = upstream
      BY <1>12, <3>1, <3>4 DEF KeyOf
    <3> QED
      BY <1>13, <3>2, <3>3, <3>5, <3>6
  <2> QED
    BY <2>1, <2>2
<1>17. \A i \in DOMAIN r.receipts : r.receipts[i].key = upstream => r.receipts[i].paid /\ r.receipts[i].proof = "tx"
  <2>1. IsUpstream(upstream)
    BY <1>12 DEF IsUpstream, Upstream
  <2> QED
    BY <1>4, <2>1
<1>18. ToldApart(r, l, n)
  BY <1>4, <1>10, <1>11, <1>12, <1>15, <1>16, <1>17, Zenon DEF ToldApart, KeysOf, OneEach
<1> QED
  BY <1>3, <1>18

LEMMA LegsApart == FoldInv => LegsAreToldApart
<1> SUFFICES ASSUME FoldInv, NEW n \in DOMAIN shown, NEW l \in 1..life,
                    shown[n].payment # None, shown[n].payment.reference = Order(l, n)
             PROVE  ToldApart(shown[n], l, n)
  BY DEF LegsAreToldApart
<1>1. l \in 1..Lives
  BY LivesLemma DEF FoldInv
<1> QED
  BY <1>1, ToldApartLemma

(* LegsAreToldApart: the payment of a round is the order's, and is paid when  *)
(* the order is; the receipts are the seller's own purchases, once each.      *)
THEOREM FeedTellsLegsApart == Spec => []LegsAreToldApart
  BY FoldStaysSound, LegsApart, PTL

-----------------------------------------------------------------------------
(* The replay. *)

IsOnce(s) == \A i, j \in DOMAIN s : s[i] = s[j] => i = j

LEMMA OnlyOnce ==
  ASSUME NEW S, NEW s \in Seq(S), NEW P, IsOnce(s)
  PROVE  IsOnce(Only(s, P))
<1> DEFINE T == {u \in Seq(S) : IsOnce(u) => IsOnce(Only(u, P))}
<1>1. <<>> \in T
  <2>1. <<>> \in Seq(S) /\ DOMAIN <<>> = {} /\ Only(<<>>, P) = <<>>
    BY EmptySeq, OnlyEmpty
  <2>2. IsOnce(<<>>)
    BY <2>1 DEF IsOnce
  <2> QED
    BY <2>1, <2>2
<1>2. ASSUME NEW u \in Seq(S), NEW x \in S, u \in T PROVE Append(u, x) \in T
  <2>1. PICK v \in Seq(S) : v = Append(u, x)
    BY AppendLemma
  <2>2. PICK k \in Nat : k = Len(u)
    BY LenProperties
  <2>3. DOMAIN u = 1..k /\ DOMAIN v = 1..(k + 1) /\ (\A i \in 1..k : v[i] = u[i]) /\ v[k + 1] = x
    BY <2>1, <2>2, AppendLemma
  <2> SUFFICES ASSUME IsOnce(v) PROVE IsOnce(Only(v, P))
    BY <2>1
  <2>4. 1..k \subseteq 1..(k + 1) /\ k + 1 \in 1..(k + 1) /\ k + 1 \notin 1..k
    OBVIOUS
  <2>5. IsOnce(u)
    BY <2>3, <2>4 DEF IsOnce
  <2>6. x \notin ToSet(u)
    BY <2>3, <2>4 DEF IsOnce, ToSet
  <2>7. PICK o \in Seq(S) : o = Only(u, P) /\ ToSet(o) = ToSet(u) \cap P
    BY OnlyLemma
  <2>8. IsOnce(o)
    BY <1>2, <2>5, <2>7
  <2>9. Only(v, P) = IF x \in P THEN Append(o, x) ELSE o
    BY <2>1, <2>7, OnlyAppend
  <2>10. IsOnce(Append(o, x))
    <3>1. PICK w \in Seq(S) : w = Append(o, x)
      BY AppendLemma
    <3>2. PICK n \in Nat : n = Len(o)
      BY LenProperties
    <3>3. DOMAIN o = 1..n /\ DOMAIN w = 1..(n + 1) /\ (\A i \in 1..n : w[i] = o[i]) /\ w[n + 1] = x
      BY <3>1, <3>2, AppendLemma
    <3>4. \A i \in 1..n : o[i] # x
      BY <2>6, <2>7, <3>3 DEF ToSet
    <3>5. \A i \in 1..(n + 1) : i \in 1..n \/ i = n + 1
      OBVIOUS
    <3>6. IsOnce(w)
      BY <2>8, <3>3, <3>4, <3>5 DEF IsOnce
    <3> QED
      BY <3>1, <3>6
  <2> QED
    BY <2>8, <2>9, <2>10
<1>3. Seq(S) \subseteq T
  <2> HIDE DEF T
  <2> QED
    BY <1>1, <1>2, SequencesInduction
<1> QED
  BY <1>3

(* A fold shows finitely many rounds. *)
IsBounded(D) == IsFiniteSet(D) /\ \E b \in Nat : D \subseteq 0..b

LEMMA RoundsAreFinite ==
  ASSUME NEW u \in Seq(Texts)
  PROVE  IsBounded(DOMAIN FoldRounds(u))
<1> DEFINE T == {s \in Seq(Texts) : IsBounded(DOMAIN FoldRounds(s))}
<1>1. <<>> \in T
  <2>1. <<>> \in Seq(Texts) /\ DOMAIN <<>> = {} /\ FoldRounds(<<>>) = <<>>
    BY EmptySeq, FoldEmpty
  <2>2. IsFiniteSet({}) /\ {} \subseteq 0..0 /\ 0 \in Nat
    BY FS_EmptySet
  <2>3. IsBounded({})
    BY <2>2 DEF IsBounded
  <2> QED
    BY <2>1, <2>3
<1>2. ASSUME NEW s \in Seq(Texts), NEW x \in Texts, s \in T PROVE Append(s, x) \in T
  <2>1. Append(s, x) \in Seq(Texts)
    BY AppendLemma
  <2>2. PICK D : D = DOMAIN FoldRounds(s)
    OBVIOUS
  <2>3. PICK n \in Nat : n = x.fields.round
    BY TextLemma, LivesLemma
  <2>4. DOMAIN FoldRounds(Append(s, x)) = D \cup {n}
    BY <2>2, <2>3, FoldOneMore
  <2>5. IsFiniteSet(D) /\ \E b \in Nat : D \subseteq 0..b
    BY <1>2, <2>2 DEF IsBounded
  <2>6. PICK b \in Nat : D \subseteq 0..b
    BY <2>5
  <2>7. D \cup {n} \subseteq 0..(b + n) /\ b + n \in Nat
    BY <2>6
  <2>8. IsFiniteSet(D \cup {n})
    BY <2>5, FS_AddElement
  <2>9. IsBounded(D \cup {n})
    BY <2>7, <2>8 DEF IsBounded
  <2> QED
    BY <2>1, <2>4, <2>9
<1>3. Seq(Texts) \subseteq T
  <2> HIDE DEF T
  <2> QED
    BY <1>1, <1>2, SequencesInduction
<1> QED
  BY <1>3

LEMMA ShownIsFinite ==
  ASSUME FoldInv
  PROVE  /\ IsFiniteSet(DOMAIN shown) /\ (\E b \in Nat : DOMAIN shown \subseteq 0..b) /\ DOMAIN shown \subseteq Rounds
         /\ shown = <<>> <=> DOMAIN shown = {}
<1>1. PICK u \in Seq(Texts) : u = CollectMessages(said)
  <2>1. said \in Seq(Seq(Texts))
    BY ThreadsAreSequences DEF FoldInv
  <2>2. FlattenSeq(said) \in Seq(Texts)
    BY <2>1, FlattenLemma
  <2> QED
    BY <2>2 DEF CollectMessages
<1>2. shown = FoldRounds(u) /\ IsFoldedByRounds(u) /\ IsBounded(DOMAIN FoldRounds(u))
  BY <1>1, RoundsAreFoldedApart, RoundsAreFinite DEF FoldInv
<1>3. PICK f : f = FoldRounds(u)
  OBVIOUS
<1>4. f = [k \in DOMAIN f |-> f[k]] /\ DOMAIN f \subseteq Rounds
  BY <1>2, <1>3 DEF IsFoldedByRounds
<1>5. f = <<>> <=> DOMAIN f = {}
  <2>1. DOMAIN <<>> = {}
    OBVIOUS
  <2>2. ASSUME DOMAIN f = {} PROVE f = <<>>
    BY <1>4, <2>2
  <2> QED
    BY <2>1, <2>2
<1>6. IsBounded(DOMAIN f)
  BY <1>2, <1>3
<1>7. shown = f
  BY <1>2, <1>3
<1> QED
  BY <1>4, <1>5, <1>6, <1>7 DEF IsBounded

(* The folders are listed once each. *)
LEMMA PersistedLemma ==
  ASSUME FoldInv
  PROVE  Persisted \in Seq(Rounds) /\ ToSet(Persisted) = DOMAIN shown /\ IsOnce(Persisted)
<1>1. PICK D : D = DOMAIN shown
  OBVIOUS
<1>2. D \subseteq Rounds /\ D \subseteq Nat /\ (shown = <<>> <=> D = {}) /\ \A n \in D : n > 0
  BY <1>1, ShownIsFinite, LivesLemma
<1>3. CASE D = {}
  <2>1. Persisted = <<>>
    BY <1>2, <1>3 DEF Persisted
  <2>2. <<>> \in Seq(Rounds) /\ DOMAIN <<>> = {}
    BY EmptySeq
  <2>3. ToSet(<<>>) = {} /\ IsOnce(<<>>)
    BY <2>2 DEF ToSet, IsOnce
  <2> QED
    BY <1>1, <1>3, <2>1, <2>2, <2>3
<1>4. CASE D # {}
  <2>1. PICK b \in Nat : D \subseteq 0..b
    BY <1>1, ShownIsFinite
  <2>2. Max(D) \in D /\ \A m \in D : Max(D) >= m
    BY <1>4, <2>1, GreatestIsThere
  <2>3. PICK m \in Nat : m = Max(D)
    BY <1>2, <2>2
  <2>4. PICK s : s = [n \in 1..m |-> n]
    OBVIOUS
  <2>5. s \in Seq(Nat) /\ DOMAIN s = 1..m /\ \A i \in 1..m : s[i] = i
    BY <2>4
  <2>6. IsOnce(s)
    BY <2>5 DEF IsOnce
  <2>7. ToSet(s) = 1..m
    BY <2>5 DEF ToSet
  <2>8. D \subseteq 1..m
    <3>1. \A n \in D : n \in Nat /\ n > 0 /\ n <= m
      BY <1>2, <2>2, <2>3
    <3> QED
      BY <3>1
  <2>9. Persisted = Only(s, D)
    BY <1>1, <1>2, <1>4, <2>3, <2>4 DEF Persisted
  <2>10. Only(s, D) \in Seq(Nat) /\ ToSet(Only(s, D)) = ToSet(s) \cap D
    BY <2>5, OnlyLemma
  <2>11. ToSet(Only(s, D)) = D
    BY <2>7, <2>8, <2>10
  <2>12. IsOnce(Only(s, D))
    BY <2>5, <2>6, OnlyOnce
  <2>13. PICK o \in Seq(Nat) : o = Only(s, D)
    BY <2>10
  <2>14. o \in Seq(Rounds)
    <3>1. \A i \in 1..Len(o) : o[i] \in Rounds
      <4>1. \A i \in DOMAIN o : o[i] \in ToSet(o)
        BY DEF ToSet
      <4>2. DOMAIN o = 1..Len(o)
        BY LenProperties
      <4> QED
        BY <1>2, <2>11, <2>13, <4>1, <4>2
    <3> QED
      BY <3>1, SeqDef
  <2> QED
    BY <1>1, <2>9, <2>11, <2>12, <2>13, <2>14
<1> QED
  BY <1>3, <1>4

(* The texts about a round, and those of a thread. *)
OfThread(l) == {t \in Texts : t.thread = l}

LEMMA RoundTextsLemma ==
  ASSUME NEW s \in Seq(Texts), NEW n, NEW l
  PROVE  /\ RoundTranscript(s, n) = OfRound(s, n)
         /\ OfRound(s, n) = Only(s, AboutRound(n))
         /\ Only(s, {t \in ToSet(s) : t.thread = l}) = Only(s, OfThread(l))
<1>1. \A t \in ToSet(s) : t \in Texts /\ HasRound(t) /\ MessageRound(t) = t.fields.round
  <2>1. TAKE t \in ToSet(s)
  <2>2. PICK i \in DOMAIN s : s[i] = t
    BY DEF ToSet
  <2>3. t \in Texts
    BY <2>2, ElementOfSeq, LenProperties
  <2> QED
    BY <2>3, TextLemma
<1>2. {t \in ToSet(s) : HasRound(t) /\ MessageRound(t) = n} = {m \in ToSet(s) : m.fields.round = n}
  BY <1>1
<1>3. RoundTranscript(s, n) = OfRound(s, n)
  BY <1>2 DEF RoundTranscript, OfRound
<1>4. PICK P : P = {m \in ToSet(s) : m.fields.round = n}
  OBVIOUS
<1>5. ToSet(s) \cap P = ToSet(s) \cap AboutRound(n)
  BY <1>1, <1>4 DEF AboutRound
<1>6. OfRound(s, n) = Only(s, AboutRound(n))
  <2>1. Only(s, P) = Only(s, AboutRound(n))
    BY <1>5, OnlyAgrees
  <2> QED
    BY <1>4, <2>1 DEF OfRound
<1>7. PICK Q : Q = {t \in ToSet(s) : t.thread = l}
  OBVIOUS
<1>8. ToSet(s) \cap Q = ToSet(s) \cap OfThread(l)
  BY <1>1, <1>7 DEF OfThread
<1>9. Only(s, Q) = Only(s, OfThread(l))
  BY <1>8, OnlyAgrees
<1> QED
  BY <1>3, <1>6, <1>7, <1>9

(* The folders hold of each round what was said of it. *)
LEMMA FoldersLemma ==
  ASSUME FoldInv
  PROVE  Transcripts \in Seq(Texts) /\ \A n \in Rounds : OfRound(Transcripts, n) = RoundSaid(n)
<1>1. PICK u \in Seq(Texts) : u = CollectMessages(said)
  <2>1. said \in Seq(Seq(Texts))
    BY ThreadsAreSequences DEF FoldInv
  <2>2. FlattenSeq(said) \in Seq(Texts)
    BY <2>1, FlattenLemma
  <2> QED
    BY <2>2 DEF CollectMessages
<1>2. PICK ns \in Seq(Rounds) : ns = Persisted /\ ToSet(ns) = DOMAIN shown /\ IsOnce(ns)
  BY PersistedLemma
<1>3. PICK k \in Nat : k = Len(ns) /\ DOMAIN ns = 1..k
  BY LenProperties
<1>4. \A i \in 1..k : ns[i] \in Rounds
  BY <1>3, ElementOfSeq
<1>5. PICK ss : ss = [i \in 1..k |-> OfRound(u, ns[i])]
  OBVIOUS
<1>6. \A i \in 1..k : OfRound(u, ns[i]) \in Seq(Texts)
  BY OfRoundLemma
<1>7. ss \in Seq(Seq(Texts)) /\ DOMAIN ss = 1..k /\ \A i \in 1..k : ss[i] = OfRound(u, ns[i])
  BY <1>5, <1>6
<1>8. Transcripts = FlattenSeq(ss)
  <2>1. \A i \in 1..k : RoundTranscript(u, ns[i]) = OfRound(u, ns[i])
    BY RoundTextsLemma
  <2>2. [i \in DOMAIN ns |-> RoundTranscript(u, ns[i])] = ss
    BY <1>3, <1>5, <2>1
  <2> QED
    BY <1>1, <1>2, <2>2 DEF Transcripts
<1>9. FlattenSeq(ss) \in Seq(Texts)
  BY <1>7, FlattenLemma
<1>10. ASSUME NEW n \in Rounds PROVE OfRound(FlattenSeq(ss), n) = RoundSaid(n)
  <2>1. RoundSaid(n) = OfRound(u, n)
    BY <1>1, RoundSaidLemma
  <2>2. PICK fs : fs = [i \in 1..k |-> OfRound(ss[i], n)]
    OBVIOUS
  <2>3. OfRound(FlattenSeq(ss), n) = FlattenSeq(fs)
    BY <1>7, <2>2, OfRoundFlatten
  <2>4. \A i \in 1..k : OfRound(ss[i], n) \in Seq(Texts)
    <3>1. \A i \in 1..k : ss[i] \in Seq(Texts)
      BY <1>6, <1>7
    <3> QED
      BY <3>1, OfRoundLemma
  <2>5. fs \in Seq(Seq(Texts)) /\ DOMAIN fs = 1..k /\ \A i \in 1..k : fs[i] = OfRound(ss[i], n)
    BY <2>2, <2>4
  <2>6. ASSUME NEW i \in 1..k PROVE fs[i] = IF ns[i] = n THEN OfRound(u, n) ELSE <<>>
    <3>1. PICK v \in Seq(Texts) : v = OfRound(u, ns[i]) /\ ToSet(v) = {m \in ToSet(u) : m.fields.round = ns[i]}
      BY OfRoundLemma
    <3>2. PICK Q : Q = {m \in ToSet(v) : m.fields.round = n}
      OBVIOUS
    <3>3. OfRound(v, n) = Only(v, Q)
      BY <3>2 DEF OfRound
    <3>4. (ns[i] = n => ToSet(v) \subseteq Q) /\ (ns[i] # n => ToSet(v) \cap Q = {})
      BY <3>1, <3>2
    <3>5. Only(v, Q) = IF ns[i] = n THEN v ELSE <<>>
      BY <3>4, OnlyAll
    <3>6. fs[i] = OfRound(v, n)
      BY <1>7, <2>5, <3>1
    <3> QED
      BY <3>1, <3>3, <3>5, <3>6
  <2>7. CASE n \in DOMAIN shown
    <3>1. PICK i \in 1..k : ns[i] = n
      BY <1>2, <1>3, <2>7 DEF ToSet
    <3>2. \A j \in 1..k : j # i => ns[j] # n
      BY <1>2, <1>3, <3>1 DEF IsOnce
    <3>3. \A j \in DOMAIN fs : j # i => fs[j] = <<>>
      BY <2>5, <2>6, <3>2
    <3>4. FlattenSeq(fs) = fs[i]
      BY <2>5, <3>3, FlattenOne
    <3> QED
      BY <2>1, <2>3, <2>6, <3>1, <3>4
  <2>8. CASE n \notin DOMAIN shown
    <3>1. OfRound(u, n) = <<>>
      BY <2>1, <2>8, ShownLemma
    <3>2. \A i \in DOMAIN fs : fs[i] = <<>>
      BY <2>5, <2>6, <3>1
    <3>3. PICK w \in Seq(Texts) : w = FlattenSeq(fs) /\ ToSet(w) = UNION {ToSet(fs[i]) : i \in DOMAIN fs}
      BY <2>5, FlattenLemma
    <3>4. ToSet(<<>>) = {}
      BY DEF ToSet
    <3>5. ToSet(w) = {}
      BY <3>2, <3>3, <3>4
    <3>6. w = <<>>
      BY <3>5, NoElements
    <3> QED
      BY <2>1, <2>3, <3>1, <3>3, <3>6
  <2> QED
    BY <2>7, <2>8
<1> QED
  BY <1>8, <1>9, <1>10

LEMMA ThreadsOfRounds ==
  ASSUME FoldInv, NEW n \in Rounds, NEW l \in 1..Lives
  PROVE  Only(RoundSaid(n), OfThread(l)) = Talk(l, n)
<1>1. PICK ss : ss = [k \in 1..Lives |-> Talk(k, n)]
  OBVIOUS
<1>2. \A k \in 1..Lives : Talk(k, n) \in Seq(Texts) /\ Sound(Talk(k, n), k, n)
  BY TalkLemma
<1>3. ss \in Seq(Seq(Texts)) /\ DOMAIN ss = 1..Lives
  BY <1>1, <1>2, LivesLemma
<1>4. RoundSaid(n) = FlattenSeq(ss)
  BY <1>1 DEF RoundSaid, Talk
<1>5. PICK fs : fs = [k \in 1..Lives |-> Only(ss[k], OfThread(l))]
  OBVIOUS
<1>6. Only(FlattenSeq(ss), OfThread(l)) = FlattenSeq(fs)
  BY <1>3, <1>5, OnlyFlatten
<1>7. ASSUME NEW k \in 1..Lives PROVE fs[k] = IF k = l THEN Talk(l, n) ELSE <<>>
  <2>1. PICK s \in Seq(Texts) : s = Talk(k, n) /\ Sound(s, k, n)
    BY <1>2
  <2>2. \A t \in ToSet(s) : t \in Texts /\ t.thread = k
    <3>1. TAKE t \in ToSet(s)
    <3>2. PICK i \in DOMAIN s : s[i] = t
      BY DEF ToSet
    <3> QED
      BY <2>1, <3>2, ElementOfSeq, LenProperties DEF Sound
  <2>3. (k = l => ToSet(s) \subseteq OfThread(l)) /\ (k # l => ToSet(s) \cap OfThread(l) = {})
    BY <2>2 DEF OfThread
  <2>4. Only(s, OfThread(l)) = IF k = l THEN s ELSE <<>>
    BY <2>3, OnlyAll
  <2> QED
    BY <1>1, <1>5, <2>1, <2>4
<1>8. fs \in Seq(Seq(Texts)) /\ DOMAIN fs = 1..Lives
  <2>1. \A k \in 1..Lives : Only(ss[k], OfThread(l)) \in Seq(Texts)
    BY <1>1, <1>2, OnlyLemma
  <2> QED
    BY <1>5, <2>1, LivesLemma
<1>9. FlattenSeq(fs) = fs[l]
  BY <1>7, <1>8, FlattenOne
<1> QED
  BY <1>4, <1>6, <1>7, <1>9

LEMMA ReplayedLive == FoldInv => ReplayIsLive
<1> SUFFICES ASSUME FoldInv PROVE ReplayIsLive
  OBVIOUS
<1>1. PICK u \in Seq(Texts) : u = CollectMessages(said)
  <2>1. said \in Seq(Seq(Texts))
    BY ThreadsAreSequences DEF FoldInv
  <2>2. FlattenSeq(said) \in Seq(Texts)
    BY <2>1, FlattenLemma
  <2> QED
    BY <2>2 DEF CollectMessages
<1>2. PICK v \in Seq(Texts) : v = Transcripts
  BY FoldersLemma
<1>3. \A n \in Rounds : OfRound(v, n) = RoundSaid(n) /\ OfRound(u, n) = RoundSaid(n)
  BY <1>1, <1>2, FoldersLemma, RoundSaidLemma
<1>4. FoldRounds(v) = FoldRounds(u)
  BY <1>3, SameRoundsSameFold
<1>5. ReplaySession = shown
  BY <1>1, <1>2, <1>4 DEF ReplaySession, FoldInv
<1>6. ASSUME NEW l \in 1..Lives, NEW n \in Rounds
      PROVE  RoundTranscript(ReplayThread(Transcripts, l), n) = RoundTranscript(said[l], n)
  <2>1. ReplayThread(Transcripts, l) = Only(v, OfThread(l))
    BY <1>2, RoundTextsLemma DEF ReplayThread
  <2>2. PICK w \in Seq(Texts) : w = Only(v, OfThread(l))
    BY OnlyLemma
  <2>3. RoundTranscript(w, n) = Only(w, AboutRound(n))
    BY RoundTextsLemma
  <2>4. Only(w, AboutRound(n)) = Only(v, OfThread(l) \cap AboutRound(n))
    BY <2>2, OnlyTwice
  <2>5. Only(Only(v, AboutRound(n)), OfThread(l)) = Only(v, AboutRound(n) \cap OfThread(l))
    BY OnlyTwice
  <2>6. Only(v, AboutRound(n)) = RoundSaid(n)
    BY <1>3, RoundTextsLemma
  <2>7. Only(RoundSaid(n), OfThread(l)) = Talk(l, n)
    BY ThreadsOfRounds
  <2>8. OfThread(l) \cap AboutRound(n) = AboutRound(n) \cap OfThread(l)
    OBVIOUS
  <2>9. said[l] \in Seq(Texts)
    BY DEF FoldInv
  <2>10. RoundTranscript(said[l], n) = Talk(l, n)
    BY <2>9, RoundTextsLemma DEF Talk
  <2> QED
    BY <2>1, <2>2, <2>3, <2>4, <2>5, <2>6, <2>7, <2>8, <2>10
<1> QED
  BY <1>5, <1>6, Zenon DEF ReplayIsLive

(* ReplayIsLive: the feed served from the ledger, with Coral down, shows what *)
(* the live feed showed.                                                      *)
THEOREM ReplayShowsWhatWasShown == Spec => []ReplayIsLive
  BY FoldStaysSound, ReplayedLive, PTL

-----------------------------------------------------------------------------
(* The history, as long as the buyer is not restarted. *)

LEMMA Quotient ==
  ASSUME NEW x \in Nat, NEW a \in Nat \ {0}, NEW k \in Nat, x <= k * a
  PROVE  x \div a \in 0..k
<1>1. PICK q : q = x \div a
  OBVIOUS
<1>2. q \in Int /\ q * a <= x /\ x < q * a + a
  BY <1>1
<1>3. q >= 0
  <2>1. CASE q <= -1
    <3>1. q * a <= - a
      BY <1>2, <2>1
    <3> QED
      BY <1>2, <3>1
  <2> QED
    BY <1>2, <2>1
<1>4. q <= k
  <2>1. CASE q >= k + 1
    <3>1. q * a >= (k + 1) * a
      BY <1>2, <2>1
    <3>2. (k + 1) * a = k * a + a
      OBVIOUS
    <3> QED
      BY <1>2, <3>1, <3>2
  <2> QED
    BY <1>2, <2>1
<1> QED
  BY <1>1, <1>2, <1>3, <1>4

LEMMA KeepsItself ==
  ASSUME NEW s
  PROVE  Keeps(s, s)
  BY DEF Keeps

(* A round as a fold of sound messages leaves it. *)
IsRoundOf(r, ms) ==
  /\ r \in RoundType /\ ms \in Seq(Texts)
  /\ StatusFold(ms, r) /\ FieldsFold(ms, r) /\ BidsFold(ms, r)
  /\ Says(ms, "VERIFIED") => Says(ms, "DELIVERED")

FirstLife ==
  life = 1 => /\ IsFiniteSet(DOMAIN shown) /\ DOMAIN shown = {n \in Rounds : Talk(1, n) # <<>>}
              /\ \A n \in DOMAIN shown : IsRoundOf(shown[n], Talk(1, n))

LEMMA OneLife ==
  ASSUME FoldInv, life = 1, NEW n \in Rounds
  PROVE  RoundSaid(n) = Talk(1, n)
<1>1. 1 \in 1..Lives
  BY LivesLemma
<1>2. PICK ss : ss = [l \in 1..Lives |-> Talk(l, n)]
  OBVIOUS
<1>3. \A l \in 1..Lives : Talk(l, n) \in Seq(Texts)
  BY TalkLemma
<1>4. ss \in Seq(Seq(Texts)) /\ DOMAIN ss = 1..Lives
  BY <1>2, <1>3, LivesLemma
<1>5. \A l \in 1..Lives : l # 1 => ss[l] = <<>>
  <2>1. TAKE l \in 1..Lives
  <2>2. HAVE l # 1
  <2>3. said[l] = <<>>
    BY <2>2, LivesLemma DEF FoldInv
  <2> QED
    BY <1>2, <2>3, OfRoundEmpty DEF Talk
<1>6. FlattenSeq(ss) = ss[1]
  BY <1>1, <1>4, <1>5, FlattenOne
<1> QED
  BY <1>1, <1>2, <1>6 DEF RoundSaid, Talk

LEMMA FirstLifeLemma == FoldInv => FirstLife
<1> SUFFICES ASSUME FoldInv, life = 1 PROVE /\ IsFiniteSet(DOMAIN shown) /\ DOMAIN shown = {n \in Rounds : Talk(1, n) # <<>>}
                                            /\ \A n \in DOMAIN shown : IsRoundOf(shown[n], Talk(1, n))
  BY DEF FirstLife
<1>1. 1 \in 1..Lives
  BY LivesLemma
<1>2. \A n \in Rounds : RoundSaid(n) = Talk(1, n)
  BY OneLife
<1>3. DOMAIN shown = {n \in Rounds : Talk(1, n) # <<>>}
  BY <1>2, ShownLemma
<1>4. ASSUME NEW n \in DOMAIN shown PROVE IsRoundOf(shown[n], Talk(1, n))
  <2>1. n \in Rounds /\ RoundSaid(n) = Talk(1, n) /\ shown[n] = RoundOf(RoundSaid(n), n)
    BY <1>2, ShownLemma
  <2>2. PICK u \in Seq(AboutRound(n)) : u = Talk(1, n) /\ Sound(u, 1, n) /\ u \in Seq(Texts)
    BY <1>1, <2>1, TalkLemma
  <2>3. PICK r : r = shown[n] /\ r = RoundOf(u, n)
    BY <2>1, <2>2
  <2>4. Orderly(u)
    BY <2>2 DEF Sound
  <2>5. StatusFold(u, r)
    BY <2>3, <2>4, StatusIsFolded
  <2>6. FieldsFold(u, r)
    BY <2>3, FieldsAreFolded
  <2>7. BidsFold(u, r)
    BY <2>3, BidsAreFolded
  <2>8. r \in RoundType
    BY <2>3, RoundIsOne
  <2>9. Says(u, "VERIFIED") => Says(u, "DELIVERED")
    BY <2>2 DEF Sound, Says
  <2>10. IsRoundOf(r, u)
    BY <2>2, <2>5, <2>6, <2>7, <2>8, <2>9 DEF IsRoundOf
  <2> QED
    BY <2>2, <2>3, <2>10
<1> QED
  BY <1>3, <1>4, ShownIsFinite

(* What is kept of a round when more is said of it. *)
LEMMA RoundKeeps ==
  ASSUME NEW s, NEW w, NEW r, NEW q, IsRoundOf(r, s), IsRoundOf(q, w), Keeps(s, w)
  PROVE  /\ ~FallsBack(r.status, q.status)
         /\ r.award # None => q.award = r.award
         /\ r.delivered => q.delivered
         /\ r.verdict # None => q.verdict = r.verdict
         /\ r.want = "edge" => q.want = "edge"
         /\ \A i \in DOMAIN r.bids : \E j \in DOMAIN q.bids : q.bids[j].by = r.bids[i].by
<1>1. s \in Seq(Texts) /\ w \in Seq(Texts)
  BY DEF IsRoundOf
<1>2. ~FallsBack(r.status, q.status)
  <2>1. r.status = StatusOf(s) /\ q.status = StatusOf(w)
    BY DEF IsRoundOf, StatusFold
  <2>2. /\ r.status = StatusBy(IsSettled(s), IsDelivered(s), IsEnded(s), IsPaid(s), IsAwarded(s))
        /\ q.status = StatusBy(IsSettled(w), IsDelivered(w), IsEnded(w), IsPaid(w), IsAwarded(w))
    BY <2>1, StatusLemma
  <2>3. /\ Rank("bidding") = 1 /\ Rank("awarded") = 2 /\ Rank("paid") = 3 /\ Rank("delivered") = 4
        /\ Rank("refunded") = 5 /\ Rank("settled") = 6
    <3>1. PICK ranks : ranks = <<"bidding", "awarded", "paid", "delivered", "refunded", "settled">>
      OBVIOUS
    <3>2. /\ ranks[1] = "bidding" /\ ranks[2] = "awarded" /\ ranks[3] = "paid" /\ ranks[4] = "delivered"
          /\ ranks[5] = "refunded" /\ ranks[6] = "settled"
      BY <3>1
    <3>3. \A i \in 1..6 : i = 1 \/ i = 2 \/ i = 3 \/ i = 4 \/ i = 5 \/ i = 6
      OBVIOUS
    <3>4. \A status : Rank(status) = CHOOSE i \in 1..6 : ranks[i] = status
      BY <3>1 DEF Rank
    <3>5. ASSUME NEW k \in 1..6 PROVE Rank(ranks[k]) = k
      <4>1. \A i \in 1..6 : ranks[i] = ranks[k] => i = k
        BY <3>2, <3>3
      <4> QED
        BY <3>4, <4>1
    <3> QED
      BY <3>2, <3>5
  <2>4. /\ IsSettled(s) => IsSettled(w)
        /\ IsEnded(s) => IsEnded(w)
        /\ IsDelivered(s) => IsDelivered(w) \/ IsEnded(w)
        /\ IsPaid(s) => IsPaid(w)
        /\ IsAwarded(s) => IsAwarded(w)
    BY DEF Keeps
  <2>5. CASE r.status = "settled"
    <3>1. IsSettled(s)
      BY <2>2, <2>5 DEF StatusBy
    <3>2. q.status = "settled"
      BY <2>2, <2>4, <3>1 DEF StatusBy
    <3> QED
      BY <2>3, <2>5, <3>2 DEF FallsBack
  <2>6. CASE r.status = "delivered"
    <3>1. IsDelivered(s)
      BY <2>2, <2>6 DEF StatusBy
    <3>2. q.status \in {"settled", "delivered", "refunded"}
      BY <2>2, <2>4, <3>1 DEF StatusBy
    <3> QED
      BY <2>3, <2>6, <3>2 DEF FallsBack
  <2>7. CASE r.status = "refunded"
    <3>1. IsEnded(s)
      BY <2>2, <2>7 DEF StatusBy
    <3>2. q.status \in {"settled", "delivered", "refunded"}
      BY <2>2, <2>4, <3>1 DEF StatusBy
    <3> QED
      BY <2>3, <2>7, <3>2 DEF FallsBack
  <2>8. CASE r.status = "paid"
    <3>1. IsPaid(s)
      BY <2>2, <2>8 DEF StatusBy
    <3>2. q.status \in {"settled", "delivered", "refunded", "paid"}
      BY <2>2, <2>4, <3>1 DEF StatusBy
    <3> QED
      BY <2>3, <2>8, <3>2 DEF FallsBack
  <2>9. CASE r.status = "awarded"
    <3>1. IsAwarded(s)
      BY <2>2, <2>9 DEF StatusBy
    <3>2. q.status \in {"settled", "delivered", "refunded", "paid", "awarded"}
      BY <2>2, <2>4, <3>1 DEF StatusBy
    <3> QED
      BY <2>3, <2>9, <3>2 DEF FallsBack
  <2>10. CASE r.status = "bidding"
    <3>1. q.status \in {"settled", "delivered", "refunded", "paid", "awarded", "bidding"}
      BY <2>2 DEF StatusBy
    <3> QED
      BY <2>3, <2>10, <3>1 DEF FallsBack
  <2>11. r.status \in {"settled", "delivered", "refunded", "paid", "awarded", "bidding"}
    BY <2>2 DEF StatusBy
  <2> QED
    BY <2>5, <2>6, <2>7, <2>8, <2>9, <2>10, <2>11
<1>3. FieldsFold(s, r) /\ FieldsFold(w, q)
  BY DEF IsRoundOf
<1>4. ASSUME NEW v, Says(s, v) PROVE Says(w, v)
  BY <1>4 DEF Says, Keeps
<1>5. \A v : LastOf(s, {v}) \in Nat /\ LastOf(w, {v}) \in Nat /\ (LastOf(s, {v}) # 0 <=> Says(s, v)) /\ (LastOf(w, {v}) # 0 <=> Says(w, v))
  BY <1>1, SaysLast
<1>6. \A v \in {"AWARD", "VERIFIED"} : LastOf(s, {v}) # 0 => LastOf(w, {v}) = LastOf(s, {v}) /\ w[LastOf(s, {v})] = s[LastOf(s, {v})]
  <2>1. TAKE v \in {"AWARD", "VERIFIED"}
  <2>2. HAVE LastOf(s, {v}) # 0
  <2>3. LastOf(s, {v}) \in DOMAIN s
    BY <1>1, <2>2, SaysLast
  <2> QED
    BY <2>2, <2>3 DEF Keeps
<1>7. r.award # None => q.award = r.award
  <2>1. HAVE r.award # None
  <2>2. LastOf(s, {"AWARD"}) # 0 /\ r.award = s[LastOf(s, {"AWARD"})].fields.to
    BY <1>3, <2>1 DEF FieldsFold
  <2>3. q.award = w[LastOf(w, {"AWARD"})].fields.to
    BY <1>3, <1>6, <2>2 DEF FieldsFold
  <2> QED
    BY <1>6, <2>2, <2>3
<1>8. r.verdict # None => q.verdict = r.verdict
  <2>1. HAVE r.verdict # None
  <2>2. LastOf(s, {"VERIFIED"}) # 0 /\ r.verdict = s[LastOf(s, {"VERIFIED"})].fields.verdict
    BY <1>3, <2>1 DEF FieldsFold
  <2>3. q.verdict = w[LastOf(w, {"VERIFIED"})].fields.verdict
    BY <1>3, <1>6, <2>2 DEF FieldsFold
  <2> QED
    BY <1>6, <2>2, <2>3
<1>9. r.delivered => q.delivered
  <2>1. r.delivered <=> LastOf(s, {"DELIVERED"}) > 0
    BY <1>3 DEF FieldsFold
  <2>2. q.delivered <=> LastOf(w, {"DELIVERED"}) > 0
    BY <1>3 DEF FieldsFold
  <2>3. Says(s, "DELIVERED") => Says(w, "DELIVERED")
    BY <1>4
  <2> QED
    BY <1>5, <2>1, <2>2, <2>3
<1>10. r.want = "edge" => q.want = "edge"
  <2>1. HAVE r.want = "edge"
  <2>2. None # "edge"
    BY FoldAssumption DEF FoldAssumption
  <2>3. LastOf(s, {"WANT"}) # 0
    BY <1>3, <2>1, <2>2 DEF FieldsFold
  <2>4. LastOf(w, {"WANT"}) # 0
    BY <1>4, <1>5, <2>3
  <2> QED
    BY <1>3, <2>4 DEF FieldsFold
<1>11. ASSUME NEW i \in DOMAIN r.bids PROVE \E j \in DOMAIN q.bids : q.bids[j].by = r.bids[i].by
  <2>1. BidsFold(s, r) /\ BidsFold(w, q)
    BY DEF IsRoundOf
  <2>2. PICK k \in DOMAIN s : IsFirstBid(s, k) /\ s[k].fields.by = r.bids[i].by
    BY <2>1 DEF BidsFold
  <2>3. s[k].verb = "BID" /\ k \in DOMAIN w /\ w[k] = s[k]
    BY <2>2 DEF IsFirstBid, BidsAt, Keeps
  <2>4. k \in BidsAt(w)
    BY <2>3 DEF BidsAt
  <2>5. PICK j \in DOMAIN q.bids : q.bids[j].by = w[k].fields.by
    BY <2>1, <2>4 DEF BidsFold
  <2> QED
    BY <2>2, <2>3, <2>5
<1> QED
  BY <1>2, <1>7, <1>8, <1>9, <1>10, <1>11

LEMMA RecordFields ==
  ASSUME NEW rounds, NEW n \in DOMAIN rounds
  PROVE  /\ Records(rounds)[n].award = rounds[n].award /\ Records(rounds)[n].want = rounds[n].want
         /\ Records(rounds)[n].bids = rounds[n].bids /\ Records(rounds)[n].delivery = rounds[n].delivered
         /\ Records(rounds)[n].verification = rounds[n].verdict /\ "release" \notin Records(rounds)[n].txs
<1>1. Records(rounds)[n] = RunRecord(rounds[n])
  BY DEF Records
<1>2. PICK r : r = rounds[n]
  OBVIOUS
<1>3. RunRecord(r).txs = {"payment"} \/ RunRecord(r).txs = {}
  BY DEF RunRecord
<1>4. "release" \notin RunRecord(r).txs
  BY <1>3
<1>5. /\ RunRecord(r).award = r.award /\ RunRecord(r).want = r.want /\ RunRecord(r).bids = r.bids
      /\ RunRecord(r).delivery = r.delivered /\ RunRecord(r).verification = r.verdict
  BY DEF RunRecord
<1> QED
  BY <1>1, <1>2, <1>4, <1>5

(* The rounds a seller's record counts. *)
Delivered(rounds, s) == {n \in DOMAIN rounds : rounds[n].award = s /\ rounds[n].delivered}

Failed(rounds, s) == {n \in DOMAIN rounds : rounds[n].award = s /\ rounds[n].verdict = "fail"}

Awarded(rounds, s) == {n \in DOMAIN rounds : rounds[n].award = s}

Priced(rounds) ==
  {n \in DOMAIN rounds : rounds[n].want = "edge" /\ \E i \in DOMAIN rounds[n].bids : rounds[n].bids[i].by = rounds[n].award}

LEMMA CountedRounds ==
  ASSUME NEW rounds, NEW s
  PROVE  /\ Won(Records(rounds), s) = Awarded(rounds, s)
         /\ Reputation(Records(rounds), s).awarded = Cardinality(Awarded(rounds, s))
         /\ Reputation(Records(rounds), s).delivered = Cardinality(Delivered(rounds, s))
         /\ Reputation(Records(rounds), s).failed = Cardinality(Failed(rounds, s))
         /\ Reputation(Records(rounds), s).settled = 0
         /\ ClearingRounds(Records(rounds), "edge") = Priced(rounds)
<1>1. PICK runs : runs = Records(rounds)
  OBVIOUS
<1>2. DOMAIN runs = DOMAIN rounds
  BY <1>1 DEF Records
<1>3. \A n \in DOMAIN rounds :
        /\ runs[n].award = rounds[n].award /\ runs[n].want = rounds[n].want /\ runs[n].bids = rounds[n].bids
        /\ runs[n].delivery = rounds[n].delivered /\ runs[n].verification = rounds[n].verdict /\ "release" \notin runs[n].txs
  BY <1>1, RecordFields
<1>4. Won(runs, s) = Awarded(rounds, s)
  BY <1>2, <1>3 DEF Won, Awarded
<1>5. {n \in Won(runs, s) : runs[n].delivery} = Delivered(rounds, s)
  BY <1>3, <1>4 DEF Awarded, Delivered
<1>6. {n \in Won(runs, s) : runs[n].verification = "fail"} = Failed(rounds, s)
  BY <1>3, <1>4 DEF Awarded, Failed
<1>7. {n \in Won(runs, s) : "release" \in runs[n].txs} = {}
  BY <1>3, <1>4 DEF Awarded
<1>8. /\ Reputation(runs, s).awarded = Cardinality(Won(runs, s))
      /\ Reputation(runs, s).delivered = Cardinality({n \in Won(runs, s) : runs[n].delivery})
      /\ Reputation(runs, s).settled = Cardinality({n \in Won(runs, s) : "release" \in runs[n].txs})
      /\ Reputation(runs, s).failed = Cardinality({n \in Won(runs, s) : runs[n].verification = "fail"})
  BY DEF Reputation
<1>9. Cardinality({}) = 0
  BY FS_EmptySet
<1>10. ClearingRounds(runs, "edge") = Priced(rounds)
  BY <1>2, <1>3 DEF ClearingRounds, Priced
<1> QED
  BY <1>1, <1>4, <1>5, <1>6, <1>7, <1>8, <1>9, <1>10

(* What a seller is scored on its record: there is no settlement in it. *)
LEMMA ScoreLemma ==
  ASSUME NEW rounds, IsFiniteSet(DOMAIN rounds), NEW s, Awarded(rounds, s) # {}, s # None,
         \A n \in DOMAIN rounds : rounds[n].verdict = "fail" => rounds[n].delivered
  PROVE  Score(Reputation(Records(rounds), s)) \in 0..40
<1>1. PICK rep : rep = Reputation(Records(rounds), s)
  OBVIOUS
<1>2. PICK a : a = Cardinality(Awarded(rounds, s))
  OBVIOUS
<1>3. PICK d : d = Cardinality(Delivered(rounds, s))
  OBVIOUS
<1>4. PICK f : f = Cardinality(Failed(rounds, s))
  OBVIOUS
<1>5. rep.awarded = a /\ rep.delivered = d /\ rep.failed = f /\ rep.settled = 0
  BY <1>1, <1>2, <1>3, <1>4, CountedRounds
<1>6. Awarded(rounds, s) \subseteq DOMAIN rounds /\ Delivered(rounds, s) \subseteq Awarded(rounds, s)
  BY DEF Awarded, Delivered
<1>7. Failed(rounds, s) \subseteq Delivered(rounds, s)
  BY DEF Failed, Delivered
<1>8. IsFiniteSet(Awarded(rounds, s))
  BY <1>6, FS_Subset
<1>9. IsFiniteSet(Delivered(rounds, s)) /\ d <= a
  BY <1>2, <1>3, <1>6, <1>8, FS_Subset
<1>10. IsFiniteSet(Failed(rounds, s)) /\ f <= d
  BY <1>3, <1>4, <1>7, <1>9, FS_Subset
<1>11. a \in Nat /\ d \in Nat /\ f \in Nat
  BY <1>2, <1>3, <1>4, <1>8, <1>9, <1>10, FS_CardinalityType
<1>12. a # 0
  BY <1>2, <1>8, FS_EmptySet
<1>13. PICK b : b = IF d > 0 THEN d ELSE 1
  OBVIOUS
<1>14. b \in Nat \ {0} /\ f <= b
  BY <1>10, <1>11, <1>13
<1>15. (30 * d) \div a \in 0..30
  <2>1. 30 * d \in Nat /\ 30 * d <= 30 * a /\ a \in Nat \ {0} /\ 30 \in Nat
    BY <1>9, <1>11, <1>12
  <2> QED
    BY <2>1, Quotient
<1>16. (10 * (b - f)) \div b \in 0..10
  <2>1. 10 * (b - f) \in Nat /\ 10 * (b - f) <= 10 * b /\ 10 \in Nat
    BY <1>11, <1>14
  <2> QED
    BY <1>14, <2>1, Quotient
<1>17. Score(rep) = (60 * 0 + 30 * d) \div a + (10 * (b - f)) \div b
  BY <1>5, <1>13 DEF Score
<1>18. 60 * 0 + 30 * d = 30 * d
  BY <1>11
<1>19. PICK x \in 0..30 : x = (30 * d) \div a
  BY <1>15
<1>20. PICK y \in 0..10 : y = (10 * (b - f)) \div b
  BY <1>16
<1>21. Score(rep) = x + y
  BY <1>17, <1>18, <1>19, <1>20
<1> QED
  BY <1>1, <1>21

LEMMA CountsGrow ==
  ASSUME NEW A, NEW B, IsFiniteSet(B), A \subseteq B
  PROVE  Cardinality(B) >= Cardinality(A)
<1>1. IsFiniteSet(A) /\ Cardinality(A) <= Cardinality(B)
  BY FS_Subset
<1>2. Cardinality(A) \in Nat /\ Cardinality(B) \in Nat
  BY <1>1, FS_CardinalityType
<1> QED
  BY <1>1, <1>2

(* Rounds that are kept are kept in the records. *)
RoundsKeep(old, new) ==
  \A n \in DOMAIN old :
    /\ n \in DOMAIN new /\ ~FallsBack(old[n].status, new[n].status)
    /\ old[n].award # None => new[n].award = old[n].award
    /\ old[n].delivered => new[n].delivered
    /\ old[n].verdict # None => new[n].verdict = old[n].verdict
    /\ old[n].want = "edge" => new[n].want = "edge"
    /\ \A i \in DOMAIN old[n].bids : \E j \in DOMAIN new[n].bids : new[n].bids[j].by = old[n].bids[i].by
    /\ \A i \in DOMAIN old[n].bids : old[n].bids[i].by # None

LEMMA RecordsAreKept ==
  ASSUME NEW old, NEW new, IsFiniteSet(DOMAIN new), RoundsKeep(old, new),
         \A n \in DOMAIN new : new[n].verdict = "fail" => new[n].delivered
  PROVE  StatusGrows(old, new) /\ RecordsGrow(Records(old), Records(new))
<1>1. StatusGrows(old, new)
  BY DEF StatusGrows, RoundsKeep
<1>2. ASSUME NEW s \in Sellers
      PROVE  /\ \A i \in 1..4 : TrackRecord(Records(new), s)[i] >= TrackRecord(Records(old), s)[i]
             /\ Won(Records(new), s) # {} => Score(Reputation(Records(new), s)) \in 0..40
  <2>1. s # None /\ None # "fail"
    BY FoldAssumption DEF FoldAssumption
  <2>2. Awarded(old, s) \subseteq Awarded(new, s)
    BY <2>1 DEF Awarded, RoundsKeep
  <2>3. Delivered(old, s) \subseteq Delivered(new, s)
    BY <2>1 DEF Delivered, RoundsKeep
  <2>4. Failed(old, s) \subseteq Failed(new, s)
    BY <2>1 DEF Failed, RoundsKeep
  <2>5. Priced(old) \subseteq Priced(new)
    <3>1. ASSUME NEW n \in DOMAIN old, old[n].want = "edge", NEW i \in DOMAIN old[n].bids, old[n].bids[i].by = old[n].award
          PROVE  n \in Priced(new)
      <4>1. /\ n \in DOMAIN new /\ new[n].want = "edge" /\ old[n].award # None /\ new[n].award = old[n].award
            /\ \E j \in DOMAIN new[n].bids : new[n].bids[j].by = old[n].bids[i].by
        BY <3>1 DEF RoundsKeep
      <4> QED
        BY <3>1, <4>1 DEF Priced
    <3> QED
      BY <3>1 DEF Priced
  <2>6. /\ Awarded(new, s) \subseteq DOMAIN new /\ Delivered(new, s) \subseteq DOMAIN new
        /\ Failed(new, s) \subseteq DOMAIN new /\ Priced(new) \subseteq DOMAIN new
    BY DEF Awarded, Delivered, Failed, Priced
  <2>7. IsFiniteSet(Awarded(new, s)) /\ IsFiniteSet(Delivered(new, s)) /\ IsFiniteSet(Failed(new, s)) /\ IsFiniteSet(Priced(new))
    BY <2>6, FS_Subset
  <2>9. /\ Cardinality(Awarded(new, s)) >= Cardinality(Awarded(old, s))
        /\ Cardinality(Delivered(new, s)) >= Cardinality(Delivered(old, s))
        /\ Cardinality(Failed(new, s)) >= Cardinality(Failed(old, s))
        /\ Cardinality(Priced(new)) >= Cardinality(Priced(old))
    BY <2>2, <2>3, <2>4, <2>5, <2>7, CountsGrow
  <2>10. \A rounds : TrackRecord(Records(rounds), s) = <<Cardinality(Awarded(rounds, s)), Cardinality(Delivered(rounds, s)),
                                                       Cardinality(Failed(rounds, s)), Cardinality(Priced(rounds))>>
    <3>1. TAKE rounds
    <3>2. /\ Reputation(Records(rounds), s).awarded = Cardinality(Awarded(rounds, s))
          /\ Reputation(Records(rounds), s).delivered = Cardinality(Delivered(rounds, s))
          /\ Reputation(Records(rounds), s).failed = Cardinality(Failed(rounds, s))
          /\ ClearingRounds(Records(rounds), "edge") = Priced(rounds)
      BY CountedRounds
    <3> QED
      BY <3>2 DEF TrackRecord
  <2>11. \A i \in 1..4 : i = 1 \/ i = 2 \/ i = 3 \/ i = 4
    OBVIOUS
  <2>12. \A i \in 1..4 : TrackRecord(Records(new), s)[i] >= TrackRecord(Records(old), s)[i]
    BY <2>9, <2>10, <2>11
  <2>13. Won(Records(new), s) # {} => Score(Reputation(Records(new), s)) \in 0..40
    BY <2>1, CountedRounds, ScoreLemma
  <2> QED
    BY <2>12, <2>13
<1> QED
  BY <1>1, <1>2, Zenon DEF RecordsGrow

LEMMA HistoryStep ==
  ASSUME FoldInv, FirstLife, FirstLife', Next, life' = 1
  PROVE  StatusGrows(shown, shown') /\ RecordsGrow(Records(shown), Records(shown'))
<1>1. ~Restart
  BY LivesLemma DEF Restart, FoldInv
<1>2. PICK l \in 1..life : \E n \in Rounds : Uttered(l, n)
  BY <1>1, StepsSpeak
<1>3. PICK n \in Rounds : Uttered(l, n)
  BY <1>2
<1>4. PICK p \in Seq(TextsOf(l, n)) : Speaks(l, p) /\ Sound(Talk(l, n) \o p, l, n) /\ Keeps(Talk(l, n), Talk(l, n) \o p)
  BY <1>3 DEF Uttered
<1>5. life = 1 /\ l = 1
  BY <1>4 DEF Speaks
<1>6. \A m \in Rounds : Talk(1, m)' = IF m = n THEN Talk(1, n) \o p ELSE Talk(1, m)
  BY <1>4, <1>5, SpeaksLemma, LivesLemma
<1>7. \A m \in Rounds : Keeps(Talk(1, m), Talk(1, m)')
  BY <1>4, <1>5, <1>6, KeepsItself
<1>8. /\ DOMAIN shown = {m \in Rounds : Talk(1, m) # <<>>}
      /\ \A m \in DOMAIN shown : IsRoundOf(shown[m], Talk(1, m))
  BY <1>5 DEF FirstLife
<1>9. /\ IsFiniteSet(DOMAIN shown') /\ DOMAIN shown' = {m \in Rounds : Talk(1, m)' # <<>>}
      /\ \A m \in DOMAIN shown' : IsRoundOf(shown'[m], Talk(1, m)')
  BY DEF FirstLife
<1>10. ASSUME NEW m \in DOMAIN shown PROVE m \in DOMAIN shown'
  <2>1. PICK s \in Seq(Texts) : s = Talk(1, m) /\ s # <<>>
    BY <1>8 DEF IsRoundOf
  <2>2. DOMAIN s # {}
    <3>1. ToSet(s) # {}
      BY <2>1, NoElements
    <3> QED
      BY <3>1 DEF ToSet
  <2>3. PICK w : w = Talk(1, m)'
    OBVIOUS
  <2>4. Keeps(s, w)
    BY <1>7, <1>8, <2>1, <2>3
  <2>5. DOMAIN w # {}
    BY <2>2, <2>4 DEF Keeps
  <2>6. w # <<>>
    BY <2>5
  <2> QED
    BY <1>8, <1>9, <2>3, <2>6
<1>11. RoundsKeep(shown, shown')
  <2>1. ASSUME NEW m \in DOMAIN shown
        PROVE  /\ ~FallsBack(shown[m].status, shown'[m].status)
               /\ shown[m].award # None => shown'[m].award = shown[m].award
               /\ shown[m].delivered => shown'[m].delivered
               /\ shown[m].verdict # None => shown'[m].verdict = shown[m].verdict
               /\ shown[m].want = "edge" => shown'[m].want = "edge"
               /\ \A i \in DOMAIN shown[m].bids : \E j \in DOMAIN shown'[m].bids : shown'[m].bids[j].by = shown[m].bids[i].by
    <3>1. m \in DOMAIN shown' /\ m \in Rounds
      BY <1>8, <1>10
    <3>2. PICK s : s = Talk(1, m) /\ IsRoundOf(shown[m], s)
      BY <1>8
    <3>3. PICK w : w = Talk(1, m)' /\ IsRoundOf(shown'[m], w)
      BY <1>9, <3>1
    <3>4. Keeps(s, w)
      BY <1>7, <3>1, <3>2, <3>3
    <3>5. PICK r : r = shown[m]
      OBVIOUS
    <3>6. PICK q : q = shown'[m]
      OBVIOUS
    <3>7. IsRoundOf(r, s) /\ IsRoundOf(q, w)
      BY <3>2, <3>3, <3>5, <3>6
    <3>8. /\ ~FallsBack(r.status, q.status)
          /\ r.award # None => q.award = r.award
          /\ r.delivered => q.delivered
          /\ r.verdict # None => q.verdict = r.verdict
          /\ r.want = "edge" => q.want = "edge"
          /\ \A i \in DOMAIN r.bids : \E j \in DOMAIN q.bids : q.bids[j].by = r.bids[i].by
      BY <3>4, <3>7, RoundKeeps
    <3> QED
      BY <3>5, <3>6, <3>8
  <2>2. ASSUME NEW m \in DOMAIN shown, NEW i \in DOMAIN shown[m].bids PROVE shown[m].bids[i].by # None
    <3>1. PICK r : r = shown[m] /\ IsRoundOf(r, Talk(1, m))
      BY <1>8
    <3>2. PICK s \in Seq(Texts) : s = Talk(1, m) /\ BidsFold(s, r)
      BY <3>1 DEF IsRoundOf
    <3>3. PICK j \in DOMAIN s : IsFirstBid(s, j) /\ s[j].fields.by = r.bids[i].by
      BY <2>2, <3>1, <3>2 DEF BidsFold
    <3>4. s[j] \in Texts /\ s[j].verb = "BID"
      BY <3>2, <3>3, ElementOfSeq, LenProperties DEF IsFirstBid, BidsAt
    <3>5. s[j].fields.by \in Sellers
      BY <3>4, FieldsLemma
    <3> QED
      BY <3>1, <3>3, <3>5, FoldAssumption DEF FoldAssumption
  <2> QED
    BY <1>10, <2>1, <2>2 DEF RoundsKeep
<1>12. ASSUME NEW m \in DOMAIN shown', shown'[m].verdict = "fail" PROVE shown'[m].delivered
  <2>1. PICK w : w = Talk(1, m)' /\ IsRoundOf(shown'[m], w)
    BY <1>9
  <2>2. PICK q : q = shown'[m]
    OBVIOUS
  <2>3. FieldsFold(w, q) /\ w \in Seq(Texts) /\ (Says(w, "VERIFIED") => Says(w, "DELIVERED"))
    BY <2>1, <2>2 DEF IsRoundOf
  <2>4. None # "fail"
    BY FoldAssumption DEF FoldAssumption
  <2>5. LastOf(w, {"VERIFIED"}) # 0
    BY <1>12, <2>2, <2>3, <2>4 DEF FieldsFold
  <2>6. Says(w, "DELIVERED")
    BY <2>3, <2>5, SaysLast
  <2>7. LastOf(w, {"DELIVERED"}) > 0
    BY <2>3, <2>6, SaysLast
  <2> QED
    BY <2>2, <2>3, <2>7 DEF FieldsFold
<1> QED
  BY <1>9, <1>11, <1>12, RecordsAreKept

(* HistoryOnlyGrows: as long as the buyer is not restarted, no step takes     *)
(* back what the feed shows of a round, or a win or a delivery of a seller.   *)
THEOREM HistoryGrows == Spec => HistoryOnlyGrows
<1> DEFINE A == life' = 1 => StatusGrows(shown, shown') /\ RecordsGrow(Records(shown), Records(shown'))
<1>1. FoldInv /\ FirstLife /\ FirstLife' /\ [Next]_vars => [A]_vars
  BY HistoryStep
<1>2. Spec => []FirstLife
  BY FoldStaysSound, FirstLifeLemma, PTL
<1>3. HistoryOnlyGrows <=> [][A]_vars
  BY DEF HistoryOnlyGrows
<1> QED
  BY <1>1, <1>2, <1>3, FoldStaysSound, PTL DEF Spec

-----------------------------------------------------------------------------
(* Trust. *)

(* In one life what a seller delivered is what the messages say. *)
LEMMA ServedRounds ==
  ASSUME FoldInv, life = 1, NEW s \in Sellers
  PROVE  LET served == {n \in Rounds : Delivers(n, s)} IN
         /\ IsFiniteSet(served) /\ Delivered(shown, s) \subseteq served
         /\ \A n \in served : Fails(n) => n \in Failed(shown, s)
<1>1. FirstLife
  BY FirstLifeLemma
<1>2. PICK served : served = {n \in Rounds : Delivers(n, s)}
  OBVIOUS
<1>3. /\ IsFiniteSet(DOMAIN shown) /\ DOMAIN shown = {n \in Rounds : Talk(1, n) # <<>>}
      /\ \A n \in DOMAIN shown : IsRoundOf(shown[n], Talk(1, n))
  BY <1>1 DEF FirstLife
<1>4. 1 \in 1..Lives
  BY LivesLemma
<1>5. s # None /\ None # "fail"
  BY FoldAssumption DEF FoldAssumption
<1>6. ASSUME NEW n \in DOMAIN shown
      PROVE  /\ n \in Delivered(shown, s) => Delivers(n, s)
             /\ Delivers(n, s) /\ Fails(n) => n \in Failed(shown, s)
  <2>1. n \in Rounds
    BY <1>3
  <2>2. PICK ms : ms = Talk(1, n)
    OBVIOUS
  <2>3. RoundSaid(n) = ms
    BY <2>1, <2>2, OneLife
  <2>4. PICK r : r = shown[n]
    OBVIOUS
  <2>5. IsRoundOf(r, ms) /\ Sound(ms, 1, n)
    BY <1>3, <1>4, <2>1, <2>2, <2>4, TalkLemma
  <2>6. ms \in Seq(Texts) /\ FieldsFold(ms, r)
    BY <2>5 DEF IsRoundOf
  <2>7. PICK a \in Nat : a = LastOf(ms, {"AWARD"})
    BY <2>6, SaysLast
  <2>8. PICK v \in Nat : v = LastOf(ms, {"VERIFIED"})
    BY <2>6, SaysLast
  <2>9. PICK d \in Nat : d = LastOf(ms, {"DELIVERED"})
    BY <2>6, SaysLast
  <2>10. /\ (a # 0 <=> Says(ms, "AWARD")) /\ (a # 0 => a \in DOMAIN ms /\ ms[a].verb = "AWARD")
         /\ (v # 0 <=> Says(ms, "VERIFIED")) /\ (v # 0 => v \in DOMAIN ms /\ ms[v].verb = "VERIFIED")
         /\ (d > 0 <=> Says(ms, "DELIVERED"))
    BY <2>6, <2>7, <2>8, <2>9, SaysLast
  <2>11. /\ r.award = (IF a = 0 THEN None ELSE ms[a].fields.to)
         /\ r.verdict = (IF v = 0 THEN None ELSE ms[v].fields.verdict)
         /\ r.delivered <=> d > 0
    BY <2>6, <2>7, <2>8, <2>9 DEF FieldsFold
  <2>12. Delivers(n, s) <=> (\E i \in DOMAIN ms : ms[i].verb = "AWARD" /\ ms[i].fields.to = s) /\ Says(ms, "DELIVERED")
    BY <2>3 DEF Delivers, Says
  <2>13. Fails(n) <=> \E i \in DOMAIN ms : ms[i].verb = "VERIFIED" /\ ms[i].fields.verdict = "fail"
    BY <2>3 DEF Fails
  <2>14. ASSUME NEW i \in DOMAIN ms, ms[i].verb = "AWARD" PROVE i = a
    <3>1. a \in DOMAIN ms /\ ms[a].verb = "AWARD"
      BY <2>10, <2>14 DEF Says
    <3> QED
      BY <2>5, <2>14, <3>1 DEF Sound
  <2>15. ASSUME NEW i \in DOMAIN ms, ms[i].verb = "VERIFIED" PROVE i = v
    <3>1. v \in DOMAIN ms /\ ms[v].verb = "VERIFIED"
      BY <2>10, <2>15 DEF Says
    <3> QED
      BY <2>5, <2>15, <3>1 DEF Sound
  <2>16. n \in Delivered(shown, s) => Delivers(n, s)
    <3>1. HAVE n \in Delivered(shown, s)
    <3>2. r.award = s /\ r.delivered
      BY <2>4, <3>1 DEF Delivered
    <3>3. a # 0 /\ ms[a].fields.to = s
      BY <1>5, <2>11, <3>2
    <3> QED
      BY <2>10, <2>11, <2>12, <3>2, <3>3
  <2>17. Delivers(n, s) /\ Fails(n) => n \in Failed(shown, s)
    <3>1. HAVE Delivers(n, s) /\ Fails(n)
    <3>2. PICK i \in DOMAIN ms : ms[i].verb = "AWARD" /\ ms[i].fields.to = s
      BY <2>12, <3>1
    <3>3. PICK j \in DOMAIN ms : ms[j].verb = "VERIFIED" /\ ms[j].fields.verdict = "fail"
      BY <2>13, <3>1
    <3>4. i = a /\ j = v
      BY <2>14, <2>15, <3>2, <3>3
    <3>5. a # 0 /\ v # 0
      BY <2>10, <3>2, <3>3 DEF Says
    <3>6. r.award = s /\ r.verdict = "fail"
      BY <2>11, <3>2, <3>3, <3>4, <3>5
    <3> QED
      BY <2>4, <3>6 DEF Failed
  <2> QED
    BY <2>16, <2>17
<1>7. ASSUME NEW n \in Rounds, Delivers(n, s) PROVE n \in DOMAIN shown
  <2>1. PICK ms : ms = Talk(1, n) /\ RoundSaid(n) = ms
    BY OneLife
  <2>2. PICK i \in DOMAIN ms : TRUE
    BY <1>7, <2>1 DEF Delivers
  <2>3. ms # <<>>
    BY <2>2
  <2> QED
    BY <1>3, <2>1, <2>3
<1>8. served \subseteq DOMAIN shown
  BY <1>2, <1>7
<1>9. IsFiniteSet(served)
  BY <1>3, <1>8, FS_Subset
<1>10. Delivered(shown, s) \subseteq DOMAIN shown /\ DOMAIN shown \subseteq Rounds
  BY <1>3 DEF Delivered
<1>11. Delivered(shown, s) \subseteq served
  BY <1>2, <1>6, <1>10
<1>12. \A n \in served : Fails(n) => n \in Failed(shown, s)
  BY <1>2, <1>6, <1>8
<1> QED
  BY <1>2, <1>9, <1>11, <1>12

(* Whom the buyer trusts, it trusts for that record. *)
LEMMA SparedLemma ==
  ASSUME NEW runs, NEW s, NEW up \in BOOLEAN, ~Escalates(TRUE, TRUE, s, FetchReputation(runs, up))
  PROVE  Reputation(runs, s).delivered >= MIN_DELIVERIES_FOR_TRUST /\ Reputation(runs, s).failed = 0
<1>1. PICK known : known = {t \in Sellers : Won(runs, t) # {}}
  OBVIOUS
<1>2. PICK reputation : reputation = FetchReputation(runs, up)
  OBVIOUS
<1>3. reputation = IF up THEN [t \in known |-> Put(Reputation(runs, t), "score", Score(Reputation(runs, t)))] ELSE <<>>
  BY <1>1, <1>2 DEF FetchReputation
<1>4. Has(reputation, s) /\ IsTrusted(reputation[s])
  BY <1>2 DEF Escalates
<1>5. CASE ~up
  <2>1. s \in DOMAIN <<>>
    BY <1>3, <1>4, <1>5 DEF Has
  <2> QED
    BY <2>1
<1>6. CASE up
  <2>1. reputation = [t \in known |-> Put(Reputation(runs, t), "score", Score(Reputation(runs, t)))]
    BY <1>3, <1>6
  <2>2. s \in known
    BY <1>4, <2>1 DEF Has
  <2>3. PICK rep : rep = Reputation(runs, s)
    OBVIOUS
  <2>4. reputation[s] = Put(rep, "score", Score(rep))
    BY <2>1, <2>2, <2>3
  <2>5. "delivered" \in DOMAIN rep /\ "failed" \in DOMAIN rep
    BY <2>3 DEF Reputation
  <2>6. reputation[s].delivered = rep.delivered /\ reputation[s].failed = rep.failed
    BY <2>4, <2>5 DEF Put
  <2> QED
    BY <1>4, <2>3, <2>6 DEF IsTrusted
<1> QED
  BY <1>5, <1>6

LEMMA TrustLemma == FoldInv => TrustIsEarned
<1> SUFFICES ASSUME FoldInv, life = 1, NEW s \in Sellers, NEW up \in BOOLEAN,
                    ~Escalates(TRUE, TRUE, s, FetchReputation(Records(shown), up))
             PROVE  /\ Cardinality({n \in Rounds : Delivers(n, s)}) >= MIN_DELIVERIES_FOR_TRUST
                    /\ \A n \in {n \in Rounds : Delivers(n, s)} : ~Fails(n)
  BY DEF TrustIsEarned
<1>1. PICK served : served = {n \in Rounds : Delivers(n, s)}
  OBVIOUS
<1>2. /\ IsFiniteSet(served) /\ Delivered(shown, s) \subseteq served
      /\ \A n \in served : Fails(n) => n \in Failed(shown, s)
  BY <1>1, ServedRounds
<1>3. Reputation(Records(shown), s).delivered >= MIN_DELIVERIES_FOR_TRUST /\ Reputation(Records(shown), s).failed = 0
  BY SparedLemma
<1>4. PICK d : d = Cardinality(Delivered(shown, s))
  OBVIOUS
<1>5. d >= MIN_DELIVERIES_FOR_TRUST /\ Cardinality(Failed(shown, s)) = 0
  BY <1>3, <1>4, CountedRounds
<1>6. PICK c : c = Cardinality(served)
  OBVIOUS
<1>7. IsFiniteSet(Delivered(shown, s)) /\ c >= d
  BY <1>2, <1>4, <1>6, CountsGrow, FS_Subset
<1>8. c \in Nat /\ d \in Nat /\ MIN_DELIVERIES_FOR_TRUST \in Nat
  BY <1>2, <1>4, <1>6, <1>7, FS_CardinalityType, RulesAssumption DEF RulesAssumption
<1>9. c >= MIN_DELIVERIES_FOR_TRUST
  BY <1>5, <1>7, <1>8
<1>10. IsFiniteSet(Failed(shown, s))
  <2>1. IsFiniteSet(DOMAIN shown)
    BY FirstLifeLemma DEF FirstLife
  <2>2. Failed(shown, s) \subseteq DOMAIN shown
    BY DEF Failed
  <2> QED
    BY <2>1, <2>2, FS_Subset
<1>11. Failed(shown, s) = {}
  BY <1>5, <1>10, FS_EmptySet
<1>12. \A n \in served : ~Fails(n)
  BY <1>2, <1>11
<1> QED
  BY <1>1, <1>6, <1>9, <1>12

(* TrustIsEarned: whom the buyer spares the verifier was awarded and          *)
(* delivered as many rounds as trust takes, and failed none.                  *)
THEOREM TrustIsOnTheRecord == Spec => []TrustIsEarned
  BY FoldStaysSound, TrustLemma, PTL

-----------------------------------------------------------------------------
(* Division and rounding. *)

LEMMA DivLemma ==
  ASSUME NEW x \in Int, NEW d \in Nat \ {0}
  PROVE  x \div d \in Int /\ d * (x \div d) <= x /\ x < d * (x \div d) + d
  OBVIOUS

LEMMA DivIsUnique ==
  ASSUME NEW x \in Int, NEW d \in Nat \ {0}, NEW q \in Int, d * q <= x, x < d * q + d
  PROVE  x \div d = q
<1>1. PICK p \in Int : p = x \div d
  OBVIOUS
<1>2. d * p <= x /\ x < d * p + d
  BY <1>1, DivLemma
<1>3. CASE p <= q - 1
  <2>1. d * p <= d * (q - 1)
    BY <1>3
  <2>2. d * (q - 1) = d * q - d
    OBVIOUS
  <2> QED
    BY <1>2, <2>1, <2>2
<1>4. CASE p >= q + 1
  <2>1. d * p >= d * (q + 1)
    BY <1>4
  <2>2. d * (q + 1) = d * q + d
    OBVIOUS
  <2> QED
    BY <1>2, <2>1, <2>2
<1> QED
  BY <1>1, <1>3, <1>4

LEMMA DivGrows ==
  ASSUME NEW x \in Int, NEW y \in Int, NEW d \in Nat \ {0}
  PROVE  /\ x <= y => x \div d <= y \div d
         /\ x + d <= y => x \div d < y \div d
<1>1. PICK p \in Int : p = x \div d
  OBVIOUS
<1>2. PICK q \in Int : q = y \div d
  OBVIOUS
<1>3. d * p <= x /\ x < d * p + d /\ d * q <= y /\ y < d * q + d
  BY <1>1, <1>2, DivLemma
<1>4. q <= p - 1 => d * q + d <= d * p
  <2>1. HAVE q <= p - 1
  <2>2. d * q <= d * (p - 1)
    BY <2>1
  <2>3. d * (p - 1) = d * p - d
    OBVIOUS
  <2> QED
    BY <2>2, <2>3
<1>5. q <= p => d * q <= d * p
  OBVIOUS
<1> QED
  BY <1>1, <1>2, <1>3, <1>4, <1>5

LEMMA DivCancels ==
  ASSUME NEW x \in Int, NEW d \in Nat \ {0}, NEW b \in Nat \ {0}
  PROVE  (b * x) \div (b * d) = x \div d
<1>1. PICK q \in Int : q = x \div d
  OBVIOUS
<1>2. d * q <= x /\ x + 1 <= d * q + d
  BY <1>1, DivLemma
<1>3. PICK e \in Int : e = d * q
  OBVIOUS
<1>4. b * e <= b * x
  BY <1>2, <1>3
<1>5. b * (x + 1) <= b * (e + d)
  BY <1>2, <1>3
<1>6. b * (x + 1) = b * x + b /\ b * (e + d) = b * e + b * d /\ (b * d) * q = b * e
  BY <1>3
<1>7. b * d \in Nat \ {0} /\ b * x \in Int
  OBVIOUS
<1>8. (b * d) * q <= b * x /\ b * x < (b * d) * q + b * d
  BY <1>4, <1>5, <1>6, <1>7
<1>9. PICK f \in Nat \ {0} : f = b * d
  BY <1>7
<1>10. PICK y \in Int : y = b * x
  OBVIOUS
<1> QED
  BY <1>1, <1>8, <1>9, <1>10, DivIsUnique

LEMMA RoundDivLemma ==
  ASSUME NEW x \in Int, NEW d \in Nat \ {0}
  PROVE  RoundDiv(x, d) \in Int
  BY DEF RoundDiv

LEMMA RoundDivGrows ==
  ASSUME NEW x \in Int, NEW y \in Int, NEW d \in Nat \ {0}
  PROVE  /\ x <= y => RoundDiv(x, d) <= RoundDiv(y, d)
         /\ x + d <= y => RoundDiv(x, d) < RoundDiv(y, d)
<1>1. PICK a \in Int : a = 2 * x + d
  OBVIOUS
<1>2. PICK b \in Int : b = 2 * y + d
  OBVIOUS
<1>3. PICK e \in Nat \ {0} : e = 2 * d
  OBVIOUS
<1>4. (a <= b => a \div e <= b \div e) /\ (a + e <= b => a \div e < b \div e)
  BY DivGrows
<1> QED
  BY <1>1, <1>2, <1>3, <1>4 DEF RoundDiv

LEMMA RoundDivCancels ==
  ASSUME NEW x \in Int, NEW d \in Nat \ {0}, NEW b \in Nat \ {0}
  PROVE  RoundDiv(b * x, b * d) = RoundDiv(x, d)
<1>1. PICK a \in Int : a = 2 * x + d
  OBVIOUS
<1>2. PICK e \in Nat \ {0} : e = 2 * d
  OBVIOUS
<1>3. (b * a) \div (b * e) = a \div e
  BY DivCancels
<1>4. b * a = 2 * (b * x) + b * d /\ b * e = 2 * (b * d)
  BY <1>1, <1>2
<1> QED
  BY <1>1, <1>2, <1>3, <1>4 DEF RoundDiv

-----------------------------------------------------------------------------
(* Payments. *)

(* How far the units moved are from the amount. *)
LEMMA UnitsLemma ==
  ASSUME NEW amount \in Nat \ {0}
  PROVE  /\ BaseUnits(amount) \in Int
         /\ BaseUnits(amount) * PartsPerUnit >= amount <=> IsCovered(amount)
         /\ BaseUnits(amount) * PartsPerUnit < amount + PartsPerUnit
<1>1. PICK d \in Nat \ {0} : d = PartsPerUnit
  BY TransfersAssumption DEF TransfersAssumption
<1>2. PICK q \in Int : q = amount \div d
  OBVIOUS
<1>3. PICK r \in Int : r = amount % d
  OBVIOUS
<1>4. amount = d * q + r /\ 0 <= r /\ r < d
  BY <1>2, <1>3
<1>5. PICK e \in Int : e = d * q
  OBVIOUS
<1>6. PICK u \in Int : u = BaseUnits(amount)
  BY <1>1, RoundDivLemma DEF BaseUnits
<1>7. u = (2 * amount + d) \div (2 * d)
  BY <1>1, <1>6 DEF BaseUnits, RoundDiv
<1>8. PICK f \in Nat \ {0} : f = 2 * d
  OBVIOUS
<1>9. f * q = 2 * e /\ f * (q + 1) = 2 * e + 2 * d
  BY <1>5, <1>8
<1>10. u * d = IF 2 * r < d THEN e ELSE e + d
  <2>1. CASE 2 * r < d
    <3>1. f * q <= 2 * amount + d /\ 2 * amount + d < f * q + f
      BY <1>4, <1>5, <1>8, <1>9, <2>1
    <3>2. u = q
      BY <1>7, <1>8, <3>1, DivIsUnique
    <3> QED
      BY <1>5, <2>1, <3>2
  <2>2. CASE 2 * r >= d
    <3>1. f * (q + 1) <= 2 * amount + d /\ 2 * amount + d < f * (q + 1) + f
      BY <1>4, <1>5, <1>8, <1>9, <2>2
    <3>2. u = q + 1
      BY <1>7, <1>8, <3>1, DivIsUnique
    <3>3. (q + 1) * d = e + d
      BY <1>5
    <3> QED
      BY <1>4, <2>2, <3>2, <3>3
  <2> QED
    BY <1>4, <2>1, <2>2
<1>11. IsCovered(amount) <=> r = 0 \/ 2 * r >= d
  BY <1>1, <1>3 DEF IsCovered
<1>12. /\ IF 2 * r < d THEN u * d = e ELSE u * d = e + d
       /\ u * d \in Int
  BY <1>10
<1>13. (u * d >= amount <=> IsCovered(amount)) /\ u * d < amount + d
  BY <1>4, <1>5, <1>11, <1>12
<1> QED
  BY <1>1, <1>6, <1>13

(* What a wallet gains by a transaction whose last instruction is a transfer. *)
LEMMA GainLemma ==
  ASSUME NEW tx, NEW paid, paid = Last(tx.instructions), paid.from = tx.feePayer, paid.units \in Int, NEW wallet, NEW mint
  PROVE  /\ Gain(tx, wallet, mint) =
              (IF paid.mint = mint /\ paid.to = wallet THEN paid.units ELSE 0)
                - (IF paid.mint = mint /\ paid.from = wallet THEN paid.units ELSE 0)
                - (IF mint = None /\ paid.from = wallet THEN 1 ELSE 0)
         /\ Gain(tx, wallet, mint) \in Int
<1>1. Gain(tx, wallet, mint) =
        (IF paid.mint = mint /\ paid.to = wallet THEN paid.units ELSE 0)
          - (IF paid.mint = mint /\ paid.from = wallet THEN paid.units ELSE 0)
          - (IF mint = None /\ paid.from = wallet THEN 1 ELSE 0)
  BY DEF Gain, Fee
<1> QED
  BY <1>1

LEMMA LastLemma ==
  ASSUME NEW S, NEW s \in Seq(S), NEW x \in S
  PROVE  Last(s \o <<x>>) = x
<1>1. PICK k \in Nat : k = Len(s)
  BY LenProperties
<1>2. PICK w \in Seq(S) : w = Append(s, x)
  BY AppendLemma
<1>3. Len(w) = k + 1 /\ w[k + 1] = x
  BY <1>1, <1>2, AppendLemma
<1>4. s \o <<x>> = w
  BY <1>2, AppendIsConcat
<1> QED
  BY <1>3, <1>4 DEF Last

LEMMA ChallengeLemma ==
  ASSUME NEW c \in Challenges
  PROVE  c.amount \in Nat \ {0} /\ c.reference # None
<1>1. PICK amount \in Amounts, payee \in Payees, reference \in References, mint \in Mints \cup {None} :
        c = X402Challenge([amount |-> amount, seller |-> payee], reference, mint)
  BY DEF Challenges
<1> QED
  BY <1>1, TransfersAssumption DEF TransfersAssumption, X402Challenge

(* A payer's payload for a challenge, by the last instruction of the one      *)
(* transaction in it.                                                         *)
IsPayloadFor(header, tx, paid, payer, c) ==
  /\ header = [scheme |-> "exact", reference |-> c.reference, transaction |-> {tx}]
  /\ tx.feePayer = payer /\ paid = Last(tx.instructions)
  /\ paid.program = (IF c.mint = None THEN "system" ELSE "token") /\ paid.from = payer /\ paid.to = c.payTo
  /\ paid.mint = c.mint /\ paid.units = BaseUnits(c.amount) /\ paid.keys = <<c.reference>>

LEMMA SignedLemma ==
  ASSUME NEW payer, NEW c \in Challenges, NEW header, header = BuildPaymentPayload(c, payer)
  PROVE  \E tx, paid : IsPayloadFor(header, tx, paid, payer, c)
<1>2. c.amount \in Nat \ {0} /\ c.reference # None
  BY ChallengeLemma
<1>3. PICK opts : opts = [mint |-> c.mint, reference |-> c.reference, memo |-> c.resource, maxAmount |-> None]
  OBVIOUS
<1>5. header = [scheme |-> "exact", reference |-> c.reference,
                transaction |-> SignTransferTransaction(payer, c.payTo, c.amount, opts)]
  BY <1>3 DEF BuildPaymentPayload
<1>6. PICK instructions : instructions = BuildTransferInstructions(payer, c.payTo, c.amount, opts)
  OBVIOUS
<1>7. PICK bare : bare = [feePayer |-> payer, instructions |-> instructions]
  OBVIOUS
<1>8. CheckAmount(c.amount, opts.maxAmount)
  BY <1>2, <1>3 DEF CheckAmount
<1>9. BuildTransferTransaction(payer, c.payTo, c.amount, opts) = {bare}
  BY <1>6, <1>7, <1>8 DEF BuildTransferTransaction
<1>10. PICK tx : tx = Put(bare, "signer", payer)
  OBVIOUS
<1>11. header.transaction = {tx}
  <2>1. SignTransferTransaction(payer, c.payTo, c.amount, opts) = {Put(t, "signer", payer) : t \in {bare}}
    BY <1>9 DEF SignTransferTransaction
  <2> QED
    BY <1>5, <1>10, <2>1
<1>12. tx.feePayer = payer /\ tx.instructions = instructions
  BY <1>7, <1>10 DEF Put
<1>13. PICK paid : paid = TransferInstruction(payer, c.payTo, c.amount, opts)
  OBVIOUS
<1>14. /\ paid.program = (IF c.mint = None THEN "system" ELSE "token") /\ paid.from = payer /\ paid.to = c.payTo
       /\ paid.mint = c.mint /\ paid.units = BaseUnits(c.amount) /\ paid.keys = <<c.reference>>
  BY <1>2, <1>3, <1>13 DEF TransferInstruction
<1>15. Last(instructions) = paid
  <2>1. PICK note : note = [program |-> "memo"]
    OBVIOUS
  <2>2. PICK creates : creates = [program |-> "account", of |-> c.payTo, mint |-> opts.mint]
    OBVIOUS
  <2>3. PICK S : S = {note, creates, paid}
    OBVIOUS
  <2>4. <<>> \in Seq(S) /\ \A x \in S : <<x>> \in Seq(S)
    BY EmptySeq, AppendProperties
  <2>5. note \in S /\ creates \in S
    BY <2>3
  <2>6. PICK memo \in Seq(S) : memo = IF opts.memo = None THEN <<>> ELSE <<note>>
    BY <2>4, <2>5
  <2>7. PICK account \in Seq(S) : account = IF opts.mint = None THEN <<>> ELSE <<creates>>
    BY <2>4, <2>5
  <2>8. PICK before \in Seq(S) : before = memo \o account
    BY ConcatProperties
  <2>9. Last(before \o <<paid>>) = paid
    BY <2>3, LastLemma
  <2>10. instructions = before \o <<paid>>
    BY <1>6, <1>13, <2>1, <2>2, <2>6, <2>7, <2>8 DEF BuildTransferInstructions
  <2> QED
    BY <2>9, <2>10
<1>16. IsPayloadFor(header, tx, paid, payer, c)
  <2>1. header = [scheme |-> "exact", reference |-> c.reference, transaction |-> {tx}]
    BY <1>5, <1>11
  <2> QED
    BY <1>12, <1>14, <1>15, <2>1 DEF IsPayloadFor
<1> QED
  BY <1>16

LEMMA EveryPaymentIsBound ==
  ASSUME NEW payer, NEW c \in Challenges, NEW d \in Challenges
  PROVE  Settled(payer, c, d)
<1>1. c.amount \in Nat \ {0} /\ d.amount \in Nat \ {0}
  BY ChallengeLemma
<1>2. PICK header : header = BuildPaymentPayload(c, payer)
  OBVIOUS
<1>3. PICK tx, paid : IsPayloadFor(header, tx, paid, payer, c)
  BY <1>2, SignedLemma
<1>4. /\ header = [scheme |-> "exact", reference |-> c.reference, transaction |-> {tx}]
      /\ tx.feePayer = payer /\ paid = Last(tx.instructions)
  BY <1>3 DEF IsPayloadFor
<1>5. DOMAIN header = {"scheme", "reference", "transaction"} /\ header.reference = c.reference /\ header.transaction = {tx}
  BY <1>4
<1>6. /\ paid.program = (IF c.mint = None THEN "system" ELSE "token") /\ paid.from = payer /\ paid.to = c.payTo
      /\ paid.mint = c.mint /\ paid.units = BaseUnits(c.amount) /\ paid.keys = <<c.reference>>
  BY <1>3 DEF IsPayloadFor
<1>7. PICK P \in Nat \ {0} : P = PartsPerUnit
  BY TransfersAssumption DEF TransfersAssumption
<1>8. PICK u \in Int : /\ u = BaseUnits(c.amount) /\ (u * P >= c.amount <=> IsCovered(c.amount)) /\ u * P < c.amount + P
  BY <1>1, <1>7, UnitsLemma
<1>9. \A wallet, mint :
        /\ Gain(tx, wallet, mint) = (IF c.mint = mint /\ c.payTo = wallet THEN u ELSE 0)
             - (IF c.mint = mint /\ payer = wallet THEN u ELSE 0) - (IF mint = None /\ payer = wallet THEN 1 ELSE 0)
        /\ Gain(tx, wallet, mint) \in Int
  BY <1>4, <1>6, <1>8, GainLemma
<1>10. \A e, opts : opts = Expected(e) =>
         /\ opts.recipient = e.payTo /\ opts.amount = e.amount /\ opts.reference = e.reference /\ opts.mint = e.mint
  BY DEF Expected
(* What settles a challenge, whichever it is. *)
<1>11. ASSUME NEW e
       PROVE  VerifyPayment(header.transaction, Expected(e)) <=>
                /\ paid.program = (IF e.mint = None THEN "system" ELSE "token") /\ paid.keys = <<e.reference>>
                /\ Gain(tx, e.payTo, e.mint) * P >= e.amount
  BY <1>4, <1>5, <1>7, <1>10 DEF VerifyPayment, ValidateTransfer
<1>12. ASSUME NEW e, NEW h, DOMAIN h = DOMAIN header, h.scheme = "exact", h.transaction = header.transaction
       PROVE  SettleX402(h, e) <=> h.reference = e.reference /\ VerifyPayment(header.transaction, Expected(e))
  <2>1. DecodePayload(h)
    BY <1>5, <1>12 DEF DecodePayload
  <2> QED
    BY <1>12, <2>1 DEF SettleX402, IsFor
<1>13. SettleX402(header, c) <=> VerifyPayment(header.transaction, Expected(c))
  BY <1>4, <1>12
<1>14. VerifyPayment(header.transaction, Expected(c)) <=> payer # c.payTo /\ IsCovered(c.amount)
  <2>1. VerifyPayment(header.transaction, Expected(c)) <=> Gain(tx, c.payTo, c.mint) * P >= c.amount
    BY <1>6, <1>11
  <2>2. CASE payer # c.payTo
    <3>1. Gain(tx, c.payTo, c.mint) = u
      BY <1>9, <2>2
    <3> QED
      BY <1>8, <2>1, <2>2, <3>1
  <2>3. CASE payer = c.payTo
    <3>1. Gain(tx, c.payTo, c.mint) = 0 \/ Gain(tx, c.payTo, c.mint) = -1
      BY <1>9, <2>3
    <3>2. 0 * P = 0 /\ (-1) * P = -P
      OBVIOUS
    <3> QED
      BY <1>1, <2>1, <2>3, <3>1, <3>2
  <2> QED
    BY <2>2, <2>3
<1>15. SettleX402(header, c) <=> Accepts(header, c)
  BY <1>13 DEF Accepts
<1>16. ASSUME d.reference # c.reference
       PROVE  ~SettleX402(header, d) /\ ~SettleX402([header EXCEPT !.reference = d.reference], d)
  <2>1. ~SettleX402(header, d)
    BY <1>4, <1>12, <1>16
  <2>2. PICK h : h = [header EXCEPT !.reference = d.reference]
    OBVIOUS
  <2>4. DOMAIN h = DOMAIN header /\ h.scheme = "exact" /\ h.transaction = header.transaction
    BY <1>4, <2>2
  <2>5. ~VerifyPayment(header.transaction, Expected(d))
    <3>1. <<c.reference>> # <<d.reference>>
      BY <1>16
    <3> QED
      BY <1>6, <1>11, <3>1
  <2> QED
    BY <1>12, <2>1, <2>2, <2>4, <2>5
<1>17. ASSUME SettleX402(header, d), d.payTo = c.payTo
       PROVE  d.mint = c.mint /\ d.amount < c.amount + PartsPerUnit
  <2>1. PICK g \in Int : g = Gain(tx, d.payTo, d.mint)
    BY <1>9
  <2>2. g * P >= d.amount
    BY <1>4, <1>11, <1>12, <1>17, <2>1
  <2>3. g > 0
    <3>1. CASE g <= 0
      <4>1. g * P <= 0
        BY <3>1
      <4> QED
        BY <1>1, <2>2, <4>1
    <3> QED
      BY <3>1
  <2>4. /\ g = (IF c.mint = d.mint THEN u ELSE 0) - (IF c.mint = d.mint /\ payer = d.payTo THEN u ELSE 0)
                - (IF d.mint = None /\ payer = d.payTo THEN 1 ELSE 0)
    BY <1>9, <1>17, <2>1
  <2>5. c.mint = d.mint /\ payer # d.payTo /\ g = u
    BY <2>3, <2>4
  <2> QED
    BY <1>1, <1>7, <1>8, <2>2, <2>5
<1> QED
  BY <1>2, <1>13, <1>14, <1>15, <1>16, <1>17 DEF Settled

(* PaymentsAreBound: whatever amounts, wallets, tokens and references there   *)
(* are, and into however many parts a unit is divided.                        *)
THEOREM PaymentsStayBound == Spec => []PaymentsAreBound
<1>1. AllSettled
  BY EveryPaymentIsBound DEF AllSettled
<1>2. PaymentsAreBound
  BY <1>1 DEF PaymentsAreBound
<1> QED
  BY <1>2, PTL

-----------------------------------------------------------------------------
(* Quotes. *)

LEMMA OfTwo ==
  ASSUME NEW a \in Nat, NEW b \in Nat
  PROVE  /\ Min({a, b}) \in {a, b} /\ Min({a, b}) <= a /\ Min({a, b}) <= b
         /\ Max({a, b}) \in {a, b} /\ Max({a, b}) >= a /\ Max({a, b}) >= b
<1>1. PICK T : T = {a, b}
  OBVIOUS
<1>2. T \subseteq Nat /\ T # {} /\ a \in T /\ b \in T
  BY <1>1
<1>3. PICK n \in Nat : n = a + b
  OBVIOUS
<1>4. T \subseteq 0..n
  BY <1>1, <1>3
<1>5. Min(T) \in T /\ \A m \in T : Min(T) <= m
  BY <1>2, LeastIsThere
<1>6. Max(T) \in T /\ \A m \in T : Max(T) >= m
  BY <1>2, <1>4, GreatestIsThere
<1> QED
  BY <1>1, <1>2, <1>5, <1>6

LEMMA SequencesAreBounded ==
  ASSUME NEW s \in Seq(Nat)
  PROVE  \E n \in Nat : ToSet(s) \subseteq 0..n
<1> DEFINE T == {u \in Seq(Nat) : \E n \in Nat : ToSet(u) \subseteq 0..n}
<1>1. <<>> \in T
  <2>1. <<>> \in Seq(Nat) /\ DOMAIN <<>> = {}
    BY EmptySeq
  <2>2. ToSet(<<>>) \subseteq 0..0
    BY <2>1 DEF ToSet
  <2> QED
    BY <2>1, <2>2
<1>2. ASSUME NEW u \in Seq(Nat), NEW x \in Nat, u \in T PROVE Append(u, x) \in T
  <2>1. PICK n \in Nat : ToSet(u) \subseteq 0..n
    BY <1>2
  <2>2. Append(u, x) \in Seq(Nat) /\ ToSet(Append(u, x)) = ToSet(u) \cup {x}
    BY AppendLemma
  <2>3. PICK m \in Nat : m = n + x
    OBVIOUS
  <2>4. ToSet(u) \cup {x} \subseteq 0..m
    BY <2>1, <2>3
  <2> QED
    BY <2>2, <2>4
<1>3. Seq(Nat) \subseteq T
  <2> HIDE DEF T
  <2> QED
    BY <1>1, <1>2, SequencesInduction
<1> QED
  BY <1>3

LEMMA GreatestOf ==
  ASSUME NEW prices \in Seq(Nat), prices # <<>>
  PROVE  Max(ToSet(prices)) \in ToSet(prices) /\ \A p \in ToSet(prices) : Max(ToSet(prices)) >= p
<1>1. PICK n \in Nat : ToSet(prices) \subseteq 0..n
  BY SequencesAreBounded
<1>2. ToSet(prices) # {}
  BY NoElements
<1>3. PICK T : T = ToSet(prices)
  OBVIOUS
<1> QED
  BY <1>1, <1>2, <1>3, GreatestIsThere

LEMMA SortedLemma ==
  ASSUME NEW prices \in Seq(Nat), prices # <<>>, NEW k \in 1..Len(prices)
  PROVE  Sorted(prices, k) \in Nat
<1>1. PICK n \in Nat : n = Len(prices) /\ DOMAIN prices = 1..n
  BY LenProperties
<1>2. PICK max : max = Max(ToSet(prices)) /\ max \in ToSet(prices) /\ \A p \in ToSet(prices) : max >= p
  BY GreatestOf
<1>3. ToSet(prices) \subseteq Nat
  BY <1>1, ElementOfSeq DEF ToSet
<1>4. {i \in DOMAIN prices : prices[i] <= max} = 1..n
  <2>1. \A i \in 1..n : prices[i] \in ToSet(prices)
    BY <1>1 DEF ToSet
  <2>2. \A i \in 1..n : prices[i] <= max
    BY <1>2, <1>3, <2>1
  <2> QED
    BY <1>1, <2>2
<1>5. Cardinality(1..n) = n
  <2>1. Cardinality(1..n) = IF 1 > n THEN 0 ELSE n - 1 + 1
    BY FS_Interval
  <2> QED
    BY <2>1
<1>6. PICK T : T = {x \in ToSet(prices) : Cardinality({i \in DOMAIN prices : prices[i] <= x}) >= k}
  OBVIOUS
<1>7. max \in T
  <2>1. PICK A : A = {i \in DOMAIN prices : prices[i] <= max} /\ A = 1..n
    BY <1>4
  <2>2. Cardinality(A) >= k
    <3>1. Cardinality(A) = n
      BY <1>5, <2>1, Zenon
    <3>2. n >= k
      BY <1>1
    <3> QED
      BY <3>1, <3>2
  <2> QED
    BY <1>2, <1>6, <2>1, <2>2
<1>8. T \subseteq Nat /\ T # {}
  BY <1>3, <1>6, <1>7
<1>9. Min(T) \in Nat
  BY <1>8, LeastIsThere
<1> QED
  BY <1>6, <1>9 DEF Sorted

LEMMA MedianLemma ==
  ASSUME NEW prices \in Seq(Nat), prices # <<>>
  PROVE  ClearingPrices(prices).median \in Nat /\ ClearingPrices(prices).max \in Nat
<1>1. PICK n \in Nat : n = Len(prices)
  BY LenProperties
<1>2. n # 0
  BY <1>1, EmptySeq
<1>3. PICK mid \in Int : mid = n \div 2
  OBVIOUS
<1>4. n % 2 = 1 => mid + 1 \in 1..n
  BY <1>1, <1>2, <1>3
<1>5. n % 2 # 1 => mid \in 1..n /\ mid + 1 \in 1..n
  BY <1>1, <1>2, <1>3
<1>6. Median(prices) = IF n % 2 = 1 THEN Sorted(prices, mid + 1) ELSE (Sorted(prices, mid) + Sorted(prices, mid + 1)) \div 2
  BY <1>1, <1>3 DEF Median
<1>7. Median(prices) \in Nat
  <2>1. CASE n % 2 = 1
    <3>1. Sorted(prices, mid + 1) \in Nat
      BY <1>1, <1>4, <2>1, SortedLemma
    <3> QED
      BY <1>6, <2>1, <3>1
  <2>2. CASE n % 2 # 1
    <3>1. PICK a \in Nat : a = Sorted(prices, mid)
      BY <1>1, <1>5, <2>2, SortedLemma
    <3>2. PICK b \in Nat : b = Sorted(prices, mid + 1)
      BY <1>1, <1>5, <2>2, SortedLemma
    <3>3. (a + b) \div 2 \in Nat
      OBVIOUS
    <3> QED
      BY <1>6, <2>2, <3>1, <3>2, <3>3
  <2> QED
    BY <2>1, <2>2
<1>8. Max(ToSet(prices)) \in Nat
  <2>1. ToSet(prices) \subseteq Nat
    BY LenProperties, ElementOfSeq DEF ToSet
  <2> QED
    BY <2>1, GreatestOf
<1> QED
  BY <1>7, <1>8 DEF ClearingPrices

(* A quote is between the seller's floor and the budget, whatever it aims at. *)
LEMMA ClampLemma ==
  ASSUME NEW budget \in Nat, NEW floor \in Nat, NEW target \in Nat, floor <= budget
  PROVE  Clamp(budget, floor, target) \in floor..budget
<1>1. PICK m \in Nat : m = Max({floor, target}) /\ m >= floor
  BY OfTwo
<1>2. PICK n \in Nat : n = Min({budget, m}) /\ n \in {budget, m} /\ n <= budget
  BY OfTwo
<1>3. n >= floor
  BY <1>1, <1>2
<1> QED
  BY <1>1, <1>2, <1>3 DEF Clamp

LEMMA QuoteLemma ==
  ASSUME NEW want, NEW cfg, NEW prices \in Seq(Nat), NEW up \in BOOLEAN,
         want.budget \in Nat, cfg.floor \in Nat, cfg.floor <= want.budget, want.service \in cfg.services,
         cfg.strategy \in {"undercut", "premium", "balanced"}
  PROVE  DecideBid(want, cfg, prices, up) \in cfg.floor..want.budget
<1>1. PICK clearing : clearing = FetchClearingPrice(prices, up)
  OBVIOUS
<1>2. ~(want.service \notin cfg.services \/ cfg.floor > want.budget)
  OBVIOUS
<1>3. DecideBid(want, cfg, prices, up) =
        IF cfg.asksFeed /\ clearing # None THEN Clamp(want.budget, cfg.floor, StrategyTarget(cfg.strategy, clearing)) ELSE cfg.floor
  BY <1>1, <1>2 DEF DecideBid
<1>4. CASE cfg.asksFeed /\ clearing # None
  <2>1. prices # <<>> /\ clearing = ClearingPrices(prices)
    BY <1>1, <1>4 DEF FetchClearingPrice
  <2>2. PICK median \in Nat : median = clearing.median
    BY <2>1, MedianLemma
  <2>3. PICK max \in Nat : max = clearing.max
    BY <2>1, MedianLemma
  <2>4. (median * 97) \div 100 \in Nat
    <3>1. PICK x \in Nat : x = median * 97
      OBVIOUS
    <3>2. x \div 100 \in Nat
      OBVIOUS
    <3> QED
      BY <3>1, <3>2
  <2>5. StrategyTarget(cfg.strategy, clearing) \in Nat
    BY <2>2, <2>3, <2>4 DEF StrategyTarget
  <2>6. Clamp(want.budget, cfg.floor, StrategyTarget(cfg.strategy, clearing)) \in cfg.floor..want.budget
    BY <2>5, ClampLemma
  <2> QED
    BY <1>3, <1>4, <2>6
<1>5. CASE ~(cfg.asksFeed /\ clearing # None)
  BY <1>3, <1>5
<1> QED
  BY <1>4, <1>5

(* What is within the budget and its own price breaks no rule that is set. *)
LEMMA PolicyLemma ==
  ASSUME NEW quote \in Nat, NEW deal \in Nat \ {0}, quote <= deal
  PROVE  LET action == [amount |-> quote, awardedPrice |-> quote, service |-> "edge", payout |-> "seller",
                        spent |-> deal, last |-> 0, now |-> 0]
         IN Enforce(action, PolicyFromEnv(Unset, [budget |-> deal, service |-> "edge", payout |-> "seller"])) = {}
<1>1. PICK action : action = [amount |-> quote, awardedPrice |-> quote, service |-> "edge", payout |-> "seller",
                              spent |-> deal, last |-> 0, now |-> 0]
  OBVIOUS
<1>2. PICK defaults : defaults = [budget |-> deal, service |-> "edge", payout |-> "seller"]
  OBVIOUS
<1>3. PICK policy : policy = PolicyFromEnv(Unset, defaults)
  OBVIOUS
<1>4. /\ policy.maxPerRound = deal /\ policy.maxPerSession = None /\ policy.services = {"edge"}
      /\ policy.payout = "seller" /\ policy.minInterval = None
  BY <1>2, <1>3 DEF PolicyFromEnv, Unset, Set
<1>5. /\ ~(action.amount > policy.maxPerRound)
      /\ ~(policy.maxPerSession # None /\ action.spent + action.amount > policy.maxPerSession)
      /\ ~(action.amount > action.awardedPrice)
      /\ ~(action.service \notin policy.services)
      /\ ~(policy.payout # None /\ action.payout # policy.payout)
      /\ ~(policy.minInterval # None /\ action.last # None /\ action.now - action.last < policy.minInterval)
  BY <1>1, <1>4
<1>6. \A rule : rule \notin Enforce(action, policy)
  BY <1>5 DEF Enforce
<1> QED
  BY <1>1, <1>2, <1>3, <1>6

LEMMA QuotesLemma == QuotesAreAllowed
<1> SUFFICES ASSUME NEW budget \in Budgets, NEW floor \in Budgets, NEW deal \in Budgets, NEW strategy \in Strategies,
                    NEW prices \in Histories, NEW up \in BOOLEAN, floor <= budget, budget <= deal
             PROVE  LET env    == [services |-> {"edge"}, floor |-> floor, asksFeed |-> TRUE, strategy |-> strategy]
                        quote  == DecideBid([service |-> "edge", budget |-> budget], SellerConfigFromEnv(env), prices, up)
                        action == [amount |-> quote, awardedPrice |-> quote, service |-> "edge", payout |-> "seller",
                                   spent |-> deal, last |-> 0, now |-> 0]
                        policy == PolicyFromEnv(Unset, [budget |-> deal, service |-> "edge", payout |-> "seller"])
                    IN quote # None /\ quote >= floor /\ Enforce(action, policy) = {}
  BY DEF QuotesAreAllowed
<1>1. budget \in Nat /\ floor \in Nat /\ deal \in Nat \ {0}
  BY RulesAssumption DEF RulesAssumption
<1>2. prices \in Seq(Nat)
  <2>1. PICK n \in 0..3 : prices = <<>> \/ prices \in [1..n -> Prices]
    BY DEF Histories
  <2>2. Prices \subseteq Nat
    BY RulesAssumption DEF RulesAssumption
  <2>3. prices = <<>> => prices \in Seq(Nat)
    BY EmptySeq
  <2>4. prices \in [1..n -> Prices] => prices \in Seq(Nat)
    <3>1. HAVE prices \in [1..n -> Prices]
    <3>2. prices \in [1..n -> Nat]
      BY <2>2, <3>1, Zenon
    <3>3. n \in Nat
      OBVIOUS
    <3> QED
      BY <3>2, <3>3, SeqDef
  <2> QED
    BY <2>1, <2>3, <2>4
<1>3. PICK env : env = [services |-> {"edge"}, floor |-> floor, asksFeed |-> TRUE, strategy |-> strategy]
  OBVIOUS
<1>4. PICK cfg : cfg = SellerConfigFromEnv(env)
  OBVIOUS
<1>5. cfg.floor = floor /\ cfg.services = {"edge"} /\ cfg.strategy \in {"undercut", "premium", "balanced"}
  BY <1>3, <1>4 DEF SellerConfigFromEnv
<1>6. PICK want : want = [service |-> "edge", budget |-> budget]
  OBVIOUS
<1>7. want.budget = budget /\ want.service = "edge"
  BY <1>6
<1>8. PICK quote : quote = DecideBid(want, cfg, prices, up)
  OBVIOUS
<1>9. quote \in floor..budget
  BY <1>1, <1>2, <1>5, <1>7, <1>8, QuoteLemma
<1>10. quote \in Nat /\ quote >= floor /\ quote <= deal /\ quote # None
  BY <1>1, <1>9, RulesAssumption DEF RulesAssumption
<1>11. Enforce([amount |-> quote, awardedPrice |-> quote, service |-> "edge", payout |-> "seller",
                spent |-> deal, last |-> 0, now |-> 0],
               PolicyFromEnv(Unset, [budget |-> deal, service |-> "edge", payout |-> "seller"])) = {}
  BY <1>1, <1>10, PolicyLemma
<1> QED
  BY <1>3, <1>4, <1>6, <1>8, <1>10, <1>11

-----------------------------------------------------------------------------
(* Awards by value. *)

BidsMade == [by : Sellers, price : Prices, note : {<<>>}]

LEMMA SelectedBids ==
  ASSUME NEW pool \in Seq(BidsMade), pool # <<>>
  PROVE  \E m \in Nat \ {0} : DOMAIN SelectBids(pool) = 1..m /\ \A k \in 1..m : SelectBids(pool)[k] \in BidsMade
<1>1. PICK n \in Nat : n = Len(pool) /\ DOMAIN pool = 1..n
  BY LenProperties
<1>2. n > 0
  BY <1>1, EmptySeq
<1>3. \A i \in 1..n : pool[i] \in BidsMade
  BY <1>1, ElementOfSeq
<1>4. PICK firsts : firsts = {i \in DOMAIN pool : \A j \in 1..i-1 : pool[j].by # pool[i].by}
  OBVIOUS
<1>5. firsts \subseteq 1..n /\ 1 \in firsts
  BY <1>1, <1>2, <1>4
<1>6. PICK numbers : numbers = [i \in DOMAIN pool |-> i]
  OBVIOUS
<1>7. numbers = [i \in 1..n |-> i]
  BY <1>1, <1>6
<1>8. numbers \in Seq(Nat)
  BY <1>7, SeqDef
<1>9. 1 \in ToSet(numbers)
  <2>1. 1 \in DOMAIN numbers /\ numbers[1] = 1
    BY <1>2, <1>7
  <2> QED
    BY <2>1 DEF ToSet
<1>10. PICK order \in Seq(Nat) : order = Only(numbers, firsts) /\ ToSet(order) = ToSet(numbers) \cap firsts
  BY <1>8, OnlyLemma
<1>11. PICK m \in Nat : m = Len(order) /\ DOMAIN order = 1..m
  BY LenProperties
<1>12. m # 0
  <2>1. PICK i \in DOMAIN order : order[i] = 1
    BY <1>5, <1>9, <1>10 DEF ToSet
  <2> QED
    BY <1>11, <2>1
<1>13. ASSUME NEW k \in 1..m PROVE order[k] \in 1..n
  <2>1. order[k] \in ToSet(order)
    BY <1>11 DEF ToSet
  <2> QED
    BY <1>5, <1>10, <2>1
<1>14. ASSUME NEW i \in 1..n PROVE pool[Max({j \in DOMAIN pool : pool[j].by = pool[i].by})] \in BidsMade
  <2>1. PICK at : at = {j \in DOMAIN pool : pool[j].by = pool[i].by}
    OBVIOUS
  <2>2. at \subseteq 0..n /\ at # {} /\ at \subseteq 1..n
    BY <1>1, <2>1
  <2>3. Max(at) \in at
    BY <2>2, GreatestIsThere
  <2> QED
    BY <1>3, <2>1, <2>2, <2>3
<1>15. SelectBids(pool) = [k \in DOMAIN order |-> pool[Max({j \in DOMAIN pool : pool[j].by = pool[order[k]].by})]]
  BY <1>4, <1>6, <1>10 DEF SelectBids
<1>16. DOMAIN SelectBids(pool) = 1..m /\ \A k \in 1..m : SelectBids(pool)[k] \in BidsMade
  BY <1>11, <1>13, <1>14, <1>15
<1> QED
  BY <1>12, <1>16

(* Of finitely many some one is not beaten. *)
Beats(v, p, j, i) == v[j] > v[i] \/ (v[j] = v[i] /\ p[j] < p[i])

LEMMA SomeoneIsBest ==
  ASSUME NEW m \in Nat \ {0}, NEW v, NEW p, \A i \in 1..m : v[i] \in Int /\ p[i] \in Int
  PROVE  \E i \in 1..m : \A j \in 1..m : ~Beats(v, p, j, i)
<1> DEFINE T == {n \in Nat : n \in 1..m => \E i \in 1..n : \A j \in 1..n : ~Beats(v, p, j, i)}
<1>1. 0 \in T
  OBVIOUS
<1>2. ASSUME NEW n \in Nat, n \in T PROVE n + 1 \in T
  <2> SUFFICES ASSUME n + 1 \in 1..m PROVE \E i \in 1..(n + 1) : \A j \in 1..(n + 1) : ~Beats(v, p, j, i)
    OBVIOUS
  <2>1. (\A j \in 1..(n + 1) : j \in 1..n \/ j = n + 1) /\ 1..n \subseteq 1..(n + 1) /\ n + 1 \in 1..(n + 1) /\ 1..(n + 1) \subseteq 1..m
    OBVIOUS
  <2>2. \A j \in 1..(n + 1) : v[j] \in Int /\ p[j] \in Int
    BY <2>1
  <2>3. CASE n = 0
    <3>1. ~Beats(v, p, 1, 1)
      BY <2>2, <2>3 DEF Beats
    <3> QED
      BY <2>3, <3>1
  <2>4. CASE n # 0
    <3>1. n \in 1..m
      BY <2>4
    <3>2. PICK i \in 1..n : \A j \in 1..n : ~Beats(v, p, j, i)
      BY <1>2, <3>1
    <3>3. CASE Beats(v, p, n + 1, i)
      <4>1. ASSUME NEW j \in 1..n PROVE ~Beats(v, p, j, n + 1)
        <5>1. ~Beats(v, p, j, i)
          BY <3>2
        <5>2. v[j] \in Int /\ p[j] \in Int /\ v[i] \in Int /\ p[i] \in Int /\ v[n + 1] \in Int /\ p[n + 1] \in Int
          BY <2>1, <2>2
        <5> QED
          BY <3>3, <5>1, <5>2 DEF Beats
      <4>2. ~Beats(v, p, n + 1, n + 1)
        BY <2>1, <2>2 DEF Beats
      <4> QED
        BY <2>1, <4>1, <4>2
    <3>4. CASE ~Beats(v, p, n + 1, i)
      BY <2>1, <3>2, <3>4
    <3> QED
      BY <3>3, <3>4
  <2> QED
    BY <2>3, <2>4
<1>3. Nat \subseteq T
  <2> HIDE DEF T
  <2> QED
    BY <1>1, <1>2, NumbersInduction
<1>4. m \in T
  BY <1>3
<1> QED
  BY <1>4

LEMMA TimesGrows ==
  ASSUME NEW a \in Int, NEW b \in Int, NEW d \in Nat, a <= b
  PROVE  a * d \in Int /\ b * d \in Int /\ a * d <= b * d
  OBVIOUS

(* The value of a bid, and when it is at least or more than another's. *)
LEMMA ValueLemma ==
  ASSUME NEW x \in BidsMade, NEW y \in BidsMade, NEW budget \in Nat \ {0}, NEW s \in Int, NEW t \in Int
  PROVE  /\ ValueScore(x, budget, s) \in Int
         /\ x.price <= y.price /\ s >= t => ValueScore(x, budget, s) >= ValueScore(y, budget, t)
         /\ x.price = y.price /\ s >= t + 3 => ValueScore(x, budget, s) > ValueScore(y, budget, t)
<1>1. PICK p \in Nat : p = x.price
  BY RulesAssumption DEF RulesAssumption, BidsMade
<1>2. PICK q \in Nat : q = y.price
  BY RulesAssumption DEF RulesAssumption, BidsMade
<1>3. PICK b \in Nat \ {0} : b = budget
  OBVIOUS
<1>4. PICK sb \in Int : sb = s * b
  OBVIOUS
<1>5. PICK tb \in Int : tb = t * b
  OBVIOUS
<1>6. PICK e \in Nat \ {0} : e = 5 * b
  OBVIOUS
<1>7. /\ ValueScore(x, budget, s) = IF p <= b THEN RoundDiv(300 * (b - p) + 2 * sb, e) ELSE RoundDiv(2 * s, 5)
      /\ ValueScore(y, budget, t) = IF q <= b THEN RoundDiv(300 * (b - q) + 2 * tb, e) ELSE RoundDiv(2 * t, 5)
  <2>1. 2 * s * b = 2 * sb /\ 2 * t * b = 2 * tb
    BY <1>4, <1>5
  <2> QED
    BY <1>1, <1>2, <1>3, <1>6, <2>1 DEF ValueScore
<1>8. PICK X \in Int : X = 300 * (b - p) + 2 * sb
  OBVIOUS
<1>9. PICK Y \in Int : Y = 300 * (b - q) + 2 * tb
  OBVIOUS
<1>10. RoundDiv(X, e) \in Int /\ RoundDiv(Y, e) \in Int /\ RoundDiv(2 * s, 5) \in Int /\ RoundDiv(2 * t, 5) \in Int
  BY RoundDivLemma
<1>11. ValueScore(x, budget, s) \in Int
  BY <1>7, <1>8, <1>10
<1>12. RoundDiv(2 * t, 5) = RoundDiv(2 * tb, e)
  <2>1. PICK k \in Int : k = 2 * t
    OBVIOUS
  <2>2. RoundDiv(b * k, b * 5) = RoundDiv(k, 5)
    BY RoundDivCancels
  <2>3. b * k = 2 * tb /\ b * 5 = e
    BY <1>5, <1>6, <2>1
  <2> QED
    BY <2>1, <2>2, <2>3
<1>13. s >= t => sb >= tb
  BY <1>4, <1>5, TimesGrows
<1>14. s >= t + 3 => sb >= tb + 3 * b
  <2>1. HAVE s >= t + 3
  <2>2. s * b >= (t + 3) * b
    BY <2>1, TimesGrows
  <2>3. (t + 3) * b = tb + 3 * b
    BY <1>5
  <2> QED
    BY <1>4, <2>2, <2>3
<1>15. /\ Y <= X => RoundDiv(Y, e) <= RoundDiv(X, e)
       /\ Y + e <= X => RoundDiv(Y, e) < RoundDiv(X, e)
       /\ 2 * tb <= X => RoundDiv(2 * tb, e) <= RoundDiv(X, e)
       /\ 2 * t <= 2 * s => RoundDiv(2 * t, 5) <= RoundDiv(2 * s, 5)
       /\ 2 * t + 5 <= 2 * s => RoundDiv(2 * t, 5) < RoundDiv(2 * s, 5)
  <2>1. PICK k \in Int : k = 2 * tb
    OBVIOUS
  <2>2. PICK g \in Int : g = 2 * t
    OBVIOUS
  <2>3. PICK h \in Int : h = 2 * s
    OBVIOUS
  <2>4. (Y <= X => RoundDiv(Y, e) <= RoundDiv(X, e)) /\ (Y + e <= X => RoundDiv(Y, e) < RoundDiv(X, e))
    BY RoundDivGrows
  <2>5. k <= X => RoundDiv(k, e) <= RoundDiv(X, e)
    BY RoundDivGrows
  <2>6. (g <= h => RoundDiv(g, 5) <= RoundDiv(h, 5)) /\ (g + 5 <= h => RoundDiv(g, 5) < RoundDiv(h, 5))
    BY RoundDivGrows
  <2> QED
    BY <2>1, <2>2, <2>3, <2>4, <2>5, <2>6
<1>16. ASSUME p <= q, s >= t PROVE ValueScore(x, budget, s) >= ValueScore(y, budget, t)
  <2>1. CASE p <= b /\ q <= b
    <3>1. Y <= X
      BY <1>8, <1>9, <1>13, <1>16
    <3> QED
      BY <1>7, <1>8, <1>9, <1>10, <1>15, <2>1, <3>1
  <2>2. CASE p <= b /\ ~(q <= b)
    <3>1. 2 * tb <= X
      BY <1>8, <1>13, <1>16, <2>2
    <3> QED
      BY <1>7, <1>8, <1>10, <1>12, <1>15, <2>2, <3>1
  <2>3. CASE ~(p <= b) /\ ~(q <= b)
    BY <1>7, <1>10, <1>15, <1>16, <2>3
  <2> QED
    BY <1>16, <2>1, <2>2, <2>3
<1>17. ASSUME p = q, s >= t + 3 PROVE ValueScore(x, budget, s) > ValueScore(y, budget, t)
  <2>1. CASE p <= b
    <3>1. Y + e <= X
      BY <1>6, <1>8, <1>9, <1>14, <1>17
    <3> QED
      BY <1>7, <1>8, <1>9, <1>10, <1>15, <1>17, <2>1, <3>1
  <2>2. CASE ~(p <= b)
    BY <1>7, <1>10, <1>15, <1>17, <2>2
  <2> QED
    BY <2>1, <2>2
<1> QED
  BY <1>1, <1>2, <1>11, <1>16, <1>17

LEMMA ScoreOfLemma ==
  ASSUME NEW known \in SUBSET Sellers, NEW scores \in [known -> Scores], NEW s
  PROVE  ScoreOf([t \in known |-> [score |-> scores[t]]], s) \in Int
<1>1. Scores \subseteq Int
  BY RulesAssumption DEF RulesAssumption
<1>2. PICK reputation : reputation = [t \in known |-> [score |-> scores[t]]]
  OBVIOUS
<1>3. s \in known => reputation[s].score = scores[s] /\ scores[s] \in Int
  BY <1>1, <1>2
<1>4. ScoreOf(reputation, s) = IF s \in known THEN reputation[s].score ELSE 50
  BY <1>2 DEF ScoreOf, Has, Neutral
<1> QED
  BY <1>2, <1>3, <1>4

(* Who is awarded is not beaten. *)
LEMMA AwardLemma ==
  ASSUME NEW bids, NEW m \in Nat \ {0}, DOMAIN bids = 1..m, \A k \in 1..m : bids[k] \in BidsMade,
         NEW budget \in Nat \ {0}, NEW reputation, \A s : ScoreOf(reputation, s) \in Int,
         NEW w \in PickWinner([service |-> "edge", budget |-> budget], bids, reputation)
  PROVE  w \in BidsMade /\ \A i \in 1..m : ~Outbids(budget, reputation, bids[i], w)
<1>1. \A k \in 1..m : bids[k].price \in Int /\ ValueScore(bids[k], budget, ScoreOf(reputation, bids[k].by)) \in Int
  <2>1. TAKE k \in 1..m
  <2>2. PICK x \in BidsMade : x = bids[k]
    OBVIOUS
  <2>3. PICK s \in Int : s = ScoreOf(reputation, x.by)
    OBVIOUS
  <2>4. ValueScore(x, budget, s) \in Int
    BY ValueLemma
  <2>5. x.price \in Int
    BY RulesAssumption DEF RulesAssumption, BidsMade
  <2> QED
    BY <2>2, <2>3, <2>4, <2>5
<1>2. PICK v : v = [k \in 1..m |-> ValueScore(bids[k], budget, ScoreOf(reputation, bids[k].by))]
  OBVIOUS
<1>3. PICK p : p = [k \in 1..m |-> bids[k].price]
  OBVIOUS
<1>4. \A j, i \in 1..m : Beats(v, p, j, i) <=> Outbids(budget, reputation, bids[j], bids[i])
  BY <1>2, <1>3 DEF Beats, Outbids
<1>5. \E i \in 1..m : \A j \in 1..m : ~Beats(v, p, j, i)
  <2>1. \A i \in 1..m : v[i] \in Int /\ p[i] \in Int
    BY <1>1, <1>2, <1>3
  <2> QED
    BY <2>1, SomeoneIsBest
<1>6. PICK best : best = {i \in DOMAIN bids : \A j \in DOMAIN bids : ~Outbids(budget, reputation, bids[j], bids[i])}
  OBVIOUS
<1>7. best \subseteq Nat /\ best # {}
  BY <1>4, <1>5, <1>6
<1>8. Min(best) \in best
  BY <1>7, LeastIsThere
<1>9. w = bids[Min(best)]
  <2>1. PICK want : want = [service |-> "edge", budget |-> budget]
    OBVIOUS
  <2>2. want.service # "patchbond" /\ want.budget = budget
    BY <2>1
  <2>3. PickWinner(want, bids, reputation) =
          {bids[Min({i \in DOMAIN bids : \A j \in DOMAIN bids : ~Outbids(budget, reputation, bids[j], bids[i])})]}
    BY <2>2 DEF PickWinner
  <2> QED
    BY <1>6, <2>1, <2>3
<1> QED
  BY <1>6, <1>8, <1>9

LEMMA ValuesLemma == ValueIsUndominated
<1> SUFFICES ASSUME NEW pool \in Pools, NEW budget \in Budgets, NEW known \in SUBSET Sellers, NEW scores \in [known -> Scores]
             PROVE  LET reputation == [s \in known |-> [score |-> scores[s]]]
                        bids       == SelectBids(pool)
                    IN \A w \in PickWinner([service |-> "edge", budget |-> budget], bids, reputation) :
                         \A i \in DOMAIN bids :
                           LET gain == ScoreOf(reputation, bids[i].by) - ScoreOf(reputation, w.by) IN
                           ~(bids[i].price < w.price /\ gain >= 0) /\ ~(bids[i].price = w.price /\ gain >= 3)
  BY DEF ValueIsUndominated
<1>1. PICK reputation : reputation = [s \in known |-> [score |-> scores[s]]]
  OBVIOUS
<1>2. \A s : ScoreOf(reputation, s) \in Int
  BY <1>1, ScoreOfLemma
<1>3. pool \in Seq(BidsMade) /\ pool # <<>>
  <2>1. PICK x \in BidsMade, y \in BidsMade : pool = <<x, y>>
    BY DEF Pools, BidsMade
  <2> QED
    BY <2>1
<1>4. PICK bids : bids = SelectBids(pool)
  OBVIOUS
<1>5. PICK m \in Nat \ {0} : DOMAIN bids = 1..m /\ \A k \in 1..m : bids[k] \in BidsMade
  BY <1>3, <1>4, SelectedBids
<1>6. budget \in Nat \ {0}
  BY RulesAssumption DEF RulesAssumption
<1>7. ASSUME NEW w \in PickWinner([service |-> "edge", budget |-> budget], bids, reputation), NEW i \in 1..m
      PROVE  LET gain == ScoreOf(reputation, bids[i].by) - ScoreOf(reputation, w.by) IN
             ~(bids[i].price < w.price /\ gain >= 0) /\ ~(bids[i].price = w.price /\ gain >= 3)
  <2>1. w \in BidsMade /\ ~Outbids(budget, reputation, bids[i], w)
    BY <1>2, <1>5, <1>6, AwardLemma
  <2>2. PICK x \in BidsMade : x = bids[i]
    BY <1>5
  <2>3. PICK s \in Int : s = ScoreOf(reputation, x.by)
    BY <1>2
  <2>4. PICK t \in Int : t = ScoreOf(reputation, w.by)
    BY <1>2
  <2>5. PICK a \in Int : a = ValueScore(x, budget, s)
    BY <1>6, <2>1, ValueLemma
  <2>6. PICK b \in Int : b = ValueScore(w, budget, t)
    BY <1>6, <2>1, ValueLemma
  <2>7. x.price <= w.price /\ s >= t => a >= b
    BY <1>6, <2>1, <2>5, <2>6, ValueLemma
  <2>8. x.price = w.price /\ s >= t + 3 => a > b
    BY <1>6, <2>1, <2>5, <2>6, ValueLemma
  <2>9. ~(a > b \/ (a = b /\ x.price < w.price))
    BY <2>1, <2>2, <2>3, <2>4, <2>5, <2>6 DEF Outbids
  <2>10. x.price \in Nat /\ w.price \in Nat
    BY <2>1, RulesAssumption DEF RulesAssumption, BidsMade
  <2>11. ~(x.price < w.price /\ s - t >= 0) /\ ~(x.price = w.price /\ s - t >= 3)
    BY <2>7, <2>8, <2>9, <2>10
  <2> QED
    BY <2>2, <2>3, <2>4, <2>11
<1> QED
  BY <1>1, <1>4, <1>5, <1>7

-----------------------------------------------------------------------------
(* Awards of patches. *)

LEMMA ClaimedLemma ==
  ASSUME NEW claims, \A k \in DOMAIN claims : claims[k] \in Nat, NEW K, NEW keys \in Seq(K), NEW key,
         NEW tokens, tokens = Tokens(keys, claims), Tagged(tokens, key) # {}
  PROVE  tokens[Max(Tagged(tokens, key))].val \in Nat
<1>1. PICK ks \in Seq(K) : ks = Keyed(keys, claims) /\ ToSet(ks) = ToSet(keys) \cap DOMAIN claims
  BY OnlyLemma DEF Keyed
<1>2. PICK n \in Nat : n = Len(ks) /\ DOMAIN ks = 1..n
  BY LenProperties
<1>3. tokens = [i \in 1..n |-> [key |-> ks[i], val |-> claims[ks[i]]]]
  BY <1>1, <1>2 DEF Tokens
<1>4. PICK at : at = Tagged(tokens, key)
  OBVIOUS
<1>5. at \subseteq 1..n /\ at \subseteq 0..n /\ at # {}
  <2>1. DOMAIN tokens = 1..n
    BY <1>3
  <2>2. at \subseteq 1..n /\ at # {}
    BY <1>4, <2>1 DEF Tagged
  <2>3. 1..n \subseteq 0..n
    OBVIOUS
  <2> QED
    BY <2>2, <2>3
<1>6. PICK i \in 1..n : i = Max(at)
  BY <1>5, GreatestIsThere
<1>7. ks[i] \in DOMAIN claims
  BY <1>1, <1>2 DEF ToSet
<1>8. tokens[i].val \in Nat
  BY <1>3, <1>7
<1> QED
  BY <1>4, <1>6, <1>8

IsProfile(p) == /\ p.price \in Nat \ {0} /\ p.eta \in Nat /\ p.reputation \in Nat /\ p.success \in Nat /\ p.specialization \in Nat

LEMMA ProfileLemma ==
  ASSUME NEW s, NEW p \in Profiles(s)
  PROVE  IsProfile(p)
<1>1. PICK price \in Prices, claims \in [{"eta"} -> {0, Deadline + 1}] \cup [{"rep", "spec"} -> Claims] :
        p = PatchProfile([by |-> s, price |-> price, note |-> Tokens(<<"eta", "rep", "spec">>, claims)])
  BY DEF Profiles
<1>2. Claims \subseteq Nat /\ price \in Nat \ {0} /\ Deadline + 1 \in Nat
  BY RulesAssumption DEF RulesAssumption, Deadline
<1>3. \A k \in DOMAIN claims : claims[k] \in Nat
  <2>1. CASE claims \in [{"eta"} -> {0, Deadline + 1}]
    BY <1>2, <2>1
  <2>2. CASE claims \in [{"rep", "spec"} -> Claims]
    BY <1>2, <2>2
  <2> QED
    BY <1>1, <2>1, <2>2
<1>4. PICK keys \in Seq({"eta", "rep", "spec"}) : keys = <<"eta", "rep", "spec">>
  <2>1. \A a, b, c : <<a, b, c>> \in Seq({a, b, c})
    OBVIOUS
  <2> QED
    BY <2>1
<1>5. PICK tokens : tokens = Tokens(keys, claims)
  OBVIOUS
<1>6. PICK bid : bid = [by |-> s, price |-> price, note |-> tokens]
  OBVIOUS
<1>7. \A key : Tagged(tokens, key) # {} => tokens[Max(Tagged(tokens, key))].val \in Nat
  BY <1>3, <1>5, ClaimedLemma
<1>8. p = PatchProfile(bid) /\ bid.note = tokens /\ bid.price = price
  BY <1>1, <1>4, <1>5, <1>6
<1>9. /\ p.price = price
       /\ p.eta = (IF Tagged(tokens, "eta") = {} THEN 120 ELSE tokens[Max(Tagged(tokens, "eta"))].val)
       /\ p.reputation = (IF Tagged(tokens, "rep") = {} THEN Neutral ELSE tokens[Max(Tagged(tokens, "rep"))].val)
       /\ p.success = (IF Tagged(tokens, "success") = {} THEN Neutral ELSE tokens[Max(Tagged(tokens, "success"))].val)
       /\ p.specialization = (IF Tagged(tokens, "spec") = {} THEN Neutral ELSE tokens[Max(Tagged(tokens, "spec"))].val)
  BY <1>8 DEF PatchProfile
<1>10. p.eta \in Nat /\ p.reputation \in Nat /\ p.success \in Nat /\ p.specialization \in Nat
  BY <1>7, <1>9 DEF Neutral
<1> QED
  BY <1>2, <1>9, <1>10 DEF IsProfile

LEMMA QualityLemma ==
  ASSUME NEW p, IsProfile(p)
  PROVE  Quality(p) \in Int
<1>1. \A v \in Nat : Tenths(v) \in Int
  <2>1. TAKE v \in Nat
  <2>2. PICK a \in Nat : a = Max({0, v})
    BY OfTwo
  <2>3. PICK b \in Nat : b = Min({100, a})
    BY OfTwo
  <2> QED
    BY <2>2, <2>3 DEF Tenths
<1>2. DeadlineFit(p) \in Int
  <2>1. PICK x \in Int : x = 1000 * (2 * Deadline - p.eta)
    BY DEF IsProfile, Deadline
  <2>2. RoundDiv(x, 2 * Deadline) \in Int
    BY RoundDivLemma DEF Deadline
  <2> QED
    BY <2>1, <2>2 DEF DeadlineFit
<1>3. PICK a \in Int : a = Tenths(p.reputation)
  BY <1>1 DEF IsProfile
<1>4. PICK b \in Int : b = Tenths(p.success)
  BY <1>1 DEF IsProfile
<1>5. PICK c \in Int : c = Tenths(p.specialization)
  BY <1>1 DEF IsProfile
<1>6. PICK d \in Int : d = DeadlineFit(p)
  BY <1>2
<1> QED
  BY <1>3, <1>4, <1>5, <1>6 DEF Quality

LEMMA PriceLemma ==
  ASSUME NEW budget \in Nat \ {0}, NEW p, IsProfile(p), p.price <= budget
  PROVE  /\ PriceTenths(budget, p) \in Int /\ 0 <= PriceTenths(budget, p) /\ PriceTenths(budget, p) <= 1000
         /\ \A q : IsProfile(q) /\ q.price <= p.price => PriceTenths(budget, p) <= PriceTenths(budget, q)
<1>1. PICK b \in Nat \ {0} : b = budget
  OBVIOUS
<1>2. PICK x \in Nat : x = 1000 * (b - p.price) /\ x <= b * 1000
  BY <1>1 DEF IsProfile
<1>3. PriceTenths(budget, p) = RoundDiv(x, b)
  BY <1>1, <1>2 DEF PriceTenths
<1>4. RoundDiv(0, b) <= RoundDiv(x, b) /\ RoundDiv(0, b) \in Int /\ RoundDiv(x, b) \in Int
  BY <1>2, RoundDivGrows, RoundDivLemma
<1>5. RoundDiv(0, b) >= 0
  <2>1. PICK d \in Nat \ {0} : d = 2 * b
    OBVIOUS
  <2>2. b \div d \in Nat
    BY <2>1
  <2>3. 2 * 0 + b = b
    OBVIOUS
  <2> QED
    BY <2>1, <2>2, <2>3 DEF RoundDiv
<1>6. RoundDiv(x, b) <= 1000
  <2>1. PICK y \in Int : y = b * 1000
    OBVIOUS
  <2>2. RoundDiv(x, b) <= RoundDiv(y, b)
    BY <1>2, <2>1, RoundDivGrows
  <2>3. RoundDiv(b * 1000, b * 1) = RoundDiv(1000, 1)
    BY RoundDivCancels
  <2>4. RoundDiv(1000, 1) = 1000
    BY DEF RoundDiv
  <2>5. b * 1 = b
    OBVIOUS
  <2> QED
    BY <2>1, <2>2, <2>3, <2>4, <2>5
<1>7. ASSUME NEW q, IsProfile(q), q.price <= p.price PROVE PriceTenths(budget, p) <= PriceTenths(budget, q)
  <2>1. PICK y \in Int : y = 1000 * (b - q.price) /\ x <= y
    BY <1>2, <1>7 DEF IsProfile
  <2>2. RoundDiv(x, b) <= RoundDiv(y, b)
    BY <2>1, RoundDivGrows
  <2> QED
    BY <1>1, <1>3, <2>1, <2>2 DEF PriceTenths
<1> QED
  BY <1>3, <1>4, <1>5, <1>6, <1>7

(* The awarded patch against any other that is eligible. *)
LEMMA RankedLemma ==
  ASSUME NEW budget \in Nat \ {0}, NEW p, NEW q, IsProfile(p), IsProfile(q), p.price <= budget, q.price <= budget,
         ~RankedBefore(budget, q, p)
  PROVE  ~(q.price < p.price /\ Quality(q) >= Quality(p)) /\ Quality(q) - Quality(p) <= 10099
<1>1. PICK a \in Int : a = PriceTenths(budget, p) /\ 0 <= a /\ a <= 1000
  BY PriceLemma
<1>2. PICK b \in Int : b = PriceTenths(budget, q) /\ 0 <= b /\ b <= 1000
  BY PriceLemma
<1>3. PICK c \in Int : c = Quality(p)
  BY QualityLemma
<1>4. PICK d \in Int : d = Quality(q)
  BY QualityLemma
<1>5. PICK x \in Int : x = 10 * a + c
  OBVIOUS
<1>6. PICK y \in Int : y = 10 * b + d
  OBVIOUS
<1>7. PICK s \in Int : s = RoundDiv(x, 100)
  BY RoundDivLemma
<1>8. PICK t \in Int : t = RoundDiv(y, 100)
  BY RoundDivLemma
<1>9. ScoreBid(budget, p) = s /\ ScoreBid(budget, q) = t
  BY <1>1, <1>2, <1>3, <1>4, <1>5, <1>6, <1>7, <1>8 DEF ScoreBid
<1>10. (x <= y => s <= t) /\ (x + 100 <= y => s < t)
  BY <1>7, <1>8, RoundDivGrows
<1>11. ~(t > s) /\ ~(t = s /\ q.price < p.price)
  BY <1>9 DEF RankedBefore
<1>12. ASSUME q.price < p.price, d >= c PROVE FALSE
  <2>1. q.price <= p.price
    BY <1>12 DEF IsProfile
  <2>2. a <= b
    BY <1>1, <1>2, <2>1, PriceLemma
  <2>3. s <= t
    BY <1>5, <1>6, <1>10, <1>12, <2>2
  <2> QED
    BY <1>11, <1>12, <2>3
<1>13. d - c <= 10099
  <2>1. y < x + 100
    BY <1>7, <1>8, <1>10, <1>11
  <2> QED
    BY <1>1, <1>2, <1>5, <1>6, <2>1
<1> QED
  BY <1>3, <1>4, <1>12, <1>13

LEMMA PatchesLemma == PatchIsUndominated
<1>1. ASSUME NEW budget \in Nat \ {0}, NEW p, NEW q, IsProfile(p), IsProfile(q), p \in RankBids(budget, {p, q})
      PROVE  IsUndominated(budget, p, q)
  <2>1. PICK eligible : eligible = {r \in {p, q} : 0 < r.price /\ r.price <= budget}
    OBVIOUS
  <2>2. p \in eligible /\ \A r \in eligible : ~RankedBefore(budget, r, p)
    BY <1>1, <2>1 DEF RankBids
  <2>3. p.price <= budget
    BY <2>1, <2>2
  <2>4. q.price <= budget => ~RankedBefore(budget, q, p)
    <3>1. HAVE q.price <= budget
    <3>2. 0 < q.price
      BY <1>1 DEF IsProfile
    <3>3. q \in eligible
      BY <2>1, <3>1, <3>2
    <3> QED
      BY <2>2, <3>3
  <2> QED
    BY <1>1, <2>3, <2>4, RankedLemma DEF IsUndominated
<1>2. Budgets \subseteq Nat \ {0}
  BY RulesAssumption DEF RulesAssumption
<1>3. \A s : \A p \in Profiles(s) : IsProfile(p)
  BY ProfileLemma
<1> QED
  BY <1>1, <1>2, <1>3 DEF PatchIsUndominated

(* AwardsAreSound: whatever prices, budgets, scores and claims there are.     *)
THEOREM AwardsStaySound == Spec => []AwardsAreSound
<1>1. AwardsAreSound
  BY QuotesLemma, ValuesLemma, PatchesLemma DEF AwardsAreSound
<1> QED
  BY <1>1, PTL

-----------------------------------------------------------------------------

\* The stages of a poll that knows what it has seen, and of a pass.
Persisting == [at : {"answered", "read", "write", "lines", "merge"}, outcome : Outcomes,
               seen : [Folders -> 0 .. MaxMessages], todo : SUBSET Folders]

Readable(r) == run[r] \in RunJsons \cup {Torn}

Types == /\ LedgerTypeOK
         /\ poll \in [Polls -> PollStages]
         /\ pass \in [Passes -> PassStages]

\* A poll persists rounds it has seen messages of, and while it writes there
\* is one.
PollsAreSound ==
    \A p \in Polls :
        /\ \A s \in {"answered", "read", "write", "lines"} : PollAt(p, s) => poll[p].todo \subseteq Folded(poll[p].seen)
        /\ PollAt(p, "write") \/ PollAt(p, "lines") => poll[p].todo # {}

\* A pass is at a round, which has a record, whole or torn.
PassesAreSound ==
    \A g \in Passes : pass[g] # Idle => pass[g].todo # {} /\ \A r \in pass[g].todo : Readable(r)

\* One poll writes at a time.
OnePollWrites ==
    \A p, q \in Polls : PollAt(p, "write") /\ PollAt(q, "write") => p = q

\* A poll that is about to write over a grade carries it, unless it was raced.
WritersCarryGrades ==
    \A p \in Polls : PollAt(p, "write") /\ IsGraded(Min(poll[p].todo)) =>
        p \in raced \/ poll[p].outcome = "graded"

LedgerInv == Types /\ PollsAreSound /\ PassesAreSound /\ OnePollWrites /\ WritersCarryGrades

-----------------------------------------------------------------------------
\* Of some rounds, one is the first.
LEMMA FirstIsThere ==
    ASSUME NEW rs, rs \subseteq Folders, rs # {}
    PROVE  Min(rs) \in rs
<1>1. rs \subseteq Nat
  BY LedgerAssumption DEF Folders
<1>2. PICK x \in rs : \A y \in rs : <<y, x>> \notin OpToRel(<, Nat)
  BY <1>1, WFMin, NatLessThanWellFounded
<1>3. ASSUME NEW y \in rs PROVE x =< y
  <2>1. SUFFICES ASSUME y < x PROVE FALSE
    BY <1>1
  <2>2. <<y, x>> \in Nat \X Nat /\ <<y, x>>[1] < <<y, x>>[2]
    BY <1>1, <2>1
  <2>3. <<y, x>> \in OpToRel(<, Nat)
    BY <2>2, Zenon DEF OpToRel
  <2>4. QED
    BY <1>2, <2>3
<1>4. QED
  BY <1>3 DEF Min

\* A poll at one of these stages knows what it has seen.
LEMMA PollStage ==
    ASSUME Types, NEW p \in Polls, NEW s \in {"answered", "read", "write", "lines", "merge"}, PollAt(p, s)
    PROVE  poll[p] \in Persisting /\ poll[p].at = s
  BY DEF Types, PollStages, PollAt, Persisting

LEMMA PassStage ==
    ASSUME Types, NEW g \in Passes, pass[g] # Idle
    PROVE  /\ pass[g] \in PassStages \ {Idle} /\ pass[g].todo \subseteq Folders
           /\ PassAt(g, "scored") => pass[g].outcome \in Outcomes
           /\ PassAt(g, "write") \/ PassAt(g, "lines") =>
                 /\ pass[g].outcome \in Outcomes /\ pass[g].view \in 1 .. MaxMessages
                 /\ pass[g].lines \in 0 .. MaxMessages
  BY DEF Types, PassStages, PassAt

LEMMA LedgerStarts == LedgerInit => LedgerInv
<1>1. SUFFICES ASSUME LedgerInit PROVE LedgerInv
  OBVIOUS
<1>2. Types
  <2>1. 0 \in 0 .. MaxMessages /\ 0 \in 0 .. MaxCrashes
    BY LedgerAssumption
  <2>2. Idle \in PollStages /\ Idle \in PassStages
    BY DEF PollStages, PassStages
  <2>3. QED
    BY <1>1, <2>1, <2>2 DEF LedgerInit, Types, LedgerTypeOK
<1>3. \A p \in Polls, s \in {"answered", "read", "write", "lines"} : ~PollAt(p, s)
  BY <1>1 DEF LedgerInit, PollAt
<1>4. PollsAreSound /\ OnePollWrites /\ WritersCarryGrades
  BY <1>3 DEF PollsAreSound, OnePollWrites, WritersCarryGrades
<1>5. PassesAreSound
  BY <1>1 DEF LedgerInit, PassesAreSound
<1>6. QED
  BY <1>2, <1>4, <1>5 DEF LedgerInv

-----------------------------------------------------------------------------
(* What stays the same when other parts of the state change.               *)

\* The run folders and the polls are left alone.
LEMMA PollsKeep ==
    ASSUME LedgerInv, UNCHANGED <<run, poll>>, raced' = raced
    PROVE  PollsAreSound' /\ OnePollWrites' /\ WritersCarryGrades'
<1>1. \A p \in Polls : \A s : PollAt(p, s) <=> PollAt(p, s)'
  BY DEF PollAt
<1>2. \A r : IsGraded(r) <=> IsGraded(r)'
  BY DEF IsGraded, HasRecord
<1>3. QED
  BY <1>1, <1>2 DEF LedgerInv, PollsAreSound, OnePollWrites, WritersCarryGrades

LEMMA PassesKeep ==
    ASSUME LedgerInv, UNCHANGED pass, \A r \in Folders : Readable(r) => Readable(r)'
    PROVE  PassesAreSound'
  BY PassStage DEF LedgerInv, PassesAreSound

\* A poll that goes to a stage at which it is not writing.
LEMMA PollGoesOn ==
    ASSUME LedgerInv, NEW p \in Polls, NEW stage \in PollStages, PollTo(p, stage),
           UNCHANGED <<run, pass, raced>>,
           stage = Idle \/ (stage.at # "write" /\ stage.at # "lines"),
           stage # Idle /\ stage.at \in {"answered", "read"} => stage.todo \subseteq Folded(stage.seen)
    PROVE  /\ PollsAreSound' /\ PassesAreSound' /\ OnePollWrites' /\ WritersCarryGrades'
           /\ poll' \in [Polls -> PollStages]
<1>1. poll' = [poll EXCEPT ![p] = stage] /\ poll \in [Polls -> PollStages]
  BY DEF LedgerInv, Types, PollTo
<1>2. poll'[p] = stage /\ \A q \in Polls : q # p => poll'[q] = poll[q]
  BY <1>1
<1>3. \A q \in Polls : \A s : q # p => (PollAt(q, s) <=> PollAt(q, s)')
  BY <1>2 DEF PollAt
<1>4. ~PollAt(p, "write")' /\ ~PollAt(p, "lines")'
  BY <1>2 DEF PollAt
<1>5. \A r : IsGraded(r) <=> IsGraded(r)'
  BY DEF IsGraded, HasRecord
<1>6. PollsAreSound'
  <2>1. SUFFICES ASSUME NEW q \in Polls
                 PROVE  /\ \A s \in {"answered", "read", "write", "lines"} :
                               PollAt(q, s)' => poll'[q].todo \subseteq Folded(poll'[q].seen)
                        /\ PollAt(q, "write")' \/ PollAt(q, "lines")' => poll'[q].todo # {}
    BY DEF PollsAreSound, Folded
  <2>2. CASE q = p
    BY <2>2, <1>2, <1>4 DEF PollAt
  <2>3. CASE q # p
    BY <2>3, <1>2, <1>3 DEF LedgerInv, PollsAreSound
  <2>4. QED
    BY <2>2, <2>3
<1>7. OnePollWrites' /\ WritersCarryGrades'
  BY <1>2, <1>3, <1>4, <1>5 DEF LedgerInv, OnePollWrites, WritersCarryGrades
<1>8. PassesAreSound'
  BY PassesKeep DEF Readable
<1>9. QED
  BY <1>1, <1>6, <1>7, <1>8

-----------------------------------------------------------------------------
(* The session and the polls.                                              *)

LEMMA SessionPreserves == ASSUME LedgerInv, (\E r \in Folders : Post(r)) \/ MatchGoesOn PROVE LedgerInv'
<1>1. UNCHANGED <<folder, poll, pass, crashes, raced>>
  BY DEF Post, MatchGoesOn
<1>2. posted' \in [Folders -> 0 .. MaxMessages] /\ match' \in {"ahead", "playing", "ended"}
  <2>1. CASE MatchGoesOn
    BY <2>1 DEF MatchGoesOn, LedgerInv, Types, LedgerTypeOK
  <2>2. ASSUME NEW r \in Folders, Post(r)
        PROVE  posted' \in [Folders -> 0 .. MaxMessages] /\ match' \in {"ahead", "playing", "ended"}
    <3>1. posted[r] \in 0 .. MaxMessages /\ posted[r] < MaxMessages /\ posted' = [posted EXCEPT ![r] = @ + 1] /\ match' = match
      BY <2>2 DEF Post, LedgerInv, Types, LedgerTypeOK
    <3>2. posted[r] + 1 \in 0 .. MaxMessages
      BY <3>1, LedgerAssumption
    <3>3. QED
      BY <3>1, <3>2 DEF LedgerInv, Types, LedgerTypeOK
  <2>3. QED
    BY <2>1, <2>2
<1>3. Types'
  BY <1>1, <1>2 DEF LedgerInv, Types, LedgerTypeOK, folder
<1>4. QED
  BY <1>1, <1>3, PollsKeep, PassesKeep DEF LedgerInv, folder, Readable

LEMMA AskPreserves == ASSUME LedgerInv, NEW p \in Polls, Ask(p) \/ Unreachable(p) \/ ServeLive(p) \/ FailToMerge(p) PROVE LedgerInv'
<1>1. PICK stage : (stage = Idle \/ stage = [at |-> "asked"]) /\ PollTo(p, stage) /\ UNCHANGED <<session, folder, pass, crashes, raced>>
  BY DEF Ask, Unreachable, ServeLive, FailToMerge
<1>2. stage \in PollStages
  BY <1>1 DEF PollStages
<1>3. PollsAreSound' /\ PassesAreSound' /\ OnePollWrites' /\ WritersCarryGrades' /\ poll' \in [Polls -> PollStages]
  BY <1>1, <1>2, PollGoesOn DEF folder
<1>4. Types'
  BY <1>1, <1>3 DEF LedgerInv, Types, LedgerTypeOK, folder, session
<1>5. QED
  BY <1>3, <1>4 DEF LedgerInv

LEMMA AnswerPreserves == ASSUME LedgerInv, NEW p \in Polls, Answer(p) PROVE LedgerInv'
<1>1. PICK stage : /\ stage = [at |-> "answered", outcome |-> "none", seen |-> posted, todo |-> ToPersist(posted)]
                   /\ PollTo(p, stage) /\ UNCHANGED <<session, folder, pass, crashes, raced>>
  BY DEF Answer
<1>2. posted \in [Folders -> 0 .. MaxMessages] /\ ToPersist(posted) \subseteq Folders
  BY DEF LedgerInv, Types, LedgerTypeOK, ToPersist, Folded
<1>3. stage \in PollStages /\ stage.at = "answered" /\ stage.todo = Folded(stage.seen)
  BY <1>1, <1>2 DEF PollStages, ToPersist, Outcomes
<1>4. PollsAreSound' /\ PassesAreSound' /\ OnePollWrites' /\ WritersCarryGrades' /\ poll' \in [Polls -> PollStages]
  BY <1>1, <1>3, PollGoesOn DEF folder
<1>5. Types'
  BY <1>1, <1>4 DEF LedgerInv, Types, LedgerTypeOK, folder, session
<1>6. QED
  BY <1>4, <1>5 DEF LedgerInv

\* A poll reads the outcome there is, when no other poll is at its rounds.
LEMMA ReadOutcomePreserves == ASSUME LedgerInv, NEW p \in Polls, ReadOutcome(p) PROVE LedgerInv'
<1>1. poll[p] \in Persisting /\ poll[p].todo \subseteq Folded(poll[p].seen)
  BY PollStage DEF ReadOutcome, LedgerInv, PollsAreSound
<1>2. UNCHANGED <<session, folder, pass, crashes, raced>>
  BY DEF ReadOutcome
<1>3. CASE poll[p].todo = {} \/ run[Min(poll[p].todo)] = Torn
  <2>1. PICK stage : stage = [poll[p] EXCEPT !.at = "merge"]
    OBVIOUS
  <2>2. PollTo(p, stage)
    BY <1>3, <2>1 DEF ReadOutcome
  <2>3. stage \in PollStages /\ stage.at = "merge"
    BY <1>1, <2>1 DEF PollStages, Persisting
  <2>4. PollsAreSound' /\ PassesAreSound' /\ OnePollWrites' /\ WritersCarryGrades' /\ poll' \in [Polls -> PollStages]
    BY <1>2, <2>2, <2>3, PollGoesOn DEF folder
  <2>5. Types'
    BY <1>2, <2>4 DEF LedgerInv, Types, LedgerTypeOK, folder, session
  <2>6. QED
    BY <2>4, <2>5 DEF LedgerInv
<1>4. CASE ~(poll[p].todo = {} \/ run[Min(poll[p].todo)] = Torn)
  <2>1. PICK stage : stage = [poll[p] EXCEPT !.at = "write", !.outcome = ExistingOutcome(Min(poll[p].todo))]
    OBVIOUS
  <2>2. PollTo(p, stage)
    BY <1>4, <2>1 DEF ReadOutcome
  <2>3. /\ ExistingOutcome(Min(poll[p].todo)) \in Outcomes
        /\ IsGraded(Min(poll[p].todo)) => ExistingOutcome(Min(poll[p].todo)) = "graded"
    BY DEF ExistingOutcome, HasRecord, IsGraded, RunJsons, Outcomes
  <2>4. /\ stage \in PollStages /\ stage.at = "write" /\ stage.todo = poll[p].todo /\ stage.seen = poll[p].seen
        /\ stage.outcome = ExistingOutcome(Min(poll[p].todo))
    BY <1>1, <2>1, <2>3 DEF PollStages, Persisting
  <2>5. poll' = [poll EXCEPT ![p] = stage] /\ poll \in [Polls -> PollStages]
    BY <2>2 DEF PollTo, LedgerInv, Types
  <2>6. poll'[p] = stage /\ \A q \in Polls : q # p => poll'[q] = poll[q]
    BY <2>5
  <2>7. \A q \in Polls : \A s : q # p => (PollAt(q, s) <=> PollAt(q, s)')
    BY <2>6 DEF PollAt
  <2>8. \A r : IsGraded(r) <=> IsGraded(r)'
    BY <1>2 DEF IsGraded, HasRecord, folder
  <2>9. \A q \in Polls : q # p => ~PollAt(q, "write")'
    BY <2>7 DEF ReadOutcome, FeedIsFree
  <2>10. OnePollWrites' /\ WritersCarryGrades'
    BY <1>2, <2>3, <2>4, <2>6, <2>8, <2>9 DEF OnePollWrites, WritersCarryGrades
  <2>11. PollsAreSound'
    <3>1. SUFFICES ASSUME NEW q \in Polls
                   PROVE  /\ \A s \in {"answered", "read", "write", "lines"} :
                                 PollAt(q, s)' => poll'[q].todo \subseteq Folded(poll'[q].seen)
                          /\ PollAt(q, "write")' \/ PollAt(q, "lines")' => poll'[q].todo # {}
      BY DEF PollsAreSound, Folded
    <3>2. CASE q = p
      BY <3>2, <1>1, <1>4, <2>4, <2>6
    <3>3. CASE q # p
      BY <3>3, <2>6, <2>7 DEF LedgerInv, PollsAreSound
    <3>4. QED
      BY <3>2, <3>3
  <2>12. PassesAreSound'
    BY <1>2, PassesKeep DEF Readable, folder
  <2>13. Types'
    BY <1>2, <2>4, <2>5 DEF LedgerInv, Types, LedgerTypeOK, folder, session
  <2>14. QED
    BY <2>10, <2>11, <2>12, <2>13 DEF LedgerInv
<1>5. QED
  BY <1>3, <1>4

\* A record is written over by a poll that is the only one to write.
LEMMA WriteRecordPreserves == ASSUME LedgerInv, NEW p \in Polls, WriteRecord(p) PROVE LedgerInv'
<1>1. PICK r : r = Min(poll[p].todo)
  OBVIOUS
<1>2. /\ poll[p] \in Persisting /\ poll[p].todo \subseteq Folded(poll[p].seen) /\ poll[p].todo # {}
  BY PollStage DEF WriteRecord, LedgerInv, PollsAreSound
<1>3. r \in poll[p].todo /\ r \in Folders /\ poll[p].seen[r] \in 1 .. MaxMessages
  BY <1>1, <1>2, FirstIsThere, LedgerAssumption DEF Folded, Persisting
<1>4. PICK record \in RunJsons : record = [view |-> poll[p].seen[r], outcome |-> poll[p].outcome]
  BY <1>2, <1>3 DEF RunJsons, Persisting
<1>5. PICK stage : stage = [poll[p] EXCEPT !.at = "lines"]
  OBVIOUS
<1>6. stage \in PollStages /\ stage.at = "lines" /\ stage.todo = poll[p].todo /\ stage.seen = poll[p].seen
  BY <1>2, <1>5 DEF PollStages, Persisting
<1>7. /\ run' = [run EXCEPT ![r] = record] /\ poll' = [poll EXCEPT ![p] = stage] /\ raced' = raced \ {p}
      /\ UNCHANGED <<session, lines, pass, crashes>>
  BY <1>1, <1>4, <1>5 DEF WriteRecord, PollTo
<1>8. run \in [Folders -> {NoFile, Torn} \cup RunJsons] /\ poll \in [Polls -> PollStages]
  BY DEF LedgerInv, Types, LedgerTypeOK
<1>9. poll'[p] = stage /\ \A q \in Polls : q # p => poll'[q] = poll[q]
  BY <1>7, <1>8
<1>10. \A q \in Polls : ~PollAt(q, "write")'
  BY <1>6, <1>9 DEF PollAt, LedgerInv, OnePollWrites, WriteRecord
<1>11. \A q \in Polls : \A s : q # p => (PollAt(q, s) <=> PollAt(q, s)')
  BY <1>9 DEF PollAt
<1>12. OnePollWrites' /\ WritersCarryGrades'
  BY <1>10 DEF OnePollWrites, WritersCarryGrades
<1>13. PollsAreSound'
  <2>1. SUFFICES ASSUME NEW q \in Polls
                 PROVE  /\ \A s \in {"answered", "read", "write", "lines"} :
                               PollAt(q, s)' => poll'[q].todo \subseteq Folded(poll'[q].seen)
                        /\ PollAt(q, "write")' \/ PollAt(q, "lines")' => poll'[q].todo # {}
    BY DEF PollsAreSound, Folded
  <2>2. CASE q = p
    BY <2>2, <1>2, <1>6, <1>9
  <2>3. CASE q # p
    BY <2>3, <1>9, <1>11 DEF LedgerInv, PollsAreSound
  <2>4. QED
    BY <2>2, <2>3
<1>14. PassesAreSound'
  BY <1>7, <1>8, PassesKeep DEF Readable
<1>15. Types'
  <2>1. run' \in [Folders -> {NoFile, Torn} \cup RunJsons] /\ poll' \in [Polls -> PollStages]
    BY <1>6, <1>7, <1>8
  <2>2. QED
    BY <2>1, <1>7 DEF LedgerInv, Types, LedgerTypeOK, session
<1>16. QED
  BY <1>12, <1>13, <1>14, <1>15 DEF LedgerInv

LEMMA WriteTranscriptPreserves == ASSUME LedgerInv, NEW p \in Polls, WriteTranscript(p) PROVE LedgerInv'
<1>1. PICK r : r = Min(poll[p].todo)
  OBVIOUS
<1>2. /\ poll[p] \in Persisting /\ poll[p].todo \subseteq Folded(poll[p].seen) /\ poll[p].todo # {}
  BY PollStage DEF WriteTranscript, LedgerInv, PollsAreSound
<1>3. poll[p].seen \in [Folders -> 0 .. MaxMessages] /\ r \in Folders
  BY <1>1, <1>2, FirstIsThere DEF Persisting, Folded
<1>4. PICK stage : stage = [poll[p] EXCEPT !.at = "read", !.todo = @ \ {r}]
  OBVIOUS
<1>5. stage \in PollStages /\ stage.at = "read" /\ stage.todo \subseteq Folded(stage.seen)
  BY <1>2, <1>4 DEF PollStages, Persisting
<1>6. PollTo(p, stage) /\ UNCHANGED <<session, run, pass, crashes, raced>> /\ lines' = [lines EXCEPT ![r] = poll[p].seen[r]]
  BY <1>1, <1>4 DEF WriteTranscript
<1>7. PollsAreSound' /\ PassesAreSound' /\ OnePollWrites' /\ WritersCarryGrades' /\ poll' \in [Polls -> PollStages]
  BY <1>5, <1>6, PollGoesOn
<1>8. lines' \in [Folders -> 0 .. MaxMessages]
  BY <1>3, <1>6 DEF LedgerInv, Types, LedgerTypeOK
<1>9. Types'
  BY <1>6, <1>7, <1>8 DEF LedgerInv, Types, LedgerTypeOK, session
<1>10. QED
  BY <1>7, <1>9 DEF LedgerInv

-----------------------------------------------------------------------------
(* The passes.                                                             *)

\* A pass that goes to a stage at rounds with a record.
LEMMA PassGoesOn ==
    ASSUME LedgerInv, NEW g \in Passes, NEW stage \in PassStages, PassTo(g, stage),
           UNCHANGED <<session, run, poll, crashes, raced>>, lines' \in [Folders -> 0 .. MaxMessages],
           stage # Idle => stage.todo # {} /\ \A r \in stage.todo : Readable(r)
    PROVE  LedgerInv'
<1>1. pass' = [pass EXCEPT ![g] = stage] /\ pass \in [Passes -> PassStages]
  BY DEF LedgerInv, Types, PassTo
<1>2. Types'
  BY <1>1 DEF LedgerInv, Types, LedgerTypeOK, session
<1>3. PassesAreSound'
  BY <1>1 DEF LedgerInv, PassesAreSound, Readable
<1>4. QED
  BY <1>2, <1>3, PollsKeep DEF LedgerInv

\* The rounds a pass has left after one.
LEMMA ProceedPreserves ==
    ASSUME LedgerInv, NEW g \in Passes, pass[g] # Idle, Proceed(g),
           UNCHANGED <<session, run, poll, crashes, raced>>, lines' \in [Folders -> 0 .. MaxMessages]
    PROVE  LedgerInv'
<1>1. PICK rest : rest = pass[g].todo \ {Min(pass[g].todo)}
  OBVIOUS
<1>2. PICK stage : stage = IF rest = {} THEN Idle ELSE [at |-> "scores", todo |-> rest]
  OBVIOUS
<1>3. PassTo(g, stage)
  BY <1>1, <1>2 DEF Proceed
<1>4. rest \subseteq Folders /\ \A r \in rest : Readable(r)
  BY <1>1, PassStage DEF LedgerInv, PassesAreSound
<1>5. stage \in PassStages
  BY <1>2, <1>4 DEF PassStages
<1>6. stage # Idle => stage.todo # {} /\ \A r \in stage.todo : Readable(r)
  BY <1>2, <1>4
<1>7. QED
  BY <1>3, <1>5, <1>6, PassGoesOn

LEMMA ListCandidatesPreserves == ASSUME LedgerInv, NEW g \in Passes, ListCandidates(g) PROVE LedgerInv'
<1>1. PICK todo : todo = {r \in Folders : HasRecord(r) /\ NeedsGrading(r)}
  OBVIOUS
<1>2. PICK stage : stage = [at |-> "scores", todo |-> todo]
  OBVIOUS
<1>3. todo # {} /\ PassTo(g, stage) /\ UNCHANGED <<session, folder, poll, crashes, raced>>
  BY <1>1, <1>2 DEF ListCandidates
<1>4. stage \in PassStages /\ stage.todo = todo /\ todo \subseteq Folders
  BY <1>1, <1>2 DEF PassStages
<1>5. \A r \in todo : Readable(r)
  BY <1>1 DEF HasRecord, Readable
<1>6. lines' \in [Folders -> 0 .. MaxMessages]
  BY <1>3 DEF folder, LedgerInv, Types, LedgerTypeOK
<1>7. QED
  BY <1>3, <1>4, <1>5, <1>6, PassGoesOn DEF folder

LEMMA ScoresPreserve == ASSUME LedgerInv, NEW g \in Passes, ScoresFail(g) \/ \E r \in Folders : FetchScores(g, r) PROVE LedgerInv'
<1>1. pass[g] # Idle /\ UNCHANGED <<session, folder, poll, crashes, raced>>
  BY DEF ScoresFail, FetchScores, PassAt
<1>2. lines' \in [Folders -> 0 .. MaxMessages]
  BY <1>1 DEF folder, LedgerInv, Types, LedgerTypeOK
<1>3. CASE Proceed(g)
  BY <1>1, <1>2, <1>3, ProceedPreserves DEF folder
<1>4. CASE ~Proceed(g)
  <2>1. PICK outcome \in {"graded", "pending"} : PassTo(g, [at |-> "scored", todo |-> pass[g].todo, outcome |-> outcome])
    BY <1>4 DEF ScoresFail, FetchScores
  <2>2. PICK stage : stage = [at |-> "scored", todo |-> pass[g].todo, outcome |-> outcome]
    OBVIOUS
  <2>3. stage \in PassStages /\ stage.todo = pass[g].todo
    BY <1>1, <2>2, PassStage DEF LedgerInv, PassStages, Outcomes
  <2>4. stage.todo # {} /\ \A r \in stage.todo : Readable(r)
    BY <1>1, <2>3 DEF LedgerInv, PassesAreSound
  <2>5. QED
    BY <1>1, <1>2, <2>1, <2>2, <2>3, <2>4, PassGoesOn DEF folder
<1>5. QED
  BY <1>3, <1>4

LEMMA ReadBackPreserves == ASSUME LedgerInv, NEW g \in Passes, ReadBack(g) PROVE LedgerInv'
<1>1. PICK r : r = Min(pass[g].todo)
  OBVIOUS
<1>2. pass[g] # Idle /\ UNCHANGED <<session, folder, poll, crashes, raced>> /\ pass[g].outcome \in Outcomes
  BY PassStage DEF ReadBack, PassAt, LedgerInv
<1>3. pass[g].todo \subseteq Folders /\ pass[g].todo # {} /\ \A q \in pass[g].todo : Readable(q)
  BY <1>2, PassStage DEF LedgerInv, PassesAreSound
<1>4. r \in Folders /\ Readable(r)
  BY <1>1, <1>3, FirstIsThere
<1>5. lines' \in [Folders -> 0 .. MaxMessages] /\ lines[r] \in 0 .. MaxMessages
  BY <1>2, <1>4 DEF folder, LedgerInv, Types, LedgerTypeOK
<1>6. CASE run[r] = Torn
  BY <1>1, <1>2, <1>5, <1>6, ProceedPreserves DEF ReadBack, folder
<1>7. CASE run[r] # Torn
  <2>1. run[r] \in RunJsons /\ run[r].view \in 1 .. MaxMessages
    BY <1>4, <1>7 DEF Readable, RunJsons
  <2>2. PICK stage : stage = [at |-> "write", todo |-> pass[g].todo, outcome |-> pass[g].outcome,
                              view |-> run[r].view, lines |-> lines[r]]
    OBVIOUS
  <2>3. PassTo(g, stage)
    BY <1>1, <1>7, <2>2 DEF ReadBack
  <2>4. stage \in PassStages /\ stage.todo = pass[g].todo
    BY <1>2, <1>3, <1>5, <2>1, <2>2 DEF PassStages
  <2>5. QED
    BY <1>2, <1>3, <1>5, <2>3, <2>4, PassGoesOn DEF folder
<1>8. QED
  BY <1>6, <1>7

\* A record is written over by a pass; the polls about to write there are raced.
LEMMA WriteGradePreserves == ASSUME LedgerInv, NEW g \in Passes, WriteGrade(g) PROVE LedgerInv'
<1>1. PICK r : r = Min(pass[g].todo)
  OBVIOUS
<1>2. pass[g] # Idle /\ PassAt(g, "write")
  BY DEF WriteGrade, PassAt
<1>3. /\ pass[g].todo \subseteq Folders /\ pass[g].todo # {} /\ \A q \in pass[g].todo : Readable(q)
      /\ pass[g] \in PassStages \ {Idle} /\ pass[g].outcome \in Outcomes /\ pass[g].view \in 1 .. MaxMessages
  BY <1>2, PassStage DEF LedgerInv, PassesAreSound
<1>4. r \in Folders
  BY <1>1, <1>3, FirstIsThere
<1>5. PICK record \in RunJsons : record = [view |-> pass[g].view, outcome |-> pass[g].outcome]
  BY <1>3 DEF RunJsons
<1>6. PICK stage : stage = [pass[g] EXCEPT !.at = "lines"]
  OBVIOUS
<1>7. PICK losers : losers = {p \in Polls : PollAt(p, "write") /\ Min(poll[p].todo) = r}
  OBVIOUS
<1>8. /\ run' = [run EXCEPT ![r] = record] /\ pass' = [pass EXCEPT ![g] = stage] /\ raced' = raced \cup losers
      /\ UNCHANGED <<session, lines, poll, crashes>>
  BY <1>1, <1>5, <1>6, <1>7 DEF WriteGrade, PassTo
<1>9. run \in [Folders -> {NoFile, Torn} \cup RunJsons] /\ pass \in [Passes -> PassStages] /\ raced \subseteq Polls
  BY DEF LedgerInv, Types, LedgerTypeOK
<1>10. stage \in PassStages /\ stage.todo = pass[g].todo
  BY <1>2, <1>3, <1>6 DEF PassStages, PassAt
<1>11. \A p \in Polls : \A s : PollAt(p, s) <=> PollAt(p, s)'
  BY <1>8 DEF PollAt
<1>12. PollsAreSound' /\ OnePollWrites'
  BY <1>8, <1>11 DEF LedgerInv, PollsAreSound, OnePollWrites
<1>13. WritersCarryGrades'
  <2>1. SUFFICES ASSUME NEW p \in Polls, PollAt(p, "write"), IsGraded(Min(poll[p].todo))'
                 PROVE  p \in raced' \/ poll[p].outcome = "graded"
    BY <1>8, <1>11 DEF WritersCarryGrades
  <2>2. PICK x : x = Min(poll[p].todo)
    OBVIOUS
  <2>3. CASE x = r
    BY <2>1, <2>2, <2>3, <1>7, <1>8
  <2>4. CASE x # r
    <3>1. x \in Folders
      <4>1. poll[p].todo \subseteq Folders /\ poll[p].todo # {}
        BY <2>1 DEF LedgerInv, PollsAreSound, Folded
      <4>2. QED
        BY <2>2, <4>1, FirstIsThere
    <3>2. run'[x] = run[x]
      BY <3>1, <2>4, <1>8, <1>9
    <3>3. IsGraded(x)'
      BY <2>1, <2>2, <1>8
    <3>4. IsGraded(x)
      BY <3>2, <3>3 DEF IsGraded, HasRecord
    <3>5. QED
      BY <2>1, <2>2, <3>4, <1>8 DEF LedgerInv, WritersCarryGrades
  <2>5. QED
    BY <2>3, <2>4
<1>14. PassesAreSound'
  <2>1. \A q \in Folders : Readable(q) => Readable(q)'
    BY <1>8, <1>9 DEF Readable
  <2>2. QED
    BY <2>1, <1>3, <1>8, <1>9, <1>10, PassStage DEF LedgerInv, PassesAreSound
<1>15. Types'
  <2>1. run' \in [Folders -> {NoFile, Torn} \cup RunJsons] /\ pass' \in [Passes -> PassStages] /\ raced' \subseteq Polls
    BY <1>7, <1>8, <1>9, <1>10
  <2>2. QED
    BY <2>1, <1>8 DEF LedgerInv, Types, LedgerTypeOK, session
<1>16. QED
  BY <1>12, <1>13, <1>14, <1>15 DEF LedgerInv

LEMMA WriteBackTranscriptPreserves == ASSUME LedgerInv, NEW g \in Passes, WriteBackTranscript(g) PROVE LedgerInv'
<1>1. pass[g] # Idle /\ Proceed(g) /\ UNCHANGED <<session, run, poll, crashes, raced>>
  BY DEF WriteBackTranscript, PassAt
<1>2. lines' = [lines EXCEPT ![Min(pass[g].todo)] = pass[g].lines] /\ pass[g].lines \in 0 .. MaxMessages
  BY PassStage DEF WriteBackTranscript, PassAt, LedgerInv
<1>3. lines' \in [Folders -> 0 .. MaxMessages]
  BY <1>2 DEF LedgerInv, Types, LedgerTypeOK
<1>4. QED
  BY <1>1, <1>3, ProceedPreserves

-----------------------------------------------------------------------------
(* A process stops.                                                        *)

\* A record is torn, at most, and a transcript emptied.
LEMMA MayTearKeeps ==
    ASSUME LedgerInv, NEW writing, NEW truncating, MayTear(writing, truncating)
    PROVE  /\ run' \in [Folders -> {NoFile, Torn} \cup RunJsons] /\ lines' \in [Folders -> 0 .. MaxMessages]
           /\ \A r \in Folders : /\ Readable(r) => Readable(r)'
                                 /\ run'[r] = run[r] \/ run'[r] = Torn
                                 /\ IsGraded(r)' => IsGraded(r)
<1>1. run \in [Folders -> {NoFile, Torn} \cup RunJsons] /\ lines \in [Folders -> 0 .. MaxMessages]
  BY DEF LedgerInv, Types, LedgerTypeOK
<1>2. run' \in [Folders -> {NoFile, Torn} \cup RunJsons] /\ \A r \in Folders : run'[r] = run[r] \/ run'[r] = Torn
  BY <1>1 DEF MayTear
<1>3. lines' \in [Folders -> 0 .. MaxMessages]
  BY <1>1, LedgerAssumption DEF MayTear
<1>4. QED
  BY <1>2, <1>3, LedgerAssumption DEF Readable, IsGraded, HasRecord

LEMMA FeedStopsPreserves == ASSUME LedgerInv, FeedStops PROVE LedgerInv'
<1>1. /\ crashes < MaxCrashes /\ poll' = [p \in Polls |-> Idle] /\ crashes' = crashes + 1 /\ raced' = {}
      /\ UNCHANGED <<session, pass>>
  BY DEF FeedStops
<1>2. /\ run' \in [Folders -> {NoFile, Torn} \cup RunJsons] /\ lines' \in [Folders -> 0 .. MaxMessages]
      /\ \A r \in Folders : Readable(r) => Readable(r)'
  BY MayTearKeeps DEF FeedStops
<1>3. \A p \in Polls : \A s : ~PollAt(p, s)'
  BY <1>1 DEF PollAt
<1>4. PollsAreSound' /\ OnePollWrites' /\ WritersCarryGrades'
  BY <1>3 DEF PollsAreSound, OnePollWrites, WritersCarryGrades
<1>5. PassesAreSound'
  BY <1>1, <1>2, PassesKeep
<1>6. crashes' \in 0 .. MaxCrashes /\ poll' \in [Polls -> PollStages]
  BY <1>1, LedgerAssumption DEF LedgerInv, Types, LedgerTypeOK, PollStages
<1>7. Types'
  BY <1>1, <1>2, <1>6 DEF LedgerInv, Types, LedgerTypeOK, session
<1>8. QED
  BY <1>4, <1>5, <1>7 DEF LedgerInv

LEMMA ProxyStopsPreserves == ASSUME LedgerInv, ProxyStops PROVE LedgerInv'
<1>1. /\ crashes < MaxCrashes /\ pass' = [g \in Passes |-> Idle] /\ crashes' = crashes + 1
      /\ UNCHANGED <<session, poll, raced>>
  BY DEF ProxyStops
<1>2. /\ run' \in [Folders -> {NoFile, Torn} \cup RunJsons] /\ lines' \in [Folders -> 0 .. MaxMessages]
      /\ \A r \in Folders : IsGraded(r)' => IsGraded(r)
  BY MayTearKeeps DEF ProxyStops
<1>3. \A p \in Polls : \A s : PollAt(p, s) <=> PollAt(p, s)'
  BY <1>1 DEF PollAt
<1>4. PollsAreSound' /\ OnePollWrites'
  BY <1>1, <1>3 DEF LedgerInv, PollsAreSound, OnePollWrites
<1>5. WritersCarryGrades'
  <2>1. SUFFICES ASSUME NEW p \in Polls, PollAt(p, "write"), IsGraded(Min(poll[p].todo))'
                 PROVE  p \in raced \/ poll[p].outcome = "graded"
    BY <1>1, <1>3 DEF WritersCarryGrades
  <2>2. PICK x : x = Min(poll[p].todo)
    OBVIOUS
  <2>3. poll[p].todo \subseteq Folders /\ poll[p].todo # {}
    BY <2>1 DEF LedgerInv, PollsAreSound, Folded
  <2>4. x \in Folders
    BY <2>2, <2>3, FirstIsThere
  <2>5. IsGraded(x)'
    BY <2>1, <2>2, <1>1
  <2>6. QED
    BY <1>2, <2>1, <2>2, <2>4, <2>5 DEF LedgerInv, WritersCarryGrades
<1>6. PassesAreSound'
  BY <1>1 DEF PassesAreSound
<1>7. crashes' \in 0 .. MaxCrashes /\ pass' \in [Passes -> PassStages]
  BY <1>1, LedgerAssumption DEF LedgerInv, Types, LedgerTypeOK, PassStages
<1>8. Types'
  BY <1>1, <1>2, <1>7 DEF LedgerInv, Types, LedgerTypeOK, session
<1>9. QED
  BY <1>4, <1>5, <1>6, <1>8 DEF LedgerInv

-----------------------------------------------------------------------------
LEMMA LedgerSteps == LedgerInv /\ [LedgerNext]_ledgerVars => LedgerInv'
<1>1. SUFFICES ASSUME LedgerInv, [LedgerNext]_ledgerVars PROVE LedgerInv'
  OBVIOUS
<1>2. CASE UNCHANGED ledgerVars
  <2>1. UNCHANGED <<posted, match, run, lines, poll, pass, crashes, raced>>
    BY <1>2 DEF ledgerVars, session, folder
  <2>2. Types'
    BY <1>1, <2>1 DEF LedgerInv, Types, LedgerTypeOK
  <2>3. QED
    BY <1>1, <2>1, <2>2, PollsKeep, PassesKeep DEF LedgerInv, Readable
<1>3. CASE (\E r \in Folders : Post(r)) \/ MatchGoesOn
  BY <1>1, <1>3, SessionPreserves
<1>4. ASSUME NEW p \in Polls, Ask(p) \/ Answer(p) \/ Unreachable(p) \/ FeedRuns(p) PROVE LedgerInv'
  BY <1>1, <1>4, AskPreserves, AnswerPreserves, ReadOutcomePreserves, WriteRecordPreserves,
     WriteTranscriptPreserves DEF FeedRuns
<1>5. ASSUME NEW g \in Passes,
             ListCandidates(g) \/ ScoresFail(g) \/ ProxyRuns(g) \/ \E r \in Folders : FetchScores(g, r)
      PROVE  LedgerInv'
  BY <1>1, <1>5, ListCandidatesPreserves, ScoresPreserve, ReadBackPreserves, WriteGradePreserves,
     WriteBackTranscriptPreserves DEF ProxyRuns
<1>6. CASE FeedStops \/ ProxyStops
  BY <1>1, <1>6, FeedStopsPreserves, ProxyStopsPreserves
<1>7. QED
  BY <1>1, <1>2, <1>3, <1>4, <1>5, <1>6 DEF LedgerNext

-----------------------------------------------------------------------------
(* How a grade is lost.                                                    *)

\* A poll that was not raced writes a grade over a grade.
LEMMA PollWritesGrades ==
    ASSUME LedgerInv, NEW p \in Polls, WriteRecord(p), NEW r \in Folders, IsGraded(r), ~IsGraded(r)'
    PROVE  p \in raced
<1>1. PICK x : x = Min(poll[p].todo)
  OBVIOUS
<1>2. /\ poll[p] \in Persisting /\ poll[p].todo \subseteq Folded(poll[p].seen) /\ poll[p].todo # {}
  BY PollStage DEF WriteRecord, LedgerInv, PollsAreSound
<1>3. x \in Folders /\ poll[p].seen[x] \in 1 .. MaxMessages
  BY <1>1, <1>2, FirstIsThere, LedgerAssumption DEF Folded, Persisting
<1>4. PICK record \in RunJsons : record = [view |-> poll[p].seen[x], outcome |-> poll[p].outcome]
  BY <1>2, <1>3 DEF RunJsons, Persisting
<1>5. run' = [run EXCEPT ![x] = record] /\ run \in [Folders -> {NoFile, Torn} \cup RunJsons]
  BY <1>1, <1>4 DEF WriteRecord, LedgerInv, Types, LedgerTypeOK
<1>6. CASE r # x
  BY <1>5, <1>6 DEF IsGraded, HasRecord
<1>7. CASE r = x
  <2>1. run'[r] = record
    BY <1>3, <1>5, <1>7
  <2>2. poll[p].outcome # "graded"
    BY <1>4, <2>1 DEF IsGraded, HasRecord
  <2>3. PollAt(p, "write") /\ IsGraded(Min(poll[p].todo))
    BY <1>1, <1>7 DEF WriteRecord
  <2>4. QED
    BY <2>2, <2>3 DEF LedgerInv, WritersCarryGrades
<1>8. QED
  BY <1>6, <1>7

\* A pass that saw the match over writes grades.
LEMMA PassWritesGrades ==
    ASSUME LedgerInv, NEW g \in Passes, WriteGrade(g), NEW r \in Folders, IsGraded(r), ~IsGraded(r)'
    PROVE  pass[g].outcome # "graded"
<1>1. PICK x : x = Min(pass[g].todo)
  OBVIOUS
<1>2. pass[g] # Idle /\ PassAt(g, "write")
  BY DEF WriteGrade, PassAt
<1>3. pass[g].todo \subseteq Folders /\ pass[g].todo # {} /\ pass[g].outcome \in Outcomes /\ pass[g].view \in 1 .. MaxMessages
  BY <1>2, PassStage DEF LedgerInv, PassesAreSound
<1>4. x \in Folders
  BY <1>1, <1>3, FirstIsThere
<1>5. PICK record \in RunJsons : record = [view |-> pass[g].view, outcome |-> pass[g].outcome]
  BY <1>3 DEF RunJsons
<1>6. run' = [run EXCEPT ![x] = record] /\ run \in [Folders -> {NoFile, Torn} \cup RunJsons]
  BY <1>1, <1>5 DEF WriteGrade, LedgerInv, Types, LedgerTypeOK
<1>7. QED
  BY <1>4, <1>5, <1>6 DEF IsGraded, HasRecord

\* Of the steps there are, a poll's write, a pass's write and a stop touch
\* a record.
LEMMA LostGrades ==
    ASSUME LedgerInv, [LedgerNext]_ledgerVars, NEW r \in Folders, IsGraded(r), ~IsGraded(r)'
    PROVE  \/ \E p \in raced : WriteRecord(p)
           \/ \E g \in Passes : WriteGrade(g) /\ pass[g].outcome # "graded"
           \/ run'[r] = Torn
<1>1. run'[r] # run[r]
  BY DEF IsGraded, HasRecord
<1>2. CASE UNCHANGED run
  BY <1>1, <1>2
<1>3. ASSUME NEW p \in Polls, WriteRecord(p) PROVE p \in raced
  BY <1>3, PollWritesGrades
<1>4. ASSUME NEW g \in Passes, WriteGrade(g) PROVE pass[g].outcome # "graded"
  BY <1>4, PassWritesGrades
<1>5. CASE FeedStops \/ ProxyStops
  <2>1. run'[r] = run[r] \/ run'[r] = Torn
    BY <1>5, MayTearKeeps DEF FeedStops, ProxyStops
  <2>2. QED
    BY <1>1, <2>1
<1>6. CASE ~UNCHANGED run /\ ~FeedStops /\ ~ProxyStops
  <2>1. LedgerNext
    BY <1>6 DEF ledgerVars, folder
  <2>2. ~MatchGoesOn /\ \A x \in Folders : ~Post(x)
    BY <1>6 DEF MatchGoesOn, Post, folder
  <2>3. \A p \in Polls : ~(Ask(p) \/ Answer(p) \/ Unreachable(p) \/ ReadOutcome(p) \/ WriteTranscript(p) \/ ServeLive(p) \/ FailToMerge(p))
    BY <1>6 DEF Ask, Answer, Unreachable, ReadOutcome, WriteTranscript, ServeLive, FailToMerge, folder
  <2>4. \A g \in Passes : ~(ListCandidates(g) \/ ScoresFail(g) \/ ReadBack(g) \/ WriteBackTranscript(g) \/ \E x \in Folders : FetchScores(g, x))
    BY <1>6 DEF ListCandidates, ScoresFail, ReadBack, WriteBackTranscript, FetchScores, folder
  <2>5. (\E p \in Polls : WriteRecord(p)) \/ \E g \in Passes : WriteGrade(g)
    BY <1>6, <2>1, <2>2, <2>3, <2>4 DEF LedgerNext, FeedRuns, ProxyRuns
  <2>6. QED
    BY <2>5, <1>3, <1>4
<1>7. QED
  BY <1>2, <1>5, <1>6

\* A grade in the ledger is only lost to a poll that read the record before
\* the grade was in it, to a pass that asked for the scores before the match
\* was over, or to a process that stopped while it was writing.
THEOREM GradesAreOnlyLostToRaces == LedgerSpec => GradesAreOnlyRacedAway
<1>1. LedgerInit => LedgerInv
  BY LedgerStarts
<1>2. LedgerInv /\ [LedgerNext]_ledgerVars => LedgerInv'
  BY LedgerSteps
<1>3. LedgerInv /\ LedgerInv' /\ [LedgerNext]_ledgerVars =>
        [LedgerTypeOK' /\ \A r \in Folders : IsGraded(r) /\ ~IsGraded(r)' =>
            \/ \E p \in raced : WriteRecord(p)
            \/ \E g \in Passes : WriteGrade(g) /\ pass[g].outcome # "graded"
            \/ run'[r] = Torn]_ledgerVars
  BY LostGrades DEF LedgerInv, Types
<1>4. QED
  BY <1>1, <1>2, <1>3, PTL DEF LedgerSpec, GradesAreOnlyRacedAway
=============================================================================
