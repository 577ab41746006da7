---------------------------- MODULE EscrowProofs ----------------------------
(***************************************************************************)
(* What holds of the SOL escrow for every set of wallets, references,      *)
(* amounts, deadlines and balances: types, solvency of every open escrow,  *)
(* fixed terms, that no lamport is made or lost, that no escrow is locked, *)
(* and that each step keeps the promise of Settlement.                     *)
(***************************************************************************)
EXTENDS Escrow, FiniteSetTheorems, WellFoundedInduction, TLAPS

\* The inductive invariant.  Solvency is inductive only together with the
\* types; the address of an escrow is needed to know that the signer who
\* opens one is not itself an escrow's address.
IInv == TypeOK /\ KeyedByItsBuyer /\ Solvency

-----------------------------------------------------------------------------
(* Adding up a function over a finite set: used here for the lamports, and   *)
(* by ArbiterProofs and SignerProofs.                                         *)

\* The element a fold takes out of a set first.
Any(s) == CHOOSE x \in s : TRUE

\* t holds the total of f over every subset of D.
Adds(t, f, D) ==
    \A s \in SUBSET D : t[s] = IF s = {} THEN 0 ELSE f[Any(s)] + t[s \ {Any(s)}]

\* The fold takes out an element.
LEMMA AnyLemma ==
    ASSUME NEW s, s # {}
    PROVE  Any(s) \in s
  BY DEF Any

\* Among some subsets of a finite set there is one that contains no other.
\* What holds of every subset is proved by looking at a least one where it
\* does not.
LEMMA LeastSubset ==
    ASSUME NEW D, IsFiniteSet(D), NEW T, T \subseteq SUBSET D, T # {}
    PROVE  \E s \in T : \A u \in T : u \subseteq s => u = s
<1>1. IsWellFoundedOn(StrictSubsetOrdering(D), FiniteSubsetsOf(D))
  BY FS_StrictSubsetOrderingWellFounded
<1>2. FiniteSubsetsOf(D) = SUBSET D
  BY FS_FiniteSubsetsOfFinite
<1>3. PICK s \in T : \A u \in T : ~ (<<u, s>> \in StrictSubsetOrdering(D))
  BY <1>1, <1>2, WFMin
<1> QED
  BY <1>3 DEF StrictSubsetOrdering

\* There is one such table at most: two differ nowhere, least of all at a
\* least subset where they do.
LEMMA AddsOneWay ==
    ASSUME NEW D, IsFiniteSet(D), NEW f, NEW t, NEW u, Adds(t, f, D), Adds(u, f, D)
    PROVE  \A s \in SUBSET D : t[s] = u[s]
<1> DEFINE T == {s \in SUBSET D : t[s] # u[s]}
<1> SUFFICES ASSUME T # {} PROVE FALSE
  OBVIOUS
<1>1. PICK s \in T : \A v \in T : v \subseteq s => v = s
  <2>1. T \subseteq SUBSET D
    OBVIOUS
  <2> HIDE DEF T
  <2> QED BY <2>1, LeastSubset
<1>2. s # {}
  BY <1>1 DEF Adds
<1>3. Any(s) \in s
  BY <1>2, AnyLemma
<1>4. t[s \ {Any(s)}] = u[s \ {Any(s)}]
  BY <1>1, <1>3
<1> QED
  BY <1>1, <1>2, <1>4 DEF Adds

\* There is one: the tables of the proper subsets of a least set without one
\* would make up its table.
LEMMA AddsExists ==
    ASSUME NEW D, IsFiniteSet(D), NEW f
    PROVE  \E t : Adds(t, f, D)
<1> DEFINE T == {s \in SUBSET D : ~ \E t : Adds(t, f, s)}
           H(s) == (CHOOSE t : Adds(t, f, s))[s]
<1> SUFFICES ASSUME T # {} PROVE FALSE
  OBVIOUS
<1>1. PICK s \in T : \A v \in T : v \subseteq s => v = s
  <2>1. T \subseteq SUBSET D
    OBVIOUS
  <2> HIDE DEF T
  <2> QED BY <2>1, LeastSubset
<1>2. ASSUME NEW v \in SUBSET s, v # s
      PROVE  H(v) = IF v = {} THEN 0 ELSE f[Any(v)] + H(v \ {Any(v)})
  <2> DEFINE w == v \ {Any(v)}
             tv == CHOOSE t : Adds(t, f, v)
             tw == CHOOSE t : Adds(t, f, w)
  <2>1. v \notin T /\ v \in SUBSET D
    BY <1>1, <1>2
  <2>2. Adds(tv, f, v)
    BY <2>1
  <2>3. w \subseteq v /\ w \in SUBSET D
    BY <2>1
  <2>4. Adds(tv, f, w)
    BY <2>2, <2>3 DEF Adds
  <2>5. Adds(tw, f, w)
    BY <2>4
  <2>6. IsFiniteSet(w)
    BY <2>3, FS_Subset
  <2>7. tv[w] = tw[w]
    <3> HIDE DEF tv, tw, w
    <3> QED BY <2>4, <2>5, <2>6, AddsOneWay
  <2>8. tv[v] = IF v = {} THEN 0 ELSE f[Any(v)] + tv[w]
    BY <2>2 DEF Adds
  <2> QED
    BY <2>7, <2>8
<1> DEFINE t == [v \in SUBSET s |-> IF v = {} THEN 0 ELSE f[Any(v)] + H(v \ {Any(v)})]
<1> HIDE DEF H
<1>3. ASSUME NEW v \in SUBSET s
      PROVE  t[v] = IF v = {} THEN 0 ELSE f[Any(v)] + t[v \ {Any(v)}]
  <2>1. CASE v = {}
    BY <2>1
  <2>2. CASE v # {}
    <3> DEFINE w == v \ {Any(v)}
    <3>1. Any(v) \in v
      BY <2>2, AnyLemma
    <3>2. w \in SUBSET s /\ w # s
      BY <3>1
    <3>3. t[w] = H(w)
      BY <3>2, <1>2
    <3> QED
      BY <3>3, <2>2
  <2> QED BY <2>1, <2>2
<1>4. Adds(t, f, s)
  BY <1>3 DEF Adds
<1> QED
  BY <1>1, <1>4

\* What Conservation adds up with the library's fold.
Total(f, s) == FoldFunctionOnSet(+, 0, f, s)

\* The fold is that table's entry.
LEMMA TotalIsAdded ==
    ASSUME NEW D, IsFiniteSet(D), NEW f
    PROVE  \E t : Adds(t, f, D) /\ \A s \in SUBSET D : Total(f, s) = t[s]
<1>1. PICK t : Adds(t, f, D)
  BY AddsExists
<1>2. ASSUME NEW s \in SUBSET D PROVE Total(f, s) = t[s]
  <2> DEFINE body(g) == [v \in SUBSET s |-> IF v = {} THEN 0 ELSE f[Any(v)] + g[v \ {Any(v)}]]
             it == CHOOSE g : g = body(g)
             r == [v \in SUBSET s |-> t[v]]
  <2>1. Total(f, s) = it[s]
    BY DEF Total, FoldFunctionOnSet, MapThenFoldSet, Any
  <2>2. r = body(r)
    <3>1. ASSUME NEW v \in SUBSET s
          PROVE  r[v] = IF v = {} THEN 0 ELSE f[Any(v)] + r[v \ {Any(v)}]
      BY <1>1 DEF Adds
    <3> QED BY <3>1
  <2>3. it = body(it)
    <3> HIDE DEF r
    <3> QED BY <2>2
  <2>4. Adds(it, f, s)
    <3> HIDE DEF it
    <3> QED BY <2>3 DEF Adds
  <2>5. Adds(t, f, s) /\ IsFiniteSet(s)
    BY <1>1, FS_Subset DEF Adds
  <2> HIDE DEF it
  <2> QED BY <2>1, <2>4, <2>5, AddsOneWay
<1> QED BY <1>1, <1>2
\* Nothing adds up to zero.
LEMMA TotalOfNone ==
    ASSUME NEW f
    PROVE  Total(f, {}) = 0
<1>1. IsFiniteSet({})
  BY FS_EmptySet
<1>2. PICK t : Adds(t, f, {}) /\ \A s \in SUBSET {} : Total(f, s) = t[s]
  BY <1>1, TotalIsAdded
<1> QED BY <1>2 DEF Adds

\* The total depends on the values alone.
LEMMA TotalSame ==
    ASSUME NEW D, IsFiniteSet(D), NEW f, NEW g, \A x \in D : f[x] = g[x]
    PROVE  Total(f, D) = Total(g, D)
<1>1. PICK t : Adds(t, f, D) /\ \A s \in SUBSET D : Total(f, s) = t[s]
  BY TotalIsAdded
<1>2. PICK u : Adds(u, g, D) /\ \A s \in SUBSET D : Total(g, s) = u[s]
  BY TotalIsAdded
<1>3. Adds(u, f, D)
  <2> SUFFICES ASSUME NEW s \in SUBSET D
               PROVE  u[s] = IF s = {} THEN 0 ELSE f[Any(s)] + u[s \ {Any(s)}]
    BY DEF Adds
  <2>1. s # {} => Any(s) \in D
    BY AnyLemma
  <2> QED BY <2>1, <1>2 DEF Adds
<1> QED BY <1>1, <1>2, <1>3, AddsOneWay

\* Naturals add up to a natural.
LEMMA TotalType ==
    ASSUME NEW D, IsFiniteSet(D), NEW f, \A x \in D : f[x] \in Nat
    PROVE  Total(f, D) \in Nat
<1>1. PICK t : Adds(t, f, D) /\ \A s \in SUBSET D : Total(f, s) = t[s]
  BY TotalIsAdded
<1> DEFINE T == {s \in SUBSET D : t[s] \notin Nat}
<1> SUFFICES ASSUME T # {} PROVE FALSE
  BY <1>1
<1>2. PICK s \in T : \A v \in T : v \subseteq s => v = s
  <2>1. T \subseteq SUBSET D
    OBVIOUS
  <2> HIDE DEF T
  <2> QED BY <2>1, LeastSubset
<1>3. t[s] = IF s = {} THEN 0 ELSE f[Any(s)] + t[s \ {Any(s)}]
  BY <1>1 DEF Adds
<1>4. s # {} => Any(s) \in s /\ t[s \ {Any(s)}] \in Nat
  <2> HAVE s # {}
  <2>1. Any(s) \in s
    BY AnyLemma
  <2> QED BY <2>1, <1>2
<1> QED BY <1>3, <1>4

\* It does not matter which element is taken out first.
LEMMA TotalOut ==
    ASSUME NEW D, IsFiniteSet(D), NEW f, \A x \in D : f[x] \in Nat, NEW x \in D
    PROVE  Total(f, D) = f[x] + Total(f, D \ {x})
<1>1. PICK t : Adds(t, f, D) /\ \A s \in SUBSET D : Total(f, s) = t[s]
  BY TotalIsAdded
<1>0. ASSUME NEW s \in SUBSET D PROVE t[s] \in Nat
  <2>1. IsFiniteSet(s) /\ \A y \in s : f[y] \in Nat
    BY FS_Subset
  <2> QED BY <2>1, TotalType, <1>1
<1> DEFINE T == {s \in SUBSET D : \E y \in s : t[s] # f[y] + t[s \ {y}]}
<1>11. T = {} => t[D] = f[x] + t[D \ {x}]
  <2>1. D \in SUBSET D
    OBVIOUS
  <2> QED BY <2>1
<1>12. Total(f, D) = t[D] /\ Total(f, D \ {x}) = t[D \ {x}]
  BY <1>1
<1> SUFFICES ASSUME T # {} PROVE FALSE
  <2> HIDE DEF T
  <2> QED BY <1>11, <1>12
<1>2. PICK s \in T : \A v \in T : v \subseteq s => v = s
  <2>1. T \subseteq SUBSET D
    OBVIOUS
  <2> HIDE DEF T
  <2> QED BY <2>1, LeastSubset
<1>3. PICK y \in s : t[s] # f[y] + t[s \ {y}]
  BY <1>2
<1> DEFINE c == Any(s)
<1>4. c \in s /\ s \in SUBSET D /\ s # {}
  BY <1>2, <1>3, AnyLemma
<1>5. t[s] = f[c] + t[s \ {c}]
  BY <1>1, <1>4 DEF Adds
<1> HIDE DEF c
<1>6. c # y
  BY <1>3, <1>5
<1>7. s \ {c} \notin T /\ y \in s \ {c} /\ s \ {y} \notin T /\ c \in s \ {y}
      /\ s \ {c} \in SUBSET D /\ s \ {y} \in SUBSET D
  <2> HIDE DEF T
  <2> QED BY <1>2, <1>4, <1>6
<1>8. t[s \ {c}] = f[y] + t[(s \ {c}) \ {y}] /\ t[s \ {y}] = f[c] + t[(s \ {y}) \ {c}]
  BY <1>7
<1>9. (s \ {c}) \ {y} = (s \ {y}) \ {c} /\ (s \ {c}) \ {y} \in SUBSET D
  BY <1>4
<1>10. t[(s \ {c}) \ {y}] \in Nat /\ f[c] \in Nat /\ f[y] \in Nat
  BY <1>0, <1>4, <1>9
<1> HIDE DEF T
<1>13. t[s] = f[c] + (f[y] + t[(s \ {c}) \ {y}]) /\ t[s \ {y}] = f[c] + t[(s \ {c}) \ {y}]
  BY <1>5, <1>8, <1>9
<1>14. t[s] # f[y] + t[s \ {y}]
  BY <1>3
<1> QED BY <1>10, <1>13, <1>14

\* Elements of value zero do not count.
LEMMA TotalWithoutZeros ==
    ASSUME NEW D, IsFiniteSet(D), NEW E \in SUBSET D, NEW f, \A x \in D : f[x] \in Nat,
           \A x \in D \ E : f[x] = 0
    PROVE  Total(f, D) = Total(f, E)
<1> DEFINE T == {s \in SUBSET (D \ E) : Total(f, E \cup s) # Total(f, E)}
<1>1. T = {} => Total(f, D) = Total(f, E)
  <2>1. D \ E \notin T => Total(f, E \cup (D \ E)) = Total(f, E)
    OBVIOUS
  <2>2. E \cup (D \ E) = D
    OBVIOUS
  <2> HIDE DEF T
  <2> QED BY <2>1, <2>2
<1> SUFFICES ASSUME T # {} PROVE FALSE
  <2> HIDE DEF T
  <2> QED BY <1>1
<1>2. PICK s \in T : \A v \in T : v \subseteq s => v = s
  <2>1. T \subseteq SUBSET (D \ E) /\ IsFiniteSet(D \ E)
    BY FS_Subset
  <2> HIDE DEF T
  <2> QED BY <2>1, LeastSubset
<1>3. s # {}
  <2>1. E \cup {} = E
    OBVIOUS
  <2> QED BY <1>2, <2>1
<1>4. PICK x \in s : TRUE
  BY <1>3
<1>5. s \ {x} \notin T /\ s \ {x} \in SUBSET (D \ E)
  <2>1. s \in SUBSET (D \ E)
    BY <1>2
  <2> HIDE DEF T
  <2> QED BY <1>2, <1>4, <2>1
<1>6. Total(f, E \cup (s \ {x})) = Total(f, E)
  BY <1>5
<1>7. /\ E \cup s \in SUBSET D /\ x \in E \cup s /\ f[x] = 0
      /\ (E \cup s) \ {x} = E \cup (s \ {x})
      /\ E \cup (s \ {x}) \in SUBSET D
  BY <1>2, <1>4
<1>8. Total(f, E \cup s) = f[x] + Total(f, (E \cup s) \ {x}) /\ Total(f, E \cup (s \ {x})) \in Nat
  BY <1>7, TotalOut, TotalType, FS_Subset
<1>9. Total(f, E \cup s) # Total(f, E)
  BY <1>2
<1> HIDE DEF T
<1>10. Total(f, (E \cup s) \ {x}) = Total(f, E \cup (s \ {x}))
  BY <1>7, Zenon
<1> QED BY <1>6, <1>7, <1>8, <1>9, <1>10

\* Smaller values have a smaller total.
LEMMA TotalBelow ==
    ASSUME NEW D, IsFiniteSet(D), NEW f, NEW g,
           \A x \in D : f[x] \in Nat /\ g[x] \in Nat /\ f[x] =< g[x]
    PROVE  Total(f, D) =< Total(g, D)
<1> DEFINE T == {s \in SUBSET D : ~ (Total(f, s) =< Total(g, s))}
<1>1. T = {} => Total(f, D) =< Total(g, D)
  OBVIOUS
<1> SUFFICES ASSUME T # {} PROVE FALSE
  <2> HIDE DEF T
  <2> QED BY <1>1
<1>2. PICK s \in T : \A v \in T : v \subseteq s => v = s
  <2>1. T \subseteq SUBSET D
    OBVIOUS
  <2> HIDE DEF T
  <2> QED BY <2>1, LeastSubset
<1>3. s # {}
  <2>1. ~ (Total(f, s) =< Total(g, s))
    BY <1>2
  <2>2. Total(f, {}) = 0 /\ Total(g, {}) = 0
    BY TotalOfNone
  <2> QED BY <2>1, <2>2
<1>4. PICK x \in s : TRUE
  BY <1>3
<1>5. /\ IsFiniteSet(s) /\ IsFiniteSet(s \ {x}) /\ s \in SUBSET D /\ s \ {x} \in SUBSET D
      /\ \A y \in s : f[y] \in Nat /\ g[y] \in Nat
  BY <1>2, FS_Subset
<1>6. s \ {x} \notin T
  <2> HIDE DEF T
  <2> QED BY <1>2, <1>4
<1>7. Total(f, s \ {x}) =< Total(g, s \ {x})
  BY <1>5, <1>6
<1>8. Total(f, s) = f[x] + Total(f, s \ {x}) /\ Total(g, s) = g[x] + Total(g, s \ {x})
  BY <1>4, <1>5, TotalOut
<1>9. Total(f, s \ {x}) \in Nat /\ Total(g, s \ {x}) \in Nat
  BY <1>5, TotalType
<1>10. f[x] \in Nat /\ g[x] \in Nat /\ f[x] =< g[x] /\ ~ (Total(f, s) =< Total(g, s))
  BY <1>2, <1>4, <1>5
<1> QED
  BY <1>7, <1>8, <1>9, <1>10

\* At most m each is at most m times their number.
LEMMA TotalAtMost ==
    ASSUME NEW D, IsFiniteSet(D), NEW m \in Nat, NEW f,
           \A x \in D : f[x] \in Nat /\ f[x] =< m
    PROVE  Total(f, D) =< Cardinality(D) * m
<1> DEFINE T == {s \in SUBSET D : ~ (Total(f, s) =< Cardinality(s) * m)}
<1>1. T = {} => Total(f, D) =< Cardinality(D) * m
  OBVIOUS
<1> SUFFICES ASSUME T # {} PROVE FALSE
  <2> HIDE DEF T
  <2> QED BY <1>1
<1>2. PICK s \in T : \A v \in T : v \subseteq s => v = s
  <2>1. T \subseteq SUBSET D
    OBVIOUS
  <2> HIDE DEF T
  <2> QED BY <2>1, LeastSubset
<1>3. s # {}
  <2>1. ~ (Total(f, s) =< Cardinality(s) * m)
    BY <1>2
  <2>2. Total(f, {}) = 0 /\ Cardinality({}) = 0 /\ 0 * m = 0
    BY TotalOfNone, FS_EmptySet
  <2>3. Total(f, {}) =< Cardinality({}) * m
    <3>1. Cardinality({}) * m = 0
      BY <2>2, Zenon
    <3> QED BY <2>2, <3>1
  <2> QED BY <2>1, <2>3, Zenon
<1>4. PICK x \in s : TRUE
  BY <1>3
<1>5. /\ IsFiniteSet(s) /\ IsFiniteSet(s \ {x}) /\ s \in SUBSET D /\ s \ {x} \in SUBSET D
      /\ \A y \in s : f[y] \in Nat /\ f[y] =< m
  BY <1>2, FS_Subset
<1>6. s \ {x} \notin T
  <2> HIDE DEF T
  <2> QED BY <1>2, <1>4
<1>7. Total(f, s \ {x}) =< Cardinality(s \ {x}) * m
  BY <1>5, <1>6
<1>8. Total(f, s) = f[x] + Total(f, s \ {x}) /\ Total(f, s \ {x}) \in Nat
  BY <1>4, <1>5, TotalOut, TotalType
<1>9. Cardinality(s \ {x}) = Cardinality(s) - 1 /\ Cardinality(s) \in Nat
  BY <1>4, <1>5, FS_RemoveElement, FS_CardinalityType
<1>10. (Cardinality(s) - 1) * m + m = Cardinality(s) * m
  BY <1>9
<1>11. f[x] \in Nat /\ f[x] =< m /\ ~ (Total(f, s) =< Cardinality(s) * m)
  BY <1>2, <1>4, <1>5
<1>12. PICK p \in Nat, q \in Nat : p = (Cardinality(s) - 1) * m /\ q = Cardinality(s) * m
  <2>1. Cardinality(s) - 1 \in Nat
    BY <1>5, <1>9, FS_CardinalityType
  <2> QED BY <2>1, <1>9
<1> QED
  BY <1>7, <1>8, <1>9, <1>10, <1>11, <1>12

\* What moves from one element to another leaves the total as it was.
LEMMA TotalOfMoved ==
    ASSUME NEW D, IsFiniteSet(D), NEW f \in [D -> Nat], NEW g \in [D -> Nat],
           NEW a \in D, NEW b \in D, a # b, g[a] + g[b] = f[a] + f[b],
           \A x \in D \ {a, b} : g[x] = f[x]
    PROVE  Total(g, D) = Total(f, D)
<1>1. IsFiniteSet(D \ {a}) /\ IsFiniteSet((D \ {a}) \ {b})
  BY FS_Subset
<1>2. Total(f, D) = f[a] + Total(f, D \ {a}) /\ Total(g, D) = g[a] + Total(g, D \ {a})
  BY TotalOut
<1>3. /\ Total(f, D \ {a}) = f[b] + Total(f, (D \ {a}) \ {b})
      /\ Total(g, D \ {a}) = g[b] + Total(g, (D \ {a}) \ {b})
  BY <1>1, TotalOut
<1>4. Total(f, (D \ {a}) \ {b}) = Total(g, (D \ {a}) \ {b})
  BY <1>1, TotalSame
<1>5. Total(f, (D \ {a}) \ {b}) \in Nat
  BY <1>1, TotalType
<1>6. f[a] \in Nat /\ f[b] \in Nat /\ g[a] \in Nat /\ g[b] \in Nat
  OBVIOUS
<1> QED BY <1>2, <1>3, <1>4, <1>5, <1>6

\* Two elements have no more than all of them together.
LEMMA PairWithinTotal ==
    ASSUME NEW D, IsFiniteSet(D), NEW f \in [D -> Nat], NEW a \in D, NEW b \in D, a # b
    PROVE  f[a] + f[b] =< Total(f, D)
<1>1. IsFiniteSet(D \ {a}) /\ IsFiniteSet((D \ {a}) \ {b})
  BY FS_Subset
<1>2. Total(f, D) = f[a] + Total(f, D \ {a})
  BY TotalOut
<1>3. Total(f, D \ {a}) = f[b] + Total(f, (D \ {a}) \ {b})
  BY <1>1, TotalOut
<1>4. Total(f, (D \ {a}) \ {b}) \in Nat /\ f[a] \in Nat /\ f[b] \in Nat
  BY <1>1, TotalType
<1> QED BY <1>2, <1>3, <1>4

-----------------------------------------------------------------------------
(* Lemmas about the balances each instruction leaves.                      *)

\* A move between two addresses takes x from one, gives it to the other and
\* leaves the rest alone; a move to the same address changes nothing.
LEMMA MoveLemma ==
    ASSUME NEW l \in [Addresses -> Nat], NEW from \in Addresses, NEW to \in Addresses,
           NEW x \in Nat, l[from] >= x
    PROVE  /\ Move(l, from, to, x) \in [Addresses -> Nat]
           /\ from # to => /\ Move(l, from, to, x)[from] = l[from] - x
                           /\ Move(l, from, to, x)[to] = l[to] + x
           /\ from = to => Move(l, from, to, x)[from] = l[from]
           /\ \A a \in Addresses \ {from, to} : Move(l, from, to, x)[a] = l[a]
  BY DEF Move

\* Wallets and escrow addresses are addresses, and no address is both.
LEMMA AddressLemma ==
    /\ Wallets \subseteq Addresses
    /\ Keys \subseteq Addresses
    /\ \A w \in Wallets : w \notin Keys
    /\ \A w \in Wallets, r \in Refs : <<w, r>> \in Keys
    /\ \A k \in Keys : k[1] \in Wallets /\ k[2] \in Refs /\ k = <<k[1], k[2]>>
  BY KeysAreNotWallets DEF Addresses, Keys

\* A deposit leaves the amount and the rent at the escrow's address, takes at
\* least the amount from the buyer, and touches no other balance.
LEMMA DepositedLemma ==
    ASSUME NEW l \in [Addresses -> Nat], NEW k \in Keys, NEW amount \in Nat,
           l[k[1]] >= DepositCost(l, k, amount)
    PROVE  LET d == Deposited(l, k, amount) IN
           /\ d \in [Addresses -> Nat]
           /\ d[k] >= amount + Rent
           /\ d[k] >= l[k]
           /\ d[k[1]] =< l[k[1]] - amount
           /\ \A a \in Addresses \ {k, k[1]} : d[a] = l[a]
<1>1. k[1] \in Addresses /\ k \in Addresses /\ k # k[1] /\ l[k] \in Nat /\ l[k[1]] \in Nat
  BY AddressLemma
<1>2. DepositCost(l, k, amount) \in Nat /\ DepositCost(l, k, amount) >= amount
      /\ l[k] + DepositCost(l, k, amount) >= amount + Rent
  BY <1>1, RentAssumption DEF DepositCost, TopUp
<1> DEFINE cost == DepositCost(l, k, amount)
<1>3. l[k[1]] >= cost /\ cost \in Nat
  BY <1>2
<1> HIDE DEF cost
<1>4. /\ Move(l, k[1], k, cost) \in [Addresses -> Nat]
      /\ Move(l, k[1], k, cost)[k[1]] = l[k[1]] - cost
      /\ Move(l, k[1], k, cost)[k] = l[k] + cost
      /\ \A a \in Addresses \ {k[1], k} : Move(l, k[1], k, cost)[a] = l[a]
  BY <1>1, <1>3, MoveLemma
<1> QED
  BY <1>1, <1>2, <1>4 DEF Deposited, cost

\* Closing empties the escrow's address into the buyer's wallet and touches no
\* other balance.
LEMMA ClosedLemma ==
    ASSUME NEW l \in [Addresses -> Nat], NEW k \in Keys, NEW buyer \in Wallets
    PROVE  LET r == Closed(l, k, buyer) IN
           /\ r \in [Addresses -> Nat]
           /\ r[k] = 0
           /\ r[buyer] = l[buyer] + l[k]
           /\ \A a \in Addresses \ {k, buyer} : r[a] = l[a]
<1>1. k \in Addresses /\ buyer \in Addresses /\ k # buyer /\ l[k] \in Nat /\ l[k] >= l[k]
  BY AddressLemma
<1>2. /\ Move(l, k, buyer, l[k]) \in [Addresses -> Nat]
      /\ Move(l, k, buyer, l[k])[k] = l[k] - l[k]
      /\ Move(l, k, buyer, l[k])[buyer] = l[buyer] + l[k]
      /\ \A a \in Addresses \ {k, buyer} : Move(l, k, buyer, l[k])[a] = l[a]
  BY <1>1, MoveLemma
<1> QED
  BY <1>1, <1>2 DEF Closed

\* A release empties the escrow's address, gives the seller exactly the amount
\* and the buyer what is left, and touches no other balance.
LEMMA ReleasedLemma ==
    ASSUME NEW l \in [Addresses -> Nat], NEW k \in Keys, NEW e \in EscrowAccounts,
           l[k] >= e.amount
    PROVE  LET r == Released(l, k, e, e.seller) IN
           /\ r \in [Addresses -> Nat]
           /\ r[k] = 0
           /\ e.seller # e.buyer => /\ r[e.seller] = l[e.seller] + e.amount
                                    /\ r[e.buyer] = l[e.buyer] + (l[k] - e.amount)
           /\ e.seller = e.buyer => r[e.buyer] = l[e.buyer] + l[k]
           /\ \A a \in Addresses \ {k, e.buyer, e.seller} : r[a] = l[a]
<1>1. /\ k \in Addresses /\ e.seller \in Addresses /\ e.buyer \in Addresses
      /\ k # e.seller /\ k # e.buyer /\ e.buyer \in Wallets
      /\ e.amount \in Nat /\ l[k] \in Nat /\ l[e.seller] \in Nat /\ l[e.buyer] \in Nat
  BY AddressLemma DEF EscrowAccounts
<1> DEFINE paid == Move(l, k, e.seller, e.amount)
<1>2. /\ paid \in [Addresses -> Nat]
      /\ paid[k] = l[k] - e.amount
      /\ paid[e.seller] = l[e.seller] + e.amount
      /\ \A a \in Addresses \ {k, e.seller} : paid[a] = l[a]
  BY <1>1, MoveLemma
<1>3. Released(l, k, e, e.seller) = Closed(paid, k, e.buyer)
  BY DEF Released
<1> HIDE DEF paid
<1>4. /\ Closed(paid, k, e.buyer) \in [Addresses -> Nat]
      /\ Closed(paid, k, e.buyer)[k] = 0
      /\ Closed(paid, k, e.buyer)[e.buyer] = paid[e.buyer] + paid[k]
      /\ \A a \in Addresses \ {k, e.buyer} : Closed(paid, k, e.buyer)[a] = paid[a]
  BY <1>1, <1>2, ClosedLemma
<1> QED
  BY <1>1, <1>2, <1>3, <1>4

-----------------------------------------------------------------------------
(* The inductive invariant.                                                *)

LEMMA InitIInv == Init => IInv
<1> SUFFICES ASSUME Init PROVE IInv
  OBVIOUS
<1>1. TypeOK
  BY InitialAssumption, AddressLemma DEF Init, TypeOK
<1>2. Open = {}
  BY DEF Init, Open
<1> QED
  BY <1>1, <1>2 DEF IInv, KeyedByItsBuyer, Solvency

\* A step that opens one escrow, with its amount and rent at its address, and
\* leaves what the other escrows' addresses hold.
LEMMA OpeningKeepsIInv ==
    ASSUME IInv, NEW k \in Keys, NEW e \in EscrowAccounts, k = <<e.buyer, e.reference>>,
           escrows' = [escrows EXCEPT ![k] = e], now' = now,
           lamports' \in [Addresses -> Nat], lamports'[k] >= e.amount + Rent,
           \A a \in Keys \ {k} : lamports'[a] = lamports[a]
    PROVE  IInv'
<1>1. TypeOK'
  BY DEF IInv, TypeOK
<1>2. Open' \subseteq Open \cup {k} /\ escrows'[k] = e
      /\ \A j \in Open' \ {k} : escrows'[j] = escrows[j]
  BY DEF Open, TypeOK, IInv
<1>3. KeyedByItsBuyer'
  BY <1>2 DEF KeyedByItsBuyer, IInv
<1>4. Solvency'
  <2> SUFFICES ASSUME NEW j \in Open' PROVE lamports'[j] >= escrows'[j].amount + Rent
    BY DEF Solvency
  <2>1. CASE j = k
    BY <2>1, <1>2
  <2>2. CASE j # k
    <3>1. j \in Open /\ j \in Keys
      BY <2>2, <1>2 DEF Open
    <3> QED
      BY <2>2, <3>1, <1>2 DEF Solvency, IInv
  <2> QED
    BY <2>1, <2>2
<1> QED
  BY <1>1, <1>3, <1>4 DEF IInv

\* A step that closes one escrow and leaves what the other escrows' addresses hold.
LEMMA ClosingKeepsIInv ==
    ASSUME IInv, NEW k \in Keys, escrows[k] # NoEscrow,
           escrows' = [escrows EXCEPT ![k] = NoEscrow], now' = now,
           lamports' \in [Addresses -> Nat],
           \A a \in Keys \ {k} : lamports'[a] = lamports[a]
    PROVE  IInv'
<1>1. TypeOK'
  BY DEF IInv, TypeOK
<1>2. Open' \subseteq Open \ {k} /\ \A j \in Open' : escrows'[j] = escrows[j]
  BY DEF Open, TypeOK, IInv
<1>3. KeyedByItsBuyer'
  BY <1>2 DEF KeyedByItsBuyer, IInv
<1>4. Solvency'
  <2> SUFFICES ASSUME NEW j \in Open' PROVE lamports'[j] >= escrows'[j].amount + Rent
    BY DEF Solvency
  <2>1. j \in Open /\ j \in Keys \ {k}
    BY <1>2 DEF Open
  <2> QED
    BY <1>2, <2>1 DEF Solvency, IInv
<1> QED
  BY <1>1, <1>3, <1>4 DEF IInv

LEMMA NextIInv == IInv /\ [Next]_vars => IInv'
<1> SUFFICES ASSUME IInv, [Next]_vars PROVE IInv'
  OBVIOUS
<1> USE DEF IInv
<1>1. ASSUME NEW buyer \in Wallets, NEW seller \in Wallets, NEW ref \in Refs,
             NEW amount \in Amounts, NEW deadline \in Deadlines,
             Initialize(buyer, seller, ref, amount, deadline)
      PROVE  IInv'
  <2> DEFINE k == <<buyer, ref>>
             e == [buyer |-> buyer, seller |-> seller, amount |-> amount,
                   reference |-> ref, deadline |-> deadline]
  <2>1. k \in Keys /\ k[1] = buyer /\ k[2] = ref /\ amount \in Nat /\ deadline \in Int
    BY AddressLemma, InputAssumption
  <2>2. e \in EscrowAccounts
    BY <1>1, <2>1 DEF Initialize, CanInitialize, ValidTerms, Vacant, EscrowAccounts
  <2>3. /\ lamports' \in [Addresses -> Nat]
        /\ lamports'[k] >= amount + Rent
        /\ \A a \in Addresses \ {k, buyer} : lamports'[a] = lamports[a]
    <3>1. lamports \in [Addresses -> Nat] /\ lamports[k[1]] >= DepositCost(lamports, k, amount)
          /\ lamports' = Deposited(lamports, k, amount)
      BY <1>1 DEF Initialize, CanInitialize, ValidTerms, Vacant, TypeOK
    <3> QED
      BY <2>1, <3>1, DepositedLemma
  <2>4. escrows' = [escrows EXCEPT ![k] = e] /\ now' = now
    BY <1>1 DEF Initialize
  <2>5. k = <<e.buyer, e.reference>> /\ e.amount = amount
    OBVIOUS
  <2>6. \A a \in Keys \ {k} : lamports'[a] = lamports[a]
    BY <2>3, AddressLemma
  <2> HIDE DEF k, e
  <2> QED
    BY <2>1, <2>2, <2>3, <2>4, <2>5, <2>6, OpeningKeepsIInv
<1>2. ASSUME NEW buyer \in Wallets, NEW seller \in Wallets, NEW k \in Keys,
             Release(buyer, seller, k)
      PROVE  IInv'
  <2>1. escrows[k] \in EscrowAccounts /\ lamports \in [Addresses -> Nat]
        /\ lamports[k] >= escrows[k].amount
    BY <1>2 DEF Release, Releasable, CanRelease, TypeOK
  <2>2. escrows[k].buyer \notin Keys /\ escrows[k].seller \notin Keys /\ Keys \subseteq Addresses
    BY <2>1, AddressLemma DEF EscrowAccounts
  <2>3. lamports' = Released(lamports, k, escrows[k], escrows[k].seller)
    BY <1>2 DEF Release, Releasable, CanRelease, HasOneSeller
  <2>4. lamports' \in [Addresses -> Nat] /\ \A a \in Keys \ {k} : lamports'[a] = lamports[a]
    BY <2>1, <2>2, <2>3, ReleasedLemma
  <2> QED
    BY <1>2, <2>4, ClosingKeepsIInv DEF Release, Releasable, CanRelease
<1>3. ASSUME NEW buyer \in Wallets, NEW k \in Keys, Refund(buyer, k)
      PROVE  IInv'
  <2>1. escrows[k] \in EscrowAccounts /\ lamports \in [Addresses -> Nat]
    BY <1>3 DEF Refund, Refundable, CanRefund, TypeOK
  <2>2. escrows[k].buyer \in Wallets /\ escrows[k].buyer \notin Keys /\ Keys \subseteq Addresses
    BY <2>1, AddressLemma DEF EscrowAccounts
  <2>3. lamports' = Closed(lamports, k, escrows[k].buyer)
    BY <1>3 DEF Refund, Refunded
  <2>4. lamports' \in [Addresses -> Nat] /\ \A a \in Keys \ {k} : lamports'[a] = lamports[a]
    BY <2>1, <2>2, <2>3, ClosedLemma
  <2> QED
    BY <1>3, <2>4, ClosingKeepsIInv DEF Refund, Refundable, CanRefund
<1>4. ASSUME NEW from \in Wallets, NEW to \in Addresses, NEW x \in Gifts,
             SystemTransfer(from, to, x)
      PROVE  IInv'
  <2>1. /\ lamports \in [Addresses -> Nat] /\ from \in Addresses /\ x \in Nat
        /\ from # to /\ lamports[from] >= x /\ lamports' = Move(lamports, from, to, x)
        /\ UNCHANGED <<now, escrows>>
    BY <1>4, AddressLemma, InputAssumption DEF SystemTransfer, TypeOK
  <2>2. /\ lamports' \in [Addresses -> Nat] /\ lamports'[to] = lamports[to] + x
        /\ \A a \in Addresses \ {from, to} : lamports'[a] = lamports[a]
    BY <2>1, MoveLemma
  <2>3. TypeOK'
    BY <2>1, <2>2 DEF TypeOK
  <2>4. Open' = Open /\ escrows' = escrows
    BY <2>1 DEF Open
  <2>5. KeyedByItsBuyer'
    BY <2>4 DEF KeyedByItsBuyer
  <2>6. \A j \in Keys : lamports'[j] >= lamports[j]
    BY <2>1, <2>2, AddressLemma
  <2>7. Solvency'
    <3> SUFFICES ASSUME NEW j \in Open PROVE lamports'[j] >= escrows[j].amount + Rent
      BY <2>4 DEF Solvency
    <3>1. j \in Keys /\ j \in Addresses /\ escrows[j] \in EscrowAccounts
      BY AddressLemma DEF Open, TypeOK
    <3>2. lamports[j] \in Nat /\ lamports'[j] \in Nat /\ escrows[j].amount \in Nat
      BY <2>1, <2>2, <3>1 DEF EscrowAccounts
    <3> QED
      BY <2>6, <3>1, <3>2, RentAssumption DEF Solvency
  <2> QED
    BY <2>3, <2>5, <2>7
<1>5. CASE Tick
  BY <1>5 DEF Tick, TypeOK, KeyedByItsBuyer, Solvency, Open
<1>6. CASE UNCHANGED vars
  BY <1>6 DEF vars, TypeOK, KeyedByItsBuyer, Solvency, Open
<1> QED
  BY <1>1, <1>2, <1>3, <1>4, <1>5, <1>6 DEF Next

\* In every reachable state the invariant holds.
THEOREM Invariance == Spec => []IInv
  BY InitIInv, NextIInv, PTL DEF Spec

\* The clock, the balances and the escrow accounts keep their types; no escrow
\* has amount zero.
THEOREM TypeCorrect == Spec => []TypeOK
<1>1. IInv => TypeOK
  BY DEF IInv
<1> QED
  BY Invariance, <1>1, PTL

\* Every open escrow holds its amount and its rent.
THEOREM SolvencyHolds == Spec => []Solvency
<1>1. IInv => Solvency
  BY DEF IInv
<1> QED
  BY Invariance, <1>1, PTL

-----------------------------------------------------------------------------
(* All lamports together, and the way out of every escrow.                 *)

LEMMA AddressesAreFinite == IsFiniteSet(Addresses) /\ IsFiniteSet(Wallets)
<1>1. IsFiniteSet(Wallets) /\ IsFiniteSet(Refs)
  BY FiniteAssumption
<1>2. IsFiniteSet(Wallets \X Refs)
  BY <1>1, FS_Product
<1> QED
  BY <1>1, <1>2, FS_Union DEF Addresses, Keys

\* A move makes and loses nothing.
LEMMA MoveKeepsTotal ==
    ASSUME NEW l \in [Addresses -> Nat], NEW from \in Addresses, NEW to \in Addresses,
           NEW x \in Nat, l[from] >= x
    PROVE  Total(Move(l, from, to, x), Addresses) = Total(l, Addresses)
<1> DEFINE m == Move(l, from, to, x)
<1>1. /\ m \in [Addresses -> Nat]
      /\ from # to => m[from] = l[from] - x /\ m[to] = l[to] + x
      /\ from = to => m[from] = l[from]
      /\ \A a \in Addresses \ {from, to} : m[a] = l[a]
  BY MoveLemma
<1> HIDE DEF m
<1>2. CASE from # to
  <2>1. m[from] + m[to] = l[from] + l[to]
    BY <1>1, <1>2
  <2> QED
    BY <1>1, <1>2, <2>1, AddressesAreFinite, TotalOfMoved DEF m
<1>3. CASE from = to
  <2>1. \A a \in Addresses : m[a] = l[a]
    BY <1>1, <1>3
  <2> QED
    BY <2>1, AddressesAreFinite, TotalSame DEF m
<1> QED
  BY <1>2, <1>3

LEMMA DepositKeepsTotal ==
    ASSUME NEW l \in [Addresses -> Nat], NEW k \in Keys, NEW amount \in Nat,
           l[k[1]] >= DepositCost(l, k, amount)
    PROVE  Total(Deposited(l, k, amount), Addresses) = Total(l, Addresses)
<1>1. k[1] \in Addresses /\ k \in Addresses /\ l[k] \in Nat
  BY AddressLemma
<1>2. DepositCost(l, k, amount) \in Nat
  BY <1>1, RentAssumption DEF DepositCost, TopUp
<1> QED
  BY <1>1, <1>2, MoveKeepsTotal DEF Deposited

LEMMA CloseKeepsTotal ==
    ASSUME NEW l \in [Addresses -> Nat], NEW k \in Keys, NEW buyer \in Wallets
    PROVE  Total(Closed(l, k, buyer), Addresses) = Total(l, Addresses)
<1>1. k \in Addresses /\ buyer \in Addresses /\ l[k] \in Nat /\ l[k] >= l[k]
  BY AddressLemma
<1> QED
  BY <1>1, MoveKeepsTotal DEF Closed

LEMMA ReleaseKeepsTotal ==
    ASSUME NEW l \in [Addresses -> Nat], NEW k \in Keys, NEW e \in EscrowAccounts,
           l[k] >= e.amount
    PROVE  Total(Released(l, k, e, e.seller), Addresses) = Total(l, Addresses)
<1> DEFINE paid == Move(l, k, e.seller, e.amount)
<1>1. /\ k \in Addresses /\ e.seller \in Addresses /\ e.buyer \in Wallets /\ e.amount \in Nat
  BY AddressLemma DEF EscrowAccounts
<1>2. paid \in [Addresses -> Nat] /\ Total(paid, Addresses) = Total(l, Addresses)
  BY <1>1, MoveLemma, MoveKeepsTotal
<1>3. Released(l, k, e, e.seller) = Closed(paid, k, e.buyer)
  BY DEF Released
<1> HIDE DEF paid
<1> QED
  BY <1>1, <1>2, <1>3, CloseKeepsTotal

LEMMA NextKeepsTotal ==
    ASSUME IInv, [Next]_vars
    PROVE  Total(lamports', Addresses) = Total(lamports, Addresses)
<1> USE DEF IInv
<1>0. lamports \in [Addresses -> Nat]
  BY DEF TypeOK
<1>1. ASSUME NEW buyer \in Wallets, NEW seller \in Wallets, NEW ref \in Refs,
             NEW amount \in Amounts, NEW deadline \in Deadlines,
             Initialize(buyer, seller, ref, amount, deadline)
      PROVE  Total(lamports', Addresses) = Total(lamports, Addresses)
  <2> DEFINE k == <<buyer, ref>>
  <2>1. k \in Keys /\ k[1] = buyer /\ amount \in Nat
    BY AddressLemma, InputAssumption
  <2>2. lamports[k[1]] >= DepositCost(lamports, k, amount) /\ lamports' = Deposited(lamports, k, amount)
    BY <1>1 DEF Initialize, CanInitialize
  <2> HIDE DEF k
  <2> QED
    BY <1>0, <2>1, <2>2, DepositKeepsTotal
<1>2. ASSUME NEW buyer \in Wallets, NEW seller \in Wallets, NEW k \in Keys,
             Release(buyer, seller, k)
      PROVE  Total(lamports', Addresses) = Total(lamports, Addresses)
  <2>1. escrows[k] \in EscrowAccounts /\ lamports[k] >= escrows[k].amount
    BY <1>2 DEF Release, Releasable, CanRelease, TypeOK
  <2>2. lamports' = Released(lamports, k, escrows[k], escrows[k].seller)
    BY <1>2 DEF Release, Releasable, CanRelease, HasOneSeller
  <2> QED
    BY <1>0, <2>1, <2>2, ReleaseKeepsTotal
<1>3. ASSUME NEW buyer \in Wallets, NEW k \in Keys, Refund(buyer, k)
      PROVE  Total(lamports', Addresses) = Total(lamports, Addresses)
  <2>1. escrows[k].buyer \in Wallets
    BY <1>3 DEF Refund, Refundable, CanRefund, TypeOK, EscrowAccounts
  <2>2. lamports' = Closed(lamports, k, escrows[k].buyer)
    BY <1>3 DEF Refund, Refunded
  <2> QED
    BY <1>0, <2>1, <2>2, CloseKeepsTotal
<1>4. ASSUME NEW from \in Wallets, NEW to \in Addresses, NEW x \in Gifts,
             SystemTransfer(from, to, x)
      PROVE  Total(lamports', Addresses) = Total(lamports, Addresses)
  <2>1. /\ from \in Addresses /\ x \in Nat /\ lamports[from] >= x
        /\ lamports' = Move(lamports, from, to, x)
    BY <1>4, AddressLemma, InputAssumption DEF SystemTransfer
  <2> QED
    BY <1>0, <2>1, MoveKeepsTotal
<1>5. CASE UNCHANGED lamports
  BY <1>5
<1> QED
  BY <1>1, <1>2, <1>3, <1>4, <1>5 DEF Next, vars, Tick

\* At the start, the wallets hold everything.
LEMMA InitTotal == Init => Total(lamports, Addresses) = Total(InitialLamports, Wallets)
<1> SUFFICES ASSUME Init PROVE Total(lamports, Addresses) = Total(InitialLamports, Wallets)
  OBVIOUS
<1>1. /\ \A a \in Wallets : lamports[a] = InitialLamports[a]
      /\ \A a \in Addresses \ Wallets : lamports[a] = 0
      /\ \A a \in Addresses : lamports[a] \in Nat
  BY InitialAssumption, AddressLemma DEF Init
<1>2. Total(lamports, Addresses) = Total(lamports, Wallets)
  BY <1>1, AddressesAreFinite, AddressLemma, TotalWithoutZeros
<1> QED
  BY <1>1, <1>2, AddressesAreFinite, TotalSame

Supply == Total(lamports, Addresses) = Total(InitialLamports, Wallets)

\* No step makes or loses a lamport: every balance change is a move.
THEOREM NothingIsMadeOrLost == Spec => []Conservation
<1>1. Init => Supply
  BY InitTotal DEF Supply
<1>2. IInv /\ Supply /\ [Next]_vars => Supply'
  BY NextKeepsTotal DEF Supply
<1>3. IInv /\ Supply => Conservation
  <2> SUFFICES ASSUME IInv, Supply PROVE Conservation
    OBVIOUS
  <2>1. TypeOK /\ DOMAIN lamports = Addresses /\ DOMAIN InitialLamports = Wallets
    BY InitialAssumption DEF IInv, TypeOK
  <2>2. /\ FoldFunction(+, 0, lamports) = Total(lamports, Addresses)
        /\ FoldFunction(+, 0, InitialLamports) = Total(InitialLamports, Wallets)
    BY <2>1 DEF FoldFunction, Total
  <2> QED
    BY <2>1, <2>2 DEF Conservation, Supply
<1> QED
  BY Invariance, <1>1, <1>2, <1>3, PTL DEF Spec

\* While an escrow is open, every account is empty or rent exempt: the
\* initialize that opened it saw to that, and every later step did.
Rents == Open # {} => RentExempt(lamports)

LEMMA NextKeepsRents == IInv /\ Rents /\ [Next]_vars => Rents'
<1> SUFFICES ASSUME IInv, Rents, [Next]_vars PROVE Rents'
  OBVIOUS
<1>1. CASE RentExempt(lamports')
  BY <1>1 DEF Rents, RentExempt
<1>2. CASE UNCHANGED <<lamports, escrows>>
  BY <1>2 DEF Rents, RentExempt, Open
<1> QED
  BY <1>1, <1>2 DEF Next, vars, Initialize, Release, Releasable, Refund, Refundable,
                    SystemTransfer, Tick

\* What a settlement needs is there: the amount and the rent are at the
\* escrow's address, the lamports of two accounts fit a u64, and whoever
\* receives something ends above the rent-exempt minimum.
LEMMA SettlementsExecute == IInv /\ Supply /\ Rents => NeverLocked
<1> SUFFICES ASSUME IInv, Supply, Rents, NEW k \in Open
             PROVE  LET e == escrows[k] IN
                    /\ lamports[e.seller] + e.amount >= MinBalance => Releasable(e.buyer, e.seller, k)
                    /\ now >= e.deadline => Refundable(e.buyer, k)
  BY DEF NeverLocked
<1> DEFINE e == escrows[k]
<1>1. /\ k \in Keys /\ e \in EscrowAccounts /\ e # NoEscrow /\ k = <<e.buyer, e.reference>>
      /\ lamports \in [Addresses -> Nat] /\ lamports[k] >= e.amount + Rent
      /\ RentExempt(lamports)
  BY DEF IInv, TypeOK, KeyedByItsBuyer, Solvency, Rents, Open
<1>2. /\ e.buyer \in Wallets /\ e.seller \in Wallets /\ e.amount \in Nat \ {0}
      /\ k \in Addresses /\ e.buyer \in Addresses /\ e.seller \in Addresses
      /\ k # e.seller /\ k # e.buyer
  BY <1>1, AddressLemma DEF EscrowAccounts
<1> HIDE DEF e
<1>3. /\ lamports[k] \in Nat /\ lamports[e.seller] \in Nat /\ lamports[e.buyer] \in Nat
      /\ Rent \in Nat /\ MinBalance \in Nat /\ MinBalance =< Rent
  BY <1>1, <1>2, RentAssumption
<1>4. lamports[k] >= e.amount
  BY <1>1, <1>2, <1>3
<1>5. lamports[e.seller] + e.amount =< U64Max
  <2>1. Total(lamports, Addresses) =< U64Max
    <3>1. DOMAIN InitialLamports = Wallets
      BY InitialAssumption
    <3>2. Total(InitialLamports, Wallets) = FoldFunction(+, 0, InitialLamports)
      BY <3>1 DEF FoldFunction, Total
    <3> QED
      BY <3>2, SupplyAssumption DEF Supply
  <2>2. lamports[e.seller] + lamports[k] =< Total(lamports, Addresses)
    BY <1>1, <1>2, AddressesAreFinite, PairWithinTotal
  <2>3. Total(lamports, Addresses) \in Nat
    BY <1>1, AddressesAreFinite, TotalType
  <2> QED
    BY <1>2, <1>3, <1>4, <2>1, <2>2, <2>3, InputAssumption
<1>6. ASSUME lamports[e.seller] + e.amount >= MinBalance
      PROVE  Releasable(e.buyer, e.seller, k)
  <2>1. CanRelease(lamports, k, e.buyer, e.seller)
    BY <1>1, <1>4, <1>5 DEF CanRelease, HasOneSeller, e
  <2> DEFINE r == Released(lamports, k, e, e.seller)
  <2>2. /\ r[k] = 0
        /\ e.seller # e.buyer => /\ r[e.seller] = lamports[e.seller] + e.amount
                                 /\ r[e.buyer] = lamports[e.buyer] + (lamports[k] - e.amount)
        /\ e.seller = e.buyer => r[e.buyer] = lamports[e.buyer] + lamports[k]
        /\ \A a \in Addresses \ {k, e.buyer, e.seller} : r[a] = lamports[a]
    BY <1>1, <1>4, ReleasedLemma
  <2> HIDE DEF r
  <2>3. ASSUME NEW a \in Addresses PROVE r[a] = 0 \/ r[a] >= MinBalance
    <3>1. CASE a = k
      BY <2>2, <3>1
    <3>2. CASE a = e.buyer
      BY <1>1, <1>2, <1>3, <2>2, <3>2
    <3>3. CASE a = e.seller /\ a # e.buyer
      BY <1>6, <2>2, <3>3
    <3>4. CASE a \notin {k, e.buyer, e.seller}
      BY <1>1, <2>2, <3>4 DEF RentExempt
    <3> QED
      BY <3>1, <3>2, <3>3, <3>4
  <2>4. RentExempt(Released(lamports, k, escrows[k], e.seller))
    BY <2>3 DEF RentExempt, r, e
  <2> QED
    BY <2>1, <2>4 DEF Releasable
<1>7. ASSUME now >= e.deadline
      PROVE  Refundable(e.buyer, k)
  <2>1. CanRefund(k, e.buyer)
    BY <1>1, <1>7 DEF CanRefund, DeadlineReached, e
  <2> DEFINE r == Closed(lamports, k, e.buyer)
  <2>2. /\ r[k] = 0 /\ r[e.buyer] = lamports[e.buyer] + lamports[k]
        /\ \A a \in Addresses \ {k, e.buyer} : r[a] = lamports[a]
    BY <1>1, <1>2, ClosedLemma
  <2> HIDE DEF r
  <2>3. ASSUME NEW a \in Addresses PROVE r[a] = 0 \/ r[a] >= MinBalance
    <3>1. CASE a = k
      BY <2>2, <3>1
    <3>2. CASE a = e.buyer
      BY <1>1, <1>2, <1>3, <2>2, <3>2
    <3>3. CASE a \notin {k, e.buyer}
      BY <1>1, <2>2, <3>3 DEF RentExempt
    <3> QED
      BY <3>1, <3>2, <3>3
  <2>4. RentExempt(Refunded(lamports, k, escrows[k]))
    BY <2>3 DEF RentExempt, Refunded, r, e
  <2> QED
    BY <2>1, <2>4 DEF Refundable
<1> QED
  BY <1>6, <1>7 DEF e

\* In every reachable state the buyer of an open escrow can release it to a
\* seller it makes rent exempt, and refund it once the deadline is there.
THEOREM NothingIsLocked == Spec => []NeverLocked
<1>1. Init => Supply /\ Rents
  BY InitTotal DEF Supply, Rents, Init, Open
<1>2. IInv /\ Supply /\ [Next]_vars => Supply'
  BY NextKeepsTotal DEF Supply
<1> QED
  BY Invariance, <1>1, <1>2, NextKeepsRents, SettlementsExecute, PTL DEF Spec

-----------------------------------------------------------------------------
(* What no step may do.                                                    *)

\* A step that leaves an escrow open leaves its terms as they were: opening
\* requires the address to hold no escrow, closing leaves none.
THEOREM TermsStayFixed == Spec => TermsAreFixed
<1> DEFINE Fixed == \A k \in Keys : escrows[k] # NoEscrow /\ escrows'[k] # NoEscrow
                                      => escrows'[k] = escrows[k]
<1>1. TypeOK /\ [Next]_vars => [Fixed]_vars
  <2> SUFFICES ASSUME TypeOK, [Next]_vars PROVE Fixed
    OBVIOUS
  <2>1. ASSUME NEW buyer \in Wallets, NEW seller \in Wallets, NEW ref \in Refs,
               NEW amount \in Amounts, NEW deadline \in Deadlines,
               Initialize(buyer, seller, ref, amount, deadline)
        PROVE  Fixed
    <3>1. PICK e : escrows' = [escrows EXCEPT ![<<buyer, ref>>] = e]
      BY <2>1 DEF Initialize
    <3>2. escrows[<<buyer, ref>>] = NoEscrow
      BY <2>1 DEF Initialize, CanInitialize, ValidTerms, Vacant
    <3> QED
      BY <3>1, <3>2 DEF TypeOK
  <2>2. ASSUME NEW k \in Keys, escrows' = [escrows EXCEPT ![k] = NoEscrow]
        PROVE  Fixed
    BY <2>2 DEF TypeOK
  <2>3. CASE escrows' = escrows
    BY <2>3
  <2> QED
    BY <2>1, <2>2, <2>3 DEF Next, vars, Release, Refund, SystemTransfer, Tick
<1> QED
  BY <1>1, TypeCorrect, PTL DEF Spec, TermsAreFixed

\* A step that takes lamports from an escrow's address closes the escrow there
\* and leaves the address empty: deposits and transfers only add to it, and a
\* settlement empties the one address it closes.
THEOREM AddressesKeepTheirLamports == Spec => DrainedOnlyWhenClosed
<1> DEFINE Drained == \A k \in Keys : lamports'[k] < lamports[k]
                         => /\ escrows[k] # NoEscrow /\ escrows'[k] = NoEscrow
                            /\ lamports'[k] = 0
<1>1. TypeOK /\ TypeOK' /\ [Next]_vars => [Drained]_vars
  <2> DEFINE Kept(j) == lamports'[j] < lamports[j]
                          => /\ escrows[j] # NoEscrow /\ escrows'[j] = NoEscrow
                             /\ lamports'[j] = 0
  <2> SUFFICES ASSUME TypeOK, TypeOK', [Next]_vars, NEW j \in Keys PROVE Kept(j)
    OBVIOUS
  <2>1. /\ lamports \in [Addresses -> Nat] /\ escrows \in [Keys -> EscrowAccounts \cup {NoEscrow}]
        /\ j \in Addresses /\ lamports[j] \in Nat /\ lamports'[j] \in Nat /\ j \notin Wallets
    BY AddressLemma DEF TypeOK
  <2>2. ASSUME NEW buyer \in Wallets, NEW seller \in Wallets, NEW ref \in Refs,
               NEW amount \in Amounts, NEW deadline \in Deadlines,
               Initialize(buyer, seller, ref, amount, deadline)
        PROVE  Kept(j)
    <3> DEFINE k == <<buyer, ref>>
    <3>1. k \in Keys /\ k[1] = buyer /\ amount \in Nat
      BY AddressLemma, InputAssumption
    <3>2. lamports[k[1]] >= DepositCost(lamports, k, amount)
          /\ lamports' = Deposited(lamports, k, amount)
      BY <2>2 DEF Initialize, CanInitialize
    <3> HIDE DEF k
    <3>3. lamports'[k] >= lamports[k] /\ \A a \in Addresses \ {k, buyer} : lamports'[a] = lamports[a]
      BY <2>1, <3>1, <3>2, DepositedLemma
    <3> QED
      BY <2>1, <3>3
  <2>3. ASSUME NEW buyer \in Wallets, NEW seller \in Wallets, NEW k \in Keys,
               Release(buyer, seller, k)
        PROVE  Kept(j)
    <3> DEFINE e == escrows[k]
    <3>1. /\ e \in EscrowAccounts /\ e # NoEscrow /\ lamports[k] >= e.amount
          /\ lamports' = Released(lamports, k, e, e.seller)
          /\ escrows' = [escrows EXCEPT ![k] = NoEscrow]
      BY <2>1, <2>3 DEF Release, Releasable, CanRelease, HasOneSeller
    <3>2. e.buyer \in Wallets /\ e.seller \in Wallets
      BY <3>1 DEF EscrowAccounts
    <3> HIDE DEF e
    <3>3. lamports'[k] = 0 /\ \A a \in Addresses \ {k, e.buyer, e.seller} : lamports'[a] = lamports[a]
      BY <2>1, <3>1, ReleasedLemma
    <3>4. CASE j = k
      BY <2>1, <3>1, <3>3, <3>4 DEF e
    <3>5. CASE j # k
      BY <2>1, <3>2, <3>3, <3>5
    <3> QED
      BY <3>4, <3>5
  <2>4. ASSUME NEW buyer \in Wallets, NEW k \in Keys, Refund(buyer, k)
        PROVE  Kept(j)
    <3>1. /\ escrows[k] # NoEscrow /\ escrows[k].buyer = buyer
          /\ lamports' = Closed(lamports, k, buyer)
          /\ escrows' = [escrows EXCEPT ![k] = NoEscrow]
      BY <2>4 DEF Refund, Refundable, CanRefund, Refunded
    <3>2. lamports'[k] = 0 /\ \A a \in Addresses \ {k, buyer} : lamports'[a] = lamports[a]
      BY <2>1, <3>1, ClosedLemma
    <3>3. CASE j = k
      BY <2>1, <3>1, <3>2, <3>3
    <3>4. CASE j # k
      BY <2>1, <3>2, <3>4
    <3> QED
      BY <3>3, <3>4
  <2>5. ASSUME NEW from \in Wallets, NEW to \in Addresses, NEW x \in Gifts,
               SystemTransfer(from, to, x)
        PROVE  Kept(j)
    <3>1. /\ from \in Addresses /\ x \in Nat /\ from # to /\ lamports[from] >= x
          /\ lamports' = Move(lamports, from, to, x)
      BY <2>5, AddressLemma, InputAssumption DEF SystemTransfer
    <3>2. lamports'[to] = lamports[to] + x
          /\ \A a \in Addresses \ {from, to} : lamports'[a] = lamports[a]
      BY <2>1, <3>1, MoveLemma
    <3>3. CASE j = to
      BY <2>1, <3>1, <3>2, <3>3
    <3>4. CASE j # to
      BY <2>1, <3>2, <3>4
    <3> QED
      BY <3>3, <3>4
  <2>6. CASE lamports' = lamports
    BY <2>1, <2>6
  <2> QED
    BY <2>2, <2>3, <2>4, <2>5, <2>6 DEF Next, vars, Tick
<1> QED
  BY <1>1, TypeCorrect, PTL DEF Spec, DrainedOnlyWhenClosed

-----------------------------------------------------------------------------
(* Refinement of Settlement.                                               *)

LEMMA DealLemma ==
    /\ DealOf(NoEscrow) = NoEscrow
    /\ \A e \in EscrowAccounts :
         /\ DealOf(e) \in Deals /\ DealOf(e) # NoEscrow
         /\ DealOf(e).buyer = e.buyer /\ DealOf(e).seller = e.seller
         /\ DealOf(e).amount = e.amount /\ DealOf(e).deadline = e.deadline
  BY NoEscrowAssumption DEF DealOf, Deals, EscrowAccounts

\* The escrow starts with no deal and the wallets' own balances.
LEMMA InitPromise == Init => Promise!Init
  BY InitialAssumption, DealLemma, AddressLemma DEF Init, Promise!Init

\* Opening an escrow funds a deal.
LEMMA InitializePromise ==
    ASSUME IInv, NEW buyer \in Wallets, NEW seller \in Wallets, NEW ref \in Refs,
           NEW amount \in Amounts, NEW deadline \in Deadlines,
           Initialize(buyer, seller, ref, amount, deadline)
    PROVE  Promise!Fund(<<buyer, ref>>)
<1> DEFINE k == <<buyer, ref>>
           e == [buyer |-> buyer, seller |-> seller, amount |-> amount,
                 reference |-> ref, deadline |-> deadline]
           deals == [j \in Keys |-> DealOf(escrows[j])]
           dealsAfter == [j \in Keys |-> DealOf(escrows'[j])]
           purse == [w \in Wallets |-> lamports[w]]
           purseAfter == [w \in Wallets |-> lamports'[w]]
<1>1. k \in Keys /\ k[1] = buyer /\ amount \in Nat /\ deadline \in Int
  BY AddressLemma, InputAssumption
<1>2. amount > 0 /\ deadline > now /\ escrows[k] = NoEscrow
      /\ lamports[buyer] >= DepositCost(lamports, k, amount)
      /\ escrows' = [escrows EXCEPT ![k] = e] /\ now' = now
      /\ lamports' = Deposited(lamports, k, amount)
  BY <1>1 DEF Initialize, CanInitialize, ValidTerms, Vacant
<1>3. e \in EscrowAccounts /\ e.buyer = buyer /\ e.amount = amount /\ e.deadline = deadline
  BY <1>1, <1>2 DEF EscrowAccounts
<1> HIDE DEF e
<1>4. lamports \in [Addresses -> Nat] /\ escrows \in [Keys -> EscrowAccounts \cup {NoEscrow}]
  BY DEF IInv, TypeOK
<1>5. /\ lamports'[buyer] =< lamports[buyer] - amount
      /\ \A w \in Wallets \ {buyer} : lamports'[w] = lamports[w]
  BY <1>1, <1>2, <1>4, AddressLemma, DepositedLemma
<1>6. deals[k] = NoEscrow
  BY <1>1, <1>2, DealLemma
<1>7. dealsAfter[k] = DealOf(e) /\ dealsAfter = [deals EXCEPT ![k] = dealsAfter[k]]
  BY <1>1, <1>2, <1>4
<1>8. dealsAfter[k] \in Promise!Deals /\ dealsAfter[k].buyer = buyer
      /\ dealsAfter[k].amount = amount /\ dealsAfter[k].deadline = deadline
  BY <1>3, <1>7, DealLemma DEF Promise!Deals, Deals
<1>9. purseAfter[buyer] =< purse[buyer] - amount
      /\ \A w \in Wallets \ {buyer} : purseAfter[w] = purse[w]
  BY <1>5
<1> QED
  BY <1>2, <1>6, <1>7, <1>8, <1>9 DEF Promise!Fund, Promise!OthersKeepTheirs

\* Releasing an escrow pays its deal's seller.
LEMMA ReleasePromise ==
    ASSUME IInv, NEW buyer \in Wallets, NEW seller \in Wallets, NEW k \in Keys,
           Release(buyer, seller, k)
    PROVE  Promise!Pay(k)
<1> DEFINE e == escrows[k]
           deals == [j \in Keys |-> DealOf(escrows[j])]
           dealsAfter == [j \in Keys |-> DealOf(escrows'[j])]
           purse == [w \in Wallets |-> lamports[w]]
           purseAfter == [w \in Wallets |-> lamports'[w]]
<1>1. lamports \in [Addresses -> Nat] /\ escrows \in [Keys -> EscrowAccounts \cup {NoEscrow}]
  BY DEF IInv, TypeOK
<1>2. e \in EscrowAccounts /\ lamports[k] >= e.amount /\ e # NoEscrow
      /\ lamports' = Released(lamports, k, e, e.seller)
      /\ escrows' = [escrows EXCEPT ![k] = NoEscrow] /\ now' = now
  BY <1>1 DEF Release, Releasable, CanRelease, HasOneSeller
<1>3. e.buyer \in Wallets /\ e.seller \in Wallets /\ e.amount \in Nat
      /\ lamports[k] \in Nat /\ lamports[e.buyer] \in Nat /\ lamports[e.seller] \in Nat
  BY <1>1, <1>2, AddressLemma DEF EscrowAccounts
<1>4. /\ e.seller # e.buyer => /\ lamports'[e.seller] = lamports[e.seller] + e.amount
                               /\ lamports'[e.buyer] >= lamports[e.buyer]
      /\ e.seller = e.buyer => lamports'[e.buyer] >= lamports[e.buyer] + e.amount
      /\ \A w \in Wallets \ {e.buyer, e.seller} : lamports'[w] = lamports[w]
  BY <1>1, <1>2, <1>3, AddressLemma, ReleasedLemma
<1>5. dealsAfter = [deals EXCEPT ![k] = NoEscrow]
  BY <1>1, <1>2, DealLemma
<1>6. deals[k] # NoEscrow /\ deals[k].buyer = e.buyer /\ deals[k].seller = e.seller
      /\ deals[k].amount = e.amount
  BY <1>2, DealLemma
<1> HIDE DEF e
<1>7. /\ e.seller # e.buyer => /\ purseAfter[e.seller] = purse[e.seller] + e.amount
                               /\ purseAfter[e.buyer] >= purse[e.buyer]
      /\ e.seller = e.buyer => purseAfter[e.buyer] >= purse[e.buyer] + e.amount
      /\ \A w \in Wallets \ {e.buyer, e.seller} : purseAfter[w] = purse[w]
  BY <1>3, <1>4
<1> HIDE DEF deals, dealsAfter, purse, purseAfter
<1> QED
  BY <1>2, <1>5, <1>6, <1>7
  DEF Promise!Pay, Promise!OthersKeepTheirs, deals, dealsAfter, purse, purseAfter

\* Refunding an escrow returns its deal, and only from the deadline on.
LEMMA RefundPromise ==
    ASSUME IInv, NEW buyer \in Wallets, NEW k \in Keys, Refund(buyer, k)
    PROVE  Promise!Return(k)
<1> DEFINE e == escrows[k]
           deals == [j \in Keys |-> DealOf(escrows[j])]
           dealsAfter == [j \in Keys |-> DealOf(escrows'[j])]
           purse == [w \in Wallets |-> lamports[w]]
           purseAfter == [w \in Wallets |-> lamports'[w]]
<1>1. lamports \in [Addresses -> Nat] /\ escrows \in [Keys -> EscrowAccounts \cup {NoEscrow}]
  BY DEF IInv, TypeOK
<1>2. e \in EscrowAccounts /\ e # NoEscrow /\ now >= e.deadline
      /\ lamports' = Closed(lamports, k, e.buyer)
      /\ escrows' = [escrows EXCEPT ![k] = NoEscrow] /\ now' = now
  BY <1>1 DEF Refund, Refundable, CanRefund, DeadlineReached, Refunded
\* The whole balance goes back, and solvency says that is at least the amount.
<1>3. lamports[k] >= e.amount /\ lamports[k] \in Nat /\ e.amount \in Nat
      /\ e.buyer \in Wallets /\ lamports[e.buyer] \in Nat
  <2>1. k \in Open /\ k \in Addresses
    BY <1>2, AddressLemma DEF Open
  <2>2. e.amount \in Nat /\ e.buyer \in Wallets /\ e.buyer \in Addresses
    BY <1>2, AddressLemma DEF EscrowAccounts
  <2>3. lamports[k] \in Nat /\ lamports[e.buyer] \in Nat
    BY <1>1, <2>1, <2>2
  <2>4. lamports[k] >= e.amount + Rent
    BY <2>1 DEF IInv, Solvency
  <2> QED
    BY <2>2, <2>3, <2>4, RentAssumption
<1>4. /\ lamports'[e.buyer] >= lamports[e.buyer] + e.amount
      /\ \A w \in Wallets \ {e.buyer} : lamports'[w] = lamports[w]
  BY <1>1, <1>2, <1>3, AddressLemma, ClosedLemma
<1>5. dealsAfter = [deals EXCEPT ![k] = NoEscrow]
  BY <1>1, <1>2, DealLemma
<1>6. deals[k] # NoEscrow /\ deals[k].buyer = e.buyer
      /\ deals[k].amount = e.amount /\ deals[k].deadline = e.deadline
  BY <1>2, DealLemma
<1> HIDE DEF e
<1>7. /\ purseAfter[e.buyer] >= purse[e.buyer] + e.amount
      /\ \A w \in Wallets \ {e.buyer} : purseAfter[w] = purse[w]
  BY <1>3, <1>4
<1> HIDE DEF deals, dealsAfter, purse, purseAfter
<1> QED
  BY <1>2, <1>5, <1>6, <1>7
  DEF Promise!Return, Promise!OthersKeepTheirs, deals, dealsAfter, purse, purseAfter

\* Plain transfers and the clock leave every deal alone.
LEMMA TransferPromise ==
    ASSUME IInv, IInv', NEW from \in Wallets, NEW to \in Addresses, NEW x \in Gifts,
           SystemTransfer(from, to, x)
    PROVE  Promise!Elsewhere
  BY AddressLemma DEF SystemTransfer, Promise!Elsewhere, IInv, TypeOK

\* The escrow program implements Settlement.
THEOREM Refinement == Spec => KeepsPromise
<1>1. IInv /\ IInv' /\ [Next]_vars => [Promise!Next]_(Promise!vars)
  <2> SUFFICES ASSUME IInv, IInv', [Next]_vars PROVE [Promise!Next]_(Promise!vars)
    OBVIOUS
  <2>1. CASE Tick
    <3>1. now' > now /\ escrows' = escrows /\ lamports' = lamports
      BY <2>1 DEF Tick, IInv, TypeOK
    <3> QED
      BY <3>1 DEF Promise!Next, Promise!TimePasses
  <2>2. CASE UNCHANGED vars
    BY <2>2 DEF vars, Promise!vars
  <2> QED
    BY <2>1, <2>2, AddressLemma, InitializePromise, ReleasePromise, RefundPromise, TransferPromise
    DEF Next, Promise!Next
<1> QED
  BY <1>1, InitPromise, Invariance, PTL DEF Spec, KeepsPromise, Promise!Spec
=============================================================================
