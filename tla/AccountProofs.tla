---------------------------- MODULE AccountProofs ----------------------------
(***************************************************************************)
(* The money of a booking, for any number of payments, refunds, charges,   *)
(* cancellations and sessions: types; evidence; a payment's money is used  *)
(* once; installments, allocations and the ledger agree; nothing is put up *)
(* for approval on money that was not verified.  All of it rests on sums,  *)
(* which come first.  Each theorem says whether it needs requests that     *)
(* follow one another.                                                     *)
(***************************************************************************)
EXTENDS BookingAccount, FiniteSetTheorems, WellFoundedInduction, TLAPS

(***************************************************************************)
(* Sums.  That two sums agree over every finite set is shown by a smallest *)
(* set over which they would not.                                          *)
(***************************************************************************)

(* What SumFunctionOnSet(f, S) is computed by: g gives every subset of S   *)
(* the sum of f over it, taking one element after the other.               *)
Some(s) == CHOOSE x \in s : TRUE
Rest(s) == s \ {Some(s)}
Adds(g, f, S) == g = [s \in SUBSET S |-> IF s = {} THEN 0 ELSE f[Some(s)] + g[Rest(s)]]

LEMMA SumIs == ASSUME NEW f, NEW S PROVE SumFunctionOnSet(f, S) = (CHOOSE g : Adds(g, f, S))[S]
  BY DEF SumFunctionOnSet, FoldFunctionOnSet, MapThenFoldSet, Adds, Some, Rest

LEMMA RestIsLess ==
    ASSUME NEW s, s # {}
    PROVE  Some(s) \in s /\ Rest(s) \in SUBSET s /\ Rest(s) # s
  BY DEF Some, Rest

LEMMA AddsEmpty == ASSUME NEW g, NEW f, NEW S, Adds(g, f, S) PROVE g[{}] = 0
  BY DEF Adds

LEMMA AddsNext ==
    ASSUME NEW g, NEW f, NEW S, Adds(g, f, S), NEW s \in SUBSET S, s # {}
    PROVE  g[s] = f[Some(s)] + g[Rest(s)]
  BY DEF Adds

LEMMA AddsSame ==
    ASSUME NEW g, NEW h, NEW f, NEW S, Adds(g, f, S), Adds(h, f, S),
           \A s \in SUBSET S : g[s] = h[s]
    PROVE  g = h
  BY DEF Adds

LEMMA AddsBy ==
    ASSUME NEW S, NEW f, NEW g, g = [s \in SUBSET S |-> g[s]], g[{}] = 0,
           \A s \in SUBSET S : s # {} => g[s] = f[Some(s)] + g[Rest(s)]
    PROVE  Adds(g, f, S)
  BY DEF Adds

(* Of the subsets of a finite set that something is wrong with, one is     *)
(* minimal.                                                                *)
LEMMA MinimalSubset ==
    ASSUME NEW S, IsFiniteSet(S), NEW T \in SUBSET SUBSET S, T # {}
    PROVE  \E m \in T : \A s \in T : s \subseteq m => s = m
  <1>1. T \subseteq FiniteSubsetsOf(S)
    BY FS_FiniteSubsetsOfFinite
  <1>2. PICK m \in T : \A s \in T : <<s, m>> \notin StrictSubsetOrdering(S)
    BY <1>1, FS_StrictSubsetOrderingWellFounded, WFMin
  <1>3. ASSUME NEW s \in T, s \subseteq m, s # m PROVE FALSE
    BY <1>2, <1>3 DEF StrictSubsetOrdering
  <1> QED BY <1>2, <1>3

LEMMA AddsUnique ==
    ASSUME NEW S, IsFiniteSet(S), NEW f, NEW g, NEW h, Adds(g, f, S), Adds(h, f, S)
    PROVE  g = h
  <1> DEFINE W == {s \in SUBSET S : g[s] # h[s]}
  <1>1. CASE W = {}
    <2>1. \A s \in SUBSET S : g[s] = h[s]
      BY <1>1
    <2> QED BY <2>1, AddsSame
  <1>2. ASSUME W # {} PROVE FALSE
    <2>1. PICK m \in W : \A s \in W : s \subseteq m => s = m
      <3>1. W \in SUBSET SUBSET S
        OBVIOUS
      <3> HIDE DEF W
      <3> QED BY <1>2, <3>1, MinimalSubset
    <2>2. m # {}
      BY <2>1, AddsEmpty
    <2>3. g[Rest(m)] = h[Rest(m)] /\ Rest(m) \in SUBSET S
      BY <2>1, <2>2, RestIsLess
    <2>4. g[m] = f[Some(m)] + g[Rest(m)] /\ h[m] = f[Some(m)] + h[Rest(m)]
      BY <2>2, AddsNext
    <2> QED BY <2>1, <2>3, <2>4
  <1> QED BY <1>1, <1>2

LEMMA AddsRestricted ==
    ASSUME NEW S, NEW f, NEW g, Adds(g, f, S), NEW T \in SUBSET S
    PROVE  Adds([s \in SUBSET T |-> g[s]], f, T)
  <1> DEFINE h == [s \in SUBSET T |-> g[s]]
  <1>1. \A s \in SUBSET T : s # {} => h[s] = f[Some(s)] + h[Rest(s)]
    <2> SUFFICES ASSUME NEW s \in SUBSET T, s # {} PROVE h[s] = f[Some(s)] + h[Rest(s)]
      OBVIOUS
    <2>1. g[s] = f[Some(s)] + g[Rest(s)]
      BY AddsNext
    <2>2. Rest(s) \in SUBSET T
      BY RestIsLess
    <2> QED BY <2>1, <2>2
  <1>2. h[{}] = 0
    BY AddsEmpty
  <1> QED BY <1>1, <1>2, AddsBy

LEMMA AddsExists ==
    ASSUME NEW S, IsFiniteSet(S), NEW f
    PROVE  \E g : Adds(g, f, S)
  <1> DEFINE W == {T \in SUBSET S : ~\E g : Adds(g, f, T)}
  <1> SUFFICES ASSUME W # {} PROVE FALSE
    OBVIOUS
  <1>1. PICK m \in W : \A s \in W : s \subseteq m => s = m
    <2>1. W \in SUBSET SUBSET S
      OBVIOUS
    <2> HIDE DEF W
    <2> QED BY <2>1, MinimalSubset
  <1> DEFINE G(s) == CHOOSE g : Adds(g, f, s)
             V(s) == IF s = {} THEN 0
                     ELSE IF s = m THEN f[Some(m)] + G(Rest(m))[Rest(m)] ELSE G(s)[s]
             g == [s \in SUBSET m |-> V(s)]
  <1>2. ASSUME NEW s \in SUBSET m, s # m PROVE Adds(G(s), f, s)
    <2>1. s \in SUBSET S /\ s \notin W
      BY <1>1, <1>2
    <2> QED BY <2>1
  <1>3. ASSUME NEW s \in SUBSET m, s # m, s # {}
        PROVE  G(s)[s] = f[Some(s)] + G(Rest(s))[Rest(s)]
    <2> DEFINE h == [r \in SUBSET Rest(s) |-> G(s)[r]]
    <2>1. Rest(s) \in SUBSET m /\ Rest(s) # m /\ Rest(s) \in SUBSET s
      BY <1>3, RestIsLess
    <2>2. Adds(G(s), f, s) /\ Adds(G(Rest(s)), f, Rest(s))
      BY <1>2, <1>3, <2>1
    <2>3. IsFiniteSet(Rest(s))
      BY <1>1, <2>1, FS_Subset
    <2> HIDE DEF G
    <2>4. Adds(h, f, Rest(s))
      BY <2>1, <2>2, AddsRestricted
    <2>5. G(Rest(s)) = h
      BY <2>2, <2>3, <2>4, AddsUnique
    <2>6. G(s)[s] = f[Some(s)] + G(s)[Rest(s)]
      BY <1>3, <2>2, AddsNext
    <2> QED BY <2>5, <2>6
  <1>4. ASSUME NEW s \in SUBSET m, s # {} PROVE V(s) = f[Some(s)] + V(Rest(s))
    <2>1. Rest(s) \in SUBSET m /\ Rest(s) # m
      BY <1>4, RestIsLess
    <2>2. V(Rest(s)) = G(Rest(s))[Rest(s)]
      <3>1. CASE Rest(s) = {}
        <4>1. Adds(G(Rest(s)), f, Rest(s))
          BY <1>2, <2>1
        <4> HIDE DEF G
        <4>2. G(Rest(s))[{}] = 0
          BY <4>1, AddsEmpty
        <4> QED BY <3>1, <4>2
      <3>2. CASE Rest(s) # {}
        BY <3>2, <2>1
      <3> QED BY <3>1, <3>2
    <2>3. V(s) = f[Some(s)] + G(Rest(s))[Rest(s)]
      BY <1>3, <1>4
    <2> HIDE DEF V, G
    <2> QED BY <2>2, <2>3
  <1>5. V({}) = 0
    OBVIOUS
  <1> HIDE DEF V
  <1>6. g = [s \in SUBSET m |-> g[s]] /\ g[{}] = 0
    BY <1>5
  <1>7. \A s \in SUBSET m : s # {} => g[s] = f[Some(s)] + g[Rest(s)]
    BY <1>4, RestIsLess
  <1> HIDE DEF g
  <1>8. Adds(g, f, m)
    BY <1>6, <1>7, AddsBy
  <1> QED BY <1>1, <1>8

-----------------------------------------------------------------------------
LEMMA SumOfSubset ==
    ASSUME NEW S, IsFiniteSet(S), NEW f, NEW g, Adds(g, f, S), NEW T \in SUBSET S
    PROVE  SumFunctionOnSet(f, T) = g[T]
  <1> DEFINE h == CHOOSE h : Adds(h, f, T)
             r == [s \in SUBSET T |-> g[s]]
  <1>1. IsFiniteSet(T)
    BY FS_Subset
  <1>2. Adds(h, f, T)
    BY <1>1, AddsExists
  <1>3. SumFunctionOnSet(f, T) = h[T]
    BY SumIs
  <1>4. Adds(r, f, T)
    BY AddsRestricted
  <1> HIDE DEF h
  <1>5. h = r
    BY <1>1, <1>2, <1>4, AddsUnique
  <1> QED BY <1>3, <1>5

LEMMA SumEmpty == ASSUME NEW f PROVE SumFunctionOnSet(f, {}) = 0
  <1>1. IsFiniteSet({})
    BY FS_EmptySet
  <1>2. PICK g : Adds(g, f, {})
    BY <1>1, AddsExists
  <1>3. SumFunctionOnSet(f, {}) = g[{}]
    BY <1>1, <1>2, SumOfSubset
  <1> QED BY <1>2, <1>3, AddsEmpty

LEMMA SumFirst ==
    ASSUME NEW S, IsFiniteSet(S), S # {}, NEW f
    PROVE  SumFunctionOnSet(f, S) = f[Some(S)] + SumFunctionOnSet(f, Rest(S))
  <1>1. PICK g : Adds(g, f, S)
    BY AddsExists
  <1>2. Rest(S) \in SUBSET S
    BY RestIsLess
  <1>3. SumFunctionOnSet(f, S) = g[S] /\ SumFunctionOnSet(f, Rest(S)) = g[Rest(S)]
    BY <1>1, <1>2, SumOfSubset
  <1> QED BY <1>1, <1>3, AddsNext

LEMMA SumSame ==
    ASSUME NEW S, IsFiniteSet(S), NEW f, NEW g, \A x \in S : f[x] = g[x]
    PROVE  SumFunctionOnSet(f, S) = SumFunctionOnSet(g, S)
  <1> DEFINE W == {T \in SUBSET S : SumFunctionOnSet(f, T) # SumFunctionOnSet(g, T)}
  <1> SUFFICES ASSUME W # {} PROVE FALSE
    OBVIOUS
  <1>1. PICK m \in W : \A s \in W : s \subseteq m => s = m
    <2>1. W \in SUBSET SUBSET S
      OBVIOUS
    <2> HIDE DEF W
    <2> QED BY <2>1, MinimalSubset
  <1>2. m # {} /\ IsFiniteSet(m)
    <2>1. m # {}
      <3>1. SumFunctionOnSet(f, m) # SumFunctionOnSet(g, m)
        BY <1>1
      <3>2. \A e : SumFunctionOnSet(e, {}) = 0
        BY SumEmpty
      <3> HIDE DEF W
      <3> QED BY <3>1, <3>2
    <2>2. IsFiniteSet(m)
      BY <1>1, FS_Subset
    <2> QED BY <2>1, <2>2
  <1>3. Some(m) \in m /\ Rest(m) \in SUBSET m /\ Rest(m) # m
    BY <1>2, RestIsLess
  <1>4. SumFunctionOnSet(f, Rest(m)) = SumFunctionOnSet(g, Rest(m)) /\ f[Some(m)] = g[Some(m)]
    BY <1>1, <1>3
  <1>5. SumFunctionOnSet(f, m) = f[Some(m)] + SumFunctionOnSet(f, Rest(m))
    BY <1>2, SumFirst
  <1>6. SumFunctionOnSet(g, m) = g[Some(m)] + SumFunctionOnSet(g, Rest(m))
    BY <1>2, SumFirst
  <1> QED BY <1>1, <1>4, <1>5, <1>6

LEMMA SumType ==
    ASSUME NEW S, IsFiniteSet(S), NEW f, \A x \in S : f[x] \in Int
    PROVE  SumFunctionOnSet(f, S) \in Int
  <1> DEFINE W == {T \in SUBSET S : SumFunctionOnSet(f, T) \notin Int}
  <1> SUFFICES ASSUME W # {} PROVE FALSE
    OBVIOUS
  <1>1. PICK m \in W : \A s \in W : s \subseteq m => s = m
    <2>1. W \in SUBSET SUBSET S
      OBVIOUS
    <2> HIDE DEF W
    <2> QED BY <2>1, MinimalSubset
  <1>2. m # {} /\ IsFiniteSet(m)
    <2>1. m # {}
      <3>1. SumFunctionOnSet(f, m) \notin Int
        BY <1>1
      <3>2. \A e : SumFunctionOnSet(e, {}) = 0
        BY SumEmpty
      <3> HIDE DEF W
      <3> QED BY <3>1, <3>2
    <2>2. IsFiniteSet(m)
      BY <1>1, FS_Subset
    <2> QED BY <2>1, <2>2
  <1>3. Some(m) \in m /\ Rest(m) \in SUBSET m /\ Rest(m) # m
    BY <1>2, RestIsLess
  <1>4. SumFunctionOnSet(f, Rest(m)) \in Int /\ f[Some(m)] \in Int
    BY <1>1, <1>3
  <1>5. SumFunctionOnSet(f, m) = f[Some(m)] + SumFunctionOnSet(f, Rest(m))
    BY <1>2, SumFirst
  <1> QED BY <1>1, <1>4, <1>5

(* Whichever element is taken first.                                       *)
LEMMA SumWithout ==
    ASSUME NEW S, IsFiniteSet(S), NEW f, \A x \in S : f[x] \in Int, NEW x \in S
    PROVE  SumFunctionOnSet(f, S) = f[x] + SumFunctionOnSet(f, S \ {x})
  <1> DEFINE W == {T \in SUBSET S : \E y \in T :
                      SumFunctionOnSet(f, T) # f[y] + SumFunctionOnSet(f, T \ {y})}
  <1> SUFFICES ASSUME W # {} PROVE FALSE
    OBVIOUS
  <1>1. PICK m \in W : \A s \in W : s \subseteq m => s = m
    <2>1. W \in SUBSET SUBSET S
      OBVIOUS
    <2> HIDE DEF W
    <2> QED BY <2>1, MinimalSubset
  <1>2. PICK y \in m : SumFunctionOnSet(f, m) # f[y] + SumFunctionOnSet(f, m \ {y})
    BY <1>1
  <1> DEFINE c == Some(m)
             both == (m \ {y}) \ {c}
  <1>3. m # {} /\ IsFiniteSet(m) /\ IsFiniteSet(both) /\ IsFiniteSet(m \ {y})
    BY <1>1, <1>2, FS_Subset
  <1>4. c \in m /\ Rest(m) = m \ {c}
    BY <1>3, RestIsLess DEF Rest
  <1>5. SumFunctionOnSet(f, m) = f[c] + SumFunctionOnSet(f, m \ {c})
    BY <1>3, <1>4, SumFirst
  <1>6. c # y
    BY <1>2, <1>5
  <1>7. m \ {c} \in SUBSET S /\ m \ {c} \notin W /\ m \ {y} \in SUBSET S /\ m \ {y} \notin W
    BY <1>1, <1>2, <1>4
  <1>8. SumFunctionOnSet(f, m \ {c}) = f[y] + SumFunctionOnSet(f, (m \ {c}) \ {y})
    BY <1>2, <1>6, <1>7
  <1>9. SumFunctionOnSet(f, m \ {y}) = f[c] + SumFunctionOnSet(f, both)
    BY <1>4, <1>6, <1>7
  <1>10. (m \ {c}) \ {y} = both
    OBVIOUS
  <1>11. SumFunctionOnSet(f, both) \in Int /\ f[c] \in Int /\ f[y] \in Int
    BY <1>1, <1>2, <1>3, <1>4, SumType
  <1> HIDE DEF c, both, W
  <1>12. SumFunctionOnSet(f, m) = f[c] + (f[y] + SumFunctionOnSet(f, both))
    BY <1>5, <1>8, <1>10
  <1>13. f[y] + SumFunctionOnSet(f, m \ {y}) = f[y] + (f[c] + SumFunctionOnSet(f, both))
    BY <1>9
  <1>14. f[c] + (f[y] + SumFunctionOnSet(f, both)) = f[y] + (f[c] + SumFunctionOnSet(f, both))
    BY <1>11
  <1> QED BY <1>2, <1>12, <1>13, <1>14

LEMMA SumAdd ==
    ASSUME NEW S, IsFiniteSet(S), NEW f, NEW x, x \notin S, \A y \in S \cup {x} : f[y] \in Int
    PROVE  SumFunctionOnSet(f, S \cup {x}) = f[x] + SumFunctionOnSet(f, S)
  <1>1. IsFiniteSet(S \cup {x}) /\ (S \cup {x}) \ {x} = S
    BY FS_AddElement
  <1> QED BY <1>1, SumWithout

(* Of two functions that differ in one place.                              *)
LEMMA SumChange ==
    ASSUME NEW S, IsFiniteSet(S), NEW f, NEW g, NEW x \in S, \A y \in S : f[y] \in Int,
           \A y \in S \ {x} : g[y] = f[y], g[x] \in Int
    PROVE  SumFunctionOnSet(g, S) = SumFunctionOnSet(f, S) - f[x] + g[x]
  <1>1. \A y \in S : g[y] \in Int
    OBVIOUS
  <1>2. SumFunctionOnSet(f, S) = f[x] + SumFunctionOnSet(f, S \ {x})
    BY SumWithout
  <1>3. SumFunctionOnSet(g, S) = g[x] + SumFunctionOnSet(g, S \ {x})
    BY <1>1, SumWithout
  <1>4. IsFiniteSet(S \ {x})
    BY FS_Subset
  <1>5. SumFunctionOnSet(f, S \ {x}) = SumFunctionOnSet(g, S \ {x})
    BY <1>4, SumSame
  <1>6. SumFunctionOnSet(f, S \ {x}) \in Int
    BY <1>4, SumType
  <1> QED BY <1>2, <1>3, <1>5, <1>6

LEMMA SumPlus ==
    ASSUME NEW S, IsFiniteSet(S), NEW f, NEW g, NEW h,
           \A x \in S : f[x] \in Int /\ g[x] \in Int /\ h[x] = f[x] + g[x]
    PROVE  SumFunctionOnSet(h, S) = SumFunctionOnSet(f, S) + SumFunctionOnSet(g, S)
  <1> DEFINE W == {T \in SUBSET S :
                SumFunctionOnSet(h, T) # SumFunctionOnSet(f, T) + SumFunctionOnSet(g, T)}
  <1> SUFFICES ASSUME W # {} PROVE FALSE
    OBVIOUS
  <1>1. PICK m \in W : \A s \in W : s \subseteq m => s = m
    <2>1. W \in SUBSET SUBSET S
      OBVIOUS
    <2> HIDE DEF W
    <2> QED BY <2>1, MinimalSubset
  <1>2. m # {} /\ IsFiniteSet(m)
    <2>1. m # {}
      <3> SUFFICES ASSUME m = {} PROVE FALSE
        OBVIOUS
      <3>1. SumFunctionOnSet(h, m) # SumFunctionOnSet(f, m) + SumFunctionOnSet(g, m)
        BY <1>1
      <3> HIDE DEF W
      <3>2. SumFunctionOnSet(h, m) = 0 /\ SumFunctionOnSet(f, m) = 0 /\ SumFunctionOnSet(g, m) = 0
        BY SumEmpty
      <3> QED BY <3>1, <3>2
    <2>2. IsFiniteSet(m)
      BY <1>1, FS_Subset
    <2> QED BY <2>1, <2>2
  <1> DEFINE c == Some(m)
             r == Rest(m)
  <1>3. c \in S /\ r \in SUBSET m /\ r # m /\ IsFiniteSet(r)
    BY <1>1, <1>2, RestIsLess, FS_Subset
  <1>4. SumFunctionOnSet(h, r) = SumFunctionOnSet(f, r) + SumFunctionOnSet(g, r)
    BY <1>1, <1>3
  <1>5. /\ SumFunctionOnSet(f, m) = f[c] + SumFunctionOnSet(f, r)
        /\ SumFunctionOnSet(g, m) = g[c] + SumFunctionOnSet(g, r)
        /\ SumFunctionOnSet(h, m) = h[c] + SumFunctionOnSet(h, r)
    BY <1>2, SumFirst
  <1>6. SumFunctionOnSet(f, r) \in Int /\ SumFunctionOnSet(g, r) \in Int
    BY <1>1, <1>3, SumType
  <1>7. f[c] \in Int /\ g[c] \in Int /\ h[c] = f[c] + g[c]
    BY <1>3
  <1>8. SumFunctionOnSet(h, m) # SumFunctionOnSet(f, m) + SumFunctionOnSet(g, m)
    BY <1>1
  <1> HIDE DEF c, r, W
  <1> QED BY <1>4, <1>5, <1>6, <1>7, <1>8

(* Of natural numbers.                                                     *)
LEMMA SumNat ==
    ASSUME NEW S, IsFiniteSet(S), NEW f, \A x \in S : f[x] \in Nat
    PROVE  SumFunctionOnSet(f, S) \in Nat
  <1> DEFINE W == {T \in SUBSET S : SumFunctionOnSet(f, T) \notin Nat}
  <1> SUFFICES ASSUME W # {} PROVE FALSE
    OBVIOUS
  <1>1. PICK m \in W : \A s \in W : s \subseteq m => s = m
    <2>1. W \in SUBSET SUBSET S
      OBVIOUS
    <2> HIDE DEF W
    <2> QED BY <2>1, MinimalSubset
  <1>2. m # {} /\ IsFiniteSet(m)
    <2>1. m # {}
      <3>1. SumFunctionOnSet(f, m) \notin Nat
        BY <1>1
      <3>2. \A e : SumFunctionOnSet(e, {}) = 0
        BY SumEmpty
      <3> HIDE DEF W
      <3> QED BY <3>1, <3>2
    <2>2. IsFiniteSet(m)
      BY <1>1, FS_Subset
    <2> QED BY <2>1, <2>2
  <1>3. Some(m) \in m /\ Rest(m) \in SUBSET m /\ Rest(m) # m
    BY <1>2, RestIsLess
  <1>4. SumFunctionOnSet(f, Rest(m)) \in Nat /\ f[Some(m)] \in Nat
    BY <1>1, <1>3
  <1>5. SumFunctionOnSet(f, m) = f[Some(m)] + SumFunctionOnSet(f, Rest(m))
    BY <1>2, SumFirst
  <1> QED BY <1>1, <1>4, <1>5

LEMMA SumLeq ==
    ASSUME NEW S, IsFiniteSet(S), NEW f, NEW g, \A x \in S : f[x] \in Nat /\ g[x] \in Nat /\ f[x] <= g[x]
    PROVE  SumFunctionOnSet(f, S) <= SumFunctionOnSet(g, S)
  <1> DEFINE d == [x \in S |-> g[x] - f[x]]
  <1>1. \A x \in S : d[x] \in Nat /\ g[x] = f[x] + d[x]
    OBVIOUS
  <1>2. SumFunctionOnSet(d, S) \in Nat /\ SumFunctionOnSet(f, S) \in Nat
    BY <1>1, SumNat
  <1>3. SumFunctionOnSet(g, S) = SumFunctionOnSet(f, S) + SumFunctionOnSet(d, S)
    <2> HIDE DEF d
    <2>1. \A x \in S : f[x] \in Int /\ d[x] \in Int /\ g[x] = f[x] + d[x]
      BY <1>1
    <2> QED BY <2>1, SumPlus
  <1> HIDE DEF d
  <1> QED BY <1>2, <1>3

(* Elements that add nothing.                                              *)
LEMMA SumZero ==
    ASSUME NEW S, IsFiniteSet(S), NEW f, \A x \in S : f[x] = 0
    PROVE  SumFunctionOnSet(f, S) = 0
  <1>1. SumFunctionOnSet(f, S) = SumFunctionOnSet(f, S) + SumFunctionOnSet(f, S)
    <2>1. \A x \in S : f[x] \in Int /\ f[x] = f[x] + f[x]
      OBVIOUS
    <2> QED BY <2>1, SumPlus
  <1>2. SumFunctionOnSet(f, S) \in Int
    BY SumType
  <1> QED BY SMTT(60), <1>1, <1>2

LEMMA SumSplit ==
    ASSUME NEW S, IsFiniteSet(S), NEW T \in SUBSET S, NEW f, \A x \in S : f[x] \in Int
    PROVE  SumFunctionOnSet(f, S) = SumFunctionOnSet(f, T) + SumFunctionOnSet(f, S \ T)
  <1> DEFINE W == {R \in SUBSET T :
        SumFunctionOnSet(f, R \cup (S \ T)) # SumFunctionOnSet(f, R) + SumFunctionOnSet(f, S \ T)}
  <1>1. T \cup (S \ T) = S
    OBVIOUS
  <1> SUFFICES ASSUME W # {} PROVE FALSE
    BY <1>1
  <1>2. IsFiniteSet(T) /\ IsFiniteSet(S \ T)
    BY FS_Subset
  <1>3. PICK m \in W : \A s \in W : s \subseteq m => s = m
    <2>1. W \in SUBSET SUBSET T
      OBVIOUS
    <2> HIDE DEF W
    <2> QED BY <1>2, <2>1, MinimalSubset
  <1>4. SumFunctionOnSet(f, S \ T) \in Int
    BY <1>2, SumType
  <1>5. m # {}
    <2> SUFFICES ASSUME m = {} PROVE FALSE
      OBVIOUS
    <2>1. m \cup (S \ T) = S \ T /\ SumFunctionOnSet(f, m) = 0
      BY SumEmpty
    <2>2. SumFunctionOnSet(f, m \cup (S \ T)) # SumFunctionOnSet(f, m) + SumFunctionOnSet(f, S \ T)
      BY <1>3
    <2> HIDE DEF W
    <2> QED BY <1>4, <2>1, <2>2
  <1> DEFINE c == Some(m)
             r == m \ {c}
  <1>6. c \in m /\ c \in S /\ c \notin S \ T /\ r \in SUBSET T /\ r # m
    BY <1>3, <1>5, RestIsLess
  <1>7. SumFunctionOnSet(f, r \cup (S \ T)) = SumFunctionOnSet(f, r) + SumFunctionOnSet(f, S \ T)
    BY <1>3, <1>6
  <1>8. IsFiniteSet(m) /\ IsFiniteSet(r) /\ IsFiniteSet(m \cup (S \ T))
    BY <1>3, <1>6, FS_Subset
  <1>9. SumFunctionOnSet(f, m) = f[c] + SumFunctionOnSet(f, r)
    BY <1>3, <1>6, <1>8, SumWithout
  <1>10. SumFunctionOnSet(f, m \cup (S \ T)) = f[c] + SumFunctionOnSet(f, r \cup (S \ T))
    <2>1. (m \cup (S \ T)) \ {c} = r \cup (S \ T)
      BY <1>6
    <2>2. \A x \in m \cup (S \ T) : f[x] \in Int
      BY <1>3
    <2>3. c \in m \cup (S \ T)
      BY <1>6
    <2> HIDE DEF c, r, W
    <2> QED BY <1>8, <2>1, <2>2, <2>3, SumWithout
  <1>11. SumFunctionOnSet(f, r) \in Int /\ f[c] \in Int
    BY <1>3, <1>6, <1>8, SumType
  <1>12. SumFunctionOnSet(f, m \cup (S \ T)) # SumFunctionOnSet(f, m) + SumFunctionOnSet(f, S \ T)
    BY <1>3
  <1> HIDE DEF c, r, W
  <1> QED BY <1>4, <1>7, <1>9, <1>10, <1>11, <1>12

LEMMA SumOfPart ==
    ASSUME NEW S, IsFiniteSet(S), NEW T \in SUBSET S, NEW f, \A x \in S : f[x] \in Nat
    PROVE  SumFunctionOnSet(f, T) <= SumFunctionOnSet(f, S)
  <1>1. SumFunctionOnSet(f, S) = SumFunctionOnSet(f, T) + SumFunctionOnSet(f, S \ T)
    BY SumSplit
  <1>2. SumFunctionOnSet(f, T) \in Nat /\ SumFunctionOnSet(f, S \ T) \in Nat
    BY SumNat, FS_Subset
  <1> QED BY <1>1, <1>2

LEMMA SumSupport ==
    ASSUME NEW S, IsFiniteSet(S), NEW T \in SUBSET S, NEW f, \A x \in S : f[x] \in Int,
           \A x \in S \ T : f[x] = 0
    PROVE  SumFunctionOnSet(f, S) = SumFunctionOnSet(f, T)
  <1>1. SumFunctionOnSet(f, S) = SumFunctionOnSet(f, T) + SumFunctionOnSet(f, S \ T)
    BY SumSplit
  <1>2. SumFunctionOnSet(f, T) \in Int /\ SumFunctionOnSet(f, S \ T) = 0
    BY SumZero, SumType, FS_Subset
  <1> QED BY <1>1, <1>2

(* What a part of a set adds up to, as a sum over the whole set.           *)
LEMMA SumWhere ==
    ASSUME NEW S, IsFiniteSet(S), NEW f, \A x \in S : f[x] \in Int, NEW T \in SUBSET S
    PROVE  SumFunctionOnSet(f, T) = SumFunctionOnSet([x \in S |-> IF x \in T THEN f[x] ELSE 0], S)
  <1> DEFINE g == [x \in S |-> IF x \in T THEN f[x] ELSE 0]
  <1>1. (\A x \in S : g[x] \in Int) /\ (\A x \in S \ T : g[x] = 0) /\ (\A x \in T : f[x] = g[x])
    OBVIOUS
  <1>2. IsFiniteSet(T)
    BY FS_Subset
  <1> HIDE DEF g
  <1>3. SumFunctionOnSet(f, T) = SumFunctionOnSet(g, T)
    BY <1>1, <1>2, SumSame
  <1>4. SumFunctionOnSet(g, S) = SumFunctionOnSet(g, T)
    BY <1>1, SumSupport
  <1> QED BY <1>3, <1>4 DEF g

(* One row changes, and with it perhaps whether it counts.                 *)
LEMMA SumTurn ==
    ASSUME NEW S, IsFiniteSet(S), NEW x \in S, NEW f, NEW g, NEW T \in SUBSET S, NEW U \in SUBSET S,
           \A y \in S : f[y] \in Int /\ g[y] \in Int,
           \A y \in S \ {x} : g[y] = f[y] /\ (y \in U <=> y \in T)
    PROVE  SumFunctionOnSet(g, U) = SumFunctionOnSet(f, T)
              - (IF x \in T THEN f[x] ELSE 0) + (IF x \in U THEN g[x] ELSE 0)
  <1> DEFINE a == [y \in S |-> IF y \in T THEN f[y] ELSE 0]
             b == [y \in S |-> IF y \in U THEN g[y] ELSE 0]
  <1>1. (\A y \in S : a[y] \in Int) /\ (\A y \in S \ {x} : b[y] = a[y]) /\ b[x] \in Int
    OBVIOUS
  <1>4. a[x] = (IF x \in T THEN f[x] ELSE 0) /\ b[x] = (IF x \in U THEN g[x] ELSE 0)
    OBVIOUS
  <1>2. SumFunctionOnSet(f, T) = SumFunctionOnSet(a, S) /\ SumFunctionOnSet(g, U) = SumFunctionOnSet(b, S)
    BY SumWhere
  <1> HIDE DEF a, b
  <1>3. SumFunctionOnSet(b, S) = SumFunctionOnSet(a, S) - a[x] + b[x]
    BY ONLY <1>1, SumChange, IsFiniteSet(S), x \in S
  <1> QED BY <1>2, <1>3, <1>4

(* More rows count, and for more.                                          *)
LEMMA SumGrows ==
    ASSUME NEW S, IsFiniteSet(S), NEW f, NEW g, NEW T \in SUBSET S, NEW U \in SUBSET S, T \subseteq U,
           \A x \in T : f[x] \in Nat /\ f[x] <= g[x], \A x \in U : g[x] \in Nat
    PROVE  SumFunctionOnSet(f, T) <= SumFunctionOnSet(g, U)
  <1>1. IsFiniteSet(T) /\ IsFiniteSet(U)
    BY FS_Subset
  <1>2. SumFunctionOnSet(f, T) <= SumFunctionOnSet(g, T)
    BY <1>1, SumLeq
  <1>3. SumFunctionOnSet(g, T) <= SumFunctionOnSet(g, U)
    BY <1>1, SumOfPart
  <1>4. SumFunctionOnSet(f, T) \in Nat /\ SumFunctionOnSet(g, T) \in Nat /\ SumFunctionOnSet(g, U) \in Nat
    BY <1>1, SumNat
  <1> QED BY <1>2, <1>3, <1>4

LEMMA MinOfTwo == ASSUME NEW a \in Int, NEW b \in Int PROVE Min({a, b}) = IF a <= b THEN a ELSE b
  BY DEF Min

LEMMA MaxOfTwo == ASSUME NEW a \in Int, NEW b \in Int PROVE Max({a, b}) = IF a >= b THEN a ELSE b
  BY DEF Max

(***************************************************************************)
(* Types.                                                                  *)
(***************************************************************************)
(* No plan is longer than the longest schedule, and no view shows a plan   *)
(* that is not there.                                                      *)
Short == \A n \in DOMAIN plans : Len(plans[n]) <= MaxInstallments
Known == \A s \in Session : view[s].plans <= Len(plans)

TypeInv == TypeOK /\ Short /\ Known

LEMMA SequenceBy ==
    ASSUME NEW S, NEW n \in Nat, NEW f, f = [i \in 1..n |-> f[i]], \A i \in 1..n : f[i] \in S
    PROVE  f \in Seq(S) /\ Len(f) = n /\ DOMAIN f = 1..n
  <1>1. f \in [1..n -> S]
    OBVIOUS
  <1> QED BY <1>1

LEMMA PlansAre ==
    ASSUME TypeInv
    PROVE  /\ Len(plans) \in 1..MaxPlans /\ DOMAIN plans = 1..Len(plans)
           /\ \A n \in DOMAIN plans :
                /\ plans[n] \in Seq(Installment)
                /\ Len(plans[n]) \in Nat /\ Len(plans[n]) <= MaxInstallments
                /\ DOMAIN plans[n] = 1..Len(plans[n])
                /\ \A i \in DOMAIN plans[n] : /\ plans[n][i] \in Installment
                                              /\ plans[n][i].amount \in Nat
                                              /\ plans[n][i].paid \in Nat
                                              /\ <<n, i>> \in Slot
  <1>1. plans \in Seq(Seq(Installment)) /\ Len(plans) \in 1..MaxPlans /\ DOMAIN plans = 1..Len(plans)
    BY DEF TypeInv, TypeOK
  <1>2. ASSUME NEW n \in DOMAIN plans
        PROVE  /\ plans[n] \in Seq(Installment) /\ Len(plans[n]) \in Nat
               /\ Len(plans[n]) <= MaxInstallments /\ DOMAIN plans[n] = 1..Len(plans[n])
    BY <1>1 DEF TypeInv, Short
  <1>3. ASSUME NEW n \in DOMAIN plans, NEW i \in DOMAIN plans[n]
        PROVE  plans[n][i] \in Installment /\ <<n, i>> \in Slot
    <2>1. plans[n][i] \in Installment
      BY <1>2
    <2>2. n \in 1..MaxPlans /\ i \in 1..MaxInstallments
      BY <1>1, <1>2, BoundsAssumption
    <2> QED BY <2>1, <2>2 DEF Slot
  <1>4. \A e \in Installment : e.amount \in Nat /\ e.paid \in Nat
    BY DEF Installment
  <1> QED BY <1>1, <1>2, <1>3, <1>4

LEMMA ViewIs ==
    ASSUME TypeInv, NEW v \in Views
    PROVE  /\ v \in ReadView
           /\ v.plans \in DOMAIN plans
           /\ v.pay \in [Payment -> PaymentRow] /\ v.refund \in [Refund -> RefundRow]
  <1>1. Len(plans) \in 1..MaxPlans /\ DOMAIN plans = 1..Len(plans)
    BY PlansAre
  <1>2. CASE v = Snapshot
    BY <1>1, <1>2 DEF TypeInv, TypeOK, Snapshot, ReadView
  <1>3. CASE \E s \in Session : v = view[s]
    BY <1>1, <1>3 DEF TypeInv, TypeOK, Known, ReadView
  <1> QED BY <1>2, <1>3 DEF Views

LEMMA NewPlanType ==
    ASSUME NEW schedule \in Schedules
    PROVE  /\ NewPlan(schedule) \in Seq(Installment)
           /\ Len(NewPlan(schedule)) = Len(schedule) /\ Len(schedule) <= MaxInstallments
           /\ DOMAIN NewPlan(schedule) = 1..Len(schedule)
           /\ \A i \in 1..Len(schedule) : /\ NewPlan(schedule)[i].paid = 0
                                          /\ NewPlan(schedule)[i].amount \in Nat
  <1>1. schedule \in Seq(Nat) /\ Len(schedule) \in 1..MaxInstallments
    BY SchedulesAssumption
  <1>2. DOMAIN schedule = 1..Len(schedule) /\ Len(schedule) \in Nat /\ Len(schedule) <= MaxInstallments
    BY <1>1, BoundsAssumption
  <1>3. \A i \in 1..Len(schedule) : schedule[i] \in Nat
    BY <1>1, <1>2
  <1> DEFINE f == NewPlan(schedule)
  <1>4. f = [i \in 1..Len(schedule) |-> f[i]] /\ (\A i \in 1..Len(schedule) : f[i] \in Installment)
    BY <1>2, <1>3 DEF NewPlan, Installment
  <1>5. \A i \in 1..Len(schedule) : f[i].paid = 0 /\ f[i].amount \in Nat
    BY <1>2, <1>3 DEF NewPlan
  <1> HIDE DEF f
  <1>6. f \in Seq(Installment) /\ Len(f) = Len(schedule) /\ DOMAIN f = 1..Len(schedule)
    BY <1>2, <1>4, SequenceBy
  <1> QED BY <1>2, <1>5, <1>6 DEF f

LEMMA EntryType ==
    ASSUME NEW key \in EntryKey, NEW amount \in Nat
    PROVE  Debit(key, amount) \in Entry /\ CreditEntry(key, amount) \in Entry
  BY DEF Debit, CreditEntry, Entry

LEMMA EntryKeys ==
    /\ <<"agreed", None>> \in EntryKey
    /\ \A p \in Payment : <<"payment", p>> \in EntryKey
    /\ \A r \in Refund : <<"refund", r>> \in EntryKey
    /\ \A c \in Charge : <<"applied", c>> \in EntryKey /\ <<"waived", c>> \in EntryKey
    /\ \A c \in Cancellation : <<"reversal", c>> \in EntryKey /\ <<"deduction", c>> \in EntryKey
  BY DEF EntryKey

LEMMA TypeInit == Init => TypeInv
  <1> SUFFICES ASSUME Init PROVE TypeInv
    OBVIOUS
  <1>1. PICK schedule \in Schedules : plans = <<NewPlan(schedule)>>
    BY DEF Init
  <1>2. NewPlan(schedule) \in Seq(Installment) /\ Len(NewPlan(schedule)) <= MaxInstallments
    BY NewPlanType
  <1>3. /\ plans \in Seq(Seq(Installment)) /\ Len(plans) = 1 /\ 1 \in 1..MaxPlans /\ Short
    BY <1>1, <1>2, BoundsAssumption DEF Short
  <1>4. pay \in [Payment -> PaymentRow] /\ alloc \in [Payment -> [Slot -> Nat]]
    BY DEF Init, PaymentRow, PaymentStatus
  <1>5. /\ refund \in [Refund -> RefundRow] /\ charge \in [Charge -> ChargeRow]
        /\ cancel \in [Cancellation -> CancellationRow]
    BY DEF Init, RefundRow, ChargeRow, CancellationRow, PaymentStatus
  <1>6. ledger \subseteq Entry
    <2>1. Price \in Nat
      BY PriceAssumption
    <2>2. ledger = {Debit(<<"agreed", None>>, Price)}
      BY DEF Init
    <2> QED BY <2>1, <2>2, EntryKeys, EntryType
  <1>7. view \in [Session -> ReadView] /\ Known
    <2>1. Snapshot \in ReadView /\ Snapshot.plans = Len(plans)
      BY <1>3, <1>4, <1>5 DEF Snapshot, ReadView
    <2>2. view = [s \in Session |-> Snapshot]
      BY DEF Init
    <2> QED BY <1>3, <2>1, <2>2 DEF Known
  <1>8. status \in BookingStatus
    BY DEF Init, BookingStatus
  <1> QED BY <1>3, <1>4, <1>5, <1>6, <1>7, <1>8 DEF TypeInv, TypeOK

LEMMA TotalTypes ==
    ASSUME TypeInv, NEW v \in Views, NEW statuses, NEW sources
    PROVE  /\ PaymentTotal(v, statuses) \in Nat
           /\ RefundTotal(v, sources, statuses) \in Nat
           /\ PaidAmount(v) \in Nat
  <1>1. v.pay \in [Payment -> PaymentRow] /\ v.refund \in [Refund -> RefundRow]
    BY ViewIs
  <1>2. ASSUME NEW s PROVE PaymentTotal(v, s) \in Nat
    <2> DEFINE f == [p \in Payment |-> v.pay[p].amount]
               S == {p \in Payment : v.pay[p].status \in s}
    <2>1. \A x \in S : f[x] \in Nat
      BY <1>1 DEF PaymentRow
    <2>2. IsFiniteSet(S)
      BY RowsFinite, FS_Subset
    <2> HIDE DEF f, S
    <2>3. SumFunctionOnSet(f, S) \in Nat
      BY <2>1, <2>2, SumNat
    <2> QED BY <2>3 DEF f, S, PaymentTotal
  <1>3. ASSUME NEW src, NEW s PROVE RefundTotal(v, src, s) \in Nat
    <2> DEFINE f == [r \in Refund |-> v.refund[r].amount]
               S == {r \in Refund : v.refund[r].source \in src /\ v.refund[r].status \in s}
    <2>1. \A x \in S : f[x] \in Nat
      BY <1>1 DEF RefundRow
    <2>2. IsFiniteSet(S)
      BY RowsFinite, FS_Subset
    <2> HIDE DEF f, S
    <2>3. SumFunctionOnSet(f, S) \in Nat
      BY <2>1, <2>2, SumNat
    <2> QED BY <2>3 DEF f, S, RefundTotal
  <1>4. PaidAmount(v) \in Nat
    BY <1>2, <1>3 DEF PaidAmount
  <1> QED BY <1>2, <1>3, <1>4

(* What a spread is, whatever it is spread over.                           *)
LEMMA SpreadIs ==
    ASSUME NEW open, \A s \in DOMAIN open : open[s] \in Int, NEW amount \in Nat,
           NEW share \in Spreads(open, amount)
    PROVE  /\ DOMAIN share \subseteq DOMAIN open
           /\ \A s \in DOMAIN share : share[s] \in Nat /\ share[s] <= open[s] /\ open[s] > 0
           /\ \A s : At(share, s) \in Nat
           /\ \A s : s \notin DOMAIN open => At(share, s) = 0
           /\ \A s \in DOMAIN open : open[s] >= 0 => At(share, s) <= open[s]
           /\ SumFunction(share) = Min({amount, SumFunction(open)})
  <1> DEFINE takers == {s \in DOMAIN open : open[s] > 0}
  <1>1. /\ share \in [takers -> 0..amount]
        /\ \A s \in takers : share[s] <= open[s]
        /\ SumFunction(share) = Min({amount, SumFunction(open)})
    BY DEF Spreads
  <1>2. \A s \in DOMAIN share : share[s] \in Nat /\ share[s] <= open[s] /\ open[s] > 0
    BY <1>1
  <1>3. DOMAIN share \subseteq DOMAIN open
    BY <1>1
  <1>4. \A s : At(share, s) \in Nat
    BY <1>2 DEF At
  <1>5. \A s : s \notin DOMAIN open => At(share, s) = 0
    BY <1>3 DEF At
  <1>6. \A s \in DOMAIN open : open[s] >= 0 => At(share, s) <= open[s]
    BY <1>2 DEF At
  <1> QED BY <1>1, <1>2, <1>3, <1>4, <1>5, <1>6

(* The part of a spread that falls in a set adds up there.                 *)
LEMMA ShareSum ==
    ASSUME NEW share, NEW S, IsFiniteSet(S), DOMAIN share \subseteq S,
           \A s \in DOMAIN share : share[s] \in Nat
    PROVE  SumFunctionOnSet([s \in S |-> At(share, s)], S) = SumFunction(share)
  <1> DEFINE f == [s \in S |-> At(share, s)]
             D == DOMAIN share
  <1>1. /\ \A s \in S : f[s] \in Int
        /\ \A s \in S \ D : f[s] = 0
        /\ \A s \in D : f[s] = share[s]
    BY DEF At
  <1>2. D \in SUBSET S /\ IsFiniteSet(D)
    BY FS_Subset
  <1> HIDE DEF f, D
  <1>3. SumFunctionOnSet(f, S) = SumFunctionOnSet(f, D)
    BY <1>1, <1>2, SumSupport
  <1>4. SumFunctionOnSet(f, D) = SumFunctionOnSet(share, D)
    BY <1>1, <1>2, SumSame
  <1> QED BY <1>3, <1>4 DEF f, D, SumFunction

LEMMA OpenIs ==
    ASSUME TypeInv, NEW n \in DOMAIN plans
    PROVE  /\ DOMAIN Open(n) = {n} \X DOMAIN plans[n]
           /\ DOMAIN Open(n) \subseteq Slot
           /\ \A i \in DOMAIN plans[n] :
                /\ <<n, i>> \in DOMAIN Open(n)
                /\ Open(n)[<<n, i>>] = plans[n][i].amount - plans[n][i].paid
           /\ \A s \in DOMAIN Open(n) : Open(n)[s] \in Int
  <1>1. \A i \in DOMAIN plans[n] : /\ <<n, i>> \in Slot
                                   /\ plans[n][i].amount \in Nat /\ plans[n][i].paid \in Nat
    BY PlansAre
  <1>2. DOMAIN Open(n) = {n} \X DOMAIN plans[n]
    BY DEF Open
  <1>3. \A i \in DOMAIN plans[n] : /\ <<n, i>> \in DOMAIN Open(n)
                                   /\ Open(n)[<<n, i>>] = plans[n][i].amount - plans[n][i].paid
    BY DEF Open
  <1>4. \A s \in DOMAIN Open(n) : \E i \in DOMAIN plans[n] : s = <<n, i>>
    BY <1>2
  <1> QED BY <1>1, <1>2, <1>3, <1>4

LEMMA SlotFinite == IsFiniteSet(Slot)
  <1>1. IsFiniteSet(1..MaxPlans) /\ IsFiniteSet(1..MaxInstallments)
    BY BoundsAssumption, FS_Interval
  <1> QED BY <1>1, FS_Product DEF Slot

(* Plans whose installments count other amounts as paid.                   *)
LEMMA PlansBy ==
    ASSUME TypeInv, plans' = [n \in DOMAIN plans |-> plans'[n]],
           \A n \in DOMAIN plans :
              /\ plans'[n] = [i \in DOMAIN plans[n] |-> plans'[n][i]]
              /\ \A i \in DOMAIN plans[n] : plans'[n][i] \in Installment
    PROVE  /\ plans' \in Seq(Seq(Installment))
           /\ Len(plans') = Len(plans) /\ DOMAIN plans' = DOMAIN plans
           /\ \A n \in DOMAIN plans : /\ Len(plans'[n]) = Len(plans[n])
                                      /\ DOMAIN plans'[n] = DOMAIN plans[n]
  <1>1. Len(plans) \in Nat /\ DOMAIN plans = 1..Len(plans)
    BY PlansAre
  <1>2. ASSUME NEW n \in DOMAIN plans
        PROVE  /\ plans'[n] \in Seq(Installment)
               /\ Len(plans'[n]) = Len(plans[n]) /\ DOMAIN plans'[n] = DOMAIN plans[n]
    <2>1. Len(plans[n]) \in Nat /\ DOMAIN plans[n] = 1..Len(plans[n])
      BY PlansAre
    <2> DEFINE f == plans'[n]
    <2>2. f = [i \in 1..Len(plans[n]) |-> f[i]] /\ \A i \in 1..Len(plans[n]) : f[i] \in Installment
      BY <2>1
    <2> HIDE DEF f
    <2>3. f \in Seq(Installment) /\ Len(f) = Len(plans[n]) /\ DOMAIN f = 1..Len(plans[n])
      BY <2>1, <2>2, SequenceBy
    <2> QED BY <2>1, <2>3 DEF f
  <1> DEFINE g == plans'
  <1>3. g = [n \in 1..Len(plans) |-> g[n]] /\ \A n \in 1..Len(plans) : g[n] \in Seq(Installment)
    BY <1>1, <1>2
  <1> HIDE DEF g
  <1>4. g \in Seq(Seq(Installment)) /\ Len(g) = Len(plans) /\ DOMAIN g = 1..Len(plans)
    BY <1>1, <1>3, SequenceBy
  <1> QED BY <1>1, <1>2, <1>4 DEF g

(* What allocating a payment does to its allocations and to the plans.     *)
Fills(share, v, p) ==
    /\ DOMAIN share \subseteq Slot
    /\ \A s \in DOMAIN share : share[s] \in Nat
    /\ \A s : At(share, s) \in Nat
    /\ \A s : s \notin DOMAIN Open(v.plans) => At(share, s) = 0
    /\ \A s \in DOMAIN Open(v.plans) :
          Open(v.plans)[s] >= 0 => At(share, s) <= Open(v.plans)[s]
    /\ SumFunction(share) = Min({pay[p].amount, SumFunction(Open(v.plans))})
    /\ alloc' = [alloc EXCEPT ![p] = [s \in Slot |-> alloc[p][s] + At(share, s)]]
    /\ plans' = [n \in DOMAIN plans |-> plans'[n]]
    /\ \A n \in DOMAIN plans :
          /\ plans'[n] = [i \in DOMAIN plans[n] |-> plans'[n][i]]
          /\ \A i \in DOMAIN plans[n] :
                plans'[n][i] = [amount |-> plans[n][i].amount,
                                paid |-> plans[n][i].paid + At(share, <<n, i>>)]

LEMMA Allocating ==
    ASSUME TypeInv, NEW v \in Views, NEW p \in Payment, NEW manual \in BOOLEAN, NEW credit,
           AllocatePayment(v, p, manual, credit)
    PROVE  \E share : Fills(share, v, p)
  <1> DEFINE n == v.plans
  <1>1. n \in DOMAIN plans
    BY ViewIs
  <1>2. /\ DOMAIN Open(n) = {n} \X DOMAIN plans[n] /\ DOMAIN Open(n) \subseteq Slot
        /\ \A s \in DOMAIN Open(n) : Open(n)[s] \in Int
    BY <1>1, OpenIs
  <1>3. pay[p].amount \in Nat
    BY DEF TypeInv, TypeOK, PaymentRow
  <1>4. PICK share \in Spreads(Open(n), pay[p].amount) :
          /\ alloc' = [alloc EXCEPT ![p] = [s \in Slot |-> @[s] + At(share, s)]]
          /\ plans' = [plans EXCEPT ![n] = [i \in DOMAIN plans[n] |->
                          [plans[n][i] EXCEPT !.paid = @ + At(share, <<n, i>>)]]]
    BY DEF AllocatePayment
  <1>5. /\ DOMAIN share \subseteq DOMAIN Open(n)
        /\ \A s \in DOMAIN share : share[s] \in Nat
        /\ \A s : At(share, s) \in Nat
        /\ \A s : s \notin DOMAIN Open(n) => At(share, s) = 0
        /\ \A s \in DOMAIN Open(n) : Open(n)[s] >= 0 => At(share, s) <= Open(n)[s]
        /\ SumFunction(share) = Min({pay[p].amount, SumFunction(Open(n))})
    BY <1>2, <1>3, SpreadIs
  <1>6. alloc' = [alloc EXCEPT ![p] = [s \in Slot |-> alloc[p][s] + At(share, s)]]
    BY <1>4
  <1>7. DOMAIN plans' = DOMAIN plans /\ plans' = [m \in DOMAIN plans |-> plans'[m]]
    BY <1>4
  <1>9. /\ plans'[n] = [i \in DOMAIN plans[n] |-> plans'[n][i]]
        /\ \A i \in DOMAIN plans[n] :
              plans'[n][i] = [plans[n][i] EXCEPT !.paid = plans[n][i].paid + At(share, <<n, i>>)]
    BY <1>1, <1>4
  <1>8. ASSUME NEW m \in DOMAIN plans
        PROVE  /\ plans'[m] = [i \in DOMAIN plans[m] |-> plans'[m][i]]
               /\ \A i \in DOMAIN plans[m] :
                     plans'[m][i] = [amount |-> plans[m][i].amount,
                                     paid |-> plans[m][i].paid + At(share, <<m, i>>)]
    <2>1. \A i \in DOMAIN plans[m] : /\ plans[m][i] \in Installment /\ plans[m][i].paid \in Nat
                                     /\ plans[m][i] = [amount |-> plans[m][i].amount,
                                                       paid |-> plans[m][i].paid]
      BY PlansAre DEF Installment
    <2>2. CASE m = n
      BY ZenonT(60), <1>9, <2>1, <2>2
    <2>3. CASE m # n
      <3>1. plans'[m] = plans[m]
        BY <1>4, <2>3
      <3>2. \A i \in DOMAIN plans[m] : At(share, <<m, i>>) = 0
        BY <1>2, <1>5, <2>3
      <3>3. plans[m] = [i \in DOMAIN plans[m] |-> plans[m][i]]
        BY PlansAre
      <3>4. ASSUME NEW i \in DOMAIN plans[m]
            PROVE  plans'[m][i] = [amount |-> plans[m][i].amount,
                                   paid |-> plans[m][i].paid + At(share, <<m, i>>)]
        <4>1. plans[m][i].paid + At(share, <<m, i>>) = plans[m][i].paid
          BY <2>1, <3>2
        <4> QED BY <2>1, <3>1, <4>1
      <3> QED BY <3>1, <3>3, <3>4
    <2> QED BY <2>2, <2>3
  <1>10. Fills(share, v, p)
    BY <1>2, <1>5, <1>6, <1>7, <1>8 DEF Fills
  <1> QED BY <1>10

LEMMA RepaidPart == ASSUME NEW r \in Refund PROVE Repaid(r) \in SUBSET Payment /\ IsFiniteSet(Repaid(r))
  <1>1. Repaid(r) \in SUBSET Payment
    BY DEF Repaid
  <1> QED BY <1>1, RowsFinite, FS_Subset

(* What giving money back does to the allocations and to the plans.        *)
Returned(back, r, s) == SumFunction([p \in Repaid(r) |-> At(back, <<p, s>>)])

Backs(back, r) ==
    /\ DOMAIN back \subseteq Repaid(r) \X Slot
    /\ \A x \in DOMAIN back : back[x] \in Nat
    /\ \A x : At(back, x) \in Nat
    /\ \A p \in Payment, s \in Slot : At(back, <<p, s>>) <= alloc[p][s]
    /\ \A p, s : p \notin Repaid(r) => At(back, <<p, s>>) = 0
    /\ SumFunction(back) = Min({refund[r].amount,
          SumFunction([x \in Repaid(r) \X Slot |-> alloc[x[1]][x[2]]])})
    /\ alloc' = [p \in Payment |-> [s \in Slot |-> alloc[p][s] - At(back, <<p, s>>)]]
    /\ plans' = [n \in DOMAIN plans |-> plans'[n]]
    /\ \A n \in DOMAIN plans :
          /\ plans'[n] = [i \in DOMAIN plans[n] |-> plans'[n][i]]
          /\ \A i \in DOMAIN plans[n] :
                plans'[n][i] = [amount |-> plans[n][i].amount,
                   paid |-> Max({0, plans[n][i].paid - Returned(back, r, <<n, i>>)})]

LEMMA Processing ==
    ASSUME TypeInv, NEW v \in Views, NEW r \in Refund, ProcessRefund(v, r)
    PROVE  \E back : Backs(back, r)
  <1> DEFINE active == [x \in Repaid(r) \X Slot |-> alloc[x[1]][x[2]]]
  <1>1. refund[r].amount \in Nat /\ alloc \in [Payment -> [Slot -> Nat]]
    BY DEF TypeInv, TypeOK, RefundRow
  <1>2. /\ DOMAIN active = Repaid(r) \X Slot
        /\ \A p \in Repaid(r), s \in Slot : active[<<p, s>>] = alloc[p][s] /\ alloc[p][s] \in Nat
        /\ \A x \in DOMAIN active : active[x] \in Int
    BY <1>1, RepaidPart
  <1>3. PICK back \in Spreads(active, refund[r].amount) :
          /\ alloc' = [p \in Payment |-> [s \in Slot |-> alloc[p][s] - At(back, <<p, s>>)]]
          /\ plans' = [n \in DOMAIN plans |-> [i \in DOMAIN plans[n] |->
                [plans[n][i] EXCEPT !.paid = Max({0, @ - Returned(back, r, <<n, i>>)})]]]
    BY DEF ProcessRefund, Returned
  <1> HIDE DEF active
  <1>4. /\ DOMAIN back \subseteq DOMAIN active
        /\ \A x \in DOMAIN back : back[x] \in Nat
        /\ \A x : At(back, x) \in Nat
        /\ \A x : x \notin DOMAIN active => At(back, x) = 0
        /\ \A x \in DOMAIN active : active[x] >= 0 => At(back, x) <= active[x]
        /\ SumFunction(back) = Min({refund[r].amount, SumFunction(active)})
    BY <1>1, <1>2, SpreadIs
  <1>5. \A p, s : p \notin Repaid(r) => At(back, <<p, s>>) = 0
    BY <1>2, <1>4
  <1>6. ASSUME NEW p \in Payment, NEW s \in Slot PROVE At(back, <<p, s>>) <= alloc[p][s]
    <2>1. CASE p \in Repaid(r)
      BY <1>2, <1>4, <2>1
    <2>2. CASE p \notin Repaid(r)
      BY <1>1, <1>5, <2>2
    <2> QED BY <2>1, <2>2
  <1>7. plans' = [n \in DOMAIN plans |-> plans'[n]]
    BY <1>3
  <1>8. ASSUME NEW n \in DOMAIN plans
        PROVE  /\ plans'[n] = [i \in DOMAIN plans[n] |-> plans'[n][i]]
               /\ \A i \in DOMAIN plans[n] :
                     plans'[n][i] = [amount |-> plans[n][i].amount,
                        paid |-> Max({0, plans[n][i].paid - Returned(back, r, <<n, i>>)})]
    <2>1. \A i \in DOMAIN plans[n] : plans[n][i] = [amount |-> plans[n][i].amount,
                                                    paid |-> plans[n][i].paid]
      BY PlansAre DEF Installment
    <2>2. plans'[n] = [i \in DOMAIN plans[n] |->
                [plans[n][i] EXCEPT !.paid =
                    Max({0, plans[n][i].paid - Returned(back, r, <<n, i>>)})]]
      BY <1>3
    <2> QED BY <2>1, <2>2
  <1>9. Backs(back, r)
    BY <1>2, <1>3, <1>4, <1>5, <1>6, <1>7, <1>8 DEF active, Backs
  <1> QED BY <1>9

-----------------------------------------------------------------------------
(* Every step keeps the types.                                             *)
LEMMA AllocateTypes ==
    ASSUME TypeInv, NEW v \in Views, NEW p \in Payment, NEW manual \in BOOLEAN, NEW credit,
           AllocatePayment(v, p, manual, credit)
    PROVE  TypeInv'
  <1>1. PICK share : Fills(share, v, p)
    BY Allocating
  <1>2. ASSUME NEW n \in DOMAIN plans, NEW i \in DOMAIN plans[n] PROVE plans'[n][i] \in Installment
    <2>1. plans[n][i].paid \in Nat /\ plans[n][i].amount \in Nat
      BY PlansAre
    <2>2. At(share, <<n, i>>) \in Nat
      BY <1>1 DEF Fills
    <2>3. plans'[n][i] = [amount |-> plans[n][i].amount,
                          paid |-> plans[n][i].paid + At(share, <<n, i>>)]
      BY <1>1 DEF Fills
    <2> QED BY <2>1, <2>2, <2>3 DEF Installment
  <1>3. /\ plans' \in Seq(Seq(Installment)) /\ Len(plans') = Len(plans)
        /\ DOMAIN plans' = DOMAIN plans /\ Short'
    BY <1>1, <1>2, PlansBy DEF TypeInv, Short, Fills
  <1>4. alloc' \in [Payment -> [Slot -> Nat]]
    BY <1>1 DEF TypeInv, TypeOK, Fills
  <1>5. pay' \in [Payment -> PaymentRow] /\ status' \in BookingStatus
    <2>1. pay' = [pay EXCEPT ![p].status = "COMPLETED", ![p].manual = manual]
      BY DEF AllocatePayment
    <2>2. pay' \in [Payment -> PaymentRow]
      BY ZenonT(60), <2>1 DEF TypeInv, TypeOK, PaymentRow, PaymentStatus
    <2>3. status' \in {status, "VERIFICATION"} /\ status \in BookingStatus
      BY DEF AllocatePayment, TypeInv, TypeOK
    <2> QED BY <2>2, <2>3 DEF BookingStatus
  <1>6. ledger' \subseteq Entry
    <2>1. pay[p].amount \in Nat
      BY DEF TypeInv, TypeOK, PaymentRow
    <2>2. CreditEntry(<<"payment", p>>, pay[p].amount) \in Entry
      BY <2>1, EntryKeys, EntryType
    <2> QED BY <2>2 DEF AllocatePayment, TypeInv, TypeOK
  <1> QED BY <1>3, <1>4, <1>5, <1>6 DEF AllocatePayment, TypeInv, TypeOK, Known

LEMMA ProcessTypes ==
    ASSUME TypeInv, NEW v \in Views, NEW r \in Refund, ProcessRefund(v, r)
    PROVE  TypeInv'
  <1>1. PICK back : Backs(back, r)
    BY Processing
  <1>2. ASSUME NEW n \in DOMAIN plans, NEW i \in DOMAIN plans[n] PROVE plans'[n][i] \in Installment
    <2> DEFINE f == [p \in Repaid(r) |-> At(back, <<p, <<n, i>>>>)]
    <2>1. IsFiniteSet(Repaid(r)) /\ \A p \in Repaid(r) : f[p] \in Nat
      BY <1>1, RepaidPart DEF Backs
    <2>2. SumFunction(f) = SumFunctionOnSet(f, Repaid(r))
      BY DEF SumFunction
    <2> HIDE DEF f
    <2>3. SumFunction(f) \in Nat
      BY <2>1, <2>2, SumNat
    <2>4. plans[n][i].paid \in Nat /\ plans[n][i].amount \in Nat
      BY PlansAre
    <2>5. Max({0, plans[n][i].paid - SumFunction(f)}) \in Nat
      BY <2>3, <2>4, MaxOfTwo
    <2>6. plans'[n][i] = [amount |-> plans[n][i].amount,
                          paid |-> Max({0, plans[n][i].paid - SumFunction(f)})]
      BY <1>1 DEF f, Backs, Returned
    <2> QED BY <2>4, <2>5, <2>6 DEF Installment
  <1>3. /\ plans' \in Seq(Seq(Installment)) /\ Len(plans') = Len(plans)
        /\ DOMAIN plans' = DOMAIN plans /\ Short'
    BY <1>1, <1>2, PlansBy DEF TypeInv, Short, Backs
  <1>4. alloc' \in [Payment -> [Slot -> Nat]]
    BY <1>1 DEF TypeInv, TypeOK, Backs
  <1>5. pay' \in [Payment -> PaymentRow] /\ refund' \in [Refund -> RefundRow]
    <2>1. pay' \in [Payment -> PaymentRow]
      BY ZenonT(60) DEF ProcessRefund, TypeInv, TypeOK, PaymentRow, PaymentStatus
    <2>2. refund' \in [Refund -> RefundRow]
      BY ZenonT(60) DEF ProcessRefund, TypeInv, TypeOK, RefundRow, PaymentStatus
    <2> QED BY <2>1, <2>2
  <1>6. ledger' \subseteq Entry
    <2>1. refund[r].amount \in Nat
      BY DEF TypeInv, TypeOK, RefundRow
    <2>2. Debit(<<"refund", r>>, refund[r].amount) \in Entry
      BY <2>1, EntryKeys, EntryType
    <2> QED BY <2>2 DEF ProcessRefund, TypeInv, TypeOK
  <1> QED BY <1>3, <1>4, <1>5, <1>6 DEF ProcessRefund, TypeInv, TypeOK, Known

LEMMA PayTypes ==
    ASSUME TypeInv, NEW p \in Payment,
           UNCHANGED <<plans, alloc, refund, charge, cancel, ledger, view>>,
           status' \in BookingStatus,
           \/ \E amount \in Amounts : pay' = Submitted(p, amount)
           \/ \E verdict \in {"MATCHED", "MISMATCHED"} :
                 pay' = [pay EXCEPT ![p].status = "PROCESSING", ![p].verdict = verdict]
           \/ pay' = [pay EXCEPT ![p].status = "FAILED"]
    PROVE  TypeInv'
  <1>2. pay' \in [Payment -> PaymentRow]
    <2>1. pay \in [Payment -> PaymentRow]
      BY DEF TypeInv, TypeOK
    <2>2. ASSUME NEW amount \in Amounts, pay' = Submitted(p, amount)
          PROVE  pay' \in [Payment -> PaymentRow]
      BY ZenonT(60), <2>1, <2>2, AmountsAssumption DEF Submitted, PaymentRow, PaymentStatus
    <2>3. ASSUME NEW verdict \in {"MATCHED", "MISMATCHED"},
                 pay' = [pay EXCEPT ![p].status = "PROCESSING", ![p].verdict = verdict]
          PROVE  pay' \in [Payment -> PaymentRow]
      BY <2>1, <2>3 DEF PaymentRow, PaymentStatus
    <2>4. CASE pay' = [pay EXCEPT ![p].status = "FAILED"]
      BY <2>1, <2>4 DEF PaymentRow, PaymentStatus
    <2> QED BY <2>2, <2>3, <2>4
  <1> QED BY <1>2 DEF TypeInv, TypeOK, Short, Known

LEMMA PlanTypes ==
    ASSUME TypeInv, NEW schedule \in Schedules, SetPaymentPlan(schedule)
    PROVE  TypeInv'
  <1>1. /\ NewPlan(schedule) \in Seq(Installment)
        /\ Len(NewPlan(schedule)) <= MaxInstallments
    BY NewPlanType
  <1>2. plans \in Seq(Seq(Installment)) /\ Len(plans) < MaxPlans /\ Len(plans) \in 1..MaxPlans
    BY DEF TypeInv, TypeOK, SetPaymentPlan
  <1>3. /\ plans' \in Seq(Seq(Installment)) /\ Len(plans') = Len(plans) + 1
        /\ \A n \in 1..Len(plans) : plans'[n] = plans[n]
        /\ plans'[Len(plans) + 1] = NewPlan(schedule)
    BY <1>1, <1>2 DEF SetPaymentPlan
  <1>4. DOMAIN plans' = 1..(Len(plans) + 1) /\ DOMAIN plans = 1..Len(plans)
    BY <1>2, <1>3
  <1>5. Short'
    BY SMTT(60), <1>1, <1>2, <1>3, <1>4 DEF TypeInv, Short
  <1>6. Len(plans') \in 1..MaxPlans
    BY <1>2, <1>3, BoundsAssumption
  <1>7. Known'
    <2>1. \A s \in Session : view[s].plans \in Nat
      BY BoundsAssumption DEF TypeInv, TypeOK, ReadView
    <2> QED BY <1>2, <1>3, <2>1 DEF TypeInv, Known, SetPaymentPlan
  <1> QED BY <1>3, <1>5, <1>6, <1>7 DEF TypeInv, TypeOK, SetPaymentPlan

LEMMA BookingTypes ==
    ASSUME TypeInv, UNCHANGED <<plans, pay, alloc, refund, charge, cancel, ledger, view>>,
           status' \in BookingStatus
    PROVE  TypeInv'
  BY DEF TypeInv, TypeOK, Short, Known

LEMMA ChargeTypes ==
    ASSUME TypeInv, ChargeStep
    PROVE  TypeInv'
  <1>1. ASSUME NEW c \in Charge, NEW s \in Slot, NEW amount \in Amounts, CreateCharge(c, s, amount)
        PROVE  TypeInv'
    <2>1. amount \in Nat
      BY AmountsAssumption
    <2>2. Debit(<<"applied", c>>, amount) \in Entry
      BY <2>1, EntryKeys, EntryType
    <2>3. charge' \in [Charge -> ChargeRow]
      BY <1>1, <2>1 DEF TypeInv, TypeOK, CreateCharge, ChargeRow
    <2> QED BY <1>1, <2>2, <2>3 DEF TypeInv, TypeOK, Short, Known, CreateCharge
  <1>2. ASSUME NEW c \in Charge, WaiveCharge(c)
        PROVE  TypeInv'
    <2>1. charge[c].amount \in Nat
      BY DEF TypeInv, TypeOK, ChargeRow
    <2>2. CreditEntry(<<"waived", c>>, charge[c].amount) \in Entry
      BY <2>1, EntryKeys, EntryType
    <2>3. charge' \in [Charge -> ChargeRow]
      BY <1>2, <2>1 DEF TypeInv, TypeOK, WaiveCharge, ChargeRow
    <2> QED BY <1>2, <2>2, <2>3 DEF TypeInv, TypeOK, Short, Known, WaiveCharge
  <1> QED BY <1>1, <1>2 DEF ChargeStep

LEMMA RefundTypes ==
    ASSUME TypeInv, NEW r \in Refund,
           \/ \E v \in Views, p \in Payment, amount \in Amounts : RequestRefund(v, r, p, amount)
           \/ DecideRefund(r)
    PROVE  TypeInv'
  <1>1. refund' \in [Refund -> RefundRow]
    <2>1. ASSUME NEW v \in Views, NEW p \in Payment, NEW amount \in Amounts,
                 RequestRefund(v, r, p, amount)
          PROVE  refund' \in [Refund -> RefundRow]
      <3>1. amount \in Nat
        BY AmountsAssumption
      <3> QED BY <2>1, <3>1 DEF RequestRefund, TypeInv, TypeOK, RefundRow, PaymentStatus
    <2>2. ASSUME DecideRefund(r) PROVE refund' \in [Refund -> RefundRow]
      BY ZenonT(60), <2>2 DEF DecideRefund, TypeInv, TypeOK, RefundRow, PaymentStatus
    <2> QED BY <2>1, <2>2
  <1>2. UNCHANGED <<status, plans, pay, alloc, charge, cancel, ledger, view>>
    BY DEF RequestRefund, DecideRefund
  <1> QED BY <1>1, <1>2 DEF TypeInv, TypeOK, Short, Known

LEMMA CancellationTypes ==
    ASSUME TypeInv, NEW c \in Cancellation,
           \/ RequestCancellation(c) \/ DecideCancellation(c)
           \/ \E v \in Views : ReviewCancellation(v, c)
    PROVE  TypeInv'
  <1>1. cancel' \in [Cancellation -> CancellationRow]
    <2>1. ASSUME RequestCancellation(c) \/ DecideCancellation(c)
          PROVE  cancel' \in [Cancellation -> CancellationRow]
      BY ZenonT(60), <2>1
         DEF RequestCancellation, DecideCancellation, TypeInv, TypeOK, CancellationRow
    <2>2. ASSUME NEW v \in Views, ReviewCancellation(v, c)
          PROVE  cancel' \in [Cancellation -> CancellationRow]
      <3>1. PaidAmount(v) \in Nat
        BY TotalTypes
      <3> QED BY <2>2, <3>1 DEF ReviewCancellation, TypeInv, TypeOK, CancellationRow
    <2> QED BY <2>1, <2>2
  <1>2. UNCHANGED <<status, plans, pay, alloc, refund, charge, ledger, view>>
    BY DEF RequestCancellation, DecideCancellation, ReviewCancellation
  <1> QED BY <1>1, <1>2 DEF TypeInv, TypeOK, Short, Known

LEMMA CompletionTypes ==
    ASSUME TypeInv, NEW v \in Views, NEW c \in Cancellation, CompleteCancellation(v, c)
    PROVE  TypeInv'
  <1>1. cancel[c].paid \in Nat /\ cancel[c].deduction \in Nat /\ Price \in Nat
    BY PriceAssumption DEF TypeInv, TypeOK, CancellationRow
  <1>2. cancel' \in [Cancellation -> CancellationRow] /\ status' \in BookingStatus
    BY DEF CompleteCancellation, TypeInv, TypeOK, CancellationRow, BookingStatus
  <1>3. refund' \in [Refund -> RefundRow]
    <2>1. CASE UNCHANGED refund
      BY <2>1 DEF TypeInv, TypeOK
    <2>2. ASSUME cancel[c].paid > cancel[c].deduction, NEW r \in Refund,
                 refund' = [refund EXCEPT ![r] =
                    [status |-> "PROCESSING", source |-> c,
                     amount |-> cancel[c].paid - cancel[c].deduction]]
          PROVE  refund' \in [Refund -> RefundRow]
      BY <1>1, <2>2 DEF TypeInv, TypeOK, RefundRow, PaymentStatus
    <2> QED BY <2>1, <2>2 DEF CompleteCancellation
  <1>4. Settlement(c) \subseteq Entry
    BY <1>1, EntryKeys, EntryType DEF Settlement
  <1> QED BY <1>2, <1>3, <1>4 DEF CompleteCancellation, TypeInv, TypeOK, Short, Known

LEMMA BeginTypes ==
    ASSUME TypeInv, NEW s \in Session, Begin(s)
    PROVE  TypeInv'
  <1>1. Snapshot \in ReadView /\ Snapshot.plans = Len(plans) /\ Len(plans) \in Nat
    BY PlansAre DEF TypeInv, TypeOK, Snapshot, ReadView
  <1>2. view' = [view EXCEPT ![s] = Snapshot] /\ UNCHANGED rows
    BY DEF Begin
  <1>3. view' \in [Session -> ReadView]
    BY <1>1, <1>2 DEF TypeInv, TypeOK
  <1>4. Known'
    BY <1>1, <1>2 DEF TypeInv, TypeOK, Known, rows
  <1> QED BY <1>2, <1>3, <1>4 DEF TypeInv, TypeOK, Short, rows

(* A payment comes in, is reconciled or fails.                             *)
PayStep(p) ==
    \/ \E v \in Views, amount \in Amounts : CreateBookingPayment(v, p, amount)
    \/ \E amount \in Amounts : CreateCollectionPayment(p, amount)
    \/ \E verdict \in {"MATCHED", "MISMATCHED"} : ReconcilePayment(p, verdict)
    \/ FailPayment(p)

LEMMA PayStepIs ==
    ASSUME TypeInv, NEW p \in Payment, PayStep(p)
    PROVE  /\ UNCHANGED <<plans, alloc, refund, charge, cancel, ledger, view>>
           /\ \/ status' = status
              \/ status \in {"PAYMENT_PENDING", "VERIFICATION"} /\ status' = "VERIFICATION"
           /\ pay[p].status \in {"NONE"} \cup Undecided
           /\ \/ \E amount \in Amounts : /\ pay[p].status = "NONE"
                                         /\ pay' = Submitted(p, amount)
              \/ \E verdict \in {"MATCHED", "MISMATCHED"} :
                    pay' = [pay EXCEPT ![p].status = "PROCESSING", ![p].verdict = verdict]
              \/ pay' = [pay EXCEPT ![p].status = "FAILED"]
  <1>1. CASE \E v \in Views, amount \in Amounts : CreateBookingPayment(v, p, amount)
    BY <1>1 DEF CreateBookingPayment
  <1>2. CASE \E amount \in Amounts : CreateCollectionPayment(p, amount)
    BY <1>2 DEF CreateCollectionPayment
  <1>3. CASE \E verdict \in {"MATCHED", "MISMATCHED"} : ReconcilePayment(p, verdict)
    BY <1>3 DEF ReconcilePayment
  <1>4. CASE FailPayment(p)
    BY <1>4 DEF FailPayment
  <1> QED BY <1>1, <1>2, <1>3, <1>4 DEF PayStep

(* A refund is asked for or decided on; so is a cancellation.              *)
AskStep(r) ==
    \/ \E v \in Views, p \in Payment, amount \in Amounts : RequestRefund(v, r, p, amount)
    \/ DecideRefund(r)

CancelStep(c) ==
    \/ RequestCancellation(c) \/ DecideCancellation(c)
    \/ \E v \in Views : ReviewCancellation(v, c)

(* The steps by what they do to money.                                     *)
LEMMA Steps ==
    ASSUME Next
    PROVE  \/ \E s \in Session : Begin(s)
           \/ \E p \in Payment : PayStep(p)
           \/ \E v \in Views, p \in Payment, manual \in BOOLEAN, credit \in Credit :
                 AllocatePayment(v, p, manual, credit)
           \/ \E schedule \in Schedules : SetPaymentPlan(schedule)
           \/ BookingStep
           \/ ChargeStep
           \/ \E r \in Refund : AskStep(r)
           \/ \E v \in Views, r \in Refund : ProcessRefund(v, r)
           \/ \E c \in Cancellation : CancelStep(c)
           \/ \E v \in Views, c \in Cancellation : CompleteCancellation(v, c)
  <1>1. CASE \E s \in Session : Begin(s)
    BY <1>1
  <1>2. CASE PaymentStep
    BY <1>2 DEF PaymentStep, PayStep
  <1>3. CASE BookingStep \/ ChargeStep
    BY <1>3
  <1>4. CASE RefundStep
    BY <1>4 DEF RefundStep, AskStep
  <1>5. CASE CancellationStep
    BY <1>5 DEF CancellationStep, CancelStep
  <1> QED BY <1>1, <1>2, <1>3, <1>4, <1>5 DEF Next

LEMMA BookingStepIs ==
    ASSUME BookingStep
    PROVE  /\ UNCHANGED <<plans, pay, alloc, refund, charge, cancel, ledger, view>>
           /\ \/ status = "PAYMENT_PENDING" /\ status' = "VERIFICATION"
              \/ /\ status = "VERIFICATION" /\ status' = "APPROVAL"
                 /\ \E v \in Views : PaymentTotal(v, {"COMPLETED"}) >= BookingAmount
              \/ status = "APPROVAL" /\ status' \in {"CONFIRMED", "REJECTED"}
              \/ status \notin FinalBooking /\ status' = "CANCELLED"
  BY DEF BookingStep, AdvanceBooking, RequestApproval, DecideApproval, CancelBooking, MoveBooking

(* What the steps leave alone.                                             *)
LEMMA Untouched ==
    ASSUME TypeInv
    PROVE  /\ \A s \in Session : Begin(s) => UNCHANGED rows
           /\ \A p \in Payment : PayStep(p) =>
                 UNCHANGED <<plans, alloc, refund, charge, cancel, ledger, view>>
           /\ \A v, p, manual, credit : AllocatePayment(v, p, manual, credit) =>
                 UNCHANGED <<refund, charge, cancel, view>>
           /\ \A schedule : SetPaymentPlan(schedule) =>
                 UNCHANGED <<status, pay, alloc, refund, charge, cancel, ledger, view>>
           /\ BookingStep =>
                 UNCHANGED <<plans, pay, alloc, refund, charge, cancel, ledger, view>>
           /\ ChargeStep => UNCHANGED <<status, plans, pay, alloc, refund, cancel, view>>
           /\ \A r : AskStep(r) =>
                 UNCHANGED <<status, plans, pay, alloc, charge, cancel, ledger, view>>
           /\ \A v, r : ProcessRefund(v, r) => UNCHANGED <<status, charge, cancel, view>>
           /\ \A c : CancelStep(c) =>
                 UNCHANGED <<status, plans, pay, alloc, refund, charge, ledger, view>>
           /\ \A v, c : CompleteCancellation(v, c) => UNCHANGED <<plans, pay, alloc, charge, view>>
  <1>1. BookingStep => UNCHANGED <<plans, pay, alloc, refund, charge, cancel, ledger, view>>
    BY BookingStepIs
  <1>2. \A p \in Payment : PayStep(p) =>
           UNCHANGED <<plans, alloc, refund, charge, cancel, ledger, view>>
    BY PayStepIs
  <1>3. \A r : AskStep(r) => UNCHANGED <<status, plans, pay, alloc, charge, cancel, ledger, view>>
    BY DEF AskStep, RequestRefund, DecideRefund
  <1>4. \A c : CancelStep(c) =>
           UNCHANGED <<status, plans, pay, alloc, refund, charge, ledger, view>>
    BY DEF CancelStep, RequestCancellation, DecideCancellation, ReviewCancellation
  <1>5. ChargeStep => UNCHANGED <<status, plans, pay, alloc, refund, cancel, view>>
    BY DEF ChargeStep, CreateCharge, WaiveCharge
  <1>6. \A v, c : CompleteCancellation(v, c) => UNCHANGED <<plans, pay, alloc, charge, view>>
    BY DEF CompleteCancellation
  <1>7. /\ \A v, r : ProcessRefund(v, r) => UNCHANGED <<status, charge, cancel, view>>
        /\ \A v, p, manual, credit : AllocatePayment(v, p, manual, credit) =>
              UNCHANGED <<refund, charge, cancel, view>>
    BY DEF ProcessRefund, AllocatePayment
  <1> QED BY <1>1, <1>2, <1>3, <1>4, <1>5, <1>6, <1>7 DEF Begin, SetPaymentPlan

LEMMA TypeStep == ASSUME TypeInv, [Next]_vars PROVE TypeInv'
  <1>1. CASE UNCHANGED vars
    BY <1>1 DEF TypeInv, TypeOK, Short, Known, vars, rows
  <1>2. ASSUME NEW p \in Payment, PayStep(p) PROVE TypeInv'
    <2>1. status' \in BookingStatus
      BY <1>2, PayStepIs DEF TypeInv, TypeOK, BookingStatus
    <2> QED BY <1>2, <2>1, PayStepIs, PayTypes
  <1>3. ASSUME BookingStep PROVE TypeInv'
    <2>1. status' \in BookingStatus
      BY <1>3, BookingStepIs DEF BookingStatus
    <2> QED BY <1>3, <2>1, BookingStepIs, BookingTypes
  <1>4. CASE Next
    BY <1>2, <1>3, <1>4, Steps, BeginTypes, AllocateTypes, PlanTypes, ChargeTypes, RefundTypes,
       ProcessTypes, CancellationTypes, CompletionTypes
       DEF AskStep, CancelStep
  <1> QED BY <1>1, <1>4

(* The rows of an account are of their types and refer to rows that are    *)
(* there, whatever requests race and however old their reads.              *)
THEOREM AccountTyped == Spec => []TypeOK
  <1>1. TypeInv /\ [Next]_vars => TypeInv'
    BY TypeStep
  <1>2. TypeInv => TypeOK
    BY DEF TypeInv
  <1> QED BY TypeInit, <1>1, <1>2, PTL DEF Spec

(***************************************************************************)
(* What was received stays received.                                       *)
(***************************************************************************)
(* Money is given back only of what was received.                          *)
Sourced == \A r \in Refund :
    refund[r].source \in Payment => pay[refund[r].source].status \in Received

MoneyInv == TypeInv /\ Sourced

Lasting == \A p \in Payment : pay[p].status \in Received =>
    /\ pay'[p].status \in Received /\ pay'[p].amount = pay[p].amount
    /\ pay'[p].verdict = pay[p].verdict /\ pay'[p].manual = pay[p].manual

LEMMA RepaidReceived ==
    ASSUME MoneyInv, NEW r \in Refund, NEW p \in Repaid(r)
    PROVE  p \in Payment /\ pay[p].status \in Received
  BY DEF MoneyInv, Sourced, Repaid

(* What giving money back does to the payments.                            *)
LEMMA ProcessPays ==
    ASSUME MoneyInv, NEW v \in Views, NEW r \in Refund, ProcessRefund(v, r)
    PROVE  \A p \in Payment :
              \/ pay'[p] = pay[p]
              \/ /\ p \in Repaid(r) /\ pay[p].status \in Received
                 /\ pay'[p] = [pay[p] EXCEPT !.status = "REFUNDED"]
                 /\ pay'[p].status = "REFUNDED" /\ pay'[p].amount = pay[p].amount
                 /\ pay'[p].verdict = pay[p].verdict /\ pay'[p].manual = pay[p].manual
  <1> SUFFICES ASSUME NEW p \in Payment, pay'[p] # pay[p]
               PROVE  /\ p \in Repaid(r) /\ pay[p].status \in Received
                      /\ pay'[p] = [pay[p] EXCEPT !.status = "REFUNDED"]
                      /\ pay'[p].status = "REFUNDED" /\ pay'[p].amount = pay[p].amount
                      /\ pay'[p].verdict = pay[p].verdict /\ pay'[p].manual = pay[p].manual
    OBVIOUS
  <1>1. p \in Repaid(r) /\ pay'[p] = [pay[p] EXCEPT !.status = "REFUNDED"]
    BY DEF ProcessRefund
  <1>2. pay[p] \in PaymentRow
    BY DEF MoneyInv, TypeInv, TypeOK
  <1> QED BY <1>1, <1>2, RepaidReceived DEF PaymentRow

LEMMA PaysLast == ASSUME MoneyInv, [Next]_vars PROVE Lasting
  <1>0. pay \in [Payment -> PaymentRow]
    BY DEF MoneyInv, TypeInv, TypeOK
  <1>1. ASSUME UNCHANGED pay PROVE Lasting
    BY <1>1 DEF Lasting
  <1>2. ASSUME NEW p \in Payment, PayStep(p) PROVE Lasting
    <2>1. pay[p].status \notin Received
      BY <1>2, PayStepIs DEF MoneyInv, Undecided, Received
    <2>2. \A q \in Payment : q # p => pay'[q] = pay[q]
      BY <1>0, <1>2, PayStepIs DEF MoneyInv, Submitted
    <2> QED BY <2>1, <2>2 DEF Lasting
  <1>3. ASSUME NEW v \in Views, NEW p \in Payment, NEW manual \in BOOLEAN, NEW credit \in Credit,
               AllocatePayment(v, p, manual, credit)
        PROVE  Lasting
    <2>1. pay[p].status \notin Received
      BY <1>3 DEF AllocatePayment, Undecided, Received
    <2>2. \A q \in Payment : q # p => pay'[q] = pay[q]
      BY <1>0, <1>3 DEF AllocatePayment
    <2> QED BY <2>1, <2>2 DEF Lasting
  <1>4. ASSUME NEW v \in Views, NEW r \in Refund, ProcessRefund(v, r) PROVE Lasting
    BY <1>4, ProcessPays DEF Lasting, Received
  <1>6. CASE Next
    BY <1>1, <1>2, <1>3, <1>4, <1>6, Steps, Untouched DEF rows, MoneyInv
  <1>7. CASE UNCHANGED vars
    BY <1>1, <1>7 DEF vars, rows
  <1> QED BY <1>6, <1>7

LEMMA MoneyStart == Init => MoneyInv
  <1> SUFFICES ASSUME Init PROVE Sourced
    BY TypeInit DEF MoneyInv
  <1> QED BY SourcesDisjoint DEF Init, Sourced

LEMMA MoneyStep == ASSUME MoneyInv, [Next]_vars PROVE MoneyInv'
  <1>0. Lasting /\ TypeInv'
    BY PaysLast, TypeStep DEF MoneyInv
  <1>1. ASSUME \A r \in Refund : \/ refund'[r].source = refund[r].source
                                 \/ refund'[r].source \notin Payment
                                 \/ pay[refund'[r].source].status \in Received
        PROVE  Sourced'
    BY <1>0, <1>1 DEF MoneyInv, Sourced, Lasting
  <1>2. refund \in [Refund -> RefundRow]
    BY DEF MoneyInv, TypeInv, TypeOK
  <1>3. ASSUME UNCHANGED refund PROVE Sourced'
    BY <1>1, <1>3
  <1>4. ASSUME NEW r \in Refund, NEW v \in Views, NEW p \in Payment, NEW amount \in Amounts,
               RequestRefund(v, r, p, amount)
        PROVE  Sourced'
    BY <1>1, <1>2, <1>4 DEF RequestRefund
  <1>5. ASSUME NEW r \in Refund, DecideRefund(r) PROVE Sourced'
    <2>1. \A q \in Refund : refund'[q].source = refund[q].source
      BY <1>2, <1>5 DEF DecideRefund, RefundRow
    <2> QED BY <1>1, <2>1
  <1>6. ASSUME NEW v \in Views, NEW r \in Refund, ProcessRefund(v, r) PROVE Sourced'
    <2>1. \A q \in Refund : refund'[q].source = refund[q].source
      BY <1>2, <1>6 DEF ProcessRefund, RefundRow
    <2> QED BY <1>1, <2>1
  <1>7. ASSUME NEW v \in Views, NEW c \in Cancellation, CompleteCancellation(v, c) PROVE Sourced'
    <2>1. c \notin Payment
      BY SourcesDisjoint
    <2>2. \A q \in Refund : refund'[q].source \in {refund[q].source, c}
      BY <1>2, <1>7 DEF CompleteCancellation
    <2> QED BY <1>1, <2>1, <2>2
  <1>9. CASE Next
    <2>1. Sourced'
      BY <1>3, <1>4, <1>5, <1>6, <1>7, <1>9, Steps, Untouched DEF rows, AskStep, MoneyInv
    <2> QED BY <1>0, <2>1 DEF MoneyInv
  <1>10. CASE UNCHANGED vars
    BY <1>0, <1>3, <1>10 DEF vars, rows, MoneyInv
  <1> QED BY <1>9, <1>10

LEMMA MoneyAlways == Spec => []MoneyInv
  BY MoneyStart, MoneyStep, PTL DEF Spec

LEMMA PayStepOpen ==
    ASSUME TypeInv, NEW p \in Payment, PayStep(p)
    PROVE  pay'[p].status \in {"PENDING", "PROCESSING", "FAILED"}
  <1>1. pay \in [Payment -> PaymentRow] /\ pay[p] \in PaymentRow
    BY DEF TypeInv, TypeOK
  <1>2. CASE \E amount \in Amounts : pay' = Submitted(p, amount)
    BY <1>1, <1>2 DEF Submitted, PaymentRow
  <1>3. CASE \E verdict \in {"MATCHED", "MISMATCHED"} :
                pay' = [pay EXCEPT ![p].status = "PROCESSING", ![p].verdict = verdict]
    BY <1>1, <1>3 DEF PaymentRow
  <1>4. CASE pay' = [pay EXCEPT ![p].status = "FAILED"]
    BY <1>1, <1>4 DEF PaymentRow
  <1> QED BY <1>2, <1>3, <1>4, PayStepIs

(* A payment is received by being allocated, and in no other way.          *)
LEMMA OnlyAllocated ==
    ASSUME MoneyInv, [Next]_vars, NEW q \in Payment,
           pay[q].status \notin Received, pay'[q].status \in Received
    PROVE  \E v \in Views, manual \in BOOLEAN, credit \in Credit :
              AllocatePayment(v, q, manual, credit)
  <1>0. pay \in [Payment -> PaymentRow]
    BY DEF MoneyInv, TypeInv, TypeOK
  <1>1. ~ UNCHANGED pay
    OBVIOUS
  <1>2. ASSUME NEW p \in Payment, PayStep(p) PROVE FALSE
    <2>1. q = p
      BY <1>0, <1>2, PayStepIs DEF MoneyInv, Submitted
    <2>2. pay'[p].status \in {"PENDING", "PROCESSING", "FAILED"}
      BY <1>2, PayStepOpen DEF MoneyInv
    <2> QED BY <2>1, <2>2 DEF Received
  <1>3. ASSUME NEW v \in Views, NEW r \in Refund, ProcessRefund(v, r) PROVE FALSE
    BY <1>3, ProcessPays
  <1>4. ASSUME NEW v \in Views, NEW p \in Payment, NEW manual \in BOOLEAN, NEW credit \in Credit,
               AllocatePayment(v, p, manual, credit)
        PROVE  q = p
    BY <1>0, <1>4 DEF AllocatePayment
  <1>5. Next
    BY <1>1 DEF vars, rows
  <1> QED BY <1>1, <1>2, <1>3, <1>4, <1>5, Steps, Untouched DEF rows, MoneyInv

(***************************************************************************)
(* Evidence.                                                               *)
(***************************************************************************)
LEMMA EvidenceStep ==
    ASSUME Session = {}, MoneyInv, VerifiedOnEvidence, [Next]_vars
    PROVE  VerifiedOnEvidence'
  <1> SUFFICES ASSUME NEW q \in Payment, pay'[q].status \in Received
               PROVE  pay'[q].verdict = "MATCHED" \/ pay'[q].manual
    BY DEF VerifiedOnEvidence
  <1>1. CASE pay[q].status \in Received
    BY <1>1, PaysLast DEF VerifiedOnEvidence, Lasting
  <1>2. CASE pay[q].status \notin Received
    <2>1. PICK v \in Views, manual \in BOOLEAN, credit \in Credit :
             AllocatePayment(v, q, manual, credit)
      BY <1>2, OnlyAllocated
    <2>2. v = Snapshot
      BY DEF Views
    <2>3. pay[q].verdict = "MATCHED" \/ manual
      BY <2>1, <2>2 DEF AllocatePayment, Reconciled, Snapshot
    <2>4. pay'[q].verdict = pay[q].verdict /\ pay'[q].manual = manual
      BY <2>1 DEF AllocatePayment, MoneyInv, TypeInv, TypeOK, PaymentRow
    <2> QED BY <2>3, <2>4
  <1> QED BY <1>1, <1>2

(* Where requests do not overlap, no payment is ever counted as verified   *)
(* that was neither matched nor overridden on record (allocate_payment).   *)
THEOREM AccountOnEvidence == ASSUME Session = {} PROVE Spec => []VerifiedOnEvidence
  <1>1. Init => MoneyInv /\ VerifiedOnEvidence
    BY MoneyStart DEF Init, VerifiedOnEvidence, Received
  <1>2. MoneyInv /\ VerifiedOnEvidence /\ [Next]_vars => (MoneyInv /\ VerifiedOnEvidence)'
    BY MoneyStep, EvidenceStep
  <1> QED BY <1>1, <1>2, PTL DEF Spec

(***************************************************************************)
(* What payments and refunds add up to.                                    *)
(***************************************************************************)
(* The totals of the services, of any payments and refunds.                *)
Taken(payments, statuses) ==
    SumFunctionOnSet([p \in Payment |-> payments[p].amount],
                     {p \in Payment : payments[p].status \in statuses})

Given(refunds, sources, statuses) ==
    SumFunctionOnSet([r \in Refund |-> refunds[r].amount],
                     {r \in Refund : refunds[r].source \in sources
                                     /\ refunds[r].status \in statuses})

LEMMA TotalsAre ==
    ASSUME NEW statuses, NEW sources
    PROVE  /\ \A v : PaymentTotal(v, statuses) = Taken(v.pay, statuses)
           /\ \A v : RefundTotal(v, sources, statuses) = Given(v.refund, sources, statuses)
           /\ PaymentTotal(Snapshot, statuses) = Taken(pay, statuses)
           /\ PaymentTotal(Snapshot, statuses)' = Taken(pay', statuses)
           /\ RefundTotal(Snapshot, sources, statuses) = Given(refund, sources, statuses)
           /\ RefundTotal(Snapshot, sources, statuses)' = Given(refund', sources, statuses)
  BY DEF PaymentTotal, RefundTotal, Taken, Given, Snapshot

Counted(row, statuses) == IF row.status \in statuses THEN row.amount ELSE 0

(* One payment changes.                                                    *)
LEMMA TakenTurns ==
    ASSUME NEW a \in [Payment -> PaymentRow], NEW b \in [Payment -> PaymentRow], NEW statuses,
           NEW p \in Payment, \A q \in Payment : q # p => b[q] = a[q]
    PROVE  Taken(b, statuses) =
              Taken(a, statuses) - Counted(a[p], statuses) + Counted(b[p], statuses)
  <1> DEFINE f == [q \in Payment |-> a[q].amount]
             g == [q \in Payment |-> b[q].amount]
             T == {q \in Payment : a[q].status \in statuses}
             U == {q \in Payment : b[q].status \in statuses}
  <1>1. \A q \in Payment : f[q] \in Int /\ g[q] \in Int
    BY DEF PaymentRow
  <1>2. \A q \in Payment \ {p} : g[q] = f[q] /\ (q \in U <=> q \in T)
    OBVIOUS
  <1>3. /\ Counted(a[p], statuses) = IF p \in T THEN f[p] ELSE 0
        /\ Counted(b[p], statuses) = IF p \in U THEN g[p] ELSE 0
    BY DEF Counted
  <1>4. T \in SUBSET Payment /\ U \in SUBSET Payment
    OBVIOUS
  <1>5. Taken(a, statuses) = SumFunctionOnSet(f, T) /\ Taken(b, statuses) = SumFunctionOnSet(g, U)
    BY DEF Taken
  <1> HIDE DEF f, g, T, U
  <1>6. SumFunctionOnSet(g, U) = SumFunctionOnSet(f, T)
           - (IF p \in T THEN f[p] ELSE 0) + (IF p \in U THEN g[p] ELSE 0)
    BY ONLY <1>1, <1>2, <1>4, SumTurn, RowsFinite, p \in Payment
  <1> QED BY <1>3, <1>5, <1>6

LEMMA TakenType ==
    ASSUME NEW a \in [Payment -> PaymentRow], NEW statuses
    PROVE  Taken(a, statuses) \in Nat
  <1> DEFINE f == [q \in Payment |-> a[q].amount]
             T == {q \in Payment : a[q].status \in statuses}
  <1>1. \A q \in T : f[q] \in Nat
    BY DEF PaymentRow
  <1>2. IsFiniteSet(T)
    BY RowsFinite, FS_Subset
  <1>3. Taken(a, statuses) = SumFunctionOnSet(f, T)
    BY DEF Taken
  <1> HIDE DEF f, T
  <1> QED BY <1>1, <1>2, <1>3, SumNat

(* More payments count, for as much.                                       *)
LEMMA TakenGrows ==
    ASSUME NEW a \in [Payment -> PaymentRow], NEW b \in [Payment -> PaymentRow], NEW S, NEW W,
           \A q \in Payment : a[q].status \in S => b[q].status \in W /\ b[q].amount = a[q].amount
    PROVE  Taken(a, S) <= Taken(b, W)
  <1> DEFINE f == [q \in Payment |-> a[q].amount]
             g == [q \in Payment |-> b[q].amount]
             T == {q \in Payment : a[q].status \in S}
             U == {q \in Payment : b[q].status \in W}
  <1>1. (\A q \in U : g[q] \in Nat) /\ \A q \in T : f[q] \in Nat /\ f[q] <= g[q]
    BY DEF PaymentRow
  <1>2. T \in SUBSET Payment /\ U \in SUBSET Payment /\ T \subseteq U
    OBVIOUS
  <1>3. Taken(a, S) = SumFunctionOnSet(f, T) /\ Taken(b, W) = SumFunctionOnSet(g, U)
    BY DEF Taken
  <1> HIDE DEF f, g, T, U
  <1>4. SumFunctionOnSet(f, T) <= SumFunctionOnSet(g, U)
    BY ONLY <1>1, <1>2, SumGrows, RowsFinite
  <1> QED BY <1>3, <1>4

(***************************************************************************)
(* Nothing goes up for approval on money that was not verified.            *)
(***************************************************************************)
(* A payment that a view shows as verified was verified, for that amount.  *)
Seen(v) == \A p \in Payment : v.pay[p].status = "COMPLETED" =>
    pay[p].status \in Received /\ pay[p].amount = v.pay[p].amount

SoldInv == MoneyInv /\ (\A s \in Session : Seen(view[s])) /\ ApprovedOnVerified

LEMMA AllSeen == ASSUME SoldInv, NEW v \in Views PROVE Seen(v)
  BY DEF SoldInv, Views, Seen, Snapshot, Received

LEMMA SoldStart == Init => SoldInv
  BY MoneyStart DEF Init, SoldInv, Seen, Snapshot, ApprovedOnVerified

LEMMA SoldStep == ASSUME SoldInv, [Next]_vars PROVE SoldInv'
  <1>0. MoneyInv /\ MoneyInv' /\ Lasting
    BY MoneyStep, PaysLast DEF SoldInv
  <1>1. pay \in [Payment -> PaymentRow] /\ pay' \in [Payment -> PaymentRow]
    BY <1>0 DEF MoneyInv, TypeInv, TypeOK
  <1>2. ASSUME NEW s \in Session PROVE Seen(view[s])'
    <2>1. view'[s] = view[s] \/ view'[s] = Snapshot
      <3>1. CASE Next
        BY <1>0, <3>1, Steps, Untouched
           DEF MoneyInv, TypeInv, TypeOK, Begin, AllocatePayment, SetPaymentPlan
      <3>2. CASE UNCHANGED vars
        BY <3>2 DEF vars
      <3> QED BY <3>1, <3>2
    <2>2. \A p \in Payment : view'[s].pay[p].status = "COMPLETED" =>
             pay[p].status \in Received /\ pay[p].amount = view'[s].pay[p].amount
      BY <2>1 DEF SoldInv, Seen, Snapshot, Received
    <2> QED BY <1>0, <2>2 DEF Lasting, Seen
  <1>3. Taken(pay, Received) <= Taken(pay', Received)
    BY <1>0, <1>1, TakenGrows DEF Lasting
  <1>4. Taken(pay, Received) \in Nat /\ Taken(pay', Received) \in Nat /\ BookingAmount \in Nat
    BY <1>1, TakenType, PriceAssumption
  <1>5. ASSUME status' \in {"APPROVAL", "CONFIRMED"} PROVE Taken(pay', Received) >= BookingAmount
    <2>1. CASE status \in {"APPROVAL", "CONFIRMED"}
      BY <1>3, <1>4, <2>1, TotalsAre DEF SoldInv, ApprovedOnVerified
    <2>2. CASE status \notin {"APPROVAL", "CONFIRMED"}
      <3>1. BookingStep
        <4>1. Next
          BY <1>5, <2>2 DEF vars, rows
        <4>2. \A p \in Payment : PayStep(p) => status' \in {status, "VERIFICATION"}
          BY <1>0, PayStepIs DEF MoneyInv
        <4> QED BY ZenonT(60), <1>0, <1>5, <2>2, <4>1, <4>2, Steps, Untouched
                DEF MoneyInv, rows, AllocatePayment, CompleteCancellation
      <3>2. PICK v \in Views : PaymentTotal(v, {"COMPLETED"}) >= BookingAmount
        BY <1>5, <2>2, <3>1, BookingStepIs
      <3>3. v.pay \in [Payment -> PaymentRow] /\ Seen(v)
        BY <1>0, ViewIs, AllSeen DEF MoneyInv
      <3>4. Taken(v.pay, {"COMPLETED"}) <= Taken(pay, Received)
        BY <1>1, <3>3, TakenGrows DEF Seen
      <3>5. Taken(v.pay, {"COMPLETED"}) \in Nat /\ Taken(v.pay, {"COMPLETED"}) >= BookingAmount
        BY <3>2, <3>3, TakenType, TotalsAre
      <3> QED BY <1>3, <1>4, <3>4, <3>5
    <2> QED BY <2>1, <2>2
  <1>6. ApprovedOnVerified'
    BY <1>5, TotalsAre DEF ApprovedOnVerified
  <1> QED BY <1>0, <1>2, <1>6 DEF SoldInv

(* However payments, refunds and approvals race and however old their      *)
(* reads, a booking is up for approval or sold only once payments for the  *)
(* booking amount were verified (request_approval).                        *)
THEOREM AccountApproved == Spec => []ApprovedOnVerified
  <1>1. SoldInv => ApprovedOnVerified
    BY DEF SoldInv
  <1>2. SoldInv /\ [Next]_vars => SoldInv'
    BY SoldStep
  <1> QED BY SoldStart, <1>1, <1>2, PTL DEF Spec

(***************************************************************************)
(* What installments count as paid.                                        *)
(***************************************************************************)
OnSlot(allocations, s) == SumFunction([p \in Payment |-> allocations[p][s]])

(* Nothing is allocated to an installment that is not there.               *)
Placed == \A p \in Payment, s \in Slot :
    alloc[p][s] # 0 => s[1] \in DOMAIN plans /\ s[2] \in DOMAIN plans[s[1]]

PaidInv == TypeInv /\ Placed /\ PaidAgrees

LEMMA PaidIs ==
    PaidAgrees <=> \A n \in DOMAIN plans : \A i \in DOMAIN plans[n] :
                      /\ plans[n][i].paid = OnSlot(alloc, <<n, i>>)
                      /\ plans[n][i].paid <= plans[n][i].amount
  BY DEF PaidAgrees, OnSlot

LEMMA NothingOnSlot ==
    ASSUME NEW s, \A p \in Payment : alloc[p][s] = 0
    PROVE  OnSlot(alloc, s) = 0
  <1> DEFINE f == [p \in Payment |-> alloc[p][s]]
  <1>1. \A p \in Payment : f[p] = 0
    OBVIOUS
  <1>2. OnSlot(alloc, s) = SumFunctionOnSet(f, Payment)
    BY DEF OnSlot, SumFunction
  <1> HIDE DEF f
  <1> QED BY <1>1, <1>2, SumZero, RowsFinite

LEMMA PaidStart == Init => PaidInv
  <1> SUFFICES ASSUME Init PROVE Placed /\ PaidAgrees
    BY TypeInit DEF PaidInv
  <1>1. Placed
    BY DEF Init, Placed
  <1>2. PICK schedule \in Schedules : plans = <<NewPlan(schedule)>>
    BY DEF Init
  <1>3. ASSUME NEW n \in DOMAIN plans, NEW i \in DOMAIN plans[n]
        PROVE  plans[n][i].paid = OnSlot(alloc, <<n, i>>) /\ plans[n][i].paid <= plans[n][i].amount
    <2>1. plans[n][i].paid = 0 /\ plans[n][i].amount \in Nat
      BY <1>2, NewPlanType
    <2>2. <<n, i>> \in Slot
      BY TypeInit, PlansAre
    <2>3. OnSlot(alloc, <<n, i>>) = 0
      BY <2>2, NothingOnSlot DEF Init
    <2> QED BY <2>1, <2>3
  <1> QED BY <1>1, <1>3, PaidIs

LEMMA PaidAllocate ==
    ASSUME PaidInv, NEW v \in Views, NEW p \in Payment, NEW manual \in BOOLEAN, NEW credit,
           AllocatePayment(v, p, manual, credit)
    PROVE  (Placed /\ PaidAgrees)'
  <1>1. PICK share : Fills(share, v, p)
    BY Allocating DEF PaidInv
  <1> DEFINE m == v.plans
  <1>2. m \in DOMAIN plans /\ DOMAIN Open(m) = {m} \X DOMAIN plans[m]
    BY ViewIs, OpenIs DEF PaidInv
  <1>3. alloc \in [Payment -> [Slot -> Nat]]
    BY DEF PaidInv, TypeInv, TypeOK
  <1>4. alloc' = [alloc EXCEPT ![p] = [s \in Slot |-> alloc[p][s] + At(share, s)]]
    BY <1>1 DEF Fills
  <1>5. /\ DOMAIN plans' = DOMAIN plans
        /\ \A n \in DOMAIN plans : DOMAIN plans'[n] = DOMAIN plans[n]
    BY <1>1 DEF Fills
  <1>6. \A s : At(share, s) \in Nat /\ (s \notin DOMAIN Open(m) => At(share, s) = 0)
    BY <1>1 DEF Fills
  <1>7. ASSUME NEW q \in Payment, NEW s \in Slot, alloc'[q][s] # 0
        PROVE  s[1] \in DOMAIN plans /\ s[2] \in DOMAIN plans[s[1]]
    <2>1. CASE alloc[q][s] # 0
      BY <2>1 DEF PaidInv, Placed
    <2>2. CASE alloc[q][s] = 0
      <3>1. At(share, s) # 0
        BY <1>3, <1>4, <1>7, <2>2
      <3>2. s \in {m} \X DOMAIN plans[m]
        BY <1>2, <1>6, <3>1
      <3> QED BY <1>2, <3>2
    <2> QED BY <2>1, <2>2
  <1>8. ASSUME NEW n \in DOMAIN plans, NEW i \in DOMAIN plans[n]
        PROVE  /\ plans'[n][i].paid = OnSlot(alloc', <<n, i>>)
               /\ plans'[n][i].paid <= plans'[n][i].amount
    <2> DEFINE s == <<n, i>>
               f == [q \in Payment |-> alloc[q][s]]
               g == [q \in Payment |-> alloc'[q][s]]
               a == At(share, s)
    <2>1. /\ plans[n][i].amount \in Nat /\ plans[n][i].paid \in Nat /\ s \in Slot
          /\ a \in Nat
      BY <1>6, PlansAre DEF PaidInv
    <2>2. plans[n][i].paid = OnSlot(alloc, s) /\ plans[n][i].paid <= plans[n][i].amount
      BY PaidIs DEF PaidInv
    <2>3. plans'[n][i].paid = plans[n][i].paid + a /\ plans'[n][i].amount = plans[n][i].amount
      <3>1. plans'[n][i] = [amount |-> plans[n][i].amount,
                            paid |-> plans[n][i].paid + At(share, <<n, i>>)]
        BY <1>1 DEF Fills
      <3> HIDE DEF s
      <3> QED BY <3>1 DEF s
    <2>4. \A q \in Payment : f[q] \in Int
      BY <1>3, <2>1
    <2>4a. \A q \in Payment \ {p} : g[q] = f[q]
      BY <1>3, <1>4, <2>1
    <2>4b. g[p] = f[p] + a /\ f[p] \in Nat
      BY <1>3, <1>4, <2>1
    <2>4c. g[p] \in Int
      BY <1>3, <1>4, <2>1
    <2>5. OnSlot(alloc, s) = SumFunctionOnSet(f, Payment)
          /\ OnSlot(alloc', s) = SumFunctionOnSet(g, Payment)
      BY DEF OnSlot, SumFunction
    <2>6. a <= plans[n][i].amount - plans[n][i].paid
      <3>1. CASE s \in DOMAIN Open(m)
        <4>1. n = m
          BY <1>2, <3>1
        <4>2. Open(m)[s] = plans[n][i].amount - plans[n][i].paid
          BY <1>2, <4>1, OpenIs DEF PaidInv
        <4>3. Open(m)[s] >= 0
          BY <2>1, <2>2, <4>2
        <4> QED BY <1>1, <3>1, <4>2, <4>3 DEF Fills
      <3>2. CASE s \notin DOMAIN Open(m)
        BY <1>6, <2>1, <2>2, <3>2
      <3> QED BY <3>1, <3>2
    <2> HIDE DEF s, f, g, a
    <2>7. SumFunctionOnSet(g, Payment) = SumFunctionOnSet(f, Payment) - f[p] + g[p]
      BY ONLY <2>4, <2>4a, <2>4c, SumChange, RowsFinite, p \in Payment
    <2>8. OnSlot(alloc', s) = plans[n][i].paid + a
      BY <2>1, <2>2, <2>4b, <2>5, <2>7
    <2> QED BY <2>1, <2>2, <2>3, <2>6, <2>8 DEF s
  <1>9. Placed'
    BY <1>5, <1>7 DEF Placed
  <1>10. PaidAgrees'
    BY <1>5, <1>8 DEF PaidAgrees, OnSlot
  <1> QED BY <1>9, <1>10

LEMMA PaidPlan ==
    ASSUME PaidInv, NEW schedule \in Schedules, SetPaymentPlan(schedule)
    PROVE  (Placed /\ PaidAgrees)'
  <1>1. plans \in Seq(Seq(Installment)) /\ DOMAIN plans = 1..Len(plans) /\ Len(plans) \in Nat
    BY PlansAre DEF PaidInv, TypeInv, TypeOK
  <1>2. plans' = Append(plans, NewPlan(schedule)) /\ alloc' = alloc
    BY DEF SetPaymentPlan
  <1> DEFINE k == Len(plans) + 1
  <1>3. /\ DOMAIN plans' = 1..k
        /\ plans'[k] = NewPlan(schedule)
        /\ \A n \in DOMAIN plans : plans'[n] = plans[n] /\ n \in DOMAIN plans' /\ n # k
        /\ \A n \in DOMAIN plans' : n \in DOMAIN plans \/ n = k
        /\ k \notin DOMAIN plans
    BY <1>1, <1>2
  <1> HIDE DEF k
  <1>4. Placed'
    BY <1>2, <1>3 DEF PaidInv, Placed
  <1>5. ASSUME NEW n \in DOMAIN plans', NEW i \in DOMAIN plans'[n]
        PROVE  /\ plans'[n][i].paid = OnSlot(alloc, <<n, i>>)
               /\ plans'[n][i].paid <= plans'[n][i].amount
    <2>1. CASE n \in DOMAIN plans
      BY <1>3, <2>1, PaidIs DEF PaidInv
    <2>2. CASE n = k
      <3>1. plans'[n][i].paid = 0 /\ plans'[n][i].amount \in Nat
        BY <1>3, <2>2, NewPlanType
      <3>2. TypeInv'
        BY PlanTypes DEF PaidInv
      <3>3. n \in 1..MaxPlans /\ i \in 1..MaxInstallments
        <4>1. n \in 1..MaxPlans
          <5>1. k = Len(plans') /\ Len(plans') \in 1..MaxPlans
            BY <1>1, <1>2, <3>2 DEF TypeInv, TypeOK, k
          <5> QED BY <2>2, <5>1
        <4>2. i \in 1..Len(schedule) /\ Len(schedule) <= MaxInstallments /\ Len(schedule) \in Nat
          BY <1>3, <2>2, NewPlanType, SchedulesAssumption
        <4> QED BY <4>1, <4>2, BoundsAssumption
      <3>4. <<n, i>> \in Slot
        BY <3>3 DEF Slot
      <3>5. \A p \in Payment : alloc[p][<<n, i>>] = 0
        BY <1>3, <2>2, <3>4 DEF PaidInv, Placed
      <3>6. OnSlot(alloc, <<n, i>>) = 0
        BY <3>5, NothingOnSlot
      <3> QED BY <3>1, <3>6
    <2> QED BY <1>3, <2>1, <2>2
  <1>6. PaidAgrees'
    BY <1>2, <1>5 DEF PaidAgrees, OnSlot
  <1> QED BY <1>4, <1>6

LEMMA PaidProcess ==
    ASSUME PaidInv, NEW v \in Views, NEW r \in Refund, ProcessRefund(v, r)
    PROVE  (Placed /\ PaidAgrees)'
  <1>1. PICK back : Backs(back, r)
    BY Processing DEF PaidInv
  <1>2. alloc \in [Payment -> [Slot -> Nat]]
    BY DEF PaidInv, TypeInv, TypeOK
  <1>3. /\ alloc' = [p \in Payment |-> [s \in Slot |-> alloc[p][s] - At(back, <<p, s>>)]]
        /\ \A x : At(back, x) \in Nat
        /\ \A p \in Payment, s \in Slot : At(back, <<p, s>>) <= alloc[p][s]
        /\ \A p, s : p \notin Repaid(r) => At(back, <<p, s>>) = 0
    BY <1>1 DEF Backs
  <1>4. /\ DOMAIN plans' = DOMAIN plans
        /\ \A n \in DOMAIN plans : DOMAIN plans'[n] = DOMAIN plans[n]
    BY <1>1 DEF Backs
  <1>5. \A p \in Payment, s \in Slot : alloc'[p][s] # 0 => alloc[p][s] # 0
    BY <1>2, <1>3
  <1>6. Placed'
    BY <1>4, <1>5 DEF PaidInv, Placed
  <1>7. ASSUME NEW n \in DOMAIN plans, NEW i \in DOMAIN plans[n]
        PROVE  /\ plans'[n][i].paid = OnSlot(alloc', <<n, i>>)
               /\ plans'[n][i].paid <= plans'[n][i].amount
    <2> DEFINE s == <<n, i>>
               f == [p \in Payment |-> alloc[p][s]]
               g == [p \in Payment |-> alloc'[p][s]]
               b == [p \in Payment |-> At(back, <<p, s>>)]
               h == [p \in Repaid(r) |-> At(back, <<p, s>>)]
    <2>1. plans[n][i].amount \in Nat /\ plans[n][i].paid \in Nat /\ s \in Slot
      BY PlansAre DEF PaidInv
    <2>2. plans[n][i].paid = OnSlot(alloc, s) /\ plans[n][i].paid <= plans[n][i].amount
      BY PaidIs DEF PaidInv
    <2>3. /\ plans'[n][i].paid = Max({0, plans[n][i].paid - SumFunctionOnSet(h, Repaid(r))})
          /\ plans'[n][i].amount = plans[n][i].amount
      <3>1. plans'[n][i] = [amount |-> plans[n][i].amount,
                paid |-> Max({0, plans[n][i].paid - Returned(back, r, <<n, i>>)})]
        BY <1>1 DEF Backs
      <3>2. Returned(back, r, s) = SumFunctionOnSet(h, Repaid(r))
        BY DEF Returned, SumFunction
      <3> HIDE DEF h, s
      <3>3. plans'[n][i].paid = Max({0, plans[n][i].paid - Returned(back, r, s)})
        BY <3>1 DEF s
      <3>4. plans'[n][i].amount = plans[n][i].amount
        BY <3>1
      <3> QED BY ONLY <3>2, <3>3, <3>4
    <2>4. \A p \in Payment : /\ g[p] \in Nat /\ b[p] \in Nat /\ f[p] = g[p] + b[p]
                             /\ g[p] \in Int /\ b[p] \in Int
      <3> SUFFICES ASSUME NEW p \in Payment
                   PROVE  /\ g[p] \in Nat /\ b[p] \in Nat /\ f[p] = g[p] + b[p]
                          /\ g[p] \in Int /\ b[p] \in Int
        OBVIOUS
      <3>1. /\ alloc'[p][s] = alloc[p][s] - At(back, <<p, s>>)
            /\ alloc[p][s] \in Nat /\ At(back, <<p, s>>) \in Nat
            /\ At(back, <<p, s>>) <= alloc[p][s]
        BY <1>2, <1>3, <2>1
      <3>2. f[p] = alloc[p][s] /\ g[p] = alloc'[p][s] /\ b[p] = At(back, <<p, s>>)
        OBVIOUS
      <3> HIDE DEF f, g, b, s
      <3> QED BY <3>1, <3>2
    <2>5. /\ OnSlot(alloc, s) = SumFunctionOnSet(f, Payment)
          /\ OnSlot(alloc', s) = SumFunctionOnSet(g, Payment)
      BY DEF OnSlot, SumFunction
    <2>6. (\A p \in Payment \ Repaid(r) : b[p] = 0) /\ \A p \in Repaid(r) : b[p] = h[p]
      BY <1>3, RepaidPart
    <2> HIDE DEF s, f, g, b, h
    <2>7. SumFunctionOnSet(f, Payment) = SumFunctionOnSet(g, Payment) + SumFunctionOnSet(b, Payment)
      BY ONLY <2>4, SumPlus, RowsFinite
    <2>8. SumFunctionOnSet(b, Payment) = SumFunctionOnSet(h, Repaid(r))
      <3>1. SumFunctionOnSet(b, Payment) = SumFunctionOnSet(b, Repaid(r))
        BY <2>4, <2>6, RepaidPart, SumSupport, RowsFinite
      <3>2. SumFunctionOnSet(b, Repaid(r)) = SumFunctionOnSet(h, Repaid(r))
        BY <2>6, RepaidPart, SumSame
      <3> QED BY <3>1, <3>2
    <2>9. SumFunctionOnSet(g, Payment) \in Nat /\ SumFunctionOnSet(b, Payment) \in Nat
      BY <2>4, SumNat, RowsFinite
    <2>10. plans[n][i].paid - SumFunctionOnSet(h, Repaid(r)) = SumFunctionOnSet(g, Payment)
      BY <2>2, <2>5, <2>7, <2>8, <2>9
    <2>11. plans'[n][i].paid = SumFunctionOnSet(g, Payment)
      BY <2>3, <2>9, <2>10, MaxOfTwo
    <2>12. SumFunctionOnSet(g, Payment) <= plans[n][i].paid
      BY <2>2, <2>5, <2>7, <2>9
    <2> QED BY <2>1, <2>2, <2>3, <2>5, <2>9, <2>11, <2>12 DEF s
  <1>8. PaidAgrees'
    BY <1>4, <1>7 DEF PaidAgrees, OnSlot
  <1> QED BY <1>6, <1>8

LEMMA PaidStep == ASSUME PaidInv, [Next]_vars PROVE PaidInv'
  <1>1. TypeInv'
    BY TypeStep DEF PaidInv
  <1>2. ASSUME UNCHANGED <<plans, alloc>> PROVE (Placed /\ PaidAgrees)'
    BY <1>2 DEF PaidInv, Placed, PaidAgrees
  <1>3. CASE Next
    <2>1. (Placed /\ PaidAgrees)'
      BY <1>2, <1>3, PaidAllocate, PaidPlan, PaidProcess, Steps, Untouched DEF PaidInv, rows
    <2> QED BY <1>1, <2>1 DEF PaidInv
  <1>4. CASE UNCHANGED vars
    BY <1>1, <1>2, <1>4 DEF PaidInv, vars, rows
  <1> QED BY <1>3, <1>4

(* However requests race, and after settlements too, an installment counts *)
(* as paid exactly what payments put on it, and no more than it asks for   *)
(* (allocate_payment, process_refund).                                     *)
THEOREM AccountPaid == Spec => []PaidAgrees
  <1>1. PaidInv => PaidAgrees
    BY DEF PaidInv
  <1>2. PaidInv /\ [Next]_vars => PaidInv'
    BY PaidStep
  <1> QED BY PaidStart, <1>1, <1>2, PTL DEF Spec

(***************************************************************************)
(* A payment's money is used once.                                         *)
(***************************************************************************)
LEMMA SumPairs ==
    ASSUME NEW S, IsFiniteSet(S), NEW q, NEW f, NEW g,
           \A x \in S : f[x] \in Int /\ g[<<q, x>>] = f[x]
    PROVE  SumFunctionOnSet(g, {q} \X S) = SumFunctionOnSet(f, S)
  <1> DEFINE W == {T \in SUBSET S : SumFunctionOnSet(g, {q} \X T) # SumFunctionOnSet(f, T)}
  <1> SUFFICES ASSUME W # {} PROVE FALSE
    OBVIOUS
  <1>1. PICK m \in W : \A s \in W : s \subseteq m => s = m
    <2>1. W \in SUBSET SUBSET S
      OBVIOUS
    <2> HIDE DEF W
    <2> QED BY <2>1, MinimalSubset
  <1>2. SumFunctionOnSet(g, {q} \X m) # SumFunctionOnSet(f, m) /\ m \in SUBSET S
    BY <1>1
  <1>3. m # {}
    <2> SUFFICES ASSUME m = {} PROVE FALSE
      OBVIOUS
    <2>1. {q} \X m = {}
      OBVIOUS
    <2>2. SumFunctionOnSet(g, {q} \X m) = 0 /\ SumFunctionOnSet(f, m) = 0
      BY <2>1, SumEmpty
    <2> HIDE DEF W
    <2> QED BY <1>2, <2>2
  <1> DEFINE c == Some(m)
             r == m \ {c}
             M == {q} \X m
             x == <<q, c>>
  <1>4. c \in m /\ c \in S /\ r \in SUBSET S /\ r \subseteq m /\ r # m
    BY <1>2, <1>3, RestIsLess
  <1>5. SumFunctionOnSet(g, {q} \X r) = SumFunctionOnSet(f, r)
    BY <1>1, <1>4
  <1>6. x \in M /\ M \ {x} = {q} \X r /\ g[x] = f[c] /\ \A y \in M : g[y] \in Int
    BY <1>2, <1>4
  <1>7. IsFiniteSet(m) /\ IsFiniteSet(M)
    <2>1. IsFiniteSet(m) /\ IsFiniteSet({q})
      BY <1>2, FS_Subset, FS_Singleton
    <2> QED BY <2>1, FS_Product
  <1>8. \A y \in m : f[y] \in Int
    BY <1>2
  <1> HIDE DEF c, M, x, W
  <1>9. SumFunctionOnSet(f, m) = f[c] + SumFunctionOnSet(f, r)
    BY <1>4, <1>7, <1>8, SumWithout
  <1>10. SumFunctionOnSet(g, M) = g[x] + SumFunctionOnSet(g, M \ {x})
    BY ONLY <1>6, <1>7, SumWithout
  <1> QED BY <1>2, <1>5, <1>6, <1>9, <1>10 DEF M

LEMMA AllocatedIs ==
    ASSUME NEW a \in [Payment -> [Slot -> Nat]], NEW p \in Payment
    PROVE  SumFunction(a[p]) = SumFunctionOnSet(a[p], Slot) /\ SumFunction(a[p]) \in Nat
  <1>1. DOMAIN a[p] = Slot /\ \A s \in Slot : a[p][s] \in Nat
    OBVIOUS
  <1>2. SumFunction(a[p]) = SumFunctionOnSet(a[p], Slot)
    BY <1>1 DEF SumFunction
  <1> QED BY <1>1, <1>2, SumNat, SlotFinite

(* One refund changes.                                                     *)
CountedFor(row, sources, statuses) ==
    IF row.source \in sources /\ row.status \in statuses THEN row.amount ELSE 0

LEMMA GivenTurns ==
    ASSUME NEW a \in [Refund -> RefundRow], NEW b \in [Refund -> RefundRow], NEW sources,
           NEW statuses, NEW r \in Refund, \A q \in Refund : q # r => b[q] = a[q]
    PROVE  Given(b, sources, statuses) = Given(a, sources, statuses)
              - CountedFor(a[r], sources, statuses) + CountedFor(b[r], sources, statuses)
  <1> DEFINE f == [q \in Refund |-> a[q].amount]
             g == [q \in Refund |-> b[q].amount]
             T == {q \in Refund : a[q].source \in sources /\ a[q].status \in statuses}
             U == {q \in Refund : b[q].source \in sources /\ b[q].status \in statuses}
  <1>1. \A q \in Refund : f[q] \in Int /\ g[q] \in Int
    BY DEF RefundRow
  <1>2. \A q \in Refund \ {r} : g[q] = f[q] /\ (q \in U <=> q \in T)
    OBVIOUS
  <1>3. /\ CountedFor(a[r], sources, statuses) = IF r \in T THEN f[r] ELSE 0
        /\ CountedFor(b[r], sources, statuses) = IF r \in U THEN g[r] ELSE 0
    BY DEF CountedFor
  <1>4. T \in SUBSET Refund /\ U \in SUBSET Refund
    OBVIOUS
  <1>5. /\ Given(a, sources, statuses) = SumFunctionOnSet(f, T)
        /\ Given(b, sources, statuses) = SumFunctionOnSet(g, U)
    BY DEF Given
  <1> HIDE DEF f, g, T, U
  <1>6. SumFunctionOnSet(g, U) = SumFunctionOnSet(f, T)
           - (IF r \in T THEN f[r] ELSE 0) + (IF r \in U THEN g[r] ELSE 0)
    BY ONLY <1>1, <1>2, <1>4, SumTurn, RowsFinite, r \in Refund
  <1> QED BY <1>3, <1>5, <1>6

LEMMA GivenType ==
    ASSUME NEW a \in [Refund -> RefundRow], NEW sources, NEW statuses
    PROVE  Given(a, sources, statuses) \in Nat
  <1> DEFINE f == [q \in Refund |-> a[q].amount]
             T == {q \in Refund : a[q].source \in sources /\ a[q].status \in statuses}
  <1>1. \A q \in T : f[q] \in Nat
    BY DEF RefundRow
  <1>2. IsFiniteSet(T)
    BY RowsFinite, FS_Subset
  <1>3. Given(a, sources, statuses) = SumFunctionOnSet(f, T)
    BY DEF Given
  <1> HIDE DEF f, T
  <1> QED BY <1>1, <1>2, <1>3, SumNat

LEMMA GivenGrows ==
    ASSUME NEW a \in [Refund -> RefundRow], NEW sources, NEW S, NEW W, S \subseteq W
    PROVE  Given(a, sources, S) <= Given(a, sources, W)
  <1> DEFINE f == [q \in Refund |-> a[q].amount]
             T == {q \in Refund : a[q].source \in sources /\ a[q].status \in S}
             U == {q \in Refund : a[q].source \in sources /\ a[q].status \in W}
  <1>1. (\A q \in U : f[q] \in Nat) /\ \A q \in T : f[q] \in Nat /\ f[q] <= f[q]
    BY DEF RefundRow
  <1>2. T \in SUBSET Refund /\ U \in SUBSET Refund /\ T \subseteq U
    OBVIOUS
  <1>3. Given(a, sources, S) = SumFunctionOnSet(f, T) /\ Given(a, sources, W) = SumFunctionOnSet(f, U)
    BY DEF Given
  <1> HIDE DEF f, T, U
  <1>4. SumFunctionOnSet(f, T) <= SumFunctionOnSet(f, U)
    BY ONLY <1>1, <1>2, SumGrows, RowsFinite
  <1> QED BY <1>3, <1>4

(* Nothing is allocated, and nothing given back, before it is received.    *)
Unspent == \A p \in Payment : pay[p].status \notin Received => \A s \in Slot : alloc[p][s] = 0

SpentInv == MoneyInv /\ Unspent /\ UsedOnce

Fits(p, allocations, refunds, amount) ==
    /\ SumFunction(allocations[p]) + Given(refunds, {p}, {"COMPLETED"}) <= amount
    /\ Given(refunds, {p}, Live) <= amount

LEMMA UsedIs ==
    /\ UsedOnce <=> \A p \in Payment : Fits(p, alloc, refund, pay[p].amount)
    /\ UsedOnce' <=> \A p \in Payment : Fits(p, alloc', refund', pay'[p].amount)
  BY TotalsAre DEF UsedOnce, Fits, Allocated, RefundedOf, Committed

LEMMA StillWhole ==
    ASSUME MoneyInv, Unspent, NEW p \in Payment, pay[p].status \notin Received
    PROVE  SumFunction(alloc[p]) = 0 /\ \A statuses : Given(refund, {p}, statuses) = 0
  <1>1. alloc \in [Payment -> [Slot -> Nat]]
    BY DEF MoneyInv, TypeInv, TypeOK
  <1>2. SumFunction(alloc[p]) = 0
    BY <1>1, AllocatedIs, SumZero, SlotFinite DEF Unspent
  <1>3. ASSUME NEW statuses PROVE Given(refund, {p}, statuses) = 0
    <2>1. {r \in Refund : refund[r].source \in {p} /\ refund[r].status \in statuses} = {}
      BY DEF MoneyInv, Sourced
    <2> QED BY <2>1, SumEmpty DEF Given
  <1> QED BY <1>2, <1>3

LEMMA SpentPays ==
    ASSUME SpentInv, TypeInv', NEW p \in Payment, PayStep(p)
    PROVE  (Unspent /\ UsedOnce)'
  <1>1. pay \in [Payment -> PaymentRow] /\ pay' \in [Payment -> PaymentRow]
    BY DEF SpentInv, MoneyInv, TypeInv, TypeOK
  <1>2. pay[p].status \notin Received /\ UNCHANGED <<alloc, refund>>
    BY PayStepIs DEF SpentInv, MoneyInv, Undecided, Received
  <1>3. \A q \in Payment : q # p => pay'[q] = pay[q]
    BY <1>1, PayStepIs DEF SpentInv, MoneyInv, Submitted
  <1>4. Unspent'
    BY <1>2, <1>3 DEF SpentInv, Unspent
  <1>5. SumFunction(alloc[p]) = 0 /\ \A statuses : Given(refund, {p}, statuses) = 0
    BY <1>2, StillWhole DEF SpentInv
  <1>6. pay'[p].amount \in Nat
    BY <1>1 DEF PaymentRow
  <1>7. Fits(p, alloc', refund', pay'[p].amount)
    BY <1>2, <1>5, <1>6 DEF Fits
  <1>8. \A q \in Payment : q # p => Fits(q, alloc', refund', pay'[q].amount)
    BY <1>2, <1>3, UsedIs DEF SpentInv
  <1> QED BY <1>4, <1>7, <1>8, UsedIs

LEMMA SpentAllocate ==
    ASSUME SpentInv, TypeInv', NEW v \in Views, NEW p \in Payment, NEW manual \in BOOLEAN,
           NEW credit \in Credit, AllocatePayment(v, p, manual, credit)
    PROVE  (Unspent /\ UsedOnce)'
  <1>0. /\ pay \in [Payment -> PaymentRow] /\ alloc \in [Payment -> [Slot -> Nat]]
        /\ alloc' \in [Payment -> [Slot -> Nat]] /\ pay[p].amount \in Nat
    BY DEF SpentInv, MoneyInv, TypeInv, TypeOK, PaymentRow
  <1>1. /\ pay[p].status \notin Received /\ UNCHANGED refund
        /\ pay' = [pay EXCEPT ![p].status = "COMPLETED", ![p].manual = manual]
    BY DEF AllocatePayment, Undecided, Received
  <1>2. /\ pay'[p].status \in Received /\ pay'[p].amount = pay[p].amount
        /\ \A q \in Payment : q # p => pay'[q] = pay[q]
    BY <1>0, <1>1 DEF PaymentRow, Received
  <1>3. PICK share : Fills(share, v, p)
    BY Allocating DEF SpentInv, MoneyInv
  <1>4. \A q \in Payment : q # p => alloc'[q] = alloc[q]
    BY <1>0, <1>3 DEF Fills
  <1>5. Unspent'
    BY <1>2, <1>4 DEF SpentInv, Unspent
  <1>6. SumFunction(alloc'[p]) <= pay[p].amount
    <2> DEFINE f == [s \in Slot |-> At(share, s)]
               o == SumFunction(Open(v.plans))
    <2>1. alloc'[p] = [s \in Slot |-> alloc[p][s] + At(share, s)]
      BY <1>0, <1>3 DEF Fills
    <2>2. \A s \in Slot : alloc[p][s] = 0
      BY <1>1 DEF SpentInv, Unspent
    <2>3. \A s : At(share, s) \in Nat
      BY <1>3 DEF Fills
    <2>4. \A s \in Slot : alloc'[p][s] = f[s]
      BY <2>1, <2>2, <2>3
    <2>5. SumFunctionOnSet(f, Slot) = SumFunction(share)
      BY <1>3, ShareSum, SlotFinite DEF Fills
    <2>6. o \in Int
      <3>1. v.plans \in DOMAIN plans
        BY ViewIs DEF SpentInv, MoneyInv
      <3>2. /\ DOMAIN Open(v.plans) \subseteq Slot
            /\ \A s \in DOMAIN Open(v.plans) : Open(v.plans)[s] \in Int
        BY <3>1, OpenIs DEF SpentInv, MoneyInv
      <3>3. IsFiniteSet(DOMAIN Open(v.plans))
        BY <3>2, SlotFinite, FS_Subset
      <3> QED BY <3>2, <3>3, SumType DEF SumFunction
    <2> HIDE DEF f, o
    <2>7. SumFunctionOnSet(alloc'[p], Slot) = SumFunctionOnSet(f, Slot)
      BY <2>4, SumSame, SlotFinite
    <2>8. SumFunction(alloc'[p]) = SumFunctionOnSet(alloc'[p], Slot)
      BY <1>0, AllocatedIs
    <2>9. SumFunction(share) = Min({pay[p].amount, o})
      BY <1>3 DEF Fills, o
    <2>10. Min({pay[p].amount, o}) <= pay[p].amount
      <3>1. pay[p].amount \in Int
        BY <1>0
      <3>2. Min({pay[p].amount, o}) = IF pay[p].amount <= o THEN pay[p].amount ELSE o
        BY ONLY <2>6, <3>1, MinOfTwo
      <3> QED BY <2>6, <3>1, <3>2
    <2> QED BY <2>5, <2>7, <2>8, <2>9, <2>10
  <1>7. \A statuses : Given(refund, {p}, statuses) = 0
    BY <1>1, StillWhole DEF SpentInv
  <1>8. SumFunction(alloc'[p]) \in Nat
    BY <1>0, AllocatedIs
  <1>9. Fits(p, alloc', refund', pay'[p].amount)
    <2>1. Given(refund, {p}, {"COMPLETED"}) = 0 /\ Given(refund, {p}, Live) = 0
      BY <1>7
    <2>2. Fits(p, alloc', refund, pay[p].amount)
      BY <1>0, <1>6, <1>8, <2>1 DEF Fits
    <2> QED BY <1>1, <1>2, <2>2
  <1>10. \A q \in Payment : q # p => Fits(q, alloc', refund', pay'[q].amount)
    BY <1>1, <1>2, <1>4, UsedIs DEF SpentInv, Fits
  <1> QED BY <1>5, <1>9, <1>10, UsedIs

(* Nothing is given back by asking, deciding or settling.                  *)
LEMMA AskGives ==
    ASSUME MoneyInv, TypeInv', NEW r \in Refund, AskStep(r), NEW p \in Payment
    PROVE  Given(refund', {p}, {"COMPLETED"}) = Given(refund, {p}, {"COMPLETED"})
  <1>1. refund \in [Refund -> RefundRow] /\ refund' \in [Refund -> RefundRow]
    BY DEF MoneyInv, TypeInv, TypeOK
  <1>2. \A q \in Refund : q # r => refund'[q] = refund[q]
    BY <1>1 DEF AskStep, RequestRefund, DecideRefund
  <1>3. Given(refund', {p}, {"COMPLETED"}) = Given(refund, {p}, {"COMPLETED"})
            - CountedFor(refund[r], {p}, {"COMPLETED"})
            + CountedFor(refund'[r], {p}, {"COMPLETED"})
    BY <1>1, <1>2, GivenTurns
  <1>4. refund[r] \in RefundRow /\ refund'[r] \in RefundRow
    BY <1>1
  <1>5. /\ CountedFor(refund[r], {p}, {"COMPLETED"}) = 0
        /\ CountedFor(refund'[r], {p}, {"COMPLETED"}) = 0
    BY <1>1, <1>4 DEF AskStep, RequestRefund, DecideRefund, CountedFor, RefundRow
  <1>6. Given(refund, {p}, {"COMPLETED"}) \in Nat
    BY <1>1, GivenType
  <1> QED BY <1>3, <1>5, <1>6

LEMMA CompleteGives ==
    ASSUME MoneyInv, TypeInv', NEW v \in Views, NEW c \in Cancellation,
           CompleteCancellation(v, c), NEW p \in Payment
    PROVE  /\ Given(refund', {p}, {"COMPLETED"}) = Given(refund, {p}, {"COMPLETED"})
           /\ Given(refund', {p}, Live) = Given(refund, {p}, Live)
  <1>1. refund \in [Refund -> RefundRow] /\ refund' \in [Refund -> RefundRow]
    BY DEF MoneyInv, TypeInv, TypeOK
  <1>2. CASE UNCHANGED refund
    BY <1>2
  <1>3. CASE ~ UNCHANGED refund
    <2>1. PICK r \in Refund :
             /\ refund[r].status = "NONE"
             /\ refund' = [refund EXCEPT ![r] =
                    [status |-> "PROCESSING", source |-> c,
                     amount |-> cancel[c].paid - cancel[c].deduction]]
      BY <1>3 DEF CompleteCancellation
    <2>2. /\ \A q \in Refund : q # r => refund'[q] = refund[q]
          /\ refund'[r].source = c /\ c \notin Payment
      BY <1>1, <2>1, SourcesDisjoint
    <2>3. ASSUME NEW statuses, "NONE" \notin statuses
          PROVE  Given(refund', {p}, statuses) = Given(refund, {p}, statuses)
      <3>1. Given(refund', {p}, statuses) = Given(refund, {p}, statuses)
              - CountedFor(refund[r], {p}, statuses) + CountedFor(refund'[r], {p}, statuses)
        BY <1>1, <2>2, GivenTurns
      <3>2. CountedFor(refund[r], {p}, statuses) = 0 /\ CountedFor(refund'[r], {p}, statuses) = 0
        BY <2>1, <2>2, <2>3 DEF CountedFor
      <3>3. Given(refund, {p}, statuses) \in Nat
        BY <1>1, GivenType
      <3> QED BY <3>1, <3>2, <3>3
    <2>4. "NONE" \notin Live /\ "NONE" \notin {"COMPLETED"}
      BY DEF Live, Undecided
    <2> QED BY <2>3, <2>4
  <1> QED BY <1>2, <1>3

LEMMA SpentAsk ==
    ASSUME Session = {}, SpentInv, TypeInv', NEW r \in Refund, AskStep(r)
    PROVE  (Unspent /\ UsedOnce)'
  <1>0. refund \in [Refund -> RefundRow] /\ refund' \in [Refund -> RefundRow]
    BY DEF SpentInv, MoneyInv, TypeInv, TypeOK
  <1>1. UNCHANGED <<pay, alloc>>
    BY Untouched DEF SpentInv, MoneyInv
  <1>2. \A q \in Refund : q # r => refund'[q] = refund[q]
    BY <1>0 DEF AskStep, RequestRefund, DecideRefund
  <1>3. ASSUME NEW p \in Payment PROVE Fits(p, alloc', refund', pay'[p].amount)
    <2>1. /\ SumFunction(alloc[p]) + Given(refund, {p}, {"COMPLETED"}) <= pay[p].amount
          /\ Given(refund, {p}, Live) <= pay[p].amount
      BY UsedIs DEF SpentInv, Fits
    <2>2. Given(refund', {p}, Live) = Given(refund, {p}, Live)
              - CountedFor(refund[r], {p}, Live) + CountedFor(refund'[r], {p}, Live)
      BY <1>0, <1>2, GivenTurns
    <2>3. Given(refund, {p}, Live) \in Nat /\ Given(refund, {p}, {"COMPLETED"}) \in Nat
      BY <1>0, GivenType
    <2>4. refund[r] \in RefundRow /\ refund'[r] \in RefundRow
      BY <1>0
    <2>6. Given(refund', {p}, Live) <= pay[p].amount
      <3>1. CASE DecideRefund(r)
        <4>1. /\ refund[r].status \in Live /\ refund'[r].source = refund[r].source
              /\ refund'[r].amount = refund[r].amount /\ refund[r].amount \in Nat
          BY <1>0, <2>4, <3>1 DEF DecideRefund, RefundRow, Live, Undecided
        <4>2. /\ CountedFor(refund[r], {p}, Live) \in Nat /\ CountedFor(refund'[r], {p}, Live) \in Nat
              /\ CountedFor(refund'[r], {p}, Live) <= CountedFor(refund[r], {p}, Live)
          BY <4>1 DEF CountedFor
        <4>3. pay[p].amount \in Nat
          BY DEF SpentInv, MoneyInv, TypeInv, TypeOK, PaymentRow
        <4> QED BY <2>1, <2>2, <2>3, <4>2, <4>3
      <3>2. ASSUME NEW v \in Views, NEW q \in Payment, NEW amount \in Amounts,
                   RequestRefund(v, r, q, amount)
            PROVE  Given(refund', {p}, Live) <= pay[p].amount
        <4>1. v = Snapshot
          BY DEF Views
        <4>2. Given(refund, {q}, Live) + amount <= pay[q].amount
          BY <3>2, <4>1, TotalsAre DEF RequestRefund, Committed
        <4>3. CountedFor(refund[r], {p}, Live) = 0
          BY <3>2 DEF RequestRefund, CountedFor, Live, Undecided
        <4>4. refund'[r].source = q /\ refund'[r].amount = amount /\ amount \in Nat
          BY <1>0, <3>2, AmountsAssumption DEF RequestRefund
        <4>5. CASE q = p
          <5>1. CountedFor(refund'[r], {p}, Live) \in {0, amount}
            BY <4>4 DEF CountedFor
          <5>2. pay[p].amount \in Nat
            BY DEF SpentInv, MoneyInv, TypeInv, TypeOK, PaymentRow
          <5> QED BY <2>1, <2>2, <2>3, <4>2, <4>3, <4>4, <4>5, <5>1, <5>2
        <4>6. CASE q # p
          <5>1. CountedFor(refund'[r], {p}, Live) = 0
            BY <4>4, <4>6 DEF CountedFor
          <5> QED BY <2>1, <2>2, <2>3, <4>3, <5>1
        <4> QED BY <4>5, <4>6
      <3> QED BY <3>1, <3>2 DEF AskStep
    <2>7. Given(refund', {p}, {"COMPLETED"}) = Given(refund, {p}, {"COMPLETED"})
      BY AskGives DEF SpentInv
    <2>8. Fits(p, alloc, refund', pay[p].amount)
      BY <2>1, <2>6, <2>7 DEF Fits
    <2> QED BY <1>1, <2>8
  <1>4. Unspent'
    BY <1>1 DEF SpentInv, Unspent
  <1> QED BY <1>3, <1>4, UsedIs

(* What a refund of one payment takes off its allocations.                 *)
LEMMA BackFrom ==
    ASSUME MoneyInv, TypeInv', NEW r \in Refund, NEW back, Backs(back, r),
           NEW p \in Payment, refund[r].source = p
    PROVE  SumFunction(alloc'[p]) =
              SumFunction(alloc[p]) - Min({refund[r].amount, SumFunction(alloc[p])})
  <1>0. /\ alloc \in [Payment -> [Slot -> Nat]] /\ alloc' \in [Payment -> [Slot -> Nat]]
    BY DEF MoneyInv, TypeInv, TypeOK
  <1> DEFINE active == [x \in Repaid(r) \X Slot |-> alloc[x[1]][x[2]]]
             all == [x \in {p} \X Slot |-> At(back, x)]
             b == [s \in Slot |-> At(back, <<p, s>>)]
             f == alloc[p]
             g == alloc'[p]
  <1>1. Repaid(r) = {p}
    BY DEF Repaid
  <1>2. \A s \in Slot : f[s] \in Int /\ active[<<p, s>>] = f[s]
    BY <1>0, <1>1
  <1>3. \A s \in Slot : b[s] \in Int /\ all[<<p, s>>] = b[s]
    BY DEF Backs
  <1>4. \A s \in Slot : g[s] \in Int /\ b[s] \in Int /\ f[s] = g[s] + b[s]
    <2> SUFFICES ASSUME NEW s \in Slot PROVE g[s] \in Int /\ b[s] \in Int /\ f[s] = g[s] + b[s]
      OBVIOUS
    <2>1. alloc'[p][s] = alloc[p][s] - At(back, <<p, s>>) /\ At(back, <<p, s>>) \in Nat
      BY DEF Backs
    <2>2. alloc[p][s] \in Nat
      BY <1>0
    <2>3. f[s] = alloc[p][s] /\ g[s] = alloc'[p][s] /\ b[s] = At(back, <<p, s>>)
      OBVIOUS
    <2> HIDE DEF f, g, b
    <2> QED BY <2>1, <2>2, <2>3
  <1>5. SumFunction(active) = SumFunctionOnSet(active, {p} \X Slot)
    BY <1>1 DEF SumFunction
  <1>6. SumFunction(back) = Min({refund[r].amount, SumFunction(active)})
    BY DEF Backs
  <1>7. SumFunctionOnSet(all, {p} \X Slot) = SumFunction(back)
    <2>1. /\ IsFiniteSet({p} \X Slot) /\ DOMAIN back \subseteq {p} \X Slot
          /\ \A x \in DOMAIN back : back[x] \in Nat
      BY <1>1, SlotFinite, FS_Singleton, FS_Product DEF Backs
    <2> QED BY <2>1, ShareSum
  <1>8. SumFunction(f) = SumFunctionOnSet(f, Slot) /\ SumFunction(g) = SumFunctionOnSet(g, Slot)
    BY <1>0, AllocatedIs
  <1>9. SumFunction(g) \in Nat /\ SumFunction(f) \in Nat
    BY <1>0, AllocatedIs
  <1> HIDE DEF active, all, b, f, g
  <1>10. SumFunctionOnSet(active, {p} \X Slot) = SumFunctionOnSet(f, Slot)
    BY ONLY ZenonT(60), <1>2, SumPairs, SlotFinite
  <1>11. SumFunctionOnSet(all, {p} \X Slot) = SumFunctionOnSet(b, Slot)
    BY ONLY ZenonT(60), <1>3, SumPairs, SlotFinite
  <1>12. SumFunctionOnSet(f, Slot) = SumFunctionOnSet(g, Slot) + SumFunctionOnSet(b, Slot)
    BY ONLY <1>4, SumPlus, SlotFinite
  <1>13. SumFunctionOnSet(b, Slot) = Min({refund[r].amount, SumFunction(f)})
    BY <1>5, <1>6, <1>7, <1>8, <1>10, <1>11
  <1>14. SumFunctionOnSet(b, Slot) \in Int
    BY <1>3, SumType, SlotFinite
  <1>15. SumFunction(g) = SumFunction(f) - SumFunctionOnSet(b, Slot)
    BY <1>8, <1>9, <1>12, <1>14
  <1> QED BY <1>13, <1>15 DEF f, g

(* A refund of anything else only takes something off.                     *)
LEMMA BackLess ==
    ASSUME MoneyInv, TypeInv', NEW r \in Refund, NEW back, Backs(back, r), NEW p \in Payment
    PROVE  SumFunction(alloc'[p]) <= SumFunction(alloc[p])
  <1>0. /\ alloc \in [Payment -> [Slot -> Nat]] /\ alloc' \in [Payment -> [Slot -> Nat]]
    BY DEF MoneyInv, TypeInv, TypeOK
  <1> DEFINE f == alloc[p]
             g == alloc'[p]
  <1>1. \A s \in Slot : g[s] \in Nat /\ f[s] \in Nat /\ g[s] <= f[s]
    <2> SUFFICES ASSUME NEW s \in Slot PROVE alloc'[p][s] <= alloc[p][s]
      BY <1>0
    <2>1. alloc'[p][s] = alloc[p][s] - At(back, <<p, s>>) /\ At(back, <<p, s>>) \in Nat
      BY DEF Backs
    <2>2. alloc[p][s] \in Nat
      BY <1>0
    <2> QED BY <2>1, <2>2
  <1>2. SumFunction(f) = SumFunctionOnSet(f, Slot) /\ SumFunction(g) = SumFunctionOnSet(g, Slot)
    BY <1>0, AllocatedIs
  <1> HIDE DEF f, g
  <1>3. SumFunctionOnSet(g, Slot) <= SumFunctionOnSet(f, Slot)
    BY <1>1, SumLeq, SlotFinite
  <1> QED BY <1>2, <1>3 DEF f, g

LEMMA SpentProcess ==
    ASSUME SpentInv, TypeInv', NEW v \in Views, NEW r \in Refund, ProcessRefund(v, r)
    PROVE  (Unspent /\ UsedOnce)'
  <1>0. refund \in [Refund -> RefundRow] /\ refund' \in [Refund -> RefundRow]
    BY DEF SpentInv, MoneyInv, TypeInv, TypeOK
  <1>1. PICK back : Backs(back, r)
    BY Processing DEF SpentInv, MoneyInv
  <1>2. /\ refund[r].status = "PROCESSING" /\ refund[r].amount \in Nat
        /\ refund'[r].status = "COMPLETED" /\ refund'[r].amount = refund[r].amount
        /\ refund'[r].source = refund[r].source
        /\ \A q \in Refund : q # r => refund'[q] = refund[q]
    BY <1>0 DEF ProcessRefund, RefundRow
  <1>3. \A p \in Payment : /\ pay'[p].amount = pay[p].amount
                           /\ pay'[p].status \notin Received => pay[p].status \notin Received
    BY ProcessPays DEF SpentInv, Received
  <1>4. /\ alloc \in [Payment -> [Slot -> Nat]] /\ alloc' \in [Payment -> [Slot -> Nat]]
        /\ \A p \in Payment : pay[p].amount \in Nat
    BY DEF SpentInv, MoneyInv, TypeInv, TypeOK, PaymentRow
  <1>5. Unspent'
    <2> SUFFICES ASSUME NEW p \in Payment, NEW s \in Slot, pay'[p].status \notin Received
                 PROVE  alloc'[p][s] = 0
      BY DEF Unspent
    <2>1. /\ alloc'[p][s] = alloc[p][s] - At(back, <<p, s>>) /\ At(back, <<p, s>>) \in Nat
          /\ At(back, <<p, s>>) <= alloc[p][s]
      BY <1>1 DEF Backs
    <2>2. alloc[p][s] = 0
      BY <1>3 DEF SpentInv, Unspent
    <2> QED BY <2>1, <2>2
  <1>6. ASSUME NEW p \in Payment PROVE Fits(p, alloc', refund', pay[p].amount)
    <2>1. /\ SumFunction(alloc[p]) + Given(refund, {p}, {"COMPLETED"}) <= pay[p].amount
          /\ Given(refund, {p}, Live) <= pay[p].amount
      BY UsedIs DEF SpentInv, Fits
    <2>2. Given(refund', {p}, Live) = Given(refund, {p}, Live)
              - CountedFor(refund[r], {p}, Live) + CountedFor(refund'[r], {p}, Live)
      BY <1>0, <1>2, GivenTurns
    <2>3. Given(refund', {p}, {"COMPLETED"}) = Given(refund, {p}, {"COMPLETED"})
              - CountedFor(refund[r], {p}, {"COMPLETED"})
              + CountedFor(refund'[r], {p}, {"COMPLETED"})
      BY <1>0, <1>2, GivenTurns
    <2>4. /\ Given(refund, {p}, Live) \in Nat /\ Given(refund, {p}, {"COMPLETED"}) \in Nat
          /\ Given(refund', {p}, {"COMPLETED"}) \in Nat
      BY <1>0, GivenType
    <2>5. /\ CountedFor(refund[r], {p}, Live) = CountedFor(refund'[r], {p}, Live)
          /\ CountedFor(refund[r], {p}, Live) \in Nat
      BY <1>2 DEF CountedFor, Live, Undecided
    <2>6. CountedFor(refund[r], {p}, {"COMPLETED"}) = 0
      BY <1>2 DEF CountedFor
    <2>7. Given(refund', {p}, Live) <= pay[p].amount
      BY <2>1, <2>2, <2>4, <2>5
    <2>8. Given(refund', {p}, {"COMPLETED"}) <= Given(refund', {p}, Live)
      <3>1. {"COMPLETED"} \subseteq Live
        BY DEF Live
      <3> QED BY <1>0, <3>1, GivenGrows
    <2>9. SumFunction(alloc[p]) \in Nat /\ SumFunction(alloc'[p]) \in Nat
      BY <1>4, AllocatedIs
    <2>10. SumFunction(alloc'[p]) + Given(refund', {p}, {"COMPLETED"}) <= pay[p].amount
      <3>1. CASE refund[r].source = p
        <4>1. CountedFor(refund'[r], {p}, {"COMPLETED"}) = refund[r].amount
          BY <1>2, <3>1 DEF CountedFor
        <4>2. SumFunction(alloc'[p]) =
                 SumFunction(alloc[p]) - Min({refund[r].amount, SumFunction(alloc[p])})
          BY <1>1, <3>1, BackFrom DEF SpentInv
        <4>3. Min({refund[r].amount, SumFunction(alloc[p])}) =
                 IF refund[r].amount <= SumFunction(alloc[p]) THEN refund[r].amount
                                                              ELSE SumFunction(alloc[p])
          <5>1. refund[r].amount \in Int /\ SumFunction(alloc[p]) \in Int
            BY <1>2, <2>9
          <5> QED BY ONLY <5>1, MinOfTwo
        <4>4. Given(refund', {p}, Live) \in Nat /\ pay[p].amount \in Nat
          BY <1>0, <1>4, GivenType
        <4>5. CASE refund[r].amount <= SumFunction(alloc[p])
          BY <1>2, <2>1, <2>3, <2>4, <2>6, <2>9, <4>1, <4>2, <4>3, <4>4, <4>5
        <4>6. CASE ~ (refund[r].amount <= SumFunction(alloc[p]))
          <5>1. SumFunction(alloc'[p]) = 0
            BY <2>9, <4>2, <4>3, <4>6
          <5> QED BY <2>4, <2>7, <2>8, <4>4, <5>1
        <4> QED BY <4>5, <4>6
      <3>2. CASE refund[r].source # p
        <4>1. CountedFor(refund'[r], {p}, {"COMPLETED"}) = 0
          BY <1>2, <3>2 DEF CountedFor
        <4>2. SumFunction(alloc'[p]) <= SumFunction(alloc[p])
          BY <1>1, BackLess DEF SpentInv
        <4>3. pay[p].amount \in Nat
          BY <1>4
        <4> QED BY <2>1, <2>3, <2>4, <2>6, <2>9, <4>1, <4>2, <4>3
      <3> QED BY <3>1, <3>2
    <2> QED BY <2>7, <2>10 DEF Fits
  <1> QED BY <1>3, <1>5, <1>6, UsedIs

LEMMA SpentComplete ==
    ASSUME SpentInv, TypeInv', NEW v \in Views, NEW c \in Cancellation, CompleteCancellation(v, c)
    PROVE  (Unspent /\ UsedOnce)'
  <1>1. UNCHANGED <<pay, alloc>>
    BY DEF CompleteCancellation
  <1>2. Unspent'
    BY <1>1 DEF SpentInv, Unspent
  <1>3. \A p \in Payment : /\ Given(refund', {p}, Live) = Given(refund, {p}, Live)
                           /\ Given(refund', {p}, {"COMPLETED"}) = Given(refund, {p}, {"COMPLETED"})
    BY CompleteGives DEF SpentInv
  <1> QED BY <1>1, <1>2, <1>3, UsedIs DEF SpentInv, Fits

LEMMA SpentStep == ASSUME Session = {}, SpentInv, [Next]_vars PROVE SpentInv'
  <1>1. MoneyInv' /\ TypeInv'
    BY MoneyStep DEF SpentInv, MoneyInv
  <1>2. ASSUME UNCHANGED <<pay, alloc, refund>> PROVE (Unspent /\ UsedOnce)'
    BY <1>2, UsedIs DEF SpentInv, Unspent
  <1>3. CASE Next
    <2>1. (Unspent /\ UsedOnce)'
      BY <1>1, <1>2, <1>3, SpentPays, SpentAllocate, SpentAsk, SpentProcess, SpentComplete,
         Steps, Untouched DEF SpentInv, MoneyInv, rows
    <2> QED BY <1>1, <2>1 DEF SpentInv
  <1>4. CASE UNCHANGED vars
    BY <1>1, <1>2, <1>4 DEF SpentInv, vars, rows
  <1> QED BY <1>3, <1>4

LEMMA SpentStart == Init => SpentInv
  <1> SUFFICES ASSUME Init PROVE Unspent /\ UsedOnce
    BY MoneyStart DEF SpentInv
  <1>1. Unspent
    BY DEF Init, Unspent
  <1>2. ASSUME NEW p \in Payment PROVE Fits(p, alloc, refund, pay[p].amount)
    <2>1. pay[p].status \notin Received /\ pay[p].amount = 0
      BY DEF Init, Received
    <2>2. SumFunction(alloc[p]) = 0 /\ \A statuses : Given(refund, {p}, statuses) = 0
      BY <1>1, <2>1, MoneyStart, StillWhole
    <2>3. Given(refund, {p}, {"COMPLETED"}) = 0 /\ Given(refund, {p}, Live) = 0
      BY <2>2
    <2> QED BY <2>1, <2>2, <2>3 DEF Fits
  <1> QED BY <1>1, <1>2, UsedIs

(* Where requests do not overlap, what of a payment still pays installments *)
(* and what was given back of it never exceed it, and neither do all the    *)
(* refunds asked for (allocate_payment, request_refund, process_refund).    *)
THEOREM AccountUsedOnce == ASSUME Session = {} PROVE Spec => []UsedOnce
  <1>1. SpentInv => UsedOnce
    BY DEF SpentInv
  <1>2. SpentInv /\ [Next]_vars => SpentInv'
    BY SpentStep
  <1> QED BY SpentStart, <1>1, <1>2, PTL DEF Spec

(***************************************************************************)
(* A payment is called refunded exactly when it was.                       *)
(***************************************************************************)
(* What is submitted is worth something.                                   *)
Worth == \A p \in Payment : pay[p].status # "NONE" => pay[p].amount > 0

ToldInv == SpentInv /\ Worth /\ RefundsTold

Told(p, row, allocations, refunds) ==
    /\ row.status = "REFUNDED" => SumFunction(allocations[p]) = 0
    /\ row.status \in Received /\ Given(refunds, {p}, {"COMPLETED"}) = row.amount
          => row.status = "REFUNDED"

LEMMA ToldIs ==
    /\ RefundsTold <=> \A p \in Payment : Told(p, pay[p], alloc, refund)
    /\ RefundsTold' <=> \A p \in Payment : Told(p, pay'[p], alloc', refund')
  BY TotalsAre DEF RefundsTold, Told, Allocated, RefundedOf

LEMMA ToldPays ==
    ASSUME ToldInv, TypeInv', NEW p \in Payment, PayStep(p)
    PROVE  (Worth /\ RefundsTold)'
  <1>0. pay \in [Payment -> PaymentRow]
    BY DEF ToldInv, SpentInv, MoneyInv, TypeInv, TypeOK
  <1>1. UNCHANGED <<alloc, refund>> /\ pay'[p].status \in {"PENDING", "PROCESSING", "FAILED"}
    BY PayStepIs, PayStepOpen DEF ToldInv, SpentInv, MoneyInv
  <1>2. \A q \in Payment : q # p => pay'[q] = pay[q]
    BY <1>0, PayStepIs DEF ToldInv, SpentInv, MoneyInv, Submitted
  <1>3. pay'[p].amount > 0
    <2>1. CASE \E amount \in Amounts : pay' = Submitted(p, amount)
      BY <1>0, <2>1, AmountsAssumption DEF Submitted, PaymentRow
    <2>2. CASE \E verdict \in {"MATCHED", "MISMATCHED"} : ReconcilePayment(p, verdict)
      BY <1>0, <2>2 DEF ReconcilePayment, PaymentRow, Undecided, ToldInv, Worth
    <2>3. CASE FailPayment(p)
      BY <1>0, <2>3 DEF FailPayment, PaymentRow, Undecided, ToldInv, Worth
    <2> QED BY <2>1, <2>2, <2>3 DEF PayStep, CreateBookingPayment, CreateCollectionPayment
  <1>4. Worth'
    BY <1>2, <1>3 DEF ToldInv, Worth
  <1>5. Told(p, pay'[p], alloc', refund')
    BY <1>1 DEF Told, Received
  <1>6. \A q \in Payment : q # p => Told(q, pay'[q], alloc', refund')
    BY <1>1, <1>2, ToldIs DEF ToldInv
  <1> QED BY <1>4, <1>5, <1>6, ToldIs

LEMMA ToldAllocate ==
    ASSUME ToldInv, TypeInv', NEW v \in Views, NEW p \in Payment, NEW manual \in BOOLEAN,
           NEW credit \in Credit, AllocatePayment(v, p, manual, credit)
    PROVE  (Worth /\ RefundsTold)'
  <1>0. pay \in [Payment -> PaymentRow] /\ alloc \in [Payment -> [Slot -> Nat]]
    BY DEF ToldInv, SpentInv, MoneyInv, TypeInv, TypeOK
  <1>1. /\ pay[p].status \in Undecided /\ UNCHANGED refund
        /\ pay' = [pay EXCEPT ![p].status = "COMPLETED", ![p].manual = manual]
    BY DEF AllocatePayment
  <1>2. /\ pay'[p].status = "COMPLETED" /\ pay'[p].amount = pay[p].amount /\ pay[p].amount > 0
        /\ \A q \in Payment : q # p => pay'[q] = pay[q]
    BY <1>0, <1>1 DEF PaymentRow, Undecided, ToldInv, Worth
  <1>3. \A q \in Payment : q # p => alloc'[q] = alloc[q]
    <2>1. PICK share : Fills(share, v, p)
      BY Allocating DEF ToldInv, SpentInv, MoneyInv
    <2> QED BY <1>0, <2>1 DEF Fills
  <1>4. Given(refund, {p}, {"COMPLETED"}) = 0
    BY <1>1, StillWhole DEF ToldInv, SpentInv, Undecided, Received
  <1>5. Told(p, pay'[p], alloc', refund')
    BY <1>1, <1>2, <1>4 DEF Told
  <1>6. \A q \in Payment : q # p => Told(q, pay'[q], alloc', refund')
    BY <1>1, <1>2, <1>3, ToldIs DEF ToldInv, Told
  <1>7. Worth'
    BY <1>2 DEF ToldInv, Worth
  <1> QED BY <1>5, <1>6, <1>7, ToldIs

(* Nothing is given back by asking.                                        *)
LEMMA ToldWaits ==
    ASSUME ToldInv, UNCHANGED <<pay, alloc>>,
           \A p \in Payment :
              Given(refund', {p}, {"COMPLETED"}) = Given(refund, {p}, {"COMPLETED"})
    PROVE  (Worth /\ RefundsTold)'
  BY ToldIs DEF ToldInv, Worth, Told

LEMMA ToldProcess ==
    ASSUME Session = {}, ToldInv, SpentInv', NEW v \in Views, NEW r \in Refund,
           ProcessRefund(v, r)
    PROVE  (Worth /\ RefundsTold)'
  <1>1. refund \in [Refund -> RefundRow] /\ refund' \in [Refund -> RefundRow]
    BY DEF ToldInv, SpentInv, MoneyInv, TypeInv, TypeOK
  <1>2. /\ pay \in [Payment -> PaymentRow] /\ \A p \in Payment : pay[p].amount \in Nat
        /\ alloc \in [Payment -> [Slot -> Nat]] /\ alloc' \in [Payment -> [Slot -> Nat]]
    BY DEF ToldInv, SpentInv, MoneyInv, TypeInv, TypeOK, PaymentRow
  <1>3. PICK back : Backs(back, r)
    BY Processing DEF ToldInv, SpentInv, MoneyInv
  <1>4. /\ refund[r].status = "PROCESSING" /\ refund[r].amount \in Nat
        /\ refund'[r].status = "COMPLETED" /\ refund'[r].amount = refund[r].amount
        /\ refund'[r].source = refund[r].source
        /\ \A q \in Refund : q # r => refund'[q] = refund[q]
    BY <1>1 DEF ProcessRefund, RefundRow
  <1>5. \A p \in Payment :
           \/ pay'[p] = pay[p]
           \/ /\ pay[p].status \in Received /\ pay'[p].status = "REFUNDED"
              /\ pay'[p].amount = pay[p].amount
    BY ProcessPays DEF ToldInv, SpentInv
  <1>6. Worth'
    BY <1>5 DEF ToldInv, Worth, Received
  <1>7. v = Snapshot
    BY DEF Views
  <1>8. ASSUME NEW p \in Payment PROVE Told(p, pay'[p], alloc', refund')
    <2> DEFINE before == Given(refund, {p}, {"COMPLETED"})
               after == Given(refund', {p}, {"COMPLETED"})
    <2>1. /\ SumFunction(alloc[p]) \in Nat /\ SumFunction(alloc'[p]) \in Nat
          /\ SumFunction(alloc'[p]) <= SumFunction(alloc[p])
      BY <1>2, <1>3, AllocatedIs, BackLess DEF ToldInv, SpentInv, MoneyInv
    <2>2. before \in Nat /\ after \in Nat
      BY <1>1, GivenType
    <2>3. /\ refund[r].source = p => after = before + refund[r].amount
          /\ refund[r].source # p => after = before
      <3>1. Given(refund', {p}, {"COMPLETED"}) = Given(refund, {p}, {"COMPLETED"})
                - CountedFor(refund[r], {p}, {"COMPLETED"})
                + CountedFor(refund'[r], {p}, {"COMPLETED"})
        BY <1>1, <1>4, GivenTurns
      <3>2. /\ CountedFor(refund[r], {p}, {"COMPLETED"}) = 0
            /\ refund[r].source = p =>
                  CountedFor(refund'[r], {p}, {"COMPLETED"}) = refund[r].amount
            /\ refund[r].source # p => CountedFor(refund'[r], {p}, {"COMPLETED"}) = 0
        BY <1>4 DEF CountedFor
      <3> QED BY <1>4, <2>2, <3>1, <3>2
    <2>4. Told(p, pay[p], alloc, refund)
      BY ToldIs DEF ToldInv
    <2>5. SumFunction(alloc'[p]) + after <= pay'[p].amount
      BY UsedIs DEF SpentInv, Fits
    <2>6. FullyRefunded(v, r, p) <=>
             \/ SumFunction(alloc[p]) = 0
             \/ refund[r].source = p /\ before + refund[r].amount >= pay[p].amount
      <3>1. p \notin v.allocated <=> SumFunction(alloc[p]) = 0
        BY <1>7, <2>1 DEF Snapshot, Allocated
      <3>2. RefundTotal(v, {p}, {"COMPLETED"}) = before
        BY <1>7, TotalsAre
      <3> QED BY <3>1, <3>2 DEF FullyRefunded
    <2>7. pay'[p] = IF p \in Repaid(r) /\ FullyRefunded(v, r, p)
                    THEN [pay[p] EXCEPT !.status = "REFUNDED"] ELSE pay[p]
      BY DEF ProcessRefund
    <2>8. pay'[p].amount = pay[p].amount
      BY <1>5
    <2> HIDE DEF before, after
    <2>9. ASSUME pay'[p].status = "REFUNDED" PROVE SumFunction(alloc'[p]) = 0
      <3>1. CASE pay[p].status = "REFUNDED"
        BY <2>1, <2>4, <3>1 DEF Told
      <3>2. CASE pay[p].status # "REFUNDED"
        <4>1. FullyRefunded(v, r, p)
          BY <2>7, <2>9, <3>2
        <4>2. CASE SumFunction(alloc[p]) = 0
          BY <2>1, <4>2
        <4>3. CASE refund[r].source = p /\ before + refund[r].amount >= pay[p].amount
          <5>1. after >= pay[p].amount /\ SumFunction(alloc'[p]) + after <= pay[p].amount
            BY <2>3, <2>5, <2>8, <4>3
          <5>2. pay[p].amount \in Nat
            BY <1>2
          <5> QED BY <2>1, <2>2, <5>1, <5>2
        <4> QED BY <2>6, <4>1, <4>2, <4>3
      <3> QED BY <3>1, <3>2
    <2>10. ASSUME pay'[p].status \in Received, after = pay'[p].amount
           PROVE  pay'[p].status = "REFUNDED"
      <3>1. CASE refund[r].source = p
        <4>1. p \in Repaid(r)
          BY <3>1 DEF Repaid
        <4>2. FullyRefunded(v, r, p)
          BY <1>2, <2>3, <2>6, <2>8, <2>10, <3>1
        <4> QED BY <1>2, <2>7, <4>1, <4>2 DEF PaymentRow
      <3>2. CASE refund[r].source # p
        <4>1. before = pay[p].amount /\ pay[p].status \in Received
          BY <1>5, <2>2, <2>3, <2>8, <2>10, <3>2
        <4>2. pay[p].status = "REFUNDED"
          BY <2>4, <4>1 DEF Told, before
        <4> QED BY <1>5, <4>2
      <3> QED BY <3>1, <3>2
    <2> QED BY <2>9, <2>10 DEF Told, after
  <1> QED BY <1>6, <1>8, ToldIs

LEMMA ToldStep == ASSUME Session = {}, ToldInv, [Next]_vars PROVE ToldInv'
  <1>1. SpentInv' /\ TypeInv'
    BY SpentStep DEF ToldInv, SpentInv, MoneyInv
  <1>2. ASSUME UNCHANGED <<pay, alloc, refund>> PROVE (Worth /\ RefundsTold)'
    BY <1>2, ToldIs DEF ToldInv, Worth
  <1>3. ASSUME NEW r \in Refund, AskStep(r) PROVE (Worth /\ RefundsTold)'
    BY <1>1, <1>3, AskGives, ToldWaits, Untouched DEF ToldInv, SpentInv, MoneyInv
  <1>4. ASSUME NEW v \in Views, NEW c \in Cancellation, CompleteCancellation(v, c)
        PROVE  (Worth /\ RefundsTold)'
    BY <1>1, <1>4, CompleteGives, ToldWaits, Untouched DEF ToldInv, SpentInv, MoneyInv
  <1>5. CASE Next
    <2>1. (Worth /\ RefundsTold)'
      BY <1>1, <1>2, <1>3, <1>4, <1>5, ToldPays, ToldAllocate, ToldProcess, Steps, Untouched
         DEF ToldInv, SpentInv, MoneyInv, rows
    <2> QED BY <1>1, <2>1 DEF ToldInv
  <1>6. CASE UNCHANGED vars
    BY <1>1, <1>2, <1>6 DEF ToldInv, vars, rows
  <1> QED BY <1>5, <1>6

LEMMA ToldStart == Init => ToldInv
  BY SpentStart DEF Init, ToldInv, Worth, RefundsTold, Received

(* Where requests do not overlap, a refunded payment pays no installment    *)
(* any more, and a payment that was given back in full, in however many     *)
(* refunds, is called refunded (allocate_payment, request_refund,           *)
(* process_refund, complete_cancellation).                                  *)
THEOREM AccountRefunded == ASSUME Session = {} PROVE Spec => []RefundsTold
  <1>1. ToldInv => RefundsTold
    BY DEF ToldInv
  <1>2. ToldInv /\ [Next]_vars => ToldInv'
    BY ToldStep
  <1> QED BY ToldStart, <1>1, <1>2, PTL DEF Spec

(***************************************************************************)
(* The balance shown is what is owed.                                      *)
(***************************************************************************)
Billed(entries, type) ==
    SumFunctionOnSet([e \in entries |-> e.amount], {e \in entries : e.type = type})

Balance(entries) == Billed(entries, "DEBIT") - Billed(entries, "CREDIT")

Charged(charges) ==
    SumFunctionOnSet([c \in Charge |-> charges[c].amount],
                     {c \in Charge : charges[c].status = "APPLIED"})

Done(cancels) == {c \in Cancellation : cancels[c].status = "COMPLETED"}

Owing(cancels) == IF Done(cancels) = {} THEN Price
                  ELSE SumFunction([c \in Done(cancels) |-> cancels[c].deduction])

Sources == Payment \cup Cancellation

Owed(cancels, charges, payments, refunds) ==
    Owing(cancels) + Charged(charges) - Taken(payments, Received)
        + Given(refunds, Sources, {"COMPLETED"})

LEMMA LedgerIs ==
    /\ LedgerAgrees <=> Balance(ledger) = Owed(cancel, charge, pay, refund)
    /\ LedgerAgrees' <=> Balance(ledger') = Owed(cancel', charge', pay', refund')
  <1>1. /\ EntryTotal("DEBIT") - EntryTotal("CREDIT") = Balance(ledger)
        /\ (EntryTotal("DEBIT") - EntryTotal("CREDIT"))' = Balance(ledger')
    BY DEF EntryTotal, Balance, Billed
  <1>2. ContractOwed = Owing(cancel) /\ ContractOwed' = Owing(cancel')
    BY DEF ContractOwed, Owing, Done
  <1>3. ChargesOwed = Charged(charge) /\ ChargesOwed' = Charged(charge')
    BY DEF ChargesOwed, Charged
  <1> QED BY <1>1, <1>2, <1>3, TotalsAre DEF LedgerAgrees, Owed, Sources

LEMMA BilledType ==
    ASSUME NEW entries \in SUBSET Entry, IsFiniteSet(entries), NEW type
    PROVE  Billed(entries, type) \in Nat
  <1> DEFINE f == [e \in entries |-> e.amount]
             T == {e \in entries : e.type = type}
  <1>1. \A e \in T : f[e] \in Nat
    BY DEF Entry
  <1>2. IsFiniteSet(T)
    BY FS_Subset
  <1>3. Billed(entries, type) = SumFunctionOnSet(f, T)
    BY DEF Billed
  <1> HIDE DEF f, T
  <1> QED BY <1>1, <1>2, <1>3, SumNat

(* An entry is posted.                                                     *)
LEMMA BilledAdds ==
    ASSUME NEW entries \in SUBSET Entry, IsFiniteSet(entries), NEW x \in Entry, x \notin entries,
           NEW type
    PROVE  Billed(entries \cup {x}, type) =
              Billed(entries, type) + (IF x.type = type THEN x.amount ELSE 0)
  <1> DEFINE f == [e \in entries |-> e.amount]
             g == [e \in entries \cup {x} |-> e.amount]
             T == {e \in entries : e.type = type}
             U == {e \in entries \cup {x} : e.type = type}
  <1>1. \A e \in T : f[e] = g[e]
    OBVIOUS
  <1>2. IsFiniteSet(T) /\ x \notin T
    BY FS_Subset
  <1>3. \A e \in T \cup {x} : g[e] \in Int
    BY DEF Entry
  <1>4. U = (IF x.type = type THEN T \cup {x} ELSE T) /\ g[x] = x.amount /\ x.amount \in Nat
    BY DEF Entry
  <1>5. /\ Billed(entries, type) = SumFunctionOnSet(f, T)
        /\ Billed(entries \cup {x}, type) = SumFunctionOnSet(g, U)
    BY DEF Billed
  <1>6. Billed(entries, type) \in Nat
    BY BilledType
  <1> HIDE DEF f, g, T, U
  <1>7. SumFunctionOnSet(f, T) = SumFunctionOnSet(g, T)
    BY <1>1, <1>2, SumSame
  <1>8. SumFunctionOnSet(g, T \cup {x}) = g[x] + SumFunctionOnSet(g, T)
    BY <1>2, <1>3, SumAdd
  <1>9. CASE x.type = type
    BY <1>4, <1>5, <1>6, <1>7, <1>8, <1>9
  <1>10. CASE x.type # type
    BY <1>4, <1>5, <1>6, <1>7, <1>10
  <1> QED BY <1>9, <1>10

LEMMA BalanceAdds ==
    ASSUME NEW entries \in SUBSET Entry, IsFiniteSet(entries), NEW key \in EntryKey,
           NEW amount \in Nat, \A e \in entries : e.key # key
    PROVE  /\ Balance(entries) \in Int
           /\ Balance(entries \cup {Debit(key, amount)}) = Balance(entries) + amount
           /\ Balance(entries \cup {CreditEntry(key, amount)}) = Balance(entries) - amount
           /\ entries \cup {Debit(key, amount)} \in SUBSET Entry
           /\ entries \cup {CreditEntry(key, amount)} \in SUBSET Entry
           /\ IsFiniteSet(entries \cup {Debit(key, amount)})
           /\ IsFiniteSet(entries \cup {CreditEntry(key, amount)})
  <1> DEFINE d == Debit(key, amount)
             c == CreditEntry(key, amount)
  <1>1. d \in Entry /\ c \in Entry
    BY EntryType
  <1>2. /\ d.key = key /\ d.type = "DEBIT" /\ d.amount = amount
        /\ c.key = key /\ c.type = "CREDIT" /\ c.amount = amount
    BY DEF Debit, CreditEntry
  <1>3. d \notin entries /\ c \notin entries
    BY <1>2
  <1>4. Billed(entries, "DEBIT") \in Nat /\ Billed(entries, "CREDIT") \in Nat
    BY BilledType
  <1> HIDE DEF d, c
  <1>5. /\ Billed(entries \cup {d}, "DEBIT") = Billed(entries, "DEBIT") + amount
        /\ Billed(entries \cup {d}, "CREDIT") = Billed(entries, "CREDIT")
    <2>1. Billed(entries \cup {d}, "DEBIT") = Billed(entries, "DEBIT") + amount
      BY <1>1, <1>2, <1>3, BilledAdds
    <2>2. Billed(entries \cup {d}, "CREDIT") = Billed(entries, "CREDIT") + 0
      BY <1>1, <1>2, <1>3, BilledAdds
    <2> QED BY <1>4, <2>1, <2>2
  <1>6. /\ Billed(entries \cup {c}, "CREDIT") = Billed(entries, "CREDIT") + amount
        /\ Billed(entries \cup {c}, "DEBIT") = Billed(entries, "DEBIT")
    <2>1. Billed(entries \cup {c}, "CREDIT") = Billed(entries, "CREDIT") + amount
      BY <1>1, <1>2, <1>3, BilledAdds
    <2>2. Billed(entries \cup {c}, "DEBIT") = Billed(entries, "DEBIT") + 0
      BY <1>1, <1>2, <1>3, BilledAdds
    <2> QED BY <1>4, <2>1, <2>2
  <1>7. IsFiniteSet(entries \cup {d}) /\ IsFiniteSet(entries \cup {c})
    BY FS_AddElement
  <1> QED BY <1>1, <1>4, <1>5, <1>6, <1>7 DEF Balance, d, c

(* One charge changes.                                                     *)
LEMMA ChargedTurns ==
    ASSUME NEW a \in [Charge -> ChargeRow], NEW b \in [Charge -> ChargeRow], NEW c \in Charge,
           \A q \in Charge : q # c => b[q] = a[q]
    PROVE  Charged(b) = Charged(a) - Counted(a[c], {"APPLIED"}) + Counted(b[c], {"APPLIED"})
  <1> DEFINE f == [q \in Charge |-> a[q].amount]
             g == [q \in Charge |-> b[q].amount]
             T == {q \in Charge : a[q].status = "APPLIED"}
             U == {q \in Charge : b[q].status = "APPLIED"}
  <1>1. \A q \in Charge : f[q] \in Int /\ g[q] \in Int
    BY DEF ChargeRow
  <1>2. \A q \in Charge \ {c} : g[q] = f[q] /\ (q \in U <=> q \in T)
    OBVIOUS
  <1>3. /\ Counted(a[c], {"APPLIED"}) = IF c \in T THEN f[c] ELSE 0
        /\ Counted(b[c], {"APPLIED"}) = IF c \in U THEN g[c] ELSE 0
    BY DEF Counted
  <1>4. T \in SUBSET Charge /\ U \in SUBSET Charge
    OBVIOUS
  <1>5. Charged(a) = SumFunctionOnSet(f, T) /\ Charged(b) = SumFunctionOnSet(g, U)
    BY DEF Charged
  <1> HIDE DEF f, g, T, U
  <1>6. SumFunctionOnSet(g, U) = SumFunctionOnSet(f, T)
           - (IF c \in T THEN f[c] ELSE 0) + (IF c \in U THEN g[c] ELSE 0)
    BY ONLY <1>1, <1>2, <1>4, SumTurn, RowsFinite, c \in Charge
  <1> QED BY <1>3, <1>5, <1>6

LEMMA ChargedType == ASSUME NEW a \in [Charge -> ChargeRow] PROVE Charged(a) \in Nat
  <1> DEFINE f == [q \in Charge |-> a[q].amount]
             T == {q \in Charge : a[q].status = "APPLIED"}
  <1>1. \A q \in T : f[q] \in Nat
    BY DEF ChargeRow
  <1>2. IsFiniteSet(T)
    BY RowsFinite, FS_Subset
  <1>3. Charged(a) = SumFunctionOnSet(f, T)
    BY DEF Charged
  <1> HIDE DEF f, T
  <1> QED BY <1>1, <1>2, <1>3, SumNat

LEMMA OwingIs ==
    ASSUME NEW a \in [Cancellation -> CancellationRow]
    PROVE  /\ Owing(a) \in Nat
           /\ Done(a) = {} => Owing(a) = Price
           /\ \A c : Done(a) = {c} => Owing(a) = a[c].deduction
  <1> DEFINE f == [c \in Done(a) |-> a[c].deduction]
  <1>1. /\ DOMAIN f = Done(a) /\ Done(a) \in SUBSET Cancellation
        /\ \A c \in Done(a) : f[c] \in Nat /\ f[c] = a[c].deduction
    BY DEF Done, CancellationRow
  <1>2. IsFiniteSet(Done(a))
    BY <1>1, RowsFinite, FS_Subset
  <1>3. Owing(a) = IF Done(a) = {} THEN Price ELSE SumFunctionOnSet(f, Done(a))
    BY DEF Owing, SumFunction
  <1> HIDE DEF f
  <1>4. Owing(a) \in Nat
    BY <1>1, <1>2, <1>3, SumNat, PriceAssumption
  <1>5. ASSUME NEW c, Done(a) = {c} PROVE Owing(a) = a[c].deduction
    <2>1. IsFiniteSet({}) /\ c \notin {} /\ {} \cup {c} = {c}
      BY FS_EmptySet
    <2>2. f[c] \in Nat /\ \A y \in {} \cup {c} : f[y] \in Int
      BY <1>1, <1>5
    <2>3. SumFunctionOnSet(f, {} \cup {c}) = f[c] + SumFunctionOnSet(f, {})
      BY ONLY <2>1, <2>2, SumAdd
    <2>4. SumFunctionOnSet(f, {}) = 0
      BY SumEmpty
    <2> QED BY <1>1, <1>3, <1>5, <2>1, <2>2, <2>3, <2>4
  <1> QED BY <1>3, <1>4, <1>5

LEMMA OwingSame ==
    ASSUME NEW a, NEW b, Done(a) = Done(b), \A c \in Done(a) : a[c] = b[c]
    PROVE  Owing(a) = Owing(b)
  <1>1. [c \in Done(a) |-> a[c].deduction] = [c \in Done(b) |-> b[c].deduction]
    OBVIOUS
  <1> QED BY <1>1 DEF Owing

(* An entry records what was done, so what is yet to be done has none.     *)
Posted == \A e \in ledger :
    /\ \A p \in Payment : e.key = <<"payment", p>> => pay[p].status \in Received
    /\ \A r \in Refund : e.key = <<"refund", r>> => refund[r].status = "COMPLETED"
    /\ \A c \in Charge : /\ e.key = <<"applied", c>> => charge[c].status # "NONE"
                         /\ e.key = <<"waived", c>> => charge[c].status = "WAIVED"
    /\ \A c \in Cancellation : e.key \in {<<"reversal", c>>, <<"deduction", c>>} =>
          cancel[c].status = "COMPLETED"

(* A sale is cancelled once, and every refund asked for has its source.    *)
Ended == \A c \in Cancellation : cancel[c].status = "COMPLETED" => status = "CANCELLED"
Asked == \A r \in Refund : refund[r].status # "NONE" => refund[r].source \in Sources

BalanceInv == MoneyInv /\ IsFiniteSet(ledger) /\ Posted /\ Ended /\ Asked /\ LedgerAgrees

(* What stays as it is, and what changes its value.                        *)
LEMMA PostedLasts ==
    ASSUME BalanceInv, Lasting,
           \A r \in Refund : refund[r].status = "COMPLETED" => refund'[r].status = "COMPLETED",
           \A c \in Charge : /\ charge[c].status # "NONE" => charge'[c].status # "NONE"
                             /\ charge[c].status = "WAIVED" => charge'[c].status = "WAIVED",
           \A c \in Cancellation : cancel[c].status = "COMPLETED" => cancel'[c].status = "COMPLETED",
           NEW e \in ledger
    PROVE  /\ \A p \in Payment : e.key = <<"payment", p>> => pay'[p].status \in Received
           /\ \A r \in Refund : e.key = <<"refund", r>> => refund'[r].status = "COMPLETED"
           /\ \A c \in Charge : /\ e.key = <<"applied", c>> => charge'[c].status # "NONE"
                                /\ e.key = <<"waived", c>> => charge'[c].status = "WAIVED"
           /\ \A c \in Cancellation : e.key \in {<<"reversal", c>>, <<"deduction", c>>} =>
                 cancel'[c].status = "COMPLETED"
  BY DEF BalanceInv, Posted, Lasting

LEMMA OwedTypes ==
    ASSUME TypeInv
    PROVE  /\ pay \in [Payment -> PaymentRow] /\ refund \in [Refund -> RefundRow]
           /\ charge \in [Charge -> ChargeRow] /\ cancel \in [Cancellation -> CancellationRow]
           /\ ledger \in SUBSET Entry
           /\ Owing(cancel) \in Nat /\ Charged(charge) \in Nat /\ Taken(pay, Received) \in Nat
           /\ Given(refund, Sources, {"COMPLETED"}) \in Nat
  BY OwingIs, ChargedType, TakenType, GivenType DEF TypeInv, TypeOK

LEMMA BalancePays ==
    ASSUME BalanceInv, MoneyInv', Lasting, NEW p \in Payment, PayStep(p)
    PROVE  BalanceInv'
  <1>0. /\ pay \in [Payment -> PaymentRow] /\ pay' \in [Payment -> PaymentRow]
        /\ pay[p] \in PaymentRow
    BY DEF BalanceInv, MoneyInv, TypeInv, TypeOK
  <1>1. UNCHANGED <<plans, alloc, refund, charge, cancel, ledger, view>>
    BY PayStepIs DEF BalanceInv, MoneyInv
  <1>2. \A q \in Payment : q # p => pay'[q] = pay[q]
    BY <1>0, PayStepIs DEF BalanceInv, MoneyInv, Submitted
  <1>3. pay[p].status \notin Received /\ pay'[p].status \notin Received
    <2>1. pay[p].status \notin Received
      BY PayStepIs DEF BalanceInv, MoneyInv, Undecided, Received
    <2>2. pay'[p].status \in {"PENDING", "PROCESSING", "FAILED"}
      BY PayStepOpen DEF BalanceInv, MoneyInv
    <2> QED BY <2>1, <2>2 DEF Received
  <1>4. Taken(pay', Received) = Taken(pay, Received)
    <2>1. Taken(pay', Received) =
             Taken(pay, Received) - Counted(pay[p], Received) + Counted(pay'[p], Received)
      BY <1>0, <1>2, TakenTurns
    <2>2. Counted(pay[p], Received) = 0 /\ Counted(pay'[p], Received) = 0
      BY <1>3 DEF Counted
    <2>3. Taken(pay, Received) \in Nat
      BY <1>0, TakenType
    <2> QED BY <2>1, <2>2, <2>3
  <1>5. LedgerAgrees'
    BY <1>1, <1>4, LedgerIs DEF BalanceInv, Owed
  <1>6. Posted'
    BY <1>1, PostedLasts DEF Posted
  <1>7. Ended'
    <2>1. status' = status \/ status # "CANCELLED"
      BY PayStepIs DEF BalanceInv, MoneyInv
    <2> QED BY <1>1, <2>1 DEF BalanceInv, Ended
  <1>8. Asked'
    BY <1>1 DEF BalanceInv, Asked, Sources
  <1> QED BY <1>1, <1>5, <1>6, <1>7, <1>8 DEF BalanceInv

LEMMA BalanceAllocate ==
    ASSUME BalanceInv, MoneyInv', Lasting, NEW v \in Views, NEW p \in Payment,
           NEW manual \in BOOLEAN, NEW credit \in Credit, AllocatePayment(v, p, manual, credit)
    PROVE  BalanceInv'
  <1> DEFINE k == <<"payment", p>>
             amount == pay[p].amount
  <1>0. /\ pay \in [Payment -> PaymentRow] /\ pay' \in [Payment -> PaymentRow]
        /\ pay[p] \in PaymentRow /\ amount \in Nat
    BY DEF BalanceInv, MoneyInv, TypeInv, TypeOK, PaymentRow
  <1>1. /\ UNCHANGED <<refund, charge, cancel>> /\ pay[p].status \notin Received
        /\ pay' = [pay EXCEPT ![p].status = "COMPLETED", ![p].manual = manual]
        /\ ledger' = ledger \cup {CreditEntry(k, amount)}
    BY DEF AllocatePayment, Undecided, Received
  <1>2. /\ \A q \in Payment : q # p => pay'[q] = pay[q]
        /\ pay'[p].status \in Received /\ pay'[p].amount = amount
    BY <1>0, <1>1 DEF PaymentRow, Received
  <1>3. k \in EntryKey /\ \A e \in ledger : e.key # k
    BY <1>1, EntryKeys DEF BalanceInv, Posted
  <1>4. /\ Balance(ledger) \in Int
        /\ Balance(ledger \cup {CreditEntry(k, amount)}) = Balance(ledger) - amount
        /\ IsFiniteSet(ledger \cup {CreditEntry(k, amount)})
    BY <1>0, <1>3, BalanceAdds, OwedTypes DEF BalanceInv, MoneyInv
  <1>5. Taken(pay', Received) = Taken(pay, Received) + amount
    <2>1. Taken(pay', Received) =
             Taken(pay, Received) - Counted(pay[p], Received) + Counted(pay'[p], Received)
      BY <1>0, <1>2, TakenTurns
    <2>2. Counted(pay[p], Received) = 0 /\ Counted(pay'[p], Received) = amount
      BY <1>1, <1>2 DEF Counted
    <2>3. Taken(pay, Received) \in Nat
      BY <1>0, TakenType
    <2> QED BY <1>0, <2>1, <2>2, <2>3
  <1> HIDE DEF k, amount
  <1>6. LedgerAgrees'
    <2>1. Balance(ledger) = Owing(cancel) + Charged(charge) - Taken(pay, Received)
                               + Given(refund, Sources, {"COMPLETED"})
      BY LedgerIs DEF BalanceInv, Owed
    <2>2. /\ Owing(cancel) \in Nat /\ Charged(charge) \in Nat /\ Taken(pay, Received) \in Nat
          /\ Given(refund, Sources, {"COMPLETED"}) \in Nat
      BY OwedTypes DEF BalanceInv, MoneyInv
    <2>3. Balance(ledger') = Owing(cancel) + Charged(charge) - Taken(pay', Received)
                               + Given(refund, Sources, {"COMPLETED"})
      BY <1>0, <1>1, <1>4, <1>5, <2>1, <2>2 DEF amount
    <2> QED BY <1>1, <2>3, LedgerIs DEF Owed
  <1>7. Posted'
    <2> SUFFICES ASSUME NEW e \in ledger'
                 PROVE  /\ \A q \in Payment : e.key = <<"payment", q>> => pay'[q].status \in Received
                        /\ \A r \in Refund : e.key = <<"refund", r>> => refund'[r].status = "COMPLETED"
                        /\ \A c \in Charge :
                              /\ e.key = <<"applied", c>> => charge'[c].status # "NONE"
                              /\ e.key = <<"waived", c>> => charge'[c].status = "WAIVED"
                        /\ \A c \in Cancellation : e.key \in {<<"reversal", c>>, <<"deduction", c>>} =>
                              cancel'[c].status = "COMPLETED"
      BY DEF Posted
    <2>1. CASE e \in ledger
      BY <1>1, <2>1, PostedLasts
    <2>2. CASE e \notin ledger
      <3>1. e.key = <<"payment", p>>
        BY <1>1, <2>2 DEF CreditEntry, k
      <3> QED BY <1>2, <3>1
    <2> QED BY <2>1, <2>2
  <1>8. Ended'
    <2>1. status' = status \/ status # "CANCELLED"
      BY DEF AllocatePayment
    <2> QED BY <1>1, <2>1 DEF BalanceInv, Ended
  <1>9. Asked'
    BY <1>1 DEF BalanceInv, Asked, Sources
  <1>10. IsFiniteSet(ledger')
    BY <1>1, <1>4
  <1> QED BY <1>6, <1>7, <1>8, <1>9, <1>10 DEF BalanceInv

LEMMA BalanceCharge ==
    ASSUME BalanceInv, MoneyInv', Lasting, NEW c \in Charge,
           \/ \E s \in Slot, amount \in Amounts : CreateCharge(c, s, amount)
           \/ WaiveCharge(c)
    PROVE  BalanceInv'
  <1>0. /\ charge \in [Charge -> ChargeRow] /\ charge' \in [Charge -> ChargeRow]
        /\ charge[c] \in ChargeRow /\ charge[c].amount \in Nat
    BY DEF BalanceInv, MoneyInv, TypeInv, TypeOK, ChargeRow
  <1>1. UNCHANGED <<status, plans, pay, alloc, refund, cancel, view>>
    BY DEF CreateCharge, WaiveCharge
  <1>2. \A q \in Charge : q # c => charge'[q] = charge[q]
    BY <1>0 DEF CreateCharge, WaiveCharge
  <1>3. /\ Balance(ledger) = Owing(cancel) + Charged(charge) - Taken(pay, Received)
                               + Given(refund, Sources, {"COMPLETED"})
        /\ Owing(cancel) \in Nat /\ Charged(charge) \in Nat /\ Taken(pay, Received) \in Nat
        /\ Given(refund, Sources, {"COMPLETED"}) \in Nat
    BY OwedTypes, LedgerIs DEF BalanceInv, MoneyInv, Owed
  <1>4. Charged(charge') = Charged(charge) - Counted(charge[c], {"APPLIED"})
                              + Counted(charge'[c], {"APPLIED"})
    BY <1>0, <1>2, ChargedTurns
  <1>5. ASSUME IsFiniteSet(ledger'), Balance(ledger') = Balance(ledger) + Charged(charge') - Charged(charge),
               Charged(charge') \in Nat,
               charge[c].status # "NONE" => charge'[c].status # "NONE",
               charge[c].status = "WAIVED" => charge'[c].status = "WAIVED",
               NEW k, \A e \in ledger' : e \in ledger \/ e.key = k,
               \/ k = <<"applied", c>> /\ charge'[c].status # "NONE"
               \/ k = <<"waived", c>> /\ charge'[c].status = "WAIVED"
        PROVE  BalanceInv'
    <2>1. Balance(ledger') = Owing(cancel) + Charged(charge') - Taken(pay, Received)
                               + Given(refund, Sources, {"COMPLETED"})
      BY <1>3, <1>5
    <2>2. LedgerAgrees'
      BY <1>1, <2>1, LedgerIs DEF Owed
    <2>3. Posted'
      <3> SUFFICES ASSUME NEW e \in ledger'
                   PROVE  /\ \A p \in Payment : e.key = <<"payment", p>> => pay'[p].status \in Received
                          /\ \A r \in Refund : e.key = <<"refund", r>> => refund'[r].status = "COMPLETED"
                          /\ \A q \in Charge :
                                /\ e.key = <<"applied", q>> => charge'[q].status # "NONE"
                                /\ e.key = <<"waived", q>> => charge'[q].status = "WAIVED"
                          /\ \A q \in Cancellation : e.key \in {<<"reversal", q>>, <<"deduction", q>>} =>
                                cancel'[q].status = "COMPLETED"
        BY DEF Posted
      <3>1. CASE e \in ledger
        <4>1. \A q \in Charge : /\ charge[q].status # "NONE" => charge'[q].status # "NONE"
                                /\ charge[q].status = "WAIVED" => charge'[q].status = "WAIVED"
          BY <1>2, <1>5
        <4> QED BY <1>1, <3>1, <4>1, PostedLasts
      <3>2. CASE e \notin ledger
        BY <1>5, <3>2
      <3> QED BY <3>1, <3>2
    <2>4. Ended' /\ Asked'
      BY <1>1 DEF BalanceInv, Ended, Asked, Sources
    <2> QED BY <1>5, <2>2, <2>3, <2>4 DEF BalanceInv
  <1>6. ASSUME NEW s \in Slot, NEW amount \in Amounts, CreateCharge(c, s, amount)
        PROVE  BalanceInv'
    <2> DEFINE k == <<"applied", c>>
    <2>1. /\ charge[c].status = "NONE" /\ ledger' = ledger \cup {Debit(k, amount)}
          /\ charge' = [charge EXCEPT ![c] = [status |-> "APPLIED", amount |-> amount]]
          /\ amount \in Nat
      BY <1>6, AmountsAssumption DEF CreateCharge
    <2>2. charge'[c].status = "APPLIED" /\ charge'[c].amount = amount
      BY <1>0, <2>1
    <2>3. Charged(charge') = Charged(charge) + amount
      <3>1. Counted(charge[c], {"APPLIED"}) = 0 /\ Counted(charge'[c], {"APPLIED"}) = amount
        BY <2>1, <2>2 DEF Counted
      <3> QED BY <1>3, <1>4, <2>1, <3>1
    <2>4. k \in EntryKey /\ \A e \in ledger : e.key # k
      BY <2>1, EntryKeys DEF BalanceInv, Posted
    <2>5. /\ Balance(ledger) \in Int /\ IsFiniteSet(ledger \cup {Debit(k, amount)})
          /\ Balance(ledger \cup {Debit(k, amount)}) = Balance(ledger) + amount
      BY <2>1, <2>4, BalanceAdds, OwedTypes DEF BalanceInv, MoneyInv
    <2>6. \A e \in ledger' : e \in ledger \/ e.key = k
      BY <2>1 DEF Debit
    <2>7. /\ IsFiniteSet(ledger')
          /\ Balance(ledger') = Balance(ledger) + Charged(charge') - Charged(charge)
          /\ Charged(charge') \in Nat
      BY <1>3, <2>1, <2>3, <2>5
    <2> QED BY <1>5, <2>1, <2>2, <2>6, <2>7
  <1>7. ASSUME WaiveCharge(c) PROVE BalanceInv'
    <2> DEFINE k == <<"waived", c>>
               amount == charge[c].amount
    <2>1. /\ charge[c].status = "APPLIED" /\ ledger' = ledger \cup {CreditEntry(k, amount)}
          /\ charge' = [charge EXCEPT ![c].status = "WAIVED"]
          /\ amount \in Nat
      BY <1>0, <1>7 DEF WaiveCharge
    <2>2. charge'[c].status = "WAIVED"
      BY <1>0, <2>1 DEF ChargeRow
    <2>3. Charged(charge') = Charged(charge) - amount
      <3>1. Counted(charge[c], {"APPLIED"}) = amount /\ Counted(charge'[c], {"APPLIED"}) = 0
        BY <2>1, <2>2 DEF Counted
      <3> QED BY <1>3, <1>4, <2>1, <3>1
    <2>4. k \in EntryKey /\ \A e \in ledger : e.key # k
      BY <2>1, EntryKeys DEF BalanceInv, Posted
    <2>5. /\ Balance(ledger) \in Int /\ IsFiniteSet(ledger \cup {CreditEntry(k, amount)})
          /\ Balance(ledger \cup {CreditEntry(k, amount)}) = Balance(ledger) - amount
      BY ZenonT(60), <2>1, <2>4, BalanceAdds, OwedTypes DEF BalanceInv, MoneyInv
    <2>6. \A e \in ledger' : e \in ledger \/ e.key = k
      BY <2>1 DEF CreditEntry
    <2>7. Charged(charge') \in Nat
      BY <1>0, ChargedType
    <2>8. IsFiniteSet(ledger') /\ Balance(ledger') = Balance(ledger) + Charged(charge') - Charged(charge)
      BY <1>3, <2>1, <2>3, <2>5
    <2> QED BY <1>5, <2>1, <2>2, <2>6, <2>7, <2>8
  <1> QED BY <1>6, <1>7

LEMMA BalanceAsk ==
    ASSUME BalanceInv, MoneyInv', Lasting, NEW r \in Refund, AskStep(r)
    PROVE  BalanceInv'
  <1>0. refund \in [Refund -> RefundRow] /\ refund' \in [Refund -> RefundRow]
    BY DEF BalanceInv, MoneyInv, TypeInv, TypeOK
  <1>1. UNCHANGED <<status, plans, pay, alloc, charge, cancel, ledger, view>>
    BY Untouched DEF BalanceInv, MoneyInv
  <1>2. \A q \in Refund : q # r => refund'[q] = refund[q]
    BY <1>0 DEF AskStep, RequestRefund, DecideRefund
  <1>3. /\ refund[r].status # "COMPLETED" /\ refund'[r].status # "COMPLETED"
        /\ refund'[r].source \in Sources
    <2>1. refund[r] \in RefundRow
      BY <1>0
    <2>2. ASSUME DecideRefund(r)
          PROVE  /\ refund[r].status # "COMPLETED" /\ refund'[r].status # "COMPLETED"
                 /\ refund'[r].source \in Sources
      <3>1. /\ refund[r].status = "PENDING" /\ refund'[r].source = refund[r].source
            /\ refund'[r].status \in {"PROCESSING", "FAILED"}
        BY <1>0, <2>1, <2>2 DEF DecideRefund, RefundRow
      <3> QED BY <3>1 DEF BalanceInv, Asked
    <2>3. ASSUME NEW v \in Views, NEW p \in Payment, NEW amount \in Amounts,
                 RequestRefund(v, r, p, amount)
          PROVE  /\ refund[r].status # "COMPLETED" /\ refund'[r].status # "COMPLETED"
                 /\ refund'[r].source \in Sources
      BY <1>0, <2>3 DEF RequestRefund, Sources
    <2> QED BY <2>2, <2>3 DEF AskStep
  <1>4. Given(refund', Sources, {"COMPLETED"}) = Given(refund, Sources, {"COMPLETED"})
    <2>1. Given(refund', Sources, {"COMPLETED"}) = Given(refund, Sources, {"COMPLETED"})
              - CountedFor(refund[r], Sources, {"COMPLETED"})
              + CountedFor(refund'[r], Sources, {"COMPLETED"})
      BY <1>0, <1>2, GivenTurns
    <2>2. /\ CountedFor(refund[r], Sources, {"COMPLETED"}) = 0
          /\ CountedFor(refund'[r], Sources, {"COMPLETED"}) = 0
      BY <1>3 DEF CountedFor
    <2>3. Given(refund, Sources, {"COMPLETED"}) \in Nat
      BY <1>0, GivenType
    <2> QED BY <2>1, <2>2, <2>3
  <1>5. LedgerAgrees'
    BY <1>1, <1>4, LedgerIs DEF BalanceInv, Owed
  <1>6. Posted'
    <2>1. \A q \in Refund : refund[q].status = "COMPLETED" => refund'[q].status = "COMPLETED"
      BY <1>2, <1>3
    <2> QED BY <1>1, <2>1, PostedLasts DEF Posted
  <1>7. Ended' /\ Asked'
    BY <1>1, <1>2, <1>3 DEF BalanceInv, Ended, Asked, Sources
  <1> QED BY <1>1, <1>5, <1>6, <1>7 DEF BalanceInv

LEMMA BalanceProcess ==
    ASSUME BalanceInv, MoneyInv', Lasting, NEW v \in Views, NEW r \in Refund, ProcessRefund(v, r)
    PROVE  BalanceInv'
  <1> DEFINE k == <<"refund", r>>
             amount == refund[r].amount
  <1>0. /\ refund \in [Refund -> RefundRow] /\ refund' \in [Refund -> RefundRow]
        /\ refund[r] \in RefundRow /\ amount \in Nat
        /\ pay \in [Payment -> PaymentRow] /\ pay' \in [Payment -> PaymentRow]
    BY DEF BalanceInv, MoneyInv, TypeInv, TypeOK, RefundRow
  <1>1. /\ UNCHANGED <<status, charge, cancel>> /\ refund[r].status = "PROCESSING"
        /\ refund' = [refund EXCEPT ![r].status = "COMPLETED"]
        /\ ledger' = ledger \cup {Debit(k, amount)}
    BY DEF ProcessRefund
  <1>2. /\ \A q \in Refund : q # r => refund'[q] = refund[q]
        /\ refund'[r].status = "COMPLETED" /\ refund'[r].amount = amount
        /\ refund'[r].source = refund[r].source
    BY <1>0, <1>1 DEF RefundRow
  <1>3. refund[r].source \in Sources
    BY <1>1 DEF BalanceInv, Asked
  <1>4. k \in EntryKey /\ \A e \in ledger : e.key # k
    BY <1>1, EntryKeys DEF BalanceInv, Posted
  <1>5. /\ Balance(ledger) \in Int /\ IsFiniteSet(ledger \cup {Debit(k, amount)})
        /\ Balance(ledger \cup {Debit(k, amount)}) = Balance(ledger) + amount
    BY <1>0, <1>4, BalanceAdds, OwedTypes DEF BalanceInv, MoneyInv
  <1>6. Given(refund', Sources, {"COMPLETED"}) = Given(refund, Sources, {"COMPLETED"}) + amount
    <2>1. Given(refund', Sources, {"COMPLETED"}) = Given(refund, Sources, {"COMPLETED"})
              - CountedFor(refund[r], Sources, {"COMPLETED"})
              + CountedFor(refund'[r], Sources, {"COMPLETED"})
      BY <1>0, <1>2, GivenTurns
    <2>2. /\ CountedFor(refund[r], Sources, {"COMPLETED"}) = 0
          /\ CountedFor(refund'[r], Sources, {"COMPLETED"}) = amount
      BY <1>1, <1>2, <1>3 DEF CountedFor
    <2>3. Given(refund, Sources, {"COMPLETED"}) \in Nat
      BY <1>0, GivenType
    <2> QED BY <1>0, <2>1, <2>2, <2>3
  <1>7. Taken(pay', Received) = Taken(pay, Received)
    <2>1. \A p \in Payment : /\ pay'[p].amount = pay[p].amount
                             /\ pay'[p].status \in Received <=> pay[p].status \in Received
      BY ProcessPays DEF BalanceInv, Received
    <2>2. Taken(pay', Received) <= Taken(pay, Received)
      BY <1>0, <2>1, TakenGrows
    <2>3. Taken(pay, Received) <= Taken(pay', Received)
      BY <1>0, <2>1, TakenGrows
    <2>4. Taken(pay, Received) \in Nat /\ Taken(pay', Received) \in Nat
      BY <1>0, TakenType
    <2> QED BY <2>2, <2>3, <2>4
  <1> HIDE DEF k, amount
  <1>8. LedgerAgrees'
    <2>1. Balance(ledger) = Owing(cancel) + Charged(charge) - Taken(pay, Received)
                               + Given(refund, Sources, {"COMPLETED"})
      BY LedgerIs DEF BalanceInv, Owed
    <2>2. /\ Owing(cancel) \in Nat /\ Charged(charge) \in Nat /\ Taken(pay, Received) \in Nat
          /\ Given(refund, Sources, {"COMPLETED"}) \in Nat
      BY OwedTypes DEF BalanceInv, MoneyInv
    <2>3. Balance(ledger') = Owing(cancel) + Charged(charge) - Taken(pay', Received)
                               + Given(refund', Sources, {"COMPLETED"})
      BY <1>0, <1>1, <1>5, <1>6, <1>7, <2>1, <2>2 DEF amount
    <2> QED BY <1>1, <2>3, LedgerIs DEF Owed
  <1>9. Posted'
    <2> SUFFICES ASSUME NEW e \in ledger'
                 PROVE  /\ \A p \in Payment : e.key = <<"payment", p>> => pay'[p].status \in Received
                        /\ \A q \in Refund : e.key = <<"refund", q>> => refund'[q].status = "COMPLETED"
                        /\ \A c \in Charge :
                              /\ e.key = <<"applied", c>> => charge'[c].status # "NONE"
                              /\ e.key = <<"waived", c>> => charge'[c].status = "WAIVED"
                        /\ \A c \in Cancellation : e.key \in {<<"reversal", c>>, <<"deduction", c>>} =>
                              cancel'[c].status = "COMPLETED"
      BY DEF Posted
    <2>1. CASE e \in ledger
      <3>1. \A q \in Refund : refund[q].status = "COMPLETED" => refund'[q].status = "COMPLETED"
        BY <1>2
      <3> QED BY <1>1, <2>1, <3>1, PostedLasts
    <2>2. CASE e \notin ledger
      <3>1. e.key = <<"refund", r>>
        BY <1>1, <2>2 DEF Debit, k
      <3> QED BY <1>2, <3>1
    <2> QED BY <2>1, <2>2
  <1>10. Ended' /\ Asked'
    BY <1>1, <1>2, <1>3 DEF BalanceInv, Ended, Asked, Sources
  <1>11. IsFiniteSet(ledger')
    BY <1>1, <1>5
  <1> QED BY <1>8, <1>9, <1>10, <1>11 DEF BalanceInv

LEMMA BalanceCancel ==
    ASSUME BalanceInv, MoneyInv', Lasting, NEW c \in Cancellation, CancelStep(c)
    PROVE  BalanceInv'
  <1>0. /\ cancel \in [Cancellation -> CancellationRow] /\ cancel[c] \in CancellationRow
    BY DEF BalanceInv, MoneyInv, TypeInv, TypeOK
  <1>1. UNCHANGED <<status, plans, pay, alloc, refund, charge, ledger, view>>
    BY Untouched DEF BalanceInv, MoneyInv
  <1>2. \A q \in Cancellation : q # c => cancel'[q] = cancel[q]
    BY <1>0 DEF CancelStep, RequestCancellation, DecideCancellation, ReviewCancellation
  <1>3. cancel[c].status # "COMPLETED" /\ cancel'[c].status # "COMPLETED"
    BY <1>0 DEF CancelStep, RequestCancellation, DecideCancellation, ReviewCancellation,
                CancellationRow
  <1>4. Owing(cancel') = Owing(cancel)
    <2>1. Done(cancel') = Done(cancel) /\ \A q \in Done(cancel') : cancel'[q] = cancel[q]
      BY <1>2, <1>3 DEF Done
    <2> QED BY <2>1, OwingSame
  <1>5. LedgerAgrees'
    BY <1>1, <1>4, LedgerIs DEF BalanceInv, Owed
  <1>6. Posted'
    <2>1. \A q \in Cancellation : cancel[q].status = "COMPLETED" => cancel'[q].status = "COMPLETED"
      BY <1>2, <1>3
    <2> QED BY <1>1, <2>1, PostedLasts DEF Posted
  <1>7. Ended' /\ Asked'
    BY <1>1, <1>2, <1>3 DEF BalanceInv, Ended, Asked, Sources
  <1> QED BY <1>1, <1>5, <1>6, <1>7 DEF BalanceInv

LEMMA BalanceComplete ==
    ASSUME BalanceInv, MoneyInv', Lasting, NEW v \in Views, NEW c \in Cancellation,
           CompleteCancellation(v, c)
    PROVE  BalanceInv'
  <1> DEFINE k == <<"reversal", c>>
             l == <<"deduction", c>>
             d == cancel[c].deduction
             L == ledger \cup {CreditEntry(k, Price)}
  <1>0. /\ cancel \in [Cancellation -> CancellationRow] /\ cancel' \in [Cancellation -> CancellationRow]
        /\ cancel[c] \in CancellationRow /\ d \in Nat /\ Price \in Nat
        /\ refund \in [Refund -> RefundRow] /\ refund' \in [Refund -> RefundRow]
    BY PriceAssumption DEF BalanceInv, MoneyInv, TypeInv, TypeOK, CancellationRow
  <1>1. /\ UNCHANGED <<plans, pay, alloc, charge, view>>
        /\ status = "CONFIRMED" /\ status' = "CANCELLED" /\ cancel[c].status = "APPROVED"
        /\ cancel' = [cancel EXCEPT ![c].status = "COMPLETED"]
        /\ ledger' = ledger \cup Settlement(c)
    BY DEF CompleteCancellation
  <1>2. /\ \A q \in Cancellation : q # c => cancel'[q] = cancel[q]
        /\ cancel'[c].status = "COMPLETED" /\ cancel'[c].deduction = d
    BY <1>0, <1>1 DEF CancellationRow
  <1>3. Done(cancel) = {} /\ Done(cancel') = {c}
    BY <1>1, <1>2 DEF BalanceInv, Ended, Done
  <1>4. Owing(cancel) = Price /\ Owing(cancel') = d
    <2>1. Owing(cancel) = Price
      BY <1>0, <1>3, OwingIs
    <2>2. Owing(cancel') = cancel'[c].deduction
      BY <1>0, <1>3, OwingIs
    <2> QED BY <1>2, <2>1, <2>2
  <1>5. /\ k \in EntryKey /\ l \in EntryKey /\ k # l
        /\ \A e \in ledger : e.key # k /\ e.key # l
    BY <1>1, EntryKeys DEF BalanceInv, Posted
  <1>6. /\ Balance(ledger) \in Int /\ IsFiniteSet(L) /\ L \in SUBSET Entry
        /\ Balance(L) = Balance(ledger) - Price
    <2>1. ledger \in SUBSET Entry /\ IsFiniteSet(ledger)
      BY OwedTypes DEF BalanceInv, MoneyInv
    <2>2. k \in EntryKey /\ \A e \in ledger : e.key # k
      BY <1>5
    <2> HIDE DEF k
    <2> QED BY <1>0, <2>1, <2>2, BalanceAdds
  <1>7. \A e \in L : e.key # l
    BY <1>5 DEF CreditEntry
  <1>8. \A e \in L : e \in ledger \/ e.key = k
    BY DEF CreditEntry
  <1> HIDE DEF L
  <1>9. /\ Balance(ledger') = Balance(ledger) - Price + d /\ IsFiniteSet(ledger')
        /\ \A e \in ledger' : e \in ledger \/ e.key \in {k, l}
    <2>1. CASE d = 0
      <3>1. ledger' = L
        BY <1>0, <1>1, <2>1 DEF Settlement, L
      <3>2. Balance(ledger') = Balance(ledger) - Price + d
        <4> HIDE DEF d
        <4> QED BY <1>0, <1>6, <2>1, <3>1
      <3> QED BY <1>6, <1>8, <3>1, <3>2
    <2>2. CASE d # 0
      <3>1. d > 0
        BY <1>0, <2>2
      <3>2. ledger' = L \cup {Debit(l, d)}
        BY <1>1, <3>1 DEF Settlement, L
      <3>3. Balance(L \cup {Debit(l, d)}) = Balance(L) + d /\ IsFiniteSet(L \cup {Debit(l, d)})
        BY <1>0, <1>5, <1>6, <1>7, BalanceAdds
      <3>4. \A e \in ledger' : e \in ledger \/ e.key \in {k, l}
        BY <1>8, <3>2 DEF Debit
      <3> QED BY <1>6, <3>2, <3>3, <3>4
    <2> QED BY <2>1, <2>2
  <1>10. /\ \A q \in Refund : \/ refund'[q] = refund[q]
                              \/ /\ refund[q].status = "NONE" /\ refund'[q].status = "PROCESSING"
                                 /\ refund'[q].source = c
         /\ Given(refund', Sources, {"COMPLETED"}) = Given(refund, Sources, {"COMPLETED"})
    <2>1. CASE UNCHANGED refund
      BY <2>1
    <2>2. CASE ~ UNCHANGED refund
      <3>1. PICK r \in Refund :
               /\ refund[r].status = "NONE"
               /\ refund' = [refund EXCEPT ![r] =
                      [status |-> "PROCESSING", source |-> c,
                       amount |-> cancel[c].paid - cancel[c].deduction]]
        BY <2>2 DEF CompleteCancellation
      <3>2. /\ \A q \in Refund : q # r => refund'[q] = refund[q]
            /\ refund'[r].source = c /\ refund'[r].status = "PROCESSING"
        BY <1>0, <3>1
      <3>3. Given(refund', Sources, {"COMPLETED"}) = Given(refund, Sources, {"COMPLETED"})
                - CountedFor(refund[r], Sources, {"COMPLETED"})
                + CountedFor(refund'[r], Sources, {"COMPLETED"})
        BY <1>0, <3>2, GivenTurns
      <3>4. /\ CountedFor(refund[r], Sources, {"COMPLETED"}) = 0
            /\ CountedFor(refund'[r], Sources, {"COMPLETED"}) = 0
        BY <3>1, <3>2 DEF CountedFor
      <3>5. Given(refund, Sources, {"COMPLETED"}) \in Nat
        BY <1>0, GivenType
      <3>6. Given(refund', Sources, {"COMPLETED"}) = Given(refund, Sources, {"COMPLETED"})
        BY <3>3, <3>4, <3>5
      <3> QED BY <3>1, <3>2, <3>6
    <2> QED BY <2>1, <2>2
  <1>11. LedgerAgrees'
    <2>1. Balance(ledger) = Price + Charged(charge) - Taken(pay, Received)
                               + Given(refund, Sources, {"COMPLETED"})
      BY <1>4, LedgerIs DEF BalanceInv, Owed
    <2>2. /\ Charged(charge) \in Nat /\ Taken(pay, Received) \in Nat
          /\ Given(refund, Sources, {"COMPLETED"}) \in Nat
      BY OwedTypes DEF BalanceInv, MoneyInv
    <2> HIDE DEF d
    <2>3. Balance(ledger') = d + Charged(charge) - Taken(pay, Received)
                               + Given(refund, Sources, {"COMPLETED"})
      BY <1>0, <1>9, <2>1, <2>2
    <2> QED BY <1>1, <1>4, <1>10, <2>3, LedgerIs DEF Owed
  <1>12. Posted'
    <2> SUFFICES ASSUME NEW e \in ledger'
                 PROVE  /\ \A p \in Payment : e.key = <<"payment", p>> => pay'[p].status \in Received
                        /\ \A q \in Refund : e.key = <<"refund", q>> => refund'[q].status = "COMPLETED"
                        /\ \A g \in Charge :
                              /\ e.key = <<"applied", g>> => charge'[g].status # "NONE"
                              /\ e.key = <<"waived", g>> => charge'[g].status = "WAIVED"
                        /\ \A q \in Cancellation : e.key \in {<<"reversal", q>>, <<"deduction", q>>} =>
                              cancel'[q].status = "COMPLETED"
      BY DEF Posted
    <2>1. CASE e \in ledger
      <3>1. \A q \in Refund : refund[q].status = "COMPLETED" => refund'[q].status = "COMPLETED"
        BY <1>10
      <3>2. \A q \in Cancellation : cancel[q].status = "COMPLETED" => cancel'[q].status = "COMPLETED"
        BY <1>2
      <3> QED BY <1>1, <2>1, <3>1, <3>2, PostedLasts
    <2>2. CASE e \notin ledger
      BY <1>2, <1>9, <2>2
    <2> QED BY <2>1, <2>2
  <1>13. Ended' /\ Asked'
    BY <1>1, <1>10 DEF BalanceInv, Ended, Asked, Sources
  <1> QED BY <1>9, <1>11, <1>12, <1>13 DEF BalanceInv

LEMMA BalancePlain ==
    ASSUME BalanceInv, MoneyInv', UNCHANGED <<pay, refund, charge, cancel, ledger>>,
           status' = status \/ status # "CANCELLED"
    PROVE  BalanceInv'
  <1>1. LedgerAgrees'
    BY LedgerIs DEF BalanceInv
  <1>2. Posted' /\ Ended' /\ Asked'
    BY DEF BalanceInv, Posted, Ended, Asked, Sources
  <1> QED BY <1>1, <1>2 DEF BalanceInv

LEMMA BalanceStep == ASSUME BalanceInv, [Next]_vars PROVE BalanceInv'
  <1>1. MoneyInv' /\ Lasting
    BY MoneyStep, PaysLast DEF BalanceInv
  <1>2. CASE UNCHANGED vars
    BY <1>1, <1>2, BalancePlain DEF vars, rows
  <1>3. ASSUME BookingStep PROVE BalanceInv'
    <2>1. status # "CANCELLED"
      BY <1>3, BookingStepIs DEF FinalBooking
    <2> QED BY <1>1, <1>3, <2>1, BookingStepIs, BalancePlain
  <1>4. ASSUME ChargeStep PROVE BalanceInv'
    BY <1>1, <1>4, BalanceCharge DEF ChargeStep
  <1>5. ASSUME \/ \E s \in Session : Begin(s)
               \/ \E schedule \in Schedules : SetPaymentPlan(schedule)
        PROVE  BalanceInv'
    BY <1>1, <1>5, BalancePlain DEF Begin, SetPaymentPlan, rows
  <1>6. CASE Next
    BY <1>1, <1>3, <1>4, <1>5, <1>6, Steps, BalancePays, BalanceAllocate, BalanceAsk,
       BalanceProcess, BalanceCancel, BalanceComplete
  <1> QED BY <1>2, <1>6

LEMMA BalanceStart == Init => BalanceInv
  <1> SUFFICES ASSUME Init PROVE BalanceInv
    OBVIOUS
  <1> DEFINE k == <<"agreed", None>>
  <1>1. MoneyInv
    BY MoneyStart
  <1>2. ledger = {} \cup {Debit(k, Price)} /\ Price \in Nat /\ k \in EntryKey
    BY PriceAssumption DEF Init, EntryKey
  <1>3. {} \in SUBSET Entry /\ IsFiniteSet({}) /\ \A e \in {} : e.key # k
    BY FS_EmptySet
  <1>4. Balance(ledger) = Balance({}) + Price /\ IsFiniteSet(ledger)
    BY ONLY <1>2, <1>3, BalanceAdds
  <1>5. Balance({}) = 0
    <2>1. \A type : {e \in {} : e.type = type} = {}
      OBVIOUS
    <2>2. \A type : Billed({}, type) = 0
      BY <2>1, SumEmpty DEF Billed
    <2> QED BY <2>2 DEF Balance
  <1>6. Owing(cancel) = Price
    <2>1. Done(cancel) = {} /\ cancel \in [Cancellation -> CancellationRow]
      BY <1>1, OwedTypes DEF Init, Done, MoneyInv
    <2> QED BY <2>1, OwingIs
  <1>7. Charged(charge) = 0
    <2>1. {c \in Charge : charge[c].status = "APPLIED"} = {}
      BY DEF Init
    <2> QED BY <2>1, SumEmpty DEF Charged
  <1>8. Taken(pay, Received) = 0
    <2>1. {p \in Payment : pay[p].status \in Received} = {}
      BY DEF Init, Received
    <2> QED BY <2>1, SumEmpty DEF Taken
  <1>9. Given(refund, Sources, {"COMPLETED"}) = 0
    <2>1. {r \in Refund : refund[r].source \in Sources /\ refund[r].status \in {"COMPLETED"}} = {}
      BY DEF Init
    <2> QED BY <2>1, SumEmpty DEF Given
  <1>10. LedgerAgrees
    BY <1>2, <1>4, <1>5, <1>6, <1>7, <1>8, <1>9, LedgerIs DEF Owed
  <1>11. Posted
    BY <1>2 DEF Posted, Debit
  <1>12. Ended /\ Asked
    BY DEF Init, Ended, Asked
  <1> QED BY <1>1, <1>4, <1>10, <1>11, <1>12 DEF BalanceInv

(* However requests race, and whatever is charged, waived, given back or    *)
(* settled, the balance shown to the customer is what the booking, its      *)
(* charges, payments, refunds and cancellation say is owed                  *)
(* (allocate_payment, process_refund, complete_cancellation).               *)
THEOREM AccountBalanced == Spec => []LedgerAgrees
  <1>1. BalanceInv => LedgerAgrees
    BY DEF BalanceInv
  <1>2. BalanceInv /\ [Next]_vars => BalanceInv'
    BY BalanceStep
  <1> QED BY BalanceStart, <1>1, <1>2, PTL DEF Spec
=============================================================================
