-------------------------- MODULE Checkout_proofs --------------------------
(***************************************************************************)
(* What one shopping session promises up to the claim of a payment, for    *)
(* any number of calls, items, products, shops and carts, any prices and   *)
(* any interleaving of the calls' requests to merchants.                   *)
(*                                                                         *)
(* First facts about numbers, sums and carts: they are proved over the     *)
(* naturals by a least counterexample (Least), which exists by counting.   *)
(* Then five invariants, each resting on those before it:                  *)
(*   Formed    the shape of the state: what a session, a call, a cart and  *)
(*             the tables may hold;                                        *)
(*   Current   what an undisturbed call read of a cart is what the         *)
(*             merchant still has, from which ClaimIsCurrent follows;      *)
(*   Own       unless the request was revised under a call (straddled),    *)
(*             offers, selections and what calls carry are of its items;   *)
(*   Frozen    while a confirmation stands, the session's hash and the     *)
(*             lines shown are of one cart that matched, from which        *)
(*             OrderAsApproved follows;                                    *)
(*   Settling  an undisturbed selection has written exactly the lines it   *)
(*             has passed (Filled), from which SelectSettles follows.      *)
(***************************************************************************)
EXTENDS Checkout, FiniteSetTheorems, TLAPS

\* A set of numbers that holds 0 and the successor of each of its members holds
\* every number: otherwise a least one is missing.
LEMMA Least ==
  ASSUME NEW T, T \subseteq Nat, T # {}
  PROVE  \E x \in T : \A y \in T : x <= y
<1> SUFFICES ASSUME \A x \in T : \E y \in T : ~(x <= y) PROVE FALSE
  OBVIOUS
<1> DEFINE D == {d \in Nat : \A y \in T : d <= y}
           succ == [d \in D |-> d + 1]
<1>1. PICK t \in T : TRUE
  OBVIOUS
<1>2. D \subseteq 0 .. t /\ t \in Nat
  OBVIOUS
<1>3. IsFiniteSet(D)
  <2>1. IsFiniteSet(0 .. t)
    BY <1>2, FS_Interval
  <2> HIDE DEF D
  <2> QED BY <1>2, <2>1, FS_Subset
<1>4. \A d \in D : d \notin T
  OBVIOUS
<1>5. \A d \in D : d + 1 \in D
  BY <1>4
<1>6. 0 \in D
  OBVIOUS
<1> HIDE DEF D
<1>7. succ \in Injection(D, D)
  BY <1>2, <1>5 DEF Injection, IsInjective
<1>8. succ \in Surjection(D, D)
  <2> HIDE DEF succ
  <2> QED BY <1>3, <1>7, FS_Injection
<1>9. PICK d \in D : succ[d] = 0
  BY <1>6, <1>8 DEF Surjection
<1> QED BY <1>2, <1>9

LEMMA Induction ==
  ASSUME NEW S, 0 \in S, \A n \in Nat : n \in S => n + 1 \in S
  PROVE  Nat \subseteq S
<1> SUFFICES ASSUME Nat \ S # {} PROVE FALSE
  OBVIOUS
<1>1. PICK n \in Nat \ S : \A m \in Nat \ S : n <= m
  BY Least
<1>2. n - 1 \in Nat /\ n - 1 \in S
  BY <1>1
<1> QED BY <1>1, <1>2

\* The sum of f over S as the folds of the community modules define it.
Summing(f, S, iter) ==
  iter = [s \in SUBSET S |->
            IF s = {} THEN 0
            ELSE LET x == CHOOSE x \in s : TRUE IN iter[s \ {x}] + f[x]]

SumOver(f, S) == (CHOOSE iter : Summing(f, S, iter))[S]

LEMMA FoldIsSum ==
  ASSUME NEW S, NEW items
  PROVE  FoldSet(LAMBDA i, sum : sum + items[i].quantity, 0, S)
           = SumOver([i \in S |-> items[i].quantity], S)
BY DEF FoldSet, MapThenFoldSet, SumOver, Summing

LEMMA LineTotalsIsSum ==
  ASSUME NEW lines
  PROVE  LineTotals(lines) = SumOver([i \in DOMAIN lines |-> lines[i].total], DOMAIN lines)
BY DEF LineTotals, FoldSeq, FoldFunction, FoldFunctionOnSet, MapThenFoldSet, SumOver, Summing

\* On a finite set there is such a function: on the subsets of n members it is
\* the one on the smaller subsets, continued.
LEMMA SummingExists ==
  ASSUME NEW f, NEW S, IsFiniteSet(S)
  PROVE  \E iter : Summing(f, S, iter)
<1> DEFINE Small(n) == {s \in SUBSET S : Cardinality(s) <= n}
           Up(n, g) == g = [s \in Small(n) |->
                              IF s = {} THEN 0
                              ELSE LET x == CHOOSE x \in s : TRUE IN g[s \ {x}] + f[x]]
           T == {n \in Nat : \E g : Up(n, g)}
<1>0. \A s \in SUBSET S :
        IsFiniteSet(s) /\ Cardinality(s) \in Nat /\ Cardinality(s) <= Cardinality(S)
  BY FS_Subset, FS_CardinalityType
<1>00. \A s \in SUBSET S : \A x \in s : Cardinality(s \ {x}) = Cardinality(s) - 1
  BY <1>0, FS_RemoveElement
<1>1. 0 \in T
  <2> DEFINE g == [s \in Small(0) |-> 0]
  <2>1. \A s \in Small(0) : s = {}
    BY <1>0, FS_EmptySet
  <2>2. Up(0, g)
    BY <2>1
  <2> QED BY <2>2
<1>2. ASSUME NEW n \in Nat, n \in T PROVE n + 1 \in T
  <2>1. PICK g : Up(n, g)
    BY <1>2
  <2> DEFINE h == [s \in Small(n + 1) |->
                     IF s = {} THEN 0
                     ELSE LET x == CHOOSE x \in s : TRUE IN g[s \ {x}] + f[x]]
  <2>2. \A s \in Small(n) : s \in Small(n + 1) /\ h[s] = g[s]
    <3>1. \A s \in Small(n) : s \in Small(n + 1)
      BY <1>0
    <3> QED BY <2>1, <3>1
  <2>3. \A s \in Small(n + 1) : s # {} => s \ {CHOOSE x \in s : TRUE} \in Small(n)
    <3> TAKE s \in Small(n + 1)
    <3> HAVE s # {}
    <3> DEFINE x == CHOOSE x \in s : TRUE
    <3>1. x \in s
      OBVIOUS
    <3> HIDE DEF x
    <3>2. s \ {x} \in SUBSET S /\ Cardinality(s \ {x}) = Cardinality(s) - 1
      BY <3>1, <1>00
    <3>3. Cardinality(s \ {x}) <= n
      BY <1>0, <3>2
    <3> QED BY <3>2, <3>3 DEF x
  <2>4. Up(n + 1, h)
    <3> DEFINE k == [s \in Small(n + 1) |->
                       IF s = {} THEN 0
                       ELSE LET x == CHOOSE x \in s : TRUE IN h[s \ {x}] + f[x]]
    <3>1. \A s \in Small(n + 1) : h[s] = k[s]
      <4> TAKE s \in Small(n + 1)
      <4>1. CASE s = {}
        BY <4>1
      <4>2. CASE s # {}
        <5>1. h[s \ {CHOOSE x \in s : TRUE}] = g[s \ {CHOOSE x \in s : TRUE}]
          BY <4>2, <2>2, <2>3
        <5> QED BY <4>2, <5>1
      <4> QED BY <4>1, <4>2
    <3>2. h = k
      BY <3>1
    <3> HIDE DEF h
    <3> QED BY <3>2
  <2>5. \E k : Up(n + 1, k)
    <3> HIDE DEF h, Up
    <3> QED BY <2>4
  <2> HIDE DEF Up
  <2> QED BY <2>5
<1> HIDE DEF T
<1>3. Cardinality(S) \in T
  BY <1>0, <1>1, <1>2, Induction
<1>4. Small(Cardinality(S)) = SUBSET S
  BY <1>0
<1> QED BY <1>3, <1>4 DEF T, Summing

\* There is one only.
LEMMA SummingUnique ==
  ASSUME NEW f, NEW S, IsFiniteSet(S), NEW g, NEW h, Summing(f, S, g), Summing(f, S, h)
  PROVE  g = h
<1> DEFINE T == {n \in Nat : \A s \in SUBSET S : Cardinality(s) = n => g[s] = h[s]}
<1>0. \A s \in SUBSET S : IsFiniteSet(s) /\ Cardinality(s) \in Nat
  BY FS_Subset, FS_CardinalityType
<1>00. \A s \in SUBSET S : \A x \in s : Cardinality(s \ {x}) = Cardinality(s) - 1
  BY <1>0, FS_RemoveElement
<1>1. 0 \in T
  <2>1. \A s \in SUBSET S : Cardinality(s) = 0 => s = {}
    BY <1>0, FS_EmptySet
  <2>2. g[{}] = 0 /\ h[{}] = 0
    BY DEF Summing
  <2> QED BY <2>1, <2>2
<1>2. ASSUME NEW n \in Nat, n \in T PROVE n + 1 \in T
  <2> SUFFICES ASSUME NEW s \in SUBSET S, Cardinality(s) = n + 1 PROVE g[s] = h[s]
    OBVIOUS
  <2> DEFINE x == CHOOSE x \in s : TRUE
  <2>1. s # {}
    BY FS_EmptySet
  <2>2. x \in s
    BY <2>1
  <2>3. g[s] = g[s \ {x}] + f[x] /\ h[s] = h[s \ {x}] + f[x]
    BY <2>1 DEF Summing
  <2>4. g[s \ {x}] = h[s \ {x}]
    <3> HIDE DEF x
    <3>1. s \ {x} \in SUBSET S /\ Cardinality(s \ {x}) = n
      BY <1>00, <2>2
    <3> QED BY <1>2, <3>1
  <2> QED BY <2>3, <2>4
<1> HIDE DEF T
<1>3. \A n \in Nat : n \in T
  BY <1>1, <1>2, Induction
<1>4. \A s \in SUBSET S : g[s] = h[s]
  BY <1>0, <1>3 DEF T
<1>5. g = [s \in SUBSET S |-> g[s]] /\ h = [s \in SUBSET S |-> h[s]]
  BY DEF Summing
<1> QED BY <1>4, <1>5

LEMMA SumStep ==
  ASSUME NEW f, NEW S, IsFiniteSet(S)
  PROVE  /\ SumOver(f, {}) = 0
         /\ S # {} => \E x \in S : SumOver(f, S) = SumOver(f, S \ {x}) + f[x]
<1>1. \A s \in SUBSET S : Summing(f, s, CHOOSE iter : Summing(f, s, iter))
  <2> TAKE s \in SUBSET S
  <2>1. IsFiniteSet(s)
    BY FS_Subset
  <2>2. \E iter : Summing(f, s, iter)
    BY <2>1, SummingExists
  <2> QED BY <2>2
<1> DEFINE iterOf(s) == CHOOSE iter : Summing(f, s, iter)
<1>2. \A s \in SUBSET S : SumOver(f, s) = iterOf(s)[s]
  BY DEF SumOver
<1>3. SumOver(f, {}) = 0
  <2>1. iterOf({})[{}] = 0
    BY <1>1 DEF Summing
  <2> QED BY <1>2, <2>1
<1>4. ASSUME S # {} PROVE \E x \in S : SumOver(f, S) = SumOver(f, S \ {x}) + f[x]
  <2> DEFINE x == CHOOSE x \in S : TRUE
             part == [s \in SUBSET (S \ {x}) |-> iterOf(S)[s]]
  <2>1. x \in S
    BY <1>4
  <2>2. Summing(f, S, iterOf(S)) /\ Summing(f, S \ {x}, iterOf(S \ {x}))
    BY <1>1
  <2> HIDE DEF iterOf
  <2>3. iterOf(S)[S] = iterOf(S)[S \ {x}] + f[x]
    BY <1>4, <2>2 DEF Summing
  <2> HIDE DEF x
  <2>4. Summing(f, S \ {x}, part)
    <3>1. \A s \in SUBSET (S \ {x}) :
            part[s] = IF s = {} THEN 0 ELSE LET y == CHOOSE y \in s : TRUE IN part[s \ {y}] + f[y]
      BY <2>2 DEF Summing
    <3> QED BY <3>1 DEF Summing
  <2>5. iterOf(S \ {x}) = part
    <3>1. IsFiniteSet(S \ {x})
      BY FS_Subset
    <3> HIDE DEF part
    <3> QED BY <2>2, <2>4, <3>1, SummingUnique
  <2>6. iterOf(S \ {x})[S \ {x}] = iterOf(S)[S \ {x}]
    BY <2>5
  <2> QED BY <1>2, <2>1, <2>3, <2>6
<1> QED BY <1>3, <1>4

\* Whichever member is taken away, it is its own number that is missing then.
LEMMA SumRemove ==
  ASSUME NEW S, IsFiniteSet(S), NEW f, \A x \in S : f[x] \in Nat
  PROVE  /\ SumOver(f, S) \in Nat
         /\ \A x \in S : SumOver(f, S) = SumOver(f, S \ {x}) + f[x]
<1> DEFINE Good(s) == /\ SumOver(f, s) \in Nat
                      /\ \A x \in s : SumOver(f, s) = SumOver(f, s \ {x}) + f[x]
           T == {n \in Nat : \A s \in SUBSET S : Cardinality(s) <= n => Good(s)}
<1>0. \A s \in SUBSET S : IsFiniteSet(s) /\ Cardinality(s) \in Nat
  BY FS_Subset, FS_CardinalityType
<1>00. \A s \in SUBSET S : \A x \in s : Cardinality(s \ {x}) = Cardinality(s) - 1
  BY <1>0, FS_RemoveElement
<1>1. 0 \in T
  <2>1. \A s \in SUBSET S : Cardinality(s) <= 0 => s = {}
    BY <1>0, FS_EmptySet
  <2>2. SumOver(f, {}) = 0
    BY SumStep
  <2>3. Good({})
    BY <2>2
  <2> HIDE DEF Good
  <2> QED BY <2>1, <2>3
<1>2. ASSUME NEW n \in Nat, n \in T PROVE n + 1 \in T
  <2> SUFFICES ASSUME NEW s \in SUBSET S, Cardinality(s) <= n + 1, s # {} PROVE Good(s)
    <3>0. SumOver(f, {}) = 0
      BY SumStep
    <3>1. Good({})
      BY <3>0
    <3> HIDE DEF Good
    <3> QED BY <3>1
  <2>0. \A r \in SUBSET S : Cardinality(r) <= n => Good(r)
    BY <1>2
  <2> HIDE DEF Good
  <2>2. PICK x \in s : SumOver(f, s) = SumOver(f, s \ {x}) + f[x]
    BY <1>0, SumStep
  <2>3. \A y \in s : s \ {y} \in SUBSET S /\ Good(s \ {y}) /\ f[y] \in Nat
    BY <1>0, <1>00, <2>0
  <2>4. SumOver(f, s) \in Nat
    BY <2>2, <2>3 DEF Good
  <2>5. ASSUME NEW y \in s, y # x PROVE SumOver(f, s) = SumOver(f, s \ {y}) + f[y]
    <3>1. SumOver(f, s \ {x}) = SumOver(f, (s \ {x}) \ {y}) + f[y]
      BY <2>3, <2>5 DEF Good
    <3>2. SumOver(f, s \ {y}) = SumOver(f, (s \ {y}) \ {x}) + f[x]
      BY <2>3, <2>5 DEF Good
    <3>3. (s \ {x}) \ {y} = (s \ {y}) \ {x}
      OBVIOUS
    <3>4. SumOver(f, (s \ {x}) \ {y}) \in Nat
      <4>1. /\ Cardinality(s \ {x}) <= n
            /\ Cardinality((s \ {x}) \ {y}) = Cardinality(s \ {x}) - 1
        <5>1. s \ {x} \in SUBSET S /\ y \in s \ {x} /\ Cardinality(s \ {x}) = Cardinality(s) - 1
          BY <1>00, <2>5
        <5>2. Cardinality(s) \in Nat
          BY <1>0
        <5> QED BY <1>00, <5>1, <5>2
      <4>2. Cardinality((s \ {x}) \ {y}) <= n
        BY <1>0, <4>1
      <4> QED BY <2>0, <4>2 DEF Good
    <3>5. f[x] \in Nat /\ f[y] \in Nat
      BY <2>3
    <3> DEFINE a == SumOver(f, (s \ {x}) \ {y})
    <3>6. SumOver(f, s) = (a + f[y]) + f[x] /\ SumOver(f, s \ {y}) = a + f[x]
      BY <2>2, <3>1, <3>2, <3>3
    <3>7. (a + f[y]) + f[x] = (a + f[x]) + f[y]
      <4>1. a \in Nat
        BY <3>4
      <4> HIDE DEF a
      <4> QED BY <3>5, <4>1
    <3> QED BY <3>6, <3>7
  <2> QED BY <2>2, <2>4, <2>5 DEF Good
<1> HIDE DEF T
<1>3. Cardinality(S) \in T
  BY <1>0, <1>1, <1>2, Induction
<1> QED BY <1>0, <1>3 DEF T

-----------------------------------------------------------------------------
(* A cart that lists no variant twice.                                       *)

Distinct(lines) ==
  /\ Len(lines) \in Nat /\ DOMAIN lines = 1 .. Len(lines)
  /\ \A i \in DOMAIN lines, j \in DOMAIN lines :
       lines[i].variant = lines[j].variant => i = j

LEMMA OneOf ==
  ASSUME NEW lines, Distinct(lines), NEW i \in DOMAIN lines
  PROVE  Of(lines, lines[i].variant) = <<lines[i]>>
<1> DEFINE v == lines[i].variant
           places == {j \in DOMAIN lines : lines[j].variant = v}
<1>1. places = {i} /\ i \in Nat
  BY DEF Distinct
<1>2. Cardinality(places) = 1
  BY <1>1, FS_Singleton
<1>3. Cardinality({j \in places : j < i}) = 0
  <2>1. {j \in places : j < i} = {}
    BY <1>1
  <2> HIDE DEF places
  <2> QED BY <2>1, FS_EmptySet
<1>4. (CHOOSE k \in places : Cardinality({j \in places : j < k}) = 1 - 1) = i
  <2> HIDE DEF places
  <2> QED BY <1>1, <1>3
<1>5. Of(lines, v) = [n \in 1 .. 1 |-> lines[i]]
  <2> DEFINE at(n) == CHOOSE k \in places : Cardinality({j \in places : j < k}) = n - 1
  <2>1. Of(lines, v) = [n \in 1 .. Cardinality(places) |-> lines[at(n)]]
    BY DEF Of, At
  <2>2. at(1) = i
    BY <1>4
  <2>3. \A n \in 1 .. 1 : n = 1
    OBVIOUS
  <2> HIDE DEF at, places
  <2> QED BY <1>2, <2>1, <2>2, <2>3
<1>6. <<lines[i]>> = [n \in 1 .. 1 |-> lines[i]]
  OBVIOUS
<1> QED BY <1>5, <1>6

LEMMA SumOfOne ==
  ASSUME NEW f, f[1] \in Nat
  PROVE  SumOver(f, {1}) = f[1]
<1>1. IsFiniteSet({1})
  BY FS_Singleton
<1>2. SumOver(f, {1}) = SumOver(f, {1} \ {1}) + f[1]
  BY <1>1, SumRemove
<1>3. SumOver(f, {}) = 0
  BY <1>1, SumStep
<1>4. {1} \ {1} = {}
  OBVIOUS
<1> QED BY <1>2, <1>3, <1>4

\* The quantity of a variant is that of its one line, and so is its total.
LEMMA OneQuantity ==
  ASSUME NEW lines, Distinct(lines), NEW i \in DOMAIN lines, lines[i].quantity \in Nat
  PROVE  Quantities(lines)[lines[i].variant] = lines[i].quantity
<1> DEFINE only == Of(lines, lines[i].variant)
           f == [n \in DOMAIN only |-> only[n].quantity]
<1>1. Quantities(lines)[lines[i].variant] =
        FoldSeq(LAMBDA line, sum : sum + line.quantity, 0, only)
  BY DEF Quantities, Variants
<1>2. FoldSeq(LAMBDA line, sum : sum + line.quantity, 0, only) = SumOver(f, DOMAIN only)
  <2> HIDE DEF only
  <2> QED BY DEF FoldSeq, FoldFunction, FoldFunctionOnSet, MapThenFoldSet, SumOver, Summing
<1>3. only = <<lines[i]>>
  BY OneOf
<1>4. DOMAIN only = {1} /\ f[1] = lines[i].quantity
  <2> HIDE DEF only
  <2> QED BY <1>3
<1> HIDE DEF only, f
<1> QED BY <1>1, <1>2, <1>4, SumOfOne

LEMMA OneTotal ==
  ASSUME NEW lines, Distinct(lines), NEW i \in DOMAIN lines, lines[i].total \in Nat
  PROVE  Totals(lines)[lines[i].variant] = lines[i].total
<1> DEFINE only == Of(lines, lines[i].variant)
           f == [n \in DOMAIN only |-> only[n].total]
<1>1. Totals(lines)[lines[i].variant] = LineTotals(only)
  BY DEF Totals, Variants
<1>2. LineTotals(only) = SumOver(f, DOMAIN only)
  BY LineTotalsIsSum
<1>3. only = <<lines[i]>>
  BY OneOf
<1>4. DOMAIN only = {1} /\ f[1] = lines[i].total
  <2> HIDE DEF only
  <2> QED BY <1>3
<1> HIDE DEF only, f
<1> QED BY <1>1, <1>2, <1>4, SumOfOne
LEMMA DistinctCount ==
  ASSUME NEW lines, Distinct(lines)
  PROVE  Cardinality(Variants(lines)) = Len(lines)
<1> DEFINE of == [i \in 1 .. Len(lines) |-> lines[i].variant]
<1>1. of \in Bijection(1 .. Len(lines), Variants(lines))
  BY DEF Distinct, Variants, Bijection, Injection, Surjection, IsInjective
<1>2. ExistsBijection(1 .. Len(lines), Variants(lines))
  BY <1>1 DEF ExistsBijection
<1> QED BY <1>2, FS_CountingElements DEF Distinct

\* Lines as a shop reports them, and as they are approved.
Tidy(lines) ==
  /\ Distinct(lines)
  /\ \A i \in DOMAIN lines :
       /\ lines[i] = [variant |-> lines[i].variant, quantity |-> lines[i].quantity,
                      total |-> lines[i].total]
       /\ lines[i].quantity \in Nat /\ lines[i].total \in Nat

Agreed(lines) ==
  /\ Distinct(lines)
  /\ \A i \in DOMAIN lines : lines[i].quantity \in Nat /\ lines[i].price \in Nat

\* The line a shop reports when it has what was approved.
InCartAs(line) ==
  [variant |-> line.variant, quantity |-> line.quantity, total |-> line.quantity * line.price]

\* Two carts of one hash report the same line for a variant.
LEMMA SameLines ==
  ASSUME NEW o, NEW p, CartHash(p) = CartHash(o), Distinct(o.lines), Distinct(p.lines),
         NEW i \in DOMAIN o.lines
  PROVE  \E j \in DOMAIN p.lines : p.lines[j] = o.lines[i]
<1>1. /\ Variants(p.lines) = Variants(o.lines)
      /\ \A v \in Variants(o.lines) : Of(p.lines, v) = Of(o.lines, v)
  <2> DEFINE f == [v \in Variants(p.lines) |-> Of(p.lines, v)]
             g == [v \in Variants(o.lines) |-> Of(o.lines, v)]
  <2>1. f = g
    BY DEF CartHash
  <2>2. DOMAIN f = Variants(p.lines) /\ DOMAIN g = Variants(o.lines)
    OBVIOUS
  <2>3. \A v \in Variants(p.lines) : f[v] = Of(p.lines, v)
    OBVIOUS
  <2>4. \A v \in Variants(o.lines) : g[v] = Of(o.lines, v)
    OBVIOUS
  <2> HIDE DEF f, g
  <2> QED BY <2>1, <2>2, <2>3, <2>4
<1>2. PICK j \in DOMAIN p.lines : p.lines[j].variant = o.lines[i].variant
  BY <1>1 DEF Variants
<1>3. /\ Of(p.lines, p.lines[j].variant) = <<p.lines[j]>>
      /\ Of(o.lines, o.lines[i].variant) = <<o.lines[i]>>
  BY OneOf
<1>4. o.lines[i].variant \in Variants(o.lines)
  BY DEF Variants
<1> QED BY <1>1, <1>2, <1>3, <1>4

\* A cart that compares equal has one line for every line approved, in its quantity
\* and at its price.
LEMMA MatchedLine ==
  ASSUME NEW o, NEW lines, Tidy(o.lines), Agreed(lines),
         NEW expected, expected.lines = lines,
         MatchesQuantities(expected, o), MatchesPrices(expected, o), NEW i \in DOMAIN lines
  PROVE  \E j \in DOMAIN o.lines :
           o.lines[j] = InCartAs(lines[i])
<1> DEFINE v == lines[i].variant
<1>0. Quantities(o.lines) = Quantities(lines)
  BY DEF MatchesQuantities, Approved
<1>1. v \in Variants(lines) /\ v \in Variants(o.lines)
  BY <1>0 DEF Variants, Quantities
<1>2. PICK j \in DOMAIN o.lines : o.lines[j].variant = v
  BY <1>1 DEF Variants
<1>3. /\ o.lines[j] = [variant |-> o.lines[j].variant, quantity |-> o.lines[j].quantity,
                        total |-> o.lines[j].total]
      /\ o.lines[j].quantity \in Nat /\ o.lines[j].total \in Nat
  BY DEF Tidy
<1>4. o.lines[j].quantity = lines[i].quantity
  <2>1. Quantities(o.lines)[o.lines[j].variant] = o.lines[j].quantity
    BY <1>3, OneQuantity DEF Tidy
  <2>2. Quantities(lines)[lines[i].variant] = lines[i].quantity
    BY OneQuantity DEF Agreed
  <2> QED BY <1>0, <1>2, <2>1, <2>2
<1>5. o.lines[j].total = lines[i].price * lines[i].quantity
  <2>1. Totals(o.lines)[o.lines[j].variant] = o.lines[j].total
    BY <1>3, OneTotal DEF Tidy
  <2>2. Of(lines, v) = <<lines[i]>>
    BY OneOf DEF Agreed
  <2>3. Of(lines, v)[1] = lines[i]
    BY <2>2
  <2>4. Totals(o.lines)[v] = lines[i].price * lines[i].quantity
    <3> HIDE DEF v
    <3> QED BY <1>1, <2>3 DEF MatchesPrices, Approved, ApprovedTotals
  <2> QED BY <1>2, <2>1, <2>4
<1>6. lines[i].price * lines[i].quantity = lines[i].quantity * lines[i].price
  BY DEF Agreed
<1> QED BY <1>2, <1>3, <1>4, <1>5, <1>6 DEF InCartAs

LEMMA MatchedCart ==
  ASSUME NEW o, NEW p, NEW lines, CartHash(p) = CartHash(o),
         Tidy(o.lines), Tidy(p.lines),
         Agreed(lines), NEW expected, expected.lines = lines,
         MatchesQuantities(expected, o), MatchesPrices(expected, o)
  PROVE  /\ p.total = o.total /\ p.merchant = o.merchant
         /\ Len(p.lines) = Len(lines)
         /\ \A i \in DOMAIN lines : \E j \in DOMAIN p.lines :
              p.lines[j] = InCartAs(lines[i])
<1>1. p.total = o.total /\ p.merchant = o.merchant
  BY DEF CartHash
<1>2. Len(p.lines) = Len(lines)
  <2>1. Variants(p.lines) = Variants(o.lines)
    <3> DEFINE f == [v \in Variants(p.lines) |-> Of(p.lines, v)]
               g == [v \in Variants(o.lines) |-> Of(o.lines, v)]
    <3>1. f = g
      BY DEF CartHash
    <3>2. DOMAIN f = Variants(p.lines) /\ DOMAIN g = Variants(o.lines)
      OBVIOUS
    <3> HIDE DEF f, g
    <3> QED BY <3>1, <3>2
  <2>2. Variants(o.lines) = Variants(lines)
    BY DEF MatchesQuantities, Approved, Quantities
  <2>3. /\ Cardinality(Variants(p.lines)) = Len(p.lines)
        /\ Cardinality(Variants(lines)) = Len(lines)
    BY DistinctCount DEF Agreed, Tidy
  <2> QED BY <2>1, <2>2, <2>3
<1>3. ASSUME NEW i \in DOMAIN lines
      PROVE  \E j \in DOMAIN p.lines :
              p.lines[j] = InCartAs(lines[i])
  <2>2. PICK k \in DOMAIN o.lines :
          o.lines[k] = InCartAs(lines[i])
    BY MatchedLine
  <2>3. \E j \in DOMAIN p.lines : p.lines[j] = o.lines[k]
    BY SameLines DEF Tidy
  <2> QED BY <2>2, <2>3
<1> QED BY <1>1, <1>2, <1>3

-----------------------------------------------------------------------------
Offer(x) == x.variant \in Variant /\ x.price \in Nat

\* A cart as it was read at a merchant.
CartRead(o) == o.id \in CartIds /\ Tidy(o.lines)

Stated(items) ==
  /\ Len(items) \in Nat /\ DOMAIN items = 1 .. Len(items)
  /\ \A i \in DOMAIN items : items[i].quantity \in Nat

IntentFields == {"items", "cap", "merchant", "complete", "status", "hash", "at"}

IntentShape(i) ==
  /\ i = [f \in IntentFields |-> i[f]]
  /\ Stated(i.items)

SessionFields ==
  {"intent", "named", "blocked", "offers", "selected", "observed", "confirmed", "revision",
   "straddled"}

SessionShape(s) ==
  /\ s = [f \in SessionFields |-> s[f]]
  /\ s.intent # Nil => IntentShape(s.intent)
  /\ \A item \in DOMAIN s.offers :
       item \in Nat /\ \A offer \in s.offers[item] : Offer(offer)
  /\ \A item \in DOMAIN s.selected : item \in Nat /\ Offer(s.selected[item])
  /\ s.observed # Nil => CartRead(s.observed)

\* What a call has in hand: what it asked, and what it was answered.
RequestShape(request, answer) ==
  LET answered == answer \notin {Nil, Error}
  IN  /\ request.do \in {"catalogue", "tools", "clear", "add", "read"}
      /\ request.do = "catalogue" /\ answered =>
           \A offer \in answer : Offer(offer) /\ ProductOf[offer.variant] = request.product
      /\ request.do = "add" =>
           /\ request.variant \in Variant /\ request.quantity \in Nat
           /\ request.cart \in CartIds \cup {Nil}
           /\ answered => answer \in CartIds
      /\ request.do = "read" =>
           request.cart \in CartIds /\ (answered => CartRead(answer))

AskFields ==
  {"kind", "item", "offer", "request", "answer", "selections", "left", "quiet"}

AskShape(r) ==
  /\ r = [f \in AskFields |-> r[f]]
  /\ r.kind \in {"search", "select", "continue", "pay"}
  /\ r.kind = "search" => r.item \in Nat /\ r.request.do = "catalogue"
  /\ r.kind = "select" => r.item \in Nat /\ Offer(r.offer)
  /\ \A item \in DOMAIN r.selections : item \in Nat /\ Offer(r.selections[item])
  /\ r.left \subseteq DOMAIN r.selections
  /\ RequestShape(r.request, r.answer)

Shape(r) == r = Idle \/ AskShape(r)

Shapes == call = [c \in Calls |-> call[c]] /\ \A c \in Calls : Shape(call[c])

Basket(b) ==
  /\ b = [v \in DOMAIN b |-> b[v]] /\ DOMAIN b \subseteq Variant /\ IsFiniteSet(DOMAIN b)
  /\ \A v \in DOMAIN b : b[v] \in Nat

Wares(baskets) ==
  /\ price \in [Variant -> Nat]
  /\ baskets = [id \in CartIds |-> baskets[id]]
  /\ \A id \in CartIds : baskets[id] = Nil \/ Basket(baskets[id])

Formed == Wares(carts) /\ Shapes /\ SessionShape(session)

-----------------------------------------------------------------------------
LEMMA QuietShape ==
  ASSUME NEW r, AskShape(r)
  PROVE  /\ AskShape([r EXCEPT !.quiet = FALSE])
         /\ [r EXCEPT !.quiet = FALSE] # Idle
         /\ r # Idle
<1> DEFINE q == [r EXCEPT !.quiet = FALSE]
<1>1. r = [f \in AskFields |-> r[f]]
  BY DEF AskShape
<1>2. /\ q = [f \in AskFields |-> q[f]]
      /\ q.kind = r.kind /\ q.item = r.item /\ q.offer = r.offer /\ q.request = r.request
      /\ q.answer = r.answer /\ q.selections = r.selections /\ q.left = r.left
  BY <1>1 DEF AskFields
<1> HIDE DEF q
<1>3. AskShape(q)
  BY <1>2 DEF AskShape
<1>4. r.kind # "idle" /\ q.kind # "idle"
  BY <1>2 DEF AskShape
<1>5. r # Idle /\ q # Idle
  BY <1>4 DEF Idle
<1> QED BY <1>3, <1>5 DEF q

LEMMA Step ==
  ASSUME Shapes, NEW c \in Calls, NEW new, Shape(new),
         call' = [call EXCEPT ![c] = new] \/ call' = Noticed(c, new)
  PROVE  Shapes'
<1>1. call' = [d \in Calls |-> call'[d]]
  BY DEF Shapes, Noticed
<1>2. ASSUME NEW d \in Calls PROVE Shape(call'[d])
  <2>1. CASE d = c
    BY <2>1 DEF Shapes, Noticed
  <2>2. CASE d # c /\ call' = [call EXCEPT ![c] = new]
    BY <2>2 DEF Shapes
  <2>3. CASE d # c /\ call' = Noticed(c, new)
    <3>1. call'[d] = IF Active(d) THEN [call[d] EXCEPT !.quiet = FALSE] ELSE Idle
      BY <2>3 DEF Noticed
    <3> QED BY <3>1, QuietShape DEF Shapes, Shape, Active
  <2> QED BY <2>1, <2>2, <2>3
<1> QED BY <1>1, <1>2 DEF Shapes

LEMMA StepEveryone ==
  ASSUME Shapes, call' = Everyone
  PROVE  Shapes'
<1>1. call' = [d \in Calls |-> call'[d]]
  BY DEF Everyone
<1>2. ASSUME NEW d \in Calls PROVE Shape(call'[d])
  <2>1. call'[d] = IF Active(d) THEN [call[d] EXCEPT !.quiet = FALSE] ELSE Idle
    BY DEF Everyone
  <2> QED BY <2>1, QuietShape DEF Shapes, Shape, Active
<1> QED BY <1>1, <1>2 DEF Shapes

LEMMA ListsOnce ==
  ASSUME NEW S, IsFiniteSet(S)
  PROVE  /\ Cardinality(S) \in Nat
         /\ SetToSeq(S) \in [1 .. Cardinality(S) -> S] /\ IsInjective(SetToSeq(S))
<1>1. PICK f \in Bijection(1 .. Cardinality(S), S) : TRUE
  BY FS_CardinalityType DEF ExistsBijection
<1>2. f \in [1 .. Cardinality(S) -> S] /\ IsInjective(f)
  BY <1>1 DEF Bijection, Injection, IsInjective
<1> QED BY <1>2, FS_CardinalityType DEF SetToSeq

LEMMA Observed ==
  ASSUME Wares(carts), NEW id \in CartIds
  PROVE  CartRead(Observe(id)) /\ Observe(id).id = id
<1> DEFINE b == InCart(id)
           seq == SetToSeq(DOMAIN b)
           n == Cardinality(DOMAIN b)
           line(i) == LET v == SetToSeq(DOMAIN InCart(id))[i]
                      IN  [variant |-> v, quantity |-> InCart(id)[v],
                           total |-> InCart(id)[v] * price[v]]
           lines == [i \in 1 .. n |-> line(i)]
<1>1. Basket(b)
  BY FS_EmptySet DEF Wares, InCart, None, Basket
<1>2. n \in Nat /\ seq \in [1 .. n -> DOMAIN b] /\ IsInjective(seq)
  BY <1>1, ListsOnce DEF Basket
<1>3. Observe(id).id = id /\ Observe(id).lines = lines
  BY DEF Observe, ObservedCart
<1>4. \A i \in 1 .. n :
        /\ line(i) = [variant |-> seq[i], quantity |-> b[seq[i]], total |-> b[seq[i]] * price[seq[i]]]
        /\ b[seq[i]] \in Nat /\ price[seq[i]] \in Nat /\ b[seq[i]] * price[seq[i]] \in Nat
  <2> TAKE i \in 1 .. n
  <2>1. b[seq[i]] \in Nat /\ price[seq[i]] \in Nat
    <3> HIDE DEF b, seq, n
    <3> QED BY <1>1, <1>2 DEF Basket, Wares
  <2>2. b[seq[i]] * price[seq[i]] \in Nat
    <3> HIDE DEF b, seq, n
    <3> QED BY <2>1
  <2> QED BY <2>1, <2>2
<1> HIDE DEF b, seq, n, line
<1>5. Len(lines) = n /\ DOMAIN lines = 1 .. n /\ n \in Nat
  BY <1>2
<1>6. Tidy(lines)
  <2>1. \A i \in 1 .. n : /\ lines[i] = line(i) /\ lines[i].variant = seq[i]
                         /\ lines[i].quantity = b[seq[i]]
                         /\ lines[i].total = b[seq[i]] * price[seq[i]]
    BY <1>4
  <2>2. Distinct(lines)
    BY <1>2, <1>5, <2>1 DEF Distinct, IsInjective
  <2> HIDE DEF lines
  <2> QED BY <1>4, <1>5, <2>1, <2>2 DEF Tidy
<1> QED BY <1>3, <1>6 DEF CartRead

\* A new question, and a question with its answer.
LEMMA AskShaped ==
  ASSUME NEW kind \in {"search", "select", "continue", "pay"}, NEW item, NEW offer, NEW request,
         RequestShape(request, Nil),
         kind = "search" => item \in Nat /\ request.do = "catalogue",
         kind = "select" => item \in Nat /\ Offer(offer)
  PROVE  AskShape(Ask(kind, item, offer, request))
<1> DEFINE r == Ask(kind, item, offer, request)
<1>1. /\ r = [f \in AskFields |-> r[f]]
      /\ r.kind = kind /\ r.item = item /\ r.offer = offer /\ r.request = request
      /\ r.answer = Nil /\ r.selections = None /\ r.left = {}
  <2>1. DOMAIN r = AskFields
    BY DEF Ask, AskFields
  <2>2. r = [f \in DOMAIN r |-> r[f]]
    BY DEF Ask
  <2>3. /\ r.kind = kind /\ r.item = item /\ r.offer = offer /\ r.request = request
        /\ r.answer = Nil /\ r.selections = None /\ r.left = {}
    BY DEF Ask
  <2> QED BY <2>1, <2>2, <2>3
<1> HIDE DEF r
<1>2. AskShape(r)
  BY <1>1 DEF AskShape, None
<1> QED BY <1>2 DEF r

LEMMA WithAnswer ==
  ASSUME NEW r, AskShape(r), NEW answer
  PROVE  LET q == [r EXCEPT !.answer = answer]
         IN  /\ q = [f \in AskFields |-> q[f]]
             /\ q.kind = r.kind /\ q.item = r.item /\ q.offer = r.offer /\ q.request = r.request
             /\ q.answer = answer /\ q.selections = r.selections /\ q.left = r.left
             /\ q.quiet = r.quiet
<1>1. r = [f \in AskFields |-> r[f]]
  BY DEF AskShape
<1> QED BY <1>1 DEF AskFields

LEMMA AnswerShaped ==
  ASSUME NEW r, AskShape(r), NEW answer, RequestShape(r.request, answer)
  PROVE  AskShape([r EXCEPT !.answer = answer])
<1> DEFINE q == [r EXCEPT !.answer = answer]
<1>1. /\ q = [f \in AskFields |-> q[f]]
      /\ q.kind = r.kind /\ q.item = r.item /\ q.offer = r.offer /\ q.request = r.request
      /\ q.answer = answer /\ q.selections = r.selections /\ q.left = r.left
  BY WithAnswer
<1> HIDE DEF q
<1>2. AskShape(q)
  BY <1>1 DEF AskShape
<1> QED BY <1>2 DEF q

\* No cart is known to nobody: the merchant makes one while there is room for it.
LEMMA CartOfIs ==
  ASSUME NEW request, NEW answer, RequestShape(request, answer), request.do = "add", RoomAt(request)
  PROVE  CartOf(request) \in CartIds
BY DEF RequestShape, RoomAt, CartOf

LEMMA AddedBasket ==
  ASSUME Wares(carts), NEW request, NEW answer, RequestShape(request, answer), request.do = "add",
         RoomAt(request)
  PROVE  Wares(Added(request))
<1> DEFINE id == CartOf(request)
           had == InCart(id)
           b == [v \in DOMAIN had \cup {request.variant} |->
                   (IF v \in DOMAIN had THEN had[v] ELSE 0)
                   + (IF v = request.variant THEN request.quantity ELSE 0)]
<1>1. id \in CartIds
  BY CartOfIs
<1>2. Basket(had)
  <2> HIDE DEF id
  <2> QED BY <1>1, FS_EmptySet DEF Wares, InCart, None, Basket
<1>3. Added(request) = [carts EXCEPT ![id] = b]
  BY DEF Added
<1>4. Basket(b)
  <2>1. request.variant \in Variant /\ request.quantity \in Nat
    BY DEF RequestShape
  <2> HIDE DEF had
  <2>2. DOMAIN b = DOMAIN had \cup {request.variant} /\ b = [v \in DOMAIN b |-> b[v]]
    OBVIOUS
  <2>3. IsFiniteSet(DOMAIN had \cup {request.variant})
    BY <1>2, FS_AddElement DEF Basket
  <2>4. \A v \in DOMAIN had \cup {request.variant} : b[v] \in Nat
    BY <1>2, <2>1 DEF Basket
  <2> HIDE DEF b
  <2> QED BY <1>2, <2>1, <2>2, <2>3, <2>4 DEF Basket
<1> HIDE DEF b, id
<1> QED BY <1>1, <1>3, <1>4 DEF Wares

LEMMA EffectWares ==
  ASSUME Wares(carts), NEW request, NEW answer, RequestShape(request, answer), RoomAt(request)
  PROVE  Wares(Effect(request))
<1>1. CASE request.do = "clear"
  <2>1. Effect(request) = [carts EXCEPT ![request.cart] = Nil]
    BY <1>1 DEF Effect
  <2> QED BY <2>1 DEF Wares
<1>2. CASE request.do = "add"
  <2>1. Effect(request) = IF CanAdd(request) THEN Added(request) ELSE carts
    BY <1>2 DEF Effect
  <2> QED BY <1>2, <2>1, AddedBasket
<1>3. CASE request.do \notin {"clear", "add"}
  <2>1. Effect(request) = carts
    BY <1>3 DEF Effect
  <2> QED BY <2>1
<1> QED BY <1>1, <1>2, <1>3

LEMMA AnswersShaped ==
  ASSUME Wares(carts), NEW request, RequestShape(request, Nil), RoomAt(request),
         NEW answer, answer \in Answers(request) \/ answer = Error
  PROVE  RequestShape(request, answer)
<1>0. CASE answer = Error
  BY <1>0 DEF RequestShape
<1>1. CASE answer \in Answers(request) /\ request.do = "catalogue"
  <2>1. answer = Offers(request.product, request.merchants)
    BY <1>1 DEF Answers
  <2>2. \A offer \in answer : Offer(offer) /\ ProductOf[offer.variant] = request.product
    BY <2>1 DEF Offers, Offer, Wares
  <2> QED BY <1>1, <2>2 DEF RequestShape
<1>2. CASE answer \in Answers(request) /\ request.do \in {"tools", "clear"}
  BY <1>2 DEF RequestShape
<1>3. CASE answer \in Answers(request) /\ request.do = "add"
  <2>1. answer \in {CartOf(request), Error}
    BY <1>3 DEF Answers
  <2>2. CartOf(request) \in CartIds
    BY <1>3, CartOfIs
  <2> QED BY <1>3, <2>1, <2>2 DEF RequestShape
<1>4. CASE answer \in Answers(request) /\ request.do = "read"
  <2>1. answer \in {Observe(request.cart), Error}
    BY <1>4 DEF Answers
  <2>2. request.cart \in CartIds
    BY <1>4 DEF RequestShape
  <2>3. CartRead(Observe(request.cart))
    BY <2>2, Observed
  <2> QED BY <1>4, <2>1, <2>2, <2>3 DEF RequestShape
<1> QED BY <1>0, <1>1, <1>2, <1>3, <1>4 DEF RequestShape

LEMMA ServeForms ==
  ASSUME Formed, NEW c \in Calls, Serve(c)
  PROVE  Formed'
<1>1. Active(c) /\ call[c].answer = Nil /\ RoomAt(call[c].request) /\ UNCHANGED <<session, price>>
  BY DEF Serve
<1>2. AskShape(call[c]) /\ RequestShape(call[c].request, Nil)
  BY <1>1 DEF Formed, Shapes, Shape, Active, AskShape
<1>3. carts' \in {carts, Effect(call[c].request)}
  BY DEF Serve
<1>4. PICK answer : /\ answer \in Answers(call[c].request) \/ answer = Error
                    /\ Gets(c, answer)
  BY DEF Serve
<1>5. AskShape([call[c] EXCEPT !.answer = answer])
  BY <1>1, <1>2, <1>4, AnswersShaped, AnswerShaped DEF Formed
<1>6. Wares(carts)'
  <2>1. Wares(carts')
    BY <1>1, <1>2, <1>3, EffectWares DEF Formed
  <2> QED BY <1>1, <2>1 DEF Wares
<1>7. Shapes'
  <2>1. \/ call' = [call EXCEPT ![c] = [call[c] EXCEPT !.answer = answer]]
        \/ call' = Noticed(c, [call[c] EXCEPT !.answer = answer])
    BY <1>4 DEF Gets
  <2> HIDE DEF Shapes
  <2> QED BY <1>5, <2>1, Step DEF Shape, Formed
<1> QED BY <1>1, <1>6, <1>7 DEF Formed

LEMMA CompiledShape ==
  ASSUME NEW request \in Requests
  PROVE  Compiled(request) = Nil \/ IntentShape(Compiled(request))
<1> SUFFICES ASSUME Compiled(request) # Nil PROVE IntentShape(Compiled(request))
  OBVIOUS
<1> DEFINE i == Compiled(request)
<1>1. /\ ~Incomplete(request)
      /\ i = [items |-> request.items, cap |-> request.cap, merchant |-> request.merchant,
              complete |-> TRUE, status |-> "draft", hash |-> Nil, at |-> Nil]
  BY DEF Compiled
<1>2. Stated(request.items)
  <2>1. request.items \in Seq(Range(request.items))
    BY CheckoutAssumption
  <2>2. Len(request.items) \in Nat /\ DOMAIN request.items = 1 .. Len(request.items)
    BY <2>1
  <2>3. \A j \in DOMAIN request.items : request.items[j].quantity \in Nat
    BY <1>1, CheckoutAssumption DEF Incomplete
  <2> QED BY <2>2, <2>3 DEF Stated
<1>3. i = [f \in IntentFields |-> i[f]]
  <2> HIDE DEF i
  <2>1. DOMAIN i = IntentFields
    BY <1>1 DEF IntentFields
  <2>2. i = [f \in DOMAIN i |-> i[f]]
    BY <1>1
  <2> QED BY <2>1, <2>2
<1>4. i.items = request.items
  <2> HIDE DEF i
  <2> QED BY <1>1
<1> HIDE DEF i
<1>5. IntentShape(i)
  BY <1>2, <1>3, <1>4 DEF IntentShape
<1> QED BY <1>5 DEF i

\* A session that has just been given its request.
LEMMA BlankShape ==
  ASSUME NEW intent, intent = Nil \/ IntentShape(intent), NEW named, NEW blocked,
         NEW revision, NEW straddled
  PROVE  SessionShape([intent |-> intent, named |-> named, blocked |-> blocked,
                       offers |-> None, selected |-> None, observed |-> Nil,
                       confirmed |-> FALSE, revision |-> revision, straddled |-> straddled])
<1> DEFINE s == [intent |-> intent, named |-> named, blocked |-> blocked,
                 offers |-> None, selected |-> None, observed |-> Nil,
                 confirmed |-> FALSE, revision |-> revision, straddled |-> straddled]
<1>1. s = [f \in SessionFields |-> s[f]]
  <2>1. DOMAIN s = SessionFields
    BY DEF SessionFields
  <2>2. s = [f \in DOMAIN s |-> s[f]]
    OBVIOUS
  <2> QED BY <2>1, <2>2
<1>2. s.intent = intent /\ s.offers = None /\ s.selected = None /\ s.observed = Nil
  OBVIOUS
<1> HIDE DEF s
<1>3. SessionShape(s)
  BY <1>1, <1>2 DEF SessionShape, None
<1> QED BY <1>3 DEF s

LEMMA InitForms == Init => Formed
<1> SUFFICES ASSUME Init PROVE Formed
  OBVIOUS
<1>1. Wares(carts)
  BY CheckoutAssumption DEF Init, Wares, Variant
<1>2. Shapes
  BY DEF Init, Shapes, Shape
<1>3. SessionShape(session)
  <2>1. PICK request \in Requests, blocked \in BOOLEAN :
          session = [intent |-> Compiled(request), named |-> request.merchant,
                     blocked |-> blocked, offers |-> None, selected |-> None,
                     observed |-> Nil, confirmed |-> FALSE, revision |-> 0,
                     straddled |-> FALSE]
    BY DEF Init
  <2> QED BY <2>1, CompiledShape, BlankShape
<1> QED BY <1>1, <1>2, <1>3 DEF Formed

LEMMA ContinueForms ==
  ASSUME Formed, NEW c \in Calls, NEW request \in Requests, Continue(c, request)
  PROVE  Formed'
<1>1. UNCHANGED <<carts, price>>
  BY DEF Continue
<1>2. SessionShape(session')
  <2>1. PICK straddled : session' = Revised(request, straddled)
    BY DEF Continue
  <2>2. SessionShape(Revised(request, straddled))
    BY CompiledShape, BlankShape DEF Revised
  <2> QED BY <2>1, <2>2
<1>3. Shapes'
  <2> DEFINE new == Ask("continue", Nil, Nil, Tools(request.merchant))
  <2>1. AskShape(new)
    BY AskShaped DEF RequestShape, Tools
  <2>2. call' = Noticed(c, new) \/ call' = Everyone
    BY DEF Continue
  <2> HIDE DEF new
  <2> QED BY <2>1, <2>2, Step, StepEveryone DEF Formed, Shape
<1> QED BY <1>1, <1>2, <1>3 DEF Formed, Wares

\* A field of the session replaced.
LEMMA SessionWith ==
  ASSUME NEW s, SessionShape(s), NEW t, NEW changed,
         t = [f \in SessionFields |-> t[f]],
         \A f \in SessionFields \ changed : t[f] = s[f],
         "intent" \in changed /\ t.intent # Nil => IntentShape(t.intent),
         "offers" \in changed => \A item \in DOMAIN t.offers :
           item \in Nat /\ \A offer \in t.offers[item] : Offer(offer),
         "selected" \in changed => \A item \in DOMAIN t.selected :
           item \in Nat /\ Offer(t.selected[item]),
         "observed" \in changed /\ t.observed # Nil => CartRead(t.observed)
  PROVE  SessionShape(t)
<1>1. /\ "intent" \notin changed => t.intent = s.intent
      /\ "offers" \notin changed => t.offers = s.offers
      /\ "selected" \notin changed => t.selected = s.selected
      /\ "observed" \notin changed => t.observed = s.observed
  BY DEF SessionFields
<1> QED BY <1>1 DEF SessionShape

LEMMA CheckedForms ==
  ASSUME Formed, NEW c \in Calls, Checked(c)
  PROVE  Formed'
<1>1. UNCHANGED <<carts, price>> /\ call' = Noticed(c, Idle)
  BY DEF Checked
<1>2. SessionShape(session')
  <2>1. CASE session' = session
    BY <2>1 DEF Formed
  <2>2. CASE session' = [session EXCEPT !.blocked = TRUE]
    <3> DEFINE t == [session EXCEPT !.blocked = TRUE]
    <3>1. session = [f \in SessionFields |-> session[f]]
      BY DEF Formed, SessionShape
    <3>2. /\ t = [f \in SessionFields |-> t[f]]
          /\ \A f \in SessionFields \ {"blocked"} : t[f] = session[f]
      BY <3>1
    <3> HIDE DEF t
    <3>3. SessionShape(t)
      BY <3>2, SessionWith DEF Formed
    <3> QED BY <2>2, <3>3 DEF t
  <2> QED BY <2>1, <2>2 DEF Checked
<1>3. Shapes'
  BY <1>1, Step DEF Formed, Shape
<1> QED BY <1>1, <1>2, <1>3 DEF Formed, Wares

LEMMA SearchForms ==
  ASSUME Formed, NEW c \in Calls, session.intent # Nil,
         NEW item \in DOMAIN session.intent.items, Search(c, item)
  PROVE  Formed'
<1> DEFINE request == Catalogue(session.intent.items[item].product, Searched(session.intent))
<1>1. UNCHANGED <<carts, price, session>>
      /\ call' = [call EXCEPT ![c] = Ask("search", item, Nil, request)]
  BY DEF Search
<1>2. item \in Nat
  BY DEF Formed, SessionShape, IntentShape, Stated
<1>3. request.do = "catalogue" /\ RequestShape(request, Nil)
  BY DEF Catalogue, RequestShape
<1> HIDE DEF request
<1>4. AskShape(Ask("search", item, Nil, request))
  BY <1>2, <1>3, AskShaped
<1>5. Shapes'
  BY <1>1, <1>4, Step DEF Formed, Shape
<1> QED BY <1>1, <1>5 DEF Formed, Wares

LEMMA SearchAnsweredForms ==
  ASSUME Formed, NEW c \in Calls, SearchAnswered(c)
  PROVE  Formed'
<1>0. UNCHANGED <<carts, price>> /\ AskShape(call[c])
  BY DEF SearchAnswered, Formed, Shapes, Shape, Active
<1>1. Shapes'
  <2>1. call' = [call EXCEPT ![c] = Idle] \/ call' = Noticed(c, Idle)
    BY DEF SearchAnswered
  <2> QED BY <2>1, Step DEF Formed, Shape
<1>2. SessionShape(session')
  <2>1. CASE session' = session
    BY <2>1 DEF Formed
  <2>2. CASE /\ call[c].answer \notin {Nil, Error} /\ call[c].kind = "search"
             /\ session' = [session EXCEPT !.offers = Put(@, call[c].item, call[c].answer)]
    <3> DEFINE more == Put(session.offers, call[c].item, call[c].answer)
               t == [session EXCEPT !.offers = more]
    <3>1. session = [f \in SessionFields |-> session[f]]
      BY DEF Formed, SessionShape
    <3>2. session' = t
      BY <2>2
    <3>3. \A item \in DOMAIN more : item \in Nat /\ \A offer \in more[item] : Offer(offer)
      BY <1>0, <2>2 DEF AskShape, RequestShape, Formed, SessionShape, Put
    <3> HIDE DEF more
    <3>4. /\ t = [f \in SessionFields |-> t[f]] /\ t.offers = more
          /\ \A f \in SessionFields \ {"offers"} : t[f] = session[f]
      BY <3>1 DEF SessionFields
    <3> HIDE DEF t
    <3>5. SessionShape(t)
      BY <3>3, <3>4, SessionWith DEF Formed
    <3> QED BY <3>2, <3>5
  <2> QED BY <2>1, <2>2 DEF SearchAnswered
<1> QED BY <1>0, <1>1, <1>2 DEF Formed, Wares

LEMMA SelectForms ==
  ASSUME Formed, NEW c \in Calls, NEW item \in DOMAIN session.offers,
         NEW offer \in session.offers[item], Select(c, item, offer)
  PROVE  Formed'
<1> DEFINE merchant == MerchantOf[offer.variant]
           quantity == session.intent.items[item].quantity
           request == SelectFirst(merchant, offer, quantity)
<1>1. /\ UNCHANGED <<carts, price, session>>
      /\ call' = [call EXCEPT ![c] = Ask("select", item, offer, request)]
  BY DEF Select
<1>2. item \in Nat /\ Offer(offer)
  BY DEF Formed, SessionShape
<1>3. quantity \in Nat
  BY DEF Select, Formed, SessionShape, IntentShape, Stated
<1>4. RequestShape(request, Nil)
  <2> HIDE DEF quantity, merchant
  <2>1. session.observed # Nil => session.observed.id \in CartIds
    BY DEF Formed, SessionShape, CartRead
  <2>2. CASE merchant = FreshCart
    BY <2>2 DEF SelectFirst, Clear, RequestShape
  <2>3. CASE merchant # FreshCart
    BY <1>2, <1>3, <2>1, <2>3 DEF SelectFirst, Add, RequestShape, Offer
  <2> QED BY <2>2, <2>3
<1> HIDE DEF request
<1>5. AskShape(Ask("select", item, offer, request))
  BY <1>2, <1>4, AskShaped
<1>6. Shapes'
  BY <1>1, <1>5, Step DEF Formed, Shape
<1> QED BY <1>1, <1>6 DEF Formed, Wares

\* The call goes on to write the first of what is left.
Writes(c, selections, left) ==
  /\ Min(left) \in left
  /\ AskShape(call'[c])
  /\ call' = [call EXCEPT ![c] = call'[c]]
  /\ call'[c].kind = "select" /\ call'[c].item = call[c].item
  /\ call'[c].offer = call[c].offer /\ call'[c].quiet = call[c].quiet
  /\ call'[c].selections = selections /\ call'[c].left = left \ {Min(left)}
  /\ call'[c].answer = Nil
  /\ call'[c].request = Add(<<FreshCart, 0>>, FreshCart, selections[Min(left)].variant,
                            session.intent.items[Min(left)].quantity)

LEMMA WriteNextIs ==
  ASSUME Formed, NEW c \in Calls, AskShape(call[c]), call[c].kind = "select",
         NEW selections, NEW left,
         \A i \in DOMAIN selections : i \in Nat /\ Offer(selections[i]),
         left \subseteq DOMAIN selections, left # {}, WriteNext(c, selections, left),
         session.intent # Nil, Min(left) \in DOMAIN session.intent.items
  PROVE  Writes(c, selections, left)
<1> DEFINE item == Min(left)
           request == Add(<<FreshCart, 0>>, FreshCart, selections[item].variant,
                          session.intent.items[item].quantity)
           q == [call[c] EXCEPT !.selections = selections, !.left = left \ {item},
                   !.answer = Nil, !.request = request]
<1>1. item \in left
  <2>1. left \subseteq Nat
    OBVIOUS
  <2>2. \E x \in left : \A y \in left : x <= y
    BY <2>1, Least
  <2> QED BY <2>2 DEF Min
<1>2. call' = [call EXCEPT ![c].selections = selections, ![c].left = left \ {item},
                 ![c].answer = Nil, ![c].request = request]
  BY DEF WriteNext
<1>3. call = [d \in Calls |-> call[d]]
  BY DEF Formed, Shapes
<1>4. RequestShape(request, Nil)
  <2>1. Offer(selections[item])
    BY <1>1
  <2>2. session.intent.items[item].quantity \in Nat
    BY DEF Formed, SessionShape, IntentShape, Stated
  <2>3. <<FreshCart, 0>> \in CartIds
    BY CheckoutAssumption
  <2> HIDE DEF item
  <2> QED BY <2>1, <2>2, <2>3 DEF Add, RequestShape, Offer
<1> HIDE DEF item, request
<1>5. call' = [call EXCEPT ![c] = q]
  BY <1>2, <1>3
<1>6. call[c] = [f \in AskFields |-> call[c][f]]
  BY DEF AskShape
<1>7. /\ q = [f \in AskFields |-> q[f]]
      /\ q.kind = call[c].kind /\ q.item = call[c].item /\ q.offer = call[c].offer
      /\ q.quiet = call[c].quiet
      /\ q.selections = selections /\ q.left = left \ {item} /\ q.answer = Nil
      /\ q.request = request
  BY <1>6 DEF AskFields
<1> HIDE DEF q
<1>8. AskShape(q)
  BY <1>4, <1>7 DEF AskShape
<1>9. call'[c] = q
  BY <1>3, <1>5
<1> QED BY <1>1, <1>5, <1>7, <1>8, <1>9 DEF item, request, Writes

\* What a selection is about to write: what was selected before and its own.
LEMMA SelectionsShape ==
  ASSUME Formed, NEW c \in Calls, AskShape(call[c]), call[c].kind = "select"
  PROVE  /\ \A i \in DOMAIN Selections(c) : i \in Nat /\ Offer(Selections(c)[i])
         /\ DOMAIN Selections(c) = DOMAIN session.selected \cup {call[c].item}
         /\ DOMAIN Selections(c) # {}
BY DEF Selections, Put, Formed, SessionShape, AskShape

LEMMA SelectWritesIs ==
  ASSUME Formed, NEW c \in Calls, SelectWrites(c)
  PROVE  /\ UNCHANGED <<carts, price, session>>
         /\ AskShape(call[c]) /\ call[c].kind = "select"
         /\ \/ call' = [call EXCEPT ![c] = Idle]
            \/ \E selections, left :
                 /\ \/ /\ Answered(c, "select", "clear")
                       /\ selections = Selections(c) /\ left = DOMAIN selections
                    \/ /\ Answered(c, "select", "add")
                       /\ selections = call[c].selections /\ left = call[c].left
                 /\ left \subseteq DOMAIN selections
                 /\ session.intent # Nil /\ Min(left) \in DOMAIN session.intent.items
                 /\ Writes(c, selections, left)
<1>0. /\ UNCHANGED <<carts, price, session>>
      /\ AskShape(call[c]) /\ call[c].kind = "select"
  BY DEF SelectWrites, Answered, Formed, Shapes, Shape, Active
<1>1. PICK selections, left :
        /\ \/ /\ Answered(c, "select", "clear")
              /\ selections = Selections(c) /\ left = DOMAIN selections
           \/ /\ Answered(c, "select", "add")
              /\ selections = call[c].selections /\ left = call[c].left
        /\ WriteNext(c, selections, left)
        /\ \A i \in DOMAIN selections : i \in Nat /\ Offer(selections[i])
        /\ left \subseteq DOMAIN selections /\ left # {}
  <2>1. CASE Answered(c, "select", "clear") /\ WriteNext(c, Selections(c), DOMAIN Selections(c))
    <3> DEFINE selections == Selections(c)
    <3>1. /\ \A i \in DOMAIN selections : i \in Nat /\ Offer(selections[i])
          /\ DOMAIN selections # {}
      BY <1>0, SelectionsShape
    <3>2. WriteNext(c, selections, DOMAIN selections) /\ selections = Selections(c)
      BY <2>1
    <3> HIDE DEF selections
    <3> QED BY <2>1, <3>1, <3>2
  <2>2. CASE /\ Answered(c, "select", "add") /\ call[c].left # {}
             /\ WriteNext(c, call[c].selections, call[c].left)
    <3>1. /\ \A i \in DOMAIN call[c].selections : i \in Nat /\ Offer(call[c].selections[i])
          /\ call[c].left \subseteq DOMAIN call[c].selections
      BY <1>0 DEF AskShape
    <3> QED BY <2>2, <3>1
  <2> QED BY <2>1, <2>2 DEF SelectWrites
<1>2. CASE session.intent # Nil /\ Min(left) \in DOMAIN session.intent.items
  <2>1. Writes(c, selections, left)
    BY <1>0, <1>1, <1>2, WriteNextIs
  <2> QED BY <1>0, <1>1, <1>2, <2>1
<1>3. CASE ~(session.intent # Nil /\ Min(left) \in DOMAIN session.intent.items)
  BY <1>0, <1>1, <1>3 DEF WriteNext
<1> QED BY <1>2, <1>3

LEMMA SelectWritesForms ==
  ASSUME Formed, NEW c \in Calls, SelectWrites(c)
  PROVE  Formed'
<1>1. \/ call' = [call EXCEPT ![c] = Idle]
      \/ AskShape(call'[c]) /\ call' = [call EXCEPT ![c] = call'[c]]
  BY SelectWritesIs DEF Writes
<1>2. Shapes'
  BY <1>1, Step DEF Formed, Shape
<1>3. UNCHANGED <<carts, price, session>>
  BY DEF SelectWrites
<1> QED BY <1>2, <1>3 DEF Formed, Wares

LEMMA AsksBackIs ==
  ASSUME Formed, NEW c \in Calls, SelectAsksBack(c)
  PROVE  /\ AskShape(call'[c])
         /\ call' = [call EXCEPT ![c] = call'[c]]
         /\ call'[c].kind = "select" /\ call'[c].item = call[c].item
         /\ call'[c].offer = call[c].offer /\ call'[c].quiet = call[c].quiet
         /\ call'[c].selections = call[c].selections /\ call'[c].left = {}
         /\ call'[c].answer = Nil
         /\ call'[c].request = Read(call[c].answer, call[c].request.merchant)
<1> DEFINE request == Read(call[c].answer, call[c].request.merchant)
           q == [call[c] EXCEPT !.answer = Nil, !.request = request]
<1>1. /\ AskShape(call[c]) /\ call[c].kind = "select" /\ call[c].left = {}
      /\ call[c].answer \in CartIds
  BY DEF SelectAsksBack, Answered, Formed, Shapes, Shape, Active, AskShape, RequestShape
<1>2. RequestShape(request, Nil)
  BY <1>1 DEF Read, RequestShape
<1>3. call = [d \in Calls |-> call[d]]
  BY DEF Formed, Shapes
<1>4. call' = [call EXCEPT ![c].answer = Nil, ![c].request = request]
  BY DEF SelectAsksBack
<1> HIDE DEF request
<1>5. call' = [call EXCEPT ![c] = q]
  BY <1>3, <1>4
<1>6. call[c] = [f \in AskFields |-> call[c][f]]
  BY <1>1 DEF AskShape
<1>7. /\ q = [f \in AskFields |-> q[f]]
      /\ q.kind = call[c].kind /\ q.item = call[c].item /\ q.offer = call[c].offer
      /\ q.quiet = call[c].quiet
      /\ q.selections = call[c].selections /\ q.left = call[c].left /\ q.answer = Nil
      /\ q.request = request
  BY <1>6 DEF AskFields
<1> HIDE DEF q
<1>8. AskShape(q)
  BY <1>1, <1>2, <1>7 DEF AskShape
<1>9. call'[c] = q
  BY <1>3, <1>5
<1> QED BY <1>1, <1>5, <1>7, <1>8, <1>9 DEF request

LEMMA SelectAsksBackForms ==
  ASSUME Formed, NEW c \in Calls, SelectAsksBack(c)
  PROVE  Formed'
<1>1. AskShape(call'[c]) /\ call' = [call EXCEPT ![c] = call'[c]]
  BY AsksBackIs
<1>2. Shapes'
  BY <1>1, Step DEF Formed, Shape
<1>3. UNCHANGED <<carts, price, session>>
  BY DEF SelectAsksBack
<1> QED BY <1>2, <1>3 DEF Formed, Wares

LEMMA SelectReadsForms ==
  ASSUME Formed, NEW c \in Calls, SelectReads(c)
  PROVE  Formed'
<1>0. /\ UNCHANGED <<carts, price>> /\ call' = Noticed(c, Idle)
      /\ AskShape(call[c]) /\ call[c].kind = "select" /\ CartRead(call[c].answer)
  BY DEF SelectReads, Answered, Formed, Shapes, Shape, Active, AskShape, RequestShape
<1>1. Shapes'
  BY <1>0, Step DEF Formed, Shape
<1>2. SessionShape(session')
  <2> DEFINE more == Put(session.selected, call[c].item, call[c].offer)
             t == [session EXCEPT !.selected = more, !.observed = call[c].answer,
                     !.confirmed = FALSE]
  <2>1. session = [f \in SessionFields |-> session[f]]
    BY DEF Formed, SessionShape
  <2>2. session' = t
    BY DEF SelectReads
  <2>3. \A i \in DOMAIN more : i \in Nat /\ Offer(more[i])
    BY <1>0 DEF AskShape, Formed, SessionShape, Put
  <2> HIDE DEF more
  <2>4. /\ t = [f \in SessionFields |-> t[f]]
        /\ t.selected = more /\ t.observed = call[c].answer
        /\ \A f \in SessionFields \ {"selected", "observed", "confirmed"} : t[f] = session[f]
    BY <2>1 DEF SessionFields
  <2> HIDE DEF t
  <2>5. SessionShape(t)
    BY <1>0, <2>3, <2>4, SessionWith DEF Formed
  <2> QED BY <2>2, <2>5
<1> QED BY <1>0, <1>1, <1>2 DEF Formed, Wares

LEMMA PayForms ==
  ASSUME Formed, NEW c \in Calls, Pay(c)
  PROVE  Formed'
<1>1. PICK merchant :
        call' = [call EXCEPT ![c] = Ask("pay", Nil, Nil, Read(session.observed.id, merchant))]
  BY DEF Pay
<1>2. session.observed.id \in CartIds /\ UNCHANGED <<carts, price, session>>
  BY DEF Pay, Formed, SessionShape, CartRead
<1>3. AskShape(Ask("pay", Nil, Nil, Read(session.observed.id, merchant)))
  BY <1>2, AskShaped DEF RequestShape, Read
<1>4. Shapes'
  BY <1>1, <1>3, Step DEF Formed, Shape
<1> QED BY <1>2, <1>4 DEF Formed, Wares

LEMMA PayReadsForms ==
  ASSUME Formed, NEW c \in Calls, PayReads(c)
  PROVE  Formed'
<1>0. /\ UNCHANGED <<carts, price>> /\ call' = Noticed(c, Idle)
      /\ AskShape(call[c]) /\ CartRead(call[c].answer)
  BY DEF PayReads, Answered, Formed, Shapes, Shape, Active, AskShape, RequestShape
<1>1. Shapes'
  BY <1>0, Step DEF Formed, Shape
<1>2. SessionShape(session')
  <2> DEFINE t == [session EXCEPT !.observed = call[c].answer]
  <2>1. session = [f \in SessionFields |-> session[f]]
    BY DEF Formed, SessionShape
  <2>2. session' = t
    BY DEF PayReads, Reread
  <2>3. /\ t = [f \in SessionFields |-> t[f]]
        /\ t.observed = call[c].answer
        /\ \A f \in SessionFields \ {"observed"} : t[f] = session[f]
    BY <2>1 DEF SessionFields
  <2> HIDE DEF t
  <2>4. t.intent = session.intent /\ t.offers = session.offers /\ t.selected = session.selected
    BY <2>3 DEF SessionFields
  <2>5. SessionShape(t)
    BY <1>0, <2>3, <2>4 DEF Formed, SessionShape
  <2> QED BY <2>2, <2>5
<1> QED BY <1>0, <1>1, <1>2 DEF Formed, Wares

\* A confirmation changes the request only when the cart that was read compares equal.
LEMMA ConfirmIs ==
  ASSUME Formed, Confirm
  PROVE  /\ session' = [f \in SessionFields |-> session'[f]]
         /\ \A f \in SessionFields \ {"intent", "confirmed"} : session'[f] = session[f]
         /\ Expectable /\ session.observed # Nil
         /\ \/ session'.intent = session.intent /\ approved' = approved
            \/ /\ Matches(CompareCart(Expectation, session.observed))
               /\ IntentShape(session'.intent)
               /\ session'.intent.items = session.intent.items
               /\ session'.intent.merchant = Expectation.merchant
               /\ session'.intent.hash = CartHash(session.observed)
               /\ session'.intent.at = now
               /\ approved' = [lines |-> Expectation.lines, cart |-> session.observed,
                               at |-> now, revision |-> session.revision]
<1> DEFINE ready == [session.intent EXCEPT !.merchant = Expectation.merchant, !.status = "ready"]
           intent == ConfirmCart(ready, Expectation, session.observed, now)
           confirmed == intent.status = "confirmed"
           frozen == [ready EXCEPT !.status = "confirmed", !.hash = CartHash(session.observed),
                        !.at = now]
           t == [session EXCEPT !.confirmed = confirmed, !.intent = IF confirmed THEN intent ELSE @]
<1>1. /\ Expectable /\ session.observed # Nil /\ session' = t
      /\ approved' = IF confirmed
                     THEN [lines |-> Expectation.lines, cart |-> session.observed,
                           at |-> now, revision |-> session.revision]
                     ELSE approved
  BY DEF Confirm
<1>2. session = [f \in SessionFields |-> session[f]] /\ IntentShape(session.intent)
  BY <1>1 DEF Formed, SessionShape, Expectable
<1>3. /\ ready = [f \in IntentFields |-> ready[f]]
      /\ ready.items = session.intent.items /\ ready.merchant = Expectation.merchant
      /\ ready.status = "ready"
  BY <1>2 DEF IntentShape, IntentFields
<1> HIDE DEF ready
<1>4. /\ frozen = [f \in IntentFields |-> frozen[f]]
      /\ frozen.items = ready.items /\ frozen.merchant = ready.merchant
      /\ frozen.status = "confirmed" /\ frozen.hash = CartHash(session.observed)
      /\ frozen.at = now
  BY <1>3 DEF IntentFields
<1>5. intent = IF Matches(CompareCart(Expectation, session.observed)) THEN frozen ELSE ready
  BY DEF ConfirmCart
<1> HIDE DEF frozen, intent
<1>6. confirmed => Matches(CompareCart(Expectation, session.observed)) /\ intent = frozen
  BY <1>3, <1>5
<1>7. IntentShape(frozen)
  BY <1>2, <1>3, <1>4 DEF IntentShape
<1>8. /\ t = [f \in SessionFields |-> t[f]]
      /\ t.intent = IF confirmed THEN intent ELSE session.intent
      /\ \A f \in SessionFields \ {"intent", "confirmed"} : t[f] = session[f]
  BY <1>2 DEF SessionFields
<1> HIDE DEF confirmed, t
<1>9. CASE confirmed
  BY <1>1, <1>3, <1>4, <1>6, <1>7, <1>8, <1>9
<1>10. CASE ~confirmed
  BY <1>1, <1>8, <1>10
<1> QED BY <1>9, <1>10

LEMMA ConfirmForms ==
  ASSUME Formed, Confirm
  PROVE  Formed'
<1>1. UNCHANGED <<carts, price>> /\ (call' = Everyone \/ call' = call)
  BY DEF Confirm
<1>2. Shapes'
  BY <1>1, StepEveryone DEF Formed, Shapes
<1>3. SessionShape(session')
  <2>1. /\ session'.offers = session.offers /\ session'.selected = session.selected
        /\ session'.observed = session.observed
    BY ConfirmIs DEF SessionFields
  <2>2. session'.intent # Nil => IntentShape(session'.intent)
    BY ConfirmIs DEF Formed, SessionShape
  <2>3. session' = [f \in SessionFields |-> session'[f]]
    BY ConfirmIs
  <2> QED BY <2>1, <2>2, <2>3 DEF SessionShape, Formed
<1> QED BY <1>1, <1>2, <1>3 DEF Formed, Wares

LEMMA OthersForm ==
  ASSUME Formed
  PROVE  /\ \A c \in Calls : CallFails(c) => Formed'
         /\ \A row \in rows : Captured(row) => Formed'
         /\ \A v \in Variant : PriceChanges(v) => Formed'
         /\ \A id \in CartIds : CartChanges(id) => Formed'
         /\ Remember \/ Tick \/ UNCHANGED vars => Formed'
<1>1. ASSUME NEW c \in Calls, CallFails(c) PROVE Formed'
  <2>1. UNCHANGED <<carts, price, session>> /\ call' = [call EXCEPT ![c] = Idle]
    BY <1>1 DEF CallFails
  <2>2. Shapes'
    BY <2>1, Step DEF Formed, Shape
  <2> QED BY <2>1, <2>2 DEF Formed, Wares
<1>2. ASSUME NEW row \in rows, Captured(row) PROVE Formed'
  BY <1>2 DEF Captured, Formed, Wares, Shapes
<1>3. ASSUME NEW v \in Variant, PriceChanges(v) PROVE Formed'
  <2>1. price' \in [Variant -> Nat]
    BY <1>3, CheckoutAssumption DEF PriceChanges, Formed, Wares
  <2>2. Shapes'
    BY <1>3, StepEveryone DEF PriceChanges, Formed
  <2> QED BY <1>3, <2>1, <2>2 DEF PriceChanges, Formed, Wares
<1>4. ASSUME NEW id \in CartIds, CartChanges(id) PROVE Formed'
  <2>1. Shapes'
    BY <1>4, StepEveryone DEF CartChanges, Formed
  <2>2. carts = [i \in CartIds |-> carts[i]] /\ Basket(carts[id]) /\ UNCHANGED <<session, price>>
    BY <1>4 DEF CartChanges, Formed, Wares
  <2>3. PICK basket : (basket = Nil \/ Basket(basket)) /\ carts' = [carts EXCEPT ![id] = basket]
    <3>1. CASE carts' = [carts EXCEPT ![id] = Nil]
      BY <3>1
    <3>2. ASSUME NEW v \in DOMAIN carts[id], carts' = [carts EXCEPT ![id][v] = @ + 1]
          PROVE  \E basket : Basket(basket) /\ carts' = [carts EXCEPT ![id] = basket]
      <4> DEFINE b == [carts[id] EXCEPT ![v] = @ + 1]
      <4>1. Basket(b)
        BY <2>2 DEF Basket
      <4>2. carts' = [carts EXCEPT ![id] = b]
        BY <2>2, <3>2
      <4> HIDE DEF b
      <4> QED BY <4>1, <4>2
    <3> QED BY <1>4, <3>1, <3>2 DEF CartChanges
  <2> QED BY <2>1, <2>2, <2>3 DEF Formed, Wares
<1>5. ASSUME Remember \/ Tick \/ UNCHANGED vars PROVE Formed'
  BY <1>5 DEF Remember, Tick, vars, Formed, Wares, Shapes
<1> QED BY <1>1, <1>2, <1>3, <1>4, <1>5

\* A step of one call.
OfCall(c) ==
  \/ Serve(c) \/ Checked(c) \/ SearchAnswered(c) \/ SelectWrites(c) \/ SelectAsksBack(c)
  \/ SelectReads(c)
  \/ CallFails(c) \/ Pay(c) \/ PayReads(c)
  \/ \E request \in Requests : Continue(c, request)
  \/ session.intent # Nil /\ \E item \in DOMAIN session.intent.items : Search(c, item)
  \/ \E item \in DOMAIN session.offers : \E offer \in session.offers[item] :
       Select(c, item, offer)

LEMMA NextIs ==
  ASSUME [Next]_vars
  PROVE  \/ \E c \in Calls : OfCall(c)
         \/ Confirm
         \/ \E row \in rows : Captured(row)
         \/ \E v \in Variant : PriceChanges(v)
         \/ \E id \in CartIds : CartChanges(id)
         \/ Remember \/ Tick \/ UNCHANGED vars
BY DEF Next, OfCall

LEMMA NextForms ==
  ASSUME Formed, [Next]_vars
  PROVE  Formed'
<1>1. ASSUME NEW c \in Calls,
             OfCall(c)
      PROVE  Formed'
  BY <1>1, ServeForms, CheckedForms, SearchAnsweredForms, SelectWritesForms, SelectAsksBackForms,
     SelectReadsForms, OthersForm, PayForms, PayReadsForms, ContinueForms, SearchForms, SelectForms
     DEF OfCall
<1> QED BY <1>1, ConfirmForms, OthersForm, NextIs

\* The shapes of all values are kept, whatever the buyer, the merchants and others do.
THEOREM CheckoutFormed == Spec => []Formed
<1>1. Init => Formed
  BY InitForms
<1>2. Formed /\ [Next]_vars => Formed'
  BY NextForms
<1> QED BY <1>1, <1>2, PTL DEF Spec

-----------------------------------------------------------------------------
\* What an undisturbed call read is what the merchant has.
Current ==
  \A c \in Calls :
    Active(c) /\ call[c].quiet /\ call[c].request.do = "read" /\ call[c].answer \notin {Nil, Error}
      => call[c].answer = Observe(call[c].request.cart)

\* Who is undisturbed after a step was before it, and what it could notice is unchanged.
LEMMA Undisturbed ==
  ASSUME Formed, [Next]_vars, NEW c \in Calls, Active(c)', call'[c].quiet
  PROVE  \/ call'[c] = call[c] /\ UNCHANGED <<session, carts, price>>
         \/ Serve(c) \/ SelectWrites(c) \/ SelectAsksBack(c)
         \/ Pay(c) \/ \E request \in Requests : Continue(c, request)
         \/ \E item \in DOMAIN session.intent.items : Search(c, item)
         \/ \E item \in DOMAIN session.offers : \E offer \in session.offers[item] :
              Select(c, item, offer)
<1>0. call'[c] # Idle /\ Shapes /\ call = [d \in Calls |-> call[d]]
  BY DEF Active, Formed, Shapes
<1>1. \A d \in Calls : Active(d) => /\ [call[d] EXCEPT !.quiet = FALSE].quiet = FALSE
  <2> TAKE d \in Calls
  <2> HAVE Active(d)
  <2>1. AskShape(call[d])
    BY DEF Formed, Shapes, Shape, Active
  <2>2. call[d] = [f \in AskFields |-> call[d][f]]
    BY <2>1 DEF AskShape
  <2> QED BY <2>2 DEF AskFields
<1>2. call' # Everyone
  BY <1>0, <1>1 DEF Everyone
<1>3. \A d \in Calls : \A new : d # c => call' # Noticed(d, new)
  BY <1>0, <1>1 DEF Noticed
<1>4. \A new : call' = Noticed(c, new) => call'[c] = new
  BY DEF Noticed
<1>5. ASSUME NEW d \in Calls, d # c,
             OfCall(d)
      PROVE  call'[c] = call[c] /\ UNCHANGED <<session, carts, price>>
  <2>1. CASE Serve(d)
    <3>1. PICK answer : Gets(d, answer)
      BY <2>1 DEF Serve
    <3>2. carts' = carts /\ call' = [call EXCEPT ![d].answer = answer]
      BY <1>3, <1>5, <3>1 DEF Gets
    <3> QED BY <1>0, <1>5, <2>1, <3>2 DEF Serve
  <2>2. CASE SearchAnswered(d)
    BY <1>0, <1>3, <1>5, <2>2 DEF SearchAnswered
  <2>3. CASE SelectWrites(d)
    BY <1>0, <1>5, <2>3 DEF SelectWrites, WriteNext
  <2>4. CASE SelectAsksBack(d) \/ CallFails(d) \/ Pay(d)
    BY <1>0, <1>5, <2>4 DEF SelectAsksBack, CallFails, Pay
  <2>5. CASE Checked(d) \/ SelectReads(d) \/ PayReads(d)
    BY <1>3, <1>5, <2>5 DEF Checked, SelectReads, PayReads
  <2>6. ASSUME NEW request \in Requests, Continue(d, request)
        PROVE FALSE
    BY <1>2, <1>3, <1>5, <2>6 DEF Continue
  <2>7. ASSUME NEW item, Search(d, item)
        PROVE  call'[c] = call[c] /\ UNCHANGED <<session, carts, price>>
    BY <1>0, <1>5, <2>7 DEF Search
  <2>8. ASSUME NEW item, NEW offer, Select(d, item, offer)
        PROVE  call'[c] = call[c] /\ UNCHANGED <<session, carts, price>>
    BY <1>0, <1>5, <2>8 DEF Select
  <2> QED BY <1>5, <2>1, <2>2, <2>3, <2>4, <2>5, <2>6, <2>7, <2>8 DEF OfCall
<1>6. ASSUME Checked(c) \/ SearchAnswered(c) \/ SelectReads(c) \/ CallFails(c) \/ PayReads(c)
      PROVE  FALSE
  BY <1>0, <1>4, <1>6 DEF Checked, SearchAnswered, SelectReads, CallFails, PayReads
<1>7. CASE Confirm
  BY <1>2, <1>7 DEF Confirm
<1>8. ASSUME NEW row, Captured(row) PROVE call'[c] = call[c] /\ UNCHANGED <<session, carts, price>>
  BY <1>8 DEF Captured
<1>9. ASSUME NEW v, PriceChanges(v) \/ CartChanges(v) PROVE FALSE
  BY <1>2, <1>9 DEF PriceChanges, CartChanges
<1>10. CASE Remember \/ Tick \/ UNCHANGED vars
  BY <1>10 DEF Remember, Tick, vars
<1>11. OfCall(c) =>
         \/ Serve(c) \/ SelectWrites(c) \/ SelectAsksBack(c)
         \/ Pay(c) \/ \E request \in Requests : Continue(c, request)
         \/ \E item \in DOMAIN session.intent.items : Search(c, item)
         \/ \E item \in DOMAIN session.offers : \E offer \in session.offers[item] :
              Select(c, item, offer)
  BY <1>6 DEF OfCall
<1> QED BY <1>5, <1>7, <1>8, <1>9, <1>10, <1>11, NextIs

\* What a merchant reports of these lines at these prices.
Reported(id, basket, prices) ==
  LET lines == [i \in 1 .. Cardinality(DOMAIN basket) |->
                  LET v == SetToSeq(DOMAIN basket)[i]
                  IN  [variant |-> v, quantity |-> basket[v], total |-> basket[v] * prices[v]]]
  IN  ObservedCart(id[1], id, "INR", lines,
                   IF id[1] = FreshCart /\ lines # << >> THEN Delivery ELSE 0, Nil)

LEMMA Unmoved ==
  ASSUME UNCHANGED <<carts, price>>
  PROVE  /\ \A c \in Calls : call'[c].request = call[c].request =>
              Observe(call[c].request.cart)' = Observe(call[c].request.cart)
         /\ \A id \in CartIds : Observe(id)' = Observe(id)
<1>1. \A id : Observe(id) = Reported(id, InCart(id), price)
  BY DEF Observe, Reported
<1>2. \A id : Observe(id)' = Reported(id, InCart(id)', price')
  BY DEF Observe, Reported
<1>3. \A id : InCart(id)' = InCart(id)
  BY DEF InCart
<1>4. \A id : Observe(id)' = Observe(id)
  BY <1>1, <1>2, <1>3
<1>5. ASSUME NEW c \in Calls, call'[c].request = call[c].request
      PROVE  Observe(call[c].request.cart)' = Observe(call[c].request.cart)
  <2>1. Observe(call[c].request.cart)'
          = Reported(call'[c].request.cart, InCart(call[c].request.cart)', price')
    BY DEF Observe, Reported
  <2>2. InCart(call[c].request.cart)' = InCart(call[c].request.cart)
    BY <1>5 DEF InCart
  <2> QED BY <1>1, <1>5, <2>1, <2>2
<1> QED BY <1>4, <1>5

LEMMA CurrentIsKept ==
  ASSUME Formed, Current, [Next]_vars
  PROVE  Current'
<1> SUFFICES ASSUME NEW c \in Calls, Active(c)', call'[c].quiet,
                    call'[c].request.do = "read", call'[c].answer \notin {Nil, Error}
             PROVE  call'[c].answer = Observe(call[c].request.cart)'
  BY DEF Current
<1>0. call = [d \in Calls |-> call[d]]
  BY DEF Formed, Shapes
<1>1. CASE call'[c] = call[c] /\ UNCHANGED <<session, carts, price>>
  <2>1. call'[c].answer = Observe(call[c].request.cart)
    BY <1>1 DEF Current, Active
  <2> QED BY <1>1, <2>1, Unmoved
<1>2. CASE Serve(c)
  <2>1. AskShape(call[c]) /\ call[c].answer = Nil /\ UNCHANGED price
    BY <1>2 DEF Serve, Formed, Shapes, Shape, Active
  <2>2. PICK answer : /\ answer \in Answers(call[c].request) \/ answer = Error
                      /\ Gets(c, answer)
    BY <1>2 DEF Serve
  <2>3. call'[c] = [call[c] EXCEPT !.answer = answer]
    BY <1>0, <2>2 DEF Gets, Noticed
  <2>4. call'[c].request = call[c].request /\ call'[c].answer = answer
    BY <2>1, <2>3, WithAnswer
  <2>5. answer = Observe(call[c].request.cart)
    BY <2>2, <2>4 DEF Answers
  <2>6. carts' = carts
    BY <1>2, <2>4 DEF Serve, Effect
  <2> QED BY <2>1, <2>4, <2>5, <2>6, Unmoved
<1>3. CASE SelectWrites(c)
  <2>1. call' # [call EXCEPT ![c] = Idle]
    BY <1>0 DEF Active
  <2>2. call'[c].answer = Nil
    BY <1>3, <2>1, SelectWritesIs DEF Writes
  <2> QED BY <2>2
<1>4. CASE SelectAsksBack(c)
  BY <1>4, AsksBackIs
<1>5. CASE Pay(c)
  BY <1>0, <1>5 DEF Pay, Ask
<1>6. CASE \E request \in Requests : Continue(c, request)
  BY <1>6 DEF Continue, Noticed, Everyone, Ask, Active
<1>7. CASE \E item \in DOMAIN session.intent.items : Search(c, item)
  BY <1>0, <1>7 DEF Search, Ask
<1>8. CASE \E item \in DOMAIN session.offers : \E offer \in session.offers[item] :
              Select(c, item, offer)
  BY <1>0, <1>8 DEF Select, Ask
<1> QED BY <1>1, <1>2, <1>3, <1>4, <1>5, <1>6, <1>7, <1>8, Undisturbed

\* Only a payment call that has read the cart claims a row.
LEMMA OnlyPayReadsClaims ==
  ASSUME [Next]_vars, rows' # rows
  PROVE  \E c \in Calls : PayReads(c)
BY DEF Next, Serve, Checked, SearchAnswered, SelectWrites, SelectAsksBack, SelectReads, CallFails,
       Pay, Continue, Search, Select, Confirm, Captured, PriceChanges, CartChanges, Remember, Tick,
       vars

\* A row is claimed for the cart as it is at the merchant, unless something changed
\* while the payment call was under way (F-031): whatever an undisturbed call read is
\* current, and the row is for what the call read.
THEOREM CheckoutClaimIsCurrent == Spec => ClaimIsCurrent
<1>1. Init => Formed /\ Current
  BY InitForms DEF Init, Current, Active, Idle
<1>2. Formed /\ Current /\ [Next]_vars => (Formed /\ Current)'
  BY NextForms, CurrentIsKept
<1>3. Formed /\ Current /\ [Next]_vars =>
        [\A c \in Calls : rows' # rows /\ Active(c) /\ call'[c] = Idle /\ call[c].quiet =>
           \E row \in rows' \ rows : row.cart = Observe(row.cart.id)]_vars
  <2> SUFFICES ASSUME Formed, Current, [Next]_vars, NEW c \in Calls,
                      rows' # rows, Active(c), call'[c] = Idle, call[c].quiet
               PROVE  \E row \in rows' \ rows : row.cart = Observe(row.cart.id)
    OBVIOUS
  <2>1. PICK d \in Calls : PayReads(d)
    BY OnlyPayReadsClaims
  <2>2. d = c
    <3> SUFFICES ASSUME d # c PROVE FALSE
      OBVIOUS
    <3>1. call'[c] = [call[c] EXCEPT !.quiet = FALSE]
      BY <2>1 DEF PayReads, Noticed
    <3>2. AskShape(call[c])
      BY DEF Formed, Shapes, Shape, Active
    <3> QED BY <3>1, <3>2, QuietShape
  <2>3. /\ AskShape(call[c]) /\ call[c].request.do = "read" /\ call[c].answer \notin {Nil, Error}
        /\ call[c].request.cart \in CartIds
    BY <2>1, <2>2 DEF PayReads, Answered, Formed, Shapes, Shape, Active, AskShape, RequestShape
  <2>4. call[c].answer = Observe(call[c].request.cart)
    BY <2>3 DEF Current
  <2>5. call[c].answer.id = call[c].request.cart
    BY <2>3, <2>4, Observed DEF Formed
  <2> DEFINE row == [key |-> KeyOf(session.intent), cart |-> call[c].answer]
  <2>6. row \in rows' \ rows
    BY <2>1, <2>2 DEF PayReads, Reread
  <2>7. row.cart = call[c].answer
    OBVIOUS
  <2> HIDE DEF row
  <2> QED BY <2>4, <2>5, <2>6, <2>7
<1> QED BY <1>1, <1>2, <1>3, PTL DEF Spec, ClaimIsCurrent

-----------------------------------------------------------------------------
(* The confirmation a row is claimed for.                                    *)

\* Unless it is straddled, what was found, what is selected and what calls bring
\* belongs to the items the session's request has now, and to the shop it names.
OfItem(s, item, v) == item \in DOMAIN s.intent.items /\ ProductOf[v] = s.intent.items[item].product

AtNamed(s, v) == s.named \in {Nil, MerchantOf[v]}

CallOwn(s, r) ==
  /\ r.kind = "search" =>
       /\ r.item \in DOMAIN s.intent.items
       /\ r.request.product = s.intent.items[r.item].product
  /\ r.kind = "select" => OfItem(s, r.item, r.offer.variant) /\ AtNamed(s, r.offer.variant)

SessionOwn(s) ==
  /\ s.named \in {Nil, s.intent.merchant}
  /\ \A item \in DOMAIN s.offers : \A offer \in s.offers[item] : OfItem(s, item, offer.variant)
  /\ \A item \in DOMAIN s.selected :
       OfItem(s, item, s.selected[item].variant) /\ AtNamed(s, s.selected[item].variant)

OnItsOwn(s) == ~s.straddled /\ s.intent # Nil

Own ==
  OnItsOwn(session) =>
    SessionOwn(session) /\ \A c \in Calls : Active(c) => CallOwn(session, call[c])

\* While a request is confirmed it is as it was when the cart was shown and compared.
FrozenAs(s, a) ==
  /\ a.revision = s.revision /\ a.at = s.intent.at
  /\ s.intent.hash = CartHash(a.cart)
  /\ Tidy(a.cart.lines) /\ Agreed(a.lines)
  /\ MatchesQuantities([lines |-> a.lines], a.cart)
  /\ MatchesPrices([lines |-> a.lines], a.cart)
  /\ Len(a.lines) = Len(s.intent.items)
  /\ ~s.straddled =>
       /\ \A item \in DOMAIN s.intent.items :
            /\ a.lines[item].quantity = s.intent.items[item].quantity
            /\ ProductOf[a.lines[item].variant] = s.intent.items[item].product
       /\ s.named \in {Nil, a.cart.merchant}

Frozen ==
  session.intent # Nil /\ session.intent.status = "confirmed" => FrozenAs(session, approved)

LEMMA SameOwn ==
  ASSUME NEW s, NEW t, t.intent.items = s.intent.items, t.named = s.named,
         NEW r, NEW q, q.kind = r.kind, q.item = r.item, q.offer = r.offer,
         r.kind = "search" => q.request.product = r.request.product, CallOwn(s, r)
  PROVE  CallOwn(t, q)
BY DEF CallOwn, OfItem, AtNamed

\* A step of one call, now about t's items, or of none.
Moves(t) ==
  \/ call' \in {Everyone, call}
  \/ \E c \in Calls : \E new :
       /\ new = Idle \/ CallOwn(t, new)
       /\ call' = [call EXCEPT ![c] = new] \/ call' = Noticed(c, new)

LEMMA CallsOwn ==
  ASSUME Shapes, NEW s, \A d \in Calls : Active(d) => CallOwn(s, call[d]),
         NEW t, t.intent.items = s.intent.items, t.named = s.named, Moves(t)
  PROVE  \A d \in Calls : Active(d)' => CallOwn(t, call'[d])
<1> SUFFICES ASSUME NEW d \in Calls, Active(d)' PROVE CallOwn(t, call'[d])
  OBVIOUS
<1>1. call = [e \in Calls |-> call[e]] /\ (Active(d) => AskShape(call[d]))
  BY DEF Shapes, Shape, Active
<1>2. CASE call'[d] = Idle \/ CallOwn(t, call'[d])
  BY <1>2 DEF Active
<1>3. CASE Active(d) /\ call'[d] = call[d]
  BY <1>3, SameOwn
<1>4. CASE Active(d) /\ call'[d] = [call[d] EXCEPT !.quiet = FALSE]
  <2> DEFINE q == [call[d] EXCEPT !.quiet = FALSE]
  <2>1. call[d] = [f \in AskFields |-> call[d][f]]
    BY <1>1, <1>4 DEF AskShape
  <2>2. /\ q.kind = call[d].kind /\ q.item = call[d].item /\ q.offer = call[d].offer
        /\ q.request = call[d].request
    BY <2>1 DEF AskFields
  <2> HIDE DEF q
  <2>3. CallOwn(t, q)
    BY <1>4, <2>2, SameOwn
  <2> QED BY <1>4, <2>3 DEF q
<1>5. \/ call'[d] = Idle \/ CallOwn(t, call'[d])
      \/ Active(d) /\ call'[d] \in {call[d], [call[d] EXCEPT !.quiet = FALSE]}
  BY <1>1 DEF Active, Noticed, Everyone, Moves
<1> QED BY <1>2, <1>3, <1>4, <1>5

\* Everything was chosen at one merchant.
LEMMA OneMerchant ==
  ASSUME Formed, Expectable
  PROVE  /\ session.intent # Nil
         /\ \A item \in DOMAIN session.selected :
              MerchantOf[session.selected[item].variant] = Expectation.merchant
         /\ \E item \in DOMAIN session.selected : TRUE
<1> DEFINE f == [item \in DOMAIN session.selected |-> MerchantOf[session.selected[item].variant]]
<1>1. Merchants(Chosen) = {f[item] : item \in DOMAIN session.selected}
  BY DEF Merchants, Chosen, Range
<1>2. IsFiniteSet(DOMAIN session.selected)
  <2>1. /\ Len(session.intent.items) \in Nat
        /\ DOMAIN session.selected = 1 .. Len(session.intent.items)
    BY DEF Formed, SessionShape, IntentShape, Stated, Expectable
  <2>2. IsFiniteSet(1 .. Len(session.intent.items))
    BY <2>1, FS_Interval
  <2> QED BY <2>1, <2>2
<1>3. DOMAIN f = DOMAIN session.selected
  OBVIOUS
<1>4. \A item \in DOMAIN session.selected : MerchantOf[session.selected[item].variant] = f[item]
  OBVIOUS
<1>5. Expectation.merchant = CHOOSE m \in Merchants(Chosen) : TRUE
  BY DEF Expectation
<1>6. Cardinality(Merchants(Chosen)) = 1 /\ session.intent # Nil
  BY DEF Expectable
<1>7. f \in Surjection(DOMAIN session.selected, Merchants(Chosen))
  BY <1>1 DEF Surjection
<1> HIDE DEF f
<1>8. IsFiniteSet(Merchants(Chosen))
  BY <1>2, <1>7, FS_Surjection
<1>9. PICK m : Merchants(Chosen) = {m}
  BY <1>6, <1>8, FS_Singleton
<1>10. Expectation.merchant = m
  BY <1>5, <1>9
<1> QED BY <1>1, <1>4, <1>6, <1>9, <1>10

\* The lines of an approval: one per item, no variant twice.
LEMMA ExpectedLines ==
  ASSUME Formed, Expectable
  PROVE  /\ Agreed(Expectation.lines)
         /\ Len(Expectation.lines) = Len(session.intent.items)
         /\ \A item \in DOMAIN session.intent.items :
              /\ Expectation.lines[item].quantity = session.intent.items[item].quantity
              /\ Expectation.lines[item].variant = session.selected[item].variant
<1> DEFINE n == Len(session.intent.items)
           line(i) == [variant |-> session.selected[i].variant,
                       quantity |-> session.intent.items[i].quantity,
                       price |-> session.selected[i].price]
           lines == [i \in DOMAIN session.intent.items |-> line(i)]
<1>1. Expectation.lines = lines
  BY DEF Expectation
<1>2. /\ n \in Nat /\ DOMAIN session.intent.items = 1 .. n
      /\ \A i \in 1 .. n : session.intent.items[i].quantity \in Nat
      /\ \A i \in 1 .. n : session.selected[i].price \in Nat
  BY DEF Formed, SessionShape, IntentShape, Stated, Expectable, Offer
<1>3. \A i \in 1 .. n : /\ line(i).variant = session.selected[i].variant
                        /\ line(i).quantity = session.intent.items[i].quantity
                        /\ line(i).price = session.selected[i].price
  OBVIOUS
<1>4. \A i, j \in DOMAIN lines : lines[i].variant = lines[j].variant => i = j
  <2>1. \A i, j \in DOMAIN Expectation.lines :
          Expectation.lines[i].variant = Expectation.lines[j].variant => i = j
    BY DEF Expectable, ValidExpectation
  <2> HIDE DEF lines
  <2> QED BY <1>1, <2>1
<1> HIDE DEF line
<1>5. DOMAIN lines = 1 .. n /\ \A i \in 1 .. n : lines[i] = line(i)
  BY <1>2
<1> HIDE DEF lines
<1>6. Len(lines) = n
  BY <1>2, <1>5
<1> HIDE DEF n
<1>7. Agreed(lines)
  BY <1>2, <1>3, <1>4, <1>5, <1>6 DEF Agreed, Distinct
<1> QED BY <1>1, <1>2, <1>3, <1>5, <1>6, <1>7 DEF n

\* The request and what was approved, which only a revision and a confirmation change.
Held ==
  /\ approved' = approved /\ session'.intent = session.intent /\ session'.named = session.named
  /\ session'.straddled = session.straddled /\ session'.revision = session.revision

LEMMA HeldBy ==
  ASSUME Formed, [Next]_vars
  PROVE  Held \/ Confirm \/ \E c \in Calls : \E request \in Requests : Continue(c, request)
<1>0. session = [f \in SessionFields |-> session[f]]
  BY DEF Formed, SessionShape
<1>1. \A field \in {"blocked", "offers", "selected", "observed", "confirmed"} : \A x :
        session' = [session EXCEPT ![field] = x] =>
          /\ session'.intent = session.intent /\ session'.named = session.named
          /\ session'.straddled = session.straddled /\ session'.revision = session.revision
  BY <1>0 DEF SessionFields
<1>2. ASSUME NEW c \in Calls, Checked(c) \/ SearchAnswered(c) \/ PayReads(c) PROVE Held
  <2>1. approved' = approved
    BY <1>2 DEF Checked, SearchAnswered, PayReads
  <2>2. \/ session' = session
        \/ \E field \in {"blocked", "offers", "observed"} : \E x :
             session' = [session EXCEPT ![field] = x]
    BY <1>2 DEF Checked, SearchAnswered, PayReads
  <2> QED BY <1>1, <2>1, <2>2 DEF Held
<1>3. ASSUME NEW c \in Calls, SelectReads(c) PROVE Held
  <2>1. PICK more : session' = [session EXCEPT !.selected = more, !.observed = call[c].answer,
                                  !.confirmed = FALSE]
    BY <1>3 DEF SelectReads
  <2> QED BY <1>0, <1>3, <2>1 DEF SelectReads, SessionFields, Held
<1>4. UNCHANGED <<session, approved>> => Held
  BY DEF Held
<1>5. ASSUME NEW c \in Calls,
             \/ Serve(c) \/ SelectWrites(c) \/ SelectAsksBack(c) \/ CallFails(c) \/ Pay(c)
             \/ session.intent # Nil /\ \E item \in DOMAIN session.intent.items : Search(c, item)
             \/ \E item \in DOMAIN session.offers : \E offer \in session.offers[item] :
                  Select(c, item, offer)
      PROVE  Held
  BY <1>4, <1>5 DEF Serve, SelectWrites, SelectAsksBack, CallFails, Pay, Search, Select
<1>6. ASSUME \/ \E row \in rows : Captured(row)
             \/ \E v \in Variant : PriceChanges(v)
             \/ \E id \in CartIds : CartChanges(id)
             \/ Remember \/ Tick \/ UNCHANGED vars
      PROVE  Held
  BY <1>4, <1>6 DEF Captured, PriceChanges, CartChanges, Remember, Tick, vars
<1>7. ASSUME NEW c \in Calls,
             OfCall(c)
      PROVE  Held \/ \E request \in Requests : Continue(c, request)
  BY <1>2, <1>3, <1>5, <1>7 DEF OfCall
<1> QED BY <1>6, <1>7, NextIs

\* Own, when the request and what belongs to it are as they were.
LEMMA OwnStays ==
  ASSUME Formed, Own, Held,
         OnItsOwn(session) => session'.offers = session.offers \/
           \A item \in DOMAIN session'.offers : \A offer \in session'.offers[item] :
             OfItem(session, item, offer.variant),
         OnItsOwn(session) => session'.selected = session.selected \/
           \A item \in DOMAIN session'.selected :
             /\ OfItem(session, item, session'.selected[item].variant)
             /\ AtNamed(session, session'.selected[item].variant),
         OnItsOwn(session) => Moves(session)
  PROVE  Own'
<1> SUFFICES ASSUME OnItsOwn(session)' PROVE Own'
  BY DEF Own
<1>1. OnItsOwn(session)
  BY DEF OnItsOwn, Held
<1>2. SessionOwn(session) /\ \A c \in Calls : Active(c) => CallOwn(session, call[c])
  BY <1>1 DEF Own
<1>3. \A item, v : /\ OfItem(session', item, v) <=> OfItem(session, item, v)
                   /\ AtNamed(session', v) <=> AtNamed(session, v)
  BY DEF OfItem, AtNamed, Held
<1>4. SessionOwn(session')
  BY <1>1, <1>2, <1>3 DEF SessionOwn, Held
<1>5. Moves(session') <=> Moves(session)
  <2>1. \A r : CallOwn(session', r) <=> CallOwn(session, r)
    BY <1>3 DEF CallOwn, Held
  <2> QED BY <2>1 DEF Moves
<1>6. \A c \in Calls : Active(c)' => CallOwn(session', call'[c])
  <2>1. session'.intent.items = session.intent.items /\ session'.named = session.named
    BY DEF Held
  <2>2. Moves(session')
    BY <1>1, <1>5
  <2> QED BY <1>2, <2>1, <2>2, CallsOwn DEF Formed
<1> QED BY <1>4, <1>6 DEF Own

LEMMA FrozenStays ==
  ASSUME Frozen, Held
  PROVE  Frozen'
<1>1. FrozenAs(session', approved') <=> FrozenAs(session, approved)
  BY DEF FrozenAs, Held
<1> QED BY <1>1 DEF Frozen, Held

LEMMA ServeOwn ==
  ASSUME Formed, Own, Held, NEW c \in Calls, Serve(c)
  PROVE  Own'
<1>1. AskShape(call[c]) /\ UNCHANGED session /\ Active(c)
  BY DEF Serve, Formed, Shapes, Shape, Active
<1>2. PICK answer : Gets(c, answer)
  BY DEF Serve
<1> DEFINE new == [call[c] EXCEPT !.answer = answer]
<1>3. /\ new.kind = call[c].kind /\ new.item = call[c].item /\ new.offer = call[c].offer
      /\ new.request = call[c].request
  BY <1>1, WithAnswer
<1>4. call' = [call EXCEPT ![c] = new] \/ call' = Noticed(c, new)
  <2>1. call = [d \in Calls |-> call[d]]
    BY DEF Formed, Shapes
  <2> QED BY <1>2, <2>1 DEF Gets
<1> HIDE DEF new
<1>5. OnItsOwn(session) => CallOwn(session, new)
  BY <1>1, <1>3, SameOwn DEF Own
<1>6. OnItsOwn(session) => Moves(session)
  BY <1>4, <1>5 DEF Moves
<1> QED BY <1>1, <1>6, OwnStays

LEMMA SearchAnsweredOwn ==
  ASSUME Formed, Own, Held, NEW c \in Calls, SearchAnswered(c)
  PROVE  Own'
<1>1. call' = [call EXCEPT ![c] = Idle] \/ call' = Noticed(c, Idle)
  BY DEF SearchAnswered
<1>2. Moves(session)
  BY <1>1 DEF Moves
<1>3. CASE session' = session
  BY <1>2, <1>3, OwnStays
<1>4. CASE /\ call[c].answer \notin {Nil, Error} /\ call[c].kind = "search" /\ Active(c)
           /\ session' = [session EXCEPT !.offers = Put(@, call[c].item, call[c].answer)]
  <2> DEFINE more == Put(session.offers, call[c].item, call[c].answer)
  <2>1. session = [f \in SessionFields |-> session[f]] /\ AskShape(call[c])
    BY <1>4 DEF Formed, SessionShape, Shapes, Shape, Active
  <2>2. session' = [session EXCEPT !.offers = more]
    BY <1>4
  <2>3. OnItsOwn(session) =>
          \A item \in DOMAIN more : \A offer \in more[item] : OfItem(session, item, offer.variant)
    <3> SUFFICES ASSUME OnItsOwn(session), NEW item \in DOMAIN more, NEW offer \in more[item]
                 PROVE  OfItem(session, item, offer.variant)
      OBVIOUS
    <3>1. CASE item # call[c].item
      BY <3>1 DEF Put, Own, SessionOwn
    <3>2. CASE item = call[c].item
      <4>1. offer \in call[c].answer
        BY <3>2 DEF Put
      <4>2. ProductOf[offer.variant] = call[c].request.product
        BY <1>4, <2>1, <4>1 DEF AskShape, RequestShape
      <4> QED BY <1>4, <3>2, <4>2 DEF Own, CallOwn, OfItem
    <3> QED BY <3>1, <3>2
  <2> HIDE DEF more
  <2>4. session'.offers = more /\ session'.selected = session.selected
    BY <2>1, <2>2 DEF SessionFields
  <2> QED BY <1>2, <2>3, <2>4, OwnStays
<1> QED BY <1>3, <1>4 DEF SearchAnswered

LEMMA SelectOwn ==
  ASSUME Formed, Own, Held, NEW c \in Calls, NEW item \in DOMAIN session.offers,
         NEW offer \in session.offers[item], Select(c, item, offer)
  PROVE  Own'
<1>1. PICK request : call' = [call EXCEPT ![c] = Ask("select", item, offer, request)]
  BY DEF Select
<1>2. UNCHANGED session /\ session.intent.merchant \in {Nil, MerchantOf[offer.variant]}
  BY DEF Select
<1> DEFINE new == Ask("select", item, offer, request)
<1>3. new.kind = "select" /\ new.item = item /\ new.offer = offer
  BY DEF Ask
<1> HIDE DEF new
<1>4. OnItsOwn(session) => CallOwn(session, new)
  BY <1>2, <1>3 DEF Own, SessionOwn, CallOwn, AtNamed
<1>5. OnItsOwn(session) => Moves(session)
  BY <1>1, <1>4 DEF Moves, new
<1> QED BY <1>2, <1>5, OwnStays

LEMMA SelectWritesOwn ==
  ASSUME Formed, Own, Held, NEW c \in Calls, SelectWrites(c) \/ SelectAsksBack(c)
  PROVE  Own'
<1>1. UNCHANGED session /\ Active(c) /\ AskShape(call[c]) /\ call[c].kind = "select"
  BY DEF SelectWrites, SelectAsksBack, Answered, Formed, Shapes, Shape, Active
<1>2. \/ call' = [call EXCEPT ![c] = Idle]
      \/ /\ call' = [call EXCEPT ![c] = call'[c]]
         /\ call'[c].kind = "select" /\ call'[c].item = call[c].item
         /\ call'[c].offer = call[c].offer
  BY SelectWritesIs, AsksBackIs DEF Writes
<1>3. OnItsOwn(session) => Moves(session)
  <2> DEFINE new == call'[c]
  <2>1. CASE /\ call' = [call EXCEPT ![c] = new]
             /\ new.kind = "select" /\ new.item = call[c].item /\ new.offer = call[c].offer
    <3> HIDE DEF new
    <3>1. OnItsOwn(session) => CallOwn(session, new)
      BY <1>1, <2>1 DEF Own, CallOwn
    <3> QED BY <2>1, <3>1 DEF Moves
  <2> QED BY <1>2, <2>1 DEF Moves
<1> QED BY <1>1, <1>3, OwnStays

LEMMA SelectReadsOwn ==
  ASSUME Formed, Own, Held, NEW c \in Calls, SelectReads(c)
  PROVE  Own'
<1>1. call' = Noticed(c, Idle) /\ Active(c) /\ call[c].kind = "select"
  BY DEF SelectReads, Answered
<1>2. Moves(session)
  BY <1>1 DEF Moves
<1> DEFINE more == Put(session.selected, call[c].item, call[c].offer)
<1>3. session' = [session EXCEPT !.selected = more, !.observed = call[c].answer,
                    !.confirmed = FALSE]
  BY DEF SelectReads
<1>4. session = [f \in SessionFields |-> session[f]]
  BY DEF Formed, SessionShape
<1>5. OnItsOwn(session) =>
        \A item \in DOMAIN more :
          OfItem(session, item, more[item].variant) /\ AtNamed(session, more[item].variant)
  <2> SUFFICES ASSUME OnItsOwn(session), NEW item \in DOMAIN more
               PROVE  OfItem(session, item, more[item].variant) /\ AtNamed(session, more[item].variant)
    OBVIOUS
  <2>1. CASE item # call[c].item
    BY <2>1 DEF Put, Own, SessionOwn
  <2>2. CASE item = call[c].item
    <3>1. more[item] = call[c].offer
      BY <2>2 DEF Put
    <3> HIDE DEF more
    <3> QED BY <1>1, <2>2, <3>1 DEF Own, CallOwn
  <2> QED BY <2>1, <2>2
<1> HIDE DEF more
<1>6. session'.offers = session.offers /\ session'.selected = more
  BY <1>3, <1>4 DEF SessionFields
<1> QED BY <1>2, <1>5, <1>6, OwnStays

LEMMA OthersOwn ==
  ASSUME Formed, Own, Held,
         \/ \E c \in Calls : CallFails(c) \/ Pay(c) \/ Checked(c) \/ PayReads(c)
         \/ \E c \in Calls, item \in DOMAIN session.intent.items : Search(c, item)
         \/ \E row \in rows : Captured(row)
         \/ \E v \in Variant : PriceChanges(v)
         \/ \E id \in CartIds : CartChanges(id)
         \/ Remember \/ Tick \/ UNCHANGED vars
  PROVE  Own'
<1>0. session = [f \in SessionFields |-> session[f]]
  BY DEF Formed, SessionShape
<1>1. ASSUME NEW c \in Calls, CallFails(c) \/ Checked(c) \/ PayReads(c) PROVE Own'
  <2>1. Moves(session)
    BY <1>1 DEF CallFails, Checked, PayReads, Moves
  <2>2. session'.offers = session.offers /\ session'.selected = session.selected
    BY <1>0, <1>1 DEF CallFails, Checked, PayReads, SessionFields
  <2> QED BY <2>1, <2>2, OwnStays
<1>2. ASSUME NEW c \in Calls, Pay(c) PROVE Own'
  <2>1. PICK request : call' = [call EXCEPT ![c] = Ask("pay", Nil, Nil, request)]
    BY <1>2 DEF Pay
  <2>2. CallOwn(session, Ask("pay", Nil, Nil, request))
    BY DEF CallOwn, Ask
  <2> QED BY <1>2, <2>1, <2>2, OwnStays DEF Pay, Moves
<1>3. ASSUME NEW c \in Calls, NEW item \in DOMAIN session.intent.items, Search(c, item) PROVE Own'
  <2> DEFINE request == Catalogue(session.intent.items[item].product, Searched(session.intent))
             new == Ask("search", item, Nil, request)
  <2>1. call' = [call EXCEPT ![c] = new] /\ UNCHANGED session
    BY <1>3 DEF Search
  <2>2. new.kind = "search" /\ new.item = item
        /\ new.request.product = session.intent.items[item].product
    BY DEF Ask, Catalogue
  <2> HIDE DEF new
  <2>3. CallOwn(session, new)
    BY <2>2 DEF CallOwn
  <2> QED BY <2>1, <2>3, OwnStays DEF Moves
<1>4. ASSUME \/ \E row \in rows : Captured(row)
             \/ \E v \in Variant : PriceChanges(v)
             \/ \E id \in CartIds : CartChanges(id)
             \/ Remember \/ Tick \/ UNCHANGED vars
      PROVE  Own'
  <2>1. call' \in {Everyone, call} /\ UNCHANGED session
    BY <1>4 DEF Captured, PriceChanges, CartChanges, Remember, Tick, vars
  <2> QED BY <2>1, OwnStays DEF Moves
<1> QED BY <1>1, <1>2, <1>3, <1>4

\* A revision that straddles no search and no selection has nothing of the old request.
LEMMA ContinueOwn ==
  ASSUME Formed, NEW c \in Calls, NEW request \in Requests, Continue(c, request)
  PROVE  Own' /\ Frozen'
<1> DEFINE straddled == \E d \in Calls : Active(d) /\ call[d].kind \in {"search", "select"}
<1>1. /\ session'.intent = Compiled(request) /\ session'.named = request.merchant
      /\ session'.offers = None /\ session'.selected = None
      /\ session'.straddled = straddled
  BY DEF Continue, Revised
<1>2. /\ Compiled(request) # Nil => /\ Compiled(request).merchant = request.merchant
                                    /\ Compiled(request).status = "draft"
  BY DEF Compiled
<1>3. Frozen'
  BY <1>1, <1>2 DEF Frozen
<1>4. ASSUME OnItsOwn(session)', NEW d \in Calls, Active(d)' PROVE CallOwn(session', call'[d])
  <2>1. ~straddled
    BY <1>1, <1>4 DEF OnItsOwn
  <2>2. \A e \in Calls : Active(e) => AskShape(call[e]) /\ call[e].kind \notin {"search", "select"}
    BY <2>1 DEF Formed, Shapes, Shape, Active
  <2> DEFINE new == Ask("continue", Nil, Nil, Tools(request.merchant))
  <2>3. new.kind = "continue"
    BY DEF Ask
  <2> HIDE DEF new, straddled
  <2>4. \/ call'[d] = new
        \/ Active(d) /\ call'[d] = [call[d] EXCEPT !.quiet = FALSE]
    <3>1. call' = Noticed(c, new) \/ call' = Everyone
      BY DEF Continue, new
    <3> QED BY <1>4, <3>1 DEF Noticed, Everyone, Active
  <2>5. call'[d].kind \notin {"search", "select"}
    <3>1. CASE call'[d] = new
      BY <2>3, <3>1
    <3>2. CASE Active(d) /\ call'[d] = [call[d] EXCEPT !.quiet = FALSE]
      <4> DEFINE q == [call[d] EXCEPT !.quiet = FALSE]
      <4>1. call[d] = [f \in AskFields |-> call[d][f]]
        BY <2>2, <3>2 DEF AskShape
      <4>2. q.kind = call[d].kind
        BY <4>1 DEF AskFields
      <4> HIDE DEF q
      <4> QED BY <2>2, <3>2, <4>2 DEF q
    <3> QED BY <2>4, <3>1, <3>2
  <2> QED BY <2>5 DEF CallOwn
<1>5. OnItsOwn(session)' => SessionOwn(session')
  BY <1>1, <1>2 DEF OnItsOwn, SessionOwn, None
<1> HIDE DEF straddled
<1> QED BY <1>3, <1>4, <1>5 DEF Own

\* The shop of a confirmation is the named one, and its lines are the items'.
LEMMA ConfirmOwn ==
  ASSUME Formed, Own, Frozen, Confirm
  PROVE  Own' /\ Frozen'
<1>1. /\ \A f \in SessionFields \ {"intent", "confirmed"} : session'[f] = session[f]
      /\ Expectable /\ session.observed # Nil
  BY ConfirmIs
<1>2. /\ session'.named = session.named /\ session'.straddled = session.straddled
      /\ session'.offers = session.offers /\ session'.selected = session.selected
      /\ session'.revision = session.revision
  BY <1>1 DEF SessionFields
<1>3. call' \in {Everyone, call}
  BY DEF Confirm
<1>4. CASE session'.intent = session.intent /\ approved' = approved
  <2>1. Held
    BY <1>2, <1>4 DEF Held
  <2> QED BY <1>2, <1>3, <2>1, OwnStays, FrozenStays DEF Moves
<1>5. CASE /\ Matches(CompareCart(Expectation, session.observed))
           /\ IntentShape(session'.intent)
           /\ session'.intent.items = session.intent.items
           /\ session'.intent.merchant = Expectation.merchant
           /\ session'.intent.hash = CartHash(session.observed)
           /\ session'.intent.at = now
           /\ approved' = [lines |-> Expectation.lines, cart |-> session.observed,
                           at |-> now, revision |-> session.revision]
  <2>1. /\ \A item \in DOMAIN session.selected :
             MerchantOf[session.selected[item].variant] = Expectation.merchant
        /\ \E item \in DOMAIN session.selected : TRUE
        /\ session.intent # Nil
        /\ DOMAIN session.selected = DOMAIN session.intent.items
    BY <1>1, OneMerchant DEF Expectable
  <2>2. OnItsOwn(session) => session.named \in {Nil, Expectation.merchant}
    BY <2>1 DEF Own, SessionOwn, AtNamed
  <2>3. \A item, v : /\ OfItem(session', item, v) <=> OfItem(session, item, v)
                     /\ AtNamed(session', v) <=> AtNamed(session, v)
    BY <1>2, <1>5 DEF OfItem, AtNamed
  <2>4. Own'
    <3> SUFFICES ASSUME OnItsOwn(session)' PROVE Own'
      BY DEF Own
    <3>1. OnItsOwn(session)
      BY <1>2, <2>1 DEF OnItsOwn
    <3>2. SessionOwn(session')
      BY <1>2, <1>5, <2>2, <2>3, <3>1 DEF Own, SessionOwn
    <3>3. Moves(session')
      BY <1>3 DEF Moves
    <3>4. \A c \in Calls : Active(c)' => CallOwn(session', call'[c])
      <4>1. \A c \in Calls : Active(c) => CallOwn(session, call[c])
        BY <3>1 DEF Own
      <4> QED BY <1>2, <1>5, <3>3, <4>1, CallsOwn DEF Formed
    <3> QED BY <3>2, <3>4 DEF Own
  <2>5. FrozenAs(session', approved')
    <3> DEFINE a == approved'
    <3>1. /\ a.lines = Expectation.lines /\ a.cart = session.observed /\ a.at = now
          /\ a.revision = session.revision
      BY <1>5
    <3>2. /\ MatchesQuantities(Expectation, session.observed)
          /\ MatchesPrices(Expectation, session.observed)
          /\ session.observed.merchant = Expectation.merchant
      BY <1>5 DEF Matches, CompareCart
    <3> HIDE DEF a
    <3>3. /\ MatchesQuantities([lines |-> a.lines], a.cart)
          /\ MatchesPrices([lines |-> a.lines], a.cart)
      <4> DEFINE e == [lines |-> a.lines]
      <4>1. Approved(e) = Approved(Expectation)
        BY <3>1 DEF Approved
      <4> HIDE DEF e
      <4>2. MatchesQuantities(e, session.observed) /\ MatchesPrices(e, session.observed)
        BY <3>2, <4>1 DEF MatchesQuantities, MatchesPrices, ApprovedTotals
      <4> QED BY <3>1, <4>2 DEF e
    <3>4. Tidy(a.cart.lines)
      BY <1>1, <3>1 DEF Formed, SessionShape, CartRead
    <3>5. /\ Agreed(a.lines) /\ Len(a.lines) = Len(session.intent.items)
          /\ \A item \in DOMAIN session.intent.items :
               /\ a.lines[item].quantity = session.intent.items[item].quantity
               /\ a.lines[item].variant = session.selected[item].variant
      BY <1>1, <3>1, ExpectedLines
    <3>6. ~session.straddled =>
            /\ \A item \in DOMAIN session.intent.items :
                 ProductOf[a.lines[item].variant] = session.intent.items[item].product
            /\ session.named \in {Nil, a.cart.merchant}
      <4> SUFFICES ASSUME ~session.straddled
                   PROVE  /\ \A item \in DOMAIN session.intent.items :
                               ProductOf[a.lines[item].variant] = session.intent.items[item].product
                          /\ session.named \in {Nil, a.cart.merchant}
        OBVIOUS
      <4>1. OnItsOwn(session)
        BY <2>1 DEF OnItsOwn
      <4>2. \A item \in DOMAIN session.selected :
              OfItem(session, item, session.selected[item].variant)
        BY <4>1 DEF Own, SessionOwn
      <4> QED BY <2>1, <2>2, <3>1, <3>2, <3>5, <4>1, <4>2 DEF OfItem
    <3>7. FrozenAs(session', a)
      BY <1>2, <1>5, <3>1, <3>3, <3>4, <3>5, <3>6 DEF FrozenAs
    <3> QED BY <3>7 DEF a
  <2> QED BY <2>4, <2>5 DEF Frozen
<1> QED BY <1>4, <1>5, ConfirmIs

LEMMA NextOwn ==
  ASSUME Formed, Own, Frozen, [Next]_vars
  PROVE  Own' /\ Frozen'
<1>1. ASSUME NEW c \in Calls, NEW request \in Requests, Continue(c, request) PROVE Own' /\ Frozen'
  BY <1>1, ContinueOwn
<1>2. CASE Confirm
  BY <1>2, ConfirmOwn
<1>3. CASE Held
  <2>1. ASSUME NEW c \in Calls, OfCall(c)
        PROVE  Own' \/ \E request \in Requests : Continue(c, request)
    BY <1>3, <2>1, ServeOwn, SearchAnsweredOwn, SelectOwn, SelectWritesOwn, SelectReadsOwn,
       OthersOwn DEF OfCall
  <2>2. Own' \/ Confirm \/ \E c \in Calls, request \in Requests : Continue(c, request)
    BY <1>3, <2>1, NextIs, OthersOwn
  <2> QED BY <1>1, <1>2, <1>3, <2>2, FrozenStays
<1> QED BY <1>1, <1>2, <1>3, HeldBy

\* A row is claimed only for the cart the last confirmation showed, and, unless the
\* revision straddled a search or a selection, for what the request asks for at the
\* shop it names (app.py create_payment_order): while the request is confirmed its hash
\* is that of the approved cart (Frozen), and two carts of one hash that list no variant
\* twice have the same lines (MatchedCart).
THEOREM CheckoutOrderAsApproved == Spec => OrderAsApproved
<1>1. Init => Formed /\ Own /\ Frozen
  <2> SUFFICES ASSUME Init PROVE Own /\ Frozen
    BY InitForms
  <2>1. PICK request \in Requests, blocked \in BOOLEAN :
          session = [intent |-> Compiled(request), named |-> request.merchant,
                     blocked |-> blocked, offers |-> None, selected |-> None,
                     observed |-> Nil, confirmed |-> FALSE, revision |-> 0,
                     straddled |-> FALSE]
    BY DEF Init
  <2>2. Compiled(request) # Nil => /\ Compiled(request).merchant = request.merchant
                                   /\ Compiled(request).status = "draft"
    BY DEF Compiled
  <2>3. /\ session.intent = Compiled(request) /\ session.named = request.merchant
        /\ session.offers = None /\ session.selected = None
    BY <2>1
  <2>4. \A c \in Calls : ~Active(c)
    BY DEF Init, Active
  <2>5. Own
    BY <2>2, <2>3, <2>4 DEF Own, OnItsOwn, SessionOwn, None
  <2> QED BY <2>2, <2>3, <2>5 DEF Frozen
<1>2. Formed /\ Own /\ Frozen /\ [Next]_vars => (Formed /\ Own /\ Frozen)'
  BY NextForms, NextOwn
<1>3. Formed /\ Frozen /\ [Next]_vars =>
        [\A row \in rows' \ rows :
           LET items == session.intent.items
               lines == approved.lines
           IN  /\ row.cart.total = approved.cart.total /\ row.cart.total <= session.intent.cap
               /\ approved.revision = session.revision /\ now <= approved.at + MaxAge
               /\ Len(row.cart.lines) = Len(lines) /\ Len(lines) = Len(items)
               /\ \A i \in DOMAIN lines : \E j \in DOMAIN row.cart.lines :
                    row.cart.lines[j] = [variant |-> lines[i].variant,
                                         quantity |-> lines[i].quantity,
                                         total |-> lines[i].quantity * lines[i].price]
               /\ session.straddled \/
                    /\ \A i \in DOMAIN items : lines[i].quantity = items[i].quantity
                                               /\ ProductOf[lines[i].variant] = items[i].product
                    /\ session.named \in {Nil, row.cart.merchant}]_vars
  <2> SUFFICES ASSUME Formed, Frozen, [Next]_vars, NEW row \in rows' \ rows
               PROVE  LET items == session.intent.items
                          lines == approved.lines
                      IN  /\ row.cart.total = approved.cart.total
                          /\ row.cart.total <= session.intent.cap
                          /\ approved.revision = session.revision /\ now <= approved.at + MaxAge
                          /\ Len(row.cart.lines) = Len(lines) /\ Len(lines) = Len(items)
                          /\ \A i \in DOMAIN lines : \E j \in DOMAIN row.cart.lines :
                               row.cart.lines[j] = [variant |-> lines[i].variant,
                                                    quantity |-> lines[i].quantity,
                                                    total |-> lines[i].quantity * lines[i].price]
                          /\ session.straddled \/
                               /\ \A i \in DOMAIN items :
                                    lines[i].quantity = items[i].quantity
                                    /\ ProductOf[lines[i].variant] = items[i].product
                               /\ session.named \in {Nil, row.cart.merchant}
    OBVIOUS
  <2>1. PICK c \in Calls : PayReads(c)
    BY OnlyPayReadsClaims
  <2>2. MayClaim(call[c].answer) /\ row.cart = call[c].answer
    BY <2>1 DEF PayReads, Reread
  <2>3. CartRead(call[c].answer)
    BY <2>1 DEF PayReads, Answered, Formed, Shapes, Shape, Active, AskShape, RequestShape
  <2> DEFINE gates == PrePaymentGates(session.intent, Expectation, row.cart, Evidence(row.cart),
                                      now, MaxAge)
  <2>4. /\ gates.withinCap /\ gates.confirmationMatches /\ gates.authorizationFresh
        /\ session.intent # Nil
    <3>1. Allow(gates) /\ session.intent # Nil
      BY <2>2 DEF MayClaim, Expectable
    <3>2. {"withinCap", "confirmationMatches", "authorizationFresh"} \subseteq DOMAIN gates
      BY DEF PrePaymentGates
    <3> HIDE DEF gates
    <3> QED BY <3>1, <3>2 DEF Allow, Failed
  <2>5. /\ row.cart.total <= session.intent.cap
        /\ session.intent.status = "confirmed" /\ session.intent.hash = CartHash(row.cart)
        /\ now <= session.intent.at + MaxAge
    <3>1. row.cart.total <= Expectation.cap
      BY <2>4 DEF PrePaymentGates, CompareCart
    <3>2. Expectation.cap = session.intent.cap
      BY DEF Expectation
    <3>3. ConfirmationMatches(session.intent, row.cart)
      BY <2>4 DEF PrePaymentGates
    <3>4. AuthorizationFresh(session.intent, now, MaxAge)
      BY <2>4 DEF PrePaymentGates
    <3> HIDE DEF gates
    <3> QED BY <3>1, <3>2, <3>3, <3>4 DEF ConfirmationMatches, AuthorizationFresh
  <2> HIDE DEF gates
  <2>6. FrozenAs(session, approved)
    BY <2>4, <2>5 DEF Frozen
  <2> DEFINE e == [lines |-> approved.lines]
  <2>7. /\ row.cart.total = approved.cart.total /\ row.cart.merchant = approved.cart.merchant
        /\ Len(row.cart.lines) = Len(approved.lines)
        /\ \A i \in DOMAIN approved.lines : \E j \in DOMAIN row.cart.lines :
             row.cart.lines[j] = InCartAs(approved.lines[i])
    <3>1. /\ CartHash(row.cart) = CartHash(approved.cart)
          /\ Tidy(approved.cart.lines) /\ Tidy(row.cart.lines) /\ Agreed(approved.lines)
          /\ e.lines = approved.lines
          /\ MatchesQuantities(e, approved.cart) /\ MatchesPrices(e, approved.cart)
      BY <2>2, <2>3, <2>5, <2>6 DEF FrozenAs, CartRead
    <3> HIDE DEF e
    <3> QED BY <3>1, MatchedCart
  <2>8. \A i \in DOMAIN approved.lines : \E j \in DOMAIN row.cart.lines :
          row.cart.lines[j] = [variant |-> approved.lines[i].variant,
                               quantity |-> approved.lines[i].quantity,
                               total |-> approved.lines[i].quantity * approved.lines[i].price]
    BY <2>7 DEF InCartAs
  <2>9. /\ approved.revision = session.revision /\ now <= approved.at + MaxAge
        /\ Len(approved.lines) = Len(session.intent.items)
    BY <2>5, <2>6 DEF FrozenAs
  <2>10. ~session.straddled =>
           /\ \A i \in DOMAIN session.intent.items :
                /\ approved.lines[i].quantity = session.intent.items[i].quantity
                /\ ProductOf[approved.lines[i].variant] = session.intent.items[i].product
           /\ session.named \in {Nil, row.cart.merchant}
    BY <2>6, <2>7 DEF FrozenAs
  <2> QED BY <2>5, <2>7, <2>8, <2>9, <2>10
<1> QED BY <1>1, <1>2, <1>3, PTL DEF Spec, OrderAsApproved

-----------------------------------------------------------------------------
(* What a selection writes into the demo store's cart.                       *)

LEMMA SumSame ==
  ASSUME NEW S, IsFiniteSet(S), NEW f, NEW g, \A x \in S : f[x] = g[x]
  PROVE  SumOver(f, S) = SumOver(g, S)
<1> DEFINE iterF == CHOOSE iter : Summing(f, S, iter)
           iterG == CHOOSE iter : Summing(g, S, iter)
<1>1. Summing(f, S, iterF) /\ Summing(g, S, iterG)
  <2>1. (\E iter : Summing(f, S, iter)) /\ (\E iter : Summing(g, S, iter))
    BY SummingExists
  <2> QED BY <2>1
<1> HIDE DEF iterF, iterG
<1>2. Summing(g, S, iterF)
  <2>1. \A s \in SUBSET S :
          iterF[s] = IF s = {} THEN 0
                     ELSE LET x == CHOOSE x \in s : TRUE IN iterF[s \ {x}] + g[x]
    <3> TAKE s \in SUBSET S
    <3>1. iterF[s] = IF s = {} THEN 0
                     ELSE LET x == CHOOSE x \in s : TRUE IN iterF[s \ {x}] + f[x]
      BY <1>1 DEF Summing
    <3>2. s # {} => (CHOOSE x \in s : TRUE) \in S
      OBVIOUS
    <3> QED BY <3>1, <3>2
  <2>2. iterF = [s \in SUBSET S |-> iterF[s]]
    BY <1>1 DEF Summing
  <2> QED BY <2>1, <2>2 DEF Summing
<1>3. iterF = iterG
  BY <1>1, <1>2, SummingUnique
<1> QED BY <1>3 DEF SumOver, iterF, iterG

\* The quantity of the items of a set.
QuantityOf(items, S) == SumOver([i \in S |-> items[i].quantity], S)

LEMMA QuantityStep ==
  ASSUME NEW items, NEW S, IsFiniteSet(S), \A i \in S : items[i].quantity \in Nat
  PROVE  /\ QuantityOf(items, {}) = 0 /\ QuantityOf(items, S) \in Nat
         /\ \A m \in S : QuantityOf(items, S) = QuantityOf(items, S \ {m}) + items[m].quantity
<1> DEFINE f == [i \in S |-> items[i].quantity]
<1>1. \A i \in S : f[i] \in Nat
  OBVIOUS
<1>2. \A m \in S : f[m] = items[m].quantity
  OBVIOUS
<1>3. SumOver(f, S) = QuantityOf(items, S)
  BY DEF QuantityOf
<1>4. QuantityOf(items, {}) = 0
  <2>1. IsFiniteSet({})
    BY FS_EmptySet
  <2> QED BY <2>1, SumStep DEF QuantityOf
<1>5. ASSUME NEW m \in S PROVE SumOver(f, S \ {m}) = QuantityOf(items, S \ {m})
  <2> DEFINE g == [i \in S \ {m} |-> items[i].quantity]
  <2>1. IsFiniteSet(S \ {m})
    BY FS_Subset
  <2>2. \A x \in S \ {m} : f[x] = g[x]
    OBVIOUS
  <2>3. SumOver(g, S \ {m}) = QuantityOf(items, S \ {m})
    BY DEF QuantityOf
  <2> HIDE DEF f, g
  <2>4. SumOver(f, S \ {m}) = SumOver(g, S \ {m})
    BY <2>1, <2>2, SumSame
  <2> QED BY <2>3, <2>4
<1> HIDE DEF f
<1>6. SumOver(f, S) \in Nat /\ \A m \in S : SumOver(f, S) = SumOver(f, S \ {m}) + f[m]
  BY <1>1, SumRemove
<1> QED BY <1>2, <1>3, <1>4, <1>5, <1>6

OfVariant(selections, W, v) == {i \in W : selections[i].variant = v}

\* A cart that holds the selections of these items and nothing else.
Filled(selections, items, W) ==
  [v \in {selections[i].variant : i \in W} |-> QuantityOf(items, OfVariant(selections, W, v))]

Contents(basket) == IF basket = Nil THEN None ELSE basket

LEMMA FilledNothing ==
  ASSUME NEW selections, NEW items
  PROVE  Filled(selections, items, {}) = None
BY DEF Filled, None

LEMMA FilledIsNoNil ==
  ASSUME NEW selections, NEW items, NEW W, IsFiniteSet(W),
         \A i \in W : items[i].quantity \in Nat /\ selections[i].variant \in Variant
  PROVE  Filled(selections, items, W) # Nil
<1> DEFINE bought == {selections[i].variant : i \in W}
<1>1. bought \in SUBSET DOMAIN MerchantOf
  BY DEF Variant
<1>2. \A v \in bought : QuantityOf(items, OfVariant(selections, W, v)) \in Nat
  <2> TAKE v \in bought
  <2>1. IsFiniteSet(OfVariant(selections, W, v))
    BY FS_Subset DEF OfVariant
  <2>2. \A i \in OfVariant(selections, W, v) : items[i].quantity \in Nat
    BY DEF OfVariant
  <2> QED BY <2>1, <2>2, QuantityStep
<1>3. Filled(selections, items, W) \in [bought -> Nat]
  BY <1>2 DEF Filled
<1> QED BY <1>1, <1>3, CheckoutAssumption

\* One more line in the cart.
PlusLine(b, variant, quantity) ==
  [v \in DOMAIN b \cup {variant} |->
     (IF v \in DOMAIN b THEN b[v] ELSE 0) + (IF v = variant THEN quantity ELSE 0)]

LEMMA FilledGrows ==
  ASSUME NEW selections, NEW items, NEW W, IsFiniteSet(W), \A i \in W : items[i].quantity \in Nat,
         NEW m \in W, NEW b, b = Filled(selections, items, W \ {m})
  PROVE  PlusLine(b, selections[m].variant, items[m].quantity) = Filled(selections, items, W)
<1> DEFINE own == selections[m].variant
           grown(v) == (IF v \in DOMAIN b THEN b[v] ELSE 0)
                       + (IF v = own THEN items[m].quantity ELSE 0)
           all == {selections[i].variant : i \in W}
           of(v) == OfVariant(selections, W, v)
<1>1. DOMAIN b = {selections[i].variant : i \in W \ {m}}
      /\ \A v \in DOMAIN b : b[v] = QuantityOf(items, OfVariant(selections, W \ {m}, v))
  BY DEF Filled
<1>2. DOMAIN b \cup {own} = all
  BY <1>1
<1>3. \A v : /\ IsFiniteSet(of(v)) /\ \A i \in of(v) : items[i].quantity \in Nat
             /\ OfVariant(selections, W \ {m}, v) = of(v) \ {m}
  <2> TAKE v
  <2>1. of(v) \subseteq W
    BY DEF OfVariant
  <2>2. OfVariant(selections, W \ {m}, v) = of(v) \ {m}
    BY DEF OfVariant
  <2> HIDE DEF of
  <2> QED BY <2>1, <2>2, FS_Subset
<1>4. \A v : v # own => of(v) \ {m} = of(v)
  BY DEF OfVariant
<1>5. m \in of(own)
  BY DEF OfVariant
<1>6. own \notin DOMAIN b => of(own) \ {m} = {}
  BY <1>1 DEF OfVariant
<1> HIDE DEF of
<1>7. \A v \in all : grown(v) = QuantityOf(items, of(v))
  <2> TAKE v \in all
  <2>1. QuantityOf(items, of(v)) \in Nat /\ QuantityOf(items, {}) = 0
    BY <1>3, QuantityStep
  <2>2. v \in DOMAIN b => b[v] = QuantityOf(items, of(v) \ {m})
    BY <1>1, <1>3
  <2>3. CASE v # own
    <3>1. v \in DOMAIN b
      BY <1>2, <2>3
    <3>2. b[v] = QuantityOf(items, of(v))
      BY <1>4, <2>2, <2>3, <3>1
    <3> HIDE DEF own
    <3> QED BY <2>1, <2>3, <3>1, <3>2
  <2>4. CASE v = own
    <3>1. QuantityOf(items, of(v)) = QuantityOf(items, of(v) \ {m}) + items[m].quantity
      BY <1>3, <1>5, <2>4, QuantityStep
    <3>2. (IF v \in DOMAIN b THEN b[v] ELSE 0) = QuantityOf(items, of(v) \ {m})
      BY <1>6, <2>1, <2>2, <2>4
    <3> HIDE DEF own
    <3> QED BY <2>4, <3>1, <3>2
  <2> QED BY <2>3, <2>4
<1> HIDE DEF grown
<1>8. [v \in DOMAIN b \cup {own} |-> grown(v)] = [v \in all |-> QuantityOf(items, of(v))]
  BY <1>2, <1>7
<1>9. [v \in all |-> QuantityOf(items, of(v))] = Filled(selections, items, W)
  BY DEF Filled, of
<1> QED BY <1>8, <1>9 DEF grown, PlusLine

Demo == <<FreshCart, 0>>

\* Where an undisturbed selection at the demo store is: the cart was cleared, then holds
\* the lines written so far, and at the end all of them.
Written(r) == DOMAIN r.selections \ r.left

AtDemo(r) == r.request.do \in {"add", "read"} /\ r.request.merchant = FreshCart

LineOf(r, s, b) ==
  \E m \in Written(r) :
    /\ r.request.variant = r.selections[m].variant
    /\ r.request.quantity = s.intent.items[m].quantity
    /\ r.answer = Nil => Contents(b) = Filled(r.selections, s.intent.items, Written(r) \ {m})
    /\ r.answer \notin {Nil, Error} =>
         r.answer = Demo /\ b = Filled(r.selections, s.intent.items, Written(r))

SettledAs(r, s, b) ==
  /\ r.request.do = "clear" =>
       r.request.cart = Demo /\ (r.answer \notin {Nil, Error} => b = Nil)
  /\ r.request.do = "add" /\ r.request.merchant # FreshCart => r.left = {}
  /\ AtDemo(r) =>
       /\ r.request.cart = Demo /\ s.intent # Nil
       /\ r.selections = Put(s.selected, r.item, r.offer)
       /\ Written(r) \subseteq DOMAIN s.intent.items
  /\ AtDemo(r) /\ r.request.do = "add" => LineOf(r, s, b)
  /\ AtDemo(r) /\ r.request.do = "read" =>
       r.left = {} /\ b = Filled(r.selections, s.intent.items, DOMAIN r.selections)

Settling ==
  \A c \in Calls :
    Active(c) /\ call[c].kind = "select" /\ call[c].quiet =>
      SettledAs(call[c], session, carts[Demo])

LEMMA WrittenIsFinite ==
  ASSUME Formed, session.intent # Nil, NEW W, W \subseteq DOMAIN session.intent.items
  PROVE  IsFiniteSet(W) /\ \A i \in W : session.intent.items[i].quantity \in Nat
<1>1. /\ Len(session.intent.items) \in Nat
      /\ DOMAIN session.intent.items = 1 .. Len(session.intent.items)
      /\ \A i \in DOMAIN session.intent.items : session.intent.items[i].quantity \in Nat
  BY DEF Formed, SessionShape, IntentShape, Stated
<1>2. IsFiniteSet(1 .. Len(session.intent.items))
  BY <1>1, FS_Interval
<1> QED BY <1>1, <1>2, FS_Subset

\* The merchant clears the cart or adds a line, or says what is in it.
LEMMA ServeSettles ==
  ASSUME Formed, NEW c \in Calls, Serve(c), call[c].kind = "select",
         SettledAs(call[c], session, carts[Demo])
  PROVE  SettledAs(call'[c], session', carts'[Demo])
<1> DEFINE r == call[c]
           q == call'[c]
           request == call[c].request
<1>1. /\ AskShape(r) /\ r.answer = Nil /\ RoomAt(request) /\ UNCHANGED session
      /\ RequestShape(request, Nil)
  BY DEF Serve, Formed, Shapes, Shape, Active, AskShape
<1>2. PICK answer : /\ \/ carts' = Effect(request) /\ answer \in Answers(request)
                       \/ carts' \in {carts, Effect(request)} /\ answer = Error
                    /\ Gets(c, answer)
  BY DEF Serve
<1>3. /\ q.kind = r.kind /\ q.item = r.item /\ q.offer = r.offer /\ q.request = request
      /\ q.answer = answer /\ q.selections = r.selections /\ q.left = r.left
  <2>1. q = [r EXCEPT !.answer = answer]
    <3>1. call = [d \in Calls |-> call[d]]
      BY DEF Formed, Shapes
    <3> QED BY <1>2, <3>1 DEF Gets, Noticed
  <2> HIDE DEF q
  <2> QED BY <1>1, <2>1, WithAnswer
<1>4. Demo \in CartIds /\ Demo # Nil /\ Demo[1] = FreshCart
  BY CheckoutAssumption DEF Demo
<1>5. request.do = "clear" /\ answer \notin {Nil, Error} => carts'[Demo] = Nil
  <2> SUFFICES ASSUME request.do = "clear", answer # Error PROVE carts'[Demo] = Nil
    OBVIOUS
  <2>1. request.cart = Demo
    BY DEF SettledAs
  <2>2. carts' = [carts EXCEPT ![Demo] = Nil]
    BY <1>2, <2>1 DEF Effect
  <2> QED BY <1>4, <2>2 DEF Formed, Wares
<1>6. AtDemo(r) /\ request.do = "read" => carts'[Demo] = carts[Demo]
  BY <1>2 DEF Effect
<1>7. AtDemo(r) /\ request.do = "add" => LineOf(q, session, carts'[Demo])
  <2> SUFFICES ASSUME AtDemo(r), request.do = "add" PROVE LineOf(q, session, carts'[Demo])
    OBVIOUS
  <2>1. /\ request.cart = Demo /\ session.intent # Nil
        /\ Written(r) \subseteq DOMAIN session.intent.items /\ request.merchant = FreshCart
    BY DEF SettledAs, AtDemo
  <2>2. PICK m \in Written(r) :
          /\ request.variant = r.selections[m].variant
          /\ request.quantity = session.intent.items[m].quantity
          /\ Contents(carts[Demo])
               = Filled(r.selections, session.intent.items, Written(r) \ {m})
    BY <1>1 DEF SettledAs, LineOf
  <2>3. Written(q) = Written(r)
    BY <1>3 DEF Written
  <2>4. answer \notin {Nil, Error} =>
          /\ answer = Demo
          /\ carts'[Demo] = Filled(r.selections, session.intent.items, Written(r))
    <3> SUFFICES ASSUME answer \notin {Nil, Error}
                 PROVE  /\ answer = Demo
                        /\ carts'[Demo] = Filled(r.selections, session.intent.items, Written(r))
      OBVIOUS
    <3>1. CartOf(request) = Demo
      BY <1>4, <2>1 DEF CartOf
    <3>2. answer \in Answers(request) /\ carts' = Effect(request)
      BY <1>2
    <3>3. answer = Demo /\ CanAdd(request)
      BY <3>1, <3>2 DEF Answers
    <3>4. carts' = Added(request)
      BY <3>2, <3>3 DEF Effect
    <3> DEFINE b == Contents(carts[Demo])
    <3>5. InCart(Demo) = b
      BY DEF InCart, Contents
    <3> HIDE DEF b
    <3>6. carts'[Demo] = PlusLine(b, request.variant, request.quantity)
      BY <1>4, <3>1, <3>4, <3>5 DEF Added, PlusLine, Formed, Wares
    <3>7. b = Filled(r.selections, session.intent.items, Written(r) \ {m})
      BY <2>2 DEF b
    <3>8. IsFiniteSet(Written(r)) /\ \A i \in Written(r) : session.intent.items[i].quantity \in Nat
      BY <2>1, WrittenIsFinite
    <3>9. PlusLine(b, r.selections[m].variant, session.intent.items[m].quantity)
          = Filled(r.selections, session.intent.items, Written(r))
      BY <3>7, <3>8, FilledGrows
    <3> QED BY <2>2, <3>3, <3>6, <3>9
  <2>5. answer # Nil
    <3>1. CartOf(request) = Demo
      BY <1>4, <2>1 DEF CartOf
    <3> QED BY <1>2, <1>4, <3>1, CheckoutAssumption DEF Answers
  <2> QED BY <1>3, <2>2, <2>3, <2>4, <2>5 DEF LineOf
<1>8. AtDemo(q) <=> AtDemo(r)
  BY <1>3 DEF AtDemo
<1>9. Written(q) = Written(r)
  BY <1>3 DEF Written
<1> HIDE DEF q
<1>10. SettledAs(q, session', carts'[Demo])
  BY <1>1, <1>3, <1>5, <1>6, <1>7, <1>8, <1>9 DEF SettledAs
<1> QED BY <1>10 DEF q

\* The next line is asked for, or the cart is asked back.
LEMMA WritesSettle ==
  ASSUME Formed, NEW c \in Calls, SelectWrites(c) \/ SelectAsksBack(c), Active(c)',
         SettledAs(call[c], session, carts[Demo])
  PROVE  SettledAs(call'[c], session', carts'[Demo])
<1> DEFINE r == call[c]
           q == call'[c]
           items == session.intent.items
<1>0. UNCHANGED <<session, carts>>
  BY DEF SelectWrites, SelectAsksBack
<1>1. CASE SelectWrites(c)
  <2>1. call' # [call EXCEPT ![c] = Idle] /\ AskShape(r)
    BY <1>1 DEF Active, Formed, Shapes, SelectWrites, Answered, Shape
  <2>2. PICK selections, left :
          /\ \/ /\ Answered(c, "select", "clear")
                /\ selections = Selections(c) /\ left = DOMAIN selections
             \/ /\ Answered(c, "select", "add")
                /\ selections = r.selections /\ left = r.left
          /\ left \subseteq DOMAIN selections
          /\ session.intent # Nil /\ Min(left) \in DOMAIN items
          /\ Writes(c, selections, left)
    BY <1>1, <2>1, SelectWritesIs
  <2> DEFINE m == Min(left)
  <2>3. /\ m \in left /\ m \in DOMAIN items /\ q.item = r.item /\ q.offer = r.offer
        /\ q.selections = selections /\ q.left = left \ {m} /\ q.answer = Nil
        /\ q.request = Add(Demo, FreshCart, selections[m].variant, items[m].quantity)
    BY <2>2 DEF Writes, Demo
  <2>4. /\ q.request.do = "add" /\ q.request.merchant = FreshCart /\ q.request.cart = Demo
        /\ q.request.variant = selections[m].variant /\ q.request.quantity = items[m].quantity
    BY <2>3 DEF Add
  <2> HIDE DEF m, q
  <2>5. Written(q) = (DOMAIN selections \ left) \cup {m} /\ Written(q) \ {m} = DOMAIN selections \ left
    BY <2>2, <2>3 DEF Written
  <2>6. /\ selections = Put(session.selected, r.item, r.offer)
        /\ DOMAIN selections \ left \subseteq DOMAIN items
        /\ Contents(carts[Demo]) = Filled(selections, items, DOMAIN selections \ left)
    <3>1. CASE Answered(c, "select", "clear") /\ selections = Selections(c) /\ left = DOMAIN selections
      <4>1. carts[Demo] = Nil
        BY <3>1 DEF Answered, SettledAs
      <4>2. DOMAIN selections \ left = {}
        BY <3>1
      <4> QED BY <3>1, <4>1, <4>2, FilledNothing DEF Selections, Contents
    <3>2. CASE Answered(c, "select", "add") /\ selections = r.selections /\ left = r.left
      <4>1. /\ r.request.do = "add" /\ r.answer \notin {Nil, Error} /\ left # {}
        BY <2>3, <3>2 DEF Answered
      <4>2. AtDemo(r)
        BY <3>2, <4>1 DEF SettledAs, AtDemo
      <4>3. /\ selections = Put(session.selected, r.item, r.offer)
            /\ DOMAIN selections \ left \subseteq DOMAIN items
            /\ carts[Demo] = Filled(selections, items, DOMAIN selections \ left)
        BY <3>2, <4>1, <4>2 DEF SettledAs, LineOf, Written
      <4>4. carts[Demo] # Nil
        <5> DEFINE W == DOMAIN selections \ left
        <5>1. IsFiniteSet(W) /\ \A i \in W : items[i].quantity \in Nat
          BY <2>2, <4>3, WrittenIsFinite
        <5>2. \A i \in W : selections[i].variant \in Variant
          BY <2>1, <3>2 DEF AskShape, Offer
        <5> HIDE DEF W, items
        <5>3. Filled(selections, items, W) # Nil
          BY <5>1, <5>2, FilledIsNoNil
        <5> QED BY <4>3, <5>3 DEF W
      <4> QED BY <4>3, <4>4 DEF Contents
    <3> QED BY <2>2, <3>1, <3>2
  <2>7. LineOf(q, session, carts[Demo])
    <3>1. m \in Written(q)
      BY <2>5
    <3> QED BY <2>3, <2>4, <2>5, <2>6, <3>1 DEF LineOf
  <2>8. SettledAs(q, session, carts[Demo])
    BY <2>2, <2>3, <2>4, <2>5, <2>6, <2>7 DEF SettledAs
  <2> QED BY <1>0, <2>8 DEF q
<1>2. CASE SelectAsksBack(c)
  <2>1. /\ r.request.do = "add" /\ r.answer \notin {Nil, Error} /\ r.left = {}
    BY <1>2 DEF SelectAsksBack, Answered
  <2>2. /\ q.item = r.item /\ q.offer = r.offer
        /\ q.selections = r.selections /\ q.left = {} /\ q.answer = Nil
        /\ q.request = Read(r.answer, r.request.merchant)
    BY <1>2, AsksBackIs
  <2>3. q.request.do = "read" /\ q.request.cart = r.answer /\ q.request.merchant = r.request.merchant
    BY <2>2 DEF Read
  <2> HIDE DEF q
  <2>4. Written(q) = DOMAIN r.selections /\ Written(r) = DOMAIN r.selections
    BY <2>1, <2>2 DEF Written
  <2>5. AtDemo(q) => AtDemo(r)
    BY <2>1, <2>3 DEF AtDemo
  <2>6. AtDemo(r) => /\ r.answer = Demo
                     /\ carts[Demo] = Filled(r.selections, items, DOMAIN r.selections)
    BY <2>1, <2>4 DEF SettledAs, LineOf
  <2>7. SettledAs(q, session, carts[Demo])
    BY <2>2, <2>3, <2>4, <2>5, <2>6 DEF SettledAs
  <2> QED BY <1>0, <2>7 DEF q
<1> QED BY <1>1, <1>2

LEMMA SettlingIsKept ==
  ASSUME Formed, Settling, [Next]_vars
  PROVE  Settling'
<1> SUFFICES ASSUME NEW c \in Calls, Active(c)', call'[c].kind = "select", call'[c].quiet
             PROVE  SettledAs(call'[c], session', carts'[Demo])
  BY DEF Settling
<1>0. call = [d \in Calls |-> call[d]]
  BY DEF Formed, Shapes
<1>1. CASE call'[c] = call[c] /\ UNCHANGED <<session, carts, price>>
  BY <1>1 DEF Settling, Active
<1>2. CASE Serve(c)
  <2>1. PICK answer : Gets(c, answer)
    BY <1>2 DEF Serve
  <2>2. AskShape(call[c]) /\ Active(c)
    BY <1>2 DEF Serve, Formed, Shapes, Shape, Active
  <2>3. call'[c] = [call[c] EXCEPT !.answer = answer]
    BY <1>0, <2>1 DEF Gets, Noticed
  <2>4. call'[c].kind = call[c].kind /\ call'[c].quiet = call[c].quiet
    <3> DEFINE q == [call[c] EXCEPT !.answer = answer]
    <3>1. q.kind = call[c].kind /\ q.quiet = call[c].quiet
      BY <2>2, WithAnswer
    <3> HIDE DEF q
    <3> QED BY <2>3, <3>1 DEF q
  <2>5. SettledAs(call[c], session, carts[Demo])
    BY <2>2, <2>4 DEF Settling
  <2> QED BY <1>2, <2>4, <2>5, ServeSettles
<1>3. CASE SelectWrites(c) \/ SelectAsksBack(c)
  <2>1. Active(c) /\ call[c].kind = "select"
    BY <1>3 DEF SelectWrites, SelectAsksBack, Answered
  <2>2. call' # [call EXCEPT ![c] = Idle]
    BY <1>0 DEF Active
  <2>3. call'[c].quiet = call[c].quiet
    BY <1>3, <2>2, SelectWritesIs, AsksBackIs DEF Writes
  <2>4. SettledAs(call[c], session, carts[Demo])
    BY <2>1, <2>3 DEF Settling
  <2> QED BY <1>3, <2>4, WritesSettle
<1>4. CASE Pay(c)
  BY <1>0, <1>4 DEF Pay, Ask
<1>5. CASE \E request \in Requests : Continue(c, request)
  BY <1>5 DEF Continue, Noticed, Everyone, Ask, Active
<1>6. CASE \E item \in DOMAIN session.intent.items : Search(c, item)
  BY <1>0, <1>6 DEF Search, Ask
<1>7. ASSUME NEW item \in DOMAIN session.offers, NEW offer \in session.offers[item],
             Select(c, item, offer)
      PROVE  SettledAs(call'[c], session', carts'[Demo])
  <2> DEFINE merchant == MerchantOf[offer.variant]
             request == SelectFirst(merchant, offer, session.intent.items[item].quantity)
             q == Ask("select", item, offer, request)
  <2>1. call'[c] = q
    BY <1>0, <1>7 DEF Select
  <2>2. q.request = request /\ q.answer = Nil /\ q.left = {}
    BY DEF Ask
  <2>3. \/ request.do = "clear" /\ request.cart = Demo
        \/ request.do = "add" /\ request.merchant = merchant /\ merchant # FreshCart
    BY DEF SelectFirst, Clear, Add, Demo
  <2> HIDE DEF q, request, merchant
  <2>4. SettledAs(q, session', carts'[Demo])
    BY <2>2, <2>3 DEF SettledAs, AtDemo
  <2> QED BY <2>1, <2>4
<1> QED BY <1>1, <1>2, <1>3, <1>4, <1>5, <1>6, <1>7, Undisturbed

\* A selection at the demo store that nothing disturbed ends with exactly the selected
\* lines in the cart and in the session, whatever earlier calls left there (app.py
\* select_offer): the lines are written one by one into a cleared cart (Settling).
THEOREM CheckoutSelectSettles == Spec => SelectSettles
<1>1. Init => Formed /\ Current /\ Settling
  BY InitForms DEF Init, Current, Settling, Active
<1>2. Formed /\ Current /\ Settling /\ [Next]_vars => (Formed /\ Current /\ Settling)'
  BY NextForms, CurrentIsKept, SettlingIsKept
<1>3. Formed /\ Current /\ Settling /\ [Next]_vars =>
        [\A c \in Calls :
           SelectReads(c) /\ call[c].quiet /\ call[c].request.merchant = FreshCart =>
             LET selected == session'.selected
                 wanted == [v \in {selected[i].variant : i \in DOMAIN selected} |->
                              FoldSet(LAMBDA i, sum : sum + session'.intent.items[i].quantity, 0,
                                      {i \in DOMAIN selected : selected[i].variant = v})]
             IN  /\ carts[<<FreshCart, 0>>] = wanted
                 /\ session'.observed = Observe(<<FreshCart, 0>>)]_vars
  <2> SUFFICES ASSUME Formed, Current, Settling, NEW c \in Calls, SelectReads(c), call[c].quiet,
                      call[c].request.merchant = FreshCart
               PROVE  LET selected == session'.selected
                          wanted == [v \in {selected[i].variant : i \in DOMAIN selected} |->
                                       FoldSet(LAMBDA i, sum : sum + session'.intent.items[i].quantity,
                                               0, {i \in DOMAIN selected : selected[i].variant = v})]
                      IN  /\ carts[<<FreshCart, 0>>] = wanted
                          /\ session'.observed = Observe(<<FreshCart, 0>>)
    OBVIOUS
  <2>1. /\ Active(c) /\ call[c].kind = "select" /\ call[c].request.do = "read"
        /\ call[c].answer \notin {Nil, Error} /\ AtDemo(call[c])
    BY DEF SelectReads, Answered, AtDemo
  <2>2. SettledAs(call[c], session, carts[Demo])
    BY <2>1 DEF Settling
  <2>3. /\ call[c].request.cart = Demo
        /\ call[c].selections = Put(session.selected, call[c].item, call[c].offer)
        /\ carts[Demo] = Filled(call[c].selections, session.intent.items,
                                DOMAIN call[c].selections)
    BY <2>1, <2>2 DEF SettledAs
  <2>4. session = [f \in SessionFields |-> session[f]]
    BY DEF Formed, SessionShape
  <2> DEFINE more == Put(session.selected, call[c].item, call[c].offer)
             items == session.intent.items
  <2>5. session' = [session EXCEPT !.selected = more, !.observed = call[c].answer,
                      !.confirmed = FALSE]
    BY DEF SelectReads
  <2> HIDE DEF more
  <2>6. /\ session'.selected = more /\ session'.observed = call[c].answer
        /\ session'.intent = session.intent
    BY <2>4, <2>5 DEF SessionFields
  <2>7. session'.observed = Observe(Demo)
    BY <2>1, <2>3, <2>6 DEF Current
  <2>8. carts[Demo] = Filled(session'.selected, session'.intent.items, DOMAIN session'.selected)
    BY <2>3, <2>6 DEF more
  <2>9. \A v : QuantityOf(session'.intent.items, OfVariant(session'.selected, DOMAIN session'.selected, v))
               = FoldSet(LAMBDA i, sum : sum + session'.intent.items[i].quantity, 0,
                         {i \in DOMAIN session'.selected : session'.selected[i].variant = v})
    <3> TAKE v
    <3> DEFINE S == {i \in DOMAIN session'.selected : session'.selected[i].variant = v}
    <3>1. FoldSet(LAMBDA i, sum : sum + session'.intent.items[i].quantity, 0, S)
          = SumOver([i \in S |-> session'.intent.items[i].quantity], S)
      BY FoldIsSum
    <3> QED BY <3>1 DEF QuantityOf, OfVariant
  <2>10. carts[Demo] = [v \in {session'.selected[i].variant : i \in DOMAIN session'.selected} |->
                          FoldSet(LAMBDA i, sum : sum + session'.intent.items[i].quantity, 0,
                                  {i \in DOMAIN session'.selected : session'.selected[i].variant = v})]
    BY <2>8, <2>9 DEF Filled
  <2>11. carts[<<FreshCart, 0>>] = carts[Demo] /\ Observe(<<FreshCart, 0>>) = Observe(Demo)
    BY DEF Demo
  <2> QED BY <2>7, <2>10, <2>11
<1> QED BY <1>1, <1>2, <1>3, PTL DEF Spec, SelectSettles
====
