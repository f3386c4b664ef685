------------------------------- MODULE Search -------------------------------
(***************************************************************************)
(* One product search: commerce/search.py asks the chosen shops at once,   *)
(* scores and ranks what they offer, and decision_council.py lets two      *)
(* language-model roles recommend one of the offers that meet every hard   *)
(* constraint.                                                             *)
(*                                                                         *)
(* A title, a shop's "sells" list and a query are sets of words.  All the  *)
(* scores of one search share the denominator 10 * |wanted|, so relevance  *)
(* is kept as the numerator.                                               *)
(***************************************************************************)
EXTENDS Naturals, Sequences, FiniteSets, SequencesExt

CONSTANTS
  Shops,        \* the shops there are
  Sells,        \* per shop: the words of Store.sells
  AddedShops,   \* shops with kind "added", by the user
  ListOrder,    \* per shop: its place in stores.ALL
  NameOrder,    \* per shop: its place in alphabetical order
  AskAtMost,    \* for_query's limit
  Queries,      \* the word sets a request may come down to
  Catalogue,    \* per shop: the sequences of offers it may answer with
  Quantity, Budget,
  Unknown,      \* a candidate id no agent was given
  Raised,       \* the answer of a shop that raised
  None          \* no answer, nothing recommended

VARIABLES
  wanted,       \* the words of this search
  results,      \* per shop: the offers it answered with, Raised, or None so far
  offers,       \* what search_stores returned, None before
  pick,         \* the Fit role's answer, None before
  council       \* run_decision_council's result, None before

searchVars == <<wanted, results, offers, pick, council>>

\* What the constants are: finitely many shops, in an order of their own; answers that
\* are lists of offers [variant, words, price, available] and neither a failure nor none.
ASSUME SearchAssumption ==
  /\ IsFiniteSet(Shops) /\ AddedShops \subseteq Shops
  /\ \A words \in Queries : IsFiniteSet(words)
  /\ ListOrder \in [Shops -> Nat] /\ NameOrder \in [Shops -> Nat]
  /\ \A s, t \in Shops : ListOrder[s] = ListOrder[t] => s = t
  /\ \A s \in Shops : \A answer \in Catalogue[s] :
       /\ answer \in Seq(Range(answer)) /\ answer \notin {None, Raised}
       /\ \A i \in DOMAIN answer : answer[i].price \in Nat
  /\ Quantity \in Nat /\ Budget \in Nat /\ None # Raised

\* The handles the two models are given.
Ids == {[store |-> s, variant |-> v] : s \in Shops, v \in {o.variant : o \in
          UNION {UNION {Range(c) : c \in Catalogue[t]} : t \in Shops}}}

Overlap(s, words) == Cardinality(words \cap Sells[s])

\* for_query: the shops with most words in common, in the list's order when equal;
\* everyone when no shop has any of the words, the first few when there are no words.
ForQuery(words) ==
  LET ours == Shops \ AddedShops
      matched == {s \in ours : Overlap(s, words) > 0}
      Before(s, t) == \/ Overlap(s, words) > Overlap(t, words)
                      \/ Overlap(s, words) = Overlap(t, words) /\ ListOrder[s] < ListOrder[t]
      First(shops) == {s \in shops : Cardinality({t \in shops : Before(t, s)}) < AskAtMost}
  IN  IF words = {} THEN First(ours) ELSE IF matched = {} THEN ours ELSE First(matched)

\* The user's own shops are searched alongside.
Asked(words) == ForQuery(words) \cup AddedShops

\* A shop picked on purpose, against one asked on a hunch.
Dedicated(s, words) == Overlap(s, words) > 0 \/ s \in AddedShops

Larger(a, b) == IF a >= b THEN a ELSE b

Relevance(s, offer, words) ==
  LET byTitle == 10 * Cardinality(words \cap offer.words)
  IN  IF words = {} THEN 10
      ELSE IF Dedicated(s, words) THEN Larger(byTitle, 6 * Overlap(s, words))
      ELSE IF words \subseteq offer.words THEN byTitle
      ELSE 0

Scored(s, offer, words) ==
  [id |-> [store |-> s, variant |-> offer.variant],
   relevance |-> Relevance(s, offer, words),
   inStock |-> offer.available,
   priced |-> offer.price > 0,
   withinBudget |-> offer.price * Quantity <= Budget,
   total |-> offer.price * Quantity]

\* The sort key of rank(), smaller first.
Key(scored, words) ==
  <<IF scored.inStock THEN 0 ELSE 1,
    IF scored.withinBudget THEN 0 ELSE 1,
    10 * Cardinality(words) + 10 - scored.relevance,
    scored.total,
    NameOrder[scored.id.store]>>

Less(key, other) ==
  \E i \in DOMAIN key :
    key[i] < other[i] /\ \A j \in 1 .. (i - 1) : key[j] = other[j]

\* What is kept of one shop's answer: nothing of a shop that failed.
Kept(s, answer, words) ==
  IF answer \in {None, Raised} THEN {}
  ELSE {i \in DOMAIN answer : Relevance(s, answer[i], words) > 0}

\* A shop that fails ends the search of all of them.
FoundUnlessOneFails(answers, words) ==
  IF \E s \in Asked(words) : answers[s] = Raised THEN {}
  ELSE UNION {{s} \X Kept(s, answers[s], words) : s \in Asked(words)}

\* What is kept altogether: each offer by its shop and its position in the answer.
Found(answers, words) == UNION {{s} \X Kept(s, answers[s], words) : s \in Asked(words)}

ScoredAt(answers, place, words) == Scored(place[1], answers[place[1]][place[2]], words)

\* The sort is stable: equal keys keep the order they came in, shop by shop.
Precedes(answers, place, other, words) ==
  LET key == Key(ScoredAt(answers, place, words), words)
      otherKey == Key(ScoredAt(answers, other, words), words)
  IN  \/ Less(key, otherKey)
      \/ /\ key = otherKey
         /\ Less(<<ListOrder[place[1]], place[2]>>, <<ListOrder[other[1]], other[2]>>)

Rank(answers, words) ==
  LET found == Found(answers, words)
      Before(place) == {other \in found : Precedes(answers, other, place, words)}
  IN  [n \in 1 .. Cardinality(found) |->
         ScoredAt(answers, CHOOSE place \in found : Cardinality(Before(place)) = n - 1, words)]

-----------------------------------------------------------------------------
SearchInit ==
  /\ wanted \in Queries
  /\ results = [s \in Shops |-> None]
  /\ offers = None /\ pick = None /\ council = None

\* _search_one never raises: a shop answers, or its error is what it answered.
ShopAnswers(s) ==
  /\ s \in Asked(wanted) /\ results[s] = None
  /\ \E answer \in Catalogue[s] : results' = [results EXCEPT ![s] = answer]
  /\ UNCHANGED <<wanted, offers, pick, council>>

ShopFails(s) ==
  /\ s \in Asked(wanted) /\ results[s] = None
  /\ results' = [results EXCEPT ![s] = Raised]
  /\ UNCHANGED <<wanted, offers, pick, council>>

\* search_stores, after the gather.
SearchStores ==
  /\ offers = None
  /\ \A s \in Asked(wanted) : results[s] # None
  /\ offers' = Rank(results, wanted)
  /\ UNCHANGED <<wanted, results, pick, council>>

\* filter_eligible: dropped, not merely sorted last.  The others stay in order.
Eligible(list) ==
  {i \in DOMAIN list : list[i].inStock /\ list[i].priced /\ list[i].withinBudget}

CandidateIds(list) == {list[i].id : i \in Eligible(list)}

First(list) ==
  list[CHOOSE i \in Eligible(list) : \A j \in Eligible(list) : i <= j].id

Result(id, fallback) == [recommended |-> id, fallbackUsed |-> fallback]

\* Nothing to choose between: no model is asked.  (Nothing is recommended over
\* no offers at all, when the council is not run.)
CouncilWithoutChoice ==
  /\ offers # None /\ council = None /\ pick = None
  /\ Cardinality(Eligible(offers)) < 2
  /\ council' = IF Eligible(offers) = {} THEN Result(None, FALSE)
                ELSE Result(First(offers), FALSE)
  /\ UNCHANGED <<wanted, results, offers, pick>>

Fallback(list) == Result(First(list), TRUE)

\* _ask_fit: an id, an invented one, or nothing usable.
AskFit(reply) ==
  /\ offers # None /\ council = None /\ pick = None
  /\ Cardinality(Eligible(offers)) >= 2
  /\ IF reply \in CandidateIds(offers)
     THEN pick' = reply /\ UNCHANGED council
     ELSE council' = Fallback(offers) /\ UNCHANGED pick
  /\ UNCHANGED <<wanted, results, offers>>

\* The challenger's candidate taken as it comes.
VerdictTrusted(list, fit, verdict, named) ==
  IF verdict # "CHALLENGE" THEN Result(fit, FALSE) ELSE Result(named, FALSE)

\* What the critic's verdict makes of the pick.
Verdict(list, fit, verdict, named) ==
  IF verdict # "CHALLENGE" THEN Result(fit, FALSE)
  ELSE IF named \in CandidateIds(list) THEN Result(named, FALSE)
  ELSE Fallback(list)

\* A verdict of None is a critic that was unavailable or malformed.
AskCritic(verdict, named) ==
  /\ pick # None /\ council = None
  /\ council' = Verdict(offers, pick, verdict, named)
  /\ UNCHANGED <<wanted, results, offers, pick>>

SearchNext ==
  \/ \E s \in Shops : ShopAnswers(s) \/ ShopFails(s)
  \/ SearchStores
  \/ CouncilWithoutChoice
  \/ \E reply \in Ids \cup {Unknown, None} :
       \/ AskFit(reply)
       \/ \E verdict \in {"APPROVE", "CHALLENGE", None} : AskCritic(verdict, reply)

SearchSpec == SearchInit /\ [][SearchNext]_searchVars

-----------------------------------------------------------------------------
Meets(s, offer) == offer.available /\ offer.price > 0 /\ offer.price * Quantity <= Budget

\* Whatever the two models answer, what is recommended is an offer a shop really
\* made in this search, in stock, priced and within the budget; and when they are
\* no use it is the best of those, not the one that happened to rank first
\* (decision_council.py: "every failure mode collapses to the same safe fallback").
RecommendationIsSafe ==
  council # None /\ council.recommended # None =>
    /\ \E s \in Asked(wanted) :
         /\ results[s] # Raised
         /\ \E i \in DOMAIN results[s] :
              /\ [store |-> s, variant |-> results[s][i].variant] = council.recommended
              /\ Meets(s, results[s][i])
    /\ council.fallbackUsed =>
         \E j \in Eligible(offers) :
           /\ offers[j].id = council.recommended
           /\ \A i \in Eligible(offers) :
                ~Less(Key(offers[i], wanted), Key(offers[j], wanted))

\* "A broken store must not take the others down with it": a shop's offers are
\* kept or dropped by what that shop answered alone.
FailureIsIsolated ==
  offers # None =>
    \A s \in Asked(wanted) :
      LET alone == [t \in Shops |-> IF t = s THEN results[s] ELSE Raised]
      IN  {offers[i] : i \in {i \in DOMAIN offers : offers[i].id.store = s}}
            = {ScoredAt(alone, place, wanted) : place \in Found(alone, wanted)}
=============================================================================
