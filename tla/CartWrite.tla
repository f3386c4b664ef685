----------------------------- MODULE CartWrite -----------------------------
(***************************************************************************)
(* Proposals and the cart they are written into: cart_proposals.py,        *)
(* lifecycle.py, swiggy_cart.py and app.py's cart-actions endpoints.  An   *)
(* endpoint runs on one event loop and loses control at every request to   *)
(* the merchant.  The merchant has one cart per account; what it shows may *)
(* lag behind what was written.                                            *)
(***************************************************************************)
EXTENDS ConnectorAccounts, Sequences, FiniteSets, SequencesExt, Functions

CONSTANTS
  Ids,            \* proposal ids (uuid4)
  Instamart,      \* the connector whose writes are wired up
  CartConnectors, \* connectors with an update_cart tool: Instamart and others
  Spins,          \* product ids
  MostOfOne,      \* most of one product
  Writers,        \* calls at a time
  Attempts,       \* read-backs of one write
  MaxUpsets,      \* bound on failures, restarts and changes by the owner
  MaxEvents,      \* bound on events of the accounts
  Stale, Error    \* a cart without a serviceable anchor; any other failure

Item == [spin : Spins, quantity : 1 .. MostOfOne]

\* What a row of cart_proposals can hold; APPROVED is declared and never assigned.
Row == [connector : CartConnectors, item : Item,
        status : {"PROPOSED", "EXECUTING", "SUCCEEDED", "FAILED"}]

ASSUME CartAssumption ==
  /\ IsFiniteSet(Spins) /\ MostOfOne \in Nat /\ Instamart \in CartConnectors
  /\ Nil \notin Row /\ Nil \notin {Stale, Error, "replied"}

VARIABLES
  proposal,       \* CartProposalRecord per id, Nil when there is none
  writer,         \* per call: Idle, or its write
  cart,           \* at the merchant: quantities per product
  shown,          \* the cart as get_cart shows it
  upsets, events, \* so far
  sent            \* history: every update_cart that was sent

cartVars == <<proposal, writer, cart, shown, upsets, events, sent>>
vars == <<accountVars, cartVars>>

Idle == [asked |-> "nothing"]
Busy(w) == writer[w] # Idle

Upset == upsets < MaxUpsets /\ upsets' = upsets + 1

Proposal(connector, item, status) == [connector |-> connector, item |-> item, status |-> status]

\* R1 waits for the buyer; whatever is not PROPOSED stays as it is.
NextStatus(status, approved) ==
  IF status = "PROPOSED" /\ approved THEN "EXECUTING" ELSE status

SetStatus(ids, status) ==
  [id \in Ids |-> IF id \in ids THEN [proposal[id] EXCEPT !.status = status] ELSE proposal[id]]

\* propose_cart_action.
Propose(id, connector, item) ==
  /\ proposal[id] = Nil /\ connector \in CartConnectors
  /\ proposal' = [proposal EXCEPT ![id] = Proposal(connector, item, "PROPOSED")]
  /\ UNCHANGED <<accountVars, writer, cart, shown, upsets, events, sent>>

\* The first read of add_items_to_instamart_cart.
Begin(w, ids, items, token) ==
  writer' = [writer EXCEPT ![w] =
    [asked |-> "cart", answer |-> Nil, ids |-> ids, items |-> items, token |-> token,
     existing |-> << >>, left |-> Attempts, read |-> << >>, before |-> {}, quiet |-> TRUE]]

\* The status is written when the merchant has answered.
StatusLater(ids, status) == proposal

\* save_proposal, before anything is awaited.
Saved(ids, status) == SetStatus(ids, status)

\* approve_cart_action, approve_cart_action_batch (a list, in which an id may be
\* repeated): every proposal must still be PROPOSED.  Without a token it fails; when the
\* token cannot be asked for it stays EXECUTING.
Approve(w, list) ==
  LET ids == Range(list)
      connectors == {proposal[id].connector : id \in ids}
  IN  /\ ~Busy(w)
      /\ \A id \in ids : proposal[id] # Nil
      /\ \A id \in ids : proposal[id].status = "PROPOSED"
      /\ Len(list) = 1 \/ connectors = {Instamart}
      /\ \E connector \in connectors :
           \/ /\ AskingRaises(connector)
              /\ proposal' = Saved(ids, NextStatus("PROPOSED", TRUE)) /\ UNCHANGED writer
           \/ /\ ~AskingRaises(connector) /\ BearerToken(connector) = Nil
              /\ proposal' = SetStatus(ids, "FAILED") /\ UNCHANGED writer
           \/ /\ BearerToken(connector) # Nil
              /\ proposal' = Saved(ids, NextStatus("PROPOSED", TRUE))
              /\ Begin(w, ids, [i \in DOMAIN list |-> proposal[list[i]].item],
                       BearerToken(connector))
      /\ UNCHANGED <<accountVars, cart, shown, upsets, events, sent>>

\* write_cart: proposals made, approved and written in one call.
WriteCart(w, list, items) ==
  LET made(status) == [id \in Ids |->
        IF \E i \in DOMAIN list : list[i] = id
        THEN Proposal(Instamart, items[CHOOSE i \in DOMAIN list : list[i] = id], status)
        ELSE proposal[id]]
  IN  /\ ~Busy(w)
      /\ \A i \in DOMAIN list : proposal[list[i]] = Nil
      /\ \/ /\ AskingRaises(Instamart)
            /\ proposal' = made(NextStatus("PROPOSED", TRUE)) /\ UNCHANGED writer
         \/ /\ ~AskingRaises(Instamart) /\ BearerToken(Instamart) = Nil
            /\ proposal' = made("FAILED") /\ UNCHANGED writer
         \/ /\ BearerToken(Instamart) # Nil
            /\ proposal' = made(NextStatus("PROPOSED", TRUE))
            /\ Begin(w, Range(list), items, BearerToken(Instamart))
      /\ UNCHANGED <<accountVars, cart, shown, upsets, events, sent>>

\* --- the merchant -------------------------------------------------------------
Lines(items) == [spin \in {items[i].spin : i \in DOMAIN items} |->
                   items[CHOOSE i \in DOMAIN items :
                           /\ items[i].spin = spin
                           /\ \A j \in DOMAIN items : items[j].spin = spin => j <= i].quantity]

Merged(w) == writer[w].existing \o writer[w].items

\* A change of the cart is not quiet for the other calls; what the cart is and what is
\* shown of it when the first read is answered is kept (history).
Answer(w, answer) ==
  writer' = [v \in Writers |->
    IF v = w THEN [writer[w] EXCEPT !.answer = answer, !.before =
                     IF writer[w].asked = "cart" THEN {cart, shown} ELSE @]
    ELSE IF Busy(v) /\ cart' # cart THEN [writer[v] EXCEPT !.quiet = FALSE]
    ELSE writer[v]]

\* get_cart shows a cart, nothing that can be read as one, or fails.
MerchantReads(w) ==
  /\ Busy(w) /\ writer[w].asked \in {"cart", "back"} /\ writer[w].answer = Nil
  /\ UNCHANGED cart
  /\ \/ Answer(w, shown) /\ UNCHANGED upsets
     \/ \E failure \in {<< >>, Stale, Error} : Answer(w, failure) /\ Upset
  /\ UNCHANGED <<accountVars, proposal, shown, events, sent>>

\* update_cart replaces the cart, drops it because of an item it rejects, or fails;
\* the answer to a write that landed may be lost.
MerchantWrites(w) ==
  /\ Busy(w) /\ writer[w].asked = "update" /\ writer[w].answer = Nil
  /\ \/ cart' = Lines(Merged(w)) /\ Answer(w, "replied") /\ UNCHANGED upsets
     \/ /\ cart' \in {Lines(Merged(w)), cart} /\ Answer(w, Error) /\ Upset
     \/ cart' = << >> /\ Answer(w, "replied") /\ Upset
  /\ UNCHANGED <<accountVars, proposal, shown, events, sent>>

Settle ==
  /\ shown # cart /\ shown' = cart
  /\ UNCHANGED <<accountVars, proposal, writer, cart, upsets, events, sent>>

\* The owner changes the cart on the merchant's own site.
OwnerEdits ==
  /\ Upset
  /\ \/ cart' = << >>
     \/ \E spin \in Spins :
          cart' = [each \in DOMAIN cart \cup {spin} |-> IF each = spin THEN 1 ELSE cart[each]]
  /\ writer' = [w \in Writers |-> IF Busy(w) THEN [writer[w] EXCEPT !.quiet = FALSE] ELSE Idle]
  /\ UNCHANGED <<accountVars, proposal, shown, events, sent>>

\* --- add_items_to_instamart_cart ------------------------------------------------
\* Lines of the cart that was read, but for the products that are written.
Kept(shownCart, items) ==
  LET spins == DOMAIN shownCart \ {items[i].spin : i \in DOMAIN items}
  IN  SetToSeq({[spin |-> spin, quantity |-> shownCart[spin]] : spin \in spins})

Fail(w) ==
  /\ proposal' = SetStatus(writer[w].ids, "FAILED")
  /\ writer' = [writer EXCEPT ![w] = Idle]

\* A cart that cannot be read fails the write, except one whose address or store is no
\* longer served: that one counts as empty.
Merge(w) ==
  /\ Busy(w) /\ writer[w].asked = "cart" /\ writer[w].answer # Nil
  /\ IF writer[w].answer = Error
     THEN Fail(w) /\ UNCHANGED sent
     ELSE LET read == IF writer[w].answer = Stale THEN << >> ELSE writer[w].answer
              existing == Kept(read, writer[w].items)
          IN  /\ writer' = [writer EXCEPT ![w].asked = "update", ![w].answer = Nil,
                                          ![w].existing = existing, ![w].read = read]
              /\ sent' = Append(sent, [ids |-> writer[w].ids, read |-> read,
                                       lines |-> existing \o writer[w].items])
              /\ UNCHANGED proposal
  /\ UNCHANGED <<accountVars, cart, shown, upsets, events>>

WriteAnswered(w) ==
  /\ Busy(w) /\ writer[w].asked = "update" /\ writer[w].answer # Nil
  /\ IF writer[w].answer = Error THEN Fail(w)
     ELSE /\ writer' = [writer EXCEPT ![w].asked = "back", ![w].answer = Nil]
          /\ UNCHANGED proposal
  /\ UNCHANGED <<accountVars, cart, shown, upsets, events, sent>>

\* A reply without an error is taken for success.
ReplyTrusted(w, back) == {}

Missing(w, back) ==
  {i \in DOMAIN writer[w].items :
     LET item == writer[w].items[i]
     IN  ~(item.spin \in DOMAIN back /\ back[item.spin] = item.quantity)}

Lost(w, back) == {i \in DOMAIN writer[w].existing : writer[w].existing[i].spin \notin DOMAIN back}

\* Read back until it is all there, at most Attempts times.
Verify(w) ==
  LET failed == writer[w].answer \in {Error, Stale}
      back == IF failed THEN << >> ELSE writer[w].answer
  IN  /\ Busy(w) /\ writer[w].asked = "back" /\ writer[w].answer # Nil
      /\ IF ~failed /\ Missing(w, back) = {} /\ Lost(w, back) = {}
         THEN /\ proposal' = SetStatus(writer[w].ids, "SUCCEEDED")
              /\ writer' = [writer EXCEPT ![w] = Idle]
         ELSE IF writer[w].left > 1
         THEN /\ writer' = [writer EXCEPT ![w].left = @ - 1, ![w].answer = Nil]
              /\ UNCHANGED proposal
         ELSE Fail(w)
      /\ UNCHANGED <<accountVars, cart, shown, upsets, events, sent>>

\* The calls are gone; a proposal that was EXECUTING stays so.
Restart ==
  /\ Upset /\ RestartAccounts
  /\ writer' = [w \in Writers |-> Idle]
  /\ UNCHANGED <<proposal, cart, shown, events, sent>>

Init ==
  /\ AccountsInit
  /\ proposal = [id \in Ids |-> Nil]
  /\ writer = [w \in Writers |-> Idle]
  /\ cart \in {<< >>} \cup [Spins -> {1}]
  /\ shown = cart /\ upsets = 0 /\ events = 0 /\ sent = << >>

\* As long as there are ids, and with repetitions.
Lists == UNION {[1 .. n -> Ids] : n \in 1 .. Cardinality(Ids)}

Next ==
  \/ /\ \/ AccountsEvent /\ events < MaxEvents /\ events' = events + 1
        \/ AttemptsGoOn /\ UNCHANGED events
     /\ UNCHANGED <<proposal, writer, cart, shown, upsets, sent>>
  \/ \E id \in Ids, connector \in CartConnectors, item \in Item : Propose(id, connector, item)
  \/ \E w \in Writers :
       \/ \E list \in Lists :
            \/ Approve(w, list)
            \/ /\ IsInjective(list)
               /\ \E items \in [DOMAIN list -> Item] : WriteCart(w, list, items)
       \/ MerchantReads(w) \/ MerchantWrites(w)
       \/ Merge(w) \/ WriteAnswered(w) \/ Verify(w)
  \/ Settle \/ OwnerEdits \/ Restart

Spec == Init /\ [][Next]_vars

-----------------------------------------------------------------------------
\* However often a proposal is approved, in whatever batches, one call at most sends
\* its write, restarts included; and every line that is sent was in the cart as it was
\* read, or is exactly what was approved ("what executes is provably the same offer the
\* user saw", app.py propose_cart_action).
SentOnceAsApproved ==
  /\ \A i, j \in DOMAIN sent : sent[i].ids \cap sent[j].ids # {} => i = j
  /\ \A i \in DOMAIN sent :
       LET lines == sent[i].lines
           read == sent[i].read
           items == {proposal[id].item : id \in sent[i].ids}
       IN  /\ items \subseteq Range(lines)
           /\ \A n \in DOMAIN lines :
                \/ lines[n] \in items
                \/ /\ lines[n].spin \in DOMAIN read /\ lines[n].quantity = read[lines[n].spin]
                   /\ lines[n].spin \notin {item.spin : item \in items}

Succeeds(w) == Busy(w) /\ \E id \in writer[w].ids : /\ proposal[id].status # "SUCCEEDED"
                                                  /\ proposal'[id].status = "SUCCEEDED"

\* A write nobody else crossed is reported as done only when the merchant's cart holds
\* every approved product in its quantity and everything the first read showed, whatever
\* the merchant replied and however late it shows what was written; unless the approved
\* lines were there before the write already, or were still shown then, which a lagging
\* read cannot tell apart ("update_cart returning without an error is not proof anything
\* actually landed", swiggy_cart.py).
SucceededIsReal ==
  [][\A w \in Writers :
       Succeeds(w) /\ writer[w].quiet =>
         LET there(lines) == \A i \in DOMAIN writer[w].items :
                               LET item == writer[w].items[i]
                               IN  item.spin \in DOMAIN lines /\ lines[item.spin] = item.quantity
         IN  \/ \E earlier \in writer[w].before : there(earlier)
             \/ there(cart) /\ DOMAIN writer[w].read \subseteq DOMAIN cart]_vars
=============================================================================
