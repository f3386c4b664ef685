# OrderGuard: a TLA+ verification project

OrderGuard is a shopping assistant that may spend money: it compiles a request,
finds offers, has the buyer confirm a cart, and pays for exactly that cart, once,
through Razorpay. Beside that it writes approved products into a merchant's own cart
(Swiggy Instamart), runs shopping missions with a language model over a buyer's
connected accounts, and judges carts that other assistants built (its MCP server).
This directory models all of these, checks the models with TLC, and proves the
safety properties of the parts that move money, sign receipts and write carts with
TLAPS.

## The system

Paths are below `src/src/orderguard/`. *Status* says what this project does with it;
`PROJECT.json` names what "partly" leaves out.

| Component | Keeps | Operations | Hard because | Status |
|---|---|---|---|---|
| Idempotency ledger (`ledger.py`) | one row per idempotency key | claim, attach, claim creation, finalize, reject, mark unknown, resolve | every caller races every other on one row | modelled, proved |
| Order creation (`app.py:1044-1264`, `executor.py`, `razorpay_client.py`) | nothing of its own; ledger and session | `create_payment_order` | five awaits, lost and late responses, losers of the claim | modelled, proved |
| Capture (`app.py:1267-1513`, `payment.py`, `webhooks.py`) | delivery log; ledger, history, consumption | verify, webhook, finalize | two channels report one payment; redelivery; restart | modelled, proved |
| Capabilities (`capability.py`) | one row per minted capability | issue, consume | threads, expiry | modelled, proved |
| Authorizations (`authorization.py`) | signed receipts, consumptions, the key | issue, verify, expire, consume | one key for many processes; belongs to a session, is for a purchase | modelled, proved |
| Audit chain (`audit.py`) | hash chain | append, verify | processes race for the next seq | modelled, proved |
| Sessions (`app.py:335-955`) | `_SESSIONS`, in memory | create, continue, search, select, confirm, pay | a coroutine loses control at every request to a merchant, and writes back what it read before | modelled |
| Cart comparison (`cart_verifier.py`) | nothing | hash, compare, confirm | many fields; what is compared is what somebody reported | partly |
| Gates (`checkout_guard.py`) | nothing | thirteen before, nine after a payment | evidence may be stale | partly |
| Memory (`memory.py`) | orders, preferences, stores, connectors | remember, suggest, forget | history must be paid for | partly |
| Offer discovery and search (`commerce/search.py`, `adapters/`) | nothing | ask shops at once, score, rank | some shops fail | partly |
| Decision council (`decision_council.py`) | nothing | two roles recommend an offer | the models may invent offers | modelled |
| MCP server (`mcp_server.py`) | intents, in memory | record an intent, check a cart, recommend a connector | the cart comes from a stranger; restart between the calls | modelled |
| Cart proposals, cart writes (`agent/cart_proposals.py`, `agent/lifecycle.py`, `agent/swiggy_cart.py`, `app.py:2473-2763`) | proposals; the merchant's cart | propose, approve (one or a batch), write | read, merge, replace, read back, with an await at each | modelled, proved |
| Connector accounts (`agent/connector_accounts.py`, `agent/swiggy_oauth.py`) | encrypted tokens, pending logins | begin, callback, exchange, credential, disconnect | restart between the two halves; a lost key | modelled |
| Missions (`agent/missions.py`, `agent/orchestrator.py`, `agent/eligibility.py`) | mission records | decompose, run a turn per intent, save, report | turns that overlap on one conversation | modelled, proved |
| Conversation sessions (`agent/conversation_sessions.py`) | a conversation per session and category | load, save | two missions of one thread | modelled, proved |
| Runtimes (`agent/runtime/`), normalizer, registries, intent compiler | nothing, or constants | a turn's outcome; a result's verdict; a draft | what fails and what is still reported | partly |
| Frontend, demo store | the demo store's cart | | | partly |
| Persistence helper, benchmark | | | | not modelled |

**How they interact.** One uvicorn process runs one asyncio loop. An `async`
handler runs without interruption from one `await` to the next; the models'
actions are those stretches. `def` endpoints and the callers of the capability table
and of the audit chain run in threads, where one locked database statement, or one
transaction, is the unit. The databases (ledger, capabilities, consumptions, delivery log,
memory, audit, proposals, accounts, conversations) are separate engines with separate
transactions; nothing is atomic across two of them. `_SESSIONS`, the MCP server's
intents, pending logins and calls in flight do not survive a restart. Razorpay,
the merchants and the login servers are external: Razorpay creates an order for a POST
it receives, looks orders up by receipt, captures and refunds payments and delivers
events, any number of times; a merchant may fail a request before or after its effect,
show a cart late, and change its prices; a login server accepts a code once.

Along the path of a purchase: a session's search asks shops (`Search` inside one step
of `Checkout`), its selection writes a merchant's cart, its confirmation approves the
cart it read back, and the thirteen gates compare that approval with a cart read again;
the claimed ledger row then belongs to `OrderCreation`, and the order to `Capture`; the
authorization that is issued beside the order is announced in the audit chain
(`Receipts`). Missions and cart writes both hang on `ConnectorAccounts`: a token
that was read is used after an await, whatever happened to the account.

What makes each component correct is what its properties below say; what could
go wrong is the list of hazards in `PROJECT.json`.

## Modules

| Module | Models | Correspondence |
|---|---|---|
| `LedgerRows` | one ledger row | one operator from row to row per function of `ledger.py`; `Wins...` are the booleans they return |
| `Ledger` | `ledger.py` by itself | one action per function, any caller, any arguments; history variables count what callers were told |
| `Purchase` | *abstract*: what a purchase promises | absent, open, in doubt, paid; at most one order, at most one payment, paid is final |
| `OrderCreation` | `create_payment_order` and all it calls | `pc[r]` is the await call `r` is suspended at; each action is the code up to the next one |
| `Capture` | `verify_session_payment`, `razorpay_webhook`, `_finalize_capture`, restarts | verify is two actions around its fetch; the webhook awaits nothing after reading its body and is one |
| `Capability` | `capability.py` | `consume` is two actions: the clock read before the lock, and everything under it |
| `AuditChain` | `audit.py` | `append_event` is a read of the tip and an insert that may meet a taken seq, from threads of several processes; an edited row |
| `Receipts` | `authorization.py` over the chain | a process starts by loading or creating the key; issuing is the chain's append, then signing with the tip inside |
| `CartVerifier` | `cart_verifier.py`, `checkout_guard.py` | pure: expectation, hash, comparison, confirmation, gates |
| `Memory` | `memory.py` | pure: what a statement does to a table's rows, and how they are read |
| `Checkout` | one session up to the ledger row | a call's record says which request to a merchant it waits for and what it read before; `Serve` is the merchant's side of it |
| `Search` | one product search, ranking, and the council | a step each for asking, answering, and recommending |
| `McpServer` | the MCP tools | a tool runs without an await and is one step |
| `ConnectorAccounts` | accounts and logins | the steps of a login around its exchange, the other account endpoints, `RestartAccounts`; `IsConnected`, `BearerToken` and `AskingRaises` are what others ask of it |
| `CartWrite` | proposals and the write to the merchant's cart | a call's record says what it asked (`cart`, `update`, `back`); the merchant answers in a step of its own and shows the cart in yet another (`Settle`) |
| `Missions` | missions, turns, conversations | a mission's record holds the turn under way, `turns` what every turn did and the SDK session it did it in; a turn is its init message, its calls and its end, and nothing of another mission comes between those of the API runtime, whose client holds the event loop |
| `MC...` | instances for TLC | |
| `..._proofs` | theorems | see *Proofs* |

How they compose: `OrderCreation` and `Capture` both EXTEND `LedgerRows`, so both run the
very statements `Ledger` is checked and proved for, and both implement `Purchase`.
`Capture` takes from `OrderCreation` only its effect: a claimed row comes by an order of
its own, or by the only order its receipt finds; with `LostResponses` it may do so without
an authorization. `Receipts` EXTENDS `AuditChain`: an announcement is an append that races
all others. `Checkout` and `McpServer` EXTEND `CartVerifier` and decide with its operators,
and take the tables' statements from `Memory`. `CartWrite` and `Missions` EXTEND
`ConnectorAccounts`, whose steps interleave with theirs. `MCVerdicts` runs `McpServer` and
`Search`, one of them per behaviour: they share no state.

Abstractions, all of data: a cart hash is the payload it is computed from
(`CartVerifier`), and further on the key it stands in; amounts are values compared for
equality, or naturals where the code adds them; a signature is a fact about a key, or
about which payment belongs to which order; a receipt (Razorpay's) is the session, which is
what remains of a key cut to 40 characters (`OrderCreation!Receipt`); a title or a query is
a set of words; a message is a sequence of clauses with their words; a conversation is the
turns a runtime gets back of it: those in the saved history (API runtime), or all that
have the SDK session it resumes, whatever became of their missions (subscription runtime);
turns that nothing can resume any more are dropped from the state (`Resumable`). Modules keep mutated forms of some operators next to the originals
(`WinsFinalizeAgain`, `ReplyTrusted`, `StatusLater`, ...): they are plausible mistakes, not
used by any specification, and each shows that a property notices it.

## Runs

| Run | Question | Answer |
|---|---|---|
| `ledger` | Is the ledger safe whoever calls it? | yes: `OneWinner`, `OneLicence`, `RowIsAppendOnly` |
| `one_cart` | Three calls for one cart, late POSTs, stale answers: is there one poster, no stranded claim, one order answered? Is `Purchase` implemented? | yes: `OnePoster`, `NoStrandedClaim`, `SameOrderReturned`, `KeepsPromise` |
| `two_sessions` | On a network that only loses responses: one order per purchase, its own, and is every call answered? | yes: `OrderIsOwn`, `OneOrderPerKey`, `Answered` |
| `capture` | Two verify calls, two payments, redelivery, restarts, a clock past the TTL: is what is captured paid in full, told truthfully, remembered once, and fresh? | yes: `CapturedIsPaid`, `TruthfulReply`, `HistoryOnce`, `FreshCapture`, `KeepsPromise` |
| `two_buyers` | Two purchases, no crash: is history paid for, the right authorization consumed, every claimed delivery acted on, every full payment recorded in the end? | yes: `HistoryIsPaid`, `ConsumedIsOwn`, `DeliveryActedOn`, `PaidIsRecorded` |
| `capability` | Three threads, two capabilities, expiry: spent once, with true reasons? | yes: `SpentOnce`, `ReasonIsTrue` |
| `audit` | Two processes append to one chain and sign on it, stop and start; somebody edits a row. Does the verdict name that row and no other, is nobody refused for nothing, does every receipt verify and name its own event? | yes: `VerdictIsTrue`, `RefusedOnlyByOthers`, `ReceiptVerifies`, `ReceiptIsAudited` |
| `checkout` | Calls of one session interleave at every request to a merchant; prices, carts, preferences and the request change. Is what is claimed what was confirmed, and current? Can the buyer always select again? | yes: `OrderAsApproved`, `ClaimIsCurrent`, `SelectSettles` |
| `cart_write` | Two calls write one merchant's cart, which shows late what was written, fails, is edited by its owner and outlives a restart. Is a proposal sent once and as approved, and is success real? | yes: `SentOnceAsApproved`, `SucceededIsReal` |
| `missions` | Missions of one thread overlap, fail, follow each other; connectors come and go, the process restarts, the runtime changes. Is what the model is told of the turns that were saved true, and does it keep their tools? | yes: `NoteIsTrue`, `OfferedStays` |
| `verdicts` | What do the pure decisions allow, over all small inputs? A stranger's cart, a search with failing shops, a council whose models invent offers | `AllowedStaysWithinRequest`, `RecommendationIsEarned`, `RecommendationIsSafe`, `FailureIsIsolated` hold |
| `false_200` | Can a call answer 200 without an order? | yes, while the row stays UNKNOWN (a violation) |

**Findings.** `findings` in `PROJECT.json` quotes for each the line of the repository
the code disagrees with. Beside `false_200` these configurations reproduce one by a
counterexample of TLC's:

| Configuration | Module | Shows |
|---|---|---|
| `MCLateCreate.cfg` | `MCOrderCreation` | two Razorpay orders for one purchase, if a POST is carried out after its lookup |
| `MCUnauthorized.cfg` | `MCOrderCreation` | an order handed out without an authorization, when a later call finds it |
| `MCWrongAmount.cfg` | `MCCapture` | a row captured over another row's amount, when two carts of a session share a receipt |
| `MCUnpaidHistory.cfg` | `MCCapture` | an unpaid cart in the history, when it is selected after the order was created |
| `MCLostDelivery.cfg` | `MCCapture` | a claimed delivery lost, when the process dies between claim and capture |
| `MCTwoKeys.cfg` | `MCAudit` | a receipt that does not verify, when two processes start at once on an empty key table |
| `MCForgottenCall.cfg` | `MCMissions` | a model told that a connector was not called yet, when the mission that called it in the resumed session failed (`AttemptedAnywhere`) |
| `MCForgottenImage.cfg` | `MCMissions` | a turn offered less than its session has seen, when the mission with the image failed (`ImageStays`) |

The other findings are in the models as the code has them, and the property that
had to be worded around each is named beside it.

**Where the passing properties stop holding.** They are checked where they hold,
and the boundary was tried:

* `HistoryIsPaid`, `ConsumedIsOwn`, `CapturedIsPaid` and `OrderIsOwn` need at most one
  confirmed cart per session (`TwoCartsOneSession` breaks each).
* `FreshCapture` needs every order to have an authorization (`LostResponses = FALSE`).
* `OneOrderPerKey` needs both `LateCreate` and `StaleLookup` FALSE.
* `DeliveryActedOn` and `PaidIsRecorded` need a server that is not killed inside the
  webhook handler (`Restarts = FALSE`).
* `ReceiptVerifies` needs that no two processes find the key table empty at once
  (`ConcurrentBoot = FALSE`). `VerdictIsTrue` is about one edited payload, `prev_hash` or
  `entry_hash`: the hash covers nothing else of a row, and a chain cut at its end verifies.
* `OrderAsApproved` compares with the *request* only when no search or selection was in
  flight while the request was revised (`session.straddled`); what it says of the
  confirmation holds always. `ClaimIsCurrent` and `SelectSettles` are about a call during
  which nothing else changed the cart (`quiet`); `SelectSettles` about FreshCart only, the
  one store whose cart is cleared first.
* `NoteIsTrue` and `OfferedStays` are about the turns a thread remembers (`Remembered`). Of the
  API runtime these are all it resumes. The subscription runtime resumes an SDK session by its
  id without forking it, so that session also holds the turns of missions that failed after
  calling something, were killed, or are still under way; their calls, failed handshakes and
  images are saved by nobody. `AttemptedAnywhere` and `ImageStays` drop the restriction, as
  `conversation_sessions.py:65-72` does, and fail.
* `SucceededIsReal` is about a write nobody else crossed, and cannot tell a write that
  landed from lines that were in the cart, or still shown, when its first read was answered.

**Bounds.** Three calls are enough for a winner, a loser and a latecomer that
meets the released claim; three order ids let all of them post. `MaxPolls` is 1 or 2 for
the code's 14: one poll that waits and one that gives up are the two kinds there
are. Two payments and two verify calls let each channel win over the other and a
wrong amount precede a right one; a TTL of 1 with a clock that ends at 2 has a
before, an edge and an after. Two keys on the ledger are more than any statement
touches. `Capability` has a thread more than capabilities, so two must collide.

`audit`: two threads of one process contend for its lock, two processes for a seq, and
`Retries` of 2 (the code's 5) lets an attempt fail once and a call be refused; one edit, of
any field of any row, while writers hold a tail they read before it. `checkout`: two calls at a
time and four in all allow a selection of each of two items, a further call crossing
them, and a payment; one upset (a failed request, a price, a cart or a clock that
moves) and one revised message; `MaxAge` 0 makes every passing of time too much.
FreshCart has a product in two variants and one that runs out; one other shop is
integrated, one can be added, one name is nowhere. `cart_write`: two proposals, singly, in a batch and
repeated within one; two products, so that something else is in the cart; two read-backs;
one upset and one event of the accounts. `missions`: a third mission follows two that
overlap (two at a time, `AtOnce`); a message has two clauses of one category and a modifying
one between; two tool calls or events in all (`MaxCalls`), so that two missions make one call
each or one makes two; of the two at most one is an event (`MaxEvents`): a change of account or
settings, a restart, or a handshake that fails. A fourth mission that resumes what three before
it saved, an event beside two calls, and more events, are covered by the proofs only. `MCForgottenCall.cfg` and `MCForgottenImage.cfg` need neither an
overlap nor an event. `verdicts`:
carts of up to two lines against requests of up to two items, with every field wrong in
turn.

**Deadlock.** It is not checked where the system comes to rest: the threads of
`MCCapability` make one call each and its clock ends, writers of `audit` append once, and the
bounds on calls and events end `checkout`, `cart_write`, `missions` and `verdicts`.

**Fairness.** `OrderCreation!FairSpec` is weak fairness of a call's own next
step: the loop resumes a handler whose await has ended, and every await ends (the
HTTP client has a timeout, a sleep is finite). It does not oblige Razorpay to
answer: a lookup may fail, a POST may never be carried out. `Capture!FairSpec` is weak
fairness of acting on an event: Razorpay redelivers until it gets a 2xx. It does
not oblige the browser to come back. The other modules state no fairness and only
safety is checked of them: what they wait for is a merchant, a login server or a model.

## Proofs

All by `tlapm`, for every value of the constants; the assumptions are the named
ones of the modules (`NoneIsNoId`, `CreationAssumption`, `CaptureAssumption`,
`CapabilityAssumption`, `AuditAssumption`, `ReceiptsAssumption`, `CartAssumption`,
`MissionsAssumption`, `CheckoutAssumption`, `McpAssumption`, `SearchAssumption`), which say no
more than that sessions, totals, messages, processes and bounds are of their type, that products,
shops and offers are finitely many, that prices and quantities are natural numbers, and that the
null value is none of the values it stands beside. Conditions under which a property holds are hypotheses of its theorem.

* `Tables_proofs`, `Ledger`: `TypeOK`, `OneWinner`, `OneLicence` are inductive together; from
  them `RowIsAppendOnly`. `Capability`: a capability is consumed exactly if one thread won it;
  expiry only moves one way (`SpentOnce`, `ReasonIsTrue`).
* `OrderCreation_proofs`: `OnePoster` and `NoStrandedClaim` are not inductive by
  themselves. The invariant `CreationInv` adds who may post: a call that is posting is
  the only one of its key, and its row carries the claim, has no order and is
  pending; so the claim cannot be won by a second call, and `resolve_unknown`,
  which works on UNKNOWN rows only, cannot release it. It adds that a call past its
  claim has a key, that an order on a row is never replaced, and that what
  a call answered is its row's order. The refinement of `Purchase` follows step by step.
  `OrderIsOwn` needs one cart per session (`OneCart`): then a receipt names one key.
  `OneOrderPerKey` needs that no POST is carried out late and no lookup is acted on late: then
  Razorpay has no order for a key whose claim is still to be had, nor for one whose POST is
  under way (`NothingYet`), so the order a POST makes is the first.
* `Capture_proofs`: a first invariant, `Flow`, needs no condition: a call that is fetching
  keeps a payment signed for the order of its row, and that order is never replaced.
  `TruthfulReply`, `DeliveryActedOn` (without restarts) and the refinement of `Purchase`
  rest on it. What money and history are about needs one cart per session: then an order
  found by its receipt is the order of that very cart (`OwnOrder`), and with it
  `CapturedIsPaid`, `HistoryIsPaid`, `HistoryOnce` and `ConsumedIsOwn` are inductive together
  (`Money`); `FreshCapture` needs that every order has its authorization (`Authorized`).
* `Receipts_proofs`: the verdict is true because of writers in flight: while no row
  was edited, the hash a writer read is still that of the row it read it from (`Linked`), so
  a row inserted at the seq it wanted continues the chain; after an edit every row before
  the edited one is sound and that one never is again (`Intact`). Refusals are fair because every row added while a thread
  holds its process's lock is another process's (`Counted`). A receipt's event stays where
  the call put it (`Placed`), and without overlapping starts there is one key (`OneKey`).
* `CartWrite_proofs`: who may still send. Calls under way have no proposal in common
  (`Apart`), theirs are EXECUTING, and before the first read is answered none of them was sent
  (`Unsent`); a proposal that was sent never waits for approval again (`Spent`), so no second
  write of it begins, in whatever list it appears. That what is sent is the kept lines followed by
  the approved items is a lemma about `Kept` (`LinesSent`). `SucceededIsReal` is about
  what a call can read back: as long as nobody crosses it, the merchant shows it the cart as it
  is now or as it was when the first read was answered (`Watched`), so lines it finds in neither
  of the old readings are its own.
* `Checkout_proofs`: five invariants, each resting on those before. `Formed` is the shape of
  the state. `Current`: what an undisturbed call read of a cart is what the merchant still has
  (`ClaimIsCurrent`). `Own`: unless the request was revised under a call, offers, selections and
  what calls carry are of its items. `Frozen`: while a confirmation stands, the session's hash
  and the lines shown are of one cart that matched; at the claim the cart read again has that
  hash, so it is the cart that was shown (`OrderAsApproved`). `Settling`: an undisturbed selection
  has written to the demo store's cart exactly the selections it has passed (`SelectSettles`).
  That a cart's lines, compared by quantity per variant and total, are the approved ones line by
  line is a lemma about sums of naturals.
* `Missions_proofs`: what a saved turn called, which handshakes of it failed and what it was
  offered is in the evidence of the thread it was a turn of (`Covered`), and that evidence only
  grows (`Grows`), so it stays covered whoever saves to the thread later. What is resumed is the
  thread's own: a saved history has saved turns of that thread only (`ContextIsTrue`), an SDK
  session turns of one thread only (`TurnIsTrue`). While a mission is under way its steps say what
  its turns did (`StepIsTrue`), and the image it began with is still its thread's (`From`), so
  what it saves covers them. A mission that goes on in a thread reads the evidence in the step in
  which it begins, and `NoteIsTrue` and `OfferedStays` follow for the turns that are saved by
  then; nothing of the kind holds for the others, see above.
* `Verdicts_proofs`, `McpServer`: a recorded request is one that has items and a limit, and every
  remembered connector has an allowed cart in the log (`McpInv`); that an allowed cart is within
  the request is a lemma about the gates: quantities are compared per variant, an expectation
  names no variant twice, so each variant's sum is the one stated quantity it was paired with.
  `Search`: what is listed is ranked from the answers all shops had given by then, and what is
  picked or recommended is eligible in that list, the first one on a fallback (`SearchInv`).
  That the ranking loses nothing, adds nothing and puts nothing before what is better
  (`RankLists`) follows from the keys being a strict total order on the offers kept, ties broken
  by where they came in; from it `RecommendationIsSafe` and `FailureIsIsolated`.

The library's induction theorems take an operator as a parameter, which the prover's backends
cannot instantiate. Where a fact about numbers or sums needs induction (`Least` in
`Missions_proofs`, `Checkout_proofs` and `Verdicts_proofs`) it is derived by counting: a set of
naturals without a least member would make the successor an injection of a finite set into itself
that is not onto.

Only model-checked: liveness (`Answered`, `PaidIsRecorded`), which is beyond the prover.

## Left out, and why

* A failing database statement between two others, an exception in the `else:`
  branch after a successful POST, and a cancelled task: each ends a call between
  two statements; `Capture` has the one such stop that matters for money
  (`RestartAfterClaim`), order creation after a restart cannot be continued by anyone
  because its session is gone.
* A `def` endpoint (`confirm_session_cart`) that runs in a thread while an async
  stretch runs: a stretch is taken as atomic.
* In `Capture` the fetched payment is read and acted on in one step; a refund in
  between is Razorpay's to order before or after.
* Calls that end in 404 or 409 before touching anything are calls that never start.
* A `get_cart` reply of a shape the code does not expect (`items` that is no list, an item
  that is no object) raises an error nothing catches, before or after `update_cart`, and leaves
  the proposals EXECUTING; the merchants of `CartWrite` answer with a cart, with nothing, or with
  an error, and a proposal stranded by a restart is in the model.
* The Agent SDK keeps its sessions on disk and holds every turn of one in it, also of turns
  that run at once; a session that was lost is a turn that fails (`TurnFails`). Its init message
  comes before any call. What of a call the SDK itself refused is in no connector's log: a vetoed
  call counts as an error of the turn, not as an attempt.
* The steps of `Search` happen within one step of `Checkout`: shops answer together there.

## Not modelled

* `db.py` and the table types: engine construction. The models take a committed
  statement as atomic, which is what SQLite and Postgres promise it.
* The benchmark and the attack lab: evaluation harnesses, outside the served system.
* The user interface in `frontend/`: it keeps no state the server relies on.
* `websearch.py`: it reads HTML into a list that is shown; no handler's state depends on it.
* The string work of `normalizer.py` and `preferences.py`, prompts, the texts of
  questions and reasons, `money.py`'s formatting, `llm.py`'s HTTP calls.
* Custom connectors, the registry search and the address guard: they check strings and
  feed no handler that is modelled.
* Cryptography: Ed25519, SHA-256, HMAC and Fernet are facts about who made what.

## Plan

1. A composition of `Checkout` with `OrderCreation` and `Capture` over one session with two
   confirmed carts, in place of the assumption of one cart per session.
