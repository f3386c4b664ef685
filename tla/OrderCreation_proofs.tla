------------------------ MODULE OrderCreation_proofs -------------------------
(***************************************************************************)
(* create_payment_order, for any number of calls, sessions and carts, on   *)
(* any network (LateCreate and StaleLookup unconstrained).                 *)
(*                                                                         *)
(* Every action that touches the ledger replaces one row, and the row it   *)
(* puts there is one the old row may evolve into.  PosterHolds is the      *)
(* strengthening the whole argument turns on: as long as a call is between *)
(* its POST and the end of it, its row is PENDING, claimed and without an  *)
(* order, whatever anybody else does meanwhile.                            *)
(*                                                                         *)
(* Two more need a hypothesis.  With one cart per session (OneCart) an     *)
(* order found by its receipt is that of the very row (OrderIsOwn).  On a  *)
(* network that neither creates late nor answers from an old state, a key  *)
(* has no order at Razorpay yet whenever a POST for it is open to be made, *)
(* so it never gets a second one (OneOrderPerKey).                         *)
(***************************************************************************)
EXTENDS OrderCreation, TLAPS

\* A key without a row has no columns either.
Empty(row) == row.status = "absent" => row = Absent

\* What a row looks like between two steps.
SoundRow(row) ==
  /\ row \in LedgerEntry
  /\ Empty(row)
  /\ row.status = "unknown" => row.claimed /\ row.order = None
  /\ row.status = "captured" => row.order # None

\* What one step of the handler may make of a row, claims aside.
Evolves(row, after) ==
  \/ /\ row.status = "absent" /\ after.status = "pending"
     /\ row.order = None /\ after.order = None
     /\ after.payment = row.payment
  \/ /\ row.status \in {"pending", "unknown"} /\ after.status = "pending"
     /\ row.order = None
     /\ after.payment = row.payment
  \/ /\ after.status = row.status
     /\ after.order = row.order /\ after.payment = row.payment
  \/ /\ row.status = "pending" /\ after.status = "unknown"
     /\ row.order = None /\ after.order = None
     /\ after.payment = row.payment
  \/ /\ row.status = "pending" /\ after.status = "captured"
     /\ row.order # None /\ after.order = row.order
     /\ after.payment \in PaymentIds

SoundRows == \A k \in Keys : SoundRow(ledger[k])

KeyChosen ==
  \A r \in Requests :
    /\ pc[r] \in {"posting", "lookup", "answered", "polling"} => key[r] \in Keys
    /\ pc[r] = "done" => reply[r] \in Reply
    /\ pc[r] = "done" /\ reply[r].order # None => key[r] \in Keys

Held(row) == row.status = "pending" /\ row.claimed /\ row.order = None

PosterHolds ==
  \A r \in Requests : pc[r] = "posting" => Held(ledger[key[r]])

IInv ==
  /\ TypeOK /\ SoundRows /\ KeyChosen
  /\ PosterHolds /\ OnePoster /\ NoStrandedClaim /\ SameOrderReturned

-----------------------------------------------------------------------------
(* Two shapes of step: a call that replaces its key's row, and a call that   *)
(* moves on and leaves the ledger alone.                                     *)

CallStep(r, k, row, next) ==
  /\ ledger' = [ledger EXCEPT ![k] = row]
  /\ pc' = [pc EXCEPT ![r] = next]
  /\ key' = [key EXCEPT ![r] = k]
  /\ \A q \in Requests \ {r} : reply'[q] = reply[q]
  /\ SoundRow(row)
  /\ Evolves(ledger[k], row)
  /\ pc[r] # "posting" /\ Held(ledger[k]) => row = ledger[k] /\ next # "posting"
  /\ pc[r] = "posting" => key[r] = k /\ ~Held(row) /\ next # "posting"
  /\ next = "posting" => Held(row)
  /\ Held(row) => Held(ledger[k]) \/ next = "posting"
  /\ next = "done" => /\ reply'[r] \in Reply
                      /\ reply'[r].order # None => reply'[r].order = row.order

QuietStep(r, next) ==
  /\ UNCHANGED <<ledger, key>>
  /\ pc' = [pc EXCEPT ![r] = next]
  /\ \A q \in Requests \ {r} : reply'[q] = reply[q]
  /\ pc[r] # "posting" /\ next # "posting"
  /\ next \in {"lookup", "answered", "polling"} => key[r] \in Keys
  /\ next = "done" => /\ reply'[r] \in Reply
                      /\ reply'[r].order # None =>
                           /\ key[r] \in Keys
                           /\ reply'[r].order = ledger[key[r]].order

Invs == SoundRows /\ KeyChosen /\ PosterHolds /\ OnePoster /\ NoStrandedClaim /\ SameOrderReturned

\* A row that evolves keeps the order it has.
LEMMA OrderStays ==
  ASSUME NEW row, NEW after, Evolves(row, after), row.order # None
  PROVE  after.order = row.order
BY DEF Evolves

\* The first shape keeps the invariants, the types aside.
LEMMA CallStepKeeps ==
  ASSUME IInv, TypeOK', NEW r \in Requests, NEW k \in Keys, NEW row, NEW next,
         CallStep(r, k, row, next)
  PROVE  Invs'
<1> USE DEF IInv
<1>1. SoundRows'
  BY DEF CallStep, TypeOK, SoundRows
<1>2. \A q \in Requests \ {r} : pc'[q] = pc[q] /\ key'[q] = key[q] /\ reply'[q] = reply[q]
  BY DEF CallStep, TypeOK
<1>3. pc'[r] = next /\ key'[r] = k /\ ledger'[k] = row
  BY DEF CallStep, TypeOK
<1>4. \A j \in Keys : j # k => ledger'[j] = ledger[j]
  BY DEF CallStep, TypeOK
<1>5. KeyChosen'
  BY <1>2, <1>3 DEF CallStep, KeyChosen
<1>6. PosterHolds'
  <2> SUFFICES ASSUME NEW q \in Requests, pc'[q] = "posting"
               PROVE  Held(ledger[key[q]])'
    BY DEF PosterHolds
  <2>1. CASE q = r
    BY <1>3, <2>1 DEF CallStep, Held
  <2>2. CASE q # r
    <3>1. pc[q] = "posting" /\ key'[q] = key[q] /\ key[q] \in Keys /\ Held(ledger[key[q]])
      BY <1>2, <2>2 DEF PosterHolds, KeyChosen
    <3>2. CASE key[q] # k
      BY <1>4, <3>1, <3>2 DEF Held
    <3>3. CASE key[q] = k
      <4>1. pc[r] # "posting"
        BY <2>2, <3>1, <3>3 DEF CallStep, OnePoster, Posting
      <4>2. row = ledger[k]
        BY <3>1, <3>3, <4>1 DEF CallStep
      <4> QED BY <1>3, <3>1, <3>3, <4>2 DEF Held
    <3> QED BY <3>2, <3>3
  <2> QED BY <2>1, <2>2
<1>7. OnePoster'
  <2> SUFFICES ASSUME NEW j \in Keys, NEW p \in Requests, NEW q \in Requests,
                      Posting(p, j)', Posting(q, j)', p # q
               PROVE  FALSE
    BY DEF OnePoster
  <2>1. CASE p # r /\ q # r
    BY <1>2, <2>1 DEF OnePoster, Posting
  <2>2. CASE p = r
    <3>1. j = k /\ next = "posting" /\ Posting(q, k) /\ pc[r] # "posting"
      BY <1>2, <1>3, <2>2 DEF Posting, CallStep
    <3>2. Held(ledger[k])
      BY <3>1 DEF PosterHolds, Posting
    <3> QED BY <3>1, <3>2 DEF CallStep
  <2>3. CASE q = r
    <3>1. j = k /\ next = "posting" /\ Posting(p, k) /\ pc[r] # "posting"
      BY <1>2, <1>3, <2>3 DEF Posting, CallStep
    <3>2. Held(ledger[k])
      BY <3>1 DEF PosterHolds, Posting
    <3> QED BY <3>1, <3>2 DEF CallStep
  <2> QED BY <2>1, <2>2, <2>3
<1>8. NoStrandedClaim'
  <2> SUFFICES ASSUME NEW j \in Keys, Held(ledger[j])'
               PROVE  \E q \in Requests : Posting(q, j)'
    BY DEF NoStrandedClaim, Held
  <2>1. CASE j # k
    <3>1. PICK q \in Requests : Posting(q, j)
      BY <1>4, <2>1 DEF NoStrandedClaim, Held
    <3>2. q # r
      BY <2>1, <3>1 DEF CallStep, Posting
    <3> QED BY <1>2, <3>1, <3>2 DEF Posting
  <2>2. CASE j = k /\ next = "posting"
    BY <1>3, <2>2 DEF Posting
  <2>3. CASE j = k /\ next # "posting"
    <3>1. Held(row) /\ Held(ledger[k])
      BY <1>3, <2>3 DEF CallStep, Held
    <3>2. PICK q \in Requests : Posting(q, k)
      BY <3>1 DEF NoStrandedClaim, Held
    <3>3. q # r
      BY <3>1, <3>2 DEF CallStep, Posting
    <3> QED BY <1>2, <2>3, <3>2, <3>3 DEF Posting
  <2> QED BY <2>1, <2>2, <2>3
<1>9. SameOrderReturned'
  <2> SUFFICES ASSUME NEW q \in Requests, pc'[q] = "done", reply'[q].order # None
               PROVE  reply'[q].order = ledger'[key'[q]].order
    BY DEF SameOrderReturned
  <2>1. CASE q = r
    BY <1>3, <2>1 DEF CallStep
  <2>2. CASE q # r
    <3>1. reply[q].order = ledger[key[q]].order /\ key[q] \in Keys /\ key'[q] = key[q]
      BY <1>2, <2>2 DEF SameOrderReturned, KeyChosen
    <3>2. CASE key[q] # k
      BY <1>2, <1>4, <2>2, <3>1, <3>2
    <3>3. CASE key[q] = k
      BY <1>2, <1>3, <2>2, <3>1, <3>3, OrderStays DEF CallStep
    <3> QED BY <3>2, <3>3
  <2> QED BY <2>1, <2>2
<1> QED BY <1>1, <1>5, <1>6, <1>7, <1>8, <1>9 DEF Invs

\* The second shape does too.
LEMMA QuietStepKeeps ==
  ASSUME IInv, NEW r \in Requests, NEW next, QuietStep(r, next)
  PROVE  Invs'
<1> USE DEF IInv
<1>1. \A q \in Requests \ {r} : pc'[q] = pc[q] /\ reply'[q] = reply[q]
  BY DEF QuietStep, TypeOK
<1>2. pc'[r] = next
  BY DEF QuietStep, TypeOK
<1>3. SoundRows'
  BY DEF QuietStep, SoundRows
<1>4. KeyChosen'
  BY <1>1, <1>2 DEF QuietStep, KeyChosen
<1>5. \A q \in Requests, k \in Keys : Posting(q, k)' <=> Posting(q, k)
  BY <1>1, <1>2 DEF QuietStep, Posting
<1>6. PosterHolds'
  BY <1>1, <1>2 DEF QuietStep, PosterHolds
<1>7. OnePoster'
  BY <1>5 DEF OnePoster
<1>8. NoStrandedClaim'
  BY <1>5 DEF QuietStep, NoStrandedClaim
<1>9. SameOrderReturned'
  BY <1>1, <1>2 DEF QuietStep, SameOrderReturned
<1> QED BY <1>3, <1>4, <1>6, <1>7, <1>8, <1>9 DEF Invs

-----------------------------------------------------------------------------
(* The statements a handler runs, as evolutions of a row.                    *)

\* Rows in these proofs come from a sound ledger.
LEMMA SoundSteps ==
  ASSUME NEW row, SoundRow(row)
  PROVE  /\ Evolves(row, row)
         /\ \A a \in Amounts :
              /\ SoundRow(ClaimOrder(row, a)) /\ Evolves(row, ClaimOrder(row, a))
              /\ ClaimOrder(row, a).status # "absent"
              /\ row.status # "absent" => ClaimOrder(row, a) = row
              /\ row.status = "absent" => ~ClaimOrder(row, a).claimed
         /\ WinsCreation(row) /\ row.status = "pending" /\ row.order = None =>
              /\ Held(ClaimOrderCreation(row)) /\ ~Held(row)
              /\ SoundRow(ClaimOrderCreation(row))
              /\ ClaimOrderCreation(row).status = row.status
              /\ ClaimOrderCreation(row).order = row.order
              /\ ClaimOrderCreation(row).payment = row.payment
              /\ ResolveUnknown(MarkUnknown(ClaimOrderCreation(row)), None) = row
         /\ Held(row) => \A o \in OrderIds :
              /\ SoundRow(AttachOrder(row, o)) /\ Evolves(row, AttachOrder(row, o))
              /\ ~Held(AttachOrder(row, o)) /\ AttachOrder(row, o).order = o
         /\ Held(row) =>
              /\ SoundRow(MarkUnknown(row)) /\ Evolves(row, MarkUnknown(row))
              /\ ~Held(MarkUnknown(row))
         /\ \A o \in OrderIds \cup {None} :
              /\ SoundRow(ResolveUnknown(row, o)) /\ Evolves(row, ResolveUnknown(row, o))
              /\ Held(row) => ResolveUnknown(row, o) = row
              /\ Held(ResolveUnknown(row, o)) => Held(row)
              /\ ResolveUnknown(row, o).status = "absent" => row.status = "absent"
         /\ row.order # None => \A p \in PaymentIds, a \in Amounts :
              /\ SoundRow(FinalizeIfPending(row, p, a))
              /\ Evolves(row, FinalizeIfPending(row, p, a))
              /\ FinalizeIfPending(row, p, a).order = row.order
<1>0. /\ row \in LedgerEntry /\ Empty(row)
  BY DEF SoundRow
<1>1. Evolves(row, row)
  BY DEF Evolves
<1>2. ASSUME NEW a \in Amounts
      PROVE  /\ SoundRow(ClaimOrder(row, a)) /\ Evolves(row, ClaimOrder(row, a))
             /\ ClaimOrder(row, a).status # "absent"
             /\ row.status # "absent" => ClaimOrder(row, a) = row
             /\ row.status = "absent" => ~ClaimOrder(row, a).claimed
  <2>1. ClaimOrder(row, a) \in LedgerEntry /\ Empty(ClaimOrder(row, a))
    BY <1>0 DEF Empty, ClaimOrder, Absent, LedgerEntry, Status
  <2> QED
    BY <1>0, <2>1 DEF SoundRow, Evolves, Empty, ClaimOrder, Absent
<1>3. ASSUME WinsCreation(row), row.status = "pending", row.order = None
      PROVE  /\ Held(ClaimOrderCreation(row)) /\ ~Held(row)
             /\ SoundRow(ClaimOrderCreation(row))
             /\ ClaimOrderCreation(row).status = row.status
             /\ ClaimOrderCreation(row).order = row.order
             /\ ClaimOrderCreation(row).payment = row.payment
             /\ ResolveUnknown(MarkUnknown(ClaimOrderCreation(row)), None) = row
  BY <1>0, <1>3 DEF SoundRow, Empty, Held, WinsCreation, ClaimOrderCreation, ResolveUnknown,
                    MarkUnknown, LedgerEntry
<1>4. ASSUME Held(row), NEW o \in OrderIds
      PROVE  /\ SoundRow(AttachOrder(row, o)) /\ Evolves(row, AttachOrder(row, o))
             /\ ~Held(AttachOrder(row, o)) /\ AttachOrder(row, o).order = o
  BY <1>0, <1>4, NoneIsNoId DEF SoundRow, Empty, Held, Evolves, AttachOrder, LedgerEntry
<1>5. ASSUME Held(row)
      PROVE  /\ SoundRow(MarkUnknown(row)) /\ Evolves(row, MarkUnknown(row))
             /\ ~Held(MarkUnknown(row))
  BY <1>0, <1>5 DEF SoundRow, Empty, Held, Evolves, MarkUnknown, LedgerEntry, Status
<1>6. ASSUME NEW o \in OrderIds \cup {None}
      PROVE  /\ SoundRow(ResolveUnknown(row, o)) /\ Evolves(row, ResolveUnknown(row, o))
             /\ Held(row) => ResolveUnknown(row, o) = row
             /\ Held(ResolveUnknown(row, o)) => Held(row)
             /\ ResolveUnknown(row, o).status = "absent" => row.status = "absent"
  <2>1. CASE row.status # "unknown"
    BY <1>1, <2>1 DEF ResolveUnknown
  <2>2. CASE row.status = "unknown" /\ o # None
    BY <1>0, <2>2 DEF SoundRow, Empty, Held, Evolves, ResolveUnknown, LedgerEntry, Status
  <2>3. CASE row.status = "unknown" /\ o = None
    BY <1>0, <2>3 DEF SoundRow, Empty, Held, Evolves, ResolveUnknown, LedgerEntry, Status
  <2> QED BY <2>1, <2>2, <2>3
<1>7. ASSUME row.order # None, NEW p \in PaymentIds, NEW a \in Amounts
      PROVE  /\ SoundRow(FinalizeIfPending(row, p, a))
             /\ Evolves(row, FinalizeIfPending(row, p, a))
             /\ FinalizeIfPending(row, p, a).order = row.order
  BY <1>0, <1>1, <1>7 DEF SoundRow, Empty, Evolves, FinalizeIfPending, WinsFinalize,
                          LedgerEntry, Status
<1> QED BY <1>1, <1>2, <1>3, <1>4, <1>5, <1>6, <1>7

-----------------------------------------------------------------------------
(* The actions.                                                              *)

OneRowEvolves ==
  \/ UNCHANGED ledger
  \/ \E k \in Keys : \E row :
       /\ ledger' = [ledger EXCEPT ![k] = row]
       /\ SoundRow(row)
       /\ Evolves(ledger[k], row)

\* Answering a call writes a well-formed response for it and for nobody else.
LEMMA Answers ==
  ASSUME TypeOK, NEW r \in Requests
  PROVE  /\ \A code \in {409, 500, 502} : Refuse(r, code) =>
              /\ reply' \in [Requests -> Reply \cup {None}]
              /\ \A q \in Requests \ {r} : reply'[q] = reply[q]
              /\ reply'[r] \in Reply /\ reply'[r].order = None
              /\ pc' = [pc EXCEPT ![r] = "done"]
         /\ \A row, auth :
              row.order \in OrderIds \cup {None} /\ auth \in Authorization \cup {None}
                /\ Respond(r, row, auth) =>
                  /\ reply' \in [Requests -> Reply \cup {None}]
                  /\ \A q \in Requests \ {r} : reply'[q] = reply[q]
                  /\ reply'[r] \in Reply /\ reply'[r].order = row.order
                  /\ pc' = [pc EXCEPT ![r] = "done"]
BY DEF TypeOK, Refuse, Refusal, Respond, Reply

\* Proceed is a step of the first shape, from whatever sound row it is given.
LEMMA ProceedSteps ==
  ASSUME IInv, NEW r \in Requests, NEW k \in Keys, NEW row,
         SoundRow(row), Evolves(ledger[k], row),
         Held(ledger[k]) => row = ledger[k], Held(row) => Held(ledger[k]),
         pc[r] # "posting", Proceed(r, k, row), key' = [key EXCEPT ![r] = k]
  PROVE  /\ \E new : \E next \in Awaits : CallStep(r, k, new, next)
         /\ reply' \in [Requests -> Reply \cup {None}]
         /\ UNCHANGED sessionVars
<1> USE DEF IInv
<1>1. UNCHANGED sessionVars
  BY DEF Proceed
<1>2. reply \in [Requests -> Reply \cup {None}] /\ row.order \in OrderIds \cup {None}
  BY DEF TypeOK, SoundRow, LedgerEntry
<1>3. CASE /\ row.order = None /\ row.status = "pending" /\ WinsCreation(row)
           /\ ledger' = [ledger EXCEPT ![k] = ClaimOrderCreation(row)]
           /\ pc' = [pc EXCEPT ![r] = "posting"] /\ UNCHANGED reply
  <2> DEFINE new == ClaimOrderCreation(row)
  <2>1. /\ Held(new) /\ ~Held(row) /\ SoundRow(new) /\ new.status = row.status
        /\ new.order = row.order /\ new.payment = row.payment
    BY <1>3, SoundSteps
  <2>2. ledger' = [ledger EXCEPT ![k] = new]
    BY <1>3
  <2> HIDE DEF new
  <2>3. Evolves(ledger[k], new)
    BY <2>1 DEF Evolves
  <2>4. CallStep(r, k, new, "posting")
    BY <1>3, <2>1, <2>2, <2>3 DEF CallStep
  <2> QED BY <1>1, <1>2, <1>3, <2>4 DEF Awaits
<1>4. CASE /\ row.order = None /\ row.status = "pending" /\ WinsCreation(row)
           /\ ledger' = [ledger EXCEPT ![k] =
                ResolveUnknown(MarkUnknown(ClaimOrderCreation(row)), None)]
           /\ Refuse(r, 500)
  <2>1. ledger' = [ledger EXCEPT ![k] = row]
    BY <1>4, SoundSteps
  <2>2. /\ reply' \in [Requests -> Reply \cup {None}]
        /\ \A q \in Requests \ {r} : reply'[q] = reply[q]
        /\ reply'[r] \in Reply /\ reply'[r].order = None
        /\ pc' = [pc EXCEPT ![r] = "done"]
    BY <1>4, Answers
  <2>3. CallStep(r, k, row, "done")
    BY <2>1, <2>2 DEF CallStep
  <2> QED BY <1>1, <2>2, <2>3 DEF Awaits
<1>5. CASE /\ ledger' = [ledger EXCEPT ![k] = row]
           /\ pc' = [pc EXCEPT ![r] = "polling"] /\ UNCHANGED reply
  <2>1. CallStep(r, k, row, "polling")
    BY <1>5 DEF CallStep
  <2> QED BY <1>1, <1>2, <1>5, <2>1 DEF Awaits
<1>6. CASE /\ ledger' = [ledger EXCEPT ![k] = row]
           /\ Respond(r, row, authorization[session[r]])
  <2>1. authorization[session[r]] \in Authorization \cup {None}
    BY DEF TypeOK
  <2>2. CallStep(r, k, row, "done") /\ reply' \in [Requests -> Reply \cup {None}]
    BY <1>2, <1>6, <2>1, Answers DEF CallStep
  <2> QED BY <1>1, <2>2 DEF Awaits
<1> QED BY <1>3, <1>4, <1>5, <1>6 DEF Proceed

\* Claiming the row, after the cart was re-read, keeps the invariant.
LEMMA ClaimRowKeeps ==
  ASSUME IInv, NEW r \in Requests, ClaimRow(r)
  PROVE  IInv' /\ OneRowEvolves
<1> USE DEF IInv
<1> DEFINE k == confirmed[session[r]]
           row == ClaimOrder(ledger[k], TotalOf[k])
<1>1. k \in Keys /\ TotalOf[k] \in Amounts /\ SoundRow(ledger[k])
  BY CreationAssumption DEF ClaimRow, TypeOK, SoundRows
<1>2. /\ SoundRow(row) /\ Evolves(ledger[k], row)
      /\ Held(ledger[k]) => row = ledger[k]
      /\ Held(row) => Held(ledger[k])
  <2>1. /\ SoundRow(row) /\ Evolves(ledger[k], row)
        /\ ledger[k].status # "absent" => row = ledger[k]
        /\ ledger[k].status = "absent" => ~row.claimed
    BY <1>1, SoundSteps
  <2> QED BY <2>1 DEF Held
<1>3. /\ pc[r] = "reread" /\ key' = [key EXCEPT ![r] = k]
      /\ UNCHANGED <<session, answer, made, polls, razorpayVars>>
  BY DEF ClaimRow
<1>4. CASE row.status = "unknown"
  <2>1. /\ origin' = [origin EXCEPT ![r] = "entry"]
        /\ pc' = [pc EXCEPT ![r] = "lookup"]
        /\ UNCHANGED <<ledger, sessionVars, reply>>
    BY <1>4 DEF ClaimRow
  <2>2. row = ledger[k]
    BY <1>1, <1>4 DEF ClaimOrder, Absent
  <2>3. ledger' = [ledger EXCEPT ![k] = row]
    BY <1>1, <2>1, <2>2 DEF TypeOK
  <2>4. CallStep(r, k, row, "lookup")
    BY <1>2, <1>3, <2>1, <2>3 DEF CallStep
  <2>5. TypeOK'
    BY <1>1, <1>3, <2>1 DEF TypeOK, Awaits, sessionVars, razorpayVars
  <2> QED BY <1>1, <2>1, <2>4, <2>5, CallStepKeeps DEF Invs, OneRowEvolves
<1>5. CASE row.status # "unknown"
  <2>1. Proceed(r, k, row) /\ UNCHANGED origin
    BY <1>5 DEF ClaimRow
  <2> HIDE DEF k, row
  <2>2. /\ reply' \in [Requests -> Reply \cup {None}] /\ UNCHANGED sessionVars
        /\ \E new : \E next \in Awaits : CallStep(r, k, new, next)
    BY <1>1, <1>2, <1>3, <2>1, ProceedSteps
  <2>3. PICK new : \E next \in Awaits : CallStep(r, k, new, next)
    BY <2>2
  <2>0. PICK next \in Awaits : CallStep(r, k, new, next)
    BY <2>3
  <2>4. TypeOK'
    BY <1>1, <1>3, <2>1, <2>2, <2>0
       DEF CallStep, SoundRow, TypeOK, sessionVars, razorpayVars
  <2> QED BY <1>1, <2>0, <2>4, CallStepKeeps DEF Invs, OneRowEvolves, CallStep
<1> QED BY <1>4, <1>5

\* Answering with an order and issuing its authorization is a step of the first
\* shape, whichever way it ends.
LEMMA IssuingSteps ==
  ASSUME IInv, NEW r \in Requests, NEW k \in Keys, NEW row,
         key[r] = k, UNCHANGED key, ledger' = [ledger EXCEPT ![k] = row],
         SoundRow(row), Evolves(ledger[k], row),
         pc[r] # "posting" /\ Held(ledger[k]) => row = ledger[k],
         pc[r] = "posting" => ~Held(row), Held(row) => Held(ledger[k]),
         IssueAndRespond(r, k, row)
  PROVE  /\ CallStep(r, k, row, "done")
         /\ reply' \in [Requests -> Reply \cup {None}]
         /\ UNCHANGED confirmed
         /\ authorization' \in [Sessions -> Authorization \cup {None}]
         /\ issued' \in [Keys -> Nat]
<1> USE DEF IInv
<1> DEFINE auth == [transaction |-> k, cart |-> confirmed[session[r]]]
<1>1. row.order \in OrderIds \cup {None} /\ auth \in Authorization \cup {None}
  BY DEF SoundRow, LedgerEntry, TypeOK, Authorization
<1>2. key' = [key EXCEPT ![r] = k]
  BY DEF TypeOK
<1>3. CASE /\ authorization' = [authorization EXCEPT ![session[r]] = auth]
           /\ issued' = [issued EXCEPT ![k] = @ + 1]
           /\ UNCHANGED confirmed /\ Respond(r, row, auth)
  <2>1. /\ authorization' \in [Sessions -> Authorization \cup {None}]
        /\ issued' \in [Keys -> Nat]
    BY <1>1, <1>3 DEF TypeOK
  <2> HIDE DEF auth
  <2>2. /\ reply' \in [Requests -> Reply \cup {None}]
        /\ \A q \in Requests \ {r} : reply'[q] = reply[q]
        /\ reply'[r] \in Reply /\ reply'[r].order = row.order
        /\ pc' = [pc EXCEPT ![r] = "done"]
    BY <1>1, <1>3, Answers
  <2>3. CallStep(r, k, row, "done")
    BY <1>2, <2>2 DEF CallStep
  <2> QED BY <1>3, <2>1, <2>2, <2>3
<1>4. CASE Refuse(r, 500) /\ UNCHANGED sessionVars
  <2>1. /\ reply' \in [Requests -> Reply \cup {None}]
        /\ \A q \in Requests \ {r} : reply'[q] = reply[q]
        /\ reply'[r] \in Reply /\ reply'[r].order = None
        /\ pc' = [pc EXCEPT ![r] = "done"]
    BY <1>4, Answers
  <2>2. CallStep(r, k, row, "done")
    BY <1>2, <2>1 DEF CallStep
  <2> QED BY <1>4, <2>1, <2>2 DEF TypeOK, sessionVars
<1> QED BY <1>3, <1>4 DEF IssueAndRespond

\* POST /orders succeeding keeps the invariant.
LEMMA PostSucceedsKeeps ==
  ASSUME IInv, NEW r \in Requests, PostSucceeds(r)
  PROVE  IInv' /\ OneRowEvolves
<1> USE DEF IInv
<1> DEFINE k == key[r]
           row == AttachOrder(ledger[k], made[r])
<1>1. /\ k \in Keys /\ Held(ledger[k]) /\ SoundRow(ledger[k]) /\ made[r] \in OrderIds
      /\ pc[r] = "posting"
  BY DEF PostSucceeds, KeyChosen, PosterHolds, SoundRows, TypeOK
<1>2. SoundRow(row) /\ Evolves(ledger[k], row) /\ ~Held(row)
  BY <1>1, SoundSteps
<1>3. /\ ledger' = [ledger EXCEPT ![k] = row] /\ IssueAndRespond(r, k, row)
      /\ UNCHANGED <<callVars, razorpayVars>>
  BY DEF PostSucceeds
<1> HIDE DEF row
<1>4. UNCHANGED key
  BY <1>3 DEF callVars
<1>5. /\ CallStep(r, k, row, "done")
      /\ reply' \in [Requests -> Reply \cup {None}]
      /\ UNCHANGED confirmed
      /\ authorization' \in [Sessions -> Authorization \cup {None}]
      /\ issued' \in [Keys -> Nat]
  BY <1>1, <1>2, <1>3, <1>4, IssuingSteps
<1>6. TypeOK'
  <2>1. ledger' \in [Keys -> LedgerEntry]
    BY <1>1, <1>2, <1>3 DEF TypeOK, SoundRow
  <2>2. pc' \in [Requests -> Awaits]
    BY <1>5 DEF CallStep, TypeOK, Awaits
  <2> QED BY <1>3, <1>5, <2>1, <2>2 DEF TypeOK, callVars, razorpayVars
<1> QED BY <1>1, <1>2, <1>3, <1>5, <1>6, CallStepKeeps DEF Invs, OneRowEvolves

\* So does its failure, which puts the row in doubt.
LEMMA PostFailsKeeps ==
  ASSUME IInv, NEW r \in Requests, PostFails(r)
  PROVE  IInv' /\ OneRowEvolves
<1> USE DEF IInv
<1> DEFINE k == key[r]
           row == MarkUnknown(ledger[k])
<1>1. k \in Keys /\ Held(ledger[k]) /\ SoundRow(ledger[k]) /\ pc[r] = "posting"
  BY DEF PostFails, KeyChosen, PosterHolds, SoundRows, TypeOK
<1>2. SoundRow(row) /\ Evolves(ledger[k], row) /\ ~Held(row)
  BY <1>1, SoundSteps
<1>3. /\ ledger' = [ledger EXCEPT ![k] = row] /\ pc' = [pc EXCEPT ![r] = "lookup"]
      /\ origin' = [origin EXCEPT ![r] = "post"]
      /\ late' \in {late, late \cup {k}}
      /\ UNCHANGED <<sessionVars, session, key, answer, made, polls, reply, orders>>
  BY <1>1 DEF PostFails, TypeOK
<1>4. CallStep(r, k, row, "lookup")
  BY <1>1, <1>2, <1>3 DEF CallStep, TypeOK
<1>5. TypeOK'
  BY <1>1, <1>2, <1>3 DEF SoundRow, TypeOK, Awaits, sessionVars
<1> QED BY <1>1, <1>2, <1>3, <1>4, <1>5, CallStepKeeps DEF Invs, OneRowEvolves

\* Acting on Razorpay's answer, whatever it was and however old it is, keeps the
\* invariant: resolve_unknown touches an UNKNOWN row only.
LEMMA ResolutionKeeps ==
  ASSUME IInv, NEW r \in Requests, pc[r] \in {"lookup", "answered"},
         NEW found \in OrderIds \cup {None, "refused"}, Resolution(r, found)
  PROVE  IInv' /\ OneRowEvolves
<1> USE DEF IInv
<1> DEFINE k == key[r]
           row == IF found = "refused" THEN ledger[k] ELSE ResolveUnknown(ledger[k], found)
<1>1. k \in Keys /\ SoundRow(ledger[k]) /\ pc[r] # "posting"
  BY DEF KeyChosen, SoundRows
<1>2. /\ SoundRow(row) /\ Evolves(ledger[k], row)
      /\ Held(ledger[k]) => row = ledger[k]
      /\ Held(row) => Held(ledger[k])
  <2>1. CASE found = "refused"
    BY <1>1, <2>1, SoundSteps
  <2>2. CASE found # "refused"
    <3>1. found \in OrderIds \cup {None} /\ row = ResolveUnknown(ledger[k], found)
      BY <2>2
    <3> HIDE DEF row
    <3> QED BY <1>1, <3>1, SoundSteps
  <2> QED BY <2>1, <2>2
<1>3. AfterLookup(r, row) /\ UNCHANGED <<callVars, razorpayVars>>
  BY DEF Resolution
<1> HIDE DEF row
<1>4. UNCHANGED key /\ key' = [key EXCEPT ![r] = k]
  BY <1>3 DEF callVars, TypeOK
<1>5. /\ \E new : \E next \in Awaits : CallStep(r, k, new, next)
      /\ reply' \in [Requests -> Reply \cup {None}]
      /\ UNCHANGED confirmed
      /\ authorization' \in [Sessions -> Authorization \cup {None}]
      /\ issued' \in [Keys -> Nat]
  <2>1. CASE origin[r] = "entry"
    <3>1. Proceed(r, k, row)
      BY <1>3, <2>1 DEF AfterLookup
    <3>2. /\ \E new : \E next \in Awaits : CallStep(r, k, new, next)
          /\ reply' \in [Requests -> Reply \cup {None}]
          /\ UNCHANGED sessionVars
      BY <1>1, <1>2, <1>4, <3>1, ProceedSteps
    <3> QED BY <3>2 DEF TypeOK, sessionVars
  <2>2. CASE origin[r] # "entry" /\ row.order = None
    <3>1. /\ ledger' = [ledger EXCEPT ![k] = row]
          /\ \E code \in {500, 502} : Refuse(r, code)
          /\ UNCHANGED sessionVars
      BY <1>3, <2>2 DEF AfterLookup
    <3>2. /\ reply' \in [Requests -> Reply \cup {None}]
          /\ \A q \in Requests \ {r} : reply'[q] = reply[q]
          /\ reply'[r] \in Reply /\ reply'[r].order = None
          /\ pc' = [pc EXCEPT ![r] = "done"]
      BY <3>1, Answers
    <3>3. CallStep(r, k, row, "done")
      BY <1>1, <1>2, <1>4, <3>1, <3>2 DEF CallStep
    <3> QED BY <3>1, <3>2, <3>3 DEF TypeOK, sessionVars, Awaits
  <2>3. CASE origin[r] # "entry" /\ row.order # None
    <3>1. ledger' = [ledger EXCEPT ![k] = row] /\ IssueAndRespond(r, k, row)
      BY <1>3, <2>3 DEF AfterLookup
    <3>2. /\ CallStep(r, k, row, "done")
          /\ reply' \in [Requests -> Reply \cup {None}]
          /\ UNCHANGED confirmed
          /\ authorization' \in [Sessions -> Authorization \cup {None}]
          /\ issued' \in [Keys -> Nat]
      BY <1>1, <1>2, <1>4, <3>1, IssuingSteps
    <3> QED BY <3>2 DEF Awaits
  <2> QED BY <2>1, <2>2, <2>3
<1>6. PICK new : \E next \in Awaits : CallStep(r, k, new, next)
  BY <1>5
<1>7. PICK next \in Awaits : CallStep(r, k, new, next)
  BY <1>6
<1>8. TypeOK'
  BY <1>1, <1>3, <1>5, <1>7 DEF CallStep, SoundRow, TypeOK, callVars, razorpayVars
<1> QED BY <1>1, <1>7, <1>8, CallStepKeeps DEF Invs, OneRowEvolves, CallStep

\* A lookup by receipt answers with an order, with none, or refuses to choose.
LEMMA LookupAnswers ==
  ASSUME NEW k \in Keys
  PROVE  LookupByReceipt(k) \in OrderIds \cup {None, "refused"}
<1> DEFINE matches == {o \in OrderIds : orders[o] # None /\ Receipt(orders[o]) = Receipt(k)}
<1>1. matches \subseteq OrderIds
  OBVIOUS
<1>2. LookupByReceipt(k) =
        IF matches = {} THEN None
        ELSE IF \E o \in matches : matches = {o}
             THEN CHOOSE o \in matches : TRUE
             ELSE "refused"
  BY DEF LookupByReceipt
<1>3. matches # {} => (CHOOSE o \in matches : TRUE) \in matches
  OBVIOUS
<1> HIDE DEF matches
<1> QED BY <1>1, <1>2, <1>3

\* A call that polls or is refused its cart leaves every row alone.
LEMMA QuietCallKeeps ==
  ASSUME IInv, NEW r \in Requests, RefuseCart(r) \/ Poll(r) \/ Start(r) \/ RazorpayAnswers(r)
  PROVE  IInv' /\ UNCHANGED ledger
<1> USE DEF IInv
<1>1. CASE RefuseCart(r)
  <2>1. PICK code \in {409, 502} : Refuse(r, code)
    BY <1>1 DEF RefuseCart
  <2>2. /\ reply' \in [Requests -> Reply \cup {None}]
        /\ \A q \in Requests \ {r} : reply'[q] = reply[q]
        /\ reply'[r] \in Reply /\ reply'[r].order = None
        /\ pc' = [pc EXCEPT ![r] = "done"]
    BY <2>1, Answers
  <2>3. pc[r] = "reread" /\ UNCHANGED <<ledger, sessionVars, callVars, razorpayVars>>
    BY <1>1 DEF RefuseCart
  <2>4. QuietStep(r, "done")
    BY <2>2, <2>3 DEF QuietStep, callVars
  <2>5. TypeOK'
    BY <2>2, <2>3 DEF TypeOK, Awaits, sessionVars, callVars, razorpayVars
  <2> QED BY <2>3, <2>4, <2>5, QuietStepKeeps DEF Invs
<1>2. CASE Start(r)
  <2>1. /\ pc[r] = "idle" /\ pc' = [pc EXCEPT ![r] = "reread"]
        /\ UNCHANGED <<ledger, sessionVars, callVars, reply, razorpayVars>>
    BY <1>2 DEF Start
  <2>2. QuietStep(r, "reread")
    BY <2>1 DEF QuietStep, callVars
  <2>3. TypeOK'
    BY <2>1 DEF TypeOK, Awaits, sessionVars, callVars, razorpayVars
  <2> QED BY <2>1, <2>2, <2>3, QuietStepKeeps DEF Invs
<1>3. CASE RazorpayAnswers(r)
  <2>1. /\ pc[r] = "lookup" /\ pc' = [pc EXCEPT ![r] = "answered"]
        /\ answer' = [answer EXCEPT ![r] = LookupByReceipt(key[r])]
        /\ UNCHANGED <<ledger, sessionVars, session, key, origin, made, polls, reply, razorpayVars>>
    BY <1>3 DEF RazorpayAnswers
  <2>2. QuietStep(r, "answered")
    BY <2>1 DEF QuietStep, KeyChosen
  <2>3. TypeOK'
    <3>1. LookupByReceipt(key[r]) \in OrderIds \cup {None, "refused"}
      BY <2>1, LookupAnswers DEF KeyChosen
    <3>2. answer' \in [Requests -> OrderIds \cup {None, "refused"}]
      BY <2>1, <3>1 DEF TypeOK
    <3> QED BY <2>1, <3>2 DEF TypeOK, Awaits, sessionVars, razorpayVars
  <2> QED BY <2>1, <2>2, <2>3, QuietStepKeeps DEF Invs
<1>4. CASE Poll(r)
  <2> DEFINE row == ledger[key[r]]
             auth == authorization[session[r]]
  <2>1. /\ key[r] \in Keys /\ pc[r] = "polling" /\ row.order \in OrderIds \cup {None}
        /\ auth \in Authorization \cup {None}
    BY <1>4 DEF Poll, KeyChosen, TypeOK, LedgerEntry
  <2>2. UNCHANGED <<ledger, sessionVars, session, key, origin, answer, made, razorpayVars>>
    BY <1>4 DEF Poll
  <2>3. CASE Respond(r, row, auth) /\ UNCHANGED polls
    <3>1. /\ reply' \in [Requests -> Reply \cup {None}]
          /\ \A q \in Requests \ {r} : reply'[q] = reply[q]
          /\ reply'[r] \in Reply /\ reply'[r].order = row.order
          /\ pc' = [pc EXCEPT ![r] = "done"]
      BY <2>1, <2>3, Answers
    <3>2. QuietStep(r, "done")
      BY <2>1, <2>2, <3>1 DEF QuietStep
    <3>3. TypeOK'
      BY <2>2, <2>3, <3>1 DEF TypeOK, Awaits, sessionVars, razorpayVars
    <3> QED BY <2>2, <3>2, <3>3, QuietStepKeeps DEF Invs
  <2>4. CASE Refuse(r, 409) /\ UNCHANGED polls
    <3>1. /\ reply' \in [Requests -> Reply \cup {None}]
          /\ \A q \in Requests \ {r} : reply'[q] = reply[q]
          /\ reply'[r] \in Reply /\ reply'[r].order = None
          /\ pc' = [pc EXCEPT ![r] = "done"]
      BY <2>4, Answers
    <3>2. QuietStep(r, "done")
      BY <2>1, <2>2, <3>1 DEF QuietStep
    <3>3. TypeOK'
      BY <2>2, <2>4, <3>1 DEF TypeOK, Awaits, sessionVars, razorpayVars
    <3> QED BY <2>2, <3>2, <3>3, QuietStepKeeps DEF Invs
  <2>5. CASE /\ polls[r] < MaxPolls /\ polls' = [polls EXCEPT ![r] = @ + 1]
             /\ UNCHANGED <<pc, reply>>
    <3>1. QuietStep(r, "polling")
      BY <2>1, <2>2, <2>5 DEF QuietStep, TypeOK
    <3>2. polls[r] + 1 \in 0 .. MaxPolls
      BY <2>5, CreationAssumption DEF TypeOK
    <3>3. TypeOK'
      BY <2>2, <2>5, <3>2 DEF TypeOK, sessionVars, razorpayVars
    <3> QED BY <2>2, <3>1, <3>3, QuietStepKeeps DEF Invs
  <2> QED BY <1>4, <2>3, <2>4, <2>5 DEF Poll
<1> QED BY <1>1, <1>2, <1>3, <1>4

\* Nothing the buyer or Razorpay does on its own disturbs a call or a row.
LEMMA OutsideKeeps ==
  ASSUME IInv,
         \/ \E r \in Requests : RazorpayCreates(r)
         \/ \E k \in Keys : Confirm(k) \/ RazorpayCreatesLate(k)
         \/ \E s \in Sessions : Revise(s)
         \/ UNCHANGED vars
  PROVE  IInv' /\ UNCHANGED ledger
<1>1. TypeOK' /\ UNCHANGED <<ledger, pc, key, reply>>
  <2> USE DEF IInv, TypeOK, sessionVars, callVars, razorpayVars
  <2>1. ASSUME NEW r \in Requests, RazorpayCreates(r)
        PROVE  TypeOK' /\ UNCHANGED <<ledger, pc, key, reply>>
    <3>1. key[r] \in Keys
      BY <2>1 DEF RazorpayCreates, KeyChosen
    <3> QED BY <2>1, <3>1 DEF RazorpayCreates
  <2>2. ASSUME NEW k \in Keys, Confirm(k) \/ RazorpayCreatesLate(k)
        PROVE  TypeOK' /\ UNCHANGED <<ledger, pc, key, reply>>
    BY <2>2, CreationAssumption DEF Confirm, RazorpayCreatesLate
  <2>3. ASSUME NEW s \in Sessions, Revise(s)
        PROVE  TypeOK' /\ UNCHANGED <<ledger, pc, key, reply>>
    BY <2>3 DEF Revise
  <2>4. CASE UNCHANGED vars
    BY <2>4 DEF vars
  <2> QED BY <2>1, <2>2, <2>3, <2>4
<1>2. SoundRows' /\ KeyChosen' /\ PosterHolds'
  BY <1>1 DEF IInv, SoundRows, KeyChosen, PosterHolds
<1>3. OnePoster' /\ NoStrandedClaim'
  BY <1>1 DEF IInv, OnePoster, NoStrandedClaim, Posting
<1>4. SameOrderReturned'
  BY <1>1 DEF IInv, SameOrderReturned
<1> QED BY <1>1, <1>2, <1>3, <1>4 DEF IInv

\* A capture moves a row that has an order, which is nobody's POST in flight.
LEMMA CapturedKeeps ==
  ASSUME IInv, NEW k \in Keys, Captured(k)
  PROVE  IInv' /\ OneRowEvolves
<1> USE DEF IInv
<1>1. PICK p \in PaymentIds :
        ledger' = [ledger EXCEPT ![k] = FinalizeIfPending(ledger[k], p, TotalOf[k])]
  BY DEF Captured
<1> DEFINE row == FinalizeIfPending(ledger[k], p, TotalOf[k])
<1>2. ledger[k].order # None /\ SoundRow(ledger[k]) /\ TotalOf[k] \in Amounts
  BY CreationAssumption DEF Captured, SoundRows
<1>3. SoundRow(row) /\ Evolves(ledger[k], row) /\ row.order = ledger[k].order
  BY <1>2, SoundSteps
<1>4. /\ UNCHANGED <<sessionVars, pc, callVars, reply, razorpayVars>>
      /\ ledger' = [ledger EXCEPT ![k] = row]
  BY <1>1 DEF Captured
<1> HIDE DEF row
<1>5. /\ ledger'[k] = row
      /\ \A j \in Keys : j # k => ledger'[j] = ledger[j]
      /\ \A j \in Keys : ledger'[j].order = ledger[j].order
      /\ \A j \in Keys : Held(ledger'[j]) <=> Held(ledger[j])
  <2>1. ~Held(ledger[k]) /\ ~Held(row)
    BY <1>2, <1>3 DEF Held
  <2> QED BY <1>3, <1>4, <2>1 DEF TypeOK
<1>6. TypeOK'
  <2>1. ledger' \in [Keys -> LedgerEntry]
    BY <1>3, <1>4 DEF SoundRow, TypeOK
  <2> QED BY <1>4, <2>1 DEF TypeOK, sessionVars, callVars, razorpayVars
<1>7. SoundRows' /\ KeyChosen'
  BY <1>3, <1>4, <1>5 DEF SoundRows, KeyChosen, callVars
<1>8. PosterHolds' /\ OnePoster'
  BY <1>4, <1>5 DEF PosterHolds, OnePoster, Posting, KeyChosen, callVars
<1>9. NoStrandedClaim'
  BY <1>4, <1>5 DEF NoStrandedClaim, Posting, Held, callVars
<1>10. SameOrderReturned'
  BY <1>4, <1>5 DEF SameOrderReturned, KeyChosen, callVars
<1> QED BY <1>3, <1>4, <1>6, <1>7, <1>8, <1>9, <1>10 DEF OneRowEvolves

-----------------------------------------------------------------------------
(* The theorems.                                                             *)

\* Initially no purchase has a row and no call has begun.
LEMMA InitHolds == ASSUME Init PROVE IInv
<1>1. TypeOK
  BY CreationAssumption DEF Init, TypeOK, LedgerEntry, Absent, Status, Awaits
<1>2. SoundRows
  BY DEF Init, SoundRows, SoundRow, Empty, Absent, LedgerEntry, Status
<1> QED BY <1>1, <1>2 DEF Init, IInv, KeyChosen, PosterHolds, OnePoster, Posting,
                          NoStrandedClaim, SameOrderReturned, Absent

\* Every step keeps the invariant, and evolves at most one row.
LEMMA StepKeeps ==
  ASSUME IInv, [Next]_vars
  PROVE  IInv' /\ OneRowEvolves
<1>1. ASSUME NEW r \in Requests, LookupFails(r) \/ Resolve(r) \/ ResolveStale(r)
      PROVE  IInv' /\ OneRowEvolves
  <2>1. CASE LookupFails(r)
    BY <2>1, ResolutionKeeps DEF LookupFails
  <2>2. CASE Resolve(r)
    <3>1. pc[r] = "lookup" /\ Resolution(r, LookupByReceipt(key[r])) /\ key[r] \in Keys
      BY <2>2 DEF Resolve, IInv, KeyChosen
    <3> QED BY <3>1, LookupAnswers, ResolutionKeeps
  <2>3. CASE ResolveStale(r)
    <3>1. /\ pc[r] = "answered" /\ Resolution(r, answer[r])
          /\ answer[r] \in OrderIds \cup {None, "refused"}
      BY <2>3 DEF ResolveStale, IInv, TypeOK
    <3> QED BY <3>1, ResolutionKeeps
  <2> QED BY <1>1, <2>1, <2>2, <2>3
<1>2. ASSUME NEW r \in Requests, Continue(r)
      PROVE  IInv' /\ OneRowEvolves
  BY <1>1, <1>2, QuietCallKeeps, ClaimRowKeeps, PostSucceedsKeeps, PostFailsKeeps
     DEF Continue, OneRowEvolves
<1>3. ASSUME NEW r \in Requests, Start(r) \/ RazorpayCreates(r) \/ RazorpayAnswers(r)
      PROVE  IInv' /\ OneRowEvolves
  BY <1>3, QuietCallKeeps, OutsideKeeps DEF OneRowEvolves
<1>4. ASSUME NEW k \in Keys, Confirm(k) \/ RazorpayCreatesLate(k) \/ Captured(k)
      PROVE  IInv' /\ OneRowEvolves
  BY <1>4, CapturedKeeps, OutsideKeeps DEF OneRowEvolves
<1>5. ASSUME NEW s \in Sessions, Revise(s)
      PROVE  IInv' /\ OneRowEvolves
  BY <1>5, OutsideKeeps DEF OneRowEvolves
<1>6. CASE UNCHANGED vars
  BY <1>6, OutsideKeeps DEF OneRowEvolves
<1> QED BY <1>2, <1>3, <1>4, <1>5, <1>6 DEF Next

\* The inductive invariant holds of every behaviour of create_payment_order.
THEOREM CreationInv == Spec => []IInv
<1>1. Init => IInv
  BY InitHolds
<1>2. IInv /\ [Next]_vars => IInv'
  BY StepKeeps
<1> QED BY <1>1, <1>2, PTL DEF Spec

\* Every variable keeps its type.
THEOREM CreationTypeOK == Spec => []TypeOK
<1>1. IInv => TypeOK
  BY DEF IInv
<1> QED BY <1>1, CreationInv, PTL

\* At no time are two calls in the middle of POST /orders for one key.
THEOREM CreationOnePoster == Spec => []OnePoster
<1>1. IInv => OnePoster
  BY DEF IInv
<1> QED BY <1>1, CreationInv, PTL

\* No way through create_payment_order leaves a claim that nobody holds.
THEOREM CreationNoStrandedClaim == Spec => []NoStrandedClaim
<1>1. IInv => NoStrandedClaim
  BY DEF IInv
<1> QED BY <1>1, CreationInv, PTL

\* Every response that carries an order carries the order of its key's row.
THEOREM CreationSameOrderReturned == Spec => []SameOrderReturned
<1>1. IInv => SameOrderReturned
  BY DEF IInv
<1> QED BY <1>1, CreationInv, PTL

-----------------------------------------------------------------------------
(* The handler keeps the promise of Purchase.                                *)

PhaseOf(row) ==
  CASE row.status = "absent" -> "absent"
    [] row.status = "pending" -> "open"
    [] row.status = "unknown" -> "doubt"
    [] row.status = "captured" -> "paid"

\* A row that evolves in place takes one step of its purchase, or none.
LEMMA EvolvingKeepsPromise ==
  ASSUME TypeOK, NEW k \in Keys, NEW row, ledger' = [ledger EXCEPT ![k] = row],
         SoundRow(row), Evolves(ledger[k], row)
  PROVE  Promise!Next \/ UNCHANGED Promise!purchaseVars
<1> DEFINE phase == [j \in Keys |-> PhaseOf(ledger[j])]
           order == [j \in Keys |-> ledger[j].order]
           payment == [j \in Keys |-> ledger[j].payment]
<1>1. /\ phase' = [phase EXCEPT ![k] = PhaseOf(row)]
      /\ order' = [order EXCEPT ![k] = row.order]
      /\ payment' = [payment EXCEPT ![k] = row.payment]
  BY DEF TypeOK
<1>2. phase[k] = PhaseOf(ledger[k]) /\ order[k] = ledger[k].order /\ payment[k] = ledger[k].payment
  OBVIOUS
<1>10. /\ row.status = ledger[k].status => phase' = phase
       /\ row.order = ledger[k].order => order' = order
       /\ row.payment = ledger[k].payment => payment' = payment
  <2>1. /\ ledger'[k] = row
        /\ \A j \in Keys : j # k => ledger'[j] = ledger[j]
    BY DEF TypeOK
  <2>2. ASSUME row.status = ledger[k].status PROVE phase' = phase
    <3>1. \A j \in Keys : PhaseOf(ledger'[j]) = PhaseOf(ledger[j])
      BY <2>1, <2>2 DEF PhaseOf
    <3> QED BY <3>1
  <2>3. ASSUME row.order = ledger[k].order PROVE order' = order
    BY <2>1, <2>3
  <2>4. ASSUME row.payment = ledger[k].payment PROVE payment' = payment
    BY <2>1, <2>4
  <2> QED BY <2>2, <2>3, <2>4
<1>11. /\ PhaseOf(row) = (CASE row.status = "absent" -> "absent"
                            [] row.status = "pending" -> "open"
                            [] row.status = "unknown" -> "doubt"
                            [] row.status = "captured" -> "paid")
       /\ ledger[k].status = "absent" => phase[k] = "absent"
       /\ ledger[k].status = "pending" => phase[k] = "open"
       /\ ledger[k].status = "unknown" => phase[k] = "doubt"
  BY <1>2 DEF PhaseOf
<1>3. row \in LedgerEntry /\ ledger[k] \in LedgerEntry
  BY DEF SoundRow, TypeOK
<1>4. CASE ledger[k].status = "absent" /\ row.status = "pending"
  <2>0. row.order = ledger[k].order /\ row.payment = ledger[k].payment
    BY <1>4 DEF Evolves
  <2>1. /\ phase[k] = "absent" /\ phase' = [phase EXCEPT ![k] = "open"]
        /\ order' = order /\ payment' = payment
    BY <1>1, <1>2, <1>4, <1>10, <1>11, <2>0
  <2>2. Promise!Open(k)
    BY <2>1 DEF Promise!Open, Promise!Move, PhaseOf
  <2> QED BY <2>2 DEF Promise!Next
<1>5. CASE ledger[k].status = "unknown" /\ row.status = "pending"
  <2>0. row.payment = ledger[k].payment /\ row.order \in OrderIds \cup {None}
    BY <1>3, <1>5 DEF Evolves, LedgerEntry
  <2>1. /\ phase[k] = "doubt" /\ phase' = [phase EXCEPT ![k] = "open"]
        /\ payment' = payment
        /\ row.order \in OrderIds \cup {None}
    BY <1>1, <1>2, <1>5, <1>10, <1>11, <2>0
  <2>2. Promise!Settle(k)
    BY <1>1, <2>1 DEF Promise!Settle, Promise!Move, PhaseOf
  <2> QED BY <2>2 DEF Promise!Next
<1>6. CASE ledger[k].status = "pending" /\ row.status = "pending" /\ row.order # ledger[k].order
  <2>0. /\ row.payment = ledger[k].payment /\ ledger[k].order = None
        /\ row.order \in OrderIds
    BY <1>3, <1>6 DEF Evolves, LedgerEntry
  <2>1. /\ phase[k] = "open" /\ phase' = phase /\ order[k] = None
        /\ payment' = payment /\ row.order \in OrderIds
    BY <1>1, <1>2, <1>6, <1>10, <1>11, <2>0
  <2>2. Promise!Attach(k)
    BY <1>1, <2>1 DEF Promise!Attach, PhaseOf
  <2> QED BY <2>2 DEF Promise!Next
<1>7. CASE ledger[k].status = "pending" /\ row.status = "unknown"
  <2>0. /\ row.payment = ledger[k].payment
        /\ row.order = None /\ ledger[k].order = None
    BY <1>7 DEF Evolves
  <2>1. /\ phase[k] = "open" /\ phase' = [phase EXCEPT ![k] = "doubt"]
        /\ order[k] = None /\ order' = order /\ payment' = payment
    BY <1>1, <1>2, <1>7, <1>10, <1>11, <2>0
  <2>2. Promise!Doubt(k)
    BY <2>1 DEF Promise!Doubt, Promise!Move, PhaseOf
  <2> QED BY <2>2 DEF Promise!Next
<1>8. CASE ledger[k].status = "pending" /\ row.status = "captured"
  <2>0. row.order = ledger[k].order /\ row.order # None /\ row.payment \in PaymentIds
    BY <1>8 DEF Evolves
  <2>1. /\ phase[k] = "open" /\ phase' = [phase EXCEPT ![k] = "paid"]
        /\ order[k] # None /\ order' = order
        /\ row.payment \in PaymentIds
    BY <1>1, <1>2, <1>8, <1>10, <1>11, <2>0
  <2>2. Promise!Pay(k)
    BY <1>1, <2>1 DEF Promise!Pay, Promise!Move, PhaseOf
  <2> QED BY <2>2 DEF Promise!Next
<1>9. CASE row.status = ledger[k].status /\ row.order = ledger[k].order
  <2>0. row.payment = ledger[k].payment
    BY <1>9 DEF Evolves
  <2>1. phase' = phase /\ order' = order /\ payment' = payment
    BY <1>9, <1>10, <2>0
  <2> QED BY <2>1 DEF Promise!purchaseVars, PhaseOf
<1> QED BY <1>4, <1>5, <1>6, <1>7, <1>8, <1>9 DEF Evolves

\* create_payment_order implements Purchase: whatever the calls, the network and the
\* captures do, a purchase has at most one order and at most one payment on record,
\* for good.
THEOREM CreationKeepsPromise == Spec => KeepsPromise
<1>1. Init => Promise!Init
  BY DEF Init, Absent, Promise!Init
<1>2. IInv /\ [Next]_vars => [Promise!Next]_(Promise!purchaseVars)
  <2> SUFFICES ASSUME IInv, [Next]_vars
               PROVE  Promise!Next \/ UNCHANGED Promise!purchaseVars
    OBVIOUS
  <2>1. TypeOK /\ OneRowEvolves
    BY StepKeeps DEF IInv
  <2>2. CASE UNCHANGED ledger
    BY <2>2 DEF Promise!purchaseVars
  <2>3. CASE ~UNCHANGED ledger
    BY <2>1, <2>3, EvolvingKeepsPromise DEF OneRowEvolves
  <2> QED BY <2>2, <2>3
<1> QED BY <1>1, <1>2, CreationInv, PTL DEF Spec, KeepsPromise, Promise!Spec
-----------------------------------------------------------------------------
(* Whose order a row has, and how many Razorpay made.                        *)

OneCart == \A j, k \in Keys : SessionOf[j] = SessionOf[k] => j = k

\* What a call made, or was told of, is its key's.
OwnInHand ==
  \A r \in Requests :
    /\ pc[r] \in {"idle", "reread"} => made[r] = None
    /\ made[r] # None => key[r] \in Keys /\ orders[made[r]] = key[r]
    /\ pc[r] = "answered" /\ answer[r] \in OrderIds => orders[answer[r]] = key[r]

\* A row whose claim is to be had.
Open(row) == row.order = None /\ row.status # "unknown" /\ ~row.claimed

NoOrder(k) == \A o \in OrderIds : orders[o] # k

\* As long as a claim is to be had, or a POST is on its way, Razorpay has no order.
NothingYet ==
  /\ \A k \in Keys : Open(ledger[k]) => NoOrder(k)
  /\ \A r \in Requests : pc[r] = "posting" /\ made[r] = None => NoOrder(key[r])

\* No POST is carried out late, and no answer is acted on late.
Prompt == late = {} /\ \A r \in Requests : pc[r] # "answered"

\* A stretch of the handler that moves the row of call r, as far as orders go: the
\* row gets the order the call made, the one it found, or none.
Turn(r, k, row, next, found) ==
  /\ ledger' = [ledger EXCEPT ![k] = row]
  /\ pc' = [pc EXCEPT ![r] = next]
  /\ key' = [key EXCEPT ![r] = k]
  /\ UNCHANGED <<made, answer, orders>>
  /\ next \in {"lookup", "posting", "polling", "done"}
  /\ pc[r] \in {"idle", "reread"} \/ key[r] = k
  /\ \/ row.order = ledger[k].order
     \/ row.order = made[r] /\ made[r] # None
     \/ row.order = found /\ found \in OrderIds
  /\ Open(row) \/ next = "posting" => Open(ledger[k]) \/ found = None

\* Where what was found comes from: nobody was asked, or the answer was true, or old.
Found(r, k, found) ==
  \/ found = "refused"
  \/ ~StaleLookup /\ found = LookupByReceipt(k)
  \/ pc[r] = "answered" /\ found = answer[r] /\ key[r] = k

\* Proceed leaves the row open, or posts, only where it was open.
LEMMA ProceedTurns ==
  ASSUME NEW r \in Requests, NEW k \in Keys, NEW row, SoundRow(row), Proceed(r, k, row)
  PROVE  \E new : \E next \in {"posting", "polling", "done"} :
           /\ ledger' = [ledger EXCEPT ![k] = new] /\ pc' = [pc EXCEPT ![r] = next]
           /\ new.order = row.order
           /\ Open(new) \/ next = "posting" => Open(row)
<1>1. CASE /\ row.order = None /\ row.status = "pending" /\ WinsCreation(row)
           /\ ledger' = [ledger EXCEPT ![k] = ClaimOrderCreation(row)]
           /\ pc' = [pc EXCEPT ![r] = "posting"]
  <2>1. ClaimOrderCreation(row).order = row.order /\ Open(row)
    BY <1>1, SoundSteps DEF Open, WinsCreation
  <2> QED BY <1>1, <2>1
<1>2. CASE /\ row.order = None /\ row.status = "pending" /\ WinsCreation(row)
           /\ ledger' = [ledger EXCEPT ![k] =
                ResolveUnknown(MarkUnknown(ClaimOrderCreation(row)), None)]
           /\ Refuse(r, 500)
  <2>1. ledger' = [ledger EXCEPT ![k] = row] /\ pc' = [pc EXCEPT ![r] = "done"]
    BY <1>2, SoundSteps DEF Refuse
  <2> QED BY <2>1
<1>3. CASE \E next \in {"polling", "done"} :
             ledger' = [ledger EXCEPT ![k] = row] /\ pc' = [pc EXCEPT ![r] = next]
  BY <1>3
<1> QED BY <1>1, <1>2, <1>3 DEF Proceed, Respond

LEMMA HandlerTurns ==
  ASSUME IInv, NEW r \in Requests,
         \/ ClaimRow(r) \/ PostSucceeds(r) \/ PostFails(r)
         \/ LookupFails(r) \/ Resolve(r) \/ ResolveStale(r)
  PROVE  \E k \in Keys : \E row, next, found : Turn(r, k, row, next, found) /\ Found(r, k, found)
<1> USE DEF IInv
<1>1. CASE ClaimRow(r)
  <2> DEFINE k == confirmed[session[r]]
             row == ClaimOrder(ledger[k], TotalOf[k])
  <2>1. /\ k \in Keys /\ TotalOf[k] \in Amounts /\ SoundRow(ledger[k])
        /\ pc[r] = "reread" /\ key' = [key EXCEPT ![r] = k]
        /\ UNCHANGED <<made, answer, orders>>
    BY <1>1, CreationAssumption DEF ClaimRow, TypeOK, SoundRows, razorpayVars
  <2>2. /\ SoundRow(row) /\ row.order = ledger[k].order
        /\ Open(row) => Open(ledger[k])
        /\ row.status = "unknown" => row = ledger[k]
    <3>1. SoundRow(row)
      BY <2>1, SoundSteps
    <3>2. CASE ledger[k].status = "absent"
      BY <2>1, <3>1, <3>2 DEF SoundRow, ClaimOrder, Absent, Empty, Open
    <3>3. CASE ledger[k].status # "absent"
      BY <3>1, <3>3 DEF ClaimOrder
    <3> QED BY <3>2, <3>3
  <2>3. CASE row.status = "unknown"
    <3>1. ledger' = [ledger EXCEPT ![k] = row] /\ pc' = [pc EXCEPT ![r] = "lookup"]
      BY <1>1, <2>1, <2>2, <2>3 DEF ClaimRow, TypeOK
    <3>2. Turn(r, k, row, "lookup", "refused")
      BY <2>1, <2>2, <3>1 DEF Turn
    <3> HIDE DEF k, row
    <3> QED BY <2>1, <3>2 DEF Found
  <2>4. CASE row.status # "unknown"
    <3>1. Proceed(r, k, row)
      BY <1>1, <2>4 DEF ClaimRow
    <3> HIDE DEF k, row
    <3>2. PICK new : \E next \in {"posting", "polling", "done"} :
            /\ ledger' = [ledger EXCEPT ![k] = new] /\ pc' = [pc EXCEPT ![r] = next]
            /\ new.order = row.order
            /\ Open(new) \/ next = "posting" => Open(row)
      BY <2>1, <2>2, <3>1, ProceedTurns
    <3>3. PICK next \in {"posting", "polling", "done"} :
            /\ ledger' = [ledger EXCEPT ![k] = new] /\ pc' = [pc EXCEPT ![r] = next]
            /\ new.order = row.order
            /\ Open(new) \/ next = "posting" => Open(row)
      BY <3>2
    <3>4. Turn(r, k, new, next, "refused")
      BY <2>1, <2>2, <3>3 DEF Turn
    <3> QED BY <2>1, <3>4 DEF Found
  <2> QED BY <2>3, <2>4
<1>2. CASE PostSucceeds(r)
  <2> DEFINE k == key[r]
             row == AttachOrder(ledger[k], made[r])
  <2>1. /\ k \in Keys /\ Held(ledger[k]) /\ SoundRow(ledger[k]) /\ made[r] \in OrderIds
        /\ made[r] # None
    BY <1>2 DEF PostSucceeds, KeyChosen, PosterHolds, SoundRows, TypeOK
  <2>2. row.order = made[r]
    BY <2>1, SoundSteps
  <2>3. /\ ledger' = [ledger EXCEPT ![k] = row] /\ pc' = [pc EXCEPT ![r] = "done"]
        /\ key' = [key EXCEPT ![r] = k] /\ UNCHANGED <<made, answer, orders>>
    BY <1>2 DEF PostSucceeds, IssueAndRespond, Respond, Refuse, callVars, razorpayVars, TypeOK
  <2> HIDE DEF row
  <2>4. Turn(r, k, row, "done", "refused")
    BY <2>1, <2>2, <2>3 DEF Turn, Open
  <2> QED BY <2>1, <2>4 DEF Found
<1>3. CASE PostFails(r)
  <2> DEFINE k == key[r]
             row == MarkUnknown(ledger[k])
  <2>1. k \in Keys /\ Held(ledger[k]) /\ SoundRow(ledger[k])
    BY <1>3 DEF PostFails, KeyChosen, PosterHolds, SoundRows, TypeOK
  <2>2. row.order = ledger[k].order /\ row.status = "unknown"
    BY <2>1 DEF Held, MarkUnknown, SoundRow, LedgerEntry
  <2>3. /\ ledger' = [ledger EXCEPT ![k] = row] /\ pc' = [pc EXCEPT ![r] = "lookup"]
        /\ key' = [key EXCEPT ![r] = k] /\ UNCHANGED <<made, answer, orders>>
    BY <1>3 DEF PostFails, TypeOK
  <2> HIDE DEF row
  <2>4. Turn(r, k, row, "lookup", "refused")
    BY <2>1, <2>2, <2>3 DEF Turn, Open
  <2> QED BY <2>1, <2>4 DEF Found
<1>4. ASSUME NEW found \in OrderIds \cup {None, "refused"}, Resolution(r, found),
             pc[r] \in {"lookup", "answered"}, Found(r, key[r], found)
      PROVE  \E row, next : Turn(r, key[r], row, next, found)
  <2> DEFINE k == key[r]
             row == IF found = "refused" THEN ledger[k] ELSE ResolveUnknown(ledger[k], found)
  <2>1. /\ k \in Keys /\ SoundRow(ledger[k]) /\ key' = [key EXCEPT ![r] = k]
        /\ UNCHANGED <<made, answer, orders>> /\ AfterLookup(r, row)
    BY <1>4 DEF Resolution, KeyChosen, SoundRows, TypeOK, callVars, razorpayVars
  <2>2. /\ SoundRow(row)
        /\ row.order = ledger[k].order \/ (row.order = found /\ found \in OrderIds)
        /\ Open(row) => Open(ledger[k]) \/ found = None
    <3>1. CASE found = "refused"
      BY <2>1, <3>1
    <3>2. CASE found # "refused"
      <4>1. found \in OrderIds \cup {None} /\ row = ResolveUnknown(ledger[k], found)
        BY <1>4, <3>2
      <4> HIDE DEF row
      <4>2. SoundRow(row)
        BY <2>1, <4>1, SoundSteps
      <4>3. CASE ledger[k].status # "unknown"
        BY <4>1, <4>2, <4>3 DEF ResolveUnknown
      <4>4. CASE ledger[k].status = "unknown" /\ found # None
        BY <2>1, <4>1, <4>2, <4>4, NoneIsNoId DEF ResolveUnknown, SoundRow, LedgerEntry, Open
      <4>5. CASE ledger[k].status = "unknown" /\ found = None
        BY <2>1, <4>1, <4>2, <4>5 DEF ResolveUnknown, SoundRow, LedgerEntry
      <4> QED BY <4>3, <4>4, <4>5
    <3> QED BY <3>1, <3>2
  <2> HIDE DEF row
  <2>3. CASE Proceed(r, k, row)
    <3>1. PICK new : \E next \in {"posting", "polling", "done"} :
            /\ ledger' = [ledger EXCEPT ![k] = new] /\ pc' = [pc EXCEPT ![r] = next]
            /\ new.order = row.order
            /\ Open(new) \/ next = "posting" => Open(row)
      BY <2>1, <2>2, <2>3, ProceedTurns
    <3>2. PICK next \in {"posting", "polling", "done"} :
            /\ ledger' = [ledger EXCEPT ![k] = new] /\ pc' = [pc EXCEPT ![r] = next]
            /\ new.order = row.order
            /\ Open(new) \/ next = "posting" => Open(row)
      BY <3>1
    <3>3. Turn(r, k, new, next, found)
      BY <2>1, <2>2, <3>2 DEF Turn
    <3> QED BY <3>3
  <2>4. CASE ~Proceed(r, k, row)
    <3>1. ledger' = [ledger EXCEPT ![k] = row] /\ pc' = [pc EXCEPT ![r] = "done"]
      BY <2>1, <2>4 DEF AfterLookup, Refuse, IssueAndRespond, Respond
    <3>2. Turn(r, k, row, "done", found)
      BY <2>1, <2>2, <3>1 DEF Turn
    <3> QED BY <3>2
  <2> QED BY <2>3, <2>4
<1>5. CASE LookupFails(r)
  <2>1. /\ Resolution(r, "refused") /\ pc[r] \in {"lookup", "answered"} /\ key[r] \in Keys
        /\ Found(r, key[r], "refused")
    BY <1>5 DEF LookupFails, KeyChosen, Found
  <2> QED BY <1>4, <2>1
<1>6. CASE Resolve(r)
  <2> DEFINE found == LookupByReceipt(key[r])
  <2>1. /\ Resolution(r, found) /\ pc[r] \in {"lookup", "answered"} /\ key[r] \in Keys
        /\ Found(r, key[r], found)
    BY <1>6 DEF Resolve, KeyChosen, Found
  <2>2. found \in OrderIds \cup {None, "refused"}
    BY <2>1, LookupAnswers
  <2> HIDE DEF found
  <2> QED BY <1>4, <2>1, <2>2
<1>7. CASE ResolveStale(r)
  <2>1. /\ Resolution(r, answer[r]) /\ pc[r] = "answered" /\ key[r] \in Keys
        /\ answer[r] \in OrderIds \cup {None, "refused"} /\ Found(r, key[r], answer[r])
    BY <1>7 DEF ResolveStale, KeyChosen, TypeOK, Found
  <2> QED BY <1>4, <2>1
<1> QED BY <1>1, <1>2, <1>3, <1>5, <1>6, <1>7

\* What GET /orders?receipt says of the orders there are.
LEMMA LookupTells ==
  ASSUME TypeOK, NEW k \in Keys
  PROVE  /\ LookupByReceipt(k) = None => NoOrder(k)
         /\ OneCart /\ LookupByReceipt(k) \in OrderIds => orders[LookupByReceipt(k)] = k
<1> DEFINE matches == {o \in OrderIds : orders[o] # None /\ Receipt(orders[o]) = Receipt(k)}
<1>1. LookupByReceipt(k) =
        IF matches = {} THEN None
        ELSE IF \E o \in matches : matches = {o}
             THEN CHOOSE o \in matches : TRUE
             ELSE "refused"
  BY DEF LookupByReceipt
<1>2. matches # {} => (CHOOSE o \in matches : TRUE) \in matches
  OBVIOUS
<1>3. matches = {} => NoOrder(k)
  BY CreationAssumption DEF NoOrder
<1>4. OneCart => \A o \in matches : orders[o] = k
  BY DEF OneCart, Receipt, TypeOK
<1>5. matches \subseteq OrderIds
  OBVIOUS
<1> HIDE DEF matches
<1>6. LookupByReceipt(k) = None => matches = {}
  BY <1>1, <1>2, <1>5, NoneIsNoId, CreationAssumption
<1>7. LookupByReceipt(k) \in OrderIds => LookupByReceipt(k) \in matches
  BY <1>1, <1>2, NoneIsNoId, CreationAssumption
<1> QED BY <1>3, <1>4, <1>6, <1>7
\* A step that gives no row another order and begins no POST.
Rests ==
  /\ UNCHANGED <<key, made, orders>>
  /\ \A k \in Keys : /\ ledger'[k].order = ledger[k].order
                     /\ Open(ledger'[k]) => Open(ledger[k])
  /\ \A r \in Requests :
       /\ pc'[r] = "posting" => pc[r] = "posting"
       /\ pc'[r] \in {"idle", "reread"} => pc[r] \in {"idle", "reread"}
       /\ pc'[r] = "answered" =>
            \/ pc[r] = "answered" /\ answer'[r] = answer[r]
            \/ StaleLookup /\ key[r] \in Keys /\ answer'[r] = LookupByReceipt(key[r])

LEMMA OthersRest ==
  ASSUME IInv,
         \/ \E r \in Requests : RefuseCart(r) \/ Poll(r) \/ Start(r) \/ RazorpayAnswers(r)
         \/ \E k \in Keys : Confirm(k) \/ Captured(k)
         \/ \E s \in Sessions : Revise(s)
         \/ UNCHANGED vars
  PROVE  Rests /\ UNCHANGED late
<1> USE DEF IInv
<1>1. ASSUME NEW r \in Requests, NEW next, UNCHANGED <<ledger, key, made, orders, late>>,
             pc' = [pc EXCEPT ![r] = next], next \notin {"posting", "idle"},
             next = "reread" => pc[r] = "idle", \A q \in Requests \ {r} : answer'[q] = answer[q],
             next = "answered" => /\ StaleLookup /\ key[r] \in Keys
                                  /\ answer'[r] = LookupByReceipt(key[r])
      PROVE  Rests /\ UNCHANGED late
  BY <1>1 DEF Rests, TypeOK
<1>2. ASSUME NEW r \in Requests, RefuseCart(r) \/ Start(r)
      PROVE  Rests /\ UNCHANGED late
  BY <1>1, <1>2 DEF RefuseCart, Start, Refuse, callVars, razorpayVars
<1>3. ASSUME NEW r \in Requests, RazorpayAnswers(r)
      PROVE  Rests /\ UNCHANGED late
  <2>1. /\ StaleLookup /\ key[r] \in Keys /\ UNCHANGED <<ledger, key, made, orders, late>>
        /\ pc' = [pc EXCEPT ![r] = "answered"]
        /\ answer' = [answer EXCEPT ![r] = LookupByReceipt(key[r])]
    BY <1>3 DEF RazorpayAnswers, KeyChosen, razorpayVars
  <2>2. answer'[r] = LookupByReceipt(key[r]) /\ \A q \in Requests \ {r} : answer'[q] = answer[q]
    BY <2>1 DEF TypeOK
  <2> QED BY <1>1, <2>1, <2>2
<1>4. ASSUME NEW r \in Requests, Poll(r)
      PROVE  Rests /\ UNCHANGED late
  <2>1. UNCHANGED <<ledger, key, made, orders, late, answer>> /\ pc[r] = "polling"
    BY <1>4 DEF Poll, razorpayVars
  <2>2. pc' = [pc EXCEPT ![r] = "done"] \/ pc' = [pc EXCEPT ![r] = "polling"]
    BY <1>4 DEF Poll, Refuse, Respond, TypeOK
  <2> QED BY <1>1, <2>1, <2>2
<1>5. ASSUME UNCHANGED <<ledger, pc, key, made, answer, orders, late>>
      PROVE  Rests /\ UNCHANGED late
  BY <1>5 DEF Rests
<1>6. ASSUME NEW k \in Keys, Captured(k)
      PROVE  Rests /\ UNCHANGED late
  <2>1. PICK p \in PaymentIds :
          ledger' = [ledger EXCEPT ![k] = FinalizeIfPending(ledger[k], p, TotalOf[k])]
    BY <1>6 DEF Captured
  <2>2. ledger[k].order # None /\ SoundRow(ledger[k]) /\ TotalOf[k] \in Amounts
        /\ UNCHANGED <<pc, key, made, answer, orders, late>>
    BY <1>6, CreationAssumption DEF Captured, SoundRows, callVars, razorpayVars
  <2> DEFINE row == FinalizeIfPending(ledger[k], p, TotalOf[k])
  <2>3. row.order = ledger[k].order
    BY <2>2, SoundSteps
  <2>4. ledger'[k] = row /\ \A j \in Keys : j # k => ledger'[j] = ledger[j]
    BY <2>1 DEF TypeOK
  <2> HIDE DEF row
  <2> QED BY <2>2, <2>3, <2>4 DEF Rests, Open
<1> QED
  BY <1>2, <1>3, <1>4, <1>5, <1>6 DEF Confirm, Revise, vars, callVars, razorpayVars

Own == OrderIsOwn /\ OwnInHand

\* Orders are made and never change hands.
LEMMA OrdersGrow ==
  ASSUME IInv, [Next]_vars
  PROVE  \A o \in OrderIds : orders[o] # None => orders'[o] = orders[o]
<1> USE DEF IInv
<1>1. ASSUME NEW r \in Requests, Continue(r) \/ Start(r) \/ RazorpayAnswers(r)
      PROVE  UNCHANGED orders
  BY <1>1 DEF Continue, RefuseCart, ClaimRow, PostSucceeds, PostFails, LookupFails, Resolve,
              ResolveStale, Resolution, Poll, Start, RazorpayAnswers, razorpayVars
<1>2. ASSUME NEW r \in Requests, RazorpayCreates(r)
      PROVE  \A o \in OrderIds : orders[o] # None => orders'[o] = orders[o]
  BY <1>2 DEF RazorpayCreates, TypeOK
<1>3. ASSUME NEW k \in Keys, RazorpayCreatesLate(k)
      PROVE  \A o \in OrderIds : orders[o] # None => orders'[o] = orders[o]
  BY <1>3 DEF RazorpayCreatesLate, TypeOK
<1>4. ASSUME \/ \E k \in Keys : Confirm(k) \/ Captured(k)
             \/ \E s \in Sessions : Revise(s)
             \/ UNCHANGED vars
      PROVE  UNCHANGED orders
  BY <1>4 DEF Confirm, Captured, Revise, vars, razorpayVars
<1> QED BY <1>1, <1>2, <1>3, <1>4 DEF Next

LEMMA TurnKeepsOwn ==
  ASSUME OneCart, IInv, Own, NEW r \in Requests, NEW k \in Keys, NEW row, NEW next, NEW found,
         Turn(r, k, row, next, found), Found(r, k, found)
  PROVE  Own'
<1> USE DEF IInv
<1>1. found \in OrderIds => orders[found] = k
  BY LookupTells, CreationAssumption DEF Found, Own, OwnInHand
<1>2. made[r] # None => orders[made[r]] = k /\ key[r] = k
  BY DEF Own, OwnInHand, Turn
<1>3. row.order # None => orders[row.order] = k
  BY <1>1, <1>2 DEF Turn, Own, OrderIsOwn
<1>4. OrderIsOwn'
  BY <1>3 DEF Turn, OrderIsOwn, Own, TypeOK
<1>5. OwnInHand'
  <2>1. /\ pc'[r] = next /\ key'[r] = k /\ made'[r] = made[r] /\ orders' = orders
        /\ \A q \in Requests \ {r} : /\ pc'[q] = pc[q] /\ key'[q] = key[q]
                                     /\ made'[q] = made[q] /\ answer'[q] = answer[q]
    BY DEF Turn, TypeOK
  <2>2. next \notin {"idle", "reread", "answered"}
    BY DEF Turn
  <2> QED BY <1>2, <2>1, <2>2 DEF Own, OwnInHand
<1> QED BY <1>4, <1>5 DEF Own

LEMMA OwnKeeps ==
  ASSUME OneCart, IInv, Own, [Next]_vars
  PROVE  Own'
<1> USE DEF IInv
<1>1. ASSUME Rests
      PROVE  Own'
  <2>1. OrderIsOwn'
    BY <1>1 DEF Rests, Own, OrderIsOwn
  <2>2. \A r \in Requests : key[r] \in Keys /\ LookupByReceipt(key[r]) \in OrderIds =>
          orders[LookupByReceipt(key[r])] = key[r]
    BY LookupTells
  <2>3. OwnInHand'
    BY <1>1, <2>2 DEF Rests, Own, OwnInHand
  <2> QED BY <2>1, <2>3 DEF Own
<1>2. ASSUME NEW r \in Requests,
             \/ ClaimRow(r) \/ PostSucceeds(r) \/ PostFails(r)
             \/ LookupFails(r) \/ Resolve(r) \/ ResolveStale(r)
      PROVE  Own'
  <2>1. PICK k \in Keys : \E row, next, found :
               Turn(r, k, row, next, found) /\ Found(r, k, found)
    BY <1>2, HandlerTurns
  <2>2. PICK row, next, found : Turn(r, k, row, next, found) /\ Found(r, k, found)
    BY <2>1
  <2> QED BY <2>2, TurnKeepsOwn
<1>3. ASSUME UNCHANGED <<ledger, pc, key, answer>>,
             \A q \in Requests : made'[q] = made[q] \/
               (pc[q] = "posting" /\ made'[q] # None /\ orders'[made'[q]] = key[q] /\ key[q] \in Keys)
      PROVE  Own'
  <2>1. \A o \in OrderIds : orders[o] # None => orders'[o] = orders[o]
    BY OrdersGrow
  <2>2. OrderIsOwn'
    BY <1>3, <2>1, CreationAssumption DEF Own, OrderIsOwn, TypeOK, LedgerEntry
  <2>3. \A q \in Requests :
          /\ made[q] # None => orders'[made[q]] = orders[made[q]]
          /\ pc[q] = "answered" /\ answer[q] \in OrderIds =>
               key[q] \in Keys /\ orders'[answer[q]] = orders[answer[q]]
    BY <2>1, CreationAssumption DEF Own, OwnInHand, TypeOK, KeyChosen
  <2>4. OwnInHand'
    BY <1>3, <2>3 DEF Own, OwnInHand
  <2> QED BY <2>2, <2>4 DEF Own
<1>4. ASSUME NEW r \in Requests, RazorpayCreates(r)
      PROVE  Own'
  <2>1. PICK o \in OrderIds : /\ orders' = [orders EXCEPT ![o] = key[r]]
                              /\ made' = [made EXCEPT ![r] = o]
    BY <1>4 DEF RazorpayCreates
  <2>2. pc[r] = "posting" /\ key[r] \in Keys /\ UNCHANGED <<ledger, pc, key, answer>>
    BY <1>4 DEF RazorpayCreates, KeyChosen
  <2>3. /\ \A q \in Requests \ {r} : made'[q] = made[q]
        /\ made'[r] # None /\ orders'[made'[r]] = key[r]
    BY <2>1, NoneIsNoId DEF TypeOK
  <2> QED BY <1>3, <2>2, <2>3
<1>5. ASSUME NEW k \in Keys, RazorpayCreatesLate(k)
      PROVE  Own'
  BY <1>3, <1>5 DEF RazorpayCreatesLate, callVars
<1>6. ASSUME NEW r \in Requests, RefuseCart(r) \/ Poll(r) \/ Start(r) \/ RazorpayAnswers(r)
      PROVE  Own'
  BY <1>1, <1>6, OthersRest
<1>7. ASSUME \/ \E k \in Keys : Confirm(k) \/ Captured(k)
             \/ \E s \in Sessions : Revise(s)
             \/ UNCHANGED vars
      PROVE  Own'
  BY <1>1, <1>7, OthersRest
<1> QED BY <1>2, <1>4, <1>5, <1>6, <1>7 DEF Next, Continue

\* With one cart per session the order on a row is one Razorpay made for that cart, on
\* any network: POSTs carried out late and answers acted on late included
\* (fetch_order_by_receipt looks up a receipt that names the session).
THEOREM CreationOrderIsOwn ==
  ASSUME OneCart
  PROVE  Spec => []OrderIsOwn
<1>1. Init => Own
  BY NoneIsNoId DEF Init, Own, OrderIsOwn, OwnInHand, Absent
<1>2. IInv /\ Own /\ [Next]_vars => Own'
  BY OwnKeeps
<1>3. Own => OrderIsOwn
  BY DEF Own
<1> QED BY <1>1, <1>2, <1>3, CreationInv, PTL DEF Spec

-----------------------------------------------------------------------------
One == OneOrderPerKey /\ NothingYet /\ Prompt

LEMMA OneKeeps ==
  ASSUME LateCreate = FALSE, StaleLookup = FALSE, IInv, One, [Next]_vars
  PROVE  One'
<1> USE DEF IInv
<1>1. ASSUME Rests, UNCHANGED late
      PROVE  One'
  BY <1>1 DEF Rests, One, OneOrderPerKey, NothingYet, NoOrder, Prompt
<1>2. ASSUME NEW r \in Requests,
             \/ ClaimRow(r) \/ PostSucceeds(r) \/ PostFails(r)
             \/ LookupFails(r) \/ Resolve(r) \/ ResolveStale(r)
      PROVE  One'
  <2>1. PICK k \in Keys : \E row, next, found :
               Turn(r, k, row, next, found) /\ Found(r, k, found)
    BY <1>2, HandlerTurns
  <2>2. PICK row, next, found : Turn(r, k, row, next, found) /\ Found(r, k, found)
    BY <2>1
  <2>3. UNCHANGED late
    BY <1>2 DEF ClaimRow, PostSucceeds, PostFails, LookupFails, Resolve, ResolveStale,
                Resolution, razorpayVars
  <2>4. /\ pc'[r] = next /\ key'[r] = k /\ made'[r] = made[r] /\ orders' = orders
        /\ ledger'[k] = row /\ \A j \in Keys : j # k => ledger'[j] = ledger[j]
        /\ \A q \in Requests \ {r} : pc'[q] = pc[q] /\ key'[q] = key[q] /\ made'[q] = made[q]
    BY <2>2 DEF Turn, TypeOK
  <2>5. found = None => NoOrder(k)
    BY <2>2, LookupTells, CreationAssumption DEF Found, One, Prompt
  <2>6. Open(row) \/ next = "posting" => NoOrder(k)
    BY <2>2, <2>5 DEF Turn, One, NothingYet
  <2>7. NothingYet'
    BY <2>4, <2>6 DEF One, NothingYet, NoOrder
  <2>8. next # "answered"
    BY <2>2 DEF Turn
  <2> QED BY <2>3, <2>4, <2>7, <2>8 DEF One, OneOrderPerKey, Prompt
<1>3. ASSUME NEW r \in Requests, RazorpayCreates(r)
      PROVE  One'
  <2>1. PICK o \in OrderIds : /\ orders' = [orders EXCEPT ![o] = key[r]]
                              /\ made' = [made EXCEPT ![r] = o]
    BY <1>3 DEF RazorpayCreates
  <2>2. /\ pc[r] = "posting" /\ made[r] = None /\ key[r] \in Keys
        /\ UNCHANGED <<ledger, pc, key, late>>
    BY <1>3 DEF RazorpayCreates, KeyChosen
  <2>3. NoOrder(key[r]) /\ Held(ledger[key[r]])
    BY <2>2 DEF One, NothingYet, PosterHolds
  <2>4. \A p \in OrderIds : orders'[p] = orders[p] \/ (p = o /\ orders'[p] = key[r])
    BY <2>1 DEF TypeOK
  <2>5. OneOrderPerKey'
    BY <2>3, <2>4 DEF One, OneOrderPerKey, NoOrder
  <2>6. ~Open(ledger[key[r]])
    BY <2>3 DEF Open, Held
  <2>7. \A q \in Requests : q # r => ~(pc[q] = "posting" /\ key[q] = key[r])
    BY <2>2 DEF OnePoster, Posting
  <2>8. made'[r] # None /\ \A q \in Requests : q # r => made'[q] = made[q]
    BY <2>1, NoneIsNoId DEF TypeOK
  <2>9. NothingYet'
    BY <2>2, <2>4, <2>6, <2>7, <2>8 DEF One, NothingYet, NoOrder
  <2> QED BY <2>2, <2>5, <2>9 DEF One, Prompt
<1>4. ASSUME NEW k \in Keys, RazorpayCreatesLate(k)
      PROVE  One'
  BY <1>4 DEF RazorpayCreatesLate, One, Prompt
<1>5. ASSUME NEW r \in Requests, RefuseCart(r) \/ Poll(r) \/ Start(r) \/ RazorpayAnswers(r)
      PROVE  One'
  BY <1>1, <1>5, OthersRest
<1>6. ASSUME \/ \E k \in Keys : Confirm(k) \/ Captured(k)
             \/ \E s \in Sessions : Revise(s)
             \/ UNCHANGED vars
      PROVE  One'
  BY <1>1, <1>6, OthersRest
<1> QED BY <1>2, <1>3, <1>4, <1>5, <1>6 DEF Next, Continue

\* Where Razorpay carries out no POST its sender has given up on, and a lookup's answer
\* is still true when it is acted on, Razorpay makes one order for a cart at most, for
\* any number of calls, sessions and carts, whatever responses are lost
\* (create_payment_order and _resolve_unknown_order).
THEOREM CreationOneOrderPerKey ==
  ASSUME LateCreate = FALSE, StaleLookup = FALSE
  PROVE  Spec => []OneOrderPerKey
<1>1. Init => One
  BY CreationAssumption DEF Init, One, OneOrderPerKey, NothingYet, NoOrder, Prompt
<1>2. IInv /\ One /\ [Next]_vars => One'
  BY OneKeeps
<1>3. One => OneOrderPerKey
  BY DEF One
<1> QED BY <1>1, <1>2, <1>3, CreationInv, PTL DEF Spec
=============================================================================
