------------------------------- MODULE Ledger -------------------------------
(***************************************************************************)
(* The ledger on its own, called by anybody in any order: every function   *)
(* of ledger.py, for every key, with every argument, one call at a time    *)
(* (the database and _LEDGER_LOCK serialise them).  What holds here holds  *)
(* whatever app.py does; what app.py must do itself is OrderCreation's.    *)
(***************************************************************************)
EXTENDS LedgerRows, Naturals

CONSTANT Keys           \* idempotency keys

VARIABLES
  ledger,     \* LEDGER: the row of each key
  winner,     \* history: what the callers told first_time = True had reported
  wins,       \* history: how many callers were told first_time = True
  licences    \* history: callers told they may create the order, not released

ledgerVars == <<ledger, winner, wins, licences>>

Payment == PaymentIds \X Amounts

Init ==
  /\ ledger = [k \in Keys |-> Absent]
  /\ winner = [k \in Keys |-> None]
  /\ wins = [k \in Keys |-> 0]
  /\ licences = [k \in Keys |-> 0]

Claim(k) ==
  /\ \E a \in Amounts : ledger' = [ledger EXCEPT ![k] = ClaimOrder(@, a)]
  /\ UNCHANGED <<winner, wins, licences>>

Attach(k) ==
  /\ \E o \in OrderIds : ledger' = [ledger EXCEPT ![k] = AttachOrder(@, o)]
  /\ UNCHANGED <<winner, wins, licences>>

ClaimCreation(k) ==
  /\ ledger' = [ledger EXCEPT ![k] = ClaimOrderCreation(@)]
  /\ licences' = IF WinsCreation(ledger[k])
                 THEN [licences EXCEPT ![k] = @ + 1] ELSE licences
  /\ UNCHANGED <<winner, wins>>

Finalize(k) ==
  \E p \in PaymentIds, a \in Amounts :
    /\ ledger' = [ledger EXCEPT ![k] = FinalizeIfPending(@, p, a)]
    /\ IF WinsFinalize(ledger[k])
       THEN /\ winner' = [winner EXCEPT ![k] = <<p, a>>]
            /\ wins' = [wins EXCEPT ![k] = @ + 1]
       ELSE UNCHANGED <<winner, wins>>
    /\ UNCHANGED licences

RejectClaim(k) ==
  /\ ledger' = [ledger EXCEPT ![k] = Reject(@)]
  /\ UNCHANGED <<winner, wins, licences>>

Doubt(k) ==
  /\ ledger' = [ledger EXCEPT ![k] = MarkUnknown(@)]
  /\ UNCHANGED <<winner, wins, licences>>

\* A release ends the licence of whoever held the claim.
Resolve(k) ==
  \E o \in OrderIds \cup {None} :
    /\ ledger' = [ledger EXCEPT ![k] = ResolveUnknown(@, o)]
    /\ licences' = IF ledger[k].status = "unknown" /\ o = None
                   THEN [licences EXCEPT ![k] = 0] ELSE licences
    /\ UNCHANGED <<winner, wins>>

Next ==
  \E k \in Keys :
    \/ Claim(k)
    \/ Attach(k)
    \/ ClaimCreation(k)
    \/ Finalize(k)
    \/ RejectClaim(k)
    \/ Doubt(k)
    \/ Resolve(k)

Spec == Init /\ [][Next]_ledgerVars

-----------------------------------------------------------------------------
TypeOK ==
  /\ ledger \in [Keys -> LedgerEntry]
  /\ winner \in [Keys -> Payment \cup {None}]
  /\ wins \in [Keys -> Nat]
  /\ licences \in [Keys -> Nat]

\* However often and in whatever order a purchase is finalized, rejected, put in
\* doubt and resolved, at most one caller is ever told it was the first -- the
\* caller that writes order history -- and from then on the row hands everybody
\* that caller's payment and amount (ledger.py: "handed back the original result").
OneWinner ==
  \A k \in Keys :
    /\ wins[k] <= 1
    /\ wins[k] = 0 <=> ledger[k].status # "captured"
    /\ wins[k] = 1 => winner[k] = <<ledger[k].payment, ledger[k].captured>>

\* Between two releases of a key at most one caller was told it may call
\* Razorpay's create-order API, and a caller holds that licence exactly while the
\* row carries the claim (ledger.py: "exactly one caller may ever attempt the
\* Razorpay call for a given key at a time").
OneLicence ==
  \A k \in Keys : licences[k] = IF ledger[k].claimed THEN 1 ELSE 0

\* What was agreed when a purchase was claimed -- its expected amount -- and what
\* was captured are never rewritten by a later call, and a captured purchase never
\* becomes anything else.
RowIsAppendOnly ==
  [][\A k \in Keys :
       /\ ledger[k].status # "absent" => ledger'[k].amount = ledger[k].amount
       /\ ledger[k].status = "captured" =>
            /\ ledger'[k].status = "captured"
            /\ ledger'[k].payment = ledger[k].payment
            /\ ledger'[k].captured = ledger[k].captured
            /\ ledger'[k].rejected = ledger[k].rejected]_ledgerVars
=============================================================================
