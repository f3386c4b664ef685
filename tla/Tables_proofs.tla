--------------------------- MODULE Tables_proofs ----------------------------
(***************************************************************************)
(* The ledger's own promises, for any keys, orders, payments and amounts.  *)
(* TypeOK, OneWinner and OneLicence are inductive together: each statement *)
(* looks at one row, so every step is settled row by row: the lemmas say   *)
(* what each statement of ledger.py does to a row, for every row.          *)
(*                                                                         *)
(* Below, the other table (Capability): a capability is spent once and     *)
(* refusals tell the truth, for any number of capabilities, operations and *)
(* threads.  The strengthening is that consumed_at and the winners agree:  *)
(* a row is marked consumed exactly when some thread has won it, and a     *)
(* thread that won named its operation.                                    *)
(***************************************************************************)
EXTENDS Ledger, Capability, TLAPS

\* The statements of ledger.py turn ledger rows into ledger rows.
LEMMA RowsStayRows ==
  ASSUME NEW entry \in LedgerEntry
  PROVE  /\ \A a \in Amounts : ClaimOrder(entry, a) \in LedgerEntry
         /\ \A o \in OrderIds : AttachOrder(entry, o) \in LedgerEntry
         /\ ClaimOrderCreation(entry) \in LedgerEntry
         /\ \A p \in PaymentIds, a \in Amounts :
              FinalizeIfPending(entry, p, a) \in LedgerEntry
         /\ Reject(entry) \in LedgerEntry
         /\ MarkUnknown(entry) \in LedgerEntry
         /\ \A o \in OrderIds \cup {None} : ResolveUnknown(entry, o) \in LedgerEntry
<1> USE DEF LedgerEntry, Status
<1>1. \A a \in Amounts : ClaimOrder(entry, a) \in LedgerEntry
  BY DEF ClaimOrder, Absent
<1>2. \A o \in OrderIds : AttachOrder(entry, o) \in LedgerEntry
  BY DEF AttachOrder
<1>3. ClaimOrderCreation(entry) \in LedgerEntry
  BY DEF ClaimOrderCreation
<1>4. \A p \in PaymentIds, a \in Amounts : FinalizeIfPending(entry, p, a) \in LedgerEntry
  BY DEF FinalizeIfPending
<1>5. Reject(entry) \in LedgerEntry
  BY DEF Reject
<1>6. MarkUnknown(entry) \in LedgerEntry
  BY DEF MarkUnknown
<1>7. \A o \in OrderIds \cup {None} : ResolveUnknown(entry, o) \in LedgerEntry
  BY DEF ResolveUnknown
<1> HIDE DEF LedgerEntry, Status
<1> QED BY <1>1, <1>2, <1>3, <1>4, <1>5, <1>6, <1>7

\* What no statement of ledger.py changes: the columns a captured row was given,
\* the agreed amount, and a key without a row has no columns at all.
Kept(entry, after) ==
  /\ entry.status # "absent" => after.status # "absent" /\ after.amount = entry.amount
  /\ entry.status = "captured" =>
       /\ after.status = "captured"
       /\ after.payment = entry.payment
       /\ after.captured = entry.captured
       /\ after.rejected = entry.rejected

Empty(entry) == entry.status = "absent" => entry = Absent

\* No statement of ledger.py touches what Kept names.
LEMMA RowsKeep ==
  ASSUME NEW entry \in LedgerEntry
  PROVE  /\ \A a \in Amounts : Kept(entry, ClaimOrder(entry, a))
         /\ \A o \in OrderIds : Kept(entry, AttachOrder(entry, o))
         /\ Kept(entry, ClaimOrderCreation(entry))
         /\ \A p \in PaymentIds, a \in Amounts : Kept(entry, FinalizeIfPending(entry, p, a))
         /\ Kept(entry, Reject(entry))
         /\ Kept(entry, MarkUnknown(entry))
         /\ \A o \in OrderIds \cup {None} : Kept(entry, ResolveUnknown(entry, o))
BY DEF Kept, LedgerEntry, ClaimOrder, Absent, AttachOrder, ClaimOrderCreation,
       WinsCreation, FinalizeIfPending, WinsFinalize, Reject, MarkUnknown, ResolveUnknown

\* An UPDATE of a key that has no row makes none.
LEMMA EmptyStaysEmpty ==
  ASSUME NEW entry \in LedgerEntry, Empty(entry)
  PROVE  /\ \A a \in Amounts : Empty(ClaimOrder(entry, a))
         /\ \A o \in OrderIds : Empty(AttachOrder(entry, o))
         /\ Empty(ClaimOrderCreation(entry))
         /\ \A p \in PaymentIds, a \in Amounts : Empty(FinalizeIfPending(entry, p, a))
         /\ Empty(Reject(entry))
         /\ Empty(MarkUnknown(entry))
         /\ \A o \in OrderIds \cup {None} : Empty(ResolveUnknown(entry, o))
BY DEF Empty, LedgerEntry, ClaimOrder, Absent, AttachOrder, ClaimOrderCreation,
       WinsCreation, FinalizeIfPending, WinsFinalize, Reject, MarkUnknown, ResolveUnknown

\* The claim on a row is taken by ClaimOrderCreation and given up by a release.
LEMMA ClaimChanges ==
  ASSUME NEW entry \in LedgerEntry, Empty(entry)
  PROVE  /\ \A a \in Amounts : ClaimOrder(entry, a).claimed = entry.claimed
         /\ \A o \in OrderIds : AttachOrder(entry, o).claimed = entry.claimed
         /\ ClaimOrderCreation(entry).claimed = (entry.claimed \/ entry.status # "absent")
         /\ \A p \in PaymentIds, a \in Amounts :
              FinalizeIfPending(entry, p, a).claimed = entry.claimed
         /\ Reject(entry).claimed = entry.claimed
         /\ MarkUnknown(entry).claimed = entry.claimed
         /\ \A o \in OrderIds \cup {None} :
              ResolveUnknown(entry, o).claimed =
                (entry.claimed /\ ~(entry.status = "unknown" /\ o = None))
BY DEF Empty, LedgerEntry, ClaimOrder, Absent, AttachOrder, ClaimOrderCreation,
       WinsCreation, FinalizeIfPending, WinsFinalize, Reject, MarkUnknown, ResolveUnknown

Uncaptured(entry, after) == after.status = "captured" => entry.status = "captured"

\* Only FinalizeIfPending captures, and it captures what it is given.
LEMMA OnlyFinalizeCaptures ==
  ASSUME NEW entry \in LedgerEntry
  PROVE  /\ \A a \in Amounts : Uncaptured(entry, ClaimOrder(entry, a))
         /\ \A o \in OrderIds : Uncaptured(entry, AttachOrder(entry, o))
         /\ Uncaptured(entry, ClaimOrderCreation(entry))
         /\ Uncaptured(entry, Reject(entry))
         /\ Uncaptured(entry, MarkUnknown(entry))
         /\ \A o \in OrderIds \cup {None} : Uncaptured(entry, ResolveUnknown(entry, o))
         /\ \A p \in PaymentIds, a \in Amounts :
              WinsFinalize(entry) =>
                /\ entry.status # "captured"
                /\ FinalizeIfPending(entry, p, a).status = "captured"
                /\ FinalizeIfPending(entry, p, a).payment = p
                /\ FinalizeIfPending(entry, p, a).captured = a
BY DEF Uncaptured, LedgerEntry, ClaimOrder, Absent, AttachOrder, ClaimOrderCreation,
       WinsCreation, FinalizeIfPending, WinsFinalize, Reject, MarkUnknown, ResolveUnknown

-----------------------------------------------------------------------------
EmptyRows == \A k \in Keys : Empty(ledger[k])

Inv == TypeOK /\ EmptyRows /\ OneWinner /\ OneLicence

\* A statement that captures nothing and leaves the claim alone.
LEMMA QuietStep ==
  ASSUME Inv, NEW k \in Keys, NEW entry \in LedgerEntry,
         ledger' = [ledger EXCEPT ![k] = entry],
         Kept(ledger[k], entry), Empty(entry), Uncaptured(ledger[k], entry),
         entry.claimed = ledger[k].claimed,
         UNCHANGED <<winner, wins, licences>>
  PROVE  Inv'
<1>1. TypeOK' /\ EmptyRows'
  BY DEF Inv, TypeOK, EmptyRows
<1>2. OneWinner'
  BY DEF Inv, TypeOK, OneWinner, Kept, Uncaptured
<1>3. OneLicence'
  BY DEF Inv, TypeOK, OneLicence
<1> QED BY <1>1, <1>2, <1>3 DEF Inv

\* Whatever is called, in whatever order, the ledger keeps well-formed rows, one
\* winner and one licence per key (ledger.py's "database as referee").
THEOREM LedgerInv == Spec => []Inv
<1>1. Init => Inv
  <2> SUFFICES ASSUME Init PROVE Inv
    OBVIOUS
  <2>1. Absent \in LedgerEntry
    BY DEF Absent, LedgerEntry, Status
  <2>2. TypeOK /\ EmptyRows
    BY <2>1 DEF Init, TypeOK, EmptyRows, Empty
  <2>3. OneWinner /\ OneLicence
    BY DEF Init, OneWinner, OneLicence, Absent
  <2> QED BY <2>2, <2>3 DEF Inv
<1>2. Inv /\ [Next]_ledgerVars => Inv'
  <2> SUFFICES ASSUME Inv, [Next]_ledgerVars PROVE Inv'
    OBVIOUS
  <2>0. ASSUME NEW k \in Keys PROVE ledger[k] \in LedgerEntry /\ Empty(ledger[k])
    BY DEF Inv, TypeOK, EmptyRows
  <2>1. ASSUME NEW k \in Keys, Claim(k) PROVE Inv'
    <3>1. PICK a \in Amounts : ledger' = [ledger EXCEPT ![k] = ClaimOrder(ledger[k], a)]
      BY <2>1 DEF Claim
    <3> DEFINE entry == ClaimOrder(ledger[k], a)
    <3>2. /\ entry \in LedgerEntry /\ Kept(ledger[k], entry) /\ Empty(entry)
          /\ Uncaptured(ledger[k], entry) /\ entry.claimed = ledger[k].claimed
      <4>1. entry \in LedgerEntry
        BY <2>0, RowsStayRows
      <4>2. Kept(ledger[k], entry) /\ Empty(entry)
        BY <2>0, RowsKeep, EmptyStaysEmpty
      <4>3. Uncaptured(ledger[k], entry)
        BY <2>0, OnlyFinalizeCaptures
      <4> QED BY <2>0, <4>1, <4>2, <4>3, ClaimChanges
    <3>3. ledger' = [ledger EXCEPT ![k] = entry] /\ UNCHANGED <<winner, wins, licences>>
      BY <2>1, <3>1 DEF Claim
    <3> HIDE DEF entry
    <3> QED BY <3>2, <3>3, QuietStep
  <2>2. ASSUME NEW k \in Keys, Attach(k) PROVE Inv'
    <3>1. PICK o \in OrderIds : ledger' = [ledger EXCEPT ![k] = AttachOrder(ledger[k], o)]
      BY <2>2 DEF Attach
    <3> DEFINE entry == AttachOrder(ledger[k], o)
    <3>2. /\ entry \in LedgerEntry /\ Kept(ledger[k], entry) /\ Empty(entry)
          /\ Uncaptured(ledger[k], entry) /\ entry.claimed = ledger[k].claimed
      <4>1. entry \in LedgerEntry
        BY <2>0, RowsStayRows
      <4>2. Kept(ledger[k], entry) /\ Empty(entry)
        BY <2>0, RowsKeep, EmptyStaysEmpty
      <4>3. Uncaptured(ledger[k], entry)
        BY <2>0, OnlyFinalizeCaptures
      <4> QED BY <2>0, <4>1, <4>2, <4>3, ClaimChanges
    <3>3. ledger' = [ledger EXCEPT ![k] = entry] /\ UNCHANGED <<winner, wins, licences>>
      BY <2>2, <3>1 DEF Attach
    <3> HIDE DEF entry
    <3> QED BY <3>2, <3>3, QuietStep
  <2>3. ASSUME NEW k \in Keys, ClaimCreation(k) PROVE Inv'
    <3> DEFINE entry == ClaimOrderCreation(ledger[k])
    <3>1. /\ entry \in LedgerEntry /\ Kept(ledger[k], entry) /\ Empty(entry)
          /\ Uncaptured(ledger[k], entry)
          /\ entry.claimed = (ledger[k].claimed \/ ledger[k].status # "absent")
      <4>1. entry \in LedgerEntry
        BY <2>0, RowsStayRows
      <4>2. Kept(ledger[k], entry) /\ Empty(entry)
        BY <2>0, RowsKeep, EmptyStaysEmpty
      <4>3. Uncaptured(ledger[k], entry)
        BY <2>0, OnlyFinalizeCaptures
      <4> QED BY <2>0, <4>1, <4>2, <4>3, ClaimChanges
    <3>2. ledger' = [ledger EXCEPT ![k] = entry] /\ UNCHANGED <<winner, wins>>
      BY <2>3 DEF ClaimCreation
    <3> HIDE DEF entry
    <3>3. TypeOK' /\ EmptyRows'
      BY <2>3, <3>1, <3>2 DEF ClaimCreation, Inv, TypeOK, EmptyRows
    <3>4. OneWinner'
      BY <3>1, <3>2 DEF Inv, TypeOK, OneWinner, Kept, Uncaptured
    <3>5. OneLicence'
      BY <2>0, <2>3, <3>1, <3>2 DEF ClaimCreation, Inv, TypeOK, OneLicence, WinsCreation,
                                    Empty, Absent, LedgerEntry
    <3> QED BY <3>3, <3>4, <3>5 DEF Inv
  <2>4. ASSUME NEW k \in Keys, Finalize(k) PROVE Inv'
    <3>1. PICK p \in PaymentIds, a \in Amounts :
            /\ ledger' = [ledger EXCEPT ![k] = FinalizeIfPending(ledger[k], p, a)]
            /\ IF WinsFinalize(ledger[k])
               THEN /\ winner' = [winner EXCEPT ![k] = <<p, a>>]
                    /\ wins' = [wins EXCEPT ![k] = @ + 1]
               ELSE UNCHANGED <<winner, wins>>
            /\ UNCHANGED licences
      BY <2>4 DEF Finalize
    <3> DEFINE entry == FinalizeIfPending(ledger[k], p, a)
    <3>2. /\ entry \in LedgerEntry /\ Kept(ledger[k], entry) /\ Empty(entry)
          /\ entry.claimed = ledger[k].claimed
      BY <2>0, RowsStayRows, RowsKeep, EmptyStaysEmpty, ClaimChanges
    <3>3. WinsFinalize(ledger[k]) =>
            /\ ledger[k].status # "captured" /\ entry.status = "captured"
            /\ entry.payment = p /\ entry.captured = a
      BY <2>0, OnlyFinalizeCaptures
    <3>4. ~WinsFinalize(ledger[k]) => entry = ledger[k]
      BY DEF FinalizeIfPending
    <3>5. ledger' = [ledger EXCEPT ![k] = entry]
      BY <3>1
    <3> HIDE DEF entry
    <3>6. TypeOK' /\ EmptyRows' /\ OneLicence'
      BY <3>1, <3>2, <3>5 DEF Inv, TypeOK, EmptyRows, OneLicence, Payment
    <3>7. CASE WinsFinalize(ledger[k])
      <4>1. wins[k] = 0
        BY <3>3, <3>7 DEF Inv, OneWinner
      <4>2. OneWinner'
        BY <3>1, <3>3, <3>5, <3>7, <4>1 DEF Inv, TypeOK, OneWinner
      <4> QED BY <3>6, <4>2 DEF Inv
    <3>8. CASE ~WinsFinalize(ledger[k])
      BY <3>1, <3>4, <3>5, <3>6, <3>8 DEF Inv, TypeOK, OneWinner
    <3> QED BY <3>7, <3>8
  <2>5. ASSUME NEW k \in Keys, RejectClaim(k) PROVE Inv'
    <3>1. ledger' = [ledger EXCEPT ![k] = Reject(ledger[k])]
      BY <2>5 DEF RejectClaim
    <3> DEFINE entry == Reject(ledger[k])
    <3>2. /\ entry \in LedgerEntry /\ Kept(ledger[k], entry) /\ Empty(entry)
          /\ Uncaptured(ledger[k], entry) /\ entry.claimed = ledger[k].claimed
      <4>1. entry \in LedgerEntry
        BY <2>0, RowsStayRows
      <4>2. Kept(ledger[k], entry) /\ Empty(entry)
        BY <2>0, RowsKeep, EmptyStaysEmpty
      <4>3. Uncaptured(ledger[k], entry)
        BY <2>0, OnlyFinalizeCaptures
      <4> QED BY <2>0, <4>1, <4>2, <4>3, ClaimChanges
    <3>3. ledger' = [ledger EXCEPT ![k] = entry] /\ UNCHANGED <<winner, wins, licences>>
      BY <2>5, <3>1 DEF RejectClaim
    <3> HIDE DEF entry
    <3> QED BY <3>2, <3>3, QuietStep
  <2>6. ASSUME NEW k \in Keys, Doubt(k) PROVE Inv'
    <3>1. ledger' = [ledger EXCEPT ![k] = MarkUnknown(ledger[k])]
      BY <2>6 DEF Doubt
    <3> DEFINE entry == MarkUnknown(ledger[k])
    <3>2. /\ entry \in LedgerEntry /\ Kept(ledger[k], entry) /\ Empty(entry)
          /\ Uncaptured(ledger[k], entry) /\ entry.claimed = ledger[k].claimed
      <4>1. entry \in LedgerEntry
        BY <2>0, RowsStayRows
      <4>2. Kept(ledger[k], entry) /\ Empty(entry)
        BY <2>0, RowsKeep, EmptyStaysEmpty
      <4>3. Uncaptured(ledger[k], entry)
        BY <2>0, OnlyFinalizeCaptures
      <4> QED BY <2>0, <4>1, <4>2, <4>3, ClaimChanges
    <3>3. ledger' = [ledger EXCEPT ![k] = entry] /\ UNCHANGED <<winner, wins, licences>>
      BY <2>6, <3>1 DEF Doubt
    <3> HIDE DEF entry
    <3> QED BY <3>2, <3>3, QuietStep
  <2>7. ASSUME NEW k \in Keys, Resolve(k) PROVE Inv'
    <3>1. PICK o \in OrderIds \cup {None} :
            /\ ledger' = [ledger EXCEPT ![k] = ResolveUnknown(ledger[k], o)]
            /\ licences' = IF ledger[k].status = "unknown" /\ o = None
                           THEN [licences EXCEPT ![k] = 0] ELSE licences
            /\ UNCHANGED <<winner, wins>>
      BY <2>7 DEF Resolve
    <3> DEFINE entry == ResolveUnknown(ledger[k], o)
    <3>2. /\ entry \in LedgerEntry /\ Kept(ledger[k], entry) /\ Empty(entry)
          /\ Uncaptured(ledger[k], entry)
          /\ entry.claimed = (ledger[k].claimed /\ ~(ledger[k].status = "unknown" /\ o = None))
      <4>1. entry \in LedgerEntry
        BY <2>0, RowsStayRows
      <4>2. Kept(ledger[k], entry) /\ Empty(entry)
        BY <2>0, RowsKeep, EmptyStaysEmpty
      <4>3. Uncaptured(ledger[k], entry)
        BY <2>0, OnlyFinalizeCaptures
      <4> QED BY <2>0, <4>1, <4>2, <4>3, ClaimChanges
    <3>3. ledger' = [ledger EXCEPT ![k] = entry]
      BY <3>1
    <3> HIDE DEF entry
    <3>4. TypeOK' /\ EmptyRows'
      BY <3>1, <3>2, <3>3 DEF Inv, TypeOK, EmptyRows
    <3>5. OneWinner'
      BY <3>1, <3>2, <3>3 DEF Inv, TypeOK, OneWinner, Kept, Uncaptured
    <3>6. OneLicence'
      BY <3>1, <3>2, <3>3 DEF Inv, TypeOK, OneLicence
    <3> QED BY <3>4, <3>5, <3>6 DEF Inv
  <2>8. CASE UNCHANGED ledgerVars
    BY <2>8 DEF ledgerVars, Inv, TypeOK, EmptyRows, OneWinner, OneLicence
  <2> QED BY <2>1, <2>2, <2>3, <2>4, <2>5, <2>6, <2>7, <2>8 DEF Next
<1> QED BY <1>1, <1>2, PTL DEF Spec

\* The rows and the history keep their types, for every value of the constants.
THEOREM LedgerTypeOK == Spec => []TypeOK
BY LedgerInv, PTL DEF Inv

\* At most one caller is told it finalized a purchase, and the row keeps what it
\* reported.
THEOREM LedgerOneWinner == Spec => []OneWinner
BY LedgerInv, PTL DEF Inv

\* At most one caller at a time is told it may create a purchase's order.
THEOREM LedgerOneLicence == Spec => []OneLicence
BY LedgerInv, PTL DEF Inv

\* No call rewrites the agreed amount of a purchase, nor anything of a captured one.
THEOREM LedgerAppendOnly == Spec => RowIsAppendOnly
<1>1. TypeOK /\ [Next]_ledgerVars =>
        [\A k \in Keys : Kept(ledger[k], ledger'[k])]_ledgerVars
  <2> SUFFICES ASSUME TypeOK, NEW j \in Keys, NEW k \in Keys,
                      \/ Claim(j) \/ Attach(j) \/ ClaimCreation(j) \/ Finalize(j)
                      \/ RejectClaim(j) \/ Doubt(j) \/ Resolve(j)
               PROVE  Kept(ledger[k], ledger'[k])
    BY DEF Next
  <2>1. ledger[j] \in LedgerEntry /\ Kept(ledger[k], ledger[k])
    BY DEF TypeOK, Kept
  <2>2. PICK entry : ledger' = [ledger EXCEPT ![j] = entry] /\ Kept(ledger[j], entry)
    BY <2>1, RowsKeep
       DEF Claim, Attach, ClaimCreation, Finalize, RejectClaim, Doubt, Resolve
  <2> QED BY <2>1, <2>2 DEF TypeOK
<1>2. [\A k \in Keys : Kept(ledger[k], ledger'[k])]_ledgerVars =>
      [\A k \in Keys :
         /\ ledger[k].status # "absent" => ledger'[k].amount = ledger[k].amount
         /\ ledger[k].status = "captured" =>
              /\ ledger'[k].status = "captured"
              /\ ledger'[k].payment = ledger[k].payment
              /\ ledger'[k].captured = ledger[k].captured
              /\ ledger'[k].rejected = ledger[k].rejected]_ledgerVars
  BY DEF Kept
<1> QED BY <1>1, <1>2, LedgerTypeOK, PTL DEF Spec, RowIsAppendOnly

-----------------------------------------------------------------------------
(* The table of capabilities (Capability).                                   *)

Undecided == \A t \in Threads : pc[t] # "done" => verdict[t] = "none"

MarkedByWinner ==
  \A c \in Caps :
    row[c] # Null /\ row[c].consumed # Null => \E t \in Threads : Won(t, c)

WinnerMarks ==
  \A c \in Caps : \A t \in Threads :
    Won(t, c) => row[c] # Null /\ row[c].consumed # Null

\* The clock read before the lock is a past one.
ReadPast == \A t \in Threads : read[t] <= now

SpentInv ==
  /\ CapabilityTypeOK /\ Undecided /\ ReadPast
  /\ MarkedByWinner /\ WinnerMarks /\ SpentOnce /\ ReasonIsTrue

\* A step that decides no call and keeps every row that is there.
LEMMA Undisturbed ==
  ASSUME SpentInv, CapabilityTypeOK', ReadPast', now' >= now,
         UNCHANGED <<asked, verdict>>,
         \A t \in Threads : pc'[t] # "done" => pc[t] # "done",
         \A c \in Caps : row[c] # Null => row'[c] = row[c],
         \A c \in Caps : row'[c] # Null /\ row'[c].consumed # Null => row[c] # Null
  PROVE  SpentInv'
<1> USE DEF SpentInv
<1>1. \A c \in Caps : \A t \in Threads : Won(t, c)' <=> Won(t, c)
  BY DEF Won
<1>2. Undecided'
  BY DEF Undecided
<1>3. MarkedByWinner' /\ WinnerMarks' /\ SpentOnce'
  BY <1>1 DEF MarkedByWinner, WinnerMarks, SpentOnce
<1>4. ReasonIsTrue'
  <2> SUFFICES ASSUME NEW t \in Threads
               PROVE  LET c == asked[t].cap
                      IN  /\ verdict[t] = "already_consumed" => \E u \in Threads : Won(u, c)'
                          /\ verdict[t] = "expired" => row'[c] # Null /\ row'[c].expires <= now'
                          /\ verdict[t] = "wrong_operation" =>
                               row'[c] # Null /\ row'[c].operation # asked[t].operation
    BY DEF ReasonIsTrue
  <2> DEFINE c == asked[t].cap
  <2>1. c \in Caps
    BY DEF CapabilityTypeOK
  <2>2. verdict[t] = "already_consumed" => \E u \in Threads : Won(u, c)
    BY DEF ReasonIsTrue
  <2>3. verdict[t] = "expired" => row[c] # Null /\ row[c].expires <= now /\ row[c].expires \in Nat
    BY <2>1 DEF ReasonIsTrue, CapabilityTypeOK, ExecutionCapability
  <2>4. verdict[t] = "wrong_operation" => row[c] # Null /\ row[c].operation # asked[t].operation
    BY DEF ReasonIsTrue
  <2> QED BY <1>1, <2>1, <2>2, <2>3, <2>4 DEF CapabilityTypeOK
<1> QED BY <1>2, <1>3, <1>4

\* The step under the lock, won or refused.
LEMMA ConsumeKeeps ==
  ASSUME SpentInv, NEW t \in Threads, ConsumeCapability(t)
  PROVE  SpentInv'
<1> USE DEF SpentInv
<1> DEFINE c == asked[t].cap
           operation == asked[t].operation
<1>1. /\ c \in Caps /\ operation \in Operations /\ verdict[t] = "none"
      /\ read[t] \in Nat /\ read[t] # Null
  BY CapabilityAssumption DEF CapabilityTypeOK, ConsumeCapability, Undecided
<1>2. /\ pc[t] = "waiting" /\ pc' = [pc EXCEPT ![t] = "done"] /\ UNCHANGED <<now, asked, read>>
  BY DEF ConsumeCapability
<1>3. CASE Consumable(row[c], operation, read[t])
  <2>1. /\ row' = [row EXCEPT ![c].consumed = read[t]]
        /\ verdict' = [verdict EXCEPT ![t] = "won"]
    BY <1>3 DEF ConsumeCapability
  <2>2. /\ row[c] \in ExecutionCapability /\ row[c].operation = operation
        /\ row[c].consumed = Null
    BY <1>1, <1>3 DEF Consumable, CapabilityTypeOK
  <2>3. /\ row'[c] = [row[c] EXCEPT !.consumed = read[t]] /\ row'[c] \in ExecutionCapability
        /\ row'[c] # Null /\ row'[c].consumed # Null
        /\ row'[c].operation = operation /\ row'[c].expires = row[c].expires
        /\ \A d \in Caps : d # c => row'[d] = row[d]
    BY <1>1, <2>1, <2>2, CapabilityAssumption DEF CapabilityTypeOK, ExecutionCapability
  <2>4. CapabilityTypeOK'
    BY <1>1, <1>2, <2>1, <2>3 DEF CapabilityTypeOK, Verdicts
  <2>5. Undecided'
    BY <1>2, <2>1 DEF Undecided, CapabilityTypeOK
  <2>6. /\ Won(t, c)'
        /\ \A u \in Threads : u # t => verdict'[u] = verdict[u]
        /\ \A u \in Threads, d \in Caps : u # t \/ d # c => (Won(u, d)' <=> Won(u, d))
    BY <1>1, <1>2, <2>1 DEF Won, CapabilityTypeOK
  <2>7. \A u \in Threads : ~Won(u, c)
    BY <1>1, <2>2 DEF WinnerMarks
  <2>8. MarkedByWinner' /\ WinnerMarks'
    <3>1. ASSUME NEW d \in Caps, row'[d] # Null, row'[d].consumed # Null
          PROVE  \E u \in Threads : Won(u, d)'
      <4>1. CASE d = c
        BY <1>2, <2>6, <4>1
      <4>2. CASE d # c
        BY <2>3, <2>6, <3>1, <4>2 DEF MarkedByWinner
      <4> QED BY <4>1, <4>2
    <3>2. ASSUME NEW d \in Caps, NEW u \in Threads, Won(u, d)'
          PROVE  row'[d] # Null /\ row'[d].consumed # Null
      <4>1. CASE d = c
        BY <2>3, <4>1
      <4>2. CASE d # c
        BY <2>3, <2>6, <3>2, <4>2 DEF WinnerMarks
      <4> QED BY <4>1, <4>2
    <3> QED BY <3>1, <3>2 DEF MarkedByWinner, WinnerMarks
  <2>9. SpentOnce'
    <3> SUFFICES ASSUME NEW d \in Caps, NEW u \in Threads, NEW v \in Threads, Won(u, d)'
                 PROVE  /\ row'[d] # Null /\ row'[d].operation = asked[u].operation
                        /\ Won(v, d)' => u = v
      BY <1>2 DEF SpentOnce
    <3>1. CASE d = c
      <4>1. u = t
        BY <2>6, <2>7, <3>1
      <4> QED BY <2>3, <2>6, <2>7, <3>1, <4>1
    <3>2. CASE d # c
      BY <2>3, <2>6, <3>2 DEF SpentOnce
    <3> QED BY <3>1, <3>2
  <2>10. ReasonIsTrue'
    <3> SUFFICES ASSUME NEW u \in Threads, verdict'[u] # "won"
                 PROVE  LET d == asked[u].cap
                        IN  /\ verdict'[u] = "already_consumed" => \E v \in Threads : Won(v, d)'
                            /\ verdict'[u] = "expired" => row'[d] # Null /\ row'[d].expires <= now
                            /\ verdict'[u] = "wrong_operation" =>
                                 row'[d] # Null /\ row'[d].operation # asked[u].operation
      BY <1>2 DEF ReasonIsTrue
    <3> DEFINE d == asked[u].cap
    <3>1. u # t /\ verdict'[u] = verdict[u] /\ d \in Caps
      BY <2>1, <2>6 DEF CapabilityTypeOK
    <3>2. row[d] # Null => row'[d] # Null /\ row'[d].expires = row[d].expires
                             /\ row'[d].operation = row[d].operation
      BY <2>2, <2>3, <3>1
    <3>3. ASSUME NEW v \in Threads, Won(v, d) PROVE Won(v, d)'
      BY <1>2, <2>6, <2>7, <3>1, <3>3
    <3> QED BY <3>1, <3>2, <3>3 DEF ReasonIsTrue
  <2> QED BY <1>2, <2>4, <2>5, <2>8, <2>9, <2>10 DEF ReadPast
<1>4. CASE ~Consumable(row[c], operation, read[t])
  <2>1. /\ UNCHANGED row
        /\ verdict' = [verdict EXCEPT ![t] = Reason(row[c], operation, read[t])]
    BY <1>4 DEF ConsumeCapability
  <2>2. Reason(row[c], operation, read[t]) \in Verdicts \ {"none", "won"}
    BY DEF Reason, Verdicts
  <2>3. CapabilityTypeOK'
    BY <1>2, <2>1, <2>2 DEF CapabilityTypeOK
  <2>4. \A u \in Threads, d \in Caps : Won(u, d)' <=> Won(u, d)
    BY <1>1, <1>2, <2>1, <2>2 DEF Won, CapabilityTypeOK
  <2>5. Undecided' /\ MarkedByWinner' /\ WinnerMarks' /\ SpentOnce'
    BY <1>2, <2>1, <2>4 DEF Undecided, MarkedByWinner, WinnerMarks, SpentOnce, CapabilityTypeOK
  <2>6. ReasonIsTrue'
    <3> SUFFICES ASSUME NEW u \in Threads
                 PROVE  LET d == asked[u].cap
                        IN  /\ verdict'[u] = "already_consumed" => \E v \in Threads : Won(v, d)
                            /\ verdict'[u] = "expired" => row[d] # Null /\ row[d].expires <= now
                            /\ verdict'[u] = "wrong_operation" =>
                                 row[d] # Null /\ row[d].operation # asked[u].operation
      BY <1>2, <2>1, <2>4 DEF ReasonIsTrue, CapabilityTypeOK
    <3>1. CASE u # t
      <4>1. verdict'[u] = verdict[u]
        BY <2>1, <3>1 DEF CapabilityTypeOK
      <4> QED BY <4>1 DEF ReasonIsTrue
    <3>2. CASE u = t
      <4>1. verdict'[u] = Reason(row[c], operation, read[t])
        BY <2>1, <3>2 DEF CapabilityTypeOK
      <4>2. verdict'[u] = "expired" => row[c] # Null /\ row[c].expires <= now
        BY <1>1, <4>1 DEF Reason, CapabilityTypeOK, ExecutionCapability, ReadPast
      <4>3. verdict'[u] = "wrong_operation" => row[c] # Null /\ row[c].operation # operation
        BY <4>1 DEF Reason
      <4>4. verdict'[u] = "already_consumed" =>
              row[c] # Null /\ row[c].consumed # Null
        <5> SUFFICES ASSUME verdict'[u] = "already_consumed"
                     PROVE  row[c] # Null /\ row[c].consumed # Null
          OBVIOUS
        <5>1. row[c] # Null /\ row[c].operation = operation /\ ~(row[c].expires <= read[t])
          BY <4>1 DEF Reason
        <5>2. row[c].expires \in Nat
          BY <1>1, <5>1 DEF CapabilityTypeOK, ExecutionCapability
        <5> QED BY <1>1, <1>4, <5>1, <5>2 DEF Consumable
      <4> QED BY <1>1, <3>2, <4>2, <4>3, <4>4 DEF MarkedByWinner
    <3> QED BY <3>1, <3>2
  <2> QED BY <1>2, <2>3, <2>5, <2>6 DEF ReadPast
<1> QED BY <1>3, <1>4

\* The inductive invariant holds of every use of the module.
THEOREM CapabilityKeeps == CapabilitySpec => []SpentInv
<1>1. CapabilityInit => SpentInv
  BY CapabilityAssumption
     DEF CapabilityInit, SpentInv, CapabilityTypeOK, Verdicts, Undecided, ReadPast, MarkedByWinner,
         WinnerMarks, SpentOnce, ReasonIsTrue, Won
<1>2. SpentInv /\ [CapabilityNext]_capabilityVars => SpentInv'
  <2> SUFFICES ASSUME SpentInv, [CapabilityNext]_capabilityVars PROVE SpentInv'
    OBVIOUS
  <2> USE DEF SpentInv
  <2>1. CASE Tick
    <3>1. CapabilityTypeOK' /\ ReadPast' /\ now' >= now
      BY <2>1, CapabilityAssumption DEF Tick, CapabilityTypeOK, ReadPast
    <3> QED BY <2>1, <3>1, Undisturbed DEF Tick
  <2>2. ASSUME NEW c \in Caps, IssueCapability(c) PROVE SpentInv'
    <3>1. PICK op \in Operations :
            row' = [row EXCEPT ![c] = [operation |-> op, expires |-> now + TTL, consumed |-> Null]]
      BY <2>2 DEF IssueCapability
    <3>2. row[c] = Null /\ UNCHANGED <<now, pc, asked, read, verdict>>
      BY <2>2 DEF IssueCapability
    <3>3. CapabilityTypeOK'
      BY <3>1, <3>2, CapabilityAssumption DEF CapabilityTypeOK, ExecutionCapability
    <3>4. /\ \A d \in Caps : row[d] # Null => row'[d] = row[d]
          /\ \A d \in Caps : row'[d] # Null /\ row'[d].consumed # Null => row[d] # Null
      BY <3>1, <3>2 DEF CapabilityTypeOK
    <3>5. ReadPast' /\ now' >= now
      BY <3>2 DEF ReadPast, CapabilityTypeOK
    <3> QED BY <3>2, <3>3, <3>4, <3>5, Undisturbed
  <2>3. ASSUME NEW t \in Threads, Enter(t) PROVE SpentInv'
    <3>1. CapabilityTypeOK' /\ ReadPast' /\ now' >= now
      BY <2>3 DEF Enter, CapabilityTypeOK, ReadPast
    <3>2. \A u \in Threads : pc'[u] # "done" => pc[u] # "done"
      BY <2>3 DEF Enter, CapabilityTypeOK
    <3> QED BY <2>3, <3>1, <3>2, Undisturbed DEF Enter
  <2>4. CASE UNCHANGED capabilityVars
    BY <2>4, Undisturbed DEF capabilityVars, CapabilityTypeOK, ReadPast
  <2> QED BY <2>1, <2>2, <2>3, <2>4, ConsumeKeeps DEF CapabilityNext
<1> QED BY <1>1, <1>2, PTL DEF CapabilitySpec

\* Every variable keeps its type.
THEOREM CapabilityTypes == CapabilitySpec => []CapabilityTypeOK
<1>1. SpentInv => CapabilityTypeOK
  BY DEF SpentInv
<1> QED BY <1>1, CapabilityKeeps, PTL

\* No two threads ever execute on one capability, and the one that does asked for
\* the operation it was minted for.
THEOREM CapabilitySpentOnce == CapabilitySpec => []SpentOnce
<1>1. SpentInv => SpentOnce
  BY DEF SpentInv
<1> QED BY <1>1, CapabilityKeeps, PTL

\* A refused call is told the true reason.
THEOREM CapabilityReasonIsTrue == CapabilitySpec => []ReasonIsTrue
<1>1. SpentInv => ReasonIsTrue
  BY DEF SpentInv
<1> QED BY <1>1, CapabilityKeeps, PTL
=============================================================================
