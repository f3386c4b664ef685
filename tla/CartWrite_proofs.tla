-------------------------- MODULE CartWrite_proofs --------------------------
(***************************************************************************)
(* A proposal is sent once, as approved, and reported as done only when it *)
(* is, for any number of proposals, calls, products, failures, restarts    *)
(* and events of the accounts.                                             *)
(*                                                                         *)
(* The invariant says who may still send: a call that is writing has       *)
(* proposals of its own (Apart), all of them EXECUTING, and none of them   *)
(* was sent before its first read is answered (Unsent).  A proposal that   *)
(* was sent never waits for approval again (Spent), so nobody can begin a  *)
(* second write of it.  Watched says what a call nobody crossed can read   *)
(* back: what was there when its first read was answered, or the cart as   *)
(* it is now.                                                              *)
(***************************************************************************)
EXTENDS CartWrite, TLAPS, FiniteSetTheorems, SequenceTheorems

LEMMA SetToSeqLists ==
  ASSUME NEW S, IsFiniteSet(S)
  PROVE  /\ SetToSeq(S) \in [1 .. Cardinality(S) -> S]
         /\ Cardinality(S) \in Nat /\ SetToSeq(S) \in Seq(S)
         /\ \A x \in S : \E i \in DOMAIN SetToSeq(S) : SetToSeq(S)[i] = x
<1>1. PICK f \in Bijection(1 .. Cardinality(S), S) : TRUE
  BY FS_CardinalityType DEF ExistsBijection
<1>2. f \in [1 .. Cardinality(S) -> S] /\ IsInjective(f)
  BY <1>1 DEF Bijection, Injection, IsInjective
<1>3. SetToSeq(S) \in [1 .. Cardinality(S) -> S] /\ IsInjective(SetToSeq(S))
  BY <1>2 DEF SetToSeq
<1>4. Cardinality(S) \in Nat
  BY FS_CardinalityType
<1>5. Cardinality(1 .. Cardinality(S)) = Cardinality(S)
  BY <1>4, FS_Interval
<1>6. SetToSeq(S) \in Injection(1 .. Cardinality(S), S)
  BY <1>3 DEF Injection, IsInjective
<1>7. SetToSeq(S) \in Surjection(1 .. Cardinality(S), S)
  BY <1>5, <1>6, FS_Injection
<1>8. \A x \in S : \E i \in DOMAIN SetToSeq(S) : SetToSeq(S)[i] = x
  BY <1>3, <1>7 DEF Surjection
<1> QED BY <1>3, <1>4, <1>8, SeqDef

-----------------------------------------------------------------------------
Fields == {"asked", "answer", "ids", "items", "token", "existing", "left", "read",
           "before", "quiet"}

Whole(r) == r = [f \in Fields |-> r[f]]

\* The write r is about proposals that are EXECUTING, and about all of their items.
Writes(r) ==
  /\ Whole(r)
  /\ r.ids \subseteq Ids
  /\ \A id \in r.ids : proposal[id] # Nil /\ proposal[id].status = "EXECUTING"
  /\ r.items \in Seq(Item)
  /\ Range(r.items) = {proposal[id].item : id \in r.ids}

Unsent(r) == \A i \in DOMAIN sent : sent[i].ids \cap r.ids = {}

Readable(answer) == answer \in {Nil, Error, Stale} \/ DOMAIN answer \subseteq Spins

Listed(r) == \A i \in DOMAIN (r.existing \o r.items) : (r.existing \o r.items)[i].spin \in Spins

Writing ==
  \A w \in Writers : Busy(w) =>
    /\ Writes(writer[w])
    /\ writer[w].asked = "cart" => Unsent(writer[w]) /\ Readable(writer[w].answer)
    /\ writer[w].asked = "update" => Listed(writer[w])

Apart ==
  \A v, w \in Writers : Busy(v) /\ Busy(w) /\ v # w => writer[v].ids \cap writer[w].ids = {}

Typed ==
  /\ proposal \in [Ids -> Row \cup {Nil}]
  /\ writer = [w \in Writers |-> writer[w]]
  /\ DOMAIN cart \subseteq Spins /\ DOMAIN shown \subseteq Spins
  /\ sent \in Seq(Range(sent))

Spent ==
  \A i \in DOMAIN sent :
    /\ sent[i].ids \subseteq Ids
    /\ \A id \in sent[i].ids : proposal[id] # Nil /\ proposal[id].status # "PROPOSED"

IInv == Typed /\ Writing /\ Apart /\ Spent /\ SentOnceAsApproved

-----------------------------------------------------------------------------
(* Frames: what a step may do to calls and proposals without harm.          *)

\* Call w goes on, or is gone; if it goes on, it is about the same proposals.
Same(w) ==
  Busy(w)' =>
    /\ Busy(w) /\ Whole(writer'[w])
    /\ writer'[w].ids = writer[w].ids /\ writer'[w].items = writer[w].items
    /\ writer'[w].asked = "cart" =>
         /\ writer[w].asked = "cart"
         /\ writer'[w].answer = writer[w].answer \/ Readable(writer'[w].answer)
    /\ writer'[w].asked = "update" => Listed(writer'[w])

\* Proposal id keeps its item, and its status as far as calls and sent writes care.
Stays(id) ==
  proposal[id] # Nil =>
    /\ proposal'[id] # Nil /\ proposal'[id].item = proposal[id].item
    /\ proposal[id].status # "PROPOSED" => proposal'[id].status # "PROPOSED"

\* A proposal of a call that goes on is still EXECUTING.
Held ==
  \A w \in Writers : Busy(w)' =>
    \A id \in writer[w].ids : proposal[id].status = "EXECUTING" => proposal'[id].status = "EXECUTING"

\* A call that goes on keeps its part of the invariant.
LEMMA CallKeeps ==
  ASSUME IInv, NEW w \in Writers, Busy(w)', Same(w), \A id \in Ids : Stays(id), sent' = sent,
         \A id \in writer[w].ids :
           proposal[id].status = "EXECUTING" => proposal'[id].status = "EXECUTING"
  PROVE  /\ Writes(writer[w])'
         /\ writer'[w].asked = "cart" => Unsent(writer[w])' /\ Readable(writer'[w].answer)
         /\ writer'[w].asked = "update" => Listed(writer[w])'
<1>1. /\ Busy(w) /\ Whole(writer'[w])
      /\ writer'[w].ids = writer[w].ids /\ writer'[w].items = writer[w].items
  BY DEF Same
<1>2. Writes(writer[w])
  BY <1>1 DEF IInv, Writing
<1>3. \A id \in writer[w].ids : /\ id \in Ids /\ proposal'[id] # Nil
                               /\ proposal'[id].item = proposal[id].item
                               /\ proposal'[id].status = "EXECUTING"
  BY <1>2 DEF Writes, Stays
<1>4. {proposal'[id].item : id \in writer[w].ids} = {proposal[id].item : id \in writer[w].ids}
  BY <1>3
<1>5. Writes(writer[w])'
  BY <1>1, <1>2, <1>3, <1>4 DEF Writes
<1>6. writer'[w].asked = "cart" => Unsent(writer[w])' /\ Readable(writer'[w].answer)
  BY <1>1 DEF Same, IInv, Writing, Unsent
<1>7. writer'[w].asked = "update" => Listed(writer[w])'
  BY DEF Same, Listed
<1> QED BY <1>5, <1>6, <1>7

\* What was sent keeps its part while nothing more is sent.
LEMMA SentKeeps ==
  ASSUME IInv, \A id \in Ids : Stays(id), sent' = sent
  PROVE  Spent' /\ SentOnceAsApproved'
<1>1. Spent'
  BY DEF IInv, Spent, Stays
<1>2. \A i \in DOMAIN sent : {proposal'[id].item : id \in sent[i].ids} =
                              {proposal[id].item : id \in sent[i].ids}
  BY DEF IInv, Spent, Stays
<1> QED BY <1>1, <1>2 DEF IInv, SentOnceAsApproved

LEMMA FrameKeeps ==
  ASSUME IInv, Typed', \A w \in Writers : Same(w), \A id \in Ids : Stays(id), Held, sent' = sent
  PROVE  IInv'
<1>1. Writing'
  BY CallKeeps DEF Writing, Readable, Held
<1>2. Apart'
  BY DEF IInv, Apart, Same
<1> QED BY <1>1, <1>2, SentKeeps DEF IInv

-----------------------------------------------------------------------------
(* Updates of a call's record.                                              *)

\* A call that learns of another's change.
LEMMA Crossed ==
  ASSUME NEW r, Whole(r)
  PROVE  LET q == [r EXCEPT !.quiet = FALSE]
         IN  /\ Whole(q) /\ q.answer = r.answer /\ q.ids = r.ids /\ q.items = r.items
             /\ q.asked = r.asked /\ q.existing = r.existing
BY DEF Whole, Fields

\* A frame for the calls in which every one keeps what it is about.
LEMMA SameFields ==
  ASSUME IInv, NEW w \in Writers,
         Busy(w)' => /\ Busy(w) /\ Whole(writer'[w])
                     /\ writer'[w].ids = writer[w].ids /\ writer'[w].items = writer[w].items
                     /\ writer'[w].asked = writer[w].asked
                     /\ writer'[w].existing = writer[w].existing
                     /\ writer[w].asked = "cart" =>
                          writer'[w].answer = writer[w].answer \/ Readable(writer'[w].answer)
  PROVE  Same(w)
BY DEF Same, IInv, Writing, Listed

LEMMA AnswerIsSame ==
  ASSUME IInv, NEW w \in Writers, NEW answer, Busy(w), Answer(w, answer),
         writer[w].asked = "cart" => Readable(answer)
  PROVE  (\A v \in Writers : Same(v)) /\ writer' = [v \in Writers |-> writer'[v]]
<1>1. \A v \in Writers : Busy(v) => Whole(writer[v])
  BY DEF IInv, Writing, Writes
<1>2. writer' = [v \in Writers |->
         IF v = w THEN [writer[w] EXCEPT !.answer = answer, !.before =
                          IF writer[w].asked = "cart" THEN {cart, shown} ELSE writer[w].before]
         ELSE IF Busy(v) /\ cart' # cart THEN [writer[v] EXCEPT !.quiet = FALSE]
         ELSE writer[v]]
  BY DEF Answer
<1>3. ASSUME NEW v \in Writers
      PROVE  Same(v)
  <2>1. CASE v = w
    <3> DEFINE before == IF writer[w].asked = "cart" THEN {cart, shown} ELSE writer[w].before
    <3>1. writer'[w] = [writer[w] EXCEPT !.answer = answer, !.before = before]
      BY <1>2
    <3>0. Whole(writer[w])
      BY <1>1
    <3> HIDE DEF before
    <3>2. /\ Whole(writer'[w]) /\ writer'[w].answer = answer /\ writer'[w].ids = writer[w].ids
          /\ writer'[w].items = writer[w].items /\ writer'[w].asked = writer[w].asked
          /\ writer'[w].existing = writer[w].existing
      <4> DEFINE q == [writer[w] EXCEPT !.answer = answer, !.before = before]
      <4>1. /\ Whole(q) /\ q.answer = answer /\ q.ids = writer[w].ids /\ q.items = writer[w].items
            /\ q.asked = writer[w].asked /\ q.existing = writer[w].existing
        BY <3>0 DEF Whole, Fields
      <4>2. writer'[w] = q
        BY <3>1
      <4> HIDE DEF q
      <4> QED BY <4>1, <4>2
    <3> QED BY <2>1, <3>2, SameFields
  <2>2. CASE v # w /\ Busy(v) /\ cart' # cart
    BY <1>1, <1>2, <2>2, Crossed, SameFields
  <2>3. CASE v # w /\ ~(Busy(v) /\ cart' # cart)
    <3>1. writer'[v] = writer[v]
      BY <1>2, <2>3
    <3> QED BY <1>1, <3>1, SameFields DEF Busy
  <2> QED BY <2>1, <2>2, <2>3
<1> QED BY <1>2, <1>3

\* Calls keep their records when nobody answers.
LEMMA IdleStep ==
  ASSUME IInv, writer' = writer
  PROVE  \A v \in Writers : Same(v)
<1>1. \A v \in Writers : Busy(v) => Whole(writer[v])
  BY DEF IInv, Writing, Writes
<1> QED BY <1>1, SameFields DEF Busy

\* Proposals keep what they are when none is written.
LEMMA SameProposals ==
  ASSUME proposal' = proposal
  PROVE  (\A id \in Ids : Stays(id)) /\ Held
BY DEF Stays, Held

-----------------------------------------------------------------------------
(* One lemma per action.                                                    *)

LEMMA ProposeKeeps ==
  ASSUME IInv, NEW id \in Ids, NEW connector \in CartConnectors, NEW item \in Item,
         Propose(id, connector, item)
  PROVE  IInv'
<1>1. /\ proposal \in [Ids -> Row \cup {Nil}] /\ proposal[id] = Nil
      /\ proposal' = [proposal EXCEPT ![id] = Proposal(connector, item, "PROPOSED")]
      /\ UNCHANGED <<writer, cart, shown, sent>>
  BY DEF Propose, IInv, Typed
<1>2. Proposal(connector, item, "PROPOSED") \in Row
  BY DEF Proposal, Row
<1>3. Typed'
  BY <1>1, <1>2 DEF IInv, Typed
<1>4. \A j \in Ids : j # id => proposal'[j] = proposal[j]
  BY <1>1
<1>5. \A j \in Ids : Stays(j)
  BY <1>1, <1>4 DEF Stays
<1>6. Held
  BY <1>1, <1>4 DEF Held, IInv, Writing, Writes, Busy
<1> QED BY <1>1, <1>3, <1>5, <1>6, IdleStep, FrameKeeps

LEMMA MerchantReadsKeeps ==
  ASSUME IInv, NEW w \in Writers, MerchantReads(w)
  PROVE  IInv'
<1>1. PICK answer : /\ Answer(w, answer)
                    /\ answer = shown \/ answer \in {<< >>, Stale, Error}
  BY DEF MerchantReads
<1>2. /\ Busy(w) /\ UNCHANGED <<cart, shown, proposal, sent>>
  BY DEF MerchantReads
<1>3. Readable(answer)
  BY <1>1 DEF Readable, IInv, Typed
<1>4. (\A v \in Writers : Same(v)) /\ writer' = [v \in Writers |-> writer'[v]]
  BY <1>1, <1>2, <1>3, AnswerIsSame
<1>5. Typed'
  BY <1>2, <1>4 DEF IInv, Typed
<1> QED BY <1>2, <1>4, <1>5, SameProposals, FrameKeeps

LEMMA MerchantWritesKeeps ==
  ASSUME IInv, NEW w \in Writers, MerchantWrites(w)
  PROVE  IInv'
<1>1. PICK answer : Answer(w, answer)
  BY DEF MerchantWrites
<1>2. /\ Busy(w) /\ writer[w].asked = "update" /\ UNCHANGED <<shown, proposal, sent>>
      /\ cart' \in {Lines(Merged(w)), cart, << >>}
  BY DEF MerchantWrites
<1>3. (\A v \in Writers : Same(v)) /\ writer' = [v \in Writers |-> writer'[v]]
  BY <1>1, <1>2, AnswerIsSame
<1>4. DOMAIN Lines(Merged(w)) \subseteq Spins
  BY <1>2 DEF Lines, Merged, IInv, Writing, Listed
<1>5. Typed'
  BY <1>2, <1>3, <1>4 DEF IInv, Typed
<1> QED BY <1>2, <1>3, <1>5, SameProposals, FrameKeeps

LEMMA OwnerKeeps ==
  ASSUME IInv, Settle \/ OwnerEdits \/ Restart
  PROVE  IInv'
<1>1. UNCHANGED <<proposal, sent>>
  BY DEF Settle, OwnerEdits, Restart
<1>2. \A v \in Writers : Busy(v) => Whole(writer[v])
  BY DEF IInv, Writing, Writes
<1>3. CASE Settle
  <2>1. Typed'
    BY <1>3 DEF Settle, IInv, Typed
  <2>2. writer' = writer
    BY <1>3 DEF Settle
  <2> QED BY <1>1, <2>1, <2>2, IdleStep, SameProposals, FrameKeeps
<1>4. CASE OwnerEdits
  <2>1. /\ shown' = shown
        /\ writer' = [w \in Writers |->
             IF Busy(w) THEN [writer[w] EXCEPT !.quiet = FALSE] ELSE Idle]
        /\ cart' = << >> \/ \E spin \in Spins : DOMAIN cart' = DOMAIN cart \cup {spin}
    BY <1>4 DEF OwnerEdits
  <2>2. DOMAIN cart' \subseteq Spins
    <3>1. CASE cart' = << >>
      BY <3>1
    <3>2. CASE \E spin \in Spins : DOMAIN cart' = DOMAIN cart \cup {spin}
      BY <3>2 DEF IInv, Typed
    <3> QED BY <2>1, <3>1, <3>2
  <2>3. Typed'
    BY <1>1, <2>1, <2>2 DEF IInv, Typed
  <2>4. \A v \in Writers : Same(v)
    BY <1>2, <2>1, Crossed, SameFields DEF Busy
  <2> QED BY <1>1, <2>3, <2>4, SameProposals, FrameKeeps
<1>5. CASE Restart
  <2>1. writer' = [w \in Writers |-> Idle] /\ UNCHANGED <<cart, shown>>
    BY <1>5 DEF Restart
  <2>2. Typed'
    BY <1>1, <2>1 DEF IInv, Typed
  <2>3. \A v \in Writers : Same(v)
    BY <2>1 DEF Same, Busy
  <2> QED BY <1>1, <2>2, <2>3, SameProposals, FrameKeeps
<1> QED BY <1>3, <1>4, <1>5

\* A row whose status is written keeps the rest.
LEMMA StatusSet ==
  ASSUME Typed, NEW ids \in SUBSET Ids, \A id \in ids : proposal[id] # Nil,
         NEW status \in {"EXECUTING", "SUCCEEDED", "FAILED"}, proposal' = SetStatus(ids, status)
  PROVE  /\ proposal' \in [Ids -> Row \cup {Nil}]
         /\ \A id \in ids : /\ proposal'[id] # Nil /\ proposal'[id].status = status
                           /\ proposal'[id].item = proposal[id].item
         /\ \A id \in Ids \ ids : proposal'[id] = proposal[id]
<1>1. \A id \in ids : proposal[id] \in Row
  BY DEF Typed
<1>2. \A id \in ids : LET row == [proposal[id] EXCEPT !.status = status]
                      IN  row \in Row /\ row.status = status /\ row.item = proposal[id].item
  BY <1>1 DEF Row
<1>3. \A id \in ids : proposal'[id] = [proposal[id] EXCEPT !.status = status]
  BY DEF SetStatus
<1>4. \A id \in Ids \ ids : proposal'[id] = proposal[id]
  BY DEF SetStatus
<1>5. proposal' = [id \in Ids |-> proposal'[id]]
  BY DEF SetStatus
<1>6. ASSUME NEW id \in Ids PROVE proposal'[id] \in Row \cup {Nil}
  <2>1. CASE id \in ids
    BY <1>2, <1>3, <2>1
  <2>2. CASE id \notin ids
    BY <1>4, <2>2 DEF Typed
  <2> QED BY <2>1, <2>2
<1>7. proposal' \in [Ids -> Row \cup {Nil}]
  BY <1>5, <1>6
<1>8. ASSUME NEW id \in ids PROVE proposal'[id] # Nil
  <2>1. proposal'[id] \in Row
    BY <1>2, <1>3
  <2> QED BY <2>1, CartAssumption
<1> QED BY <1>2, <1>3, <1>4, <1>7, <1>8

LEMMA FinishKeeps ==
  ASSUME IInv, NEW w \in Writers, Busy(w), NEW status \in {"SUCCEEDED", "FAILED"},
         proposal' = SetStatus(writer[w].ids, status), writer' = [writer EXCEPT ![w] = Idle],
         UNCHANGED <<cart, shown, sent>>
  PROVE  IInv'
<1>1. /\ writer[w].ids \subseteq Ids /\ \A id \in writer[w].ids : proposal[id] # Nil
  BY DEF IInv, Writing, Writes
<1>2. /\ proposal' \in [Ids -> Row \cup {Nil}]
      /\ \A id \in writer[w].ids : /\ proposal'[id] # Nil /\ proposal'[id].status = status
                                  /\ proposal'[id].item = proposal[id].item
      /\ \A id \in Ids \ writer[w].ids : proposal'[id] = proposal[id]
  BY <1>1, StatusSet DEF IInv
<1>3. /\ writer'[w] = Idle /\ \A v \in Writers : v # w => writer'[v] = writer[v]
      /\ writer' = [v \in Writers |-> writer'[v]]
  BY DEF IInv, Typed
<1>4. Typed'
  BY <1>2, <1>3 DEF IInv, Typed
<1>5. \A v \in Writers : Busy(v) => Whole(writer[v])
  BY DEF IInv, Writing, Writes
<1>6. \A v \in Writers : Same(v)
  BY <1>3, <1>5, SameFields DEF Busy
<1>7. \A id \in Ids : Stays(id)
  BY <1>2 DEF Stays
<1>8. Held
  <2>1. ASSUME NEW v \in Writers, Busy(v)', NEW id \in writer[v].ids
        PROVE  proposal'[id] = proposal[id]
    <3>1. v # w /\ Busy(v)
      BY <1>3, <2>1 DEF Busy
    <3> QED BY <1>2, <2>1, <3>1 DEF IInv, Apart, Writing, Writes
  <2> QED BY <2>1 DEF Held
<1> QED BY <1>4, <1>6, <1>7, <1>8, FrameKeeps

LEMMA GoesOnKeeps ==
  ASSUME IInv, NEW w \in Writers, Busy(w), NEW q, writer' = [writer EXCEPT ![w] = q],
         Whole(q), q.ids = writer[w].ids, q.items = writer[w].items, q.asked = "back",
         UNCHANGED <<proposal, cart, shown, sent>>
  PROVE  IInv'
<1>1. /\ writer'[w] = q /\ \A v \in Writers : v # w => writer'[v] = writer[v]
      /\ writer' = [v \in Writers |-> writer'[v]]
  BY DEF IInv, Typed
<1>2. Typed'
  BY <1>1 DEF IInv, Typed
<1>3. \A v \in Writers : Busy(v) => Whole(writer[v])
  BY DEF IInv, Writing, Writes
<1>4. ASSUME NEW v \in Writers, v # w
      PROVE  Same(v)
  BY <1>1, <1>3, <1>4, SameFields DEF Busy
<1>5. Same(w)
  BY <1>1 DEF Same
<1> QED BY <1>2, <1>4, <1>5, SameProposals, FrameKeeps

LEMMA WriteAnsweredKeeps ==
  ASSUME IInv, NEW w \in Writers, WriteAnswered(w)
  PROVE  IInv'
<1>1. Busy(w) /\ UNCHANGED <<cart, shown, sent>> /\ Whole(writer[w])
  BY DEF WriteAnswered, IInv, Writing, Writes
<1>2. CASE Fail(w)
  BY <1>1, <1>2, FinishKeeps DEF Fail
<1>3. CASE ~Fail(w)
  <2> DEFINE q == [writer[w] EXCEPT !.asked = "back", !.answer = Nil]
  <2>1. writer' = [writer EXCEPT ![w] = q] /\ proposal' = proposal
    BY <1>3 DEF WriteAnswered, IInv, Typed
  <2>2. Whole(q) /\ q.ids = writer[w].ids /\ q.items = writer[w].items /\ q.asked = "back"
    BY <1>1 DEF Whole, Fields
  <2> HIDE DEF q
  <2> QED BY <1>1, <2>1, <2>2, GoesOnKeeps
<1> QED BY <1>2, <1>3

LEMMA VerifyKeeps ==
  ASSUME IInv, NEW w \in Writers, Verify(w)
  PROVE  IInv'
<1>1. /\ Busy(w) /\ writer[w].asked = "back" /\ UNCHANGED <<cart, shown, sent>>
      /\ Whole(writer[w])
  BY DEF Verify, IInv, Writing, Writes
<1>2. \/ \E status \in {"SUCCEEDED", "FAILED"} :
           proposal' = SetStatus(writer[w].ids, status) /\ writer' = [writer EXCEPT ![w] = Idle]
      \/ /\ writer' = [writer EXCEPT ![w] =
                          [writer[w] EXCEPT !.left = writer[w].left - 1, !.answer = Nil]]
         /\ proposal' = proposal
  BY DEF Verify, Fail, IInv, Typed
<1>3. CASE \E status \in {"SUCCEEDED", "FAILED"} :
             proposal' = SetStatus(writer[w].ids, status) /\ writer' = [writer EXCEPT ![w] = Idle]
  BY <1>1, <1>3, FinishKeeps
<1>4. CASE /\ writer' = [writer EXCEPT ![w] =
                            [writer[w] EXCEPT !.left = writer[w].left - 1, !.answer = Nil]]
           /\ proposal' = proposal
  <2> DEFINE q == [writer[w] EXCEPT !.left = writer[w].left - 1, !.answer = Nil]
  <2>1. Whole(q) /\ q.ids = writer[w].ids /\ q.items = writer[w].items /\ q.asked = "back"
    BY <1>1 DEF Whole, Fields
  <2>2. writer' = [writer EXCEPT ![w] = q]
    BY <1>4
  <2> HIDE DEF q
  <2> QED BY <1>1, <1>4, <2>1, <2>2, GoesOnKeeps
<1> QED BY <1>2, <1>3, <1>4

\* A call takes up proposals that waited, or new ones.
LEMMA BeginKeeps ==
  ASSUME IInv, NEW w \in Writers, ~Busy(w), NEW ids \in SUBSET Ids, NEW items \in Seq(Item),
         NEW token, Begin(w, ids, items, token),
         proposal' \in [Ids -> Row \cup {Nil}],
         \A id \in ids : /\ proposal[id] = Nil \/ proposal[id].status = "PROPOSED"
                         /\ proposal'[id] # Nil /\ proposal'[id].status = "EXECUTING"
                         /\ proposal[id] # Nil => proposal'[id].item = proposal[id].item,
         \A id \in Ids \ ids : proposal'[id] = proposal[id],
         Range(items) = {proposal'[id].item : id \in ids},
         UNCHANGED <<cart, shown, sent>>
  PROVE  IInv'
<1> DEFINE q == [asked |-> "cart", answer |-> Nil, ids |-> ids, items |-> items,
                 token |-> token, existing |-> << >>, left |-> Attempts, read |-> << >>,
                 before |-> {}, quiet |-> TRUE]
<1>1. writer' = [writer EXCEPT ![w] = q]
  BY DEF Begin
<1>2. /\ Whole(q) /\ q.asked = "cart" /\ q.answer = Nil /\ q.ids = ids /\ q.items = items
  BY DEF Whole, Fields
<1> HIDE DEF q
<1>3. /\ writer'[w] = q /\ \A v \in Writers : v # w => writer'[v] = writer[v]
      /\ writer' = [v \in Writers |-> writer'[v]]
  BY <1>1 DEF IInv, Typed
<1>4. Typed'
  BY <1>3 DEF IInv, Typed
<1>5. \A id \in Ids : Stays(id)
  BY DEF Stays
<1>6. \A v \in Writers : Busy(v) =>
        Whole(writer[v]) /\ writer[v].ids \subseteq Ids \ ids
  BY DEF IInv, Writing, Writes
<1>7. ASSUME NEW v \in Writers, v # w, Busy(v)'
      PROVE  /\ Writes(writer[v])'
             /\ writer'[v].asked = "cart" => Unsent(writer[v])' /\ Readable(writer'[v].answer)
             /\ writer'[v].asked = "update" => Listed(writer[v])'
  <2>1. Busy(v)
    BY <1>3, <1>7 DEF Busy
  <2>2. Same(v)
    BY <1>3, <1>6, <1>7, SameFields DEF Busy
  <2>3. \A id \in writer[v].ids : proposal'[id] = proposal[id]
    BY <1>6, <2>1
  <2> QED BY <1>5, <1>7, <2>2, <2>3, CallKeeps
<1>8. Writes(writer[w])'
  BY <1>2, <1>3 DEF Writes
<1>9. Unsent(writer[w])'
  BY <1>2, <1>3 DEF Unsent, IInv, Spent
<1>10. Readable(writer'[w].answer)
  BY <1>2, <1>3 DEF Readable
<1>11. Writing'
  BY <1>2, <1>3, <1>7, <1>8, <1>9, <1>10 DEF Writing, Readable
<1>12. Apart'
  BY <1>2, <1>3, <1>6 DEF IInv, Apart, Busy
<1> QED BY <1>4, <1>5, <1>11, <1>12, SentKeeps DEF IInv

\* Proposals that waited, or new ones, are settled without a call.
LEMMA TakenKeeps ==
  ASSUME IInv, NEW ids \in SUBSET Ids, proposal' \in [Ids -> Row \cup {Nil}],
         \A id \in ids : /\ proposal[id] = Nil \/ proposal[id].status = "PROPOSED"
                         /\ proposal'[id] # Nil /\ proposal'[id].status # "PROPOSED"
                         /\ proposal[id] # Nil => proposal'[id].item = proposal[id].item,
         \A id \in Ids \ ids : proposal'[id] = proposal[id],
         UNCHANGED <<writer, cart, shown, sent>>
  PROVE  IInv'
<1>1. Typed'
  BY DEF IInv, Typed
<1>2. \A id \in Ids : Stays(id)
  BY DEF Stays
<1>3. Held
  BY DEF Held, IInv, Writing, Writes, Busy
<1> QED BY <1>1, <1>2, <1>3, IdleStep, FrameKeeps

LEMMA ListsAre ==
  ASSUME NEW list \in Lists
  PROVE  \E n \in Nat : DOMAIN list = 1 .. n /\ list \in [1 .. n -> Ids] /\ Range(list) \subseteq Ids
<1>1. PICK n \in 1 .. Cardinality(Ids) : list \in [1 .. n -> Ids]
  BY DEF Lists
<1>2. n \in Nat
  BY <1>1
<1> QED BY <1>1, <1>2 DEF Range

LEMMA ApproveKeeps ==
  ASSUME IInv, NEW w \in Writers, NEW list \in Lists, Approve(w, list)
  PROVE  IInv'
<1> DEFINE ids == Range(list)
           items == [i \in DOMAIN list |-> proposal[list[i]].item]
<1>1. PICK n \in Nat : DOMAIN list = 1 .. n /\ list \in [1 .. n -> Ids] /\ ids \in SUBSET Ids
  BY ListsAre
<1>2. /\ ~Busy(w) /\ UNCHANGED <<cart, shown, sent>>
      /\ \A id \in ids : proposal[id] # Nil /\ proposal[id].status = "PROPOSED"
  BY DEF Approve
<1>3. PICK token :
        \/ proposal' = SetStatus(ids, "EXECUTING") /\ writer' = writer
        \/ proposal' = SetStatus(ids, "FAILED") /\ writer' = writer
        \/ proposal' = SetStatus(ids, "EXECUTING") /\ Begin(w, ids, items, token)
  BY DEF Approve, Saved, NextStatus
<1>4. PICK status \in {"EXECUTING", "FAILED"} :
        /\ proposal' = SetStatus(ids, status)
        /\ writer' = writer \/ (status = "EXECUTING" /\ Begin(w, ids, items, token))
  BY <1>3
<1>5. items \in Seq(Item) /\ Range(items) = {proposal[id].item : id \in ids}
  <2>1. \A id \in ids : proposal[id].item \in Item
    BY <1>1, <1>2 DEF IInv, Typed, Row
  <2>2. items \in [1 .. n -> Item]
    BY <1>1, <2>1 DEF Range
  <2>3. items \in Seq(Item)
    BY <2>2, SeqDef
  <2>4. Range(items) = {proposal[id].item : id \in ids}
    BY <1>1 DEF Range
  <2> QED BY <2>3, <2>4
<1> HIDE DEF ids, items
<1>6. /\ proposal' \in [Ids -> Row \cup {Nil}]
      /\ \A id \in ids : /\ proposal'[id] # Nil /\ proposal'[id].status = status
                        /\ proposal'[id].item = proposal[id].item
      /\ \A id \in Ids \ ids : proposal'[id] = proposal[id]
  BY <1>1, <1>2, <1>4, StatusSet DEF IInv
<1>7. Range(items) = {proposal'[id].item : id \in ids}
  BY <1>5, <1>6
<1>8. CASE writer' = writer
  BY <1>1, <1>2, <1>6, <1>8, TakenKeeps
<1>9. CASE status = "EXECUTING" /\ Begin(w, ids, items, token)
  BY <1>1, <1>2, <1>5, <1>6, <1>7, <1>9, BeginKeeps
<1> QED BY <1>4, <1>8, <1>9

LEMMA WriteCartKeeps ==
  ASSUME IInv, NEW w \in Writers, NEW list \in Lists, IsInjective(list),
         NEW items \in [DOMAIN list -> Item], WriteCart(w, list, items)
  PROVE  IInv'
<1> DEFINE ids == Range(list)
           at(id) == CHOOSE i \in DOMAIN list : list[i] = id
           made(status) == [id \in Ids |->
             IF \E i \in DOMAIN list : list[i] = id
             THEN Proposal(Instamart, items[at(id)], status) ELSE proposal[id]]
<1>1. PICK n \in Nat : DOMAIN list = 1 .. n /\ list \in [1 .. n -> Ids] /\ ids \in SUBSET Ids
  BY ListsAre
<1>2. /\ ~Busy(w) /\ UNCHANGED <<cart, shown, sent>>
      /\ \A i \in DOMAIN list : proposal[list[i]] = Nil
  BY DEF WriteCart
<1> DEFINE taken(status, token) ==
             /\ proposal' = made(status)
             /\ writer' = writer \/ (status = "EXECUTING" /\ Begin(w, ids, items, token))
<1>3. PICK status \in {"EXECUTING", "FAILED"} : \E token : taken(status, token)
  <2>1. CASE AskingRaises(Instamart) /\ proposal' = made("EXECUTING") /\ writer' = writer
    <3>1. taken("EXECUTING", Nil)
      BY <2>1
    <3> HIDE DEF taken
    <3> QED BY <3>1
  <2>2. CASE proposal' = made("FAILED") /\ writer' = writer
    <3>1. taken("FAILED", Nil)
      BY <2>2
    <3> HIDE DEF taken
    <3> QED BY <3>1
  <2>3. CASE /\ proposal' = made("EXECUTING")
             /\ Begin(w, ids, items, BearerToken(Instamart))
    <3>1. taken("EXECUTING", BearerToken(Instamart))
      BY <2>3
    <3> HIDE DEF taken
    <3> QED BY <3>1
  <2> QED BY <2>1, <2>2, <2>3 DEF WriteCart, NextStatus
<1>4. \A i \in DOMAIN list : at(list[i]) = i
  BY DEF IsInjective
<1>5. \A id \in ids : at(id) \in DOMAIN list /\ list[at(id)] = id
  BY DEF Range
<1>6. /\ \A id \in ids : proposal'[id] = Proposal(Instamart, items[at(id)], status)
      /\ \A id \in Ids \ ids : proposal'[id] = proposal[id]
      /\ proposal' = [id \in Ids |-> proposal'[id]]
  BY <1>1, <1>3 DEF Range
<1> HIDE DEF at
<1>7. Range(items) = {items[at(id)] : id \in ids}
  <2>1. \A i \in DOMAIN list : list[i] \in ids /\ items[i] = items[at(list[i])]
    BY <1>4 DEF Range
  <2>2. DOMAIN items = DOMAIN list
    OBVIOUS
  <2> HIDE DEF ids
  <2> QED BY <1>5, <2>1, <2>2 DEF Range
<1>8. \A id \in ids : items[at(id)] \in Item
  BY <1>5
<1> HIDE DEF made
<1>9. \A id \in ids : /\ proposal'[id] \in Row /\ proposal'[id].item = items[at(id)]
                     /\ proposal'[id].status = status
  <2>1. status \in {"EXECUTING", "FAILED"}
    BY <1>3
  <2>2. \A id \in ids : proposal'[id] = Proposal(Instamart, items[at(id)], status)
    BY <1>6
  <2> HIDE DEF ids
  <2>3. ASSUME NEW item \in Item
        PROVE  LET row == Proposal(Instamart, item, status)
               IN  row \in Row /\ row.item = item /\ row.status = status
    BY <2>1, CartAssumption DEF Proposal, Row
  <2> QED BY <1>8, <2>2, <2>3
<1>10. Range(items) = {proposal'[id].item : id \in ids}
  BY <1>7, <1>9
<1>11. items \in Seq(Item)
  BY <1>1, SeqDef
<1>12. \A id \in ids : proposal[id] = Nil
  BY <1>2 DEF Range
<1> HIDE DEF ids
<1>13. \A id \in ids : proposal'[id] # Nil
  BY <1>9, CartAssumption
<1>14. proposal' \in [Ids -> Row \cup {Nil}]
  <2>1. \A id \in Ids : proposal'[id] \in Row \cup {Nil}
    BY <1>6, <1>9 DEF IInv, Typed
  <2> QED BY <1>6, <2>1
<1>15. CASE writer' = writer
  BY <1>1, <1>2, <1>3, <1>6, <1>9, <1>12, <1>13, <1>14, <1>15, TakenKeeps
<1>16. CASE \E token : status = "EXECUTING" /\ Begin(w, ids, items, token)
  BY <1>1, <1>2, <1>6, <1>9, <1>10, <1>11, <1>12, <1>13, <1>14, <1>16, BeginKeeps
<1>17. writer' = writer \/ \E token : status = "EXECUTING" /\ Begin(w, ids, items, token)
  BY <1>3
<1> QED BY <1>15, <1>16, <1>17

-----------------------------------------------------------------------------
(* What is sent: lines of the cart that was read, then the approved items.  *)

LEMMA KeptFinite ==
  ASSUME NEW read, DOMAIN read \subseteq Spins, NEW items
  PROVE  IsFiniteSet({[spin |-> spin, quantity |-> read[spin]] :
                        spin \in DOMAIN read \ {items[i].spin : i \in DOMAIN items}})
<1> DEFINE spins == DOMAIN read \ {items[i].spin : i \in DOMAIN items}
           kept == {[spin |-> spin, quantity |-> read[spin]] : spin \in spins}
           f == [e \in kept |-> e.spin]
<1>1. IsFiniteSet(spins)
  <2>1. spins \subseteq Spins
    OBVIOUS
  <2> HIDE DEF spins
  <2> QED BY <2>1, CartAssumption, FS_Subset
<1>2. f \in Injection(kept, spins)
  BY DEF Injection, IsInjective
<1>3. IsFiniteSet(kept)
  <2> HIDE DEF f, kept, spins
  <2> QED BY <1>1, <1>2, FS_Injection
<1> QED BY <1>3

LEMMA LinesSent ==
  ASSUME NEW read, DOMAIN read \subseteq Spins, NEW items \in Seq(Item)
  PROVE  LET lines == Kept(read, items) \o items
             written == {items[i].spin : i \in DOMAIN items}
         IN  /\ Range(items) \subseteq Range(lines)
             /\ \A n \in DOMAIN lines :
                  /\ lines[n].spin \in Spins
                  /\ \/ lines[n] \in Range(items)
                     \/ /\ lines[n].spin \in DOMAIN read
                        /\ lines[n].quantity = read[lines[n].spin]
                        /\ lines[n].spin \notin written
<1> DEFINE written == {items[i].spin : i \in DOMAIN items}
           spins == DOMAIN read \ written
           kept == {[spin |-> spin, quantity |-> read[spin]] : spin \in spins}
           lines == SetToSeq(kept) \o items
           All == kept \cup Item
<1>1. IsFiniteSet(kept)
  BY KeptFinite
<1>2. \A e \in kept : /\ e.spin \in DOMAIN read /\ e.quantity = read[e.spin]
                     /\ e.spin \notin written /\ e.spin \in Spins
  OBVIOUS
<1>3. \A item \in Item : item.spin \in Spins
  BY DEF Item
<1>4. Kept(read, items) \o items = lines
  BY DEF Kept
<1> HIDE DEF kept, written
<1>5. SetToSeq(kept) \in Seq(kept)
  BY <1>1, SetToSeqLists
<1>6. SetToSeq(kept) \in Seq(All) /\ items \in Seq(All)
  BY <1>5, SeqMonotonic
<1>7. /\ Len(lines) = Len(SetToSeq(kept)) + Len(items) /\ lines \in Seq(All)
      /\ \A n \in 1 .. Len(SetToSeq(kept)) + Len(items) :
           lines[n] = IF n <= Len(SetToSeq(kept)) THEN SetToSeq(kept)[n]
                      ELSE items[n - Len(SetToSeq(kept))]
  BY <1>6, ConcatProperties
<1> HIDE DEF lines, All
<1>8. Len(SetToSeq(kept)) \in Nat /\ DOMAIN SetToSeq(kept) = 1 .. Len(SetToSeq(kept))
      /\ \A n \in 1 .. Len(SetToSeq(kept)) : SetToSeq(kept)[n] \in kept
  BY <1>5
<1>9. Len(items) \in Nat /\ DOMAIN items = 1 .. Len(items)
      /\ \A n \in 1 .. Len(items) : items[n] \in Item
  OBVIOUS
<1>10. DOMAIN lines = 1 .. Len(SetToSeq(kept)) + Len(items)
  BY <1>7
<1>11. ASSUME NEW n \in DOMAIN lines
       PROVE  lines[n] \in kept \/ lines[n] \in Range(items)
  <2>1. CASE n <= Len(SetToSeq(kept))
    BY <1>7, <1>8, <1>9, <1>10, <2>1
  <2>2. CASE ~(n <= Len(SetToSeq(kept)))
    <3>1. n - Len(SetToSeq(kept)) \in 1 .. Len(items)
      BY <1>8, <1>9, <1>10, <2>2
    <3>2. lines[n] = items[n - Len(SetToSeq(kept))]
      BY <1>7, <1>10, <2>2
    <3> QED BY <1>9, <3>1, <3>2 DEF Range
  <2> QED BY <2>1, <2>2
<1>12. ASSUME NEW m \in DOMAIN items
       PROVE  items[m] \in Range(lines)
  <2>1. m + Len(SetToSeq(kept)) \in DOMAIN lines
    BY <1>8, <1>9, <1>10
  <2>2. lines[m + Len(SetToSeq(kept))] = items[m]
    BY <1>7, <1>8, <1>9, <1>10, <2>1
  <2> QED BY <2>1, <2>2 DEF Range
<1>13. Range(items) \subseteq Range(lines)
  BY <1>12 DEF Range
<1>14. \A item \in Range(items) : item.spin \in Spins
  BY <1>3, <1>9 DEF Range
<1> QED BY <1>2, <1>4, <1>11, <1>13, <1>14 DEF written

LEMMA MergeKeeps ==
  ASSUME IInv, NEW w \in Writers, Merge(w)
  PROVE  IInv'
<1>1. /\ Busy(w) /\ writer[w].asked = "cart" /\ writer[w].answer # Nil
      /\ UNCHANGED <<cart, shown>> /\ Writes(writer[w]) /\ Unsent(writer[w])
      /\ Readable(writer[w].answer)
  BY DEF Merge, IInv, Writing
<1>2. CASE writer[w].answer = Error
  BY <1>1, <1>2, FinishKeeps DEF Merge, Fail
<1>3. CASE writer[w].answer # Error
  <2> DEFINE read == IF writer[w].answer = Stale THEN << >> ELSE writer[w].answer
             items == writer[w].items
             ids == writer[w].ids
             existing == Kept(read, items)
             lines == existing \o items
             entry == [ids |-> ids, read |-> read, lines |-> lines]
             q == [writer[w] EXCEPT !.asked = "update", !.answer = Nil,
                                    !.existing = existing, !.read = read]
  <2>1. /\ writer' = [writer EXCEPT ![w] = q] /\ proposal' = proposal
        /\ sent' = Append(sent, entry)
    BY <1>3 DEF Merge, IInv, Typed
  <2>2. DOMAIN read \subseteq Spins
    BY <1>1, <1>3 DEF Readable
  <2>3. Whole(q) /\ q.ids = ids /\ q.items = items /\ q.asked = "update" /\ q.existing = existing
    <3> HIDE DEF existing, read
    <3> QED BY <1>1 DEF Writes, Whole, Fields
  <2>4. items \in Seq(Item) /\ Range(items) = {proposal[id].item : id \in ids} /\ ids \subseteq Ids
    BY <1>1 DEF Writes
  <2>5. /\ Range(items) \subseteq Range(lines)
        /\ \A n \in DOMAIN lines :
             /\ lines[n].spin \in Spins
             /\ \/ lines[n] \in Range(items)
                \/ /\ lines[n].spin \in DOMAIN read /\ lines[n].quantity = read[lines[n].spin]
                   /\ lines[n].spin \notin {items[i].spin : i \in DOMAIN items}
    <3> HIDE DEF read, items
    <3> QED BY <2>2, <2>4, LinesSent
  <2>6. /\ entry.ids = ids /\ entry.read = read /\ entry.lines = lines
    OBVIOUS
  <2>7. /\ lines = q.existing \o q.items
    BY <2>3
  <2> HIDE DEF read, items, existing, lines, entry, q
  <2>8. /\ writer'[w] = q /\ \A v \in Writers : v # w => writer'[v] = writer[v]
        /\ writer' = [v \in Writers |-> writer'[v]]
    BY <2>1 DEF IInv, Typed
  <2>9. /\ sent' \in Seq(Range(sent')) /\ Len(sent) \in Nat
        /\ DOMAIN sent = 1 .. Len(sent) /\ DOMAIN sent' = 1 .. Len(sent) + 1
        /\ \A i \in DOMAIN sent : sent'[i] = sent[i]
        /\ sent'[Len(sent) + 1] = entry
    <3> DEFINE All == Range(sent) \cup {entry}
    <3>1. sent \in Seq(Range(sent))
      BY DEF IInv, Typed
    <3>2. sent \in Seq(All)
      BY <3>1, SeqMonotonic
    <3> HIDE DEF All
    <3>3. entry \in All
      BY DEF All
    <3>4. /\ sent' \in Seq(All) /\ Len(sent') = Len(sent) + 1
          /\ \A i \in 1 .. Len(sent) : sent'[i] = sent[i]
          /\ sent'[Len(sent) + 1] = entry
      BY <2>1, <3>2, <3>3, AppendProperties
    <3>5. sent' \in Seq(Range(sent'))
      BY <3>4, SeqOfRange
    <3> QED BY <3>2, <3>4, <3>5
  <2>10. Typed'
    BY <1>1, <2>1, <2>8, <2>9 DEF IInv, Typed
  <2>11. ASSUME NEW i \in DOMAIN sent'
         PROVE  i \in DOMAIN sent \/ (i = Len(sent) + 1 /\ sent'[i] = entry)
    BY <2>9
  <2>12. ASSUME NEW v \in Writers, v # w, Busy(v)
         PROVE  writer[v].ids \cap ids = {}
    BY <1>1, <2>12 DEF IInv, Apart, ids
  <2>13. ASSUME NEW v \in Writers, Busy(v)'
         PROVE  /\ Writes(writer[v])'
                /\ writer'[v].asked = "cart" =>
                     Unsent(writer[v])' /\ Readable(writer'[v].answer)
                /\ writer'[v].asked = "update" => Listed(writer[v])'
    <3>1. CASE v = w
      <4>1. Writes(writer[v])'
        BY <1>1, <2>1, <2>3, <2>4, <2>8, <3>1 DEF Writes, ids, items
      <4>2. Listed(writer[v])'
        BY <2>5, <2>7, <2>8, <3>1 DEF Listed
      <4> QED BY <2>3, <2>8, <3>1, <4>1, <4>2
    <3>2. CASE v # w
      <4>1. writer'[v] = writer[v] /\ Busy(v)
        <5>1. writer'[v] = writer[v]
          BY <2>8, <3>2
        <5> QED BY <2>13, <5>1 DEF Busy
      <4>2. Writes(writer[v])'
        <5>1. Writes(writer[v])
          BY <4>1 DEF IInv, Writing
        <5>2. Whole(writer[v])' <=> Whole(writer[v])
          BY <4>1 DEF Whole
        <5> QED BY <2>1, <4>1, <5>1, <5>2 DEF Writes
      <4>3. writer'[v].asked = "cart" => Unsent(writer[v])' /\ Readable(writer'[v].answer)
        <5>1. writer[v].asked = "cart" => Unsent(writer[v]) /\ Readable(writer[v].answer)
          BY <4>1 DEF IInv, Writing
        <5>2. writer[v].ids \cap ids = {}
          BY <2>12, <3>2, <4>1
        <5>3. Unsent(writer[v]) => Unsent(writer[v])'
          BY <2>6, <2>9, <2>11, <4>1, <5>2 DEF Unsent
        <5> QED BY <4>1, <5>1, <5>3
      <4>4. writer'[v].asked = "update" => Listed(writer[v])'
        BY <4>1 DEF Listed, IInv, Writing
      <4> QED BY <4>2, <4>3, <4>4
    <3> QED BY <3>1, <3>2
  <2>14. Writing'
    BY <2>13 DEF Writing, Readable
  <2>15. Apart'
    BY <1>1, <2>3, <2>8 DEF IInv, Apart, Busy, ids
  <2>16. Spent'
    <3>1. \A id \in ids : id \in Ids /\ proposal[id] # Nil /\ proposal[id].status # "PROPOSED"
      BY <1>1 DEF Writes, ids
    <3> HIDE DEF ids
    <3> QED BY <2>1, <2>6, <2>9, <2>11, <3>1 DEF Spent, IInv
  <2>17. \A i, j \in DOMAIN sent' : sent'[i].ids \cap sent'[j].ids # {} => i = j
    <3>1. \A i \in DOMAIN sent : sent[i].ids \cap ids = {}
      BY <1>1 DEF Unsent, ids
    <3> HIDE DEF ids
    <3> QED BY <2>6, <2>9, <2>11, <3>1 DEF IInv, SentOnceAsApproved
  <2>18. {item.spin : item \in Range(items)} = {items[i].spin : i \in DOMAIN items}
    BY DEF Range
  <2>19. SentOnceAsApproved'
    <3> DEFINE Right(e) ==
          LET own == {proposal'[id].item : id \in e.ids}
          IN  /\ own \subseteq Range(e.lines)
              /\ \A n \in DOMAIN e.lines :
                   \/ e.lines[n] \in own
                   \/ /\ e.lines[n].spin \in DOMAIN e.read
                      /\ e.lines[n].quantity = e.read[e.lines[n].spin]
                      /\ e.lines[n].spin \notin {item.spin : item \in own}
    <3>1. Right(entry)
      <4>1. {proposal'[id].item : id \in entry.ids} = Range(items)
        BY <2>1, <2>4, <2>6
      <4> QED BY <2>5, <2>6, <2>18, <4>1
    <3>2. \A i \in DOMAIN sent : Right(sent[i])
      BY <2>1 DEF IInv, SentOnceAsApproved
    <3> HIDE DEF Right
    <3>3. \A i \in DOMAIN sent' : Right(sent'[i])
      BY <2>9, <2>11, <3>1, <3>2
    <3> USE DEF Right
    <3> QED BY <2>17, <3>3 DEF SentOnceAsApproved
  <2> QED BY <2>10, <2>14, <2>15, <2>16, <2>19 DEF IInv
<1> QED BY <1>2, <1>3

-----------------------------------------------------------------------------
LEMMA InitHolds == Init => IInv
<1> SUFFICES ASSUME Init PROVE IInv
  OBVIOUS
<1>1. /\ proposal = [id \in Ids |-> Nil] /\ writer = [w \in Writers |-> Idle]
      /\ DOMAIN cart \subseteq Spins /\ shown = cart /\ sent = << >>
  BY DEF Init
<1>2. Typed
  BY <1>1 DEF Typed, Range
<1> QED BY <1>1, <1>2 DEF IInv, Writing, Apart, Spent, SentOnceAsApproved, Busy

LEMMA StepKeeps == IInv /\ [Next]_vars => IInv'
<1> SUFFICES ASSUME IInv, [Next]_vars PROVE IInv'
  OBVIOUS
<1>1. CASE UNCHANGED <<proposal, writer, cart, shown, sent>>
  <2>1. Typed'
    BY <1>1 DEF IInv, Typed
  <2> QED BY <1>1, <2>1, IdleStep, SameProposals, FrameKeeps
<1>2. CASE \E id \in Ids, connector \in CartConnectors, item \in Item :
             Propose(id, connector, item)
  BY <1>2, ProposeKeeps
<1>3. CASE \E w \in Writers, list \in Lists : Approve(w, list)
  BY <1>3, ApproveKeeps
<1>4. CASE \E w \in Writers, list \in Lists :
             /\ IsInjective(list)
             /\ \E items \in [DOMAIN list -> Item] : WriteCart(w, list, items)
  BY <1>4, WriteCartKeeps
<1>5. CASE \E w \in Writers : \/ MerchantReads(w) \/ MerchantWrites(w)
                              \/ Merge(w) \/ WriteAnswered(w) \/ Verify(w)
  BY <1>5, MerchantReadsKeeps, MerchantWritesKeeps, MergeKeeps, WriteAnsweredKeeps, VerifyKeeps
<1>6. CASE Settle \/ OwnerEdits \/ Restart
  BY <1>6, OwnerKeeps
<1> QED
  <2>1. ASSUME UNCHANGED vars
        PROVE  UNCHANGED <<proposal, writer, cart, shown, sent>>
    BY <2>1 DEF vars, cartVars
  <2> QED BY <1>1, <1>2, <1>3, <1>4, <1>5, <1>6, <2>1 DEF Next

\* Whatever is approved, in whatever lists, by however many calls, through restarts and
\* merchant failures: a proposal is in one update_cart at most, and that update holds what
\* was approved next to lines the cart was read with, and nothing else (approve_cart_action,
\* approve_cart_action_batch, write_cart, add_items_to_instamart_cart).
THEOREM CartSentOnceAsApproved == Spec => []SentOnceAsApproved
<1>1. IInv => SentOnceAsApproved
  BY DEF IInv
<1> QED BY InitHolds, StepKeeps, <1>1, PTL DEF Spec

-----------------------------------------------------------------------------
(* Success is real.  What a call reads back is what was shown when its      *)
(* first read was answered, what the cart was then, or what its own write   *)
(* made of it: as long as it is quiet nobody else changes the cart (Lags).  *)

\* A cart, and not a failure to read one.
IsCart(answer) == answer \notin {Nil, Error, Stale}

\* r has its first answer and has not written.
Read1(r) == (r.asked = "cart" /\ r.answer # Nil) \/ (r.asked = "update" /\ r.answer = Nil)

\* With the cart now, and what is shown of it: where r is quiet it knows both.
Lags(r, now, display) ==
  r.quiet =>
    /\ Read1(r) => now \in r.before
    /\ ~(r.asked = "cart" /\ r.answer = Nil) => display \in r.before \cup {now}
    /\ r.asked = "back" /\ IsCart(r.answer) => r.answer \in r.before \cup {now, << >>}

\* What was read and is not written anew is in the lines that are kept.
Keeps(r) ==
  r.asked \in {"update", "back"} =>
    DOMAIN r.read \subseteq
      {r.existing[i].spin : i \in DOMAIN r.existing} \cup {r.items[i].spin : i \in DOMAIN r.items}

Watched == \A w \in Writers : Busy(w) => Lags(writer[w], cart, shown) /\ Keeps(writer[w])

Quietly(r, q) ==
  /\ q.asked = r.asked /\ q.answer = r.answer /\ q.before = r.before
  /\ q.read = r.read /\ q.existing = r.existing /\ q.items = r.items

\* A call that nobody crosses keeps its part; one that is crossed is quiet no more.
LEMMA UncrossedKeeps ==
  ASSUME NEW w \in Writers, Lags(writer[w], cart, shown) /\ Keeps(writer[w]),
         Quietly(writer[w], writer'[w]),
         writer'[w].quiet => /\ writer[w].quiet /\ cart' = cart
                             /\ shown' \in {shown, cart}
  PROVE  (Lags(writer[w], cart, shown) /\ Keeps(writer[w]))'
<1>1. Keeps(writer[w])'
  BY DEF Keeps, Quietly
<1>2. Lags(writer[w], cart, shown)'
  <2> SUFFICES ASSUME writer'[w].quiet
               PROVE  /\ Read1(writer'[w]) => cart' \in writer'[w].before
                      /\ ~(writer'[w].asked = "cart" /\ writer'[w].answer = Nil) =>
                           shown' \in writer'[w].before \cup {cart'}
                      /\ writer'[w].asked = "back" /\ IsCart(writer'[w].answer) =>
                           writer'[w].answer \in writer'[w].before \cup {cart', << >>}
    BY DEF Lags, Read1, IsCart
  <2> QED BY DEF Lags, Quietly, Read1, IsCart
<1> QED BY <1>1, <1>2

\* What everybody but call w sees of a step of w that leaves the cart.
LEMMA OthersWatch ==
  ASSUME Watched, NEW w, NEW q, writer' = [writer EXCEPT ![w] = q],
         writer = [v \in Writers |-> writer[v]], UNCHANGED <<cart, shown>>,
         w \in Writers /\ q # Idle => Lags(q, cart, shown) /\ Keeps(q)
  PROVE  Watched'
<1>1. ASSUME NEW v \in Writers, Busy(v)'
      PROVE  (Lags(writer[v], cart, shown) /\ Keeps(writer[v]))'
  <2>1. CASE v = w
    <3>1. writer'[v] = q /\ q # Idle
      BY <1>1, <2>1 DEF Busy
    <3>2. Lags(q, cart, shown) /\ Keeps(q)
      BY <2>1, <3>1
    <3> QED BY <3>1, <3>2 DEF Lags, Keeps, Read1, IsCart
  <2>2. CASE v # w
    <3>1. writer'[v] = writer[v] /\ Busy(v)
      BY <1>1, <2>2 DEF Busy
    <3> QED BY <3>1, UncrossedKeeps DEF Watched, Quietly
  <2> QED BY <2>1, <2>2
<1> QED BY <1>1 DEF Watched

LEMMA NobodyAnswers ==
  ASSUME Watched, writer' = writer, cart' = cart, shown' \in {shown, cart}
  PROVE  Watched'
<1>1. ASSUME NEW v \in Writers, Busy(v)'
      PROVE  (Lags(writer[v], cart, shown) /\ Keeps(writer[v]))'
  <2>1. Busy(v) /\ Quietly(writer[v], writer'[v])
    BY <1>1 DEF Busy, Quietly
  <2> QED BY <2>1, UncrossedKeeps DEF Watched
<1> QED BY <1>1 DEF Watched

\* A call that answers: what becomes of it, and of the others.
LEMMA AnswerWatch ==
  ASSUME IInv, Watched, NEW w \in Writers, NEW answer, Busy(w), Answer(w, answer), shown' = shown,
         \A r : /\ Whole(r) /\ Lags(writer[w], cart, shown) /\ Keeps(writer[w])
                /\ r.asked = writer[w].asked /\ r.answer = answer /\ r.read = writer[w].read
                /\ r.existing = writer[w].existing /\ r.items = writer[w].items
                /\ r.quiet = writer[w].quiet
                /\ r.before = IF writer[w].asked = "cart" THEN {cart, shown} ELSE writer[w].before
                => Lags(r, cart', shown') /\ Keeps(r)
  PROVE  Watched'
<1>1. \A v \in Writers : Busy(v) => Whole(writer[v])
  BY DEF IInv, Writing, Writes
<1> DEFINE before == IF writer[w].asked = "cart" THEN {cart, shown} ELSE writer[w].before
           q == [writer[w] EXCEPT !.answer = answer, !.before = before]
<1>2. writer' = [v \in Writers |->
         IF v = w THEN q
         ELSE IF Busy(v) /\ cart' # cart THEN [writer[v] EXCEPT !.quiet = FALSE]
         ELSE writer[v]]
  BY DEF Answer
<1>3. ASSUME NEW v \in Writers, Busy(v)'
      PROVE  (Lags(writer[v], cart, shown) /\ Keeps(writer[v]))'
  <2>1. CASE v = w
    <3>1. Lags(writer[w], cart, shown) /\ Keeps(writer[w]) /\ Whole(writer[w])
      BY <1>1 DEF Watched
    <3> HIDE DEF before
    <3>2. /\ Whole(q) /\ q.asked = writer[w].asked /\ q.answer = answer
          /\ q.read = writer[w].read /\ q.existing = writer[w].existing
          /\ q.items = writer[w].items /\ q.quiet = writer[w].quiet /\ q.before = before
      BY <3>1 DEF Whole, Fields
    <3>3. writer'[w] = q
      BY <1>2
    <3> HIDE DEF q
    <3>4. Lags(q, cart', shown') /\ Keeps(q)
      BY <3>1, <3>2 DEF before
    <3> QED BY <2>1, <3>3, <3>4 DEF Lags, Keeps, Read1, IsCart
  <2>2. CASE v # w /\ Busy(v) /\ cart' # cart
    <3>1. writer'[v] = [writer[v] EXCEPT !.quiet = FALSE] /\ Whole(writer[v])
      BY <1>1, <1>2, <2>2
    <3>2. Quietly(writer[v], writer'[v]) /\ writer'[v].quiet = FALSE
      BY <3>1 DEF Quietly, Whole, Fields
    <3> QED BY <2>2, <3>2, UncrossedKeeps DEF Watched
  <2>3. CASE v # w /\ ~(Busy(v) /\ cart' # cart)
    <3>1. writer'[v] = writer[v]
      BY <1>2, <2>3
    <3>2. Busy(v) /\ cart' = cart /\ Quietly(writer[v], writer'[v])
      BY <1>3, <2>3, <3>1 DEF Busy, Quietly
    <3> QED BY <3>1, <3>2, UncrossedKeeps DEF Watched
  <2> QED BY <2>1, <2>2, <2>3
<1> QED BY <1>3 DEF Watched

LEMMA AnswersWatch ==
  ASSUME IInv, Watched, NEW w \in Writers, MerchantReads(w) \/ MerchantWrites(w)
  PROVE  Watched'
<1> DEFINE before == IF writer[w].asked = "cart" THEN {cart, shown} ELSE writer[w].before
<1>1. Busy(w) /\ shown' = shown
  BY DEF MerchantReads, MerchantWrites
<1>2. CASE MerchantReads(w)
  <2>1. PICK answer : /\ Answer(w, answer)
                      /\ answer = shown \/ answer \in {<< >>, Stale, Error}
    BY <1>2 DEF MerchantReads
  <2>2. cart' = cart /\ writer[w].asked \in {"cart", "back"}
    BY <1>2 DEF MerchantReads
  <2>3. ASSUME NEW r, Lags(writer[w], cart, shown) /\ Keeps(writer[w]),
               r.asked = writer[w].asked, r.answer = answer, r.read = writer[w].read,
               r.existing = writer[w].existing, r.items = writer[w].items,
               r.quiet = writer[w].quiet, r.before = before
        PROVE  Lags(r, cart', shown') /\ Keeps(r)
    <3>1. Keeps(r)
      BY <2>3 DEF Keeps
    <3>2. CASE writer[w].asked = "cart"
      BY <1>1, <2>2, <2>3, <3>1, <3>2 DEF Lags, Read1
    <3>3. CASE writer[w].asked = "back"
      BY <1>1, <2>1, <2>2, <2>3, <3>1, <3>3 DEF Lags, Read1, IsCart
    <3> QED BY <2>2, <3>2, <3>3
  <2> QED BY <1>1, <2>1, <2>3, AnswerWatch
<1>3. CASE MerchantWrites(w)
  <2>1. PICK answer : Answer(w, answer) /\ answer \in {"replied", Error}
    BY <1>3 DEF MerchantWrites
  <2>2. writer[w].asked = "update" /\ writer[w].answer = Nil
    BY <1>3 DEF MerchantWrites
  <2>3. ASSUME NEW r, Lags(writer[w], cart, shown) /\ Keeps(writer[w]),
               r.asked = writer[w].asked, r.answer = answer, r.read = writer[w].read,
               r.existing = writer[w].existing, r.items = writer[w].items,
               r.quiet = writer[w].quiet, r.before = before
        PROVE  Lags(r, cart', shown') /\ Keeps(r)
    <3>1. Keeps(r)
      BY <2>3 DEF Keeps
    <3>2. r.answer # Nil
      BY <2>1, <2>3, CartAssumption
    <3> QED BY <1>1, <2>2, <2>3, <3>1, <3>2 DEF Lags, Read1
  <2> QED BY <1>1, <2>1, <2>3, AnswerWatch
<1> QED BY <1>2, <1>3

\* The lines that are kept, and those that are written, are all that was read.
LEMMA KeptCovers ==
  ASSUME NEW read, DOMAIN read \subseteq Spins, NEW items
  PROVE  DOMAIN read \subseteq {Kept(read, items)[i].spin : i \in DOMAIN Kept(read, items)}
                                 \cup {items[i].spin : i \in DOMAIN items}
<1> DEFINE spins == DOMAIN read \ {items[i].spin : i \in DOMAIN items}
           line(spin) == [spin |-> spin, quantity |-> read[spin]]
           kept == {line(spin) : spin \in spins}
<1>1. IsFiniteSet(kept)
  BY KeptFinite
<1>2. Kept(read, items) = SetToSeq(kept)
  BY DEF Kept
<1>3. \A spin \in spins : line(spin) \in kept /\ line(spin).spin = spin
  OBVIOUS
<1> HIDE DEF kept, line
<1>4. \A e \in kept : \E i \in DOMAIN SetToSeq(kept) : SetToSeq(kept)[i] = e
  BY <1>1, SetToSeqLists
<1> QED BY <1>2, <1>3, <1>4

LEMMA CallsWatch ==
  ASSUME IInv, Watched, NEW w \in Writers, Merge(w) \/ WriteAnswered(w) \/ Verify(w)
  PROVE  Watched'
<1>1. /\ Busy(w) /\ Whole(writer[w]) /\ UNCHANGED <<cart, shown>>
      /\ Lags(writer[w], cart, shown) /\ Keeps(writer[w])
      /\ writer = [v \in Writers |-> writer[v]]
  BY DEF Merge, WriteAnswered, Verify, IInv, Typed, Writing, Writes, Watched
<1>2. CASE writer' = [writer EXCEPT ![w] = Idle]
  BY <1>1, <1>2, OthersWatch
<1>3. CASE Merge(w) /\ writer[w].answer # Error
  <2> DEFINE read == IF writer[w].answer = Stale THEN << >> ELSE writer[w].answer
             items == writer[w].items
             existing == Kept(read, items)
             q == [writer[w] EXCEPT !.asked = "update", !.answer = Nil,
                                    !.existing = existing, !.read = read]
  <2>1. /\ writer' = [writer EXCEPT ![w] = q] /\ writer[w].asked = "cart"
        /\ writer[w].answer # Nil /\ Readable(writer[w].answer)
    BY <1>1, <1>3 DEF Merge, IInv, Writing
  <2>2. DOMAIN read \subseteq Spins
    BY <1>3, <2>1 DEF Readable
  <2>3. DOMAIN read \subseteq {existing[i].spin : i \in DOMAIN existing}
                                 \cup {items[i].spin : i \in DOMAIN items}
    <3> HIDE DEF read, items
    <3> QED BY <2>2, KeptCovers
  <2>4. /\ q.asked = "update" /\ q.answer = Nil /\ q.existing = existing /\ q.read = read
        /\ q.items = items /\ q.before = writer[w].before /\ q.quiet = writer[w].quiet
    <3> HIDE DEF existing, read
    <3> QED BY <1>1 DEF Whole, Fields
  <2> HIDE DEF q, existing, read, items
  <2>5. Keeps(q)
    BY <2>3, <2>4 DEF Keeps
  <2>6. Lags(q, cart, shown)
    BY <1>1, <2>1, <2>4 DEF Lags, Read1
  <2> QED BY <1>1, <2>1, <2>5, <2>6, OthersWatch
<1>4. ASSUME NEW q, writer' = [writer EXCEPT ![w] = q], writer[w].asked \in {"update", "back"},
             writer[w].asked = "update" => writer[w].answer # Nil,
             q.asked = "back", q.answer = Nil, q.existing = writer[w].existing,
             q.read = writer[w].read, q.items = writer[w].items, q.before = writer[w].before,
             q.quiet = writer[w].quiet
      PROVE  Watched'
  <2>1. Keeps(q) /\ Lags(q, cart, shown)
    BY <1>1, <1>4 DEF Keeps, Lags, Read1, IsCart
  <2> QED BY <1>1, <1>4, <2>1, OthersWatch
<1>5. CASE WriteAnswered(w) /\ writer[w].answer # Error
  <2> DEFINE q == [writer[w] EXCEPT !.asked = "back", !.answer = Nil]
  <2>1. /\ q.asked = "back" /\ q.answer = Nil /\ q.existing = writer[w].existing
        /\ q.read = writer[w].read /\ q.items = writer[w].items
        /\ q.before = writer[w].before /\ q.quiet = writer[w].quiet
    BY <1>1 DEF Whole, Fields
  <2>2. /\ writer[w].asked = "update" /\ writer[w].answer # Nil
        /\ writer' = [writer EXCEPT ![w] = q]
    BY <1>1, <1>5 DEF WriteAnswered
  <2> HIDE DEF q
  <2> QED BY <1>4, <2>1, <2>2
<1>6. CASE /\ writer[w].asked = "back"
           /\ writer' = [writer EXCEPT ![w] =
                          [writer[w] EXCEPT !.left = writer[w].left - 1, !.answer = Nil]]
  <2> DEFINE q == [writer[w] EXCEPT !.left = writer[w].left - 1, !.answer = Nil]
  <2>1. /\ q.asked = "back" /\ q.answer = Nil /\ q.existing = writer[w].existing
        /\ q.read = writer[w].read /\ q.items = writer[w].items
        /\ q.before = writer[w].before /\ q.quiet = writer[w].quiet
    BY <1>1, <1>6 DEF Whole, Fields
  <2>2. writer' = [writer EXCEPT ![w] = q]
    BY <1>6
  <2> HIDE DEF q
  <2> QED BY <1>4, <1>6, <2>1, <2>2
<1>7. Verify(w) => writer' = [writer EXCEPT ![w] = Idle]
        \/ /\ writer[w].asked = "back"
           /\ writer' = [writer EXCEPT ![w] =
                          [writer[w] EXCEPT !.left = writer[w].left - 1, !.answer = Nil]]
  BY <1>1 DEF Verify, Fail
<1>8. Merge(w) /\ writer[w].answer = Error => writer' = [writer EXCEPT ![w] = Idle]
  BY DEF Merge, Fail
<1>9. WriteAnswered(w) /\ writer[w].answer = Error => writer' = [writer EXCEPT ![w] = Idle]
  BY DEF WriteAnswered, Fail
<1> QED BY <1>2, <1>3, <1>5, <1>6, <1>7, <1>8, <1>9

LEMMA BeginWatch ==
  ASSUME IInv, Watched, NEW w \in Writers, UNCHANGED <<cart, shown>>,
         \/ writer' = writer
         \/ \E ids, items, token : Begin(w, ids, items, token)
  PROVE  Watched'
<1>1. CASE writer' = writer
  BY <1>1, NobodyAnswers
<1>2. CASE \E ids, items, token : Begin(w, ids, items, token)
  <2> PICK ids, items, token : Begin(w, ids, items, token)
    BY <1>2
  <2> DEFINE q == [asked |-> "cart", answer |-> Nil, ids |-> ids, items |-> items,
                   token |-> token, existing |-> << >>, left |-> Attempts, read |-> << >>,
                   before |-> {}, quiet |-> TRUE]
  <2>1. writer' = [writer EXCEPT ![w] = q] /\ writer = [v \in Writers |-> writer[v]]
    BY DEF Begin, IInv, Typed
  <2>2. q.asked = "cart" /\ q.answer = Nil
    OBVIOUS
  <2> HIDE DEF q
  <2>3. Lags(q, cart, shown) /\ Keeps(q)
    BY <2>2 DEF Lags, Keeps, Read1, IsCart
  <2> QED BY <2>1, <2>3, OthersWatch
<1> QED BY <1>1, <1>2

LEMMA OwnerWatch ==
  ASSUME IInv, Watched, Settle \/ OwnerEdits \/ Restart
  PROVE  Watched'
<1>1. CASE Settle
  BY <1>1, NobodyAnswers DEF Settle
<1>2. CASE OwnerEdits
  <2>1. ASSUME NEW v \in Writers, Busy(v)'
        PROVE  (Lags(writer[v], cart, shown) /\ Keeps(writer[v]))'
    <3>1. Busy(v) /\ writer'[v] = [writer[v] EXCEPT !.quiet = FALSE]
      BY <1>2, <2>1 DEF OwnerEdits, Busy
    <3>2. Whole(writer[v]) /\ Lags(writer[v], cart, shown) /\ Keeps(writer[v])
      BY <3>1 DEF IInv, Writing, Writes, Watched
    <3>3. Quietly(writer[v], writer'[v]) /\ writer'[v].quiet = FALSE
      BY <3>1, <3>2 DEF Quietly, Whole, Fields
    <3> QED BY <3>2, <3>3, UncrossedKeeps
  <2> QED BY <2>1 DEF Watched
<1>3. CASE Restart
  <2>1. \A v \in Writers : ~Busy(v)'
    BY <1>3 DEF Restart, Busy
  <2> QED BY <2>1 DEF Watched
<1> QED BY <1>1, <1>2, <1>3

LEMMA WatchedInit == Init => Watched
BY DEF Init, Watched, Busy

LEMMA WatchedKeeps == IInv /\ Watched /\ [Next]_vars => Watched'
<1> SUFFICES ASSUME IInv, Watched, [Next]_vars PROVE Watched'
  OBVIOUS
<1>1. CASE UNCHANGED <<writer, cart, shown>>
  BY <1>1, NobodyAnswers
<1>2. CASE \E id \in Ids, connector \in CartConnectors, item \in Item :
             Propose(id, connector, item)
  BY <1>1, <1>2 DEF Propose
<1>3. CASE \E w \in Writers, list \in Lists : Approve(w, list)
  <2> PICK w \in Writers, list \in Lists : Approve(w, list)
    BY <1>3
  <2>1. /\ UNCHANGED <<cart, shown>>
        /\ writer' = writer \/ \E ids, items, token : Begin(w, ids, items, token)
    BY DEF Approve
  <2> QED BY <2>1, BeginWatch
<1>4. CASE \E w \in Writers, list \in Lists :
             /\ IsInjective(list)
             /\ \E items \in [DOMAIN list -> Item] : WriteCart(w, list, items)
  <2> PICK w \in Writers, list \in Lists :
             \E items \in [DOMAIN list -> Item] : WriteCart(w, list, items)
    BY <1>4
  <2> PICK items \in [DOMAIN list -> Item] : WriteCart(w, list, items)
    OBVIOUS
  <2>1. /\ UNCHANGED <<cart, shown>>
        /\ writer' = writer \/ \E ids, token : Begin(w, ids, items, token)
    BY DEF WriteCart
  <2> QED BY <2>1, BeginWatch
<1>5. CASE \E w \in Writers : \/ MerchantReads(w) \/ MerchantWrites(w)
                              \/ Merge(w) \/ WriteAnswered(w) \/ Verify(w)
  BY <1>5, AnswersWatch, CallsWatch
<1>6. CASE Settle \/ OwnerEdits \/ Restart
  BY <1>6, OwnerWatch
<1> QED
  <2>1. ASSUME UNCHANGED vars
        PROVE  UNCHANGED <<writer, cart, shown>>
    BY <2>1 DEF vars, cartVars
  <2> QED BY <1>1, <1>2, <1>3, <1>4, <1>5, <1>6, <2>1 DEF Next

\* A step that fails the proposals of a call, or none, makes no proposal a success.
LEMMA FailSucceedsNot ==
  ASSUME IInv, NEW w \in Writers, NEW ids \in SUBSET Ids, \A id \in ids : proposal[id] # Nil,
         NEW status \in {"EXECUTING", "FAILED"},
         proposal' = proposal \/ proposal' = SetStatus(ids, status)
  PROVE  ~Succeeds(w)
<1>1. Busy(w) => writer[w].ids \subseteq Ids
  BY DEF IInv, Writing, Writes
<1>2. CASE proposal' = proposal
  BY <1>2 DEF Succeeds
<1>3. CASE proposal' = SetStatus(ids, status)
  <2>1. /\ \A id \in ids : proposal'[id].status = status
        /\ \A id \in Ids \ ids : proposal'[id] = proposal[id]
    BY <1>3, StatusSet DEF IInv
  <2> QED BY <1>1, <2>1 DEF Succeeds
<1> QED BY <1>2, <1>3

LEMMA SucceedsByVerify ==
  ASSUME IInv, [Next]_vars, NEW w \in Writers, Succeeds(w)
  PROVE  /\ Busy(w) /\ writer[w].asked = "back" /\ IsCart(writer[w].answer)
         /\ Missing(w, writer[w].answer) = {} /\ Lost(w, writer[w].answer) = {}
<1>1. PICK id \in writer[w].ids : proposal[id].status # "SUCCEEDED"
                                  /\ proposal'[id].status = "SUCCEEDED"
  BY DEF Succeeds
<1>2. /\ Busy(w) /\ id \in Ids /\ proposal[id] # Nil /\ proposal[id].status = "EXECUTING"
      /\ proposal'[id] # proposal[id]
  BY <1>1 DEF Succeeds, IInv, Writing, Writes
<1>3. \A v \in Writers : Busy(v) =>
        writer[v].ids \in SUBSET Ids /\ \A other \in writer[v].ids : proposal[other] # Nil
  BY DEF IInv, Writing, Writes
<1>4. ASSUME proposal' = proposal
      PROVE  FALSE
  BY <1>2, <1>4
<1>5. ASSUME NEW v \in Writers, Busy(v), Fail(v)
      PROVE  FALSE
  BY <1>3, <1>5, FailSucceedsNot DEF Fail
<1>6. ASSUME NEW other \in Ids, NEW connector \in CartConnectors, NEW item \in Item,
             Propose(other, connector, item)
      PROVE  FALSE
  BY <1>2, <1>6 DEF Propose, IInv, Typed
<1>7. ASSUME NEW v \in Writers, NEW list \in Lists, Approve(v, list)
      PROVE  FALSE
  <2>1. /\ Range(list) \in SUBSET Ids /\ \A other \in Range(list) : proposal[other] # Nil
        /\ \E status \in {"EXECUTING", "FAILED"} : proposal' = SetStatus(Range(list), status)
    BY <1>7, ListsAre DEF Approve, Saved, NextStatus
  <2> QED BY <2>1, FailSucceedsNot
<1>8. ASSUME NEW v \in Writers, NEW list \in Lists, NEW items \in [DOMAIN list -> Item],
             WriteCart(v, list, items)
      PROVE  FALSE
  <2>1. \A i \in DOMAIN list : list[i] # id
    BY <1>2, <1>8 DEF WriteCart
  <2>2. proposal'[id] = proposal[id]
    BY <1>2, <1>8, <2>1 DEF WriteCart
  <2> QED BY <1>2, <2>2
<1>9. ASSUME NEW v \in Writers, MerchantReads(v) \/ MerchantWrites(v)
      PROVE  FALSE
  BY <1>4, <1>9 DEF MerchantReads, MerchantWrites
<1>10. ASSUME NEW v \in Writers, Merge(v) \/ WriteAnswered(v)
       PROVE  FALSE
  BY <1>4, <1>5, <1>10 DEF Merge, WriteAnswered
<1>11. ASSUME NEW v \in Writers, Verify(v)
       PROVE  /\ writer[w].asked = "back" /\ IsCart(writer[w].answer)
              /\ Missing(w, writer[w].answer) = {} /\ Lost(w, writer[w].answer) = {}
  <2>1. /\ Busy(v) /\ writer[v].asked = "back" /\ IsCart(writer[v].answer)
        /\ Missing(v, writer[v].answer) = {} /\ Lost(v, writer[v].answer) = {}
        /\ proposal' = SetStatus(writer[v].ids, "SUCCEEDED")
    BY <1>4, <1>5, <1>11 DEF Verify, IsCart
  <2>2. id \in writer[v].ids
    BY <1>2, <2>1 DEF SetStatus
  <2>3. v = w
    BY <1>1, <1>2, <2>1, <2>2 DEF IInv, Apart
  <2> QED BY <2>1, <2>3
<1>12. CASE UNCHANGED vars
  BY <1>4, <1>12 DEF vars, cartVars
<1>13. CASE Settle \/ OwnerEdits \/ Restart
  BY <1>4, <1>13 DEF Settle, OwnerEdits, Restart
<1> QED
  BY <1>2, <1>4, <1>6, <1>7, <1>8, <1>9, <1>10, <1>11, <1>12, <1>13 DEF Next

LEMMA SuccessIsReal ==
  ASSUME IInv, Watched, [Next]_vars, NEW w \in Writers, Succeeds(w), writer[w].quiet
  PROVE  LET there(lines) == \A i \in DOMAIN writer[w].items :
                               LET item == writer[w].items[i]
                               IN  item.spin \in DOMAIN lines /\ lines[item.spin] = item.quantity
         IN  \/ \E earlier \in writer[w].before : there(earlier)
             \/ there(cart) /\ DOMAIN writer[w].read \subseteq DOMAIN cart
<1> DEFINE back == writer[w].answer
           items == writer[w].items
           there(lines) == \A i \in DOMAIN items :
             items[i].spin \in DOMAIN lines /\ lines[items[i].spin] = items[i].quantity
<1>1. /\ Busy(w) /\ writer[w].asked = "back" /\ IsCart(back)
      /\ Missing(w, back) = {} /\ Lost(w, back) = {}
  BY SucceedsByVerify
<1>2. Lags(writer[w], cart, shown) /\ Keeps(writer[w]) /\ Writes(writer[w])
  BY <1>1 DEF Watched, IInv, Writing
<1>3. back \in writer[w].before \cup {cart, << >>}
  BY <1>1, <1>2 DEF Lags
<1>4. there(back)
  BY <1>1 DEF Missing
<1>5. \E i \in DOMAIN items : TRUE
  BY <1>2 DEF Succeeds, Writes, Range
<1>6. back # << >>
  BY <1>4, <1>5
<1>7. CASE back \in writer[w].before
  BY <1>4, <1>7
<1>8. CASE back = cart
  <2>1. \A i \in DOMAIN writer[w].existing : writer[w].existing[i].spin \in DOMAIN cart
    BY <1>1, <1>8 DEF Lost
  <2>2. \A i \in DOMAIN items : items[i].spin \in DOMAIN cart
    BY <1>4, <1>8
  <2>3. DOMAIN writer[w].read \subseteq DOMAIN cart
    BY <1>1, <1>2, <2>1, <2>2 DEF Keeps
  <2> QED BY <1>4, <1>8, <2>3
<1> QED BY <1>3, <1>6, <1>7, <1>8

\* Whatever the merchant drops, loses or shows late, and however many calls, approvals,
\* restarts and failures there are: when a call that nobody crossed reports success, the
\* approved lines, and all that its first read showed, are in the merchant's cart, or the
\* approved lines were there, or shown, when that first read was answered
\* (add_items_to_instamart_cart's read-back in swiggy_cart.py).
THEOREM CartSucceededIsReal == Spec => SucceededIsReal
<1>1. Init => IInv /\ Watched
  BY InitHolds, WatchedInit
<1>2. IInv /\ Watched /\ [Next]_vars => (IInv /\ Watched)'
  BY StepKeeps, WatchedKeeps
<1>3. IInv /\ Watched /\ [Next]_vars =>
        [\A w \in Writers :
           Succeeds(w) /\ writer[w].quiet =>
             LET there(lines) == \A i \in DOMAIN writer[w].items :
                   LET item == writer[w].items[i]
                   IN  item.spin \in DOMAIN lines /\ lines[item.spin] = item.quantity
             IN  \/ \E earlier \in writer[w].before : there(earlier)
                 \/ there(cart) /\ DOMAIN writer[w].read \subseteq DOMAIN cart]_vars
  BY SuccessIsReal
<1> QED BY <1>1, <1>2, <1>3, PTL DEF Spec, SucceededIsReal
=============================================================================
