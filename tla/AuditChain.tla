----------------------------- MODULE AuditChain -----------------------------
(***************************************************************************)
(* audit.py: a hash chain of events in one table, appended to by threads   *)
(* of several processes.  _AUDIT_LOCK keeps the threads of one process     *)
(* apart; between processes the UNIQUE seq is the only referee, and the    *)
(* loser reads the new tail and tries again.                               *)
(*                                                                         *)
(* Nothing is ever deleted, so the row with seq n is the (n+1)-th of a     *)
(* sequence, and an insert at a taken seq is an insert that finds the      *)
(* sequence longer than what was read.  A hash is the sequence of payloads *)
(* it commits to: injective, << >> for no previous hash.                   *)
(***************************************************************************)
EXTENDS Naturals, Sequences

CONSTANTS
  Writers,      \* calls of append_event
  Processes,
  ProcessOf,    \* per writer: the process its thread is in
  Retries,      \* _APPEND_RETRIES
  Tampering     \* may somebody with access to the database edit one row

ASSUME AuditAssumption ==
  /\ ProcessOf \in [Writers -> Processes]
  /\ Retries \in Nat \ {0}
  /\ Tampering \in BOOLEAN

VARIABLES
  chain,        \* the table in seq order: [payload, prev, hash]
  up,           \* the processes that run
  pc,           \* per writer
  read,         \* per writer: how long the chain was when it read the tail
  tail,         \* per writer: the hash it read there
  tries,        \* per writer: attempts that lost
  \* History, read by no action's guard.
  place,        \* per writer: the position of its row, 0 before
  begun, ended, \* per writer: the chain's length when it got the lock and let it go
  edited        \* the position of the edited row, 0 if none

auditVars == <<chain, up, pc, read, tail, tries, place, begun, ended, edited>>

\* The event of a call is the call: payloads differ.
Payloads == Writers

Hashes == Seq(Payloads)

Row == [payload : Payloads, prev : Hashes, hash : Hashes, by : Processes]

\* sha256 over prev_hash and payload_json.
Hash(prev, payload) == Append(prev, payload)

HoldsLock(w) == pc[w] \in {"reading", "inserting"}

TipHash(rows) == IF rows = << >> THEN << >> ELSE rows[Len(rows)].hash

AuditInit ==
  /\ chain = << >>
  /\ up = {}
  /\ pc = [w \in Writers |-> "idle"]
  /\ read = [w \in Writers |-> 0]
  /\ tail = [w \in Writers |-> << >>]
  /\ tries = [w \in Writers |-> 0]
  /\ place = [w \in Writers |-> 0]
  /\ begun = [w \in Writers |-> 0]
  /\ ended = [w \in Writers |-> 0]
  /\ edited = 0

\* Without the lock.
MayEnter(w) == TRUE

\* with _AUDIT_LOCK.
MayAppend(w) == \A v \in Writers : HoldsLock(v) => ProcessOf[v] # ProcessOf[w]

TakeLock(w) ==
  /\ pc[w] = "idle" /\ ProcessOf[w] \in up
  /\ MayAppend(w)
  /\ pc' = [pc EXCEPT ![w] = "reading"]
  /\ begun' = [begun EXCEPT ![w] = Len(chain)]
  /\ UNCHANGED <<chain, up, read, tail, tries, place, ended, edited>>

\* SELECT the last event.
ReadTail(w) ==
  /\ pc[w] = "reading"
  /\ pc' = [pc EXCEPT ![w] = "inserting"]
  /\ read' = [read EXCEPT ![w] = Len(chain)]
  /\ tail' = [tail EXCEPT ![w] = TipHash(chain)]
  /\ UNCHANGED <<chain, up, tries, place, begun, ended, edited>>

\* The UNIQUE constraint forgotten: whatever has landed since, the row is added.
SeqIsAlwaysFree(w) == TRUE

SeqIsFree(w) == Len(chain) = read[w]

Insert(w) ==
  /\ pc[w] = "inserting" /\ SeqIsFree(w)
  /\ chain' = Append(chain, [payload |-> w, prev |-> tail[w],
                             hash |-> Hash(tail[w], w), by |-> ProcessOf[w]])
  /\ pc' = [pc EXCEPT ![w] = "done"]
  /\ place' = [place EXCEPT ![w] = Len(chain) + 1]
  /\ ended' = [ended EXCEPT ![w] = Len(chain) + 1]
  /\ UNCHANGED <<up, read, tail, tries, begun, edited>>

\* IntegrityError: read again, or give up after the last attempt.
Collide(w) ==
  /\ pc[w] = "inserting" /\ ~SeqIsFree(w)
  /\ tries' = [tries EXCEPT ![w] = tries[w] + 1]
  /\ IF tries[w] + 1 < Retries
     THEN pc' = [pc EXCEPT ![w] = "reading"] /\ UNCHANGED ended
     ELSE pc' = [pc EXCEPT ![w] = "failed"] /\ ended' = [ended EXCEPT ![w] = Len(chain)]
  /\ UNCHANGED <<chain, up, read, tail, place, begun, edited>>

\* A process ends; its threads end with it, committed rows stay.
Stop(p) ==
  /\ p \in up
  /\ up' = up \ {p}
  /\ pc' = [w \in Writers |->
              IF ProcessOf[w] = p /\ pc[w] # "failed" THEN "killed" ELSE pc[w]]
  /\ UNCHANGED <<chain, read, tail, tries, place, begun, ended, edited>>

\* One column of one row is given another value, past the code.
Edit(k, row) ==
  /\ Tampering /\ edited = 0
  /\ \/ \E payload \in Payloads \ {row.payload} :
          chain' = [chain EXCEPT ![k].payload = payload]
     \/ \E w \in Writers, i \in DOMAIN chain :
          \/ /\ chain[i].hash # row.prev
             /\ chain' = [chain EXCEPT ![k].prev = chain[i].hash]
          \/ /\ Append(row.hash, w) # row.hash
             /\ chain' = [chain EXCEPT ![k].hash = Append(row.hash, w)]
  /\ edited' = k
  /\ UNCHANGED <<up, pc, read, tail, tries, place, begun, ended>>

AuditNext ==
  \/ \E w \in Writers : TakeLock(w) \/ ReadTail(w) \/ Insert(w) \/ Collide(w)
  \/ \E k \in DOMAIN chain : Edit(k, chain[k])

-----------------------------------------------------------------------------
\* verify_chain's two tests of an event.
Sound(rows, i) ==
  /\ rows[i].prev = IF i = 1 THEN << >> ELSE rows[i - 1].hash
  /\ rows[i].hash = Hash(rows[i].prev, rows[i].payload)

\* verify_chain: the first event that fails, 0 when the chain verifies.
BrokenAt(rows) ==
  IF \A i \in DOMAIN rows : Sound(rows, i) THEN 0
  ELSE CHOOSE i \in DOMAIN rows :
         ~Sound(rows, i) /\ \A j \in 1 .. (i - 1) : Sound(rows, j)

AuditTypeOK ==
  /\ chain \in Seq(Row)
  /\ up \subseteq Processes
  /\ pc \in [Writers -> {"idle", "reading", "inserting", "done", "issued", "failed", "killed"}]
  /\ read \in [Writers -> Nat]
  /\ tail \in [Writers -> Hashes]
  /\ tries \in [Writers -> 0 .. Retries]
  /\ place \in [Writers -> Nat]
  /\ begun \in [Writers -> Nat] /\ ended \in [Writers -> Nat]
  /\ edited \in Nat

\* However many processes append at once, verify_chain accepts what they wrote; a
\* payload, prev_hash or entry_hash edited in one row is found, at that row, and stays
\* found whatever is appended on top of it, by writers that read the tail before the
\* edit too (audit.py: "the earliest point ... where the chain disagrees with itself").
VerdictIsTrue == BrokenAt(chain) = edited

\* append_event gives up only after as many events of other processes took the seq it
\* wanted: threads of one process never make each other fail ("the lock closes the
\* separate ... hazard"), and a lost race is never counted twice.
RefusedOnlyByOthers ==
  \A w \in Writers :
    pc[w] = "failed" =>
      /\ ended[w] - begun[w] >= Retries
      /\ \A i \in (begun[w] + 1) .. ended[w] : chain[i].by # ProcessOf[w]
=============================================================================
