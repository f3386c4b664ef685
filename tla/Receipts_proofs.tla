--------------------------- MODULE Receipts_proofs ---------------------------
(***************************************************************************)
(* The audit chain and the receipts signed on it, for any number of        *)
(* processes, threads, attempts and keys.                                  *)
(*                                                                         *)
(* What makes the verdict true is a fact about writers in flight: as long  *)
(* as no row was edited, the hash a writer read is still the hash of the   *)
(* row it read it from (Linked), so that a row inserted at the seq it      *)
(* wanted continues the chain.  What makes refusals fair is that rows      *)
(* added while a thread holds its process's lock are other processes'      *)
(* (Counted).  One key needs that starts do not overlap (OneKey).          *)
(***************************************************************************)
EXTENDS Receipts, TLAPS, SequenceTheorems

\* The writers that have not been ended with their process.
Runs(w) == HoldsLock(w) \/ pc[w] \in {"done", "issued"}

Booted ==
  /\ up = {p \in Processes : boot[p] = "on"}
  /\ \A p \in up : key[p] \in Keys
  /\ \A w \in Writers : Runs(w) => ProcessOf[w] \in up

Exclusive ==
  \A v, w \in Writers :
    HoldsLock(v) /\ HoldsLock(w) /\ ProcessOf[v] = ProcessOf[w] => v = w

\* Every attempt that lost is a row somebody else added since the lock was taken.
Counted ==
  /\ \A w \in Writers : pc[w] = "idle" => tries[w] = 0
  /\ \A w \in Writers : HoldsLock(w) =>
       /\ tries[w] < Retries
       /\ begun[w] + tries[w] <= Len(chain)
       /\ \A i \in (begun[w] + 1) .. Len(chain) : chain[i].by # ProcessOf[w]
  /\ \A w \in Writers : pc[w] = "inserting" =>
       begun[w] + tries[w] <= read[w] /\ read[w] <= Len(chain)

Refused ==
  \A w \in Writers : pc[w] = "failed" => ended[w] <= Len(chain)

Linked ==
  edited = 0 => \A w \in Writers : pc[w] = "inserting" =>
    tail[w] = IF read[w] = 0 THEN << >> ELSE chain[read[w]].hash

Intact ==
  IF edited = 0 THEN \A i \in DOMAIN chain : Sound(chain, i)
  ELSE /\ edited \in DOMAIN chain /\ ~Sound(chain, edited)
       /\ \A i \in 1 .. (edited - 1) : Sound(chain, i)

Placed ==
  \A w \in Writers :
    /\ pc[w] \in {"done", "issued"} => place[w] # 0
    /\ place[w] # 0 =>
         /\ pc[w] \in {"done", "issued", "killed"}
         /\ place[w] \in DOMAIN chain
         /\ place[w] # edited => /\ chain[place[w]].hash = Hash(tail[w], w)
                                 /\ chain[place[w]].payload = w

Announced ==
  \A r \in receipts : place[r.call] # 0 /\ r.tip = Hash(tail[r.call], r.call)

IInv ==
  /\ TypeOK /\ Booted /\ Exclusive /\ Counted /\ Refused /\ RefusedOnlyByOthers
  /\ Linked /\ Intact /\ Placed /\ Announced

\* Overlapping starts apart, there is one key and every process has it.
OneKey ==
  /\ Len(keys) <= 1
  /\ \A p \in Processes : boot[p] = "creating" =>
       /\ keys = << >>
       /\ \A q \in Processes : boot[q] = "creating" => q = p
  /\ \A p \in up : keys # << >> /\ key[p] = keys[1]
  /\ \A r \in receipts : keys # << >> /\ r.key = keys[1]

-----------------------------------------------------------------------------
LEMMA HashIsInjective ==
  ASSUME NEW s \in Hashes, NEW t \in Hashes, NEW a \in Writers, NEW b \in Writers,
         Hash(s, a) = Hash(t, b)
  PROVE  s = t /\ a = b
BY AppendInjective DEF Hash, Hashes, Payloads

LEMMA HashIsAHash ==
  ASSUME NEW s \in Hashes, NEW a \in Writers
  PROVE  Hash(s, a) \in Hashes
BY AppendProperties DEF Hash, Hashes, Payloads

LEMMA TipIsAHash ==
  ASSUME NEW rows \in Seq(Row)
  PROVE  TipHash(rows) \in Hashes
<1>1. CASE rows = << >>
  BY <1>1 DEF TipHash, Hashes
<1>2. CASE rows # << >>
  <2>1. Len(rows) \in 1 .. Len(rows)
    BY <1>2, EmptySeq
  <2>2. rows[Len(rows)] \in Row
    BY <2>1, ElementOfSeq
  <2> QED BY <1>2, <2>2 DEF TipHash, Row
<1> QED BY <1>1, <1>2

\* An insert adds one row at the end and touches no other.
LEMMA InsertGrows ==
  ASSUME TypeOK, NEW w \in Writers, Insert(w)
  PROVE  /\ chain' \in Seq(Row) /\ Len(chain') = Len(chain) + 1
         /\ \A i \in 1 .. Len(chain) : chain'[i] = chain[i]
         /\ chain'[Len(chain) + 1] = [payload |-> w, prev |-> tail[w],
                                      hash |-> Hash(tail[w], w), by |-> ProcessOf[w]]
<1> DEFINE row == [payload |-> w, prev |-> tail[w], hash |-> Hash(tail[w], w),
                   by |-> ProcessOf[w]]
<1>1. tail[w] \in Hashes /\ ProcessOf[w] \in Processes
  BY AuditAssumption DEF TypeOK, AuditTypeOK
<1>2. row \in Row
  BY <1>1, HashIsAHash DEF Row, Payloads
<1>3. chain \in Seq(Row) /\ chain' = Append(chain, row)
  BY DEF TypeOK, AuditTypeOK, Insert
<1> HIDE DEF row
<1>4. /\ Append(chain, row) \in Seq(Row) /\ Len(Append(chain, row)) = Len(chain) + 1
      /\ \A i \in 1 .. Len(chain) : Append(chain, row)[i] = chain[i]
      /\ Append(chain, row)[Len(chain) + 1] = row
  BY <1>2, <1>3, AppendProperties
<1> QED BY <1>3, <1>4 DEF row

\* An edit changes one column of one row, never who wrote it.
LEMMA EditChanges ==
  ASSUME TypeOK, NEW k \in DOMAIN chain, Edit(k, chain[k])
  PROVE  /\ k \in 1 .. Len(chain) /\ edited = 0 /\ edited' = k
         /\ chain' \in Seq(Row) /\ Len(chain') = Len(chain)
         /\ \A i \in 1 .. Len(chain) : i # k => chain'[i] = chain[i]
         /\ chain[k] \in Row /\ chain'[k] \in Row /\ chain'[k].by = chain[k].by
         /\ \/ /\ chain'[k].payload # chain[k].payload
               /\ chain'[k].prev = chain[k].prev /\ chain'[k].hash = chain[k].hash
            \/ chain'[k].prev # chain[k].prev
            \/ /\ chain'[k].hash # chain[k].hash
               /\ chain'[k].prev = chain[k].prev /\ chain'[k].payload = chain[k].payload
<1>1. chain \in Seq(Row) /\ DOMAIN chain = 1 .. Len(chain)
  BY DEF TypeOK, AuditTypeOK
<1>2. k \in 1 .. Len(chain) /\ chain[k] \in Row
  BY <1>1, ElementOfSeq
<1>3. edited = 0 /\ edited' = k
  BY DEF Edit
<1>4. ASSUME NEW row \in Row, chain' = [chain EXCEPT ![k] = row]
      PROVE  /\ chain' \in Seq(Row) /\ Len(chain') = Len(chain) /\ chain'[k] = row
             /\ \A i \in 1 .. Len(chain) : i # k => chain'[i] = chain[i]
  BY <1>1, <1>2, <1>4, ExceptSeq
<1>5. CASE \E payload \in Payloads \ {chain[k].payload} :
             chain' = [chain EXCEPT ![k].payload = payload]
  <2>1. PICK payload \in Payloads : /\ payload # chain[k].payload
                                    /\ chain' = [chain EXCEPT ![k].payload = payload]
    BY <1>5
  <2> DEFINE row == [chain[k] EXCEPT !.payload = payload]
  <2>2. /\ row \in Row /\ row.by = chain[k].by /\ row.payload = payload
        /\ row.prev = chain[k].prev /\ row.hash = chain[k].hash
    BY <1>2 DEF Row
  <2>3. chain' = [chain EXCEPT ![k] = row]
    BY <2>1
  <2> HIDE DEF row
  <2> QED BY <1>2, <1>3, <1>4, <2>1, <2>2, <2>3
<1>6. CASE \E i \in DOMAIN chain : /\ chain[i].hash # chain[k].prev
                                   /\ chain' = [chain EXCEPT ![k].prev = chain[i].hash]
  <2>1. PICK i \in DOMAIN chain : /\ chain[i].hash # chain[k].prev
                                  /\ chain' = [chain EXCEPT ![k].prev = chain[i].hash]
    BY <1>6
  <2>2. chain[i] \in Row
    BY <1>1, ElementOfSeq
  <2> DEFINE row == [chain[k] EXCEPT !.prev = chain[i].hash]
  <2>3. row \in Row /\ row.by = chain[k].by /\ row.prev = chain[i].hash
    BY <1>2, <2>2 DEF Row
  <2>4. chain' = [chain EXCEPT ![k] = row]
    BY <2>1
  <2> HIDE DEF row
  <2> QED BY <1>2, <1>3, <1>4, <2>1, <2>3, <2>4
<1>7. CASE \E w \in Writers : /\ Append(chain[k].hash, w) # chain[k].hash
                              /\ chain' = [chain EXCEPT ![k].hash = Append(chain[k].hash, w)]
  <2>1. PICK w \in Writers : /\ Append(chain[k].hash, w) # chain[k].hash
                             /\ chain' = [chain EXCEPT ![k].hash = Append(chain[k].hash, w)]
    BY <1>7
  <2>2. Append(chain[k].hash, w) \in Hashes
    BY <1>2, AppendProperties DEF Row, Hashes, Payloads
  <2> DEFINE row == [chain[k] EXCEPT !.hash = Append(chain[k].hash, w)]
  <2>3. /\ row \in Row /\ row.by = chain[k].by /\ row.hash = Append(chain[k].hash, w)
        /\ row.prev = chain[k].prev /\ row.payload = chain[k].payload
    BY <1>2, <2>2 DEF Row
  <2>4. chain' = [chain EXCEPT ![k] = row]
    BY <2>1
  <2> HIDE DEF row
  <2> QED BY <1>2, <1>3, <1>4, <2>1, <2>3, <2>4
<1> QED BY <1>5, <1>6, <1>7 DEF Edit

-----------------------------------------------------------------------------
(* What each step keeps.                                                    *)

LEMMA InitHolds == Init => IInv /\ OneKey
<1> SUFFICES ASSUME Init PROVE IInv /\ OneKey
  OBVIOUS
<1> USE AuditAssumption, ReceiptsAssumption DEF Init, AuditInit
<1>1. TypeOK
  BY DEF TypeOK, AuditTypeOK, Hashes
<1>2. Booted
  BY DEF Booted, Runs, HoldsLock
<1>3. Exclusive /\ Counted /\ Refused /\ RefusedOnlyByOthers
  BY DEF Exclusive, Counted, Refused, RefusedOnlyByOthers, HoldsLock
<1>4. Linked /\ Intact /\ Placed /\ Announced
  BY DEF Linked, Intact, Placed, Announced
<1>5. OneKey
  BY DEF OneKey
<1> QED BY <1>1, <1>2, <1>3, <1>4, <1>5 DEF IInv

LEMMA TakeLockKeeps ==
  ASSUME IInv, NEW w \in Writers, TakeLock(w), UNCHANGED keyVars
  PROVE  IInv'
<1> USE AuditAssumption DEF IInv
<1>1. /\ UNCHANGED <<chain, up, read, tail, tries, place, ended, edited>>
      /\ UNCHANGED <<keys, boot, key, receipts>>
      /\ pc[w] = "idle" /\ pc' = [pc EXCEPT ![w] = "reading"] /\ ProcessOf[w] \in up
      /\ begun' = [begun EXCEPT ![w] = Len(chain)] /\ MayAppend(w)
  BY DEF TakeLock, keyVars
<1>2. /\ pc \in [Writers -> {"idle", "reading", "inserting", "done", "issued", "failed", "killed"}]
      /\ begun \in [Writers -> Nat] /\ Len(chain) \in Nat
  BY DEF TypeOK, AuditTypeOK
<1>3. TypeOK'
  BY <1>1, <1>2 DEF TypeOK, AuditTypeOK
<1>4. /\ \A v \in Writers : v # w => pc'[v] = pc[v] /\ begun'[v] = begun[v]
      /\ pc'[w] = "reading" /\ begun'[w] = Len(chain)
  BY <1>1, <1>2
<1> HIDE DEF IInv
<1>5. Booted'
  BY <1>1, <1>4 DEF IInv, Booted, Runs, HoldsLock
<1>6. Exclusive'
  BY <1>1, <1>4 DEF IInv, Exclusive, HoldsLock, MayAppend
<1>7. Counted'
  BY <1>1, <1>2, <1>4 DEF IInv, Counted, HoldsLock
<1>8. Refused' /\ RefusedOnlyByOthers'
  BY <1>1, <1>4 DEF IInv, Refused, RefusedOnlyByOthers
<1>9. Linked' /\ Intact' /\ Placed' /\ Announced'
  BY <1>1, <1>4 DEF IInv, Linked, Intact, Sound, Placed, Announced
<1> QED BY <1>3, <1>5, <1>6, <1>7, <1>8, <1>9 DEF IInv

LEMMA ReadTailKeeps ==
  ASSUME IInv, NEW w \in Writers, ReadTail(w), UNCHANGED keyVars
  PROVE  IInv'
<1>1. /\ UNCHANGED <<chain, up, tries, place, begun, ended, edited>>
      /\ UNCHANGED <<keys, boot, key, receipts>>
      /\ pc[w] = "reading" /\ pc' = [pc EXCEPT ![w] = "inserting"]
      /\ read' = [read EXCEPT ![w] = Len(chain)] /\ tail' = [tail EXCEPT ![w] = TipHash(chain)]
  BY DEF ReadTail, keyVars
<1>2. /\ pc \in [Writers -> {"idle", "reading", "inserting", "done", "issued", "failed", "killed"}]
      /\ read \in [Writers -> Nat] /\ tail \in [Writers -> Hashes]
      /\ chain \in Seq(Row) /\ Len(chain) \in Nat /\ DOMAIN chain = 1 .. Len(chain)
  BY DEF IInv, TypeOK, AuditTypeOK
<1>3. TypeOK'
  BY <1>1, <1>2, TipIsAHash DEF IInv, TypeOK, AuditTypeOK
<1>4. /\ \A v \in Writers : v # w => pc'[v] = pc[v] /\ read'[v] = read[v] /\ tail'[v] = tail[v]
      /\ pc'[w] = "inserting" /\ read'[w] = Len(chain) /\ tail'[w] = TipHash(chain)
  BY <1>1, <1>2
<1>5. Booted' /\ Exclusive'
  BY <1>1, <1>4 DEF IInv, Booted, Exclusive, Runs, HoldsLock
<1>6. Counted'
  BY <1>1, <1>2, <1>4 DEF IInv, Counted, HoldsLock
<1>7. Refused' /\ RefusedOnlyByOthers'
  BY <1>1, <1>4 DEF IInv, Refused, RefusedOnlyByOthers
<1>8. Linked'
  BY <1>1, <1>2, <1>4, EmptySeq DEF IInv, Linked, TipHash
<1>9. Intact'
  BY <1>1 DEF IInv, Intact, Sound
<1>10. /\ Placed'
       /\ \A v \in Writers : place[v] # 0 => tail'[v] = tail[v]
  BY <1>1, <1>4 DEF IInv, Placed
<1>11. Announced'
  <2>1. \A r \in receipts : r.call \in Writers
    BY DEF IInv, TypeOK
  <2> QED BY <1>1, <1>10, <2>1 DEF IInv, Announced
<1> QED BY <1>3, <1>5, <1>6, <1>7, <1>8, <1>9, <1>10, <1>11 DEF IInv

LEMMA CollideKeeps ==
  ASSUME IInv, NEW w \in Writers, Collide(w), UNCHANGED keyVars
  PROVE  IInv'
<1>1. /\ UNCHANGED <<chain, up, read, tail, place, begun, edited>>
      /\ UNCHANGED <<keys, boot, key, receipts>>
      /\ pc[w] = "inserting" /\ ~SeqIsFree(w)
      /\ tries' = [tries EXCEPT ![w] = tries[w] + 1]
      /\ \/ /\ tries[w] + 1 < Retries
            /\ pc' = [pc EXCEPT ![w] = "reading"] /\ ended' = ended
         \/ /\ ~(tries[w] + 1 < Retries)
            /\ pc' = [pc EXCEPT ![w] = "failed"] /\ ended' = [ended EXCEPT ![w] = Len(chain)]
  BY DEF Collide, keyVars
<1>2. /\ pc \in [Writers -> {"idle", "reading", "inserting", "done", "issued", "failed", "killed"}]
      /\ tries \in [Writers -> 0 .. Retries] /\ Retries \in Nat /\ Len(chain) \in Nat
      /\ ended \in [Writers -> Nat] /\ begun \in [Writers -> Nat] /\ read \in [Writers -> Nat]
  BY AuditAssumption DEF IInv, TypeOK, AuditTypeOK
<1>3. /\ tries[w] < Retries /\ begun[w] + tries[w] + 1 <= Len(chain)
      /\ \A i \in (begun[w] + 1) .. Len(chain) : chain[i].by # ProcessOf[w]
  <2>1. /\ tries[w] < Retries /\ begun[w] + tries[w] <= read[w] /\ read[w] <= Len(chain)
        /\ \A i \in (begun[w] + 1) .. Len(chain) : chain[i].by # ProcessOf[w]
    BY <1>1 DEF IInv, Counted, HoldsLock
  <2>2. Len(chain) # read[w]
    BY <1>1 DEF SeqIsFree
  <2> QED BY <1>2, <2>1, <2>2
<1>4. /\ \A v \in Writers : v # w => pc'[v] = pc[v] /\ tries'[v] = tries[v] /\ ended'[v] = ended[v]
      /\ tries'[w] = tries[w] + 1 /\ tries'[w] \in 0 .. Retries
  BY <1>1, <1>2, <1>3
<1>5. \/ pc'[w] = "reading" /\ tries'[w] < Retries
      \/ pc'[w] = "failed" /\ tries'[w] = Retries /\ ended'[w] = Len(chain)
  BY <1>1, <1>2, <1>3, <1>4
<1>6. TypeOK'
  <2>1. tries' \in [Writers -> 0 .. Retries]
    BY <1>1, <1>2, <1>4
  <2>2. ended' \in [Writers -> Nat]
    BY <1>1, <1>2
  <2>3. pc' \in [Writers -> {"idle", "reading", "inserting", "done", "issued", "failed", "killed"}]
    BY <1>1, <1>2
  <2> QED BY <1>1, <2>1, <2>2, <2>3 DEF IInv, TypeOK, AuditTypeOK
<1>7. Booted' /\ Exclusive'
  BY <1>1, <1>4, <1>5 DEF IInv, Booted, Exclusive, Runs, HoldsLock
<1>8. Counted'
  <2>1. \A v \in Writers : pc'[v] = "idle" => tries'[v] = 0
    BY <1>4, <1>5 DEF IInv, Counted
  <2>2. ASSUME NEW v \in Writers, HoldsLock(v)'
        PROVE  /\ tries'[v] < Retries /\ begun[v] + tries'[v] <= Len(chain)
               /\ \A i \in (begun[v] + 1) .. Len(chain) : chain[i].by # ProcessOf[v]
    <3>1. CASE v # w
      BY <1>4, <2>2, <3>1 DEF IInv, Counted, HoldsLock
    <3>2. CASE v = w
      BY <1>2, <1>3, <1>4, <1>5, <2>2, <3>2 DEF HoldsLock
    <3> QED BY <3>1, <3>2
  <2>3. ASSUME NEW v \in Writers, pc'[v] = "inserting"
        PROVE  begun[v] + tries'[v] <= read[v] /\ read[v] <= Len(chain)
    BY <1>4, <1>5, <2>3 DEF IInv, Counted
  <2> QED BY <1>1, <2>1, <2>2, <2>3 DEF Counted
<1>9. Refused'
  BY <1>1, <1>2, <1>4, <1>5 DEF IInv, Refused
<1>10. RefusedOnlyByOthers'
  <2> SUFFICES ASSUME NEW v \in Writers, pc'[v] = "failed"
               PROVE  /\ ended'[v] - begun[v] >= Retries
                      /\ \A i \in (begun[v] + 1) .. ended'[v] : chain[i].by # ProcessOf[v]
    BY <1>1 DEF RefusedOnlyByOthers
  <2>1. CASE v # w
    BY <1>4, <2>1 DEF IInv, RefusedOnlyByOthers
  <2>2. CASE v = w
    BY <1>2, <1>3, <1>4, <1>5, <2>2
  <2> QED BY <2>1, <2>2
<1>11. Linked' /\ Intact' /\ Placed' /\ Announced'
  BY <1>1, <1>4, <1>5 DEF IInv, Linked, Intact, Sound, Placed, Announced
<1> QED BY <1>6, <1>7, <1>8, <1>9, <1>10, <1>11 DEF IInv

LEMMA InsertKeeps ==
  ASSUME IInv, NEW w \in Writers, Insert(w), UNCHANGED keyVars
  PROVE  IInv'
<1>1. /\ UNCHANGED <<up, read, tail, tries, begun, edited>>
      /\ UNCHANGED <<keys, boot, key, receipts>>
      /\ pc[w] = "inserting" /\ Len(chain) = read[w]
      /\ pc' = [pc EXCEPT ![w] = "done"]
      /\ place' = [place EXCEPT ![w] = Len(chain) + 1]
      /\ ended' = [ended EXCEPT ![w] = Len(chain) + 1]
  BY DEF Insert, keyVars, SeqIsFree
<1>2. /\ pc \in [Writers -> {"idle", "reading", "inserting", "done", "issued", "failed", "killed"}]
      /\ place \in [Writers -> Nat] /\ ended \in [Writers -> Nat] /\ begun \in [Writers -> Nat]
      /\ tries \in [Writers -> 0 .. Retries] /\ read \in [Writers -> Nat] /\ edited \in Nat
      /\ chain \in Seq(Row) /\ Len(chain) \in Nat /\ DOMAIN chain = 1 .. Len(chain)
  BY DEF IInv, TypeOK, AuditTypeOK
<1>3. /\ chain' \in Seq(Row) /\ Len(chain') = Len(chain) + 1
      /\ DOMAIN chain' = 1 .. (Len(chain) + 1)
      /\ \A i \in 1 .. Len(chain) : chain'[i] = chain[i]
      /\ chain'[Len(chain) + 1] = [payload |-> w, prev |-> tail[w],
                                   hash |-> Hash(tail[w], w), by |-> ProcessOf[w]]
  <2>1. TypeOK
    BY DEF IInv
  <2>2. /\ chain' \in Seq(Row) /\ Len(chain') = Len(chain) + 1
        /\ \A i \in 1 .. Len(chain) : chain'[i] = chain[i]
        /\ chain'[Len(chain) + 1] = [payload |-> w, prev |-> tail[w],
                                     hash |-> Hash(tail[w], w), by |-> ProcessOf[w]]
    BY <2>1, InsertGrows
  <2> QED BY <2>2
<1>4. /\ \A v \in Writers : v # w => pc'[v] = pc[v] /\ place'[v] = place[v] /\ ended'[v] = ended[v]
      /\ pc'[w] = "done" /\ place'[w] = Len(chain) + 1
  BY <1>1, <1>2
<1>5. TypeOK'
  <2>1. pc' \in [Writers -> {"idle", "reading", "inserting", "done", "issued", "failed", "killed"}]
    BY <1>1, <1>2
  <2>2. place' \in [Writers -> Nat] /\ ended' \in [Writers -> Nat]
    BY <1>1, <1>2
  <2>3. AuditTypeOK'
    BY <1>1, <1>3, <2>1, <2>2 DEF IInv, TypeOK, AuditTypeOK
  <2> QED BY <1>1, <2>3 DEF IInv, TypeOK
<1>6. Booted' /\ Exclusive'
  BY <1>1, <1>4 DEF IInv, Booted, Exclusive, Runs, HoldsLock
<1>7. Counted'
  <2>1. \A v \in Writers : pc'[v] = "idle" => tries[v] = 0
    BY <1>4 DEF IInv, Counted
  <2>2. ASSUME NEW v \in Writers, HoldsLock(v)'
        PROVE  /\ tries[v] < Retries /\ begun[v] + tries[v] <= Len(chain')
               /\ \A i \in (begun[v] + 1) .. Len(chain') : chain'[i].by # ProcessOf[v]
    <3>1. v # w /\ HoldsLock(v) /\ HoldsLock(w)
      BY <1>1, <1>4, <2>2 DEF HoldsLock
    <3>2. ProcessOf[v] # ProcessOf[w]
      BY <3>1 DEF IInv, Exclusive
    <3>3. /\ tries[v] < Retries /\ begun[v] + tries[v] <= Len(chain)
          /\ \A i \in (begun[v] + 1) .. Len(chain) : chain[i].by # ProcessOf[v]
      BY <3>1 DEF IInv, Counted
    <3>4. chain'[Len(chain) + 1].by = ProcessOf[w]
      BY <1>3
    <3>5. ASSUME NEW i \in (begun[v] + 1) .. Len(chain') PROVE chain'[i].by # ProcessOf[v]
      <4>1. begun[v] \in Nat
        BY <1>2
      <4>2. CASE i = Len(chain) + 1
        BY <3>2, <3>4, <4>2
      <4>3. CASE i # Len(chain) + 1
        <5>1. i \in (begun[v] + 1) .. Len(chain) /\ i \in 1 .. Len(chain)
          BY <1>2, <1>3, <4>1, <4>3
        <5> QED BY <1>3, <3>3, <5>1
      <4> QED BY <4>2, <4>3
    <3> QED BY <1>2, <1>3, <3>3, <3>5
  <2>3. ASSUME NEW v \in Writers, pc'[v] = "inserting"
        PROVE  begun[v] + tries[v] <= read[v] /\ read[v] <= Len(chain')
    BY <1>2, <1>3, <1>4, <2>3 DEF IInv, Counted
  <2> QED BY <1>1, <2>1, <2>2, <2>3 DEF Counted
<1>8. Refused' /\ RefusedOnlyByOthers'
  <2> SUFFICES ASSUME NEW v \in Writers, pc'[v] = "failed"
               PROVE  /\ ended'[v] <= Len(chain') /\ ended'[v] - begun'[v] >= Retries
                      /\ \A i \in (begun'[v] + 1) .. ended'[v] : chain'[i].by # ProcessOf[v]
    BY DEF Refused, RefusedOnlyByOthers
  <2>1. v # w /\ pc[v] = "failed" /\ ended'[v] = ended[v] /\ begun'[v] = begun[v]
    BY <1>1, <1>4
  <2>2. /\ ended[v] <= Len(chain) /\ ended[v] - begun[v] >= Retries
        /\ \A i \in (begun[v] + 1) .. ended[v] : chain[i].by # ProcessOf[v]
    BY <2>1 DEF IInv, Refused, RefusedOnlyByOthers
  <2>3. \A i \in (begun[v] + 1) .. ended[v] : i \in 1 .. Len(chain)
    BY <1>2, <2>2
  <2> QED BY <1>2, <1>3, <2>1, <2>2, <2>3
<1>9. Linked'
  <2> SUFFICES ASSUME edited = 0, NEW v \in Writers, pc'[v] = "inserting"
               PROVE  tail[v] = IF read[v] = 0 THEN << >> ELSE chain'[read[v]].hash
    BY <1>1 DEF Linked
  <2>1. pc[v] = "inserting"
    BY <1>4
  <2>2. read[v] \in Nat /\ read[v] <= Len(chain)
    BY <1>2, <2>1 DEF IInv, Counted
  <2> QED BY <1>2, <1>3, <2>1, <2>2 DEF IInv, Linked
<1>10. Intact'
  <2>1. \A i \in 1 .. Len(chain) : Sound(chain', i) <=> Sound(chain, i)
    <3> SUFFICES ASSUME NEW i \in 1 .. Len(chain)
                 PROVE  Sound(chain', i) <=> Sound(chain, i)
      OBVIOUS
    <3>1. chain'[i] = chain[i] /\ (i # 1 => chain'[i - 1] = chain[i - 1])
      BY <1>2, <1>3
    <3> QED BY <3>1 DEF Sound
  <2>2. CASE edited = 0
    <3>1. Sound(chain', Len(chain) + 1)
      <4>1. tail[w] = IF Len(chain) = 0 THEN << >> ELSE chain[Len(chain)].hash
        BY <1>1, <2>2 DEF IInv, Linked
      <4>2. Len(chain) # 0 => chain'[Len(chain)] = chain[Len(chain)]
        BY <1>2, <1>3
      <4>3. Len(chain) + 1 = 1 <=> Len(chain) = 0
        BY <1>2
      <4>4. (Len(chain) + 1) - 1 = Len(chain)
        BY <1>2
      <4> QED BY <1>3, <4>1, <4>2, <4>3, <4>4 DEF Sound
    <3>2. \A i \in 1 .. Len(chain) : Sound(chain', i)
      BY <1>2, <2>1, <2>2 DEF IInv, Intact
    <3>3. \A i \in 1 .. (Len(chain) + 1) : i \in 1 .. Len(chain) \/ i = Len(chain) + 1
      <4> DEFINE n == Len(chain)
      <4>1. n \in Nat
        BY <1>2
      <4> HIDE DEF n
      <4>2. \A i \in 1 .. (n + 1) : i \in 1 .. n \/ i = n + 1
        BY <4>1
      <4> QED BY <4>2 DEF n
    <3>4. \A i \in DOMAIN chain' : Sound(chain', i)
      BY <1>3, <3>1, <3>2, <3>3
    <3> QED BY <1>1, <2>2, <3>4 DEF Intact
  <2>3. CASE edited # 0
    BY <1>1, <1>2, <1>3, <2>1, <2>3 DEF IInv, Intact
  <2> QED BY <2>2, <2>3
<1>11. place[w] = 0
  BY <1>1 DEF IInv, Placed
<1>12. Placed'
  <2> SUFFICES ASSUME NEW v \in Writers
               PROVE  /\ pc'[v] \in {"done", "issued"} => place'[v] # 0
                      /\ place'[v] # 0 =>
                           /\ pc'[v] \in {"done", "issued", "killed"}
                           /\ place'[v] \in DOMAIN chain'
                           /\ place'[v] # edited => /\ chain'[place'[v]].hash = Hash(tail[v], v)
                                                    /\ chain'[place'[v]].payload = v
    BY <1>1 DEF Placed
  <2>1. CASE v = w
    BY <1>2, <1>3, <1>4, <2>1
  <2>2. CASE v # w
    BY <1>2, <1>3, <1>4, <2>2 DEF IInv, Placed
  <2> QED BY <2>1, <2>2
<1>13. Announced'
  <2>1. \A r \in receipts : r.call \in Writers
    BY DEF IInv, TypeOK
  <2> QED BY <1>1, <1>4, <1>11, <2>1 DEF IInv, Announced
<1> QED BY <1>5, <1>6, <1>7, <1>8, <1>9, <1>10, <1>12, <1>13 DEF IInv

LEMMA EditKeeps ==
  ASSUME IInv, NEW k \in DOMAIN chain, Edit(k, chain[k]), UNCHANGED keyVars
  PROVE  IInv'
<1>1. /\ UNCHANGED <<up, pc, read, tail, tries, place, begun, ended>>
      /\ UNCHANGED <<keys, boot, key, receipts>>
  BY DEF Edit, keyVars
<1>2. TypeOK
  BY DEF IInv
<1>3. /\ k \in 1 .. Len(chain) /\ edited = 0 /\ edited' = k
      /\ chain' \in Seq(Row) /\ Len(chain') = Len(chain)
      /\ \A i \in 1 .. Len(chain) : i # k => chain'[i] = chain[i]
      /\ chain'[k].by = chain[k].by
  BY <1>2, EditChanges
<1>4. /\ Len(chain) \in Nat /\ DOMAIN chain = 1 .. Len(chain) /\ DOMAIN chain' = 1 .. Len(chain)
      /\ begun \in [Writers -> Nat] /\ ended \in [Writers -> Nat]
  BY <1>2, <1>3 DEF TypeOK, AuditTypeOK
<1>5. \A i \in 1 .. Len(chain) : chain'[i].by = chain[i].by
  BY <1>3
<1>6. TypeOK'
  BY <1>1, <1>2, <1>3, <1>4 DEF TypeOK, AuditTypeOK
<1>7. Booted' /\ Exclusive' /\ Linked' /\ Announced'
  BY <1>1, <1>3, <1>4 DEF IInv, Booted, Exclusive, Linked, Announced, Runs, HoldsLock
<1>8. Counted'
  <2>1. ASSUME NEW v \in Writers, HoldsLock(v), NEW i \in (begun[v] + 1) .. Len(chain)
        PROVE  chain'[i].by # ProcessOf[v]
    <3>1. i \in 1 .. Len(chain)
      BY <1>4
    <3> QED BY <1>5, <2>1, <3>1 DEF IInv, Counted
  <2> QED BY <1>1, <1>3, <2>1 DEF IInv, Counted, HoldsLock
<1>9. Refused' /\ RefusedOnlyByOthers'
  <2>1. ASSUME NEW v \in Writers, pc[v] = "failed", NEW i \in (begun[v] + 1) .. ended[v]
        PROVE  chain'[i].by # ProcessOf[v]
    <3>1. i \in 1 .. Len(chain)
      BY <1>4, <2>1 DEF IInv, Refused
    <3> QED BY <1>5, <2>1, <3>1 DEF IInv, RefusedOnlyByOthers
  <2> QED BY <1>1, <1>3, <2>1 DEF IInv, Refused, RefusedOnlyByOthers
<1>10. Intact'
  <2>1. \A i \in 1 .. (k - 1) : Sound(chain', i)
    <3> SUFFICES ASSUME NEW i \in 1 .. (k - 1)
                 PROVE  Sound(chain', i)
      OBVIOUS
    <3>1. /\ i \in 1 .. Len(chain) /\ chain'[i] = chain[i]
          /\ i # 1 => chain'[i - 1] = chain[i - 1]
      BY <1>3, <1>4
    <3>2. Sound(chain, i)
      BY <1>3, <1>4, <3>1 DEF IInv, Intact
    <3> QED BY <3>1, <3>2 DEF Sound
  <2>2. ~Sound(chain', k)
    <3>1. Sound(chain, k)
      BY <1>3, <1>4 DEF IInv, Intact
    <3>2. k # 1 => chain'[k - 1] = chain[k - 1]
      BY <1>3, <1>4
    <3>3. chain[k] \in Row /\ chain'[k] \in Row
      BY <1>2, EditChanges
    <3>4. \/ /\ chain'[k].payload # chain[k].payload
             /\ chain'[k].prev = chain[k].prev /\ chain'[k].hash = chain[k].hash
          \/ chain'[k].prev # chain[k].prev
          \/ /\ chain'[k].hash # chain[k].hash
             /\ chain'[k].prev = chain[k].prev /\ chain'[k].payload = chain[k].payload
      BY <1>2, EditChanges
    <3>5. CASE /\ chain'[k].payload # chain[k].payload
               /\ chain'[k].prev = chain[k].prev /\ chain'[k].hash = chain[k].hash
      <4>1. chain'[k].hash = Hash(chain[k].prev, chain[k].payload)
        BY <3>1, <3>5 DEF Sound
      <4>2. chain'[k].hash # Hash(chain'[k].prev, chain'[k].payload)
        BY <3>3, <3>5, <4>1, HashIsInjective DEF Row, Payloads
      <4> QED BY <4>2 DEF Sound
    <3>6. CASE chain'[k].prev # chain[k].prev
      BY <3>1, <3>2, <3>6 DEF Sound
    <3>7. CASE /\ chain'[k].hash # chain[k].hash
               /\ chain'[k].prev = chain[k].prev /\ chain'[k].payload = chain[k].payload
      BY <3>1, <3>7 DEF Sound
    <3> QED BY <3>4, <3>5, <3>6, <3>7
  <2> QED BY <1>3, <1>4, <2>1, <2>2 DEF Intact
<1>11. Placed'
  BY <1>1, <1>3, <1>4 DEF IInv, Placed
<1> QED BY <1>6, <1>7, <1>8, <1>9, <1>10, <1>11 DEF IInv

LEMMA BootKeeps ==
  ASSUME IInv, NEW p \in Processes, BootReads(p) \/ BootCreates(p)
  PROVE  IInv'
<1>1. /\ UNCHANGED <<chain, pc, read, tail, tries, place, begun, ended, edited, receipts>>
  BY DEF BootReads, BootCreates, Started, auditVars
<1>2. /\ keys \in Seq(Keys) /\ boot \in [Processes -> {"off", "creating", "on"}]
      /\ key \in [Processes -> Keys \cup {None}] /\ up \subseteq Processes
  BY DEF IInv, TypeOK, AuditTypeOK
<1>3. boot[p] \in {"off", "creating"} /\ p \notin up
  BY DEF IInv, Booted, BootReads, BootCreates
<1>4. \/ /\ boot' = [boot EXCEPT ![p] = "creating"] /\ UNCHANGED <<up, key, keys>>
      \/ \E k \in Keys : /\ boot' = [boot EXCEPT ![p] = "on"] /\ up' = up \cup {p}
                         /\ key' = [key EXCEPT ![p] = k]
                         /\ keys' \in Seq(Keys)
  <2>1. CASE BootReads(p) /\ HasKey(keys)
    <3>1. PICK i \in DOMAIN keys : Started(p, keys[i]) /\ keys' = keys
      BY <2>1 DEF BootReads
    <3>2. keys[i] \in Keys
      BY <1>2, <3>1, ElementOfSeq
    <3> QED BY <1>2, <3>1, <3>2 DEF Started
  <2>2. CASE BootReads(p) /\ ~HasKey(keys)
    BY <2>2 DEF BootReads, auditVars
  <2>3. CASE BootCreates(p)
    <3>1. PICK k \in Keys : keys' = Append(keys, k) /\ Started(p, k)
      BY <2>3 DEF BootCreates
    <3>2. Append(keys, k) \in Seq(Keys)
      BY <1>2, AppendProperties
    <3> QED BY <3>1, <3>2 DEF Started
  <2> QED BY <2>1, <2>2, <2>3
<1>5. TypeOK'
  BY <1>1, <1>2, <1>4 DEF IInv, TypeOK, AuditTypeOK
<1>6. Booted'
  BY <1>1, <1>2, <1>3, <1>4 DEF IInv, Booted, Runs, HoldsLock
<1>7. Exclusive' /\ Counted' /\ Refused' /\ RefusedOnlyByOthers'
  BY <1>1 DEF IInv, Exclusive, Counted, Refused, RefusedOnlyByOthers, HoldsLock
<1>8. Linked' /\ Intact' /\ Placed' /\ Announced'
  BY <1>1 DEF IInv, Linked, Intact, Sound, Placed, Announced
<1> QED BY <1>5, <1>6, <1>7, <1>8 DEF IInv

LEMMA StopKeeps ==
  ASSUME IInv, NEW p \in Processes, StopProcess(p)
  PROVE  IInv'
<1>1. /\ UNCHANGED <<chain, read, tail, tries, place, begun, ended, edited>>
      /\ UNCHANGED <<keys, receipts>>
      /\ up' = up \ {p}
      /\ pc' = [w \in Writers |->
                  IF ProcessOf[w] = p /\ pc[w] # "failed" THEN "killed" ELSE pc[w]]
      /\ boot' = [boot EXCEPT ![p] = "off"] /\ key' = [key EXCEPT ![p] = None]
  BY DEF StopProcess, Stop
<1>2. /\ pc \in [Writers -> {"idle", "reading", "inserting", "done", "issued", "failed", "killed"}]
      /\ boot \in [Processes -> {"off", "creating", "on"}]
      /\ key \in [Processes -> Keys \cup {None}] /\ up \subseteq Processes
  BY DEF IInv, TypeOK, AuditTypeOK
<1>3. \A w \in Writers :
        \/ pc'[w] = pc[w] /\ (Runs(w) => ProcessOf[w] # p)
        \/ pc'[w] = "killed" /\ pc[w] # "failed"
  <2>1. ASSUME NEW w \in Writers
        PROVE  \/ pc'[w] = pc[w] /\ (Runs(w) => ProcessOf[w] # p)
               \/ pc'[w] = "killed" /\ pc[w] # "failed"
    <3>1. pc'[w] = IF ProcessOf[w] = p /\ pc[w] # "failed" THEN "killed" ELSE pc[w]
      BY <1>1
    <3>2. pc[w] = "failed" => ~Runs(w)
      BY DEF Runs, HoldsLock
    <3> QED BY <3>1, <3>2
  <2> QED BY <2>1
<1>4. TypeOK'
  <2>1. pc' \in [Writers -> {"idle", "reading", "inserting", "done", "issued", "failed", "killed"}]
    BY <1>1, <1>2
  <2> QED BY <1>1, <1>2, <2>1 DEF IInv, TypeOK, AuditTypeOK
<1>5. Booted'
  BY <1>1, <1>2, <1>3 DEF IInv, Booted, Runs, HoldsLock
<1>6. Exclusive' /\ Counted'
  BY <1>1, <1>3 DEF IInv, Exclusive, Counted, HoldsLock
<1>7. Refused' /\ RefusedOnlyByOthers'
  BY <1>1, <1>3 DEF IInv, Refused, RefusedOnlyByOthers
<1>8. Linked' /\ Intact' /\ Placed' /\ Announced'
  BY <1>1, <1>3 DEF IInv, Linked, Intact, Sound, Placed, Announced
<1> QED BY <1>4, <1>5, <1>6, <1>7, <1>8 DEF IInv

LEMMA IssueKeeps ==
  ASSUME IInv, NEW w \in Writers, Issue(w)
  PROVE  IInv'
<1>1. /\ UNCHANGED <<chain, up, read, tail, tries, place, begun, ended, edited>>
      /\ UNCHANGED <<keys, boot, key>>
      /\ pc[w] = "done" /\ pc' = [pc EXCEPT ![w] = "issued"]
      /\ receipts' = receipts \cup {[call |-> w, key |-> key[ProcessOf[w]], tip |-> Hash(tail[w], w)]}
  BY DEF Issue, AuditTip
<1>2. /\ pc \in [Writers -> {"idle", "reading", "inserting", "done", "issued", "failed", "killed"}]
      /\ tail \in [Writers -> Hashes]
      /\ receipts \subseteq [call : Writers, key : Keys, tip : Hashes]
  BY DEF IInv, TypeOK, AuditTypeOK
<1>3. key[ProcessOf[w]] \in Keys
  BY <1>1 DEF IInv, Booted, Runs
<1>4. Hash(tail[w], w) \in Hashes
  BY <1>2, HashIsAHash
<1>5. TypeOK'
  <2>1. receipts' \subseteq [call : Writers, key : Keys, tip : Hashes]
    BY <1>1, <1>2, <1>3, <1>4
  <2>2. AuditTypeOK'
    BY <1>1, <1>2 DEF IInv, TypeOK, AuditTypeOK
  <2> QED BY <1>1, <2>1, <2>2 DEF IInv, TypeOK
<1>6. pc'[w] = "issued" /\ \A v \in Writers : v # w => pc'[v] = pc[v]
  BY <1>1, <1>2
<1>7. Booted' /\ Exclusive' /\ Counted'
  BY <1>1, <1>6 DEF IInv, Booted, Exclusive, Counted, Runs, HoldsLock
<1>8. Refused' /\ RefusedOnlyByOthers' /\ Linked' /\ Intact'
  BY <1>1, <1>6 DEF IInv, Refused, RefusedOnlyByOthers, Linked, Intact, Sound
<1>9. Placed'
  BY <1>1, <1>6 DEF IInv, Placed
<1>10. Announced'
  BY <1>1 DEF IInv, Announced, Placed
<1> QED BY <1>5, <1>7, <1>8, <1>9, <1>10 DEF IInv

LEMMA StepHolds == IInv /\ [Next]_vars => IInv'
<1> SUFFICES ASSUME IInv, [Next]_vars PROVE IInv'
  OBVIOUS
<1>1. CASE UNCHANGED vars
  <2> USE <1>1 DEF vars, auditVars, keyVars
  <2>1. TypeOK' /\ Booted' /\ Exclusive' /\ Counted'
    BY DEF IInv, TypeOK, AuditTypeOK, Booted, Exclusive, Counted, Runs, HoldsLock
  <2>2. Refused' /\ RefusedOnlyByOthers' /\ Linked' /\ Intact' /\ Placed' /\ Announced'
    BY DEF IInv, Refused, RefusedOnlyByOthers, Linked, Intact, Sound, Placed, Announced
  <2> QED BY <2>1, <2>2 DEF IInv
<1>2. CASE AuditNext /\ UNCHANGED keyVars
  BY <1>2, TakeLockKeeps, ReadTailKeeps, InsertKeeps, CollideKeeps, EditKeeps DEF AuditNext
<1>3. CASE \E p \in Processes : BootReads(p) \/ BootCreates(p) \/ StopProcess(p)
  BY <1>3, BootKeeps, StopKeeps
<1>4. CASE \E w \in Writers : Issue(w)
  BY <1>4, IssueKeeps
<1> QED BY <1>1, <1>2, <1>3, <1>4 DEF Next

\* The invariant of every behaviour.
LEMMA Invariance == Spec => []IInv
<1>1. Init => IInv
  BY InitHolds
<1> QED BY <1>1, StepHolds, PTL DEF Spec

-----------------------------------------------------------------------------
\* Every variable keeps its type.
THEOREM ReceiptsTypeOK == Spec => []TypeOK
<1>1. IInv => TypeOK
  BY DEF IInv
<1> QED BY <1>1, Invariance, PTL

\* verify_chain names the one row that was edited, and no other, whoever appends.
THEOREM AuditVerdictIsTrue == Spec => []VerdictIsTrue
<1>1. IInv => VerdictIsTrue
  <2> SUFFICES ASSUME IInv PROVE BrokenAt(chain) = edited
    BY DEF VerdictIsTrue
  <2>1. Len(chain) \in Nat /\ DOMAIN chain = 1 .. Len(chain) /\ edited \in Nat /\ Intact
    BY DEF IInv, TypeOK, AuditTypeOK
  <2>2. CASE edited = 0
    BY <2>1, <2>2 DEF Intact, BrokenAt
  <2>3. CASE edited # 0
    <3>1. /\ edited \in DOMAIN chain /\ ~Sound(chain, edited)
          /\ \A i \in 1 .. (edited - 1) : Sound(chain, i)
      BY <2>1, <2>3 DEF Intact
    <3>2. ASSUME NEW i \in DOMAIN chain, ~Sound(chain, i), \A j \in 1 .. (i - 1) : Sound(chain, j)
          PROVE  i = edited
      <4>1. i \in Nat /\ 1 <= i /\ 1 <= edited
        BY <2>1, <3>1
      <4>2. ~(i < edited)
        BY <2>1, <3>1, <3>2, <4>1
      <4>3. ~(edited < i)
        BY <2>1, <3>1, <3>2, <4>1
      <4> QED BY <2>1, <4>1, <4>2, <4>3
    <3>3. BrokenAt(chain) = CHOOSE i \in DOMAIN chain :
                              ~Sound(chain, i) /\ \A j \in 1 .. (i - 1) : Sound(chain, j)
      BY <3>1 DEF BrokenAt
    <3> QED BY <3>1, <3>2, <3>3
  <2> QED BY <2>2, <2>3
<1> QED BY <1>1, Invariance, PTL

\* append_event gives up only over rows of other processes.
THEOREM AuditRefusedOnlyByOthers == Spec => []RefusedOnlyByOthers
<1>1. IInv => RefusedOnlyByOthers
  BY DEF IInv
<1> QED BY <1>1, Invariance, PTL

\* Every receipt names the event that announced it.
THEOREM ReceiptsAreAudited == Spec => []ReceiptIsAudited
<1>1. IInv => ReceiptIsAudited
  <2> SUFFICES ASSUME IInv, NEW r \in receipts
               PROVE  /\ place[r.call] \in DOMAIN chain
                      /\ place[r.call] # edited =>
                           /\ chain[place[r.call]].hash = r.tip
                           /\ chain[place[r.call]].payload = r.call
    BY DEF ReceiptIsAudited
  <2>1. r.call \in Writers
    BY DEF IInv, TypeOK
  <2>2. place[r.call] # 0 /\ r.tip = Hash(tail[r.call], r.call)
    BY DEF IInv, Announced
  <2> QED BY <2>1, <2>2 DEF IInv, Placed
<1> QED BY <1>1, Invariance, PTL

LEMMA OneKeyKept ==
  ASSUME ~ConcurrentBoot
  PROVE  IInv /\ OneKey /\ [Next]_vars => OneKey'
<1> SUFFICES ASSUME IInv, OneKey, [Next]_vars PROVE OneKey'
  OBVIOUS
<1>1. /\ keys \in Seq(Keys) /\ boot \in [Processes -> {"off", "creating", "on"}]
      /\ key \in [Processes -> Keys \cup {None}] /\ up \subseteq Processes
      /\ up = {p \in Processes : boot[p] = "on"}
  BY DEF IInv, TypeOK, AuditTypeOK, Booted
<1>2. CASE UNCHANGED <<keys, boot, key, receipts, up>>
  BY <1>2 DEF OneKey
<1>3. ASSUME NEW p \in Processes, BootReads(p)
      PROVE  OneKey'
  <2>1. /\ \A q \in Processes : boot[q] # "creating"
        /\ keys' = keys /\ receipts' = receipts
    BY <1>3 DEF BootReads, MayBoot
  <2>2. CASE HasKey(keys)
    <3>1. PICK i \in DOMAIN keys : Started(p, keys[i])
      BY <1>3, <2>2 DEF BootReads
    <3>2. i = 1 /\ keys # << >>
      BY <1>1, <2>2 DEF OneKey, HasKey
    <3>3. /\ boot' = [boot EXCEPT ![p] = "on"] /\ key' = [key EXCEPT ![p] = keys[1]]
          /\ up' = up \cup {p}
      BY <3>1, <3>2 DEF Started
    <3> QED BY <1>1, <2>1, <3>2, <3>3 DEF OneKey
  <2>3. CASE ~HasKey(keys)
    <3>1. boot' = [boot EXCEPT ![p] = "creating"] /\ UNCHANGED <<key, up>> /\ keys = << >>
      BY <1>3, <2>3 DEF BootReads, HasKey, auditVars
    <3> QED BY <1>1, <2>1, <3>1 DEF OneKey
  <2> QED BY <2>2, <2>3
<1>4. ASSUME NEW p \in Processes, BootCreates(p)
      PROVE  OneKey'
  <2>1. PICK k \in Keys : /\ keys' = Append(keys, k) /\ boot' = [boot EXCEPT ![p] = "on"]
                          /\ key' = [key EXCEPT ![p] = k] /\ up' = up \cup {p}
                          /\ receipts' = receipts
    BY <1>4 DEF BootCreates, Started
  <2>2. /\ keys = << >> /\ up = {} /\ receipts = {}
        /\ \A q \in Processes : boot[q] = "creating" => q = p
    BY <1>4 DEF BootCreates, OneKey
  <2>3. keys' = <<k>>
    BY <2>1, <2>2
  <2> QED BY <1>1, <2>1, <2>2, <2>3 DEF OneKey
<1>5. ASSUME NEW p \in Processes, StopProcess(p)
      PROVE  OneKey'
  <2>1. /\ UNCHANGED <<keys, receipts>> /\ up' = up \ {p}
        /\ boot' = [boot EXCEPT ![p] = "off"] /\ key' = [key EXCEPT ![p] = None]
    BY <1>5 DEF StopProcess, Stop
  <2> QED BY <1>1, <2>1 DEF OneKey
<1>6. ASSUME NEW w \in Writers, Issue(w)
      PROVE  OneKey'
  <2>1. /\ UNCHANGED <<keys, boot, key, up>>
        /\ receipts' = receipts \cup {[call |-> w, key |-> key[ProcessOf[w]], tip |-> AuditTip(w)]}
        /\ ProcessOf[w] \in up
    BY <1>6 DEF Issue, IInv, Booted, Runs
  <2> QED BY <1>1, <2>1 DEF OneKey
<1>7. CASE AuditNext /\ UNCHANGED keyVars
  <2>1. UNCHANGED up
    BY <1>7 DEF AuditNext, TakeLock, ReadTail, Insert, Collide, Edit
  <2> QED BY <1>2, <1>7, <2>1 DEF keyVars
<1>8. CASE UNCHANGED vars
  BY <1>2, <1>8 DEF vars, auditVars, keyVars
<1> QED BY <1>3, <1>4, <1>5, <1>6, <1>7, <1>8 DEF Next

\* When starts do not overlap, every receipt verifies in every process, whatever stops
\* and starts in between.
THEOREM ReceiptsVerify ==
  ASSUME ~ConcurrentBoot
  PROVE  Spec => []ReceiptVerifies
<1>1. Init => OneKey
  BY InitHolds
<1>2. IInv /\ OneKey /\ [Next]_vars => OneKey'
  BY OneKeyKept
<1>3. OneKey => ReceiptVerifies
  BY DEF OneKey, ReceiptVerifies, Verifies
<1> QED BY <1>1, <1>2, <1>3, Invariance, PTL DEF Spec
=============================================================================
