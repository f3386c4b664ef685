------------------------------ MODULE Receipts ------------------------------
(***************************************************************************)
(* Signed authorizations (authorization.py) over the audit chain: every    *)
(* process loads or creates the deployment's one signing key when it       *)
(* starts, and _issue_session_authorization (app.py) announces a receipt   *)
(* in the chain, then signs it with the chain's hash at that point inside. *)
(*                                                                         *)
(* A signature is the key it was made with; a receipt is the call that     *)
(* made it, its key and its audit_tip.                                     *)
(***************************************************************************)
EXTENDS AuditChain

CONSTANTS
  Keys,            \* the keys that may come out of generate()
  ConcurrentBoot,  \* may a process start while another is between its read and its write
  None

ASSUME ReceiptsAssumption ==
  ConcurrentBoot \in BOOLEAN /\ None \notin Keys

VARIABLES
  keys,       \* SigningKeyRecord rows, in the order they were added
  boot,       \* per process: "off", "creating" (read, found no row), or "on"
  key,        \* per process: SIGNING_KEY, None when it does not run
  receipts    \* what has been handed out: [call, key, tip]

keyVars == <<keys, boot, key, receipts>>
vars == <<auditVars, keyVars>>

Init ==
  /\ AuditInit
  /\ keys = << >>
  /\ boot = [p \in Processes |-> "off"]
  /\ key = [p \in Processes |-> None]
  /\ receipts = {}

MayBoot(p) == ConcurrentBoot \/ \A q \in Processes : boot[q] # "creating"

\* Starts with the key it found.
Started(p, k) ==
  /\ boot' = [boot EXCEPT ![p] = "on"]
  /\ key' = [key EXCEPT ![p] = k]
  /\ up' = up \cup {p}
  /\ UNCHANGED <<chain, pc, read, tail, tries, place, begun, ended, edited>>

\* The row in the table is not looked at.
FindsKey(rows) == FALSE

\* SELECT ... first(), without an order: any row, when there is one.
HasKey(rows) == rows # << >>

BootReads(p) ==
  /\ boot[p] = "off" /\ MayBoot(p)
  /\ IF HasKey(keys)
     THEN \E i \in DOMAIN keys : Started(p, keys[i])
     ELSE /\ boot' = [boot EXCEPT ![p] = "creating"]
          /\ UNCHANGED <<auditVars, key>>
  /\ UNCHANGED <<keys, receipts>>

\* generate() and INSERT: nothing makes a second row impossible.
BootCreates(p) ==
  /\ boot[p] = "creating"
  /\ \E k \in Keys :
       /\ \A i \in DOMAIN keys : keys[i] # k
       /\ keys' = Append(keys, k)
       /\ Started(p, k)
  /\ UNCHANGED receipts

StopProcess(p) ==
  /\ Stop(p)
  /\ boot' = [boot EXCEPT ![p] = "off"]
  /\ key' = [key EXCEPT ![p] = None]
  /\ UNCHANGED <<keys, receipts>>

\* The tip of the chain as it is when the receipt is signed.
TipNow(w) == TipHash(chain)

\* append_event's entry_hash, as it was returned.
AuditTip(w) == Hash(tail[w], w)

\* issue_authorization, after append_event returned.
Issue(w) ==
  /\ pc[w] = "done"
  /\ receipts' = receipts \cup {[call |-> w, key |-> key[ProcessOf[w]], tip |-> AuditTip(w)]}
  /\ pc' = [pc EXCEPT ![w] = "issued"]
  /\ UNCHANGED <<chain, up, read, tail, tries, place, begun, ended, edited>>
  /\ UNCHANGED <<keys, boot, key>>

Next ==
  \/ AuditNext /\ UNCHANGED keyVars
  \/ \E p \in Processes : BootReads(p) \/ BootCreates(p) \/ StopProcess(p)
  \/ \E w \in Writers : Issue(w)

Spec == Init /\ [][Next]_vars

-----------------------------------------------------------------------------
\* verify_authorization in process p.
Verifies(receipt, p) == receipt.key = key[p]

TypeOK ==
  /\ AuditTypeOK
  /\ keys \in Seq(Keys)
  /\ boot \in [Processes -> {"off", "creating", "on"}]
  /\ key \in [Processes -> Keys \cup {None}]
  /\ receipts \subseteq [call : Writers, key : Keys, tip : Hashes]

\* "a receipt signed yesterday must still verify today" (authorization.py): every
\* receipt ever handed out verifies in every process that runs, after any number of
\* stops and starts, provided no two processes start at once on an empty table.
ReceiptVerifies ==
  \A r \in receipts : \A p \in up : Verifies(r, p)

\* A receipt names, as its audit_tip, the hash of the very event that announced it,
\* which is in the chain under that hash, not of whatever another process appended
\* meanwhile.
ReceiptIsAudited ==
  \A r \in receipts :
    /\ place[r.call] \in DOMAIN chain
    /\ place[r.call] # edited =>
         /\ chain[place[r.call]].hash = r.tip
         /\ chain[place[r.call]].payload = r.call
=============================================================================
