----------------------------- MODULE Capability -----------------------------
(***************************************************************************)
(* Execution capabilities (capability.py): minted once the gates allow a   *)
(* payment, spent by whoever starts the Razorpay order, used from any      *)
(* number of threads.                                                      *)
(*                                                                         *)
(* consume_capability reads the clock first and takes _CONSUME_LOCK after, *)
(* so a call is two steps: Enter, and everything done under the lock.      *)
(* issue_capability reads the clock under the lock and is one step.  What  *)
(* a capability authorizes beyond its operation (amount, merchant,         *)
(* receipt) rides along unchanged and is left out.                         *)
(***************************************************************************)
EXTENDS Naturals

CONSTANTS
  Caps,         \* capability ids
  Operations,
  Threads,      \* threads in consume_capability; each makes one call
  TTL,          \* DEFAULT_CAPABILITY_TTL
  MaxTime,      \* bound on the clock
  Null          \* SQL's NULL, and no row

ASSUME CapabilityAssumption ==
  /\ TTL \in Nat /\ MaxTime \in Nat
  /\ Null \notin Nat
  /\ Null \notin [operation : Operations, expires : Nat, consumed : Nat \cup {Null}]

VARIABLES
  now,
  row,        \* per id: its row in the table, Null before it is issued
  pc,         \* per thread
  asked,      \* per thread: the capability and expected_operation of its call
  read,       \* per thread: the clock as it read it
  verdict     \* per thread: "won", or the reason it was refused

capabilityVars == <<now, row, pc, asked, read, verdict>>

ExecutionCapability ==
  [operation : Operations, expires : Nat, consumed : Nat \cup {Null}]

Verdicts == {"none", "won", "not_found", "wrong_operation", "expired", "already_consumed"}

CapabilityInit ==
  /\ now = 0
  /\ row = [c \in Caps |-> Null]
  /\ pc = [t \in Threads |-> "idle"]
  /\ asked \in [Threads -> [cap : Caps, operation : Operations]]
  /\ read = [t \in Threads |-> 0]
  /\ verdict = [t \in Threads |-> "none"]

Tick ==
  /\ now < MaxTime
  /\ now' = now + 1
  /\ UNCHANGED <<row, pc, asked, read, verdict>>

\* The ttl forgotten.
IssueForever(c) ==
  /\ row[c] = Null
  /\ \E op \in Operations :
       row' = [row EXCEPT ![c] = [operation |-> op, expires |-> Null, consumed |-> Null]]
  /\ UNCHANGED <<now, pc, asked, read, verdict>>

IssueCapability(c) ==
  /\ row[c] = Null
  /\ \E op \in Operations :
       row' = [row EXCEPT ![c] = [operation |-> op, expires |-> now + TTL, consumed |-> Null]]
  /\ UNCHANGED <<now, pc, asked, read, verdict>>

\* now = _now(), before the lock.
Enter(t) ==
  /\ pc[t] = "idle"
  /\ pc' = [pc EXCEPT ![t] = "waiting"]
  /\ read' = [read EXCEPT ![t] = now]
  /\ UNCHANGED <<now, row, asked, verdict>>

\* Without "consumed_at IS NULL".
ConsumableAgain(cap, operation, time) ==
  cap # Null /\ cap.operation = operation /\ cap.expires > time

\* The WHERE clause of the UPDATE.
Consumable(cap, operation, time) ==
  /\ cap # Null
  /\ cap.operation = operation
  /\ cap.consumed = Null
  /\ cap.expires > time

\* Without the test of expires_at.
ReasonUndated(cap, operation, time) ==
  IF cap = Null THEN "not_found"
  ELSE IF cap.operation # operation THEN "wrong_operation"
  ELSE "already_consumed"

\* Why a call that did not win was refused, by the row as it is now.
Reason(cap, operation, time) ==
  IF cap = Null THEN "not_found"
  ELSE IF cap.operation # operation THEN "wrong_operation"
  ELSE IF cap.expires <= time THEN "expired"
  ELSE "already_consumed"

ConsumeCapability(t) ==
  LET c == asked[t].cap
      operation == asked[t].operation
  IN  /\ pc[t] = "waiting"
      /\ pc' = [pc EXCEPT ![t] = "done"]
      /\ IF Consumable(row[c], operation, read[t])
         THEN /\ row' = [row EXCEPT ![c].consumed = read[t]]
              /\ verdict' = [verdict EXCEPT ![t] = "won"]
         ELSE /\ verdict' = [verdict EXCEPT ![t] = Reason(row[c], operation, read[t])]
              /\ UNCHANGED row
      /\ UNCHANGED <<now, asked, read>>

CapabilityNext ==
  \/ Tick
  \/ \E c \in Caps : IssueCapability(c)
  \/ \E t \in Threads : Enter(t) \/ ConsumeCapability(t)

CapabilitySpec ==
  CapabilityInit /\ [][CapabilityNext]_capabilityVars

-----------------------------------------------------------------------------
CapabilityTypeOK ==
  /\ now \in 0 .. MaxTime
  /\ row \in [Caps -> ExecutionCapability \cup {Null}]
  /\ pc \in [Threads -> {"idle", "waiting", "done"}]
  /\ asked \in [Threads -> [cap : Caps, operation : Operations]]
  /\ read \in [Threads -> 0 .. MaxTime]
  /\ verdict \in [Threads -> Verdicts]

Won(t, c) == verdict[t] = "won" /\ asked[t].cap = c

\* However many threads ask for a capability at once, with whatever they read from
\* the clock, one of them at most executes on it, for the operation it was minted
\* for (executor.py calls Razorpay for the winner only).
SpentOnce ==
  \A c \in Caps : \A t, u \in Threads :
    Won(t, c) =>
      /\ row[c] # Null /\ row[c].operation = asked[t].operation
      /\ Won(u, c) => t = u

\* The reason a refused call is given, read from the row after the UPDATE, is the
\* true one: a capability called spent was spent by a call that won it, one called
\* expired has expired, and a wrong operation did not burn it.
ReasonIsTrue ==
  \A t \in Threads :
    LET c == asked[t].cap
    IN  /\ verdict[t] = "already_consumed" => \E u \in Threads : Won(u, c)
        /\ verdict[t] = "expired" => row[c] # Null /\ row[c].expires <= now
        /\ verdict[t] = "wrong_operation" => row[c] # Null /\ row[c].operation # asked[t].operation
=============================================================================
