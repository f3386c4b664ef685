--------------------------- MODULE Missions_proofs ---------------------------
(***************************************************************************)
(* What a mission is told of the remembered turns of its conversation is   *)
(* true, and what it may call covers what those could, for any number of   *)
(* missions, sessions, connectors, keywords and messages.                  *)
(*                                                                         *)
(* Whatever a saved turn called, whatever handshake of it failed and       *)
(* whatever its image let it reach is in the evidence of its thread        *)
(* (Covered), which only grows (Covers).  A turn saved by a mission did    *)
(* what the mission's step says (StepIsTrue), and an SDK session holds     *)
(* turns of one thread only (TurnIsTrue, ContextIsTrue).                   *)
(***************************************************************************)
EXTENDS Missions, Integers, TLAPS, FiniteSetTheorems, SequenceTheorems

-----------------------------------------------------------------------------
(* The least and the greatest of a set of numbers.  A set of lower bounds   *)
(* that is closed under successor and bounded would be mapped one-to-one    *)
(* into itself without 0: no finite set is.                                 *)

LEMMA Least ==
  ASSUME NEW T, T \subseteq Nat, T # {}
  PROVE  \E x \in T : \A y \in T : x <= y
<1> SUFFICES ASSUME \A x \in T : \E y \in T : ~(x <= y) PROVE FALSE
  OBVIOUS
<1> DEFINE D == {d \in Nat : \A y \in T : d <= y}
           succ == [d \in D |-> d + 1]
<1>1. PICK t \in T : TRUE
  OBVIOUS
<1>2. D \subseteq 0 .. t /\ t \in Nat
  OBVIOUS
<1>3. IsFiniteSet(D)
  <2>1. IsFiniteSet(0 .. t)
    BY <1>2, FS_Interval
  <2> HIDE DEF D
  <2> QED BY <1>2, <2>1, FS_Subset
<1>4. \A d \in D : d \notin T
  OBVIOUS
<1>5. \A d \in D : d + 1 \in D
  BY <1>4
<1>6. 0 \in D
  OBVIOUS
<1> HIDE DEF D
<1>7. succ \in Injection(D, D)
  BY <1>2, <1>5 DEF Injection, IsInjective
<1>8. succ \in Surjection(D, D)
  <2> HIDE DEF succ
  <2> QED BY <1>3, <1>7, FS_Injection
<1>9. PICK d \in D : succ[d] = 0
  BY <1>6, <1>8 DEF Surjection
<1> QED BY <1>2, <1>9

LEMMA MinIs ==
  ASSUME NEW T, T \subseteq Nat, T # {}
  PROVE  Min(T) \in T /\ \A y \in T : Min(T) <= y
BY Least DEF Min

LEMMA MaxIs ==
  ASSUME NEW n \in Nat, NEW T, T \subseteq 1 .. n, T # {}
  PROVE  Max(T) \in T /\ \A y \in T : Max(T) >= y
<1> DEFINE U == {n - x : x \in T}
<1>1. PICK u \in U : \A v \in U : u <= v
  <2>1. U # {}
    OBVIOUS
  <2>2. U \subseteq Nat
    <3>1. \A x \in T : n - x \in Nat
      OBVIOUS
    <3> QED BY <3>1
  <2> HIDE DEF U
  <2> QED BY <2>1, <2>2, Least
<1>2. PICK x \in T : u = n - x
  OBVIOUS
<1>3. \A y \in T : x >= y
  <2> TAKE y \in T
  <2>1. n - y \in U
    OBVIOUS
  <2>2. n - x <= n - y
    BY <1>1, <1>2, <2>1
  <2> QED BY <2>2
<1> QED BY <1>3 DEF Max

-----------------------------------------------------------------------------
(* The invariant, over missions ms, turns ts and threads th.                *)

Fields == {"phase", "session", "from", "intents", "image", "runtime", "steps", "offered",
           "note", "addresses", "statuses", "refused"}

Whole(r) == r = [f \in Fields |-> r[f]]

TurnFields == {"thread", "session", "offered", "attempted", "failed", "saved"}

WholeTurn(x) == x = [f \in TurnFields |-> x[f]]

\* What a turn about a category may be offered, but for the accounts.
Reach(category, image) ==
  {c \in Connectors : /\ ReadTools[c] # {}
                      /\ \/ category \in Capabilities[c]
                         \/ image /\ \E extra \in Widening[category] : extra \in Capabilities[c]}

Covered(x, th) ==
  /\ x.thread \in DOMAIN th
  /\ x.attempted \subseteq th[x.thread].attempted /\ x.failed \subseteq th[x.thread].failed
  /\ x.offered \subseteq Reach(x.thread[2], th[x.thread].image)

TurnIsTrue(ms, th, turn, x) ==
  /\ turn = <<turn[1], turn[2]>> /\ turn[1] \in Missions /\ WholeTurn(x)
  /\ x.session # Nil => x.session.thread = x.thread
  /\ x.saved => ms[turn[1]] = Over /\ Covered(x, th)

\* What thread t resumes is its own.
ContextIsTrue(ts, c, t) ==
  /\ t \in Threads
  /\ c.resume # Nil => c.resume.thread = t
  /\ \A turn \in c.history : turn \in DOMAIN ts /\ ts[turn].saved /\ ts[turn].thread = t

\* What is kept with a thread covers what was kept before.
Covers(after, before) ==
  /\ before.attempted \subseteq after.attempted /\ before.failed \subseteq after.failed
  /\ before.image => after.image

Grows(th, uh) == \A t \in DOMAIN th : t \in DOMAIN uh /\ Covers(uh[t], th[t])

From(ts, th, r) ==
  \/ r.from = NoThread
  \/ \E category :
       /\ r.intents = <<category>> /\ <<r.session, category>> \in DOMAIN th
       /\ ContextIsTrue(ts, r.from, <<r.session, category>>)
       /\ r.from.image => th[<<r.session, category>>].image

StepIsTrue(ts, m, r, i) ==
  LET step == r.steps[i]
      t == <<r.session, r.intents[i]>>
  IN  /\ step.category = r.intents[i]
      /\ <<m, i>> \in DOMAIN ts /\ ts[<<m, i>>].thread = t
      /\ ts[<<m, i>>].attempted = step.attempted /\ ts[<<m, i>>].failed = step.failed
      /\ ts[<<m, i>>].offered \subseteq Reach(r.intents[i], Widened(r))
      /\ step.history \subseteq r.from.history \cup {<<m, i>>}
      /\ step.resume # Nil => step.resume.thread = t

Going(ts, th, m, r) ==
  /\ Whole(r) /\ From(ts, th, r)
  /\ r.intents \in Seq(Range(r.intents)) /\ r.steps \in Seq(Range(r.steps))
  /\ Len(r.steps) <= Len(r.intents)
  /\ \A i \in DOMAIN r.steps : HasContext(r.steps[i]) => StepIsTrue(ts, m, r, i)

\* It is at a turn, and the turn is known.
Ready(r) ==
  /\ Len(r.steps) < Len(r.intents)
  /\ r.offered \subseteq Reach(r.intents[Len(r.steps) + 1], Widened(r))

At(ts, m, r) ==
  /\ Turn(m, r) \in DOMAIN ts
  /\ ts[Turn(m, r)].thread = ThreadOf(r) /\ ts[Turn(m, r)].offered = r.offered

IInv ==
  /\ mission = [m \in Missions |-> mission[m]]
  /\ \A turn \in DOMAIN turns : TurnIsTrue(mission, thread, turn, turns[turn])
  /\ \A t \in DOMAIN thread : ContextIsTrue(turns, thread[t], t)
  /\ \A m \in Missions : Underway(m) =>
       Going(turns, thread, m, mission[m]) /\ Ready(mission[m]) /\ At(turns, m, mission[m])

\* A step of mission m leaves the turns that others do or resume as they are.
LeavesOthers(m) ==
  \A n \in Missions \ {m} : Underway(n) =>
    \A turn \in DOMAIN turns : turn[1] = n \/ (turn[1] # m /\ turn \in mission[n].from.history) =>
      turn \in DOMAIN turns' /\ turns'[turn] = turns[turn]

-----------------------------------------------------------------------------
(* What a mission carries stays true of it while its own turns that are over *)
(* and those it resumes stay as they are, and threads grow.                  *)

LEMMA GoingKeeps ==
  ASSUME NEW ts, NEW th, NEW us, NEW uh, NEW m, NEW r, Going(ts, th, m, r), Grows(th, uh),
         \A turn \in r.from.history : turn \in DOMAIN ts =>
            turn \in DOMAIN us /\ us[turn] = ts[turn],
         \A i \in DOMAIN r.steps : <<m, i>> \in DOMAIN ts =>
            <<m, i>> \in DOMAIN us /\ us[<<m, i>>] = ts[<<m, i>>]
  PROVE  Going(us, uh, m, r)
<1>1. From(us, uh, r)
  <2>1. CASE r.from # NoThread
    <3>1. PICK category :
            /\ r.intents = <<category>> /\ <<r.session, category>> \in DOMAIN th
            /\ ContextIsTrue(ts, r.from, <<r.session, category>>)
            /\ r.from.image => th[<<r.session, category>>].image
      BY <2>1 DEF Going, From
    <3>2. /\ <<r.session, category>> \in DOMAIN uh
          /\ r.from.image => uh[<<r.session, category>>].image
      BY <3>1 DEF Grows, Covers
    <3>3. ContextIsTrue(us, r.from, <<r.session, category>>)
      BY <3>1 DEF ContextIsTrue
    <3> QED BY <3>1, <3>2, <3>3 DEF From
  <2> QED BY <2>1 DEF From
<1>2. \A i \in DOMAIN r.steps : HasContext(r.steps[i]) => StepIsTrue(us, m, r, i)
  BY DEF Going, StepIsTrue
<1> QED BY <1>1, <1>2 DEF Going

\* A turn that is saved is of a mission that is over.
LEMMA ResumedAreOthers ==
  ASSUME IInv, NEW m, NEW r, NEW n \in Missions, mission[n] # Over, Going(turns, thread, m, r),
         NEW turn \in r.from.history
  PROVE  turn[1] # n
<1>1. r.from # NoThread
  BY DEF NoThread
<1>2. PICK t : ContextIsTrue(turns, r.from, t)
  BY <1>1 DEF Going, From
<1>3. turn \in DOMAIN turns /\ turns[turn].saved
  BY <1>2 DEF ContextIsTrue
<1> QED BY <1>3 DEF IInv, TurnIsTrue

\* A step that writes one mission, and what it makes of turns and threads.
LEMMA MissionStep ==
  ASSUME IInv, NEW m \in Missions, mission[m] # Over, NEW record,
         mission' = [mission EXCEPT ![m] = record],
         record.phase = "turn" =>
           Going(turns', thread', m, record) /\ Ready(record) /\ At(turns', m, record),
         Grows(thread, thread'), LeavesOthers(m),
         \A turn \in DOMAIN turns' :
           \/ turn \in DOMAIN turns /\ turns'[turn] = turns[turn]
           \/ TurnIsTrue(mission', thread', turn, turns'[turn]),
         \A t \in DOMAIN thread' : ContextIsTrue(turns', thread'[t], t)
  PROVE  IInv'
<1>1. /\ mission'[m] = record /\ \A n \in Missions : n # m => mission'[n] = mission[n]
      /\ mission' = [n \in Missions |-> mission'[n]]
  BY DEF IInv
<1>2. \A turn \in DOMAIN turns' : TurnIsTrue(mission', thread', turn, turns'[turn])
  <2> SUFFICES ASSUME NEW turn \in DOMAIN turns', turn \in DOMAIN turns, turns'[turn] = turns[turn]
               PROVE  TurnIsTrue(mission', thread', turn, turns'[turn])
    OBVIOUS
  <2> DEFINE x == turns[turn]
  <2>1. TurnIsTrue(mission, thread, turn, x)
    BY DEF IInv
  <2> HIDE DEF x
  <2>2. ASSUME x.saved
        PROVE  mission'[turn[1]] = Over /\ Covered(x, thread')
    <3>1. turn[1] \in Missions /\ mission[turn[1]] = Over /\ Covered(x, thread)
      BY <2>1, <2>2 DEF TurnIsTrue
    <3>2. mission'[turn[1]] = Over
      BY <1>1, <3>1
    <3>3. Covered(x, thread')
      BY <3>1 DEF Covered, Grows, Covers, Reach
    <3> QED BY <3>2, <3>3
  <2>3. TurnIsTrue(mission', thread', turn, x)
    BY <2>1, <2>2 DEF TurnIsTrue
  <2> QED BY <2>3 DEF x
<1>3. ASSUME NEW n \in Missions, mission'[n].phase = "turn"
      PROVE  /\ Going(turns', thread', n, mission'[n]) /\ Ready(mission'[n])
             /\ At(turns', n, mission'[n])
  <2>1. CASE n = m
    BY <1>1, <1>3, <2>1
  <2>2. CASE n # m
    <3> DEFINE r == mission[n]
    <3>1. /\ mission'[n] = r /\ Underway(n)
          /\ Going(turns, thread, n, r) /\ Ready(r) /\ At(turns, n, r)
      BY <1>1, <1>3, <2>2 DEF IInv, Underway
    <3>2. \A turn \in r.from.history : turn \in DOMAIN turns =>
            turn \in DOMAIN turns' /\ turns'[turn] = turns[turn]
      BY <2>2, <3>1, ResumedAreOthers DEF LeavesOthers
    <3>3. \A turn \in DOMAIN turns : turn[1] = n =>
            turn \in DOMAIN turns' /\ turns'[turn] = turns[turn]
      BY <2>2, <3>1 DEF LeavesOthers
    <3> HIDE DEF r
    <3>4. \A i : <<n, i>> \in DOMAIN turns =>
            <<n, i>> \in DOMAIN turns' /\ turns'[<<n, i>>] = turns[<<n, i>>]
      BY <3>3
    <3>5. Going(turns', thread', n, r)
      BY <3>1, <3>2, <3>4, GoingKeeps
    <3>6. At(turns', n, r)
      BY <3>1, <3>4 DEF At, Turn
    <3> QED BY <3>1, <3>5, <3>6
  <2> QED BY <2>1, <2>2
<1> QED BY <1>1, <1>2, <1>3 DEF IInv, Underway

\* The turns without a connector come and go within a step; the next one is a step of
\* its own, if there is one.
LEMMA PreparedKeeps ==
  ASSUME NEW ts, NEW th, NEW m, NEW r, Going(ts, th, m, r)
  PROVE  LET s == Prepared(r)
         IN  /\ Going(ts, th, m, s) /\ s.phase \in {"done", "failed", "turn"}
             /\ s.phase = "turn" =>
                  /\ Ready(s) /\ s.from = r.from /\ s.runtime = r.runtime /\ s.intents = r.intents
                  /\ s.steps = << >> => /\ s.offered = Offered(r.intents[1], Widened(r))
                                       /\ s.note = Unverified(r, s.offered)
<1> DEFINE open == {i \in DOMAIN r.intents :
                      i > Len(r.steps) /\ Offered(r.intents[i], Widened(r)) # {}}
           next == IF open = {} THEN Len(r.intents) + 1 ELSE Min(open)
           empty == [i \in 1 .. next - 1 - Len(r.steps) |-> EmptyStep(r.intents[Len(r.steps) + i])]
           steps == r.steps \o empty
           offered == Offered(r.intents[next], Widened(r))
           addresses == {c \in offered : account[c] # Nil /\ account[c].address # Nil}
<1>1. /\ Whole(r) /\ Len(r.intents) \in Nat /\ DOMAIN r.intents = 1 .. Len(r.intents)
      /\ Len(r.steps) \in Nat /\ DOMAIN r.steps = 1 .. Len(r.steps)
      /\ Len(r.steps) <= Len(r.intents) /\ r.steps \in Seq(Range(r.steps))
  BY DEF Going
<1>2. /\ next \in Nat /\ next - 1 - Len(r.steps) \in Nat /\ next <= Len(r.intents) + 1
      /\ open # {} => next <= Len(r.intents)
  <2>0. open \subseteq Nat /\ \A i \in open : i > Len(r.steps) /\ i <= Len(r.intents)
    BY <1>1
  <2> HIDE DEF open
  <2>1. CASE open = {}
    <3>1. next = Len(r.intents) + 1
      BY <2>1
    <3> HIDE DEF next
    <3> QED BY <1>1, <2>1, <3>1
  <2>2. CASE open # {}
    <3>1. next = Min(open)
      BY <2>2
    <3>2. next \in open
      BY <2>0, <2>2, <3>1, MinIs
    <3> HIDE DEF next
    <3>3. next \in Nat /\ next > Len(r.steps) /\ next <= Len(r.intents)
      BY <2>0, <3>2
    <3> QED BY <1>1, <3>3
  <2> QED BY <2>1, <2>2
<1> HIDE DEF next, open
<1>3. /\ empty \in Seq(Range(empty)) /\ Len(empty) = next - 1 - Len(r.steps)
      /\ \A i \in 1 .. Len(empty) : ~HasContext(empty[i])
  <2>1. empty \in [1 .. next - 1 - Len(r.steps) -> Range(empty)]
    BY DEF Range
  <2>2. empty \in Seq(Range(empty)) /\ Len(empty) = next - 1 - Len(r.steps)
    <3> HIDE DEF empty
    <3> DEFINE k == next - 1 - Len(r.steps)
    <3>1. k \in Nat /\ empty \in [1 .. k -> Range(empty)]
      BY <1>2, <2>1
    <3> HIDE DEF k
    <3>2. empty \in Seq(Range(empty)) /\ DOMAIN empty = 1 .. k
      BY <3>1, SeqDef
    <3>3. Len(empty) = k
      BY <3>1, <3>2
    <3> QED BY <3>2, <3>3 DEF k
  <2>3. \A i \in 1 .. next - 1 - Len(r.steps) : ~HasContext(empty[i])
    BY DEF EmptyStep, HasContext
  <2> HIDE DEF empty
  <2> QED BY <2>2, <2>3
<1> HIDE DEF empty
<1>4. /\ steps \in Seq(Range(steps)) /\ Len(steps) = next - 1 /\ DOMAIN steps = 1 .. next - 1
      /\ \A i \in DOMAIN steps :
           IF i <= Len(r.steps) THEN i \in DOMAIN r.steps /\ steps[i] = r.steps[i]
           ELSE ~HasContext(steps[i])
  <2> DEFINE All == Range(r.steps) \cup Range(empty)
  <2>1. r.steps \in Seq(All) /\ empty \in Seq(All)
    BY <1>1, <1>3, SeqMonotonic
  <2> HIDE DEF All
  <2>2. /\ steps \in Seq(All) /\ Len(steps) = Len(r.steps) + Len(empty)
        /\ \A i \in 1 .. Len(r.steps) + Len(empty) :
             steps[i] = IF i <= Len(r.steps) THEN r.steps[i] ELSE empty[i - Len(r.steps)]
    BY <2>1, ConcatProperties
  <2> HIDE DEF steps
  <2>3. steps \in Seq(Range(steps))
    BY <2>2, SeqOfRange
  <2>4. Len(steps) = next - 1 /\ DOMAIN steps = 1 .. next - 1
    BY <1>1, <1>2, <1>3, <2>2
  <2>5. ASSUME NEW i \in 1 .. next - 1, ~(i <= Len(r.steps))
        PROVE  ~HasContext(steps[i])
    <3>1. i - Len(r.steps) \in 1 .. Len(empty)
      BY <1>1, <1>2, <1>3, <2>5
    <3>2. i \in 1 .. Len(r.steps) + Len(empty)
      BY <1>1, <1>2, <1>3, <2>5
    <3>3. steps[i] = empty[i - Len(r.steps)]
      BY <2>2, <2>5, <3>2
    <3> QED BY <1>3, <3>1, <3>3
  <2> QED BY <1>1, <1>2, <1>3, <2>2, <2>3, <2>4, <2>5
<1> HIDE DEF steps, offered, addresses
<1>5. ASSUME NEW s, Whole(s), s.from = r.from, s.session = r.session, s.intents = r.intents,
             s.runtime = r.runtime, s.image = r.image, s.steps = steps
      PROVE  Going(ts, th, m, s)
  <2>1. Widened(s) = Widened(r)
    BY <1>5 DEF Widened
  <2>2. From(ts, th, s)
    BY <1>5 DEF From, Going
  <2>3. ASSUME NEW i \in DOMAIN steps, HasContext(steps[i])
        PROVE  StepIsTrue(ts, m, s, i)
    <3>1. i \in DOMAIN r.steps /\ steps[i] = r.steps[i] /\ StepIsTrue(ts, m, r, i)
      BY <1>4, <2>3 DEF Going
    <3> QED BY <1>5, <2>1, <3>1 DEF StepIsTrue
  <2> QED BY <1>1, <1>2, <1>4, <1>5, <2>1, <2>2, <2>3 DEF Going
<1>6. Prepared(r) =
        IF open = {} THEN [r EXCEPT !.phase = "done", !.steps = steps]
        ELSE IF \E c \in offered \cap CredentialConnectors : AskingRaises(c)
        THEN [r EXCEPT !.phase = "failed", !.steps = steps]
        ELSE [r EXCEPT !.phase = "turn", !.steps = steps, !.offered = offered,
                       !.note = Unverified(r, offered), !.statuses = << >>, !.refused = FALSE,
                       !.addresses = addresses]
  BY DEF Prepared, open, next, empty, steps, offered, addresses
<1>7. ASSUME NEW phase \in {"done", "failed"}, Prepared(r) = [r EXCEPT !.phase = phase, !.steps = steps]
      PROVE  LET s == Prepared(r)
             IN  Going(ts, th, m, s) /\ s.phase = phase
  <2> DEFINE s == [r EXCEPT !.phase = phase, !.steps = steps]
  <2>1. /\ Whole(s) /\ s.from = r.from /\ s.session = r.session /\ s.phase = phase
        /\ s.intents = r.intents /\ s.runtime = r.runtime /\ s.steps = steps
        /\ s.image = r.image
    BY <1>1 DEF Whole, Fields
  <2> HIDE DEF s
  <2>2. Going(ts, th, m, s)
    BY <1>5, <2>1
  <2> QED BY <1>7, <2>1, <2>2 DEF s
<1>8. LET s == [r EXCEPT !.phase = "turn", !.steps = steps, !.offered = offered,
                         !.note = Unverified(r, offered), !.statuses = << >>, !.refused = FALSE,
                         !.addresses = addresses]
      IN  /\ Whole(s) /\ s.from = r.from /\ s.session = r.session /\ s.phase = "turn"
          /\ s.intents = r.intents /\ s.runtime = r.runtime /\ s.steps = steps
          /\ s.note = Unverified(r, offered) /\ s.offered = offered /\ s.image = r.image
  BY <1>1 DEF Whole, Fields
<1>9. CASE open = {}
  BY <1>6, <1>7, <1>9
<1>10. CASE open # {} /\ \E c \in offered \cap CredentialConnectors : AskingRaises(c)
  BY <1>6, <1>7, <1>10
<1>11. CASE open # {} /\ ~\E c \in offered \cap CredentialConnectors : AskingRaises(c)
  <2>1. Len(steps) < Len(r.intents)
    BY <1>1, <1>2, <1>4, <1>11
  <2> DEFINE s == [r EXCEPT !.phase = "turn", !.steps = steps, !.offered = offered,
                            !.note = Unverified(r, offered), !.statuses = << >>, !.refused = FALSE,
                            !.addresses = addresses]
  <2>2. Prepared(r) = s
    BY <1>6, <1>11
  <2>3. /\ Whole(s) /\ s.from = r.from /\ s.session = r.session /\ s.phase = "turn"
        /\ s.intents = r.intents /\ s.runtime = r.runtime /\ s.steps = steps
        /\ s.note = Unverified(r, offered) /\ s.offered = offered /\ s.image = r.image
    BY <1>8
  <2> HIDE DEF s
  <2>4. offered \subseteq Reach(r.intents[next], Widened(r))
    BY DEF offered, Offered, EligibleFor, Reach
  <2>5. next = Len(steps) + 1
    BY <1>2, <1>4
  <2>6. Widened(s) = Widened(r)
    BY <2>3 DEF Widened
  <2>7. Ready(s)
    BY <2>1, <2>3, <2>4, <2>5, <2>6 DEF Ready
  <2>8. steps = << >> => offered = Offered(r.intents[1], Widened(r))
    BY <2>5 DEF offered
  <2> QED BY <1>5, <2>2, <2>3, <2>7, <2>8
<1> QED BY <1>9, <1>10, <1>11

\* Threads keep what they resume while a mission that saves nothing goes on or ends.
LEMMA ContextsKeep ==
  ASSUME IInv, NEW m \in Missions, mission[m] # Over, thread' = thread,
         \A turn \in DOMAIN turns : turn[1] # m =>
           \A t \in DOMAIN thread : turn \in thread[t].history =>
             turn \in DOMAIN turns' /\ turns'[turn] = turns[turn]
  PROVE  /\ Grows(thread, thread')
         /\ \A t \in DOMAIN thread' : ContextIsTrue(turns', thread'[t], t)
<1>1. Grows(thread, thread')
  BY DEF Grows, Covers
<1>2. ASSUME NEW t \in DOMAIN thread
      PROVE  ContextIsTrue(turns', thread[t], t)
  <2>1. ContextIsTrue(turns, thread[t], t)
    BY DEF IInv
  <2>2. ASSUME NEW turn \in thread[t].history
        PROVE  turn \in DOMAIN turns' /\ turns'[turn] = turns[turn]
    <3>1. turn \in DOMAIN turns /\ turns[turn].saved
      BY <2>1 DEF ContextIsTrue
    <3>2. turn[1] # m
      BY <3>1 DEF IInv, TurnIsTrue
    <3> QED BY <3>1, <3>2
  <2> QED BY <2>1, <2>2 DEF ContextIsTrue
<1> QED BY <1>1, <1>2

\* Only the turn a mission is at changes.
LEMMA AtTurn ==
  ASSUME IInv, NEW m \in Missions, mission[m] # Over, NEW record, NEW r,
         Going(turns, thread, m, r), Ready(r), r.phase = "turn",
         record.phase = "turn", Whole(record), record.from = r.from, record.session = r.session,
         record.intents = r.intents, record.image = r.image, record.steps = r.steps,
         record.offered = r.offered,
         mission' = [mission EXCEPT ![m] = record], thread' = thread,
         DOMAIN turns' = DOMAIN turns \cup {Turn(m, r)},
         \A turn \in DOMAIN turns : turn # Turn(m, r) => turns'[turn] = turns[turn],
         TurnIsTrue(mission', thread', Turn(m, r), turns'[Turn(m, r)]),
         turns'[Turn(m, r)].thread = ThreadOf(r), turns'[Turn(m, r)].offered = r.offered
  PROVE  IInv'
<1>1. Turn(m, r)[1] = m /\ \A i \in DOMAIN r.steps : <<m, i>> # Turn(m, r)
  BY DEF Turn, Going
<1>2. LeavesOthers(m)
  BY <1>1 DEF LeavesOthers
<1>3. /\ Grows(thread, thread')
      /\ \A t \in DOMAIN thread' : ContextIsTrue(turns', thread'[t], t)
  BY <1>1, ContextsKeep
<1>4. Going(turns', thread', m, r)
  <2>1. \A turn \in r.from.history : turn \in DOMAIN turns =>
          turn \in DOMAIN turns' /\ turns'[turn] = turns[turn]
    BY <1>1, ResumedAreOthers
  <2>2. \A i \in DOMAIN r.steps : <<m, i>> \in DOMAIN turns =>
          <<m, i>> \in DOMAIN turns' /\ turns'[<<m, i>>] = turns[<<m, i>>]
    BY <1>1
  <2> QED BY <1>3, <2>1, <2>2, GoingKeeps
<1>5. Widened(record) = Widened(r) /\ Turn(m, record) = Turn(m, r) /\ ThreadOf(record) = ThreadOf(r)
  BY DEF Widened, Turn, ThreadOf
<1>6. Going(turns', thread', m, record)
  <2>1. From(turns', thread', record)
    BY <1>4 DEF Going, From
  <2>2. ASSUME NEW i \in DOMAIN record.steps, HasContext(record.steps[i])
        PROVE  StepIsTrue(turns', m, record, i)
    <3>1. StepIsTrue(turns', m, r, i)
      BY <1>4, <2>2 DEF Going
    <3> QED BY <1>5, <3>1 DEF StepIsTrue
  <2> QED BY <1>4, <2>1, <2>2 DEF Going
<1>7. Ready(record) /\ At(turns', m, record)
  BY <1>5 DEF Ready, At
<1>8. \A turn \in DOMAIN turns' :
        \/ turn \in DOMAIN turns /\ turns'[turn] = turns[turn]
        \/ TurnIsTrue(mission', thread', turn, turns'[turn])
  OBVIOUS
<1> QED BY <1>2, <1>3, <1>6, <1>7, <1>8, MissionStep

LEMMA BegunKeeps ==
  ASSUME IInv, NEW m \in Missions, mission[m] # Over, NEW s, Going(turns, thread, m, s),
         s.phase = "turn", Ready(s),
         mission' = [mission EXCEPT ![m] = s], turns' = Begun(m, s), thread' = thread
  PROVE  IInv'
<1> DEFINE now == Turn(m, s)
           x == [thread |-> ThreadOf(s), session |-> Nil, offered |-> s.offered,
                 attempted |-> {}, failed |-> {}, saved |-> FALSE]
<1>1. /\ DOMAIN turns' = DOMAIN turns \cup {now} /\ turns'[now] = x
      /\ \A turn \in DOMAIN turns : turn # now => turns'[turn] = turns[turn]
  BY DEF Begun
<1>2. TurnIsTrue(mission', thread', now, x)
  <2>1. /\ WholeTurn(x) /\ x.session = Nil /\ ~x.saved
        /\ now = <<now[1], now[2]>> /\ now[1] \in Missions
    BY DEF WholeTurn, TurnFields, Turn
  <2> HIDE DEF x, now
  <2> QED BY <2>1 DEF TurnIsTrue
<1>3. x.thread = ThreadOf(s) /\ x.offered = s.offered
  OBVIOUS
<1>4. Whole(s)
  BY DEF Going
<1> HIDE DEF x
<1> QED BY <1>1, <1>2, <1>3, <1>4, AtTurn

\* What can still be resumed when a mission ends.
LEMMA OthersGoOn ==
  ASSUME NEW m \in Missions, NEW th,
         NEW n \in Missions \ {m}, Underway(n), NEW turn \in DOMAIN turns,
         turn[1] = n \/ turn \in mission[n].from.history
  PROVE  turn \in Resumable({m}, th)
BY DEF Resumable

LEMMA FailsKeeps ==
  ASSUME IInv, NEW m \in Missions, mission[m] # Over, Fails(m)
  PROVE  IInv'
<1>1. /\ mission' = [mission EXCEPT ![m] = Over] /\ thread' = thread
      /\ turns' = [turn \in Resumable({m}, thread) |-> turns[turn]]
      /\ Resumable({m}, thread) \subseteq DOMAIN turns
  BY DEF Fails, Restrict, Resumable
<1>2. LeavesOthers(m)
  BY <1>1, OthersGoOn DEF LeavesOthers
<1>3. \A turn \in DOMAIN turns, t \in DOMAIN thread : turn \in thread[t].history =>
        turn \in Resumable({m}, thread)
  BY DEF Resumable
<1>4. /\ Grows(thread, thread')
      /\ \A t \in DOMAIN thread' : ContextIsTrue(turns', thread'[t], t)
  BY <1>1, <1>3, ContextsKeep
<1>5. Over.phase # "turn"
  BY DEF Over
<1> QED BY <1>1, <1>2, <1>4, <1>5, MissionStep

\* What a mission saves covers what its turns did and what it resumed.
LEMMA SavedKeeps ==
  ASSUME IInv, NEW m \in Missions, mission[m] # Over, NEW s, Going(turns, thread, m, s),
         mission' = [mission EXCEPT ![m] = Over], turns' = Kept(m, s), thread' = Saved(s)
  PROVE  IInv'
<1> DEFINE resumable == Resumable({m}, thread')
           savedNow(turn) == turn[1] = m /\ \E t \in Threads : turn[2] \in Contexts(s, t)
<1>1. /\ DOMAIN thread' = DOMAIN thread \cup {t \in Threads : Contexts(s, t) # {}}
      /\ \A t \in DOMAIN thread' : Contexts(s, t) = {} => thread'[t] = thread[t]
      /\ \A t \in DOMAIN thread' : Contexts(s, t) # {} =>
           /\ thread'[t].history = s.steps[Max(Contexts(s, t))].history
           /\ thread'[t].resume = s.steps[Max(Contexts(s, t))].resume
           /\ thread'[t].attempted =
                Before(t).attempted \cup UNION {s.steps[i].attempted : i \in Contexts(s, t)}
           /\ thread'[t].failed =
                Before(t).failed \cup UNION {s.steps[i].failed : i \in Contexts(s, t)}
           /\ thread'[t].image = (Before(t).image \/ s.image)
  BY DEF Saved, Cumulated, EverImage
<1>2. Grows(thread, thread')
  BY <1>1 DEF Before, Covers, Grows
<1>3. /\ mission'[m] = Over /\ \A n \in Missions : n # m => mission'[n] = mission[n]
      /\ Over.phase # "turn"
  BY DEF IInv, Over
<1>4. /\ DOMAIN turns' = resumable /\ resumable \subseteq DOMAIN turns
      /\ \A turn \in resumable : ~savedNow(turn) => turns'[turn] = turns[turn]
      /\ \A turn \in resumable :
           savedNow(turn) => turns'[turn] = [turns[turn] EXCEPT !.saved = TRUE]
  BY DEF Kept, Resumable
<1>5. \A t \in DOMAIN thread', turn \in DOMAIN turns :
        turn \in thread'[t].history => turn \in resumable
  BY DEF Resumable
<1>6. LeavesOthers(m)
  <2> SUFFICES ASSUME NEW n \in Missions \ {m}, Underway(n), NEW turn \in DOMAIN turns,
                      turn[1] = n \/ (turn[1] # m /\ turn \in mission[n].from.history)
               PROVE  turn \in DOMAIN turns' /\ turns'[turn] = turns[turn]
    BY DEF LeavesOthers
  <2>1. turn \in resumable
    BY OthersGoOn
  <2>2. ~savedNow(turn)
    OBVIOUS
  <2> HIDE DEF resumable, savedNow
  <2> QED BY <1>4, <2>1, <2>2
<1>7. \A turn \in DOMAIN turns : TurnIsTrue(mission, thread, turn, turns[turn])
  BY DEF IInv
<1>8. \A t \in DOMAIN thread' : t \in Threads
  BY <1>1 DEF IInv, ContextIsTrue
<1> HIDE DEF resumable
\* A step that saves something, and the thread it is in.
<1>9. ASSUME NEW t, NEW i \in Contexts(s, t)
      PROVE  /\ i \in DOMAIN s.steps /\ StepIsTrue(turns, m, s, i)
             /\ t = <<s.session, s.intents[i]>> /\ t[2] = s.intents[i]
  <2>1. i \in DOMAIN s.steps /\ t = <<s.session, s.steps[i].category>> /\ HasContext(s.steps[i])
    BY DEF Contexts
  <2>2. StepIsTrue(turns, m, s, i)
    BY <2>1 DEF Going
  <2> QED BY <2>1, <2>2 DEF StepIsTrue
<1>10. ASSUME NEW t \in DOMAIN thread', NEW i \in Contexts(s, t), s.from # NoThread
      PROVE  /\ t \in DOMAIN thread /\ i = 1 /\ ContextIsTrue(turns, s.from, t)
             /\ s.from.image => thread[t].image
  <2>1. PICK category :
          /\ s.intents = <<category>> /\ <<s.session, category>> \in DOMAIN thread
          /\ ContextIsTrue(turns, s.from, <<s.session, category>>)
          /\ s.from.image => thread[<<s.session, category>>].image
    BY <1>10 DEF Going, From
  <2>2. i = 1
    BY <1>9, <2>1 DEF Going
  <2>3. t = <<s.session, category>>
    BY <1>9, <2>1, <2>2
  <2> QED BY <2>1, <2>2, <2>3
<1>11. ASSUME NEW t \in DOMAIN thread', NEW i \in Contexts(s, t)
       PROVE  Covered(turns[<<m, i>>], thread')
  <2>1. StepIsTrue(turns, m, s, i) /\ t = <<s.session, s.intents[i]>> /\ t[2] = s.intents[i]
    BY <1>9
  <2>2. turns[<<m, i>>].thread = t
    BY <2>1 DEF StepIsTrue
  <2>3. /\ turns[<<m, i>>].attempted \subseteq thread'[t].attempted
        /\ turns[<<m, i>>].failed \subseteq thread'[t].failed
    BY <1>1, <2>1 DEF StepIsTrue
  <2>4. Widened(s) => thread'[t].image
    <3>1. s.image => thread'[t].image
      BY <1>1
    <3>2. s.from.image => thread'[t].image
      <4>1. CASE s.from = NoThread
        BY <4>1 DEF NoThread
      <4>2. CASE s.from # NoThread
        BY <1>2, <1>10, <4>2 DEF Grows, Covers
      <4> QED BY <4>1, <4>2
    <3> QED BY <3>1, <3>2 DEF Widened
  <2>5. turns[<<m, i>>].offered \subseteq Reach(t[2], thread'[t].image)
    <3>1. Reach(t[2], Widened(s)) \subseteq Reach(t[2], thread'[t].image)
      BY <2>4 DEF Reach
    <3> QED BY <2>1, <3>1 DEF StepIsTrue
  <2> QED BY <2>2, <2>3, <2>5 DEF Covered
<1>12. ASSUME NEW turn \in DOMAIN turns', savedNow(turn)
       PROVE  TurnIsTrue(mission', thread', turn, turns'[turn])
  <2>1. PICK t \in Threads : turn[2] \in Contexts(s, t)
    BY <1>12
  <2> DEFINE x == turns[turn]
             y == [x EXCEPT !.saved = TRUE]
  <2>2. turn[1] = m /\ turn \in DOMAIN turns /\ turns'[turn] = y /\ TurnIsTrue(mission, thread, turn, x)
    BY <1>4, <1>7, <1>12
  <2>3. t \in DOMAIN thread' /\ turn = <<m, turn[2]>>
    BY <1>1, <2>1, <2>2 DEF TurnIsTrue
  <2>4. Covered(x, thread')
    BY <1>11, <2>1, <2>3
  <2>5. /\ WholeTurn(y) /\ y.thread = x.thread /\ y.session = x.session
        /\ y.attempted = x.attempted /\ y.failed = x.failed /\ y.offered = x.offered
    <3>1. WholeTurn(x)
      BY <2>2 DEF TurnIsTrue
    <3> HIDE DEF x
    <3> QED BY <3>1 DEF WholeTurn, TurnFields
  <2> HIDE DEF x, y
  <2>6. Covered(y, thread')
    BY <2>4, <2>5 DEF Covered
  <2>7. TurnIsTrue(mission', thread', turn, y)
    BY <1>3, <2>2, <2>5, <2>6 DEF TurnIsTrue
  <2> QED BY <2>2, <2>7
<1>13. \A turn \in DOMAIN turns' :
         \/ turn \in DOMAIN turns /\ turns'[turn] = turns[turn]
         \/ TurnIsTrue(mission', thread', turn, turns'[turn])
  <2> HIDE DEF savedNow
  <2> QED BY <1>4, <1>12
\* A turn that is resumed from a thread was saved, now or before.
<1>14. ASSUME NEW turn \in DOMAIN turns', turns[turn].saved
       PROVE  turns'[turn].saved /\ turns'[turn].thread = turns[turn].thread
  <2>1. turn[1] # m
    BY <1>4, <1>7, <1>14 DEF TurnIsTrue
  <2> QED BY <1>4, <1>14, <2>1
<1>15. ASSUME NEW t \in DOMAIN thread', NEW i \in Contexts(s, t), <<m, i>> \in DOMAIN turns'
       PROVE  turns'[<<m, i>>].saved /\ turns'[<<m, i>>].thread = t
  <2>1. turns[<<m, i>>].thread = t /\ t \in Threads
    BY <1>9, <1>8 DEF StepIsTrue
  <2>2. savedNow(<<m, i>>)
    BY <2>1
  <2> DEFINE x == turns[<<m, i>>]
  <2>3. WholeTurn(x) /\ turns'[<<m, i>>] = [x EXCEPT !.saved = TRUE] /\ x.thread = t
    BY <1>4, <1>7, <1>15, <2>1, <2>2 DEF TurnIsTrue
  <2> HIDE DEF x
  <2> QED BY <2>3 DEF WholeTurn, TurnFields
<1> HIDE DEF savedNow
<1>16. ASSUME NEW t \in DOMAIN thread', Contexts(s, t) = {}
       PROVE  ContextIsTrue(turns', thread'[t], t)
  <2>1. t \in DOMAIN thread /\ thread'[t] = thread[t] /\ ContextIsTrue(turns, thread[t], t)
    BY <1>1, <1>16 DEF IInv
  <2>2. ASSUME NEW turn \in thread'[t].history
        PROVE  turn \in DOMAIN turns' /\ turns'[turn].saved /\ turns'[turn].thread = t
    <3>1. turn \in DOMAIN turns /\ turns[turn].saved /\ turns[turn].thread = t
      BY <2>1 DEF ContextIsTrue
    <3>2. turn \in DOMAIN turns'
      BY <1>4, <1>5, <3>1
    <3> QED BY <1>14, <3>1, <3>2
  <2> QED BY <1>8, <2>1, <2>2 DEF ContextIsTrue
<1>17. ASSUME NEW t \in DOMAIN thread', Contexts(s, t) # {}
       PROVE  ContextIsTrue(turns', thread'[t], t)
  <2> DEFINE i == Max(Contexts(s, t))
  <2>1. i \in Contexts(s, t)
    <3>1. Contexts(s, t) \subseteq 1 .. Len(s.steps) /\ Len(s.steps) \in Nat
      BY DEF Contexts, Going
    <3> QED BY <1>17, <3>1, MaxIs
  <2>2. thread'[t].history = s.steps[i].history /\ thread'[t].resume = s.steps[i].resume
    BY <1>1, <1>17
  <2> HIDE DEF i
  <2>3. StepIsTrue(turns, m, s, i) /\ t = <<s.session, s.intents[i]>>
    BY <1>9, <2>1
  <2>4. thread'[t].resume # Nil => thread'[t].resume.thread = t
    BY <2>2, <2>3 DEF StepIsTrue
  <2>5. <<m, i>> \in DOMAIN turns /\ thread'[t].history \subseteq s.from.history \cup {<<m, i>>}
    BY <2>2, <2>3 DEF StepIsTrue
  <2>6. ASSUME NEW turn \in thread'[t].history
        PROVE  turn \in DOMAIN turns' /\ turns'[turn].saved /\ turns'[turn].thread = t
    <3>1. CASE turn = <<m, i>>
      <4>1. turn \in DOMAIN turns'
        BY <1>4, <1>5, <2>5, <2>6, <3>1
      <4> QED BY <1>15, <2>1, <3>1, <4>1
    <3>2. CASE turn \in s.from.history
      <4>1. s.from # NoThread
        BY <3>2 DEF NoThread
      <4>2. turn \in DOMAIN turns /\ turns[turn].saved /\ turns[turn].thread = t
        BY <1>10, <2>1, <3>2, <4>1 DEF ContextIsTrue
      <4>3. turn \in DOMAIN turns'
        BY <1>4, <1>5, <2>6, <4>2
      <4> QED BY <1>14, <4>2, <4>3
    <3> QED BY <2>5, <2>6, <3>1, <3>2
  <2> QED BY <1>8, <2>4, <2>6 DEF ContextIsTrue
<1> QED BY <1>2, <1>3, <1>6, <1>13, <1>16, <1>17, MissionStep

LEMMA SettledKeeps ==
  ASSUME IInv, NEW m \in Missions, mission[m] # Over, NEW s, Going(turns, thread, m, s),
         s.phase = "turn" => Ready(s), Settled(m, s)
  PROVE  IInv'
BY BegunKeeps, FailsKeeps, SavedKeeps DEF Settled

-----------------------------------------------------------------------------
(* One lemma per action.                                                    *)

LEMMA IntentsAre ==
  ASSUME NEW message \in Messages
  PROVE  Intents(message) \in Seq(Range(Intents(message)))
<1>1. message \in Seq([words : SUBSET STRING, modifies : BOOLEAN])
  BY MissionsAssumption
<1>2. Heads(message) \subseteq 1 .. Len(message) /\ Len(message) \in Nat
  BY <1>1 DEF Heads
<1>3. IsFiniteSet(Heads(message))
  <2>1. IsFiniteSet(1 .. Len(message))
    BY <1>2, FS_Interval
  <2> QED BY <1>2, <2>1, FS_Subset
<1>4. Cardinality(Heads(message)) \in Nat
  BY <1>3, FS_CardinalityType
<1> DEFINE k == Cardinality(Heads(message))
           intents == [n \in 1 .. k |-> CategoryOf(message[Opening(message, n)].words)]
<1>5. intents \in [1 .. k -> Range(intents)]
  BY DEF Range
<1>6. Intents(message) = intents
  BY DEF Intents
<1> HIDE DEF k, intents
<1>7. intents \in Seq(Range(intents))
  BY <1>4, <1>5, SeqDef DEF k
<1> QED BY <1>6, <1>7

LEMMA NewIsGoing ==
  ASSUME IInv, NEW m \in Missions, NEW session, NEW from, NEW intents, NEW image,
         intents \in Seq(Range(intents)),
         \/ from = NoThread
         \/ \E category : /\ intents = <<category>> /\ <<session, category>> \in DOMAIN thread
                          /\ from = thread[<<session, category>>]
  PROVE  Going(turns, thread, m, New(session, from, intents, image))
<1> DEFINE r == New(session, from, intents, image)
<1>1. /\ Whole(r) /\ r.from = from /\ r.session = session /\ r.intents = intents
      /\ r.steps = << >>
  BY DEF New, Whole, Fields
<1> HIDE DEF r
<1>2. From(turns, thread, r)
  BY <1>1 DEF From, IInv
<1>3. Len(intents) \in Nat /\ r.steps \in Seq(Range(r.steps)) /\ Len(r.steps) = 0
      /\ DOMAIN r.steps = {}
  BY <1>1
<1> QED BY <1>1, <1>2, <1>3 DEF Going, r

LEMMA UnbornIsNotOver == Unborn # Over /\ Unborn.phase # "turn"
BY DEF Over, Unborn

LEMMA RunKeeps ==
  ASSUME IInv, NEW m \in Missions, NEW session, NEW message \in Messages, NEW image,
         Run(m, session, message, image)
  PROVE  IInv'
<1> DEFINE r == New(session, NoThread, Intents(message), image)
<1>1. mission[m] = Unborn /\ Settled(m, Prepared(r))
  BY DEF Run, MayRun
<1>2. Going(turns, thread, m, r)
  BY IntentsAre, NewIsGoing
<1> HIDE DEF r
<1> QED BY <1>1, <1>2, PreparedKeeps, SettledKeeps, UnbornIsNotOver

LEMMA ContinuedIsGoing ==
  ASSUME IInv, NEW m \in Missions, NEW session, NEW category, NEW image
  PROVE  Going(turns, thread, m, New(session, Before(<<session, category>>), <<category>>, image))
<1> DEFINE t == <<session, category>>
           from == Before(t)
<1>1. <<category>> \in Seq(Range(<<category>>))
  BY DEF Range
<1>2. from = NoThread \/ (t \in DOMAIN thread /\ from = thread[t])
  BY DEF Before
<1> HIDE DEF from
<1>3. Going(turns, thread, m, New(session, from, <<category>>, image))
  BY <1>1, <1>2, NewIsGoing
<1> QED BY <1>3 DEF from

LEMMA ContinueKeeps ==
  ASSUME IInv, NEW m \in Missions, NEW session, NEW category, NEW image,
         Continue(m, session, category, image)
  PROVE  IInv'
<1> DEFINE r == New(session, Before(<<session, category>>), <<category>>, image)
<1>1. mission[m] = Unborn /\ Settled(m, Prepared(r))
  BY DEF Continue, MayRun
<1>2. Going(turns, thread, m, r)
  BY ContinuedIsGoing
<1> HIDE DEF r
<1> QED BY <1>1, <1>2, PreparedKeeps, SettledKeeps, UnbornIsNotOver

\* A mission underway, and the turn it is at.
LEMMA UnderwayIs ==
  ASSUME IInv, NEW m \in Missions, Underway(m)
  PROVE  LET r == mission[m]
         IN  /\ r # Over /\ r # Unborn /\ r.phase = "turn" /\ Whole(r)
             /\ Going(turns, thread, m, r) /\ Ready(r) /\ At(turns, m, r)
             /\ Turn(m, r) \in DOMAIN turns /\ WholeTurn(turns[Turn(m, r)])
             /\ TurnIsTrue(mission, thread, Turn(m, r), turns[Turn(m, r)])
             /\ ~turns[Turn(m, r)].saved
<1> DEFINE r == mission[m]
<1>1. r # Over /\ r # Unborn /\ r.phase = "turn"
  BY DEF Underway, Over, Unborn
<1>2. Going(turns, thread, m, r) /\ Ready(r) /\ At(turns, m, r)
  BY DEF IInv
<1>3. /\ Turn(m, r) \in DOMAIN turns
      /\ TurnIsTrue(mission, thread, Turn(m, r), turns[Turn(m, r)])
  BY <1>2 DEF At, IInv
<1>4. Turn(m, r)[1] = m
  BY DEF Turn
<1> HIDE DEF r
<1>5. ~turns[Turn(m, r)].saved
  BY <1>1, <1>3, <1>4 DEF TurnIsTrue, r
<1> QED BY <1>1, <1>2, <1>3, <1>5 DEF Going, TurnIsTrue, r

\* The session that a turn joins is of its own thread.
LEMMA SessionIsOwn ==
  ASSUME NEW m, NEW r, Going(turns, thread, m, r), Ready(r)
  PROVE  SessionOf(m, r).thread = ThreadOf(r)
<1>1. CASE r.from.resume = Nil
  BY <1>1 DEF SessionOf
<1>2. CASE r.from.resume # Nil
  <2>1. r.from # NoThread
    BY <1>2 DEF NoThread
  <2>2. PICK category : /\ r.intents = <<category>>
                        /\ ContextIsTrue(turns, r.from, <<r.session, category>>)
    BY <2>1 DEF Going, From
  <2>3. r.from.resume.thread = <<r.session, category>>
    BY <1>2, <2>2 DEF ContextIsTrue
  <2>4. Len(r.steps) \in Nat /\ Len(r.intents) = 1
    BY <2>2 DEF Going
  <2>5. Len(r.steps) = 0
    BY <2>4 DEF Ready
  <2>6. ThreadOf(r) = <<r.session, category>>
    BY <2>2, <2>5 DEF ThreadOf
  <2> QED BY <1>2, <2>3, <2>6 DEF SessionOf
<1> QED BY <1>1, <1>2

LEMMA InitMessageKeeps ==
  ASSUME IInv, NEW m \in Missions, InitMessage(m)
  PROVE  IInv'
<1> DEFINE r == mission[m]
           now == Turn(m, r)
           x == turns[now]
<1>1. Underway(m) /\ thread' = thread
  BY DEF InitMessage
<1>2. PICK reported \in Handshakes(r) :
        /\ mission' = [mission EXCEPT ![m].statuses = reported.statuses]
        /\ turns' = [turns EXCEPT ![now].session = SessionOf(m, r), ![now].failed = reported.failed]
  BY DEF InitMessage
<1>3. /\ r # Over /\ r.phase = "turn" /\ Whole(r) /\ Going(turns, thread, m, r)
      /\ Ready(r) /\ At(turns, m, r) /\ now \in DOMAIN turns /\ WholeTurn(x)
      /\ TurnIsTrue(mission, thread, now, x) /\ ~x.saved
  BY <1>1, UnderwayIs
<1> DEFINE record == [r EXCEPT !.statuses = reported.statuses]
           y == [x EXCEPT !.session = SessionOf(m, r), !.failed = reported.failed]
<1>4. mission' = [mission EXCEPT ![m] = record]
  BY <1>2
<1>5. /\ DOMAIN turns' = DOMAIN turns \cup {now} /\ turns'[now] = y
      /\ \A turn \in DOMAIN turns : turn # now => turns'[turn] = turns[turn]
  BY <1>2, <1>3
<1> HIDE DEF now, x, r
<1>6. /\ record.phase = "turn" /\ Whole(record) /\ record.from = r.from
      /\ record.session = r.session /\ record.intents = r.intents /\ record.image = r.image
      /\ record.steps = r.steps /\ record.offered = r.offered
  BY <1>3 DEF Whole, Fields
<1>7. /\ WholeTurn(y) /\ y.session = SessionOf(m, r) /\ y.thread = x.thread
      /\ y.offered = x.offered /\ y.saved = x.saved
  BY <1>3 DEF WholeTurn, TurnFields
<1>8. x.thread = ThreadOf(r) /\ x.offered = r.offered
  BY <1>3 DEF At, x, now
<1>9. SessionOf(m, r).thread = ThreadOf(r)
  BY <1>3, SessionIsOwn
<1> HIDE DEF record, y
<1>10. TurnIsTrue(mission', thread', now, y)
  BY <1>3, <1>7, <1>8, <1>9 DEF TurnIsTrue
<1>11. mission[m] # Over
  BY <1>3 DEF r
<1> QED BY <1>1, <1>3, <1>4, <1>5, <1>6, <1>7, <1>8, <1>10, <1>11, AtTurn DEF now

LEMMA ToolCallKeeps ==
  ASSUME IInv, NEW m \in Missions, ToolCall(m)
  PROVE  IInv'
<1> DEFINE r == mission[m]
           now == Turn(m, r)
           x == turns[now]
<1>1. Underway(m) /\ thread' = thread
  BY DEF ToolCall
<1>2. PICK outcome \in Outcomes(r) :
        /\ mission' = [mission EXCEPT ![m].refused = @ \/ outcome.refused]
        /\ turns' = [turns EXCEPT ![now].attempted = @ \cup outcome.reached]
  BY DEF ToolCall
<1>3. /\ r # Over /\ r.phase = "turn" /\ Whole(r) /\ Going(turns, thread, m, r)
      /\ Ready(r) /\ At(turns, m, r) /\ now \in DOMAIN turns /\ WholeTurn(x)
      /\ TurnIsTrue(mission, thread, now, x) /\ ~x.saved
  BY <1>1, UnderwayIs
<1> DEFINE record == [r EXCEPT !.refused = @ \/ outcome.refused]
           y == [x EXCEPT !.attempted = @ \cup outcome.reached]
<1>4. mission' = [mission EXCEPT ![m] = record]
  BY <1>2
<1>5. /\ DOMAIN turns' = DOMAIN turns \cup {now} /\ turns'[now] = y
      /\ \A turn \in DOMAIN turns : turn # now => turns'[turn] = turns[turn]
  BY <1>2, <1>3
<1> HIDE DEF now, x, r
<1>6. /\ record.phase = "turn" /\ Whole(record) /\ record.from = r.from
      /\ record.session = r.session /\ record.intents = r.intents /\ record.image = r.image
      /\ record.steps = r.steps /\ record.offered = r.offered
  BY <1>3 DEF Whole, Fields
<1>7. /\ WholeTurn(y) /\ y.session = x.session /\ y.thread = x.thread
      /\ y.offered = x.offered /\ y.saved = x.saved
  BY <1>3 DEF WholeTurn, TurnFields
<1>8. x.thread = ThreadOf(r) /\ x.offered = r.offered
  BY <1>3 DEF At, x, now
<1> HIDE DEF record, y
<1>9. TurnIsTrue(mission', thread', now, y)
  BY <1>3, <1>7 DEF TurnIsTrue
<1>10. mission[m] # Over
  BY <1>3 DEF r
<1> QED BY <1>1, <1>3, <1>4, <1>5, <1>6, <1>7, <1>8, <1>9, <1>10, AtTurn DEF now

LEMMA TookIsGoing ==
  ASSUME IInv, NEW m, NEW r, Going(turns, thread, m, r), Ready(r), At(turns, m, r)
  PROVE  Going(turns, thread, m, [r EXCEPT !.steps = Append(r.steps, Took(m, r))])
<1> DEFINE step == Took(m, r)
           now == Len(r.steps) + 1
           steps == Append(r.steps, step)
           s == [r EXCEPT !.steps = steps]
<1>1. /\ step.category = r.intents[now]
      /\ <<m, now>> \in DOMAIN turns /\ turns[<<m, now>>].thread = <<r.session, r.intents[now]>>
      /\ turns[<<m, now>>].attempted = step.attempted /\ turns[<<m, now>>].failed = step.failed
      /\ turns[<<m, now>>].offered \subseteq Reach(r.intents[now], Widened(r))
      /\ step.history \subseteq r.from.history \cup {<<m, now>>}
      /\ step.resume # Nil => step.resume.thread = <<r.session, r.intents[now]>>
  <2>1. /\ Turn(m, r) = <<m, now>> /\ Turn(m, r) \in DOMAIN turns
        /\ turns[Turn(m, r)].thread = <<r.session, r.intents[now]>>
        /\ turns[Turn(m, r)].offered \subseteq Reach(r.intents[now], Widened(r))
    BY DEF At, Turn, ThreadOf, Ready
  <2>2. TurnIsTrue(mission, thread, Turn(m, r), turns[Turn(m, r)])
    BY <2>1 DEF IInv
  <2>3. /\ step.category = r.intents[Turn(m, r)[2]] /\ step.resume = turns[Turn(m, r)].session
        /\ step.attempted = turns[Turn(m, r)].attempted /\ step.failed = turns[Turn(m, r)].failed
        /\ step.history \subseteq r.from.history \cup {Turn(m, r)}
    BY DEF Took
  <2> HIDE DEF step
  <2> QED BY <2>1, <2>2, <2>3 DEF TurnIsTrue
<1> HIDE DEF step
<1>2. r.steps \in Seq(Range(r.steps)) /\ Len(r.steps) \in Nat /\ DOMAIN r.steps = 1 .. Len(r.steps)
      /\ Len(r.intents) \in Nat
  BY DEF Going
<1>3. /\ steps \in Seq(Range(steps)) /\ Len(steps) = Len(r.steps) + 1
      /\ DOMAIN steps = 1 .. Len(r.steps) + 1
      /\ \A i \in 1 .. Len(r.steps) : steps[i] = r.steps[i]
      /\ steps[Len(r.steps) + 1] = step
  <2> DEFINE All == Range(r.steps) \cup {step}
  <2>1. r.steps \in Seq(All)
    BY <1>2, SeqMonotonic
  <2>2. step \in All
    OBVIOUS
  <2> HIDE DEF All
  <2>3. /\ steps \in Seq(All) /\ Len(steps) = Len(r.steps) + 1
        /\ \A i \in 1 .. Len(r.steps) : steps[i] = r.steps[i]
        /\ steps[Len(r.steps) + 1] = step
    BY <2>1, <2>2, AppendProperties
  <2> HIDE DEF steps
  <2>4. steps \in Seq(Range(steps))
    BY <2>3, SeqOfRange
  <2> QED BY <2>3, <2>4
<1> HIDE DEF steps
<1>4. /\ Whole(s) /\ s.from = r.from /\ s.session = r.session /\ s.intents = r.intents
      /\ s.runtime = r.runtime /\ s.image = r.image /\ s.steps = steps
  BY DEF Going, Whole, Fields
<1> HIDE DEF s
<1>5. Widened(s) = Widened(r) /\ From(turns, thread, s)
  BY <1>4 DEF Widened, From, Going
<1>6. ASSUME NEW i \in DOMAIN steps, HasContext(steps[i])
      PROVE  StepIsTrue(turns, m, s, i)
  <2>1. CASE i \in DOMAIN r.steps
    <3>1. steps[i] = r.steps[i] /\ StepIsTrue(turns, m, r, i)
      BY <1>2, <1>3, <1>6, <2>1 DEF Going
    <3> QED BY <1>4, <1>5, <3>1 DEF StepIsTrue
  <2>2. CASE i = now
    <3>1. steps[i] = step
      BY <1>3, <2>2
    <3> HIDE DEF now
    <3> QED BY <1>1, <1>4, <1>5, <2>2, <3>1 DEF StepIsTrue
  <2> QED BY <1>2, <1>3, <2>1, <2>2
<1>7. Going(turns, thread, m, s)
  <2>1. Whole(s) /\ s.intents \in Seq(Range(s.intents))
    BY <1>4 DEF Going
  <2>2. s.steps \in Seq(Range(s.steps)) /\ Len(s.steps) <= Len(s.intents)
    BY <1>2, <1>3, <1>4 DEF Ready
  <2> QED BY <1>4, <1>5, <1>6, <2>1, <2>2 DEF Going
<1> QED BY <1>7 DEF s, steps, step

LEMMA TurnAnsweredKeeps ==
  ASSUME IInv, NEW m \in Missions, TurnAnswered(m)
  PROVE  IInv'
<1> DEFINE r == mission[m]
           q == [r EXCEPT !.steps = Append(r.steps, Took(m, r))]
<1>1. Underway(m) /\ (Fails(m) \/ Settled(m, Prepared(q)))
  BY DEF TurnAnswered
<1>2. r # Over /\ Going(turns, thread, m, r) /\ Ready(r) /\ At(turns, m, r)
  BY <1>1, UnderwayIs
<1>3. CASE Fails(m)
  BY <1>2, <1>3, FailsKeeps
<1>4. CASE Settled(m, Prepared(q))
  <2>1. Going(turns, thread, m, q)
    <3> HIDE DEF r
    <3> QED BY <1>2, TookIsGoing
  <2> HIDE DEF q
  <2> QED BY <1>2, <1>4, <2>1, PreparedKeeps, SettledKeeps
<1> QED BY <1>1, <1>3, <1>4

LEMMA TurnFailsKeeps ==
  ASSUME IInv, NEW m \in Missions, TurnFails(m)
  PROVE  IInv'
<1>1. Underway(m) /\ Fails(m)
  BY DEF TurnFails
<1> QED BY <1>1, UnderwayIs, FailsKeeps

\* What was underway is over; what threads resume is still there.
LEMMA RestartKeeps ==
  ASSUME IInv, Restart
  PROVE  IInv'
<1>1. /\ thread' = thread
      /\ mission' = [m \in Missions |-> IF mission[m] = Unborn THEN Unborn ELSE Over]
      /\ turns' = [turn \in Resumable(Missions, thread) |-> turns[turn]]
      /\ Resumable(Missions, thread) \subseteq DOMAIN turns
  BY DEF Restart, Restrict, Resumable
<1>2. ASSUME NEW m \in Missions
      PROVE  mission'[m].phase # "turn" /\ (mission[m] = Over => mission'[m] = Over)
  BY <1>1 DEF Unborn, Over
<1>3. ASSUME NEW turn \in DOMAIN turns'
      PROVE  TurnIsTrue(mission', thread', turn, turns'[turn])
  <2>1. turns'[turn] = turns[turn] /\ TurnIsTrue(mission, thread, turn, turns[turn])
    BY <1>1 DEF IInv
  <2> QED BY <1>1, <1>2, <2>1 DEF TurnIsTrue
<1>4. ASSUME NEW t \in DOMAIN thread'
      PROVE  ContextIsTrue(turns', thread'[t], t)
  <2>1. t \in DOMAIN thread /\ thread'[t] = thread[t] /\ ContextIsTrue(turns, thread[t], t)
    BY <1>1 DEF IInv
  <2>2. \A turn \in thread[t].history : turn \in DOMAIN turns => turn \in Resumable(Missions, thread)
    BY <2>1 DEF Resumable
  <2> QED BY <1>1, <2>1, <2>2 DEF ContextIsTrue
<1>5. mission' = [m \in Missions |-> mission'[m]]
  BY <1>1
<1> QED BY <1>2, <1>3, <1>4, <1>5 DEF IInv, Underway

-----------------------------------------------------------------------------
LEMMA InitHolds == Init => IInv
BY DEF Init, IInv, Underway, Unborn

LEMMA StepKeeps == IInv /\ [Next]_vars => IInv'
<1> SUFFICES ASSUME IInv, [Next]_vars PROVE IInv'
  OBVIOUS
<1>1. CASE UNCHANGED <<mission, turns, thread>>
  BY <1>1 DEF IInv, Underway, At, Turn, ThreadOf
<1>2. CASE \E m \in Missions, session \in Sessions, image \in BOOLEAN, message \in Messages :
             Run(m, session, message, image)
  BY <1>2, RunKeeps
<1>3. CASE \E m \in Missions, session \in Sessions, image \in BOOLEAN, category \in Categories :
             Continue(m, session, category, image)
  BY <1>3, ContinueKeeps
<1>4. CASE \E m \in Missions : InitMessage(m)
  BY <1>4, InitMessageKeeps
<1>5. CASE \E m \in Missions : ToolCall(m)
  BY <1>5, ToolCallKeeps
<1>6. CASE \E m \in Missions : TurnAnswered(m)
  BY <1>6, TurnAnsweredKeeps
<1>7. CASE \E m \in Missions : TurnFails(m)
  BY <1>7, TurnFailsKeeps
<1>8. CASE Restart
  BY <1>8, RestartKeeps
<1>9. UNCHANGED vars \/ Settings => UNCHANGED <<mission, turns, thread>>
  BY DEF vars, Settings
<1> QED BY <1>1, <1>2, <1>3, <1>4, <1>5, <1>6, <1>7, <1>8, <1>9 DEF Next

-----------------------------------------------------------------------------
(* Only Run and Continue begin a mission.                                   *)

LEMMA SettledWrites ==
  ASSUME NEW m, NEW s, Settled(m, s)
  PROVE  \E record : /\ mission' = [mission EXCEPT ![m] = record]
                     /\ record.phase = "turn" => record = s /\ s.phase = "turn"
<1>1. CASE s.phase = "turn" /\ mission' = [mission EXCEPT ![m] = s]
  BY <1>1
<1>2. CASE mission' = [mission EXCEPT ![m] = Over]
  <2>1. Over.phase # "turn"
    BY DEF Over
  <2> QED BY <1>2, <2>1
<1> QED BY <1>1, <1>2 DEF Settled, Fails

LEMMA TurnsWriteTheirOwn ==
  ASSUME NEW n \in Missions,
         InitMessage(n) \/ ToolCall(n) \/ TurnAnswered(n) \/ TurnFails(n)
  PROVE  mission[n] # Unborn /\ \E record : mission' = [mission EXCEPT ![n] = record]
<1>1. mission[n] # Unborn
  <2>1. Underway(n)
    BY DEF InitMessage, ToolCall, TurnAnswered, TurnFails
  <2> QED BY <2>1 DEF Underway, Unborn
<1>2. ASSUME InitMessage(n)
      PROVE  \E record : mission' = [mission EXCEPT ![n] = record]
  <2>1. \E statuses : mission' = [mission EXCEPT ![n].statuses = statuses]
    BY <1>2 DEF InitMessage
  <2> QED BY <2>1
<1>3. ASSUME ToolCall(n)
      PROVE  \E record : mission' = [mission EXCEPT ![n] = record]
  <2>1. \E refused : mission' = [mission EXCEPT ![n].refused = @ \/ refused]
    BY <1>3 DEF ToolCall
  <2> QED BY <2>1
<1>4. ASSUME TurnAnswered(n) \/ TurnFails(n)
      PROVE  \E record : mission' = [mission EXCEPT ![n] = record]
  <2>1. Fails(n) \/ \E s : Settled(n, s)
    BY <1>4 DEF TurnAnswered, TurnFails
  <2> QED BY <2>1, SettledWrites DEF Fails
<1> QED BY <1>1, <1>2, <1>3, <1>4

LEMMA Beginnings ==
  ASSUME IInv, NEW m \in Missions, [Next]_vars, Begins(m)
  PROVE  \/ \E session, image : \E message \in Messages : Run(m, session, message, image)
         \/ \E session, category, image : Continue(m, session, category, image)
<1>1. mission'[m].phase = "turn" /\ mission[m] = Unborn /\ mission'[m] # Unborn
  BY DEF Begins, Unborn
<1>2. ASSUME mission' = mission
      PROVE  FALSE
  BY <1>1, <1>2
<1>3. ASSUME Restart
      PROVE  FALSE
  <2>1. mission'[m] = Unborn
    BY <1>1, <1>3 DEF Restart
  <2> QED BY <1>1, <2>1
<1>4. ASSUME NEW n \in Missions, NEW record, mission' = [mission EXCEPT ![n] = record], n # m
      PROVE  FALSE
  BY <1>1, <1>4
<1>5. ASSUME NEW n \in Missions,
             InitMessage(n) \/ ToolCall(n) \/ TurnAnswered(n) \/ TurnFails(n)
      PROVE  FALSE
  BY <1>1, <1>4, <1>5, TurnsWriteTheirOwn
<1>6. ASSUME NEW n \in Missions, NEW session, NEW message, NEW image,
             Run(n, session, message, image)
      PROVE  n = m
  <2>1. \E s : Settled(n, s)
    BY <1>6 DEF Run
  <2> QED BY <1>4, <2>1, SettledWrites
<1>7. ASSUME NEW n \in Missions, NEW session, NEW category, NEW image,
             Continue(n, session, category, image)
      PROVE  n = m
  <2>1. \E s : Settled(n, s)
    BY <1>7 DEF Continue
  <2> QED BY <1>4, <2>1, SettledWrites
<1>8. UNCHANGED vars \/ Settings => mission' = mission
  BY DEF vars, Settings
<1>9. ~UNCHANGED vars /\ ~Settings /\ ~Restart /\ ~UNCHANGED mission
      /\ \A n \in Missions :
           ~InitMessage(n) /\ ~ToolCall(n) /\ ~TurnAnswered(n) /\ ~TurnFails(n)
  BY <1>2, <1>3, <1>5, <1>8
<1>10. \E n \in Missions :
         \E session \in Sessions, image \in BOOLEAN :
            \/ \E message \in Messages : Run(n, session, message, image)
            \/ \E category \in Categories : Continue(n, session, category, image)
  BY <1>9 DEF Next
<1>11. PICK n \in Missions, session \in Sessions, image \in BOOLEAN :
          \/ \E message \in Messages : Run(n, session, message, image)
          \/ \E category \in Categories : Continue(n, session, category, image)
  BY <1>10
<1>12. n = m
  BY <1>6, <1>7, <1>11
<1>13. \/ \E message \in Messages : Run(m, session, message, image)
       \/ \E category \in Categories : Continue(m, session, category, image)
  BY <1>11, <1>12
<1> QED BY <1>13

\* What a mission that begins is told and offered, and whose it goes on with.
LEMMA BegunWith ==
  ASSUME IInv, NEW m \in Missions, Begins(m), NEW r, Going(turns, thread, m, r),
         Settled(m, Prepared(r))
  PROVE  LET s == mission'[m]
         IN  /\ Resumed(s) = Resumed(r) /\ s.runtime = r.runtime
             /\ Len(r.intents) = 1 => /\ s.offered = Offered(r.intents[1], Widened(r))
                                      /\ s.note = Unverified(r, s.offered)
<1> DEFINE s == Prepared(r)
<1>1. s.phase = "turn" =>
        /\ Ready(s) /\ s.from = r.from /\ s.runtime = r.runtime /\ s.intents = r.intents
        /\ s.steps = << >> => /\ s.offered = Offered(r.intents[1], Widened(r))
                             /\ s.note = Unverified(r, s.offered)
  BY PreparedKeeps
<1>2. Going(turns, thread, m, s)
  BY PreparedKeeps
<1> HIDE DEF s
<1>3. mission'[m] = s /\ s.phase = "turn"
  <2>1. PICK record : /\ mission' = [mission EXCEPT ![m] = record]
                      /\ record.phase = "turn" => record = s /\ s.phase = "turn"
    BY SettledWrites DEF s
  <2>2. mission'[m] = record
    BY <2>1 DEF IInv
  <2> QED BY <2>1, <2>2 DEF Begins
<1>4. Resumed(s) = Resumed(r)
  BY <1>1, <1>3 DEF Resumed
<1>5. ASSUME Len(r.intents) = 1
      PROVE  s.steps = << >>
  <2>1. s.steps \in Seq(Range(s.steps)) /\ Len(s.steps) < 1
    BY <1>1, <1>2, <1>3, <1>5 DEF Ready, Going
  <2>2. \A S : \A seq \in Seq(S) : Len(seq) < 1 => seq = << >>
    OBVIOUS
  <2> QED BY <2>1, <2>2
<1> QED BY <1>1, <1>3, <1>4, <1>5

\* A remembered turn that a thread's context goes on with is covered by its evidence.
LEMMA RememberedIsCovered ==
  ASSUME IInv, NEW t \in DOMAIN thread, NEW r, r.from = thread[t],
         NEW turn \in Resumed(r), r.runtime = "api" \/ turns[turn].saved
  PROVE  /\ turns[turn].attempted \subseteq thread[t].attempted
         /\ turns[turn].failed \subseteq thread[t].failed
         /\ turns[turn].offered \subseteq Reach(t[2], thread[t].image)
<1>1. ContextIsTrue(turns, r.from, t)
  BY DEF IInv
<1>2. turn \in DOMAIN turns /\ turns[turn].saved /\ turns[turn].thread = t
  <2>1. CASE r.runtime = "api"
    BY <1>1, <2>1 DEF Resumed, ContextIsTrue
  <2>2. CASE r.runtime # "api"
    <3>1. /\ turn \in DOMAIN turns /\ turns[turn].saved
          /\ r.from.resume # Nil /\ turns[turn].session = r.from.resume
      BY <2>2 DEF Resumed, InSession
    <3>2. TurnIsTrue(mission, thread, turn, turns[turn])
      BY <3>1 DEF IInv
    <3> QED BY <1>1, <3>1, <3>2 DEF TurnIsTrue, ContextIsTrue
  <2> QED BY <2>1, <2>2
<1>3. TurnIsTrue(mission, thread, turn, turns[turn])
  BY <1>2 DEF IInv
<1> QED BY <1>2, <1>3 DEF TurnIsTrue, Covered

LEMMA BeginsWell ==
  ASSUME IInv, [Next]_vars, NEW m \in Missions, Begins(m),
         NEW turn \in Resumed(mission'[m]), Remembered(m, turn)
  PROVE  ToldTruly(m, turn) /\ Reoffered(m, turn)
<1>1. CASE \E session, image : \E message \in Messages : Run(m, session, message, image)
  <2>0. PICK session, image : \E message \in Messages : Run(m, session, message, image)
    BY <1>1
  <2>1. PICK message \in Messages : Run(m, session, message, image)
    BY <2>0
  <2> DEFINE r == New(session, NoThread, Intents(message), image)
  <2>2. Settled(m, Prepared(r))
    BY <2>1 DEF Run
  <2>3. Going(turns, thread, m, r) /\ r.from = NoThread
    BY IntentsAre, NewIsGoing DEF New
  <2> HIDE DEF r
  <2>4. turn \in Resumed(r)
    BY <2>2, <2>3, BegunWith
  <2> QED BY <2>3, <2>4 DEF Resumed, InSession, NoThread
<1>2. CASE \E session, category, image : Continue(m, session, category, image)
  <2>1. PICK session, category, image : Continue(m, session, category, image)
    BY <1>2
  <2> DEFINE t == <<session, category>>
             r == New(session, Before(t), <<category>>, image)
             s == mission'[m]
             x == turns[turn]
  <2>2. Settled(m, Prepared(r))
    BY <2>1 DEF Continue
  <2>3. Going(turns, thread, m, r)
    BY ContinuedIsGoing
  <2>4. /\ r.from = Before(t) /\ r.intents[1] = category /\ Len(r.intents) = 1
        /\ t[2] = category
    BY DEF New
  <2> HIDE DEF r, t
  <2>5. /\ s.offered = Offered(category, Widened(r)) /\ s.note = Unverified(r, s.offered)
        /\ turn \in Resumed(r) /\ s.runtime = r.runtime
    BY <2>2, <2>3, <2>4, BegunWith
  <2>6. r.from # NoThread
    BY <2>5 DEF Resumed, InSession, NoThread
  <2>7. t \in DOMAIN thread /\ r.from = thread[t]
    BY <2>4, <2>6 DEF Before
  <2>8. /\ x.attempted \subseteq r.from.attempted /\ x.failed \subseteq r.from.failed
        /\ x.offered \subseteq Reach(category, r.from.image)
    BY <2>4, <2>5, <2>7, RememberedIsCovered DEF Remembered
  <2>9. ToldTruly(m, turn)
    BY <2>5, <2>6, <2>8 DEF Unverified, ToldTruly
  <2>10. Reoffered(m, turn)
    <3> SUFFICES ASSUME NEW c \in x.offered, c \in CredentialConnectors => IsConnected(c)
                 PROVE  c \in Offered(category, Widened(r))
      BY <2>5 DEF Reoffered
    <3>1. c \in Reach(category, Widened(r))
      BY <2>8 DEF Reach, Widened
    <3> QED BY <3>1 DEF Reach, Offered, EligibleFor
  <2> QED BY <2>9, <2>10
<1> QED BY <1>1, <1>2, Beginnings

\* A connector that a mission is told it has not called in this conversation was called by
\* no remembered turn of it and failed no handshake of one: whatever missions of the thread
\* overlap it, in whatever order they are saved, and however often the process restarts or
\* the runtime changes in between (agent_mission_run, run_mission,
\* save_conversation_session).
THEOREM MissionsNoteIsTrue == Spec => NoteIsTrue
<1>1. IInv /\ [Next]_vars =>
        [\A m \in Missions : Begins(m) =>
           \A turn \in Resumed(mission'[m]) : Remembered(m, turn) => ToldTruly(m, turn)]_vars
  BY BeginsWell
<1> QED BY <1>1, InitHolds, StepKeeps, PTL DEF Spec, NoteIsTrue

\* A mission begins with every connector that a remembered turn of its conversation was
\* offered, unless that has lost its connection since: an image stays with its thread
\* whoever else saves to it, and no restart narrows the list (run_mission,
\* save_conversation_session).
THEOREM MissionsOfferedStays == Spec => OfferedStays
<1>1. IInv /\ [Next]_vars =>
        [\A m \in Missions : Begins(m) =>
           \A turn \in Resumed(mission'[m]) : Remembered(m, turn) => Reoffered(m, turn)]_vars
  BY BeginsWell
<1> QED BY <1>1, InitHolds, StepKeeps, PTL DEF Spec, OfferedStays
==============================================================================
