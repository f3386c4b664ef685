------------------------------ MODULE Missions ------------------------------
(***************************************************************************)
(* Missions: app.py's agent endpoints, missions.py, orchestrator.py,       *)
(* eligibility.py, normalizer.py, the two runtimes and the conversation    *)
(* threads of conversation_sessions.py.                                    *)
(*                                                                         *)
(* A mission runs one turn per intent.  A turn of the subscription runtime *)
(* gives up the event loop while the model works; the API runtime's client *)
(* is synchronous and holds it.  A conversation is what a runtime gets     *)
(* back of earlier turns.  The API runtime gets the history that was saved *)
(* with the thread.  The subscription runtime resumes a session of the     *)
(* Agent SDK by its id, without forking it: what a turn does is in that    *)
(* session as it happens, whether its mission succeeds or not.             *)
(***************************************************************************)
EXTENDS ConnectorAccounts, Sequences, FiniteSets, SequencesExt, FiniteSetsExt

CONSTANTS
  Missions,     \* mission ids (uuid4)
  Sessions,     \* what a request may have for its session id, Nil for none
  EnvRuntime,   \* AGENT_RUNTIME: "subscription" or "api"
  EnvConfigured,\* the runtimes whose credential is in the environment
  Keywords,     \* a sequence of [category, words]
  General,      \* the category of a clause without any keyword
  Messages,     \* sequences of clauses: [words, modifies], modifies: opens like "for ..."
  Widening,     \* per category: those an image adds
  Capabilities, \* per connector: its categories
  ReadTools,    \* per connector: its R0 tools, tools_within_ceiling
  ResultTool,   \* per connector: the tool whose result has offers in it (or issues)
  Informational,\* the [connector, tool] whose success means nothing to show
  ServersOf,    \* per connector: one server, or one per shop
  CutReadable,  \* connectors whose shortened results count as nothing to show
  Stranger,     \* a server no turn was given
  AtOnce,       \* bound on missions at a time
  MaxCalls,     \* bound on tool calls and events, of all missions together
  MaxEvents     \* bound on events: of accounts and settings, restarts, failed handshakes

\* A message is a sequence of clauses.
ASSUME MissionsAssumption ==
  Messages \subseteq Seq([words : SUBSET STRING, modifies : BOOLEAN])

VARIABLES
  mission,      \* per id: Unborn, a mission and its steps, or Over
  turns,        \* what each turn <<mission, step>> did, and the SDK session it is in
  thread,       \* ConversationSessionRecord per session and category that has one
  settings,     \* RUNTIME_SETTINGS: the runtime chosen and whether a key was given
  calls,
  events

vars == <<accountVars, mission, turns, thread, settings, calls, events>>

\* So many events more, within the bounds.
Happen(n) ==
  /\ events' = events + n
  /\ events' <= MaxEvents /\ calls + events' <= MaxCalls

Unborn == [phase |-> "unborn"]
Over == [phase |-> "over"]
Underway(m) == mission[m].phase = "turn"
Categories == UNION {Capabilities[c] : c \in Connectors}
Threads == (Sessions \ {Nil}) \X Categories

\* --- decompose_intents ---------------------------------------------------------
Matches(words) == \E k \in DOMAIN Keywords : Keywords[k].words \cap words # {}

CategoryOf(words) ==
  LET matching == {k \in DOMAIN Keywords : Keywords[k].words \cap words # {}}
  IN  IF matching = {} THEN General ELSE Keywords[Min(matching)].category

\* A clause that opens like a modifier and has no keyword belongs to the one before it.
Heads(message) ==
  {i \in DOMAIN message : i = 1 \/ ~message[i].modifies \/ Matches(message[i].words)}

\* The n-th of them.
Opening(message, n) ==
  CHOOSE i \in Heads(message) : Cardinality({j \in Heads(message) : j <= i}) = n

Intents(message) ==
  [n \in 1 .. Cardinality(Heads(message)) |-> CategoryOf(message[Opening(message, n)].words)]

\* --- eligibility -----------------------------------------------------------------
EligibleFor(category) ==
  {c \in Connectors : /\ category \in Capabilities[c]
                      /\ ReadTools[c] # {}
                      /\ c \in CredentialConnectors => IsConnected(c)}

\* An image, now or earlier in the thread, widens what a turn may reach.
Offered(category, image) ==
  EligibleFor(category) \cup
    IF image THEN UNION {EligibleFor(extra) : extra \in Widening[category]} ELSE {}

\* --- the thread --------------------------------------------------------------------
\* The context is the API runtime's history or the SDK session to resume.
NoThread == [history |-> {}, resume |-> Nil, image |-> FALSE, attempted |-> {}, failed |-> {}]

\* Only the newest image counts; only the newest evidence counts.
LastImage(before, now) == now
LastEvidence(before, now) == IF now = {} THEN before ELSE now

EverImage(before, now) == before \/ now
Cumulated(before, now) == before \cup now

Before(t) == IF t \in DOMAIN thread THEN thread[t] ELSE NoThread

\* A step without a context saves nothing.
HasContext(step) == step.history # {} \/ step.resume # Nil

Contexts(r, t) ==
  {i \in DOMAIN r.steps : <<r.session, r.steps[i].category>> = t /\ HasContext(r.steps[i])}

\* save_conversation_session for every step of a mission; of two in one thread the
\* later one's context stays.
Saved(r) ==
  [t \in DOMAIN thread \cup {t \in Threads : Contexts(r, t) # {}} |->
    LET mine == Contexts(r, t)
    IN  IF mine = {} THEN thread[t]
        ELSE [history |-> r.steps[Max(mine)].history, resume |-> r.steps[Max(mine)].resume,
              image |-> EverImage(Before(t).image, r.image),
              attempted |-> Cumulated(Before(t).attempted, UNION {r.steps[i].attempted : i \in mine}),
              failed |-> Cumulated(Before(t).failed, UNION {r.steps[i].failed : i \in mine})]]

\* The last word on every connector.
Reported(steps) ==
  LET on(c) == SelectSeq(steps, LAMBDA step : c \in DOMAIN step.statuses)
  IN  [c \in {d \in Connectors : on(d) # << >>} |-> Last(on(c)).statuses[c]]

\* --- one turn ------------------------------------------------------------------------
Unverified(r, offered) ==
  IF r.from = NoThread THEN {} ELSE offered \ (r.from.attempted \cup r.from.failed)

EmptyStep(category) ==
  [category |-> category, attempted |-> {}, failed |-> {}, statuses |-> << >>,
   history |-> {}, resume |-> Nil]

Widened(r) == r.image \/ r.from.image

\* The mission with the turns up to the next one that has a connector to offer; a
\* token that cannot be asked for ends the mission.
Prepared(r) ==
  LET open == {i \in DOMAIN r.intents :
                 i > Len(r.steps) /\ Offered(r.intents[i], Widened(r)) # {}}
      next == IF open = {} THEN Len(r.intents) + 1 ELSE Min(open)
      steps == r.steps \o [i \in 1 .. next - 1 - Len(r.steps) |->
                             EmptyStep(r.intents[Len(r.steps) + i])]
      offered == Offered(r.intents[next], Widened(r))
  IN  IF open = {} THEN [r EXCEPT !.phase = "done", !.steps = steps]
      ELSE IF \E c \in offered \cap CredentialConnectors : AskingRaises(c)
      THEN [r EXCEPT !.phase = "failed", !.steps = steps]
      ELSE [r EXCEPT !.phase = "turn", !.steps = steps, !.offered = offered,
                     !.note = Unverified(r, offered), !.statuses = << >>, !.refused = FALSE,
                     !.addresses = {c \in offered : account[c] # Nil /\ account[c].address # Nil}]

\* The turn a mission is at, and the thread it is in.
Turn(m, r) == <<m, Len(r.steps) + 1>>
ThreadOf(r) == <<r.session, r.intents[Len(r.steps) + 1]>>

\* An SDK session is known by its first turn and the thread that was in.
SessionOf(m, r) ==
  IF r.from.resume = Nil THEN [thread |-> ThreadOf(r), first |-> Turn(m, r)] ELSE r.from.resume

Begun(m, r) ==
  [turn \in DOMAIN turns \cup {Turn(m, r)} |->
    IF turn = Turn(m, r)
    THEN [thread |-> ThreadOf(r), session |-> Nil, offered |-> r.offered,
          attempted |-> {}, failed |-> {}, saved |-> FALSE]
    ELSE turns[turn]]

InSession(turn, id) == id # Nil /\ turns[turn].session = id

\* What a runtime resumes: nothing of the other runtime's conversation.
Resumed(r) ==
  IF r.runtime = "api" THEN r.from.history
  ELSE {turn \in DOMAIN turns : InSession(turn, r.from.resume)}

\* When some missions are over: the turns that can still be resumed, by a mission under way
\* or from a thread.
Resumable(over, threads) ==
  LET open == {n \in Missions \ over : Underway(n)}
      contexts == {threads[t] : t \in DOMAIN threads} \cup {mission[n].from : n \in open}
  IN  {turn \in DOMAIN turns :
         \/ turn[1] \in open
         \/ \E c \in contexts : turn \in c.history \/ InSession(turn, c.resume)}

\* An error saves nothing of the mission; the session it resumed keeps what it did there.
Fails(m) ==
  /\ mission' = [mission EXCEPT ![m] = Over]
  /\ turns' = Restrict(turns, Resumable({m}, thread))
  /\ UNCHANGED <<thread, account>>

\* With a mission its turns' evidence is saved.
Kept(m, r) ==
  [turn \in Resumable({m}, Saved(r)) |->
    IF turn[1] = m /\ \E t \in Threads : turn[2] \in Contexts(r, t)
    THEN [turns[turn] EXCEPT !.saved = TRUE] ELSE turns[turn]]

\* Only a mission whose every turn went well saves anything.
Settled(m, r) ==
  \/ /\ r.phase = "turn"
     /\ mission' = [mission EXCEPT ![m] = r] /\ turns' = Begun(m, r)
     /\ UNCHANGED <<thread, account>>
  \/ r.phase = "failed" /\ Fails(m)
  \/ /\ r.phase = "done"
     /\ mission' = [mission EXCEPT ![m] = Over] /\ turns' = Kept(m, r)
     /\ thread' = Saved(r)
     /\ RecordMcpStatus(Reported(r.steps))

\* The API runtime's turn holds the event loop.
LoopIsFree(m) == \A n \in Missions \ {m} : ~(Underway(n) /\ mission[n].runtime = "api")

\* _active_agent_runtime.
Runtime == IF settings.choice # Nil THEN settings.choice ELSE EnvRuntime

Configured == Runtime \in EnvConfigured \/ (Runtime = "api" /\ settings.byok)

MayRun(m) ==
  /\ mission[m] = Unborn /\ Configured /\ LoopIsFree(m)
  /\ Cardinality({n \in Missions : Underway(n)}) < AtOnce

New(session, from, intents, image) ==
  [phase |-> "turn", session |-> session, from |-> from, intents |-> intents, image |-> image,
   runtime |-> Runtime, steps |-> << >>, offered |-> {}, note |-> {}, addresses |-> {},
   statuses |-> << >>, refused |-> FALSE]

\* agent_mission_run without continue_category: every clause a turn of its own.
Run(m, session, message, image) ==
  /\ MayRun(m)
  /\ \E r \in {Prepared(New(session, NoThread, Intents(message), image))} : Settled(m, r)
  /\ UNCHANGED <<pending, exchanging, tokens, key, settings, calls, events>>

\* With continue_category: the whole message is one intent, in the thread's conversation.
\* agent_run is this without a session.
Continue(m, session, category, image) ==
  /\ MayRun(m)
  /\ \E r \in {Prepared(New(session, Before(<<session, category>>), <<category>>, image))} :
       Settled(m, r)
  /\ UNCHANGED <<pending, exchanging, tokens, key, settings, calls, events>>

\* --- what the runtime reports ----------------------------------------------------------
Given(r) == {given \in r.offered \X UNION {ServersOf[c] : c \in Connectors} :
               given[2] \in ServersOf[given[1]]}

\* A call: [server, tool, result]; "cut" is a result the SDK shortened.
Call(r) == [server : {g[2] : g \in Given(r)} \cup {Stranger},
            tool : UNION {ReadTools[c] : c \in Connectors},
            result : {"good", "cut", "error"}]

ConnectorOf(r, call) == CHOOSE c \in r.offered : call.server \in ServersOf[c]

Vetoed(r, call) ==
  \/ call.server = Stranger
  \/ call.tool \notin ReadTools[ConnectorOf(r, call)]

\* normalize raises ConnectorPayloadError.
Unreadable(r, call) ==
  LET c == ConnectorOf(r, call)
  IN  \/ call.result = "error"
      \/ /\ [connector |-> c, tool |-> call.tool] \notin Informational
         /\ \/ call.tool # ResultTool[c]
            \/ call.result = "cut" /\ c \notin CutReadable

\* What comes of a call: one that is vetoed reaches no connector, one whose result cannot
\* be read does.
Outcomes(r) ==
  {[reached |-> IF Vetoed(r, call) THEN {} ELSE {ConnectorOf(r, call)},
    refused |-> Vetoed(r, call) \/ Unreadable(r, call)] : call \in Call(r)}

\* What the init message says of the servers of a turn: a connector's status is that of
\* the server reported last, and one failed server makes it a failed connector.
Handshakes(r) ==
  LET servers == {g[2] : g \in Given(r)}
  IN  {[statuses |-> [c \in r.offered |-> IF last[c] \in down THEN "failed" ELSE "connected"],
        failed |-> {c \in r.offered : ServersOf[c] \cap down # {}}] :
         down \in SUBSET servers,
         last \in {f \in [r.offered -> servers] : \A c \in r.offered : f[c] \in ServersOf[c]}}

\* The SDK's first message: from here on the turn is in its session.
InitMessage(m) ==
  LET r == mission[m]
  IN  /\ Underway(m) /\ LoopIsFree(m)
      /\ r.runtime = "subscription" /\ turns[Turn(m, r)].session = Nil
      /\ \E reported \in Handshakes(r) :
           /\ mission' = [mission EXCEPT ![m].statuses = reported.statuses]
           /\ turns' = [turns EXCEPT ![Turn(m, r)].session = SessionOf(m, r),
                                    ![Turn(m, r)].failed = reported.failed]
           /\ Happen(Cardinality(reported.failed))
      /\ UNCHANGED <<accountVars, thread, settings, calls>>

\* The model calls a tool.
ToolCall(m) ==
  LET r == mission[m]
  IN  /\ Underway(m) /\ LoopIsFree(m)
      /\ calls + events < MaxCalls /\ calls' = calls + 1
      /\ r.runtime = "subscription" => turns[Turn(m, r)].session # Nil
      /\ \E outcome \in Outcomes(r) :
           /\ mission' = [mission EXCEPT ![m].refused = @ \/ outcome.refused]
           /\ turns' = [turns EXCEPT ![Turn(m, r)].attempted = @ \cup outcome.reached]
      /\ UNCHANGED <<accountVars, thread, settings, events>>

\* AgentTurnResult, as a step of the mission: without an init message a subscription turn
\* has no conversation to resume.
Took(m, r) ==
  LET turn == Turn(m, r)
  IN  [category |-> r.intents[turn[2]], attempted |-> turns[turn].attempted,
       failed |-> turns[turn].failed, statuses |-> r.statuses,
       history |-> IF r.runtime = "api" THEN r.from.history \cup {turn} ELSE {},
       resume |-> turns[turn].session]

\* The model's turn comes back; a call that was refused ends the mission.
TurnAnswered(m) ==
  LET r == mission[m]
  IN  /\ Underway(m) /\ LoopIsFree(m)
      /\ \/ r.refused /\ Fails(m)
         \/ /\ ~r.refused
            /\ \E s \in {Prepared([r EXCEPT !.steps = Append(@, Took(m, r))])} : Settled(m, s)
      /\ UNCHANGED <<pending, exchanging, tokens, key, settings, calls, events>>

\* A rejected subscription, or any other error of the runtime.
TurnFails(m) ==
  /\ Underway(m) /\ LoopIsFree(m)
  /\ Fails(m)
  /\ UNCHANGED <<pending, exchanging, tokens, key, settings, calls, events>>

\* set_agent_runtime_mode, set_byok_api_key, forget_byok_api_key.
Settings ==
  /\ Happen(1)
  /\ \/ \E mode \in {"api", "subscription"} : settings' = [settings EXCEPT !.choice = mode]
     \/ settings' = [settings EXCEPT !.byok = TRUE]
     \/ settings' = [settings EXCEPT !.byok = FALSE]
  /\ UNCHANGED <<accountVars, mission, turns, thread, calls>>

\* Missions and settings are in memory; threads, accounts and SDK sessions are not.
Restart ==
  /\ Happen(1)
  /\ RestartAccounts
  /\ mission' = [m \in Missions |->
       IF mission[m] = Unborn THEN Unborn ELSE Over]
  /\ settings' = [choice |-> Nil, byok |-> FALSE]
  /\ turns' = Restrict(turns, Resumable(Missions, thread))
  /\ UNCHANGED <<thread, calls>>

Init ==
  /\ AccountsInit
  /\ mission = [m \in Missions |-> Unborn]
  /\ turns = << >>
  /\ thread = << >>
  /\ settings = [choice |-> Nil, byok |-> FALSE]
  /\ calls = 0 /\ events = 0

Next ==
  \/ \E m \in Missions :
       \/ \E session \in Sessions, image \in BOOLEAN :
            \/ \E message \in Messages : Run(m, session, message, image)
            \/ \E category \in Categories : Continue(m, session, category, image)
       \/ InitMessage(m) \/ ToolCall(m) \/ TurnAnswered(m) \/ TurnFails(m)
  \/ /\ \/ AccountsEvent /\ Happen(1)
        \/ AttemptsGoOn /\ UNCHANGED events
     /\ UNCHANGED <<mission, turns, thread, settings, calls>>
  \/ Settings \/ Restart

Spec == Init /\ [][Next]_vars

-----------------------------------------------------------------------------
\* A mission that goes on in a thread states its note and its tools when it begins.
Begins(m) == mission[m] = Unborn /\ mission'[m].phase = "turn"

ToldTruly(m, turn) ==
  mission'[m].note \cap (turns[turn].attempted \cup turns[turn].failed) = {}

Reoffered(m, turn) ==
  {c \in turns[turn].offered : c \in CredentialConnectors => IsConnected(c)}
    \subseteq mission'[m].offered

\* Everything the API runtime resumes was saved.  Of an SDK session that is so for the
\* turns whose mission ended well before this one began, not for those of missions that
\* failed, were killed, or are still under way.
Remembered(m, turn) == mission'[m].runtime = "api" \/ turns[turn].saved

\* What the model is told it "[has] not called ... anywhere in this conversation yet"
\* (orchestrator.py) was called in no remembered turn of the conversation it resumes, and
\* no handshake of it failed there: however missions of one thread overlap and in
\* whatever order they are saved, across restarts and changes of the runtime.
NoteIsTrue ==
  [][\A m \in Missions : Begins(m) =>
       \A turn \in Resumed(mission'[m]) : Remembered(m, turn) => ToldTruly(m, turn)]_vars

\* A mission begins with everything that a remembered turn of its conversation could reach
\* and that is still connected: the tool list never shrinks by itself ("silently narrows
\* back down on every continuation reply", orchestrator.py).
OfferedStays ==
  [][\A m \in Missions : Begins(m) =>
       \A turn \in Resumed(mission'[m]) : Remembered(m, turn) => Reoffered(m, turn)]_vars

\* conversation_sessions.py says the same of every turn: what is kept are the connectors
\* "REALLY attempted (a real tool call ...) anywhere in this thread so far".  The note then
\* says nothing false of any turn of the session that is resumed.
AttemptedAnywhere ==
  [][\A m \in Missions : Begins(m) =>
       \A turn \in Resumed(mission'[m]) : ToldTruly(m, turn)]_vars

\* "an image earlier in the SAME conversation is what matters, not only the most recent
\* turn" (conversation_sessions.py): whatever turn of the session that is resumed could reach
\* more because of its image, the next one can too.
ImageStays ==
  [][\A m \in Missions : Begins(m) =>
       \A turn \in Resumed(mission'[m]) : Reoffered(m, turn)]_vars
=============================================================================
