----------------------------- MODULE MCVerdicts -----------------------------
(* What OrderGuard tells an assistant about a cart, and a buyer about offers: *)
(* McpServer and Search share no state, so one behaviour runs one of them.    *)
EXTENDS McpServer, Search, TLC

CONSTANTS own, hunch, added, elsewhere, blinkit, zepto, v1, v2

\* --- the MCP server -------------------------------------------------------
MCRequests ==
  [items : {<< >>, <<1>>, <<2>>, <<2, 1>>}, merchant : {Nil}, cap : {0, 2}, currency : {"INR"}]

MCCart(m, lines, total, c, a) ==
  [merchant |-> m, lines |-> lines, total |-> total, currency |-> c, available |-> a]
MCLines(v, q, t) == [variant |-> v, quantity |-> q, total |-> t]

MCCarts ==
  {MCCart(blinkit, lines, total, Nil, TRUE) :
     total \in {2, 3},
     lines \in {<<MCLines(v1, q, 2)>> : q \in 0 .. 2} \cup {<< >>,
       <<MCLines(v1, 2, 2), MCLines(v2, 1, 0)>>, <<MCLines(v2, 2, 1), MCLines(v1, 2, 1)>>,
       <<MCLines(v1, 2, 1), MCLines(v1, 1, 1)>>, <<MCLines(v2, 0, 1), MCLines(v1, 1, 1)>>}}
  \cup {MCCart(m, <<MCLines(v1, 1, 2)>>, 2, c, a) :
          m \in {Nil, blinkit, elsewhere}, c \in {Nil, "USD"}, a \in BOOLEAN}

MCConnectors == {blinkit, zepto}
MCKindOf == blinkit :> "grocery" @@ zepto :> "grocery"
MCEvidenceRank == blinkit :> 1 @@ zepto :> 0

\* --- one search -----------------------------------------------------------
MCShops == {own, hunch, added}
MCOffer(v, words, price, available) ==
  [variant |-> v, words |-> words, price |-> price, available |-> available]
MCCatalogue ==
  own :> {<< >>, <<MCOffer(v1, {"estate"}, 2, TRUE), MCOffer(v2, {"coffee"}, 1, FALSE)>>,
          <<MCOffer(v1, {"coffee"}, 3, TRUE), MCOffer(v2, {"estate"}, 2, TRUE)>>}
  @@ hunch :> {<<MCOffer(v1, {"running", "shoes"}, 1, TRUE), MCOffer(v2, {"shoes"}, 0, TRUE)>>,
               <<MCOffer(v1, {"shoes"}, 1, TRUE)>>}
  @@ added :> {<<MCOffer(v1, {"running"}, 2, TRUE)>>,
               <<MCOffer(v1, {"coffee", "shoes"}, 1, TRUE), MCOffer(v2, {"coffee"}, 2, TRUE)>>}

MCSells == own :> {"coffee"} @@ hunch :> {"tea"} @@ added :> {}
MCListOrder == own :> 1 @@ hunch :> 2 @@ added :> 3
MCNameOrder == own :> 3 @@ hunch :> 2 @@ added :> 1
MCQueries == {{}, {"coffee"}, {"running", "shoes"}}

-----------------------------------------------------------------------------
MCInit == Init /\ SearchInit

MCNext ==
  \/ Next /\ UNCHANGED searchVars /\ \A s \in Shops : results[s] = None
  \/ SearchNext /\ UNCHANGED vars /\ audit = << >> /\ answer = Nil

MCSpec == MCInit /\ [][MCNext]_<<vars, searchVars>>
=============================================================================
