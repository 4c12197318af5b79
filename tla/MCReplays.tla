------------------------------- MODULE MCReplays -------------------------------
(***************************************************************************)
(* Small applications for OpaqueReplay, CrossModeReplay and                *)
(* ContextScheduler.                                                       *)
(***************************************************************************)
EXTENDS OpaqueReplay, CrossModeReplay, ContextScheduler, TLC

Screens == {"home", "list", "end"}
Presses == {"a", "b"}
MCEnvironments == {"clean", "used"}

\* A page: the screens each action leads to in each environment, and the environment
\* it leaves.
Page(lead, leave, none) ==
    [first |-> "home", bare |-> none,
     offers |-> [x \in Screens |-> {a \in Presses : <<x, a>> \in DOMAIN lead["clean"]}],
     step |-> [k \in {m \in Screens \X MCEnvironments \X Presses : <<m[1], m[3]>> \in DOMAIN lead["clean"]} |->
                 <<lead[k[2]][<<k[1], k[3]>>], leave[<<k[2], k[3]>>]>>]]

Keep == [k \in MCEnvironments \X Presses |-> k[1]]
Spend == [k \in MCEnvironments \X Presses |-> IF k[2] = "b" THEN "used" ELSE k[1]]

Chain == (<<"home", "a">> :> "list") @@ (<<"home", "b">> :> "home")
         @@ (<<"list", "a">> :> "end") @@ (<<"list", "b">> :> "list")
Jump == (<<"home", "a">> :> "end") @@ (<<"home", "b">> :> "list")
        @@ (<<"list", "a">> :> "end") @@ (<<"list", "b">> :> "home")
Both(lead) == [e \in MCEnvironments |-> lead]

\* Pages that keep nothing; one whose second button changes what it keeps and shows
\* nothing of it, one that then behaves differently.
MCPages == {Page(Both(Chain), Keep, {"end"}), Page(Both(Jump), Keep, {}),
            Page(Both(Chain), Spend, {"end"}),
            Page(("clean" :> Chain) @@ ("used" :> Jump), Spend, {"end"})}
MCTraces == UNION {[1 .. n -> Presses] : n \in 1 .. 3}

-----------------------------------------------------------------------------
Id(what, within, spelling) == [what |-> what, within |-> within, spelling |-> spelling]
Save == Id("save", <<>>, 1)
SaveInForm == Id("save", <<"form">>, 1)
SaveInFormAgain == Id("save", <<"form">>, 2)
SaveInBar == Id("save", <<"bar">>, 1)
Search == Id("search", <<>>, 1)
Broken == Id("malformed", <<>>, 1)

Inventories == {<<>>, <<Save, Search>>, <<SaveInForm, SaveInBar, Search>>, <<Save, SaveInForm>>,
                <<SaveInFormAgain, Save, Search>>, <<Save, Save>>, <<Broken, SaveInBar>>}

\* Sites of three states; every action moves on, a search or a save in the last shows
\* the property.
Site(first, second, opened) ==
    LET offered == ("x" :> first) @@ ("y" :> second) @@ ("z" :> first)
    IN [offers |-> offered, opens |-> opened,
        goes |-> [k \in {m \in {"x", "y", "z"} \X {Save, SaveInForm, SaveInFormAgain, SaveInBar, Search, Broken} :
                           m[2] \in ToSet(offered[m[1]])} |-> IF k[1] = "y" THEN "x" ELSE "y"],
        fails |-> {<<"y", Search>>, <<"y", Save>>, <<"y", SaveInForm>>, <<"x", Search>>}]

MCSites == {Site(first, second, opened) : first \in Inventories, second \in Inventories,
                                          opened \in {{"x"}, {"x", "y"}, {"x", "z"}}}
MCSourceTraces == {<<Search>>, <<Save>>, <<SaveInForm, Save>>, <<SaveInForm, Search>>, <<Broken>>}

-----------------------------------------------------------------------------
\* Two contexts: that each read and then write what they read and one more; that each
\* open and close for ever; that reach one place by a short way or a longer one.
MCScenarios == {"increment", "toggle", "detour"}
MCContexts == <<"a", "b">>
MCBounds == [maxDepth : {1, 3, 4}, maxTransitions : {3, 5, 200}, maxStates : {3, 80}]

MCStatesOf(s) ==
    IF s = "increment"
    THEN [shared : 0 .. 2, a : {"new", "saw0", "saw1", "wrote"}, b : {"new", "saw0", "saw1", "wrote"}]
    ELSE [shared : {0}, a : 0 .. 4, b : 0 .. 4]

MCInitialState(s) ==
    IF s = "increment" THEN [shared |-> 0, a |-> "new", b |-> "new"] ELSE [shared |-> 0, a |-> 0, b |-> 0]

MCOperations(s, x, c) ==
    CASE s = "increment" -> IF x[c] = "new" THEN <<"read">> ELSE IF x[c] = "wrote" THEN <<>> ELSE <<"write">>
      [] s = "toggle" -> IF x[c] = 0 THEN <<"open">> ELSE <<"close">>
      [] OTHER -> IF x[c] = 0 THEN <<"left", "right">> ELSE IF x[c] = 4 THEN <<>> ELSE <<"left">>

MCTransitioned(s, x, c, op) ==
    CASE op = "read" -> [x EXCEPT ![c] = IF x.shared = 0 THEN "saw0" ELSE "saw1"]
      [] op = "write" -> [x EXCEPT ![c] = "wrote", !.shared = IF x[c] = "saw0" THEN 1 ELSE 2]
      [] op = "open" -> [x EXCEPT ![c] = 1]
      [] op = "close" -> [x EXCEPT ![c] = 0]
      [] op = "left" -> [x EXCEPT ![c] = <<2, 3, 4, 4>>[x[c] + 1]]
      [] op = "right" -> [x EXCEPT ![c] = 1]

MCViolating(s, x) ==
    CASE s = "increment" -> x.a = "wrote" /\ x.b = "wrote" /\ x.shared # 2
      [] s = "toggle" -> x.a = 1 /\ x.b = 1
      [] OTHER -> x.a = 4 /\ x.b = 4
===============================================================================
