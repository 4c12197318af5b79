---------------------------- MODULE MCCoreRunner -----------------------------
(***************************************************************************)
(* Clients for the runner: four models and three messages.                 *)
(***************************************************************************)
EXTENDS CoreRunner, MCShrinker

Models == 0 .. 3
Messages == {"a", "b", "c"}

MCProperties == <<"first", "second">>

Distinct == [a |-> "a", b |-> "b", c |-> "c"]
Shared == [a |-> "a", b |-> "a", c |-> "c"]

Moves == {f \in [{0, 1} \X Messages -> {1, 2, 3}] :
            /\ f[<<0, "c">>] = 1 /\ f[<<1, "c">>] = 2
            /\ f[<<0, "a">>] # 3 /\ f[<<1, "b">>] # 1 /\ f[<<1, "a">>] # 2}

Offered == {
    (0 :> <<"a", "b">>) @@ (1 :> <<"a", "b">>) @@ (2 :> <<"c">>) @@ (3 :> <<>>),
    (0 :> <<"c", "a">>) @@ (1 :> <<"b", "a", "c">>) @@ (2 :> <<"a">>) @@ (3 :> <<"b">>)}

\* A machine of the tables given; the models 2 and 3 do not move.
Client(moves, offered, ids, prints, badStates, badSteps) ==
    [initial |-> 0,
     update  |-> [xa \in Models \X Messages |-> IF xa[1] >= 2 THEN xa[1] ELSE moves[xa]],
     actions |-> offered,
     shrink  |-> [a |-> <<"c">>, b |-> <<"a", "c">>, c |-> <<>>],
     id |-> ids, label |-> ids,
     fingerprint |-> prints, view |-> [x \in Models |-> x],
     badStates |-> badStates, badSteps |-> badSteps]

Plain == [x \in Models |-> x]
\* A fingerprint that does not tell two models apart.
Blurred == [x \in Models |-> IF x = 3 THEN 2 ELSE x]

NoSteps == [first |-> {}, second |-> {}]

\* Clients whose properties look at states only, some of which name messages or
\* models ambiguously.
StateClients ==
    {Client(f, o, i, p, s, NoSteps) :
        f \in Moves, o \in Offered, i \in {Distinct, Shared}, p \in {Plain, Blurred},
        s \in {[first |-> {3}, second |-> {2}], [first |-> {}, second |-> {3}]}}

\* Clients with a property of transitions.
StepClients ==
    {Client(f, o, Distinct, Plain, [first |-> {}, second |-> {3}],
            [first |-> {<<0, "a">>, <<0, "b">>, <<1, "a">>}, second |-> {}]) :
        f \in Moves, o \in Offered}

\* Clients with a short way to a failing step and a long one that no deletion and
\* no smaller message makes shorter.
TwoWayClients ==
    {[Client([xa \in {0, 1} \X Messages |-> IF xa[2] = "c" THEN 2 ELSE 1],
             (0 :> o) @@ (1 :> <<"c", "b">>) @@ (2 :> <<>>) @@ (3 :> <<>>),
             Distinct, Plain, NoSteps, [first |-> {<<0, "a">>, <<1, "c">>}, second |-> {}])
        EXCEPT !.shrink = [x \in Messages |-> <<>>]] :
            o \in {<<"a", "b">>, <<"b", "a">>}}

Clients == TwoWayClients \cup (StateClients \cup StepClients)
AllMachines == Clients \cup ShrinkMachines

\* A case hands the shrinker any trace that fails, also one its walk does not find.
HandedOver ==
    /\ ShrinkInit /\ machine \in ShrinkMachines
    /\ states = <<>> /\ transitions = <<>> /\ steps = 0
    /\ failures = <<>> /\ diagnostics = {} /\ observed = {}
    /\ case = Cases /\ depth = 0 /\ model = machine.initial /\ trace = <<>> /\ at = "shrink"

CoreInit == (RunInit /\ machine \in Clients) \/ HandedOver
CoreSpec == CoreInit /\ [][RunNext]_runVars
=============================================================================
