----------------------------- MODULE MCShrinker ------------------------------
(***************************************************************************)
(* Machines for the shrinker: three models, the last of which is the bad   *)
(* one, and three messages.  A machine offers a message only in some       *)
(* models, moves on its messages in any way that leaves the bad model      *)
(* alone, and shrinks its messages one way or in circles.                  *)
(***************************************************************************)
EXTENDS Shrinker

ShrinkModels == 0 .. 2
ShrinkMessages == {"big", "mid", "small"}

Shrinks == {
    [big |-> <<"mid", "small">>, mid |-> <<"small">>, small |-> <<>>],
    [big |-> <<"mid", "mid", "big">>, mid |-> <<"big">>, small |-> <<"mid">>]}

\* The messages offered in models 0 and 1.
Offers == {
    <<<<"big", "mid", "small">>, <<"small", "big", "mid">>>>,
    <<<<"small", "big">>, <<"mid", "small">>>>}

ShrinkMoves == {f \in [{0, 1} \X ShrinkMessages -> ShrinkModels] :
            /\ f[<<0, "big">>] = 1 /\ f[<<0, "mid">>] = 1 /\ f[<<0, "small">>] \in {0, 1}
            /\ f[<<1, "big">>] = 2 /\ f[<<1, "mid">>] \in {1, 2} /\ f[<<1, "small">>] \in {0, 2}}

\* Two messages may share one id by mistake, also two of which one is the smaller
\* one of a smaller one of the other.
Ids == {[big |-> "b", mid |-> "m", small |-> "s"], [big |-> "b", mid |-> "m", small |-> "m"],
        [big |-> "b", mid |-> "m", small |-> "b"]}

ShrinkMachines ==
    {[initial |-> 0,
      update  |-> [xa \in ShrinkModels \X ShrinkMessages |-> IF xa[1] = 2 THEN 2 ELSE f[xa]],
      actions |-> (0 :> o[1]) @@ (1 :> o[2]) @@ (2 :> <<"small">>),
      shrink  |-> s, id |-> i, label |-> i,
      fingerprint |-> [x \in ShrinkModels |-> x], view |-> [x \in ShrinkModels |-> x],
      badStates |-> [first |-> {2}, second |-> {}],
      badSteps  |-> [first |-> {}, second |-> {<<1, "mid">>, <<0, "mid">>}]] :
        f \in ShrinkMoves, s \in Shrinks, i \in Ids, o \in Offers}
=============================================================================
