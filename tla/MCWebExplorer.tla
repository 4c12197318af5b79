---------------------------- MODULE MCWebExplorer -----------------------------
(***************************************************************************)
(* Small applications for WebExplorer: runtimes and environments of two    *)
(* values, two actions, each one of a few effects.                         *)
(***************************************************************************)
EXTENDS WebExplorer

Bit == {0, 1}
Flip(b) == 1 - b

\* What an action does to <<runtime, environment>>.
Effect == [
    flip |-> [l \in Bit \X Bit |-> {<<Flip(l[1]), l[2]>>}],
    save |-> [l \in Bit \X Bit |-> {<<l[1], 1>>}],
    load |-> [l \in Bit \X Bit |-> {<<l[2], l[2]>>}],
    coin |-> [l \in Bit \X Bit |-> {<<0, l[2]>>, <<1, l[2]>>}]]

\* What a reset does: a fresh runtime, one that resumes from the environment, one
\* that writes to the environment.
Boot == [
    fresh  |-> [l \in Bit \X Bit |-> <<0, l[2]>>],
    resume |-> [l \in Bit \X Bit |-> <<l[2], l[2]>>],
    writes |-> [l \in Bit \X Bit |-> <<0, Flip(l[2])>>]]

\* `hides`: the other runtime does not offer x.  With both bits set, y violates.
Persisting(x, y, boot, hides) ==
    [start |-> <<0, 0>>, steady |-> y # "coin" /\ boot # "writes", checkpoints |-> TRUE,
     boot |-> Boot[boot],
     offers |-> [l \in Bit \X Bit |-> IF hides /\ l[1] = 1 THEN {"y"} ELSE {"x", "y"}],
     step |-> [i \in (Bit \X Bit) \X {"x", "y"} |-> Effect[IF i[2] = "x" THEN x ELSE y][i[1]]],
     bad |-> {<< <<1, 1>>, "y">>},
     late |-> [l \in Bit \X Bit |-> {}],
     seen |-> [r \in Bit |-> r]]

\* Applications for a driver with checkpoints.
Persistent ==
    {Persisting(x, y, boot, hides) :
        x \in {"flip", "save", "load"}, y \in {"flip", "save", "load", "coin"},
        boot \in {"fresh", "resume", "writes"}, hides \in BOOLEAN}

\* Applications without an environment, for a stateless driver: x counts in a
\* circle and y jumps; a late change adds to the count; `looks` is how many
\* runtimes the fingerprint tells apart.
Runtimes == 0 .. 3
Counting(jumps, late, looks) ==
    [start |-> <<0, 0>>, steady |-> Cardinality(jumps) = 1, checkpoints |-> FALSE,
     boot |-> [l \in Runtimes \X {0} |-> <<0, 0>>],
     offers |-> [l \in Runtimes \X {0} |-> IF l[1] = 3 THEN {"x"} ELSE {"x", "y"}],
     step |-> [i \in (Runtimes \X {0}) \X {"x", "y"} |->
                 IF i[2] = "x" THEN {<<(i[1][1] + 1) % 4, 0>>} ELSE jumps \X {0}],
     bad |-> {<< <<2, 0>>, "y">>},
     late |-> [l \in Runtimes \X {0} |-> {<<(l[1] + n) % 4, 0>> : n \in late}],
     seen |-> [r \in Runtimes |-> r % looks]]

\* A late change is seen.
Stateless ==
    {Counting({jump}, {1}, 4) : jump \in Runtimes} \cup {Counting({jump}, {}, 3) : jump \in Runtimes}
\* A late change may not be seen, and a jump may end anywhere.
Fickle == {Counting(Runtimes, {1, 2}, 2), Counting({0, 3}, {}, 4)}

MCWorlds == Persistent \cup Stateless \cup Fickle
=============================================================================
