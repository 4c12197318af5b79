---------------------------- MODULE MCPropertyPacks ----------------------------
(***************************************************************************)
(* Applications for the property packs: what they offer, out of nine       *)
(* actions, and where they keep state.                                     *)
(***************************************************************************)
EXTENDS PropertyPacks

Click(id, role, risk, family, changes) ==
    [id |-> id, kind |-> "click", target |-> id, role |-> role, risk |-> risk, family |-> family,
     invalid |-> FALSE, changes |-> changes, throws |-> risk = "destructive", leaves |-> role = "link"]

\* What is done in the one textbox there is.
Text(id, kind, risk, family, invalid, changes) ==
    [Click(id, "textbox", risk, family, changes) EXCEPT !.kind = kind, !.target = 6, !.invalid = invalid]

Catalogue == {
    Click(1, "button", "bounded", "create", {"server"}),
    Click(2, "button", "bounded", "update", {"server", "page"}),
    Click(3, "button", "bounded", "delete", {"storage"}),
    Click(4, "button", "safe", "read", {"page"}),
    Click(5, "link", "safe", "session", {}),
    Text(6, "type", "safe", "create", FALSE, {"page"}),
    Text(7, "type", "safe", "create", TRUE, {"page"}),
    Text(8, "press", "bounded", "create", FALSE, {"server"}),
    Click(9, "button", "destructive", "delete", {"server"})}

Some(ids) == {a \in Catalogue : a.id \in ids}
OnServer == {IF a.id = 3 THEN [a EXCEPT !.changes = {"server"}] ELSE a : a \in Some({1, 2, 3, 4, 5, 7})}

MCApps ==
    {a \in [acts : {Catalogue, Some({1, 4, 9}), Some({3, 5}), Some({6, 7, 8}), OnServer},
            packs : {<<"browser-safety", "stateful-server">>, <<"navigation", "reload-persistence">>},
            hook : BOOLEAN, projected : BOOLEAN, shown : BOOLEAN, restarts : BOOLEAN,
            forgets : BOOLEAN, noisy : BOOLEAN, allowed : BOOLEAN] :
        /\ a.noisy => ~a.projected /\ ~a.hook
        /\ ~a.restarts => a.forgets /\ a.projected
        /\ ~a.allowed => a.restarts /\ ~a.hook}
===============================================================================
