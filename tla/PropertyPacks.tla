---------------------------- MODULE PropertyPacks ----------------------------
(***************************************************************************)
(* The generic property packs (protocol/web-generic-property-packs.mjs):   *)
(* probes of an unknown application, each a reset, a short sequence of     *)
(* actions and, in most packs, a reload or a restart of the server, whose  *)
(* states are compared.  The application keeps what an action changes on   *)
(* its server, in the storage of the browser or in the page only; a reset  *)
(* makes a new browser context and calls the server's reset hook           *)
(* (web-server-hooks.mjs) where there is one.                              *)
(***************************************************************************)
EXTENDS Naturals, Sequences, FiniteSets

CONSTANTS
    Apps,      \* the applications: what they offer and where they keep state
    MaxProbes

ASSUME PacksAssumption == MaxProbes \in Nat \ {0}

Stores == {"server", "storage", "page"}
Risks == {"safe", "bounded", "destructive"}

\* An action is of a kind, on a target of a role, estimated at a risk and named for a
\* family of operations; it changes some places, may throw and may leave the page.
Deeds == [id : Nat, kind : {"click", "type", "press"}, target : Nat, role : {"button", "link", "textbox"},
          risk : Risks, family : {"create", "read", "update", "delete", "session", "none"},
          invalid : BOOLEAN, changes : SUBSET Stores, throws : BOOLEAN, leaves : BOOLEAN]

\* Two actions on one text box have its name, and so its family (mutationFamily); a press is
\* a bounded mutation whatever the name (actions of generic-browser-driver.mjs, line 534).
\* packs: the packs selected; hook: the server can be reset; projected: its state is read
\* by a hook; shown: the page shows it; restarts: the driver can restart it; forgets: it
\* comes back empty; noisy: every load throws; allowed: bounded mutations are.
ASSUME AppsAssumption ==
    \A a \in Apps :
        /\ a.acts \subseteq Deeds /\ IsFiniteSet(a.acts)
        /\ \A d, e \in a.acts : d.id = e.id => d = e
        /\ \A p \in a.acts : p.kind = "press" =>
             p.risk = "bounded" /\ \A t \in a.acts : t.kind = "type" /\ t.target = p.target => t.family = p.family
        /\ a.packs \in Seq({"browser-safety", "navigation", "reload-persistence", "stateful-server"})
        /\ {a.hook, a.projected, a.shown, a.restarts, a.forgets, a.noisy, a.allowed} \subseteq BOOLEAN

VARIABLES
    app,
    world,    \* what the server, the storage and the page hold, and what was thrown
    pack,     \* the pack that runs
    left,     \* its probes to come, sequences of actions
    probed,   \* the last probe whose states were compared
    seen,     \* what the stateful-server pack has observed
    found,    \* the failures and advisories, with the actions of their trace
    executed  \* the actions that were executed

packsVars == <<app, world, pack, left, probed, seen, found, executed>>

Packs == app.packs
Aspects == {"read", "create", "update", "delete", "mutation", "projection", "reload",
                 "restart", "session", "invalid"}

-----------------------------------------------------------------------------
\* reset, reload, restartManagedServer and goBack of the driver.  What was thrown is
\* told of a browser context, whatever was loaded in it since.
Loaded(w) == [w EXCEPT !.page = 0, !.thrown = @ \/ app.noisy]
Fresh(w) == Loaded([server |-> IF app.hook THEN 0 ELSE w.server, storage |-> 0, page |-> 0,
                    away |-> FALSE, thrown |-> FALSE])

Restarted(w) == Loaded([w EXCEPT !.server = IF app.forgets THEN 0 ELSE @])

Back(w) == {[w EXCEPT !.away = FALSE], [Loaded(w) EXCEPT !.away = FALSE]}

Did(w, a) ==
    [server |-> w.server + (IF "server" \in a.changes THEN 1 ELSE 0),
     storage |-> w.storage + (IF "storage" \in a.changes THEN 1 ELSE 0),
     page |-> w.page + (IF "page" \in a.changes THEN 1 ELSE 0),
     away |-> w.away \/ a.leaves, thrown |-> w.thrown \/ a.throws]

\* executeIds, of one action or of two.
DidAll(w, s) == IF Len(s) = 1 THEN Did(w, s[1]) ELSE Did(Did(w, s[1]), s[2])

\* stateProjection, and serverProjectionHash where the server is read.
Shows(w) == <<w.storage, w.page, w.away, IF app.shown \/ app.projected THEN w.server ELSE 0>>
Compared(w) == IF app.projected THEN <<w.server>> ELSE Shows(w)

-----------------------------------------------------------------------------
\* The inventory is sorted by id.
InOrder(S) == [i \in 1 .. Cardinality(S) |-> CHOOSE a \in S : Cardinality({b \in S : b.id < a.id}) = i - 1]
FirstOf(S) == CHOOSE a \in S : \A b \in S : a.id <= b.id

Simple == {a \in app.acts : a.kind = "click" /\ a.risk # "destructive" /\ (a.risk = "bounded" => app.allowed)}

On(kind, a) == {b \in app.acts : b.kind = kind /\ b.target = a.target}

\* formMutationSequences.
Forms == {p \in app.acts : app.allowed /\ p.kind = "press" /\ On("type", p) # {}}

\* invalidOperationSequence asks nothing of the risk, nor whether mutations are allowed.
Invalid == {t \in app.acts : t.kind = "type" /\ t.invalid}

\* What a probe with an action does: a form is filled in before Enter is pressed.
Does(a) ==
    IF a.kind = "press" THEN <<FirstOf(On("type", a)), a>>
    ELSE IF a.kind = "type" /\ On("press", a) # {} THEN <<a, FirstOf(On("press", a))>>
    ELSE <<a>>

AsProbes(kind, S) == [i \in 1 .. Cardinality(S) |-> [as |-> kind, does |-> Does(InOrder(S)[i])]]
First(s) == SubSeq(s, 1, IF Len(s) < MaxProbes THEN Len(s) ELSE MaxProbes)

Changing(S) == {a \in S : \E i \in 1 .. Len(Does(a)) : Does(a)[i].family # "none"}
Of(families, s) == {s[i].family : i \in 1 .. Len(s)} \cap families

\* The probes of a pack, in the order it makes them.
Probes(name) ==
    CASE name = "browser-safety" -> First(AsProbes("safety", Simple) \o AsProbes("safety", Forms))
      [] name = "navigation" ->
           First(AsProbes("link", {a \in app.acts : a.kind = "click" /\ a.role = "link" /\ a.risk = "safe"}))
      [] name = "reload-persistence" ->
           First(AsProbes("reload", {a \in Simple : a.role # "link"}) \o AsProbes("reload", Forms))
      [] name = "stateful-server" ->
           LET reads == AsProbes("read", {a \in Simple : a.family = "read"})
               invalid == AsProbes("invalid", Invalid)
               changes == AsProbes("mutation", Changing(Forms))
                          \o AsProbes("mutation", Changing({a \in Simple : a.risk = "bounded"}))
           IN SubSeq(reads, 1, IF reads = <<>> THEN 0 ELSE 1)
              \o SubSeq(invalid, 1, IF invalid = <<>> THEN 0 ELSE 1) \o First(changes)

PacksInit ==
    /\ app \in Apps /\ world = [server |-> 0, storage |-> 0, page |-> 0, away |-> FALSE, thrown |-> FALSE]
    /\ pack = 0 /\ left = <<>> /\ probed = <<>>
    /\ seen = {} /\ found = {} /\ executed = {}

-----------------------------------------------------------------------------
Tell(code, s) == found' = found \cup {[code |-> code, trace |-> s]}
Executes(s) == executed' = executed \cup {s[i] : i \in 1 .. Len(s)}
ProbeOf(kind) == pack \in 1 .. Len(Packs) /\ left # <<>> /\ Head(left).as = kind
Next1 == left' = Tail(left) /\ UNCHANGED <<app, pack>>

\* A pack begins with a reset and an inventory; the packs end when a reset fails.
NextPack ==
    /\ pack \in 0 .. Len(Packs) /\ left = <<>>
    /\ \/ pack = Len(Packs) /\ pack' = Len(Packs) + 1 /\ UNCHANGED <<world, left, seen>>
       \/ pack < Len(Packs) /\ pack' = pack + 1 /\ world' = Fresh(world)
          /\ left' = Probes(Packs[pack + 1])
          /\ seen' = IF Packs[pack + 1] = "stateful-server" /\ \E a \in app.acts : a.family = "session"
                     THEN {"session"} ELSE {}
    /\ UNCHANGED <<app, found, executed, probed>>

ResetFails ==
    /\ pack \in 1 .. Len(Packs) /\ app.hook /\ pack' = Len(Packs) + 2 /\ left' = <<>>
    /\ UNCHANGED <<app, world, seen, found, executed, probed>>

\* An action is no longer offered after the reset, or cannot be executed: those before it
\* were, and it may itself have had its effect before it failed.  That it failed is told
\* in an advisory of no other consequence.
ProbeStops ==
    /\ pack \in 1 .. Len(Packs) /\ left # <<>> /\ Next1 /\ probed' = <<>>
    /\ \E done \in {<<>>, <<Head(left).does[1]>>, Head(left).does} :
         Executes(done) /\ world' = IF done = <<>> THEN Fresh(world) ELSE DidAll(Fresh(world), done)
    /\ seen' = IF Head(left).as = "invalid" THEN seen \cup {"invalid"} ELSE seen
    /\ UNCHANGED found

SafetyProbe ==
    /\ ProbeOf("safety") /\ Next1 /\ Executes(Head(left).does) /\ probed' = <<>>
    /\ world' = DidAll(Fresh(world), Head(left).does)
    /\ IF world'.thrown THEN Tell("browser_uncaught_exception", Head(left).does) ELSE UNCHANGED found
    /\ UNCHANGED seen

LinkProbe ==
    /\ ProbeOf("link") /\ Next1 /\ Executes(Head(left).does) /\ probed' = <<>>
    /\ LET before == Fresh(world)
           after == DidAll(before, Head(left).does)
       IN IF ~after.away THEN world' = after /\ UNCHANGED found
          ELSE /\ world' \in Back(after)
               /\ IF Shows(world') # Shows(before) THEN Tell("navigation_back_state_drift", Head(left).does)
                                                   ELSE UNCHANGED found
    /\ UNCHANGED seen

ReloadProbe ==
    /\ ProbeOf("reload") /\ Next1 /\ Executes(Head(left).does) /\ probed' = <<>>
    /\ LET s == Head(left).does
           before == Fresh(world)
           after == DidAll(before, s)
           again == Loaded(after)
       IN /\ world' = IF Shows(after) = Shows(before) THEN after ELSE again
          /\ IF Shows(after) = Shows(before) THEN UNCHANGED found
             ELSE IF after.storage # before.storage /\ again.storage # after.storage
             THEN Tell("reload_persistence_storage_drift", s)
             ELSE IF after.storage = before.storage /\ Shows(again) = Shows(before)
             THEN Tell("reload_state_loss_without_persistence_evidence", s)
             ELSE IF Shows(again) \notin {Shows(after), Shows(before)}
             THEN Tell("reload_semantic_state_drift", s)
             ELSE UNCHANGED found
    /\ UNCHANGED seen

ReadProbe ==
    /\ ProbeOf("read") /\ Next1 /\ Executes(Head(left).does) /\ probed' = <<>>
    /\ world' = DidAll(Fresh(world), Head(left).does)
    /\ seen' = IF world'.thrown THEN seen ELSE seen \cup {"read"}
    /\ UNCHANGED found

InvalidProbe ==
    /\ ProbeOf("invalid") /\ Next1 /\ Executes(Head(left).does) /\ probed' = <<>>
    /\ world' = DidAll(Fresh(world), Head(left).does)
    /\ seen' = seen \cup {"invalid"}
    /\ CASE world'.thrown -> Tell("stateful_invalid_operation_uncaught_exception", Head(left).does)
         [] ~world'.thrown /\ Shows(world') # Shows(Fresh(world)) ->
              Tell("stateful_invalid_operation_domain_unverified", Head(left).does)
         [] OTHER -> UNCHANGED found

\* A slip: an empty server has kept what it had.
KeptLoosely(after, again, restarted) == Compared(restarted) \in {Compared(again), Compared(after), <<0>>}

\* restartMatchesPersisted.
Kept(after, again, restarted) == Compared(restarted) \in {Compared(again), Compared(after)}

\* The mutation, the reload and the restart of one sequence.
MutationProbe ==
    /\ ProbeOf("mutation") /\ Next1 /\ Executes(Head(left).does)
    /\ LET s == Head(left).does
           before == Fresh(world)
           after == DidAll(before, s)
           again == Loaded(after)
           restarted == Restarted(again)
           lost == Compared(again) # Compared(after) /\ Compared(again) = Compared(before)
           projection == IF app.projected THEN {"projection"} ELSE {}
           observed == {"mutation"} \cup Of({"create", "update", "delete"}, s)
                       \cup (IF Compared(again) = Compared(after) THEN {"reload"} ELSE {})
       IN /\ probed' = [before |-> before, after |-> after]
          /\ IF Compared(after) = Compared(before)
             THEN /\ world' = after /\ seen' = seen \cup projection
                  /\ Tell("stateful_mutation_no_observable_change", s)
             ELSE IF lost
             THEN /\ world' = again /\ seen' = seen \cup projection \cup observed
                  /\ Tell("stateful_reload_state_loss", s)
             ELSE IF ~app.restarts
             THEN /\ world' = again /\ seen' = seen \cup projection \cup observed
                  /\ Tell("stateful_server_restart_unavailable", s)
             ELSE /\ world' = restarted
                  /\ seen' = seen \cup projection \cup observed
                             \cup (IF Kept(after, again, restarted) THEN {"restart"} ELSE {})
                  /\ CASE Kept(after, again, restarted) -> UNCHANGED found
                       [] ~Kept(after, again, restarted) /\ Compared(restarted) = Compared(before) ->
                            Tell("stateful_server_restart_state_loss", s)
                       [] OTHER -> Tell("stateful_server_restart_state_drift", s)

PacksNext ==
    \/ NextPack \/ ResetFails \/ ProbeStops \/ SafetyProbe \/ LinkProbe \/ ReloadProbe \/ ReadProbe
    \/ InvalidProbe \/ MutationProbe

PacksSpec == PacksInit /\ [][PacksNext]_packsVars

\* A slip: the reads of the server are not asked for.
CoveredUnprojected == Aspects \ {"projection"} \subseteq seen

\* coverage.status is "generic-covered".
Covered == Aspects \subseteq seen

-----------------------------------------------------------------------------
PacksTypeOK ==
    /\ app \in Apps /\ pack \in 0 .. Len(Packs) + 2
    /\ world \in [server : Nat, storage : Nat, page : Nat, away : BOOLEAN, thrown : BOOLEAN]
    /\ seen \subseteq Aspects /\ executed \subseteq app.acts

\* A reported loss is one: state is lost on a reload only where the page alone held it
\* or all it showed, and on a restart only by a server that comes back empty.
LossesAreReal ==
    \A f \in found :
        LET changed == UNION {f.trace[i].changes : i \in 1 .. Len(f.trace)} IN
        /\ f.code = "stateful_reload_state_loss" =>
             "page" \in changed /\ "storage" \notin changed
             /\ ("server" \in changed => ~app.shown /\ ~app.projected)
        /\ f.code = "stateful_server_restart_state_loss" => app.forgets /\ "server" \in changed

\* Where the server is reset before every probe and its state read, a server that loses a
\* mutation on restart is never passed over.
FindsTheLoss ==
    probed # <<>> /\ app.hook /\ app.projected /\ app.restarts /\ app.forgets
        /\ probed.after.server # probed.before.server
        => \E f \in found : f.code = "stateful_server_restart_state_loss"

\* A server is called covered only when it keeps its state through a restart, and a
\* mutation of each family has changed it.
CoverageIsEarned ==
    Covered =>
        /\ app.projected /\ app.restarts /\ ~app.forgets
        /\ \A family \in {"create", "update", "delete"} :
             \E a \in executed : a.family = family /\ a.risk # "destructive"

\* Actions that change state are executed only where they are allowed, destructive ones
\* never.
MutatesOnlyWhenAllowed ==
    \A a \in executed : a.risk = "safe" \/ (a.risk = "bounded" /\ app.allowed)

\* Losses of state are reported where there are some, and only there.
LossesAreExact == PacksTypeOK /\ LossesAreReal /\ FindsTheLoss
===============================================================================
