---------------------------- MODULE CrossModeReplay ----------------------------
(***************************************************************************)
(* protocol/cross-mode-replay.mjs: a failing trace of Component Mode is    *)
(* translated, action by action, into what a browser offers, and replayed  *)
(* twice.  A stable action id is a record: what it says of kind, role,     *)
(* name and attributes, the scopes it is within, and its spelling (the     *)
(* same attributes in another order); what = "malformed" does not parse.   *)
(***************************************************************************)
EXTENDS Integers, Sequences, FiniteSets, SequencesExt

CONSTANTS
    SourceTraces,
    Sites   \* records: offers[x], a sequence of ids; goes[<<x, id>>]; fails, the
            \* <<state, id>> that show the property; opens, the states a reset may show

\* An action offered leads to a state that offers something or nothing.
ASSUME CrossAssumption ==
    /\ SourceTraces \subseteq Seq(UNION {ToSet(t) : t \in SourceTraces})
    /\ \A s \in Sites :
         /\ s.opens \subseteq DOMAIN s.offers /\ "lost" \notin DOMAIN s.offers
         /\ \A x \in DOMAIN s.offers :
              /\ s.offers[x] \in Seq(ToSet(s.offers[x]))
              /\ \A id \in ToSet(s.offers[x]) : s.goes[<<x, id>>] \in DOMAIN s.offers

Comparable == {"runtime", "identity"}  \* what replayOnce asks before it resets the browser

VARIABLES
    site, sourceTrace,
    lacks,          \* of Comparable, what does not match
    crossAt, round, \* "reset", "replay", "judge", "reported", "refused"; the first or second
    shownState, mapped, failed,  \* of the round: where it is, the target ids, the property shown
    firstRound,     \* what the first round ended with
    began,          \* the states the rounds began in
    diagnostic

crossVars == <<site, sourceTrace, lacks, crossAt, round, shownState, mapped, failed, firstRound, began, diagnostic>>

\* sameComparable: both parse, and say the same but for their scopes.
SameComparable(a, b) == a.what # "malformed" /\ a.what = b.what

\* scopeCompatibility: the same scopes, or none on one side.
ScopeScore(a, b) ==
    IF a.within = b.within THEN 30 ELSE IF a.within = <<>> \/ b.within = <<>> THEN 10 ELSE 0

\* mapStableActionId: the place of the action meant among those offered, or what
\* stands in the way.  An exact match of an id that does not parse throws.
MapStableActionId(source, offered) ==
    LET exact == {i \in DOMAIN offered : offered[i] = source}
        candidates == {i \in DOMAIN offered : SameComparable(source, offered[i]) /\ ScopeScore(source, offered[i]) > 0}
        top == {i \in candidates : \A j \in candidates : ScopeScore(source, offered[i]) >= ScopeScore(source, offered[j])}
        Only(s) == CHOOSE i \in s : TRUE
    IN IF Cardinality(exact) > 1 THEN [at |-> 0, kind |-> "ambiguous_cross_mode_action"]
       ELSE IF exact # {}
            THEN IF source.what = "malformed" THEN [at |-> 0, kind |-> "thrown"]
                 ELSE [at |-> Only(exact), kind |-> "exact"]
       ELSE IF source.what = "malformed" THEN [at |-> 0, kind |-> "invalid_source_action_id"]
       ELSE IF top = {} THEN [at |-> 0, kind |-> "missing_cross_mode_action"]
       ELSE IF Cardinality(top) > 1 THEN [at |-> 0, kind |-> "ambiguous_cross_mode_action"]
       ELSE [at |-> Only(top), kind |-> "relaxed"]

CrossInit ==
    /\ site \in Sites /\ sourceTrace \in SourceTraces /\ lacks \in SUBSET Comparable
    /\ crossAt = "reset" /\ round = 1 /\ shownState = "none" /\ mapped = <<>> /\ failed = FALSE
    /\ firstRound = <<>> /\ began = <<>> /\ diagnostic = "none"

Refuse(kind) == crossAt' = "refused" /\ diagnostic' = kind

\* compareRuntimeMetadata, the identity of the failure, and a fresh browser.
ResetBrowser ==
    /\ crossAt = "reset"
    /\ IF lacks # {}
       THEN /\ Refuse(IF "runtime" \in lacks THEN "runtime_metadata_mismatch" ELSE "invalid_source_failure_identity")
            /\ UNCHANGED <<shownState, mapped, failed, began>>
       ELSE /\ shownState' \in site.opens /\ began' = Append(began, shownState')
            /\ mapped' = <<>> /\ failed' = FALSE /\ crossAt' = "replay" /\ UNCHANGED diagnostic
    /\ UNCHANGED <<site, sourceTrace, lacks, round, firstRound>>

\* The next action: mapped among those offered now, and executed.
MapAndExecute ==
    /\ crossAt = "replay" /\ Len(mapped) < Len(sourceTrace)
    /\ LET offered == site.offers[shownState]
           match == MapStableActionId(sourceTrace[Len(mapped) + 1], offered)
       IN IF match.at = 0 THEN Refuse(match.kind) /\ UNCHANGED <<shownState, mapped, failed>>
          ELSE /\ mapped' = Append(mapped, offered[match.at])
               /\ shownState' = site.goes[<<shownState, offered[match.at]>>]
               /\ failed' = (failed \/ <<shownState, offered[match.at]>> \in site.fails)
               /\ UNCHANGED <<crossAt, diagnostic>>
    /\ UNCHANGED <<site, sourceTrace, lacks, round, firstRound, began>>

\* The end of a round: a property not shown is refused; the first is followed by a second.
RoundEnds ==
    /\ crossAt = "replay" /\ Len(mapped) = Len(sourceTrace)
    /\ IF ~failed THEN Refuse("cross_mode_failure_not_reproduced") /\ UNCHANGED <<round, firstRound>>
       ELSE IF round = 1
       THEN /\ round' = 2 /\ firstRound' = <<mapped, shownState>>
            /\ crossAt' = "reset" /\ UNCHANGED diagnostic
       ELSE crossAt' = "judge" /\ UNCHANGED <<round, firstRound, diagnostic>>
    /\ UNCHANGED <<site, sourceTrace, lacks, shownState, mapped, failed, began>>

\* replayCrossMode: the same target trace and the same last state, twice.
JudgeRounds ==
    /\ crossAt = "judge"
    /\ IF firstRound = <<mapped, shownState>> THEN crossAt' = "reported" /\ UNCHANGED diagnostic
       ELSE Refuse("cross_mode_replay_nondeterministic")
    /\ UNCHANGED <<site, sourceTrace, lacks, round, shownState, mapped, failed, firstRound, began>>

CrossNext == ResetBrowser \/ MapAndExecute \/ RoundEnds \/ JudgeRounds
CrossSpec == CrossInit /\ [][CrossNext]_crossVars

-----------------------------------------------------------------------------
\* The target trace by itself: replayed by exact ids from state x, does it show the
\* property, and where does it end?
ReplayExactly(s, r, id) ==
    IF r.state = "lost" THEN r
    ELSE IF id \notin ToSet(s.offers[r.state]) THEN [r EXCEPT !.state = "lost"]
    ELSE [state |-> s.goes[<<r.state, id>>], shows |-> r.shows \/ <<r.state, id>> \in s.fails]
ShownAlong(s, x, trace) ==
    LET shown[k \in 0 .. Len(trace)] ==
          IF k = 0 THEN [state |-> x, shows |-> FALSE] ELSE ReplayExactly(s, shown[k - 1], trace[k])
    IN shown
ShowsFrom(s, x, trace) == ShownAlong(s, x, trace)[Len(trace)]

\* A reported failure needs the source trace no more: its target trace, by exact ids,
\* shows the property from what each of the two fresh browsers opened with, and ends
\* where the report says; nothing of it stands in another scope than its source.
TargetTraceStands ==
    crossAt = "reported" =>
        /\ Len(began) = 2
        /\ \A k \in DOMAIN began : ShowsFrom(site, began[k], mapped) = [state |-> shownState, shows |-> TRUE]
        /\ \A k \in DOMAIN mapped :
             LET scopes == {mapped[k].within, sourceTrace[k].within} \ {<<>>}
             IN mapped[k].what = sourceTrace[k].what /\ Cardinality(scopes) <= 1

\* What an action is mapped to does not depend on the others offered, nor on their
\* order: the other way round, and without any one of them, it is mapped to the same.
MappingIsFirm ==
    crossAt = "replay" /\ Len(mapped) < Len(sourceTrace) =>
        LET offered == site.offers[shownState]
            source == sourceTrace[Len(mapped) + 1]
            match == MapStableActionId(source, offered)
            MapsTheSame(others) ==
                LET again == MapStableActionId(source, others)
                IN again.at # 0 /\ others[again.at] = offered[match.at]
        IN match.at # 0 =>
             /\ MapsTheSame(Reverse(offered))
             /\ \A j \in DOMAIN offered \ {match.at} : MapsTheSame(RemoveAt(offered, j))

CrossModeStands == TargetTraceStands /\ MappingIsFirm
===============================================================================
