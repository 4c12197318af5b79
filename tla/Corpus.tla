-------------------------------- MODULE Corpus --------------------------------
(***************************************************************************)
(* The Git checkouts a corpus of external projects is tested in            *)
(* (protocol/web-project-corpus-materialize.mjs), and the benchmark that   *)
(* works in them (runWebProjectCorpusBenchmark, runWebProjectCorpusShard). *)
(* A group is a checkout with the sources nested in it; a new group is     *)
(* made beside its place and renamed into it, one that is there is updated *)
(* where it stands.  A benchmark verifies the groups, notes their ignored  *)
(* files, runs the targets and restores the groups whatever happened.      *)
(* The process may die between any two steps.                              *)
(***************************************************************************)
EXTENDS Naturals, FiniteSets, FiniteSetsExt

CONSTANTS
    Sources,     \* the working trees, numbered: groups by key, nested ones by depth
    Parent,      \* the source a nested one is declared in, 0 for the root of a group
    MaxCommands, MaxDeeds   \* bounds: calls of the program; changes others make

ASSUME CorpusAssumption ==
    /\ Sources \subseteq Nat \ {0} /\ IsFiniteSet(Sources)
    /\ Parent \in [Sources -> Sources \cup {0}]
    /\ \A n \in Sources : Parent[n] < n /\ (Parent[n] # 0 => Parent[n] \in Sources)

VARIABLES
    disk,      \* per source, its working tree
    staging,   \* per source of the group being made, its tree beside the final place
    command,   \* the call under way: what it does, and what it has still to do
    ignored,   \* the ignored paths noted before the targets run
    said,      \* what the last call said
    commands, deeds

corpusVars == <<disk, staging, command, ignored, said, commands, deeds>>

Roots == {n \in Sources : Parent[n] = 0}

\* A source and all those it is nested in: the least set that has it and their parents.
Around == [n \in Sources |->
    {a \in Sources : \A S \in SUBSET Sources :
        n \in S /\ (\A s \in S : Parent[s] # 0 => Parent[s] \in S) => a \in S}]
Nested(r) == {n \in Sources \ {r} : r \in Around[n]}
Group(r) == {r} \cup Nested(r)

\* "bare" is a clone nothing was checked out of yet: Git sees every file as deleted.  In
\* "junk" are the ignored paths Git lists: an ignored directory counts as one, and neither
\* what is in it nor what a file holds is looked at.
Places == {"absent", "plain", "foreign", "bare", "old", "pinned"}
Tree(at) == [at |-> at, work |-> FALSE, junk |-> {}]
Absent == Tree("absent")
Dirty(t) == t.work \/ t.at = "bare"
Whole(t) == t.at = "pinned" /\ ~t.work

\* The trees that are left when one is removed, with what is nested in it.
Without(n) == [m \in Sources |-> IF n \in Around[m] THEN Absent ELSE disk[m]]

Idle == [does |-> "nothing"]

CorpusInit ==
    /\ disk \in [Sources -> {Absent, [Tree("pinned") EXCEPT !.junk = {"kept"}]}]
    /\ \A n \in Sources : Parent[n] # 0 /\ disk[Parent[n]] = Absent => disk[n] = Absent
    /\ staging = [n \in Sources |-> Absent] /\ command = Idle
    /\ ignored = [n \in Sources |-> {}] /\ said = "none"
    /\ commands = 0 /\ deeds = 0

-----------------------------------------------------------------------------
End(word) ==
    /\ command' = Idle /\ said' = word
    /\ staging' = [n \in Sources |-> Absent] /\ UNCHANGED <<ignored, commands, deeds>>
Fail(code) == End(code) /\ UNCHANGED disk
Proceed(step) == command' = step /\ UNCHANGED <<ignored, said, commands, deeds>>

\* materializeWebProjectCorpus takes the groups in order.
Materialize ==
    /\ command = Idle /\ commands < MaxCommands /\ commands' = commands + 1
    /\ command' = [does |-> "group", groups |-> Roots]
    /\ UNCHANGED <<disk, staging, ignored, said, deeds>>

NextNested(r, fresh) ==
    [does |-> "nested", groups |-> command.groups, left |-> Nested(r), fresh |-> fresh]

\* What is not a clean checkout of the declared repository is refused; the root of the
\* others is brought to its revision, unless the network or a checkout filter prevents it.
EnterGroup ==
    /\ command.does = "group" /\ command.groups # {}
    /\ LET r == Min(command.groups)
       IN \/ disk[r].at \in {"plain", "foreign"} /\ Fail("not the declared repository")
          \/ Dirty(disk[r]) /\ Fail("local changes")
          \/ disk[r].at \in {"absent", "old", "pinned"} /\ ~Dirty(disk[r]) /\ Fail("no revision")
          \/ /\ disk[r].at \in {"absent", "old", "pinned"} /\ ~Dirty(disk[r])
             /\ IF disk[r].at = "absent"
                THEN staging' = [staging EXCEPT ![r] = Tree("pinned")] /\ UNCHANGED disk
                ELSE disk' = [disk EXCEPT ![r].at = "pinned"] /\ UNCHANGED staging
             /\ Proceed(NextNested(r, disk[r].at = "absent"))

\* The tree a source has in the group being worked on, and a change of it.
Here == IF command.fresh THEN staging ELSE disk
Place(n, tree) ==
    IF command.fresh THEN staging' = [staging EXCEPT ![n] = tree] /\ UNCHANGED disk
                     ELSE disk' = [disk EXCEPT ![n] = tree] /\ UNCHANGED staging

\* nestedDeclarationContext: a source declared in a nested one needs it as pinned.
Declared(n, trees) == Parent[n] \in Roots \/ Whole(trees[Parent[n]])

\* A slip: local changes of a nested source are carried along.
CloneNestedCareless ==
    /\ command.does = "nested" /\ command.left # {}
    /\ LET n == Min(command.left)
       IN IF Declared(n, Here) /\ Here[n].at \notin {"plain", "foreign"}
          THEN \/ Fail("clone failed") /\ Here[n] = Absent
               \/ /\ IF Here[n] = Absent THEN Place(n, Tree("bare")) ELSE UNCHANGED <<disk, staging>>
                  /\ Proceed([command EXCEPT !.does = "checkout"])
          ELSE Fail("nested source refused")

\* materializeNestedSource: a missing source is cloned, one that is there is checked.
CloneNested ==
    /\ command.does = "nested" /\ command.left # {}
    /\ LET n == Min(command.left)
       IN IF Declared(n, Here) /\ Here[n].at \notin {"plain", "foreign"} /\ ~Dirty(Here[n])
          THEN \/ Fail("clone failed") /\ Here[n] = Absent
               \/ /\ IF Here[n] = Absent THEN Place(n, Tree("bare")) ELSE UNCHANGED <<disk, staging>>
                  /\ Proceed([command EXCEPT !.does = "checkout"])
          ELSE Fail("nested source refused")

CheckoutNested ==
    /\ command.does = "checkout"
    /\ LET n == Min(command.left)
       IN \/ Fail("no revision")
          \/ /\ Place(n, [Here[n] EXCEPT !.at = "pinned", !.work = FALSE])
             /\ Proceed([command EXCEPT !.does = "nested", !.left = @ \ {n}])

\* The end of materializeFreshGroupAtomically, or the verification of the group updated.
FinishGroup ==
    /\ command.does = "nested" /\ command.left = {}
    /\ LET r == Min(command.groups)
       IN IF \E n \in Group(r) : ~Whole(Here[n]) THEN Fail("verification failed")
          ELSE IF command.fresh /\ disk[r] # Absent THEN Fail("checkout race")
          ELSE /\ disk' = [n \in Sources |-> IF n \in Group(r) THEN Here[n] ELSE disk[n]]
               /\ staging' = [n \in Sources |-> Absent]
               /\ Proceed([does |-> "group", groups |-> command.groups \ {r}])

Verified == \A n \in Sources : Whole(disk[n])

FinishMaterialize ==
    /\ command.does = "group" /\ command.groups = {}
    /\ End(IF Verified THEN "materialized" ELSE "not verified") /\ UNCHANGED disk

-----------------------------------------------------------------------------
\* verifyMaterializedWebProjectCorpus and captureMaterializedWebProjectCorpusState.
Capture ==
    /\ command = Idle /\ commands < MaxCommands /\ commands' = commands + 1
    /\ IF Verified
       THEN /\ command' = [does |-> "run"] /\ UNCHANGED said
            /\ ignored' = [n \in Sources |-> disk[n].junk]
       ELSE said' = "checkout invalid" /\ UNCHANGED <<command, ignored>>
    /\ UNCHANGED <<disk, staging, deeds>>

\* The commands of a target write into the checkouts they run in, switch their revision or
\* remove one, and add or remove ignored files, those noted before included.
TargetWrites ==
    /\ command.does = "run" /\ deeds < MaxDeeds /\ deeds' = deeds + 1
    /\ \E n \in Sources :
         /\ disk[n] # Absent
         /\ disk' \in {[disk EXCEPT ![n].work = TRUE], [disk EXCEPT ![n].at = "old"], Without(n)}
                     \cup {[disk EXCEPT ![n].junk = j] : j \in SUBSET {"kept", "new"}}
    /\ UNCHANGED <<staging, command, ignored, said, commands>>

\* The campaigns end, or one of them throws: the finally clause comes next.
TargetsEnd ==
    /\ command.does = "run"
    /\ \E thrown \in BOOLEAN :
         Proceed([does |-> "restore", groups |-> Roots, left |-> {}, failed |-> FALSE,
                  broken |-> {}, thrown |-> thrown])
    /\ UNCHANGED <<disk, staging>>

Gone(n) == disk[n].at \in {"absent", "plain", "foreign"}

\* The declarations are asked before anything is put back, so that a nested source with
\* changes of its own keeps its group from being restored when others are declared in it.
\* A Git command that fails is caught and told; one that cannot be started ends the call.
EnterRestore ==
    /\ command.does = "restore" /\ command.groups # {}
    /\ LET r == Min(command.groups)
           refused == Gone(r) \/ \E n \in Nested(r) : ~Declared(n, disk)
           told == [command EXCEPT !.groups = @ \ {r}, !.failed = TRUE]
       IN \/ ~refused /\ Proceed([command EXCEPT !.does = "put back", !.left = Group(r)])
          \/ refused /\ Proceed(told)
          \/ ~Gone(r) /\ Proceed([told EXCEPT !.broken = @ \cup {r}])
          \/ Fail("git unavailable")
    /\ UNCHANGED <<disk, staging>>

\* A slip: the ignored files of a nested source are left.
RestoredRootsOnly(n) ==
    IF Gone(n) THEN disk[n]
    ELSE [at |-> "pinned", work |-> FALSE,
          junk |-> IF Parent[n] = 0 THEN disk[n].junk \cap ignored[n] ELSE disk[n].junk]

\* removeNewIgnoredPaths takes away what was not noted; what was noted and is gone stays so.
Restored(n) ==
    IF Gone(n) THEN disk[n]
    ELSE [at |-> "pinned", work |-> FALSE, junk |-> disk[n].junk \cap ignored[n]]

\* What is left when one of the commands fails: filter check, checkout, reset, clean and
\* removal of ignored files, verification.
Halfway(n) ==
    IF Gone(n) THEN {disk[n]}
    ELSE {disk[n], [disk[n] EXCEPT !.at = "pinned"], [Restored(n) EXCEPT !.junk = disk[n].junk], Restored(n)}

\* restoreNestedSource for those nested in a source before the source, the root last.
RestoreSource ==
    /\ command.does = "put back"
    /\ \E n \in command.left :
         /\ \A m \in command.left : n \in Around[m] => m = n
         /\ LET rest == command.left \ {n}
                r == Min(command.groups)
            IN \E breaks \in BOOLEAN : \E tree \in IF breaks THEN Halfway(n) ELSE {Restored(n)} :
                 /\ disk' = [disk EXCEPT ![n] = tree]
                 /\ Proceed([does |-> IF rest = {} THEN "restore" ELSE "put back",
                             groups |-> IF rest = {} THEN command.groups \ {r} ELSE command.groups,
                             left |-> rest, failed |-> command.failed \/ breaks \/ ~Whole(tree),
                             broken |-> IF breaks THEN command.broken \cup {r} ELSE command.broken,
                             thrown |-> command.thrown])
    /\ UNCHANGED staging

FinishRestore ==
    /\ command.does = "restore" /\ command.groups = {}
    /\ End(CASE command.thrown -> "execution failed"
             [] ~command.thrown /\ command.failed -> "cleanup failed"
             [] OTHER -> "benchmarked")
    /\ UNCHANGED disk

-----------------------------------------------------------------------------
\* Between two calls others use the directory: they edit, switch revisions, put
\* something of their own where a checkout should be, or take a checkout away.
OthersWork ==
    /\ command = Idle /\ deeds < MaxDeeds /\ deeds' = deeds + 1
    /\ \E n \in Sources :
         \/ disk[n].at \in {"old", "pinned"}
            /\ disk' \in {[disk EXCEPT ![n].work = TRUE], [disk EXCEPT ![n].at = "old"]}
         \/ disk[n] = Absent /\ (Parent[n] # 0 => disk[Parent[n]] # Absent)
            /\ \E at \in {"plain", "foreign"} : disk' = [disk EXCEPT ![n] = Tree(at)]
         \/ disk' = Without(n)
    /\ UNCHANGED <<staging, command, ignored, said, commands>>

\* The process dies: what is beside the final places is never looked at again.
Die == command # Idle /\ Fail("none")

CorpusNext ==
    \/ Materialize \/ EnterGroup \/ CloneNested \/ CheckoutNested \/ FinishGroup
    \/ FinishMaterialize \/ Capture \/ TargetWrites \/ TargetsEnd \/ EnterRestore
    \/ RestoreSource \/ FinishRestore \/ OthersWork \/ Die

CorpusSpec == CorpusInit /\ [][CorpusNext]_corpusVars

-----------------------------------------------------------------------------
Making == command.does \in {"group", "nested", "checkout"}

\* A group that was not there appears whole, with every source nested in it, or not at
\* all, whenever the process dies; and what others left in a checkout, changes or a
\* tree of their own, is never written over by a materialization.
MaterializesSafely ==
    [][Making =>
        /\ \A r \in Roots : disk[r] = Absent /\ disk'[r] # Absent => \A n \in Group(r) : Whole(disk'[n])
        /\ \A n \in Sources : disk[n].work \/ disk[n].at \in {"plain", "foreign"} => disk'[n] = disk[n]
      ]_corpusVars

\* Targets run only in checkouts that are as pinned, and a benchmark that reports a
\* result leaves them so, with no ignored path that was not there before.  What a target
\* removed of the ignored paths noted is not brought back, nor is its loss noticed.
LeavesNoTrace ==
    [][/\ command = Idle /\ command'.does = "run" => Verified
       /\ FinishMaterialize /\ said' = "materialized" => Verified
       /\ FinishRestore /\ said' = "benchmarked" =>
            Verified /\ \A n \in Sources : disk[n].junk \subseteq ignored[n]]_corpusVars

\* A group that cannot be restored does not keep the others from it: once all were
\* tried, a group is as pinned unless it lost a source, or one that others are declared
\* in is not as pinned, or a Git command failed in it.
RestoresTheOthers ==
    command.does = "restore" /\ command.groups = {} =>
        \A r \in Roots \ command.broken : (\E n \in Group(r) : ~Whole(disk[n])) =>
            \E n \in Group(r) : \/ Gone(n)
                                \/ ~Whole(disk[n]) /\ \E m \in Sources : Parent[m] = n /\ Parent[n] # 0

\* A benchmark restores what Git can restore, and does not report a result when it could not.
RestoresWhatItCan == LeavesNoTrace /\ []RestoresTheOthers
===============================================================================
