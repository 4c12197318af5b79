---------------------------- MODULE CommandServer -----------------------------
(***************************************************************************)
(* startWebCommandServer (protocol/web-command-server.mjs): a project's    *)
(* own server command is started on a reserved loopback port, polled until *)
(* a URL answers, restarted on the same port and stopped, as the generic   *)
(* browser stage does, one call at a time.  The command is a root process  *)
(* in a process group of its own, which may start helpers in that group    *)
(* and strays out of it, as these may; any of them may exit, listen on the *)
(* port, and start others while the server is being stopped and after.     *)
(***************************************************************************)
EXTENDS Integers, FiniteSets

CONSTANT MaxLaunches  \* bounds the restarts

ASSUME ServerAssumption == MaxLaunches \in Nat \ {0}

Launches == 1 .. MaxLaunches
Process == Launches \X {"root", "helper", "stray"}
Root(l) == <<l, "root">>
Group(l) == {Root(l), <<l, "helper">>}
Nobody == <<0, "nobody">>

VARIABLES
    alive,      \* the living processes
    parent,     \* the living parent of each, Nobody once it has died
    exited,     \* the launches whose child.exitCode is set
    port,       \* the process that listens on the requested port
    announced,  \* the launches whose living root has printed another URL it listens at
    loose,      \* history: the living processes that the stop of their launch could not see
    awaits,     \* what the caller awaits
    launch,     \* the last child spawned
    handed,     \* the launch of `current`, 0 before the first is ready
    generation, \* as reported
    selected,   \* the process that answered at current.url
    expired,    \* whether the child is polled and timeoutMs has passed since it was spawned
    targets     \* the descendants stopChild has found

commands == <<alive, parent, exited, port, announced, loose>>
manager == <<awaits, launch, handed, generation, selected, expired, targets>>
serverVars == <<commands, manager>>

\* "init": not called; "check", "requested", "announced": in the readiness loop;
\* "abandon": stopping a child that is not ready; "up": ready or a restart has
\* failed; "restart", "final": stopping the current child; "spawn": after that.
Places == {"init", "check", "requested", "announced", "abandon", "abandonKill", "up",
           "restartKill", "spawn", "finalKill", "stopped", "failed"}
Polling == {"check", "requested", "announced"}
Stopping == {"abandonKill", "restartKill", "finalKill"}

\* Whether a stop of a launch is over, and whether one has begun.
Stopped(l) ==
    \/ l < launch \/ awaits \in {"spawn", "stopped", "failed"}
    \/ awaits \in {"up", "restartKill", "finalKill"} /\ handed # launch

StopBegun(l) == Stopped(l) \/ awaits \in Stopping

ServerInit ==
    /\ alive = {} /\ parent = [p \in Process |-> Nobody] /\ exited = {}
    /\ port = Nobody /\ announced = {} /\ loose = {}
    /\ awaits = "init" /\ launch = 0 /\ handed = 0 /\ generation = 0
    /\ selected = Nobody /\ expired = FALSE /\ targets = {}

-----------------------------------------------------------------------------
\* The commands.  A process that dies gives up its ports, its children get another
\* parent that is none of the command's.
Die(dead) ==
    /\ alive' = alive \ dead /\ loose' = loose \ dead
    /\ port' = IF port \in dead THEN Nobody ELSE port
    /\ announced' = {l \in announced : Root(l) \notin dead}
    /\ parent' = [p \in Process |-> IF {p, parent[p]} \cap dead # {} THEN Nobody ELSE parent[p]]

\* p starts q, told to leave or not; into the group only from within it.
Starts(p, q) ==
    /\ q \notin alive \cup targets /\ q[1] = p[1] /\ q # Root(q[1])
    /\ q \in Group(q[1]) => p \in Group(q[1])
    /\ alive' = alive \cup {q} /\ parent' = [parent EXCEPT ![q] = p]
    /\ loose' = IF StopBegun(q[1]) THEN loose \cup {q} ELSE loose
    /\ UNCHANGED <<exited, port, announced, manager>>

Listens(p) ==
    /\ port = Nobody
    /\ port' = p
    /\ UNCHANGED <<alive, parent, exited, announced, loose, manager>>

Announces(l) ==
    /\ Root(l) \in alive /\ l \notin announced /\ port # Root(l)
    /\ announced' = announced \cup {l}
    /\ UNCHANGED <<alive, parent, exited, port, loose, manager>>

\* A process ends, by itself or told to by a signal; a root with an exit code or
\* of the signal, where exitCode stays null.
Leaves(p) ==
    /\ Die({p})
    /\ exited' \in {exited, IF p = Root(p[1]) THEN exited \cup {p[1]} ELSE exited}
    /\ UNCHANGED manager

CommandStep ==
    \/ \E p \in alive : Listens(p) \/ Leaves(p) \/ \E q \in Process : Starts(p, q)
    \/ \E l \in Launches : Announces(l)

-----------------------------------------------------------------------------
\* spawn of the command; where its executable is missing the "error" event has
\* no listener, which ends the whole stage process: not a state of this module.
Spawn ==
    /\ launch' = launch + 1
    /\ alive' = alive \cup {Root(launch + 1)}
    /\ expired' = FALSE
    /\ awaits' = "check"
    /\ UNCHANGED <<parent, exited, port, announced, loose>>
    /\ UNCHANGED <<handed, generation, selected, targets>>

StartServer == awaits = "init" /\ Spawn

Expire ==
    /\ awaits \in Polling /\ ~expired /\ expired' = TRUE
    /\ UNCHANGED <<commands, awaits, launch, handed, generation, selected, targets>>

Await(place) ==
    /\ awaits' = place
    /\ UNCHANGED <<commands, launch, handed, generation, selected, expired, targets>>

\* The head of the readiness loop.
Check ==
    /\ awaits = "check"
    /\ Await(IF expired \/ launch \in exited THEN "abandon" ELSE "requested")

\* A response below 500 selects the candidate.
Ready(p) ==
    /\ handed' = launch /\ generation' = generation + 1 /\ selected' = p
    /\ awaits' = "up" /\ expired' = FALSE
    /\ UNCHANGED <<commands, launch, targets>>

\* fetch of the requested URL: whoever listens there may answer; it may also be
\* refused or answered with an error.
FetchRequested ==
    /\ awaits = "requested"
    /\ \/ port # Nobody /\ Ready(port)
       \/ Await("announced")

\* fetch of the URLs read from the child's output, then the delay.
FetchAnnounced ==
    /\ awaits = "announced"
    /\ \/ launch \in announced /\ Root(launch) \in alive /\ Ready(Root(launch))
       \/ Await("check")

\* p is below the root, by way of parents that live: in every set of the launch's
\* processes that is closed under children.
Descends(p, l) ==
    /\ p[1] = l /\ p # Root(l)
    /\ \A S \in SUBSET {q \in alive : q[1] = l} :
          (\A q \in alive : parent[q] \in S \cup {Root(l)} => q \in S) => p \in S

\* A slip: only the process group is stopped.
DescendantsInGroup(l) == {p \in alive : p = <<l, "helper">>}

\* The pids ps lists below the root's.
Descendants(l) == {p \in alive : Descends(p, l)}

\* The group can be signalled while exitCode is null, also of a root that is dead.
GroupOf(l) == IF l \in exited THEN {} ELSE Group(l) \cap alive

\* stopChild: the descendants are looked up, in vain where ps fails, and they and the
\* group get SIGTERM, which any of them may obey or ignore.
Terminate(l, place) ==
    \E listed \in BOOLEAN :
        /\ targets' = IF listed THEN Descendants(l) ELSE {}
        /\ loose' = loose \cup
             {p \in alive : p[1] = l /\ p # Root(l) /\ (listed => ~Descends(p, l))}
        /\ awaits' = place /\ expired' = FALSE
        /\ UNCHANGED <<alive, parent, exited, port, announced, launch, handed, generation, selected>>

\* After the delay: SIGKILL to the same descendants and, while exitCode is null,
\* to the group.
Kill(l, place) ==
    /\ Die(targets \cup GroupOf(l))
    /\ targets' = {}
    /\ awaits' = place
    /\ UNCHANGED <<exited, launch, handed, generation, selected, expired>>

\* A slip: a child that did not become ready becomes the current one all the same.
AbandonReplaces ==
    \/ awaits = "abandon" /\ Terminate(launch, "abandonKill")
    \/ /\ awaits = "abandonKill" /\ Die(targets \cup GroupOf(launch)) /\ targets' = {}
       /\ awaits' = IF handed = 0 THEN "failed" ELSE "up"
       /\ handed' = launch
       /\ UNCHANGED <<exited, launch, generation, selected, expired>>

\* A child that did not become ready is stopped and the call throws: the first
\* start has failed; after a restart, the stopped child stays the current one.
Abandon ==
    \/ awaits = "abandon" /\ Terminate(launch, "abandonKill")
    \/ awaits = "abandonKill" /\ Kill(launch, IF handed = 0 THEN "failed" ELSE "up")

Restart ==
    \/ awaits = "up" /\ launch < MaxLaunches /\ Terminate(handed, "restartKill")
    \/ awaits = "restartKill" /\ Kill(handed, "spawn")
    \/ awaits = "spawn" /\ Spawn

Stop ==
    \/ awaits = "up" /\ Terminate(handed, "finalKill")
    \/ awaits = "finalKill" /\ Kill(handed, "stopped")

Poll == Check \/ FetchRequested \/ FetchAnnounced

ServerNext == CommandStep \/ StartServer \/ Expire \/ Poll \/ Abandon \/ Restart \/ Stop

\* Timers fire and every fetch ends; the commands owe nothing, the caller need
\* not restart.
ServerSpec ==
    /\ ServerInit /\ [][ServerNext]_serverVars
    /\ WF_serverVars(Expire) /\ WF_serverVars(Poll) /\ WF_serverVars(Abandon)
    /\ WF_serverVars(Restart /\ awaits # "up") /\ WF_serverVars(Stop)

-----------------------------------------------------------------------------
ServerTypeOK ==
    /\ alive \subseteq Process /\ parent \in [Process -> Process \cup {Nobody}]
    /\ loose \subseteq Process /\ exited \subseteq Launches /\ port \in alive \cup {Nobody}
    /\ announced \subseteq Launches /\ targets \subseteq Process
    /\ awaits \in Places /\ launch \in 0 .. MaxLaunches /\ handed \in 0 .. launch
    /\ generation \in 0 .. launch
    /\ selected \in Process \cup {Nobody} /\ expired \in BOOLEAN

\* Nothing of a server's process group outlives its stop, as no helper is to escape "the
\* managed lifecycle".
NothingSurvivesStop == \A p \in alive : Stopped(p[1]) => p \notin Group(p[1])

\* What outlives the stop of its server, whoever started whom, exited or took the port
\* while it was polled, restarted or stopped: a process that ps did not show below the
\* root, as an ancestor of it had died or ps failed, or one started since; and in the
\* root's own group only where the root has left with an exit code.
OnlyLooseSurvive ==
    \A p \in alive : Stopped(p[1]) => p \in loose /\ (p \in Group(p[1]) => p[1] \in exited)

\* The server found ready, whose state the restart checks compare, is the one
\* just launched, not one that kept the port (but for those survivors).
AnswerIsFresh ==
    awaits = "up" /\ handed = launch /\ selected \in alive => selected[1] = handed \/ selected \in loose

\* The reported generation moves with the server handed out: a caller that reads
\* a new generation has a new server, a failed restart keeps the old one.
GenerationMoves ==
    [][(generation' # generation <=> handed' # handed)
        /\ (handed' # handed => handed' = launch /\ handed' > handed)]_serverVars

\* Every start, restart and stop returns or throws.
CallsReturn == awaits \notin {"init", "up"} ~> awaits \in {"up", "stopped", "failed"}

\* There is one server but for what came loose from it, and it is the one that answers.
OneServer == ServerTypeOK /\ OnlyLooseSurvive /\ AnswerIsFresh
=============================================================================
