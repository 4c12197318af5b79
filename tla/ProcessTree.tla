----------------------------- MODULE ProcessTree -----------------------------
(***************************************************************************)
(* spawnIsolated (protocol/web-process-tree.mjs): a command is started in  *)
(* a process group of its own and its promise settles on the "close" event *)
(* of the child, which Node emits when the main process has exited and     *)
(* nobody holds its stdout and stderr any more.  A timer, an output limit  *)
(* and "close" itself each kill the group.                                 *)
(*                                                                         *)
(* The environment (the command) may leave helper processes behind:        *)
(*   quiet          in the group, its stdio detached from the pipes        *)
(*   piped          in the group, inherits the pipes                       *)
(*   detached       in a process group of its own, stdio detached          *)
(*   detachedPiped  in a process group of its own, inherits the pipes      *)
(* HelperKinds says which of them a run allows, at most one of each kind   *)
(* per child.                                                              *)
(***************************************************************************)

CONSTANTS Child,        \* the children the caller may start
          HelperKinds,  \* the kinds of helper a command may leave behind
          ExitKinds     \* the ways its main process may end by itself

AllHelperKinds == {"quiet", "piped", "detached", "detachedPiped"}

VARIABLE tree           \* per child, its processes and the closure of its promise

\* The helpers that kill(-pid) does not reach, and those that keep "close" away.
OutOfGroup == {"detached", "detachedPiped"}
HoldsPipe  == {"piped", "detachedPiped"}

\* How a main process ends: its exit code, or the signal that killed it.
\* "exitN" is any code but 0, 1 and 2 (a failed exec included).
Exits == {"exit0", "exit1", "exit2", "exitN", "SIGTERM", "SIGKILL"}

Phases == {"idle", "open", "settled", "rejected"}

Trees == [phase   : Phases,
          main    : {"none", "alive", "exited"},
          helpers : SUBSET HelperKinds,
          exit    : Exits \cup {"none"},
          error   : {"none", "ENOBUFS", "ETIMEDOUT", "spawn"},
          timer   : {"off", "armed", "fired"}]

TreeTypeOK == tree \in [Child -> Trees]

Idle == [phase |-> "idle", main |-> "none", helpers |-> {}, exit |-> "none",
         error |-> "none", timer |-> "off"]

TreeInit == tree = [c \in Child |-> Idle]

\* Some process of the child can still write to the workspace.
Alive(t) == t.main = "alive" \/ t.helpers # {}

\* kill(-pid, SIGKILL): the main process and every helper of its group.
KillGroup(t) ==
    [t EXCEPT !.main    = "exited",
              !.helpers = @ \cap OutOfGroup,
              !.exit    = IF t.main = "alive" THEN "SIGKILL" ELSE @]

\* spawn() succeeds: the group exists and the timeout is armed.
Opened == [Idle EXCEPT !.phase = "open", !.main = "alive", !.timer = "armed"]

\* spawn() throws: the promise resolves at once with the error.
SpawnThrew == [Idle EXCEPT !.phase = "settled", !.error = "spawn"]

-----------------------------------------------------------------------------

\* What the command does: leaves a helper behind, ends, or a helper ends.
StartHelper(c, k) ==
    /\ tree[c].main = "alive"
    /\ tree' = [tree EXCEPT ![c].helpers = @ \cup {k}]

HelperExits(c, k) ==
    /\ k \in tree[c].helpers
    /\ tree' = [tree EXCEPT ![c].helpers = @ \ {k}]

MainExits(c, e) ==
    /\ tree[c].main = "alive"
    /\ tree' = [tree EXCEPT ![c].main = "exited", ![c].exit = e]

\* append(): a chunk takes a stream past maxBuffer.  The first time, unless an
\* error is recorded already, the error is recorded and the group is killed.
\* Chunks the exited main process wrote are still to be read until "close".
Overflow(c) ==
    /\ tree[c].phase = "open"
    /\ tree[c].error = "none"
    /\ tree' = [tree EXCEPT ![c] = [KillGroup(@) EXCEPT !.error = "ENOBUFS"]]

\* A plausible slip: the timeout is recorded but kills nothing.
TimeoutKillsNothing(c) ==
    /\ tree[c].timer = "armed"
    /\ tree' = [tree EXCEPT ![c].error = "ETIMEDOUT", ![c].timer = "fired"]

\* The setTimeout callback.  It does not look at settled.
Timeout(c) ==
    /\ tree[c].timer = "armed"
    /\ tree' = [tree EXCEPT ![c] =
                  [KillGroup(@) EXCEPT !.error = "ETIMEDOUT", !.timer = "fired"]]

\* Plausible slips of the two callbacks: the timer is not cleared by "close";
\* "close" does not kill what the command left.
CloseLeavesTimer(c) ==
    /\ tree[c].phase = "open"
    /\ tree[c].main = "exited"
    /\ tree[c].helpers \cap HoldsPipe = {}
    /\ tree' = [tree EXCEPT ![c] = [KillGroup(@) EXCEPT !.phase = "settled"]]

CloseKeepsGroup(c) ==
    /\ tree[c].phase = "open"
    /\ tree[c].main = "exited"
    /\ tree[c].helpers \cap HoldsPipe = {}
    /\ tree' = [tree EXCEPT ![c].phase = "settled",
                            ![c].timer = IF @ = "armed" THEN "off" ELSE @]

\* The "close" listener: it clears the timer, kills the group and resolves.
Close(c) ==
    /\ tree[c].phase = "open"
    /\ tree[c].main = "exited"
    /\ tree[c].helpers \cap HoldsPipe = {}
    /\ LET t == KillGroup(tree[c])
       IN tree' = [tree EXCEPT ![c] =
                     [t EXCEPT !.phase = "settled",
                               !.timer = IF t.timer = "armed" THEN "off" ELSE t.timer]]

\* What the promise resolves with: the status is null and the signal SIGTERM
\* once the timer has fired, whatever the process exited with.
Outcome(t) == IF t.timer = "fired" THEN "SIGTERM" ELSE t.exit

\* A plausible slip: the exit code is looked at before the timeout.
StageStatusCodeFirst(t) ==
    IF t.exit = "exit0" THEN "pass"
    ELSE IF t.error = "ETIMEDOUT" \/ Outcome(t) = "SIGTERM" THEN "timeout"
    ELSE "execution_failed"

\* stageStatus (protocol/web-project-runner.mjs) of the resolved value.
StageStatus(t) ==
    CASE t.error = "ETIMEDOUT" \/ Outcome(t) = "SIGTERM" -> "timeout"
      [] OTHER -> CASE Outcome(t) = "exit0" -> "pass"
                    [] Outcome(t) = "exit1" -> "quality_gate_failed"
                    [] Outcome(t) = "exit2" -> "usage_error"
                    [] OTHER -> "execution_failed"

\* Everything that happens to child c without its caller.
TreeStep(c) ==
    \/ \E k \in HelperKinds : StartHelper(c, k) \/ HelperExits(c, k)
    \/ \E e \in ExitKinds : MainExits(c, e)
    \/ Overflow(c)
    \/ Timeout(c)
    \/ Close(c)

-----------------------------------------------------------------------------

\* A timeout that raced the exit of the main process is reported as a timeout
\* whatever code the process exited with, and a pass is never reported of a
\* process that did not exit with 0.
VerdictIsHonest ==
    \A c \in Child : tree[c].phase = "settled" =>
        /\ tree[c].timer = "fired" => StageStatus(tree[c]) = "timeout"
        /\ StageStatus(tree[c]) = "pass" => tree[c].exit = "exit0"

\* After the promise has settled nothing of the child's closure acts any more:
\* the group id may belong to somebody else by then, so no signal is sent to it.
\* A helper out of the group may still live its own life.
NoSignalAfterSettled ==
    [][\A c \in Child : tree[c].phase = "settled" =>
         tree'[c] = [tree[c] EXCEPT !.helpers = tree'[c].helpers]]_tree
=============================================================================
