----------------------------- MODULE ManagedSetup -----------------------------
(***************************************************************************)
(* `proped setup` (crates/proped-cli/src/setup.rs): processes that prepare *)
(* the runtimes of one release below a root the user's processes share.    *)
(* Each part is reused when it is ready, else prepared in a staging        *)
(* directory, verified and promoted by renames.  A process may crash       *)
(* between two calls and leave its directories to a later one of its pid.  *)
(*                                                                         *)
(* Contents of a place: "absent", "old" (there before, not ready),         *)
(* "partial" (being filled), "bad" (filled, but not with what was asked    *)
(* for) and "ready".                                                       *)
(***************************************************************************)
EXTENDS Naturals, FiniteSets

CONSTANTS
    Pids,
    Installed,  \* what earlier releases and interrupted setups may have left in place
    MaxRuns, MaxFaults, MaxCrashes  \* bounds of the model

Parts == {"node", "js", "browsers"}
Kept == {"absent", "old", "ready"}
Contents == {"absent", "old", "partial", "bad", "ready"}

ASSUME SetupAssumption ==
    Installed \subseteq [Parts -> Kept]

VARIABLES
    system,   \* a Node with npm is installed: no managed one is needed
    final,    \* the promoted directories
    archive,  \* the download cache
    partial, staging, backup,  \* per process: .part-PID, .staging-PID, .X-old-PID
    process,  \* per process: its step, part, had_destination, and of its run
              \* whether it is alone, how many calls failed, what it found
    started, faults, crashes

places == <<final, archive, partial, staging, backup>>
counts == <<started, faults, crashes>>
setupVars == <<system, places, process, counts>>

Ended == {"idle", "ok", "failed"}
SetupSteps == {"check", "look", "discard", "download", "hash", "prepare", "fill", "verify",
               "clear", "swapOut", "swapIn", "restore", "recheck", "probe"}
Running(p) == process[p].step \notin Ended

SetupInit ==
    /\ system \in BOOLEAN
    /\ final \in Installed
    /\ archive \in Kept
    /\ partial = [p \in Pids |-> "absent"]
    /\ staging = [p \in Pids |-> [x \in Parts |-> "absent"]] /\ backup = staging
    /\ process = [p \in Pids |-> [step |-> "idle", part |-> "node", had |-> FALSE,
                             alone |-> TRUE, faults |-> 0, found |-> final]]
    /\ started = 0 /\ faults = 0 /\ crashes = 0

NodeWorks == system \/ final["node"] = "ready"

\* managed_node_if_ready, managed_js_ready and runtime_probe, with the browsers
\* of the content given.
Works(part, content) ==
    content = "ready" /\ (part = "browsers" => NodeWorks /\ final["js"] = "ready")
Ready(part) == Works(part, final[part])

Goto(p, step) == process' = [process EXCEPT ![p].step = step]
Advance(p) ==
    LET part == process[p].part
    IN IF part = "browsers" THEN Goto(p, "probe")
       ELSE process' = [process EXCEPT ![p].step = "check",
                             ![p].part = IF part = "node" THEN "js" ELSE "browsers"]
At(p, step) == process[p].step = step /\ UNCHANGED <<system, counts>>

-----------------------------------------------------------------------------
\* run_setup begins; the other processes are no longer alone.
Begin(p) ==
    /\ ~Running(p) /\ started < MaxRuns
    /\ process' = [q \in Pids |->
                IF q = p THEN [step |-> "check", part |-> IF system THEN "js" ELSE "node",
                               had |-> FALSE, alone |-> \A r \in Pids : ~Running(r),
                               faults |-> 0, found |-> final]
                ELSE [process[q] EXCEPT !.alone = FALSE]]
    /\ started' = started + 1
    /\ UNCHANGED <<system, places, faults, crashes>>

\* A slip: what is there is always prepared again.
CheckUnasked(p) ==
    /\ At(p, "check")
    /\ IF process[p].part = "node" THEN Goto(p, "look") ELSE Goto(p, "prepare")
    /\ UNCHANGED places
Check(p) ==
    /\ At(p, "check")
    /\ IF Ready(process[p].part) THEN Advance(p)
       ELSE IF process[p].part = "node" THEN Goto(p, "look") ELSE Goto(p, "prepare")
    /\ UNCHANGED places

\* acquire_node_archive: the cached archive is used when its hash is right, else
\* removed and downloaded.
LookUp(p) ==
    /\ At(p, "look")
    /\ Goto(p, IF archive = "ready" THEN "prepare" ELSE IF archive = "absent" THEN "download" ELSE "discard")
    /\ UNCHANGED places

Discard(p) ==
    /\ At(p, "discard") /\ Goto(p, "download") /\ archive' = "absent"
    /\ UNCHANGED <<final, partial, staging, backup>>

Download(p) ==
    /\ At(p, "download") /\ Goto(p, "hash") /\ partial' = [partial EXCEPT ![p] = "ready"]
    /\ UNCHANGED <<final, archive, staging, backup>>

Hash(p) ==
    /\ At(p, "hash") /\ partial' = [partial EXCEPT ![p] = "absent"]
    /\ IF partial[p] = "ready" THEN archive' = "ready" /\ Goto(p, "prepare")
       ELSE Goto(p, "failed") /\ UNCHANGED archive
    /\ UNCHANGED <<final, staging, backup>>

\* What was left of an earlier process of this pid is removed first; the browsers
\* are only begun with the JS runtime in place.
Prepare(p) ==
    /\ At(p, "prepare")
    /\ IF process[p].part = "browsers" /\ final["js"] # "ready" THEN Goto(p, "failed") /\ UNCHANGED staging
       ELSE staging' = [staging EXCEPT ![p][process[p].part] = "partial"] /\ Goto(p, "fill")
    /\ UNCHANGED <<final, archive, partial, backup>>

\* Extraction, npm ci with the selected Node, playwright install.
Source(part) ==
    CASE part = "node" -> archive = "ready"
      [] part = "js" -> NodeWorks
      [] part = "browsers" -> NodeWorks /\ final["js"] = "ready"
Fill(p) ==
    /\ At(p, "fill")
    /\ staging' = [staging EXCEPT ![p][process[p].part] = IF Source(process[p].part) THEN "ready" ELSE "absent"]
    /\ Goto(p, IF Source(process[p].part) THEN "verify" ELSE "failed")
    /\ UNCHANGED <<final, archive, partial, backup>>

\* A slip: what was staged is promoted as it is.
VerifyUnasked(p) == At(p, "verify") /\ Goto(p, "clear") /\ UNCHANGED places
VerifyStaged(p) ==
    /\ At(p, "verify")
    /\ IF Works(process[p].part, staging[p][process[p].part]) THEN Goto(p, "clear") /\ UNCHANGED staging
       ELSE /\ Goto(p, "failed")
            /\ \/ process[p].part # "js" /\ staging' = [staging EXCEPT ![p][process[p].part] = "absent"]
               \/ process[p].part # "browsers" /\ UNCHANGED staging
    /\ UNCHANGED <<final, archive, partial, backup>>

-----------------------------------------------------------------------------
\* promote_directory: an earlier backup of this pid is removed, the destination
\* looked for,
Clear(p) ==
    /\ At(p, "clear") /\ backup' = [backup EXCEPT ![p][process[p].part] = "absent"]
    /\ LET had == final[process[p].part] # "absent"
       IN process' = [process EXCEPT ![p].had = had, ![p].step = IF had THEN "swapOut" ELSE "swapIn"]
    /\ UNCHANGED <<final, archive, partial, staging>>

\* moved to the backup (a rename needs its source, and no directory at its target),
SwapOut(p) ==
    /\ At(p, "swapOut")
    /\ LET part == process[p].part
       IN IF final[part] # "absent" /\ backup[p][part] = "absent"
          THEN /\ backup' = [backup EXCEPT ![p][part] = final[part]]
               /\ final' = [final EXCEPT ![part] = "absent"] /\ Goto(p, "swapIn")
          ELSE Goto(p, "failed") /\ UNCHANGED <<final, backup>>
    /\ UNCHANGED <<archive, partial, staging>>

GiveUp(p) == Goto(p, IF process[p].had THEN "restore" ELSE "failed")

\* the staged directory moved in its place and the backup removed,
SwapIn(p) ==
    /\ At(p, "swapIn")
    /\ LET part == process[p].part
       IN IF final[part] = "absent"
          THEN /\ final' = [final EXCEPT ![part] = staging[p][part]]
               /\ staging' = [staging EXCEPT ![p][part] = "absent"]
               /\ backup' = [backup EXCEPT ![p][part] = IF process[p].had THEN "absent" ELSE @]
               /\ Goto(p, "recheck")
          ELSE GiveUp(p) /\ UNCHANGED <<final, staging, backup>>
    /\ UNCHANGED <<archive, partial>>

\* A slip: the backup replaces what is there.
RestoreOver(p) ==
    /\ At(p, "restore") /\ Goto(p, "failed")
    /\ final' = [final EXCEPT ![process[p].part] = backup[p][process[p].part]]
    /\ UNCHANGED <<archive, partial, staging, backup>>

\* or, when that fails, the backup moved back if nothing is there.
Restore(p) ==
    /\ At(p, "restore") /\ Goto(p, "failed")
    /\ LET part == process[p].part
       IN IF final[part] = "absent"
          THEN /\ final' = [final EXCEPT ![part] = backup[p][part]]
               /\ backup' = [backup EXCEPT ![p][part] = "absent"]
          ELSE UNCHANGED <<final, backup>>
    /\ UNCHANGED <<archive, partial, staging>>

\* The part is checked again where it was promoted to.
Recheck(p) ==
    /\ At(p, "recheck")
    /\ IF Ready(process[p].part) THEN Advance(p) ELSE Goto(p, "failed")
    /\ UNCHANGED places

\* verify_runtime
Probe(p) ==
    /\ At(p, "probe") /\ Goto(p, IF Ready("browsers") THEN "ok" ELSE "failed")
    /\ UNCHANGED places

-----------------------------------------------------------------------------
\* A call that fails, or a download or an installation that delivers something
\* else.  An installation that fails is removed, a failed probe of the staged
\* browsers too.
Faulty(p) == process' = [process EXCEPT ![p].faults = @ + 1,
                              ![p].step = CASE @ = "download" -> "hash"
                                            [] @ = "fill" -> "verify"
                                            [] @ = "swapIn" /\ process[p].had -> "restore"
                                            [] OTHER -> "failed"]
Fault(p) ==
    /\ Running(p) /\ faults < MaxFaults /\ faults' = faults + 1 /\ Faulty(p)
    /\ process[p].step \in {"download", "prepare", "fill", "clear", "swapOut", "swapIn", "restore",
                       "recheck", "probe"}
    /\ CASE process[p].step = "download" -> partial' = [partial EXCEPT ![p] = "bad"] /\ UNCHANGED staging
         [] process[p].step = "fill" -> staging' = [staging EXCEPT ![p][process[p].part] = "bad"] /\ UNCHANGED partial
         [] OTHER -> UNCHANGED <<partial, staging>>
    /\ UNCHANGED <<system, final, archive, backup, started, crashes>>

\* The backup of a promotion that succeeded is not removed, and nobody notices.
Leftover(p) ==
    /\ process[p].step = "swapIn" /\ process[p].had /\ final[process[p].part] = "absent" /\ faults < MaxFaults
    /\ LET part == process[p].part
       IN /\ final' = [final EXCEPT ![part] = staging[p][part]]
          /\ staging' = [staging EXCEPT ![p][part] = "absent"]
    /\ Goto(p, "recheck") /\ faults' = faults + 1
    /\ UNCHANGED <<system, archive, partial, backup, started, crashes>>

\* The process is killed.
Crash(p) ==
    /\ Running(p) /\ crashes < MaxCrashes /\ crashes' = crashes + 1 /\ Goto(p, "idle")
    /\ UNCHANGED <<system, places, started, faults>>

\* Between two setups a directory comes to be unready: another release replaced the
\* browsers, the lock of this one changed, a file was lost.
Spoil(x) ==
    /\ \A p \in Pids : ~Running(p)
    /\ final[x] = "ready" /\ final' = [final EXCEPT ![x] = "old"]
    /\ faults < MaxFaults /\ faults' = faults + 1
    /\ UNCHANGED <<system, archive, partial, staging, backup, process, started, crashes>>

SetupStep(p) ==
    \/ Begin(p) \/ Check(p) \/ LookUp(p) \/ Discard(p) \/ Download(p) \/ Hash(p)
    \/ Prepare(p) \/ Fill(p) \/ VerifyStaged(p) \/ Clear(p) \/ SwapOut(p) \/ SwapIn(p)
    \/ Restore(p) \/ Recheck(p) \/ Probe(p) \/ Fault(p) \/ Leftover(p) \/ Crash(p)

SetupNext == (\E p \in Pids : SetupStep(p)) \/ (\E x \in Parts : Spoil(x))
SetupSpec == SetupInit /\ [][SetupNext]_setupVars

-----------------------------------------------------------------------------
Process == [step : Ended \cup SetupSteps, part : Parts, had : BOOLEAN,
            alone : BOOLEAN, faults : Nat, found : [Parts -> Contents]]

SetupTypeOK ==
    /\ system \in BOOLEAN /\ final \in [Parts -> Contents] /\ archive \in Contents
    /\ partial \in [Pids -> Contents]
    /\ staging \in [Pids -> [Parts -> Contents]] /\ backup \in [Pids -> [Parts -> Contents]]
    /\ process \in [Pids -> Process]

\* Whoever crashes, fails or runs beside another, only what was verified is ever
\* promoted or kept in the cache: no directory in place is half filled or wrong
\* ("must not leave a partially prepared runtime reported as healthy").
OnlyVerified ==
    /\ SetupTypeOK
    /\ \A x \in Parts : final[x] \in Kept
    /\ archive \in Kept

\* A setup that runs alone, whose calls succeed, succeeds, whatever processes before
\* it left behind when they crashed or failed.
UndisturbedSucceeds ==
    \A p \in Pids : process[p].step = "failed" /\ process[p].alone => process[p].faults > 0

\* A part that was ready is not prepared again ("a healthy second run does not
\* reinstall").
ReadyReused ==
    \A p \in Pids : Running(p) /\ process[p].alone =>
        \A x \in Parts : process[p].found[x] = "ready" => final[x] = "ready"

\* One failed call does not cost the directory that was there.
OldRestored ==
    \A p \in Pids : process[p].step = "failed" /\ process[p].alone /\ process[p].faults = 1 =>
        \A x \in Parts : process[p].found[x] # "absent" => final[x] # "absent"

\* A setup that runs alone succeeds where it can and takes nothing away that it does not
\* replace.
LosesNothing == UndisturbedSucceeds /\ ReadyReused /\ OldRestored

\* When no call failed and nobody crashed, no runtime is missing once every setup has ended
\* and one has succeeded, however they ran into each other, and all are ready where no more
\* than two did: of three, one that comes back may find absent what the third moved away and
\* put the outdated directory in place again.
Needed == IF system THEN Parts \ {"node"} ELSE Parts
AtMostTwo == \A p, q, r \in Pids : p = q \/ q = r \/ p = r
SuccessSettles ==
    (\A p \in Pids : ~Running(p)) /\ (\E p \in Pids : process[p].step = "ok") /\ faults + crashes = 0 =>
        \A x \in Needed : final[x] # "absent" /\ (AtMostTwo => final[x] = "ready")
=============================================================================
