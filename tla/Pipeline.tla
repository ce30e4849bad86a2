------------------------------ MODULE Pipeline ------------------------------
(* The data pipeline as processes: slack_log/pipeline/__main__.py under      *)
(* slack_log/lock.py, and the two ways around that lock the repository ships:*)
(* scripts/refresh.sh and the standalone submodules (make split / attach /   *)
(* index).  Every process runs its steps over the same three artefacts,      *)
(* raw/slackdump.sqlite, the jsonl layer under data/ and search.db.          *)
(*                                                                           *)
(* A version is a number of deltas slackdump has written; data and db carry  *)
(* the version of raw they were derived from, 0 standing for "absent or not  *)
(* a whole snapshot".                                                        *)
EXTENDS Integers

CONSTANTS
    Procs,      \* the invocations, each of which may be started again and again
    Kind,       \* Kind[p]: what p runs
    Profile,    \* --profile / SLACK_LOG_PROFILE, the same for a deployment
    EmitJsonl,  \* SLACK_LOG_EMIT_JSONL, read by refresh.sh only
    KillAt,     \* where a process may be killed (SIGKILL, SIGTERM, OOM)
    MaxRaw,     \* bound: deltas slackdump writes in a behaviour
    MaxKills,   \* bound: kills in a behaviour
    NoProc      \* the content of a lock file that names no process

Steps == {"fetch", "split", "attach", "index"}
Standalone == {"split", "attach", "index"}
Kinds == {"build", "refresh"} \cup Standalone
Stops == {"opened", "locked", "ready", "leaving", "closing"}

ASSUME PipelineAssumption ==
    /\ Kind \in [Procs -> Kinds]
    /\ Profile \in {"personal", "team"}
    /\ EmitJsonl \in BOOLEAN
    /\ KillAt \subseteq Stops \cup Steps
    /\ MaxRaw \in Nat
    /\ MaxKills \in Nat
    /\ NoProc \notin Procs

VARIABLES
    pc,       \* where a process is: a stop between steps, or busy in one;
              \* "headless" is the step of a refresh.sh whose shell was killed
    step,     \* the step it is in or comes to next, "done" after the last
    fds,      \* processes with an open descriptor on the lock file
    flock,    \* processes whose descriptor holds LOCK_EX
    pidfile,  \* the pid in the lock file
    child,    \* processes whose slackdump child is running
    orphans,  \* running slackdumps whose parent was killed
    seen,     \* version the output of a busy process will have
    raw, data, db,
    kills

artefacts == <<raw, data, db>>
lockVars == <<fds, flock, pidfile>>
vars == <<pc, step, fds, flock, pidfile, child, orphans, seen, raw, data, db, kills>>

-----------------------------------------------------------------------------
(* The order of the steps.                                                   *)

First(p) == IF Kind[p] \in Standalone THEN Kind[p] ELSE "fetch"

\* Mutation: the index is built before the split it reads.
BuildAfterIndexFirst(s) ==
    [fetch |-> "index", index |-> "split", split |-> "attach", attach |-> "done"][s]

\* run() of __main__.py.
BuildAfter(s) ==
    IF Profile = "personal"
    THEN [fetch |-> "split", split |-> "attach", attach |-> "index", index |-> "done"][s]
    ELSE [fetch |-> "index", index |-> "attach", attach |-> "done"][s]

\* The two branches of refresh.sh; the team one may also write the jsonl layer.
RefreshAfter(s) ==
    IF Profile = "personal"
    THEN [fetch |-> "split", split |-> "attach", attach |-> "index", index |-> "done"][s]
    ELSE [fetch |-> IF EmitJsonl THEN "split" ELSE "index",
          split |-> "index", index |-> "attach", attach |-> "done"][s]

After(p, s) ==
    CASE Kind[p] = "build" -> BuildAfter(s)
      [] Kind[p] = "refresh" -> RefreshAfter(s)
      [] Kind[p] \in Standalone -> "done"

\* What a step reads and writes; "files" is data/channels/*/attachments.
Reads(s) ==
    CASE s = "fetch"  -> {}
      [] s = "split"  -> {"raw"}
      [] s = "attach" -> IF Profile = "team" THEN {"db"} ELSE {"data"}
      [] s = "index"  -> IF Profile = "team" THEN {"raw"} ELSE {"data"}

Writes(s) ==
    CASE s = "fetch"  -> {"raw"}
      [] s = "split"  -> {"data"}
      [] s = "attach" -> {"files"}
      [] s = "index"  -> {"db"}

Busy(p) == pc[p] \in {"busy", "headless"}
Touches(p, a) == Busy(p) /\ a \in Reads(step[p]) \cup Writes(step[p])

\* The version a step that starts now works from, and whether it has a source:
\* sqlite creates a missing file, but it then has no MESSAGE table.
SourceVersion(s) == IF "raw" \in Reads(s) THEN raw ELSE data
HasSource(s) == "raw" \in Reads(s) => raw # 0

\* Leaving the step list: a locked build still has its finally clauses to run.
Exit(p) == IF Kind[p] = "build" THEN "leaving" ELSE "idle"

\* Nobody starts another step after the one of a shell that is dead.
Advance(p) ==
    /\ step' = [step EXCEPT ![p] = After(p, step[p])]
    /\ pc' = [pc EXCEPT ![p] =
                 IF After(p, step[p]) = "done" \/ pc[p] = "headless"
                 THEN Exit(p) ELSE "ready"]

\* Mutation: a failed step is tried again, without end.
RaiseRetry(p) ==
    /\ pc' = [pc EXCEPT ![p] = "ready"]
    /\ UNCHANGED step

Raise(p) ==
    /\ pc' = [pc EXCEPT ![p] = Exit(p)]
    /\ UNCHANGED step

-----------------------------------------------------------------------------
Init ==
    /\ pc = [p \in Procs |-> "idle"]
    /\ step = [p \in Procs |-> First(p)]
    /\ fds = {}
    /\ flock = {}
    /\ pidfile = NoProc
    /\ child = {}
    /\ orphans = 0
    /\ seen = [p \in Procs |-> 0]
    /\ raw = 0 /\ data = 0 /\ db = 0
    /\ kills = 0

(* Mutations: what a plausible change of the code would do.                  *)

\* The lock attempt does not look at the lock.
LockUnchecked(p) ==
    /\ pc[p] = "opened"
    /\ flock' = flock \cup {p}
    /\ pc' = [pc EXCEPT ![p] = "locked"]
    /\ UNCHANGED <<step, fds, pidfile, child, orphans, seen, artefacts, kills>>

\* LOCK_NB is missing: the attempt waits for the holder.
RefuseNever(p) == pc[p] = "opened" /\ flock # {} /\ UNCHANGED vars

\* The pid is written before the lock is tried.
RefuseAfterPid(p) ==
    /\ pc[p] = "opened" /\ flock # {}
    /\ fds' = fds \ {p}
    /\ pidfile' = p
    /\ pc' = [pc EXCEPT ![p] = "idle"]
    /\ UNCHANGED <<step, flock, child, orphans, seen, artefacts, kills>>

\* slackdump is started and not waited for (Popen instead of run).
FetchDetached(p) ==
    /\ pc[p] = "ready" /\ step[p] = "fetch"
    /\ child' = child \cup {p}
    /\ Advance(p)
    /\ UNCHANGED <<lockVars, orphans, seen, artefacts, kills>>

\* The ftruncate is missing: a shorter pid is written over a longer one.
RecordPidNoTruncate(p) ==
    /\ pc[p] = "locked"
    /\ pidfile' = IF pidfile \in {NoProc, p} THEN p ELSE <<p, pidfile>>
    /\ pc' = [pc EXCEPT ![p] = "ready"]
    /\ UNCHANGED <<step, fds, flock, child, orphans, seen, artefacts, kills>>

\* The lock is a file: it outlives the process that made it.
KillLeavesLock(p) ==
    /\ pc[p] # "idle" /\ kills < MaxKills
    /\ kills' = kills + 1
    /\ pc' = [pc EXCEPT ![p] = "idle"]
    /\ fds' = fds \ {p}
    /\ child' = child \ {p}
    /\ UNCHANGED <<step, flock, pidfile, orphans, seen, artefacts>>

-----------------------------------------------------------------------------
(* Entering.                                                                 *)

\* refresh.sh and the submodules go straight to work: they take no lock.
Start(p) ==
    /\ pc[p] = "idle" /\ Kind[p] # "build"
    /\ pc' = [pc EXCEPT ![p] = "ready"]
    /\ step' = [step EXCEPT ![p] = First(p)]
    /\ UNCHANGED <<lockVars, child, orphans, seen, artefacts, kills>>

\* build_lock: os.open of the lock file.
Open(p) ==
    /\ pc[p] = "idle" /\ Kind[p] = "build"
    /\ pc' = [pc EXCEPT ![p] = "opened"]
    /\ step' = [step EXCEPT ![p] = First(p)]
    /\ fds' = fds \cup {p}
    /\ UNCHANGED <<flock, pidfile, child, orphans, seen, artefacts, kills>>

\* flock(LOCK_EX | LOCK_NB) on a lock nobody holds.
Lock(p) ==
    /\ pc[p] = "opened"
    /\ flock = {}
    /\ flock' = {p}
    /\ pc' = [pc EXCEPT ![p] = "locked"]
    /\ UNCHANGED <<step, fds, pidfile, child, orphans, seen, artefacts, kills>>

\* flock on a held lock: close the descriptor, BuildLockHeld, exit status 1.
Refuse(p) ==
    /\ pc[p] = "opened"
    /\ flock # {}
    /\ fds' = fds \ {p}
    /\ pc' = [pc EXCEPT ![p] = "idle"]
    /\ UNCHANGED <<step, flock, pidfile, child, orphans, seen, artefacts, kills>>

\* ftruncate and write of the pid; an OSError of either still runs the finally.
RecordPid(p) ==
    /\ pc[p] = "locked"
    /\ \/ pidfile' = p /\ pc' = [pc EXCEPT ![p] = "ready"]
       \/ pidfile' \in {pidfile, NoProc} /\ pc' = [pc EXCEPT ![p] = "leaving"]
    /\ UNCHANGED <<step, fds, flock, child, orphans, seen, artefacts, kills>>

(* fetch: the slackdump child.                                               *)

\* subprocess.run of `slackdump archive` (no raw yet) or `slackdump resume`.
Fetch(p) ==
    /\ pc[p] = "ready" /\ step[p] = "fetch"
    /\ pc' = [pc EXCEPT ![p] = "busy"]
    /\ child' = child \cup {p}
    /\ UNCHANGED <<step, lockVars, orphans, seen, artefacts, kills>>

\* load_token finds no credentials, or refresh.sh's workspace import fails.
FetchRefused(p) ==
    /\ pc[p] = "ready" /\ step[p] = "fetch"
    /\ Raise(p)
    /\ UNCHANGED <<lockVars, child, orphans, seen, artefacts, kills>>

\* A running slackdump, orphaned or not, writes a delta: whoever reads raw at
\* that moment ends up with a mixture of versions.
SlackdumpWrites ==
    /\ child # {} \/ orphans > 0
    /\ raw < MaxRaw
    /\ raw' = raw + 1
    /\ seen' = [q \in Procs |-> IF Touches(q, "raw") THEN 0 ELSE seen[q]]
    /\ UNCHANGED <<pc, step, lockVars, child, orphans, data, db, kills>>

\* check=True / set -e: a non-zero exit status of slackdump ends the run.
SlackdumpExits(p) ==
    /\ p \in child
    /\ child' = child \ {p}
    /\ Advance(p) \/ Raise(p)
    /\ UNCHANGED <<lockVars, orphans, seen, artefacts, kills>>

OrphanExits ==
    /\ orphans > 0
    /\ orphans' = orphans - 1
    /\ UNCHANGED <<pc, step, lockVars, child, seen, artefacts, kills>>

(* split, attach, index.                                                     *)

\* A step starts over its artefact: the old content is gone (build_index
\* unlinks search.db, split truncates file by file), and whoever touches that
\* artefact at the same time, this process included, gets a mixture.
BeginStep(p) ==
    LET touched(q) == q # p /\ \E a \in Writes(step[p]) : Touches(q, a)
        clash == \E q \in Procs : q # p /\ Busy(q) /\ Writes(step[q]) \cap
                                    (Reads(step[p]) \cup Writes(step[p])) # {}
    IN  /\ pc[p] = "ready" /\ step[p] # "fetch"
        /\ pc' = [pc EXCEPT ![p] = "busy"]
        /\ seen' = [q \in Procs |->
                       IF q = p THEN IF clash THEN 0 ELSE SourceVersion(step[p])
                       ELSE IF touched(q) THEN 0 ELSE seen[q]]
        /\ data' = IF step[p] = "split" THEN 0 ELSE data
        /\ db' = IF step[p] = "index" THEN 0 ELSE db
        /\ UNCHANGED <<step, lockVars, child, orphans, raw, kills>>

EndStep(p) ==
    /\ Busy(p) /\ step[p] # "fetch"
    /\ HasSource(step[p])
    /\ data' = IF step[p] = "split" THEN seen[p] ELSE data
    /\ db' = IF step[p] = "index" THEN seen[p] ELSE db
    /\ Advance(p)
    /\ UNCHANGED <<lockVars, child, orphans, seen, raw, kills>>

\* An exception or a non-zero status.  refresh.sh carries on after a failed
\* attach (timeout 1200 ... || echo); run() propagates everything.
FailStep(p) ==
    /\ Busy(p) /\ step[p] # "fetch"
    /\ IF Kind[p] = "refresh" /\ step[p] = "attach" THEN Advance(p) ELSE Raise(p)
    /\ UNCHANGED <<lockVars, child, orphans, seen, artefacts, kills>>

(* Leaving.                                                                  *)

\* finally: flock(LOCK_UN), on success and on every exception.
Unlock(p) ==
    /\ pc[p] = "leaving"
    /\ flock' = flock \ {p}
    /\ pc' = [pc EXCEPT ![p] = "closing"]
    /\ UNCHANGED <<step, fds, pidfile, child, orphans, seen, artefacts, kills>>

\* finally: os.close, and main returns.
Close(p) ==
    /\ pc[p] = "closing"
    /\ fds' = fds \ {p}
    /\ pc' = [pc EXCEPT ![p] = "idle"]
    /\ UNCHANGED <<step, flock, pidfile, child, orphans, seen, artefacts, kills>>

At(p) == IF Busy(p) THEN step[p] ELSE pc[p]

\* What a kill leaves of a process: nothing, or the split, attach or index that
\* a refresh.sh runs as a child and that nobody kills with the shell.
Remains(p) ==
    {"idle"} \cup {s \in {"headless"} :
                      Kind[p] = "refresh" /\ pc[p] = "busy" /\ p \notin child}

\* The process dies: the kernel closes its descriptor and drops the flock with
\* it (os.open is close-on-exec, so slackdump never shares the descriptor),
\* but nobody kills the slackdump child.
Kill(p) ==
    /\ At(p) \in KillAt
    /\ kills < MaxKills
    /\ kills' = kills + 1
    /\ \E s \in Remains(p) : pc' = [pc EXCEPT ![p] = s]
    /\ fds' = fds \ {p}
    /\ flock' = flock \ {p}
    /\ child' = child \ {p}
    /\ orphans' = IF p \in child THEN orphans + 1 ELSE orphans
    /\ UNCHANGED <<step, pidfile, seen, artefacts>>

Enter(p) == Lock(p) \/ Refuse(p)

Work(p) ==
    \/ RecordPid(p) \/ Fetch(p) \/ FetchRefused(p) \/ SlackdumpExits(p)
    \/ BeginStep(p) \/ EndStep(p) \/ FailStep(p)
    \/ Unlock(p) \/ Close(p)

Next ==
    \/ \E p \in Procs : Start(p) \/ Open(p) \/ Enter(p) \/ Work(p) \/ Kill(p)
    \/ SlackdumpWrites
    \/ OrphanExits

Spec == Init /\ [][Next]_vars

\* The operating system runs a process that can run.  Nothing is assumed of
\* slackdump, which may talk to Slack for ever, nor of who starts what.
LiveSpec ==
    /\ Spec
    /\ \A p \in Procs : WF_vars(Enter(p)) /\ WF_vars(Work(p) /\ p \notin child)

-----------------------------------------------------------------------------
Builders == {p \in Procs : Kind[p] = "build"}
Holding == {p \in Builders : pc[p] \in {"locked", "ready", "busy", "leaving"}}

TypeOK ==
    /\ pc \in [Procs -> Stops \cup {"idle", "busy", "headless"}]
    /\ step \in [Procs -> Steps \cup {"done"}]
    /\ fds \subseteq Builders
    /\ flock \subseteq Builders
    /\ pidfile \in Builders \cup {NoProc}
    /\ child \subseteq Procs
    /\ orphans \in Nat
    /\ seen \in [Procs -> Nat]
    /\ raw \in Nat /\ data \in Nat /\ db \in Nat
    /\ kills \in Nat

\* "Only one build at a time" (build_lock): between the flock call that
\* succeeds and the LOCK_UN of the finally there is at most one process,
\* whatever was killed before.
OneBuild == \A p, q \in Holding : p = q

\* "The kernel releases it when the process exits ... no stale lock left
\* behind" (lock.py), and no build works without it: the lock is held exactly
\* by the builds between their flock and their LOCK_UN, and no refused, failed
\* or dead one keeps a descriptor.
NoStaleLock ==
    /\ flock = Holding
    /\ fds = {p \in Builders : pc[p] # "idle"}

\* The pid "recorded for debugging" is the holder's for as long as it builds:
\* a refused build must not have overwritten it.
PidNamesHolder ==
    \A p \in Holding : pc[p] \in {"ready", "busy"} => pidfile = p

\* "Concurrent builds can't corrupt raw/slackdump.sqlite + search.db": nobody
\* writes an artefact another process reads or writes at that moment, a
\* slackdump whose parent is dead counted among the writers of raw.
NoConcurrentAccess ==
    /\ \A p, q \in Procs :
          p # q /\ Busy(p) => \A a \in Writes(step[p]) : ~Touches(q, a)
    /\ orphans > 0 => \A p \in Procs : ~Touches(p, "raw")

\* A build that ran to its end leaves three artefacts that agree: what it
\* indexed (and, personal, what it split) is the raw its own fetch left.
DoneIsSnapshot ==
    \A p \in Builders : pc[p] = "leaving" /\ step[p] = "done" =>
        /\ raw # 0
        /\ db = raw
        /\ Profile = "personal" => data = raw

\* A second build that cannot have the lock does not wait for it: it is out
\* again (or in) however long the holder takes (LOCK_NB), a holder whose
\* slackdump never comes back included (LiveSpec).
NonBlocking ==
    \A p \in Procs : pc[p] = "opened" ~> pc[p] # "opened"

\* Whatever fails or dies, an invocation comes to an end and another one can
\* be started in its place, unless it waits for its slackdump (LiveSpec).
Terminates ==
    \A p \in Procs : pc[p] # "idle" ~> pc[p] = "idle" \/ p \in child

\* The refinement: the build inside is the one between flock and LOCK_UN.
Abs == INSTANCE ExclusiveBuild WITH Builds <- Builders, active <- Holding
ImplementsExclusiveBuild == Abs!Spec
=============================================================================
