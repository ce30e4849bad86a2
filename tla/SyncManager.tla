----------------------------- MODULE SyncManager ----------------------------
(* The server's refresh runs: SyncManager of slack_log/web/sync.py, the      *)
(* scheduler loop and the POST /sync handler that trigger it, the refresh.sh *)
(* processes it spawns, and the container they all run in.                   *)
(*                                                                           *)
(* One event loop runs the server, so a coroutine is atomic from one await   *)
(* to the next: an action is what happens between two awaits.                *)
EXTENDS Integers, FiniteSets

CONSTANTS
    Pids,       \* pids a refresh.sh may have (bound: how many live at once)
    Scheduled,  \* SLACK_LOG_SYNC_INTERVAL > 0
    TokenSet,   \* SLACK_LOG_SYNC_TOKEN is configured
    LongLines,  \* refresh.sh may print a line above the StreamReader limit
    ByHand,     \* deploy/k8s/README.md: refresh.sh run by hand in the pod
    NoPid

ASSUME SyncAssumption ==
    /\ NoPid \notin Pids
    /\ {Scheduled, TokenSet, LongLines, ByHand} \subseteq BOOLEAN

VARIABLES
    running,  \* _running
    task,     \* where the coroutine _run is suspended, "none" without one
    proc,     \* pid of the refresh the last _run spawned
    stamp,    \* the later of last_started and last_finished
    trigger,  \* last_trigger
    result,   \* last_result
    live,     \* refresh.sh processes that are running
    code,     \* their exit status, "none" while they run
    strays    \* history: the live ones the manager did not start or has left

vars == <<running, task, proc, stamp, trigger, result, live, code, strays>>
scripts == <<live, code, strays>>
server == <<running, task, proc, stamp, trigger, result>>

TypeOK ==
    /\ running \in BOOLEAN
    /\ task \in {"none", "created", "reading", "waiting"}
    /\ proc \in Pids \cup {NoPid}
    /\ stamp \in {"none", "started", "finished"}
    /\ trigger \in {"", "scheduled", "api"}
    /\ result \in {"never", "success", "failed"}
    /\ live \subseteq Pids
    /\ code \in [Pids -> {"none", "zero", "nonzero"}]
    /\ strays \subseteq live

Init ==
    /\ running = FALSE
    /\ task = "none"
    /\ proc = NoPid
    /\ stamp = "none"
    /\ trigger = ""
    /\ result = "never"
    /\ live = {}
    /\ code = [p \in Pids |-> "none"]
    /\ strays = {}

-----------------------------------------------------------------------------
(* Mutations.                                                                *)

\* trigger awaits between the check and the set: both callers pass the check.
TriggerUnchecked(reason) ==
    /\ running' = TRUE
    /\ stamp' = "started"
    /\ trigger' = reason
    /\ task' = "created"
    /\ UNCHANGED <<proc, result, scripts>>

\* The result is read before the process has been waited for.
EndOfOutputTooEarly ==
    /\ task = "reading"
    /\ running' = FALSE /\ task' = "none" /\ stamp' = "finished"
    /\ result' = "success"
    /\ UNCHANGED <<proc, trigger, scripts>>

\* The exit status itself is stored as the result.
ReapRaw ==
    /\ task = "waiting"
    /\ result' = code[proc]
    /\ running' = FALSE /\ task' = "none" /\ stamp' = "finished"
    /\ UNCHANGED <<proc, trigger, scripts>>

\* The finally does not reset _running.
SpawnFailsStuck ==
    /\ task = "created"
    /\ result' = "failed" /\ task' = "none" /\ stamp' = "finished"
    /\ UNCHANGED <<running, proc, trigger, scripts>>

\* The scheduler awaits one refresh and returns instead of looping.
TickOnce ==
    /\ Scheduled /\ ~running /\ stamp = "none"
    /\ running' = TRUE /\ stamp' = "started" /\ trigger' = "scheduled"
    /\ task' = "created"
    /\ UNCHANGED <<proc, result, scripts>>

-----------------------------------------------------------------------------
\* trigger(reason): up to the create_task there is no await.
Trigger(reason) ==
    /\ ~running
    /\ running' = TRUE
    /\ stamp' = "started"
    /\ trigger' = reason
    /\ task' = "created"
    /\ UNCHANGED <<proc, result, scripts>>

\* scheduler_loop after its sleep; a tick during a refresh changes nothing.
Tick == Scheduled /\ Trigger("scheduled")

\* POST /sync with a token: 202, or 503 / 401 / 409 and no change.
Post(authorized) == TokenSet /\ authorized /\ Trigger("api")

\* The finally of _run.
Finish ==
    /\ running' = FALSE
    /\ task' = "none"
    /\ stamp' = "finished"
    /\ UNCHANGED <<proc, trigger>>

\* create_subprocess_exec: the refresh runs from here on.
Spawn ==
    /\ task = "created"
    /\ \E p \in Pids \ live :
          /\ live' = live \cup {p}
          /\ code' = [code EXCEPT ![p] = "none"]
          /\ proc' = p
    /\ task' = "reading"
    /\ UNCHANGED <<running, stamp, trigger, result, strays>>

\* create_subprocess_exec raises (no sh, no memory, no process slot).
SpawnFails ==
    /\ task = "created"
    /\ result' = "failed"
    /\ Finish
    /\ UNCHANGED scripts

\* The script ends by itself, in success or at the first failing command.
Exits(p) ==
    /\ p \in live
    /\ live' = live \ {p}
    /\ strays' = strays \ {p}
    /\ \E c \in {"zero", "nonzero"} : code' = [code EXCEPT ![p] = c]
    /\ UNCHANGED server

\* `async for raw in proc.stdout` ends when the last writer of the pipe is gone.
EndOfOutput ==
    /\ task = "reading" /\ proc \notin live
    /\ task' = "waiting"
    /\ UNCHANGED <<running, proc, stamp, trigger, result, scripts>>

\* await proc.wait(), and the result is recorded.
Reap ==
    /\ task = "waiting"
    /\ result' = IF code[proc] = "zero" THEN "success" ELSE "failed"
    /\ Finish
    /\ UNCHANGED scripts

\* A line longer than the StreamReader limit (64 KiB; tqdm ends its updates
\* with a carriage return, never a newline): readline raises ValueError and the
\* except records it, with the script left running, or ended and the line still
\* in the buffer.
LineTooLong ==
    /\ LongLines
    /\ task = "reading"
    /\ Pids \ live # {}
    /\ result' = "failed"
    /\ strays' = strays \cup ({proc} \cap live)
    /\ Finish
    /\ UNCHANGED <<live, code>>

\* kubectl exec deploy/slack-log -- sh scripts/refresh.sh (a pid of its own:
\* proc keeps naming the manager's last refresh).
RunByHand ==
    /\ ByHand
    /\ Cardinality(Pids \ live) > 1
    /\ \E p \in Pids \ live :
          /\ p # proc
          /\ live' = live \cup {p}
          /\ strays' = strays \cup {p}
          /\ code' = [code EXCEPT ![p] = "none"]
    /\ UNCHANGED server

\* The container stops or is replaced, with every process in it.
Restart ==
    /\ running' = FALSE
    /\ task' = "none"
    /\ proc' = NoPid
    /\ stamp' = "none"
    /\ trigger' = ""
    /\ result' = "never"
    /\ live' = {} /\ strays' = {}
    /\ UNCHANGED code

Next ==
    \/ Tick
    \/ \E authorized \in BOOLEAN : Post(authorized)
    \/ Spawn \/ SpawnFails \/ EndOfOutput \/ Reap \/ LineTooLong
    \/ \E p \in Pids : Exits(p)
    \/ RunByHand
    \/ Restart

Spec == Init /\ [][Next]_vars

\* The event loop runs its ready coroutines and the sleep of the scheduler ends.
\* Nothing says that a script ends: _run waits without a timeout, and refresh.sh
\* puts one around attach only, so that a slackdump may hang for ever.
Fairness ==
    /\ WF_vars(Tick)
    /\ WF_vars(Spawn \/ SpawnFails) /\ WF_vars(EndOfOutput) /\ WF_vars(Reap)

LiveSpec == Spec /\ Fairness

-----------------------------------------------------------------------------
\* "At most one refresh runs at a time" (sync.py, docs/team.md).
OneRefresh == \A p, q \in live : p = q

\* A refresh at work is the one GET /sync reports as running, so that a
\* trigger is refused for as long as it is at work: all but those the manager
\* did not start (RunByHand) or has stopped to read (LineTooLong).
WorkIsReported == \A p \in live \ strays : running /\ task = "reading" /\ proc = p

\* GET /sync tells the truth whatever way the last refresh ended (exit, failure
\* to start, exception, restart): its flags and timestamps agree with the
\* coroutine, and "success" is said only of a script that has ended with status 0.
StatusConsistent ==
    /\ running <=> stamp = "started"
    /\ running <=> task # "none"
    /\ stamp = "finished" => result # "never"
    /\ stamp = "none" => result = "never"
    /\ ~running /\ result = "success" =>
          proc \in Pids /\ proc \notin live /\ code[proc] = "zero"

\* The manager waits for output, or the end of output, of a script at work.
Awaiting == task = "reading" /\ proc \in live

\* A refresh that was accepted comes to an end, however it ends: nothing but a
\* script that itself hangs for ever keeps the manager busy for ever (LiveSpec).
EveryRunEnds == []<>~running \/ <>[]Awaiting

\* The scheduler starts one refresh after the other, whatever happened to the
\* earlier ones (no start, failure, exception, restart): a script that hangs
\* for ever is the only thing that stops it, and that one does (LiveSpec).
SchedulerKeepsGoing == Scheduled => []<>(task = "created") \/ <>[]Awaiting
=============================================================================
