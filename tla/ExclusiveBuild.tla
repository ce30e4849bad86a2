--------------------------- MODULE ExclusiveBuild ---------------------------
(* What the locked build entry promises, with nothing said about how.        *)
(*                                                                           *)
(* Three artefacts are built one from the other: raw/slackdump.sqlite (raw), *)
(* the jsonl layer (data) and search.db (db).  Version 0 stands for "absent  *)
(* or not a whole snapshot"; data and db carry the version of raw they are a *)
(* snapshot of.  One build at a time works on them, and a derived artefact   *)
(* is only ever invalidated or brought to the version raw has at that moment.*)
EXTENDS Integers

CONSTANT Builds

VARIABLES active, raw, data, db

absVars == <<active, raw, data, db>>

Init ==
    /\ active = {}
    /\ raw = 0
    /\ data = 0
    /\ db = 0

\* A build enters only when no other one is inside.
Begin(p) ==
    /\ active = {}
    /\ active' = {p}
    /\ UNCHANGED <<raw, data, db>>

\* The build inside pulls a delta from Slack.
Pull ==
    /\ active # {}
    /\ raw' = raw + 1
    /\ UNCHANGED <<active, data, db>>

\* The build inside rewrites a derived artefact: not whole while it is being
\* written, a snapshot of the current raw when it is finished.
Derive ==
    /\ active # {}
    /\ \/ data' \in {0, raw} /\ db' = db
       \/ db' \in {0, raw} /\ data' = data
    /\ UNCHANGED <<active, raw>>

\* The build inside returns, raises or dies.
End(p) ==
    /\ active = {p}
    /\ active' = {}
    /\ UNCHANGED <<raw, data, db>>

Next ==
    \/ \E p \in Builds : Begin(p) \/ End(p)
    \/ Pull
    \/ Derive

Spec == Init /\ [][Next]_absVars
=============================================================================
