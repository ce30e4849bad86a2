--------------------------- MODULE PipelineProofs ---------------------------
(* Proofs about Pipeline, for any processes, any mix of what they run, any   *)
(* profile and any number of kills.                                          *)
EXTENDS Pipeline, TLAPS

-----------------------------------------------------------------------------
(* Lemmas on the order of the steps.                                         *)

\* The steps a process can be at: a team build has no split.
StepsOf(p) ==
    IF Kind[p] = "build" /\ Profile = "team" THEN Steps \ {"split"} ELSE Steps

\* The successor of a step is a step, or the end of the list.
LEMMA AfterType ==
    ASSUME NEW p \in Procs, NEW s \in StepsOf(p)
    PROVE  After(p, s) \in StepsOf(p) \cup {"done"}
<1>1. CASE Kind[p] \in Standalone
  BY <1>1 DEF After, Standalone
<1>2. CASE Kind[p] = "build"
  BY <1>2, PipelineAssumption DEF After, BuildAfter, Steps, StepsOf, Standalone
<1>3. CASE Kind[p] = "refresh"
  BY <1>3, PipelineAssumption DEF After, RefreshAfter, Steps, StepsOf, Standalone
<1>4. QED
  BY <1>1, <1>2, <1>3, PipelineAssumption DEF Kinds

\* Every list of steps starts with a step.
LEMMA FirstType ==
    ASSUME NEW p \in Procs
    PROVE  First(p) \in StepsOf(p)
  BY DEF First, Standalone, Steps, StepsOf

-----------------------------------------------------------------------------
(* The lock.                                                                 *)

\* Only builds come to the stops of build_lock, and whoever is before or in a
\* step has one left to do; a slackdump child belongs to a process in fetch.
Control ==
    \A p \in Procs :
        /\ pc[p] \in {"opened", "locked", "leaving", "closing"} => Kind[p] = "build"
        /\ pc[p] = "headless" => Kind[p] = "refresh"
        /\ pc[p] \in {"opened", "locked", "ready", "busy", "headless"} => step[p] \in StepsOf(p)
        /\ p \in child => pc[p] = "busy" /\ step[p] = "fetch"

LockInv == TypeOK /\ Control /\ NoStaleLock /\ OneBuild

LEMMA LockInvInit == Init => LockInv
<1> SUFFICES ASSUME Init PROVE LockInv
  OBVIOUS
<1>1. TypeOK
  BY FirstType DEF Init, TypeOK, Stops, Steps, StepsOf
<1>2. Control
  BY DEF Init, Control
<1>3. NoStaleLock /\ OneBuild
  BY DEF Init, NoStaleLock, OneBuild, Holding, Builders
<1>4. QED
  BY <1>1, <1>2, <1>3 DEF LockInv

\* What Advance and Raise do to the control state of their process.
LEMMA LeaveStep ==
    ASSUME LockInv, NEW p \in Procs, pc[p] \in {"ready", "busy", "headless"},
           Advance(p) \/ Raise(p)
    PROVE  /\ step' \in [Procs -> Steps \cup {"done"}]
           /\ pc' \in [Procs -> Stops \cup {"idle", "busy", "headless"}]
           /\ \A q \in Procs \ {p} : pc'[q] = pc[q] /\ step'[q] = step[q]
           /\ Kind[p] = "build" => pc'[p] \in {"ready", "leaving"}
           /\ Kind[p] # "build" => pc'[p] \in {"ready", "idle"}
           /\ pc'[p] = "ready" => step'[p] \in StepsOf(p)
<1>1. /\ step[p] \in StepsOf(p)
      /\ pc \in [Procs -> Stops \cup {"idle", "busy", "headless"}]
      /\ step \in [Procs -> Steps \cup {"done"}]
  BY DEF LockInv, TypeOK, Control
<1>2. CASE Advance(p)
  <2>1. After(p, step[p]) \in StepsOf(p) \cup {"done"}
    BY <1>1, AfterType
  <2>2. QED
    BY <1>1, <1>2, <2>1 DEF Advance, Exit, Stops, Steps, StepsOf
<1>3. CASE Raise(p)
  BY <1>1, <1>3 DEF Raise, Exit, Stops
<1>4. QED
  BY <1>2, <1>3

LEMMA LockInvStep == LockInv /\ [Next]_vars => LockInv'
<1> SUFFICES ASSUME LockInv, [Next]_vars PROVE LockInv'
  OBVIOUS
<1> USE DEF LockInv
<1>1. ASSUME NEW p \in Procs, Start(p) PROVE LockInv'
  BY <1>1, FirstType DEF StepsOf, Start, TypeOK, Control, NoStaleLock, OneBuild, Holding,
     Builders, Stops, lockVars, artefacts
<1>2. ASSUME NEW p \in Procs, Open(p) PROVE LockInv'
  BY <1>2, FirstType DEF StepsOf, Open, TypeOK, Control, NoStaleLock, OneBuild, Holding,
     Builders, Stops, artefacts
<1>3. ASSUME NEW p \in Procs, Lock(p) PROVE LockInv'
  BY <1>3 DEF Lock, TypeOK, Control, NoStaleLock, OneBuild, Holding, Builders,
     Stops, artefacts
<1>4. ASSUME NEW p \in Procs, Refuse(p) PROVE LockInv'
  BY <1>4 DEF Refuse, TypeOK, Control, NoStaleLock, OneBuild, Holding, Builders,
     Stops, artefacts
<1>5. ASSUME NEW p \in Procs, RecordPid(p) PROVE LockInv'
  BY <1>5 DEF RecordPid, TypeOK, Control, NoStaleLock, OneBuild, Holding,
     Builders, Stops, artefacts
<1>6. ASSUME NEW p \in Procs, Fetch(p) PROVE LockInv'
  BY <1>6 DEF Fetch, TypeOK, Control, NoStaleLock, OneBuild, Holding, Builders,
     Stops, lockVars, artefacts
<1>7. ASSUME NEW p \in Procs, pc[p] \in {"ready", "busy", "headless"}, Advance(p) \/ Raise(p),
             UNCHANGED lockVars, child' = child \ {p}, orphans' = orphans,
             pidfile' = pidfile, kills' = kills, seen' = seen, raw' = raw,
             data' \in Nat, db' \in Nat
      PROVE  LockInv'
  <2>1. TypeOK'
    BY <1>7, LeaveStep DEF TypeOK, lockVars
  <2>2. Control'
    BY <1>7, LeaveStep DEF Control
  <2>3. Holding' = Holding /\ \A q \in Builders : pc'[q] # "idle" <=> pc[q] # "idle"
    BY <1>7, LeaveStep DEF Holding, Builders, Control
  <2>4. NoStaleLock' /\ OneBuild'
    BY <1>7, <2>3 DEF NoStaleLock, OneBuild, lockVars, Builders
  <2>5. QED
    BY <2>1, <2>2, <2>4
<1>8. ASSUME NEW p \in Procs, FetchRefused(p) PROVE LockInv'
  <2>1. p \notin child
    BY <1>8 DEF FetchRefused, Control
  <2>2. QED
    BY <1>7, <1>8, <2>1 DEF FetchRefused, TypeOK, artefacts, lockVars
<1>9. ASSUME NEW p \in Procs, SlackdumpExits(p) PROVE LockInv'
  BY <1>7, <1>9 DEF SlackdumpExits, TypeOK, Control, artefacts, lockVars
<1>10. ASSUME NEW p \in Procs, BeginStep(p) PROVE LockInv'
  <2>1. seen' \in [Procs -> Nat]
    BY <1>10 DEF BeginStep, TypeOK, SourceVersion
  <2>2. TypeOK'
    BY <1>10, <2>1 DEF BeginStep, TypeOK, Stops, lockVars
  <2>3. Control'
    BY <1>10 DEF BeginStep, TypeOK, Control
  <2>4. NoStaleLock' /\ OneBuild'
    BY <1>10 DEF BeginStep, TypeOK, NoStaleLock, OneBuild, Holding, Builders, lockVars
  <2>5. QED
    BY <2>2, <2>3, <2>4
<1>11. ASSUME NEW p \in Procs, EndStep(p) PROVE LockInv'
  <2>1. p \notin child
    BY <1>11 DEF EndStep, Control
  <2>2. data' \in Nat /\ db' \in Nat
    BY <1>11 DEF EndStep, TypeOK
  <2>3. QED
    BY <1>7, <1>11, <2>1, <2>2 DEF EndStep, Busy, lockVars
<1>12. ASSUME NEW p \in Procs, FailStep(p) PROVE LockInv'
  <2>1. p \notin child
    BY <1>12 DEF FailStep, Control
  <2>2. QED
    BY <1>7, <1>12, <2>1 DEF FailStep, Busy, TypeOK, artefacts, lockVars
<1>13. ASSUME NEW p \in Procs, Unlock(p) PROVE LockInv'
  BY <1>13 DEF Unlock, TypeOK, Control, NoStaleLock, OneBuild, Holding,
     Builders, Stops, artefacts
<1>14. ASSUME NEW p \in Procs, Close(p) PROVE LockInv'
  BY <1>14 DEF Close, TypeOK, Control, NoStaleLock, OneBuild, Holding,
     Builders, Stops, artefacts
<1>15. ASSUME NEW p \in Procs, Kill(p) PROVE LockInv'
  <2>1. PICK s \in Remains(p) : pc' = [pc EXCEPT ![p] = s]
    BY <1>15 DEF Kill
  <2>2. s = "idle" \/ (s = "headless" /\ Kind[p] = "refresh" /\ pc[p] = "busy")
    BY <2>1 DEF Remains
  <2>3. TypeOK' /\ Control'
    BY <1>15, <2>1, <2>2 DEF Kill, TypeOK, Control, artefacts
  <2>4. NoStaleLock' /\ OneBuild'
    BY <1>15, <2>1, <2>2 DEF Kill, TypeOK, Control, NoStaleLock, OneBuild, Holding, Builders
  <2>5. QED
    BY <2>3, <2>4
<1>16. ASSUME SlackdumpWrites PROVE LockInv'
  BY <1>16 DEF SlackdumpWrites, TypeOK, Control, NoStaleLock, OneBuild,
     Holding, Builders, lockVars
<1>17. ASSUME OrphanExits PROVE LockInv'
  BY <1>17 DEF OrphanExits, TypeOK, Control, NoStaleLock, OneBuild,
     Holding, Builders, lockVars, artefacts
<1>18. CASE UNCHANGED vars
  BY <1>18 DEF vars, TypeOK, Control, NoStaleLock, OneBuild, Holding, Builders
<1>19. QED
  BY <1>1, <1>2, <1>3, <1>4, <1>5, <1>6, <1>8, <1>9, <1>10, <1>11, <1>12,
     <1>13, <1>14, <1>15, <1>16, <1>17, <1>18 DEF Next, Enter, Work

\* The lock is held by the builds between flock and LOCK_UN and by nothing
\* else, whatever is killed and whatever runs beside the builds.
THEOREM LockInvariant == Spec => []LockInv
<1>1. Init => LockInv
  BY LockInvInit
<1>2. LockInv /\ [Next]_vars => LockInv'
  BY LockInvStep
<1>3. QED
  BY <1>1, <1>2, PTL DEF Spec

\* Type correctness.
THEOREM TypeCorrect == Spec => []TypeOK
  BY LockInvariant, PTL DEF LockInv

\* Mutual exclusion of the builds (build_lock).
THEOREM MutualExclusion == Spec => []OneBuild
  BY LockInvariant, PTL DEF LockInv

\* No stale lock and no leaked descriptor, after a refusal, an exception or a
\* kill (lock.py's last paragraph).
THEOREM LockNeverStale == Spec => []NoStaleLock
  BY LockInvariant, PTL DEF LockInv

-----------------------------------------------------------------------------
(* The pid in the lock file.                                                 *)

\* While a build works the lock file names it.
THEOREM PidIsHolders == Spec => []PidNamesHolder
<1>1. Init => PidNamesHolder
  BY DEF Init, PidNamesHolder, Holding, Builders
<1>2. LockInv /\ PidNamesHolder /\ [Next]_vars => PidNamesHolder'
  <2> SUFFICES ASSUME LockInv, PidNamesHolder, [Next]_vars PROVE PidNamesHolder'
    OBVIOUS
  <2> USE DEF PidNamesHolder, Holding, Builders, LockInv, TypeOK
  <2>1. ASSUME NEW p \in Procs, Start(p) \/ Open(p) \/ Enter(p) \/ Kill(p)
        PROVE  PidNamesHolder'
    BY <2>1 DEF Start, Open, Enter, Lock, Refuse, Kill, Remains, lockVars
  <2>2. ASSUME NEW p \in Procs, RecordPid(p) PROVE PidNamesHolder'
    BY <2>2 DEF RecordPid, OneBuild, Control
  <2>3. ASSUME NEW p \in Procs, Fetch(p) \/ BeginStep(p) \/ Unlock(p) \/ Close(p)
        PROVE  PidNamesHolder'
    BY <2>3 DEF Fetch, BeginStep, Unlock, Close, lockVars
  <2>4. ASSUME NEW p \in Procs, pc[p] \in {"ready", "busy", "headless"},
               Advance(p) \/ Raise(p), pidfile' = pidfile
        PROVE  PidNamesHolder'
    BY <2>4, LeaveStep DEF Control
  <2>5. ASSUME NEW p \in Procs,
               FetchRefused(p) \/ SlackdumpExits(p) \/ EndStep(p) \/ FailStep(p)
        PROVE  PidNamesHolder'
    BY <2>4, <2>5 DEF FetchRefused, SlackdumpExits, EndStep, FailStep, Busy,
       Control, lockVars
  <2>6. CASE SlackdumpWrites \/ OrphanExits \/ UNCHANGED vars
    BY <2>6 DEF SlackdumpWrites, OrphanExits, vars, lockVars
  <2>7. QED
    BY <2>1, <2>2, <2>3, <2>5, <2>6 DEF Next, Work
<1>3. QED
  BY <1>1, <1>2, LockInvariant, PTL DEF Spec

-----------------------------------------------------------------------------
(* What the lock is for.  The two assumptions are the two findings of the    *)
(* runs: every process takes the lock, and no kill orphans a slackdump.      *)

LockedOnly == (\A p \in Procs : Kind[p] = "build") /\ "fetch" \notin KillAt

\* How far the artefacts agree when the build inside has come to step s.
Progress(p) ==
    /\ pc[p] = "locked" => step[p] = "fetch"
    /\ Profile = "personal" =>
        /\ step[p] = "split" /\ Busy(p) => seen[p] = raw
        /\ step[p] \in {"attach", "index", "done"} => raw # 0 /\ data = raw
        /\ step[p] = "index" /\ Busy(p) => seen[p] = raw
        /\ step[p] = "done" => db = raw
    /\ Profile = "team" =>
        /\ step[p] # "split"
        /\ step[p] = "index" /\ Busy(p) => seen[p] = raw
        /\ step[p] \in {"attach", "done"} => raw # 0 /\ db = raw

SnapInv ==
    /\ orphans = 0
    /\ \A p \in Procs : pc[p] = "opened" => step[p] = "fetch"
    /\ \A p \in Holding : Progress(p)

\* Under LockedOnly the processes in a step are inside the lock.
LEMMA BusyHolds ==
    ASSUME LockedOnly, LockInv, NEW p \in Procs, pc[p] \in {"ready", "busy", "headless"}
    PROVE  p \in Holding
  BY DEF LockedOnly, Holding, Builders, LockInv, Control

LEMMA SnapInvStep ==
    ASSUME LockedOnly, LockInv, LockInv', SnapInv, [Next]_vars
    PROVE  SnapInv'
<1> USE DEF LockInv, SnapInv, LockedOnly
<1>0. \A p \in Procs : First(p) = "fetch"
  BY DEF First, Standalone
<1>a. \A p \in Procs : After(p, step[p]) = BuildAfter(step[p])
  BY DEF After, Standalone
<1>1. ASSUME NEW p \in Procs, Start(p) \/ Open(p) \/ Enter(p) PROVE SnapInv'
  BY <1>0, <1>1 DEF Start, Open, Enter, Lock, Refuse, Holding, Builders, Progress, Busy,
     TypeOK, artefacts
<1>2. ASSUME NEW p \in Procs, RecordPid(p) \/ Unlock(p) \/ Close(p) \/ Kill(p)
      PROVE  SnapInv'
  <2>1. orphans' = 0
    BY <1>2 DEF RecordPid, Unlock, Close, Kill, At, Busy, Control
  <2>2. QED
    BY <1>2, <2>1 DEF RecordPid, Unlock, Close, Kill, Remains, Holding, Builders,
       Progress, Busy, TypeOK, artefacts
<1>3. ASSUME NEW p \in Procs, Fetch(p) \/ FetchRefused(p) PROVE SnapInv'
  BY <1>3 DEF Fetch, FetchRefused, Raise, Exit, Holding, Builders, Progress,
     Busy, TypeOK, artefacts
<1>4. ASSUME NEW p \in Procs, SlackdumpExits(p) PROVE SnapInv'
  <2>1. p \in Holding /\ step[p] = "fetch" /\ pc[p] = "busy"
    BY <1>4, BusyHolds DEF SlackdumpExits, Control
  <2>2. \A q \in Holding : q = p
    BY <2>1 DEF OneBuild
  <2>3. \A q \in Holding' : q = p
    BY <1>4, <2>1 DEF OneBuild, Holding, Builders, SlackdumpExits, Advance, Raise, Exit, TypeOK
  <2>4. Progress(p)'
    BY <1>a, <1>4, <2>1, PipelineAssumption DEF SlackdumpExits, Advance, Raise,
       Exit, BuildAfter, Progress, Busy, TypeOK, artefacts
  <2>5. QED
    BY <1>4, <2>1, <2>3, <2>4 DEF SlackdumpExits, Advance, Raise, Exit, TypeOK
<1>5. ASSUME NEW p \in Procs, BeginStep(p) PROVE SnapInv'
  <2>1. p \in Holding /\ \A q \in Holding : q = p
    BY <1>5, BusyHolds DEF BeginStep, OneBuild
  <2>2. \A q \in Procs : q # p => ~Busy(q)
    BY <2>1, BusyHolds DEF Busy
  <2>3. Holding' = Holding
    BY <1>5 DEF BeginStep, Holding, Builders, TypeOK
  <2>4. seen'[p] = SourceVersion(step[p])
    BY <1>5, <2>2 DEF BeginStep, TypeOK
  <2>5. Progress(p)'
    BY <1>5, <2>1, <2>4, PipelineAssumption DEF BeginStep, Progress, Busy, SourceVersion, Reads,
       TypeOK, Control, Steps
  <2>6. QED
    BY <1>5, <2>1, <2>3, <2>5 DEF BeginStep, TypeOK
<1>6. ASSUME NEW p \in Procs, EndStep(p) \/ FailStep(p) PROVE SnapInv'
  <2>1. p \in Holding /\ \A q \in Holding : q = p
    BY <1>6, BusyHolds DEF EndStep, FailStep, Busy, OneBuild
  <2>2. Holding' \subseteq {p}
    BY <1>6, <2>1, LeaveStep DEF EndStep, FailStep, Busy, Holding, Builders
  <2>3. CASE EndStep(p)
    <3>1. Progress(p)'
      <4>1. step[p] \in Steps \ {"fetch"} /\ (Profile = "team" => step[p] # "split")
        BY <2>1, <2>3 DEF EndStep, Busy, Control, StepsOf, Holding, Builders, Steps
      <4>2. step'[p] = BuildAfter(step[p]) /\ raw' = raw
        BY <1>a, <2>3 DEF EndStep, Advance, TypeOK
      <4>3. pc'[p] \in {"ready", "leaving"}
        BY <2>1, <2>3, LeaveStep DEF EndStep, Busy
      <4>4. CASE Profile = "personal"
        BY <2>1, <2>3, <4>1, <4>2, <4>3, <4>4 DEF EndStep, BuildAfter, Progress, Busy,
           HasSource, Reads, Steps
      <4>5. CASE Profile = "team"
        BY <2>1, <2>3, <4>1, <4>2, <4>3, <4>5 DEF EndStep, BuildAfter, Progress, Busy,
           HasSource, Reads, Steps
      <4>6. QED
        BY <4>4, <4>5, PipelineAssumption
    <3>2. QED
      BY <2>1, <2>2, <2>3, <3>1, LeaveStep DEF EndStep, Busy
  <2>4. CASE FailStep(p)
    <3>1. Progress(p)'
      BY <2>1, <2>4 DEF FailStep, Raise, Exit, Progress, Busy, TypeOK, artefacts
    <3>2. QED
      BY <2>1, <2>2, <2>4, <3>1, LeaveStep DEF FailStep, Busy
  <2>5. QED
    BY <1>6, <2>3, <2>4
<1>7. CASE SlackdumpWrites
  <2>1. PICK p \in child : p \in Holding /\ step[p] = "fetch" /\ pc[p] = "busy"
    BY <1>7, BusyHolds DEF SlackdumpWrites, Control, TypeOK
  <2>2. \A q \in Holding : q = p
    BY <2>1 DEF OneBuild
  <2>3. QED
    BY <1>7, <2>1, <2>2 DEF SlackdumpWrites, Holding, Builders, Progress, Busy
<1>8. CASE OrphanExits \/ UNCHANGED vars
  BY <1>8 DEF OrphanExits, vars, Holding, Builders, Progress, Busy, artefacts
<1>9. QED
  BY <1>1, <1>2, <1>3, <1>4, <1>5, <1>6, <1>7, <1>8 DEF Next, Enter, Work

\* The snapshot invariant, when every process takes the lock.
THEOREM SnapInvariant == ASSUME LockedOnly PROVE Spec => [](LockInv /\ SnapInv)
<1>1. Init => SnapInv
  <2>1. LockedOnly => \A p \in Procs : First(p) = "fetch"
    BY DEF LockedOnly, First, Standalone
  <2>2. QED
    BY <2>1 DEF Init, SnapInv, Holding, Builders
<1>2. LockInv /\ LockInv' /\ SnapInv /\ [Next]_vars => SnapInv'
  BY SnapInvStep
<1>3. QED
  BY <1>1, <1>2, LockInvariant, PTL DEF Spec

\* No two processes are at the same artefact (CHANGELOG.md: "concurrent builds
\* can't corrupt raw/slackdump.sqlite + search.db").
THEOREM Exclusive == ASSUME LockedOnly PROVE Spec => []NoConcurrentAccess
<1>1. LockInv /\ SnapInv => NoConcurrentAccess
  <2> SUFFICES ASSUME LockInv, SnapInv PROVE NoConcurrentAccess
    OBVIOUS
  <2>1. \A p, q \in Procs : Busy(p) /\ Busy(q) => p = q
    BY BusyHolds DEF Busy, LockInv, OneBuild
  <2>2. QED
    BY <2>1 DEF NoConcurrentAccess, Touches, SnapInv
<1>2. QED
  BY <1>1, SnapInvariant, PTL

\* A build that ran to its end leaves raw, data and search.db in agreement.
THEOREM DoneSnapshot == ASSUME LockedOnly PROVE Spec => []DoneIsSnapshot
<1>1. LockInv /\ SnapInv => DoneIsSnapshot
  BY PipelineAssumption DEF SnapInv, DoneIsSnapshot, Holding, Progress, Builders
<1>2. QED
  BY <1>1, SnapInvariant, PTL

-----------------------------------------------------------------------------
(* The refinement.                                                           *)

\* Every step of the pipeline is a step of the abstract specification or
\* leaves its variables alone.
LEMMA RefinementStep ==
    ASSUME LockedOnly, LockInv, LockInv', SnapInv, SnapInv', [Next]_vars
    PROVE  [Abs!Next]_Abs!absVars
<1> USE DEF LockInv, Abs!Next, Abs!absVars
<1> DEFINE Same == UNCHANGED <<raw, data, db>>
<1>1. ASSUME NEW p \in Procs, Start(p) \/ Open(p) \/ Refuse(p) \/ RecordPid(p)
                              \/ Fetch(p) \/ Close(p)
      PROVE  Holding' = Holding /\ Same
  BY <1>1 DEF Start, Open, Refuse, RecordPid, Fetch, Close, Holding, Builders, TypeOK, artefacts
<1>2. ASSUME NEW p \in Procs, Lock(p) PROVE Abs!Begin(p) /\ p \in Builders
  <2>1. Holding = {}
    BY <1>2 DEF Lock, NoStaleLock
  <2>2. Holding' = {p}
    BY <1>2 DEF Lock, NoStaleLock
  <2>3. p \in Builders
    BY <2>2 DEF Holding, Builders
  <2>4. QED
    BY <1>2, <2>1, <2>2, <2>3 DEF Lock, Abs!Begin, artefacts
<1>3. ASSUME NEW p \in Procs, Unlock(p) \/ Kill(p)
      PROVE  \/ Holding' = Holding /\ Same
             \/ Abs!End(p) /\ p \in Builders
  <2>1. Same
    BY <1>3 DEF Unlock, Kill, artefacts
  <2>2. Holding' = Holding \ {p}
    BY <1>3 DEF Unlock, Kill, Remains, Holding, Builders, TypeOK
  <2>3. CASE p \in Holding
    <3>1. Holding = {p}
      BY <2>3 DEF OneBuild
    <3>2. p \in Builders
      BY <2>3 DEF Holding
    <3>3. QED
      BY <2>1, <2>2, <3>1, <3>2 DEF Abs!End
  <2>4. CASE p \notin Holding
    BY <2>1, <2>2, <2>4
  <2>5. QED
    BY <2>3, <2>4
<1>4. ASSUME NEW p \in Procs, FetchRefused(p) \/ SlackdumpExits(p) \/ FailStep(p)
      PROVE  Holding' = Holding /\ Same
  <2>1. (Advance(p) \/ Raise(p)) /\ pc[p] \in {"ready", "busy", "headless"} /\ Same
    BY <1>4 DEF FetchRefused, SlackdumpExits, FailStep, Busy, Control, artefacts
  <2>2. QED
    BY <2>1, LeaveStep DEF Holding, Builders, Control
<1>5. ASSUME NEW p \in Procs, BeginStep(p) PROVE Abs!Derive \/ (Holding' = Holding /\ Same)
  <2>1. p \in Holding
    BY <1>5, BusyHolds DEF BeginStep
  <2>2. Holding' = Holding
    BY <1>5 DEF BeginStep, Holding, Builders, TypeOK
  <2>3. QED
    BY <1>5, <2>1, <2>2 DEF BeginStep, Abs!Derive
<1>6. ASSUME NEW p \in Procs, EndStep(p) PROVE Abs!Derive \/ (Holding' = Holding /\ Same)
  <2>1. p \in Holding /\ (Advance(p) \/ Raise(p)) /\ pc[p] \in {"busy", "headless"}
    BY <1>6, BusyHolds DEF EndStep, Busy
  <2>2. Holding' = Holding
    BY <2>1, LeaveStep DEF Holding, Builders, Control
  <2>3. step[p] \in {"split", "index"} => seen[p] = raw
    BY <1>6, <2>1, PipelineAssumption DEF EndStep, SnapInv, Progress
  <2>5. QED
    BY <1>6, <2>1, <2>2, <2>3 DEF EndStep, Abs!Derive
<1>7. CASE SlackdumpWrites
  <2>1. PICK p \in child : p \in Holding
    BY <1>7, BusyHolds DEF SlackdumpWrites, Control, SnapInv, TypeOK
  <2>2. Holding' = Holding
    BY <1>7 DEF SlackdumpWrites, Holding, Builders
  <2>3. QED
    BY <1>7, <2>1, <2>2 DEF SlackdumpWrites, Abs!Pull
<1>8. CASE OrphanExits \/ UNCHANGED vars
  BY <1>8 DEF OrphanExits, vars, Holding, Builders, artefacts
<1>9. QED
  BY <1>1, <1>2, <1>3, <1>4, <1>5, <1>6, <1>7, <1>8 DEF Next, Enter, Work

\* Detailed builds implement the abstract exclusive build.
THEOREM Refinement == ASSUME LockedOnly PROVE Spec => ImplementsExclusiveBuild
<1>1. Init => Abs!Init
  BY DEF Init, Abs!Init, Holding, Builders
<1>2. LockInv /\ LockInv' /\ SnapInv /\ SnapInv' /\ [Next]_vars => [Abs!Next]_Abs!absVars
  BY RefinementStep
<1>3. QED
  BY <1>1, <1>2, SnapInvariant, PTL DEF Spec, Abs!Spec, ImplementsExclusiveBuild
=============================================================================
