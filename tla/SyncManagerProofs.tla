------------------------- MODULE SyncManagerProofs --------------------------
(* Proofs about SyncManager, for any number of refreshes and restarts.       *)
EXTENDS SyncManager, TLAPS

\* What the coroutine _run knows where it is suspended.
Suspended ==
    /\ task \in {"reading", "waiting"} => proc \in Pids
    /\ task = "waiting" => proc \notin live

StatusInv == TypeOK /\ StatusConsistent /\ Suspended

LEMMA StatusInvInit == Init => StatusInv
  BY SyncAssumption DEF Init, StatusInv, TypeOK, StatusConsistent, Suspended

LEMMA StatusInvStep == StatusInv /\ [Next]_vars => StatusInv'
<1> SUFFICES ASSUME StatusInv, [Next]_vars PROVE StatusInv'
  OBVIOUS
<1> USE DEF StatusInv, TypeOK, StatusConsistent, Suspended
<1>1. ASSUME NEW reason \in {"scheduled", "api"}, Trigger(reason) PROVE StatusInv'
  BY <1>1 DEF Trigger, scripts
<1>2. CASE Tick
  BY <1>1, <1>2 DEF Tick
<1>3. ASSUME NEW authorized \in BOOLEAN, Post(authorized) PROVE StatusInv'
  BY <1>1, <1>3 DEF Post
<1>4. CASE Spawn
  BY <1>4, SyncAssumption DEF Spawn
<1>5. CASE SpawnFails
  BY <1>5 DEF SpawnFails, Finish, scripts
<1>6. CASE EndOfOutput
  BY <1>6 DEF EndOfOutput, scripts
<1>7. CASE Reap
  BY <1>7 DEF Reap, Finish, scripts
<1>8. CASE LineTooLong
  BY <1>8 DEF LineTooLong, Finish
<1>9. ASSUME NEW p \in Pids, Exits(p) PROVE StatusInv'
  BY <1>9 DEF Exits, server
<1>10. CASE RunByHand
  BY <1>10 DEF RunByHand, server
<1>11. CASE Restart
  BY <1>11 DEF Restart
<1>12. CASE UNCHANGED vars
  BY <1>12 DEF vars
<1>13. QED
  BY <1>2, <1>3, <1>4, <1>5, <1>6, <1>7, <1>8, <1>9, <1>10, <1>11, <1>12 DEF Next

LEMMA StatusInvariant == Spec => []StatusInv
  BY StatusInvInit, StatusInvStep, PTL DEF Spec

\* The variables hold values of their types, for any number of refreshes.
THEOREM TypeCorrect == Spec => []TypeOK
  BY StatusInvariant, PTL DEF StatusInv

\* GET /sync is consistent and honest however the last refresh ended, over-long
\* lines and refreshes started by hand included.
THEOREM Status == Spec => []StatusConsistent
  BY StatusInvariant, PTL DEF StatusInv

-----------------------------------------------------------------------------
(* At most one refresh.                                                      *)

\* A refresh the manager has started and still reads is the reported one (409
\* for as long as it works), whatever else runs in the container.
THEOREM Reported == Spec => []WorkIsReported
<1>1. Init => WorkIsReported
  BY DEF Init, WorkIsReported
<1>2. StatusInv /\ WorkIsReported /\ [Next]_vars => WorkIsReported'
  <2> SUFFICES ASSUME StatusInv, WorkIsReported, [Next]_vars PROVE WorkIsReported'
    OBVIOUS
  <2> USE DEF WorkIsReported, StatusInv, TypeOK
  <2>1. CASE Tick \/ \E authorized \in BOOLEAN : Post(authorized)
    BY <2>1 DEF Tick, Post, Trigger, scripts
  <2>2. CASE Spawn
    BY <2>2 DEF Spawn, StatusConsistent
  <2>3. CASE SpawnFails \/ EndOfOutput \/ Reap
    BY <2>3 DEF SpawnFails, EndOfOutput, Reap, Finish, scripts
  <2>4. CASE LineTooLong
    BY <2>4 DEF LineTooLong, Finish
  <2>5. ASSUME NEW p \in Pids, Exits(p) PROVE WorkIsReported'
    BY <2>5 DEF Exits, server
  <2>6. CASE RunByHand
    BY <2>6 DEF RunByHand, server
  <2>7. CASE Restart \/ UNCHANGED vars
    BY <2>7 DEF Restart, vars
  <2>8. QED
    BY <2>1, <2>2, <2>3, <2>4, <2>5, <2>6, <2>7 DEF Next
<1>3. QED
  BY <1>1, <1>2, StatusInvariant, PTL DEF Spec

\* No line is over-long and nobody starts a refresh by hand.
Managed == ~LongLines /\ ~ByHand

LEMMA NoStrays == ASSUME Managed PROVE Spec => [](strays = {})
<1>1. Init => strays = {}
  BY DEF Init
<1>2. strays = {} /\ [Next]_vars => (strays = {})'
  <2> SUFFICES ASSUME strays = {}, [Next]_vars PROVE (strays = {})'
    OBVIOUS
  <2>1. ~LineTooLong /\ ~RunByHand
    BY DEF Managed, LineTooLong, RunByHand
  <2>2. QED
    BY <2>1 DEF Next, Tick, Post, Trigger, Spawn, SpawnFails, EndOfOutput, Reap, Finish,
                Exits, Restart, vars, scripts
<1>3. QED
  BY <1>1, <1>2, PTL DEF Spec

\* "At most one refresh runs at a time" (sync.py), in a Managed deployment.
THEOREM Serialised == ASSUME Managed PROVE Spec => []OneRefresh
<1>1. WorkIsReported /\ strays = {} => OneRefresh
  BY DEF WorkIsReported, OneRefresh
<1>2. QED
  BY <1>1, Reported, NoStrays, PTL
=============================================================================
