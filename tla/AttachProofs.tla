---------------------------- MODULE AttachProofs ----------------------------
(* Proofs about Attach, for any files, mentions, failures and kills.         *)
EXTENDS Attach, TLAPS

Types ==
    /\ listed \subseteq Entries /\ todo \subseteq batch /\ batch \subseteq listed
    /\ walk \in {"idle", "walking", "finished", "raised"}
    /\ dst \in [Files -> {"absent", "partial", "whole"}]
    /\ meta \in [Files -> {"none", "no", "yes", "torn"}]
    /\ stats \in [Hows -> SUBSET Entries]
    /\ cut \subseteq Files

\* Where the walk may be: at an entry of its batch, or at none; an exception
\* left it at an entry whose meta.json it was to write.
Place ==
    /\ \/ cur = None
       \/ \E e \in batch \ todo, s \in {"meta", "decide", "reading", "read"} :
             cur = At(e, s)
    /\ cur # None => walk \in {"walking", "raised"}
    /\ walk = "walking" => cur.is = "none" \/ cur.step # "meta"
    /\ walk = "raised" => cur # None /\ cur.step \in {"meta", "decide", "read"}
    /\ walk = "finished" => todo = {} /\ cur = None

\* The entries this run is done with.
Passed == {e \in batch \ todo : cur = None \/ e # cur.e}

\* An entry is counted once the walk has passed it, and in one way; its
\* meta.json is on disk, as long as no exception or kill ends the walk.
Accounts ==
    /\ \A h, k \in Hows, e \in Entries : h # k => ~(e \in stats[h] /\ e \in stats[k])
    /\ walk # "idle" =>
        \A e \in Entries : e \in Passed <=> \E h \in Hows : e \in stats[h]
    /\ walk \in {"walking", "finished"} =>
        \A e \in batch \ todo : meta[FileOf[e]] \in {"no", "yes"}

\* The destination of the entry the walk is at.
Disk ==
    /\ Working("reading") => dst[File] = "partial"
    /\ Working("read") => dst[File] = "whole"

AttachInv == Types /\ Place /\ Accounts /\ Disk

USE DEF Hows

LEMMA AttachInvInit == Init => AttachInv
  BY AttachAssumption DEF Init, AttachInv, Types, Place, Accounts, Disk, Passed, NoStats,
     None, Working

\* The entry at hand is one of the batch, and its file one of Files.
LEMMA AtEntry ==
  ASSUME AttachInv, NEW s, Working(s)
  PROVE  /\ cur = At(cur.e, s) /\ cur # None
         /\ cur.e \in batch \ todo /\ cur.e \in Entries /\ File \in Files
  BY AttachAssumption DEF AttachInv, Types, Place, Working, At, None, File

\* Counting the entry at hand keeps the books.
LEMMA CountKeeps ==
  ASSUME AttachInv, NEW s, Working(s), NEW how \in Hows, Count(how),
         UNCHANGED <<listed, walk, todo, batch, cut>>,
         dst' \in [Files -> {"absent", "partial", "whole"}],
         meta' \in [Files -> {"none", "no", "yes", "torn"}],
         \A f \in Files : meta[f] \in {"no", "yes"} => meta'[f] \in {"no", "yes"}
  PROVE  AttachInv'
<1>1. /\ cur = At(cur.e, s) /\ cur # None
      /\ cur.e \in batch \ todo /\ cur.e \in Entries
  BY AtEntry
<1>2. cur' = None /\ stats' = [stats EXCEPT ![how] = @ \cup {cur.e}]
  BY DEF Count
<1>3. Types'
  BY <1>1, <1>2 DEF AttachInv, Types
<1>4. walk = "walking"
  BY DEF Working
<1>5. Place' /\ Disk'
  BY <1>2, <1>4 DEF Place, Disk, Working, None
<1>6. Accounts'
  <2>1. \A e \in Entries, h \in Hows :
           e \in stats'[h] <=> e \in stats[h] \/ (h = how /\ e = cur.e)
    BY <1>1, <1>2 DEF AttachInv, Types
  <2>2. ~ \E h \in Hows : cur.e \in stats[h]
    BY <1>1, <1>4 DEF AttachInv, Accounts, Passed
  <2>3. \A e \in Entries : e \in Passed' <=> e \in Passed \/ e = cur.e
    BY <1>1, <1>2 DEF Passed
  <2>4. \A e \in batch \ todo : meta'[FileOf[e]] \in {"no", "yes"}
    BY <1>4, AttachAssumption DEF AttachInv, Accounts, Types
  <2>5. QED
    BY <2>1, <2>2, <2>3, <2>4, <1>4 DEF AttachInv, Accounts
<1>7. QED
  BY <1>3, <1>5, <1>6 DEF AttachInv

LEMMA AttachInvStep == AttachInv /\ [Next]_vars => AttachInv'
<1> SUFFICES ASSUME AttachInv, [Next]_vars PROVE AttachInv'
  OBVIOUS
<1> USE AttachAssumption
<1>1. CASE Mention
  BY <1>1 DEF Mention, AttachInv, Types, Place, Accounts, Disk, Passed, Working, File, None
<1>2. CASE Begin
  <2>1. cur' = None
    BY <1>2 DEF Begin
  <2>2. Types' /\ Place' /\ Disk'
    BY <1>2, <2>1 DEF Begin, AttachInv, Types, Place, Disk, Working, NoStats, None
  <2>3. Accounts'
    BY <1>2, <2>1 DEF Begin, Accounts, Passed, NoStats
  <2>4. QED
    BY <2>2, <2>3 DEF AttachInv
<1>3. ASSUME NEW e \in Entries, WriteMeta(e) PROVE AttachInv'
  <2>1. cur = None /\ cur' = At(e, "decide") /\ e \in todo /\ todo' = todo \ {e}
    BY <1>3 DEF WriteMeta
  <2>2. Types'
    BY <1>3 DEF WriteMeta, AttachInv, Types
  <2>3. Place'
    BY <1>3 DEF WriteMeta, AttachInv, Types, Place, At, None
  <2>4. Disk'
    BY <2>1 DEF Disk, Working, At
  <2>5. Accounts'
    <3>1. \A d \in Entries : d \in Passed' <=> d \in Passed
      BY <1>3, <2>1 DEF WriteMeta, Passed, At, None
    <3>2. \A d \in (batch \ todo)' : meta'[FileOf[d]] \in {"no", "yes"}
      BY <1>3 DEF WriteMeta, AttachInv, Types, Accounts
    <3>3. QED
      BY <1>3, <3>1, <3>2 DEF WriteMeta, AttachInv, Accounts
  <2>6. QED
    BY <2>2, <2>3, <2>4, <2>5 DEF AttachInv
<1>4. CASE MetaOnly
  <2>1. Working("decide") /\ Count("meta_only") /\ UNCHANGED <<listed, walk, todo, dst, meta, batch, cut>>
    BY <1>4 DEF MetaOnly
  <2>2. QED
    BY <2>1, CountKeeps DEF AttachInv, Types
<1>5. CASE AlreadyThere
  <2>1. /\ Working("decide") /\ Count("downloaded")
        /\ UNCHANGED <<listed, walk, todo, dst, batch, cut>>
        /\ meta' = [meta EXCEPT ![File] = "yes"]
    BY <1>5 DEF AlreadyThere
  <2>2. File \in Files
    BY <2>1, AtEntry
  <2>3. QED
    BY <2>1, <2>2, CountKeeps DEF AttachInv, Types
<1>6. CASE Open
  <2>1. Working("decide") /\ File \in Files /\ cur = At(cur.e, "decide") /\ cur.e \in batch \ todo
    BY <1>6, AtEntry DEF Open
  <2>2. cur' = At(cur.e, "reading")
    BY <1>6, <2>1 DEF Open, At
  <2>3. QED
    BY <1>6, <2>1, <2>2 DEF Open, AttachInv, Types, Place, Accounts, Disk, Passed, Working,
       File, At, None
<1>7. CASE Refused
  <2>1. Working("decide") /\ Count("failed") /\ UNCHANGED <<listed, walk, todo, dst, meta, batch, cut>>
    BY <1>7 DEF Refused
  <2>2. QED
    BY <2>1, CountKeeps DEF AttachInv, Types
<1>8. CASE Read
  <2>1. Working("reading") /\ File \in Files /\ cur = At(cur.e, "reading") /\ cur.e \in batch \ todo
    BY <1>8, AtEntry DEF Read
  <2>2. cur' = At(cur.e, "read")
    BY <1>8, <2>1 DEF Read, At
  <2>3. QED
    BY <1>8, <2>1, <2>2 DEF Read, AttachInv, Types, Place, Accounts, Disk, Passed, Working,
       File, At, None
<1>9. CASE Broken
  <2>1. /\ Working("reading") /\ Count("failed")
        /\ UNCHANGED <<listed, walk, todo, meta, batch, cut>>
        /\ dst' = [dst EXCEPT ![File] = "absent"]
    BY <1>9 DEF Broken
  <2>2. QED
    BY <2>1, CountKeeps DEF AttachInv, Types
<1>10. CASE MarkDownloaded
  <2>1. /\ Working("read") /\ Count("downloaded")
        /\ UNCHANGED <<listed, walk, todo, dst, batch, cut>>
        /\ meta' = [meta EXCEPT ![File] = "yes"]
    BY <1>10 DEF MarkDownloaded
  <2>2. File \in Files
    BY <2>1, AtEntry
  <2>3. QED
    BY <2>1, <2>2, CountKeeps DEF AttachInv, Types
<1>11. CASE MarkFails
  <2>1. /\ walk = "walking" /\ cur # None /\ cur.e \in Entries /\ File \in Files
        /\ cur.step \in {"decide", "read"}
    BY <1>11, AtEntry DEF MarkFails, Marking, Working
  <2>2. walk' = "raised" /\ UNCHANGED <<listed, todo, cur, dst, batch, stats, cut>>
    BY <1>11 DEF MarkFails, Unwritten
  <2>3. meta' \in [Files -> {"none", "no", "yes", "torn"}]
    BY <1>11 DEF MarkFails, Unwritten, AttachInv, Types
  <2>4. Types' /\ Disk'
    BY <2>2, <2>3 DEF AttachInv, Types, Disk, Working
  <2>5. Place'
    BY <2>1, <2>2 DEF AttachInv, Place
  <2>6. Accounts'
    BY <2>1, <2>2 DEF AttachInv, Accounts, Passed
  <2>7. QED
    BY <2>4, <2>5, <2>6 DEF AttachInv
<1>12. CASE Finish
  BY <1>12 DEF Finish, AttachInv, Types, Place, Accounts, Disk, Passed, Working, File, None
<1>13. CASE Kill
  <2>1. /\ walk' = "idle" /\ todo' = {} /\ cur' = None
        /\ UNCHANGED <<listed, dst, batch, stats>>
    BY <1>13 DEF Kill
  <2>2. meta' \in [Files -> {"none", "no", "yes", "torn"}] /\ cut' \subseteq Files
    BY <1>13 DEF Kill, AttachInv, Types
  <2>3. QED
    BY <2>1, <2>2 DEF AttachInv, Types, Place, Accounts, Disk, Working, None
<1>14. CASE UNCHANGED vars
  BY <1>14 DEF vars, AttachInv, Types, Place, Accounts, Disk, Passed, Working, File, None
<1>15. ASSUME NEW e \in Entries, WriteMetaFails(e) PROVE AttachInv'
  <2>1. /\ cur = None /\ cur' = At(e, "meta") /\ e \in todo /\ todo' = todo \ {e}
        /\ walk = "walking" /\ walk' = "raised"
        /\ UNCHANGED <<listed, dst, batch, stats, cut>>
    BY <1>15 DEF WriteMetaFails, Unwritten
  <2>2. meta' \in [Files -> {"none", "no", "yes", "torn"}]
    BY <1>15 DEF WriteMetaFails, Unwritten, AttachInv, Types
  <2>3. Types'
    BY <2>1, <2>2 DEF AttachInv, Types
  <2>4. Place' /\ Disk'
    BY <2>1 DEF AttachInv, Types, Place, Disk, Working, At, None
  <2>5. Accounts'
    <3>1. \A d \in Entries : d \in Passed' <=> d \in Passed
      BY <2>1 DEF Passed, At, None
    <3>2. QED
      BY <2>1, <3>1 DEF AttachInv, Accounts
  <2>6. QED
    BY <2>3, <2>4, <2>5 DEF AttachInv
<1>16. QED
  BY <1>1, <1>2, <1>3, <1>4, <1>5, <1>6, <1>7, <1>8, <1>9, <1>10, <1>11, <1>12, <1>13,
     <1>14, <1>15 DEF Next, Step

LEMMA AttachInvariant == Spec => []AttachInv
  BY AttachInvInit, AttachInvStep, PTL DEF Spec

-----------------------------------------------------------------------------
\* Type correctness, and with it that the walk is always at an entry of its
\* batch that it has taken off the list.
THEOREM TypeCorrect == Spec => []TypeOK
<1>1. AttachInv => TypeOK
  BY DEF AttachInv, Types, Place, TypeOK, At, None
<1>2. QED
  BY <1>1, AttachInvariant, PTL

\* "A single failure is recorded and the walk continues", of a download: a run
\* that comes to its end has counted each entry of its batch in exactly one way,
\* and a run that ends by an exception stopped at an entry whose meta.json it
\* could not write.
THEOREM Accounted == Spec => []AllAccounted
<1>1. AttachInv => AllAccounted
  BY DEF AttachInv, Types, Place, Accounts, Passed, AllAccounted
<1>2. QED
  BY <1>1, AttachInvariant, PTL

\* A whole file is never opened for writing or unlinked again.
THEOREM Kept == Spec => NeverRefetched
<1>1. AttachInv /\ [Next]_vars =>
         [\A f \in Files : dst[f] = "whole" => dst'[f] = "whole"]_vars
  <2> SUFFICES ASSUME AttachInv, [Next]_vars, NEW f \in Files, dst[f] = "whole"
               PROVE  dst'[f] = "whole"
    OBVIOUS
  <2>1. CASE Open
    BY <2>1 DEF Open, AttachInv, Types
  <2>2. CASE Read
    BY <2>2 DEF Read, AttachInv, Types
  <2>3. CASE Broken
    BY <2>3 DEF Broken, AttachInv, Types, Disk
  <2>4. CASE UNCHANGED dst
    BY <2>4
  <2>5. QED
    BY <2>1, <2>2, <2>3, <2>4 DEF Next, Step, Mention, Begin, WriteMeta, MetaOnly,
       WriteMetaFails, AlreadyThere, Refused, MarkDownloaded, MarkFails, Finish, Kill, vars
<1>2. QED
  BY <1>1, AttachInvariant, PTL DEF Spec, NeverRefetched

-----------------------------------------------------------------------------
(* Files on disk, all but those a kill has cut off.                          *)

\* A partial file is the one being read, and only whole files are marked.
WholeInv ==
    \A f \in Files \ cut :
        /\ dst[f] = "partial" => Working("reading") /\ File = f
        /\ meta[f] = "yes" => dst[f] = "whole"

\* Every failure of a download or of the disk leaves whole files and no others;
\* only a kill in the middle of the download of a file can leave a part of it.
THEOREM WholeFiles == Spec => []WholeUnlessKilled
<1>1. Init => WholeInv
  BY DEF Init, WholeInv
<1>2. AttachInv /\ WholeInv /\ [Next]_vars => WholeInv'
  <2> SUFFICES ASSUME AttachInv, WholeInv, [Next]_vars PROVE WholeInv'
    OBVIOUS
  <2> USE AttachAssumption DEF WholeInv, AttachInv, Types
  <2>1. CASE Mention \/ Begin \/ Finish \/ UNCHANGED vars
    BY <2>1 DEF Mention, Begin, Finish, vars, Working, File, Place, None
  <2>2. ASSUME NEW e \in Entries, WriteMeta(e) PROVE WholeInv'
    BY <2>2 DEF WriteMeta, Working, File, None
  <2>3. CASE MetaOnly \/ Refused
    BY <2>3 DEF MetaOnly, Refused, Count, Working, File
  <2>4. CASE AlreadyThere
    <3>1. Working("decide") /\ File \in Files
      BY <2>4, AtEntry DEF AlreadyThere
    <3>2. QED
      BY <2>4, <3>1 DEF AlreadyThere, Count, Working, File
  <2>5. CASE Open
    <3>1. Working("decide") /\ File \in Files /\ cur' = At(cur.e, "reading")
      BY <2>5, AtEntry DEF Open, At
    <3>2. QED
      BY <2>5, <3>1 DEF Open, Working, File, At
  <2>6. CASE Read
    <3>1. Working("reading") /\ File \in Files
      BY <2>6, AtEntry DEF Read
    <3>2. QED
      BY <2>6, <3>1 DEF Read, Working, File
  <2>7. CASE Broken
    <3>1. Working("reading") /\ File \in Files /\ dst[File] = "partial"
      BY <2>7, AtEntry DEF Broken, Disk
    <3>2. QED
      BY <2>7, <3>1 DEF Broken, Count, Working, File
  <2>8. CASE MarkDownloaded
    <3>1. Working("read") /\ File \in Files /\ dst[File] = "whole"
      BY <2>8, AtEntry DEF MarkDownloaded, Disk
    <3>2. QED
      BY <2>8, <3>1 DEF MarkDownloaded, Count, Working, File
  <2>9. CASE MarkFails
    <3>1. File \in Files /\ ~Working("reading")
      BY <2>9, AtEntry DEF MarkFails, Marking, Working
    <3>2. UNCHANGED <<dst, cut>>
      BY <2>9 DEF MarkFails
    <3>3. \A f \in Files : meta'[f] = "yes" => meta[f] = "yes"
      BY <2>9, <3>1 DEF MarkFails, Unwritten
    <3>4. QED
      BY <3>1, <3>2, <3>3
  <2>10. ASSUME NEW e \in Entries, WriteMetaFails(e) PROVE WholeInv'
    <3>1. UNCHANGED <<dst, cut>> /\ ~Working("reading")
      BY <2>10 DEF WriteMetaFails, Working, None
    <3>2. \A f \in Files : meta'[f] = "yes" => meta[f] = "yes"
      BY <2>10 DEF WriteMetaFails, Unwritten
    <3>3. QED
      BY <3>1, <3>2
  <2>11. CASE Kill
    <3>1. UNCHANGED dst /\ cut' = cut \cup {f \in Files : Working("reading") /\ f = File}
      BY <2>11 DEF Kill
    <3>2. \A f \in Files : meta'[f] = "yes" => meta[f] = "yes"
      BY <2>11 DEF Kill
    <3>3. QED
      BY <3>1, <3>2
  <2>12. QED
    BY <2>1, <2>2, <2>3, <2>4, <2>5, <2>6, <2>7, <2>8, <2>9, <2>10, <2>11 DEF Next, Step
<1>3. WholeInv => WholeUnlessKilled
  BY DEF WholeInv, WholeUnlessKilled, Sound, Working
<1>4. QED
  BY <1>1, <1>2, <1>3, AttachInvariant, PTL DEF Spec
=============================================================================
