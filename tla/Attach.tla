------------------------------- MODULE Attach --------------------------------
(* slack_log/pipeline/attach.py: run after run of download_attachments over  *)
(* the files the archive mentions, the network failing in between, the disk  *)
(* full, a run killed by its `timeout 1200` or with its container, and what  *)
(* the thread page makes of what is on disk (render_files of                 *)
(* slack_log/web/presenter.py).  A full disk takes no new file and no bytes; *)
(* an unlink needs neither.                                                  *)
(*                                                                           *)
(* An entry is one mention of a file by a message: a file shared twice in a  *)
(* channel has two entries, one destination and one meta.json.               *)
EXTENDS Integers, FiniteSets

CONSTANTS
    Entries,
    Files,
    FileOf,     \* the file of an entry
    Policy      \* "download", "meta_only" (type or size) or "no_url"

ASSUME AttachAssumption ==
    /\ FileOf \in [Entries -> Files]
    /\ Policy \in [Files -> {"download", "meta_only", "no_url"}]
    /\ IsFiniteSet(Entries)

None == [is |-> "none"]
At(e, step) == [is |-> "entry", e |-> e, step |-> step]

VARIABLES
    listed,    \* entries the file source yields
    walk,      \* "walking", "finished" (the stats are printed), "raised" (an
               \* exception came out of download_attachments) or "idle"
    todo,      \* entries this run has still to come to
    cur,       \* the entry the run is at
    dst,       \* <fid>.<filetype>: absent, partial or whole
    meta,      \* _downloaded in <fid>.meta.json, "none" without a file, "torn"
               \* in one that was truncated and not written
    batch,     \* history: the entries this run began with
    stats,     \* the entries counted as downloaded, meta_only, failed
    cut        \* history: files a kill cut off in the middle of the download

vars == <<listed, walk, todo, cur, dst, meta, batch, stats, cut>>

Hows == {"downloaded", "meta_only", "failed"}
NoStats == [how \in Hows |-> {}]

Init ==
    /\ listed = {}
    /\ walk = "idle" /\ todo = {} /\ cur = None
    /\ dst = [f \in Files |-> "absent"]
    /\ meta = [f \in Files |-> "none"]
    /\ batch = {} /\ stats = NoStats
    /\ cut = {}

\* A build before this run found more files.
Mention ==
    /\ walk # "walking"
    /\ \E e \in Entries \ listed : listed' = listed \cup {e}
    /\ UNCHANGED <<walk, todo, cur, dst, meta, batch, stats, cut>>

\* Mutation: a file that has a meta.json counts as dealt with.
BeginNewOnly ==
    /\ walk # "walking" /\ listed # {}
    /\ walk' = "walking" /\ cur' = None
    /\ todo' = {e \in listed : meta[FileOf[e]] = "none"} /\ batch' = todo'
    /\ stats' = NoStats
    /\ UNCHANGED <<listed, dst, meta, cut>>

Begin ==
    /\ walk # "walking" /\ listed # {}
    /\ walk' = "walking" /\ cur' = None
    /\ todo' = listed /\ batch' = listed
    /\ stats' = NoStats
    /\ UNCHANGED <<listed, dst, meta, cut>>

-----------------------------------------------------------------------------
(* One entry.                                                                *)

Working(step) == walk = "walking" /\ cur.is = "entry" /\ cur.step = step
File == FileOf[cur.e]

Count(how) ==
    /\ stats' = [stats EXCEPT ![how] = @ \cup {cur.e}]
    /\ cur' = None

\* The meta file says "not downloaded" before anything else happens.
WriteMeta(e) ==
    /\ walk = "walking" /\ cur = None /\ e \in todo
    /\ todo' = todo \ {e}
    /\ meta' = [meta EXCEPT ![FileOf[e]] = "no"]
    /\ cur' = At(e, "decide")
    /\ UNCHANGED <<listed, walk, dst, batch, stats, cut>>

\* A full disk: mkdir or write_text raises, and no try is around them.  The file
\* is as it was, or open(.., "w") has truncated it.
Unwritten(f) ==
    /\ walk' = "raised"
    /\ meta' \in {meta, [meta EXCEPT ![f] = "torn"]}

WriteMetaFails(e) ==
    /\ walk = "walking" /\ cur = None /\ e \in todo
    /\ todo' = todo \ {e}
    /\ cur' = At(e, "meta")
    /\ Unwritten(FileOf[e])
    /\ UNCHANGED <<listed, dst, batch, stats, cut>>

\* should_download says no, or the file has no URL and is not there.
MetaOnly ==
    /\ Working("decide")
    /\ \/ Policy[File] = "meta_only"
       \/ Policy[File] = "no_url" /\ dst[File] = "absent"
    /\ Count("meta_only")
    /\ UNCHANGED <<listed, walk, todo, dst, meta, batch, cut>>

\* dst.exists().
AlreadyThere ==
    /\ Working("decide")
    /\ Policy[File] # "meta_only" /\ dst[File] # "absent"
    /\ meta' = [meta EXCEPT ![File] = "yes"]
    /\ Count("downloaded")
    /\ UNCHANGED <<listed, walk, todo, dst, batch, cut>>

\* Mutation: the download starts without a look at what is there.
OpenAnyway ==
    /\ Working("decide")
    /\ Policy[File] = "download"
    /\ dst' = [dst EXCEPT ![File] = "partial"]
    /\ cur' = [cur EXCEPT !.step = "reading"]
    /\ UNCHANGED <<listed, walk, todo, meta, batch, stats, cut>>

\* urlopen has an answer: open(dst, "wb") creates the file.
Open ==
    /\ Working("decide")
    /\ Policy[File] = "download" /\ dst[File] = "absent"
    /\ dst' = [dst EXCEPT ![File] = "partial"]
    /\ cur' = [cur EXCEPT !.step = "reading"]
    /\ UNCHANGED <<listed, walk, todo, meta, batch, stats, cut>>

\* HTTPError or URLError of urlopen, before the open.
Refused ==
    /\ Working("decide")
    /\ Policy[File] = "download" /\ dst[File] = "absent"
    /\ Count("failed")
    /\ UNCHANGED <<listed, walk, todo, dst, meta, batch, cut>>

Read ==
    /\ Working("reading")
    /\ dst' = [dst EXCEPT ![File] = "whole"]
    /\ cur' = [cur EXCEPT !.step = "read"]
    /\ UNCHANGED <<listed, walk, todo, meta, batch, stats, cut>>

\* Mutations: the unlink is missing; the exception ends the walk.
BrokenKept ==
    /\ Working("reading")
    /\ Count("failed")
    /\ UNCHANGED <<listed, walk, todo, dst, meta, batch, cut>>

BrokenEnds ==
    /\ Working("reading")
    /\ dst' = [dst EXCEPT ![File] = "absent"]
    /\ walk' = "raised"
    /\ UNCHANGED <<listed, todo, cur, meta, batch, stats, cut>>

\* A reset, a timeout, a full disk: the except of the loop, and the unlink.
Broken ==
    /\ Working("reading")
    /\ dst' = [dst EXCEPT ![File] = "absent"]
    /\ Count("failed")
    /\ UNCHANGED <<listed, walk, todo, meta, batch, cut>>

\* Mutation: download_file returns the number of bytes, and that is stored.
MarkDownloadedSize ==
    /\ Working("read")
    /\ meta' = [meta EXCEPT ![File] = "size"]
    /\ Count("downloaded")
    /\ UNCHANGED <<listed, walk, todo, dst, batch, cut>>

MarkDownloaded ==
    /\ Working("read")
    /\ meta' = [meta EXCEPT ![File] = "yes"]
    /\ Count("downloaded")
    /\ UNCHANGED <<listed, walk, todo, dst, batch, cut>>

\* The meta file is to be written again, now with "downloaded".
Marking ==
    \/ Working("read")
    \/ Working("decide") /\ Policy[File] # "meta_only" /\ dst[File] # "absent"

MarkFails ==
    /\ Marking
    /\ Unwritten(File)
    /\ UNCHANGED <<listed, todo, cur, dst, batch, stats, cut>>

-----------------------------------------------------------------------------
Finish ==
    /\ walk = "walking" /\ cur = None /\ todo = {}
    /\ walk' = "finished"
    /\ UNCHANGED <<listed, todo, cur, dst, meta, batch, stats, cut>>

\* The files whose meta.json a run may be writing.
Writing ==
    {f \in Files : \/ cur = None /\ \E e \in todo : f = FileOf[e]
                   \/ Marking /\ f = File}

\* SIGTERM of `timeout`, SIGKILL, the container: nothing is cleaned up.
Kill ==
    /\ walk = "walking"
    /\ walk' = "idle" /\ todo' = {} /\ cur' = None
    /\ meta' = meta \/ \E f \in Writing : meta' = [meta EXCEPT ![f] = "torn"]
    /\ cut' = cut \cup {f \in Files : Working("reading") /\ f = File}
    /\ UNCHANGED <<listed, dst, batch, stats>>

Step ==
    \/ \E e \in Entries : WriteMeta(e) \/ WriteMetaFails(e)
    \/ MetaOnly \/ AlreadyThere \/ Open \/ Refused \/ Read \/ Broken
    \/ MarkDownloaded \/ MarkFails

Next == Mention \/ Begin \/ Step \/ Finish \/ Kill

Spec == Init /\ [][Next]_vars

\* Refreshes go on and a walk goes on.  Any run may be killed or meet a full
\* disk, but not always before it comes to a file that is to be downloaded, and
\* a download that is tried again and again is not refused or broken for ever.
LiveSpec ==
    /\ Spec
    /\ WF_vars(Begin) /\ WF_vars(Step \/ Finish)
    /\ \A f \in {g \in Files : Policy[g] = "download"} :
          /\ SF_vars(\E e \in Entries : FileOf[e] = f /\ WriteMeta(e))
          /\ SF_vars(Open /\ File = f)
          /\ SF_vars(Read /\ File = f)

-----------------------------------------------------------------------------
TypeOK ==
    /\ listed \subseteq Entries /\ todo \subseteq batch /\ batch \subseteq listed
    /\ walk \in {"idle", "walking", "finished", "raised"}
    /\ cur # None =>
          cur.e \in batch \ todo /\ cur.step \in {"meta", "decide", "reading", "read"}
    /\ dst \in [Files -> {"absent", "partial", "whole"}]
    /\ meta \in [Files -> {"none", "no", "yes", "torn"}]
    /\ stats \in [Hows -> SUBSET Entries]
    /\ cut \subseteq Files

\* What is on disk between two runs is a whole file or no file, so that "thread
\* pages just show the image fallback" (refresh.sh) for what is missing, and a
\* meta.json that says "downloaded" is right.
Sound(f) ==
    /\ walk # "walking" => dst[f] # "partial"
    /\ meta[f] = "yes" => dst[f] = "whole"

WholeOrFallback == \A f \in Files : Sound(f)

\* That holds through every failure of the network and of the disk, for all but
\* the files a kill has cut off.
WholeUnlessKilled == \A f \in Files \ cut : Sound(f)

\* "A single failure (bad URL, SSL, disk error) is recorded and the walk
\* continues", as far as it is true: of a download.  A finished run has counted
\* each of its entries once, and every file has its meta.json.  A run that ends
\* by an exception has counted what it has passed, and has stopped at an entry
\* whose meta.json it could not write, never at one it could not download.
AllAccounted ==
    /\ \A h, k \in Hows : h # k => stats[h] \cap stats[k] = {}
    /\ walk = "finished" =>
        /\ UNION {stats[h] : h \in Hows} = batch
        /\ \A e \in batch : meta[FileOf[e]] \in {"no", "yes"}
    /\ walk = "raised" =>
        /\ cur.step \in {"meta", "decide", "read"}
        /\ UNION {stats[h] : h \in Hows} = (batch \ todo) \ {cur.e}

\* "attach downloads only files it doesn't already have" (docs/team.md): a
\* whole file is never opened for writing or unlinked again, by any later run
\* or second mention.
NeverRefetched == [][\A f \in Files : dst[f] = "whole" => dst'[f] = "whole"]_vars

\* A file that failed is tried again by the next runs until it is there, whole
\* and for good, unless a kill has cut it off (LiveSpec).
EventuallyDownloaded ==
    \A e \in Entries :
        e \in listed /\ Policy[FileOf[e]] = "download" ~>
            [](dst[FileOf[e]] = "whole" \/ FileOf[e] \in cut)
=============================================================================
