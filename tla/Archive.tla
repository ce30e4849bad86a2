------------------------------- MODULE Archive -------------------------------
(* slackdump's MESSAGE table as slack_log/core/slackdump_db.py reads it.     *)
(*                                                                           *)
(* A thread is named by its anchor, the ts of its parent or only message.  A *)
(* row is one copy of one message: slackdump stores a message under several  *)
(* chunks, and again when it is edited.  A row the DATA of which does not    *)
(* parse is a corrupt row.  slackdump fills the column THREAD_TS from the    *)
(* thread_ts of DATA, so that `thread` stands for COALESCE(THREAD_TS, TS) as *)
(* for what DATA says.  The copy itself, <<ts, chunk>>, stands for the       *)
(* message it holds, with its sender (module Directories).                   *)
EXTENDS Integers, Sequences, FiniteSets, SequencesExt

CONSTANTS
    Threads,    \* the anchors
    Channel,    \* the channel of a thread
    Senders     \* who messages are from

ASSUME ArchiveAssumption ==
    /\ Threads \subseteq Nat
    /\ IsFiniteSet(Threads)
    /\ DOMAIN Channel = Threads

Channels == {Channel[t] : t \in Threads}

\* A row of a delta; LOAD_DTTM comes with the delta, and the copies of one load
\* are told apart by their chunks.
Copies == [thread: Threads, ts: Nat, chunk: Nat, parses: BOOLEAN, parent: BOOLEAN,
           from: Senders]
Rows == [load: Nat, thread: Threads, ts: Nat, chunk: Nat \X Nat, parses: BOOLEAN,
         parent: BOOLEAN, from: Senders]

Copy(thread, ts, chunk, parses, parent, from) ==
    [thread |-> thread, ts |-> ts, chunk |-> chunk, parses |-> parses, parent |-> parent,
     from |-> from]

Row(c, load) ==
    [load |-> load, thread |-> c.thread, ts |-> c.ts, chunk |-> <<load, c.chunk>>,
     parses |-> c.parses, parent |-> c.parent, from |-> c.from]

Loaded(delta, load) == [i \in DOMAIN delta |-> Row(delta[i], load)]

Key(r) == <<Channel[r.thread], r.ts>>
IsAnchor(r) == r.ts = r.thread
Message(r) == <<r.ts, r.chunk, r.from>>

\* dict[k] = v.
Put(dict, k, v) == [x \in DOMAIN dict \cup {k} |-> IF x = k THEN v ELSE dict[x]]

\* _pick_latest: the newest LOAD_DTTM of each (channel, ts), the last one seen
\* of those that are equally new.
Newer(best, r) ==
    IF Key(r) \in DOMAIN best /\ best[Key(r)].load > r.load THEN best ELSE Put(best, Key(r), r)

PickLatest(table) == FoldLeft(Newer, <<>>, table)

Kept(keep, r) == keep[Key(r)].chunk = r.chunk

\* What split and the team ETL accumulate about a thread.
NoFirst == <<>>
NewMeta == [count |-> 0, first |-> NoFirst, parent |-> FALSE]
MetaOf(metas, t) == IF t \in DOMAIN metas THEN metas[t] ELSE NewMeta

\* The anchor row carries the flags of the thread (IS_PARENT, LATEST_REPLY).
Flagged(m, r) == IF IsAnchor(r) THEN [m EXCEPT !.parent = r.parent] ELSE m

\* A kept message: the anchor is the first one, until it shows up whatever
\* message came first.
Counted(m, r) ==
    [m EXCEPT !.count = @ + 1,
              !.first = IF IsAnchor(r) \/ m.first = NoFirst THEN Message(r) ELSE @]

\* Messages by ts; the sort is stable.
Before(msgs, i) ==
    {j \in DOMAIN msgs : msgs[j][1] < msgs[i][1] \/ (msgs[j][1] = msgs[i][1] /\ j < i)}
Sorted(msgs) ==
    [k \in DOMAIN msgs |->
        msgs[CHOOSE i \in DOMAIN msgs : Cardinality(Before(msgs, i)) = k - 1]]
=============================================================================
