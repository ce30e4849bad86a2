------------------------------- MODULE Unread -------------------------------
(* The daily review of slack_log/unread.py: `unread` lists what is new since *)
(* each conversation's watermark, `ack` advances the watermarks to the until *)
(* and count that `unread` printed.  The messages come from search.db, which *)
(* builds replace at any moment; the watermarks live in review.db.  Two      *)
(* reviewers may work at the same time, and each command reads search.db and *)
(* review.db at two different moments.                                       *)
EXTENDS Integers, FiniteSets, FiniteSetsExt

CONSTANTS
    Reviewers,
    Chats,
    Messages,    \* every message that can ever be indexed
    Chat, Ts,    \* its conversation and time (unique in the conversation)
    MaxTs,       \* bound: times are 1..MaxTs
    MaxLost      \* bound: messages a later build does not have any more

ASSUME UnreadAssumption ==
    /\ Chat \in [Messages -> Chats]
    /\ Ts \in [Messages -> 1..MaxTs]
    /\ \A m, n \in Messages : Chat[m] = Chat[n] /\ Ts[m] = Ts[n] => m = n
    /\ MaxTs \in Nat
    /\ MaxLost \in Nat
    /\ IsFiniteSet(Messages)

VARIABLES
    archive,   \* what a build would index
    index,     \* the messages table of search.db
    building,
    lost,      \* how many messages have vanished
    mark,      \* last_reviewed_ts of a conversation, 0 without a row
    count,     \* reviewed_count
    phase,     \* what a reviewer is doing
    rows,      \* the messages his running command has read
    view,      \* the until and COUNT the last `unread` printed
    told,      \* history: messages some `unread` has listed or counted in a
               \* "late" it printed
    acked      \* history: messages some `ack` has covered

buildVars == <<archive, index, building, lost>>
marks == <<mark, count>>
history == <<told, acked>>
vars == <<archive, index, building, lost, mark, count, phase, rows, view, told, acked>>

NoView == [until |-> 0, count |-> 0, ackable |-> FALSE]

Init ==
    /\ archive = {} /\ index = {} /\ building = FALSE /\ lost = 0
    /\ mark = [c \in Chats |-> 0]
    /\ count = [c \in Chats |-> 0]
    /\ phase = [r \in Reviewers |-> "idle"]
    /\ rows = [r \in Reviewers |-> {}]
    /\ view = [r \in Reviewers |-> NoView]
    /\ told = {} /\ acked = {}

-----------------------------------------------------------------------------
(* The builds.                                                               *)

\* slackdump adds a message: a new one, or a late reply or import.
Import ==
    /\ \E m \in Messages \ archive : archive' = archive \cup {m}
    /\ UNCHANGED <<index, building, lost, marks, phase, rows, view, history>>

\* The message's newest copy does not parse, or the next build is for another
\* --include: the message is not indexed again.
Vanish ==
    /\ lost < MaxLost
    /\ lost' = lost + 1
    /\ \E m \in archive : archive' = archive \ {m}
    /\ UNCHANGED <<index, building, marks, phase, rows, view, history>>

\* build_index unlinks search.db; the messages come in one transaction.
BeginBuild ==
    /\ ~building
    /\ building' = TRUE
    /\ index' = {}
    /\ UNCHANGED <<archive, lost, marks, phase, rows, view, history>>

EndBuild ==
    /\ building
    /\ building' = FALSE
    /\ index' = archive
    /\ UNCHANGED <<archive, lost, marks, phase, rows, view, history>>

BuildDies ==
    /\ building
    /\ building' = FALSE
    /\ UNCHANGED <<archive, index, lost, marks, phase, rows, view, history>>

-----------------------------------------------------------------------------
(* unread.                                                                   *)

\* Mutation: without a message the newest ts is minus infinity.
NewestUnbounded(R) == Max({Ts[m] : m \in R} \cup {-1})

Newest(R) == Max({Ts[m] : m \in R} \cup {0})
UpTo(R, t) == {m \in R : Ts[m] <= t}
Below(R, c) == {m \in R : Chat[m] = c /\ Ts[m] <= mark[c]}

\* Mutation: the late check compares the wrong way round.
LateNever(R, c) ==
    IF mark[c] = 0 THEN 0 ELSE Max({count[c] - Cardinality(Below(R, c)), 0})

\* How many messages landed at or below the watermark after the ack.
Late(R, c) ==
    IF mark[c] = 0 THEN 0 ELSE Max({Cardinality(Below(R, c)) - count[c], 0})

\* _rows: one query over the messages table.
UnreadRows(r) ==
    /\ phase[r] = "idle"
    /\ phase' = [phase EXCEPT ![r] = "unread"]
    /\ rows' = [rows EXCEPT ![r] = index]
    /\ UNCHANGED <<buildVars, marks, view, history>>

\* The watermarks are read, the listing is printed.  `only` is --channel: the
\* view is partial and offers no ack.  An empty one has a COUNT with --json only.
\* (--json prints the until and COUNT of every view, of partial ones without the
\* warning of the text, "do not ack from this view": that is heeded here.)
UnreadList(r, until, only) ==
    LET new == {m \in UpTo(rows[r], until) : Ts[m] > mark[Chat[m]] /\ Chat[m] \in only}
        late == {c \in only : Late(rows[r], c) > 0}
    IN  /\ phase[r] = "unread"
        /\ phase' = [phase EXCEPT ![r] = "idle"]
        /\ told' = told \cup new \cup UNION {Below(rows[r], c) : c \in late}
        /\ \E json \in BOOLEAN : view' = [view EXCEPT ![r] =
                       [until |-> until,
                        count |-> Cardinality(UpTo(rows[r], until)),
                        ackable |-> only = Chats /\ (json \/ new # {} \/ late # {})]]
        /\ rows' = [rows EXCEPT ![r] = {}]
        /\ UNCHANGED <<buildVars, marks, acked>>

\* --since: the watermarks are ignored, there is no late check and no ack (its
\* COUNT in --json is not for one either).
UnreadSince(r, since) ==
    /\ phase[r] = "unread"
    /\ phase' = [phase EXCEPT ![r] = "idle"]
    /\ told' = told \cup {m \in rows[r] : Ts[m] >= since}
    /\ view' = [view EXCEPT ![r] = NoView]
    /\ rows' = [rows EXCEPT ![r] = {}]
    /\ UNCHANGED <<buildVars, marks, acked>>

UnreadPrint(r) ==
    \/ \E until \in {Newest(rows[r])} \cup 1..MaxTs,
          only \in {Chats} \cup {{c} : c \in Chats} : UnreadList(r, until, only)
    \/ \E since \in 1..MaxTs : UnreadSince(r, since)

-----------------------------------------------------------------------------
(* ack, with the until and the COUNT of the last view.                       *)

\* Mutation: the count is not compared.
AckRowsUnchecked(r) ==
    /\ phase[r] = "idle" /\ view[r].ackable
    /\ phase' = [phase EXCEPT ![r] = "ack"]
    /\ rows' = [rows EXCEPT ![r] = UpTo(index, view[r].until)]
    /\ UNCHANGED <<buildVars, marks, view, history>>

\* _rows again; the count decides between StaleAck and going on.
AckRows(r) ==
    /\ phase[r] = "idle" /\ view[r].ackable
    /\ Cardinality(UpTo(index, view[r].until)) = view[r].count
    /\ phase' = [phase EXCEPT ![r] = "ack"]
    /\ rows' = [rows EXCEPT ![r] = UpTo(index, view[r].until)]
    /\ UNCHANGED <<buildVars, marks, view, history>>

\* StaleAck: nothing is written; "rerun unread and review before acking".
AckRefused(r) ==
    /\ phase[r] = "idle" /\ view[r].ackable
    /\ Cardinality(UpTo(index, view[r].until)) # view[r].count
    /\ view' = [view EXCEPT ![r] = NoView]
    /\ UNCHANGED <<buildVars, marks, phase, rows, history>>

\* Mutation: the upsert has no WHERE.
UpsertAlways(c, R) == R # {}

\* ... WHERE excluded.last_reviewed_ts >= review_watermark.last_reviewed_ts
Upsert(c, R) == R # {} /\ Newest(R) >= mark[c]

\* The upsert of all conversations, one transaction of review.db.
AckWrite(r) ==
    LET of(c) == {m \in rows[r] : Chat[m] = c}
    IN  /\ phase[r] = "ack"
        /\ mark' = [c \in Chats |-> IF Upsert(c, of(c)) THEN Newest(of(c)) ELSE mark[c]]
        /\ count' = [c \in Chats |->
                        IF Upsert(c, of(c)) THEN Cardinality(of(c)) ELSE count[c]]
        /\ acked' = acked \cup rows[r]
        /\ phase' = [phase EXCEPT ![r] = "idle"]
        /\ rows' = [rows EXCEPT ![r] = {}]
        /\ view' = [view EXCEPT ![r] = NoView]
        /\ UNCHANGED <<buildVars, told>>

\* The command is interrupted or fails on a database error: it has written
\* nothing, and the view it worked from is still on the reviewer's screen.
Interrupted(r) ==
    /\ phase[r] # "idle"
    /\ phase' = [phase EXCEPT ![r] = "idle"]
    /\ rows' = [rows EXCEPT ![r] = {}]
    /\ UNCHANGED <<buildVars, marks, view, history>>

Review(r) ==
    \/ Interrupted(r)
    \/ UnreadRows(r) \/ UnreadPrint(r)
    \/ AckRows(r) \/ AckRefused(r) \/ AckWrite(r)

Next ==
    \/ Import \/ Vanish \/ BeginBuild \/ EndBuild \/ BuildDies
    \/ \E r \in Reviewers : Review(r)

Spec == Init /\ [][Next]_vars

-----------------------------------------------------------------------------
TypeOK ==
    /\ archive \subseteq Messages /\ index \subseteq Messages
    /\ building \in BOOLEAN /\ lost \in 0..MaxLost
    /\ mark \in [Chats -> 0..MaxTs]
    /\ count \in [Chats -> 0..Cardinality(Messages)]
    /\ phase \in [Reviewers -> {"idle", "unread", "ack"}]
    /\ rows \in [Reviewers -> SUBSET Messages]
    /\ view \in [Reviewers -> [until : 0..MaxTs, count : 0..Cardinality(Messages),
                               ackable : BOOLEAN]]
    /\ told \subseteq Messages /\ acked \subseteq Messages

\* Nothing is missed silently: a message at or below its conversation's
\* watermark was listed by an `unread`, or counted in a "late" it printed, or
\* will be by the next one.  A build between `unread` and `ack` must not "bury
\* them under the watermark where even the late check can't see them" (ack).
\* The check compares numbers of messages, so this holds for an archive that
\* only grows.
NothingBuried ==
    lost = 0 => \A m \in index : Ts[m] <= mark[Chat[m]] =>
        m \in told \/ Late(index, Chat[m]) > 0

\* What was acked is not listed again, whatever older ack comes after it.
AckedStaysBelow == \A m \in acked : Ts[m] <= mark[Chat[m]]

\* ack covers only what a reviewer has had in front of him, in an archive that
\* only grows.
AckedWasSeen == lost = 0 => acked \subseteq told

\* "Never moves a watermark backwards" (ack), with two of them racing.
NeverBackwards == [][\A c \in Chats : mark'[c] >= mark[c]]_vars
=============================================================================
