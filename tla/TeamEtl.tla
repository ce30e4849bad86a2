------------------------------- MODULE TeamEtl -------------------------------
(* What the team ETL (_index_team of slack_log/pipeline/index.py) puts into  *)
(* search.db, as a function of the MESSAGE table, and what SqliteStore reads *)
(* back.  When its transactions become visible is the subject of SearchDb.   *)
EXTENDS Directories

CONSTANT Include  \* the kinds SLACK_LOG_INCLUDE names, all of them if it names none

ASSUME IncludeAssumption == Include \subseteq Kinds /\ Include # {}

Included(c) == KindOf(c, LoadChannels(Accounts)) \in Include

\* The rows a scan does not skip: the newest copies that parse, and of those
\* the ones of the kinds to include.
ParsedRows(table) ==
    LET keep == PickLatest(table)
    IN  {r \in ToSet(table) : Kept(keep, r) /\ r.parses}

IndexedRows(table) == {r \in ParsedRows(table) : Included(Channel[r.thread])}

\* Mutation: the first message seen stays the first one.
TeamMetaProvisional(table) ==
    LET rows == IndexedRows(table)
        seen(metas, r) ==
            LET m == Flagged(MetaOf(metas, r.thread), r)
            IN  IF r \in rows
                THEN Put(metas, r.thread,
                         [m EXCEPT !.count = @ + 1,
                                   !.first = IF @ = NoFirst THEN Message(r) ELSE @])
                ELSE metas
    IN  FoldLeft(seen, <<>>, table)

\* index_meta after one more row; a row is parsed before its flags are read.
Scanned(rows, metas, r) ==
    IF r \in rows
    THEN Put(metas, r.thread, Counted(Flagged(MetaOf(metas, r.thread), r), r))
    ELSE metas

TeamMeta(table) ==
    LET rows == IndexedRows(table)
    IN  FoldLeft(LAMBDA metas, r : Scanned(rows, metas, r), <<>>, table)

\* The accounts, and the bots that some of the rows name, in the order of a scan.
Met(rows, users, r) == IF r \in rows THEN CollectBot(users, r.from) ELSE users

Named(rows, table) == FoldLeft(LAMBDA users, r : Met(rows, users, r), Accounts, table)

\* The users table.
TeamUsers(table) == Named(IndexedRows(table), table)

\* message_raw, one thread.
MessageRaw(table, t) == {Message(r) : r \in {q \in IndexedRows(table) : q.thread = t}}

\* thread_meta: the threads table.
TeamThreadMeta(table, c) ==
    LET metas == TeamMeta(table)
    IN  {Entry(t, metas[t], TeamUsers(table)) : t \in {u \in DOMAIN metas : Channel[u] = c}}

\* ORDER BY ts; (channel_id, ts) is the PRIMARY KEY of message_raw.
OrderedByTs(msgs) ==
    [k \in 1..Cardinality(msgs) |->
        CHOOSE m \in msgs : Cardinality({l \in msgs : l[1] < m[1]}) = k - 1]

\* load_thread, with the author of each message.
TeamLoadThread(table, t) ==
    LET msgs == OrderedByTs(MessageRaw(table, t))
    IN  [i \in DOMAIN msgs |-> <<msgs[i], ResolveAuthor(msgs[i][3], TeamUsers(table))>>]

\* Mutation: channels without a thread are entered as well.
TeamChannelsAll(table) ==
    [c \in {d \in DOMAIN ChannelRows : Included(d)} |->
        Cardinality({t \in DOMAIN TeamMeta(table) : Channel[t] = c})]

\* The channels table: rows of CHANNEL with a thread, and thread_count.
TeamChannels(table) ==
    LET count(c) == Cardinality({t \in DOMAIN TeamMeta(table) : Channel[t] = c})
    IN  [c \in {d \in DOMAIN ChannelRows : Included(d) /\ count(d) > 0} |-> count(c)]

\* global_groups.
TeamGroups(table, include) ==
    GlobalGroups(TeamChannels(table), LoadChannels(Accounts), include)

\* messages: iter_messages_from_sqlite, whose first pass takes the bots from the
\* kept rows of every kind.
TeamSearch(table) ==
    LET users == Named(ParsedRows(table), table)
    IN  {<<r.thread, Message(r), ResolveAuthor(r.from, users),
           ChannelName(Channel[r.thread], LoadChannels(Accounts))>> : r \in IndexedRows(table)}
=============================================================================
