------------------------------ MODULE Profiles -------------------------------
(* The two profiles over one archive: what JsonlStore reads after a split    *)
(* and what SqliteStore reads after a team ETL of the same table are the     *)
(* same thing ("JsonlStore and SqliteStore must behave identically",         *)
(* tests/test_store_contract.py).                                            *)
EXTENDS Split, TeamEtl

\* No copy of an anchor is corrupt in a thread with a copy that parses, and
\* slackdump has it along with any reply that is.
AnchorsParse ==
    \A d, e \in Deltas : \A i \in DOMAIN d, j \in DOMAIN e :
        ~d[i].parses /\ e[j].parses /\ d[i].thread = e[j].thread =>
            /\ ~IsAnchor(d[i])
            /\ \E k \in DOMAIN d : d[k].thread = d[i].thread /\ IsAnchor(d[k])

\* No person has the id of a bot.
PeopleAreNoBots == \A p, q \in Senders : p.user \notin DOMAIN CollectBot(<<>>, q)

\* A sender whose name may come from a message of an excluded kind: split reads
\* it, the team ETL does not.
NamedElsewhere(from) ==
    \E r \in ToSet(table) :
        /\ ~Included(Channel[r.thread])
        /\ from.bot \in DOMAIN CollectBot(<<>>, r.from)

\* What a page shows of an author the two profiles know from the same rows.
Shown(author, from) == IF NamedElsewhere(from) THEN None ELSE author

\* The rows of a channel page (first message and its author, count, parent
\* flag) and the messages of a thread page with their authors, in order, and no
\* line on which a page of the personal profile fails.
PagesAgree ==
    LET rows(entries) == {[e EXCEPT !.author = Shown(@, e.first[3])] : e \in entries}
        page(msgs) == [i \in DOMAIN msgs |-> <<msgs[i][1], Shown(msgs[i][2], msgs[i][1][3])>>]
    IN  stage = "done" =>
            /\ \A c \in {d \in Channels : Included(d)} :
                  c \notin tornIndex /\ rows(JsonlThreadMeta(c)) = rows(TeamThreadMeta(table, c))
            /\ \A t \in {u \in Threads : Included(Channel[u])} :
                  t \notin torn /\ page(JsonlLoadThread(t)) = page(TeamLoadThread(table, t))

\* The home page: the channels, their names and thread counts.  (A channel with
\* messages that CHANNEL does not list is a directory of the personal profile
\* and no row of the team's channels table.)
GroupsAgree ==
    stage = "done" =>
        {g \in JsonlGroups(Include) : g.id \in DOMAIN ChannelRows} = TeamGroups(table, Include)

\* The documents full-text search finds, with the names they are found by.
SearchAgrees ==
    stage = "done" => PersonalSearch(Include) = TeamSearch(table)
=============================================================================
