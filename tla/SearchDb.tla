------------------------------ MODULE SearchDb ------------------------------
(* search.db of the team profile, rebuilt under a running server:            *)
(* build_index of slack_log/pipeline/index.py (unlink, schema, four          *)
(* transactions), the page handlers of slack_log/web/app.py and the          *)
(* SqliteStore they read through, one connection for each store call and two *)
(* directories cached for the life of the process.                           *)
(*                                                                           *)
(* Builds are numbered; a table holds the set of builds its rows come from.  *)
(* One build runs at a time (module Pipeline).  A connection opened on the   *)
(* old file just before the unlink goes on reading that file: it reads what  *)
(* it would have read at the moment it was opened, so a store call is        *)
(* atomic here.                                                              *)
EXTENDS Integers, Sequences

CONSTANTS
    Requests,   \* request slots of the thread pool
    MaxBuilds   \* bound: builds in a behaviour

ASSUME SearchDbAssumption == MaxBuilds \in Nat

Tables == {"message_raw", "threads", "users", "channels", "messages"}
Cached == {"users", "channels"}
Pages == {"search", "thread", "channel", "home", "user"}

\* The CREATE TABLEs of open_db, in order.
Schema == <<"messages", "message_raw", "threads", "channels", "users">>

\* The None of a cache that has not been filled: no table has this content.
NotLoaded == {0}

\* Mutation: the FTS table is filled first.
TransactionsFtsFirst ==
    <<{"messages"}, {"message_raw"}, {"threads"}, {"users", "channels"}>>

\* The transactions of _index_team, in order, after the schema.
Transactions == <<{"message_raw"}, {"threads"}, {"users", "channels"}, {"messages"}>>

VARIABLES
    gen,      \* builds begun
    stage,    \* 0: no build; 1: search.db unlinked; n + 2: n transactions done
    schema,   \* how many tables of Schema search.db has
    rows,     \* rows[t]: the builds the rows of t come from
    cache,    \* SqliteStore._users, SqliteStore._channels
    page, busy, got, reply,  \* the request in a slot: its handler, whether
                             \* calls are to come, what the others returned
    fresh,    \* the build that was complete when the request came in, or 0
    hit       \* the build whose search hit the request follows, or 0

dbVars == <<gen, stage, schema, rows>>
reqVars == <<page, busy, got, reply, fresh, hit>>
vars == <<gen, stage, schema, rows, cache, page, busy, got, reply, fresh, hit>>

-----------------------------------------------------------------------------
(* A handler is the sequence of store calls it makes; `cached` ones go       *)
(* through users() or channels().                                            *)

Call(t) == [table |-> t, cached |-> FALSE]
Directory(t) == [table |-> t, cached |-> TRUE]

Handler(p) ==
    CASE p = "search"  -> <<Call("messages")>>
      [] p = "thread"  -> <<Call("message_raw"), Directory("users"),
                            Directory("channels"), Call("threads")>>
      [] p = "channel" -> <<Call("channels"), Call("threads"),
                            Directory("users"), Directory("channels")>>
      [] p = "home"    -> <<Call("channels"), Directory("users")>>
      [] p = "user"    -> <<Directory("users"), Call("messages")>>

\* The first call of these decides between the page and a 404.
NotFoundPages == {"thread", "channel", "user"}

HasTable(t) == \E i \in 1..schema : Schema[i] = t

Complete == stage = 0 /\ schema = Len(Schema) /\ \A t \in Tables : rows[t] # {}

Init ==
    /\ gen = 0
    /\ stage = 0
    /\ schema = 0
    /\ rows = [t \in Tables |-> {}]
    /\ cache = [t \in Cached |-> NotLoaded]
    /\ page = [r \in Requests |-> "home"]
    /\ busy = [r \in Requests |-> FALSE]
    /\ got = [r \in Requests |-> <<>>]
    /\ reply = [r \in Requests |-> 0]
    /\ fresh = [r \in Requests |-> 0]
    /\ hit = [r \in Requests |-> 0]

-----------------------------------------------------------------------------
(* Mutations.                                                                *)

\* The old file is not unlinked: CREATE TABLE IF NOT EXISTS keeps its rows.
BeginBuildInPlace ==
    /\ stage = 0 /\ gen < MaxBuilds
    /\ gen' = gen + 1
    /\ stage' = IF schema = Len(Schema) THEN 2 ELSE 1
    /\ UNCHANGED <<schema, rows, cache, reqVars>>

\* A search.db that is there is taken for a built one.
BeginBuildIfMissing ==
    /\ stage = 0 /\ gen < MaxBuilds /\ schema = 0
    /\ gen' = gen + 1
    /\ stage' = 1
    /\ rows' = [t \in Tables |-> {}]
    /\ UNCHANGED <<schema, cache, reqVars>>

-----------------------------------------------------------------------------
(* The build.                                                                *)

\* build_index: unlink, and open_db creates an empty file.
BeginBuild ==
    /\ stage = 0 /\ gen < MaxBuilds
    /\ gen' = gen + 1
    /\ stage' = 1
    /\ schema' = 0
    /\ rows' = [t \in Tables |-> {}]
    /\ UNCHANGED <<cache, reqVars>>

\* open_db: one CREATE TABLE of the executescript, which is in no transaction.
CreateTable ==
    /\ stage = 1
    /\ schema' = schema + 1
    /\ stage' = IF schema' = Len(Schema) THEN 2 ELSE 1
    /\ UNCHANGED <<gen, rows, cache, reqVars>>

\* One `with conn:` block of _index_team commits.
Commit ==
    /\ stage > 1
    /\ rows' = [t \in Tables |-> IF t \in Transactions[stage - 1]
                                 THEN rows[t] \cup {gen} ELSE rows[t]]
    /\ stage' = IF stage - 1 = Len(Transactions) THEN 0 ELSE stage + 1
    /\ UNCHANGED <<gen, schema, cache, reqVars>>

\* An exception or a kill: the open transaction is rolled back, the committed
\* ones stay (not in the last build of a behaviour: see RebuildHeals).
BuildDies ==
    /\ stage > 0 /\ gen < MaxBuilds
    /\ stage' = 0
    /\ UNCHANGED <<gen, schema, rows, cache, reqVars>>

-----------------------------------------------------------------------------
(* The server.                                                               *)

\* A request comes in on a free slot; `from` is the hit it follows, if any.
Receive(r, p, from) ==
    /\ page' = [page EXCEPT ![r] = p]
    /\ busy' = [busy EXCEPT ![r] = TRUE]
    /\ got' = [got EXCEPT ![r] = <<>>]
    /\ reply' = [reply EXCEPT ![r] = 0]
    /\ fresh' = [fresh EXCEPT ![r] = IF Complete THEN gen ELSE 0]
    /\ hit' = [hit EXCEPT ![r] = from]
    /\ UNCHANGED <<dbVars, cache>>

Request(r) ==
    /\ ~busy[r]
    /\ \E p \in Pages : Receive(r, p, 0)

\* The user clicks a hit of the search page: a link to /channels/../threads/..
FollowHit(r) ==
    /\ ~busy[r]
    /\ page[r] = "search" /\ reply[r] = 200
    /\ \E g \in got[r][1] : Receive(r, "thread", g)

Answer(r, status) ==
    /\ reply' = [reply EXCEPT ![r] = status]
    /\ busy' = [busy EXCEPT ![r] = FALSE]
    /\ UNCHANGED <<page, fresh, hit>>

\* The call a request has come to.
NextCall(r) == Handler(page[r])[Len(got[r]) + 1]

\* What a call gets: users() and channels() read their table only once.
InCache(c) == c.cached /\ cache[c.table] # NotLoaded
Value(c) == IF InCache(c) THEN cache[c.table] ELSE rows[c.table]

\* OperationalError, no such table: the handler fails with a 500.
NoTable(r) ==
    /\ busy[r]
    /\ ~InCache(NextCall(r)) /\ ~HasTable(NextCall(r).table)
    /\ Answer(r, 500)
    /\ UNCHANGED <<got, dbVars, cache>>

\* OperationalError, database is locked: the build is writing, and goes on
\* writing for longer than the timeout of the connection (5 s).
Locked(r) ==
    /\ busy[r]
    /\ ~InCache(NextCall(r)) /\ stage # 0
    /\ Answer(r, 500)
    /\ UNCHANGED <<got, dbVars, cache>>

\* Mutation: a handler renders "not found" as a page instead of raising the 404.
StoreCallSoft404(r) ==
    LET c == NextCall(r)
    IN  /\ busy[r] /\ (InCache(c) \/ HasTable(c.table))
        /\ cache' = IF c.cached THEN [cache EXCEPT ![c.table] = Value(c)] ELSE cache
        /\ got' = [got EXCEPT ![r] = Append(@, Value(c))]
        /\ IF \/ got[r] = <<>> /\ page[r] \in NotFoundPages /\ Value(c) = {}
              \/ Len(got[r]) + 1 = Len(Handler(page[r]))
           THEN Answer(r, 200)
           ELSE UNCHANGED <<page, busy, reply, fresh, hit>>
        /\ UNCHANGED dbVars

StoreCall(r) ==
    LET c == NextCall(r)
    IN  /\ busy[r]
        /\ InCache(c) \/ HasTable(c.table)
        /\ cache' = IF c.cached THEN [cache EXCEPT ![c.table] = Value(c)] ELSE cache
        /\ got' = [got EXCEPT ![r] = Append(@, Value(c))]
        /\ IF got[r] = <<>> /\ page[r] \in NotFoundPages /\ Value(c) = {}
           THEN Answer(r, 404)
           ELSE IF Len(got[r]) + 1 = Len(Handler(page[r]))
           THEN Answer(r, 200)
           ELSE UNCHANGED <<page, busy, reply, fresh, hit>>
        /\ UNCHANGED dbVars

\* The server process is replaced: empty caches, no request.
Restart ==
    /\ cache' = [t \in Cached |-> NotLoaded]
    /\ busy' = [r \in Requests |-> FALSE]
    /\ got' = [r \in Requests |-> <<>>]
    /\ reply' = [r \in Requests |-> 0]
    /\ UNCHANGED <<dbVars, page, fresh, hit>>

Next ==
    \/ BeginBuild \/ CreateTable \/ Commit \/ BuildDies
    \/ \E r \in Requests : Request(r) \/ FollowHit(r) \/ NoTable(r) \/ Locked(r) \/ StoreCall(r)
    \/ Restart

Spec == Init /\ [][Next]_vars

\* The scheduler starts the next build, and a build that does not die goes on.
LiveSpec ==
    Spec /\ WF_vars(BeginBuild) /\ WF_vars(CreateTable) /\ WF_vars(Commit)

-----------------------------------------------------------------------------
Answers == {0, 200, 404, 500}
Values == SUBSET (1..MaxBuilds)

\* Types; a page that is answered has made all its calls.
TypeOK ==
    /\ gen \in 0..MaxBuilds
    /\ stage \in 0..5 /\ (stage # 0 => gen # 0)
    /\ schema \in 0..Len(Schema)
    /\ stage = 1 => schema < Len(Schema)
    /\ rows \in [Tables -> Values]
    /\ cache \in [Cached -> Values \cup {NotLoaded}]
    /\ page \in [Requests -> Pages]
    /\ busy \in [Requests -> BOOLEAN]
    /\ got \in [Requests -> Seq(Values)]
    /\ \A r \in Requests :
          /\ Len(got[r]) <= Len(Handler(page[r]))
          /\ busy[r] => Len(got[r]) < Len(Handler(page[r]))
          /\ reply[r] = 200 => Len(got[r]) = Len(Handler(page[r]))
    /\ reply \in [Requests -> Answers]
    /\ fresh \in [Requests -> 0..MaxBuilds]
    /\ hit \in [Requests -> 0..MaxBuilds]

\* A search hit opens: the thread page behind it is an error page only when a
\* later build has unlinked the search.db the hit was found in.  (The FTS
\* table is filled last, after what its links lead to.)
HitOpens ==
    \A r \in Requests :
        hit[r] # 0 /\ reply[r] \in {404, 500} => gen > hit[r]

\* "A successful run is immediately live" (refresh.sh): a page requested when
\* build g is complete, and answered before another build begins, is made of
\* the rows of g and of nothing older, whatever died before g.  Here without
\* the two cached directories.
RowsAreLive ==
    \A r \in Requests : reply[r] = 200 /\ fresh[r] # 0 /\ fresh[r] = gen =>
        \A i \in 1..Len(got[r]) :
            ~Handler(page[r])[i].cached => got[r][i] = {gen}

\* The same with them: names, avatars and known users are those of g.
DirectoriesAreLive ==
    \A r \in Requests : reply[r] = 200 /\ fresh[r] # 0 /\ fresh[r] = gen =>
        \A i \in 1..Len(got[r]) : got[r][i] = {gen}

\* "Pages fail until a refresh rebuilds it" (docs/team.md): a search.db that is
\* missing, or that a dying build left with only some of its tables, is whole
\* again after later builds (LiveSpec).
RebuildHeals == []<>Complete
=============================================================================
