-------------------------------- MODULE Split --------------------------------
(* The personal profile's jsonl layer: slack_log/pipeline/split.py, run      *)
(* after run over a MESSAGE table that slackdump lets grow, killed at any    *)
(* point, and what JsonlStore and iter_messages read from data/.             *)
EXTENDS Directories

CONSTANTS
    Deltas,     \* the row sequences a slackdump run may add
    MaxDeltas,  \* bound: how many it adds
    MaxCrashes, \* bound: how many runs are killed
    Limit,      \* _HandleCache(limit)
    NoFile,
    Torn        \* a file that does not parse: its rewriting was cut off

ASSUME SplitAssumption ==
    /\ MaxDeltas \in Nat /\ MaxCrashes \in Nat
    /\ Limit \in Nat \ {0}

\* slackdump's PRIMARY KEY (ID, CHUNK_ID); and all copies of a message are of one
\* thread, Slack never moves it to another.
ASSUME DeltasAssumption ==
    /\ Deltas \subseteq Seq(Copies)
    /\ \A d \in Deltas : \A i, j \in DOMAIN d :
          Key(d[i]) = Key(d[j]) /\ d[i].chunk = d[j].chunk => i = j
    /\ \A d, e \in Deltas : \A i \in DOMAIN d, j \in DOMAIN e :
          Key(d[i]) = Key(e[j]) => d[i].thread = e[j].thread

VARIABLES
    table,   \* MESSAGE, in the order of a scan
    deltas,  \* deltas added
    crashes,
    stage,   \* idle, light, stream, tidy, users, channels, index or done
    pos,     \* row the light or the streaming pass comes to
    keep,    \* best of _pick_latest
    metas,   \* index_meta
    people,  \* users
    open,    \* _open: threads with an open handle, least recently used first
    seen,    \* _seen: threads written in this run
    buffer,  \* what the open handles have not written out yet
    files,   \* threads/<anchor>.jsonl, of the threads that have one
    torn,    \* the threads the file of which ends with a part of a line
    usersJson, channelsJson,
    index,   \* index.jsonl of a channel
    tornIndex, \* the channels the index of which ends with a part of a line
    todo     \* files to tidy, then channels to write an index of

run == <<pos, keep, metas, people, open, seen>>
tears == <<torn, tornIndex>>
directories == <<usersJson, channelsJson>>
vars == <<table, deltas, crashes, stage, pos, keep, metas, people, open, seen,
          buffer, files, torn, usersJson, channelsJson, index, tornIndex, todo>>

Content(t) == IF t \in DOMAIN files THEN files[t] ELSE <<>>

Init ==
    /\ table = <<>> /\ deltas = 0 /\ crashes = 0
    /\ stage = "idle" /\ pos = 1 /\ keep = <<>> /\ metas = <<>>
    /\ people = <<>>
    /\ open = <<>> /\ seen = {}
    /\ buffer = [t \in Threads |-> <<>>]
    /\ files = <<>>
    /\ usersJson = NoFile /\ channelsJson = NoFile
    /\ index = [c \in Channels |-> {}]
    /\ torn = {} /\ tornIndex = {}
    /\ todo = {}

\* slackdump adds a delta; the order of a scan is not the order of insertion.
Grow ==
    /\ stage \in {"idle", "done"}
    /\ deltas < MaxDeltas
    /\ deltas' = deltas + 1
    /\ \E d \in Deltas :
          LET rows == Loaded(d, deltas')
          IN  table' \in {table \o rows, rows \o table}
    /\ stage' = "idle"
    /\ UNCHANGED <<crashes, run, buffer, files, directories, index, tears, todo>>

\* split, up to the light pass.
Begin ==
    /\ stage \in {"idle", "done"} /\ table # <<>>
    /\ stage' = "light"
    /\ pos' = 1
    /\ keep' = <<>>
    /\ metas' = <<>>
    /\ people' = Accounts
    /\ open' = <<>> /\ seen' = {}
    /\ UNCHANGED <<table, deltas, crashes, buffer, files, directories, index, tears, todo>>

-----------------------------------------------------------------------------
(* _HandleCache.write: the open, the eviction it may call for, the line.     *)

\* The rows that are written.
Written(r) == Kept(keep, r) /\ r.parses

\* Mutation: mode "w" always.
OpenedAlwaysEmpty(t) == <<>>

\* open(path, "a" if path in self._seen else "w").
Opened(t) == IF t \in seen THEN Content(t) ELSE <<>>

\* Mutation: >= Limit + 1 after the increment.
OverByOne == Len(open) > Limit + 1

\* len(self._open) > self._limit.
Over == Len(open) > Limit

\* Mutation: the path is not entered into self._seen.
OpenHandleUnseen ==
    LET t == table[pos].thread
    IN  /\ stage = "stream" /\ pos <= Len(table) /\ Written(table[pos])
        /\ t \notin ToSet(open) /\ ~Over
        /\ open' = Append(open, t)
        /\ files' = Put(files, t, Opened(t))
        /\ torn' = IF t \in seen THEN torn ELSE torn \ {t}
        /\ UNCHANGED <<table, deltas, crashes, stage, pos, keep, metas, people, seen, buffer,
                       directories, index, tornIndex, todo>>

\* The thread of the row that comes next has no open handle.
OpenHandle ==
    LET t == table[pos].thread
    IN  /\ stage = "stream" /\ pos <= Len(table) /\ Written(table[pos])
        /\ t \notin ToSet(open) /\ ~Over
        /\ open' = Append(open, t)
        /\ seen' = seen \cup {t}
        /\ files' = Put(files, t, Opened(t))
        /\ torn' = IF t \in seen THEN torn ELSE torn \ {t}
        /\ UNCHANGED <<table, deltas, crashes, stage, pos, keep, metas, people, buffer,
                       directories, index, tornIndex, todo>>

\* popitem(last=False) and close: what it has buffered is written out.
CloseOldest ==
    LET t == Head(open)
    IN  /\ Over
        /\ open' = Tail(open)
        /\ files' = [files EXCEPT ![t] = @ \o buffer[t]]
        /\ buffer' = [buffer EXCEPT ![t] = <<>>]
        /\ UNCHANGED <<table, deltas, crashes, stage, pos, keep, metas, people, seen,
                       directories, index, tears, todo>>

\* move_to_end.
Moved(t) == Append(RemoveAt(open, CHOOSE i \in DOMAIN open : open[i] = t), t)

\* The line goes to the handle, which is now the most recently used.
Write(t, msg) ==
    /\ t \in ToSet(open) /\ ~Over
    /\ open' = Moved(t)
    /\ buffer' = [buffer EXCEPT ![t] = Append(@, msg)]

-----------------------------------------------------------------------------
(* The three passes.                                                         *)

\* The body of the loop of _pick_latest.
LightRow ==
    /\ stage = "light" /\ pos <= Len(table)
    /\ keep' = Newer(keep, table[pos])
    /\ pos' = pos + 1
    /\ UNCHANGED <<table, deltas, crashes, stage, metas, people, open, seen, buffer, files,
                   directories, index, tears, todo>>

EndOfLight ==
    /\ stage = "light" /\ pos > Len(table)
    /\ stage' = "stream"
    /\ pos' = 1
    /\ UNCHANGED <<table, deltas, crashes, keep, metas, people, open, seen, buffer, files,
                   directories, index, tears, todo>>

\* The body of the loop of _stream_split: the flags are read before the parse.
StreamRow ==
    LET r == table[pos]
        m == Flagged(MetaOf(metas, r.thread), r)
    IN  /\ stage = "stream" /\ pos <= Len(table)
        /\ pos' = pos + 1
        /\ IF ~Kept(keep, r)
           THEN UNCHANGED <<metas, people, open, buffer>>
           ELSE IF ~r.parses
           THEN /\ metas' = Put(metas, r.thread, m)
                /\ UNCHANGED <<people, open, buffer>>
           ELSE /\ metas' = Put(metas, r.thread, Counted(m, r))
                /\ people' = CollectBot(people, r.from)
                /\ Write(r.thread, Message(r))
        /\ UNCHANGED <<table, deltas, crashes, stage, keep, seen, files, directories, index,
                       tears, todo>>

\* close_all; the written paths are the work list of the tidy pass.
EndOfStream ==
    /\ stage = "stream" /\ pos > Len(table)
    /\ files' = [t \in DOMAIN files |->
                    IF t \in ToSet(open) THEN files[t] \o buffer[t] ELSE files[t]]
    /\ buffer' = [t \in Threads |-> <<>>]
    /\ open' = <<>>
    /\ stage' = "tidy"
    /\ todo' = seen
    /\ UNCHANGED <<table, deltas, crashes, pos, keep, metas, people, seen, directories, index,
                   tears>>

\* _sort_unordered, one file.
Tidy(t) ==
    /\ stage = "tidy" /\ t \in todo
    /\ files' = [files EXCEPT ![t] = Sorted(@)]
    /\ todo' = todo \ {t}
    /\ UNCHANGED <<table, deltas, crashes, stage, run, buffer, directories, index, tears>>

\* Mutation: threads that are all corrupt are not skipped.
IndexLinesAll(c) ==
    {[thread |-> t, first |-> metas[t].first, author |-> None, count |-> metas[t].count,
      parent |-> metas[t].parent] : t \in {u \in DOMAIN metas : Channel[u] = c}}

\* The lines of a channel: the threads with a message that parses.
IndexLines(c) ==
    {Entry(t, metas[t], people) : t \in {u \in DOMAIN metas :
                                    Channel[u] = c /\ metas[u].first # NoFirst}}

EndOfTidy ==
    /\ stage = "tidy" /\ todo = {}
    /\ stage' = "users"
    /\ UNCHANGED <<table, deltas, crashes, run, buffer, files, directories, index, tears, todo>>

\* Mutation: users.json holds what S_USER does.
WriteUsersOfAccounts ==
    /\ stage = "users"
    /\ usersJson' = Accounts
    /\ stage' = "channels"
    /\ UNCHANGED <<table, deltas, crashes, run, buffer, files, channelsJson, index, tears, todo>>

\* users.json: the accounts and the bots that were met on the way.
WriteUsers ==
    /\ stage = "users"
    /\ usersJson' = people
    /\ stage' = "channels"
    /\ UNCHANGED <<table, deltas, crashes, run, buffer, files, channelsJson, index, tears, todo>>

\* channels.json: loaded with the accounts, before any bot was met.
WriteChannels ==
    /\ stage = "channels"
    /\ channelsJson' = LoadChannels(Accounts)
    /\ stage' = "index"
    /\ todo' = {c \in Channels : IndexLines(c) # {}}
    /\ UNCHANGED <<table, deltas, crashes, run, buffer, files, usersJson, index, tears>>

\* _write_index, one channel; a channel without a thread is left alone.
WriteIndex(c) ==
    /\ stage = "index" /\ c \in todo
    /\ index' = [index EXCEPT ![c] = IndexLines(c)]
    /\ tornIndex' = tornIndex \ {c}
    /\ todo' = todo \ {c}
    /\ UNCHANGED <<table, deltas, crashes, stage, run, buffer, files, torn, directories>>

Done ==
    /\ stage = "index" /\ todo = {}
    /\ stage' = "done"
    /\ UNCHANGED <<table, deltas, crashes, run, buffer, files, directories, index, tears, todo>>

\* The handles had written out some of their lines, and maybe a part of the next
\* one.
CrashStream ==
    /\ stage = "stream"
    /\ \E out \in [ToSet(open) -> UNION {Prefixes(buffer[t]) : t \in ToSet(open)}] :
          /\ \A t \in ToSet(open) : out[t] \in Prefixes(buffer[t])
          /\ files' = [t \in DOMAIN files |->
                          IF t \in ToSet(open) THEN files[t] \o out[t] ELSE files[t]]
          /\ \E ends \in SUBSET {t \in ToSet(open) : out[t] # buffer[t]} : torn' = torn \cup ends
    /\ UNCHANGED <<directories, index, tornIndex>>

\* A file that was being rewritten has some of its lines.
CrashTidy ==
    /\ stage = "tidy"
    /\ \E t \in todo : \E lines \in Prefixes(Sorted(files[t])) \ {Sorted(files[t])} :
          /\ files[t] # Sorted(files[t])
          /\ files' = [files EXCEPT ![t] = lines]
          /\ torn' \in {torn, torn \cup {t}}
    /\ UNCHANGED <<directories, index, tornIndex>>

\* An index that was being written has some of its lines; they are sorted by anchor.
CrashIndex ==
    /\ stage = "index"
    /\ \E c \in todo : \E next \in IndexLines(c) :
          /\ index' = [index EXCEPT ![c] = {e \in IndexLines(c) : e.thread < next.thread}]
          /\ tornIndex' \in {tornIndex \ {c}, tornIndex \cup {c}}
    /\ UNCHANGED <<files, torn, directories>>

\* Killed: the file that was being written, if there was one, is cut off.
Crash ==
    /\ stage \notin {"idle", "done"}
    /\ crashes < MaxCrashes
    /\ crashes' = crashes + 1
    /\ stage' = "idle"
    /\ \/ stage # "stream" /\ UNCHANGED <<files, directories, index, tears>>
       \/ CrashStream \/ CrashTidy \/ CrashIndex
       \/ /\ stage = "users" /\ usersJson' = Torn
          /\ UNCHANGED <<files, channelsJson, index, tears>>
       \/ /\ stage = "channels" /\ channelsJson' = Torn
          /\ UNCHANGED <<files, usersJson, index, tears>>
    /\ buffer' = [t \in Threads |-> <<>>]
    /\ pos' = 1 /\ keep' = <<>> /\ metas' = <<>> /\ people' = <<>>
    /\ open' = <<>> /\ seen' = {}
    /\ todo' = {}
    /\ UNCHANGED <<table, deltas>>

Next ==
    \/ Grow \/ Begin \/ LightRow \/ EndOfLight
    \/ OpenHandle \/ CloseOldest \/ StreamRow \/ EndOfStream
    \/ \E t \in Threads : Tidy(t)
    \/ EndOfTidy \/ WriteUsers \/ WriteChannels
    \/ \E c \in Channels : WriteIndex(c)
    \/ Done \/ Crash

Spec == Init /\ [][Next]_vars

-----------------------------------------------------------------------------
(* What is read back.  JsonlStore raises on a line that is cut off,          *)
(* iter_messages passes over it.                                             *)

\* JsonlStore.thread_meta; load_thread, with the author enrich_messages
\* resolves for each message.
JsonlThreadMeta(c) == index[c]
JsonlLoadThread(t) ==
    [i \in DOMAIN Content(t) |-> <<Content(t)[i], ResolveAuthor(Content(t)[i][3], usersJson)>>]

\* global_groups: the directories under channels/, and their files.
JsonlGroups(include) ==
    LET threads(c) == {t \in Threads : Channel[t] = c /\ t \in DOMAIN files}
        entries == [c \in {d \in Channels : threads(d) # {}} |-> Cardinality(threads(c))]
    IN  GlobalGroups(entries, channelsJson, include)

\* The documents of iter_messages that _index_personal keeps.
PersonalSearch(include) ==
    LET documents(t) ==
            {<<t, m, ResolveAuthor(m[3], usersJson), ChannelName(Channel[t], channelsJson)>> :
                m \in ToSet(Content(t))}
    IN  UNION {documents(t) : t \in {u \in Threads :
                                        KindOf(Channel[u], channelsJson) \in include}}

\* The lines there are to be written, and what is kept of a thread.
Messages == {Message(table[i]) : i \in DOMAIN table}
Metas == [count: Nat, first: Messages \cup {NoFirst}, parent: BOOLEAN]

TypeOK ==
    /\ deltas \in 0..MaxDeltas /\ crashes \in 0..MaxCrashes
    /\ table \in Seq(Rows)
    /\ stage \in {"idle", "light", "stream", "tidy", "users", "channels", "index", "done"}
    /\ pos \in 1..(Len(table) + 1)
    /\ DOMAIN metas \subseteq Threads /\ metas \in [DOMAIN metas -> Metas]
    /\ open \in Seq(seen) /\ seen \subseteq DOMAIN files /\ DOMAIN files \subseteq Threads
    /\ files \in [DOMAIN files -> Seq(Messages)]
    /\ buffer \in [Threads -> Seq(Messages)]
    /\ DOMAIN index = Channels
    /\ torn \subseteq DOMAIN files /\ tornIndex \subseteq Channels
    /\ todo \subseteq Threads \cup Channels

\* "limit bounds the number of simultaneously open file descriptors", but for
\* the one just opened, until the oldest is closed; and only open files have
\* lines still to be written.
HandlesBounded ==
    /\ Len(open) <= Limit + 1
    /\ Len(open) > Limit => stage = "stream" /\ buffer[open[Len(open)]] = <<>>
    /\ IsInjective(open)
    /\ \A t \in Threads : buffer[t] # <<>> => t \in ToSet(open)

\* A row that no newer copy of the same message supersedes.
IsNewest(r) == \A q \in ToSet(table) : Key(q) = Key(r) => q.load <= r.load

\* After a run, whatever runs were killed before it and however small the
\* cache: a thread's file holds the newest copy of each of its messages, once,
\* in ts order, and nothing of an earlier run, no half line either (files without
\* a message of this run are left as they were).
FilesHoldNewest ==
    stage = "done" => \A t \in seen :
        /\ t \notin torn
        /\ \A i, j \in 1..Len(files[t]) : i < j => files[t][i][1] < files[t][j][1]
        /\ \A m \in ToSet(files[t]) : \E r \in ToSet(table) :
              r.thread = t /\ r.parses /\ Message(r) = m /\ IsNewest(r)
        /\ \A r \in ToSet(table) :
              r.thread = t /\ (\A q \in ToSet(table) : Key(q) = Key(r) => q.parses) =>
                  \E m \in ToSet(files[t]) : m[1] = r.ts

\* A thread the channel page lists has a file to open, at every moment of a
\* run and after every crash.
ListedThreadsOpen ==
    \A c \in Channels : \A e \in index[c] : e.thread \in DOMAIN files

\* After a run the channel page has one line for each thread that was written:
\* it counts the messages the thread page shows, has the anchor for its first
\* one if that is there, whatever order the rows came in, and the author by the
\* name users.json has for him.
LinesTellFiles ==
    stage = "done" => \A t \in seen : \E e \in index[Channel[t]] :
        /\ Channel[t] \notin tornIndex
        /\ {f \in index[Channel[t]] : f.thread = t} = {e}
        /\ e.count = Len(files[t])
        /\ e.first \in ToSet(files[t])
        /\ \A m \in ToSet(files[t]) : m[1] = t => m = e.first
        /\ e.author = ResolveAuthor(e.first[3], usersJson)

\* The channel page against the thread pages it links to.
IndexMatchesFiles == ListedThreadsOpen /\ LinesTellFiles
=============================================================================
