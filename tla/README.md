# slack-log in TLA+

This directory is a verification development of slack-log: the program that
archives a Slack workspace with slackdump, turns the archive into a browsable
and searchable site, and keeps it fresh. It holds TLA+ modules translated from
the Python and shell source, TLC configurations that check them on small
instances, and TLAPS proofs of the properties that matter most for every value
of the constants. `PROJECT.json` maps each definition to the lines it models.

## The system

| Component | Source | State | Operations |
|---|---|---|---|
| build pipeline and lock | `slack_log/lock.py`, `pipeline/__main__.py`, `scripts/refresh.sh` | the flock and pid file, the slackdump child, three artefacts: `raw/slackdump.sqlite`, `data/`, `search.db` | a locked build (`python -m slack_log.pipeline`), `refresh.sh`, the submodules run one by one |
| sync manager | `web/sync.py`, the `/sync` handlers of `web/app.py` | `_running`, last trigger, times and result; the `refresh.sh` processes | `trigger`, `_run`, `scheduler_loop`, container restart |
| search.db and the pages (team) | `pipeline/index.py` (`build_index`, `_index_team`), `store/sqlite_store.py`, `web/app.py` | the tables of `search.db`, the two cached directories, requests in flight | rebuild in four transactions, page handlers, server restart |
| unread review | `unread.py` | `review.db`: a watermark and a count for each conversation | `unread`, `ack` |
| splitter (personal) | `pipeline/split.py`, `core/slackdump_db.py`, `store/jsonl_store.py` | thread files, `users.json`, `channels.json`, `index.jsonl`, the LRU cache of open handles | light pass, streaming pass, directories, tidy pass, index pass |
| team ETL and the store contract | `pipeline/index.py`, `store/*.py` | tables `message_raw`, `threads`, `users`, `channels`, `messages` | the same archive read through two stores |
| attachments | `pipeline/attach.py` | files and `meta.json` on disk | one walk per run |
| text and CJK tokens | `core/text.py` | none | preview, mentions on a page, text of the index; split and join of ideographs |
| OIDC login | `web/auth.py` | the session in a signed cookie, the secret that signs it | middleware, login, callback, logout |
| presenter, static export | `web/presenter.py`, `web/static_export.py` | none | formatting |
| search query and CLI | `search.py`, `pipeline/index.py` (`search`) | none | one SQL query, its hits cleaned for the terminal |
| configuration | `config.py` | none | environment read once |
| templates, deployment | `templates/`, `deploy/`, `Dockerfile` | none | markup, manifests |

How they interact: the server's scheduler (or `POST /sync`) makes the sync
manager spawn `refresh.sh`; that runs fetch (slackdump, a child process), split,
attach and index as separate processes over the shared `/data` volume. The
personal profile runs the same steps in one locked process. The server reads
`search.db` (team) or `data/` (personal) through a store, at any moment of a
build. A reviewer runs `unread` and later `ack`, each reading `search.db` and
`review.db` at two different moments, while builds go on. Nothing in the system
shares memory between processes: they meet on files.

What is hard, and what makes each component correct:

- *Two writers on one file.* A build must be the only one on its artefacts,
  must not wait for another one, and must leave no lock behind however it ends.
- *At most one refresh*, with an exclusion that is one boolean in the server:
  it works as long as the manager knows of every refresh.
- *A file replaced under its readers.* `search.db` is unlinked and refilled in
  four transactions; pages need several store calls. What a finished build
  wrote must be what pages show, and a link in a search result must open.
- *A check and a later write.* `ack` must not cover what nobody has seen, and
  must not undo a newer `ack`.
- *One pass over rows in any order with a bounded number of open files*, killed
  at any point, and the same result as an SQL table sorted by ts.
- *Retries over what an earlier run left*: existence of a file is taken for
  completeness of a download.
- *Names that are met on the way*: bots are not in slackdump's table of users,
  the messages name them, and every file or table that shows a name must be
  written when it is known.
- *One text in four shapes* (page, preview, index, hit): what is read in one of
  them must be found in another one.
- *A session that lives in the browser*: every response replaces it by what its
  handler started from.

The full list, each at its line, is `hazards` in `PROJECT.json`.

## The modules

### Pipeline, ExclusiveBuild

`ExclusiveBuild` is the promise: a build enters only an empty system, works
alone and leaves. `Pipeline` is the implementation: processes of three kinds
(`Kind`: a locked `build`, a `refresh`, a standalone submodule) as they go
through `build_lock` and the steps of their profile. `pc` is where a process
is, `step` what it does, `flock`, `fds` and `pidfile` are the lock, `child`
and `orphans` the slackdump processes with and without a parent. `raw`, `data`
and `db` are version numbers: slackdump increments `raw`, a step copies the
version of its source, and 0 is "absent or a mixture". A process that reads an
artefact while another one writes it ends up with a mixture, which is what
makes interference visible. `Kill` is SIGKILL of any process: the kernel drops
the flock with it, but the slackdump child lives on as an orphan, and the split,
attach or index that a killed `refresh.sh` was waiting for may go on without it
(`headless`). What happens inside a step is in the other modules.

### SyncManager

One event loop, so an action is what a coroutine does between two awaits.
`Trigger` is the check and set of `_running` up to `create_task`; `Spawn`,
`EndOfOutput`, `Reap` are the awaits of `_run`, `SpawnFails` and `LineTooLong`
its exception paths (an over-long line may come from a script at work or still
be in the buffer of one that has ended), `Finish` its `finally`. `live` and `code` are the
`refresh.sh` processes of the container, `strays` (a history variable) those
the manager did not start or no longer reads. `RunByHand` is the bootstrap
described in `deploy/k8s/README.md`. `stamp` folds `last_started` and
`last_finished` into which of them is later. A 409, 401 or 503 changes nothing
and is the disabled guard of `Post`.

### SearchDb

Builds are numbered and a table holds the set of builds its rows come from.
`BeginBuild` unlinks, `CreateTable` is one CREATE TABLE of the executescript
(which is in no transaction), `Commit` one of the four `with conn:` blocks,
`BuildDies` rolls back the open one. `Handler` gives each
page its store calls in order; a busy request takes one call at a time
(`StoreCall`, `NoTable`; `Locked` when the build writes for longer than the
connection waits), so builds and other requests come in between.
`cache` is `SqliteStore._users` and `_channels`.

### Unread

`UnreadRows`/`UnreadList` (or `UnreadSince`) and `AckRows`/`AckWrite` are the
two halves of the commands: the messages are read from `search.db`, then
`review.db` is read or written. `view` is what the reviewer has on his screen,
`until` and `COUNT`. `told` and `acked` are history variables. Builds import
late messages, die in the middle, and lose messages at most `MaxLost` times.

### Archive, Directories, Split, TeamEtl, Profiles

`Archive` is slackdump's MESSAGE table and what both profiles compute from it
(`PickLatest`, the thread metadata). `Directories` is who and where: the users
of S_USER, the bots that messages make known (`CollectBot`), the author a
message is shown with (`ResolveAuthor`; a bot's id is that of its profile if
there is one, `BotOf`), the name of a DM (`LoadChannels`) and
the groups of the home page. `Split` is `split()` as a state machine:
`LightRow` is one row of `_pick_latest`, `StreamRow` one of the streaming loop,
`OpenHandle`, `CloseOldest` and `Write` the LRU cache of handles, which opens
the new one before it closes the oldest (what a handle has buffered is in `buffer`
until the handle is closed; `files` has the threads with a file for its domain),
`WriteUsers` and `WriteChannels` the two JSON files with the bots of the
streaming pass, `Tidy` the sort of one file, `WriteIndex` one `index.jsonl`,
`Crash` a kill that leaves any prefix of what was buffered or being rewritten,
with half a line at its end or not (`torn`, `tornIndex`: JsonlStore raises on it),
and a directory file that does not parse (`Torn`). `JsonlThreadMeta`,
`JsonlLoadThread`, `JsonlGroups` and `PersonalSearch` are what JsonlStore and
the personal `search.db` make of the files. `TeamEtl` is `_index_team` as a
function of the table: `IndexedRows` are the rows its scan does not skip,
`TeamMeta` and `Named` fold the metadata of the threads and the names of the
bots over them (`Scanned`, `Met`: one row more), and `message_raw` is the set of
their messages, which ORDER BY ts makes a page of. `Profiles` states that the
two profiles show the same channel pages, thread pages, home page and search
results.

`DeltasAssumption` is what split relies on: no two copies of a message with one
chunk (slackdump's `PRIMARY KEY (ID, CHUNK_ID)`, as the tables of
`tests/conftest.py:35` and `tests/test_splitter_integration.py:62-66` have it),
and all copies of a message in one thread. A row has one `thread`: the
column THREAD_TS that split groups by and the `thread_ts` in the JSON that the ETL
reads are taken to agree, as slackdump fills the one from the other.
`AnchorsParse` and `PeopleAreNoBots` in `Profiles` are hypotheses of the theorems about both profiles, see below.

### SlackText

A text is a sequence of characters and of `<...>` constructs, and the transforms
of `core/text.py` are operators on it: `MakePreview`, `PageText` (what a browser
shows of `expand_mentions`), `Normalize` (the text column of the index),
`SplitCjk` and `JoinCjk`. `ToFtsQuery` and `Matches` are the query of
`pipeline/index.py` and its MATCH; unicode61 (external) is `Tokens`: runs of
characters of the token class. `Snippet` and `Clean` are a hit and what the
terminal prints of it. The state is the text, which grows by one element at a
time: each text within the bound is a state, and the properties compare its
shapes.

### Auth

Several tabs of one browser, the server and the identity provider (IdP). A tab
is at rest, has a request on its way or a response coming (`at`, `wire`), or
waits at the IdP. The server keeps nothing: a request carries the cookie the
browser had (`jar`) when it was sent, the response carries it back as the
handler left it, and it replaces the browser's when it comes in (`Receive`).
That is how Starlette's middleware works, and why two requests in flight
overwrite each other's session. `Page` is the middleware, `BeginLogin`,
`Callback`, `Restarted`, `CodeRefused` and `Logout` the handlers, `Approve` and
`Deny` the IdP; `Expire` drops the cookie, `Restart` may change the random
secret, which makes a cookie worthless. `asked` is a history variable: what the
user of a tab asked for, until something interferes that the code cannot make
up for (a request of another tab meanwhile, a denied login, a lost session).

### Attach

An entry is a mention of a file by a message. `WriteMeta` is the first write of
`meta.json`; `MetaOnly`, `AlreadyThere`, `Open`/`Refused`, `Read`/`Broken`,
`MarkDownloaded` are the ways through the loop body. A download is inside a try,
the writes of `meta.json` and the mkdir before them are not: on a full disk they
end the walk (`WriteMetaFails`, `MarkFails`, walk `raised`). `Kill` is
`timeout 1200` or the container. `dst` says what is on disk (absent, partial,
whole), `meta` what `meta.json` says, `torn` if it was truncated and not written,
and the history variable `cut` which files a kill has cut off.

### MC modules

`MCPipeline`, `MCSyncManager`, `MCSearchDb`, `MCUnread`, `MCProfiles`,
`MCAttach`, `MCSlackText` and `MCAuth` extend the module they instantiate with
the values a configuration needs. A definition that begins with "Mutation" in its comment is a plausible
bug in the definition after it; swapping it in must break a property, which is
how we know that the property depends on the code.

## The runs

| Run | Configuration | Shows |
|---|---|---|
| pipeline_builds | `PipelinePersonal` | three builds killed anywhere but in fetch never meet on an artefact, a finished one leaves artefacts of one version, and Pipeline refines ExclusiveBuild |
| pipeline_live | `PipelineLive` | two builds and a refresh, each of which may be killed anywhere: lock held by exactly the build inside, no build waits for a lock, all come to an end |
| sync_runs | `SyncRuns` | with every failure switched on: the refresh the manager runs is reported and alone, its result honest, and only a script that hangs for ever stops the scheduler |
| searchdb_runs | `SearchDbRuns` | hits open, uncached rows are live after a build, a later build heals |
| unread_review | `UnreadReview` | nothing acked unseen or buried, watermarks never move back |
| profiles_agree | `ProfilesAgree` | after kills in any pass, half lines included: files hold the newest copies in order, index lines tell what the files hold, descriptors are bounded (by the limit and one more while a handle is exchanged), both profiles show the same pages, names, groups and search results |
| attach_runs | `AttachRuns` | a finished run accounts for all entries and one that raises for all it passed, whole files stay, every file no kill has cut off gets there whole |
| text_search | `TextSearch` | what a reader sees of a message finds it; hits and previews read like the message |
| auth_sessions | `AuthSessions` | a tab lands where its user asked, and none is sent round for ever |
| pipeline_orphan | `PipelineOrphan` | counterexample, see below |
| searchdb_stale | `SearchDbStale` | counterexample, see below |
| attach_killed | `AttachKilled` | counterexample, see below |

### Bounds

- Pipeline: three builds are one holder, one refused and one that comes after a
  kill; two kills; two deltas, so that an artefact can be one version behind.
  Two builds and a refresh in the liveness run, one kill.
- SyncManager: three pids: the manager's refresh, one it left, one by hand.
- SearchDb: two builds (one may die, or be under way while the other's rows are
  read) and two requests; the last build may not die, as a scheduler that never
  has a successful build heals nothing.
- Unread: two messages of one conversation, one of which is late when the other
  one comes first, a second conversation without messages (so that
  `--channel` views are partial), two reviewers, two lost messages. A change in
  another conversation can only make `ack` refuse more often: it compares the
  count of all of them.
- Profiles: six threads of four channels: a channel, a DM with a bot, a group DM
  whose kind is not included, and a channel that CHANNEL does not list. Three
  deltas out of four (a thread reply first, an edit, a corrupt newer copy, two
  interleaved threads in two chunks), prepended or appended, one crash, a cache
  of one handle: every second write evicts. Senders are people, bots with and
  without a profile, a bot that is added under another name, and one that only
  the excluded channel names.
- Attach: a file mentioned twice, one that is never downloaded, one without a
  URL. Kills and full disks are not bounded.
- SlackText: texts of up to four elements out of two ideographs, a letter, a
  blank, a separator and five constructs (a mention of somebody with a Chinese
  name and an initial, a labelled and a bare link, a labelled broadcast, a mail
  address); previews of four characters, fewer than a construct spelled out.
  The transforms look at neighbours only; four elements hold every triple of
  neighbours with one more before or behind.
- Auth: two tabs, two pages (the home page and another one), one loss of the
  session. After a loss the tabs
  log in again and can only get where they were before it.

Deadlock is checked in every run except text_search, where texts end at
`MaxText`.

### Fairness

- Pipeline: a process that can take a step takes one, with one exception:
  nothing is assumed of slackdump. That a refused build gets out therefore does
  not depend on the holder making progress.
- SyncManager: the event loop runs ready coroutines and `sleep` ends. Nothing is
  assumed of the scripts: `sync.py:70-74` waits without a timeout, and
  `refresh.sh` puts one around attach only. So `EveryRunEnds` and
  `SchedulerKeepsGoing` say that nothing but a script that hangs for ever
  (`Awaiting` from some moment on) keeps the manager busy; such a script does
  stop the scheduler, and the code has nothing against it.
- SearchDb: the scheduler starts the next build, a build that does not die
  goes on.
- Attach: refreshes go on and a walk goes on. For each file that is to be
  downloaded: not every run is killed or meets a full disk before it comes to
  the file, and a download that is tried again and again is not refused or
  broken every time (strong fairness of its `WriteMeta`, `Open` and `Read`).
  This is an assumption about Slack's servers and the disk, not about the code.
- Auth: requests are served and responses come in (weak fairness of each tab);
  a user who is asked to log in again and again does so some day, and the IdP's
  code is accepted some day (strong fairness of `Approve` and `Callback`): a code
  the server refuses every time (a wrong client secret) does loop, `auth.py:70-72`
  begins another login each time.
  Nothing is assumed of users who open pages or log out.

## What the counterexamples say

- **pipeline_orphan.** A build killed while slackdump runs frees the lock but
  not the archive: the orphan goes on writing `raw`, the next build is let in.
  `NoConcurrentAccess` is what CHANGELOG.md:11 claims for the lock.
- **searchdb_stale.** `users()` and `channels()` are read once per process. A
  refresh is not "immediately live" for names, and a first request in the
  middle of a rebuild pins an empty directory until the restart.
- **attach_killed.** A partial file left by a killed run exists, so later runs
  record it as downloaded and never fetch it again.

Conditions in the passing runs and in the theorems that are there for a similar
reason:

- `NoConcurrentAccess`, `DoneIsSnapshot` and the refinement are checked and
  proved for processes that all use the locked entry and are not killed in
  fetch (`LockedOnly`). `python -m slack_log.pipeline.index` and `refresh.sh`
  take no lock and meet a build on its artefacts, although CHANGELOG.md:16 says
  that the lock "can't be bypassed by invoking a submodule directly". (The
  standalone submodules are in `Pipeline` and in the theorems about the lock;
  no run instantiates them.)
- `Unread` heeds what the text of a `--channel` view says, "do not ack from this
  view". With `--json` such a view, and one with `--since`, carries `until` and
  `ack_count` like a full one and no warning; an ack from it buries what was not
  shown.
- `HandlesBounded` has the limit plus one: the docstring says that `limit` bounds
  the open descriptors (`split.py:46`), but `write` opens the new file
  (`split.py:58`) before it closes the oldest one (`split.py:61-63`).
- `AllAccounted` says of a download what the docstring of `download_attachments`
  says of every failure ("disk error ... the walk continues", `attach.py:160-161`):
  an OSError at `attach.py:168`, `188`, `198` or `216` is outside the try and ends
  the walk. The next run begins again.
- `NothingBuried` and `AckedWasSeen` are stated for an archive that only grows
  (`lost = 0`). `ack` compares numbers of messages, so one message that
  disappears from the index (another `--include`, a newer copy that does not
  parse) and another one that appears leave the check satisfied.
- `PagesAgree`, `GroupsAgree` and `SearchAgrees` are checked and proved for
  archives with corrupt replies and corrupt whole threads, but (`AnchorsParse`)
  with none of an anchor in a thread that has a copy that parses: split reads
  IS_PARENT before it parses (`split.py:94-100`), the ETL after
  (`index.py:259-269`), so the two differ in the parent flag. And a corrupt
  reply comes along with the anchor, as slackdump fetches a thread from its
  parent on: without that a thread could be split once and have nothing but
  corrupt newest copies later, and split leaves its old file in place.
- `PeopleAreNoBots`: the ids of users and of bots are different (Slack's begin
  with U or W and with B). Otherwise a bot of an excluded kind could be the name
  of a person in one profile.
- `PagesAgree` leaves out senders that a message of an excluded kind names
  (`NamedElsewhere`): split and the team's full-text search read all messages,
  the team's `users` table only the included ones.
- `GroupsAgree` compares the channels CHANNEL lists. Another one with messages
  becomes a directory under `data/` but no row of the team's `channels`, and its
  page is a 404.
- `PagesAgree` and its like are about finished runs. While split works, a thread
  file is truncated at its first message and fills up, and the server shows a
  part of it.
- `PreviewIsPage` leaves out constructs `make_preview` has no regex for: they
  stay in angle brackets, the cut may fall into them, and a browser hides them.
  In `FoundByItsWords` a phrase does not go on behind such a construct or behind
  a labelled link, whose URL the index has and the page has not.
- `LandsWhereAsked` is about tabs nothing interferes with (`asked`), and
  `EveryTabArrives` about browsers whose tabs do not go on talking to the server
  at the same moment: of two responses the later one overwrites the session the
  earlier one left, a login or a logout included.
- `OneRefresh` is proved for `Managed` deployments only: no over-long line, no
  refresh by hand. A line above the StreamReader limit (a progress bar that only
  writes carriage returns) raises in the `async for`; `_running` is reset while
  the script runs, and the next trigger starts a second one. `WorkIsReported`
  holds without that condition, of the refreshes the manager runs.

## What is proved

The proofs are in modules of their own and use only the named assumptions of
the constants.

**PipelineProofs.** For any set of processes of any kinds, any profile and any
kills: `TypeCorrect`, `MutualExclusion` (`OneBuild`), `LockNeverStale`
(`NoStaleLock`), `PidIsHolders`, refreshes that are killed included. None of them is inductive as it stands: that
at most one build is inside follows from the lock being held by exactly the
builds inside, and that needs the control state (a refresh never is at
"opened", a slackdump child belongs to a busy fetch). `LockInv` is the
conjunction of these.

Under `LockedOnly` (every process uses the locked entry, none is killed in
fetch; pipeline_orphan and the condition above say why both are needed): `Exclusive`
(`NoConcurrentAccess`), `DoneSnapshot` and `Refinement`, that Pipeline
implements ExclusiveBuild. `SnapInv` adds to `LockInv` that there is no orphan
and `Progress`: how far the artefacts have caught up with `raw` at each step of
the holder, which is what makes the last step leave one version.

**SyncManagerProofs.** `TypeCorrect`. `Status`: the flags are consistent and a
"success" is that of a script that has ended with 0. `StatusInv` adds what the coroutine
knows where it is suspended (in "waiting" its process has ended). `Reported`:
the refresh the manager runs is the one it reports. `Serialised`: in a
`Managed` deployment there is one refresh at most.

**AttachProofs.** For any files, mentions and kills: `TypeCorrect`,
`Accounted`, `Kept` (`NeverRefetched`), `WholeFiles` (`WholeUnlessKilled`). The
invariant ties the position of the walk (`Place`) to the books (`Accounts`: an
entry is counted exactly when the walk has passed it, also in a walk that an
exception ends) and to the disk (`Disk`:
the file being read is partial, so that the unlink after a failure never hits
a whole one).

**UnreadProofs.** For any finite set of messages, any reviewers and any order
of their commands and the builds: `TypeCorrect`, `Forward` (`NeverBackwards`),
`StaysAcked` (`AckedStaysBelow`), `Unburied` (`NothingBuried`), `AckedSeen`
(`AckedWasSeen`). The first three need only types and what `Newest` returns
(`NewestIs`). The last two rest on comparing numbers: ack compares the COUNT on
the screen with what it reads, and the late check compares `reviewed_count`
with what is below the watermark. A count says which messages were meant only
because the archive grows: what was read at two moments is nested (`Chain`),
and of two nested finite sets of one size each is the other. So `SeenInv` says
that every count kept anywhere (in `review.db`, on a screen, in a confirmed
ack) is the size of a set of told messages that is nested with every snapshot a
command could still read (`Marked`, `Viewed`, `Acking`). It is claimed while
`lost = 0`; once a message vanishes the counts stop meaning anything (see
"Conditions in the passing runs").

**AuthProofs.** For any tabs, pages and number of losses: `TypeCorrect`, whose
content is that no page is fetched, shown or led to without an address, the one
a callback finds included; and `Lands` (`LandsWhereAsked`). The invariant is
`Course`: a tab that still counts as asking for p is alone on the wire, and
wherever it is, p is what it will get: as the path of its request or response,
or, at the IdP and in the callback, as the `next` of a cookie that is signed
with the present secret and holds its login (`Promises`). Each handler hands
that promise on (`OnCourse`), and whatever breaks it (another tab, a denial, a
loss) also ends the asking.

**SearchDbProofs.** For any number of request slots and builds: `TypeCorrect`,
`Live` (`RowsAreLive`) and `HitsOpen` (`HitOpens`). `Filled` says what a build
that is under way, done or dead has left: rows of the last build and no other,
and messages only behind message_raw. `FreshPages` says that a request which
came in at a complete build has read nothing else since, as long as no other
build has begun; `LinkedHits` that what a search found is still there, and with
it the thread its link leads to. Both speak about requests in the middle of
their store calls, which the properties do not.

**ProfilesProofs, about Split.** For any threads, senders and deltas that meet
`DeltasAssumption`, any limit of the cache and any crashes: `SplitTypeCorrect`,
`HandlesAreBounded` (`HandlesBounded`), `IndexIsRight` (`IndexMatchesFiles`) and
`FilesAreRight` (`FilesHoldNewest`). The argument goes over `Lines(t)`, what a
thread's file holds followed by what its handle has still to write out. A handle that is opened (`LinesOpen`) or closed and the end of the pass leave it
as it is (`CloseOldest` and `close_all` move lines from the one to the other), so
only the streaming pass adds to it, one line for a kept row that parses
(`LinesOK`).
`KeepOK` says that the light pass keeps a newest copy of each message: one,
because the key and the chunk identify a row. The tidy pass permutes a file and
orders it (`SortedMessages`). `MetasTell` says that `index_meta` counts `Lines(t)`
and names its first message, and `IndexOK` that an index that is written has
been written from that. `TornOK` says that a file this run has opened has no half
line, nor an index it has written. Crashes need no case of their own in `FilesAreRight`:
the next run truncates every file it opens first, and the theorem speaks of the
threads it has opened. They do in `IndexIsRight`, where the index of a killed
run must not list a thread without a file (`Base`).

**ProfilesProofs, about both profiles.** For any archive with `AnchorsParse`
(and `PeopleAreNoBots` for the pages), any kinds to include, any limit and any crashes: `PagesAreAlike`
(`PagesAgree`), `GroupsAreAlike` (`GroupsAgree`) and `SearchIsAlike`
(`SearchAgrees`). The team ETL is a fold over the table, split a machine that
reads it row by row, so the proof is a simulation. First the folds: SequencesExt
defines `FoldLeft` with a CHOOSE of a function on the subsets of the domain,
and `FoldAppend` says that a fold over one element more is one application more.
Then `TeamAlike`: while split streams, the metadata and the names of the team
ETL, folded over the rows read so far, are those split has, for the threads of
the kinds to include and the ids that no other kind names. A row makes a
difference in three ways: neither wants it (a corrupt newest copy may set a flag
in split, which `AnchorsParse` excludes for a thread with a file), both index
it, or only split does. When split is done the rows read so far are all of them.
What is left are files of former runs: a file is of a thread with a row that
parses (`FilesHaveRows`), hence one with a newest copy that does (`ParsedKept`,
by `WholeDeltas`: the anchor came along), hence one this run has written.
`OneOrder` says that ORDER BY ts of the messages of a file gives the file. The
hypotheses are checked of the archives of profiles_agree (`MCAssumption`).

**SlackTextProofs.** For messages of any length over any names, urls and kinds
of constructs: `TextsReadTheSame` (`ReadsTheSame`), `WordsAreFound`
(`FoundByItsWords`) and, for any `MaxLen`, `PreviewsBeginThePage`
(`PreviewIsPage`). The state is one text, so the inductive invariant is no more
than `Typed`; all the work is in what the transforms make of a text. Each is
first given by what one element more does to it (`RunsAppend`, `SplitAppend`,
`PartsAppend`, `TextAppend`). Three arguments follow.

- *Words.* `Parts` are the words of a text, an ideograph being one of its own. A
  cut that is not inside a word cuts them in two (`PartsConcat`), so the words of
  a stretch between two cuts are a stretch of the words of the whole. A word of
  a query stands between blanks (`QueryWords`): its phrase is a stretch of the
  query's words, these are one of the index's, and a stretch is what MATCH finds
  (`StretchFound`). A thread page is not the text of the index, it hides tags
  and urls. `Faithful` says how they lie beside each other: between two tags the
  page shows what stands in the index, and no token of the index runs on where
  the page ends one; so a piece of a page is a stretch of the index.
- *Blanks.* What `JoinCjk` drops stands behind an ideograph, where it separates
  nothing that is not separate (`PartsDrop`). Searching and printing a hit joins
  it twice, once with the marks of `snippet()` inside and once without. What is
  left is told by the positions it comes from (`Sub`), and there is only one
  sequence with given positions (`SubUnique`): a blank between ideographs stays
  one when marks or other such blanks are dropped (`BetweenKept`), so both ways
  drop the same positions.
- *Preview.* For a message of known constructs, what `make_preview` expands is
  the page without its `Close` (`KnownText`); a cut leaves a beginning.

`SlackTextAssumption` says that the classes of characters are what their names
say: ideographs, letters, blanks, signs, brackets and marks are different, and a
construct is no character. Nothing is assumed of the length of a text: `MaxText`
stands in no hypothesis.

Induction over data is possible here in one way only: a least counterexample
(`Least`, from the well-foundedness of < on the numbers), as the library's
induction theorems take an operator. So induction is stated for sets (`UpFrom0`;
`Appending`: a set of sequences that holds the empty one and each of its own
longer by an element holds all), and recursive functions are shown to exist and
to be unique once, for an arbitrary step (`FoldExists`, `FoldsAgree`,
`RecursionIs`, `AlikeAre`).

## What is only model-checked

- Liveness (`NonBlocking`, `Terminates`, `EveryRunEnds`, `SchedulerKeepsGoing`,
  `RebuildHeals`, `EventuallyDownloaded`, `EveryTabArrives`): fairness and ENABLED are out of the
  provers' reach.
- `NoConcurrentAccess`, `DoneIsSnapshot` and the refinement when a refresh or a
  submodule runs beside a build: they are false, see above.

## What is not modelled

- Presenter and static export: formatting. The export reads what JsonlStore
  reads, thread by thread, and nothing reads it back; authors and local files of
  a page are in `Directories` and `Attach`.
- In the text: emoji aliases, mrkdwn and the HTML of `expand_for_preview`, a
  chain of regexes over markup.
- In the search: ranking, the LIKE filters and dates, output formats.
- In the login: the access log, the content of the token, addresses that leave
  the site; that logins which are begun and left add up in the cookie, which a
  browser drops above 4 KB (authlib forgets them after an hour).
- In attach: a disk that refuses to unlink.
- In split and the ETL: avatars, participants and reply counts,
  `user_messages`, `fetched_at`, the caches of JsonlStore (they hold what the
  SqliteStore's hold, and are as stale).
- `last_log_tail`; attachment and health routes; credentials.
- Configuration, templates, deployment: data and markup. Configured values are
  CONSTANTS; what the manifests run (`refresh.sh` by hand, one replica) is an
  assumption of SyncManager.
- slackdump itself is external: it starts, writes deltas, exits or is orphaned.
  So are FTS5, Starlette's session middleware and authlib, as far as the code
  depends on them.

## Plan

1. Done: Pipeline with its refinement and proofs, SyncManager, Unread, Attach,
   Auth and SearchDb with proofs, the splitter and the ETL with their
   directories and proofs, the text with proofs. Every safety property of a
   passing run is stated by a theorem.
2. Perhaps: the static export and the JsonlStore beside a running split.
