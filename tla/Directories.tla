----------------------------- MODULE Directories -----------------------------
(* Who and where: users, bots and channels as slack_log/core/slackdump_db.py *)
(* decodes them for both profiles, the author a message is shown with, and   *)
(* the groups of the home page (slack_log/store/base.py).                    *)
(*                                                                           *)
(* A directory of users maps an id to the name it is shown with.  A message  *)
(* carries its sender `from` (module Archive): the ids `user` and `bot`, the *)
(* name `profile` and the id `profileId` in its bot_profile, the bot and the *)
(* name its bot_add text embeds, and the `label` of an old bot message       *)
(* (username, attachment author).                                            *)
EXTENDS Archive, TLC

CONSTANTS
    Accounts,    \* S_USER: id -> name
    ChannelRows, \* CHANNEL: channel -> [kind, name, other]
    None

Kinds == {"channel", "dm", "mpim"}

ASSUME DirectoriesAssumption ==
    /\ DOMAIN ChannelRows \subseteq Channels
    /\ \A c \in DOMAIN ChannelRows : ChannelRows[c].kind \in Kinds

\* a or b or ..: the first one that is there.
FirstOf(names) == SelectSeq(names, LAMBDA n : n # None)[1]

Lookup(users, id) == IF id \in DOMAIN users THEN users[id] ELSE None

-----------------------------------------------------------------------------
(* Bots: S_USER does not hold them, the messages name them.                  *)

\* A name that is known is kept, a missing one is not entered.
Seed(users, id, name) ==
    IF None \in {id, name} \/ id \in DOMAIN users THEN users ELSE Put(users, id, name)

\* bp.id or msg.bot_id.
BotOf(from) == IF from.profileId # None THEN from.profileId ELSE from.bot

\* _collect_bot: bot_profile, then the text of a bot_add event.
CollectBot(users, from) ==
    LET profiled == Seed(users, BotOf(from), from.profile)
    IN  IF from.added = None THEN profiled
        ELSE Seed(profiled, from.added.bot, from.added.name)

\* resolve_author.
ResolveAuthor(from, users) ==
    FirstOf(<<Lookup(users, from.user), from.profile, Lookup(users, from.bot), from.label,
              IF from.bot = None THEN None ELSE "bot:" \o from.bot,
              from.user, "(unknown)">>)

\* A line of index.jsonl, a row of the threads table: the author's name is
\* the one known when it is written.
Entry(t, m, users) ==
    [thread |-> t, first |-> m.first, author |-> ResolveAuthor(m.first[3], users),
     count |-> m.count, parent |-> m.parent]

-----------------------------------------------------------------------------
(* Channels.                                                                 *)

\* _load_channels: a DM has the name of the other party.
LoadChannels(users) ==
    [c \in DOMAIN ChannelRows |->
        [kind |-> ChannelRows[c].kind,
         name |-> FirstOf(<<ChannelRows[c].name, Lookup(users, ChannelRows[c].other),
                            ChannelRows[c].other, c>>)]]

\* _kind_of, channel_name.
KindOf(c, channels) == IF c \in DOMAIN channels THEN channels[c].kind ELSE "channel"
ChannelName(c, channels) == IF c \in DOMAIN channels THEN channels[c].name ELSE c

\* assemble_global_groups; entries maps the channels of a store to their
\* thread counts.
GlobalGroups(entries, channels, include) ==
    {[id |-> c, kind |-> KindOf(c, channels), name |-> ChannelName(c, channels),
      threads |-> entries[c]] : c \in {d \in DOMAIN entries : KindOf(d, channels) \in include}}
=============================================================================
