----------------------------- MODULE MCProfiles ------------------------------
(* Instances of Profiles for TLC: a channel with three threads, a DM, a      *)
(* group DM that is excluded and a channel that CHANNEL does not list.       *)
EXTENDS Profiles

CONSTANTS general, direct, group, unlisted

MCChannel == (1 :> general) @@ (3 :> general) @@ (6 :> direct) @@ (7 :> unlisted)
             @@ (8 :> general) @@ (9 :> group)

Listed(kind, name, other) == [kind |-> kind, name |-> name, other |-> other]
MCChannelRows == (general :> Listed("channel", "general", None))
                 @@ (direct :> Listed("dm", None, "B1"))
                 @@ (group :> Listed("mpim", "mpim: ann,bob", None))

MCAccounts == ("U1" :> "ann") @@ ("U2" :> "bob")

\* People; a bot with a bot_profile alone, or a bare bot_id; the bot_add event of
\* a bot under another name.
Sender(user, bot, profile) ==
    [user |-> user, bot |-> bot, profile |-> profile, profileId |-> None, added |-> None,
     label |-> None]
Ann == Sender("U1", None, None)
Deploy == [Sender(None, None, "deploy") EXCEPT !.profileId = "B1"]
Bare == Sender(None, "B1", None)
Adds == [Sender("U2", None, None) EXCEPT !.added = [bot |-> "B1", name |-> "ci"]]
Mole == Sender(None, "B2", "mole")
BareMole == [Sender(None, "B2", None) EXCEPT !.label = "feed"]
MCSenders == {Ann, Deploy, Bare, Adds, Mole, BareMole}

\* Thread 1 with its reply 2, the reply first, and a thread of the unlisted
\* channel; an edit of the reply, and a thread 8 that is corrupt as a whole; a
\* corrupt newer copy of the reply.
Thread1 == <<Copy(1, 2, 1, TRUE, FALSE, Bare), Copy(1, 1, 2, TRUE, TRUE, Ann),
             Copy(7, 7, 1, TRUE, FALSE, Bare)>>
Edit2 == <<Copy(1, 2, 1, TRUE, FALSE, Deploy), Copy(8, 8, 1, FALSE, TRUE, Ann)>>
Corrupt2 == <<Copy(1, 2, 1, FALSE, FALSE, Ann), Copy(1, 1, 1, TRUE, TRUE, Adds)>>

\* Thread 3 in two chunks, with replies 4 and 5 out of order between rows of
\* other threads.
Thread3 == <<Copy(3, 5, 1, TRUE, FALSE, BareMole), Copy(3, 3, 1, TRUE, TRUE, Ann),
             Copy(6, 6, 1, TRUE, FALSE, Bare), Copy(9, 9, 1, TRUE, FALSE, Mole),
             Copy(3, 4, 1, TRUE, FALSE, Adds), Copy(3, 3, 2, TRUE, TRUE, Ann)>>

MCDeltas == {Thread1, Edit2, Corrupt2, Thread3}

\* The instance is one of those ProfilesProofs is about.
ASSUME MCAssumption == AnchorsParse /\ PeopleAreNoBots
=============================================================================
