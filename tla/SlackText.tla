------------------------------ MODULE SlackText ------------------------------
(* The text of a message on its way into search.db and back to a reader:     *)
(* slack_log/core/text.py, the query and the hits of pipeline/index.py, the  *)
(* terminal output of slack_log/search.py.                                   *)
(*                                                                           *)
(* A text is a sequence of characters and of Slack's <...> constructs; a     *)
(* construct is one element until a transform spells it out.  SQLite's FTS5  *)
(* (unicode61) is external.  Emoji aliases and mrkdwn are left out.          *)
EXTENDS Integers, Sequences, FiniteSets, SequencesExt

CONSTANTS
    Cjk,        \* ideographs
    Latin,      \* other characters that make tokens
    Blank,      \* white space
    Sign,       \* a character that separates tokens, and is no white space
    Open, Close,\* < and >
    Mark,       \* <mark> or </mark>
    Constructs, \* the <...> that occur
    Kind,       \* their kinds
    Name,       \* the name or label a reader sees
    Url,
    MaxLen      \* make_preview(max_len)

KnownKinds == {"user", "channel", "broadcast", "link", "bare"}

\* A labelled broadcast is known to normalize_text alone; the others (mailto:,
\* user groups, dates) to no transform.
ForeignKinds == {"labelled_broadcast", "other"}

Characters == Cjk \cup Latin \cup {Blank, Sign}
Symbols == Characters \cup {Open, Close, Mark}

ASSUME SlackTextAssumption ==
    /\ MaxLen \in Nat
    /\ Cjk \cap Latin = {} /\ Constructs \cap Characters = {}
    /\ {Blank, Sign, Open, Close, Mark} \cap (Cjk \cup Latin) = {}
    /\ Blank \notin {Sign, Open, Close, Mark} /\ {Open, Close, Mark} \cap {Sign} = {}
    /\ Mark \notin {Open, Close}
    /\ Kind \in [Constructs -> KnownKinds \cup ForeignKinds]
    /\ \A x \in Constructs : Name[x] \in Seq(Characters)
    /\ Url \in Seq(Characters)

VARIABLE text

\* Maximal runs of characters of a set, in order.
Runs(s, S) ==
    LET runs[i \in 0..Len(s)] ==
            IF i = 0 THEN <<>>
            ELSE LET r == runs[i - 1]
                 IN  IF s[i] \notin S THEN r
                     ELSE IF i > 1 /\ s[i - 1] \in S THEN [r EXCEPT ![Len(r)] = Append(@, s[i])]
                     ELSE Append(r, <<s[i]>>)
    IN  runs[Len(s)]

\* What is left without the elements at some positions.
Drop(s, D) == FlattenSeq([i \in DOMAIN s |-> IF i \in D THEN <<>> ELSE <<s[i]>>])

Without(s, c) == Drop(s, {i \in DOMAIN s : s[i] = c})

\* str.strip.
Strip(s) ==
    LET solid == {i \in DOMAIN s : s[i] # Blank}
    IN  IF solid = {} THEN <<>> ELSE
        SubSeq(s, CHOOSE i \in solid : \A j \in solid : i <= j,
                  CHOOSE i \in solid : \A j \in solid : j <= i)

-----------------------------------------------------------------------------
(* The transforms.                                                           *)

\* What is spelled out for a construct: @name, #name, label; the source itself
\* where no regex matches it.
Source(x) == <<Open>> \o Name[x] \o <<Close>>
Spelled(x) ==
    CASE Kind[x] \in {"user", "channel", "broadcast", "labelled_broadcast"} -> <<Sign>> \o Name[x]
      [] Kind[x] = "link" -> Name[x]
      [] Kind[x] = "bare" -> Url
      [] Kind[x] = "other" -> Source(x)

\* Characters stay, constructs are replaced.
Expand(s, Replace(_)) ==
    FlattenSeq([i \in DOMAIN s |-> IF s[i] \in Constructs THEN Replace(s[i]) ELSE <<s[i]>>])

\* CJK_CHAR.sub.
SplitCjk(s) ==
    FlattenSeq([i \in DOMAIN s |-> IF s[i] \in Cjk THEN <<Blank, s[i], Blank>> ELSE <<s[i]>>])

\* Blanks with an ideograph on either side, and nothing but blanks up to it.
BetweenCjk(s, i) ==
    /\ s[i] = Blank
    /\ \E j \in 1..(i - 1) : s[j] \in Cjk /\ \A n \in (j + 1)..(i - 1) : s[n] = Blank
    /\ \E k \in (i + 1)..Len(s) : s[k] \in Cjk /\ \A n \in (i + 1)..(k - 1) : s[n] = Blank

\* One pass does what the loop of join_cjk does.
JoinCjk(s) == Drop(s, {i \in DOMAIN s : BetweenCjk(s, i)})

\* normalize_text: the text column of the index.  A labelled link is followed
\* by its url in brackets.
Plain(s) ==
    Expand(s, LAMBDA x : IF Kind[x] = "link"
                         THEN Name[x] \o <<Blank, Sign>> \o Url \o <<Sign>> ELSE Spelled(x))
Normalize(s) == SplitCjk(Plain(s))

UpTo(s, n) == SubSeq(s, 1, IF Len(s) < n THEN Len(s) ELSE n)
Known(x) == IF Kind[x] \in KnownKinds THEN Spelled(x) ELSE Source(x)

\* Mutation: cut first, so that the construct at the cut stays as it is.
MakePreviewCutFirst(s) ==
    LET raw(n) == Expand(SubSeq(s, 1, n), Source)
        whole == CHOOSE n \in 0..Len(s) :
                    /\ Len(raw(n)) <= MaxLen
                    /\ \A k \in (n + 1)..Len(s) : Len(raw(k)) > MaxLen
    IN  Strip(Expand(SubSeq(s, 1, whole), Known)
              \o SubSeq(UpTo(raw(Len(s)), MaxLen), Len(raw(whole)) + 1,
                        Len(UpTo(raw(Len(s)), MaxLen))))

MakePreview(s) == UpTo(Strip(Expand(s, Known)), MaxLen)

\* expand_mentions, as a browser shows it: what the regexes leave between < and
\* > is a tag to it, and invisible.  Close stands where a word of the page does
\* not go on in the index: at such a tag, and behind a labelled link.
PageText(s) ==
    Expand(s, LAMBDA x : IF Kind[x] \in ForeignKinds THEN <<Close>>
                         ELSE IF Kind[x] = "link" THEN Name[x] \o <<Close>> ELSE Spelled(x))

-----------------------------------------------------------------------------
(* Search.                                                                   *)

\* unicode61.
Tokens(s) == Runs(s, Cjk \cup Latin)

\* Mutation: the words go to FTS5 as they are.
ToFtsQueryUnsplit(q) ==
    LET words == Runs(q, Symbols \ {Blank})
    IN  [i \in DOMAIN words |-> Tokens(words[i])]

\* _to_fts_query: a phrase for each word of the query, split like the index.
ToFtsQuery(q) ==
    LET words == Runs(q, Symbols \ {Blank})
    IN  [i \in DOMAIN words |-> Tokens(SplitCjk(words[i]))]

\* MATCH: each phrase occurs; phrases without a token are dropped, and a query
\* of nothing else finds nothing.
Occurs(phrase, tokens) ==
    \E i \in 1..(Len(tokens) - Len(phrase) + 1) :
        SubSeq(tokens, i, i + Len(phrase) - 1) = phrase

Matches(q, tokens) ==
    LET phrases == {p \in ToSet(ToFtsQuery(q)) : p # <<>>}
    IN  phrases # {} /\ \A p \in phrases : Occurs(p, tokens)

\* snippet(): the column with marks around the characters i..j, which search
\* joins as it is.
Snippet(column, i, j) ==
    JoinCjk(SubSeq(column, 1, i - 1) \o <<Mark>> \o SubSeq(column, i, j) \o <<Mark>>
            \o SubSeq(column, j + 1, Len(column)))

\* Mutation: joined before the marks are dropped.
CleanTooEarly(s) == Strip(Without(JoinCjk(s), Mark))

\* _clean of search.py.
Clean(s) == Strip(JoinCjk(Without(s, Mark)))

-----------------------------------------------------------------------------
\* Texts grow element by element.
CONSTANT MaxText  \* bound: elements of a text

Init == text = <<>>

Type == \E x \in Characters \cup Constructs : Len(text) < MaxText /\ text' = Append(text, x)

Next == Type

Spec == Init /\ [][Next]_text

\* What a reader may search for: a piece of a shown text cut between tokens (a
\* letter right behind a tag may go on with a token of what the tag hides).
Cuts(s, i, j) ==
    /\ i > 1 => ~(s[i - 1] \in Latin \cup {Close} /\ s[i] \in Latin)
    /\ j < Len(s) => ~(s[j] \in Latin /\ s[j + 1] \in Latin)

IsPiece(s, i, j) ==
    /\ i <= j /\ Cuts(s, i, j)
    /\ \A k \in i..j : s[k] # Close
    /\ \E k \in i..j : s[k] \in Cjk \cup Latin

Pieces(s) ==
    UNION {{SubSeq(s, i, j) : j \in {k \in DOMAIN s : IsPiece(s, i, k)}} : i \in DOMAIN s}

\* "Searching .. inside .. misses" (split_cjk) is what must not happen: any
\* word or words a reader sees on the thread page, or in the text of a hit,
\* Chinese or not, find the message.
FoundByItsWords ==
    LET column == Normalize(text)
        tokens == Tokens(column)
    IN  \A piece \in Pieces(PageText(text)) \cup Pieces(JoinCjk(column)) : Matches(piece, tokens)

\* The words of a text, each ideograph one.
Words(s) == Runs(SplitCjk(s), Symbols \ {Blank})

\* What join_cjk gives back for what was indexed reads like the text that came
\* in: the same words, none glued or cut, and ideographs that nothing but
\* white space separates together.  And a hit in the terminal reads like the
\* hit without its marks, wherever they are.
ReadsTheSame ==
    LET column == Normalize(text)
        shown == JoinCjk(column)
    IN  /\ Words(shown) = Words(Plain(text))
        /\ \A i \in DOMAIN shown : ~BetweenCjk(shown, i)
        /\ \A i, j \in {k \in DOMAIN column : column[k] # Blank} :
              i <= j => Clean(Snippet(column, i, j)) = Strip(shown)

\* "The preview never ends on a dangling <" (make_preview): it is the beginning
\* of what the thread page shows, as far as it goes.  Without the <...> that
\* make_preview does not know and leaves in the text.
PreviewIsPage ==
    (\A x \in ToSet(text) \cap Constructs : Kind[x] \in KnownKinds) =>
        IsPrefix(MakePreview(text), Strip(Without(PageText(text), Close)))
=============================================================================
