--------------------------- MODULE ProfilesProofs ---------------------------
(* Proofs about Split, and about both profiles in Profiles, which extends    *)
(* it: first what a run of split leaves on disk, then that the pages, the    *)
(* home page and the search documents made of it are those of the team ETL.  *)
EXTENDS Profiles, FiniteSetTheorems, SequenceTheorems, WellFoundedInduction, TLAPS

-----------------------------------------------------------------------------
(* Split.                                                                    *)
(*                                                                           *)
(* What a run leaves on disk is argued in terms of Lines(t), what a thread's *)
(* file holds with what its handle has still to write out: evicting and      *)
(* closing a handle move lines from one to the other, so that only the       *)
(* streaming pass adds one.  With best holding the newest copy of each       *)
(* message, the lines of the threads met are those of the kept rows read.    *)

\* Rows of the table the light pass and the streaming pass have read.
Compared == IF stage = "light" THEN pos - 1 ELSE Len(table)
Streamed == IF stage = "stream" THEN pos - 1 ELSE Len(table)

\* What the assumption on the deltas makes of the table: no load is newer than
\* the last one, and (channel, ts, chunk) identifies a row.
RowsOK(rows, loads) ==
    /\ \A i \in DOMAIN rows :
          /\ rows[i].load = rows[i].chunk[1] /\ rows[i].load <= loads
          /\ \E d \in Deltas : \E j \in DOMAIN d :
                rows[i].thread = d[j].thread /\ rows[i].ts = d[j].ts
    /\ \A i, j \in DOMAIN rows :
          Key(rows[i]) = Key(rows[j]) /\ rows[i].chunk = rows[j].chunk => i = j

TableOK == RowsOK(table, deltas)

\* best holds, of the rows compared, the newest of each message.
KeepOK ==
    stage # "idle" =>
        /\ \A i \in 1..Compared :
              Key(table[i]) \in DOMAIN keep /\ table[i].load <= keep[Key(table[i])].load
        /\ \A k \in DOMAIN keep : \E i \in 1..Compared :
              keep[k] = table[i] /\ Key(table[i]) = k

\* A first message was written, and what was written has a file.
MetasOK == \A t \in DOMAIN metas : metas[t].first # NoFirst => t \in DOMAIN files

HandlesClosed ==
    /\ stage # "stream" => open = <<>>
    /\ stage = "light" => seen = {}
    /\ stage = "tidy" => todo \subseteq seen

\* What the handles, the files and the index promise at any moment.
Base ==
    /\ TypeOK /\ TableOK /\ HandlesBounded /\ HandlesClosed /\ MetasOK /\ ListedThreadsOpen

\* The lines of a thread, on disk or still in the handle, and the messages of
\* the rows streamed so far that belong there.
Lines(t) == Content(t) \o buffer[t]
Belongs(i, t) == Kept(keep, table[i]) /\ table[i].parses /\ table[i].thread = t
Belonging(t) == {Message(table[i]) : i \in {j \in 1..Streamed : Belongs(j, t)}}

\* The threads met so far have exactly these lines, each once.
LinesOK ==
    stage \notin {"idle", "light"} => \A t \in Threads :
        /\ t \notin seen => Belonging(t) = {}
        /\ t \in seen =>
              /\ ToSet(Lines(t)) = Belonging(t)
              /\ \A m, n \in DOMAIN Lines(t) : Lines(t)[m][1] = Lines(t)[n][1] => m = n

InOrder(msgs) == \A m, n \in DOMAIN msgs : m < n => msgs[m][1] <= msgs[n][1]

TidiedOK ==
    stage \notin {"idle", "light", "stream"} => \A t \in seen :
        (stage = "tidy" => t \notin todo) => InOrder(files[t])

\* A row that is written, where the streaming pass is: its thread may have a
\* handle and no line yet.
Opening(t) ==
    stage = "stream" /\ pos <= Len(table) /\ Written(table[pos]) /\ table[pos].thread = t

\* The metadata of a thread is about its lines, on disk or not.
Tells(t) ==
    LET meta == MetaOf(metas, t)
    IN  /\ t \notin seen => meta.first = NoFirst /\ meta.count = 0
        /\ t \in seen =>
              /\ meta.count = Len(Lines(t))
              /\ meta.first = NoFirst => Opening(t) /\ Lines(t) = <<>>
              /\ meta.first # NoFirst =>
                    /\ meta.first \in ToSet(Lines(t))
                    /\ \A m \in ToSet(Lines(t)) : m[1] = t => m = meta.first

MetasTell ==
    /\ stage = "light" => metas = <<>>
    /\ stage \notin {"idle", "light"} => \A t \in Threads : Tells(t)

\* What this run opens or writes has no half line of a killed one any more.
TornOK ==
    /\ stage # "idle" => torn \cap seen = {}
    /\ stage = "index" => \A t \in seen : Channel[t] \in tornIndex => Channel[t] \in todo
    /\ stage = "done" => \A t \in seen : Channel[t] \notin tornIndex

\* The index of a channel is written from the metadata, once for all.
IndexOK ==
    /\ stage \in {"channels", "index", "done"} => usersJson = people
    /\ stage \in {"index", "done"} =>
          \A c \in Channels : c \notin todo /\ IndexLines(c) # {} => index[c] = IndexLines(c)
    /\ stage = "done" => todo = {}

SplitInv == Base /\ KeepOK /\ LinesOK /\ TidiedOK /\ MetasTell /\ TornOK /\ IndexOK

\* What \o and Append do to the lines there are.
LEMMA ConcatLines ==
    ASSUME NEW S, NEW s \in Seq(S), NEW r \in Seq(S)
    PROVE  /\ s \o r \in Seq(S)
           /\ ToSet(s \o r) = ToSet(s) \cup ToSet(r)
           /\ s \o <<>> = s /\ <<>> \o s = s
           /\ Len(s \o r) = Len(s) + Len(r)
           /\ \A i \in 1..Len(s) : (s \o r)[i] = s[i]
           /\ \A i \in 1..Len(r) : (s \o r)[Len(s) + i] = r[i]
<1>1. s \o r \in Seq(S) /\ Len(s \o r) = Len(s) + Len(r) /\ DOMAIN (s \o r) = 1..(Len(s) + Len(r))
      /\ DOMAIN s = 1..Len(s) /\ DOMAIN r = 1..Len(r) /\ Len(s) \in Nat /\ Len(r) \in Nat
  OBVIOUS
<1>2. /\ \A i \in 1..Len(s) : (s \o r)[i] = s[i]
      /\ \A i \in 1..Len(r) : (s \o r)[Len(s) + i] = r[i]
  OBVIOUS
<1>3. ToSet(s \o r) \subseteq ToSet(s) \cup ToSet(r)
  <2> SUFFICES ASSUME NEW i \in 1..(Len(s) + Len(r))
               PROVE  (s \o r)[i] \in ToSet(s) \cup ToSet(r)
    BY <1>1 DEF ToSet
  <2>1. CASE i \in 1..Len(s)
    BY <2>1, <1>1, <1>2 DEF ToSet
  <2>2. CASE i \notin 1..Len(s)
    <3>1. i - Len(s) \in 1..Len(r) /\ Len(s) + (i - Len(s)) = i
      BY <2>2, <1>1
    <3>2. QED BY <3>1, <1>1, <1>2 DEF ToSet
  <2>3. QED BY <2>1, <2>2
<1>4. ToSet(s) \subseteq ToSet(s \o r)
  BY <1>1, <1>2 DEF ToSet
<1>5. ToSet(r) \subseteq ToSet(s \o r)
  <2>1. \A i \in 1..Len(r) : Len(s) + i \in 1..(Len(s) + Len(r))
    BY <1>1
  <2>2. QED BY <2>1, <1>1, <1>2 DEF ToSet
<1>6. s \o <<>> = s /\ <<>> \o s = s
  OBVIOUS
<1>7. QED BY <1>1, <1>2, <1>3, <1>4, <1>5, <1>6

\* A line more at the end.
LEMMA AppendLine ==
    ASSUME NEW S, NEW s \in Seq(S), NEW r \in Seq(S), NEW x \in S
    PROVE  /\ s \o Append(r, x) = Append(s \o r, x)
           /\ ToSet(Append(s, x)) = ToSet(s) \cup {x}
           /\ Append(s, x) \in Seq(S) /\ Len(Append(s, x)) = Len(s) + 1
           /\ DOMAIN Append(s, x) = 1..(Len(s) + 1)
           /\ \A i \in DOMAIN s : i \in 1..Len(s) /\ Append(s, x)[i] = s[i]
           /\ Append(s, x)[Len(s) + 1] = x
<1>1. s \o Append(r, x) = Append(s \o r, x)
  OBVIOUS
<1>2. /\ Append(s, x) \in Seq(S) /\ Len(Append(s, x)) = Len(s) + 1
      /\ DOMAIN Append(s, x) = 1..(Len(s) + 1)
      /\ \A i \in DOMAIN s : i \in 1..Len(s) /\ Append(s, x)[i] = s[i]
      /\ Append(s, x)[Len(s) + 1] = x
  OBVIOUS
<1>3. DOMAIN s = 1..Len(s) /\ Len(s) \in Nat
  OBVIOUS
<1>4. ToSet(Append(s, x)) \subseteq ToSet(s) \cup {x}
  <2>1. \A i \in 1..(Len(s) + 1) : i \in 1..Len(s) \/ i = Len(s) + 1
    BY <1>3
  <2>2. QED BY <2>1, <1>2, <1>3 DEF ToSet
<1>5. ToSet(s) \cup {x} \subseteq ToSet(Append(s, x))
  <2>1. \A i \in 1..Len(s) : i \in 1..(Len(s) + 1)
    BY <1>3
  <2>2. Len(s) + 1 \in 1..(Len(s) + 1)
    BY <1>3
  <2>3. QED BY <2>1, <2>2, <1>2, <1>3 DEF ToSet
<1>6. QED BY <1>1, <1>2, <1>4, <1>5

\* The handles without the i-th one.
LEMMA RemoveHandle ==
    ASSUME NEW S, NEW s \in Seq(S), NEW i \in 1..Len(s)
    PROVE  /\ RemoveAt(s, i) \in Seq(S) /\ Len(RemoveAt(s, i)) = Len(s) - 1
           /\ \A j \in 1..(i - 1) : RemoveAt(s, i)[j] = s[j]
           /\ \A j \in i..(Len(s) - 1) : RemoveAt(s, i)[j] = s[j + 1]
<1>1. /\ Len(s) \in Nat /\ i \in Nat /\ 1 <= i /\ i <= Len(s)
      /\ \A j \in 1..Len(s) : s[j] \in S
  OBVIOUS
<1>2. \A a, b \in Seq(S) :
          /\ Len(a) = i - 1 /\ (\A j \in 1..(i - 1) : a[j] = s[j])
          /\ Len(b) = Len(s) - i /\ (\A j \in 1..(Len(s) - i) : b[j] = s[i + j])
          => /\ a \o b \in Seq(S) /\ Len(a \o b) = Len(s) - 1
             /\ \A j \in 1..(i - 1) : (a \o b)[j] = s[j]
             /\ \A j \in i..(Len(s) - 1) : (a \o b)[j] = s[j + 1]
  <2> SUFFICES ASSUME NEW a \in Seq(S), NEW b \in Seq(S),
                      Len(a) = i - 1, \A j \in 1..(i - 1) : a[j] = s[j],
                      Len(b) = Len(s) - i, \A j \in 1..(Len(s) - i) : b[j] = s[i + j]
               PROVE  /\ a \o b \in Seq(S) /\ Len(a \o b) = Len(s) - 1
                      /\ \A j \in 1..(i - 1) : (a \o b)[j] = s[j]
                      /\ \A j \in i..(Len(s) - 1) : (a \o b)[j] = s[j + 1]
    OBVIOUS
  <2>1. a \o b \in Seq(S) /\ Len(a \o b) = Len(s) - 1
    <3>1. a \o b \in Seq(S)
      BY ConcatProperties
    <3>2. Len(a \o b) = Len(a) + Len(b)
      BY ConcatProperties
    <3>3. QED BY <3>1, <3>2, <1>1
  <2>2. \A j \in 1..(i - 1) : (a \o b)[j] = s[j]
    BY <1>1, ConcatLines
  <2>3. ASSUME NEW j \in i..(Len(s) - 1) PROVE (a \o b)[j] = s[j + 1]
    <3>1. /\ j - (i - 1) \in 1..(Len(s) - i) /\ (i - 1) + (j - (i - 1)) = j
          /\ i + (j - (i - 1)) = j + 1
      BY <1>1
    <3>2. \A k \in 1..Len(b) : (a \o b)[Len(a) + k] = b[k]
      BY ConcatLines
    <3>3. (a \o b)[j] = b[j - (i - 1)]
      BY <3>1, <3>2
    <3>4. QED BY <3>1, <3>3
  <2>4. QED BY <2>1, <2>2, <2>3
<1>3. /\ SubSeq(s, 1, i - 1) \in Seq(S) /\ Len(SubSeq(s, 1, i - 1)) = i - 1
      /\ \A j \in 1..(i - 1) : SubSeq(s, 1, i - 1)[j] = s[j]
  BY <1>1
<1>4. /\ SubSeq(s, i + 1, Len(s)) \in Seq(S) /\ Len(SubSeq(s, i + 1, Len(s))) = Len(s) - i
      /\ \A j \in 1..(Len(s) - i) : SubSeq(s, i + 1, Len(s))[j] = s[i + j]
  <2>1. i + 1 \in Int /\ Len(s) \in Int /\ \A j \in (i + 1)..Len(s) : s[j] \in S
    BY <1>1
  <2>2. /\ SubSeq(s, i + 1, Len(s)) \in Seq(S)
        /\ Len(SubSeq(s, i + 1, Len(s))) = IF i + 1 <= Len(s) THEN Len(s) - (i + 1) + 1 ELSE 0
        /\ \A j \in 1..(Len(s) - (i + 1) + 1) :
              SubSeq(s, i + 1, Len(s))[j] = s[(i + 1) + j - 1]
    BY <2>1, SubSeqProperties
  <2>3. Len(s) - (i + 1) + 1 = Len(s) - i /\ \A j \in 1..(Len(s) - i) : (i + 1) + j - 1 = i + j
    BY <1>1
  <2>4. QED BY <2>2, <2>3, <1>1
<1>5. QED BY <1>2, <1>3, <1>4 DEF RemoveAt

\* move_to_end keeps the handles there are, each once.
LEMMA MovedHandles ==
    ASSUME NEW S, open \in Seq(S), IsInjective(open), NEW t \in ToSet(open)
    PROVE  /\ Moved(t) \in Seq(S) /\ Len(Moved(t)) = Len(open)
           /\ IsInjective(Moved(t)) /\ ToSet(Moved(t)) = ToSet(open)
<1> DEFINE n == Len(open)
           rest(i) == RemoveAt(open, i)
<1>1. DOMAIN open = 1..n /\ n \in Nat /\ ToSet(open) = {open[j] : j \in 1..n}
  BY DEF ToSet
<1>2. PICK i \in 1..n : open[i] = t /\ Moved(t) = Append(rest(i), t)
  BY <1>1 DEF ToSet, Moved
<1>3. i \in Nat /\ i >= 1 /\ i <= n /\ t \in S
  BY <1>1, <1>2
<1>4. /\ rest(i) \in Seq(S) /\ Len(rest(i)) = n - 1
      /\ \A j \in 1..(i - 1) : rest(i)[j] = open[j]
      /\ \A j \in i..(n - 1) : rest(i)[j] = open[j + 1]
  BY RemoveHandle
<1> HIDE DEF n, rest
<1> DEFINE old(j) == IF j < i THEN j ELSE IF j < n THEN j + 1 ELSE i
<1>5. /\ Moved(t) \in Seq(S) /\ Len(Moved(t)) = n /\ DOMAIN Moved(t) = 1..n
      /\ Moved(t)[n] = t /\ \A j \in 1..(n - 1) : Moved(t)[j] = rest(i)[j]
  BY <1>1, <1>2, <1>3, <1>4
<1>6. \A j \in 1..n : old(j) \in 1..n /\ Moved(t)[j] = open[old(j)]
  BY <1>1, <1>2, <1>3, <1>4, <1>5
<1>7. \A j, k \in 1..n : old(j) = old(k) => j = k
  BY <1>1, <1>3
<1>8. \A j \in 1..n : \E k \in 1..n : old(k) = j
  <2> SUFFICES ASSUME NEW j \in 1..n PROVE \E k \in 1..n : old(k) = j
    OBVIOUS
  <2>1. CASE j < i
    BY <2>1, <1>1, <1>3
  <2>2. CASE j > i
    <3>1. j - 1 \in 1..n /\ old(j - 1) = j
      BY <2>2, <1>1, <1>3
    <3>2. QED BY <3>1
  <2>3. CASE j = i
    <3>1. n \in 1..n /\ old(n) = j
      BY <2>3, <1>1, <1>3
    <3>2. QED BY <3>1
  <2>4. QED BY <2>1, <2>2, <2>3, <1>1, <1>3
<1> HIDE DEF old
<1>9. IsInjective(Moved(t))
  BY <1>1, <1>5, <1>6, <1>7 DEF IsInjective
<1>10. ToSet(Moved(t)) = ToSet(open)
  <2>1. ToSet(Moved(t)) = {Moved(t)[j] : j \in 1..n}
    BY <1>5 DEF ToSet
  <2>2. \A j \in 1..n : Moved(t)[j] \in {open[k] : k \in 1..n}
    BY <1>6
  <2>3. \A j \in 1..n : open[j] \in {Moved(t)[k] : k \in 1..n}
    BY <1>6, <1>8
  <2>4. QED BY <2>1, <2>2, <2>3, <1>1
<1>11. QED BY <1>5, <1>9, <1>10 DEF n

\* The least recently used handle is the one that is not kept.
LEMMA EvictedHandle ==
    ASSUME NEW S, NEW s \in Seq(S), IsInjective(s), s # <<>>
    PROVE  /\ Head(s) \in ToSet(s) /\ Tail(s) \in Seq(S) /\ Len(Tail(s)) = Len(s) - 1
           /\ IsInjective(Tail(s)) /\ ToSet(Tail(s)) = ToSet(s) \ {Head(s)}
<1>1. /\ DOMAIN s = 1..Len(s) /\ Len(s) \in Nat /\ Len(s) >= 1 /\ Head(s) = s[1]
      /\ ToSet(s) = {s[j] : j \in 1..Len(s)}
  BY DEF ToSet
<1>2. /\ Tail(s) \in Seq(S) /\ Len(Tail(s)) = Len(s) - 1
      /\ \A j \in 1..(Len(s) - 1) : Tail(s)[j] = s[j + 1]
  BY HeadTailProperties
<1>3. DOMAIN Tail(s) = 1..(Len(s) - 1) /\ ToSet(Tail(s)) = {Tail(s)[j] : j \in 1..(Len(s) - 1)}
  <2>1. DOMAIN Tail(s) = 1..(Len(s) - 1)
    BY <1>2
  <2>2. QED BY <2>1 DEF ToSet
<1>4. Head(s) \in ToSet(s)
  BY <1>1
<1>5. ASSUME NEW j \in 1..(Len(s) - 1)
      PROVE  j + 1 \in 1..Len(s) /\ j + 1 # 1 /\ 1 \in 1..Len(s)
  BY <1>1
<1>6. IsInjective(Tail(s))
  <2>1. \A j, k \in 1..(Len(s) - 1) : Tail(s)[j] = Tail(s)[k] => j + 1 = k + 1
    BY <1>1, <1>2, <1>5 DEF IsInjective
  <2>2. \A j, k \in 1..(Len(s) - 1) : j + 1 = k + 1 => j = k
    BY <1>1
  <2>3. QED BY <2>1, <2>2, <1>3 DEF IsInjective
<1>7. ToSet(Tail(s)) \subseteq ToSet(s) \ {Head(s)}
  <2>1. \A j \in 1..(Len(s) - 1) : s[j + 1] \in ToSet(s) /\ s[j + 1] # s[1]
    BY <1>1, <1>5 DEF IsInjective
  <2>2. QED BY <2>1, <1>1, <1>2, <1>3
<1>8. ToSet(s) \ {Head(s)} \subseteq ToSet(Tail(s))
  <2>1. ASSUME NEW j \in 1..Len(s), j # 1 PROVE s[j] \in ToSet(Tail(s))
    <3>1. j - 1 \in 1..(Len(s) - 1) /\ (j - 1) + 1 = j
      BY <2>1, <1>1
    <3>2. QED BY <3>1, <1>2, <1>3
  <2>2. QED BY <2>1, <1>1
<1>9. QED BY <1>2, <1>4, <1>6, <1>7, <1>8

\* Sorting rearranges the messages, each one is as far back as there are
\* messages before it.
LEMMA SortedMessages ==
    ASSUME NEW S, NEW s \in Seq(S), \A i \in 1..Len(s) : s[i][1] \in Nat
    PROVE  /\ Sorted(s) \in Seq(S) /\ Len(Sorted(s)) = Len(s) /\ ToSet(Sorted(s)) = ToSet(s)
           /\ \A k, l \in 1..Len(s) : k < l => Sorted(s)[k][1] <= Sorted(s)[l][1]
           /\ (\A i, j \in 1..Len(s) : s[i][1] = s[j][1] => i = j)
              => \A k, l \in 1..Len(s) : Sorted(s)[k][1] = Sorted(s)[l][1] => k = l
<1> DEFINE n == Len(s)
           rank(i) == Cardinality(Before(s, i))
           at(k) == CHOOSE i \in 1..n : rank(i) = k - 1
<1>1. n \in Nat /\ DOMAIN s = 1..n /\ \A i \in 1..n : s[i] \in S
  OBVIOUS
<1>2. Sorted(s) = [k \in 1..n |-> s[at(k)]]
  BY <1>1 DEF Sorted
<1>3. \A i \in 1..n : Before(s, i) =
          {j \in 1..n : s[j][1] < s[i][1] \/ (s[j][1] = s[i][1] /\ j < i)}
  BY <1>1 DEF Before
<1> HIDE DEF n
<1>4. IsFiniteSet(1..n) /\ Cardinality(1..n) = n
  BY <1>1, FS_Interval
<1>5. \A i, j \in 1..n : i # j => i \in Before(s, j) \/ j \in Before(s, i)
  BY <1>1, <1>3
<1>6. \A i, j \in 1..n : j \in Before(s, i) =>
          Before(s, j) \subseteq Before(s, i) /\ j \notin Before(s, j)
  BY <1>1, <1>3, SMTT(30)
<1>7. \A i \in 1..n : /\ IsFiniteSet(Before(s, i)) /\ rank(i) \in Nat /\ rank(i) <= n - 1
  <2> SUFFICES ASSUME NEW i \in 1..n
               PROVE  IsFiniteSet(Before(s, i)) /\ rank(i) \in Nat /\ rank(i) <= n - 1
    OBVIOUS
  <2>1. Before(s, i) \in SUBSET ((1..n) \ {i})
    BY <1>1, <1>3
  <2>2. IsFiniteSet((1..n) \ {i}) /\ Cardinality((1..n) \ {i}) = n - 1
    BY <1>4, FS_RemoveElement
  <2>3. IsFiniteSet(Before(s, i)) /\ rank(i) <= n - 1
    BY <2>1, <2>2, FS_Subset
  <2>4. QED BY <2>3, FS_CardinalityType
<1>8. \A i, j \in 1..n : j \in Before(s, i) => rank(j) < rank(i)
  <2> SUFFICES ASSUME NEW i \in 1..n, NEW j \in 1..n, j \in Before(s, i)
               PROVE  rank(j) < rank(i)
    OBVIOUS
  <2>1. Before(s, j) \in SUBSET Before(s, i) /\ Before(s, j) # Before(s, i)
    BY <1>6
  <2>2. rank(j) <= rank(i) /\ rank(j) # rank(i)
    BY <2>1, <1>7, FS_Subset
  <2>3. QED BY <2>2, <1>7
<1> DEFINE f == [i \in 1..n |-> rank(i) + 1]
<1>9. f \in [1..n -> 1..n]
  BY <1>1, <1>7
<1>10. \A i, j \in 1..n : f[i] = f[j] => i = j
  BY <1>5, <1>7, <1>8
<1>11. \A k \in 1..n : \E i \in 1..n : f[i] = k
  <2>1. f \in Injection(1..n, 1..n)
    BY <1>9, <1>10 DEF Injection, IsInjective
  <2> HIDE DEF f
  <2>2. f \in Surjection(1..n, 1..n)
    BY <2>1, <1>4, FS_Injection
  <2>3. QED BY <2>2 DEF Surjection
<1>12. \A k \in 1..n : at(k) \in 1..n /\ rank(at(k)) = k - 1
  <2> SUFFICES ASSUME NEW k \in 1..n
               PROVE  at(k) \in 1..n /\ rank(at(k)) = k - 1
    OBVIOUS
  <2>1. PICK i \in 1..n : f[i] = k
    BY <1>11
  <2>2. rank(i) = k - 1
    BY <2>1, <1>1, <1>7
  <2> HIDE DEF rank
  <2>3. QED BY <2>2
<1> HIDE DEF at
<1>13. \A i \in 1..n : \E k \in 1..n : at(k) = i
  <2> SUFFICES ASSUME NEW i \in 1..n PROVE \E k \in 1..n : at(k) = i
    OBVIOUS
  <2>1. f[i] \in 1..n /\ rank(i) = f[i] - 1
    BY <1>7, <1>9
  <2>2. at(f[i]) \in 1..n /\ rank(at(f[i])) = rank(i)
    BY <2>1, <1>12
  <2>3. f[at(f[i])] = f[i]
    BY <2>2
  <2>4. QED BY <2>1, <2>2, <2>3, <1>10
<1>14. \A k, l \in 1..n : at(k) = at(l) => k = l
  BY <1>1, <1>12
<1>15. /\ Sorted(s) \in Seq(S) /\ Len(Sorted(s)) = n /\ DOMAIN Sorted(s) = 1..n
       /\ \A k \in 1..n : Sorted(s)[k] = s[at(k)]
  BY <1>1, <1>2, <1>12
<1>16. ToSet(Sorted(s)) = ToSet(s)
  <2>1. ToSet(Sorted(s)) = {Sorted(s)[k] : k \in 1..n} /\ ToSet(s) = {s[i] : i \in 1..n}
    BY <1>1, <1>15 DEF ToSet
  <2>2. \A k \in 1..n : Sorted(s)[k] \in {s[i] : i \in 1..n}
    BY <1>12, <1>15
  <2>3. \A i \in 1..n : s[i] \in {Sorted(s)[k] : k \in 1..n}
    <3> SUFFICES ASSUME NEW i \in 1..n PROVE s[i] \in {Sorted(s)[k] : k \in 1..n}
      OBVIOUS
    <3>1. PICK k \in 1..n : at(k) = i
      BY <1>13
    <3>2. Sorted(s)[k] = s[i]
      BY <3>1, <1>15
    <3>3. QED BY <3>2
  <2>4. QED BY <2>1, <2>2, <2>3
<1>17. ASSUME NEW k \in 1..n, NEW l \in 1..n, k < l
       PROVE  Sorted(s)[k][1] <= Sorted(s)[l][1]
  <2>1. at(k) \in 1..n /\ at(l) \in 1..n /\ rank(at(k)) < rank(at(l))
    BY <1>1, <1>12, <1>17
  <2>2. at(k) # at(l) /\ at(l) \notin Before(s, at(k))
    BY <2>1, <1>7, <1>8
  <2>3. at(k) \in Before(s, at(l))
    BY <2>1, <2>2, <1>5
  <2>4. s[at(k)][1] <= s[at(l)][1]
    BY <2>1, <2>3, <1>3 DEF n
  <2>5. QED BY <2>4, <1>15
<1>18. ASSUME \A i, j \in 1..n : s[i][1] = s[j][1] => i = j
       PROVE  \A k, l \in 1..n : Sorted(s)[k][1] = Sorted(s)[l][1] => k = l
  <2> SUFFICES ASSUME NEW k \in 1..n, NEW l \in 1..n, Sorted(s)[k][1] = Sorted(s)[l][1]
               PROVE  k = l
    OBVIOUS
  <2>1. at(k) \in 1..n /\ at(l) \in 1..n /\ s[at(k)][1] = s[at(l)][1]
    BY <1>12, <1>15
  <2>2. at(k) = at(l)
    BY <2>1, <1>18
  <2>3. QED BY <2>2, <1>14
<1>19. QED BY <1>15, <1>16, <1>17, <1>18 DEF n

-----------------------------------------------------------------------------
(* The table.                                                                *)

\* The rows of one load.
LEMMA LoadedRows ==
    ASSUME NEW d \in Deltas, NEW load \in Nat
    PROVE  /\ Loaded(d, load) \in Seq(Rows) /\ RowsOK(Loaded(d, load), load)
           /\ \A i \in DOMAIN Loaded(d, load) : Loaded(d, load)[i].load = load
<1> DEFINE rows == Loaded(d, load)
<1>1. /\ d \in Seq(Copies) /\ Len(d) \in Nat /\ DOMAIN d = 1..Len(d)
      /\ \A i \in 1..Len(d) : d[i] \in Copies
  BY DeltasAssumption
<1>2. rows = [i \in 1..Len(d) |-> Row(d[i], load)]
  BY <1>1 DEF Loaded
<1> HIDE DEF rows
<1>3. ASSUME NEW i \in 1..Len(d)
      PROVE  /\ rows[i] \in Rows /\ rows[i].load = load /\ rows[i].chunk = <<load, d[i].chunk>>
             /\ rows[i].thread = d[i].thread /\ rows[i].ts = d[i].ts
             /\ Key(rows[i]) = Key(d[i])
  <2>1. rows[i] = Row(d[i], load) /\ d[i] \in Copies
    BY <1>1, <1>2
  <2>2. Row(d[i], load) \in Rows
    BY <2>1 DEF Row, Rows, Copies
  <2>3. /\ rows[i].load = load /\ rows[i].chunk = <<load, d[i].chunk>>
        /\ rows[i].thread = d[i].thread /\ rows[i].ts = d[i].ts
    BY <2>1 DEF Row
  <2>4. QED BY <2>1, <2>2, <2>3 DEF Key
<1>4. rows \in Seq(Rows) /\ DOMAIN rows = 1..Len(d)
  BY <1>1, <1>2, <1>3
<1>5. \A i \in 1..Len(d) : rows[i].load = rows[i].chunk[1] /\ rows[i].load <= load
  BY <1>3
<1>6. \A i, j \in 1..Len(d) :
          Key(rows[i]) = Key(rows[j]) /\ rows[i].chunk = rows[j].chunk => i = j
  <2> SUFFICES ASSUME NEW i \in 1..Len(d), NEW j \in 1..Len(d),
                      Key(rows[i]) = Key(rows[j]), rows[i].chunk = rows[j].chunk
               PROVE  i = j
    OBVIOUS
  <2>1. Key(d[i]) = Key(d[j]) /\ d[i].chunk = d[j].chunk
    BY <1>3
  <2>2. QED BY <2>1, <1>1, DeltasAssumption
<1>7. \A i \in 1..Len(d) : \E e \in Deltas : \E j \in DOMAIN e :
          rows[i].thread = e[j].thread /\ rows[i].ts = e[j].ts
  BY <1>1, <1>3
<1>8. RowsOK(rows, load)
  BY <1>4, <1>5, <1>6, <1>7 DEF RowsOK
<1>9. QED BY <1>3, <1>4, <1>8 DEF rows

\* Two loads beside each other.
LEMMA JoinedRows ==
    ASSUME NEW a \in Seq(Rows), NEW b \in Seq(Rows), NEW n,
           RowsOK(a, n), RowsOK(b, n),
           \A i \in DOMAIN a, j \in DOMAIN b : a[i].chunk # b[j].chunk
    PROVE  /\ a \o b \in Seq(Rows) /\ RowsOK(a \o b, n)
           /\ ToSet(a \o b) = ToSet(a) \cup ToSet(b)
<1>1. /\ a \o b \in Seq(Rows) /\ ToSet(a \o b) = ToSet(a) \cup ToSet(b)
      /\ Len(a \o b) = Len(a) + Len(b) /\ DOMAIN (a \o b) = 1..Len(a \o b)
      /\ \A i \in 1..Len(a) : (a \o b)[i] = a[i]
      /\ \A i \in 1..Len(b) : (a \o b)[Len(a) + i] = b[i]
      /\ DOMAIN a = 1..Len(a) /\ DOMAIN b = 1..Len(b) /\ Len(a) \in Nat /\ Len(b) \in Nat
  <2>1. a \o b \in Seq(Rows)
    BY ConcatProperties
  <2>2. QED BY <2>1, ConcatLines
<1> DEFINE c == a \o b
<1>2. ASSUME NEW i \in 1..(Len(a) + Len(b))
      PROVE  \/ i \in 1..Len(a) /\ c[i] = a[i]
             \/ i - Len(a) \in 1..Len(b) /\ c[i] = b[i - Len(a)]
  <2>1. CASE i <= Len(a)
    BY <2>1, <1>1
  <2>2. CASE i > Len(a)
    <3>1. i - Len(a) \in 1..Len(b) /\ Len(a) + (i - Len(a)) = i
      BY <2>2, <1>1
    <3>2. QED BY <3>1, <1>1
  <2>3. QED BY <2>1, <2>2, <1>1
<1>3. DOMAIN c = 1..(Len(a) + Len(b))
  BY <1>1
<1> HIDE DEF c
<1>4. ASSUME NEW i \in DOMAIN c
      PROVE  /\ c[i].load = c[i].chunk[1] /\ c[i].load <= n
             /\ \E d \in Deltas : \E j \in DOMAIN d :
                   c[i].thread = d[j].thread /\ c[i].ts = d[j].ts
  <2>1. \/ i \in DOMAIN a /\ c[i] = a[i]
        \/ i - Len(a) \in DOMAIN b /\ c[i] = b[i - Len(a)]
    BY <1>1, <1>2, <1>3
  <2>2. QED BY <2>1 DEF RowsOK
<1>5. ASSUME NEW i \in DOMAIN c, NEW j \in DOMAIN c,
             Key(c[i]) = Key(c[j]), c[i].chunk = c[j].chunk
      PROVE  i = j
  <2>1. /\ \/ i \in DOMAIN a /\ c[i] = a[i]
           \/ i - Len(a) \in DOMAIN b /\ c[i] = b[i - Len(a)]
        /\ \/ j \in DOMAIN a /\ c[j] = a[j]
           \/ j - Len(a) \in DOMAIN b /\ c[j] = b[j - Len(a)]
    BY <1>1, <1>2, <1>3
  <2>2. CASE i \in DOMAIN a /\ c[i] = a[i] /\ j \in DOMAIN a /\ c[j] = a[j]
    BY <2>2, <1>5 DEF RowsOK
  <2>3. CASE /\ i - Len(a) \in DOMAIN b /\ c[i] = b[i - Len(a)]
             /\ j - Len(a) \in DOMAIN b /\ c[j] = b[j - Len(a)]
    <3>1. i - Len(a) = j - Len(a)
      BY <2>3, <1>5 DEF RowsOK
    <3>2. QED BY <3>1, <1>1, <1>3
  <2>4. QED BY <2>1, <2>2, <2>3, <1>5
<1>6. RowsOK(c, n)
  BY <1>4, <1>5 DEF RowsOK
<1>7. QED BY <1>1, <1>6 DEF c

\* What is in a row, and in the line it becomes.
LEMMA RowFields ==
    ASSUME TypeOK
    PROVE  /\ DOMAIN table = 1..Len(table) /\ Len(table) \in Nat
           /\ \A i \in DOMAIN table :
                 /\ table[i].load \in Nat /\ table[i].ts \in Nat /\ table[i].thread \in Threads
                 /\ table[i].parses \in BOOLEAN /\ table[i].parent \in BOOLEAN
                 /\ Message(table[i]) \in Messages /\ Message(table[i])[1] = table[i].ts
                 /\ Message(table[i]) # NoFirst
           /\ \A m \in Messages : m[1] \in Nat /\ m # NoFirst
<1>1. table \in Seq(Rows) /\ DOMAIN table = 1..Len(table) /\ Len(table) \in Nat
  BY DEF TypeOK
<1>2. ASSUME NEW i \in DOMAIN table
      PROVE  /\ table[i].load \in Nat /\ table[i].ts \in Nat /\ table[i].thread \in Threads
             /\ table[i].parses \in BOOLEAN /\ table[i].parent \in BOOLEAN
             /\ Message(table[i]) \in Messages /\ Message(table[i])[1] = table[i].ts
             /\ Message(table[i]) # NoFirst
  <2>1. table[i] \in Rows
    BY <1>1
  <2>2. /\ table[i].load \in Nat /\ table[i].ts \in Nat /\ table[i].thread \in Threads
        /\ table[i].parses \in BOOLEAN /\ table[i].parent \in BOOLEAN
    BY <2>1 DEF Rows
  <2>3. Message(table[i]) \in Messages
    BY DEF Messages
  <2>4. Message(table[i])[1] = table[i].ts /\ Message(table[i]) # NoFirst
    BY DEF Message, NoFirst
  <2>5. QED BY <2>2, <2>3, <2>4
<1>3. \A m \in Messages : m[1] \in Nat /\ m # NoFirst
  BY <1>2 DEF Messages
<1>4. QED BY <1>1, <1>2, <1>3

\* The table after one more load: the rows there were are all still there.
LEMMA GrownTable ==
    ASSUME TypeOK, TableOK, Grow
    PROVE  table' \in Seq(Rows) /\ TableOK' /\ Messages \subseteq Messages'
<1>1. /\ deltas \in Nat /\ deltas' = deltas + 1 /\ table \in Seq(Rows)
      /\ RowsOK(table, deltas)
  BY SplitAssumption DEF TypeOK, TableOK, Grow
<1>2. PICK d \in Deltas : table' \in {table \o Loaded(d, deltas'), Loaded(d, deltas') \o table}
  BY DEF Grow
<1> DEFINE rows == Loaded(d, deltas + 1)
<1>3. /\ rows \in Seq(Rows) /\ RowsOK(rows, deltas + 1)
      /\ \A i \in DOMAIN rows : rows[i].load = deltas + 1
  <2>1. deltas + 1 \in Nat
    BY <1>1
  <2>2. QED BY <2>1, LoadedRows
<1>4. RowsOK(table, deltas + 1)
  <2>1. \A i \in DOMAIN table : table[i].load \in Nat /\ table[i].load <= deltas
    BY <1>1, RowFields DEF RowsOK
  <2>2. \A i \in DOMAIN table : table[i].load <= deltas + 1
    BY <2>1, <1>1
  <2>3. QED BY <2>2, <1>1 DEF RowsOK
<1> HIDE DEF rows
<1>5. \A i \in DOMAIN table, j \in DOMAIN rows : table[i].chunk # rows[j].chunk
  <2> SUFFICES ASSUME NEW i \in DOMAIN table, NEW j \in DOMAIN rows
               PROVE  table[i].chunk # rows[j].chunk
    OBVIOUS
  <2>1. table[i].load \in Nat /\ table[i].load <= deltas /\ table[i].load = table[i].chunk[1]
    BY <1>1, RowFields DEF RowsOK
  <2>2. rows[j].chunk[1] = deltas + 1
    BY <1>3 DEF RowsOK
  <2>3. QED BY <2>1, <2>2, <1>1
<1>6. /\ table' \in Seq(Rows) /\ RowsOK(table', deltas + 1)
      /\ ToSet(table') = ToSet(table) \cup ToSet(rows)
  <2>1. CASE table' = table \o rows
    BY <2>1, <1>1, <1>3, <1>4, <1>5, JoinedRows
  <2>2. CASE table' = rows \o table
    BY <2>2, <1>1, <1>3, <1>4, <1>5, JoinedRows
  <2>3. QED BY <2>1, <2>2, <1>1, <1>2 DEF rows
<1>7. Messages \subseteq Messages'
  <2>1. \A i \in DOMAIN table : \E j \in DOMAIN table' : table'[j] = table[i]
    BY <1>6 DEF ToSet
  <2>2. QED BY <2>1 DEF Messages, Message
<1>8. QED BY <1>1, <1>6, <1>7 DEF TableOK

-----------------------------------------------------------------------------
(* _HandleCache.write.                                                       *)

\* What the handle cache's steps keep to.
Cached ==
    /\ open \in Seq(seen) /\ seen \subseteq DOMAIN files /\ DOMAIN files \subseteq Threads
    /\ files \in [DOMAIN files -> Seq(Messages)] /\ buffer \in [Threads -> Seq(Messages)]
    /\ torn \subseteq DOMAIN files

LEMMA CacheTypes ==
    ASSUME TypeOK, HandlesBounded
    PROVE  /\ Cached /\ IsInjective(open) /\ Len(open) \in Nat /\ Limit \in Nat \ {0}
           /\ \A u \in Threads : buffer[u] # <<>> => u \in ToSet(open)
           /\ ToSet(open) \subseteq seen
           /\ \A u \in Threads : /\ Content(u) \in Seq(Messages) /\ Lines(u) \in Seq(Messages)
                                  /\ Content(u) \o <<>> = Content(u) /\ Lines(u) \o <<>> = Lines(u)
<1>1. /\ Cached /\ IsInjective(open) /\ Len(open) \in Nat /\ Limit \in Nat \ {0}
      /\ \A u \in Threads : buffer[u] # <<>> => u \in ToSet(open)
  BY SplitAssumption DEF TypeOK, HandlesBounded, Cached
<1>2. ToSet(open) \subseteq seen
  BY <1>1 DEF Cached, ToSet
<1>3. \A u \in Threads : Content(u) \in Seq(Messages) /\ buffer[u] \in Seq(Messages)
  <2>1. <<>> \in Seq(Messages)
    OBVIOUS
  <2>2. QED BY <1>1, <2>1 DEF Content, Cached
<1>4. \A u \in Threads : Lines(u) \in Seq(Messages) /\ Content(u) \o <<>> = Content(u)
  BY <1>3, ConcatLines DEF Lines
<1>5. \A u \in Threads : Lines(u) \o <<>> = Lines(u)
  BY <1>4, ConcatLines
<1>6. QED BY <1>1, <1>2, <1>3, <1>4, <1>5

\* The open: a thread this run has not seen starts over, one it has seen has
\* the lines it had, and nobody else's are touched.
LEMMA OpenLines ==
    ASSUME TypeOK, HandlesBounded, OpenHandle
    PROVE  /\ Cached' /\ HandlesBounded'
           /\ seen \subseteq seen' /\ DOMAIN files \subseteq DOMAIN files'
           /\ \E t \in Threads :
                 /\ Opening(t) /\ seen' = seen \cup {t} /\ DOMAIN files' = DOMAIN files \cup {t}
                 /\ torn' \subseteq torn /\ (t \in torn' => t \in seen)
                 /\ t \in seen => Lines(t)' = Lines(t)
                 /\ t \notin seen => Lines(t)' = <<>>
                 /\ \A u \in Threads \ {t} : Lines(u)' = Lines(u)
<1>0. table[pos].thread \in Threads
  <2>1. pos \in 1..(Len(table) + 1) /\ table \in Seq(Rows) /\ Len(table) \in Nat
    BY DEF TypeOK
  <2>2. pos \in DOMAIN table
    BY <2>1 DEF OpenHandle
  <2>3. QED BY <2>2, RowFields
<1>1. PICK t \in Threads : t = table[pos].thread
  BY <1>0
<1>2. /\ stage = "stream" /\ pos <= Len(table) /\ Written(table[pos])
      /\ t \notin ToSet(open) /\ ~Over
      /\ open' = Append(open, t) /\ seen' = seen \cup {t}
      /\ files' = Put(files, t, Opened(t)) /\ buffer' = buffer
      /\ torn' = IF t \in seen THEN torn ELSE torn \ {t}
      /\ table' = table /\ stage' = stage /\ pos' = pos
  BY <1>1 DEF OpenHandle
<1>3. /\ Cached /\ IsInjective(open) /\ Len(open) \in Nat /\ Limit \in Nat \ {0}
      /\ \A u \in Threads : buffer[u] # <<>> => u \in ToSet(open)
      /\ ToSet(open) \subseteq seen
      /\ \A u \in Threads : /\ Content(u) \in Seq(Messages) /\ Lines(u) \in Seq(Messages)
                             /\ Content(u) \o <<>> = Content(u)
  BY CacheTypes
<1>4. open \in Seq(seen')
  BY <1>2, <1>3, SeqMonotonic DEF Cached
<1>5. /\ open' \in Seq(seen') /\ Len(open') = Len(open) + 1
      /\ ToSet(open') = ToSet(open) \cup {t}
      /\ DOMAIN open' = 1..(Len(open) + 1)
      /\ \A i \in 1..Len(open) : open'[i] = open[i]
      /\ open'[Len(open) + 1] = t /\ DOMAIN open = 1..Len(open)
  BY <1>2, <1>3, <1>4, AppendLine
<1>6. IsInjective(open')
  <2>1. \A i \in 1..Len(open) : open[i] # t
    BY <1>2, <1>5 DEF ToSet
  <2>2. \A i \in 1..(Len(open) + 1) : i \in 1..Len(open) \/ i = Len(open) + 1
    BY <1>3
  <2>3. \A i, j \in 1..Len(open) : open[i] = open[j] => i = j
    BY <1>3, <1>5 DEF IsInjective
  <2>4. QED BY <1>5, <2>1, <2>2, <2>3 DEF IsInjective
<1>7. buffer[t] = <<>>
  BY <1>2, <1>3
<1>8. HandlesBounded'
  <2>1. Len(open') <= Limit + 1
    BY <1>2, <1>3, <1>5 DEF Over
  <2>2. buffer'[open'[Len(open')]] = <<>>
    BY <1>2, <1>5, <1>7
  <2>3. \A u \in Threads : buffer'[u] # <<>> => u \in ToSet(open')
    BY <1>2, <1>3, <1>5
  <2>4. QED BY <1>2, <1>6, <2>1, <2>2, <2>3 DEF HandlesBounded
<1>9. /\ DOMAIN files' = DOMAIN files \cup {t} /\ files'[t] = Opened(t)
      /\ \A u \in DOMAIN files \ {t} : files'[u] = files[u]
      /\ files' \in [DOMAIN files' -> Seq(Messages)]
  <2>1. Opened(t) \in Seq(Messages)
    <3>1. <<>> \in Seq(Messages)
      OBVIOUS
    <3>2. QED BY <1>2, <1>3, <3>1 DEF Opened
  <2>2. QED BY <1>2, <1>3, <2>1 DEF Put, Cached
<1>10. Messages' = Messages
  BY <1>2 DEF Messages
<1>11. Cached' /\ seen \subseteq seen' /\ DOMAIN files \subseteq DOMAIN files'
  BY <1>2, <1>3, <1>5, <1>9, <1>10 DEF Cached
<1>12. t \in seen => Lines(t)' = Lines(t)
  <2> SUFFICES ASSUME t \in seen PROVE Lines(t)' = Lines(t)
    OBVIOUS
  <2>1. Content(t)' = Content(t) /\ buffer'[t] = buffer[t]
    BY <1>2, <1>9 DEF Opened, Content
  <2>2. QED BY <2>1 DEF Lines
<1>13. t \notin seen => Lines(t)' = <<>>
  <2> SUFFICES ASSUME t \notin seen PROVE Lines(t)' = <<>>
    OBVIOUS
  <2>1. Content(t)' = <<>> /\ buffer'[t] = <<>>
    BY <1>2, <1>7, <1>9 DEF Opened, Content
  <2>2. <<>> \o <<>> = <<>>
    OBVIOUS
  <2>3. QED BY <2>1, <2>2, Zenon DEF Lines
<1>14. \A u \in Threads \ {t} : Lines(u)' = Lines(u)
  <2> SUFFICES ASSUME NEW u \in Threads \ {t} PROVE Lines(u)' = Lines(u)
    OBVIOUS
  <2>1. Content(u)' = Content(u) /\ buffer'[u] = buffer[u]
    BY <1>2, <1>9 DEF Content
  <2>2. QED BY <2>1 DEF Lines
<1>15. Opening(t)
  BY <1>1, <1>2 DEF Opening
<1>16. torn' \subseteq torn /\ (t \in torn' => t \in seen)
  BY <1>2
<1>17. DOMAIN files' = DOMAIN files \cup {t} /\ seen' = seen \cup {t}
  BY <1>2, <1>9
<1>18. QED BY <1>2, <1>8, <1>11, <1>12, <1>13, <1>14, <1>15, <1>16, <1>17

\* The eviction moves the lines of one handle to its file.
LEMMA CloseLines ==
    ASSUME TypeOK, HandlesBounded, HandlesClosed, CloseOldest
    PROVE  /\ Cached' /\ HandlesBounded' /\ stage = "stream" /\ DOMAIN files' = DOMAIN files
           /\ \A u \in Threads : Lines(u)' = Lines(u)
<1> DEFINE t == Head(open)
<1>1. /\ Len(open) > Limit /\ open' = Tail(open)
      /\ files' = [files EXCEPT ![t] = @ \o buffer[t]]
      /\ buffer' = [buffer EXCEPT ![t] = <<>>]
      /\ UNCHANGED <<table, seen, stage, torn>>
  BY DEF CloseOldest, Over, tears
<1>2. /\ Cached /\ IsInjective(open) /\ Len(open) \in Nat /\ Limit \in Nat \ {0}
      /\ \A u \in Threads : buffer[u] # <<>> => u \in ToSet(open)
      /\ ToSet(open) \subseteq seen
      /\ \A u \in Threads : Lines(u) \in Seq(Messages) /\ Lines(u) \o <<>> = Lines(u)
  BY CacheTypes
<1>3. Len(open) = Limit + 1 /\ stage = "stream" /\ open # <<>>
  BY <1>1, <1>2 DEF HandlesBounded
<1>4. /\ t \in ToSet(open) /\ Tail(open) \in Seq(seen) /\ Len(Tail(open)) = Len(open) - 1
      /\ IsInjective(Tail(open)) /\ ToSet(Tail(open)) = ToSet(open) \ {t}
  BY <1>2, <1>3, EvictedHandle DEF Cached
<1> HIDE DEF t
<1>5. t \in seen /\ t \in DOMAIN files /\ t \in Threads
  BY <1>2, <1>4 DEF Cached
<1>6. /\ DOMAIN files' = DOMAIN files /\ files'[t] = Lines(t)
      /\ \A u \in DOMAIN files \ {t} : files'[u] = files[u]
      /\ files' \in [DOMAIN files' -> Seq(Messages)]
  <2>1. files[t] \o buffer[t] = Lines(t)
    BY <1>5 DEF Lines, Content
  <2>2. QED BY <1>1, <1>2, <1>5, <2>1 DEF Cached
<1>7. /\ buffer'[t] = <<>> /\ \A u \in Threads \ {t} : buffer'[u] = buffer[u]
      /\ buffer' \in [Threads -> Seq(Messages)]
  <2>1. <<>> \in Seq(Messages)
    OBVIOUS
  <2>2. QED BY <1>1, <1>2, <1>5, <2>1 DEF Cached
<1>8. Messages' = Messages
  BY <1>1 DEF Messages
<1>9. Cached'
  BY <1>1, <1>2, <1>4, <1>6, <1>7, <1>8 DEF Cached
<1>10. HandlesBounded'
  <2>1. Len(open') = Limit
    BY <1>1, <1>2, <1>3, <1>4
  <2>2. \A u \in Threads : buffer'[u] # <<>> => u \in ToSet(open')
    BY <1>1, <1>2, <1>4, <1>7
  <2>3. QED BY <1>1, <1>2, <1>4, <2>1, <2>2 DEF HandlesBounded
<1>11. ASSUME NEW u \in Threads PROVE Lines(u)' = Lines(u)
  <2>1. CASE u = t
    <3>1. Lines(u)' = Lines(t) \o <<>>
      BY <2>1, <1>5, <1>6, <1>7 DEF Lines, Content
    <3>2. QED BY <3>1, <2>1, <1>2, <1>5
  <2>2. CASE u # t
    BY <2>2, <1>6, <1>7 DEF Lines, Content
  <2>3. QED BY <2>1, <2>2
<1>12. QED BY <1>3, <1>6, <1>9, <1>10, <1>11

\* The write: t has one line more, in its handle.
LEMMA WriteLines ==
    ASSUME TypeOK, HandlesBounded, NEW t \in Threads, NEW msg \in Messages, Write(t, msg),
           UNCHANGED <<seen, files, torn>>
    PROVE  /\ t \in seen
           /\ open' \in Seq(seen') /\ Len(open') <= Limit /\ IsInjective(open')
           /\ buffer' \in [Threads -> Seq(Messages)]
           /\ \A u \in Threads : buffer'[u] # <<>> => u \in ToSet(open')
           /\ Lines(t)' = Append(Lines(t), msg)
           /\ \A u \in Threads \ {t} : Lines(u)' = Lines(u)
<1>1. /\ Cached /\ IsInjective(open) /\ Len(open) \in Nat /\ Limit \in Nat \ {0}
      /\ \A u \in Threads : buffer[u] # <<>> => u \in ToSet(open)
      /\ ToSet(open) \subseteq seen
      /\ \A u \in Threads : Content(u) \in Seq(Messages)
  BY CacheTypes
<1>2. /\ t \in ToSet(open) /\ Len(open) <= Limit /\ open' = Moved(t)
      /\ buffer' = [buffer EXCEPT ![t] = Append(buffer[t], msg)]
  BY <1>1 DEF Write, Over
<1>3. /\ Moved(t) \in Seq(seen) /\ Len(Moved(t)) = Len(open)
      /\ IsInjective(Moved(t)) /\ ToSet(Moved(t)) = ToSet(open)
  BY <1>1, <1>2, MovedHandles DEF Cached
<1>4. buffer[t] \in Seq(Messages) /\ Append(buffer[t], msg) \in Seq(Messages)
  <2>1. buffer[t] \in Seq(Messages)
    BY <1>1 DEF Cached
  <2>2. QED BY <2>1, AppendLine
<1>5. /\ buffer' \in [Threads -> Seq(Messages)] /\ buffer'[t] = Append(buffer[t], msg)
      /\ \A u \in Threads \ {t} : buffer'[u] = buffer[u]
  BY <1>1, <1>2, <1>4 DEF Cached
<1>6. \A u \in Threads : buffer'[u] # <<>> => u \in ToSet(open')
  BY <1>1, <1>2, <1>3, <1>5
<1>7. Lines(t)' = Append(Lines(t), msg)
  <2>1. Lines(t)' = Content(t) \o Append(buffer[t], msg)
    BY <1>5 DEF Lines, Content
  <2>2. PICK held \in Seq(Messages), waiting \in Seq(Messages) :
           held = Content(t) /\ waiting = buffer[t]
    BY <1>1, <1>4
  <2>3. held \o Append(waiting, msg) = Append(held \o waiting, msg)
    BY AppendLine
  <2>4. QED BY <2>1, <2>2, <2>3, Zenon DEF Lines
<1>8. \A u \in Threads \ {t} : Lines(u)' = Lines(u)
  BY <1>5 DEF Lines, Content
<1>9. QED BY <1>1, <1>2, <1>3, <1>5, <1>6, <1>7, <1>8

-----------------------------------------------------------------------------
(* Handles, files and index.                                                 *)

\* Before anything was written.
LEMMA BaseInit == Init => Base
<1> SUFFICES ASSUME Init PROVE Base
  OBVIOUS
<1>1. TypeOK
  <2>1. Messages = {} /\ table \in Seq(Rows) /\ Len(table) = 0
    BY DEF Init, Messages
  <2>2. /\ files \in [DOMAIN files -> Seq(Messages)] /\ DOMAIN files = {}
        /\ metas \in [DOMAIN metas -> Metas] /\ DOMAIN metas = {} /\ open \in Seq(seen)
    BY DEF Init
  <2>3. /\ buffer \in [Threads -> Seq(Messages)] /\ DOMAIN index = Channels
        /\ torn = {} /\ tornIndex = {}
    BY DEF Init
  <2>4. QED BY <2>1, <2>2, <2>3, SplitAssumption DEF Init, TypeOK
<1>2. TableOK /\ MetasOK
  BY DEF Init, TableOK, RowsOK, MetasOK
<1>3. HandlesBounded
  BY SplitAssumption DEF Init, HandlesBounded, IsInjective
<1>4. HandlesClosed /\ ListedThreadsOpen
  BY DEF Init, HandlesClosed, ListedThreadsOpen
<1>5. QED BY <1>1, <1>2, <1>3, <1>4 DEF Base

\* The lines of an index name threads that have a file.
LEMMA IndexedThreads ==
    ASSUME TypeOK, MetasOK, NEW c \in Channels, NEW e \in IndexLines(c)
    PROVE  e.thread \in DOMAIN files
<1>1. PICK t \in DOMAIN metas : metas[t].first # NoFirst /\ e = Entry(t, metas[t], people)
  BY DEF IndexLines
<1>2. e.thread = t
  BY <1>1 DEF Entry
<1>3. QED BY <1>1, <1>2 DEF MetasOK

\* A row that was streamed leaves the metadata of its thread in shape.
LEMMA StreamedMeta ==
    ASSUME TypeOK, NEW i \in DOMAIN table
    PROVE  LET r == table[i]
               m == Flagged(MetaOf(metas, r.thread), r)
           IN  /\ m \in Metas /\ m.first = MetaOf(metas, r.thread).first
               /\ Counted(m, r) \in Metas
<1> DEFINE r == table[i]
           m == Flagged(MetaOf(metas, r.thread), r)
<1>1. /\ r.parent \in BOOLEAN /\ Message(r) \in Messages
  BY RowFields
<1>2. MetaOf(metas, r.thread) \in Metas
  BY DEF TypeOK, MetaOf, NewMeta, Metas
<1> HIDE DEF r
<1>3. m \in Metas /\ m.first = MetaOf(metas, r.thread).first
  BY <1>1, <1>2 DEF Flagged, Metas
<1> HIDE DEF m
<1>4. Counted(m, r) \in Metas
  <2> DEFINE first == IF IsAnchor(r) \/ m.first = NoFirst THEN Message(r) ELSE m.first
  <2>1. m.count \in Nat /\ m.count + 1 \in Nat /\ first \in Messages \cup {NoFirst}
    BY <1>1, <1>3 DEF Metas
  <2>2. Counted(m, r) = [m EXCEPT !.count = m.count + 1, !.first = first]
    BY DEF Counted
  <2> HIDE DEF first
  <2>3. [m EXCEPT !.count = m.count + 1, !.first = first] \in Metas
    BY <2>1, <1>3 DEF Metas
  <2>4. QED BY <2>2, <2>3
<1>5. QED BY <1>3, <1>4 DEF m, r

\* One more load: what was written so far is still of rows of the table.
LEMMA BaseGrow == ASSUME Base, Grow PROVE Base'
<1>1. TypeOK /\ TableOK /\ HandlesBounded /\ HandlesClosed /\ MetasOK /\ ListedThreadsOpen
  BY DEF Base
<1>2. table' \in Seq(Rows) /\ TableOK' /\ Messages \subseteq Messages'
  BY <1>1, GrownTable
<1>3. \A s \in Seq(Messages) : s \in Seq(Messages')
  BY <1>2, SeqMonotonic
<1>4. /\ UNCHANGED <<crashes, run, buffer, files, directories, index, tears, todo>>
      /\ deltas' = deltas + 1 /\ deltas < MaxDeltas /\ stage' = "idle"
      /\ stage \in {"idle", "done"}
  BY DEF Grow
<1>5. \A m \in Metas : m \in Metas'
  BY <1>2 DEF Metas
<1>6. files' \in [DOMAIN files' -> Seq(Messages')] /\ buffer' \in [Threads -> Seq(Messages')]
  BY <1>1, <1>3, <1>4 DEF TypeOK
<1>7. metas' \in [DOMAIN metas' -> Metas'] /\ DOMAIN metas' \subseteq Threads
  BY <1>1, <1>4, <1>5 DEF TypeOK, run
<1>8. deltas' \in 0..MaxDeltas /\ crashes' \in 0..MaxCrashes
  BY <1>1, <1>4, SplitAssumption DEF TypeOK
<1>9. pos' \in 1..(Len(table') + 1)
  <2>1. pos' = pos /\ pos \in 1..(Len(table) + 1) /\ Len(table) \in Nat /\ Len(table') \in Nat
    BY <1>1, <1>2, <1>4 DEF TypeOK, run
  <2>2. Len(table') >= Len(table)
    <3>1. PICK d \in Deltas : table' \in {table \o Loaded(d, deltas'), Loaded(d, deltas') \o table}
      BY DEF Grow
    <3>2. Loaded(d, deltas') \in Seq(Rows) /\ table \in Seq(Rows)
      <4>1. deltas' \in Nat /\ table \in Seq(Rows)
        BY <1>1, <1>4, SplitAssumption DEF TypeOK
      <4>2. Loaded(d, deltas') \in Seq(Rows)
        BY <4>1, LoadedRows
      <4>3. QED BY <4>1, <4>2
    <3> DEFINE rows == Loaded(d, deltas')
    <3> HIDE DEF rows
    <3>3. rows \in Seq(Rows) /\ table' \in {table \o rows, rows \o table}
      BY <3>1, <3>2 DEF rows
    <3>4. Len(table \o rows) = Len(table) + Len(rows) /\ Len(rows \o table) = Len(rows) + Len(table)
      BY <3>2, <3>3, ConcatProperties
    <3>5. Len(rows) \in Nat
      BY <3>3
    <3>6. QED BY <2>1, <3>3, <3>4, <3>5
  <2>3. QED BY <2>1, <2>2
<1>10. TypeOK'
  BY <1>1, <1>2, <1>4, <1>6, <1>7, <1>8, <1>9 DEF TypeOK, run, tears
<1>11. HandlesBounded' /\ HandlesClosed' /\ MetasOK' /\ ListedThreadsOpen'
  BY <1>1, <1>4 DEF HandlesBounded, HandlesClosed, MetasOK, ListedThreadsOpen, run
<1>12. QED BY <1>2, <1>10, <1>11 DEF Base

\* The cases of StreamRow.
LEMMA StreamCases ==
    ASSUME Base, StreamRow
    PROVE  LET r == table[pos]
               m == Flagged(MetaOf(metas, r.thread), r)
           IN  /\ pos \in DOMAIN table /\ stage = "stream" /\ pos' = pos + 1
               /\ r.thread \in Threads /\ Message(r) \in Messages
               /\ UNCHANGED <<table, deltas, crashes, stage, keep, seen, files, directories,
                              index, tears, todo>>
               /\ \/ /\ ~Kept(keep, r)
                     /\ UNCHANGED <<metas, people, open, buffer>>
                  \/ /\ Kept(keep, r) /\ ~r.parses
                     /\ metas' = Put(metas, r.thread, m)
                     /\ UNCHANGED <<people, open, buffer>>
                  \/ /\ Kept(keep, r) /\ r.parses
                     /\ metas' = Put(metas, r.thread, Counted(m, r))
                     /\ Write(r.thread, Message(r))
<1>1. TypeOK
  BY DEF Base
<1>2. pos \in DOMAIN table
  <2>1. pos \in 1..(Len(table) + 1) /\ pos <= Len(table) /\ table \in Seq(Rows)
    BY <1>1 DEF TypeOK, StreamRow
  <2>2. QED BY <2>1
<1>3. table[pos].thread \in Threads /\ Message(table[pos]) \in Messages
  BY <1>1, <1>2, RowFields
<1>4. QED BY <1>2, <1>3, Zenon DEF StreamRow

\* One row of the streaming pass, kept or not, whether it parses or not.
LEMMA BaseStream == ASSUME Base, StreamRow PROVE Base'
<1> DEFINE r == table[pos]
           m == Flagged(MetaOf(metas, r.thread), r)
<1>1. TypeOK /\ TableOK /\ HandlesBounded /\ HandlesClosed /\ MetasOK /\ ListedThreadsOpen
  BY DEF Base
<1>2. /\ pos \in DOMAIN table /\ stage = "stream" /\ pos' = pos + 1
      /\ r.thread \in Threads /\ Message(r) \in Messages
      /\ table' = table /\ deltas' = deltas /\ crashes' = crashes /\ stage' = stage
      /\ keep' = keep /\ index' = index /\ todo' = todo
      /\ seen' = seen /\ files' = files /\ torn' = torn /\ tornIndex' = tornIndex
  BY StreamCases DEF tears
<1>3. m \in Metas /\ m.first = MetaOf(metas, r.thread).first /\ Counted(m, r) \in Metas
  BY <1>1, <1>2, StreamedMeta
<1>4. \/ UNCHANGED <<metas, open, buffer>>
      \/ metas' = Put(metas, r.thread, m) /\ UNCHANGED <<open, buffer>>
      \/ metas' = Put(metas, r.thread, Counted(m, r)) /\ Write(r.thread, Message(r))
  BY StreamCases
<1> HIDE DEF m, r
<1>5. Messages' = Messages /\ Metas' = Metas /\ Limit \in Nat
  BY <1>2, SplitAssumption DEF Messages, Metas
<1>6. pos' \in 1..(Len(table') + 1)
  <2>1. table \in Seq(Rows)
    BY <1>1 DEF TypeOK
  <2>2. pos \in 1..Len(table) /\ Len(table) \in Nat
    BY <2>1, <1>2
  <2>3. QED BY <2>2, <1>2
<1>7. /\ metas \in [DOMAIN metas -> Metas] /\ DOMAIN metas \subseteq Threads
  BY <1>1 DEF TypeOK
<1>8. ASSUME NEW d \in Metas, metas' = Put(metas, r.thread, d)
      PROVE  /\ metas' \in [DOMAIN metas' -> Metas] /\ DOMAIN metas' \subseteq Threads
             /\ \A t \in DOMAIN metas' :
                   IF t = r.thread THEN metas'[t] = d ELSE t \in DOMAIN metas /\ metas'[t] = metas[t]
  BY <1>2, <1>7, <1>8 DEF Put
<1>9. /\ metas' \in [DOMAIN metas' -> Metas] /\ DOMAIN metas' \subseteq Threads
  BY <1>3, <1>4, <1>7, <1>8
<1>10. /\ open' \in Seq(seen') /\ Len(open') <= Limit + 1 /\ IsInjective(open')
       /\ Len(open') > Limit => buffer'[open'[Len(open')]] = <<>>
       /\ buffer' \in [Threads -> Seq(Messages)]
       /\ \A u \in Threads : buffer'[u] # <<>> => u \in ToSet(open')
  <2>1. CASE UNCHANGED <<open, buffer>>
    BY <2>1, <1>1, <1>2 DEF TypeOK, HandlesBounded
  <2>2. CASE Write(r.thread, Message(r))
    <3>1. PICK t \in Threads, msg \in Messages : t = r.thread /\ msg = Message(r)
      BY <1>2
    <3>2. Write(t, msg) /\ UNCHANGED <<seen, files, torn>>
      BY <3>1, <2>2, <1>2
    <3>3. /\ t \in seen /\ open' \in Seq(seen') /\ Len(open') <= Limit /\ IsInjective(open')
          /\ buffer' \in [Threads -> Seq(Messages)]
          /\ \A u \in Threads : buffer'[u] # <<>> => u \in ToSet(open')
      BY <3>2, <1>1, WriteLines
    <3>4. Len(open') \in Nat
      BY <3>3
    <3>5. QED BY <3>1, <3>3, <3>4, <1>5
  <2>3. QED BY <2>1, <2>2, <1>4
<1>11. TypeOK'
  BY <1>1, <1>2, <1>5, <1>6, <1>9, <1>10 DEF TypeOK
<1>12. TableOK'
  BY <1>1, <1>2 DEF TableOK
<1>13. HandlesBounded'
  BY <1>2, <1>10 DEF HandlesBounded
<1>14. HandlesClosed' /\ ListedThreadsOpen'
  BY <1>1, <1>2, <1>10 DEF HandlesClosed, ListedThreadsOpen
<1>15. MetasOK'
  <2> SUFFICES ASSUME NEW t \in DOMAIN metas', metas'[t].first # NoFirst
               PROVE  t \in DOMAIN files'
    BY DEF MetasOK
  <2>1. CASE UNCHANGED metas
    BY <2>1, <1>1, <1>2 DEF MetasOK
  <2>2. CASE metas' = Put(metas, r.thread, m)
    <3>1. CASE t = r.thread
      <4>1. MetaOf(metas, t).first # NoFirst
        BY <2>2, <3>1, <1>3, <1>8
      <4>2. t \in DOMAIN metas /\ metas[t].first # NoFirst
        BY <4>1 DEF MetaOf, NewMeta
      <4>3. QED BY <4>2, <1>1, <1>2 DEF MetasOK
    <3>2. CASE t # r.thread
      BY <3>2, <2>2, <1>1, <1>2, <1>3, <1>8 DEF MetasOK
    <3>3. QED BY <3>1, <3>2
  <2>3. CASE metas' = Put(metas, r.thread, Counted(m, r)) /\ Write(r.thread, Message(r))
    <3>1. CASE t = r.thread
      <4>1. t \in ToSet(open)
        BY <2>3, <3>1 DEF Write
      <4>2. t \in seen /\ seen \subseteq DOMAIN files
        BY <4>1, <1>1 DEF TypeOK, ToSet
      <4>3. QED BY <4>2, <1>2
    <3>2. CASE t # r.thread
      BY <3>2, <2>3, <1>1, <1>2, <1>3, <1>8 DEF MetasOK
    <3>3. QED BY <3>1, <3>2
  <2>4. QED BY <2>1, <2>2, <2>3, <1>4
<1>16. QED BY <1>11, <1>12, <1>13, <1>14, <1>15 DEF Base

\* A step of the handle cache.
LEMMA BaseCache ==
    ASSUME Base, Cached', HandlesBounded', seen \subseteq seen', DOMAIN files \subseteq DOMAIN files',
           UNCHANGED <<table, deltas, crashes, pos, metas, index, tornIndex, todo>>,
           stage = "stream", stage' = "stream"
    PROVE  Base'
<1>1. TypeOK /\ TableOK /\ HandlesBounded /\ HandlesClosed /\ MetasOK /\ ListedThreadsOpen
  BY DEF Base
<1>2. Messages' = Messages /\ Metas' = Metas
  BY DEF Messages, Metas
<1>3. TypeOK'
  BY <1>1, <1>2 DEF TypeOK, Cached
<1>4. TableOK' /\ HandlesClosed' /\ MetasOK' /\ ListedThreadsOpen'
  BY <1>1 DEF TableOK, HandlesClosed, MetasOK, ListedThreadsOpen
<1>5. QED BY <1>3, <1>4 DEF Base

LEMMA BaseOpen == ASSUME Base, OpenHandle PROVE Base'
<1>1. TypeOK /\ HandlesBounded
  BY DEF Base
<1>2. Cached' /\ HandlesBounded' /\ seen \subseteq seen' /\ DOMAIN files \subseteq DOMAIN files'
  BY <1>1, OpenLines
<1>3. /\ UNCHANGED <<table, deltas, crashes, pos, metas, index, tornIndex, todo>>
      /\ stage = "stream" /\ stage' = "stream"
  BY DEF OpenHandle
<1>4. QED BY <1>2, <1>3, BaseCache

LEMMA BaseClose == ASSUME Base, CloseOldest PROVE Base'
<1>1. TypeOK /\ HandlesBounded /\ HandlesClosed
  BY DEF Base
<1>2. Cached' /\ HandlesBounded' /\ stage = "stream" /\ DOMAIN files' = DOMAIN files
  BY <1>1, CloseLines
<1>3. UNCHANGED <<table, deltas, crashes, stage, pos, metas, seen, index, tornIndex, todo>>
  BY DEF CloseOldest, tears
<1>4. QED BY <1>2, <1>3, BaseCache

\* The files, when they are rewritten but none comes or goes.
LEMMA BaseRewrite ==
    ASSUME Base, UNCHANGED <<table, deltas>>, crashes' \in 0..MaxCrashes,
           pos' \in {1, pos}, metas' \in {<<>>, metas}, seen' \in {{}, seen},
           stage' \in {"idle", "tidy"}, stage' = "tidy" => todo' \subseteq seen',
           todo' \subseteq Threads \cup Channels,
           DOMAIN files' = DOMAIN files, files' \in [DOMAIN files -> Seq(Messages)],
           buffer' = [t \in Threads |-> <<>>], open' = <<>>,
           DOMAIN index' = Channels,
           \A c \in Channels : index'[c] \subseteq index[c] \cup IndexLines(c),
           torn' \subseteq DOMAIN files, tornIndex' \subseteq Channels
    PROVE  Base'
<1>1. TypeOK /\ TableOK /\ HandlesBounded /\ HandlesClosed /\ MetasOK /\ ListedThreadsOpen
  BY DEF Base
<1>2. Messages' = Messages /\ Metas' = Metas
  BY DEF Messages, Metas
<1>3. buffer' \in [Threads -> Seq(Messages)] /\ open' \in Seq(seen') /\ Len(open') = 0
  OBVIOUS
<1>4. TypeOK'
  <2>1. 1 \in 1..(Len(table) + 1) /\ pos \in 1..(Len(table) + 1)
    <3>1. pos \in 1..(Len(table) + 1) /\ table \in Seq(Rows)
      BY <1>1 DEF TypeOK
    <3>2. QED BY <3>1
  <2>2. /\ DOMAIN metas' \subseteq Threads /\ metas' \in [DOMAIN metas' -> Metas]
        /\ seen' \subseteq DOMAIN files /\ pos' \in 1..(Len(table) + 1)
    <3>1. DOMAIN metas' \subseteq Threads /\ metas' \in [DOMAIN metas' -> Metas]
      <4>1. CASE metas' = metas
        BY <4>1, <1>1 DEF TypeOK
      <4>2. CASE metas' = <<>>
        BY <4>2
      <4>3. QED BY <4>1, <4>2
    <3>2. seen' \subseteq DOMAIN files
      BY <1>1 DEF TypeOK
    <3>3. QED BY <3>1, <3>2, <2>1
  <2>3. QED BY <1>1, <1>2, <1>3, <2>2 DEF TypeOK
<1>5. TableOK' /\ HandlesClosed' /\ MetasOK'
  BY <1>1 DEF TableOK, HandlesClosed, MetasOK
<1>6. HandlesBounded'
  BY <1>3, SplitAssumption DEF HandlesBounded, IsInjective
<1>7. ListedThreadsOpen'
  <2> SUFFICES ASSUME NEW c \in Channels, NEW e \in index'[c] PROVE e.thread \in DOMAIN files
    BY DEF ListedThreadsOpen
  <2>1. CASE e \in index[c]
    BY <2>1, <1>1 DEF ListedThreadsOpen
  <2>2. CASE e \in IndexLines(c)
    BY <2>2, <1>1, IndexedThreads
  <2>3. QED BY <2>1, <2>2
<1>8. QED BY <1>4, <1>5, <1>6, <1>7 DEF Base

\* What a flush appends and what a sort rearranges are lines that were there.
LEMMA FlushedFile ==
    ASSUME Base, NEW t \in ToSet(open), NEW lines \in Seq(Messages)
    PROVE  t \in DOMAIN files /\ files[t] \o lines \in Seq(Messages)
<1>1. t \in DOMAIN files /\ files[t] \in Seq(Messages)
  BY DEF Base, TypeOK, ToSet
<1>2. QED BY <1>1, ConcatProperties

\* Sorting keeps a file's lines and brings them into order.
LEMMA SortedFile ==
    ASSUME Base, NEW t \in DOMAIN files
    PROVE  /\ files[t] \in Seq(Messages)
           /\ Sorted(files[t]) \in Seq(Messages) /\ Len(Sorted(files[t])) = Len(files[t])
           /\ ToSet(Sorted(files[t])) = ToSet(files[t])
           /\ InOrder(Sorted(files[t]))
           /\ (\A i, j \in DOMAIN files[t] : files[t][i][1] = files[t][j][1] => i = j)
              => \A i, j \in DOMAIN Sorted(files[t]) :
                    Sorted(files[t])[i][1] = Sorted(files[t])[j][1] => i = j
<1>1. files[t] \in Seq(Messages) /\ TypeOK
  BY DEF Base, TypeOK
<1> DEFINE s == files[t]
<1>2. s \in Seq(Messages) /\ DOMAIN s = 1..Len(s)
  BY <1>1
<1> HIDE DEF s
<1>3. \A i \in 1..Len(s) : s[i] \in Messages
  BY <1>2
<1>4. \A i \in 1..Len(s) : s[i][1] \in Nat
  BY <1>1, <1>3, RowFields
<1>5. /\ Sorted(s) \in Seq(Messages) /\ Len(Sorted(s)) = Len(s) /\ ToSet(Sorted(s)) = ToSet(s)
      /\ \A k, l \in 1..Len(s) : k < l => Sorted(s)[k][1] <= Sorted(s)[l][1]
      /\ (\A i, j \in 1..Len(s) : s[i][1] = s[j][1] => i = j)
         => \A k, l \in 1..Len(s) : Sorted(s)[k][1] = Sorted(s)[l][1] => k = l
  BY <1>2, <1>4, SortedMessages
<1>6. DOMAIN Sorted(s) = 1..Len(s)
  BY <1>5
<1>7. QED BY <1>2, <1>5, <1>6 DEF s, InOrder

\* What a kill leaves of the lines being written.
LEMMA PrefixLines ==
    ASSUME NEW S, NEW s \in Seq(S), NEW p \in Prefixes(s)
    PROVE  p \in Seq(S)
<1>1. PICK l \in 0..Len(s) : p = SubSeq(s, 1, l)
  BY DEF Prefixes
<1>2. \A i \in 1..l : s[i] \in S
  BY ElementOfSeq
<1>3. QED BY <1>1, <1>2, SubSeqProperties

\* close_all.
LEMMA BaseEndOfStream == ASSUME Base, EndOfStream PROVE Base'
<1>1. TypeOK /\ \A t \in Threads : buffer[t] \in Seq(Messages)
  BY DEF Base, TypeOK
<1>2. \A t \in DOMAIN files : files[t] \in Seq(Messages) /\ t \in Threads
  BY <1>1 DEF TypeOK
<1>3. files' \in [DOMAIN files -> Seq(Messages)] /\ DOMAIN files' = DOMAIN files
  <2>1. files' = [t \in DOMAIN files |->
                     IF t \in ToSet(open) THEN files[t] \o buffer[t] ELSE files[t]]
    BY DEF EndOfStream
  <2>2. \A t \in DOMAIN files : t \in ToSet(open) => files[t] \o buffer[t] \in Seq(Messages)
    BY <1>1, <1>2, FlushedFile
  <2>3. QED BY <2>1, <2>2, <1>2
<1>4. /\ todo' = seen /\ seen \subseteq Threads /\ DOMAIN index' = Channels
      /\ crashes' \in 0..MaxCrashes /\ torn' \subseteq DOMAIN files /\ tornIndex' \subseteq Channels
  BY <1>1 DEF EndOfStream, TypeOK, directories, tears
<1>5. /\ UNCHANGED <<table, deltas, pos, metas, seen, index>> /\ stage' = "tidy" /\ open' = <<>>
      /\ buffer' = [t \in Threads |-> <<>>]
  BY DEF EndOfStream
<1>6. QED BY <1>3, <1>4, <1>5, BaseRewrite

\* _sort_unordered.
LEMMA BaseTidy == ASSUME Base, NEW t \in Threads, Tidy(t) PROVE Base'
<1>1. /\ TypeOK /\ todo \subseteq seen /\ t \in DOMAIN files /\ open = <<>>
      /\ \A u \in Threads : buffer[u] = <<>>
  <2>1. todo \subseteq seen /\ open = <<>> /\ t \in todo
    BY DEF Base, HandlesClosed, Tidy
  <2>2. ToSet(open) = {}
    BY <2>1 DEF ToSet
  <2>3. QED BY <2>1, <2>2 DEF Base, TypeOK, HandlesBounded
<1>2. Sorted(files[t]) \in Seq(Messages)
  BY <1>1, SortedFile
<1>3. files' = [files EXCEPT ![t] = Sorted(files[t])]
  BY DEF Tidy
<1>4. files' \in [DOMAIN files -> Seq(Messages)] /\ DOMAIN files' = DOMAIN files
  <2>1. files \in [DOMAIN files -> Seq(Messages)]
    BY <1>1 DEF TypeOK
  <2>2. QED BY <2>1, <1>2, <1>3
<1>5. buffer' = [u \in Threads |-> <<>>] /\ open' = <<>>
  BY <1>1 DEF TypeOK, Tidy, run
<1>6. /\ UNCHANGED <<table, deltas, pos, metas, seen>>
      /\ crashes' \in 0..MaxCrashes /\ stage' = "tidy"
      /\ todo' \subseteq seen /\ todo' \subseteq Threads \cup Channels
      /\ DOMAIN index' = Channels /\ index' = index
      /\ torn' \subseteq DOMAIN files /\ tornIndex' \subseteq Channels
  BY <1>1 DEF TypeOK, Tidy, run, directories, tears
<1>7. QED BY <1>4, <1>5, <1>6, BaseRewrite

\* A kill, wherever it hits: of the files only those lose lines that exist.
LEMMA BaseCrash == ASSUME Base, Crash PROVE Base'
<1>1. TypeOK /\ HandlesClosed
  BY DEF Base
<1>2. /\ UNCHANGED <<table, deltas>> /\ pos' = 1 /\ metas' = <<>> /\ seen' = {}
      /\ stage' = "idle" /\ crashes' \in 0..MaxCrashes /\ todo' = {}
      /\ buffer' = [t \in Threads |-> <<>>] /\ open' = <<>>
  BY <1>1, SplitAssumption, SMTT(30) DEF Crash, TypeOK
<1>3. /\ files \in [DOMAIN files -> Seq(Messages)] /\ buffer \in [Threads -> Seq(Messages)]
      /\ DOMAIN index = Channels /\ torn \subseteq DOMAIN files /\ tornIndex \subseteq Channels
      /\ open \in Seq(seen) /\ seen \subseteq DOMAIN files
  BY <1>1 DEF TypeOK
<1>4. /\ DOMAIN files' = DOMAIN files /\ files' \in [DOMAIN files -> Seq(Messages)]
      /\ DOMAIN index' = Channels
      /\ \A c \in Channels : index'[c] \subseteq index[c] \cup IndexLines(c)
      /\ torn' \subseteq DOMAIN files /\ tornIndex' \subseteq Channels
  <2>1. CASE UNCHANGED <<files, index, torn, tornIndex>>
    BY <2>1, <1>3
  <2>2. CASE CrashStream
    <3>1. PICK out \in [ToSet(open) -> UNION {Prefixes(buffer[t]) : t \in ToSet(open)}] :
             /\ \A t \in ToSet(open) : out[t] \in Prefixes(buffer[t])
             /\ files' = [t \in DOMAIN files |->
                             IF t \in ToSet(open) THEN files[t] \o out[t] ELSE files[t]]
             /\ \E ends \in SUBSET {t \in ToSet(open) : out[t] # buffer[t]} :
                   torn' = torn \cup ends
      BY <2>2 DEF CrashStream
    <3>2. ASSUME NEW t \in ToSet(open) PROVE files[t] \o out[t] \in Seq(Messages)
      <4>1. t \in Threads
        BY <1>1 DEF TypeOK, ToSet
      <4>2. out[t] \in Seq(Messages)
        BY <3>1, <4>1, <1>3, PrefixLines
      <4>3. QED BY <4>2, FlushedFile
    <3>3. torn' \subseteq torn \cup ToSet(open) /\ ToSet(open) \subseteq DOMAIN files
      BY <3>1, <1>3 DEF ToSet
    <3>4. index' = index /\ tornIndex' = tornIndex
      BY <2>2 DEF CrashStream
    <3>5. DOMAIN files' = DOMAIN files /\ files' \in [DOMAIN files -> Seq(Messages)]
      BY <3>1, <3>2, <1>3
    <3>6. QED BY <3>3, <3>4, <3>5, <1>3
  <2>3. CASE CrashTidy
    <3>1. PICK t \in todo : \E lines \in Prefixes(Sorted(files[t])) \ {Sorted(files[t])} :
             files' = [files EXCEPT ![t] = lines] /\ torn' \in {torn, torn \cup {t}}
      BY <2>3 DEF CrashTidy
    <3>2. PICK lines \in Prefixes(Sorted(files[t])) : files' = [files EXCEPT ![t] = lines]
      BY <3>1
    <3>3. t \in DOMAIN files
      BY <2>3, <1>1 DEF HandlesClosed, TypeOK, CrashTidy
    <3>4. lines \in Seq(Messages)
      BY <3>2, <3>3, SortedFile, PrefixLines
    <3>5. index' = index /\ tornIndex' = tornIndex
      BY <2>3 DEF CrashTidy
    <3>6. QED BY <3>1, <3>2, <3>3, <3>4, <3>5, <1>3
  <2>4. CASE CrashIndex
    <3>1. PICK c \in todo : \E next \in IndexLines(c) :
             /\ index' = [index EXCEPT ![c] = {e \in IndexLines(c) : e.thread < next.thread}]
             /\ tornIndex' \in {tornIndex \ {c}, tornIndex \cup {c}}
      BY <2>4 DEF CrashIndex
    <3>2. c \in Channels
      <4>1. IndexLines(c) # {}
        BY <3>1
      <4>2. PICK t \in DOMAIN metas : Channel[t] = c
        BY <4>1 DEF IndexLines
      <4>3. QED BY <4>2, <1>1 DEF TypeOK, Channels
    <3>3. \A d \in Channels : index'[d] \subseteq index[d] \cup IndexLines(d)
      BY <3>1, <1>3
    <3>4. files' = files /\ torn' = torn
      BY <2>4 DEF CrashIndex
    <3>5. QED BY <3>1, <3>2, <3>3, <3>4, <1>3
  <2>5. QED
    <3>1. \/ CrashStream \/ CrashTidy \/ CrashIndex
          \/ UNCHANGED <<files, index, tears>>
      BY Zenon DEF Crash
    <3>2. QED BY <3>1, <2>1, <2>2, <2>3, <2>4 DEF tears
<1>5. QED BY <1>2, <1>4, BaseRewrite

\* Every step.
LEMMA BaseStep == ASSUME Base, [Next]_vars PROVE Base'
<1>1. TypeOK /\ TableOK /\ HandlesBounded /\ HandlesClosed /\ MetasOK /\ ListedThreadsOpen
  BY DEF Base
<1> DEFINE kept == <<table, deltas, metas, buffer, files, index, torn, tornIndex>>
<1>2. ASSUME UNCHANGED kept, UNCHANGED <<open, seen>>, UNCHANGED crashes,
             stage' \in {"light", "stream", "tidy", "users", "channels", "index", "done", stage},
             stage' = "stream" \/ stage # "stream",
             stage' \in {"light", "tidy"} => stage' = stage,
             pos' \in 1..(Len(table) + 1), todo' \subseteq Threads \cup Channels,
             stage' = "tidy" => todo' \subseteq todo
      PROVE  Base'
  <2>1. Messages' = Messages /\ Metas' = Metas
    BY <1>2 DEF Messages, Metas
  <2>2. TypeOK'
    BY <1>1, <1>2, <2>1 DEF TypeOK
  <2>3. TableOK' /\ HandlesBounded' /\ HandlesClosed' /\ MetasOK' /\ ListedThreadsOpen'
    BY <1>1, <1>2 DEF TableOK, HandlesBounded, HandlesClosed, MetasOK, ListedThreadsOpen
  <2>4. QED BY <2>2, <2>3 DEF Base
<1>3. pos \in 1..(Len(table) + 1) /\ 1 \in 1..(Len(table) + 1) /\ table \in Seq(Rows)
  <2>1. table \in Seq(Rows) /\ pos \in 1..(Len(table) + 1)
    BY <1>1 DEF TypeOK
  <2>2. Len(table) \in Nat
    BY <2>1
  <2>3. QED BY <2>1, <2>2
<1>4. CASE Grow
  BY <1>4, BaseGrow
<1>5. CASE Begin
  <2>1. /\ table' = table
        /\ UNCHANGED <<deltas, crashes, buffer, files, index, torn, tornIndex, todo>>
        /\ stage' = "light" /\ pos' = 1 /\ metas' = <<>> /\ open' = <<>> /\ seen' = {}
        /\ stage # "stream"
    BY <1>5 DEF Begin, tears
  <2>2. Messages' = Messages /\ Metas' = Metas
    BY <2>1 DEF Messages, Metas
  <2>3. open' \in Seq(seen') /\ Len(open') = 0 /\ IsInjective(open')
        /\ DOMAIN metas' = {} /\ metas' \in [DOMAIN metas' -> Metas]
    BY <2>1 DEF IsInjective
  <2>4. TypeOK'
    BY <2>1, <2>2, <2>3, <1>1, <1>3 DEF TypeOK
  <2>5. \A t \in Threads : buffer'[t] = <<>>
    <3>1. ToSet(open) = {}
      BY <2>1, <1>1 DEF HandlesClosed, ToSet
    <3>2. QED BY <3>1, <2>1, <1>1 DEF HandlesBounded
  <2>6. HandlesBounded'
    BY <2>3, <2>5, SplitAssumption DEF HandlesBounded
  <2>7. TableOK' /\ HandlesClosed' /\ MetasOK' /\ ListedThreadsOpen'
    BY <2>1, <2>3, <1>1 DEF TableOK, HandlesClosed, MetasOK, ListedThreadsOpen
  <2>8. QED BY <2>4, <2>6, <2>7 DEF Base
<1>6. CASE LightRow
  <2>1. pos + 1 \in 1..(Len(table) + 1)
    <3>1. Len(table) \in Nat /\ pos <= Len(table)
      BY <1>3, <1>6 DEF LightRow
    <3>2. QED BY <3>1, <1>3
  <2>2. QED BY <1>1, <1>2, <1>6, <2>1 DEF LightRow, TypeOK, tears
<1>7. CASE EndOfLight
  BY <1>1, <1>2, <1>3, <1>7 DEF EndOfLight, TypeOK, tears
<1>8. CASE StreamRow
  BY <1>8, BaseStream
<1>9. CASE EndOfStream
  BY <1>9, BaseEndOfStream
<1>10. ASSUME NEW t \in Threads, Tidy(t) PROVE Base'
  BY <1>10, BaseTidy
<1>11. CASE EndOfTidy
  BY <1>1, <1>2, <1>3, <1>11 DEF EndOfTidy, TypeOK, run, tears
<1>12. CASE WriteUsers
  BY <1>1, <1>2, <1>3, <1>12 DEF WriteUsers, TypeOK, run, tears
<1>13. CASE WriteChannels
  BY <1>1, <1>2, <1>3, <1>13 DEF WriteChannels, TypeOK, run, tears
<1>14. ASSUME NEW c \in Channels, WriteIndex(c) PROVE Base'
  <2>1. /\ UNCHANGED <<table, deltas, crashes, run, buffer, files>> /\ stage' = stage
        /\ stage = "index" /\ index' = [index EXCEPT ![c] = IndexLines(c)]
        /\ todo' \subseteq todo /\ torn' = torn /\ tornIndex' \subseteq tornIndex
    BY <1>14 DEF WriteIndex
  <2>2. Messages' = Messages /\ Metas' = Metas
    BY <2>1 DEF Messages, Metas
  <2>3. TypeOK'
    BY <2>1, <2>2, <1>1 DEF TypeOK, run
  <2>4. TableOK' /\ HandlesBounded' /\ HandlesClosed' /\ MetasOK'
    BY <2>1, <1>1 DEF TableOK, HandlesBounded, HandlesClosed, MetasOK, run
  <2>5. ListedThreadsOpen'
    <3> SUFFICES ASSUME NEW d \in Channels, NEW e \in index'[d] PROVE e.thread \in DOMAIN files'
      BY DEF ListedThreadsOpen
    <3>1. DOMAIN index = Channels
      BY <1>1 DEF TypeOK
    <3>2. CASE d = c
      <4>1. e \in IndexLines(c)
        BY <3>1, <3>2, <2>1
      <4>2. QED BY <4>1, <2>1, <1>1, IndexedThreads
    <3>3. CASE d # c
      BY <3>1, <3>3, <2>1, <1>1 DEF ListedThreadsOpen
    <3>4. QED BY <3>2, <3>3
  <2>6. QED BY <2>3, <2>4, <2>5 DEF Base
<1>15. CASE Done
  BY <1>1, <1>2, <1>3, <1>15 DEF Done, TypeOK, run, tears
<1>16. CASE Crash
  BY <1>16, BaseCrash
<1>17. CASE UNCHANGED vars
  BY <1>1, <1>2, <1>3, <1>17 DEF vars, TypeOK
<1>18. CASE OpenHandle
  BY <1>18, BaseOpen
<1>19. CASE CloseOldest
  BY <1>19, BaseClose
<1>20. QED BY <1>4, <1>5, <1>6, <1>7, <1>8, <1>9, <1>10, <1>11, <1>12, <1>13, <1>14, <1>15,
              <1>16, <1>17, <1>18, <1>19 DEF Next

\* So far the base alone is inductive.
LEMMA BaseInvariant == Spec => []Base
BY BaseInit, BaseStep, PTL DEF Spec

-----------------------------------------------------------------------------
(* The light pass.                                                           *)

\* Nothing is compared yet.
LEMMA KeepInit == Init => KeepOK
BY DEF Init, KeepOK

\* One row: the newest of the rows before it, and the row itself.
LEMMA KeepLightRow == ASSUME Base, KeepOK, LightRow PROVE KeepOK'
<1> DEFINE r == table[pos]
<1>1. /\ stage = "light" /\ stage' = "light" /\ table' = table /\ pos' = pos + 1
      /\ keep' = Newer(keep, r)
  BY DEF LightRow
<1>2. /\ table \in Seq(Rows) /\ pos \in 1..(Len(table) + 1) /\ pos <= Len(table)
      /\ TypeOK
  BY DEF Base, TypeOK, LightRow
<1>3. /\ Len(table) \in Nat /\ pos \in Nat /\ pos \in DOMAIN table /\ DOMAIN table = 1..Len(table)
      /\ Compared = pos - 1 /\ Compared' = pos
  BY <1>1, <1>2 DEF Compared
<1>4. /\ \A i \in 1..(pos - 1) :
            i \in DOMAIN table /\ Key(table[i]) \in DOMAIN keep
            /\ table[i].load <= keep[Key(table[i])].load
      /\ \A k \in DOMAIN keep : \E i \in 1..(pos - 1) : keep[k] = table[i] /\ Key(table[i]) = k
  BY <1>1, <1>3 DEF KeepOK
<1>5. \A i \in DOMAIN table : table[i].load \in Nat
  BY <1>2, RowFields
<1>6. \A i \in 1..pos : i \in 1..(pos - 1) \/ i = pos
  BY <1>3
<1>7. \A i \in 1..(pos - 1) : i \in 1..pos
  BY <1>3
<1>8. pos \in 1..pos
  BY <1>3
<1>9. CASE Key(r) \in DOMAIN keep /\ keep[Key(r)].load > r.load
  <2>1. keep' = keep
    BY <1>1, <1>9 DEF Newer
  <2>2. r.load <= keep[Key(r)].load
    <3>1. PICK i \in 1..(pos - 1) : keep[Key(r)] = table[i]
      BY <1>4, <1>9
    <3>2. QED BY <3>1, <1>3, <1>4, <1>5, <1>9
  <2> HIDE DEF r
  <2>3. \A i \in 1..pos : Key(table[i]) \in DOMAIN keep /\ table[i].load <= keep[Key(table[i])].load
    BY <2>2, <1>4, <1>6, <1>9, Zenon DEF r
  <2>4. \A k \in DOMAIN keep : \E i \in 1..pos : keep[k] = table[i] /\ Key(table[i]) = k
    BY <1>4, <1>7
  <2>5. QED BY <2>1, <2>3, <2>4, <1>1, <1>3 DEF KeepOK
<1>10. CASE ~(Key(r) \in DOMAIN keep /\ keep[Key(r)].load > r.load)
  <2>1. keep' = [k \in DOMAIN keep \cup {Key(r)} |-> IF k = Key(r) THEN r ELSE keep[k]]
    BY <1>1, <1>10 DEF Newer, Put
  <2>2. Key(r) \in DOMAIN keep => keep[Key(r)].load <= r.load
    <3> SUFFICES ASSUME Key(r) \in DOMAIN keep PROVE keep[Key(r)].load <= r.load
      OBVIOUS
    <3>1. PICK i \in 1..(pos - 1) : keep[Key(r)] = table[i]
      BY <1>4
    <3>2. QED BY <3>1, <1>3, <1>4, <1>5, <1>10
  <2> DEFINE key(i) == Key(table[i])
  <2>3. ASSUME NEW i \in 1..pos
        PROVE  key(i) \in DOMAIN keep' /\ table[i].load <= keep'[key(i)].load
    <3>1. CASE i = pos
      BY <3>1, <2>1, <1>3, <1>5
    <3>2. CASE i # pos /\ key(i) = Key(r)
      <4>1. i \in DOMAIN table /\ key(i) \in DOMAIN keep /\ table[i].load <= keep[key(i)].load
        BY <3>2, <1>4, <1>6
      <4>2. keep[key(i)].load <= r.load /\ keep'[key(i)] = r /\ key(i) \in DOMAIN keep'
        BY <3>2, <4>1, <2>1, <2>2
      <4>3. PICK j \in 1..(pos - 1) : keep[key(i)] = table[j]
        BY <4>1, <1>4
      <4>4. table[i].load \in Nat /\ keep[key(i)].load \in Nat /\ r.load \in Nat
        BY <4>1, <4>3, <1>3, <1>4, <1>5
      <4>5. QED BY <4>1, <4>2, <4>4
    <3>3. CASE i # pos /\ key(i) # Key(r)
      <4>1. key(i) \in DOMAIN keep /\ table[i].load <= keep[key(i)].load
        BY <3>3, <1>4, <1>6
      <4>2. QED BY <3>3, <4>1, <2>1
    <3>4. QED BY <3>1, <3>2, <3>3
  <2>4. ASSUME NEW k \in DOMAIN keep'
        PROVE  \E i \in 1..pos : keep'[k] = table[i] /\ Key(table[i]) = k
    <3>1. CASE k = Key(r)
      BY <3>1, <2>1, <1>8
    <3>2. CASE k # Key(r)
      <4>1. k \in DOMAIN keep /\ keep'[k] = keep[k]
        BY <3>2, <2>1
      <4>2. QED BY <4>1, <1>4, <1>7
    <3>3. QED BY <3>1, <3>2
  <2>5. QED BY <2>3, <2>4, <1>1, <1>3 DEF KeepOK
<1>11. QED BY <1>9, <1>10

\* Every step: best changes in the light pass only, the table not in a run.
LEMMA KeepStep == ASSUME Base, KeepOK, [Next]_vars PROVE KeepOK'
<1>1. Len(table) \in Nat /\ pos \in 1..(Len(table) + 1)
  BY DEF Base, TypeOK
<1>2. CASE stage' = "idle"
  BY <1>2 DEF KeepOK
<1>3. CASE Begin
  BY <1>3 DEF Begin, KeepOK, Compared
<1>4. CASE LightRow
  BY <1>4, KeepLightRow
<1>5. CASE EndOfLight
  <2>1. Compared' = Compared /\ table' = table /\ keep' = keep /\ stage # "idle"
    BY <1>1, <1>5 DEF EndOfLight, Compared
  <2>2. QED BY <2>1 DEF KeepOK
<1>6. ASSUME table' = table, keep' = keep, stage \notin {"idle", "light"},
             stage' \notin {"idle", "light"}
      PROVE  KeepOK'
  <2>1. Compared' = Compared
    BY <1>6 DEF Compared
  <2>2. QED BY <2>1, <1>6 DEF KeepOK
<1>7. CASE StreamRow
  BY <1>6, <1>7 DEF StreamRow
<1>8. CASE EndOfStream
  BY <1>6, <1>8 DEF EndOfStream
<1>9. ASSUME NEW t \in Threads, Tidy(t) PROVE KeepOK'
  BY <1>6, <1>9 DEF Tidy, run
<1>10. CASE EndOfTidy
  BY <1>6, <1>10 DEF EndOfTidy, run
<1>11. CASE WriteUsers \/ WriteChannels
  BY <1>6, <1>11 DEF WriteUsers, WriteChannels, run
<1>12. ASSUME NEW c \in Channels, WriteIndex(c) PROVE KeepOK'
  BY <1>6, <1>12 DEF WriteIndex, run
<1>13. CASE Done
  BY <1>6, <1>13 DEF Done, run
<1>14. CASE UNCHANGED vars
  BY <1>14 DEF vars, KeepOK, Compared
<1>15. CASE Grow \/ Crash
  BY <1>2, <1>15 DEF Grow, Crash
<1>16. CASE OpenHandle
  BY <1>6, <1>16 DEF OpenHandle
<1>17. CASE CloseOldest
  <2>1. stage = "stream"
    BY <1>17, CloseLines DEF Base
  <2>2. QED BY <2>1, <1>6, <1>17 DEF CloseOldest
<1>18. QED BY <1>3, <1>4, <1>5, <1>7, <1>8, <1>9, <1>10, <1>11, <1>12, <1>13, <1>14, <1>15,
              <1>16, <1>17 DEF Next

\* The rows the streaming pass keeps: one of each message, and no other copy of
\* it is newer.
LEMMA KeptRows ==
    ASSUME Base, KeepOK, stage \notin {"idle", "light"}
    PROVE  /\ \A i, j \in DOMAIN table : Kept(keep, table[i]) /\ Key(table[j]) = Key(table[i])
                                         => table[j].load <= table[i].load
           /\ \A i, j \in DOMAIN table :
                 Kept(keep, table[i]) /\ Kept(keep, table[j]) /\ Key(table[j]) = Key(table[i])
                 => i = j
           /\ \A j \in DOMAIN table : \E i \in DOMAIN table :
                 Kept(keep, table[i]) /\ Key(table[i]) = Key(table[j])
<1>1. DOMAIN table = 1..Len(table)
  BY DEF Base, TypeOK
<1>2. /\ \A i \in DOMAIN table :
            Key(table[i]) \in DOMAIN keep /\ table[i].load <= keep[Key(table[i])].load
      /\ \A k \in DOMAIN keep : \E i \in DOMAIN table : keep[k] = table[i] /\ Key(table[i]) = k
  BY <1>1 DEF KeepOK, Compared
<1>3. ASSUME NEW i \in DOMAIN table, Kept(keep, table[i])
      PROVE  keep[Key(table[i])] = table[i]
  <2>1. PICK k \in DOMAIN table : keep[Key(table[i])] = table[k] /\ Key(table[k]) = Key(table[i])
    BY <1>2
  <2>2. table[k].chunk = table[i].chunk
    BY <2>1, <1>3 DEF Kept
  <2>3. k = i
    BY <2>1, <2>2 DEF Base, TableOK, RowsOK
  <2>4. QED BY <2>1, <2>3
<1>4. ASSUME NEW i \in DOMAIN table, NEW j \in DOMAIN table, Kept(keep, table[i]),
             Key(table[j]) = Key(table[i])
      PROVE  table[j].load <= table[i].load
  BY <1>2, <1>3, <1>4
<1>5. ASSUME NEW i \in DOMAIN table, NEW j \in DOMAIN table, Kept(keep, table[i]),
             Kept(keep, table[j]), Key(table[j]) = Key(table[i])
      PROVE  i = j
  <2>1. table[i] = table[j]
    BY <1>3, <1>5
  <2>2. QED BY <2>1 DEF Base, TableOK, RowsOK
<1>6. ASSUME NEW j \in DOMAIN table
      PROVE  \E i \in DOMAIN table : Kept(keep, table[i]) /\ Key(table[i]) = Key(table[j])
  <2>1. PICK i \in DOMAIN table : keep[Key(table[j])] = table[i] /\ Key(table[i]) = Key(table[j])
    BY <1>2
  <2>2. Kept(keep, table[i])
    BY <2>1 DEF Kept
  <2>3. QED BY <2>1, <2>2
<1>7. QED BY <1>4, <1>5, <1>6

-----------------------------------------------------------------------------
(* The lines of the threads.                                                 *)

\* No run has written yet.
LEMMA LinesInit == Init => LinesOK
BY DEF Init, LinesOK

\* The lines before the write, distinct, and the line of a row that is the only
\* kept copy of its message.
LEMMA LinesStream == ASSUME Base, KeepOK, LinesOK, StreamRow PROVE LinesOK'
<1> DEFINE r == table[pos]
<1>1. /\ pos \in DOMAIN table /\ stage = "stream" /\ stage' = "stream" /\ pos' = pos + 1
      /\ r.thread \in Threads /\ Message(r) \in Messages
      /\ table' = table /\ keep' = keep /\ UNCHANGED <<seen, files, torn>>
  BY StreamCases DEF tears
<1>2. \/ (~Kept(keep, r) \/ ~r.parses) /\ UNCHANGED buffer
      \/ Kept(keep, r) /\ r.parses /\ Write(r.thread, Message(r))
  BY StreamCases
<1>3. /\ TypeOK /\ HandlesBounded /\ pos \in Nat /\ pos >= 1
      /\ DOMAIN table = 1..Len(table) /\ Len(table) \in Nat /\ pos <= Len(table)
  BY <1>1 DEF Base, TypeOK
<1>4. Streamed = pos - 1 /\ Streamed' = pos
  BY <1>1, <1>3 DEF Streamed
<1>5. \A t \in Threads :
          Belonging(t)' = IF Belongs(pos, t) THEN Belonging(t) \cup {Message(r)} ELSE Belonging(t)
  <2> SUFFICES ASSUME NEW t \in Threads
               PROVE  Belonging(t)' = IF Belongs(pos, t) THEN Belonging(t) \cup {Message(r)}
                                      ELSE Belonging(t)
    OBVIOUS
  <2>1. Belonging(t)' = {Message(table[i]) : i \in {j \in 1..pos : Belongs(j, t)}}
    BY <1>1, <1>4 DEF Belonging, Belongs
  <2>2. Belonging(t) = {Message(table[i]) : i \in {j \in 1..(pos - 1) : Belongs(j, t)}}
    BY <1>4 DEF Belonging
  <2>3. {j \in 1..pos : Belongs(j, t)} =
            {j \in 1..(pos - 1) : Belongs(j, t)} \cup (IF Belongs(pos, t) THEN {pos} ELSE {})
    <3>1. \A j : j \in 1..pos <=> j \in 1..(pos - 1) \/ j = pos
      BY <1>3
    <3>2. QED BY <3>1
  <2>4. QED BY <2>1, <2>2, <2>3
<1>6. \A t \in Threads :
          /\ t \notin seen => Belonging(t) = {}
          /\ t \in seen =>
                /\ ToSet(Lines(t)) = Belonging(t)
                /\ \A m, n \in DOMAIN Lines(t) : Lines(t)[m][1] = Lines(t)[n][1] => m = n
  BY <1>1 DEF LinesOK
<1>7. CASE (~Kept(keep, r) \/ ~r.parses) /\ UNCHANGED buffer
  <2>1. \A t \in Threads : ~Belongs(pos, t)
    BY <1>7 DEF Belongs
  <2>2. \A t \in Threads : Belonging(t)' = Belonging(t) /\ Lines(t)' = Lines(t)
    BY <2>1, <1>1, <1>5, <1>7 DEF Lines, Content
  <2>3. QED BY <2>2, <1>1, <1>6 DEF LinesOK
<1>8. CASE Kept(keep, r) /\ r.parses /\ Write(r.thread, Message(r))
  <2>0. PICK t \in Threads, msg \in Messages : t = r.thread /\ msg = Message(r)
    BY <1>1
  <2> DEFINE old == Lines(t)
  <2>1. /\ t \in seen /\ Lines(t)' = Append(old, msg)
        /\ \A u \in Threads \ {t} : Lines(u)' = Lines(u)
    BY <2>0, <1>1, <1>3, <1>8, WriteLines
  <2>2. old \in Seq(Messages)
    BY <1>3, CacheTypes
  <2>3. ToSet(old) = Belonging(t)
    BY <2>1, <1>6
  <2>4. \A m, n \in DOMAIN old : old[m][1] = old[n][1] => m = n
    BY <2>1, <1>6
  <2>5. Belongs(pos, t) /\ \A u \in Threads \ {t} : ~Belongs(pos, u)
    BY <2>0, <1>8 DEF Belongs
  <2>6. \A m \in DOMAIN old : old[m][1] # msg[1]
    <3> SUFFICES ASSUME NEW m \in DOMAIN old, old[m][1] = msg[1] PROVE FALSE
      OBVIOUS
    <3>1. old[m] \in Belonging(t)
      BY <2>3 DEF ToSet
    <3>2. PICK i \in 1..(pos - 1) : Belongs(i, t) /\ old[m] = Message(table[i])
      BY <3>1, <1>4 DEF Belonging
    <3>3. i \in DOMAIN table /\ i # pos
      BY <3>2, <1>3
    <3>4. table[i].ts = r.ts
      <4>1. Message(table[i])[1] = table[i].ts /\ Message(r)[1] = r.ts
        BY <1>1, <1>3, <3>3, RowFields
      <4>2. QED BY <4>1, <3>2, <2>0
    <3>5. Key(table[i]) = Key(r) /\ Kept(keep, table[i]) /\ Kept(keep, r)
      BY <3>2, <3>4, <2>0, <1>8 DEF Belongs, Key
    <3>6. i = pos
      BY <3>3, <3>5, <1>1, KeptRows
    <3>7. QED BY <3>3, <3>6
  <2> HIDE DEF old
  <2> DEFINE new == Append(old, msg)
  <2>7. /\ ToSet(new) = ToSet(old) \cup {msg} /\ DOMAIN new = 1..(Len(old) + 1)
        /\ \A i \in DOMAIN old : i \in 1..Len(old) /\ new[i] = old[i]
        /\ new[Len(old) + 1] = msg /\ Len(old) \in Nat /\ DOMAIN old = 1..Len(old)
    BY <2>2, AppendLine
  <2> HIDE DEF new
  <2>8. \A m, n \in DOMAIN new : new[m][1] = new[n][1] => m = n
    <3>1. \A m \in DOMAIN new : m \in DOMAIN old \/ m = Len(old) + 1
      BY <2>7
    <3>2. QED BY <3>1, <2>4, <2>6, <2>7
  <2>9. Lines(t)' = new /\ Belonging(t)' = ToSet(new)
    <3>1. Belonging(t)' = Belonging(t) \cup {msg}
      BY <2>0, <2>5, <1>5
    <3>2. QED BY <3>1, <2>1, <2>3, <2>7 DEF new
  <2>10. ASSUME NEW u \in Threads
         PROVE  /\ u \notin seen' => Belonging(u)' = {}
                /\ u \in seen' =>
                      /\ ToSet(Lines(u)') = Belonging(u)'
                      /\ \A m, n \in DOMAIN Lines(u)' :
                            Lines(u)'[m][1] = Lines(u)'[n][1] => m = n
    <3>1. CASE u = t
      BY <3>1, <2>1, <2>8, <2>9, <1>1
    <3>2. CASE u # t
      <4>1. Belonging(u)' = Belonging(u) /\ Lines(u)' = Lines(u) /\ (u \in seen' <=> u \in seen)
        BY <3>2, <2>1, <2>5, <1>1, <1>5
      <4>2. QED BY <4>1, <1>6
    <3>3. QED BY <3>1, <3>2
  <2>11. QED BY <2>10 DEF LinesOK
<1>9. QED BY <1>2, <1>7, <1>8

\* A thread that is opened for the first time has no row before.
LEMMA LinesOpen == ASSUME Base, LinesOK, OpenHandle PROVE LinesOK'
<1>1. TypeOK /\ HandlesBounded
  BY DEF Base
<1>2. PICK t \in Threads :
         /\ seen' = seen \cup {t}
         /\ t \in seen => Lines(t)' = Lines(t)
         /\ t \notin seen => Lines(t)' = <<>>
         /\ \A u \in Threads \ {t} : Lines(u)' = Lines(u)
  BY <1>1, OpenLines
<1>3. /\ stage = "stream" /\ stage' = "stream" /\ UNCHANGED <<table, keep, pos>>
  BY DEF OpenHandle
<1>4. \A u \in Threads : Belonging(u)' = Belonging(u)
  BY <1>3 DEF Belonging, Belongs, Streamed
<1>5. ToSet(<<>>) = {} /\ DOMAIN <<>> = {}
  BY DEF ToSet
<1>6. \A u \in Threads :
          /\ u \notin seen => Belonging(u) = {}
          /\ u \in seen =>
                /\ ToSet(Lines(u)) = Belonging(u)
                /\ \A m, n \in DOMAIN Lines(u) : Lines(u)[m][1] = Lines(u)[n][1] => m = n
  BY <1>3 DEF LinesOK
<1>7. ASSUME NEW u \in Threads
      PROVE  /\ u \notin seen' => Belonging(u)' = {}
             /\ u \in seen' =>
                   /\ ToSet(Lines(u)') = Belonging(u)'
                   /\ \A m, n \in DOMAIN Lines(u)' :
                         Lines(u)'[m][1] = Lines(u)'[n][1] => m = n
  <2>1. CASE u = t /\ t \notin seen
    <3>1. Lines(u)' = <<>> /\ Belonging(u)' = {}
      BY <2>1, <1>2, <1>4, <1>6
    <3>2. QED BY <3>1, <1>5
  <2>2. CASE ~(u = t /\ t \notin seen)
    <3>1. Lines(u)' = Lines(u) /\ Belonging(u)' = Belonging(u) /\ (u \in seen' <=> u \in seen)
      BY <2>2, <1>2, <1>4
    <3>2. QED BY <3>1, <1>6
  <2>3. QED BY <2>1, <2>2
<1>8. QED BY <1>3, <1>7 DEF LinesOK

\* Closing the handles moves the lines to disk.
LEMMA LinesEndOfStream ==
    ASSUME Base, EndOfStream, NEW t \in Threads
    PROVE  Lines(t)' = Lines(t)
<1>1. /\ open \in Seq(seen) /\ seen \subseteq DOMAIN files
      /\ files \in [DOMAIN files -> Seq(Messages)] /\ buffer \in [Threads -> Seq(Messages)]
      /\ (buffer[t] # <<>> => t \in ToSet(open))
      /\ (t \in ToSet(open) => t \in DOMAIN files)
  BY DEF Base, TypeOK, HandlesBounded, ToSet
<1>2. /\ DOMAIN files' = DOMAIN files /\ buffer'[t] = <<>>
      /\ t \in DOMAIN files => files'[t] = IF t \in ToSet(open) THEN files[t] \o buffer[t]
                                           ELSE files[t]
  BY DEF EndOfStream
<1>3. CASE t \in ToSet(open)
  <2>1. Lines(t)' = Lines(t) \o <<>>
    BY <1>1, <1>2, <1>3 DEF Lines, Content
  <2>2. Lines(t) \in Seq(Messages)
    BY <1>1, <1>3, ConcatProperties DEF Lines, Content
  <2>3. QED BY <2>1, <2>2, ConcatLines
<1>4. CASE t \notin ToSet(open)
  BY <1>1, <1>2, <1>4 DEF Lines, Content
<1>5. QED BY <1>3, <1>4

\* Once the handles are closed a thread's lines are its file.
LEMMA ClosedLines ==
    ASSUME Base, stage # "stream", NEW t \in seen
    PROVE  /\ t \in Threads /\ t \in DOMAIN files /\ Lines(t) = files[t]
           /\ buffer[t] = <<>> /\ files[t] \in Seq(Messages)
<1>1. /\ t \in Threads /\ t \in DOMAIN files /\ files[t] \in Seq(Messages)
  BY DEF Base, TypeOK
<1>2. buffer[t] = <<>>
  BY <1>1 DEF Base, HandlesBounded, HandlesClosed, ToSet
<1>3. files[t] \o <<>> = files[t]
  BY <1>1, ConcatLines
<1>4. QED BY <1>1, <1>2, <1>3 DEF Lines, Content

\* A sort changes the order of the lines, not the lines.
LEMMA LinesTidy == ASSUME Base, LinesOK, NEW t \in Threads, Tidy(t) PROVE LinesOK'
<1>1. /\ stage = "tidy" /\ stage' = "tidy" /\ t \in todo /\ t \in seen /\ seen' = seen
      /\ table' = table /\ keep' = keep /\ buffer' = buffer /\ pos' = pos
      /\ files' = [files EXCEPT ![t] = Sorted(files[t])]
  BY DEF Tidy, run, Base, HandlesClosed
<1>2. /\ t \in DOMAIN files /\ Lines(t) = files[t] /\ buffer[t] = <<>>
      /\ files \in [DOMAIN files -> Seq(Messages)]
  BY <1>1, ClosedLines DEF Base, TypeOK
<1>3. \A u \in Threads : Belonging(u)' = Belonging(u)
  BY <1>1 DEF Belonging, Belongs, Streamed
<1>4. \A u \in Threads \ {t} : Lines(u)' = Lines(u)
  BY <1>1, <1>2 DEF Lines, Content
<1>5. Lines(t)' = Sorted(files[t])
  <2>1. Lines(t)' = Sorted(files[t]) \o <<>>
    BY <1>1, <1>2 DEF Lines, Content
  <2>2. Sorted(files[t]) \in Seq(Messages)
    BY <1>2, SortedFile
  <2>3. QED BY <2>1, <2>2, ConcatLines
<1>6. /\ ToSet(files[t]) = Belonging(t)
      /\ \A m, n \in DOMAIN files[t] : files[t][m][1] = files[t][n][1] => m = n
  BY <1>1, <1>2 DEF LinesOK
<1>7. /\ ToSet(Lines(t)') = Belonging(t)'
      /\ \A m, n \in DOMAIN Lines(t)' : Lines(t)'[m][1] = Lines(t)'[n][1] => m = n
  BY <1>2, <1>3, <1>5, <1>6, SortedFile
<1>8. ASSUME NEW u \in Threads
      PROVE  /\ u \notin seen' => Belonging(u)' = {}
             /\ u \in seen' =>
                   /\ ToSet(Lines(u)') = Belonging(u)'
                   /\ \A m, n \in DOMAIN Lines(u)' :
                         Lines(u)'[m][1] = Lines(u)'[n][1] => m = n
  <2>1. CASE u = t
    BY <2>1, <1>1, <1>7
  <2>2. CASE u # t
    BY <2>2, <1>1, <1>3, <1>4 DEF LinesOK
  <2>3. QED BY <2>1, <2>2
<1>9. QED BY <1>8 DEF LinesOK

\* Every step.
LEMMA LinesStep == ASSUME Base, KeepOK, LinesOK, [Next]_vars PROVE LinesOK'
<1>1. Len(table) \in Nat /\ pos \in 1..(Len(table) + 1)
  BY DEF Base, TypeOK
<1>2. CASE stage' \in {"idle", "light"}
  BY <1>2 DEF LinesOK
<1>3. ASSUME \A t \in Threads : Lines(t)' = Lines(t), UNCHANGED <<table, keep, seen>>,
             Streamed' = Streamed, stage \notin {"idle", "light"}
      PROVE  LinesOK'
  <2>1. \A t \in Threads : Belonging(t)' = Belonging(t)
    BY <1>3 DEF Belonging, Belongs
  <2>2. QED BY <2>1, <1>3 DEF LinesOK
<1>4. ASSUME UNCHANGED <<table, keep, seen, files, buffer>>, stage \notin {"idle", "light", "stream"},
             stage' \notin {"idle", "light", "stream"}
      PROVE  LinesOK'
  <2>1. Streamed' = Streamed /\ \A t \in Threads : Lines(t)' = Lines(t)
    BY <1>4 DEF Streamed, Lines, Content
  <2>2. QED BY <1>3, <1>4, <2>1
<1>5. CASE EndOfLight
  <2>1. seen' = {} /\ Streamed' = 0
    BY <1>5 DEF Base, HandlesClosed, EndOfLight, Streamed
  <2>2. \A t \in Threads : Belonging(t)' = {}
    BY <2>1 DEF Belonging
  <2>3. QED BY <2>1, <2>2 DEF LinesOK
<1>6. CASE StreamRow
  BY <1>6, LinesStream
<1>7. CASE EndOfStream
  <2>1. Streamed' = Streamed /\ UNCHANGED <<table, keep, seen>> /\ stage = "stream"
    BY <1>1, <1>7 DEF EndOfStream, Streamed
  <2>2. \A t \in Threads : Lines(t)' = Lines(t)
    BY <1>7, LinesEndOfStream
  <2>3. QED BY <1>3, <2>1, <2>2
<1>8. ASSUME NEW t \in Threads, Tidy(t) PROVE LinesOK'
  BY <1>8, LinesTidy
<1>9. CASE EndOfTidy
  BY <1>4, <1>9 DEF EndOfTidy, run
<1>10. CASE WriteUsers \/ WriteChannels
  BY <1>4, <1>10 DEF WriteUsers, WriteChannels, run
<1>11. ASSUME NEW c \in Channels, WriteIndex(c) PROVE LinesOK'
  BY <1>4, <1>11 DEF WriteIndex, run
<1>12. CASE Done
  BY <1>4, <1>12 DEF Done, run
<1>13. CASE UNCHANGED vars
  <2>1. CASE stage \in {"idle", "light"}
    BY <1>2, <1>13, <2>1 DEF vars
  <2>2. CASE stage \notin {"idle", "light"}
    <3>1. Streamed' = Streamed /\ \A t \in Threads : Lines(t)' = Lines(t)
      BY <1>13 DEF vars, Streamed, Lines, Content
    <3>2. QED BY <1>3, <1>13, <2>2, <3>1 DEF vars
  <2>3. QED BY <2>1, <2>2
<1>14. CASE Grow \/ Begin \/ LightRow \/ Crash
  BY <1>2, <1>14 DEF Grow, Begin, LightRow, Crash
<1>15. CASE OpenHandle
  BY <1>15, LinesOpen
<1>16. CASE CloseOldest
  <2>1. stage = "stream" /\ \A t \in Threads : Lines(t)' = Lines(t)
    BY <1>16, CloseLines DEF Base
  <2>2. UNCHANGED <<table, keep, seen, stage, pos>>
    BY <1>16 DEF CloseOldest
  <2>3. Streamed' = Streamed
    BY <2>2 DEF Streamed
  <2>4. QED BY <2>1, <2>2, <2>3, <1>3
<1>17. QED BY <1>5, <1>6, <1>7, <1>8, <1>9, <1>10, <1>11, <1>12, <1>13, <1>14, <1>15, <1>16
       DEF Next

-----------------------------------------------------------------------------
(* The tidy pass.                                                            *)

\* No run has tidied yet.
LEMMA TidiedInit == Init => TidiedOK
BY DEF Init, TidiedOK

\* The file that is sorted is in order, the others are as they were.
LEMMA TidiedTidy == ASSUME Base, TidiedOK, NEW t \in Threads, Tidy(t) PROVE TidiedOK'
<1>1. /\ stage = "tidy" /\ stage' = "tidy" /\ t \in todo /\ t \in seen /\ seen' = seen
      /\ files' = [files EXCEPT ![t] = Sorted(files[t])] /\ todo' = todo \ {t}
  BY DEF Tidy, run, Base, HandlesClosed
<1>2. t \in DOMAIN files /\ InOrder(Sorted(files[t]))
  <2>1. t \in DOMAIN files
    BY <1>1 DEF Base, TypeOK
  <2>2. QED BY <2>1, SortedFile
<1>3. ASSUME NEW u \in seen, u \notin todo' PROVE InOrder(files'[u])
  <2>1. CASE u = t
    BY <2>1, <1>1, <1>2
  <2>2. CASE u # t
    <3>1. u \notin todo /\ u \in DOMAIN files
      BY <2>2, <1>1, <1>3 DEF Base, TypeOK
    <3>2. files'[u] = files[u]
      BY <2>2, <3>1, <1>1
    <3>3. QED BY <3>1, <3>2, <1>1 DEF TidiedOK
  <2>3. QED BY <2>1, <2>2
<1>4. QED BY <1>1, <1>3 DEF TidiedOK, InOrder

\* Every step.
LEMMA TidiedStep == ASSUME Base, TidiedOK, [Next]_vars PROVE TidiedOK'
<1>1. CASE stage' \in {"idle", "light", "stream"}
  BY <1>1 DEF TidiedOK
<1>2. ASSUME UNCHANGED <<seen, files>>, stage \notin {"idle", "light", "stream"},
             stage = "tidy" => (stage' = "tidy" /\ todo' = todo) \/ todo = {},
             stage # "tidy" => stage' # "tidy"
      PROVE  TidiedOK'
  BY <1>2 DEF TidiedOK, InOrder
<1>3. CASE EndOfStream
  BY <1>3 DEF EndOfStream, TidiedOK
<1>4. ASSUME NEW t \in Threads, Tidy(t) PROVE TidiedOK'
  BY <1>4, TidiedTidy
<1>5. CASE EndOfTidy
  BY <1>2, <1>5 DEF EndOfTidy, run
<1>6. CASE WriteUsers \/ WriteChannels
  BY <1>2, <1>6 DEF WriteUsers, WriteChannels, run
<1>7. ASSUME NEW c \in Channels, WriteIndex(c) PROVE TidiedOK'
  BY <1>2, <1>7 DEF WriteIndex, run
<1>8. CASE Done
  BY <1>2, <1>8 DEF Done, run
<1>9. CASE UNCHANGED vars
  BY <1>1, <1>2, <1>9 DEF vars
<1>10. CASE Grow \/ Begin \/ LightRow \/ EndOfLight \/ OpenHandle \/ StreamRow \/ Crash
  BY <1>1, <1>10 DEF Grow, Begin, LightRow, EndOfLight, OpenHandle, StreamRow, Crash
<1>11. CASE CloseOldest
  <2>1. stage = "stream"
    BY <1>11, CloseLines DEF Base
  <2>2. QED BY <2>1, <1>1, <1>11 DEF CloseOldest
<1>12. QED BY <1>3, <1>4, <1>5, <1>6, <1>7, <1>8, <1>9, <1>10, <1>11 DEF Next

-----------------------------------------------------------------------------
(* The index.                                                                *)

\* One row: the count and the first message follow the line that is written.
LEMMA TellsStream ==
    ASSUME Base, KeepOK, LinesOK, MetasTell, StreamRow, NEW t \in Threads
    PROVE  Tells(t)'
<1> DEFINE r == table[pos]
           m == Flagged(MetaOf(metas, r.thread), r)
<1>1. /\ pos \in DOMAIN table /\ stage = "stream" /\ stage' = "stream"
      /\ r.thread \in Threads /\ Message(r) \in Messages
      /\ UNCHANGED <<seen, files, torn>>
      /\ \/ ~Written(r) /\ UNCHANGED <<metas, buffer>>
         \/ ~Written(r) /\ metas' = Put(metas, r.thread, m) /\ UNCHANGED buffer
         \/ /\ metas' = Put(metas, r.thread, Counted(m, r))
            /\ Write(r.thread, Message(r))
  BY StreamCases DEF tears, Written
<1>2. TypeOK /\ HandlesBounded /\ Tells(t)
  BY <1>1 DEF Base, MetasTell
<1>3. /\ m \in Metas /\ m.first = MetaOf(metas, r.thread).first
      /\ m.count = MetaOf(metas, r.thread).count
  <2>1. m \in Metas /\ m.first = MetaOf(metas, r.thread).first
    BY <1>1, <1>2, StreamedMeta
  <2>2. MetaOf(metas, r.thread) \in Metas
    BY <1>2 DEF TypeOK, MetaOf, NewMeta, Metas
  <2> HIDE DEF r
  <2>3. m.count = MetaOf(metas, r.thread).count
    BY <2>2 DEF Flagged, Metas
  <2>4. QED BY <2>1, <2>3
<1>4. /\ Message(r)[1] = r.ts /\ (IsAnchor(r) <=> r.ts = r.thread)
      /\ \A l \in Messages : l # NoFirst
  BY <1>1, <1>2, RowFields DEF IsAnchor
<1> HIDE DEF m, r
<1>5. ASSUME NEW d, metas' = Put(metas, r.thread, d)
      PROVE  MetaOf(metas, t)' = IF t = r.thread THEN d ELSE MetaOf(metas, t)
  BY <1>5 DEF Put, MetaOf
<1>6. CASE ~Written(r) /\ UNCHANGED <<metas, buffer>>
  <2>1. ~Opening(t)
    BY <1>6 DEF Opening, r
  <2>2. Lines(t)' = Lines(t) /\ seen' = seen /\ MetaOf(metas, t)' = MetaOf(metas, t)
    BY <1>1, <1>6 DEF Lines, Content, MetaOf
  <2>3. QED BY <2>1, <2>2, <1>2 DEF Tells
<1>7. CASE ~Written(r) /\ metas' = Put(metas, r.thread, m) /\ UNCHANGED buffer
  <2>1. MetaOf(metas, t)' = IF t = r.thread THEN m ELSE MetaOf(metas, t)
    BY <1>5, <1>7
  <2>2. /\ MetaOf(metas, t)'.first = MetaOf(metas, t).first
        /\ MetaOf(metas, t)'.count = MetaOf(metas, t).count
    BY <2>1, <1>3
  <2>3. Lines(t)' = Lines(t) /\ seen' = seen
    BY <1>1, <1>7 DEF Lines, Content
  <2>4. ~Opening(t)
    BY <1>7 DEF Opening, r
  <2>5. QED BY <2>2, <2>3, <2>4, <1>2 DEF Tells
<1>8. CASE metas' = Put(metas, r.thread, Counted(m, r)) /\ Write(r.thread, Message(r))
  <2>0. PICK u \in Threads, msg \in Messages : u = r.thread /\ msg = Message(r)
    BY <1>1
  <2>1. MetaOf(metas, t)' = IF t = u THEN Counted(m, r) ELSE MetaOf(metas, t)
    BY <2>0, <1>5, <1>8
  <2> DEFINE old == Lines(u)
  <2>2. /\ u \in seen /\ seen' = seen /\ Lines(u)' = Append(old, msg)
        /\ \A v \in Threads \ {u} : Lines(v)' = Lines(v)
    BY <2>0, <1>1, <1>2, <1>8, WriteLines
  <2>3. CASE t # u
    <3>1. ~Opening(t)
      BY <2>0, <2>3 DEF Opening, r
    <3>2. QED BY <3>1, <2>1, <2>2, <2>3, <1>2 DEF Tells
  <2>4. CASE t = u
    <3>1. old \in Seq(Messages)
      BY <1>2, CacheTypes
    <3>2. /\ m.count = Len(old)
          /\ m.first = NoFirst => old = <<>>
          /\ m.first # NoFirst =>
                /\ m.first \in ToSet(old)
                /\ \A l \in ToSet(old) : l[1] = t => l = m.first
      BY <2>0, <2>2, <2>4, <1>2, <1>3 DEF Tells
    <3> HIDE DEF old
    <3> DEFINE new == Append(old, msg)
    <3>3. /\ ToSet(new) = ToSet(old) \cup {msg} /\ Len(new) = Len(old) + 1
          /\ (old = <<>> => ToSet(new) = {msg})
      <4>1. ToSet(new) = ToSet(old) \cup {msg} /\ Len(new) = Len(old) + 1
        BY <3>1, AppendLine
      <4>2. old = <<>> => ToSet(old) = {}
        BY DEF ToSet
      <4>3. QED BY <4>1, <4>2
    <3> HIDE DEF new
    <3>4. \A k, l \in ToSet(new) : k[1] = l[1] => k = l
      <4>1. LinesOK'
        BY LinesStream
      <4>2. Lines(t)' = new /\ t \in seen'
        BY <2>2, <2>4 DEF new
      <4>3. \A i, j \in DOMAIN new : new[i][1] = new[j][1] => i = j
        BY <4>1, <4>2, <1>1 DEF LinesOK
      <4>4. QED BY <4>3 DEF ToSet
    <3> DEFINE first == IF IsAnchor(r) \/ m.first = NoFirst THEN msg ELSE m.first
    <3>5. Counted(m, r).count = Len(new) /\ Counted(m, r).first = first
      <4>1. Counted(m, r) = [m EXCEPT !.count = m.count + 1, !.first = first]
        BY <2>0 DEF Counted
      <4> HIDE DEF first
      <4>2. Counted(m, r).count = m.count + 1 /\ Counted(m, r).first = first
        BY <4>1, <1>3 DEF Metas
      <4>3. QED BY <4>2, <3>2, <3>3
    <3>6. first \in ToSet(new) /\ \A l \in ToSet(new) : l[1] = t => l = first
      <4>1. CASE IsAnchor(r)
        <5>1. first = msg /\ msg[1] = t /\ msg \in ToSet(new)
          BY <4>1, <3>3, <2>0, <2>4, <1>4
        <5>2. QED BY <5>1, <3>4
      <4>2. CASE ~IsAnchor(r) /\ m.first = NoFirst
        BY <4>2, <3>2, <3>3, <2>0, <2>4, <1>4
      <4>3. CASE ~IsAnchor(r) /\ m.first # NoFirst
        <5>1. msg[1] # t /\ first = m.first
          BY <4>3, <2>0, <2>4, <1>4
        <5>2. QED BY <5>1, <4>3, <3>2, <3>3
      <4>4. QED BY <4>1, <4>2, <4>3
    <3>7. Lines(t)' = new /\ t \in seen' /\ MetaOf(metas, t)' = Counted(m, r)
      BY <2>1, <2>2, <2>4 DEF new
    <3>8. first # NoFirst
      <4>1. first \in Messages
        <5>1. ToSet(old) \subseteq Messages
          BY <3>1 DEF ToSet
        <5>2. QED BY <5>1, <3>3, <3>6
      <4>2. QED BY <4>1, <1>4
    <3> HIDE DEF first
    <3>9. QED BY <3>5, <3>6, <3>7, <3>8 DEF Tells
  <2>5. QED BY <2>3, <2>4
<1>9. QED BY <1>1, <1>6, <1>7, <1>8 DEF m, r

\* Sorting a file moves its lines, and there are no more and no fewer.
LEMMA TellsTidy ==
    ASSUME Base, MetasTell, NEW u \in Threads, Tidy(u), NEW t \in Threads
    PROVE  Tells(t)'
<1>1. /\ stage = "tidy" /\ u \in seen /\ seen' = seen /\ metas' = metas /\ buffer' = buffer
      /\ files' = [files EXCEPT ![u] = Sorted(files[u])]
  BY DEF Tidy, run, Base, HandlesClosed
<1>2. /\ u \in DOMAIN files /\ Lines(u) = files[u] /\ buffer[u] = <<>>
      /\ files \in [DOMAIN files -> Seq(Messages)]
  BY <1>1, ClosedLines DEF Base, TypeOK
<1>3. Tells(t) /\ MetaOf(metas, t)' = MetaOf(metas, t)
  BY <1>1 DEF MetasTell, MetaOf
<1>4. CASE t = u
  <2>1. /\ Sorted(files[u]) \in Seq(Messages) /\ Len(Sorted(files[u])) = Len(files[u])
        /\ ToSet(Sorted(files[u])) = ToSet(files[u])
    BY <1>2, SortedFile
  <2>2. Lines(u)' = Sorted(files[u]) \o <<>>
    BY <1>1, <1>2 DEF Lines, Content
  <2>3. Lines(u)' = Sorted(files[u])
    BY <2>1, <2>2, ConcatLines
  <2>4. Len(Lines(t)') = Len(Lines(t)) /\ ToSet(Lines(t)') = ToSet(Lines(t))
    BY <2>1, <2>3, <1>2, <1>4
  <2>5. ~Opening(t)
    BY <1>1 DEF Opening
  <2>6. QED BY <2>4, <2>5, <1>1, <1>3 DEF Tells
<1>5. CASE t # u
  <2>1. Lines(t)' = Lines(t)
    BY <1>1, <1>2, <1>5 DEF Lines, Content
  <2>2. ~Opening(t)
    BY <1>1 DEF Opening
  <2>3. QED BY <2>1, <2>2, <1>1, <1>3 DEF Tells
<1>6. QED BY <1>4, <1>5

\* The open adds no line.
LEMMA TellsOpen ==
    ASSUME Base, MetasTell, OpenHandle, NEW t \in Threads
    PROVE  Tells(t)'
<1>1. TypeOK /\ HandlesBounded
  BY DEF Base
<1>2. PICK u \in Threads :
         /\ Opening(u) /\ seen' = seen \cup {u}
         /\ u \in seen => Lines(u)' = Lines(u)
         /\ u \notin seen => Lines(u)' = <<>>
         /\ \A v \in Threads \ {u} : Lines(v)' = Lines(v)
  BY <1>1, OpenLines
<1>3. stage = "stream" /\ UNCHANGED <<stage, table, keep, pos, metas>>
  BY DEF OpenHandle
<1>4. Tells(t) /\ MetaOf(metas, t)' = MetaOf(metas, t)
  BY <1>3 DEF MetasTell, MetaOf
<1>5. \A v \in Threads : Opening(v) => Opening(v)'
  BY <1>3 DEF Opening, Written
<1>6. CASE t = u /\ t \notin seen
  <2>1. Lines(t)' = <<>> /\ Opening(t)' /\ Len(<<>>) = 0
    BY <1>2, <1>5, <1>6
  <2>2. MetaOf(metas, t)'.first = NoFirst /\ MetaOf(metas, t)'.count = 0
    BY <1>4, <1>6 DEF Tells
  <2>3. QED BY <2>1, <2>2 DEF Tells
<1>7. CASE ~(t = u /\ t \notin seen)
  <2>1. Lines(t)' = Lines(t) /\ (t \in seen' <=> t \in seen) /\ (Opening(t) => Opening(t)')
    BY <1>2, <1>5, <1>7
  <2>2. QED BY <2>1, <1>4 DEF Tells
<1>8. QED BY <1>6, <1>7

\* Every step.
LEMMA MetasStep ==
    ASSUME Base, KeepOK, LinesOK, MetasTell, [Next]_vars
    PROVE  MetasTell'
<1>1. CASE stage' = "idle"
  BY <1>1 DEF MetasTell
<1>2. ASSUME \A t \in Threads : Lines(t)' = Lines(t), UNCHANGED <<metas, seen>>,
             stage \notin {"idle", "light"}, stage' # "light",
             \A t \in Threads : Opening(t) => Opening(t)'
      PROVE  MetasTell'
  <2>1. \A t \in Threads : MetaOf(metas, t)' = MetaOf(metas, t) /\ Tells(t)
    BY <1>2 DEF MetasTell, MetaOf
  <2>2. \A t \in Threads : Tells(t)'
    BY <2>1, <1>2 DEF Tells
  <2>3. QED BY <2>2, <1>2 DEF MetasTell
<1>3. ASSUME UNCHANGED <<metas, seen, files, buffer>>, stage \notin {"idle", "light", "stream"},
             stage' # "light"
      PROVE  MetasTell'
  <2>1. \A t \in Threads : Lines(t)' = Lines(t)
    BY <1>3 DEF Lines, Content
  <2>2. \A t \in Threads : ~Opening(t)
    BY <1>3 DEF Opening
  <2>3. QED BY <1>2, <1>3, <2>1, <2>2
<1>4. CASE Begin
  BY <1>4 DEF Begin, MetasTell
<1>5. CASE LightRow
  BY <1>5 DEF LightRow, MetasTell
<1>6. CASE EndOfLight
  <2>1. metas' = <<>> /\ seen' = {} /\ stage' = "stream"
    BY <1>6 DEF EndOfLight, MetasTell, Base, HandlesClosed
  <2>2. \A t \in Threads : MetaOf(metas, t)' = NewMeta
    BY <2>1 DEF MetaOf
  <2>3. QED BY <2>1, <2>2 DEF MetasTell, Tells, NewMeta
<1>7. CASE StreamRow
  BY <1>7, TellsStream, StreamCases DEF MetasTell
<1>8. CASE EndOfStream
  <2>1. \A t \in Threads : Lines(t)' = Lines(t)
    BY <1>8, LinesEndOfStream
  <2>2. \A t \in Threads : ~Opening(t)
    <3>1. pos \in Nat /\ Len(table) \in Nat
      BY DEF Base, TypeOK
    <3>2. QED BY <3>1, <1>8 DEF EndOfStream, Opening
  <2>3. QED BY <2>1, <2>2, <1>2, <1>8 DEF EndOfStream
<1>9. ASSUME NEW u \in Threads, Tidy(u) PROVE MetasTell'
  <2>1. \A t \in Threads : Tells(t)'
    BY <1>9, TellsTidy
  <2>2. QED BY <2>1, <1>9 DEF MetasTell, Tidy
<1>10. CASE EndOfTidy
  BY <1>3, <1>10 DEF EndOfTidy, run
<1>11. CASE WriteUsers \/ WriteChannels
  BY <1>3, <1>11 DEF WriteUsers, WriteChannels, run
<1>12. ASSUME NEW c \in Channels, WriteIndex(c) PROVE MetasTell'
  BY <1>3, <1>12 DEF WriteIndex, run
<1>13. CASE Done
  BY <1>3, <1>13 DEF Done, run
<1>14. CASE UNCHANGED vars
  <2>1. CASE stage \in {"idle", "light"}
    BY <2>1, <1>14 DEF vars, MetasTell
  <2>2. CASE stage \notin {"idle", "light"}
    <3>1. /\ \A t \in Threads : Lines(t)' = Lines(t)
          /\ \A t \in Threads : Opening(t) => Opening(t)'
      BY <1>14 DEF vars, Lines, Content, Opening, Written
    <3>2. QED BY <3>1, <2>2, <1>2, <1>14 DEF vars
  <2>3. QED BY <2>1, <2>2
<1>15. CASE Grow \/ Crash
  BY <1>1, <1>15 DEF Grow, Crash
<1>16. CASE OpenHandle
  <2>1. stage = "stream" /\ stage' = "stream"
    BY <1>16 DEF OpenHandle
  <2>2. QED BY <2>1, <1>16, TellsOpen DEF MetasTell
<1>17. CASE CloseOldest
  <2>1. stage = "stream" /\ \A t \in Threads : Lines(t)' = Lines(t)
    BY <1>17, CloseLines DEF Base
  <2>2. UNCHANGED <<table, keep, metas, seen, stage, pos>>
    BY <1>17 DEF CloseOldest
  <2>3. \A t \in Threads : Opening(t) => Opening(t)'
    BY <2>2 DEF Opening, Written
  <2>4. QED BY <2>1, <2>2, <2>3, <1>2
<1>18. QED BY <1>4, <1>5, <1>6, <1>7, <1>8, <1>9, <1>10, <1>11, <1>12, <1>13, <1>14, <1>15,
              <1>16, <1>17 DEF Next

\* After the streaming pass each thread that was written has a line in the index.
LEMMA SeenAreListed ==
    ASSUME Base, MetasTell, stage \notin {"idle", "light", "stream"}, NEW t \in seen
    PROVE  /\ t \in DOMAIN metas /\ MetaOf(metas, t) = metas[t] /\ metas[t].first # NoFirst
           /\ Channel[t] \in Channels /\ Entry(t, metas[t], people) \in IndexLines(Channel[t])
<1>1. t \in Threads
  BY DEF Base, TypeOK
<1>2. MetaOf(metas, t).first # NoFirst
  BY <1>1 DEF MetasTell, Tells, Opening
<1>3. t \in DOMAIN metas /\ MetaOf(metas, t) = metas[t]
  BY <1>2 DEF MetaOf, NewMeta
<1>4. QED BY <1>1, <1>2, <1>3 DEF Channels, IndexLines

\* Every step: a file is emptied when it is first opened, an index when it is
\* written.
LEMMA TornStep == ASSUME Base, MetasTell, TornOK, [Next]_vars PROVE TornOK'
<1>1. CASE stage' = "idle"
  BY <1>1 DEF TornOK
<1>2. ASSUME UNCHANGED <<torn, seen>>, stage # "idle", stage' \notin {"index", "done"}
      PROVE  TornOK'
  BY <1>2 DEF TornOK
<1>3. CASE Begin
  BY <1>3 DEF Begin, TornOK
<1>4. CASE OpenHandle
  <2>1. PICK t \in Threads :
           seen' = seen \cup {t} /\ torn' \subseteq torn /\ (t \in torn' => t \in seen)
    BY <1>4, OpenLines DEF Base
  <2>2. stage = "stream" /\ stage' = "stream"
    BY <1>4 DEF OpenHandle
  <2>3. QED BY <2>1, <2>2 DEF TornOK
<1>5. CASE CloseOldest
  <2>1. stage = "stream"
    BY <1>5, CloseLines DEF Base
  <2>2. QED BY <2>1, <1>2, <1>5 DEF CloseOldest, tears
<1>6. CASE LightRow \/ EndOfLight \/ StreamRow \/ EndOfStream
  BY <1>2, <1>6 DEF LightRow, EndOfLight, StreamRow, EndOfStream, tears
<1>7. ASSUME NEW t \in Threads, Tidy(t) PROVE TornOK'
  BY <1>2, <1>7 DEF Tidy, tears, run
<1>8. CASE EndOfTidy \/ WriteUsers
  BY <1>2, <1>8 DEF EndOfTidy, WriteUsers, tears, run
<1>9. CASE WriteChannels
  <2>1. /\ stage = "channels" /\ stage' = "index" /\ UNCHANGED <<torn, seen>>
        /\ todo' = {c \in Channels : IndexLines(c) # {}}
    BY <1>9 DEF WriteChannels, tears, run
  <2>2. \A t \in seen : Channel[t] \in todo'
    BY <2>1, SeenAreListed
  <2>3. QED BY <2>1, <2>2 DEF TornOK
<1>10. ASSUME NEW c \in Channels, WriteIndex(c) PROVE TornOK'
  BY <1>10 DEF WriteIndex, run, TornOK
<1>11. CASE Done
  BY <1>11 DEF Done, run, tears, TornOK
<1>12. CASE UNCHANGED vars
  BY <1>12 DEF vars, TornOK
<1>13. CASE Grow \/ Crash
  BY <1>1, <1>13 DEF Grow, Crash
<1>14. QED BY <1>3, <1>4, <1>5, <1>6, <1>7, <1>8, <1>9, <1>10, <1>11, <1>12, <1>13 DEF Next

\* Every step: the metadata and the names do not change any more.
LEMMA IndexStep == ASSUME Base, IndexOK, [Next]_vars PROVE IndexOK'
<1>1. CASE stage' \notin {"channels", "index", "done"}
  BY <1>1 DEF IndexOK
<1>2. ASSUME UNCHANGED <<metas, people>> PROVE \A c \in Channels : IndexLines(c)' = IndexLines(c)
  BY <1>2 DEF IndexLines
<1>3. CASE WriteUsers
  BY <1>3 DEF WriteUsers, run, IndexOK
<1>4. CASE WriteChannels
  <2>1. UNCHANGED <<metas, people, usersJson>> /\ stage = "channels" /\ stage' = "index"
        /\ todo' = {c \in Channels : IndexLines(c) # {}}
    BY <1>4 DEF WriteChannels, run
  <2>2. QED BY <2>1, <1>2 DEF IndexOK
<1>5. ASSUME NEW c \in Channels, WriteIndex(c) PROVE IndexOK'
  <2>1. /\ UNCHANGED <<metas, people, usersJson>> /\ stage = "index" /\ stage' = "index"
        /\ index' = [index EXCEPT ![c] = IndexLines(c)] /\ todo' = todo \ {c}
    BY <1>5 DEF WriteIndex, run, directories
  <2>2. DOMAIN index = Channels
    BY DEF Base, TypeOK
  <2>3. ASSUME NEW d \in Channels, d \notin todo', IndexLines(d) # {}
        PROVE  index'[d] = IndexLines(d)
    <3>1. CASE d = c
      BY <3>1, <2>1, <2>2
    <3>2. CASE d # c
      BY <3>2, <2>1, <2>2, <2>3 DEF IndexOK
    <3>3. QED BY <3>1, <3>2
  <2>4. QED BY <2>1, <2>3, <1>2 DEF IndexOK
<1>6. CASE Done
  <2>1. /\ UNCHANGED <<metas, people, usersJson, index, todo>> /\ stage = "index"
        /\ stage' = "done" /\ todo = {}
    BY <1>6 DEF Done, run, directories
  <2>2. QED BY <2>1, <1>2 DEF IndexOK
<1>7. CASE UNCHANGED vars
  <2>1. UNCHANGED <<metas, people, usersJson, index, todo, stage>>
    BY <1>7 DEF vars
  <2>2. QED BY <2>1, <1>2 DEF IndexOK
<1>8. ASSUME NEW t \in Threads, Tidy(t) PROVE IndexOK'
  BY <1>1, <1>8 DEF Tidy
<1>9. CASE \/ Grow \/ Begin \/ LightRow \/ EndOfLight \/ OpenHandle \/ StreamRow \/ EndOfStream
           \/ EndOfTidy \/ Crash
  BY <1>1, <1>9 DEF Grow, Begin, LightRow, EndOfLight, OpenHandle, StreamRow, EndOfStream,
                    EndOfTidy, Crash
<1>10. CASE CloseOldest
  <2>1. stage = "stream"
    BY <1>10, CloseLines DEF Base
  <2>2. QED BY <2>1, <1>1, <1>10 DEF CloseOldest
<1>11. QED BY <1>3, <1>4, <1>5, <1>6, <1>7, <1>8, <1>9, <1>10 DEF Next

\* What the invariant says of the files after a run.
LEMMA FilesOfRun == ASSUME SplitInv PROVE FilesHoldNewest
<1>1. ASSUME stage = "done", NEW t \in seen
      PROVE  /\ t \notin torn
             /\ \A i, j \in 1..Len(files[t]) : i < j => files[t][i][1] < files[t][j][1]
             /\ \A m \in ToSet(files[t]) : \E r \in ToSet(table) :
                   r.thread = t /\ r.parses /\ Message(r) = m /\ IsNewest(r)
             /\ \A r \in ToSet(table) :
                   r.thread = t /\ (\A q \in ToSet(table) : Key(q) = Key(r) => q.parses) =>
                       \E m \in ToSet(files[t]) : m[1] = r.ts
  <2> USE <1>1 DEF SplitInv
  <2>1. TypeOK /\ TableOK
    BY DEF Base
  <2>2. /\ t \in Threads /\ Lines(t) = files[t] /\ files[t] \in Seq(Messages)
        /\ DOMAIN files[t] = 1..Len(files[t])
    BY ClosedLines
  <2>3. /\ ToSet(files[t]) = Belonging(t)
        /\ \A m, n \in DOMAIN files[t] : files[t][m][1] = files[t][n][1] => m = n
        /\ InOrder(files[t])
    BY <2>2 DEF LinesOK, TidiedOK
  <2>4. Belonging(t) = {Message(table[i]) : i \in {j \in DOMAIN table : Belongs(j, t)}}
    BY <2>1, RowFields DEF Belonging, Streamed
  <2>5. ASSUME NEW i \in 1..Len(files[t]), NEW j \in 1..Len(files[t]), i < j
        PROVE  files[t][i][1] < files[t][j][1]
    <3>1. files[t][i] \in Messages /\ files[t][j] \in Messages
      BY <2>2
    <3>2. files[t][i][1] \in Nat /\ files[t][j][1] \in Nat
      BY <3>1, <2>1, RowFields
    <3>3. files[t][i][1] <= files[t][j][1] /\ files[t][i][1] # files[t][j][1]
      BY <2>2, <2>3, <2>5 DEF InOrder
    <3>4. QED BY <3>2, <3>3
  <2>6. ASSUME NEW m \in ToSet(files[t])
        PROVE  \E r \in ToSet(table) : r.thread = t /\ r.parses /\ Message(r) = m /\ IsNewest(r)
    <3>1. PICK i \in DOMAIN table : Belongs(i, t) /\ m = Message(table[i])
      BY <2>3, <2>4, <2>6
    <3>2. table[i] \in ToSet(table)
      BY DEF ToSet
    <3>3. IsNewest(table[i])
      BY <3>1, KeptRows DEF IsNewest, Belongs, ToSet
    <3>4. QED BY <3>1, <3>2, <3>3 DEF Belongs
  <2>7. ASSUME NEW r \in ToSet(table), r.thread = t,
               \A q \in ToSet(table) : Key(q) = Key(r) => q.parses
        PROVE  \E m \in ToSet(files[t]) : m[1] = r.ts
    <3>1. PICK j \in DOMAIN table : r = table[j]
      BY DEF ToSet
    <3>2. PICK i \in DOMAIN table : Kept(keep, table[i]) /\ Key(table[i]) = Key(table[j])
      BY KeptRows
    <3>3. table[i].parses
      BY <2>7, <3>1, <3>2 DEF ToSet
    <3>4. table[i].thread = t /\ table[i].ts = r.ts
      <4>1. PICK d \in Deltas : \E k \in DOMAIN d :
               table[i].thread = d[k].thread /\ table[i].ts = d[k].ts
        BY <2>1 DEF TableOK, RowsOK
      <4>2. PICK e \in Deltas : \E l \in DOMAIN e :
               table[j].thread = e[l].thread /\ table[j].ts = e[l].ts
        BY <2>1 DEF TableOK, RowsOK
      <4>3. PICK k \in DOMAIN d : table[i].thread = d[k].thread /\ table[i].ts = d[k].ts
        BY <4>1
      <4>4. PICK l \in DOMAIN e : table[j].thread = e[l].thread /\ table[j].ts = e[l].ts
        BY <4>2
      <4>5. Key(d[k]) = Key(e[l]) /\ table[i].ts = table[j].ts
        BY <3>2, <4>3, <4>4 DEF Key
      <4>6. d[k].thread = e[l].thread
        BY <4>5, DeltasAssumption
      <4>7. QED BY <4>3, <4>4, <4>5, <4>6, <3>1, <2>7
    <3>5. Message(table[i]) \in ToSet(files[t]) /\ Message(table[i])[1] = r.ts
      BY <2>1, <2>3, <2>4, <3>2, <3>3, <3>4, RowFields DEF Belongs
    <3>6. QED BY <3>5
  <2>8. t \notin torn
    BY DEF TornOK
  <2>9. QED BY <2>5, <2>6, <2>7, <2>8
<1>2. QED BY <1>1 DEF FilesHoldNewest

-----------------------------------------------------------------------------
(* The theorems.                                                             *)

\* The invariant the theorems follow from.
LEMMA SplitInit == Init => SplitInv
<1>1. Init => MetasTell /\ TornOK /\ IndexOK
  BY DEF Init, MetasTell, TornOK, IndexOK
<1>2. QED BY <1>1, BaseInit, KeepInit, LinesInit, TidiedInit DEF SplitInv

LEMMA SplitStep == ASSUME SplitInv, [Next]_vars PROVE SplitInv'
  BY BaseStep, KeepStep, LinesStep, TidiedStep, MetasStep, TornStep, IndexStep DEF SplitInv

LEMMA SplitInvariant == Spec => []SplitInv
<1>1. SplitInv /\ [Next]_vars => SplitInv'
  BY SplitStep
<1>2. QED BY <1>1, SplitInit, PTL DEF Spec

\* The types of Split's variables: every line in a file or a handle is that of a
\* row of the table.
THEOREM SplitTypeCorrect == Spec => []TypeOK
<1>1. SplitInv => TypeOK
  BY DEF SplitInv, Base
<1>2. QED BY <1>1, SplitInvariant, PTL

\* _HandleCache never has more open files than one above its limit, that one only
\* between its own open and the close of the oldest; it has none twice, and no
\* line waits outside an open handle, for any limit.
THEOREM HandlesAreBounded == Spec => []HandlesBounded
<1>1. SplitInv => HandlesBounded
  BY DEF SplitInv, Base
<1>2. QED BY <1>1, SplitInvariant, PTL

\* A thread index.jsonl lists has a file at every moment of a run and after
\* every crash; after a run its line counts the messages of that file and names
\* its first one, and that one's author, for any table and order of rows.
THEOREM IndexIsRight == Spec => []IndexMatchesFiles
<1>1. ASSUME SplitInv, stage = "done", NEW t \in seen
      PROVE  \E e \in index[Channel[t]] :
                /\ Channel[t] \notin tornIndex
                /\ {f \in index[Channel[t]] : f.thread = t} = {e}
                /\ e.count = Len(files[t])
                /\ e.first \in ToSet(files[t])
                /\ \A m \in ToSet(files[t]) : m[1] = t => m = e.first
                /\ e.author = ResolveAuthor(e.first[3], usersJson)
  <2> USE <1>1 DEF SplitInv
  <2> DEFINE c == Channel[t]
             meta == MetaOf(metas, t)
             e == Entry(t, meta, people)
  <2>1. t \in Threads /\ Lines(t) = files[t] /\ files[t] \in Seq(Messages)
    BY ClosedLines
  <2>2. /\ t \in DOMAIN metas /\ meta = metas[t] /\ meta.first # NoFirst
        /\ c \in Channels /\ e \in IndexLines(c)
    BY SeenAreListed
  <2>3. /\ meta.count = Len(files[t]) /\ meta.first \in ToSet(files[t])
        /\ \A m \in ToSet(files[t]) : m[1] = t => m = meta.first
    BY <2>1, <2>2 DEF MetasTell, Tells
  <2>4. c \notin tornIndex
    BY DEF TornOK
  <2>6. index[c] = IndexLines(c) /\ usersJson = people
    BY <2>2 DEF IndexOK
  <2>7. {f \in index[c] : f.thread = t} = {e}
    <3>1. e.thread = t
      BY DEF Entry
    <3>2. ASSUME NEW f \in index[c], f.thread = t PROVE f = e
      <4>1. PICK u \in DOMAIN metas : f = Entry(u, metas[u], people)
        BY <2>6 DEF IndexLines
      <4>2. u = t
        BY <4>1, <3>2 DEF Entry
      <4>3. QED BY <4>1, <4>2, <2>2
    <3> HIDE DEF e
    <3>3. QED BY <3>1, <3>2, <2>2, <2>6
  <2>8. e.count = meta.count /\ e.first = meta.first
        /\ e.author = ResolveAuthor(meta.first[3], people)
    BY DEF Entry
  <2>9. QED BY <2>2, <2>3, <2>4, <2>6, <2>7, <2>8
<1>2. SplitInv => IndexMatchesFiles
  BY <1>1 DEF SplitInv, Base, IndexMatchesFiles, LinesTellFiles
<1>3. QED BY <1>2, SplitInvariant, PTL

\* After a run a thread's file holds the newest copy of each of its messages,
\* once and in order, for any table, cache limit and crashes of earlier runs.
THEOREM FilesAreRight == Spec => []FilesHoldNewest
<1>1. SplitInv => FilesHoldNewest
  BY FilesOfRun
<1>2. QED BY <1>1, SplitInvariant, PTL

-----------------------------------------------------------------------------
(* Both profiles.                                                            *)
(*                                                                           *)
(* After a run of split the pages, the home page and the search documents of *)
(* the two profiles agree, for every archive that meets the hypotheses.      *)
(*                                                                           *)
(* The team ETL is a fold over the MESSAGE table, split a machine that reads *)
(* it row by row.  So: (1) a FoldLeft over one row more is one application   *)
(* more; (2) while split streams, what it knows of the threads of the kinds  *)
(* to include, and of the names no other kind could tell, is the fold over   *)
(* the rows read so far (TeamAlike); (3) when it is done those are all rows, *)
(* and the files, the index and the directories give the pages of the team   *)
(* ETL.  A file a former run left holds nothing this run has not written:    *)
(* its thread has a row that parses, hence a newest copy that does           *)
(* (ParsedKept), which is what AnchorsParse is needed for.                   *)

-----------------------------------------------------------------------------
(* Folds.  FoldLeft is defined with a CHOOSE of a function on the subsets of *)
(* the domain: there is one (FoldExists) and no other (FoldsAgree), each by  *)
(* a least counterexample.                                                   *)

\* A set of natural numbers has a least one.
LEMMA Least ==
    ASSUME NEW T \in SUBSET Nat, T # {}
    PROVE  \E n \in T : \A m \in T : n <= m
<1>1. IsWellFoundedOn({xy \in Nat \X Nat : xy[1] < xy[2]}, Nat)
  BY NatLessThanWellFounded DEF OpToRel
<1>2. PICK n \in T : \A m \in T : ~(<<m, n>> \in {xy \in Nat \X Nat : xy[1] < xy[2]})
  BY <1>1, WFMin
<1>3. \A m \in T : ~(m < n)
  <2> SUFFICES ASSUME NEW m \in T, m < n PROVE FALSE
    OBVIOUS
  <2>1. <<m, n>> \in {xy \in Nat \X Nat : xy[1] < xy[2]}
    OBVIOUS
  <2>2. QED BY <2>1, <1>2
<1>4. QED BY <1>3

\* FoldLeft goes down from the last element of a sequence.
LEMMA LastIndex ==
    ASSUME NEW n \in Nat, NEW s \in SUBSET (1..n)
    PROVE  /\ n \in s => Max(s) = n
           /\ s # {} => Max(s) \in s /\ \A x \in s : x <= Max(s)
<1>1. n \in s => Max(s) = n
  <2> SUFFICES ASSUME n \in s PROVE Max(s) = n
    OBVIOUS
  <2>1. \A x \in s : x \in Nat /\ n >= x
    OBVIOUS
  <2>2. \A x \in s : (\A y \in s : x >= y) => x = n
    BY <2>1
  <2> QED BY <2>1, <2>2 DEF Max
<1>2. ASSUME s # {} PROVE Max(s) \in s /\ \A x \in s : x <= Max(s)
  <2> DEFINE R == {m \in Nat : \A x \in s : x <= m}
  <2>0. \A x \in s : x \in Nat /\ 1 <= x /\ x <= n
    OBVIOUS
  <2>1. n \in R /\ R \in SUBSET Nat
    BY <2>0
  <2> HIDE DEF R
  <2>2. PICK d \in R : \A m \in R : d <= m
    BY <2>1, Least
  <2>3. d \in Nat /\ \A x \in s : x <= d
    BY DEF R
  <2>4. d \in s
    <3> SUFFICES ASSUME d \notin s PROVE FALSE
      OBVIOUS
    <3>1. \A x \in s : x <= d - 1
      BY <2>0, <2>3
    <3>2. d - 1 \in Nat
      <4>1. PICK x \in s : TRUE
        BY <1>2
      <4>2. x \in Nat /\ 1 <= x /\ x <= d - 1
        BY <2>0, <3>1
      <4> QED BY <4>2, <2>3
    <3>3. d - 1 \in R
      BY <3>1, <3>2 DEF R
    <3> QED BY <3>3, <2>2, <2>3
  <2>5. d \in s /\ \A x \in s : d >= x
    BY <2>0, <2>3, <2>4
  <2>6. Max(s) \in s /\ \A x \in s : Max(s) >= x
    BY <2>5 DEF Max
  <2> QED BY <2>6, <2>0
<1> QED BY <1>1, <1>2

\* FoldLeft, with a function F in the place of an operator.
Unrolls(f, F, base, seq) ==
    f = [s \in SUBSET DOMAIN seq |->
            IF s = {} THEN base ELSE F[<<f[s \ {Max(s)}], seq[Max(s)]>>]]
Folded(F, base, seq) == (CHOOSE f : Unrolls(f, F, base, seq))[DOMAIN seq]

\* There is such a fold.
LEMMA FoldExists ==
    ASSUME NEW S, NEW R, NEW F \in [S \X R -> S], NEW base \in S, NEW seq \in Seq(R)
    PROVE  \E f \in [SUBSET DOMAIN seq -> S] : Unrolls(f, F, base, seq)
<1> DEFINE Is(f, n) == f = [s \in SUBSET (1..n) |->
                              IF s = {} THEN base ELSE F[<<f[s \ {Max(s)}], seq[Max(s)]>>]]
           T == {n \in 0..Len(seq) : ~ \E f \in [SUBSET (1..n) -> S] : Is(f, n)}
<1>0. DOMAIN seq = 1..Len(seq) /\ Len(seq) \in Nat /\ \A i \in 1..Len(seq) : seq[i] \in R
  OBVIOUS
<1> HIDE DEF T
<1> SUFFICES T = {} 
   <2>1. Len(seq) \in 0..Len(seq)
     BY <1>0
   <2>2. T = {} => \E f \in [SUBSET (1..Len(seq)) -> S] : Is(f, Len(seq))
     <3> HIDE DEF Is
     <3> QED BY <2>1 DEF T
   <2> QED BY <2>2, <1>0 DEF Unrolls
<1> SUFFICES ASSUME T # {} PROVE FALSE
   OBVIOUS
<1>1. PICK n \in T : \A m \in T : n <= m
   <2>1. T \in SUBSET Nat
     BY <1>0 DEF T
   <2> QED BY <2>1, Least
<1>2. n # 0
   <2> DEFINE f == [s \in SUBSET (1..0) |-> base]
   <2>1. 1..0 = {}
      OBVIOUS
   <2>2. Is(f,0) /\ f \in [SUBSET (1..0) -> S]
     BY <2>1
   <2> HIDE DEF f, Is
   <2> QED BY <2>2 DEF T
<1>3. n - 1 \in Nat /\ n-1 \notin T /\ n \in Nat /\ n \in 1..Len(seq)
   <2>1. n \in 0..Len(seq)
     BY DEF T
   <2> QED BY <2>1, <1>1, <1>2, <1>0
<1>4. PICK g \in [SUBSET (1..(n-1)) -> S] : Is(g, n-1)
   <2> HIDE DEF Is
   <2>1. n - 1 \in 0..Len(seq)
     BY <1>3, <1>0
   <2> QED BY <1>3, <2>1 DEF T
<1> DEFINE h == [s \in SUBSET (1..n) |-> IF n \in s THEN F[<<g[s \ {n}], seq[n]>>] ELSE g[s]]
<1>5. \A s \in SUBSET (1..n) :
         /\ s \ {n} \in SUBSET (1..(n-1))
         /\ n \notin s => s \in SUBSET (1..(n-1))
  BY <1>3
<1>6. h \in [SUBSET (1..n) -> S]
  BY <1>5, <1>3, <1>0
<1>7. \A s \in SUBSET (1..n) : h[s] = IF s = {} THEN base ELSE F[<<h[s \ {Max(s)}], seq[Max(s)]>>]
  <2> TAKE s \in SUBSET (1..n)
  <2>1. CASE n \in s
    <3>1. Max(s) = n
      BY <2>1, LastIndex, <1>3
    <3>2. s \ {n} \in SUBSET (1..n)
      OBVIOUS
    <3>3. h[s \ {n}] = g[s \ {n}]
      BY <3>2
    <3> QED BY <3>1, <3>3, <2>1
  <2>2. CASE n \notin s
    <3>1. s \in SUBSET (1..(n-1))
      BY <2>2, <1>5
    <3>2. h[s] = g[s]
      BY <2>2
    <3>4. n \notin s \ {Max(s)} /\ s \ {Max(s)} \in SUBSET (1..n)
      BY <2>2
    <3>5. h[s \ {Max(s)}] = g[s \ {Max(s)}]
      BY <3>4
    <3>6. g[s] = IF s = {} THEN base ELSE F[<<g[s \ {Max(s)}], seq[Max(s)]>>]
      BY <3>1, <1>4
    <3> HIDE DEF h
    <3> QED BY <3>2, <3>5, <3>6
  <2> HIDE DEF h
  <2> QED BY <2>1, <2>2
<1>8. h = [s \in SUBSET (1..n) |-> h[s]]
  OBVIOUS
<1>9. Is(h, n)
  <2> HIDE DEF h
  <2> QED BY <1>7, <1>8
<1> HIDE DEF h, Is
<1> QED BY <1>9, <1>6 DEF T

\* What two folds have in common: they agree on the elements they share.
Agreeing(f, g, n) ==
    /\ f[{}] = g[{}]
    /\ \A s \in SUBSET (1..n) :
          s # {} /\ f[s \ {Max(s)}] = g[s \ {Max(s)}] => f[s] = g[s]

\* Two functions that agree so are equal.
LEMMA FoldsAgree ==
    ASSUME NEW n \in Nat, NEW f, NEW g, Agreeing(f, g, n)
    PROVE  \A s \in SUBSET (1..n) : f[s] = g[s]
<1> DEFINE T == {m \in 0..n : \E s \in SUBSET (1..m) : f[s] # g[s]}
<1> HIDE DEF T
<1>1. T = {}
  <2> SUFFICES ASSUME T # {} PROVE FALSE
    OBVIOUS
  <2>1. T \in SUBSET Nat
    <3>1. \A m \in 0..n : m \in Nat
      OBVIOUS
    <3> QED BY <3>1 DEF T
  <2>2. PICK m \in T : \A l \in T : m <= l
    BY <2>1, Least
  <2>3. m \in 0..n
    BY DEF T
  <2>4. PICK s \in SUBSET (1..m) : f[s] # g[s]
    BY DEF T
  <2>5. m \in Nat /\ m <= n
    BY <2>3
  <2>6. s \in SUBSET (1..n)
    BY <2>5
  <2>7. Max(s) \in s /\ \A x \in s : x <= Max(s)
    <3>1. s # {}
      BY <2>4 DEF Agreeing
    <3> QED BY <2>5, <3>1, LastIndex
  <2>8. m - 1 \in 0..n /\ m - 1 < m
    <3>1. Max(s) \in 1..m
      BY <2>7
    <3> QED BY <3>1, <2>5
  <2>9. s \ {Max(s)} \in SUBSET (1..(m - 1))
    <3> SUFFICES ASSUME NEW x \in s, x # Max(s) PROVE x \in 1..(m - 1)
      OBVIOUS
    <3>1. x \in 1..m /\ Max(s) \in 1..m /\ x <= Max(s)
      BY <2>7
    <3> QED BY <3>1, <2>5
  <2>10. f[s \ {Max(s)}] = g[s \ {Max(s)}]
    <3>1. m - 1 \notin T
      <4>1. m - 1 \in T => m <= m - 1
        BY <2>2
      <4> QED BY <4>1, <2>5
    <3> QED BY <3>1, <2>8, <2>9 DEF T
  <2> QED BY <2>4, <2>6, <2>7, <2>10 DEF Agreeing
<1>2. n \in 0..n
  OBVIOUS
<1> QED BY <1>1, <1>2 DEF T

\* A fold with its unfolding, and no other function is one.
TheFold(g, S, R, F, base, seq) ==
    /\ g \in [SUBSET DOMAIN seq -> S]
    /\ Folded(F, base, seq) = g[DOMAIN seq]
    /\ g[{}] = base
    /\ \A s \in SUBSET DOMAIN seq : s # {} =>
          /\ g[s \ {Max(s)}] \in S /\ seq[Max(s)] \in R
          /\ g[s] = F[<<g[s \ {Max(s)}], seq[Max(s)]>>]
    /\ \A f : f = [s \in SUBSET DOMAIN seq |-> f[s]] /\ Agreeing(f, g, Len(seq)) => f = g

\* Every function F has it, on every sequence.
LEMMA FoldUnique ==
    ASSUME NEW S, NEW R, NEW F \in [S \X R -> S], NEW base \in S, NEW seq \in Seq(R)
    PROVE  \E g : TheFold(g, S, R, F, base, seq)
<1>1. PICK g \in [SUBSET DOMAIN seq -> S] : Unrolls(g, F, base, seq)
  BY FoldExists
<1>2. DOMAIN seq = 1..Len(seq) /\ Len(seq) \in Nat
  OBVIOUS
<1>3. /\ g = [s \in SUBSET DOMAIN seq |-> g[s]]
      /\ \A s \in SUBSET DOMAIN seq :
            g[s] = IF s = {} THEN base ELSE F[<<g[s \ {Max(s)}], seq[Max(s)]>>]
  BY <1>1 DEF Unrolls
<1>4. \A s \in SUBSET DOMAIN seq : s # {} =>
          /\ g[s \ {Max(s)}] \in S /\ seq[Max(s)] \in R
          /\ g[s] = F[<<g[s \ {Max(s)}], seq[Max(s)]>>]
  <2> SUFFICES ASSUME NEW s \in SUBSET DOMAIN seq, s # {}
               PROVE  /\ g[s \ {Max(s)}] \in S /\ seq[Max(s)] \in R
                      /\ g[s] = F[<<g[s \ {Max(s)}], seq[Max(s)]>>]
    OBVIOUS
  <2>1. Max(s) \in s
    BY <1>2, LastIndex
  <2>2. s \ {Max(s)} \in SUBSET DOMAIN seq /\ Max(s) \in 1..Len(seq)
    BY <2>1, <1>2
  <2>3. g[s \ {Max(s)}] \in S /\ seq[Max(s)] \in R
    BY <2>2
  <2> QED BY <2>3, <1>3
<1>5. g[{}] = base
  BY <1>3
<1>6. ASSUME NEW f, f = [s \in SUBSET DOMAIN seq |-> f[s]], Agreeing(f, g, Len(seq))
      PROVE  f = g
  <2>1. \A s \in SUBSET (1..Len(seq)) : f[s] = g[s]
    BY <1>2, <1>6, FoldsAgree
  <2> QED BY <2>1, <1>2, <1>3, <1>6
<1>7. Folded(F, base, seq) = g[DOMAIN seq]
  <2>1. ASSUME NEW f, Unrolls(f, F, base, seq) PROVE f = g
    <3>1. /\ f = [s \in SUBSET DOMAIN seq |-> f[s]]
          /\ \A s \in SUBSET DOMAIN seq :
                f[s] = IF s = {} THEN base ELSE F[<<f[s \ {Max(s)}], seq[Max(s)]>>]
      BY <2>1 DEF Unrolls
    <3>2. Agreeing(f, g, Len(seq))
      BY <3>1, <1>2, <1>3 DEF Agreeing
    <3> QED BY <3>1, <3>2, <1>6
  <2> QED BY <2>1, <1>1 DEF Folded
<1> QED BY <1>4, <1>5, <1>6, <1>7 DEF TheFold

\* A fold of nothing is the base.
LEMMA FoldEmpty ==
    ASSUME NEW S, NEW R, NEW F \in [S \X R -> S], NEW base \in S
    PROVE  Folded(F, base, <<>>) = base
<1>1. <<>> \in Seq(R) /\ DOMAIN <<>> = {}
  OBVIOUS
<1>2. PICK g : TheFold(g, S, R, F, base, <<>>)
  BY <1>1, FoldUnique
<1> QED BY <1>1, <1>2 DEF TheFold

\* One element more is one application more.
OneMore(S, R, F, base, seq, r) ==
    /\ Folded(F, base, seq) \in S
    /\ Folded(F, base, Append(seq, r)) = F[<<Folded(F, base, seq), r>>]

\* It is so for every fold: the folds agree on the shorter sequence.
LEMMA FoldAppend ==
    ASSUME NEW S, NEW R, NEW F \in [S \X R -> S], NEW base \in S,
           NEW seq \in Seq(R), NEW r \in R
    PROVE  OneMore(S, R, F, base, seq, r)
<1> DEFINE n == Len(seq)
           new == Append(seq, r)
<1>1. /\ n \in Nat /\ DOMAIN seq = 1..n /\ DOMAIN new = 1..(n + 1) /\ new \in Seq(R)
      /\ \A i \in 1..n : new[i] = seq[i]
      /\ new[n + 1] = r
  OBVIOUS
<1> HIDE DEF n, new
<1>2. PICK f : TheFold(f, S, R, F, base, seq)
  BY FoldUnique
<1>3. PICK g : TheFold(g, S, R, F, base, new)
  BY <1>1, FoldUnique
<1>4. /\ f[{}] = base /\ f[1..n] \in S
      /\ \A s \in SUBSET (1..n) : s # {} => f[s] = F[<<f[s \ {Max(s)}], seq[Max(s)]>>]
  BY <1>1, <1>2 DEF TheFold
<1>5. /\ g[{}] = base
      /\ \A s \in SUBSET (1..(n + 1)) :
            s # {} => g[s] = F[<<g[s \ {Max(s)}], new[Max(s)]>>]
  BY <1>1, <1>3 DEF TheFold
<1>6. ASSUME NEW s \in SUBSET (1..n), s # {}
      PROVE  s \in SUBSET (1..(n + 1)) /\ new[Max(s)] = seq[Max(s)]
  <2>1. Max(s) \in s
    BY <1>1, <1>6, LastIndex
  <2>2. 1..n \subseteq 1..(n + 1)
    BY <1>1
  <2> QED BY <1>1, <2>1, <2>2
<1>7. f[1..n] = g[1..n]
  <2>1. Agreeing(f, g, n)
    BY <1>4, <1>5, <1>6 DEF Agreeing
  <2>2. \A s \in SUBSET (1..n) : f[s] = g[s]
    BY <1>1, <2>1, FoldsAgree
  <2> QED BY <2>2
<1>8. Max(1..(n + 1)) = n + 1 /\ (1..(n + 1)) \ {n + 1} = 1..n /\ 1..(n + 1) # {}
  <2>1. n + 1 \in Nat /\ n + 1 \in 1..(n + 1)
    BY <1>1
  <2>2. Max(1..(n + 1)) = n + 1
    BY <2>1, LastIndex
  <2>3. (1..(n + 1)) \ {n + 1} = 1..n
    BY <1>1
  <2> QED BY <2>1, <2>2, <2>3
<1>9. g[1..(n + 1)] = F[<<g[1..n], r>>]
  <2>1. g[1..(n + 1)] = F[<<g[(1..(n + 1)) \ {Max(1..(n + 1))}], new[Max(1..(n + 1))]>>]
    BY <1>5, <1>8
  <2> QED BY <1>1, <1>8, <2>1
<1> QED BY <1>1, <1>2, <1>3, <1>4, <1>7, <1>9 DEF new, TheFold, OneMore

\* The dictionaries with keys in K and values in V.
Partial(K, V) == UNION {[D -> V] : D \in SUBSET K}

\* The empty one is one.
LEMMA EmptyPartial == ASSUME NEW K, NEW V PROVE <<>> \in Partial(K, V)
  BY DEF Partial

\* So is one with one entry more.
LEMMA PutPartial ==
    ASSUME NEW K, NEW V, NEW d \in Partial(K, V), NEW k \in K, NEW v \in V
    PROVE  Put(d, k, v) \in Partial(K, V)
<1>1. PICK D \in SUBSET K : d \in [D -> V]
  BY DEF Partial
<1>2. Put(d, k, v) \in [D \cup {k} -> V]
  BY <1>1 DEF Put
<1>3. D \cup {k} \in SUBSET K
  BY <1>1
<1> HIDE DEF Put
<1> QED BY <1>2, <1>3 DEF Partial

\* The values of `best`.
Bests == Partial(Channels \X Nat, Rows)

\* _pick_latest, row by row: this and the next two are FoldAppend for the three
\* folds of the ETL.
LEMMA PickLatestSteps ==
    /\ PickLatest(<<>>) = <<>>
    /\ \A rows \in Seq(Rows), r \in Rows :
          PickLatest(Append(rows, r)) = Newer(PickLatest(rows), r)
<1> DEFINE F == [x \in Bests \X Rows |-> Newer(x[1], x[2])]
<1>1. F \in [Bests \X Rows -> Bests] /\ <<>> \in Bests
  <2>1. <<>> \in Bests
    BY EmptyPartial DEF Bests
  <2>2. ASSUME NEW best \in Bests, NEW r \in Rows PROVE Newer(best, r) \in Bests
    <3>1. Key(r) \in Channels \X Nat
      BY ArchiveAssumption DEF Key, Channels, Rows
    <3> QED BY <3>1, PutPartial DEF Newer, Bests
  <2> QED BY <2>1, <2>2
<1>2. \A x \in Bests, r \in Rows : F[<<x, r>>] = Newer(x, r)
  OBVIOUS
<1> HIDE DEF F
<1>3. ASSUME NEW rows \in Seq(Rows) PROVE PickLatest(rows) = Folded(F, <<>>, rows)
  <2> DEFINE Is(f) ==
          f = [s \in SUBSET DOMAIN rows |->
                  IF s = {} THEN <<>> ELSE Newer(f[s \ {Max(s)}], rows[Max(s)])]
  <2>1. PICK g : TheFold(g, Bests, Rows, F, <<>>, rows)
    BY <1>1, FoldUnique
  <2>2. /\ g[{}] = <<>> /\ Folded(F, <<>>, rows) = g[DOMAIN rows]
        /\ g = [s \in SUBSET DOMAIN rows |-> g[s]]
        /\ \A s \in SUBSET DOMAIN rows :
              s # {} => g[s] = Newer(g[s \ {Max(s)}], rows[Max(s)])
    BY <2>1, <1>2 DEF TheFold
  <2>3. Is(g)
    BY <2>2
  <2>4. ASSUME NEW f, Is(f) PROVE f = g
    <3>1. /\ f = [s \in SUBSET DOMAIN rows |-> f[s]]
          /\ f[{}] = <<>>
          /\ \A s \in SUBSET DOMAIN rows :
                s # {} => f[s] = Newer(f[s \ {Max(s)}], rows[Max(s)])
      BY <2>4
    <3>2. Agreeing(f, g, Len(rows))
      <4>1. DOMAIN rows = 1..Len(rows)
        OBVIOUS
      <4> QED BY <3>1, <4>1, <2>2 DEF Agreeing
    <3> QED BY <3>1, <3>2, <2>1 DEF TheFold
  <2>5. PickLatest(rows) = (CHOOSE f : Is(f))[DOMAIN rows]
    BY DEF PickLatest, FoldLeft, MapThenFoldSet
  <2> HIDE DEF Is
  <2> QED BY <2>2, <2>3, <2>4, <2>5
<1>4. Folded(F, <<>>, <<>>) = <<>>
  BY <1>1, FoldEmpty
<1>5. <<>> \in Seq(Rows)
  OBVIOUS
<1>6. ASSUME NEW rows \in Seq(Rows), NEW r \in Rows
      PROVE  PickLatest(Append(rows, r)) = Newer(PickLatest(rows), r)
  <2>1. OneMore(Bests, Rows, F, <<>>, rows, r)
    BY <1>1, FoldAppend
  <2>2. Append(rows, r) \in Seq(Rows)
    OBVIOUS
  <2> QED BY <2>1, <2>2, <1>2, <1>3 DEF OneMore
<1> QED BY <1>3, <1>4, <1>5, <1>6

\* The metadata a team ETL may come to, and index_meta after some of the rows.
RowMetas == [count: Nat, first: {Message(r) : r \in Rows} \cup {NoFirst}, parent: BOOLEAN]
TeamMetas == Partial(Threads, RowMetas)
MetasAfter(chosen, rows) == FoldLeft(LAMBDA dict, r : Scanned(chosen, dict, r), <<>>, rows)

\* index_meta, row by row.
LEMMA MetasSteps ==
    ASSUME NEW chosen
    PROVE  /\ MetasAfter(chosen, <<>>) = <<>>
           /\ \A rows \in Seq(Rows), r \in Rows :
                 /\ MetasAfter(chosen, rows) \in TeamMetas
                 /\ MetasAfter(chosen, Append(rows, r))
                       = Scanned(chosen, MetasAfter(chosen, rows), r)
<1> DEFINE F == [x \in TeamMetas \X Rows |-> Scanned(chosen, x[1], x[2])]
<1>1. F \in [TeamMetas \X Rows -> TeamMetas] /\ <<>> \in TeamMetas
  <2>1. <<>> \in TeamMetas
    BY EmptyPartial DEF TeamMetas
  <2>2. ASSUME NEW dict \in TeamMetas, NEW r \in Rows PROVE Scanned(chosen, dict, r) \in TeamMetas
    <3> DEFINE old == MetaOf(dict, r.thread)
               m == Flagged(old, r)
    <3>1. r.thread \in Threads /\ r.parent \in BOOLEAN /\ Message(r) \in {Message(q) : q \in Rows}
      BY DEF Rows
    <3>2. old \in RowMetas
      <4>1. NewMeta \in RowMetas
        BY DEF NewMeta, RowMetas
      <4>2. \A t \in DOMAIN dict : dict[t] \in RowMetas
        BY DEF TeamMetas, Partial
      <4> QED BY <4>1, <4>2 DEF MetaOf
    <3> HIDE DEF old
    <3>3. m \in RowMetas
      BY <3>1, <3>2 DEF Flagged, RowMetas
    <3> HIDE DEF m
    <3>4. Counted(m, r) \in RowMetas
      <4> DEFINE first == IF IsAnchor(r) \/ m.first = NoFirst THEN Message(r) ELSE m.first
      <4>1. Counted(m, r) = [m EXCEPT !.count = m.count + 1, !.first = first]
        BY DEF Counted
      <4>2. first \in {Message(q) : q \in Rows} \cup {NoFirst} /\ m.count + 1 \in Nat
        BY <3>1, <3>3 DEF RowMetas
      <4> HIDE DEF first
      <4> QED BY <4>1, <4>2, <3>3 DEF RowMetas
    <3>5. Put(dict, r.thread, Counted(m, r)) \in TeamMetas
      BY <3>1, <3>4, PutPartial DEF TeamMetas
    <3> QED BY <3>5 DEF Scanned, m, old
  <2> QED BY <2>1, <2>2
<1>2. \A x \in TeamMetas, r \in Rows : F[<<x, r>>] = Scanned(chosen, x, r)
  OBVIOUS
<1> HIDE DEF F
<1>3. ASSUME NEW rows \in Seq(Rows) PROVE MetasAfter(chosen, rows) = Folded(F, <<>>, rows)
  <2> DEFINE Is(f) ==
          f = [s \in SUBSET DOMAIN rows |->
                  IF s = {} THEN <<>> ELSE Scanned(chosen, f[s \ {Max(s)}], rows[Max(s)])]
  <2>1. PICK g : TheFold(g, TeamMetas, Rows, F, <<>>, rows)
    BY <1>1, FoldUnique
  <2>2. /\ g[{}] = <<>> /\ Folded(F, <<>>, rows) = g[DOMAIN rows]
        /\ g = [s \in SUBSET DOMAIN rows |-> g[s]]
        /\ \A s \in SUBSET DOMAIN rows :
              s # {} => g[s] = Scanned(chosen, g[s \ {Max(s)}], rows[Max(s)])
    BY <2>1, <1>2 DEF TheFold
  <2>3. Is(g)
    BY <2>2
  <2>4. ASSUME NEW f, Is(f) PROVE f = g
    <3>1. /\ f = [s \in SUBSET DOMAIN rows |-> f[s]]
          /\ f[{}] = <<>>
          /\ \A s \in SUBSET DOMAIN rows :
                s # {} => f[s] = Scanned(chosen, f[s \ {Max(s)}], rows[Max(s)])
      BY <2>4
    <3>2. Agreeing(f, g, Len(rows))
      <4>1. DOMAIN rows = 1..Len(rows)
        OBVIOUS
      <4> QED BY <3>1, <4>1, <2>2 DEF Agreeing
    <3> QED BY <3>1, <3>2, <2>1 DEF TheFold
  <2>5. MetasAfter(chosen, rows) = (CHOOSE f : Is(f))[DOMAIN rows]
    BY DEF MetasAfter, FoldLeft, MapThenFoldSet
  <2> HIDE DEF Is
  <2> QED BY <2>2, <2>3, <2>4, <2>5
<1>4. Folded(F, <<>>, <<>>) = <<>>
  BY <1>1, FoldEmpty
<1>5. <<>> \in Seq(Rows)
  OBVIOUS
<1>6. ASSUME NEW rows \in Seq(Rows), NEW r \in Rows
      PROVE  /\ MetasAfter(chosen, rows) \in TeamMetas
             /\ MetasAfter(chosen, Append(rows, r)) = Scanned(chosen, MetasAfter(chosen, rows), r)
  <2>1. OneMore(TeamMetas, Rows, F, <<>>, rows, r)
    BY <1>1, FoldAppend
  <2>2. Append(rows, r) \in Seq(Rows)
    OBVIOUS
  <2> QED BY <2>1, <2>2, <1>2, <1>3 DEF OneMore
<1> QED BY <1>3, <1>4, <1>5, <1>6

\* The names there may be, and the directory after some of the rows.
Directory ==
    {Accounts} \cup Partial(DOMAIN Accounts \cup {BotOf(q) : q \in Senders}
                                \cup {q.added.bot : q \in Senders},
                            {Accounts[u] : u \in DOMAIN Accounts} \cup {q.profile : q \in Senders}
                                \cup {q.added.name : q \in Senders})

\* users_data, row by row.
LEMMA NamedSteps ==
    ASSUME NEW chosen
    PROVE  /\ Named(chosen, <<>>) = Accounts
           /\ \A rows \in Seq(Rows), r \in Rows :
                 /\ Named(chosen, rows) \in Directory
                 /\ Named(chosen, Append(rows, r)) = Met(chosen, Named(chosen, rows), r)
<1> DEFINE F == [x \in Directory \X Rows |-> Met(chosen, x[1], x[2])]
           K == DOMAIN Accounts \cup {BotOf(q) : q \in Senders} \cup {q.added.bot : q \in Senders}
           V == {Accounts[u] : u \in DOMAIN Accounts} \cup {q.profile : q \in Senders}
                   \cup {q.added.name : q \in Senders}
<1>1. F \in [Directory \X Rows -> Directory] /\ Accounts \in Directory
  <2>1. Accounts \in Directory
    BY DEF Directory
  <2>2. Directory = {Accounts} \cup Partial(K, V)
    BY DEF Directory
  <2>3. ASSUME NEW users \in Directory, NEW k \in K, NEW v \in V
        PROVE  Seed(users, k, v) \in Directory
    <3>1. CASE users = Accounts
      <4>1. Put(users, k, v) \in [DOMAIN Accounts \cup {k} -> V]
        BY <3>1 DEF Put
      <4>2. DOMAIN Accounts \cup {k} \in SUBSET K
        OBVIOUS
      <4> HIDE DEF K, V
      <4>3. Put(users, k, v) \in Partial(K, V)
        BY <4>1, <4>2 DEF Partial
      <4> QED BY <4>3, <2>2 DEF Seed
    <3>2. CASE users \in Partial(K, V)
      <4> HIDE DEF K, V
      <4>1. Put(users, k, v) \in Partial(K, V)
        BY <3>2, PutPartial
      <4> QED BY <4>1, <2>2 DEF Seed
    <3> QED BY <3>1, <3>2, <2>2
  <2>4. ASSUME NEW users \in Directory, NEW q \in Senders PROVE CollectBot(users, q) \in Directory
    <3>1. BotOf(q) \in K /\ q.profile \in V /\ q.added.bot \in K /\ q.added.name \in V
      OBVIOUS
    <3> HIDE DEF K, V
    <3> QED BY <3>1, <2>3 DEF CollectBot
  <2>5. ASSUME NEW users \in Directory, NEW r \in Rows PROVE Met(chosen, users, r) \in Directory
    <3>1. r.from \in Senders
      BY DEF Rows
    <3> QED BY <3>1, <2>4 DEF Met
  <2> HIDE DEF K, V
  <2> QED BY <2>1, <2>5
<1>2. \A x \in Directory, r \in Rows : F[<<x, r>>] = Met(chosen, x, r)
  OBVIOUS
<1> HIDE DEF F
<1>3. ASSUME NEW rows \in Seq(Rows) PROVE Named(chosen, rows) = Folded(F, Accounts, rows)
  <2> DEFINE Is(f) ==
          f = [s \in SUBSET DOMAIN rows |->
                  IF s = {} THEN Accounts ELSE Met(chosen, f[s \ {Max(s)}], rows[Max(s)])]
  <2>1. PICK g : TheFold(g, Directory, Rows, F, Accounts, rows)
    BY <1>1, FoldUnique
  <2>2. /\ g[{}] = Accounts /\ Folded(F, Accounts, rows) = g[DOMAIN rows]
        /\ g = [s \in SUBSET DOMAIN rows |-> g[s]]
        /\ \A s \in SUBSET DOMAIN rows :
              s # {} => g[s] = Met(chosen, g[s \ {Max(s)}], rows[Max(s)])
    BY <2>1, <1>2 DEF TheFold
  <2>3. Is(g)
    BY <2>2
  <2>4. ASSUME NEW f, Is(f) PROVE f = g
    <3>1. /\ f = [s \in SUBSET DOMAIN rows |-> f[s]]
          /\ f[{}] = Accounts
          /\ \A s \in SUBSET DOMAIN rows :
                s # {} => f[s] = Met(chosen, f[s \ {Max(s)}], rows[Max(s)])
      BY <2>4
    <3>2. Agreeing(f, g, Len(rows))
      <4>1. DOMAIN rows = 1..Len(rows)
        OBVIOUS
      <4> QED BY <3>1, <4>1, <2>2 DEF Agreeing
    <3> QED BY <3>1, <3>2, <2>1 DEF TheFold
  <2>5. Named(chosen, rows) = (CHOOSE f : Is(f))[DOMAIN rows]
    BY DEF Named, FoldLeft, MapThenFoldSet
  <2> HIDE DEF Is
  <2> QED BY <2>2, <2>3, <2>4, <2>5
<1>4. Folded(F, Accounts, <<>>) = Accounts
  BY <1>1, FoldEmpty
<1>5. <<>> \in Seq(Rows)
  OBVIOUS
<1>6. ASSUME NEW rows \in Seq(Rows), NEW r \in Rows
      PROVE  /\ Named(chosen, rows) \in Directory
             /\ Named(chosen, Append(rows, r)) = Met(chosen, Named(chosen, rows), r)
  <2>1. OneMore(Directory, Rows, F, Accounts, rows, r)
    BY <1>1, FoldAppend
  <2>2. Append(rows, r) \in Seq(Rows)
    OBVIOUS
  <2> QED BY <2>1, <2>2, <1>2, <1>3 DEF OneMore
<1> QED BY <1>3, <1>4, <1>5, <1>6

-----------------------------------------------------------------------------
(* What split has read so far, and the folds over it.                        *)

\* The first n rows of the table.
Scan(n) == SubSeq(table, 1, n)

\* Nothing, one row more, and in the end the table.
LEMMA ScanRows ==
    ASSUME TypeOK
    PROVE  /\ Scan(0) = <<>> /\ Scan(Len(table)) = table
           /\ \A n \in 1..Len(table) :
                 /\ Scan(n - 1) \in Seq(Rows) /\ table[n] \in Rows
                 /\ Scan(n) = Append(Scan(n - 1), table[n])
<1>1. table \in Seq(Rows) /\ Len(table) \in Nat
  BY DEF TypeOK
<1>2. Scan(0) = <<>> /\ Scan(Len(table)) = table
  BY <1>1 DEF Scan
<1>3. ASSUME NEW n \in 1..Len(table)
      PROVE  /\ Scan(n - 1) \in Seq(Rows) /\ table[n] \in Rows
             /\ Scan(n) = Append(Scan(n - 1), table[n])
  BY <1>1 DEF Scan
<1> QED BY <1>2, <1>3

\* A kept row of the table that parses, by either account.
Wanted(r) == Kept(keep, r) /\ r.parses

\* The light pass has picked the newest copies of the rows it compared.
BestIsLatest == stage # "idle" => keep = PickLatest(Scan(Compared))

\* Split knows the names that the parsed rows it streamed tell.
PeopleAreNamed ==
    /\ stage = "light" => people = Accounts
    /\ stage \notin {"idle", "light"} => people = Named(ParsedRows(table), Scan(Streamed))

\* channels.json is what a run of this archive writes.
ChannelsOK == stage \in {"index", "done"} => channelsJson = LoadChannels(Accounts)

\* All three hold before a run.
LEMMA BestInit == Init => BestIsLatest /\ PeopleAreNamed /\ ChannelsOK
  BY DEF Init, BestIsLatest, PeopleAreNamed, ChannelsOK

\* After the light pass.
LEMMA BestOfTable ==
    ASSUME TypeOK, BestIsLatest, stage \notin {"idle", "light"}
    PROVE  /\ keep = PickLatest(table)
           /\ ParsedRows(table) = {r \in ToSet(table) : Wanted(r)}
           /\ IndexedRows(table) = {r \in ToSet(table) : Wanted(r) /\ Included(Channel[r.thread])}
<1>1. keep = PickLatest(table)
  BY ScanRows DEF BestIsLatest, Compared
<1> QED BY <1>1 DEF ParsedRows, IndexedRows, Wanted

\* What a row of the streaming pass adds to what was read.
LEMMA StreamedRow ==
    ASSUME TypeOK, StreamRow
    PROVE  /\ pos \in DOMAIN table /\ table[pos] \in Rows /\ Scan(Streamed) \in Seq(Rows)
           /\ table' = table /\ Scan(Streamed)' = Append(Scan(Streamed), table[pos])
<1>1. /\ pos \in 1..Len(table) /\ DOMAIN table = 1..Len(table)
      /\ stage = "stream" /\ stage' = "stream" /\ pos' = pos + 1 /\ table' = table
  BY DEF StreamRow, TypeOK
<1>2. Streamed = pos - 1 /\ Streamed' = pos
  BY <1>1 DEF Streamed
<1>3. Scan(Streamed)' = SubSeq(table, 1, pos)
  BY <1>1, <1>2 DEF Scan
<1> QED BY <1>1, <1>2, <1>3, ScanRows DEF Scan

\* Every other step of a run leaves it as it is.
LEMMA StreamedSame ==
    ASSUME TypeOK, stage \notin {"idle", "light"}, stage' \notin {"idle", "light"}, table' = table,
           \/ EndOfStream
           \/ stage' = stage /\ pos' = pos
           \/ stage # "stream" /\ stage' # "stream"
    PROVE  Streamed' = Streamed
<1>1. /\ stage = "stream" /\ pos > Len(table) => pos - 1 = Len(table)
      /\ pos \in Int
  BY DEF TypeOK
<1> QED BY <1>1 DEF EndOfStream, Streamed

\* A step of the light pass is a step of _pick_latest.
LEMMA BestStep == ASSUME TypeOK, BestIsLatest, [Next]_vars PROVE BestIsLatest'
<1>1. CASE stage' = "idle"
  BY <1>1 DEF BestIsLatest
<1>2. CASE Begin
  <2>1. Compared' = 0 /\ keep' = <<>>
    BY <1>2 DEF Begin, Compared
  <2>2. Scan(0) = <<>> /\ table' = table
    BY <1>2, ScanRows DEF Begin
  <2> QED BY <2>1, <2>2, PickLatestSteps DEF BestIsLatest, Scan
<1>3. CASE LightRow
  <2>1. /\ pos \in 1..Len(table) /\ stage = "light" /\ stage' = "light" /\ pos' = pos + 1
        /\ keep' = Newer(keep, table[pos]) /\ table' = table
    BY <1>3 DEF LightRow, TypeOK
  <2>2. Compared = pos - 1 /\ Compared' = pos
    BY <2>1 DEF Compared
  <2>3. keep = PickLatest(Scan(pos - 1))
    BY <2>1, <2>2 DEF BestIsLatest
  <2>4. PickLatest(Scan(pos)) = Newer(keep, table[pos])
    BY <2>1, <2>3, ScanRows, PickLatestSteps
  <2> QED BY <2>1, <2>2, <2>4 DEF BestIsLatest, Scan
<1>4. CASE EndOfLight
  <2>1. /\ stage = "light" /\ stage' = "stream" /\ keep' = keep /\ table' = table
        /\ pos - 1 = Len(table)
    BY <1>4 DEF EndOfLight, TypeOK
  <2>2. Compared' = Compared
    BY <2>1 DEF Compared
  <2> QED BY <2>1, <2>2 DEF BestIsLatest, Scan
<1>5. ASSUME UNCHANGED <<table, keep>>, stage \notin {"idle", "light"}, stage' # "light"
      PROVE  BestIsLatest'
  BY <1>5 DEF BestIsLatest, Compared, Scan
<1>6. CASE StreamRow \/ EndOfStream \/ EndOfTidy \/ WriteUsers \/ WriteChannels \/ Done
  BY <1>5, <1>6 DEF StreamRow, EndOfStream, EndOfTidy, WriteUsers, WriteChannels, Done, run
<1>7. ASSUME NEW t \in Threads, Tidy(t) PROVE BestIsLatest'
  BY <1>5, <1>7 DEF Tidy, run
<1>8. ASSUME NEW c \in Channels, WriteIndex(c) PROVE BestIsLatest'
  BY <1>5, <1>8 DEF WriteIndex, run
<1>9. CASE UNCHANGED vars
  BY <1>9 DEF vars, BestIsLatest, Compared, Scan
<1>10. CASE Grow \/ Crash
  BY <1>1, <1>10 DEF Grow, Crash
<1>11. CASE OpenHandle \/ CloseOldest
  BY <1>11 DEF OpenHandle, CloseOldest, BestIsLatest, Compared, Scan
<1> QED BY <1>2, <1>3, <1>4, <1>6, <1>7, <1>8, <1>9, <1>10, <1>11 DEF Next

\* A row of the streaming pass is a step of users_data.
LEMMA PeopleStep ==
    ASSUME TypeOK, BestIsLatest, PeopleAreNamed, [Next]_vars
    PROVE  PeopleAreNamed'
<1>1. CASE stage' = "idle"
  BY <1>1 DEF PeopleAreNamed
<1>2. CASE Begin \/ LightRow
  BY <1>2 DEF Begin, LightRow, PeopleAreNamed
<1>3. CASE EndOfLight
  <2>1. Streamed' = 0 /\ people' = Accounts /\ table' = table /\ stage' = "stream"
    BY <1>3 DEF EndOfLight, Streamed, PeopleAreNamed
  <2>2. Scan(0) = <<>>
    BY ScanRows
  <2> QED BY <2>1, <2>2, NamedSteps DEF PeopleAreNamed, Scan
<1>4. CASE StreamRow
  <2> DEFINE r == table[pos]
  <2>1. /\ pos \in DOMAIN table /\ r \in Rows /\ Scan(Streamed) \in Seq(Rows)
        /\ table' = table /\ Scan(Streamed)' = Append(Scan(Streamed), r)
    BY <1>4, StreamedRow
  <2>2. stage = "stream" /\ stage' = "stream"
        /\ people' = IF Wanted(r) THEN CollectBot(people, r.from) ELSE people
    BY <1>4 DEF StreamRow, Wanted
  <2>3. r \in ToSet(table)
    BY <2>1 DEF ToSet
  <2>4. people' = Met(ParsedRows(table), people, r)
    BY <2>2, <2>3, BestOfTable DEF Met
  <2>5. people' = Named(ParsedRows(table), Append(Scan(Streamed), r))
    BY <2>1, <2>2, <2>4, NamedSteps DEF PeopleAreNamed
  <2> QED BY <2>1, <2>2, <2>5 DEF PeopleAreNamed
<1>5. ASSUME UNCHANGED <<table, people>>, Streamed' = Streamed, stage \notin {"idle", "light"},
             stage' # "light"
      PROVE  PeopleAreNamed'
  BY <1>5 DEF PeopleAreNamed, Scan
<1>6. CASE EndOfStream \/ EndOfTidy \/ WriteUsers \/ WriteChannels \/ Done
  <2>1. /\ UNCHANGED <<table, people>> /\ stage \notin {"idle", "light"}
        /\ stage' \notin {"idle", "light"}
        /\ EndOfStream \/ (stage # "stream" /\ stage' # "stream")
    BY <1>6 DEF EndOfStream, EndOfTidy, WriteUsers, WriteChannels, Done, run
  <2> QED BY <2>1, <1>5, StreamedSame
<1>7. ASSUME NEW t \in Threads, Tidy(t) PROVE PeopleAreNamed'
  BY <1>5, <1>7, StreamedSame DEF Tidy, run
<1>8. ASSUME NEW c \in Channels, WriteIndex(c) PROVE PeopleAreNamed'
  BY <1>5, <1>8, StreamedSame DEF WriteIndex, run
<1>9. CASE UNCHANGED vars
  BY <1>9 DEF vars, PeopleAreNamed, Streamed, Scan
<1>10. CASE Grow \/ Crash
  BY <1>1, <1>10 DEF Grow, Crash
<1>11. CASE OpenHandle \/ CloseOldest
  BY <1>11 DEF OpenHandle, CloseOldest, PeopleAreNamed, Streamed, Scan
<1> QED BY <1>2, <1>3, <1>4, <1>6, <1>7, <1>8, <1>9, <1>10, <1>11 DEF Next

\* channels.json is written before the stages that read it.
LEMMA ChannelsStep == ASSUME ChannelsOK, [Next]_vars PROVE ChannelsOK'
<1>1. CASE stage' \notin {"index", "done"}
  BY <1>1 DEF ChannelsOK
<1>2. CASE WriteChannels
  BY <1>2 DEF WriteChannels, ChannelsOK
<1>3. ASSUME NEW c \in Channels, WriteIndex(c) PROVE ChannelsOK'
  BY <1>3 DEF WriteIndex, directories, ChannelsOK
<1>4. CASE Done
  BY <1>4 DEF Done, directories, ChannelsOK
<1>5. CASE UNCHANGED vars
  BY <1>5 DEF vars, ChannelsOK
<1>6. ASSUME NEW t \in Threads, Tidy(t) PROVE ChannelsOK'
  BY <1>1, <1>6 DEF Tidy
<1>7. CASE \/ Grow \/ Begin \/ LightRow \/ EndOfLight \/ StreamRow \/ EndOfStream
           \/ EndOfTidy \/ WriteUsers \/ Crash
  BY <1>1, <1>7 DEF Grow, Begin, LightRow, EndOfLight, StreamRow, EndOfStream, EndOfTidy,
     WriteUsers, Crash
<1>8. CASE OpenHandle \/ CloseOldest
  BY <1>8 DEF OpenHandle, CloseOldest, directories, ChannelsOK
<1> QED BY <1>2, <1>3, <1>4, <1>5, <1>6, <1>7, <1>8 DEF Next

-----------------------------------------------------------------------------
(* What the hypothesis on the deltas makes of the table.                     *)

\* A row came with a delta, and so did the rest of the delta.
CameWith(r, d, load) ==
    /\ \E k \in DOMAIN d : r = Row(d[k], load)
    /\ \A k \in DOMAIN d : Row(d[k], load) \in ToSet(table)

\* Every row did.
WholeDeltas == \A r \in ToSet(table) : \E d \in Deltas : \E load \in Nat : CameWith(r, d, load)

\* A thread with a file is one with a row that parses.
HasParsed(t) == \E r \in ToSet(table) : r.thread = t /\ r.parses

\* So it is for the files of former runs too.
FilesHaveRows == \A t \in DOMAIN files : HasParsed(t)

\* An empty table has no row to say it of.
LEMMA RowsInit == Init => WholeDeltas /\ FilesHaveRows
<1>1. ToSet(<<>>) = {}
  BY DEF ToSet
<1> QED BY <1>1 DEF Init, WholeDeltas, FilesHaveRows

\* slackdump adds the rows of a delta together, and takes none away.
LEMMA RowsGrow ==
    ASSUME TypeOK, WholeDeltas, FilesHaveRows, Grow
    PROVE  WholeDeltas' /\ FilesHaveRows'
<1>1. /\ deltas' \in Nat /\ files' = files /\ table \in Seq(Rows)
  BY SplitAssumption DEF Grow, TypeOK
<1>2. PICK d \in Deltas : table' \in {table \o Loaded(d, deltas'), Loaded(d, deltas') \o table}
  BY DEF Grow
<1>3. PICK load \in Nat : load = deltas'
  BY <1>1
<1>4. Loaded(d, load) \in Seq(Rows)
  BY LoadedRows
<1>5. ToSet(table') = ToSet(table) \cup ToSet(Loaded(d, load))
  <2>1. /\ ToSet(table \o Loaded(d, load)) = ToSet(table) \cup ToSet(Loaded(d, load))
        /\ ToSet(Loaded(d, load) \o table) = ToSet(Loaded(d, load)) \cup ToSet(table)
    BY <1>1, <1>4, ConcatLines
  <2> QED BY <2>1, <1>2, <1>3
<1>6. ToSet(Loaded(d, load)) = {Row(d[k], load) : k \in DOMAIN d}
  BY DEF ToSet, Loaded
<1>7. ASSUME NEW r \in ToSet(table') PROVE \E e \in Deltas : \E l \in Nat : CameWith(r, e, l)'
  <2>1. CASE r \in ToSet(table)
    <3>1. PICK e \in Deltas, l \in Nat : CameWith(r, e, l)
      BY <2>1 DEF WholeDeltas
    <3>2. CameWith(r, e, l)'
      BY <3>1, <1>5 DEF CameWith
    <3> QED BY <3>2
  <2>2. CASE r \in ToSet(Loaded(d, load))
    <3>1. CameWith(r, d, load)'
      BY <2>2, <1>5, <1>6 DEF CameWith
    <3> QED BY <3>1
  <2> QED BY <2>1, <2>2, <1>5
<1>8. WholeDeltas'
  BY <1>7 DEF WholeDeltas
<1>9. FilesHaveRows'
  BY <1>1, <1>5 DEF FilesHaveRows, HasParsed
<1> QED BY <1>8, <1>9

\* A file is made by a row that parses, and never removed.
LEMMA RowsStep ==
    ASSUME Base, WholeDeltas, FilesHaveRows, [Next]_vars
    PROVE  WholeDeltas' /\ FilesHaveRows'
<1>1. ASSUME table' = table PROVE WholeDeltas'
  BY <1>1 DEF WholeDeltas, CameWith
<1>2. ASSUME table' = table, DOMAIN files' = DOMAIN files PROVE FilesHaveRows'
  BY <1>2 DEF FilesHaveRows, HasParsed
<1>3. CASE Grow
  BY <1>3, RowsGrow DEF Base
<1>4. CASE OpenHandle
  <2>1. PICK t \in Threads : Opening(t) /\ DOMAIN files' = DOMAIN files \cup {t}
    BY <1>4, OpenLines DEF Base
  <2>2. table' = table
    BY <1>4 DEF OpenHandle
  <2>3. HasParsed(t)
    <3>1. pos \in 1..(Len(table) + 1) /\ table \in Seq(Rows) /\ pos <= Len(table)
      BY <2>1 DEF Base, TypeOK, Opening
    <3>2. pos \in DOMAIN table
      BY <3>1
    <3> QED BY <2>1, <3>2 DEF HasParsed, Opening, Written, ToSet
  <2>4. FilesHaveRows'
    BY <2>1, <2>2, <2>3 DEF FilesHaveRows, HasParsed
  <2> QED BY <1>1, <2>2, <2>4
<1>5. CASE EndOfStream
  BY <1>1, <1>2, <1>5 DEF EndOfStream
<1>6. ASSUME NEW t \in Threads, Tidy(t) PROVE WholeDeltas' /\ FilesHaveRows'
  BY <1>1, <1>2, <1>6 DEF Tidy
<1>7. CASE Crash
  <2>1. table' = table /\ DOMAIN files' = DOMAIN files
    BY <1>7 DEF Crash, CrashStream, CrashTidy, CrashIndex
  <2> QED BY <1>1, <1>2, <2>1
<1>8. ASSUME NEW c \in Channels, WriteIndex(c) PROVE WholeDeltas' /\ FilesHaveRows'
  BY <1>1, <1>2, <1>8 DEF WriteIndex
<1>9. CASE \/ Begin \/ LightRow \/ EndOfLight \/ StreamRow \/ EndOfTidy \/ WriteUsers \/ WriteChannels \/ Done
           \/ UNCHANGED vars
  <2>1. table' = table /\ files' = files
    BY <1>9 DEF Begin, LightRow, EndOfLight, StreamRow, EndOfTidy, WriteUsers, WriteChannels,
                Done, vars
  <2> QED BY <1>1, <1>2, <2>1
<1>10. CASE CloseOldest
  <2>1. table' = table /\ DOMAIN files' = DOMAIN files
    BY <1>10 DEF CloseOldest
  <2> QED BY <1>1, <1>2, <2>1
<1> QED BY <1>3, <1>4, <1>5, <1>6, <1>7, <1>8, <1>9, <1>10 DEF Next

\* The copies of a message are of one thread.
LEMMA OneThread ==
    ASSUME TableOK, NEW q \in ToSet(table), NEW r \in ToSet(table), Key(q) = Key(r)
    PROVE  q.thread = r.thread /\ q.ts = r.ts
<1>1. PICK i \in DOMAIN table, j \in DOMAIN table : q = table[i] /\ r = table[j]
  BY DEF ToSet
<1>2. PICK d \in Deltas : \E k \in DOMAIN d : q.thread = d[k].thread /\ q.ts = d[k].ts
  BY <1>1 DEF TableOK, RowsOK
<1>3. PICK e \in Deltas : \E l \in DOMAIN e : r.thread = e[l].thread /\ r.ts = e[l].ts
  BY <1>1 DEF TableOK, RowsOK
<1>4. PICK k \in DOMAIN d : q.thread = d[k].thread /\ q.ts = d[k].ts
  BY <1>2
<1>5. PICK l \in DOMAIN e : r.thread = e[l].thread /\ r.ts = e[l].ts
  BY <1>3
<1>6. Key(d[k]) = Key(e[l]) /\ q.ts = r.ts
  BY <1>4, <1>5 DEF Key
<1>7. d[k].thread = e[l].thread
  BY <1>6, DeltasAssumption
<1> QED BY <1>4, <1>5, <1>6, <1>7

\* In a thread with a row that parses the anchor's rows parse, and it has one.
LEMMA ParsedAnchors ==
    ASSUME AnchorsParse, TypeOK, WholeDeltas, NEW t, HasParsed(t),
           NEW r \in ToSet(table), r.thread = t, ~r.parses
    PROVE  ~IsAnchor(r) /\ \E a \in ToSet(table) : a.thread = t /\ IsAnchor(a)
<1>1. PICK p \in ToSet(table) : p.thread = t /\ p.parses
  BY DEF HasParsed
<1>2. PICK d \in Deltas, l \in Nat : CameWith(r, d, l)
  BY DEF WholeDeltas
<1>3. PICK e \in Deltas, m \in Nat : CameWith(p, e, m)
  BY DEF WholeDeltas
<1>4. PICK i \in DOMAIN d : r = Row(d[i], l)
  BY <1>2 DEF CameWith
<1>5. PICK j \in DOMAIN e : p = Row(e[j], m)
  BY <1>3 DEF CameWith
<1>6. /\ ~d[i].parses /\ e[j].parses /\ d[i].thread = t /\ e[j].thread = t
      /\ r.ts = d[i].ts
  BY <1>1, <1>4, <1>5 DEF Row
<1>7. ~IsAnchor(d[i]) /\ \E k \in DOMAIN d : d[k].thread = t /\ IsAnchor(d[k])
  BY <1>6 DEF AnchorsParse
<1>8. ~IsAnchor(r)
  BY <1>6, <1>7 DEF IsAnchor
<1>9. PICK k \in DOMAIN d : d[k].thread = t /\ IsAnchor(d[k])
  BY <1>7
<1>10. Row(d[k], l) \in ToSet(table) /\ Row(d[k], l).thread = t /\ IsAnchor(Row(d[k], l))
  BY <1>2, <1>9 DEF CameWith, Row, IsAnchor
<1> QED BY <1>8, <1>10

\* So a newest copy of it parses: of any message of the thread, or of its
\* anchor when the newest copy of that one is corrupt.
LEMMA ParsedKept ==
    ASSUME AnchorsParse, Base, KeepOK, WholeDeltas, stage \notin {"idle", "light"},
           NEW t, HasParsed(t)
    PROVE  \E r \in ToSet(table) : r.thread = t /\ Wanted(r)
<1>1. TypeOK /\ TableOK
  BY DEF Base
<1>2. ASSUME NEW r \in ToSet(table)
      PROVE  \E q \in ToSet(table) : Kept(keep, q) /\ q.thread = r.thread /\ q.ts = r.ts
  <2>1. PICK j \in DOMAIN table : r = table[j]
    BY DEF ToSet
  <2>2. PICK i \in DOMAIN table : Kept(keep, table[i]) /\ Key(table[i]) = Key(table[j])
    BY KeptRows
  <2>3. table[i] \in ToSet(table)
    BY DEF ToSet
  <2> QED BY <2>1, <2>2, <2>3, <1>1, OneThread
<1>3. PICK p \in ToSet(table) : p.thread = t /\ p.parses
  BY DEF HasParsed
<1>4. PICK q \in ToSet(table) : Kept(keep, q) /\ q.thread = t
  BY <1>2, <1>3
<1>5. CASE q.parses
  BY <1>4, <1>5 DEF Wanted
<1>6. CASE ~q.parses
  <2>1. PICK a \in ToSet(table) : a.thread = t /\ IsAnchor(a)
    BY <1>1, <1>4, <1>6, ParsedAnchors
  <2>2. PICK b \in ToSet(table) : Kept(keep, b) /\ b.thread = t /\ b.ts = a.ts
    BY <1>2, <2>1
  <2>3. IsAnchor(b)
    BY <2>1, <2>2 DEF IsAnchor
  <2>4. b.parses
    BY <1>1, <2>2, <2>3, ParsedAnchors
  <2> QED BY <2>2, <2>4 DEF Wanted
<1> QED BY <1>5, <1>6

-----------------------------------------------------------------------------
(* Both profiles after a run.                                                *)

\* What holds of a run whatever the team ETL does.
ProfilesBase ==
    /\ SplitInv
    /\ BestIsLatest
    /\ PeopleAreNamed
    /\ ChannelsOK
    /\ WholeDeltas
    /\ FilesHaveRows

\* The rows of a thread that were written.
WantedOf(t) == {r \in ToSet(table) : r.thread = t /\ Wanted(r)}

\* The threads with a file are those of this run, and a file holds the wanted
\* rows of its thread.
LEMMA DoneThreads ==
    ASSUME AnchorsParse, ProfilesBase, stage = "done", NEW t \in Threads
    PROVE  /\ t \in DOMAIN files <=> t \in seen
           /\ t \in seen <=> WantedOf(t) # {}
           /\ ToSet(Content(t)) = {Message(r) : r \in WantedOf(t)}
           /\ t \in seen => Content(t) = files[t] /\ t \in DOMAIN files
           /\ t \notin seen => Content(t) = <<>>
<1> USE DEF ProfilesBase, SplitInv
<1>1. TypeOK /\ seen \subseteq DOMAIN files /\ DOMAIN table = 1..Len(table)
  BY DEF Base, TypeOK
<1>2. Belonging(t) = {Message(r) : r \in WantedOf(t)}
  <2>1. \A i \in 1..Len(table) : Belongs(i, t) <=> table[i] \in WantedOf(t)
    BY <1>1 DEF Belongs, WantedOf, Wanted, ToSet
  <2>2. \A r \in WantedOf(t) : \E i \in 1..Len(table) : r = table[i]
    BY <1>1 DEF WantedOf, ToSet
  <2>3. Streamed = Len(table)
    BY DEF Streamed
  <2> QED BY <2>1, <2>2, <2>3 DEF Belonging
<1>3. t \in seen => ToSet(files[t]) = Belonging(t)
  <2> SUFFICES ASSUME t \in seen PROVE ToSet(files[t]) = Belonging(t)
    OBVIOUS
  <2>1. Lines(t) = files[t]
    BY ClosedLines
  <2> QED BY <2>1 DEF LinesOK
<1>4. t \in seen <=> WantedOf(t) # {}
  <2>1. t \notin seen => Belonging(t) = {}
    BY DEF LinesOK
  <2>2. t \in seen => Belonging(t) # {}
    <3> SUFFICES ASSUME t \in seen PROVE Belonging(t) # {}
      OBVIOUS
    <3>1. Lines(t) = files[t]
      BY ClosedLines
    <3>2. MetaOf(metas, t).first \in ToSet(files[t])
      BY <3>1, SeenAreListed DEF MetasTell, Tells
    <3> QED BY <3>2, <1>3
  <2> QED BY <2>1, <2>2, <1>2
<1>5. t \in DOMAIN files => t \in seen
  <2> SUFFICES ASSUME t \in DOMAIN files PROVE t \in seen
    OBVIOUS
  <2>1. HasParsed(t)
    BY DEF FilesHaveRows
  <2>2. WantedOf(t) # {}
    BY <2>1, ParsedKept DEF WantedOf
  <2> QED BY <2>2, <1>4
<1>6. t \in seen => Content(t) = files[t] /\ t \in DOMAIN files
  BY <1>1 DEF Content
<1>7. t \notin seen => Content(t) = <<>> /\ ToSet(<<>>) = {}
  BY <1>5 DEF Content, ToSet
<1> QED BY <1>1, <1>2, <1>3, <1>4, <1>5, <1>6, <1>7

\* The directories split writes.
LEMMA DoneDirectories ==
    ASSUME ProfilesBase, stage = "done"
    PROVE  /\ channelsJson = LoadChannels(Accounts)
           /\ usersJson = Named(ParsedRows(table), table)
           /\ usersJson = people
<1> USE DEF ProfilesBase, SplitInv
<1>1. TypeOK /\ Streamed = Len(table)
  BY DEF Base, Streamed
<1>2. Scan(Streamed) = table
  BY <1>1, ScanRows
<1> QED BY <1>2 DEF ChannelsOK, IndexOK, PeopleAreNamed

\* The rows the team ETL indexes.
LEMMA DoneRows ==
    ASSUME ProfilesBase, stage = "done"
    PROVE  /\ \A r \in IndexedRows(table) : r.thread \in Threads /\ Included(Channel[r.thread])
           /\ \A t \in Threads : {r \in IndexedRows(table) : r.thread = t}
                                    = IF Included(Channel[t]) THEN WantedOf(t) ELSE {}
<1> USE DEF ProfilesBase, SplitInv
<1>1. TypeOK
  BY DEF Base
<1>2. \A r \in ToSet(table) : r.thread \in Threads
  BY <1>1, RowFields DEF ToSet
<1>3. IndexedRows(table) = {r \in ToSet(table) : Wanted(r) /\ Included(Channel[r.thread])}
  BY <1>1, BestOfTable
<1> QED BY <1>2, <1>3 DEF WantedOf

\* The documents the two profiles index for search are the same.
LEMMA DoneSearch ==
    ASSUME AnchorsParse, ProfilesBase, stage = "done"
    PROVE  PersonalSearch(Include) = TeamSearch(table)
<1> DEFINE users == Named(ParsedRows(table), table)
           name(t) == ChannelName(Channel[t], LoadChannels(Accounts))
           doc(t, m) == <<t, m, ResolveAuthor(m[3], users), name(t)>>
           documents(t) == {doc(t, m) : m \in ToSet(Content(t))}
           shown == {t \in Threads : Included(Channel[t])}
<1>1. PersonalSearch(Include) = UNION {documents(t) : t \in shown}
  BY DoneDirectories DEF PersonalSearch, Included
<1>2. TeamSearch(table) = {doc(r.thread, Message(r)) : r \in IndexedRows(table)}
  <2>1. \A r : Message(r)[3] = r.from
    BY DEF Message
  <2> QED BY <2>1 DEF TeamSearch
<1>3. \A t \in shown :
         ToSet(Content(t)) = {Message(r) : r \in {q \in IndexedRows(table) : q.thread = t}}
  BY DoneThreads, DoneRows
<1> HIDE DEF doc
<1>4. ASSUME NEW x \in PersonalSearch(Include) PROVE x \in TeamSearch(table)
  <2>1. PICK t \in shown : x \in documents(t)
    BY <1>1
  <2>2. PICK m \in ToSet(Content(t)) : x = doc(t, m)
    BY <2>1
  <2>3. PICK r \in IndexedRows(table) : r.thread = t /\ m = Message(r)
    BY <1>3, <2>2
  <2> QED BY <1>2, <2>2, <2>3
<1>5. ASSUME NEW x \in TeamSearch(table) PROVE x \in PersonalSearch(Include)
  <2>1. PICK r \in IndexedRows(table) : x = doc(r.thread, Message(r))
    BY <1>2
  <2>2. r.thread \in shown
    BY DoneRows
  <2>3. Message(r) \in ToSet(Content(r.thread))
    BY <2>2, <1>3
  <2>4. x \in documents(r.thread)
    BY <2>1, <2>3
  <2> QED BY <1>1, <2>2, <2>4
<1> QED BY <1>4, <1>5

-----------------------------------------------------------------------------
(* The metadata and the names of the team ETL, while split streams.          *)

\* Two directories say the same of an id.
Same(u, v, b) == (b \in DOMAIN u <=> b \in DOMAIN v) /\ (b \in DOMAIN u => u[b] = v[b])

\* They still do when both are told one name more,
LEMMA SeedSame ==
    ASSUME NEW u, NEW v, NEW b, NEW id, NEW name, Same(u, v, b)
    PROVE  Same(Seed(u, id, name), Seed(v, id, name), b)
  BY DEF Same, Seed, Put

\* or the bots of one message more,
LEMMA CollectSame ==
    ASSUME NEW u, NEW v, NEW b, NEW q, Same(u, v, b)
    PROVE  Same(CollectBot(u, q), CollectBot(v, q), b)
  BY SeedSame DEF CollectBot

\* or one of them those of a message that has no such bot.
LEMMA CollectOther ==
    ASSUME NEW u, NEW b, NEW q, b \notin DOMAIN CollectBot(<<>>, q)
    PROVE  Same(CollectBot(u, q), u, b)
<1>1. ASSUME NEW d, NEW v, NEW id, NEW name, b \notin DOMAIN Seed(d, id, name),
             d = <<>> \/ id \notin DOMAIN d
      PROVE  b \notin DOMAIN d /\ Same(Seed(v, id, name), v, b)
  BY <1>1 DEF Same, Seed, Put
<1> DEFINE one(d) == Seed(d, BotOf(q), q.profile)
<1>2. CASE q.added = None
  <2>1. b \notin DOMAIN one(<<>>) /\ CollectBot(u, q) = one(u)
    BY <1>2 DEF CollectBot
  <2> HIDE DEF one
  <2> QED BY <2>1, <1>1 DEF one
<1>3. CASE q.added # None
  <2> DEFINE two(d) == Seed(d, q.added.bot, q.added.name)
  <2>1. b \notin DOMAIN two(one(<<>>)) /\ CollectBot(u, q) = two(one(u))
    BY <1>3 DEF CollectBot
  <2>2. b \notin DOMAIN one(<<>>)
    BY <2>1 DEF Seed, Put
  <2>3. Same(one(u), u, b)
    BY <2>2, <1>1
  <2>4. Same(two(one(u)), one(u), b)
    <3>1. CASE None \in {q.added.bot, q.added.name}
      BY <3>1 DEF Same, Seed
    <3>2. CASE None \notin {q.added.bot, q.added.name}
      <4>1. b # q.added.bot
        BY <3>2, <2>1, <2>2 DEF Seed, Put
      <4> HIDE DEF one
      <4> QED BY <4>1 DEF Same, Seed, Put
    <3> QED BY <3>1, <3>2
  <2> HIDE DEF one, two
  <2> QED BY <2>1, <2>3, <2>4 DEF Same
<1> QED BY <1>2, <1>3

\* What the team ETL knows of the rows streamed.
TeamRead == MetasAfter(IndexedRows(table), Scan(Streamed))
TeamNames == Named(IndexedRows(table), Scan(Streamed))

\* An id that no row of an excluded kind names.
NotElsewhere(b) ==
    \A r \in ToSet(table) : ~Included(Channel[r.thread]) => b \notin DOMAIN CollectBot(<<>>, r.from)

\* The threads with a line.
Begun == {t \in seen : MetaOf(metas, t).first # NoFirst}

\* Split has begun the threads the team ETL has met, knows the same of them, and
\* has the same names for the ids that only included rows tell.
TeamAlike ==
    stage \notin {"idle", "light"} =>
        /\ DOMAIN TeamRead = {t \in Begun : Included(Channel[t])}
        /\ \A t : Included(Channel[t]) /\ HasParsed(t) => MetaOf(metas, t) = MetaOf(TeamRead, t)
        /\ \A b : NotElsewhere(b) => Same(people, TeamNames, b)

\* Nothing is read before a run.
LEMMA TeamInit == Init => TeamAlike
  BY DEF Init, TeamAlike

\* Both start from the accounts and no thread.
LEMMA TeamBegins ==
    ASSUME Base, BestIsLatest, PeopleAreNamed, MetasTell, EndOfLight PROVE TeamAlike'
<1>1. /\ Streamed' = 0 /\ people' = Accounts /\ table' = table /\ stage' = "stream"
      /\ metas' = <<>> /\ seen' = {}
  BY DEF EndOfLight, Streamed, PeopleAreNamed, MetasTell, Base, HandlesClosed
<1>2. Scan(0) = <<>>
  BY ScanRows DEF Base
<1>3. TeamRead' = <<>> /\ TeamNames' = Accounts
  BY <1>1, <1>2, MetasSteps, NamedSteps DEF TeamRead, TeamNames, Scan
<1> QED BY <1>1, <1>3 DEF TeamAlike, Same, Begun

\* A line makes a first one.
LEMMA CountedFirst ==
    ASSUME TypeOK, NEW i \in DOMAIN table
    PROVE  LET r == table[i]
               m == Flagged(MetaOf(metas, r.thread), r)
           IN  Counted(m, r).first # NoFirst
<1> DEFINE r == table[i]
           m == Flagged(MetaOf(metas, r.thread), r)
           first == IF IsAnchor(r) \/ m.first = NoFirst THEN Message(r) ELSE m.first
<1>1. m \in Metas
  BY StreamedMeta
<1>2. Message(r) # NoFirst
  <2>1. Message(r) \in Messages
    BY RowFields
  <2> QED BY <2>1, RowFields
<1> HIDE DEF m, r
<1>3. first # NoFirst
  BY <1>2
<1>4. Counted(m, r) = [m EXCEPT !.count = m.count + 1, !.first = first]
  BY DEF Counted
<1> HIDE DEF first
<1>5. Counted(m, r).first = first
  BY <1>1, <1>4 DEF Metas
<1> QED BY <1>3, <1>5 DEF m, r

\* A row read by both: one neither wants (a corrupt newest copy may flag the
\* thread, and split keeps that, but then it is no anchor), one both index, and
\* one only split does.
LEMMA TeamStream ==
    ASSUME AnchorsParse, Base, BestIsLatest, WholeDeltas, TeamAlike, StreamRow
    PROVE  TeamAlike'
<1> DEFINE r == table[pos]
           t == r.thread
           m == Flagged(MetaOf(metas, t), r)
<1>1. /\ pos \in DOMAIN table /\ r \in Rows /\ Scan(Streamed) \in Seq(Rows)
      /\ table' = table /\ Scan(Streamed)' = Append(Scan(Streamed), r) /\ r \in ToSet(table)
  BY StreamedRow DEF Base, ToSet
<1>2. stage = "stream" /\ stage' = "stream"
  BY DEF StreamRow
<1>3. IndexedRows(table) = {q \in ToSet(table) : Wanted(q) /\ Included(Channel[q.thread])}
  BY <1>2, BestOfTable DEF Base
<1>4. /\ TeamRead' = Scanned(IndexedRows(table), TeamRead, r)
      /\ TeamNames' = Met(IndexedRows(table), TeamNames, r)
  BY <1>1, MetasSteps, NamedSteps DEF TeamRead, TeamNames
<1>5. /\ \A u : HasParsed(u)' <=> HasParsed(u)
      /\ \A b : NotElsewhere(b)' <=> NotElsewhere(b)
  BY <1>1 DEF HasParsed, NotElsewhere
<1>6. /\ m.first = MetaOf(metas, t).first /\ Counted(m, r).first # NoFirst
  BY <1>1, StreamedMeta, CountedFirst DEF Base
<1>7. CASE ~Wanted(r)
  <2>1. TeamRead' = TeamRead /\ TeamNames' = TeamNames
    BY <1>3, <1>4, <1>7 DEF Scanned, Met
  <2>2. /\ seen' = seen /\ people' = people
        /\ metas' = metas \/ (metas' = Put(metas, t, m) /\ ~r.parses)
    BY <1>7 DEF StreamRow, Wanted
  <2>3. ASSUME NEW u, HasParsed(u) PROVE MetaOf(metas', u) = MetaOf(metas, u)
    <3>1. CASE metas' = metas
      BY <3>1
    <3>2. CASE metas' = Put(metas, t, m) /\ ~r.parses
      <4>1. u = t => m = MetaOf(metas, t)
        <5>1. u = t => ~IsAnchor(r)
          BY <1>1, <2>3, <3>2, ParsedAnchors DEF Base
        <5> QED BY <5>1 DEF Flagged
      <4> HIDE DEF t, m
      <4>2. MetaOf(Put(metas, t, m), u) = IF u = t THEN m ELSE MetaOf(metas, u)
        BY DEF MetaOf, Put
      <4> QED BY <4>1, <4>2, <3>2
    <3> QED BY <3>1, <3>2, <2>2
  <2>4. \A u : MetaOf(metas', u).first = MetaOf(metas, u).first
    <3> HIDE DEF t, m
    <3>1. CASE metas' = metas
      BY <3>1
    <3>2. CASE metas' = Put(metas, t, m)
      BY <3>2, <1>6 DEF MetaOf, Put
    <3> QED BY <3>1, <3>2, <2>2
  <2>5. Begun' = Begun
    BY <2>2, <2>4 DEF Begun
  <2> QED BY <1>2, <1>5, <2>1, <2>2, <2>3, <2>5 DEF TeamAlike
<1>8. CASE Wanted(r)
  <2>1. /\ seen' = seen /\ people' = CollectBot(people, r.from)
        /\ metas' = Put(metas, t, Counted(m, r)) /\ t \in seen
    <3>1. /\ seen' = seen /\ people' = CollectBot(people, r.from)
          /\ metas' = Put(metas, t, Counted(m, r)) /\ t \in ToSet(open)
      BY <1>8 DEF StreamRow, Write, Wanted
    <3>2. ToSet(open) \subseteq seen
      BY DEF Base, TypeOK, ToSet
    <3> QED BY <3>1, <3>2
  <2>2. \A u : MetaOf(metas', u) = IF u = t THEN Counted(m, r) ELSE MetaOf(metas, u)
    <3> DEFINE v == Counted(m, r)
    <3> HIDE DEF t, v
    <3>1. metas' = Put(metas, t, v)
      BY <2>1 DEF v
    <3>2. \A u : MetaOf(metas', u) = IF u = t THEN v ELSE MetaOf(metas, u)
      BY <3>1 DEF MetaOf, Put
    <3> QED BY <3>2 DEF v
  <2>3. Begun' = Begun \cup {t}
    <3> HIDE DEF t, m, r
    <3> QED BY <1>6, <2>1, <2>2 DEF Begun
  <2>4. CASE Included(Channel[t])
    <3>1. /\ TeamRead' = Put(TeamRead, t, Counted(Flagged(MetaOf(TeamRead, t), r), r))
          /\ TeamNames' = CollectBot(TeamNames, r.from)
      BY <1>1, <1>3, <1>4, <1>8, <2>4 DEF Scanned, Met
    <3>2. HasParsed(t)
      BY <1>1, <1>8 DEF HasParsed, Wanted
    <3>3. MetaOf(TeamRead, t) = MetaOf(metas, t)
      BY <1>2, <2>4, <3>2 DEF TeamAlike
    <3>4. /\ \A u : MetaOf(TeamRead', u)
                       = IF u = t THEN Counted(Flagged(MetaOf(TeamRead, t), r), r)
                         ELSE MetaOf(TeamRead, u)
          /\ DOMAIN TeamRead' = DOMAIN TeamRead \cup {t}
      <4> DEFINE v == Counted(Flagged(MetaOf(TeamRead, t), r), r)
                 new == TeamRead'
                 old == TeamRead
      <4>0. new = Put(old, t, v)
        BY <3>1
      <4> HIDE DEF t, v, new, old
      <4>1. /\ \A u : MetaOf(new, u) = IF u = t THEN v ELSE MetaOf(old, u)
            /\ DOMAIN new = DOMAIN old \cup {t}
        BY <4>0 DEF MetaOf, Put
      <4> QED BY <4>1 DEF v, new, old
    <3>5. DOMAIN TeamRead' = {u \in Begun' : Included(Channel[u])}
      BY <1>2, <2>4, <2>3, <3>4 DEF TeamAlike
    <3>6. ASSUME NEW u, Included(Channel[u]), HasParsed(u)
          PROVE  MetaOf(metas', u) = MetaOf(TeamRead', u)
      <4>1. CASE u = t
        BY <4>1, <2>2, <3>4, <3>3
      <4>2. CASE u # t
        BY <4>2, <1>2, <2>2, <3>4, <3>6 DEF TeamAlike
      <4> QED BY <4>1, <4>2
    <3>7. ASSUME NEW b, NotElsewhere(b) PROVE Same(people', TeamNames', b)
      BY <1>2, <2>1, <3>1, <3>7, CollectSame DEF TeamAlike
    <3> QED BY <1>2, <1>5, <3>5, <3>6, <3>7 DEF TeamAlike
  <2>5. CASE ~Included(Channel[t])
    <3>1. TeamRead' = TeamRead /\ TeamNames' = TeamNames
      BY <1>3, <1>4, <2>5 DEF Scanned, Met
    <3>2. DOMAIN TeamRead' = {u \in Begun' : Included(Channel[u])}
      BY <1>2, <2>5, <2>3, <3>1 DEF TeamAlike
    <3>3. ASSUME NEW u, Included(Channel[u]), HasParsed(u)
          PROVE  MetaOf(metas', u) = MetaOf(TeamRead', u)
      <4>1. u # t
        BY <2>5, <3>3
      <4> QED BY <1>2, <2>2, <3>1, <3>3, <4>1 DEF TeamAlike
    <3>4. ASSUME NEW b, NotElsewhere(b) PROVE Same(people', TeamNames', b)
      <4>1. b \notin DOMAIN CollectBot(<<>>, r.from)
        BY <1>1, <2>5, <3>4 DEF NotElsewhere
      <4>2. Same(people', people, b)
        BY <2>1, <4>1, CollectOther
      <4>3. Same(people, TeamNames, b)
        BY <1>2, <3>4 DEF TeamAlike
      <4> QED BY <3>1, <4>2, <4>3 DEF Same
    <3> QED BY <1>2, <1>5, <3>2, <3>3, <3>4 DEF TeamAlike
  <2> QED BY <2>4, <2>5
<1> QED BY <1>7, <1>8

\* No other step reads a row.
LEMMA TeamStep ==
    ASSUME AnchorsParse, Base, BestIsLatest, PeopleAreNamed, MetasTell, WholeDeltas, TeamAlike,
           [Next]_vars
    PROVE  TeamAlike'
<1>1. CASE stage' \in {"idle", "light"}
  BY <1>1 DEF TeamAlike
<1>2. CASE EndOfLight
  BY <1>2, TeamBegins
<1>3. CASE StreamRow
  BY <1>3, TeamStream
<1>4. ASSUME UNCHANGED <<table, people, metas, seen>>, Streamed' = Streamed,
             stage \notin {"idle", "light"}
      PROVE  TeamAlike'
  <2>1. TeamRead' = TeamRead /\ TeamNames' = TeamNames
    BY <1>4 DEF TeamRead, TeamNames, Scan
  <2>2. /\ \A u : HasParsed(u)' <=> HasParsed(u)
        /\ \A b : NotElsewhere(b)' <=> NotElsewhere(b)
    BY <1>4 DEF HasParsed, NotElsewhere
  <2> QED BY <1>4, <2>1, <2>2 DEF TeamAlike, Begun
<1>5. TypeOK
  BY DEF Base
<1>6. CASE EndOfStream \/ EndOfTidy \/ WriteUsers \/ WriteChannels \/ Done
  <2>1. /\ UNCHANGED <<table, people, metas, seen>> /\ stage \notin {"idle", "light"}
        /\ stage' \notin {"idle", "light"}
        /\ EndOfStream \/ (stage # "stream" /\ stage' # "stream")
    BY <1>6 DEF EndOfStream, EndOfTidy, WriteUsers, WriteChannels, Done, run
  <2> QED BY <2>1, <1>4, <1>5, StreamedSame
<1>7. ASSUME NEW t \in Threads, Tidy(t) PROVE TeamAlike'
  BY <1>4, <1>5, <1>7, StreamedSame DEF Tidy, run
<1>8. ASSUME NEW c \in Channels, WriteIndex(c) PROVE TeamAlike'
  BY <1>4, <1>5, <1>8, StreamedSame DEF WriteIndex, run
<1>9. CASE UNCHANGED vars
  <2>1. CASE stage \in {"idle", "light"}
    BY <1>1, <1>9, <2>1 DEF vars
  <2>2. CASE stage \notin {"idle", "light"}
    BY <1>4, <1>9, <2>2 DEF vars, Streamed
  <2> QED BY <2>1, <2>2
<1>10. CASE Grow \/ Crash \/ Begin \/ LightRow
  BY <1>1, <1>10 DEF Grow, Crash, Begin, LightRow
<1>11. CASE OpenHandle
  <2>1. /\ UNCHANGED <<table, people, metas, stage, pos>> /\ stage = "stream"
    BY <1>11 DEF OpenHandle
  <2>2. PICK t \in Threads : seen' = seen \cup {t}
    BY <1>11, OpenLines DEF Base
  <2>3. t \notin seen => MetaOf(metas, t).first = NoFirst
    BY <2>1 DEF MetasTell, Tells
  <2>4. Begun' = Begun
    <3>1. \A u : MetaOf(metas', u) = MetaOf(metas, u)
      BY <2>1
    <3> QED BY <2>2, <2>3, <3>1 DEF Begun
  <2>5. TeamRead' = TeamRead /\ TeamNames' = TeamNames
    BY <2>1 DEF TeamRead, TeamNames, Scan, Streamed
  <2>6. /\ \A u : HasParsed(u)' <=> HasParsed(u)
        /\ \A b : NotElsewhere(b)' <=> NotElsewhere(b)
    BY <2>1 DEF HasParsed, NotElsewhere
  <2> QED BY <2>1, <2>4, <2>5, <2>6 DEF TeamAlike
<1>12. CASE CloseOldest
  <2>1. stage = "stream"
    BY <1>12, CloseLines DEF Base
  <2> QED BY <2>1, <1>4, <1>12 DEF CloseOldest, Streamed
<1> QED BY <1>2, <1>3, <1>6, <1>7, <1>8, <1>9, <1>10, <1>11, <1>12 DEF Next

\* The index of a channel lists threads of it.
IndexOwn == \A c \in Channels : \A e \in index[c] : e.thread \in Threads /\ Channel[e.thread] = c

\* A line of it is of a meta of the channel, a crash within the write included.
LEMMA OwnStep == ASSUME Base, IndexOwn, [Next]_vars PROVE IndexOwn'
<1>1. CASE index' = index
  BY <1>1 DEF IndexOwn
<1>2. ASSUME NEW c \in Channels, NEW lines \in SUBSET IndexLines(c),
             index' = [index EXCEPT ![c] = lines]
      PROVE  IndexOwn'
  <2>1. DOMAIN metas \subseteq Threads /\ DOMAIN index = Channels
    BY DEF Base, TypeOK
  <2>2. \A e \in lines : e.thread \in Threads /\ Channel[e.thread] = c
    <3> SUFFICES ASSUME NEW e \in lines PROVE e.thread \in Threads /\ Channel[e.thread] = c
      OBVIOUS
    <3>1. PICK t \in DOMAIN metas : Channel[t] = c /\ e = Entry(t, metas[t], people)
      BY <1>2 DEF IndexLines
    <3> QED BY <2>1, <3>1 DEF Entry
  <2> QED BY <1>2, <2>1, <2>2 DEF IndexOwn
<1>3. ASSUME NEW c \in Channels, WriteIndex(c) PROVE IndexOwn'
  <2>1. index' = [index EXCEPT ![c] = IndexLines(c)]
    BY <1>3 DEF WriteIndex
  <2> QED BY <2>1, <1>2
<1>4. CASE Crash
  <2>1. \/ index' = index
        \/ \E c \in todo : \E lines \in SUBSET IndexLines(c) : index' = [index EXCEPT ![c] = lines]
    BY <1>4 DEF Crash, CrashStream, CrashTidy, CrashIndex
  <2>2. ASSUME NEW c \in todo, NEW lines \in SUBSET IndexLines(c), c \notin Channels,
               index' = [index EXCEPT ![c] = lines]
        PROVE  IndexOwn'
    <3>1. DOMAIN index = Channels
      BY DEF Base, TypeOK
    <3>2. \A d \in Channels : index'[d] = index[d]
      BY <2>2, <3>1
    <3> QED BY <3>2 DEF IndexOwn
  <2> QED BY <1>1, <1>2, <2>1, <2>2
<1>5. ASSUME NEW t \in Threads, Tidy(t) PROVE IndexOwn'
  BY <1>1, <1>5 DEF Tidy, directories
<1>6. CASE \/ Grow \/ Begin \/ LightRow \/ EndOfLight \/ OpenHandle \/ CloseOldest \/ StreamRow
           \/ EndOfStream \/ EndOfTidy \/ WriteUsers \/ WriteChannels \/ Done \/ UNCHANGED vars
  BY <1>1, <1>6 DEF Grow, Begin, LightRow, EndOfLight, OpenHandle, CloseOldest, StreamRow,
     EndOfStream, EndOfTidy, WriteUsers, WriteChannels, Done, vars, directories
<1> QED BY <1>3, <1>4, <1>5, <1>6 DEF Next

\* An index with half a line is of a channel with a thread that this archive
\* writes.
TornRows == \A c \in tornIndex : \E t \in Threads : Channel[t] = c /\ HasParsed(t)

\* The table loses no row, and the index that was being written has a thread.
LEMMA TornRowsStep ==
    ASSUME Base, WholeDeltas, FilesHaveRows, TornRows, [Next]_vars
    PROVE  TornRows'
<1>1. \A t : HasParsed(t) => HasParsed(t)'
  <2>1. CASE Grow
    <3>1. ToSet(table) \subseteq ToSet(table')
      <4>1. PICK d \in Deltas : table' \in {table \o Loaded(d, deltas'), Loaded(d, deltas') \o table}
        BY <2>1 DEF Grow
      <4>2. PICK load \in Nat : load = deltas'
        BY <2>1, SplitAssumption DEF Grow, Base, TypeOK
      <4>3. Loaded(d, load) \in Seq(Rows) /\ table \in Seq(Rows)
        BY LoadedRows DEF Base, TypeOK
      <4>4. /\ ToSet(table \o Loaded(d, load)) = ToSet(table) \cup ToSet(Loaded(d, load))
            /\ ToSet(Loaded(d, load) \o table) = ToSet(Loaded(d, load)) \cup ToSet(table)
        BY <4>3, ConcatLines
      <4> QED BY <4>1, <4>2, <4>4
    <3> QED BY <3>1 DEF HasParsed
  <2>2. CASE ~Grow
    <3>1. table' = table
      BY <2>2 DEF Next, vars, Begin, LightRow, EndOfLight, OpenHandle, CloseOldest, StreamRow,
                  EndOfStream, Tidy, EndOfTidy, WriteUsers, WriteChannels, WriteIndex, Done, Crash
    <3> QED BY <3>1 DEF HasParsed
  <2> QED BY <2>1, <2>2
<1>2. tornIndex' \subseteq tornIndex \/ \E c \in todo : tornIndex' \subseteq tornIndex \cup {c}
                                                   /\ IndexLines(c) # {}
  <2>1. CASE Crash
    BY <2>1 DEF Crash, CrashStream, CrashTidy, CrashIndex, tears
  <2>2. ASSUME NEW c \in Channels, WriteIndex(c) PROVE tornIndex' \subseteq tornIndex
    BY <2>2 DEF WriteIndex
  <2>3. CASE ~Crash /\ ~\E c \in Channels : WriteIndex(c)
    BY <2>3 DEF Next, vars, tears, Grow, Begin, LightRow, EndOfLight, OpenHandle, CloseOldest,
                StreamRow, EndOfStream, Tidy, EndOfTidy, WriteUsers, WriteChannels, Done
  <2> QED BY <2>1, <2>2, <2>3
<1>3. ASSUME NEW c, IndexLines(c) # {} PROVE \E t \in Threads : Channel[t] = c /\ HasParsed(t)
  <2>1. PICK t \in DOMAIN metas : Channel[t] = c /\ metas[t].first # NoFirst
    BY <1>3 DEF IndexLines
  <2>2. t \in Threads /\ t \in DOMAIN files
    BY <2>1 DEF Base, TypeOK, MetasOK
  <2> QED BY <2>1, <2>2 DEF FilesHaveRows
<1>4. \A c \in tornIndex' : \E t \in Threads : Channel[t] = c /\ HasParsed(t)
  BY <1>2, <1>3 DEF TornRows
<1> QED BY <1>1, <1>4 DEF TornRows

\* The inductive invariant.
ProfilesInv == ProfilesBase /\ TeamAlike /\ IndexOwn /\ TornRows

\* The threads of a channel and what is known of them, after a run.
LEMMA DoneMetas ==
    ASSUME AnchorsParse, ProfilesInv, stage = "done"
    PROVE  /\ DOMAIN TeamMeta(table) = {t \in seen : Included(Channel[t])}
           /\ \A t \in seen : Included(Channel[t]) =>
                 /\ TeamMeta(table)[t] = metas[t]
                 /\ t \in DOMAIN metas /\ metas[t].first \in Messages
           /\ \A t \in DOMAIN metas : metas[t].first # NoFirst => t \in seen
           /\ seen \subseteq Threads
<1> USE DEF ProfilesInv, ProfilesBase, SplitInv
<1>1. TypeOK /\ Streamed = Len(table) /\ seen \subseteq Threads /\ DOMAIN metas \subseteq Threads
  BY DEF Base, TypeOK, Streamed
<1>2. TeamMeta(table) = TeamRead
  BY <1>1, ScanRows DEF TeamRead, TeamMeta, MetasAfter
<1>3. \A t \in seen : HasParsed(t)
  BY <1>1 DEF FilesHaveRows, TypeOK
<1>4. ASSUME NEW t \in seen
      PROVE  t \in DOMAIN metas /\ metas[t].first \in Messages /\ MetaOf(metas, t) = metas[t]
  <2>1. t \in DOMAIN metas /\ MetaOf(metas, t) = metas[t] /\ metas[t].first # NoFirst
    BY SeenAreListed
  <2>2. metas[t].first \in Messages
    BY <1>1, <2>1 DEF TypeOK, Metas
  <2> QED BY <2>1, <2>2
<1>5. DOMAIN TeamMeta(table) = {t \in seen : Included(Channel[t])}
  <2>1. Begun = seen
    BY SeenAreListed DEF Begun
  <2> QED BY <1>2, <2>1 DEF TeamAlike
<1>6. ASSUME NEW t \in seen, Included(Channel[t]) PROVE TeamMeta(table)[t] = metas[t]
  <2>1. t \in DOMAIN TeamRead /\ MetaOf(metas, t) = MetaOf(TeamRead, t)
    BY <1>2, <1>3, <1>5, <1>6 DEF TeamAlike
  <2> QED BY <1>2, <1>4, <2>1 DEF MetaOf
<1>7. ASSUME NEW t \in DOMAIN metas, metas[t].first # NoFirst PROVE t \in seen
  <2>1. MetaOf(metas, t) = metas[t]
    BY DEF MetaOf
  <2> QED BY <1>1, <1>7, <2>1 DEF MetasTell, Tells
<1> QED BY <1>1, <1>4, <1>5, <1>6, <1>7

\* No half line is left to read: what a killed run tore has rows, and so this run
\* has written it.
LEMMA DoneUntorn ==
    ASSUME AnchorsParse, ProfilesInv, stage = "done"
    PROVE  torn = {} /\ tornIndex = {}
<1> USE DEF ProfilesInv, ProfilesBase, SplitInv
<1>1. torn \subseteq DOMAIN files /\ DOMAIN files \subseteq Threads
  BY DEF Base, TypeOK
<1>2. torn = {}
  <2>1. torn \subseteq seen
    BY <1>1, DoneThreads
  <2> QED BY <2>1 DEF TornOK
<1>3. ASSUME NEW c \in tornIndex PROVE FALSE
  <2>1. PICK t \in Threads : Channel[t] = c /\ HasParsed(t)
    BY DEF TornRows
  <2>2. WantedOf(t) # {}
    BY <2>1, ParsedKept DEF WantedOf
  <2>3. t \in seen
    BY <2>2, DoneThreads
  <2> QED BY <2>1, <2>3 DEF TornOK
<1> QED BY <1>2, <1>3

\* The home pages of the two profiles show the same channels and counts.
LEMMA DoneGroups ==
    ASSUME AnchorsParse, ProfilesInv, stage = "done"
    PROVE  {g \in JsonlGroups(Include) : g.id \in DOMAIN ChannelRows} = TeamGroups(table, Include)
<1> DEFINE channels == LoadChannels(Accounts)
           written(c) == {t \in Threads : Channel[t] = c /\ t \in DOMAIN files}
           group(c, n) == [id |-> c, kind |-> KindOf(c, channels),
                           name |-> ChannelName(c, channels), threads |-> n]
           count(c) == Cardinality(written(c))
<1>1. ProfilesBase
  BY DEF ProfilesInv
<1>2. \A c : Included(c) => written(c) = {t \in DOMAIN TeamMeta(table) : Channel[t] = c}
  BY <1>1, DoneThreads, DoneMetas
<1>3. \A c : count(c) \in Nat /\ (count(c) > 0 <=> written(c) # {})
  <2> SUFFICES ASSUME NEW c PROVE count(c) \in Nat /\ (count(c) > 0 <=> written(c) # {})
    OBVIOUS
  <2>1. IsFiniteSet(written(c))
    <3>1. written(c) \subseteq Threads
      OBVIOUS
    <3> QED BY <3>1, ArchiveAssumption, FS_Subset
  <2>2. count(c) \in Nat /\ (count(c) = 0 <=> written(c) = {})
    BY <2>1, FS_CardinalityType, FS_EmptySet
  <2> QED BY <2>2
<1>4. JsonlGroups(Include)
        = {group(c, count(c)) : c \in {d \in Channels : written(d) # {} /\ Included(d)}}
  BY <1>1, DoneDirectories DEF JsonlGroups, GlobalGroups, Included
<1>5. TeamChannels(table)
        = [c \in {d \in DOMAIN ChannelRows : Included(d) /\ count(d) > 0} |-> count(c)]
  BY <1>2 DEF TeamChannels
<1>6. TeamGroups(table, Include)
        = {group(c, count(c)) : c \in {d \in DOMAIN ChannelRows : Included(d) /\ count(d) > 0}}
  BY <1>5 DEF TeamGroups, GlobalGroups, Included
<1>7. \A c, n : group(c, n).id = c
  OBVIOUS
<1> HIDE DEF group, count, written
<1>8. {d \in DOMAIN ChannelRows : Included(d) /\ count(d) > 0}
        = {d \in Channels : written(d) # {} /\ Included(d) /\ d \in DOMAIN ChannelRows}
  BY <1>3, DirectoriesAssumption
<1> QED BY <1>4, <1>6, <1>7, <1>8

\* Where a sender's ids are known to both profiles from the same rows, so is the
\* name he is shown with.
LEMMA DoneAuthors ==
    ASSUME PeopleAreNoBots, ProfilesInv, stage = "done", NEW from \in Senders
    PROVE  Shown(ResolveAuthor(from, usersJson), from)
              = Shown(ResolveAuthor(from, TeamUsers(table)), from)
<1> USE DEF ProfilesInv, ProfilesBase, SplitInv
<1>1. TypeOK /\ Streamed = Len(table)
  BY DEF Base, Streamed
<1>2. TeamUsers(table) = TeamNames /\ usersJson = people
  BY <1>1, ScanRows, DoneDirectories DEF TeamNames, TeamUsers
<1>3. CASE NamedElsewhere(from)
  BY <1>3 DEF Shown
<1>4. CASE ~NamedElsewhere(from)
  <2>1. NotElsewhere(from.bot)
    BY <1>4 DEF NamedElsewhere, NotElsewhere
  <2>2. NotElsewhere(from.user)
    <3>1. table \in Seq(Rows)
      BY <1>1 DEF TypeOK
    <3>2. ToSet(table) \subseteq Rows
      BY <3>1 DEF ToSet
    <3>3. \A r \in ToSet(table) : r.from \in Senders
      BY <3>2 DEF Rows
    <3> QED BY <3>3 DEF PeopleAreNoBots, NotElsewhere
  <2>3. /\ Same(people, TeamNames, from.bot) /\ Same(people, TeamNames, from.user)
    BY <2>1, <2>2 DEF TeamAlike
  <2>4. /\ Lookup(people, from.bot) = Lookup(TeamNames, from.bot)
        /\ Lookup(people, from.user) = Lookup(TeamNames, from.user)
    BY <2>3 DEF Lookup, Same
  <2>5. ResolveAuthor(from, people) = ResolveAuthor(from, TeamNames)
    BY <2>4 DEF ResolveAuthor
  <2> QED BY <1>2, <2>5
<1> QED BY <1>3, <1>4

\* The sender in a line.
LEMMA LineSender == ASSUME TypeOK, NEW m \in Messages PROVE m[3] \in Senders /\ m[1] \in Nat
<1>1. PICK i \in DOMAIN table : m = Message(table[i])
  BY DEF Messages
<1>2. table[i] \in Rows
  BY DEF TypeOK
<1> QED BY <1>1, <1>2 DEF Message, Rows

\* The channel pages.
LEMMA DoneChannelPage ==
    ASSUME AnchorsParse, PeopleAreNoBots, ProfilesInv, stage = "done",
           NEW c \in Channels, Included(c)
    PROVE  {[e EXCEPT !.author = Shown(@, e.first[3])] : e \in index[c]}
              = {[e EXCEPT !.author = Shown(@, e.first[3])] : e \in TeamThreadMeta(table, c)}
<1> USE DEF ProfilesInv, ProfilesBase, SplitInv
<1> DEFINE those == {t \in seen : Channel[t] = c}
           row(e) == [e EXCEPT !.author = Shown(@, e.first[3])]
<1>1. TypeOK
  BY DEF Base
<1>2. /\ those \subseteq Threads
      /\ {t \in DOMAIN TeamMeta(table) : Channel[t] = c} = those
      /\ {t \in DOMAIN metas : Channel[t] = c /\ metas[t].first # NoFirst} = those
      /\ \A t \in those : TeamMeta(table)[t] = metas[t] /\ metas[t].first \in Messages
  BY <1>1, DoneMetas, RowFields
<1>3. TeamThreadMeta(table, c) = {Entry(t, metas[t], TeamUsers(table)) : t \in those}
  BY <1>2 DEF TeamThreadMeta
<1>4. index[c] = {Entry(t, metas[t], people) : t \in those}
  <2>1. IndexLines(c) = {Entry(t, metas[t], people) : t \in those}
    BY <1>2 DEF IndexLines
  <2>2. CASE IndexLines(c) # {}
    BY <2>1, <2>2 DEF IndexOK
  <2>3. CASE IndexLines(c) = {}
    <3>1. those = {}
      BY <2>1, <2>3
    <3>2. \A e \in index[c] : e.thread \in those
      <4> SUFFICES ASSUME NEW e \in index[c] PROVE e.thread \in those
        OBVIOUS
      <4>1. e.thread \in Threads /\ Channel[e.thread] = c
        BY DEF IndexOwn
      <4>2. e.thread \in DOMAIN files
        BY DEF Base, ListedThreadsOpen
      <4> QED BY <4>1, <4>2, DoneThreads
    <3> QED BY <2>1, <2>3, <3>1, <3>2
  <2> QED BY <2>2, <2>3
<1>5. ASSUME NEW t \in those
      PROVE  row(Entry(t, metas[t], people)) = row(Entry(t, metas[t], TeamUsers(table)))
  <2> DEFINE m == metas[t]
  <2>1. m.first[3] \in Senders
    BY <1>1, <1>2, LineSender
  <2>2. Shown(ResolveAuthor(m.first[3], people), m.first[3])
           = Shown(ResolveAuthor(m.first[3], TeamUsers(table)), m.first[3])
    BY <2>1, DoneAuthors, DoneDirectories
  <2> HIDE DEF m
  <2>3. \A users : row(Entry(t, m, users))
           = [thread |-> t, first |-> m.first,
              author |-> Shown(ResolveAuthor(m.first[3], users), m.first[3]),
              count |-> m.count, parent |-> m.parent]
    BY DEF Entry
  <2> HIDE DEF row
  <2> QED BY <2>2, <2>3 DEF m
<1> HIDE DEF row, those
<1>6. {row(e) : e \in index[c]} = {row(e) : e \in TeamThreadMeta(table, c)}
  BY <1>3, <1>4, <1>5
<1> QED BY <1>6 DEF row

\* Messages with different ts have one order.
LEMMA OneOrder ==
    ASSUME NEW S, NEW s \in Seq(S), \A i \in 1..Len(s) : s[i][1] \in Nat,
           \A i, j \in 1..Len(s) : i < j => s[i][1] < s[j][1]
    PROVE  OrderedByTs(ToSet(s)) = s
<1> DEFINE n == Len(s)
           below(m) == {l \in ToSet(s) : l[1] < m[1]}
<1>1. n \in Nat /\ DOMAIN s = 1..n /\ ToSet(s) = {s[i] : i \in 1..n}
  BY DEF ToSet
<1> HIDE DEF n
<1>2. \A i, j \in 1..n : s[i] = s[j] => i = j
  <2> SUFFICES ASSUME NEW i \in 1..n, NEW j \in 1..n, i # j PROVE s[i] # s[j]
    OBVIOUS
  <2>1. i < j \/ j < i
    BY <1>1
  <2>2. s[i][1] < s[j][1] \/ s[j][1] < s[i][1]
    BY <2>1 DEF n
  <2>3. s[i][1] \in Nat /\ s[j][1] \in Nat
    BY DEF n
  <2> QED BY <2>2, <2>3
<1>3. ASSUME NEW k \in 0..n PROVE Cardinality({s[i] : i \in 1..k}) = k
  <2> DEFINE f == [i \in 1..k |-> s[i]]
             T == {s[i] : i \in 1..k}
  <2>1. 1..k \subseteq 1..n /\ k \in Nat
    BY <1>1, <1>3
  <2>2. f \in Bijection(1..k, T)
    BY <1>2, <2>1 DEF Bijection, Injection, Surjection, IsInjective
  <2>3. ExistsBijection(1..k, T)
    BY <2>2 DEF ExistsBijection
  <2> QED BY <2>1, <2>3, FS_CountingElements
<1>4. ASSUME NEW k \in 1..n
      PROVE  /\ below(s[k]) = {s[i] : i \in 1..(k - 1)}
             /\ Cardinality(below(s[k])) = k - 1
  <2>1. k - 1 \in 0..n
    BY <1>1
  <2>2. \A i \in 1..n : s[i][1] < s[k][1] <=> i \in 1..(k - 1)
    <3> SUFFICES ASSUME NEW i \in 1..n PROVE s[i][1] < s[k][1] <=> i \in 1..(k - 1)
      OBVIOUS
    <3>1. s[i][1] \in Nat /\ s[k][1] \in Nat /\ (i < k => s[i][1] < s[k][1])
          /\ (k < i => s[k][1] < s[i][1])
      BY DEF n
    <3>2. i < k \/ i = k \/ k < i
      BY <1>1
    <3> QED BY <1>1, <3>1, <3>2
  <2>3. 1..(k - 1) \subseteq 1..n
    BY <1>1
  <2>4. below(s[k]) = {s[i] : i \in 1..(k - 1)}
    BY <1>1, <2>2, <2>3
  <2> QED BY <1>3, <2>1, <2>4
<1>5. Cardinality(ToSet(s)) = n
  <2>1. n \in 0..n
    BY <1>1
  <2> QED BY <1>1, <1>3, <2>1
<1>6. ASSUME NEW k \in 1..n
      PROVE  s[k] = CHOOSE m \in ToSet(s) : Cardinality(below(m)) = k - 1
  <2> HIDE DEF below
  <2>1. s[k] \in ToSet(s) /\ Cardinality(below(s[k])) = k - 1
    BY <1>1, <1>4
  <2>2. ASSUME NEW m \in ToSet(s), Cardinality(below(m)) = k - 1 PROVE m = s[k]
    <3>1. PICK j \in 1..n : m = s[j]
      BY <1>1
    <3>2. j - 1 = k - 1
      BY <1>4, <2>2, <3>1
    <3> QED BY <1>1, <3>1, <3>2
  <2> QED BY <2>1, <2>2
<1>7. OrderedByTs(ToSet(s)) = [k \in 1..n |-> CHOOSE m \in ToSet(s) : Cardinality(below(m)) = k - 1]
  BY <1>5 DEF OrderedByTs
<1> HIDE DEF below
<1>8. s = [k \in 1..n |-> s[k]]
  BY DEF n
<1> QED BY <1>6, <1>7, <1>8

\* The thread pages.
LEMMA DoneThreadPage ==
    ASSUME AnchorsParse, PeopleAreNoBots, ProfilesInv, stage = "done",
           NEW t \in Threads, Included(Channel[t])
    PROVE  [i \in DOMAIN JsonlLoadThread(t) |->
               <<JsonlLoadThread(t)[i][1],
                 Shown(JsonlLoadThread(t)[i][2], JsonlLoadThread(t)[i][1][3])>>]
            = [i \in DOMAIN TeamLoadThread(table, t) |->
                 <<TeamLoadThread(table, t)[i][1],
                   Shown(TeamLoadThread(table, t)[i][2], TeamLoadThread(table, t)[i][1][3])>>]
<1> USE DEF ProfilesInv, ProfilesBase, SplitInv
<1> DEFINE s == Content(t)
<1>1. TypeOK
  BY DEF Base
<1>2. /\ s \in Seq(Messages)
      /\ \A i, j \in 1..Len(s) : i < j => s[i][1] < s[j][1]
  <2>1. CASE t \in seen
    <3>1. s = files[t] /\ s \in Seq(Messages)
      BY <2>1, DoneThreads, ClosedLines
    <3>2. FilesHoldNewest
      BY FilesOfRun
    <3> QED BY <2>1, <3>1, <3>2 DEF FilesHoldNewest
  <2>2. CASE t \notin seen
    <3>1. s = <<>>
      BY <2>2, DoneThreads
    <3> HIDE DEF s
    <3> QED BY <3>1
  <2> QED BY <2>1, <2>2
<1>3. MessageRaw(table, t) = ToSet(s)
  BY DoneThreads, DoneRows DEF MessageRaw
<1> HIDE DEF s
<1>4. /\ DOMAIN s = 1..Len(s)
      /\ \A i \in DOMAIN s : s[i] \in Messages /\ s[i][1] \in Nat /\ s[i][3] \in Senders
  BY <1>1, <1>2, LineSender
<1>5. OrderedByTs(MessageRaw(table, t)) = s
  BY <1>2, <1>3, <1>4, OneOrder
<1>6. JsonlLoadThread(t) = [i \in DOMAIN s |-> <<s[i], ResolveAuthor(s[i][3], usersJson)>>]
  BY DEF JsonlLoadThread, s
<1>7. TeamLoadThread(table, t)
         = [i \in DOMAIN s |-> <<s[i], ResolveAuthor(s[i][3], TeamUsers(table))>>]
  BY <1>5 DEF TeamLoadThread
<1>8. \A i \in DOMAIN s : Shown(ResolveAuthor(s[i][3], usersJson), s[i][3])
                             = Shown(ResolveAuthor(s[i][3], TeamUsers(table)), s[i][3])
  BY <1>4, DoneAuthors
<1> QED BY <1>6, <1>7, <1>8

-----------------------------------------------------------------------------
(* The theorems.                                                             *)

\* The invariant holds, of an archive whose anchors parse.
LEMMA ProfilesInvariant == ASSUME AnchorsParse PROVE Spec => []ProfilesInv
<1>1. Init => ProfilesInv
  <2>1. Init => SplitInv
    BY SplitInit
  <2>2. Init => IndexOwn /\ TornRows
    BY DEF Init, IndexOwn, TornRows
  <2> QED BY <2>1, <2>2, BestInit, RowsInit, TeamInit DEF ProfilesInv, ProfilesBase
<1>2. ProfilesInv /\ [Next]_vars => ProfilesInv'
  <2> SUFFICES ASSUME ProfilesInv, [Next]_vars PROVE ProfilesInv'
    OBVIOUS
  <2>1. SplitInv'
    BY SplitStep DEF ProfilesInv, ProfilesBase
  <2>2. BestIsLatest' /\ PeopleAreNamed' /\ ChannelsOK'
    BY BestStep, PeopleStep, ChannelsStep DEF ProfilesInv, ProfilesBase, SplitInv, Base
  <2>3. WholeDeltas' /\ FilesHaveRows'
    BY RowsStep DEF ProfilesInv, ProfilesBase, SplitInv
  <2>4. TeamAlike'
    BY TeamStep DEF ProfilesInv, ProfilesBase, SplitInv
  <2>5. IndexOwn'
    BY OwnStep DEF ProfilesInv, ProfilesBase, SplitInv
  <2>6. TornRows'
    BY TornRowsStep DEF ProfilesInv, ProfilesBase, SplitInv
  <2> QED BY <2>1, <2>2, <2>3, <2>4, <2>5, <2>6 DEF ProfilesInv, ProfilesBase
<1> QED BY <1>1, <1>2, PTL DEF Spec

\* After a run the full-text index of the personal profile, built from the
\* thread files (iter_messages of search_backends), and that of the team
\* profile, built from the MESSAGE table, hold the same documents with the same
\* names, whatever crashes, evictions and former runs came before.
THEOREM SearchIsAlike == ASSUME AnchorsParse PROVE Spec => []SearchAgrees
<1>1. ProfilesInv => SearchAgrees
  BY DoneSearch DEF ProfilesInv, SearchAgrees
<1> QED BY <1>1, ProfilesInvariant, PTL

\* After a run global_groups of the two stores lists the same channels of
\* CHANNEL, under the same names and with the same numbers of threads: the
\* files under data/ are one by one the threads the team ETL counts.
THEOREM GroupsAreAlike == ASSUME AnchorsParse PROVE Spec => []GroupsAgree
<1>1. ProfilesInv => GroupsAgree
  BY DoneGroups DEF GroupsAgree
<1> QED BY <1>1, ProfilesInvariant, PTL

\* After a run thread_meta of a channel gives the same rows and load_thread the
\* same messages in the same order, no page reads a line that a killed run left
\* half written, and the authors are the same but for those whose name a message
\* of an excluded kind may have told split.
THEOREM PagesAreAlike == ASSUME AnchorsParse, PeopleAreNoBots PROVE Spec => []PagesAgree
<1>1. ProfilesInv => PagesAgree
  BY DoneChannelPage, DoneThreadPage, DoneUntorn DEF PagesAgree, JsonlThreadMeta
<1> QED BY <1>1, ProfilesInvariant, PTL
=============================================================================
