---------------------------- MODULE UnreadProofs ----------------------------
(* Proofs about Unread, for any reviewers, conversations and messages.       *)
EXTENDS Unread, TLAPS, FiniteSetTheorems, WellFoundedInduction

(* The newest ts of a set of messages.                                       *)

\* A bounded set of numbers has a largest element.
LEMMA BoundedMax ==
  ASSUME NEW n \in Nat, NEW S \in SUBSET (0..n), S # {}
  PROVE  \E x \in S : \A y \in S : x >= y
<1>1. PICK T \in SUBSET Nat : \A k \in Nat : k \in T <=> \E s \in S : k = n - s
  <2>1. {k \in Nat : \E s \in S : k = n - s} \in SUBSET Nat
    OBVIOUS
  <2>2. QED
    BY <2>1
<1>2. \A s \in S : n - s \in Nat /\ n - s \in T
  <2> TAKE s \in S
  <2>1. s \in 0..n
    OBVIOUS
  <2>2. n - s \in Nat
    BY <2>1
  <2>3. QED
    BY <1>1, <2>2
<1>3. T # {}
  BY <1>2
<1>4. PICK t \in T : \A u \in T : ~ (<<u, t>> \in OpToRel(<, Nat))
  BY <1>3, NatLessThanWellFounded, WFMin
<1>5. \A u \in T : ~ (u < t)
  <2> TAKE u \in T
  <2>1. u < t => <<u, t>> \in OpToRel(<, Nat)
    BY DEF OpToRel
  <2>2. QED
    BY <2>1, <1>4
<1>6. PICK x \in S : t = n - x
  BY <1>1
<1>7. \A y \in S : x >= y
  <2> TAKE y \in S
  <2>1. x \in 0..n /\ y \in 0..n
    OBVIOUS
  <2>2. ~ (n - y < n - x)
    BY <1>2, <1>5, <1>6
  <2>3. QED
    BY <2>1, <2>2
<1>8. QED
  BY <1>7

\* Max of the community modules as the CHOOSE it is.
LEMMA MaxIs ==
  ASSUME NEW S \in SUBSET Int, NEW x \in S, \A y \in S : x >= y
  PROVE  Max(S) \in S /\ \A y \in S : Max(S) >= y
  BY DEF Max

\* Newest is a ts of the set (0 of the empty one), and no ts is larger.
LEMMA NewestIs ==
  ASSUME NEW R \in SUBSET Messages
  PROVE  /\ Newest(R) \in 0..MaxTs
         /\ \A m \in R : Ts[m] <= Newest(R)
         /\ R # {} => \E m \in R : Newest(R) = Ts[m]
<1> DEFINE S == {Ts[m] : m \in R} \cup {0}
<1>1. \A m \in R : Ts[m] \in 1..MaxTs
  BY UnreadAssumption
<1>2. MaxTs \in Nat
  BY UnreadAssumption
<1>3. S \in SUBSET (0..MaxTs) /\ 0 \in S
  BY <1>1, <1>2
<1>4. Max(S) \in S /\ \A y \in S : Max(S) >= y
  <2> HIDE DEF S
  <2>1. PICK x \in S : \A y \in S : x >= y
    BY <1>2, <1>3, BoundedMax
  <2>2. S \in SUBSET Int
    BY <1>2, <1>3
  <2>3. QED
    BY <2>1, <2>2, MaxIs
<1>5. Newest(R) = Max(S)
  BY DEF Newest
<1>6. \A m \in R : Ts[m] <= Max(S)
  <2> TAKE m \in R
  <2>1. Ts[m] \in S
    OBVIOUS
  <2>2. Max(S) \in 0..MaxTs
    BY <1>3, <1>4
  <2>3. QED
    BY <1>1, <1>2, <1>4, <2>1, <2>2
<1>7. R # {} => \E m \in R : Max(S) = Ts[m]
  <2> SUFFICES ASSUME NEW m \in R, ~ \E k \in R : Max(S) = Ts[k] PROVE FALSE
    OBVIOUS
  <2>1. Max(S) = 0
    BY <1>4
  <2>2. QED
    BY <1>1, <1>2, <1>6, <2>1
<1>8. QED
  BY <1>3, <1>4, <1>5, <1>6, <1>7

\* The late check: more messages below the watermark than ack counted.
LEMMA LateIs ==
  ASSUME TypeOK, NEW S \in SUBSET Messages, NEW c \in Chats, mark[c] # 0,
         ~ (Late(S, c) > 0)
  PROVE  Cardinality(Below(S, c)) <= count[c]
<1> DEFINE d == Cardinality(Below(S, c)) - count[c]
<1>1. Below(S, c) \in SUBSET Messages /\ IsFiniteSet(Messages)
  BY UnreadAssumption DEF Below
<1>2. Cardinality(Below(S, c)) \in Nat /\ Cardinality(Messages) \in Nat
  BY <1>1, FS_Subset, FS_CardinalityType
<1>3. count[c] \in Nat
  BY <1>2 DEF TypeOK
<1>4. d \in Int
  BY <1>2, <1>3
<1>5. PICK x \in {d, 0} : \A y \in {d, 0} : x >= y
  BY <1>4
<1>6. Max({d, 0}) >= d
  BY <1>4, <1>5, MaxIs
<1>7. Max({d, 0}) \in {d, 0}
  BY <1>4, <1>5, MaxIs
<1>8. ~ (Max({d, 0}) > 0)
  BY DEF Late
<1> HIDE DEF d
<1>9. d <= 0
  BY <1>4, <1>6, <1>7, <1>8
<1>10. QED
  BY <1>2, <1>3, <1>9 DEF d
-----------------------------------------------------------------------------
(* Types.                                                                    *)

\* Sets of messages are finite, and their sizes are numbers.
LEMMA Sizes ==
  /\ Cardinality(Messages) \in Nat
  /\ \A R \in SUBSET Messages : /\ IsFiniteSet(R)
                                /\ Cardinality(R) \in 0..Cardinality(Messages)
<1>1. IsFiniteSet(Messages)
  BY UnreadAssumption
<1>2. Cardinality(Messages) \in Nat
  BY <1>1, FS_CardinalityType
<1>3. ASSUME NEW R \in SUBSET Messages
      PROVE  IsFiniteSet(R) /\ Cardinality(R) \in 0..Cardinality(Messages)
  BY <1>1, <1>2, FS_Subset, FS_CardinalityType
<1>4. QED
  BY <1>2, <1>3

\* The initial states are well typed.
LEMMA TypeInit == Init => TypeOK
<1> SUFFICES ASSUME Init PROVE TypeOK
  OBVIOUS
<1>1. 0 \in 0..MaxTs /\ 0 \in 0..MaxLost /\ 0 \in 0..Cardinality(Messages)
  BY UnreadAssumption, Sizes
<1>2. NoView \in [until : 0..MaxTs, count : 0..Cardinality(Messages), ackable : BOOLEAN]
  BY <1>1 DEF NoView
<1>3. view \in [Reviewers -> [until : 0..MaxTs, count : 0..Cardinality(Messages),
                              ackable : BOOLEAN]]
  BY <1>2 DEF Init
<1>4. QED
  BY <1>1, <1>3 DEF Init, TypeOK

\* Every step of a build or a reviewer keeps the types.
LEMMA TypeStep == TypeOK /\ [Next]_vars => TypeOK'
<1> SUFFICES ASSUME TypeOK, [Next]_vars PROVE TypeOK'
  OBVIOUS
<1>0. MaxTs \in Nat /\ MaxLost \in Nat
  BY UnreadAssumption
<1>1. CASE Import \/ Vanish \/ BeginBuild \/ EndBuild \/ BuildDies
  <2>1. /\ archive' \subseteq Messages /\ index' \subseteq Messages
        /\ building' \in BOOLEAN /\ lost' \in 0..MaxLost
    <3>1. CASE Vanish
      <4>1. lost \in Nat /\ lost < MaxLost /\ lost' = lost + 1
        BY <1>0, <3>1 DEF TypeOK, Vanish
      <4>2. lost' \in 0..MaxLost
        BY <1>0, <4>1
      <4>3. QED
        BY <3>1, <4>2 DEF TypeOK, Vanish
    <3>2. CASE Import
      BY <3>2 DEF TypeOK, Import
    <3>3. CASE BeginBuild \/ EndBuild \/ BuildDies
      BY <3>3 DEF TypeOK, BeginBuild, EndBuild, BuildDies
    <3>4. QED
      BY <1>1, <3>1, <3>2, <3>3
  <2>2. UNCHANGED <<mark, count, phase, rows, view, told, acked>>
    BY <1>1 DEF Import, Vanish, BeginBuild, EndBuild, BuildDies, marks, history
  <2>3. QED
    BY <2>1, <2>2 DEF TypeOK
<1>2. ASSUME NEW r \in Reviewers, UnreadRows(r) PROVE TypeOK'
  BY <1>2 DEF TypeOK, UnreadRows, buildVars, marks, history
<1>3. ASSUME NEW r \in Reviewers, NEW until \in {Newest(rows[r])} \cup 1..MaxTs,
             NEW only \in SUBSET Chats, UnreadList(r, until, only)
      PROVE  TypeOK'
  <2> DEFINE n == Cardinality(UpTo(rows[r], until))
             new == {m \in UpTo(rows[r], until) : Ts[m] > mark[Chat[m]] /\ Chat[m] \in only}
             late == {c \in only : Late(rows[r], c) > 0}
  <2>1. rows[r] \in SUBSET Messages
    BY DEF TypeOK
  <2>2. until \in 0..MaxTs
    BY <1>0, <2>1, NewestIs
  <2>3. n \in 0..Cardinality(Messages)
    BY <2>1, Sizes DEF UpTo
  <2>4. \A json \in BOOLEAN :
           [until |-> until, count |-> n,
            ackable |-> only = Chats /\ (json \/ new # {} \/ late # {})]
           \in [until : 0..MaxTs, count : 0..Cardinality(Messages), ackable : BOOLEAN]
    <3> HIDE DEF n, new, late
    <3>1. QED
      BY <2>2, <2>3
  <2>5. new \subseteq Messages /\ UNION {Below(rows[r], c) : c \in late} \subseteq Messages
    BY <2>1 DEF UpTo, Below
  <2>6. /\ phase' = [phase EXCEPT ![r] = "idle"]
        /\ rows' = [rows EXCEPT ![r] = {}]
        /\ told' = told \cup new \cup UNION {Below(rows[r], c) : c \in late}
        /\ \E json \in BOOLEAN : view' = [view EXCEPT ![r] = [until |-> until, count |-> n,
                       ackable |-> only = Chats /\ (json \/ new # {} \/ late # {})]]
        /\ UNCHANGED <<archive, index, building, lost, mark, count, acked>>
    BY <1>3 DEF UnreadList, buildVars, marks
  <2> HIDE DEF n, new, late
  <2>7. QED
    BY <2>4, <2>5, <2>6 DEF TypeOK
<1>4. ASSUME NEW r \in Reviewers, NEW since \in 1..MaxTs, UnreadSince(r, since) PROVE TypeOK'
  BY <1>0, <1>4, Sizes DEF TypeOK, UnreadSince, NoView, buildVars, marks
<1>5. ASSUME NEW r \in Reviewers, AckRows(r) PROVE TypeOK'
  BY <1>5 DEF TypeOK, AckRows, UpTo, buildVars, marks, history
<1>6. ASSUME NEW r \in Reviewers, AckRefused(r) PROVE TypeOK'
  BY <1>0, <1>6, Sizes DEF TypeOK, AckRefused, NoView, buildVars, marks, history
<1>7. ASSUME NEW r \in Reviewers, AckWrite(r) PROVE TypeOK'
  <2> DEFINE of(c) == {m \in rows[r] : Chat[m] = c}
  <2>1. \A c \in Chats : /\ of(c) \in SUBSET Messages
                         /\ Newest(of(c)) \in 0..MaxTs
                         /\ Cardinality(of(c)) \in 0..Cardinality(Messages)
    <3> TAKE c \in Chats
    <3>1. of(c) \in SUBSET Messages
      BY DEF TypeOK
    <3>2. QED
      BY <3>1, NewestIs, Sizes
  <2>2. /\ mark' = [c \in Chats |-> IF Upsert(c, of(c)) THEN Newest(of(c)) ELSE mark[c]]
        /\ count' = [c \in Chats |->
                        IF Upsert(c, of(c)) THEN Cardinality(of(c)) ELSE count[c]]
        /\ acked' = acked \cup rows[r]
        /\ phase' = [phase EXCEPT ![r] = "idle"]
        /\ rows' = [rows EXCEPT ![r] = {}]
        /\ view' = [view EXCEPT ![r] = NoView]
        /\ UNCHANGED <<archive, index, building, lost, told>>
    BY <1>7 DEF AckWrite, buildVars
  <2> HIDE DEF of
  <2>3. mark' \in [Chats -> 0..MaxTs] /\ count' \in [Chats -> 0..Cardinality(Messages)]
    BY <2>1, <2>2 DEF TypeOK
  <2>4. QED
    BY <1>0, <2>2, <2>3, Sizes DEF TypeOK, NoView
<1>8. ASSUME NEW r \in Reviewers, Interrupted(r) PROVE TypeOK'
  BY <1>8 DEF TypeOK, Interrupted, buildVars, marks, history
<1>9. CASE UNCHANGED vars
  BY <1>9 DEF TypeOK, vars
<1>10. \A r \in Reviewers : UnreadPrint(r) => TypeOK'
  <2> TAKE r \in Reviewers
  <2> HAVE UnreadPrint(r)
  <2>1. CASE \E since \in 1..MaxTs : UnreadSince(r, since)
    BY <1>4, <2>1
  <2>2. CASE \E until \in {Newest(rows[r])} \cup 1..MaxTs,
                only \in {Chats} \cup {{c} : c \in Chats} : UnreadList(r, until, only)
    <3>1. {Chats} \cup {{c} : c \in Chats} \subseteq SUBSET Chats
      OBVIOUS
    <3>2. QED
      BY <1>3, <2>2, <3>1
  <2>3. QED
    BY <2>1, <2>2 DEF UnreadPrint
<1>11. QED
  BY <1>1, <1>2, <1>5, <1>6, <1>7, <1>8, <1>9, <1>10 DEF Next, Review

\* Type correctness.
THEOREM TypeCorrect == Spec => []TypeOK
  BY TypeInit, TypeStep, PTL DEF Spec

-----------------------------------------------------------------------------
(* Watermarks.                                                               *)

\* What AckWrite does to a watermark: it is at least what it was, and at least
\* the newest of the acked messages of the conversation.
LEMMA UpsertRaises ==
  ASSUME TypeOK, NEW r \in Reviewers, AckWrite(r), NEW c \in Chats
  PROVE  /\ mark'[c] >= mark[c]
         /\ \A m \in rows[r] : Chat[m] = c => Ts[m] <= mark'[c]
<1> DEFINE R == {m \in rows[r] : Chat[m] = c}
<1>1. R \in SUBSET Messages
  BY DEF TypeOK
<1>2. mark'[c] = IF R # {} /\ Newest(R) >= mark[c] THEN Newest(R) ELSE mark[c]
  BY DEF AckWrite, Upsert
<1>3. mark[c] \in 0..MaxTs /\ MaxTs \in Nat
  BY UnreadAssumption DEF TypeOK
<1>4. Newest(R) \in 0..MaxTs /\ \A m \in R : Ts[m] <= Newest(R)
  BY <1>1, NewestIs
<1>5. \A m \in R : Ts[m] \in 1..MaxTs
  BY <1>1, UnreadAssumption
<1>6. \A m \in rows[r] : Chat[m] = c => m \in R
  OBVIOUS
<1> HIDE DEF R
<1>7. QED
  BY <1>2, <1>3, <1>4, <1>5, <1>6

\* Every other step leaves the watermarks and what was acked as they are.
LEMMA OnlyAckWrites ==
  ASSUME [Next]_vars
  PROVE  UNCHANGED <<mark, count, acked>> \/ \E r \in Reviewers : AckWrite(r)
<1>1. ASSUME NEW r \in Reviewers, UnreadPrint(r) PROVE UNCHANGED <<mark, count, acked>>
  BY <1>1 DEF UnreadPrint, UnreadList, UnreadSince, marks
<1>2. QED
  BY <1>1 DEF Next, Review, Import, Vanish, BeginBuild, EndBuild, BuildDies, UnreadRows,
     AckRows, AckRefused, Interrupted, marks, history, vars

\* "Never moves a watermark backwards", whoever acks what in whatever order.
THEOREM Forward == Spec => NeverBackwards
<1>1. TypeOK /\ [Next]_vars => [\A c \in Chats : mark'[c] >= mark[c]]_vars
  <2> SUFFICES ASSUME TypeOK, [Next]_vars, NEW c \in Chats PROVE mark'[c] >= mark[c]
    OBVIOUS
  <2>1. mark[c] \in 0..MaxTs /\ MaxTs \in Nat
    BY UnreadAssumption DEF TypeOK
  <2>2. QED
    BY <2>1, OnlyAckWrites, UpsertRaises
<1>2. QED
  BY <1>1, TypeCorrect, PTL DEF Spec, NeverBackwards

\* What was acked stays at or below the watermark of its conversation.
THEOREM StaysAcked == Spec => []AckedStaysBelow
<1>1. Init => AckedStaysBelow
  BY DEF Init, AckedStaysBelow
<1>2. TypeOK /\ AckedStaysBelow /\ [Next]_vars => AckedStaysBelow'
  <2> SUFFICES ASSUME TypeOK, AckedStaysBelow, [Next]_vars, NEW m \in acked'
               PROVE  Ts[m] <= mark'[Chat[m]]
    BY DEF AckedStaysBelow
  <2>1. CASE UNCHANGED <<mark, count, acked>>
    BY <2>1 DEF AckedStaysBelow
  <2>2. ASSUME NEW r \in Reviewers, AckWrite(r) PROVE Ts[m] <= mark'[Chat[m]]
    <3>1. m \in acked \/ m \in rows[r]
      BY <2>2 DEF AckWrite
    <3>2. m \in Messages
      BY <3>1 DEF TypeOK
    <3>3. Chat[m] \in Chats /\ Ts[m] \in 1..MaxTs /\ MaxTs \in Nat
      BY <3>2, UnreadAssumption
    <3>4. mark'[Chat[m]] >= mark[Chat[m]] /\ (m \in rows[r] => Ts[m] <= mark'[Chat[m]])
      BY <2>2, <3>3, UpsertRaises
    <3>5. mark[Chat[m]] \in Int /\ mark'[Chat[m]] \in Int
      <4>1. TypeOK'
        BY TypeStep
      <4>2. QED
        BY <3>3, <4>1 DEF TypeOK
    <3>6. QED
      BY <3>1, <3>3, <3>4, <3>5 DEF AckedStaysBelow
  <2>3. QED
    BY <2>1, <2>2, OnlyAckWrites
<1>3. QED
  BY <1>1, <1>2, TypeCorrect, PTL DEF Spec

-----------------------------------------------------------------------------
(* Nothing is buried, in an archive that only grows (lost = 0).              *)
(*                                                                           *)
(* What the builds publish is then a chain: search.db is empty or holds all  *)
(* it held before.  So a set of messages that some command has counted up to *)
(* a ts u is a piece of that chain, and whatever is read before or after it  *)
(* has no other messages up to u, or all of its messages: two sets that are  *)
(* equal in number are equal.                                                *)

\* The messages that are, or are going to be, what a command works on.
Snapshots == {index, archive} \cup {rows[r] : r \in {q \in Reviewers : phase[q] = "unread"}}

Chain ==
    /\ \A S \in Snapshots : S \subseteq archive
    /\ \A S, T \in Snapshots : S \subseteq T \/ T \subseteq S

\* R was read and told: everything up to u, at some moment.
Piece(R, u) ==
    /\ R \subseteq told \cap archive
    /\ \A m \in R : Ts[m] <= u
    /\ \A S \in Snapshots : UpTo(S, u) \subseteq R \/ R \subseteq S

\* The same for one conversation, up to its watermark.
PieceOf(R, c) ==
    /\ R \subseteq told \cap archive
    /\ \A m \in R : Chat[m] = c /\ Ts[m] <= mark[c]
    /\ \A S \in Snapshots : Below(S, c) \subseteq R \/ R \subseteq S

\* reviewed_count is the size of such a piece, the COUNT of a view too, and
\* what an ack is about to cover is one.
Marked ==
    \A c \in Chats : mark[c] # 0 =>
        \E R \in SUBSET Messages : PieceOf(R, c) /\ Cardinality(R) = count[c]
Viewed ==
    \A r \in Reviewers : view[r].ackable =>
        \E R \in SUBSET Messages :
            Piece(R, view[r].until) /\ Cardinality(R) = view[r].count
Acking == \A r \in Reviewers : phase[r] = "ack" => Piece(rows[r], view[r].until)

SeenInv == lost = 0 => Chain /\ Marked /\ Viewed /\ Acking /\ acked \subseteq told

\* A message below the watermark was told, or the late check sees that there
\* are too many.
LEMMA BelowIsTold ==
  ASSUME TypeOK, Marked, NEW S \in Snapshots, NEW c \in Chats, ~ (Late(S, c) > 0),
         NEW m \in Below(S, c)
  PROVE  m \in told
<1>1. S \in SUBSET Messages
  BY DEF TypeOK, Snapshots
<1>2. Below(S, c) \in SUBSET Messages
  BY <1>1 DEF Below
<1>3. mark[c] # 0
  <2>1. Ts[m] \in 1..MaxTs /\ Ts[m] <= mark[c] /\ MaxTs \in Nat
    BY <1>2, UnreadAssumption DEF Below
  <2>2. QED
    BY <2>1
<1>4. PICK R \in SUBSET Messages : PieceOf(R, c) /\ Cardinality(R) = count[c]
  BY <1>3 DEF Marked
<1>5. CASE Below(S, c) \subseteq R
  BY <1>4, <1>5 DEF PieceOf
<1>6. CASE R \subseteq S
  <2>1. R \in SUBSET Below(S, c)
    BY <1>4, <1>6 DEF PieceOf, Below
  <2>2. IsFiniteSet(Below(S, c)) /\ Cardinality(Below(S, c)) \in Nat /\ Cardinality(R) \in Nat
    BY <1>2, Sizes
  <2>3. Cardinality(Below(S, c)) <= Cardinality(R)
    BY <1>1, <1>3, <1>4, LateIs
  <2>4. Below(S, c) = R
    BY <2>1, <2>2, <2>3, FS_Subset
  <2>5. QED
    BY <1>4, <2>4 DEF PieceOf
<1>7. QED
  BY <1>4, <1>5, <1>6 DEF PieceOf

\* What a step of a growing archive does to the snapshots.
LEMMA Growing ==
  ASSUME TypeOK, [Next]_vars, lost' = 0
  PROVE  /\ lost = 0
         /\ archive \subseteq archive' /\ told \subseteq told'
         /\ \A S \in Snapshots' : S \in Snapshots \/ S = {} \/ S = archive'
<1>1. CASE Import
  BY <1>1 DEF Import, Snapshots, marks, history
<1>2. ~ Vanish
  BY UnreadAssumption DEF Vanish, TypeOK
<1>3. CASE BeginBuild \/ EndBuild \/ BuildDies
  BY <1>3 DEF BeginBuild, EndBuild, BuildDies, Snapshots, marks, history
<1>4. ASSUME NEW r \in Reviewers, UnreadRows(r)
      PROVE  /\ UNCHANGED <<lost, archive, told>>
             /\ \A S \in Snapshots' : S \in Snapshots
  <2>1. /\ UNCHANGED <<lost, archive, told, index>>
        /\ \A q \in Reviewers :
              (rows'[q] = rows[q] /\ phase'[q] = phase[q]) \/ rows'[q] = index
    BY <1>4 DEF UnreadRows, buildVars, history, TypeOK
  <2>2. QED
    BY <2>1 DEF Snapshots
<1>5. ASSUME NEW r \in Reviewers,
             UnreadPrint(r) \/ AckRows(r) \/ AckRefused(r) \/ AckWrite(r) \/ Interrupted(r)
      PROVE  /\ UNCHANGED <<lost, archive>> /\ told \subseteq told'
             /\ \A S \in Snapshots' : S \in Snapshots
  <2>1. UNCHANGED <<lost, archive, index>> /\ told \subseteq told'
    BY <1>5 DEF UnreadPrint, UnreadList, UnreadSince, AckRows, AckRefused, AckWrite,
       Interrupted, buildVars, history
  <2>2. \A q \in Reviewers : phase'[q] = "unread" => rows'[q] = rows[q] /\ phase[q] = "unread"
    BY <1>5 DEF UnreadPrint, UnreadList, UnreadSince, AckRows, AckRefused, AckWrite,
       Interrupted, TypeOK
  <2>3. QED
    BY <2>1, <2>2 DEF Snapshots
<1>6. CASE UNCHANGED vars
  BY <1>6 DEF vars, Snapshots
<1>7. QED
  BY <1>1, <1>2, <1>3, <1>4, <1>5, <1>6 DEF Next, Review

\* What was read and told stays such a piece: what a build brings later, it
\* brings to all of the archive.
LEMMA PieceStays ==
  ASSUME TypeOK, [Next]_vars, lost' = 0, NEW R \in SUBSET Messages, NEW u, Piece(R, u)
  PROVE  Piece(R, u)'
<1>1. UpTo({}, u) = {}
  BY DEF UpTo
<1>2. QED
  BY <1>1, Growing DEF Piece, UpTo

\* The same for one conversation whose watermark does not move.
LEMMA PieceOfStays ==
  ASSUME TypeOK, [Next]_vars, lost' = 0, NEW R \in SUBSET Messages, NEW c \in Chats,
         PieceOf(R, c), mark'[c] = mark[c]
  PROVE  PieceOf(R, c)'
  BY Growing DEF PieceOf, Below

\* Snapshots of a growing archive stay nested in each other.
LEMMA ChainStays ==
  ASSUME TypeOK, [Next]_vars, lost' = 0, Chain
  PROVE  Chain'
<1>1. \A S \in Snapshots' : S \subseteq archive'
  BY Growing DEF Chain
<1>2. ASSUME NEW S \in Snapshots', NEW T \in Snapshots' PROVE S \subseteq T \/ T \subseteq S
  BY <1>1, Growing DEF Chain
<1>3. QED
  BY <1>1, <1>2 DEF Chain

\* A view changes when it is printed, and is dropped otherwise.
LEMMA ViewChanges ==
  ASSUME TypeOK, [Next]_vars, NEW r \in Reviewers
  PROVE  \/ view'[r] = view[r] \/ view'[r] = NoView
         \/ \E until \in {Newest(rows[r])} \cup 1..MaxTs, only \in SUBSET Chats :
                UnreadList(r, until, only)
<1>1. ASSUME NEW q \in Reviewers, UnreadPrint(q)
      PROVE  \/ view'[r] = view[r] \/ view'[r] = NoView
             \/ \E until \in {Newest(rows[r])} \cup 1..MaxTs, only \in SUBSET Chats :
                    UnreadList(r, until, only)
  <2>1. {Chats} \cup {{c} : c \in Chats} \subseteq SUBSET Chats
    OBVIOUS
  <2>2. CASE q # r
    BY <1>1, <2>2 DEF UnreadPrint, UnreadList, UnreadSince, TypeOK
  <2>3. CASE q = r
    <3>1. CASE \E since \in 1..MaxTs : UnreadSince(r, since)
      BY <3>1 DEF UnreadSince, TypeOK
    <3>2. QED
      BY <1>1, <2>1, <2>3, <3>1 DEF UnreadPrint
  <2>4. QED
    BY <2>2, <2>3
<1>2. ASSUME NEW q \in Reviewers,
             UnreadRows(q) \/ AckRows(q) \/ AckRefused(q) \/ AckWrite(q) \/ Interrupted(q)
      PROVE  view'[r] = view[r] \/ view'[r] = NoView
  BY <1>2 DEF UnreadRows, AckRows, AckRefused, AckWrite, Interrupted, TypeOK
<1>3. QED
  BY <1>1, <1>2 DEF Next, Review, Import, Vanish, BeginBuild, EndBuild, BuildDies, vars

\* A reviewer is in the middle of an ack only after its first half.
LEMMA AckBegins ==
  ASSUME TypeOK, [Next]_vars, NEW r \in Reviewers, phase'[r] = "ack"
  PROVE  \/ AckRows(r)
         \/ phase[r] = "ack" /\ rows'[r] = rows[r] /\ view'[r] = view[r]
<1>1. ASSUME NEW q \in Reviewers, UnreadPrint(q)
      PROVE  phase[r] = "ack" /\ rows'[r] = rows[r] /\ view'[r] = view[r]
  BY <1>1 DEF UnreadPrint, UnreadList, UnreadSince, TypeOK
<1>2. ASSUME NEW q \in Reviewers, ~ AckRows(r),
             UnreadRows(q) \/ AckRows(q) \/ AckRefused(q) \/ AckWrite(q) \/ Interrupted(q)
      PROVE  phase[r] = "ack" /\ rows'[r] = rows[r] /\ view'[r] = view[r]
  <2>1. CASE q = r
    BY <1>2, <2>1 DEF UnreadRows, AckRefused, AckWrite, Interrupted, TypeOK
  <2>2. CASE q # r
    BY <1>2, <2>2 DEF UnreadRows, AckRows, AckRefused, AckWrite, Interrupted, TypeOK
  <2>3. QED
    BY <2>1, <2>2
<1>3. QED
  BY <1>1, <1>2 DEF Next, Review, Import, Vanish, BeginBuild, EndBuild, BuildDies, vars

\* All that a complete view counts has been told: it is listed, or below a
\* watermark that is late or has been told of before.
LEMMA ViewIsTold ==
  ASSUME TypeOK, Marked, NEW r \in Reviewers, NEW until, UnreadList(r, until, Chats)
  PROVE  UpTo(rows[r], until) \subseteq told'
<1> SUFFICES ASSUME NEW m \in UpTo(rows[r], until) PROVE m \in told'
  OBVIOUS
<1> DEFINE new == {k \in UpTo(rows[r], until) : Ts[k] > mark[Chat[k]] /\ Chat[k] \in Chats}
           late == {c \in Chats : Late(rows[r], c) > 0}
<1>1. told' = told \cup new \cup UNION {Below(rows[r], c) : c \in late}
  BY DEF UnreadList
<1>2. m \in Messages /\ m \in rows[r]
  BY DEF TypeOK, UpTo
<1>3. Chat[m] \in Chats /\ Ts[m] \in 1..MaxTs /\ MaxTs \in Nat
  BY <1>2, UnreadAssumption
<1>4. mark[Chat[m]] \in 0..MaxTs
  BY <1>3 DEF TypeOK
<1>5. CASE Ts[m] > mark[Chat[m]]
  BY <1>1, <1>3, <1>5
<1>6. CASE Ts[m] <= mark[Chat[m]]
  <2>1. m \in Below(rows[r], Chat[m])
    BY <1>2, <1>6 DEF Below
  <2>2. CASE Late(rows[r], Chat[m]) > 0
    <3>1. Chat[m] \in late
      BY <1>3, <2>2
    <3> HIDE DEF new, late
    <3>2. QED
      BY <1>1, <2>1, <3>1
  <2>3. CASE ~ (Late(rows[r], Chat[m]) > 0)
    <3>1. rows[r] \in Snapshots
      BY DEF UnreadList, Snapshots
    <3>2. m \in told
      BY <1>3, <2>1, <2>3, <3>1, BelowIsTold
    <3> HIDE DEF new, late
    <3>3. QED
      BY <1>1, <3>2
  <2>4. QED
    BY <2>2, <2>3
<1>7. QED
  BY <1>3, <1>4, <1>5, <1>6

\* reviewed_count stays the size of a piece: AckWrite makes it so, from the
\* rows it has read, and nothing else touches it.
LEMMA MarkedStays ==
  ASSUME TypeOK, [Next]_vars, lost' = 0, Marked, Acking
  PROVE  Marked'
<1> SUFFICES ASSUME NEW c \in Chats, mark'[c] # 0
             PROVE  \E R \in SUBSET Messages : PieceOf(R, c)' /\ Cardinality(R) = count'[c]
  BY DEF Marked
<1>1. ASSUME mark'[c] = mark[c], count'[c] = count[c]
      PROVE  \E R \in SUBSET Messages : PieceOf(R, c)' /\ Cardinality(R) = count'[c]
  <2>1. PICK R \in SUBSET Messages : PieceOf(R, c) /\ Cardinality(R) = count[c]
    BY <1>1 DEF Marked
  <2>2. PieceOf(R, c)'
    BY <1>1, <2>1, PieceOfStays
  <2>3. QED
    BY <1>1, <2>1, <2>2
<1>2. ASSUME NEW r \in Reviewers, AckWrite(r)
      PROVE  \E R \in SUBSET Messages : PieceOf(R, c)' /\ Cardinality(R) = count'[c]
  <2>1. PICK W \in SUBSET Messages, u \in {view[r].until} : W = rows[r] /\ u = view[r].until
    BY DEF TypeOK
  <2>2. PICK R \in SUBSET Messages : R = {m \in W : Chat[m] = c}
    OBVIOUS
  <2>3. /\ mark'[c] = IF Upsert(c, R) THEN Newest(R) ELSE mark[c]
        /\ count'[c] = IF Upsert(c, R) THEN Cardinality(R) ELSE count[c]
    BY <1>2, <2>1, <2>2 DEF AckWrite
  <2>4. CASE ~ Upsert(c, R)
    BY <1>1, <2>3, <2>4
  <2>5. CASE Upsert(c, R)
    <3>1. Piece(W, u)
      BY <1>2, <2>1 DEF Acking, AckWrite
    <3>2. Piece(W, u)'
      BY <3>1, PieceStays
    <3>3. /\ mark'[c] \in 0..MaxTs /\ \A m \in R : Ts[m] <= mark'[c]
          /\ \E k \in R : mark'[c] = Ts[k]
      BY <2>3, <2>5, NewestIs DEF Upsert
    <3>4. \A m \in Messages : Ts[m] \in 1..MaxTs
      BY UnreadAssumption
    <3>5. mark'[c] <= u
      BY <2>2, <3>1, <3>3 DEF Piece
    <3>6. u \in 0..MaxTs /\ MaxTs \in Nat
      BY <2>1, UnreadAssumption DEF TypeOK
    <3>7. ASSUME NEW S \in Snapshots' PROVE Below(S, c)' \subseteq R \/ R \subseteq S
      <4>1. S \in SUBSET Messages
        <5>1. TypeOK'
          BY TypeStep
        <5>2. QED
          BY <5>1 DEF TypeOK, Snapshots
      <4>2. \A m \in S : Ts[m] <= mark'[c] => Ts[m] <= u
        BY <3>3, <3>4, <3>5, <3>6, <4>1
      <4>3. UpTo(S, u) \subseteq W \/ W \subseteq S
        BY <3>2 DEF Piece
      <4>4. QED
        BY <2>2, <4>2, <4>3 DEF UpTo, Below
    <3>8. PieceOf(R, c)'
      BY <2>2, <3>2, <3>3, <3>7 DEF Piece, PieceOf
    <3>9. QED
      BY <2>3, <2>5, <3>8
  <2>6. QED
    BY <2>4, <2>5
<1>3. QED
  BY <1>1, <1>2, OnlyAckWrites

\* The COUNT printed for a reviewer stays the size of a piece.
LEMMA ViewedStays ==
  ASSUME TypeOK, [Next]_vars, lost' = 0, Chain, Marked, Viewed
  PROVE  Viewed'
<1> SUFFICES ASSUME NEW r \in Reviewers, view'[r].ackable
             PROVE  \E R \in SUBSET Messages :
                        Piece(R, view[r].until)' /\ Cardinality(R) = view'[r].count
  BY DEF Viewed
<1>1. CASE view'[r] = view[r]
  <2>1. PICK R \in SUBSET Messages :
           Piece(R, view[r].until) /\ Cardinality(R) = view[r].count
    BY <1>1 DEF Viewed
  <2>2. PICK u : u = view[r].until
    OBVIOUS
  <2>3. Piece(R, u)'
    BY <2>1, <2>2, PieceStays
  <2>4. u = view'[r].until
    BY <1>1, <2>2
  <2>5. QED
    BY <1>1, <2>1, <2>3, <2>4
<1>2. view'[r] # NoView
  BY DEF NoView
<1>3. ASSUME NEW until \in {Newest(rows[r])} \cup 1..MaxTs, NEW only \in SUBSET Chats,
             UnreadList(r, until, only)
      PROVE  \E R \in SUBSET Messages :
                 Piece(R, view[r].until)' /\ Cardinality(R) = view'[r].count
  <2>1. PICK W \in SUBSET Messages, R \in SUBSET Messages, u \in {until} :
           W = rows[r] /\ R = UpTo(W, until) /\ u = until
    BY DEF TypeOK, UpTo
  <2>2. view'[r].until = u /\ view'[r].count = Cardinality(R) /\ only = Chats
    <3>1. PICK offered \in BOOLEAN :
             view' = [view EXCEPT ![r] = [until |-> until, count |-> Cardinality(R),
                                          ackable |-> only = Chats /\ offered]]
      BY <1>3, <2>1 DEF UnreadList
    <3>2. view'[r] = [until |-> until, count |-> Cardinality(R),
                      ackable |-> only = Chats /\ offered]
      BY <3>1 DEF TypeOK
    <3>3. ASSUME only # Chats PROVE FALSE
      <4>1. (only = Chats /\ offered) = FALSE
        BY <3>3
      <4>2. view'[r] = [until |-> until, count |-> Cardinality(R), ackable |-> FALSE]
        BY <3>2, <4>1
      <4>3. QED
        BY <4>2
    <3>4. only = Chats
      BY <3>3
    <3>5. QED
      BY <2>1, <3>2, <3>4
  <2>3. R \subseteq told'
    BY <1>3, <2>1, <2>2, ViewIsTold
  <2>4. W \in Snapshots /\ W \subseteq archive /\ R \subseteq W
    BY <1>3, <2>1 DEF UnreadList, Snapshots, Chain, UpTo
  <2>5. R \subseteq archive'
    BY <2>4, Growing
  <2>6. ASSUME NEW S \in Snapshots' PROVE UpTo(S, u) \subseteq R \/ R \subseteq S
    <3>1. S \subseteq W \/ W \subseteq S
      BY <2>4, Growing DEF Chain
    <3>2. QED
      BY <2>1, <3>1 DEF UpTo
  <2>7. \A m \in R : Ts[m] <= u
    BY <2>1 DEF UpTo
  <2>8. Piece(R, u)'
    BY <2>3, <2>5, <2>6, <2>7 DEF Piece
  <2>9. QED
    BY <2>2, <2>8
<1>4. QED
  BY <1>1, <1>2, <1>3, ViewChanges

\* An ack whose count was confirmed covers a piece.
LEMMA AckingStays ==
  ASSUME TypeOK, [Next]_vars, lost' = 0, Viewed, Acking
  PROVE  Acking'
<1> SUFFICES ASSUME NEW r \in Reviewers, phase'[r] = "ack"
             PROVE  Piece(rows[r], view[r].until)'
  BY DEF Acking
<1>1. PICK W \in SUBSET Messages, u \in {view[r].until} : W = rows[r] /\ u = view[r].until
  BY DEF TypeOK
<1>2. CASE phase[r] = "ack" /\ rows'[r] = rows[r] /\ view'[r] = view[r]
  <2>1. Piece(W, u)'
    BY <1>1, <1>2, PieceStays DEF Acking
  <2>2. W = rows'[r] /\ u = view'[r].until
    BY <1>1, <1>2
  <2>3. QED
    BY <2>1, <2>2
<1>3. CASE AckRows(r)
  <2>1. PICK V \in SUBSET Messages : Piece(V, u) /\ Cardinality(V) = view[r].count
    BY <1>1, <1>3 DEF Viewed, AckRows
  <2>2. PICK I \in SUBSET Messages : I = UpTo(index, u)
    BY DEF TypeOK, UpTo
  <2>3. Cardinality(I) = Cardinality(V) /\ rows'[r] = I /\ view'[r] = view[r]
    BY <1>1, <1>3, <2>1, <2>2 DEF AckRows, TypeOK
  <2>4. I \subseteq V \/ V \subseteq I
    BY <2>1, <2>2 DEF Piece, Snapshots, UpTo
  <2>5. I = V
    BY <2>3, <2>4, Sizes, FS_Subset
  <2>6. Piece(V, u)'
    BY <2>1, PieceStays
  <2>7. V = rows'[r] /\ u = view'[r].until
    BY <1>1, <2>3, <2>5
  <2>8. QED
    BY <2>6, <2>7
<1>4. QED
  BY <1>2, <1>3, AckBegins

\* An ack adds to acked what it covers, which has been told.
LEMMA AckedStaysTold ==
  ASSUME TypeOK, [Next]_vars, lost' = 0, Acking, acked \subseteq told
  PROVE  (acked \subseteq told)'
<1>1. ASSUME NEW r \in Reviewers, AckWrite(r) PROVE acked' \subseteq told
  BY <1>1 DEF AckWrite, Acking, Piece
<1>2. QED
  BY <1>1, OnlyAckWrites, Growing

\* SeenInv is inductive over TypeOK.
LEMMA SeenInvariant == Spec => []SeenInv
<1>1. Init => SeenInv
  <2> SUFFICES ASSUME Init PROVE SeenInv
    OBVIOUS
  <2>1. Snapshots = {{}}
    BY DEF Init, Snapshots
  <2>2. Chain
    BY <2>1 DEF Chain, Init
  <2>3. Marked /\ Viewed /\ Acking
    BY DEF Init, Marked, Viewed, Acking, NoView
  <2>4. QED
    BY <2>2, <2>3 DEF SeenInv, Init
<1>2. TypeOK /\ SeenInv /\ [Next]_vars => SeenInv'
  <2> SUFFICES ASSUME TypeOK, SeenInv, [Next]_vars, lost' = 0
               PROVE  Chain' /\ Marked' /\ Viewed' /\ Acking' /\ (acked \subseteq told)'
    BY DEF SeenInv
  <2>1. Chain /\ Marked /\ Viewed /\ Acking /\ acked \subseteq told
    BY Growing DEF SeenInv
  <2>2. QED
    BY <2>1, ChainStays, MarkedStays, ViewedStays, AckingStays, AckedStaysTold
<1>3. QED
  BY <1>1, <1>2, TypeCorrect, PTL DEF Spec

\* In an archive that only grows, whatever builds and commands come in between,
\* no message ends up below a watermark without having been told, unless the
\* next `unread` will report it as late.
THEOREM Unburied == Spec => []NothingBuried
<1>1. TypeOK /\ SeenInv => NothingBuried
  <2> SUFFICES ASSUME TypeOK, SeenInv, lost = 0, NEW m \in index, Ts[m] <= mark[Chat[m]],
                      ~ (Late(index, Chat[m]) > 0)
               PROVE  m \in told
    BY DEF NothingBuried
  <2>1. index \in Snapshots /\ m \in Below(index, Chat[m])
    BY DEF Snapshots, Below
  <2>2. Chat[m] \in Chats
    BY UnreadAssumption DEF TypeOK
  <2>3. QED
    BY <2>1, <2>2, BelowIsTold DEF SeenInv
<1>2. QED
  BY <1>1, TypeCorrect, SeenInvariant, PTL

\* In an archive that only grows an ack covers nothing a reviewer was not told.
THEOREM AckedSeen == Spec => []AckedWasSeen
<1>1. SeenInv => AckedWasSeen
  BY DEF SeenInv, AckedWasSeen
<1>2. QED
  BY <1>1, SeenInvariant, PTL
=============================================================================
