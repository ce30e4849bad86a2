------------------------------ MODULE MCUnread ------------------------------
(* Instances of Unread for TLC.                                              *)
EXTENDS Unread, TLC

CONSTANTS a, b, m1, m2, alice, bob

\* Two messages in conversation a, none in b: one of the two is late when the
\* other one comes first, and two acks race on one watermark.
RaceChat == (m1 :> a @@ m2 :> a)
RaceTs == (m1 :> 1 @@ m2 :> 2)

ReviewerSymmetry == Permutations(Reviewers)
=============================================================================
