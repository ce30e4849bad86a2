---------------------------- MODULE MCSlackText -----------------------------
(* Instances of SlackText for TLC: a mention of somebody with a Chinese name *)
(* and an initial, a labelled link and a bare one, a labelled broadcast, a   *)
(* mail address.                                                             *)
EXTENDS SlackText, TLC

CONSTANTS zhong, wen, a, mention, link, bare, here, mail

MCKind == (mention :> "user") @@ (link :> "link") @@ (bare :> "bare")
          @@ (here :> "labelled_broadcast") @@ (mail :> "other")

MCName == (mention :> <<zhong, Blank, a>>) @@ (link :> <<wen>>) @@ (bare :> <<>>)
          @@ (here :> <<a>>) @@ (mail :> <<a, Sign, a>>)

MCUrl == <<a, Sign, a>>
=============================================================================
