------------------------------ MODULE MCAttach -------------------------------
(* Instances of Attach for TLC: a picture shared twice, an archive that is   *)
(* never downloaded and a file without a URL.                                *)
EXTENDS Attach, TLC

CONSTANTS e1, e2, e3, e4, picture, zip, bare

MCFileOf == (e1 :> picture @@ e2 :> picture @@ e3 :> zip @@ e4 :> bare)
MCPolicy == (picture :> "download" @@ zip :> "meta_only" @@ bare :> "no_url")
=============================================================================
