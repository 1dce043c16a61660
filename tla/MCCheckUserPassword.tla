------------------------- MODULE MCCheckUserPassword -------------------------
(* checkUserPassword for TLC: a URL list with a reachable-or-not          *)
(* directory, an empty entry (",,"), an unparsable URL and a second       *)
(* directory, so that every kind of skip precedes a directory.            *)
EXTENDS CheckUserPassword

MCUrls == <<"ldaps", "empty", "bad", "ldaps">>
=============================================================================
