---------------------------- MODULE MCKeymasterd ----------------------------
(* Instances of Keymasterd for TLC: two users, two request slots and a    *)
(* few LDAP URL lists.                                                     *)
EXTENDS Keymasterd

(* Two ldaps directories that refuse unauthenticated binds, and a URL      *)
(* with a mistyped scheme at the end of the list.                          *)
MCUrls ==
    << [ldaps |-> TRUE, anonBind |-> FALSE],
       [ldaps |-> TRUE, anonBind |-> FALSE],
       [ldaps |-> FALSE, anonBind |-> FALSE] >>

(* One directory, which (like Active Directory by default) accepts a      *)
(* simple bind with a DN and an empty password as unauthenticated.        *)
MCUrlsAnonBind ==
    << [ldaps |-> TRUE, anonBind |-> TRUE] >>
=============================================================================
