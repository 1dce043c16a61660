----------------------------- MODULE PrimaryAuth -----------------------------
(***************************************************************************)
(* The primary authenticator's contract (spec 4.2) as one atomic step:    *)
(* given which directories are unreachable during the call and what each  *)
(* backend would answer, verify(username, password) returns the answer of *)
(* the first configured directory that answers; if none does, the         *)
(* password file's answer (or its error); with no password file, false.   *)
(***************************************************************************)
EXTENDS Naturals, Sequences

CONSTANTS
    Urls,         \* LDAP_Target_URLs split at ",": "ldaps", "empty" or "bad"
    HtConfigured  \* Base.HtpasswdFilename is set

VARIABLES
    pc,        \* "idle", "busy" or "done"
    down,      \* indices of the URLs whose directory fails at transport level
    ldapOk,    \* the directories accept the password (they share one DIT)
    htOk,      \* the password file accepts it
    htReadOk,  \* the password file can be read and parsed
    result     \* "none", "true", "false" or "err"

avars == <<pc, down, ldapOk, htOk, htReadOk, result>>

Bool(b) == IF b THEN "true" ELSE "false"

(* The answer spec 4.2 prescribes, from URL j on.                          *)
RECURSIVE FirstAnswer(_)
FirstAnswer(j) ==
    IF j > Len(Urls)
    THEN IF ~HtConfigured THEN "false"
         ELSE IF htReadOk THEN Bool(htOk) ELSE "err"
    ELSE IF Urls[j] = "ldaps" /\ j \notin down THEN Bool(ldapOk)
         ELSE FirstAnswer(j + 1)

Init ==
    /\ pc = "idle"
    /\ down = {}
    /\ ldapOk = FALSE /\ htOk = FALSE /\ htReadOk = FALSE
    /\ result = "none"

(* A call starts; the environment decides the backends' behaviour.        *)
Call ==
    /\ pc = "idle"
    /\ pc' = "busy"
    /\ down' \in SUBSET (1..Len(Urls))
    /\ ldapOk' \in BOOLEAN /\ htOk' \in BOOLEAN /\ htReadOk' \in BOOLEAN
    /\ UNCHANGED result

Verify ==
    /\ pc = "busy"
    /\ pc' = "done"
    /\ result' = FirstAnswer(1)
    /\ UNCHANGED <<down, ldapOk, htOk, htReadOk>>

Return ==
    /\ pc = "done"
    /\ pc' = "idle"
    /\ result' = "none"
    /\ UNCHANGED <<down, ldapOk, htOk, htReadOk>>

Next == Call \/ Verify \/ Return

(* A call returns: spec 4.2 bounds it by the URLs times the timeout.      *)
Spec == Init /\ [][Next]_avars /\ WF_avars(Verify)

=============================================================================
