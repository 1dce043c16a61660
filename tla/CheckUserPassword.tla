-------------------------- MODULE CheckUserPassword --------------------------
(***************************************************************************)
(* checkUserPassword of src/cmd/ssh_usercert_gen/main.go, one URL per     *)
(* step, called from checkAuth's basic-auth path: skip an empty URL or one *)
(* authutil.ParseLDAPURL rejects, move on after a transport error of      *)
(* authutil.CheckLDAPUserPassword, return the first directory's verdict;  *)
(* after the list, the htpasswd file if configured, else false.  checkAuth *)
(* turns an error into 500, false into 401.                                *)
(*                                                                         *)
(* The environment fixes at the call which directories fail at transport  *)
(* level (each URL is tried once per call) and what the backends answer.  *)
(* It implements PrimaryAuth, the contract of spec 4.2.                    *)
(***************************************************************************)
EXTENDS Naturals, Sequences

CONSTANTS
    Urls,         \* LDAP_Target_URLs split at ",": "ldaps", "empty" or "bad"
    HtConfigured  \* Base.HtpasswdFilename is set

VARIABLES
    pc,        \* "idle", "loop", "file" or "done"
    i,         \* index of the URL the loop is at
    down,      \* indices of the URLs whose directory fails at transport level
    ldapOk,    \* the directories accept the password
    htOk,      \* the password file accepts it
    htReadOk,  \* ReadFile and CheckHtpasswdUserPassword succeed
    result,    \* checkUserPassword's return: "none", "true", "false", "err"
    resp       \* checkAuth's answer: "none", "200", "401", "500"

vars == <<pc, i, down, ldapOk, htOk, htReadOk, result, resp>>

Bool(b) == IF b THEN "true" ELSE "false"

TypeOK ==
    /\ pc \in {"idle", "loop", "file", "done"}
    /\ i \in 1..Len(Urls) + 1
    /\ down \subseteq 1..Len(Urls)
    /\ {ldapOk, htOk, htReadOk} \subseteq BOOLEAN
    /\ result \in {"none", "true", "false", "err"}
    /\ resp \in {"none", "200", "401", "500"}
    /\ (pc = "done") = (resp # "none")

Init ==
    /\ pc = "idle"
    /\ i = 1
    /\ down = {}
    /\ ldapOk = FALSE /\ htOk = FALSE /\ htReadOk = FALSE
    /\ result = "none"
    /\ resp = "none"

(* checkAuth without a cookie: no basic-auth header is 401; otherwise the *)
(* config is copied under the Mutex and checkUserPassword starts.         *)
checkAuthBasic ==
    /\ pc = "idle"
    /\ \/ /\ pc' = "done"
          /\ resp' = "401"
          /\ UNCHANGED <<i, down, ldapOk, htOk, htReadOk>>
       \/ /\ pc' = "loop"
          /\ i' = 1
          /\ down' \in SUBSET (1..Len(Urls))
          /\ ldapOk' \in BOOLEAN /\ htOk' \in BOOLEAN /\ htReadOk' \in BOOLEAN
          /\ UNCHANGED resp
    /\ UNCHANGED result

(* Mutant: the error path returns without writing a response.            *)
AnswerErrUnwritten(res) == CASE res = "err"   -> "none"
                              [] res = "false" -> "401"
                              [] res = "true"  -> "200"

(* checkAuth's answer to checkUserPassword's (valid, err).                 *)
Answer(res) == CASE res = "err"   -> "500"
                 [] res = "false" -> "401"
                 [] res = "true"  -> "200"

(* Mutant: a directory's rejection moves on to the next URL.               *)
checkURLRejectionContinues ==
    /\ pc = "loop"
    /\ i <= Len(Urls)
    /\ IF Urls[i] = "ldaps" /\ i \notin down /\ ldapOk
       THEN /\ pc' = "done"
            /\ result' = Bool(ldapOk)
            /\ resp' = Answer(Bool(ldapOk))
            /\ UNCHANGED i
       ELSE /\ i' = i + 1
            /\ UNCHANGED <<pc, result, resp>>
    /\ UNCHANGED <<down, ldapOk, htOk, htReadOk>>

(* One iteration of the loop over the URLs.                                *)
checkURL ==
    /\ pc = "loop"
    /\ i <= Len(Urls)
    /\ IF Urls[i] = "ldaps" /\ i \notin down
       THEN /\ pc' = "done"
            /\ result' = Bool(ldapOk)
            /\ resp' = Answer(Bool(ldapOk))
            /\ UNCHANGED i
       ELSE /\ i' = i + 1
            /\ UNCHANGED <<pc, result, resp>>
    /\ UNCHANGED <<down, ldapOk, htOk, htReadOk>>

(* After the loop: the htpasswd file if one is configured, else false.    *)
loopExhausted ==
    /\ pc = "loop"
    /\ i > Len(Urls)
    /\ IF HtConfigured
       THEN /\ pc' = "file"
            /\ UNCHANGED <<result, resp>>
       ELSE /\ pc' = "done"
            /\ result' = "false"
            /\ resp' = Answer("false")
    /\ UNCHANGED <<i, down, ldapOk, htOk, htReadOk>>

(* ioutil.ReadFile and authutil.CheckHtpasswdUserPassword: an error of   *)
(* either is returned, otherwise the file's verdict.                       *)
checkHtpasswd ==
    /\ pc = "file"
    /\ pc' = "done"
    /\ result' = IF htReadOk THEN Bool(htOk) ELSE "err"
    /\ resp' = Answer(result')
    /\ UNCHANGED <<i, down, ldapOk, htOk, htReadOk>>

(* The handler has answered; the next request comes.                       *)
NextRequest ==
    /\ pc = "done"
    /\ pc' = "idle"
    /\ result' = "none"
    /\ resp' = "none"
    /\ UNCHANGED <<i, down, ldapOk, htOk, htReadOk>>

Next == checkAuthBasic \/ checkURL \/ loopExhausted \/ checkHtpasswd \/ NextRequest

(* Each step is bounded (the dial has a 3 s timeout), so the handler's    *)
(* goroutine keeps making progress.                                        *)
Spec == Init /\ [][Next]_vars
             /\ WF_vars(checkURL \/ loopExhausted \/ checkHtpasswd)

-----------------------------------------------------------------------------
(* Properties                                                              *)

(* checkUserPassword implements spec 4.2: a call in progress is the       *)
(* abstract "busy", and every call returns, with the first reachable      *)
(* directory's verdict, else the password file's, else false.             *)
AbsPc == CASE pc \in {"loop", "file"}          -> "busy"
           [] pc = "done" /\ result # "none"   -> "done"
           [] OTHER                            -> "idle"

Contract == INSTANCE PrimaryAuth WITH pc <- AbsPc

ImplementsPrimaryAuth == Contract!Spec

=============================================================================
