----------------------------- MODULE Keymasterd -----------------------------
(***************************************************************************)
(* The certificate-generation daemon of src/unnamed/part_000 (package      *)
(* main): start-up (config load, a start-up certificate for a fixed user,  *)
(* ListenAndServeTLS) and the concurrent handlers of /certgen/<user>:      *)
(* HTTP basic auth checked by an LDAP bind against each configured URL in  *)
(* turn, the byte-exact identity check, the public-key lookup subprocess,  *)
(* the temp file, ssh-keygen and the read-back of the certificate file.    *)
(*                                                                         *)
(* Each actor (the main goroutine, one goroutine per request slot) moves   *)
(* through the pipeline one I/O step at a time, so steps of different      *)
(* actors interleave.  log.Fatal/panic anywhere ends the whole process.    *)
(* Data is abstracted: a password is right, wrong or empty for the user    *)
(* it is sent with; a user's published key is one of KeyStates.            *)
(***************************************************************************)
EXTENDS Naturals, Sequences, FiniteSets

CONSTANTS
    Users,        \* user names known to the directory (model values)
    Req,          \* request slots: concurrent connections to /certgen/
    Main,         \* the main goroutine (model value)
    NoUser,       \* placeholder for an idle slot's fields (model value)
    StartupUser,  \* the user main() issues a certificate for (line 347)
    Urls          \* config.Ldap.LDAP_Target_URLs, split on ","; each is
                  \* [ldaps |-> scheme is "ldaps",
                  \*  anonBind |-> server accepts a DN with an empty password]

ASSUME StartupUser \in Users /\ Main \notin Req /\ NoUser \notin Users
ASSUME Urls \in Seq([ldaps : BOOLEAN, anonBind : BOOLEAN]) /\ Len(Urls) > 0

VARIABLES
    proc,       \* proc[a]: the control state and locals of actor a
    tmp,        \* files in /tmp: <<actor, "key">> (userkey*), <<actor, "cert">>
    keys,       \* keys[u]: what sss_ssh_authorizedkeys yields for u
    exitCause   \* "none" while the process runs; why it ended otherwise

vars == <<proc, tmp, keys, exitCause>>

Actors == Req \cup {Main}

(* A password as sent in the Authorization header, relative to the user.  *)
Passwords == {"right", "wrong", "empty"}

(* "absent": the lookup exits non-zero; "empty": exits 0 printing nothing; *)
(* "malformed": prints a line ssh-keygen cannot load.                      *)
KeyStates == {"valid", "empty", "malformed", "absent"}

PipelinePcs == {"lookup", "tmpfile", "keygen", "read"}
MainPcs == {"config", "listen", "serving"} \cup PipelinePcs
ReqPcs == {"idle", "ldap", "done"} \cup PipelinePcs
Responses == {"none", "401", "403", "404", "200"}
ExitCauses == {"none", "config", "startup", "request"}

Running == exitCause = "none"

(* The cause recorded when actor a reaches log.Fatal or panic.             *)
FatalCause(a) == IF a = Main THEN "startup" ELSE "request"

(* log.Fatal / panic: the process exits; no deferred os.Remove runs.       *)
Fatal(a) ==
    /\ exitCause' = FatalCause(a)
    /\ UNCHANGED <<proc, tmp, keys>>

(* The outcome of conn.Bind(bindDN, password) at the server of URL k.     *)
(* A simple bind with a DN and an empty password is an unauthenticated    *)
(* bind: a server that permits those answers success (ldap.v2 sends it).  *)
BindAccepts(k, pw) ==
    \/ pw = "right"
    \/ pw = "empty" /\ Urls[k].anonBind

Idle == [pc |-> "idle", user |-> NoUser, pw |-> "wrong", target |-> NoUser,
         idx |-> 1, rejected |-> FALSE, resp |-> "none"]

TypeOK ==
    /\ proc \in [Actors -> [pc : MainPcs \cup ReqPcs,
                            user : Users \cup {NoUser},
                            pw : Passwords,
                            target : Users \cup {NoUser},
                            idx : 1..Len(Urls) + 1,
                            rejected : BOOLEAN,
                            resp : Responses]]
    /\ proc[Main].pc \in MainPcs
    /\ \A r \in Req : proc[r].pc \in ReqPcs
    /\ tmp \subseteq Actors \X {"key", "cert"}
    /\ keys \in [Users -> KeyStates]
    /\ exitCause \in ExitCauses

Init ==
    /\ proc = [a \in Actors |->
                 IF a = Main
                 THEN [Idle EXCEPT !.pc = "config", !.user = StartupUser,
                                   !.target = StartupUser]
                 ELSE Idle]
    /\ tmp = {}
    /\ keys \in [Users -> KeyStates]
    /\ exitCause = "none"

-----------------------------------------------------------------------------
(* Start-up: main()                                                        *)

(* loadVerifyConfigFile: stat, read and parse the config, then check that *)
(* the CA, TLS cert and TLS key files exist and are readable; any failure *)
(* makes main panic.                                                       *)
loadVerifyConfigFile ==
    /\ Running
    /\ proc[Main].pc = "config"
    /\ \/ /\ proc' = [proc EXCEPT ![Main].pc = "lookup"]
          /\ UNCHANGED exitCause
       \/ exitCause' = "config" /\ UNCHANGED proc
    /\ UNCHANGED <<tmp, keys>>

(* http.ListenAndServeTLS: serves until killed, or panics when it cannot  *)
(* bind the address or load the TLS key pair.                             *)
ListenAndServeTLS ==
    /\ Running
    /\ proc[Main].pc = "listen"
    /\ \/ /\ proc' = [proc EXCEPT ![Main].pc = "serving"]
          /\ UNCHANGED exitCause
       \/ exitCause' = "startup" /\ UNCHANGED proc
    /\ UNCHANGED <<tmp, keys>>

-----------------------------------------------------------------------------
(* The /certgen/ handler up to genUserCert                                 *)

(* A connection arrives at a free slot.  checkAuth: without a basic-auth  *)
(* header it answers 401; otherwise checkUserPassword starts at URL 1.    *)
certGenHandler(r) ==
    /\ Running
    /\ proc[Main].pc = "serving"
    /\ proc[r].pc = "idle"
    /\ \/ proc' = [proc EXCEPT ![r].pc = "done", ![r].resp = "401"]
       \/ \E u, t \in Users, pw \in Passwords :
             proc' = [proc EXCEPT ![r] = [Idle EXCEPT !.pc = "ldap",
                                  !.user = u, !.pw = pw, !.target = t]]
    /\ UNCHANGED <<tmp, keys, exitCause>>

(* Faulty variants of checkLDAPUserPassword, each a plausible slip in the *)
(* loop: an extra index step on a skipped URL, and a loop that wraps      *)
(* around to retry the list until a server answers.                       *)
checkLDAPUserPasswordSkipTwice(r) ==
    LET p == proc[r]
        k == p.idx
    IN
    /\ Running
    /\ p.pc = "ldap"
    /\ k <= Len(Urls)
    /\ \/ /\ ~Urls[k].ldaps
          /\ proc' = [proc EXCEPT ![r].idx = k + 2]
       \/ /\ Urls[k].ldaps
          /\ proc' = [proc EXCEPT ![r].idx = k + 1]
       \/ /\ Urls[k].ldaps
          /\ ~BindAccepts(k, p.pw)
          /\ proc' = [proc EXCEPT ![r].idx = k + 1, ![r].rejected = TRUE]
       \/ /\ Urls[k].ldaps
          /\ BindAccepts(k, p.pw)
          /\ proc' = [proc EXCEPT ![r].pc = IF p.user = p.target
                                            THEN "lookup" ELSE "done",
                                  ![r].resp = IF p.user = p.target
                                              THEN "none" ELSE "403"]
    /\ UNCHANGED <<tmp, keys, exitCause>>

checkLDAPUserPasswordWrapAround(r) ==
    LET p == proc[r]
        k == p.idx
        next == (k % Len(Urls)) + 1
    IN
    /\ Running
    /\ p.pc = "ldap"
    /\ k <= Len(Urls)
    /\ \/ /\ ~Urls[k].ldaps
          /\ proc' = [proc EXCEPT ![r].idx = next]
       \/ /\ Urls[k].ldaps
          /\ proc' = [proc EXCEPT ![r].idx = next]
       \/ /\ Urls[k].ldaps
          /\ ~BindAccepts(k, p.pw)
          /\ proc' = [proc EXCEPT ![r].idx = next, ![r].rejected = TRUE]
       \/ /\ Urls[k].ldaps
          /\ BindAccepts(k, p.pw)
          /\ proc' = [proc EXCEPT ![r].pc = IF p.user = p.target
                                            THEN "lookup" ELSE "done",
                                  ![r].resp = IF p.user = p.target
                                              THEN "none" ELSE "403"]
    /\ UNCHANGED <<tmp, keys, exitCause>>

(* certGenHandler's identity binding: the path suffix after /certgen/     *)
(* must equal the authenticated user byte for byte.                        *)
IdentityMatches(p) == p.user = p.target

(* One iteration of checkUserPassword's loop over the URLs: parseLDAPURL  *)
(* skips a non-ldaps URL; checkLDAPUserPassword's dial may fail (down,    *)
(* timeout, TLS); a bind rejection is an error too, so all three continue *)
(* with the next URL.  A successful bind ends the loop with valid = TRUE, *)
(* and certGenHandler compares the path suffix with the user: 403 or on.  *)
checkLDAPUserPassword(r) ==
    LET p == proc[r]
        k == p.idx
    IN
    /\ Running
    /\ p.pc = "ldap"
    /\ k <= Len(Urls)
    /\ \/ /\ ~Urls[k].ldaps
          /\ proc' = [proc EXCEPT ![r].idx = k + 1]
       \/ /\ Urls[k].ldaps
          /\ proc' = [proc EXCEPT ![r].idx = k + 1]
       \/ /\ Urls[k].ldaps
          /\ ~BindAccepts(k, p.pw)
          /\ proc' = [proc EXCEPT ![r].idx = k + 1, ![r].rejected = TRUE]
       \/ /\ Urls[k].ldaps
          /\ BindAccepts(k, p.pw)
          /\ proc' = [proc EXCEPT ![r].pc = IF IdentityMatches(p)
                                            THEN "lookup" ELSE "done",
                                  ![r].resp = IF IdentityMatches(p)
                                              THEN "none" ELSE "403"]
    /\ UNCHANGED <<tmp, keys, exitCause>>

(* checkUserPassword after the last URL: (false, nil); checkAuth -> 401.   *)
checkUserPasswordExhausted(r) ==
    /\ Running
    /\ proc[r].pc = "ldap"
    /\ proc[r].idx = Len(Urls) + 1
    /\ proc' = [proc EXCEPT ![r].pc = "done", ![r].resp = "401"]
    /\ UNCHANGED <<tmp, keys, exitCause>>

-----------------------------------------------------------------------------
(* genUserCert and gen_cert_internal, run by main and by every handler     *)

(* getUserPubKey (and getHostIdentity): a non-zero exit is an error that  *)
(* genUserCert returns; the handler answers http.NotFound, main calls     *)
(* log.Fatal.                                                              *)
getUserPubKey(a) ==
    /\ Running
    /\ proc[a].pc = "lookup"
    /\ IF keys[proc[a].target] = "absent"
       THEN IF a = Main
            THEN Fatal(a)
            ELSE /\ proc' = [proc EXCEPT ![a].pc = "done", ![a].resp = "404"]
                 /\ UNCHANGED <<tmp, keys, exitCause>>
       ELSE /\ proc' = [proc EXCEPT ![a].pc = "tmpfile"]
            /\ UNCHANGED <<tmp, keys, exitCause>>

(* ioutil.TempFile then tmpfile.Write; either failing is log.Fatal.  A    *)
(* failed Write leaves the created file behind (defers do not run).       *)
tempFile(a) ==
    /\ Running
    /\ proc[a].pc = "tmpfile"
    /\ \/ /\ tmp' = tmp \cup {<<a, "key">>}
          /\ proc' = [proc EXCEPT ![a].pc = "keygen"]
          /\ UNCHANGED <<keys, exitCause>>
       \/ Fatal(a)
       \/ /\ tmp' = tmp \cup {<<a, "key">>}
          /\ exitCause' = FatalCause(a)
          /\ UNCHANGED <<proc, keys>>

(* ssh-keygen -s CA -I host_user -n user -V +1d tmpfile.  It exits       *)
(* non-zero on a key it cannot load (and on any other failure, such as an *)
(* unreadable CA file), and gen_cert_internal calls log.Fatal.  On success *)
(* it writes <tmpfile>-cert.pub; if its stderr does not match "Signed user *)
(* key ...:" the error is returned before the removal of that file is     *)
(* deferred, only the key file is removed, and genUserCert calls           *)
(* log.Fatal.                                                              *)
sshKeygen(a) ==
    /\ Running
    /\ proc[a].pc = "keygen"
    /\ \/ Fatal(a)
       \/ /\ keys[proc[a].target] = "valid"
          /\ tmp' = tmp \cup {<<a, "cert">>}
          /\ proc' = [proc EXCEPT ![a].pc = "read"]
          /\ UNCHANGED <<keys, exitCause>>
       \/ /\ keys[proc[a].target] = "valid"
          /\ tmp' = (tmp \cup {<<a, "cert">>}) \ {<<a, "key">>}
          /\ exitCause' = FatalCause(a)
          /\ UNCHANGED <<proc, keys>>

(* ioutil.ReadFile of the certificate; returning runs the deferred        *)
(* removals of both files.  On success main goes on to serve and the      *)
(* handler writes the certificate (200); a read error is returned, and    *)
(* genUserCert turns it into log.Fatal after the files are gone.          *)
readCert(a) ==
    /\ Running
    /\ proc[a].pc = "read"
    /\ tmp' = tmp \ {<<a, "key">>, <<a, "cert">>}
    /\ \/ /\ proc' = [proc EXCEPT ![a].pc = IF a = Main THEN "listen" ELSE "done",
                                  ![a].resp = IF a = Main THEN "none" ELSE "200"]
          /\ UNCHANGED <<keys, exitCause>>
       \/ /\ exitCause' = FatalCause(a)
          /\ UNCHANGED <<proc, keys>>

-----------------------------------------------------------------------------
(* Environment                                                             *)

(* The client reads its response; the slot serves a new connection.      *)
NextRequest(r) ==
    /\ Running
    /\ proc[r].pc = "done"
    /\ proc' = [proc EXCEPT ![r] = Idle]
    /\ UNCHANGED <<tmp, keys, exitCause>>

(* The process has exited: nothing more happens.                          *)
Exited ==
    /\ ~Running
    /\ UNCHANGED vars

(* Every step a goroutine takes by itself, once it has work.              *)
Step(a) ==
    \/ a = Main /\ loadVerifyConfigFile
    \/ a = Main /\ ListenAndServeTLS
    \/ a \in Req /\ checkLDAPUserPassword(a)
    \/ a \in Req /\ checkUserPasswordExhausted(a)
    \/ getUserPubKey(a)
    \/ tempFile(a)
    \/ sshKeygen(a)
    \/ readCert(a)

Next ==
    \/ \E a \in Actors : Step(a)
    \/ \E r \in Req : certGenHandler(r) \/ NextRequest(r)
    \/ Exited

(* The Go runtime keeps running every runnable goroutine, LDAP dials and  *)
(* operations are bounded by the 3 s timeout, and the subprocesses are    *)
(* assumed to terminate: each actor's own steps are weakly fair.  Clients *)
(* are not: a connection may never come.                                   *)
Fairness == \A a \in Actors : WF_vars(Step(a))

Spec == Init /\ [][Next]_vars /\ Fairness

-----------------------------------------------------------------------------
(* Properties                                                              *)

(* A certificate is only ever handed out (200) for the principal that     *)
(* authenticated with its own password: checkAuth's LDAP verdict and the  *)
(* path-suffix identity check in certGenHandler together.                  *)
CertOnlyForAuthenticatedOwner ==
    \A r \in Req :
        proc[r].resp = "200" =>
            /\ proc[r].target = proc[r].user
            /\ proc[r].pw = "right"

(* The primary authenticator stops at the first definitive answer: once a *)
(* directory has rejected the credentials no further URL is tried (spec   *)
(* 4.2: "(false,nil) on bind rejection", continue only on transport       *)
(* errors).                                                                *)
NoBindAfterRejection ==
    \A r \in Req : proc[r].rejected => proc[r].pc # "ldap"

(* No request can take the daemon down: a failure while generating one    *)
(* user's certificate is answered on that request (spec 7: an upstream    *)
(* failure surfaces as an error response), not by ending the process.     *)
NoRequestKillsDaemon == exitCause # "request"

(* Every request that passed the header check is eventually answered,     *)
(* unless the process has exited: the URL loop, the subprocesses and the  *)
(* read-back all end.                                                      *)
RequestsComplete ==
    \A r \in Req :
        (proc[r].pc \in {"ldap"} \cup PipelinePcs)
            ~> (proc[r].pc = "done" \/ ~Running)

=============================================================================
