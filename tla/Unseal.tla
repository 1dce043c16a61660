------------------------------- MODULE Unseal -------------------------------
(***************************************************************************)
(* The CA key lifecycle of src/cmd/ssh_usercert_gen/main.go: the CA file  *)
(* branch of loadVerifyConfigFile (a clear PEM key unseals at start-up, a  *)
(* PGP message leaves the Signer nil), secretInjectorHandler (/admin/      *)
(* inject) unsealing under the Mutex, and the handlers that use the CA     *)
(* key: certGenHandler with postAuthSSHCertHandler and                     *)
(* postAuthX509CertHandler, publicPathHandler and profileHandler.  Each   *)
(* copies "Signer == nil" (and the Signer) under the Mutex, then works    *)
(* without it; the x509 paths read state.caCertDer unlocked.               *)
(*                                                                         *)
(* A signer or a CA certificate is named by who produced it: "boot" for    *)
(* the PEM file, a request slot for an unseal by that request, "none" for  *)
(* nil.  The key material, the passphrase and the DER bytes are data.      *)
(***************************************************************************)
EXTENDS Naturals, FiniteSets

CONSTANTS
    Req,   \* request slots (goroutines serving connections)
    Users  \* user names: authenticated identities and /certgen/ targets

VARIABLES
    caFile,     \* the CA file's kind: "pem" (RSA PRIVATE KEY) or "pgp"
    signer,     \* state.Signer: "none" (nil), "boot" or the unsealing slot
    caCertDer,  \* state.caCertDer: "none" (nil), "boot" or a slot
    mu,         \* state.Mutex: "free" or the holding slot
    req         \* req[r]: control point and locals of request slot r

vars == <<caFile, signer, caCertDer, mu, req>>

Producers == {"none", "boot"} \cup Req
Ops == {"inject", "certgen", "public", "profile"}
ReqPcs == {"idle", "checks", "lock", "decrypt", "genDer", "setSigner",
           "gate", "authz", "ssh", "x509", "read", "done"}
Resps == {"none", "200", "400", "401", "403", "404", "405", "409", "500"}
NoUser == "nobody"
(* What a request asked for: certgen's "type", the /public/ target.       *)
Kinds == {"none", "ssh", "x509", "other", "loginForm", "x509ca"}

(* The control points at which a slot holds the Mutex.                     *)
LockedPcs == {"decrypt", "genDer", "setSigner"}

Idle == [pc |-> "idle", op |-> "inject", kind |-> "none", method |-> "GET", user |-> NoUser, target |-> NoUser,
         key |-> "none", der |-> "none", resp |-> "none"]

(* Besides the types: the Mutex is held exactly by a slot inside the     *)
(* locked part of secretInjectorHandler (its deferred Unlock runs on      *)
(* every return).                                                          *)
TypeOK ==
    /\ caFile \in {"pem", "pgp"}
    /\ signer \in Producers
    /\ caCertDer \in Producers
    /\ mu \in {"free"} \cup Req
    /\ req \in [Req -> [pc : ReqPcs, op : Ops,
                        kind : Kinds, method : {"GET", "POST", "PUT"},
                        user : Users \cup {NoUser}, target : Users \cup {NoUser},
                        key : Producers, der : Producers,
                        resp : Resps]]
    /\ \A r \in Req : (mu = r) <=> (req[r].pc \in LockedPcs)

-----------------------------------------------------------------------------
(* loadVerifyConfigFile: a PEM key is parsed, caCertDer generated, and     *)
(* Signer assigned last; a PGP file (accepted only with a client CA pool)  *)
(* leaves both nil.  Any other file, or a failure there, makes main panic  *)
(* before serving, so it is not a state the handlers see.                  *)
Init ==
    /\ caFile \in {"pem", "pgp"}
    /\ signer = IF caFile = "pem" THEN "boot" ELSE "none"
    /\ caCertDer = IF caFile = "pem" THEN "boot" ELSE "none"
    /\ mu = "free"
    /\ req = [r \in Req |-> Idle]

(* A connection arrives for /admin/inject, /certgen/, /public/ or        *)
(* /profile/.  Its client certificate, method, path, form and passphrase  *)
(* are chosen where the handler first looks at them.                      *)
Arrive(r) ==
    /\ req[r].pc = "idle"
    /\ \/ req' = [req EXCEPT ![r] = [Idle EXCEPT !.pc = "checks"]]
       \/ \E op \in {"certgen", "public", "profile"} :
             req' = [req EXCEPT ![r] = [Idle EXCEPT !.pc = "gate", !.op = op]]
    /\ UNCHANGED <<caFile, signer, caCertDer, mu>>

-----------------------------------------------------------------------------
(* secretInjectorHandler                                                   *)

(* An answer that carries no certificate: only its code is kept.         *)
Answered(r, code) == [Idle EXCEPT !.pc = "done", !.op = req[r].op, !.resp = code]

(* Before the lock: no verified chain is 403, a form without              *)
(* ssh_ca_password is 400.  (r.TLS is never nil under ListenAndServeTLS.) *)
injectChecks(r) ==
    /\ req[r].pc = "checks"
    /\ \E chain, hasPw \in BOOLEAN :
          req' = [req EXCEPT ![r] = CASE ~chain -> Answered(r, "403")
                                      [] ~hasPw -> Answered(r, "400")
                                      [] OTHER  -> [@ EXCEPT !.pc = "lock"]]
    /\ UNCHANGED <<caFile, signer, caCertDer, mu>>

(* Mutant: the 409 return leaves the Mutex locked.                         *)
injectLockKeepsMutex(r) ==
    /\ req[r].pc = "lock"
    /\ mu = "free"
    /\ IF signer # "none"
       THEN /\ mu' = r
            /\ req' = [req EXCEPT ![r].pc = "done", ![r].resp = "409"]
       ELSE /\ mu' = r
            /\ req' = [req EXCEPT ![r].pc = "decrypt"]
    /\ UNCHANGED <<caFile, signer, caCertDer>>

(* Mutant: no "signer already unlocked" check.                             *)
injectLockNoConflict(r) ==
    /\ req[r].pc = "lock"
    /\ mu = "free"
    /\ mu' = r
    /\ req' = [req EXCEPT ![r].pc = "decrypt"]
    /\ UNCHANGED <<caFile, signer, caCertDer>>

(* Lock (Unlock deferred); a Signer already set is 409 and the deferred   *)
(* Unlock runs at once.                                                    *)
injectLock(r) ==
    /\ req[r].pc = "lock"
    /\ mu = "free"
    /\ IF signer # "none"
       THEN /\ req' = [req EXCEPT ![r].pc = "done", ![r].resp = "409"]
            /\ UNCHANGED mu
       ELSE /\ mu' = r
            /\ req' = [req EXCEPT ![r].pc = "decrypt"]
    /\ UNCHANGED <<caFile, signer, caCertDer>>

(* Mutant: a failure returns without unlocking.                           *)
injectDecryptKeepsMutex(r) ==
    /\ req[r].pc = "decrypt"
    /\ \/ req' = [req EXCEPT ![r].pc = "genDer"]
       \/ req' = [req EXCEPT ![r].pc = "done", ![r].resp = "200"]
    /\ UNCHANGED <<caFile, signer, caCertDer, mu>>

(* armor.Decode, openpgp.ReadMessage with a prompt that offers the        *)
(* passphrase once, ReadAll and getSignerFromPEMBytes.  A wrong           *)
(* passphrase fails; with the right one the payload may still not be an   *)
(* RSA PEM key.  Every failure returns without writing a response, so net/*)
(* http answers 200 with an empty body, and the deferred Unlock runs.     *)
injectDecrypt(r) ==
    /\ req[r].pc = "decrypt"
    /\ \/ /\ req' = [req EXCEPT ![r].pc = "genDer"]
          /\ UNCHANGED mu
       \/ /\ req' = [req EXCEPT ![r].pc = "done", ![r].resp = "200"]
          /\ mu' = "free"
    /\ UNCHANGED <<caFile, signer, caCertDer>>

(* Mutant: the error of generateCADer is not checked.                      *)
injectGenCADerNoErrCheck(r) ==
    /\ req[r].pc = "genDer"
    /\ caCertDer' \in {r, "none"}
    /\ req' = [req EXCEPT ![r].pc = "setSigner"]
    /\ UNCHANGED <<caFile, signer, mu>>

(* state.caCertDer, err = generateCADer(state, signer): the field is      *)
(* assigned on success and on failure (nil); a failure returns (implicit  *)
(* 200) and unlocks.                                                       *)
injectGenCADer(r) ==
    /\ req[r].pc = "genDer"
    /\ \/ /\ caCertDer' = r
          /\ req' = [req EXCEPT ![r].pc = "setSigner"]
          /\ UNCHANGED mu
       \/ /\ caCertDer' = "none"
          /\ req' = [req EXCEPT ![r].pc = "done", ![r].resp = "200"]
          /\ mu' = "free"
    /\ UNCHANGED <<caFile, signer>>

(* "Assignmet of signer MUST be the last operation": Signer = signer,     *)
(* 200 "OK", deferred Unlock.                                              *)
injectSetSigner(r) ==
    /\ req[r].pc = "setSigner"
    /\ signer' = r
    /\ mu' = "free"
    /\ req' = [req EXCEPT ![r].pc = "done", ![r].resp = "200"]
    /\ UNCHANGED <<caFile, caCertDer>>

-----------------------------------------------------------------------------
(* Users of the CA certificate                                             *)

(* certGenHandler, publicPathHandler and profileHandler: Lock,           *)
(* signerIsNull and the copy keySigner = state.Signer, Unlock, as one     *)
(* step; a nil Signer is 500.                                              *)
signerGate(r) ==
    /\ req[r].pc = "gate"
    /\ mu = "free"
    /\ req' = [req EXCEPT ![r] = IF signer = "none"
                                 THEN [@ EXCEPT !.pc = "done", !.resp = "500"]
                                 ELSE [@ EXCEPT !.key = signer,
                                                !.pc = IF req[r].op = "public" THEN "read"
                                                                            ELSE "authz"]]
    /\ UNCHANGED <<caFile, signer, caCertDer, mu>>

(* checkAuth: a cookie or basic-auth identity, or a failure it has        *)
(* already answered (401, or 500 on a password-backend error).  Its own   *)
(* locking is modelled in Sessions.                                        *)
CheckAuth == Users \cup {"401", "500"}

(* The path suffix, compared byte for byte with the identity.            *)
IdentityMatches(u, t) == u = t

(* certGenHandler after the gate: checkAuth; the path suffix must equal   *)
(* the identity (403); any method but GET and POST is 405, a form that   *)
(* does not parse is 400; form field "type" selects "ssh" (the default)  *)
(* or "x509", anything else is 400.                                       *)
certGenChecks(r) ==
    /\ req[r].pc = "authz" /\ req[r].op = "certgen"
    /\ \/ \E code \in CheckAuth \ Users : req' = [req EXCEPT ![r] = Answered(r, code)]
       \/ \E u, t \in Users :
             /\ ~IdentityMatches(u, t)
             /\ req' = [req EXCEPT ![r] = Answered(r, "403")]
       \/ \E u, t \in Users :
             /\ IdentityMatches(u, t)
             /\ \E code \in {"405", "400"} : req' = [req EXCEPT ![r] = Answered(r, code)]
       \/ \E u, t \in Users, method \in {"GET", "POST"}, ctype \in {"ssh", "x509"} :
             /\ IdentityMatches(u, t)
             /\ req' = [req EXCEPT ![r] = [@ EXCEPT !.user = u, !.target = t, !.method = method,
                                                   !.kind = ctype, !.pc = ctype]]
    /\ UNCHANGED <<caFile, signer, caCertDer, mu>>

(* postAuthSSHCertHandler signs with the copied signer.  GET fetches the  *)
(* key from SSSD (a failure is http.NotFound); POST needs "pubkeyfile"    *)
(* (400), matching the key regex (400), and GenSSHCertFileString may fail *)
(* (500).  NewSignerFromSigner cannot fail for the RSA key that is the    *)
(* only kind loaded, and the 405 branch is unreachable after the checks.  *)
sshSign(r) ==
    /\ req[r].pc = "ssh"
    /\ \E code \in IF req[r].method = "GET" THEN {"200", "404"} ELSE {"200", "400", "500"} :
          req' = [req EXCEPT ![r] = IF code = "200"
                                    THEN [@ EXCEPT !.pc = "done", !.resp = code,
                                                   !.method = "GET", !.der = req[r].key]
                                    ELSE Answered(r, code)]
    /\ UNCHANGED <<caFile, signer, caCertDer, mu>>

(* postAuthX509CertHandler: only POST (405); "pubkeyfile" missing, not a  *)
(* PEM PUBLIC KEY or not parsable is 400; then the unlocked read of       *)
(* state.caCertDer: ParseCertificate of nil fails (500); GenUserX509Cert  *)
(* signs with the copied signer and may fail (500).                        *)
readCACert(r) ==
    /\ req[r].pc = "x509"
    /\ \E keyOk, genOk \in BOOLEAN :
          LET code == CASE req[r].method # "POST" -> "405"
                        [] ~keyOk                 -> "400"
                        [] caCertDer = "none"     -> "500"
                        [] ~genOk                 -> "500"
                        [] OTHER                  -> "200"
          IN req' = [req EXCEPT ![r] = IF code = "200"
                                       THEN [@ EXCEPT !.pc = "done", !.resp = code,
                                                      !.method = "GET", !.der = caCertDer]
                                       ELSE Answered(r, code)]
    /\ UNCHANGED <<caFile, signer, caCertDer, mu>>

(* publicPathHandler: "loginForm" is 200 with the form, "x509ca" is the   *)
(* unlocked read of state.caCertDer PEM encoded and served with 200,      *)
(* whatever it holds; any other target is 404.                             *)
publicPath(r) ==
    /\ req[r].pc = "read"
    /\ \E target \in {"loginForm", "x509ca", "other"} :
          req' = [req EXCEPT ![r] = CASE target = "x509ca"
                                          -> [@ EXCEPT !.pc = "done", !.kind = target,
                                                       !.der = caCertDer, !.resp = "200"]
                                      [] target = "loginForm" -> Answered(r, "200")
                                      [] OTHER                -> Answered(r, "404")]
    /\ UNCHANGED <<caFile, signer, caCertDer, mu>>

(* profileHandler after the gate: checkAuth, then the page (200).         *)
profileAuth(r) ==
    /\ req[r].pc = "authz" /\ req[r].op = "profile"
    /\ \E u \in CheckAuth :
          req' = [req EXCEPT ![r] = Answered(r, IF u \in Users THEN "200" ELSE u)]
    /\ UNCHANGED <<caFile, signer, caCertDer, mu>>

(* The client has its answer; the slot takes a new connection.            *)
NextRequest(r) ==
    /\ req[r].pc = "done"
    /\ req' = [req EXCEPT ![r] = Idle]
    /\ UNCHANGED <<caFile, signer, caCertDer, mu>>

Handler(r) ==
    \/ injectChecks(r)
    \/ injectLock(r)
    \/ injectDecrypt(r)
    \/ injectGenCADer(r)
    \/ injectSetSigner(r)
    \/ signerGate(r)
    \/ certGenChecks(r)
    \/ sshSign(r)
    \/ readCACert(r)
    \/ publicPath(r)
    \/ profileAuth(r)

Next == \E r \in Req : Handler(r) \/ Arrive(r) \/ NextRequest(r)

(* A goroutine that can run is scheduled; a goroutine blocked in Lock    *)
(* gets the Mutex when it is free infinitely often (sync.Mutex            *)
(* starvation mode).  Clients are not assumed to send anything.           *)
Spec == Init /\ [][Next]_vars /\ \A r \in Req : SF_vars(Handler(r))

-----------------------------------------------------------------------------
(* Properties                                                              *)

(* A request answered 200 by an x509 path got the CA certificate of the    *)
(* very signer it copied at its gate, read without the Mutex: the         *)
(* certificate must be written before the Signer that announces it, and  *)
(* never replaced after.                                                   *)
CACertMatchesSigner ==
    \A r \in Req :
        (req[r].kind \in {"x509", "x509ca"} /\ req[r].resp = "200")
            => req[r].der = req[r].key /\ req[r].der # "none"

(* An /admin/inject answered 200 has unsealed the CA (spec 4.4: "on       *)
(* success ... returns 200 body OK"; 4.1: a rejected passphrase is an     *)
(* error the caller sees).                                                 *)
InjectOkMeansUnsealed ==
    \A r \in Req :
        (req[r].op = "inject" /\ req[r].resp = "200") => signer # "none"

(* The detailed handlers implement the abstract CA of SealedCA: Signer is *)
(* the installed CA, and a client holds the CA behind what it was         *)
(* answered 200 with: the signer of an SSH certificate, the issuer of an  *)
(* x509 one, the CA certificate of /public/x509ca.  Unseal steps that     *)
(* SealedCA does not allow: a second installation or a replacement of the *)
(* CA, or a certificate handed out that is not the installed CA's.        *)
Served == [r \in Req |-> IF req[r].kind \in {"ssh", "x509", "x509ca"} /\ req[r].resp = "200"
                         THEN req[r].der ELSE "none"]

Abstract == INSTANCE SealedCA WITH Keys <- {"boot"} \cup Req, NoKey <- "none",
                                   ca <- signer, served <- Served

ImplementsSealedCA == Abstract!Spec

(* Every request that has arrived is eventually answered: every return of *)
(* secretInjectorHandler releases the Mutex.                               *)
RequestsAnswered ==
    \A r \in Req : (req[r].pc \notin {"idle", "done"}) ~> (req[r].pc = "done")

=============================================================================
