----------------------------- MODULE U2fProfiles -----------------------------
(***************************************************************************)
(* Second-factor profiles of src/cmd/ssh_usercert_gen/main.go:             *)
(* u2fRegisterRequest, u2fRegisterResponse, u2fSignRequest and             *)
(* u2fSignResponse on state.userProfile under state.Mutex, the profile     *)
(* file written by SaveUserProfiles (gob of the map, ioutil.WriteFile:     *)
(* truncate, then write; its error is ignored by both callers) and read    *)
(* back by LoadUserProfiles when the daemon restarts after a crash.        *)
(*                                                                         *)
(* The user's authenticator is part of the environment: it creates a new   *)
(* credential (key pair) per registration and signs a challenge with a     *)
(* counter it increments.  Whatever it sent may be replayed by the network.*)
(* A challenge is a number (NewChallenge's random nonce never repeats); 0   *)
(* is nil.  Requests reaching these handlers have passed the sealed gate  *)
(* and checkAuth unless their preamble step rejects them.                  *)
(***************************************************************************)
EXTENDS Naturals, Sequences, FiniteSets, Bags

CONSTANTS
    Users,     \* user names (model values)
    Req,       \* request slots (goroutines serving connections)
    Creds,     \* credentials an authenticator can create (model values)
    MaxCh,     \* bound on the challenges NewChallenge issues
    MaxCtr,    \* bound on an authenticator's signature counter
    MaxCrash   \* bound on crashes of the daemon

VARIABLES
    up,          \* the daemon is running
    crashes,     \* crashes so far
    prof,        \* state.userProfile: user -> [regs, regCh, authCh]
    disk,        \* userProfiles.gob: [valid, data]; not valid = missing/torn
    mu,          \* state.Mutex: "free" or the holding slot
    nextCh,      \* the next fresh challenge
    made,        \* credentials the authenticator has created
    devCtr,      \* the authenticator's counter per credential
    seen,        \* sign responses that have crossed the network
    accepted,    \* bag of sign responses u2fSignResponse accepted
    ackedReg,    \* credentials whose registration was answered "success"
    ackedSign,   \* [cred, ctr] of sign responses answered "success"
    req          \* req[r]: control point and locals of request slot r

vars == <<up, crashes, prof, disk, mu, nextCh, made, devCtr, seen, accepted,
          ackedReg, ackedSign, req>>

Chs == 0..MaxCh
SignResp == [cred : Creds, ch : 1..MaxCh, ctr : 1..MaxCtr]
Reg == [cred : Creds, ctr : 0..MaxCtr]
Profile == [regs : Seq(Reg), regCh : Chs, authCh : Chs]
Ops == {"regReq", "regResp", "signReq", "signResp"}
Resps == {"none", "ok", "400", "500", "err"}

EmptyProfile == [regs |-> <<>>, regCh |-> 0, authCh |-> 0]
NoProfiles == [u \in Users |-> EmptyProfile]

Idle == [pc |-> "idle", op |-> "regReq", user |-> CHOOSE u \in Users : TRUE,
         cred |-> CHOOSE k \in Creds : TRUE, ch |-> 0, ctr |-> 0,
         resp |-> "none"]

(* Besides the types: only a handler saving the profiles holds the Mutex  *)
(* between steps; every other locked part is atomic and its deferred       *)
(* Unlock runs on every return.                                            *)
TypeOK ==
    /\ up \in BOOLEAN
    /\ crashes \in 0..MaxCrash
    /\ prof \in [Users -> Profile]
    /\ disk \in [valid : BOOLEAN, data : [Users -> Profile]]
    /\ mu \in {"free"} \cup Req
    /\ nextCh \in 1..MaxCh + 1
    /\ made \subseteq Creds
    /\ devCtr \in [Creds -> 0..MaxCtr]
    /\ seen \subseteq SignResp
    /\ IsABag(accepted) /\ BagToSet(accepted) \subseteq SignResp
    /\ ackedReg \subseteq Creds
    /\ ackedSign \subseteq [cred : Creds, ctr : 1..MaxCtr]
    /\ req \in [Req -> [pc : {"idle", "pre", "lock", "truncate", "write", "done"},
                        op : Ops, user : Users, cred : Creds, ch : Chs,
                        ctr : 0..MaxCtr, resp : Resps]]
    /\ \A r \in Req : (mu = r) <=> (req[r].pc \in {"truncate", "write"})

(* The daemon starts without a profile file: LoadUserProfiles' error is   *)
(* only logged and the map stays empty.                                    *)
Init ==
    /\ up = TRUE
    /\ crashes = 0
    /\ prof = NoProfiles
    /\ disk = [valid |-> FALSE, data |-> NoProfiles]
    /\ mu = "free"
    /\ nextCh = 1
    /\ made = {}
    /\ devCtr = [k \in Creds |-> 0]
    /\ seen = {}
    /\ accepted = EmptyBag
    /\ ackedReg = {}
    /\ ackedSign = {}
    /\ req = [r \in Req |-> Idle]

-----------------------------------------------------------------------------
(* The u2f library (not in this repository), as the handlers use it.      *)

(* u2f.Register with SkipAttestationVerify: the client data must carry    *)
(* the pending registration challenge.                                     *)
Register(ch, regCh) == ch = regCh

(* Registration.Authenticate(signResp, challenge, counter): the response  *)
(* is signed by this registration's key over this challenge, with a       *)
(* counter above the stored one; it returns the new counter.              *)
Authenticate(reg, x, challenge) ==
    /\ x.cred = reg.cred
    /\ x.ch = challenge
    /\ x.ctr > reg.ctr

(* The index of the first registration that authenticates x, 0 if none:  *)
(* the loop of u2fSignResponse returns at its first success.               *)
FirstAuthenticating(regs, x, challenge) ==
    LET ok == {i \in 1..Len(regs) : Authenticate(regs[i], x, challenge)}
    IN IF ok = {} THEN 0 ELSE CHOOSE i \in ok : \A j \in ok : i <= j

(* Mutant: u2fAuthChallenge exported, so gob persists it.                  *)
PersistedWithAuthChallenge(p) == p

(* The gob encoding of the map keeps exported fields only: U2fAuthData    *)
(* and RegistrationChallenge are written, u2fAuthChallenge is not.         *)
Persisted(p) == [u \in Users |-> [p[u] EXCEPT !.authCh = 0]]

-----------------------------------------------------------------------------
(* Clients                                                                  *)

(* A connection arrives for one of the four paths.  A RegisterResponse    *)
(* carries a new credential of the authenticator, for a challenge it was  *)
(* given; a SignResponse is a fresh signature (the authenticator's counter*)
(* advances) or a replay of one already on the network.                   *)
Arrive(r) ==
    /\ up
    /\ req[r].pc = "idle"
    /\ \E u \in Users :
       \/ /\ \E op \in {"regReq", "signReq"} :
                 req' = [req EXCEPT ![r] = [Idle EXCEPT !.pc = "pre", !.op = op, !.user = u]]
          /\ UNCHANGED <<made, devCtr, seen>>
       \/ \E k \in Creds \ made, ch \in 1..nextCh - 1 :
             /\ req' = [req EXCEPT ![r] = [Idle EXCEPT !.pc = "pre", !.op = "regResp",
                                                 !.user = u, !.cred = k, !.ch = ch]]
             /\ made' = made \cup {k}
             /\ UNCHANGED <<devCtr, seen>>
       \/ \E k \in made, ch \in 1..nextCh - 1 :
             LET x == [cred |-> k, ch |-> ch, ctr |-> devCtr[k] + 1]
             IN /\ devCtr[k] < MaxCtr
                /\ devCtr' = [devCtr EXCEPT ![k] = x.ctr]
                /\ seen' = seen \cup {x}
                /\ req' = [req EXCEPT ![r] = [Idle EXCEPT !.pc = "pre", !.op = "signResp",
                                                    !.user = u, !.cred = k, !.ch = ch,
                                                    !.ctr = x.ctr]]
                /\ UNCHANGED made
       \/ \E x \in seen :
             /\ req' = [req EXCEPT ![r] = [Idle EXCEPT !.pc = "pre", !.op = "signResp",
                                                 !.user = u, !.cred = x.cred, !.ch = x.ch,
                                                 !.ctr = x.ctr]]
             /\ UNCHANGED <<made, devCtr, seen>>
    /\ UNCHANGED <<up, crashes, prof, disk, mu, nextCh, accepted, ackedReg, ackedSign>>

(* The part before the profile lock: the sealed gate (500), checkAuth     *)
(* (401) and, for the two responses, the JSON decoding (400), each of     *)
(* which may reject.  The gate and checkAuth's cookie lookup lock the     *)
(* Mutex for a moment.                                                     *)
preamble(r) ==
    /\ up
    /\ req[r].pc = "pre"
    /\ mu = "free"
    /\ \E pass \in BOOLEAN :
           req' = [req EXCEPT ![r].pc = IF pass THEN "lock" ELSE "done",
                              ![r].resp = IF pass THEN "none" ELSE "err"]
    /\ UNCHANGED <<up, crashes, prof, disk, mu, nextCh, made, devCtr, seen, accepted,
                   ackedReg, ackedSign>>

(* Answer a request that holds no lock; the deferred Unlock is implied.   *)
Answer(r, code) == req' = [req EXCEPT ![r].pc = "done", ![r].resp = code]

(* u2fRegisterRequest, whole locked part: NewChallenge (500 on error),   *)
(* profile.RegistrationChallenge = c, store the profile, answer.           *)
u2fRegisterRequest(r) ==
    LET u == req[r].user IN
    /\ up
    /\ req[r].pc = "lock" /\ req[r].op = "regReq"
    /\ mu = "free"
    /\ \/ /\ nextCh <= MaxCh
          /\ prof' = [prof EXCEPT ![u].regCh = nextCh]
          /\ nextCh' = nextCh + 1
          /\ Answer(r, "ok")
       \/ /\ Answer(r, "500")
          /\ UNCHANGED <<prof, nextCh>>
    /\ UNCHANGED <<up, crashes, disk, mu, made, devCtr, seen, accepted, ackedReg, ackedSign>>

(* u2fRegisterResponse under the lock: no pending challenge is 400;       *)
(* u2f.Register failing is 500 and leaves the challenge; otherwise append *)
(* {Counter 0, reg}, clear the challenge, store, and go on to save while  *)
(* holding the lock.                                                        *)
u2fRegisterResponse(r) ==
    LET u == req[r].user
        p == prof[u]
    IN
    /\ up
    /\ req[r].pc = "lock" /\ req[r].op = "regResp"
    /\ mu = "free"
    /\ \/ /\ p.regCh = 0
          /\ Answer(r, "400")
          /\ UNCHANGED <<prof, mu>>
       \/ /\ p.regCh # 0 /\ ~Register(req[r].ch, p.regCh)
          /\ Answer(r, "500")
          /\ UNCHANGED <<prof, mu>>
       \/ /\ p.regCh # 0 /\ Register(req[r].ch, p.regCh)
          /\ prof' = [prof EXCEPT ![u] = [regs |-> Append(p.regs, [cred |-> req[r].cred,
                                                                   ctr |-> 0]),
                                           regCh |-> 0, authCh |-> p.authCh]]
          /\ mu' = r
          /\ req' = [req EXCEPT ![r].pc = "truncate"]
    /\ UNCHANGED <<up, crashes, disk, nextCh, made, devCtr, seen, accepted, ackedReg, ackedSign>>

(* u2fSignRequest, whole locked part: no profile or no registration is    *)
(* 400; NewChallenge (500 on error); profile.u2fAuthChallenge = c, store, *)
(* answer.                                                                  *)
u2fSignRequest(r) ==
    LET u == req[r].user IN
    /\ up
    /\ req[r].pc = "lock" /\ req[r].op = "signReq"
    /\ mu = "free"
    /\ \/ /\ prof[u].regs = <<>>
          /\ Answer(r, "400")
          /\ UNCHANGED <<prof, nextCh>>
       \/ /\ prof[u].regs # <<>>
          /\ nextCh <= MaxCh
          /\ prof' = [prof EXCEPT ![u].authCh = nextCh]
          /\ nextCh' = nextCh + 1
          /\ Answer(r, "ok")
       \/ /\ prof[u].regs # <<>>
          /\ Answer(r, "500")
          /\ UNCHANGED <<prof, nextCh>>
    /\ UNCHANGED <<up, crashes, disk, mu, made, devCtr, seen, accepted, ackedReg, ackedSign>>

(* Mutant: the final 500 return does not unlock.                          *)
u2fSignResponseKeepsMutex(r) ==
    LET u == req[r].user
        p == prof[u]
        x == [cred |-> req[r].cred, ch |-> req[r].ch, ctr |-> req[r].ctr]
        i == FirstAuthenticating(p.regs, x, p.authCh)
    IN
    /\ up
    /\ req[r].pc = "lock" /\ req[r].op = "signResp"
    /\ mu = "free"
    /\ \/ /\ p.regs = <<>> \/ p.authCh = 0
          /\ Answer(r, "400")
          /\ UNCHANGED <<prof, mu, accepted>>
       \/ /\ p.regs # <<>> /\ p.authCh # 0 /\ i = 0
          /\ Answer(r, "500")
          /\ mu' = r
          /\ UNCHANGED <<prof, accepted>>
       \/ /\ p.regs # <<>> /\ p.authCh # 0 /\ i # 0
          /\ prof' = [prof EXCEPT ![u].regs[i].ctr = x.ctr, ![u].authCh = 0]
          /\ accepted' = accepted (+) SetToBag({x})
          /\ mu' = r
          /\ req' = [req EXCEPT ![r].pc = "truncate"]
    /\ UNCHANGED <<up, crashes, disk, nextCh, made, devCtr, seen, ackedReg, ackedSign>>

(* u2fSignResponse under the lock: no registration or no pending         *)
(* challenge is 400; the first registration that authenticates gets the  *)
(* new counter, the challenge is cleared, the profile stored and saved    *)
(* with the lock held; if none does, 500 and the challenge stays.          *)
u2fSignResponse(r) ==
    LET u == req[r].user
        p == prof[u]
        x == [cred |-> req[r].cred, ch |-> req[r].ch, ctr |-> req[r].ctr]
        i == FirstAuthenticating(p.regs, x, p.authCh)
    IN
    /\ up
    /\ req[r].pc = "lock" /\ req[r].op = "signResp"
    /\ mu = "free"
    /\ \/ /\ p.regs = <<>> \/ p.authCh = 0
          /\ Answer(r, "400")
          /\ UNCHANGED <<prof, mu, accepted>>
       \/ /\ p.regs # <<>> /\ p.authCh # 0 /\ i = 0
          /\ Answer(r, "500")
          /\ UNCHANGED <<prof, mu, accepted>>
       \/ /\ p.regs # <<>> /\ p.authCh # 0 /\ i # 0
          /\ prof' = [prof EXCEPT ![u].regs[i].ctr = x.ctr, ![u].authCh = 0]
          /\ accepted' = accepted (+) SetToBag({x})
          /\ mu' = r
          /\ req' = [req EXCEPT ![r].pc = "truncate"]
    /\ UNCHANGED <<up, crashes, disk, nextCh, made, devCtr, seen, ackedReg, ackedSign>>

(* The handler writes "success" and its deferred Unlock runs.              *)
Succeed(r) ==
    /\ mu' = "free"
    /\ req' = [req EXCEPT ![r].pc = "done", ![r].resp = "ok"]
    /\ ackedReg' = IF req[r].op = "regResp" THEN ackedReg \cup {req[r].cred}
                                            ELSE ackedReg
    /\ ackedSign' = IF req[r].op = "signResp"
                    THEN ackedSign \cup {[cred |-> req[r].cred, ctr |-> req[r].ctr]}
                    ELSE ackedSign

(* SaveUserProfiles, ioutil.WriteFile part one: opening with O_TRUNC     *)
(* empties the file; if the open fails, the error is returned and the     *)
(* handler ignores it.                                                      *)
saveOpen(r) ==
    /\ up
    /\ req[r].pc = "truncate"
    /\ \/ /\ disk' = [disk EXCEPT !.valid = FALSE]
          /\ req' = [req EXCEPT ![r].pc = "write"]
          /\ UNCHANGED <<mu, ackedReg, ackedSign>>
       \/ /\ Succeed(r)
          /\ UNCHANGED disk
    /\ UNCHANGED <<up, crashes, prof, nextCh, made, devCtr, seen, accepted>>

(* Part two: write the gob bytes of the whole map; a failed write leaves  *)
(* the file torn, and that error is ignored too.                           *)
saveWrite(r) ==
    /\ up
    /\ req[r].pc = "write"
    /\ \/ disk' = [valid |-> TRUE, data |-> Persisted(prof)]
       \/ UNCHANGED disk
    /\ Succeed(r)
    /\ UNCHANGED <<up, crashes, prof, nextCh, made, devCtr, seen, accepted>>

-----------------------------------------------------------------------------
(* Environment                                                             *)

NextRequest(r) ==
    /\ up
    /\ req[r].pc = "done"
    /\ req' = [req EXCEPT ![r] = Idle]
    /\ UNCHANGED <<up, crashes, prof, disk, mu, nextCh, made, devCtr, seen, accepted,
                   ackedReg, ackedSign>>

(* The process dies (killed, host failure): memory, goroutines and the    *)
(* Mutex are gone; the file, the authenticator and the network remain.    *)
Crash ==
    /\ up
    /\ crashes < MaxCrash
    /\ up' = FALSE
    /\ crashes' = crashes + 1
    /\ prof' = NoProfiles
    /\ mu' = "free"
    /\ req' = [r \in Req |-> Idle]
    /\ UNCHANGED <<disk, nextCh, made, devCtr, seen, accepted, ackedReg, ackedSign>>

(* loadVerifyConfigFile on restart: LoadUserProfiles decodes the file     *)
(* into the fresh map; a missing or torn file is only logged.              *)
Restart ==
    /\ ~up
    /\ up' = TRUE
    /\ prof' = IF disk.valid THEN disk.data ELSE NoProfiles
    /\ UNCHANGED <<crashes, disk, mu, nextCh, made, devCtr, seen, accepted,
                   ackedReg, ackedSign, req>>

Handler(r) ==
    \/ preamble(r)
    \/ u2fRegisterRequest(r)
    \/ u2fRegisterResponse(r)
    \/ u2fSignRequest(r)
    \/ u2fSignResponse(r)
    \/ saveOpen(r)
    \/ saveWrite(r)

Next ==
    \/ \E r \in Req : Handler(r) \/ Arrive(r) \/ NextRequest(r)
    \/ Crash
    \/ Restart

Spec == Init /\ [][Next]_vars

-----------------------------------------------------------------------------
(* Properties                                                              *)

(* No sign response is ever accepted twice, across crashes and restarts:  *)
(* u2fSignResponse consumes the challenge, a restart starts without one   *)
(* because u2fAuthChallenge is not persisted (spec 3: it MUST NOT be),    *)
(* and a replay fails the challenge or the counter check.                  *)
ReplayRejected ==
    \A x \in BagToSet(accepted) : CopiesIn(x, accepted) = 1

(* A registration answered "success" is still registered while the       *)
(* daemon runs, restarts included (spec 4.3: the profile blob is written *)
(* atomically after every registration).                                   *)
AckedRegistrationsKept ==
    up => \A k \in ackedReg :
              \E u \in Users : \E i \in 1..Len(prof[u].regs) : prof[u].regs[i].cred = k

(* After a sign response is answered "success", a registration of that   *)
(* credential never holds a lower counter (spec 5: the advanced counter  *)
(* is visible to any subsequent authentication attempt).                   *)
AckedCountersKept ==
    up => \A a \in ackedSign : \A u \in Users : \A i \in 1..Len(prof[u].regs) :
              prof[u].regs[i].cred = a.cred => prof[u].regs[i].ctr >= a.ctr

=============================================================================
