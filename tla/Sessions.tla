------------------------------ MODULE Sessions ------------------------------
(***************************************************************************)
(* Session cookies of src/cmd/ssh_usercert_gen/main.go: start-up          *)
(* (loadVerifyConfigFile starts performStateCleanup on its local           *)
(* RuntimeState and then returns that struct by value), loginHandler       *)
(* issuing auth_cookie entries, checkAuth's cookie path (used by           *)
(* profileHandler and the other handlers) and the expirer goroutine.       *)
(*                                                                         *)
(* The expirer locks the Mutex of the loader's copy, the handlers lock the *)
(* Mutex of main's copy; both copies share the authCookie map.  Each lock, *)
(* critical section and unlock is a separate step where the code could be  *)
(* preempted.  Time is a bounded discrete clock; a cookie value is a model *)
(* value, and genRandomString never repeats one.                           *)
(***************************************************************************)
EXTENDS Naturals, FiniteSets, TLC

CONSTANTS
    Users,     \* user names (model values)
    Req,       \* request slots (goroutines serving connections)
    Cookies,   \* cookie values genRandomString can return (model values)
    NoUser,    \* placeholder for an idle slot's fields (model value)
    MaxAge,    \* maxAgeSecondsAuthCookie, in clock ticks
    MaxTime    \* bound on the clock

ASSUME NoUser \notin Users /\ MaxAge \in Nat \ {0} /\ MaxTime \in Nat

VARIABLES
    clock,       \* time.Now(), in ticks
    authCookie,  \* the shared map: cookie value -> [user, exp]
    issuedTo,    \* history: cookie value -> the user a login issued it to
    loaderMu,    \* Mutex of loadVerifyConfigFile's runtimeState: "free"/"held"
    mainMu,      \* Mutex of main's runtimeState: "free", a slot, "orphaned"
    cleanupPc,   \* control point of performStateCleanup
    mainPc,      \* control point of main
    req,         \* req[r]: control point and locals of request slot r
    crashed      \* the Go runtime aborted (concurrent map access detected)

vars == <<clock, authCookie, issuedTo, loaderMu, mainMu, cleanupPc, mainPc,
          req, crashed>>

Ops == {"login", "cookie"}
ReqPcs == {"idle", "gate", "auth", "random", "lockW", "writeCS",
           "lockR", "readCS", "expiry", "done"}
Resps == {"none", "200", "401", "500"}

(* The steps of a slot during which it is inside a critical section that  *)
(* touches authCookie.                                                     *)
MapCS == {"writeCS", "readCS"}

Idle == [pc |-> "idle", op |-> "cookie", user |-> NoUser, pwOk |-> FALSE,
         cookie |-> CHOOSE c \in Cookies : TRUE, exp |-> 0,
         resp |-> "none"]

Entry == [user : Users, exp : 0..MaxTime + MaxAge]

TypeOK ==
    /\ clock \in 0..MaxTime
    /\ DOMAIN authCookie \subseteq Cookies
    /\ \A c \in DOMAIN authCookie : authCookie[c] \in Entry
    /\ DOMAIN issuedTo \subseteq Cookies
    /\ \A c \in DOMAIN issuedTo : issuedTo[c] \in Users
    /\ loaderMu \in {"free", "held"}
    /\ mainMu \in {"free", "orphaned"} \cup Req
    /\ cleanupPc \in {"none", "lock", "sweep", "sleep"}
    /\ mainPc \in {"load", "return", "serving"}
    /\ req \in [Req -> [pc : ReqPcs, op : Ops, user : Users \cup {NoUser},
                        pwOk : BOOLEAN, cookie : Cookies,
                        exp : 0..MaxTime + MaxAge,
                        resp : Resps]]
    /\ crashed \in BOOLEAN

Running == ~crashed

Init ==
    /\ clock = 0
    /\ authCookie = <<>>
    /\ issuedTo = <<>>
    /\ loaderMu = "free"
    /\ mainMu = "free"
    /\ cleanupPc = "none"
    /\ mainPc = "load"
    /\ req = [r \in Req |-> Idle]
    /\ crashed = FALSE

-----------------------------------------------------------------------------
(* Start-up                                                                *)

(* loadVerifyConfigFile: make the maps, load profiles, then               *)
(* "go runtimeState.performStateCleanup()" on the local struct.           *)
loadVerifyConfigFile ==
    /\ mainPc = "load"
    /\ mainPc' = "return"
    /\ cleanupPc' = "lock"
    /\ UNCHANGED <<clock, authCookie, issuedTo, loaderMu, mainMu, req, crashed>>

(* "return runtimeState, nil" copies the struct, its Mutex included, into *)
(* main's runtimeState; a Mutex copied while the expirer holds it is a    *)
(* locked Mutex nobody will unlock.  main then registers the handlers on  *)
(* its copy and serves.                                                    *)
returnRuntimeState ==
    /\ mainPc = "return"
    /\ mainMu' = IF loaderMu = "held" THEN "orphaned" ELSE "free"
    /\ mainPc' = "serving"
    /\ UNCHANGED <<clock, authCookie, issuedTo, loaderMu, cleanupPc, req, crashed>>

-----------------------------------------------------------------------------
(* performStateCleanup: lock, delete every entry with ExpiresAt before    *)
(* now, unlock, sleep 30 s, forever.                                       *)

cleanupLock ==
    /\ Running
    /\ cleanupPc = "lock"
    /\ loaderMu = "free"
    /\ loaderMu' = "held"
    /\ cleanupPc' = "sweep"
    /\ UNCHANGED <<clock, authCookie, issuedTo, mainMu, mainPc, req, crashed>>

(* Mutant: the sweep deletes only entries more than one tick past expiry. *)
cleanupSweepLate ==
    /\ Running
    /\ cleanupPc = "sweep"
    /\ authCookie' = [c \in {k \in DOMAIN authCookie :
                                ~(authCookie[k].exp + 1 < clock)} |-> authCookie[c]]
    /\ loaderMu' = "free"
    /\ cleanupPc' = "sleep"
    /\ UNCHANGED <<clock, issuedTo, mainMu, mainPc, req, crashed>>

(* Mutant: the sweep also deletes entries that expire at this tick.     *)
cleanupSweepEarly ==
    /\ Running
    /\ cleanupPc = "sweep"
    /\ authCookie' = [c \in {k \in DOMAIN authCookie :
                                ~(authCookie[k].exp <= clock)} |-> authCookie[c]]
    /\ loaderMu' = "free"
    /\ cleanupPc' = "sleep"
    /\ UNCHANGED <<clock, issuedTo, mainMu, mainPc, req, crashed>>

cleanupSweep ==
    /\ Running
    /\ cleanupPc = "sweep"
    /\ authCookie' = [c \in {k \in DOMAIN authCookie :
                                ~(authCookie[k].exp < clock)} |-> authCookie[c]]
    /\ loaderMu' = "free"
    /\ cleanupPc' = "sleep"
    /\ UNCHANGED <<clock, issuedTo, mainMu, mainPc, req, crashed>>

cleanupSleep ==
    /\ Running
    /\ cleanupPc = "sleep"
    /\ cleanupPc' = "lock"
    /\ UNCHANGED <<clock, authCookie, issuedTo, loaderMu, mainMu, mainPc, req, crashed>>

-----------------------------------------------------------------------------
(* Request handlers on main's runtimeState                                *)

(* A connection arrives: a login (loginHandler with a user and a right or *)
(* wrong password) or a request presenting an auth_cookie value, which    *)
(* need not be one the server issued.                                      *)
Arrive(r) ==
    /\ Running
    /\ mainPc = "serving"
    /\ req[r].pc = "idle"
    /\ \/ \E u \in Users, ok \in BOOLEAN :
             req' = [req EXCEPT ![r] = [Idle EXCEPT !.pc = "gate", !.op = "login",
                                                 !.user = u, !.pwOk = ok]]
       \/ \E c \in Cookies :
             req' = [req EXCEPT ![r] = [Idle EXCEPT !.pc = "gate", !.cookie = c]]
    /\ UNCHANGED <<clock, authCookie, issuedTo, loaderMu, mainMu, cleanupPc, mainPc, crashed>>

(* Every handler first copies "signerIsNull" under the Mutex (the signer  *)
(* is loaded from a PEM CA here).  Lock, read and Unlock are one step:    *)
(* nothing else happens in between, but Lock blocks while the Mutex is    *)
(* held, and for ever once it is orphaned.                                 *)
signerGate(r) ==
    /\ Running
    /\ req[r].pc = "gate"
    /\ mainMu = "free"
    /\ req' = [req EXCEPT ![r].pc = IF req[r].op = "login" THEN "auth" ELSE "lockR"]
    /\ UNCHANGED <<clock, authCookie, issuedTo, loaderMu, mainMu, cleanupPc, mainPc, crashed>>

(* loginHandler: checkUserPassword; an invalid password is 401, an error  *)
(* from the backends (unreadable htpasswd file) is 500.                    *)
loginCheckPassword(r) ==
    /\ Running
    /\ req[r].pc = "auth"
    /\ \/ /\ req[r].pwOk
          /\ req' = [req EXCEPT ![r].pc = "random"]
       \/ /\ ~req[r].pwOk
          /\ req' = [req EXCEPT ![r].pc = "done", ![r].resp = "401"]
       \/ req' = [req EXCEPT ![r].pc = "done", ![r].resp = "500"]
    /\ UNCHANGED <<clock, authCookie, issuedTo, loaderMu, mainMu, cleanupPc, mainPc, crashed>>

(* Mutant: the expiry is one tick past maxAgeSecondsAuthCookie.           *)
genRandomStringLongExpiry(r) ==
    /\ Running
    /\ req[r].pc = "random"
    /\ \/ \E c \in Cookies \ DOMAIN issuedTo :
             /\ req' = [req EXCEPT ![r].pc = "lockW", ![r].cookie = c,
                                   ![r].exp = clock + MaxAge + 1]
             /\ issuedTo' = issuedTo @@ (c :> req[r].user)
       \/ /\ req' = [req EXCEPT ![r].pc = "done", ![r].resp = "500"]
          /\ UNCHANGED issuedTo
    /\ UNCHANGED <<clock, authCookie, loaderMu, mainMu, cleanupPc, mainPc, crashed>>

(* genRandomString: 32 random bytes, never a value issued before; a       *)
(* failing rand.Read is 500.  The expiry is computed from time.Now().     *)
genRandomString(r) ==
    /\ Running
    /\ req[r].pc = "random"
    /\ \/ \E c \in Cookies \ DOMAIN issuedTo :
             /\ req' = [req EXCEPT ![r].pc = "lockW", ![r].cookie = c,
                                   ![r].exp = clock + MaxAge]
             /\ issuedTo' = issuedTo @@ (c :> req[r].user)
       \/ /\ req' = [req EXCEPT ![r].pc = "done", ![r].resp = "500"]
          /\ UNCHANGED issuedTo
    /\ UNCHANGED <<clock, authCookie, loaderMu, mainMu, cleanupPc, mainPc, crashed>>

(* Lock before writing or reading authCookie.                              *)
lockMain(r) ==
    /\ Running
    /\ req[r].pc \in {"lockW", "lockR"}
    /\ mainMu = "free"
    /\ mainMu' = r
    /\ req' = [req EXCEPT ![r].pc = IF req[r].pc = "lockW" THEN "writeCS" ELSE "readCS"]
    /\ UNCHANGED <<clock, authCookie, issuedTo, loaderMu, cleanupPc, mainPc, crashed>>

(* state.authCookie[cookieVal] = savedUserInfo; Unlock; set the cookie    *)
(* and answer 200 ("Success!" or a redirect to /profile/).                *)
loginStoreCookie(r) ==
    /\ Running
    /\ req[r].pc = "writeCS"
    /\ authCookie' = authCookie @@ (req[r].cookie :> [user |-> req[r].user,
                                                     exp |-> req[r].exp])
    /\ mainMu' = "free"
    /\ req' = [req EXCEPT ![r].pc = "done", ![r].resp = "200"]
    /\ UNCHANGED <<clock, issuedTo, loaderMu, cleanupPc, mainPc, crashed>>

(* checkAuth's cookie path, critical section: info, ok :=                *)
(* state.authCookie[value]; Unlock; a missing entry is 401.  The entry is *)
(* copied into the request's locals.                                       *)
checkAuthCookie(r) ==
    LET c == req[r].cookie
    IN
    /\ Running
    /\ req[r].pc = "readCS"
    /\ mainMu' = "free"
    /\ req' = [req EXCEPT ![r] =
                 IF c \in DOMAIN authCookie
                 THEN [@ EXCEPT !.pc = "expiry", !.user = authCookie[c].user,
                                !.exp = authCookie[c].exp]
                 ELSE [@ EXCEPT !.pc = "done", !.resp = "401"]]
    /\ UNCHANGED <<clock, authCookie, issuedTo, loaderMu, cleanupPc, mainPc, crashed>>

(* After the Unlock: info.ExpiresAt.Before(time.Now()) is 401, otherwise  *)
(* the handler (profileHandler) serves info.Username.  time.Now() is read *)
(* here, after the expirer may have run.                                   *)
checkCookieExpiry(r) ==
    /\ Running
    /\ req[r].pc = "expiry"
    /\ req' = [req EXCEPT ![r].pc = "done",
                          ![r].resp = IF req[r].exp < clock THEN "401" ELSE "200"]
    /\ UNCHANGED <<clock, authCookie, issuedTo, loaderMu, mainMu, cleanupPc, mainPc, crashed>>

-----------------------------------------------------------------------------
(* Environment                                                             *)

(* The client has its answer; the slot takes a new connection.           *)
NextRequest(r) ==
    /\ Running
    /\ req[r].pc = "done"
    /\ req' = [req EXCEPT ![r] = Idle]
    /\ UNCHANGED <<clock, authCookie, issuedTo, loaderMu, mainMu, cleanupPc, mainPc, crashed>>

Tick ==
    /\ Running
    /\ clock < MaxTime
    /\ clock' = clock + 1
    /\ UNCHANGED <<authCookie, issuedTo, loaderMu, mainMu, cleanupPc, mainPc, req, crashed>>

(* A map read or write that overlaps the expirer's iteration and deletes  *)
(* is a data race; the Go runtime may detect it and abort the process     *)
(* ("concurrent map read and map write"), or the access may go through.   *)
ConcurrentMapFault ==
    /\ Running
    /\ cleanupPc = "sweep"
    /\ \E r \in Req : req[r].pc \in MapCS
    /\ crashed' = TRUE
    /\ UNCHANGED <<clock, authCookie, issuedTo, loaderMu, mainMu, cleanupPc, mainPc, req>>

(* After the abort nothing happens any more.                               *)
Aborted ==
    /\ crashed
    /\ UNCHANGED vars

Handler(r) ==
    \/ signerGate(r)
    \/ loginCheckPassword(r)
    \/ genRandomString(r)
    \/ lockMain(r)
    \/ loginStoreCookie(r)
    \/ checkAuthCookie(r)
    \/ checkCookieExpiry(r)

Cleanup == cleanupLock \/ cleanupSweep \/ cleanupSleep

Startup == loadVerifyConfigFile \/ returnRuntimeState

Next ==
    \/ Startup
    \/ Cleanup
    \/ \E r \in Req : Handler(r) \/ Arrive(r) \/ NextRequest(r)
    \/ Tick
    \/ ConcurrentMapFault
    \/ Aborted

(* Goroutines that can run are scheduled; the 30 s sleep ends.  A        *)
(* handler waiting in Lock gets the Mutex if it is free infinitely often: *)
(* sync.Mutex hands it to a waiter blocked for over 1 ms (starvation      *)
(* mode), so strong fairness.  Clients and the clock are not assumed to   *)
(* move.                                                                   *)
Fairness ==
    /\ WF_vars(Startup)
    /\ WF_vars(Cleanup)
    /\ \A r \in Req : SF_vars(Handler(r))

Spec == Init /\ [][Next]_vars /\ Fairness

-----------------------------------------------------------------------------
(* Properties                                                              *)

(* A request admitted on a cookie is admitted only while the expirer     *)
(* has not deleted its session: the handler reads the entry under the     *)
(* Mutex, unlocks, and only then compares ExpiresAt with time.Now(), so   *)
(* the sweep can run in between; its test (ExpiresAt before now) and      *)
(* checkAuth's must agree for a swept session never to be honoured.       *)
AcceptedNow(r) ==
    /\ req[r].op = "cookie"
    /\ req[r].resp = "none"
    /\ req'[r].resp = "200"

SweptSessionNeverAccepted ==
    [][\A r \in Req : AcceptedNow(r) => req[r].cookie \in DOMAIN authCookie']_vars

(* The authCookie map is never accessed by a handler while the expirer is *)
(* iterating over it and deleting (spec 5: one mutex mediates every read  *)
(* and write of the session map).                                          *)
AuthCookieExclusive ==
    ~(cleanupPc = "sweep" /\ \E r \in Req : req[r].pc \in MapCS)

(* An expired entry does not stay in the map: performStateCleanup         *)
(* eventually deletes it (unless the process has aborted).                *)
ExpiredEventuallySwept ==
    \A c \in Cookies :
        (c \in DOMAIN authCookie /\ authCookie[c].exp < clock)
            ~> (c \notin DOMAIN authCookie \/ crashed)

(* Every request that has arrived is eventually answered, unless the      *)
(* process has aborted.                                                    *)
RequestsAnswered ==
    \A r \in Req :
        (req[r].pc \notin {"idle", "done"}) ~> (req[r].pc = "done" \/ crashed)

=============================================================================
