# TLA+ models of the keymaster credential daemon

The daemon lives in `src/cmd/ssh_usercert_gen/main.go` (package `main`,
1348 lines). It issues short-lived SSH and X.509 user certificates, signed
by a CA key that is either loaded at start-up or delivered later through
`/admin/inject` (sealed mode). Users authenticate with LDAP or htpasswd
passwords, hold session cookies, and can register U2F authenticators.
`src/unnamed/part_000` is an older, smaller version of the same daemon: basic
auth, LDAP and `ssh-keygen` subprocesses. It is modelled too (`Keymasterd`).
`spec.md` describes the intended behaviour. The runs compare the code
against it.

## 1. The system and how its parts interact

Everything lives in one `RuntimeState` struct (main.go 82-93): the config,
the CA key (`Signer`) and its certificate (`caCertDer`), the cookie map
`authCookie`, the profile map `userProfile`, and one `sync.Mutex`.
`net/http` runs every request on its own goroutine. One background
goroutine, `performStateCleanup`, deletes expired cookies every 30 s.

| Part | Code (main.go) | Shared state it touches |
|---|---|---|
| Start-up | `loadVerifyConfigFile` 154-265, `main` 1294-1348 | builds the struct, starts the expirer **on the local struct** (262), returns the struct **by value** (264); `main` registers every handler on its copy |
| Session store | `loginHandler` 793-915, `genRandomString` 781-789, `checkAuth` 351-407, `performStateCleanup` 134-152 | `authCookie` under the Mutex |
| Sealed signer | `secretInjectorHandler` 635-720; the gate of every handler | `Signer`, `caCertDer` under the Mutex |
| Issuance | `certGenHandler` 432-518, `postAuthSSHCertHandler` 520-578, `postAuthX509CertHandler` 580-631, `publicPathHandler` 743-775 | copy `Signer` under the Mutex; read `caCertDer` **without** it |
| Second factor | `u2fRegisterRequest/Response`, `u2fSignRequest/Response` 928-1182 | `userProfile` under the Mutex; `SaveUserProfiles` 409-415 writes `userProfiles.gob` with the lock held |
| Persistence | `SaveUserProfiles`, `LoadUserProfiles` 409-428 | the profile file; gob writes exported fields only |
| Primary authenticator | `checkUserPassword` 271-311 | none; calls `authutil` (not in `src/`) |

## 2. Modules

Each module has one action per handler step at which another goroutine
could interleave. Each action is named after the Go function it models.
Every lock, critical section and unlock that another actor can observe is
its own step. Data are abstracted to what the properties distinguish: a
cookie is a model value, a challenge is a number, and a CA key is named by
who installed it.

### `Sessions.tla` (+ `MCSessions.tla`)

This module covers the cookie lifecycle and the start-up that creates the
two Mutex copies.
* `loaderMu` is the Mutex of the loader's struct, which the expirer locks.
* `mainMu` is the Mutex of `main`'s copy, which the handlers lock. It
  becomes `"orphaned"` when `returnRuntimeState` copies it while the
  expirer holds `loaderMu`.
* `authCookie` is the shared map. `issuedTo` records which values
  `genRandomString` has returned, so a value is never issued twice.
* `clock` is `time.Now()` in ticks, bounded by `MaxTime`.
* Actions:
  * start-up: `loadVerifyConfigFile`, `returnRuntimeState`;
  * the expirer: `cleanupLock`, `cleanupSweep`, `cleanupSleep`;
  * `loginHandler`: `signerGate`, `loginCheckPassword` (the verdict of
    `checkUserPassword`: valid, invalid or error), `genRandomString`,
    `lockMain`, `loginStoreCookie`;
  * a request presenting a cookie (`profileHandler` → `checkAuth`):
    `signerGate`, `lockMain`, `checkAuthCookie` (read the entry under
    the Mutex, unlock), `checkCookieExpiry` (compare `ExpiresAt` with
    `time.Now()` after the unlock, so the expirer can run in between).
* `ConcurrentMapFault` is the Go runtime aborting on the unsynchronised
  map access. This is undefined behaviour, so it is a nondeterministic
  outcome, after which the process stutters (`Aborted`).

Fairness:
* The start-up, the expirer (its 30 s sleep ends) and every handler are
  fair.
* Handlers have *strong* fairness. `sync.Mutex` hands the lock to a
  waiter blocked for over 1 ms (starvation mode), so a waiter is not
  starved by other lockers.
* Clients and the clock are not fair.

### `Unseal.tla`, refining `SealedCA.tla`

`Unseal` models the CA lifecycle.
* Variables:
  * `signer` and `caCertDer` each hold `"none"`, `"boot"` (the PEM file
    at start-up) or the request slot that installed them;
  * `mu` is the Mutex.
* Actions:
  * `Init` is the PEM/PGP branch of `loadVerifyConfigFile`;
  * `/admin/inject` is `injectChecks` (403/400), then `injectLock` (409
    when already unsealed), `injectDecrypt`, `injectGenCADer` and
    `injectSetSigner`;
  * every other handler that needs the CA starts with `signerGate`. It
    returns 500 while sealed, and otherwise copies the signer.
  * `/certgen/<user>` continues with `certGenChecks`. This is
    `checkAuth`'s outcome (an identity, or 401/500), then the identity
    check (403), the method (405), form parsing (400) and `type` (400).
    It ends in `sshSign` (`postAuthSSHCertHandler`: GET via SSSD with
    404, or POST with the key file and its regex) or `readCACert`
    (`postAuthX509CertHandler`: POST only, then the unlocked read of
    `caCertDer`).
  * `/public/` continues with `publicPath` (`loginForm`, `x509ca`, or
    404).
  * `/profile/` continues with `profileAuth`.
  * `Answered` is `writeFailureResponse` reduced to its status code.
    Key lookup and signing live in `certgen`, outside `src/`, and
    appear only as success or failure.
* Fairness is strong fairness per handler, as in `Sessions`.

`SealedCA` is the abstract promise of spec 3 and 4.1:
* a CA is installed at most once and never replaced;
* every certificate handed to a client (an SSH or x509 certificate, or
  the CA certificate) is signed by, or is, the installed CA.

`Unseal` maps onto it with `INSTANCE SealedCA WITH ca <- signer,
served <- Served`. `Served` is the CA behind what a client got with a
200.
The abstract `Spec` is checked as the property `ImplementsSealedCA`.

### `U2fProfiles.tla`

This module covers the four U2F handlers, the profile file, and crash and
restart.
* Variables:
  * `prof[u]` is `[regs, regCh, authCh]`, i.e. `U2fAuthData`,
    `RegistrationChallenge` and `u2fAuthChallenge`;
  * `disk` is the file: valid, or missing or torn.
* Actions:
  * each handler's locked part is one action (`u2fRegisterRequest`,
    `u2fRegisterResponse`, `u2fSignRequest`, `u2fSignResponse`). The
    gate, `checkAuth` and JSON decoding before the lock are `preamble`;
  * `SaveUserProfiles` is two steps, because `ioutil.WriteFile` truncates
    and then writes:
    * `saveOpen`: the file is truncated, or the open fails and the error
      is ignored;
    * `saveWrite`: the file is written, or the write fails and the error
      is ignored;
  * `Crash` loses memory and in-flight requests. `Restart` is
    `LoadUserProfiles`.
* `Persisted` is gob's view of a profile: it drops the unexported
  `u2fAuthChallenge`.
* The u2f library is outside this repository. Its checks are
  `Register` (the challenge matches) and `Authenticate` (key, challenge,
  counter above the stored one).
* The authenticator is part of the environment. It makes a new
  credential per registration and signs with an increasing counter. The
  network may replay any sign response it has carried.
* There are no liveness properties here, so no fairness is needed.

### `CheckUserPassword.tla` (+ `MCCheckUserPassword.tla`), refining `PrimaryAuth.tla`

`CheckUserPassword` models main.go 271-311 with checkAuth's basic-auth
path (360-383). Each step is one statement group of the code:
* `checkAuthBasic`: no header gives 401. Otherwise the config copy
  starts the loop.
* `checkURL`: one URL per step. An empty or unparsable URL is skipped, a
  directory with a transport error is skipped, and the first directory
  that answers decides.
* `loopExhausted`: after the list comes the htpasswd file if one is
  configured, else false.
* `checkHtpasswd`: a read or check error is returned, otherwise the
  file's verdict.
* `Answer`: checkAuth maps an error to 500 and invalid to 401.

The environment picks, at the call, which directories are unreachable
(`down`) and what the backends answer. The bind itself lives in
`authutil`, which is not in `src/`.

`PrimaryAuth` is the contract of spec 4.2. A call is `idle` → `busy` →
`done`. Its verdict is `FirstAnswer(1)`, a RECURSIVE reference
definition: the first reachable directory's answer, else the password
file's (an error if it cannot be read), else false. Fairness on `Verify`
makes every call return.

The refinement mapping sends the detailed `loop` and `file` states to
`busy`. A finished call with a verdict maps to `done`. The no-header
401 maps to `idle`, since no verification happens. The detailed module
has weak fairness on its loop steps: each is a bounded call, because the
dial has a 3 s timeout.

`MCCheckUserPassword` uses the list `ldaps, (empty), bad, ldaps`. Every
kind of skip then comes before a directory, and the second directory
decides when the first is down.

### `Keymasterd.tla` (+ `MCKeymasterd.tla`): the older daemon

This module models `src/unnamed/part_000`: the LDAP URL loop one URL per
step, the `/certgen/` handler, and the `sss_ssh_authorizedkeys` →
`TempFile` → `ssh-keygen` → read pipeline with its `log.Fatal` exits.
`MCKeymasterd` defines the URL lists.

## 3. Runs

| Run | Module / cfg | Expect | What it shows |
|---|---|---|---|
| `sessions_core` | `MCSessions` / `MCSessions.cfg` | pass | `TypeOK`; `SweptSessionNeverAccepted`: a cookie is never honoured at a step where the expirer has already deleted its session, although the handler reads the entry before the sweep and tests the expiry after it; `ExpiredEventuallySwept` (about 397k states) |
| `map_race` | `MapRace.cfg` | violation | `AuthCookieExclusive`: the expirer and a handler are inside the map at the same time |
| `orphaned_mutex` | `OrphanedMutex.cfg` | violation | `RequestsAnswered`: main's Mutex copied while locked; no request is ever answered |
| `unseal_core` | `Unseal` / `MCUnseal.cfg` | pass | `TypeOK`, `CACertMatchesSigner`, `ImplementsSealedCA`, `RequestsAnswered`, for three concurrent clients on every CA handler, starting sealed or unsealed (about 210k states) |
| `inject_implicit_ok` | `InjectImplicitOk.cfg` | violation | `InjectOkMeansUnsealed`: a wrong passphrase is answered 200 |
| `u2f_core` | `U2fProfiles` / `MCU2fProfiles.cfg` | pass | `TypeOK`, `ReplayRejected`: no sign response is accepted twice, across a crash (about 2.3M states) |
| `acked_registration_lost` | `LostRegistration.cfg` | violation | `AckedRegistrationsKept`: a registration answered "success" is gone after a restart |
| `acked_counter_rollback` | `CounterRollback.cfg` | violation | `AckedCountersKept`: an acknowledged counter is rolled back after a restart |
| `password_refinement` | `MCCheckUserPassword` | pass | `TypeOK` (answered exactly when done), `ImplementsPrimaryAuth`: for every reachability pattern and verdict, main.go's loop returns, and returns what spec 4.2's first-reachable-directory rule gives |
| `certgen_core` | `MCKeymasterd` | pass | older daemon: `TypeOK` and `RequestsComplete`, every request that passed the header check ends: the URL loop, the subprocesses and the read-back all finish |
| `anon_bind_bypass` | `AnonBind.cfg` | violation | older daemon: an empty password is accepted by a directory that allows unauthenticated binds |
| `request_kills_daemon` | `RequestFatal.cfg` | violation | older daemon: one bad key makes the daemon exit |

Every property of a passing run has a mutant of the code that TLC catches:

| Mutant | Breaks |
|---|---|
| expiry one tick too long | `TypeOK` |
| the sweep also deleting entries that expire at this tick | `SweptSessionNeverAccepted` |
| sweep one tick late | `ExpiredEventuallySwept` |
| the 409 path not unlocking | `TypeOK` (Unseal) |
| `generateCADer`'s error unchecked | `CACertMatchesSigner` |
| no 409 check | `ImplementsSealedCA` |
| a failure path not unlocking | `RequestsAnswered` |
| one URL skipped twice (older daemon) | `TypeOK` (Keymasterd) |
| the URL loop wrapping around (older daemon) | `RequestsComplete` |
| the final 500 of `u2fSignResponse` not unlocking | `TypeOK` (U2F) |
| `u2fAuthChallenge` persisted | `ReplayRejected` |
| checkAuth's error path not writing a response | `TypeOK` (CheckUserPassword) |
| a rejection moving on to the next URL (the older daemon's loop) | `ImplementsPrimaryAuth` |

Why the bounds are enough:
* **Sessions.** Two users are needed for "another user's session" to
  mean something. Two slots let a login and a lookup overlap with a
  sweep. Two cookie values allow an unknown cookie to be presented. A
  lifetime of one tick and a clock of two ticks reach
  expired-but-not-yet-swept entries.
* **Unseal.** Three slots allow two injects and a reader at once, or an
  unseal, a 409 and a blocked reader. Two users are needed for a
  mismatched `/certgen/` target (the 403 path). A request's client certificate, form and
  passphrase are chosen at the step that reads them, not at arrival. The
  behaviours are the same, and the state space stays small enough for
  three slots.
* **U2F.** Two credentials, three challenges, counter 1 and one crash are
  the minimum for the replay scenario: a save of another registration
  persists the pending challenge, then a sign success is not saved, the
  daemon crashes, and the response is replayed.

## 4. Findings

1. **Two Mutexes for one map** (main.go 262/264, code bug). The expirer
   locks the loader's struct; the handlers lock main's copy. The map
   accesses race, and the Go runtime may abort the daemon.
2. **Orphaned Mutex** (main.go 264, code bug). A copy taken while the
   expirer holds the lock stays locked for ever, and the daemon hangs on
   its first request.
3. **Inject answers 200 on failure** (main.go 689 and the other bare
   returns). Against spec 4.1/4.4, a wrong passphrase looks like success.
4. **Acknowledged registrations and counters can be lost** (main.go 414,
   1037, 1172). The save is not atomic and its errors are ignored,
   against spec 4.3 and 5.
5. **Older daemon:** the empty-password bypass and `log.Fatal` on a
   signing failure (`Keymasterd`). Its URL loop also continues after a
   rejection (part_000:267). That is the mutant
   `checkURLRejectionContinues`, which `ImplementsPrimaryAuth` rejects.
   main.go's loop returns at the first answer and conforms to spec 4.2.

## 5. Not modelled

* The LDAP bind and the htpasswd check live in `authutil`, which is not
  in `src/`. `CheckUserPassword` takes their outcomes from the
  environment. `Sessions` keeps only the loop's verdict, because the loop
  touches no shared state.
* HTML and JSON content negotiation (`getPreferredAcceptType`) and the
  response bodies only choose wording. Responses are kept as status
  codes.
* Metrics, static files, the TLS configuration and the log buffer:
  library configuration.
* The u2f library's cryptography: kept only as the checks it performs.
  The 5-minute age limit on challenges is not modelled.
* No liveness property for `U2fProfiles`. At the bounds the replay
  scenario needs, "every U2F request is answered" under strong fairness
  takes about 8 minutes to check. The handlers release the Mutex by the
  same deferred `Unlock` that `Unseal`'s `RequestsAnswered` checks. A
  profile save that hangs on the disk blocks every handler, and no
  fairness the code could justify rules that out.
* Only one Mutex problem per module. `Unseal` and `U2fProfiles` assume
  main's Mutex works; `Sessions` shows when it does not.
* Properties that would only restate a guard are not checked: the
  `/certgen/<user>` identity test (a 200 goes to the path's user) and,
  in the older daemon, the removal of its temp files. The older daemon
  leaves files in `/tmp` only on `log.Fatal` paths (a failed write, an
  unmatched ssh-keygen output), where the process ends anyway;
  `request_kills_daemon` covers those paths.
* Bounded time: the 300 s cookie lifetime and the 30 s sweep period are
  ticks. Their ratio is not preserved, only their order.

## 6. Plan

1. Two divergences from spec 4.4 and 9 about pending challenges are
   present in `U2fProfiles` but not stated as properties. The code keeps
   `u2fAuthChallenge` after a failed sign response (1181), so one
   challenge allows several attempts. It also persists
   `RegistrationChallenge` (an exported field, line 78), so a pending
   registration challenge survives a restart. Neither gives an attacker
   anything without a genuine authenticator response. They are listed as
   hazards.
2. No composed module is planned. The components share only the Mutex
   and `Signer`. The cross-component effects are an orphaned Mutex,
   which hangs every handler (`orphaned_mutex`), and the profile save
   stalling the other handlers (see section 5). A module that composes
   `Sessions` with `Unseal` would re-check their properties side by
   side, at the product of their state spaces.
