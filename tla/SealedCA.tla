------------------------------ MODULE SealedCA ------------------------------
(***************************************************************************)
(* What the CA of the daemon promises, without locks or steps: the CA key  *)
(* is either loaded at start-up or absent (sealed); it is installed at     *)
(* most once and never replaced; every CA certificate a client is handed   *)
(* (x509 issuance or /public/x509ca) is the certificate of the CA that is  *)
(* installed when it is handed out.  Unseal.tla implements it.             *)
(***************************************************************************)
CONSTANTS
    Req,     \* clients (request slots)
    Keys,    \* CA keys that can be installed
    NoKey    \* no CA: sealed, or nothing served

VARIABLES
    ca,      \* the installed CA, or NoKey
    served   \* served[r]: the CA whose certificate client r holds, or NoKey

Init ==
    /\ ca \in Keys \cup {NoKey}
    /\ served = [r \in Req |-> NoKey]

(* sealed -> unsealed, once.                                               *)
Install(k) ==
    /\ ca = NoKey
    /\ ca' = k
    /\ UNCHANGED served

(* A client is handed the certificate of the installed CA.                 *)
Serve(r) ==
    /\ ca # NoKey
    /\ served[r] = NoKey
    /\ served' = [served EXCEPT ![r] = ca]
    /\ UNCHANGED ca

(* The client goes away.                                                   *)
Forget(r) ==
    /\ served[r] # NoKey
    /\ served' = [served EXCEPT ![r] = NoKey]
    /\ UNCHANGED ca

Next ==
    \/ \E k \in Keys : Install(k)
    \/ \E r \in Req : Serve(r) \/ Forget(r)

Spec == Init /\ [][Next]_<<ca, served>>

=============================================================================
