-------------------------------- MODULE SSHCA --------------------------------
(***************************************************************************)
(* The certificate authority, src/ssh/ca/: callers ask for certificates    *)
(* concurrently, some with an OIDC token, and the process may restart with *)
(* the same key.  The clock counts nanoseconds for serials; a restart or a *)
(* signature takes at least one.                                           *)
(***************************************************************************)
EXTENDS Naturals, FiniteSets

CONSTANTS
    Callers,
    Tokens,     \* [exp, issuer, email, sub] of the tokens presented; exp 0 for none
    Issuer, Claim,  \* OIDCConfig
    Serials,    \* cfg.Serial values of the callers, 0 for none
    TTL, Backdate,
    MaxClock

ASSUME CAAssumption ==
    /\ Tokens \subseteq [exp : Nat, issuer : STRING, email : STRING, sub : STRING]
    /\ TTL \in Nat /\ Backdate \in Nat

VARIABLES
    clock,
    serial,     \* CA.serial
    step,       \* where each call is
    req,        \* what each call asks for
    issued      \* history: the certificates

caVars == <<clock, serial, step, req, issued>>

NoReq == [user |-> "", cfgSerial |-> 0, now |-> 0, token |-> [exp |-> 0]]

\* NewCA starts the serials at the clock.
NewCAMut(c) == serial' = 0
NewCA(c) == serial' = c

\* validateOIDCClaims and extractUserClaim.
ValidClaims(t) == (t.exp > 0 => clock <= t.exp) /\ (Issuer # "" => t.issuer = Issuer)
UserClaim(t) ==
    LET claim == IF Claim = "" THEN "email" ELSE Claim
    IN  IF claim = "email" THEN (IF t.email # "" THEN t.email ELSE t.sub) ELSE t.sub

\* IssueFromOIDCToken up to IssueUserCert; a token that is refused changes nothing.
Present(k, t, s) ==
    /\ step[k] = "idle" /\ ValidClaims(t) /\ UserClaim(t) # ""
    /\ req' = [req EXCEPT ![k] = [user |-> UserClaim(t), cfgSerial |-> s, now |-> clock, token |-> t]]
    /\ step' = [step EXCEPT ![k] = "serial"]
    /\ UNCHANGED <<clock, serial, issued>>

Serial(k) == IF req[k].cfgSerial # 0 THEN req[k].cfgSerial ELSE serial + 1

\* IssueUserCert and IssueHostCert: the atomic counter, then the signature.
IssueCert(k) ==
    /\ step[k] = "serial" /\ clock < MaxClock
    /\ serial' = IF req[k].cfgSerial = 0 THEN serial + 1 ELSE serial
    /\ issued' = issued \union {[by |-> k, at |-> clock, serial |-> Serial(k), own |-> req[k].cfgSerial # 0,
                                 principal |-> req[k].user, token |-> req[k].token,
                                 after |-> req[k].now - Backdate, before |-> req[k].now + TTL]}
    /\ step' = [step EXCEPT ![k] = "idle"] /\ clock' = clock + 1
    /\ req' = [req EXCEPT ![k] = NoReq]

\* The process ends, its calls with it, and starts again from the key file.
Restart ==
    /\ clock < MaxClock /\ clock' = clock + 1
    /\ NewCA(clock')
    /\ step' = [k \in Callers |-> "idle"]
    /\ req' = [k \in Callers |-> NoReq] /\ UNCHANGED issued

CAInit ==
    /\ clock = Backdate + 1 /\ serial = clock /\ issued = {}
    /\ step = [k \in Callers |-> "idle"]
    /\ req = [k \in Callers |-> NoReq]

CANext ==
    \/ Restart
    \/ \E k \in Callers : IssueCert(k) \/ \E t \in Tokens, s \in Serials : Present(k, t, s)

---------------------------------------------------------------------------
\* No two certificates with serials of the authority's own share one, however
\* calls interleave and whenever the process restarts.
UniqueSerials ==
    \A x, y \in issued : ~x.own /\ ~y.own /\ x.serial = y.serial => x = y

\* A certificate is valid when it is issued, and names the user of a token that
\* had not expired when it was presented.
CertificateHonest ==
    \A c \in issued :
        /\ c.after <= c.at /\ c.principal = UserClaim(c.token)
        /\ c.token.exp > 0 => c.after + Backdate <= c.token.exp

\* What a host may rely on when it is shown a certificate of the authority.
CertificatesSound == UniqueSerials /\ CertificateHonest
=============================================================================
