-------------------------------- MODULE PKCE --------------------------------
(***************************************************************************)
(* The authorization code exchange of src/auth/pkce/pkce.go: the client    *)
(* makes a verifier and a challenge, the server redirects to a URI it      *)
(* compares with the registered one, and validates the verifier.  The      *)
(* hash is external: it is injective, and what it returns is not a verifier.*)
(* An empty string is "empty".                                             *)
(***************************************************************************)
EXTENDS Integers

CONSTANTS
    Lengths,    \* arguments of New
    Methods,    \* arguments of ComputeChallenge and Validate
    URIs        \* redirect URIs

VARIABLES
    pair,       \* the ChallengePair: [asked, verifier, challenge, method], verifier 0 for an error
    exchange    \* [registered, redirect, presented, method, granted] of a token request

ASSUME PKCEAssumption == Lengths \subseteq Int

pkceVars == <<pair, exchange>>

---------------------------------------------------------------------------
CeilDiv(a, b) == (a + b - 1) \div b

\* The bytes of randomness, and the characters of their base64url encoding cut
\* to the length asked for.
RawLenMut(length) == (length * 3) \div 4
RawLen(length) == IF (length * 3) % 4 # 0 THEN (length * 3) \div 4 + 1 ELSE (length * 3) \div 4
Encoded(raw) == CeilDiv(raw * 4, 3)
GenerateVerifier(length) ==
    LET l == IF length <= 0 THEN 64 ELSE length
    IN  IF l < 43 \/ l > 128 THEN 0
        ELSE IF Encoded(RawLen(l)) > l THEN l ELSE Encoded(RawLen(l))

\* A verifier is told by its length; the challenge is a hash of it or itself.
ComputeChallenge(verifier, method) ==
    IF verifier < 43 \/ verifier > 128 THEN <<"error", 0>>
    ELSE CASE method \in {"empty", "S256"} -> <<"S256", verifier>>
           [] method = "plain" -> <<"plain", verifier>>
           [] OTHER -> <<"error", 0>>

Validate(verifier, challenge, method) ==
    LET computed == ComputeChallenge(verifier, method)
    IN  computed[1] # "error" /\ computed = challenge

---------------------------------------------------------------------------
IsLoopbackHost(host) == host \in {"localhost", "LOCALHOST", "127.0.0.1", "::1"}

\* The path stands for path, query and fragment: all three must be equal.
MatchRedirectURIMut(reg, req) ==
    \/ reg = req
    \/ /\ IsLoopbackHost(reg.host) /\ IsLoopbackHost(req.host)
       /\ reg.scheme = req.scheme
MatchRedirectURI(reg, req) ==
    \/ reg = req
    \/ /\ IsLoopbackHost(reg.host) /\ IsLoopbackHost(req.host)
       /\ reg.scheme = req.scheme /\ reg.path = req.path

---------------------------------------------------------------------------
(* New by the client, then the server's decision on the token request. *)

New(length) ==
    LET v == GenerateVerifier(length)
    IN  /\ pair.verifier = 0
        /\ pair' = [asked |-> length, verifier |-> v, challenge |-> ComputeChallenge(v, "S256")]
        /\ UNCHANGED exchange

Redeem(verifier, method, reg, req) ==
    /\ pair.verifier # 0 /\ exchange.presented = 0
    /\ exchange' = [registered |-> reg, redirect |-> req, presented |-> verifier, method |-> method,
                    granted |-> MatchRedirectURI(reg, req) /\ Validate(verifier, pair.challenge, method)]
    /\ UNCHANGED pair

NoExchange == [registered |-> "empty", redirect |-> "empty", presented |-> 0, method |-> "empty", granted |-> FALSE]
PKCEInit == pair = [asked |-> 0, verifier |-> 0, challenge |-> <<"error", 0>>] /\ exchange = NoExchange

PKCENext ==
    \/ \E l \in Lengths : New(l)
    \/ \E v \in {pair.verifier, pair.verifier + 1}, m \in Methods, reg, req \in URIs : Redeem(v, m, reg, req)

---------------------------------------------------------------------------
\* New makes a verifier of exactly the length asked for, in 43..128, which the
\* encoding of its random bytes must be long enough to fill.
VerifierFits ==
    pair.asked \in 43..128 => pair.verifier = pair.asked

\* A token request is granted only to the verifier behind the challenge, with
\* its method, and a redirect that differs from the registered one differs in
\* nothing but the loopback host and its port.
GrantIsBound ==
    exchange.granted =>
        /\ exchange.presented = pair.verifier /\ exchange.method \in {"empty", "S256"}
        /\ LET reg == exchange.registered  req == exchange.redirect IN
           reg # req => /\ reg.scheme = req.scheme /\ reg.path = req.path
                        /\ IsLoopbackHost(reg.host) /\ IsLoopbackHost(req.host)

\* "Schemes, paths, queries, and fragments must match exactly; only the port may
\* vary" (pkce.go:177).
OnlyPortVaries ==
    exchange.granted => exchange.registered.host = exchange.redirect.host
=============================================================================
