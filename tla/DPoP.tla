-------------------------------- MODULE DPoP --------------------------------
(***************************************************************************)
(* Proof of possession, src/auth/dpop/: a client makes a proof for a       *)
(* request, and a server verifies it against the request it came with,     *)
(* perhaps later and perhaps a different one.                              *)
(*                                                                         *)
(* Cryptography is external: a signature is the pair of key and what was   *)
(* signed, the hash of a token is the token.  Coordinates are the key.  An *)
(* empty string is "empty".                                                *)
(***************************************************************************)
EXTENDS Naturals, Sequences

CONSTANTS
    DPoPKeys,   \* records of a key's type and its identity
    Requests,   \* requests as an http.Client sends them
    ProofOptions,   \* the access token and the nonce
    Policies,   \* VerifierConfigs
    MaxAge, Skew, DPoPMaxTime

VARIABLES
    dpopNow,
    proof,      \* <<>> or <<the JWT>>
    proofMade,  \* history: <<the request, the options, the time, the key>> of the proof
    proofVerdict    \* <<>> or <<request, policy, error, JWK>>

\* http.Client sends requests with a method and an absolute http or https URL.
ASSUME DPoPAssumption ==
    /\ DPoPKeys \subseteq [type : STRING, id : Nat]
    /\ \A r \in Requests :
         /\ r.url \in [scheme : {"http", "https", "HTTPS"}, host : STRING \ {"empty"},
                       path : STRING, query : STRING, fragment : STRING]
         /\ r \in [url : {r.url}, host : {"empty"}, tls : {FALSE}, method : STRING \ {"empty"}, token : STRING]
    /\ ProofOptions \subseteq [token : STRING, nonce : STRING]
    /\ Policies \subseteq [method : STRING, token : STRING, nonce : STRING]
    /\ MaxAge \in Nat /\ Skew \in Nat

dpopVars == <<dpopNow, proof, proofMade, proofVerdict>>

---------------------------------------------------------------------------
(* JSON Web Keys. *)

PublicKeyToJWK(key) ==
    CASE key.type = "P-256"   -> [kty |-> "EC",  crv |-> "P-256",   data |-> key.id, alg |-> "ES256"]
      [] key.type = "P-384"   -> [kty |-> "EC",  crv |-> "P-384",   data |-> key.id, alg |-> "ES384"]
      [] key.type = "ed25519" -> [kty |-> "OKP", crv |-> "Ed25519", data |-> key.id, alg |-> "EdDSA"]
      [] key.type = "rsa"     -> [kty |-> "RSA", crv |-> "empty",        data |-> key.id, alg |-> "RS256"]
      [] OTHER                -> [kty |-> "empty",    crv |-> "empty",        data |-> key.id, alg |-> "empty"]

JWKToPublicKey(jwk) ==
    CASE jwk.kty = "EC"  -> [type |-> jwk.crv, id |-> jwk.data]
      [] jwk.kty = "OKP" -> [type |-> "ed25519", id |-> jwk.data]
      [] jwk.kty = "RSA" -> [type |-> "rsa", id |-> jwk.data]

\* ComputeThumbprint hashes the members a key of its type must have.
ComputeThumbprint(jwk) == <<jwk.crv, jwk.kty, jwk.data>>

\* What signJWS can sign with and verifyJWSSignature verifies.
JWSAlgs(key) == CASE key.type \in {"P-256", "P-384"} -> {"ES256", "ES384"}
                  [] key.type = "rsa" -> {"RS256", "PS256"}
                  [] key.type = "ed25519" -> {"EdDSA"}
                  [] OTHER -> {}

---------------------------------------------------------------------------
(* Targets. *)

\* Query and fragment go, the scheme is lowered, an empty path is the root.
NormalizeTargetURIMut(u) == [u EXCEPT !.query = "empty", !.scheme = IF @ = "HTTPS" THEN "https" ELSE @,
                                      !.path = IF @ = "empty" THEN "/" ELSE @]
NormalizeTargetURI(u) == [u EXCEPT !.query = "empty", !.fragment = "empty",
                                   !.scheme = IF @ = "HTTPS" THEN "https" ELSE @,
                                   !.path = IF @ = "empty" THEN "/" ELSE @]

\* The URL of a request: its own when absolute; else from its Host and whether
\* the connection is TLS; else as it is.
TargetURL(req) ==
    IF req.url.scheme # "empty" \/ req.host = "empty" THEN req.url
    ELSE [scheme |-> IF req.tls THEN "https" ELSE "http", host |-> req.host,
          path |-> IF req.url.path = "empty" THEN "/" ELSE req.url.path,
          query |-> req.url.query, fragment |-> "empty"]

\* The request as net/http hands it to a server reached with or without TLS.
Received(req, tls) ==
    [req EXCEPT !.url = [@ EXCEPT !.scheme = "empty", !.host = "empty", !.fragment = "empty"],
                !.host = req.url.host, !.tls = tls]

---------------------------------------------------------------------------
(* The client and the server. *)

Upper(method) == IF method = "post" THEN "POST" ELSE method

\* CreateProof refuses an unsupported key; CreateProofForRequest names the target.
CreateProofForRequest(key, req, opt) ==
    LET jwk == PublicKeyToJWK(key)
        header == [typ |-> "dpop+jwt", alg |-> jwk.alg, jwk |-> jwk]
        claims == [htm |-> Upper(req.method), htu |-> NormalizeTargetURI(TargetURL(req)), iat |-> dpopNow,
                   nonce |-> opt.nonce, ath |-> opt.token]
    IN  /\ proof = <<>> /\ jwk.kty # "empty" /\ jwk.alg \in JWSAlgs(key)
        /\ proof' = << [header |-> header, claims |-> claims, sig |-> <<key, header, claims>>] >>
        /\ proofMade' = <<req, opt, dpopNow, key>>
        /\ UNCHANGED <<dpopNow, proofVerdict>>

\* The checks of VerifyProof on header and signature.
HeaderResult(p) ==
    LET key == JWKToPublicKey(p.header.jwk) IN
    IF p.header.alg \in {"none", "HS256"} THEN "ErrUnsupportedKey"
    ELSE IF p.header.alg \notin JWSAlgs(key) THEN "ErrUnsupportedKey"
    ELSE IF p.sig # <<key, p.header, p.claims>> THEN "ErrInvalidSignature"
    ELSE "ok"

\* The checks of VerifyProof on the claims, in order.
ClaimsResultMut(c, method, uri, token, nonce) ==
    IF method # "empty" /\ c.htm # Upper(method) THEN "ErrMethodMismatch"
    ELSE IF c.iat > dpopNow + Skew THEN "ErrProofInFuture"
    ELSE IF dpopNow - c.iat > MaxAge + Skew THEN "ErrProofExpired"
    ELSE IF token # "empty" /\ c.ath # token THEN "ErrAccessTokenMismatch"
    ELSE IF nonce # "empty" /\ c.nonce # nonce THEN "ErrNonceMismatch"
    ELSE "ok"
ClaimsResult(c, method, uri, token, nonce) ==
    IF method # "empty" /\ c.htm # Upper(method) THEN "ErrMethodMismatch"
    ELSE IF c.htu # NormalizeTargetURI(uri) THEN "ErrURIMismatch"
    ELSE IF c.iat > dpopNow + Skew THEN "ErrProofInFuture"
    ELSE IF dpopNow - c.iat > MaxAge + Skew THEN "ErrProofExpired"
    ELSE IF token # "empty" /\ c.ath # token THEN "ErrAccessTokenMismatch"
    ELSE IF nonce # "empty" /\ c.nonce # nonce THEN "ErrNonceMismatch"
    ELSE "ok"

\* Method, target and token come from the request unless the policy has them.
VerifyProofForRequest(req, policy) ==
    LET p == proof[1]
        token == IF policy.token # "empty" THEN policy.token ELSE req.token
        claims == ClaimsResult(p.claims, IF policy.method # "empty" THEN policy.method ELSE req.method,
                               TargetURL(req), token, policy.nonce)
    IN  /\ proof # <<>>
        /\ proofVerdict' = <<req, policy, IF HeaderResult(p) # "ok" THEN HeaderResult(p) ELSE claims,
                        ComputeThumbprint(p.header.jwk)>>
        /\ UNCHANGED <<dpopNow, proof, proofMade>>

DPoPTick == dpopNow < DPoPMaxTime /\ dpopNow' = dpopNow + 1 /\ proofVerdict' = <<>> /\ UNCHANGED <<proof, proofMade>>

DPoPInit == dpopNow = 1 /\ proof = <<>> /\ proofMade = <<>> /\ proofVerdict = <<>>

DPoPNext ==
    \/ DPoPTick
    \/ \E k \in DPoPKeys, r \in Requests, o \in ProofOptions : CreateProofForRequest(k, r, o)
    \/ \E r \in Requests, tls \in BOOLEAN, v \in Policies : VerifyProofForRequest(Received(r, tls), v)

---------------------------------------------------------------------------
(* Properties. *)

ProofAccepted == proofVerdict # <<>> /\ proofVerdict[3] = "ok"

\* A server accepts a proof only with a request for the target it was made for,
\* with the method, token and nonce that the policy asks for or else the request
\* has, while it is fresh, and learns the thumbprint of the key that made it.
ProofBindsRequest ==
    ProofAccepted =>
        LET got == proofVerdict[1]  policy == proofVerdict[2]  req == proofMade[1]  opt == proofMade[2] IN
        /\ got.host = req.url.host
        /\ got.url.path = req.url.path \/ {got.url.path, req.url.path} = {"empty", "/"}
        /\ Upper(req.method) = Upper(IF policy.method # "empty" THEN policy.method ELSE got.method)
        /\ opt.token = policy.token \/ (policy.token = "empty" /\ got.token \in {"empty", opt.token})
        /\ policy.nonce \in {"empty", opt.nonce}
        /\ dpopNow <= proofMade[3] + MaxAge + Skew
        /\ proofVerdict[4][3] = proofMade[4].id

\* A proof with the token and nonce the server asks for is accepted while it is
\* fresh, when its request arrives over the transport its URL names, whatever
\* the query, the fragment and the case of the scheme.
FreshProofVerifies ==
    /\ proofVerdict # <<>> /\ dpopNow <= proofMade[3] + MaxAge + Skew
    /\ proofVerdict[1] = Received(proofMade[1], proofMade[1].url.scheme \in {"https", "HTTPS"})
    /\ proofVerdict[1].token \in {"empty", proofMade[2].token} /\ proofVerdict[2].token \in {"empty", proofMade[2].token}
    /\ proofVerdict[2].nonce \in {"empty", proofMade[2].nonce} /\ proofVerdict[2].method \in {"empty", proofMade[1].method}
    => ProofAccepted
=============================================================================
