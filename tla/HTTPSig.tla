------------------------------ MODULE HTTPSig ------------------------------
(***************************************************************************)
(* HTTP message signatures, src/auth/httpsig/: a message is signed, perhaps*)
(* more than once (a retry signs the same request again), rewritten on its *)
(* way, and verified while the clock goes on.                              *)
(*                                                                         *)
(* Cryptography is external: a signature is the triple of key, algorithm   *)
(* and base, and a digest is the body it is of.  A component's value is    *)
(* <<v>>, or <<>> when the message has none.                               *)
(***************************************************************************)
EXTENDS Naturals, Sequences, FiniteSets

LOCAL INSTANCE Functions
LOCAL INSTANCE Folds

CONSTANTS
    Contexts,   \* RequestContexts: the messages, and what they are rewritten to
    SigKeys,    \* <<key type, signer's algorithm option, verifier's option>>
    SignConfigs, VerifyConfigs,
    MaxSigs,    \* bound on the members of a Signature header
    SigMaxTime  \* bound on the clock

VARIABLES
    sigNow,
    msg,        \* the RequestContext of the message
    orig,       \* a response's ReqContext: <<the request's context>> or <<>>
    body,
    signer, verifier,   \* what NewSignerFromKey and NewVerifierFromKey made
    inputs, sigs,       \* members of Signature-Input and of Signature
    log,        \* history: what was signed
    verdict     \* the last result: <<>> or <<VerifyConfig, error>>

\* A context has at most one URL, and each field a signer may name, with no lines
\* when it is absent; a label is not empty.
ASSUME SigAssumption ==
    /\ \A c \in Contexts : c.url = <<>> \/ c.url = <<c.url[1]>>
    /\ \A s \in SignConfigs :
         /\ s.label # "empty" /\ s.lifetime \in Nat
         /\ \A i \in DOMAIN s.components, c \in Contexts :
              ~s.components[i].derived =>
                s.components[i].name \in DOMAIN c.header \cap DOMAIN c.trailers
    /\ \A v \in VerifyConfigs : v.maxAge \in Nat /\ v.skew \in Nat

sigVars == <<sigNow, msg, orig, body, signer, verifier, inputs, sigs, log, verdict>>
fixed == <<signer, verifier>>

---------------------------------------------------------------------------
(* Keys and algorithms. *)

Curves == [ecdsaP256 |-> "ecdsa-p256-sha256", ecdsaP384 |-> "ecdsa-p384-sha384"]

\* NewECDSASigner and NewECDSAVerifier: the curve's own algorithm only.
ECDSA(curve, alg) ==
    IF curve \in DOMAIN Curves /\ Curves[curve] = alg THEN alg ELSE "error"

\* NewRSASigner and NewRSAVerifier.
RSA(alg) == IF alg \in {"rsa-pss-sha512", "rsa-v1_5-sha256"} THEN alg ELSE "error"

\* NewSignerFromKey: Ed25519 and HMAC keys ignore the option.
NewSignerFromKey(key, alg) ==
    CASE key = "ed25519" -> "ed25519"
      [] key = "secret" -> "hmac-sha256"
      [] key = "rsa" -> RSA(IF alg = "empty" THEN "rsa-pss-sha512" ELSE alg)
      [] key = "ecdsaP521" -> "error"
      [] key \in DOMAIN Curves -> ECDSA(key, IF alg = "empty" THEN Curves[key] ELSE alg)

\* NewVerifierFromKey makes the same choice from the public key.
NewVerifierFromKey(key, alg) == NewSignerFromKey(key, alg)

---------------------------------------------------------------------------
(* Components.  An identifier has a name, flags out of sf, bs, req and tr,  *)
(* a dictionary key and a parameter name ("empty", as for every empty string).     *)

ParseComponentIdentifier(id) == "bs" \in id.flags => "sf" \notin id.flags /\ id.key = "empty"

\* The host in lower case, with its port unless it is the scheme's default.
DefaultPorts == {<<"http", "80">>, <<"https", "443">>}
Lower(host) == IF host = "HOST" THEN "host" ELSE host
NormalizeAuthorityMut(url) == <<Lower(url.host), url.port>>
NormalizeAuthority(url) ==
    <<Lower(url.host), IF <<url.scheme, url.port>> \in DefaultPorts THEN "empty" ELSE url.port>>

\* The parameter must occur exactly once.
DeriveQueryParam(query, name) ==
    LET vals == SelectSeq(query, LAMBDA p : p[1] = name)
    IN  IF name # "empty" /\ Len(vals) = 1 THEN <<vals[1][2]>> ELSE <<>>

Path(url) == IF url.path = "empty" THEN "/" ELSE url.path

\* A request's context has a method and a URL, a response's a status.  A request
\* received by net/http has no host in its URL.
DeriveDerivedComponent(ctx, id) ==
    CASE id.name = "@method" -> ctx.method
      [] id.name = "@status" -> ctx.status
      [] id.name \notin {"@method", "@status"} /\ ctx.url = <<>> -> <<>>
      [] OTHER ->
           LET url == ctx.url[1] IN
           CASE id.name = "@target-uri" -> <<url>>
             [] id.name = "@authority" -> IF url.host = "empty" THEN <<>> ELSE <<NormalizeAuthority(url)>>
             [] id.name = "@scheme" -> IF url.scheme = "empty" THEN <<>> ELSE <<url.scheme>>
             [] id.name = "@request-target" -> << <<Path(url), url.query>> >>
             [] id.name = "@path" -> <<Path(url)>>
             [] id.name = "@query" -> <<url.query>>
             [] id.name = "@query-param" -> DeriveQueryParam(url.query, id.param)
             [] OTHER -> <<>>

\* The value of a member of a dictionary: the first with that key.
ExtractDictionaryKey(members, key) ==
    LET found == SelectSeq(members, LAMBDA e : e[1] = key)
    IN  IF found = <<>> THEN <<>> ELSE << found[1][2] >>

\* A field is the sequence of its lines, a line a list of members padded with
\* blanks or not.  cleanHeaderValue drops the blanks, combining forgets how the
\* members were spread over lines, and ;bs keeps it.
Combined(lines) ==
    MapThenFoldSet(LAMBDA x, y : x \o y, <<>>, LAMBDA i : lines[i].members,
                   LAMBDA S : CHOOSE i \in S : \A j \in S : i <= j, DOMAIN lines)
DeriveHTTPField(ctx, id) ==
    LET lines == IF "tr" \in id.flags THEN ctx.trailers[id.name] ELSE ctx.header[id.name]
    IN  IF lines = <<>> THEN <<>>
        ELSE IF "bs" \in id.flags THEN << [i \in DOMAIN lines |-> lines[i].members] >>
        ELSE IF id.key # "empty" THEN ExtractDictionaryKey(Combined(lines), id.key)
        ELSE <<Combined(lines)>>

DeriveComponentValue(ctx, id) ==
    IF id.derived THEN DeriveDerivedComponent(ctx, id) ELSE DeriveHTTPField(ctx, id)

\* The req flag takes a response's component from its request.
ComponentValue(id) ==
    IF "req" \notin id.flags THEN DeriveComponentValue(msg, id)
    ELSE IF msg.response /\ orig # <<>> THEN DeriveComponentValue(orig[1], id)
    ELSE <<>>

\* BuildSignatureBase refuses a bad identifier, a duplicate and a component that
\* is not there; the last line of a base is the parameters.
NoDuplicates(ids) == IsInjective(ids)
Buildable(ids) ==
    /\ NoDuplicates(ids)
    /\ \A i \in DOMAIN ids : ParseComponentIdentifier(ids[i]) /\ ComponentValue(ids[i]) # <<>>
BuildSignatureBase(params) ==
    <<params, [i \in DOMAIN params.components |-> ComponentValue(params.components[i])]>>

\* ParseSignatureParams of what SerializeSignatureParams wrote: parameters are
\* split at every ';', a quoted one included.
ParseSignatureParams(params) == [params EXCEPT !.keyid = IF @ = "semicolon" THEN "cut" ELSE @]

---------------------------------------------------------------------------
(* Content-Digest: members of an algorithm and the body it is of. *)

Hashes == {"sha-256", "sha-512"}
ComputeContentDigest(content, algs) ==
    LET known == SelectSeq(algs, LAMBDA a : a \in Hashes)
        used == IF known = <<>> THEN <<"sha-256">> ELSE known
    IN  [i \in DOMAIN used |-> <<used[i], content>>]

VerifyContentDigest(content, members) ==
    LET known == {i \in DOMAIN members : members[i][1] \in Hashes}
    IN  known # {} /\ \A i \in known : members[i][2] = content

---------------------------------------------------------------------------
(* Sign. *)

Derived(name) == [derived |-> TRUE, name |-> name, flags |-> {}, key |-> "empty", param |-> "empty"]
DefaultComponents ==
    IF msg.response THEN << Derived("@status") >>
    ELSE << Derived("@method"), Derived("@authority"), Derived("@path") >>

SignatureParams(cfg) ==
    [components |-> IF cfg.components = <<>> THEN DefaultComponents ELSE cfg.components,
     created |-> sigNow,
     expires |-> IF cfg.lifetime = 0 THEN 0 ELSE sigNow + cfg.lifetime,
     alg |-> signer.alg, keyid |-> cfg.keyid, tag |-> cfg.tag]

\* SignRequest and SignResponse: the base, the signature, then one more member
\* after those that each header already has.
Sign(cfg) ==
    LET params == SignatureParams(cfg)
        base == BuildSignatureBase(params)
    IN  /\ Len(inputs) < MaxSigs /\ signer.alg # "error" /\ Buildable(params.components)
        /\ inputs' = Append(inputs, [label |-> cfg.label, params |-> params])
        /\ sigs' = Append(sigs, [label |-> cfg.label, key |-> signer.key, alg |-> signer.alg, base |-> base])
        /\ log' = Append(log, [cfg |-> cfg, base |-> base, body |-> body, msg |-> msg])
        /\ verdict' = <<>>
        /\ UNCHANGED <<sigNow, msg, orig, body, fixed>>

---------------------------------------------------------------------------
(* Verify. *)

\* The first member of a header with the label, 0 for none.
Find(members, label) ==
    LET at == {i \in DOMAIN members : members[i].label = label}
    IN  IF at = {} THEN 0 ELSE CHOOSE i \in at : \A j \in at : i <= j

Expired(params, v) == params.expires > 0 /\ sigNow > params.expires + v.skew
InFuture(params, v) == params.created > 0 /\ params.created > sigNow + v.skew
TooOld(params, v) ==
    params.created > 0 /\ v.maxAge > 0 /\ sigNow - params.created > v.maxAge + v.skew

\* A required component is covered by its identifier or by its name alone.
Covered(params, v) ==
    \A r \in v.required : \E i \in DOMAIN params.components :
        params.components[i] = r \/ params.components[i].name = r.name

VerifierVerifies(base, sig) ==
    sig.key = verifier.key /\ sig.alg = verifier.alg /\ sig.base = base

\* The checks between the parsed parameters and the rebuilt base, in order.
CheckMut(params, v) ==
    IF params.alg # verifier.alg THEN "ErrUnsupportedAlgorithm"
    ELSE IF params.keyid # "empty" /\ params.keyid # verifier.keyid THEN "ErrKeyMismatch"
    ELSE IF v.tag # "empty" /\ params.tag # v.tag THEN "ErrInvalidSignature"
    ELSE IF InFuture(params, v) THEN "ErrSignatureInFuture"
    ELSE IF TooOld(params, v) THEN "ErrSignatureTooOld"
    ELSE "ok"
Check(params, v) ==
    IF params.alg # verifier.alg THEN "ErrUnsupportedAlgorithm"
    ELSE IF params.keyid # "empty" /\ params.keyid # verifier.keyid THEN "ErrKeyMismatch"
    ELSE IF v.tag # "empty" /\ params.tag # v.tag THEN "ErrInvalidSignature"
    ELSE IF Expired(params, v) THEN "ErrSignatureExpired"
    ELSE IF InFuture(params, v) THEN "ErrSignatureInFuture"
    ELSE IF TooOld(params, v) THEN "ErrSignatureTooOld"
    ELSE IF ~Covered(params, v) THEN "ErrMissingComponent"
    ELSE "ok"

VerifyResult(v) ==
    LET label == IF v.label = "empty" THEN inputs[1].label ELSE v.label
        i == Find(inputs, label)
        s == Find(sigs, label)
        params == ParseSignatureParams(inputs[i].params)
    IN  IF inputs = <<>> THEN "ErrMissingSignature"
        ELSE IF i = 0 \/ s = 0 THEN "ErrLabelMismatch"
        ELSE IF Check(params, v) # "ok" THEN Check(params, v)
        ELSE IF ~Buildable(params.components) THEN "ErrMissingComponent"
        ELSE IF VerifierVerifies(BuildSignatureBase(params), sigs[s]) THEN "ok"
        ELSE "ErrInvalidSignature"

\* VerifyRequest and VerifyResponse.
Verify(v) ==
    /\ verifier.alg # "error" /\ verdict = <<>>
    /\ verdict' = <<v, VerifyResult(v)>>
    /\ UNCHANGED <<sigNow, msg, orig, body, fixed, inputs, sigs, log>>

---------------------------------------------------------------------------
(* The clock, and those who handle the message on its way. *)

SigTick == /\ sigNow < SigMaxTime /\ sigNow' = sigNow + 1 /\ verdict' = <<>>
        /\ UNCHANGED <<msg, orig, body, fixed, inputs, sigs, log>>

Rewrite(ctx) ==
    /\ ctx.response = msg.response /\ ctx # msg
    /\ msg' = ctx /\ verdict' = <<>>
    /\ UNCHANGED <<sigNow, orig, body, fixed, inputs, sigs, log>>

ChangeBody ==
    /\ body = "body" /\ body' = "other" /\ verdict' = <<>>
    /\ UNCHANGED <<sigNow, msg, orig, fixed, inputs, sigs, log>>

SigInit ==
    /\ sigNow = 1 /\ body = "body"
    /\ msg \in {c \in Contexts : c.response \/ c.url[1].host # "empty"}
    /\ orig \in IF msg.response THEN {<<>>} \union {<<c>> : c \in {d \in Contexts : ~d.response}} ELSE {<<>>}
    /\ \E k \in SigKeys :
          /\ signer = [key |-> k[1], alg |-> NewSignerFromKey(k[1], k[2])]
          /\ verifier = [key |-> k[1], alg |-> NewVerifierFromKey(k[1], k[3]), keyid |-> "k"]
    /\ inputs = <<>> /\ sigs = <<>> /\ log = <<>> /\ verdict = <<>>

SigNext ==
    \/ SigTick \/ ChangeBody
    \/ \E c \in Contexts : Rewrite(c)
    \/ \E cfg \in SignConfigs : Sign(cfg)
    \/ \E v \in VerifyConfigs : Verify(v)

---------------------------------------------------------------------------
(* Properties. *)

SigAccepted == verdict # <<>> /\ verdict[2] = "ok"

\* Within what the signature and the verifier allow, at the clock's reading.
InTime(params, v) ==
    /\ params.expires > 0 => sigNow <= params.expires + v.skew
    /\ v.maxAge > 0 => sigNow <= params.created + v.maxAge + v.skew

CoversDigest(params) ==
    \E i \in DOMAIN params.components :
        LET id == params.components[i]
        IN  id.name = "content-digest" /\ ~id.derived /\ id.flags = {} /\ id.key = "empty"

\* A message that Verify accepts was signed by its key with the base it has now
\* and is neither expired nor too old; and when a covered Content-Digest
\* agrees with the body now and did then, the body is the one that was signed.
AcceptedAsSigned ==
    SigAccepted => \E i \in DOMAIN log :
        LET params == log[i].base[1]
            digest(m) == Combined(m.header["content-digest"])
        IN  /\ BuildSignatureBase(params) = log[i].base
            /\ InTime(params, verdict[1])
            /\ verdict[1].tag # "empty" => log[i].cfg.tag = verdict[1].tag
            /\ CoversDigest(params)
                 /\ VerifyContentDigest(body, digest(msg))
                 /\ VerifyContentDigest(log[i].body, digest(log[i].msg))
               => body = log[i].body

\* Two forms of one message: another case of the host, its default port, an
\* empty path, blanks around a field's lines and how they are combined.  A field
\* without lines is absent.
CanonicalURL(u) ==
    <<u.scheme, Lower(u.host), IF <<u.scheme, u.port>> \in DefaultPorts THEN "empty" ELSE u.port,
      Path(u), u.query>>
CanonicalFields(fields) == [f \in DOMAIN fields |-> <<fields[f] = <<>>, Combined(fields[f])>>]
Canonical(m) ==
    <<m.response, m.method, m.status, [i \in DOMAIN m.url |-> CanonicalURL(m.url[i])],
      CanonicalFields(m.header), CanonicalFields(m.trailers)>>

\* What a verifier can be expected to accept: signed once under the label it
\* looks for, with its algorithm and key identifier, covering what it requires.
Verifiable(i, v) ==
    LET params == log[i].base[1] IN
    /\ log[i].cfg.label = v.label
    /\ \A j \in DOMAIN log : log[j].cfg.label = v.label => j = i
    /\ params.alg = verifier.alg /\ params.keyid = verifier.keyid
    /\ v.tag # "empty" => params.tag = v.tag
    /\ \A r \in v.required : \E k \in DOMAIN params.components : params.components[k] = r
    /\ InTime(params, v)

\* A signature verifies until it is too old, whichever form of the message reaches
\* the verifier, unless it covers the form itself: ;bs a field's lines,
\* @target-uri the URL as it was written.
SignedVerifies ==
    \A i \in DOMAIN log :
        /\ verdict # <<>> /\ Verifiable(i, verdict[1])
        /\ Canonical(msg) = Canonical(log[i].msg)
        /\ \A k \in DOMAIN log[i].base[1].components : LET c == log[i].base[1].components[k] IN
             "bs" \notin c.flags /\ (c.derived => c.name # "@target-uri")
        => SigAccepted

\* "VerifyRequest verifies an RFC 9421 signature on a standard [*http.Request]"
\* (verify.go:195).  A request signed with the default components verifies when
\* net/http hands it to the server, which leaves the URL without its host.
ReceivedVerifies ==
    \A i \in DOMAIN log :
        /\ verdict # <<>> /\ Verifiable(i, verdict[1]) /\ log[i].cfg.components = <<>>
        /\ ~msg.response
        /\ msg = [log[i].msg EXCEPT !.url[1].host = "empty", !.url[1].scheme = "empty"]
        => SigAccepted
=============================================================================
