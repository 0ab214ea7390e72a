------------------------------ MODULE MCMessages ------------------------------
(***************************************************************************)
(* What is signed, sealed, encoded, framed and put together again, and how *)
(* an SSH client and a certificate authority are set up, checked side by   *)
(* side: the initial state picks one part and the others stand still, so   *)
(* the states are the sum of the parts' states.                            *)
(***************************************************************************)
EXTENDS Integers, Sequences, FiniteSets, Auth, WebPush, SSHSetup, SSHCA, Wire, Traffic, Framing

VARIABLE part

---------------------------------------------------------------------------
(* HTTP signatures: a request in two forms, with one more query parameter   *)
(* and as a server receives it; a response with and without a trailer.      *)

Line(m, p) == [members |-> m, padded |-> p]
Url == [scheme |-> "https", host |-> "host", port |-> "empty", path |-> "empty", query |-> << <<"q", "1">> >>]
Field(f) == [x \in {"f", "content-digest"} |->
               IF x = "f" THEN f ELSE << Line(<< <<"sha-512", "body">> >>, FALSE) >>]
NoField == [x \in {"f", "content-digest"} |-> <<>>]
Request(url, f) == [response |-> FALSE, method |-> <<"POST">>, url |-> <<url>>, status |-> <<>>,
                    header |-> Field(f), trailers |-> NoField]
Response(f, t) == [response |-> TRUE, method |-> <<>>, url |-> <<>>, status |-> <<"200">>,
                   header |-> Field(f), trailers |-> [NoField EXCEPT !["f"] = t]]
A == <<"a", "1">>
B == <<"b", "2">>
OneLine == << Line(<<A, B>>, FALSE) >>
TwoLines == << Line(<<A>>, TRUE), Line(<<B>>, FALSE) >>
MCContexts == {
    Request(Url, OneLine),
    Request([Url EXCEPT !.host = "HOST", !.port = "443", !.path = "/"], TwoLines),
    Request([Url EXCEPT !.query = << <<"q", "1">>, <<"q", "2">> >>], << Line(<<B, A>>, FALSE) >>),
    Request([Url EXCEPT !.host = "empty", !.scheme = "empty"], OneLine),
    Response(OneLine, TwoLines), Response(<<>>, OneLine)}

Id(n, fl, k, p) ==
    [derived |-> n \notin {"f", "content-digest"}, name |-> n, flags |-> fl, key |-> k, param |-> p]
SignConfig(l, c, life, k, t) == [label |-> l, components |-> c, lifetime |-> life, keyid |-> k, tag |-> t]
MCSignConfigs == {
    SignConfig("sig1", <<>>, 0, "k", "app"),
    SignConfig("sig1", << Id("f", {}, "empty", "empty"), Id("@query", {}, "empty", "empty"), Id("content-digest", {}, "empty", "empty") >>, 1, "k", "empty"),
    SignConfig("sig2", << Id("f", {"bs"}, "empty", "empty"), Id("@query-param", {}, "empty", "q") >>, 0, "semicolon", "empty"),
    SignConfig("sig2", << Id("f", {}, "b", "empty"), Id("f", {"sf"}, "empty", "empty"), Id("f", {}, "empty", "empty") >>, 0, "k", "empty"),
    SignConfig("sig2", << Id("f", {"tr"}, "empty", "empty"), Id("@method", {"req"}, "empty", "empty"), Id("@status", {}, "empty", "empty") >>, 1, "k", "app")}
Policy(l, t, r, a) == [label |-> l, tag |-> t, required |-> r, maxAge |-> a, skew |-> 1]
MCVerifyConfigs == {Policy("empty", "empty", {}, 0), Policy("sig1", "app", {}, 1), Policy("sig2", "empty", {Id("f", {}, "empty", "empty")}, 0)}
MCSigKeys == {<<"ed25519", "empty", "empty">>, <<"rsa", "empty", "rsa-v1_5-sha256">>, <<"ecdsaP384", "ecdsa-p256-sha256", "empty">>}

---------------------------------------------------------------------------
(* DPoP and PKCE. *)

MCDPoPKeys == {[type |-> "P-384", id |-> 1], [type |-> "rsa", id |-> 2], [type |-> "P-521", id |-> 3]}
DPoPRequest(s, p, q, f, m, t) ==
    [url |-> [scheme |-> s, host |-> "h", path |-> p, query |-> q, fragment |-> f],
     host |-> "empty", tls |-> FALSE, method |-> m, token |-> t]
MCRequests == {
    DPoPRequest("https", "empty", "empty", "empty", "POST", "empty"), DPoPRequest("HTTPS", "/a", "q", "empty", "post", "t1"),
    DPoPRequest("https", "/a", "empty", "f", "POST", "t1"), DPoPRequest("http", "/b", "empty", "empty", "GET", "t2")}
MCProofOptions == {[token |-> "t1", nonce |-> "n"], [token |-> "empty", nonce |-> "empty"]}
MCPolicies == {[method |-> "empty", token |-> "empty", nonce |-> "empty"], [method |-> "POST", token |-> "t1", nonce |-> "n"]}

URI(h, p, path) == [scheme |-> "http", host |-> h, port |-> p, path |-> path]
MCURIs == {URI("localhost", 1, "/cb"), URI("127.0.0.1", 2, "/cb"), URI("localhost", 2, "/x"),
           URI("host", 1, "/cb"), URI("host", 2, "/cb")}

---------------------------------------------------------------------------
(* Web Push: bytes at the end of a payload that look like delimiter and     *)
(* padding, and the largest payload with one byte more.                     *)

MCSubscriptions == {
    [endpoint |-> <<"https", "push", "/1">>, key |-> "p256", auth |-> "secret"],
    [endpoint |-> <<"empty", "empty", "/2">>, key |-> "short", auth |-> "secret"]}
MCPayloads == {[lead |-> 0, tail |-> <<>>], [lead |-> 3, tail |-> <<2, 0, 2, 0>>],
               [lead |-> 3993, tail |-> <<>>], [lead |-> 3993, tail |-> <<1>>]}
Day == 24 * 3600 * 1000
MCTTLs == {0, 500, 60000, Day, Day + 1}
MCLengths == {-1, 0, 42, 127, 128, 129} \union 43..50

---------------------------------------------------------------------------
(* Setup. *)

MCConfigLines == {<<"host", "*">>, <<"host", "a">>, <<"user", "u">>, <<"identityfile", "id1">>,
                <<"identityfile", "locked">>, <<"stricthostkeychecking", "No">>, <<"userknownhostsfile", "kh">>}
MCCallerOptions == {<<"WithInsecureIgnoreHostKey", "empty">>, <<"WithKnownHosts", "kh">>, <<"WithKnownHosts", "missing">>,
                  <<"WithFingerprint", "empty">>, <<"WithSigner", "s">>, <<"WithProxy", "empty">>, <<"WithJump", "empty">>,
                  <<"WithHighPerformanceDefaults", "empty">>, <<"WithCiphers", "c">>, <<"WithPassword", "p">>}
MCKeyFiles == [f \in {"id1", "locked"} |-> IF f = "id1" THEN "plain" ELSE "locked"]

MCTokens == {[exp |-> 3, issuer |-> "i", email |-> "", sub |-> "s"],
           [exp |-> 0, issuer |-> "i", email |-> "m", sub |-> "s"],
           [exp |-> 0, issuer |-> "x", email |-> "m", sub |-> "s"]}

---------------------------------------------------------------------------
(* The wire.  Codes around the reserved points and at the end that 32-bit   *)
(* arithmetic of the checker reaches; units of 2, 6, 12, 24 and 48 for the  *)
(* 1000, 1000, 1000, 60 and 60 of the code.                                 *)

Packet(type, nsp, id, b, args) == [type |-> type, nsp |-> nsp, id |-> id, body |-> b, args |-> args]
Bin(x) == <<"bin", x>>
MCPackets ==
    {Packet(IF \E i \in DOMAIN args : args[i][1] = "bin" THEN "5" ELSE "2", nsp, id, <<"[">>, args) :
       nsp \in {<<>>, <<"/">>, <<"/", "c">>}, id \in {<<>>, <<"0">>, <<"1", "2">>},
       args \in {<< <<"text", 0>> >>, << <<"text", 0>>, Bin(1), <<"text", 1>>, Bin(2) >>,
                 [i \in 1..11 |-> Bin(i)], [i \in 1..12 |-> Bin(i)]}}
    \union {Packet("1", nsp, <<>>, <<>>, <<>>) : nsp \in {<<>>, <<"/", "c">>}}

MCCodes == 0..100 \union 999999990..1000000050
MCMessageSizes == [ascii : {0, 500, 501, 1022, 1024, 1025}, wide : {0, 1, 400}, width : {2, 3, 4}]
MCDurations == -1..150
MCSpanContexts == [trace : 0..1, span : 0..1, flags : {0, 1, 16, 255}, state : {"", "x"}]
MCTraceParents ==
    [version : {"00", "01", "ff"}, len : {54, 55, 60}, trace : 0..2, span : {1}, flags : {<<0, 1>>}]

\* Two small attachments, one of them too large with the other, none.
MCSizes == [ev \in {"two", "large", "empty"} |->
            CASE ev = "two" -> <<1, 1>> [] ev = "large" -> <<3, 1>> [] OTHER -> <<>>]

MCEvents == DOMAIN MCSizes

vars == <<part, sigVars, dpopVars, pkceVars, pushVars, setupVars,
          caVars, wireVars, trafficVars, raptorVars, frameVars>>

---------------------------------------------------------------------------
\* A part that does not move has one fixed initial state.
Init ==
    /\ part \in {"httpsig", "dpop", "pkce", "webpush", "setup", "ca", "wire",
                "socketio", "raptor", "frames"}
    /\ SigInit /\ DPoPInit /\ PKCEInit /\ PushInit /\ SetupInit /\ CAInit /\ WireInit
    /\ TrafficInit /\ RaptorInit /\ FrameInit
    /\ part # "httpsig" => msg = Request(Url, OneLine) /\ signer.key = "ed25519"
    /\ part # "frames" => cipher = "none"

Next ==
    \/ /\ part = "httpsig" /\ SigNext
       /\ UNCHANGED <<part, dpopVars, pkceVars, pushVars, setupVars, caVars, wireVars, trafficVars, raptorVars, frameVars>>
    \/ /\ part = "dpop" /\ DPoPNext
       /\ UNCHANGED <<part, sigVars, pkceVars, pushVars, setupVars, caVars, wireVars, trafficVars, raptorVars, frameVars>>
    \/ /\ part = "pkce" /\ PKCENext
       /\ UNCHANGED <<part, sigVars, dpopVars, pushVars, setupVars, caVars, wireVars, trafficVars, raptorVars, frameVars>>
    \/ /\ part = "webpush" /\ PushNext
       /\ UNCHANGED <<part, sigVars, dpopVars, pkceVars, setupVars, caVars, wireVars, trafficVars, raptorVars, frameVars>>
    \/ /\ part = "setup" /\ SetupNext
       /\ UNCHANGED <<part, sigVars, dpopVars, pkceVars, pushVars, caVars, wireVars, trafficVars, raptorVars, frameVars>>
    \/ /\ part = "ca" /\ CANext
       /\ UNCHANGED <<part, sigVars, dpopVars, pkceVars, pushVars, setupVars, wireVars, trafficVars, raptorVars, frameVars>>
    \/ /\ part = "wire" /\ WireNext
       /\ UNCHANGED <<part, sigVars, dpopVars, pkceVars, pushVars, setupVars, caVars, trafficVars, raptorVars, frameVars>>
    \/ /\ part = "socketio" /\ TrafficNext
       /\ UNCHANGED <<part, sigVars, dpopVars, pkceVars, pushVars, setupVars, caVars, wireVars, raptorVars, frameVars>>
    \/ /\ part = "raptor" /\ RaptorNext
       /\ UNCHANGED <<part, sigVars, dpopVars, pkceVars, pushVars, setupVars, caVars, wireVars, trafficVars, frameVars>>
    \/ /\ part = "frames" /\ FrameNext
       /\ UNCHANGED <<part, sigVars, dpopVars, pkceVars, pushVars, setupVars, caVars, wireVars, trafficVars, raptorVars>>

Spec == Init /\ [][Next]_vars

=============================================================================
