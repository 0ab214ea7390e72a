------------------------------ MODULE SSHSetup ------------------------------
(***************************************************************************)
(* How an SSH client is set up: an OpenSSH configuration is parsed line by *)
(* line (src/ssh/config.go), the entry of an alias becomes options, the    *)
(* caller's options follow (src/ssh/options.go), and the client dials,     *)
(* which is when the host key policy and the keys to offer are settled.    *)
(* An empty string is "empty".                                              *)
(***************************************************************************)
EXTENDS Naturals, Sequences

CONSTANTS
    Aliases,    \* hosts, "*" not among them
    ConfigLines,    \* <<directive, value>>
    CallerOptions,  \* options of the caller
    KeyFiles,   \* identity files that exist, as a function to "plain" or "locked"
    MaxLines, MaxOptions

VARIABLES
    hosts,      \* SSHConfig.Hosts: a function from patterns to entries
    current,    \* the entry that directives go to, "empty" before the first
    read,       \* how many lines were parsed
    alias,      \* the alias given to NewClientFromConfig, "empty" before
    todo,       \* options still to apply
    asked,      \* history: the caller's options so far
    client      \* Client and ClientConfig

setupVars == <<hosts, current, read, alias, todo, asked, client>>

Blank == [hostName |-> "empty", user |-> "empty", port |-> 0, files |-> <<>>, strict |-> "empty", known |-> "empty"]
With(f, x, v) == [y \in DOMAIN f \union {x} |-> IF y = x THEN v ELSE f[y]]

---------------------------------------------------------------------------
(* The configuration file. *)

Directive(entry, key, val) ==
    CASE key = "hostname" -> [entry EXCEPT !.hostName = val]
      [] key = "user" -> [entry EXCEPT !.user = val]
      [] key = "port" -> [entry EXCEPT !.port = IF val = "2222" THEN 2222 ELSE @]
      [] key = "identityfile" -> [entry EXCEPT !.files = Append(@, val)]
      [] key = "stricthostkeychecking" -> [entry EXCEPT !.strict = val]
      [] key = "userknownhostsfile" -> [entry EXCEPT !.known = val]
      [] OTHER -> entry

\* ParseSSHConfig: a Host line starts a new entry, replacing one of that name;
\* a directive before the first goes to "*".
ParseLine(line) ==
    LET at == IF current = "empty" THEN "*" ELSE current
        fresh == IF current = "empty" THEN Blank ELSE hosts[at]
    IN  /\ alias = "empty" /\ read < MaxLines
        /\ read' = read + 1
        /\ IF line[1] = "host"
             THEN hosts' = With(hosts, line[2], Blank) /\ current' = line[2]
             ELSE hosts' = With(hosts, at, Directive(fresh, line[1], line[2])) /\ current' = at
        /\ UNCHANGED <<alias, todo, asked, client>>

\* An alias of its own, else user, port and identity files of the wildcard.
GetHostMut(a) ==
    IF a \in DOMAIN hosts THEN hosts[a]
    ELSE IF "*" \in DOMAIN hosts THEN [hosts["*"] EXCEPT !.hostName = a]
    ELSE [Blank EXCEPT !.hostName = a]
GetHost(a) ==
    IF a \in DOMAIN hosts THEN hosts[a]
    ELSE IF "*" \in DOMAIN hosts
      THEN [Blank EXCEPT !.hostName = a, !.user = hosts["*"].user,
                         !.port = hosts["*"].port, !.files = hosts["*"].files]
    ELSE [Blank EXCEPT !.hostName = a]

\* The options that NewClientFromConfig derives from an entry, in its order; an
\* identity file that is not there leaves none.
NoOption == <<"empty", "empty">>
FoldsToNo == {"no", "No", "nO", "NO"}
EntryOptions(e) ==
    (IF e.port > 0 THEN << <<"WithPort", e.port>> >> ELSE <<>>)
      \o [i \in DOMAIN e.files |->
            IF e.files[i] \in DOMAIN KeyFiles THEN <<"WithKeyFile", e.files[i]>> ELSE NoOption]
      \o (IF e.strict \in FoldsToNo THEN << <<"WithInsecureIgnoreHostKey", "empty">> >> ELSE <<>>)
      \o (IF e.known # "empty" THEN << <<"WithKnownHosts", e.known>> >> ELSE <<>>)

NewClientFromConfig(a) ==
    LET e == GetHost(a) IN
    /\ alias = "empty" /\ alias' = a
    /\ todo' = EntryOptions(e)
    /\ client' = [client EXCEPT !.addr = IF e.hostName # "empty" THEN e.hostName ELSE a, !.user = e.user]
    /\ UNCHANGED <<hosts, current, read, asked>>

---------------------------------------------------------------------------
(* Options. *)

\* Credentials are appended, and a key file that does not parse is an error.
AuthOption(c, o) ==
    CASE o[1] = "WithPassword" -> [c EXCEPT !.auth = Append(@, <<"password", o[2]>>)]
      [] o[1] = "WithSigner" -> [c EXCEPT !.auth = Append(@, <<"publickey", o[2]>>)]
      [] o[1] = "WithDefaultAgent" ->
           IF o[2] = "empty" THEN c ELSE [c EXCEPT !.auth = Append(@, <<"publickey", o[2]>>)]
      [] o[1] = "WithKeyFile" ->
           IF KeyFiles[o[2]] = "plain" THEN [c EXCEPT !.auth = Append(@, <<"publickey", o[2]>>)]
           ELSE [c EXCEPT !.err = "key"]

\* The last option on host keys wins.
HostKeyOption(c, o) ==
    CASE o[1] = "WithInsecureIgnoreHostKey" -> [c EXCEPT !.hostKey = "ignore"]
      [] o[1] = "WithFingerprint" -> [c EXCEPT !.hostKey = "fingerprint"]
      [] o[1] = "WithHostKeyCallback" -> [c EXCEPT !.hostKey = "callback"]
      [] o[1] = "WithKnownHosts" ->
           IF o[2] = "missing" THEN [c EXCEPT !.err = "known_hosts"] ELSE [c EXCEPT !.hostKey = "known"]

\* WithHighPerformanceDefaults replaces the ciphers, the cipher options append.
TransportOption(c, o) ==
    CASE o[1] = "WithPort" -> [c EXCEPT !.port = o[2]]
      [] o[1] = "WithHighPerformanceDefaults" -> [c EXCEPT !.ciphers = <<"aead">>]
CipherOption(c, o) == [c EXCEPT !.ciphers = Append(@, o[2])]
RouteOption(c, o) ==
    IF o[1] = "WithProxy" THEN [c EXCEPT !.proxy = TRUE] ELSE [c EXCEPT !.jump = TRUE]

TransportOptions == {"WithPort", "WithHighPerformanceDefaults"}
CipherOptions == {"WithCiphers", "WithLegacyCiphers"}
RouteOptions == {"WithProxy", "WithJump"}
AuthOptions == {"WithPassword", "WithSigner", "WithDefaultAgent", "WithKeyFile"}
HostKeyOptions == {"WithInsecureIgnoreHostKey", "WithFingerprint", "WithHostKeyCallback", "WithKnownHosts"}
ASSUME SetupAssumption ==
    /\ "empty" \notin Aliases
    /\ \A o \in CallerOptions :
         o[1] \in AuthOptions \cup HostKeyOptions \cup CipherOptions \cup RouteOptions \cup TransportOptions

Apply(c, o) ==
    IF o[1] = "empty" THEN c
    ELSE IF o[1] \in AuthOptions THEN AuthOption(c, o)
    ELSE IF o[1] \in HostKeyOptions THEN HostKeyOption(c, o)
    ELSE IF o[1] \in CipherOptions THEN CipherOption(c, o)
    ELSE IF o[1] \in RouteOptions THEN RouteOption(c, o)
    ELSE TransportOption(c, o)

\* New applies the options in order and stops at the first error: those of the
\* configuration, then the caller's.
ApplyNext ==
    /\ alias # "empty" /\ client.state = "new" /\ client.err = "empty" /\ todo # <<>>
    /\ client' = Apply(client, Head(todo)) /\ todo' = Tail(todo)
    /\ UNCHANGED <<hosts, current, read, alias, asked>>

ApplyCaller(o) ==
    /\ alias # "empty" /\ client.state = "new" /\ client.err = "empty" /\ todo = <<>> /\ Len(asked) < MaxOptions
    /\ client' = Apply(client, o) /\ asked' = Append(asked, o)
    /\ UNCHANGED <<hosts, current, read, alias, todo>>

\* Dial: a proxy and a jump host exclude each other, and without a host key
\* option the default known_hosts is used or missed.
Dial(hasDefault) ==
    /\ alias # "empty" /\ client.state = "new" /\ todo = <<>>
    /\ client' = [client EXCEPT
         !.state = IF client.err # "empty" \/ (client.jump /\ client.proxy) \/ (client.hostKey = "empty" /\ ~hasDefault)
                     THEN "failed" ELSE "dialed",
         !.hostKey = IF @ = "empty" THEN "known" ELSE @]
    /\ UNCHANGED <<hosts, current, read, alias, todo, asked>>

\* golang.org/x/crypto/ssh: of the methods with one name, the first only.
Offered(auth) ==
    {i \in DOMAIN auth : \A j \in 1..(i - 1) : auth[j][1] # auth[i][1]}

SetupInit ==
    /\ hosts = [p \in {} |-> Blank] /\ current = "empty" /\ read = 0 /\ alias = "empty"
    /\ todo = <<>> /\ asked = <<>>
    /\ client = [addr |-> "empty", user |-> "empty", port |-> 22, auth |-> <<>>, hostKey |-> "empty",
                 ciphers |-> <<"aead">>, proxy |-> FALSE, jump |-> FALSE, err |-> "empty", state |-> "new"]

SetupNext ==
    \/ \E l \in ConfigLines : ParseLine(l)
    \/ \E a \in Aliases : NewClientFromConfig(a)
    \/ ApplyNext
    \/ \E o \in CallerOptions : ApplyCaller(o)
    \/ \E d \in BOOLEAN : Dial(d)

---------------------------------------------------------------------------
HostKeyCalls == {i \in DOMAIN asked : asked[i][1] \in HostKeyOptions}
LastHostKey ==
    IF HostKeyCalls = {} THEN "empty"
    ELSE asked[CHOOSE i \in HostKeyCalls : \A j \in HostKeyCalls : j <= i][1]

\* A client dials without checking the host key only when the caller's last word
\* on host keys was WithInsecureIgnoreHostKey, or the caller said nothing and
\* the alias's own entry has StrictHostKeyChecking no and no known hosts file.
UncheckedWhenAsked ==
    client.state = "dialed" /\ client.hostKey = "ignore" =>
        \/ LastHostKey = "WithInsecureIgnoreHostKey"
        \/ /\ LastHostKey = "empty" /\ alias \in DOMAIN hosts
           /\ hosts[alias].strict \in FoldsToNo /\ hosts[alias].known = "empty"

\* Every credential is offered: "WithSigner appends public key authentication"
\* (options.go:131).
CredentialsOffered ==
    client.state = "dialed" => Offered(client.auth) = DOMAIN client.auth
=============================================================================
