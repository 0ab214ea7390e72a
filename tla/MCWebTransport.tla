--------------------------- MODULE MCWebTransport ---------------------------
(* Instances of WebTransport for TLC. *)
EXTENDS WebTransport

\* Known not to hold: "SessionError represents an application-level closure
\* received in a CLOSE_WEBTRANSPORT_SESSION capsule" (errors.go:47): when nobody else closes the session,
\* the error the peer sent stays the one AcceptStream returns.
PeerErrorKept == [][closeErr = PeerCode => closeErr' = PeerCode]_sessionVars
=============================================================================
