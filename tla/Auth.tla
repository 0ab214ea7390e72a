-------------------------------- MODULE Auth --------------------------------
(***************************************************************************)
(* What auth/ promises of its three verifiers together: HTTP message       *)
(* signatures, proofs of possession and the code exchange, which share no  *)
(* state.                                                                  *)
(***************************************************************************)
EXTENDS HTTPSig, DPoP, PKCE

\* What a verifier accepts is what was made for it: httpsig.Verify accepts only a
\* base that its key signed, in time, dpop.VerifyProof only a fresh proof for this
\* request, and pkce grants only to the verifier behind the challenge.
AcceptedIsGenuine == AcceptedAsSigned /\ ProofBindsRequest /\ GrantIsBound

\* What was made is accepted in time: a signed request in any equivalent form,
\* a proof over the transport its URL names, a verifier of the length asked for.
GenuineIsAccepted == SignedVerifies /\ FreshProofVerifies /\ VerifierFits
=============================================================================
