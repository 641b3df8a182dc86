-------------------------------- MODULE Tokens --------------------------------
(***************************************************************************)
(* JWTService: the three classes of token it signs and what Validate and   *)
(* AuthRequired accept.  A token is its claims and header; a key stands    *)
(* for the key pair and for its thumbprint, the kid.  A service is         *)
(*   [signing, verification, issuer, audience, leeway].                    *)
(***************************************************************************)
EXTENDS Naturals

CONSTANTS Keys, NoKid

Classes == {"access", "id", "mfa"}

\* NewJWTService: the service verifies with the key it signs with.  A leeway
\* that is not positive is replaced by the default.
NewJWTService(key, issuer, audience, leeway, defaultLeeway) ==
    [signing |-> key, verification |-> {key}, issuer |-> issuer,
     audience |-> audience,
     leeway |-> IF leeway = 0 THEN defaultLeeway ELSE leeway]

\* WithPreviousKey refuses the signing key itself.
CanAddPrevious(svc, key) == key # svc.signing

\* Mutant: the previous key is loaded and not kept.
WithPreviousKeyDropped(svc, key) == svc

WithPreviousKey(svc, key) ==
    [svc EXCEPT !.verification = @ \cup {key}]

\* sign: every token carries the kid of the one signing key.
Sign(svc, cls, sub, aud, exp) ==
    [key |-> svc.signing, kid |-> svc.signing, cls |-> cls, sub |-> sub,
     iss |-> svc.issuer, aud |-> aud, exp |-> exp]

IssueAccessToken(svc, user, now, ttl) ==
    Sign(svc, "access", user, svc.audience, now + ttl)

IssueIDToken(svc, user, clientID, now, idTTL) ==
    Sign(svc, "id", user, clientID, now + idTTL)

IssueMFAToken(svc, user, now, mfaTTL) ==
    Sign(svc, "mfa", user, svc.audience, now + mfaTTL)

\* keyFor: a token without a kid is tried with the signing key, one with a kid
\* only with the key of that name.
keyFor(svc, tok) ==
    IF tok.kid = NoKid THEN {svc.signing} ELSE svc.verification \cap {tok.kid}

\* Mutant: the class claim is not compared.
ValidateAnyClass(svc, tok, want, now) ==
    /\ tok.key \in keyFor(svc, tok)
    /\ tok.iss = svc.issuer /\ tok.aud = svc.audience
    /\ now < tok.exp + svc.leeway

\* Validate: signature, issuer, audience and expiry, and then the class.
Validate(svc, tok, want, now) ==
    /\ tok.key \in keyFor(svc, tok)
    /\ tok.iss = svc.issuer /\ tok.aud = svc.audience
    /\ now < tok.exp + svc.leeway
    /\ tok.cls = want
==============================================================================
