------------------------- MODULE ProjectCredentials -------------------------
(***************************************************************************)
(* The credential bundle of a project: five values that one run of the     *)
(* generator makes together, and what ValidateProjectCredentials asks of   *)
(* them.  A value is known by the field it was made for and by its run;    *)
(* all that checks one value alone (prefix, length and checksum of an      *)
(* opaque key, curve and coordinates of the signing key, segments,         *)
(* algorithm, role, audience and expiry of a token) is met by a value made *)
(* for the field and by no other.                                          *)
(***************************************************************************)
EXTENDS Naturals, Sequences

CONSTANT MaxRuns          \* runs of the generator; 0 is the bundle in use at first

ASSUME MaxRunsAssumption == MaxRuns \in Nat

Runs == 0..MaxRuns

FieldNames == {"signingKeys", "publishableKey", "secretKey", "anonRoleJwt", "serviceRoleJwt"}

Value(f, r) == [field |-> f, run |-> r]

\* Nothing, and a value that was damaged on its way.
Empty == Value("empty", 0)
Garbled == Value("garbled", 0)

Values == [field : FieldNames, run : Runs] \cup {Empty, Garbled}

\* generateCredentialBundle.
GenerateCredentialBundle(r) == [f \in FieldNames |-> Value(f, r)]

\* What is asked of a value alone, as validateOpaqueKey does of a key.
WellFormed(v, f) == v.field = f

ParseSigningJWK(key) == WellFormed(key, "signingKeys")

\* verifyWithPublicKey: the token's own header and claims, then the key id and
\* the signature.
VerifyWithPublicKey(token, kid, f) == WellFormed(token, f) /\ token.run = kid

\* Mutant: the key id and the signature are not compared with the signing key.
MutantVerifyES256JWT(token, key, f) == ParseSigningJWK(key) /\ WellFormed(token, f)

VerifyES256JWT(token, key, f) ==
    ParseSigningJWK(key) /\ VerifyWithPublicKey(token, key.run, f)

\* ValidateProjectCredentials: all five fields; the opaque keys are not tied
\* to the signing key.
ValidateProjectCredentials(b) ==
    /\ ParseSigningJWK(b.signingKeys)
    /\ WellFormed(b.publishableKey, "publishableKey")
    /\ WellFormed(b.secretKey, "secretKey")
    /\ b.publishableKey # b.secretKey
    /\ VerifyES256JWT(b.anonRoleJwt, b.signingKeys, "anonRoleJwt")
    /\ VerifyES256JWT(b.serviceRoleJwt, b.signingKeys, "serviceRoleJwt")

\* PublicJWKS keeps the key id and the public half: enough to tell the runs apart.
PublicJWKS(key) == key.run
=============================================================================
