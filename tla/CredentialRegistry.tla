-------------------------- MODULE CredentialRegistry --------------------------
(***************************************************************************)
(* The CredentialRegistry contract on top of the AccreditationRegistry.    *)
(* An institution records a credential under one of its accreditations;    *)
(* what a verifier is told about it later depends on the stored status, on *)
(* the clock, and on whether that accreditation is still trusted in the    *)
(* other contract.                                                         *)
(*                                                                         *)
(* The two contracts share the clock.  Their transactions interleave.      *)
(***************************************************************************)
EXTENDS AccreditationRegistry

CONSTANTS
  Holders,         \* accounts credentials are issued to
  Documents,       \* what is attested: credentialHash and credentialType together
  MaxCredentials   \* bound on the number of credentials

ASSUME CredentialAssumption ==
  Holders \subseteq Addresses /\ MaxCredentials \in Nat

VARIABLES
  credentials,          \* id -> struct, for the ids whose exists flag is set
  credentialsByHolder,  \* ids listed under a holder
  credentialsByIssuer   \* ids listed under an issuer

credentialVars == <<credentials, credentialsByHolder, credentialsByIssuer>>
allVars == <<vars, credentialVars>>

Statuses == {"Active", "Revoked", "Suspended"}   \* "Expired" is never stored

REQUIRED_ISSUER_SCOPE == "Institution"

CredentialId(issuer, holder, document, timestamp) == <<issuer, holder, document, timestamp>>

CredentialIds == Addresses \X Holders \X Documents \X Nat

Credential ==
  [issuer : Addresses, holder : Holders, status : Statuses, issuedAt : Nat,
   expiresAt : Nat, issuerAccreditationId : Ids]

Recorded == DOMAIN credentials

-----------------------------------------------------------------------------
(* Views *)

CredentialLapsed(id) == Lapsed(credentials[id].expiresAt, now)

TrustChainValid(id) == ValidateTrustChain(credentials[id].issuerAccreditationId)

IsActive(id) ==
  /\ id \in Recorded
  /\ credentials[id].status = "Active"
  /\ ~CredentialLapsed(id)
  /\ TrustChainValid(id)

\* Reverts for an id that was never recorded.
GetCredentialStatus(id) ==
  IF CredentialLapsed(id) THEN "Expired" ELSE credentials[id].status

VerifyCredential(id) ==
  IF id \notin Recorded
  THEN [isValid |-> FALSE, status |-> "Revoked", trustChainValid |-> FALSE]
  ELSE IF CredentialLapsed(id)
  THEN [isValid |-> FALSE, status |-> "Expired", trustChainValid |-> FALSE]
  ELSE [isValid |-> credentials[id].status = "Active" /\ TrustChainValid(id),
        status |-> credentials[id].status,
        trustChainValid |-> TrustChainValid(id)]

\* Faulty variant: the credential is taken to end one second early.
BatchVerifyStrict(id) ==
  /\ id \in Recorded
  /\ credentials[id].status = "Active"
  /\ credentials[id].expiresAt = 0 \/ credentials[id].expiresAt > now
  /\ TrustChainValid(id)

\* One entry of batchVerifyCredentials' results.
BatchVerify(id) ==
  /\ id \in Recorded
  /\ credentials[id].status = "Active"
  /\ credentials[id].expiresAt = 0 \/ credentials[id].expiresAt >= now
  /\ TrustChainValid(id)

-----------------------------------------------------------------------------
(* Transactions *)

CredInit ==
  /\ Init
  /\ credentials = [id \in {} |-> {}]
  /\ credentialsByHolder = [holder \in Holders |-> {}]
  /\ credentialsByIssuer = [address \in Addresses |-> {}]

\* Faulty variant: the accreditation need not be the sender's own.
ValidateAnyInstitution(issuer, accreditationId) ==
  /\ accreditationId \in Issued
  /\ accreditations[accreditationId].scope = REQUIRED_ISSUER_SCOPE
  /\ ValidateTrustChain(accreditationId)

\* _validateIssuerAuthorization of this contract; getAccreditation reverts for an
\* id that was not issued.
ValidateCredentialIssuer(issuer, accreditationId) ==
  /\ accreditationId \in Issued
  /\ LET accred == accreditations[accreditationId] IN
     /\ accred.subject = issuer
     /\ accred.scope = REQUIRED_ISSUER_SCOPE
     /\ ValidateTrustChain(accreditationId)
     /\ ~accred.revoked
     /\ ~Lapsed(accred.expiresAt, now)

\* The record and its two lookup entries.
StoreCredential(id, record) ==
  /\ credentials' = [i \in Recorded \cup {id} |-> IF i = id THEN record ELSE credentials[i]]
  /\ credentialsByHolder' = [credentialsByHolder EXCEPT ![record.holder] = @ \cup {id}]
  /\ credentialsByIssuer' = [credentialsByIssuer EXCEPT ![record.issuer] = @ \cup {id}]

NewCredential(issuer, holder, accreditationId, expiresAt) ==
  [issuer |-> issuer, holder |-> holder, status |-> "Active", issuedAt |-> now,
   expiresAt |-> expiresAt, issuerAccreditationId |-> accreditationId]

\* Faulty variant: a credential recorded again in the same block is reset.
RecordOverExisting(issuer, holder, document, accreditationId, expiresAt) ==
  /\ Cardinality(Recorded) < MaxCredentials
  /\ ValidateCredentialIssuer(issuer, accreditationId)
  /\ StoreCredential(CredentialId(issuer, holder, document, now),
                     NewCredential(issuer, holder, accreditationId, expiresAt))
  /\ UNCHANGED vars

RecordCredential(issuer, holder, document, accreditationId, expiresAt) ==
  LET id == CredentialId(issuer, holder, document, now) IN
  /\ Cardinality(Recorded) < MaxCredentials
  /\ ValidateCredentialIssuer(issuer, accreditationId)
  /\ id \notin Recorded
  /\ StoreCredential(id, NewCredential(issuer, holder, accreditationId, expiresAt))
  /\ UNCHANGED vars

SetStatus(id, status) ==
  /\ credentials' = [credentials EXCEPT ![id].status = status]
  /\ UNCHANGED <<credentialsByHolder, credentialsByIssuer, vars>>

RevokeCredential(sender, id) ==
  /\ credentials[id].status # "Revoked"
  /\ sender = credentials[id].issuer
  /\ SetStatus(id, "Revoked")

\* Suspending a suspended credential succeeds and changes nothing.
SuspendCredential(sender, id) ==
  /\ credentials[id].status # "Revoked"
  /\ sender = credentials[id].issuer
  /\ SetStatus(id, "Suspended")

\* Faulty variant: any inactive credential may be reactivated.
ReactivateInactive(sender, id) ==
  /\ credentials[id].status # "Active"
  /\ sender = credentials[id].issuer
  /\ SetStatus(id, "Active")

\* Neither this nor the two above looks at the issuer's accreditation.
ReactivateCredential(sender, id) ==
  /\ credentials[id].status = "Suspended"
  /\ sender = credentials[id].issuer
  /\ SetStatus(id, "Active")

CredNext ==
  \/ Next /\ UNCHANGED credentialVars
  \/ \E issuer \in Addresses, holder \in Holders, document \in Documents,
        accreditationId \in Issued, expiresAt \in Expiries :
       RecordCredential(issuer, holder, document, accreditationId, expiresAt)
  \/ \E sender \in Addresses, id \in Recorded : RevokeCredential(sender, id)
  \/ \E sender \in Addresses, id \in Recorded : SuspendCredential(sender, id)
  \/ \E sender \in Addresses, id \in Recorded : ReactivateCredential(sender, id)

CredSpec == CredInit /\ [][CredNext]_allVars

-----------------------------------------------------------------------------
(* Correctness *)

\* Types of the credential registry's storage.
CredTypeOK ==
  /\ TypeOK
  /\ Recorded \subseteq CredentialIds
  /\ credentials \in [Recorded -> Credential]
  /\ credentialsByHolder \in [Holders -> SUBSET Recorded]
  /\ credentialsByIssuer \in [Addresses -> SUBSET Recorded]

\* isActive, verifyCredential, batchVerifyCredentials and getCredentialStatus each
\* combine status, expiry and trust chain in code of their own; asked in the same
\* block they never contradict each other.
VerdictsAgree ==
  \A id \in Recorded :
    /\ IsActive(id) <=> VerifyCredential(id).isValid
    /\ IsActive(id) <=> BatchVerify(id)
    /\ VerifyCredential(id).status = GetCredentialStatus(id)
    /\ IsActive(id) => GetCredentialStatus(id) = "Active"

\* Every credential on record names an institution accreditation held by the very
\* account that recorded it, with all the parents trust has to pass through.
CredentialsNameTheirAuthority ==
  \A id \in Recorded :
    LET authority == credentials[id].issuerAccreditationId IN
    /\ authority \in Issued
    /\ accreditations[authority].subject = credentials[id].issuer
    /\ accreditations[authority].scope = "Institution"
    /\ accreditations[authority].parent \in Issued

\* Once the accreditation behind a credential has lost trust, by a revocation or an
\* expiry anywhere up its chain, no verifier is ever told again that the credential
\* is valid, even if its issuer goes on to suspend and reactivate it.
LostAuthorityIsFinal ==
  [][\A id \in Recorded :
       ~TrustChainValid(id) => ~(VerifyCredential(id).isValid)']_allVars

\* What a verifier is told about a credential only gets worse, except for the
\* end of a suspension: an expired one stays expired, a revoked one is reported
\* revoked or, after its expiry, expired.
ReportedStatusIsFinal ==
  [][\A id \in Recorded :
       /\ GetCredentialStatus(id) = "Expired" => GetCredentialStatus(id)' = "Expired"
       /\ GetCredentialStatus(id) = "Revoked"
            => GetCredentialStatus(id)' \in {"Revoked", "Expired"}]_allVars

\* The ids a credential can get before the clock stops.
Tracked == Addresses \X Holders \X Documents \X (1 .. MaxTime)

Lifecycle ==
  INSTANCE CredentialLifecycle
    WITH Credentials <- Tracked,
         status <- [id \in Tracked |->
                      IF id \in Recorded THEN credentials[id].status ELSE "None"]

\* The registry keeps the promise of CredentialLifecycle.
ImplementsLifecycle == Lifecycle!Spec
=============================================================================
