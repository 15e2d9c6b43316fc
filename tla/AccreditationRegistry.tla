------------------------ MODULE AccreditationRegistry ------------------------
(***************************************************************************)
(* The AccreditationRegistry contract: who may accredit whom, and when an  *)
(* accreditation is trusted.  Every accreditation names a parent; trust is *)
(* never stored but recomputed along the parents by validateTrustChain, so *)
(* a single revocation or expiry high in the hierarchy withdraws it from   *)
(* everything below.                                                       *)
(*                                                                         *)
(* One action is one transaction.  A transaction that reverts leaves the   *)
(* state as it was, so it is a transaction that is not enabled here.       *)
(* Several transactions may carry the same block.timestamp (now).          *)
(***************************************************************************)
EXTENDS Naturals, FiniteSets, Sequences

CONSTANTS
  Addresses,    \* accounts that may send transactions or be a subject
  Owner,        \* the account that deployed the registry (the EU root signer)
  Permissions,  \* values of permissionsHash
  ScopesInUse,  \* the scopes callers ask for
  Expiries,     \* values of expiresAt in use; 0 means "never expires"
  Predicted,    \* ids a caller may name as a parent before they are issued
  NoId,         \* bytes32(0)
  MaxTime,      \* bound on block.timestamp
  MaxIssued     \* bound on the number of accreditations

VARIABLES
  accreditations,           \* id -> struct, for the ids whose exists flag is set
  accreditationsBySubject,  \* ids listed under a subject (their order is not modelled)
  accreditationsByIssuer,   \* ids listed under an issuer
  validAccreditations,      \* the <<id, subject>> cells that hold true
  now                       \* block.timestamp

accreditationVars ==
  <<accreditations, accreditationsBySubject, accreditationsByIssuer, validAccreditations>>
vars == <<accreditationVars, now>>

Scopes == {"MemberState", "Ministry", "Institution", "Department",
           "BusinessRegistry", "Enterprise"}

\* The scope a parent must have, for the scopes that always need a parent.
ParentScope ==
  [Institution |-> "Ministry", Department |-> "Institution",
   BusinessRegistry |-> "MemberState", Enterprise |-> "BusinessRegistry"]

\* keccak256(encodePacked(...)) over fields of fixed size, taken as injective.
\* Neither the parent nor the expiry is hashed, so a caller knows the id of an
\* accreditation before it is issued and may name it as a parent.
AccreditationId(issuer, subject, scope, permissionsHash, timestamp) ==
  <<issuer, subject, scope, permissionsHash, timestamp>>

Ids == Addresses \X Addresses \X Scopes \X Permissions \X Nat

Accreditation ==
  [issuer : Addresses, subject : Addresses, parent : Ids \cup {NoId},
   scope : Scopes, issuedAt : Nat, expiresAt : Nat, revoked : BOOLEAN]

ASSUME RegistryAssumption ==
  /\ Owner \in Addresses
  /\ ScopesInUse \subseteq Scopes
  /\ Expiries \subseteq Nat
  /\ Predicted \subseteq Ids
  /\ NoId \notin Ids
  /\ MaxTime \in Nat \ {0}
  /\ MaxIssued \in Nat

-----------------------------------------------------------------------------
(* Views *)

Issued == DOMAIN accreditations

\* expiresAt > 0 && expiresAt < block.timestamp: still good in the second it names.
Lapsed(expiresAt, time) == expiresAt > 0 /\ expiresAt < time

\* The three checks validateTrustChain begins with.
Standing(id) ==
  /\ id \in Issued
  /\ ~accreditations[id].revoked
  /\ ~Lapsed(accreditations[id].expiresAt, now)

\* Faulty variant: the link is not compared with the issuer.
UnderAnySubject(id, scope) ==
  LET parent == accreditations[id].parent IN
  /\ parent \in Issued
  /\ ~accreditations[parent].revoked
  /\ accreditations[parent].scope = scope

\* The check of the link from an accreditation to a parent of the given scope.
Under(id, scope) ==
  LET parent == accreditations[id].parent IN
  /\ parent \in Issued
  /\ ~accreditations[parent].revoked
  /\ accreditations[parent].scope = scope
  /\ accreditations[parent].subject = accreditations[id].issuer

RootIssued(id) ==
  accreditations[id].parent = NoId /\ accreditations[id].issuer = Owner

\* validateTrustChain recurses only into a parent whose scope it has just
\* checked, so each branch of it is an operator of its own.
MemberStateChain(id) == Standing(id) /\ RootIssued(id)

MinistryChain(id) ==
  /\ Standing(id)
  /\ IF accreditations[id].parent = NoId
     THEN RootIssued(id)
     ELSE Under(id, "MemberState") /\ MemberStateChain(accreditations[id].parent)

InstitutionChain(id) ==
  Standing(id) /\ Under(id, "Ministry") /\ MinistryChain(accreditations[id].parent)

DepartmentChain(id) ==
  Standing(id) /\ Under(id, "Institution") /\ InstitutionChain(accreditations[id].parent)

BusinessRegistryChain(id) ==
  Standing(id) /\ Under(id, "MemberState") /\ MemberStateChain(accreditations[id].parent)

EnterpriseChain(id) ==
  /\ Standing(id)
  /\ Under(id, "BusinessRegistry")
  /\ BusinessRegistryChain(accreditations[id].parent)

ValidateTrustChain(id) ==
  /\ id \in Issued
  /\ \/ accreditations[id].scope = "MemberState"      /\ MemberStateChain(id)
     \/ accreditations[id].scope = "Ministry"         /\ MinistryChain(id)
     \/ accreditations[id].scope = "Institution"      /\ InstitutionChain(id)
     \/ accreditations[id].scope = "Department"       /\ DepartmentChain(id)
     \/ accreditations[id].scope = "BusinessRegistry" /\ BusinessRegistryChain(id)
     \/ accreditations[id].scope = "Enterprise"       /\ EnterpriseChain(id)

\* Faulty variant: the expiry second still counts, as in validateTrustChain.
HasValidAccreditationInclusive(subject, scope) ==
  \E id \in accreditationsBySubject[subject] :
    accreditations[id].scope = scope /\ ValidateTrustChain(id)

\* Here the comparison is strict: an accreditation is no longer valid in the
\* second it expires.
HasValidAccreditation(subject, scope) ==
  \E id \in accreditationsBySubject[subject] :
    /\ accreditations[id].scope = scope
    /\ ~accreditations[id].revoked
    /\ accreditations[id].expiresAt = 0 \/ accreditations[id].expiresAt > now
    /\ ValidateTrustChain(id)

\* A missing entry reads as the zero struct, whose parent is bytes32(0).
ParentOf(id) == IF id \in Issued THEN accreditations[id].parent ELSE NoId

\* The walk of _getChainLength gives up after this many records.
ChainLimit == 11

Walk(id) ==
  LET up[n \in 1 .. ChainLimit] == IF n = 1 THEN id ELSE ParentOf(up[n - 1]) IN up

ChainLength(id) == Cardinality({n \in 1 .. ChainLimit : Walk(id)[n] # NoId})

\* getTrustChain: from the last record reached down to the id asked about.
GetTrustChain(id) ==
  LET length == ChainLength(id)
      up     == Walk(id)
  IN  [i \in 1 .. length |-> up[length - i + 1]]

-----------------------------------------------------------------------------
(* Transactions *)

\* The deployed registry: nothing issued.  Block timestamps are positive.
Init ==
  /\ accreditations = [id \in {} |-> {}]
  /\ accreditationsBySubject = [address \in Addresses |-> {}]
  /\ accreditationsByIssuer = [address \in Addresses |-> {}]
  /\ validAccreditations = {}
  /\ now = 1

\* Faulty variant: anyone may issue below a trusted parent.
ValidateParentOnly(issuer, scope, parent) ==
  \/ scope \in {"MemberState", "Ministry"} /\ issuer = Owner
  \/ /\ scope \in DOMAIN ParentScope
     /\ parent \in Issued
     /\ accreditations[parent].scope = ParentScope[scope]
     /\ ValidateTrustChain(parent)

\* _validateIssuerAuthorization.  The owner is asked for no parent when it
\* issues to a member state or a ministry, and a parent it names all the same
\* is not looked at; for the lower scopes the owner may stand in for the
\* parent's subject.
ValidateIssuerAuthorization(issuer, scope, parent) ==
  \/ scope = "MemberState" /\ issuer = Owner
  \/ scope = "Ministry" /\ issuer = Owner
  \/ /\ scope = "Ministry"
     /\ parent \in Issued
     /\ accreditations[parent].scope = "MemberState"
     /\ accreditations[parent].subject = issuer
     /\ ~accreditations[parent].revoked
  \/ /\ scope \in DOMAIN ParentScope
     /\ parent \in Issued
     /\ accreditations[parent].scope = ParentScope[scope]
     /\ accreditations[parent].subject = issuer \/ issuer = Owner
     /\ ValidateTrustChain(parent)

\* The bookkeeping of an issue, shared with the faulty variant below.
Store(id, record) ==
  /\ accreditations' =
       [i \in Issued \cup {id} |-> IF i = id THEN record ELSE accreditations[i]]
  /\ accreditationsBySubject' =
       [accreditationsBySubject EXCEPT ![record.subject] = @ \cup {id}]
  /\ accreditationsByIssuer' =
       [accreditationsByIssuer EXCEPT ![record.issuer] = @ \cup {id}]
  /\ validAccreditations' = validAccreditations \cup {<<id, record.subject>>}

NewRecord(issuer, subject, scope, parent, expiresAt) ==
  [issuer |-> issuer, subject |-> subject, parent |-> parent, scope |-> scope,
   issuedAt |-> now, expiresAt |-> expiresAt, revoked |-> FALSE]

\* Faulty variant: an id that is already taken is issued over.
IssueOverExisting(issuer, subject, scope, parent, permissionsHash, expiresAt) ==
  /\ Cardinality(Issued) < MaxIssued
  /\ ValidateIssuerAuthorization(issuer, scope, parent)
  /\ Store(AccreditationId(issuer, subject, scope, permissionsHash, now),
           NewRecord(issuer, subject, scope, parent, expiresAt))
  /\ UNCHANGED now

IssueAccreditation(issuer, subject, scope, parent, permissionsHash, expiresAt) ==
  LET id == AccreditationId(issuer, subject, scope, permissionsHash, now) IN
  /\ Cardinality(Issued) < MaxIssued
  /\ ValidateIssuerAuthorization(issuer, scope, parent)
  /\ id \notin Issued
  /\ Store(id, NewRecord(issuer, subject, scope, parent, expiresAt))
  /\ UNCHANGED now

\* Faulty variant: the flag in validAccreditations is left set.
RevokeRecordOnly(sender, id) ==
  /\ id \in Issued
  /\ ~accreditations[id].revoked
  /\ sender = Owner \/ sender = accreditations[id].issuer
  /\ accreditations' = [accreditations EXCEPT ![id].revoked = TRUE]
  /\ UNCHANGED <<accreditationsBySubject, accreditationsByIssuer, validAccreditations, now>>

RevokeAccreditation(sender, id) ==
  /\ id \in Issued
  /\ ~accreditations[id].revoked
  /\ sender = Owner \/ sender = accreditations[id].issuer
  /\ accreditations' = [accreditations EXCEPT ![id].revoked = TRUE]
  /\ validAccreditations' = validAccreditations \ {<<id, accreditations[id].subject>>}
  /\ UNCHANGED <<accreditationsBySubject, accreditationsByIssuer, now>>

\* A block with a later timestamp.
Tick ==
  /\ now < MaxTime
  /\ now' = now + 1
  /\ UNCHANGED accreditationVars

Parents == Issued \cup Predicted \cup {NoId}

Next ==
  \/ \E issuer, subject \in Addresses, scope \in ScopesInUse, parent \in Parents,
        permissionsHash \in Permissions, expiresAt \in Expiries :
       IssueAccreditation(issuer, subject, scope, parent, permissionsHash, expiresAt)
  \/ \E sender \in Addresses, id \in Issued : RevokeAccreditation(sender, id)
  \/ Tick

Spec == Init /\ [][Next]_vars

-----------------------------------------------------------------------------
(* Correctness *)

\* Types of the registry's storage: every record is filed under an id made of
\* the fields it was issued with, and the lookups hold ids of issued records.
TypeOK ==
  /\ Issued \subseteq Ids
  /\ accreditations \in [Issued -> Accreditation]
  /\ accreditationsBySubject \in [Addresses -> SUBSET Issued]
  /\ accreditationsByIssuer \in [Addresses -> SUBSET Issued]
  /\ validAccreditations \subseteq Issued \X Addresses
  /\ now \in 1 .. MaxTime

\* The two lookup lists and the validAccreditations flags are kept beside the
\* records by issueAccreditation and revokeAccreditation; they list exactly the
\* records of that subject and issuer, and flag exactly the unrevoked ones.
LookupsMirrorRecords ==
  /\ \A a \in Addresses :
       /\ accreditationsBySubject[a] = {id \in Issued : accreditations[id].subject = a}
       /\ accreditationsByIssuer[a] = {id \in Issued : accreditations[id].issuer = a}
  /\ \A id \in Issued, a \in Addresses :
       <<id, a>> \in validAccreditations
         <=> a = accreditations[id].subject /\ ~accreditations[id].revoked

\* The scope each scope must be issued under, when there is a parent.
Superior == [s \in DOMAIN ParentScope \cup {"Ministry"} |->
               IF s = "Ministry" THEN "MemberState" ELSE ParentScope[s]]

\* The parent an accreditation must have, given who issued it at which scope.
HoldsTheParent(id) ==
  LET a == accreditations[id] IN
  /\ a.issuer # Owner \/ a.scope \in DOMAIN ParentScope
       => /\ a.scope \in DOMAIN Superior
          /\ a.parent \in Issued
          /\ accreditations[a.parent].scope = Superior[a.scope]
  /\ a.issuer # Owner => accreditations[a.parent].subject = a.issuer
  /\ a.scope \in DOMAIN ParentScope
       => accreditations[a.parent].parent \in Issued \cup {NoId}

\* No account but the owner ever gets an accreditation into the registry that it
\* did not issue as the subject of a parent one step up the hierarchy.  No
\* institution, department, business registry or enterprise is ever without such
\* a parent, nor under one whose own parent is yet to be issued.
IssuersHoldTheParent == \A id \in Issued : HoldsTheParent(id)

\* A chain of records, root first, that by itself proves id is trusted: it starts
\* at a record the owner issued under no parent, every record on it stands, and
\* each was issued by the subject of the one before it, one scope down.
Certifies(chain, id) ==
  /\ chain # <<>>
  /\ chain[Len(chain)] = id
  /\ \A i \in DOMAIN chain : Standing(chain[i])
  /\ RootIssued(chain[1])
  /\ accreditations[chain[1]].scope \in {"MemberState", "Ministry"}
  /\ \A i \in DOMAIN chain \ {1} :
       LET a == accreditations[chain[i]]
           p == accreditations[chain[i - 1]] IN
       /\ a.parent = chain[i - 1]
       /\ a.scope \in DOMAIN Superior
       /\ p.scope = Superior[a.scope]
       /\ p.subject = a.issuer

\* validateTrustChain, which recurses by scope, trusts an accreditation exactly
\* when the list getTrustChain returns, which follows parents blindly and may
\* meet dangling or circular ones, is a certificate for it.
TrustMatchesListing ==
  \A id \in Issued : ValidateTrustChain(id) <=> Certifies(GetTrustChain(id), id)

\* hasValidAccreditation answers as validateTrustChain does for the subject's
\* accreditations, except for one that expires in this very second.
LookupAgreesExceptAtExpiry ==
  \A subject \in Addresses, scope \in Scopes :
    HasValidAccreditation(subject, scope)
      <=> \E id \in Issued :
            /\ accreditations[id].subject = subject
            /\ accreditations[id].scope = scope
            /\ accreditations[id].expiresAt # now
            /\ ValidateTrustChain(id)

\* An issued record is never deleted or rewritten; only its revoked flag may
\* change, once, from false to true.
RecordsAreFinal ==
  [][\A id \in Issued :
       /\ id \in Issued'
       /\ \E r \in {accreditations[id].revoked, TRUE} :
            accreditations'[id] = [accreditations[id] EXCEPT !.revoked = r]]_vars

\* Once an accreditation is not trusted it never is again, whatever is issued,
\* revoked or expires later.  The one exception is an accreditation the owner
\* issued under an id that did not exist yet.
TrustNeverReturns ==
  [][\A id \in Issued :
       accreditations[id].parent \in Issued \cup {NoId} /\ ~ValidateTrustChain(id)
         => ~ValidateTrustChain(id)']_vars

\* A comment in _validateIssuerAuthorization asks that whoever issues to a
\* ministry "be the subject of a valid, non-revoked MemberState accreditation".
\* The least "valid" can mean is that it has not expired.  The code does not keep this.
MinistryIssuerIsCurrent ==
  [][\A id \in Issued' \ Issued :
       LET a == accreditations'[id] IN
       a.scope = "Ministry" /\ a.issuer # Owner
         => ~Lapsed(accreditations'[a.parent].expiresAt, now)]_vars
=============================================================================
