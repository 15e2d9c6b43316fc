---------------------------- MODULE RegistryProofs ----------------------------
(***************************************************************************)
(* Proofs about the two registries, for every set of accounts and          *)
(* documents, every bound and every parent a caller may name.  The first   *)
(* part is about the accreditation registry alone; the second carries it   *)
(* over to the two contracts together, of which the credential registry    *)
(* only reads the other, and goes on to credentials.                       *)
(*                                                                         *)
(* Trust is proved about through TrustRule, one rule for the six branches  *)
(* of validateTrustChain.  A trusted record climbs, scope by scope, to the *)
(* top within four records, so that the walk that getTrustChain takes of   *)
(* it is a certificate; and any certificate is, from its root down, proof  *)
(* of trust.                                                               *)
(***************************************************************************)
EXTENDS CredentialRegistry, FiniteSetTheorems, TLAPS

-----------------------------------------------------------------------------
(* The scopes *)

\* The two tables of scopes, and the scopes they leave out.
LEMMA ScopeTable ==
  /\ DOMAIN ParentScope = {"Institution", "Department", "BusinessRegistry", "Enterprise"}
  /\ ParentScope["Institution"] = "Ministry"
  /\ ParentScope["Department"] = "Institution"
  /\ ParentScope["BusinessRegistry"] = "MemberState"
  /\ ParentScope["Enterprise"] = "BusinessRegistry"
  /\ DOMAIN Superior = DOMAIN ParentScope \cup {"Ministry"}
  /\ Superior["Ministry"] = "MemberState"
  /\ \A s \in DOMAIN ParentScope : Superior[s] = ParentScope[s]
  /\ \A s \in Scopes : s \in DOMAIN ParentScope \/ s = "Ministry" \/ s = "MemberState"
<1>1. DOMAIN ParentScope = {"Institution", "Department", "BusinessRegistry", "Enterprise"}
  BY DEF ParentScope
<1>2. "Ministry" \notin DOMAIN ParentScope
  BY <1>1
<1>3. QED
  BY <1>1, <1>2 DEF ParentScope, Superior, Scopes

-----------------------------------------------------------------------------
(* Type correctness *)

\* The registry starts well typed.
LEMMA InitTypeOK == Init => TypeOK
<1> SUFFICES ASSUME Init PROVE TypeOK
  OBVIOUS
<1>1. accreditations = [id \in {} |-> {}] /\ Issued = {}
  BY DEF Init, Issued
<1>2. accreditations \in [Issued -> Accreditation]
  BY <1>1
<1>3. /\ accreditationsBySubject \in [Addresses -> SUBSET Issued]
      /\ accreditationsByIssuer \in [Addresses -> SUBSET Issued]
  BY DEF Init
<1>4. validAccreditations \subseteq Issued \X Addresses
  BY DEF Init
<1>5. now \in 1 .. MaxTime
  BY RegistryAssumption DEF Init
<1>6. QED
  BY <1>1, <1>2, <1>3, <1>4, <1>5 DEF TypeOK

\* What issueAccreditation does to the records, in one place.
LEMMA IssueStep ==
  ASSUME TypeOK,
         NEW issuer \in Addresses, NEW subject \in Addresses, NEW scope \in ScopesInUse,
         NEW parent \in Parents, NEW permissionsHash \in Permissions,
         NEW expiresAt \in Expiries,
         IssueAccreditation(issuer, subject, scope, parent, permissionsHash, expiresAt)
  PROVE  LET id == AccreditationId(issuer, subject, scope, permissionsHash, now)
             r  == NewRecord(issuer, subject, scope, parent, expiresAt) IN
         /\ id \in Ids
         /\ id \notin Issued
         /\ r \in Accreditation
         /\ Issued' = Issued \cup {id}
         /\ accreditations'[id] = r
         /\ \A i \in Issued : accreditations'[i] = accreditations[i]
         /\ accreditations' \in [Issued' -> Accreditation]
<1> DEFINE id == AccreditationId(issuer, subject, scope, permissionsHash, now)
           r  == NewRecord(issuer, subject, scope, parent, expiresAt)
<1>1. scope \in Scopes /\ expiresAt \in Nat /\ parent \in Ids \cup {NoId} /\ now \in Nat
  BY RegistryAssumption DEF Parents, TypeOK
<1>2. id \in Ids
  BY <1>1 DEF AccreditationId, Ids
<1>3. r \in Accreditation
  BY <1>1 DEF NewRecord, Accreditation
<1>4. id \notin Issued /\ Store(id, r)
  BY DEF IssueAccreditation
<1>5. accreditations' = [i \in Issued \cup {id} |-> IF i = id THEN r ELSE accreditations[i]]
  BY <1>4 DEF Store
<1> HIDE DEF id, r
<1>6. Issued' = Issued \cup {id}
  BY <1>5 DEF Issued
<1>7. /\ accreditations'[id] = r
      /\ \A i \in Issued : accreditations'[i] = accreditations[i]
  BY <1>4, <1>5
<1>8. accreditations' \in [Issued' -> Accreditation]
  BY <1>3, <1>5, <1>6 DEF TypeOK
<1>9. QED
  BY <1>2, <1>3, <1>4, <1>6, <1>7, <1>8 DEF id, r

\* What revokeAccreditation does to the records.
LEMMA RevokeStep ==
  ASSUME TypeOK, NEW sender \in Addresses, NEW id \in Issued,
         RevokeAccreditation(sender, id)
  PROVE  /\ Issued' = Issued
         /\ accreditations'[id] = [accreditations[id] EXCEPT !.revoked = TRUE]
         /\ \A i \in Issued \ {id} : accreditations'[i] = accreditations[i]
         /\ accreditations' \in [Issued -> Accreditation]
<1>1. accreditations' = [accreditations EXCEPT ![id].revoked = TRUE]
  BY DEF RevokeAccreditation
<1>2. accreditations[id] \in Accreditation
  BY DEF TypeOK
<1>3. [accreditations[id] EXCEPT !.revoked = TRUE] \in Accreditation
  BY <1>2 DEF Accreditation
<1>4. QED
  BY <1>1, <1>2, <1>3 DEF TypeOK, Issued

\* Every transaction, and the passing of time, keeps the types.
LEMMA NextTypeOK == TypeOK /\ [Next]_vars => TypeOK'
<1> SUFFICES ASSUME TypeOK, [Next]_vars PROVE TypeOK'
  OBVIOUS
<1>1. ASSUME NEW issuer \in Addresses, NEW subject \in Addresses, NEW scope \in ScopesInUse,
             NEW parent \in Parents, NEW permissionsHash \in Permissions,
             NEW expiresAt \in Expiries,
             IssueAccreditation(issuer, subject, scope, parent, permissionsHash, expiresAt)
      PROVE TypeOK'
  <2> DEFINE id == AccreditationId(issuer, subject, scope, permissionsHash, now)
             r  == NewRecord(issuer, subject, scope, parent, expiresAt)
  <2>1. /\ id \in Ids
        /\ Issued' = Issued \cup {id}
        /\ accreditations' \in [Issued' -> Accreditation]
    BY <1>1, IssueStep
  <2>2. r.subject = subject /\ r.issuer = issuer
    BY DEF NewRecord
  <2>3. /\ accreditationsBySubject' = [accreditationsBySubject EXCEPT ![subject] = @ \cup {id}]
        /\ accreditationsByIssuer' = [accreditationsByIssuer EXCEPT ![issuer] = @ \cup {id}]
        /\ validAccreditations' = validAccreditations \cup {<<id, subject>>}
        /\ now' = now
    BY <1>1, <2>2 DEF IssueAccreditation, Store
  <2> HIDE DEF id, r
  <2>4. Issued' \subseteq Ids
    BY <2>1 DEF TypeOK
  <2>5. accreditationsBySubject' \in [Addresses -> SUBSET Issued']
    BY <2>1, <2>3 DEF TypeOK
  <2>6. accreditationsByIssuer' \in [Addresses -> SUBSET Issued']
    BY <2>1, <2>3 DEF TypeOK
  <2>7. validAccreditations' \subseteq Issued' \X Addresses
    BY <2>1, <2>3 DEF TypeOK
  <2>8. QED
    BY <2>1, <2>3, <2>4, <2>5, <2>6, <2>7 DEF TypeOK
<1>2. ASSUME NEW sender \in Addresses, NEW id \in Issued, RevokeAccreditation(sender, id)
      PROVE TypeOK'
  <2>1. Issued' = Issued /\ accreditations' \in [Issued -> Accreditation]
    BY <1>2, RevokeStep
  <2>2. /\ validAccreditations' \subseteq validAccreditations
        /\ accreditationsBySubject' = accreditationsBySubject
        /\ accreditationsByIssuer' = accreditationsByIssuer
        /\ now' = now
    BY <1>2 DEF RevokeAccreditation
  <2>3. QED
    BY <2>1, <2>2 DEF TypeOK
<1>3. ASSUME Tick PROVE TypeOK'
  <2>1. /\ UNCHANGED <<accreditations, accreditationsBySubject, accreditationsByIssuer>>
        /\ UNCHANGED validAccreditations
        /\ Issued' = Issued
    BY <1>3 DEF Tick, accreditationVars, Issued
  <2>2. now' \in 1 .. MaxTime
    BY <1>3, RegistryAssumption DEF TypeOK, Tick
  <2>3. QED
    BY <2>1, <2>2 DEF TypeOK
<1>4. CASE UNCHANGED vars
  <2>1. /\ UNCHANGED <<accreditations, accreditationsBySubject, accreditationsByIssuer>>
        /\ UNCHANGED <<validAccreditations, now>>
        /\ Issued' = Issued
    BY <1>4 DEF vars, accreditationVars, Issued
  <2>2. QED
    BY <2>1 DEF TypeOK
<1>5. QED
  BY <1>1, <1>2, <1>3, <1>4 DEF Next

\* The registry's storage is well typed, in particular every record stays filed
\* under an id of the fields it was issued with.
THEOREM TypeCorrect == Spec => []TypeOK
<1>1. QED
  BY InitTypeOK, NextTypeOK, PTL DEF Spec

-----------------------------------------------------------------------------
(* Records are final *)

\* What any step does to a record that is already issued.
RecordKept(id) ==
  /\ id \in Issued'
  /\ accreditations'[id].issuer = accreditations[id].issuer
  /\ accreditations'[id].subject = accreditations[id].subject
  /\ accreditations'[id].parent = accreditations[id].parent
  /\ accreditations'[id].scope = accreditations[id].scope
  /\ accreditations'[id].issuedAt = accreditations[id].issuedAt
  /\ accreditations'[id].expiresAt = accreditations[id].expiresAt
  /\ accreditations[id].revoked => accreditations'[id].revoked

\* A step neither drops nor rewrites a record, but for its revoked flag.
LEMMA StepKeepsRecords ==
  ASSUME TypeOK, [Next]_vars, NEW id \in Issued
  PROVE  /\ id \in Issued'
         /\ \E r \in {accreditations[id].revoked, TRUE} :
              accreditations'[id] = [accreditations[id] EXCEPT !.revoked = r]
<1>1. accreditations[id] \in Accreditation
  BY DEF TypeOK
<1>2. accreditations[id] = [accreditations[id] EXCEPT !.revoked = accreditations[id].revoked]
  BY <1>1 DEF Accreditation
<1>3. CASE accreditations' = accreditations
  BY <1>2, <1>3 DEF Issued
<1>4. ASSUME NEW issuer \in Addresses, NEW subject \in Addresses, NEW scope \in ScopesInUse,
             NEW parent \in Parents, NEW permissionsHash \in Permissions,
             NEW expiresAt \in Expiries,
             IssueAccreditation(issuer, subject, scope, parent, permissionsHash, expiresAt)
      PROVE  id \in Issued' /\ accreditations'[id] = accreditations[id]
  BY <1>4, IssueStep
<1>5. ASSUME NEW sender \in Addresses, NEW i \in Issued, RevokeAccreditation(sender, i)
      PROVE  /\ id \in Issued'
             /\ \/ accreditations'[id] = accreditations[id]
                \/ accreditations'[id] = [accreditations[id] EXCEPT !.revoked = TRUE]
  BY <1>5, RevokeStep
<1>6. CASE Tick
  BY <1>3, <1>6 DEF Tick, accreditationVars
<1>7. CASE UNCHANGED vars
  BY <1>3, <1>7 DEF vars, accreditationVars
<1>8. QED
  BY <1>2, <1>4, <1>5, <1>6, <1>7 DEF Next

\* So what makes a record's place in the hierarchy is kept, and a revocation stands.
LEMMA StepKeepsFields ==
  ASSUME TypeOK, [Next]_vars, NEW id \in Issued
  PROVE  RecordKept(id)
<1>1. accreditations[id] \in Accreditation
  BY DEF TypeOK
<1>2. PICK r \in {accreditations[id].revoked, TRUE} :
        accreditations'[id] = [accreditations[id] EXCEPT !.revoked = r]
  BY StepKeepsRecords
<1>3. id \in Issued'
  BY StepKeepsRecords
<1>4. QED
  BY <1>1, <1>2, <1>3 DEF RecordKept, Accreditation

\* No issue, revocation or later block rewrites or deletes an issued record, or
\* takes a revocation back.
THEOREM RecordsAreFinalAlways == Spec => RecordsAreFinal
<1>1. TypeOK /\ [Next]_vars
        => [\A id \in Issued :
              /\ id \in Issued'
              /\ \E r \in {accreditations[id].revoked, TRUE} :
                   accreditations'[id] = [accreditations[id] EXCEPT !.revoked = r]]_vars
  BY StepKeepsRecords
<1>2. QED
  BY <1>1, TypeCorrect, PTL DEF Spec, RecordsAreFinal

-----------------------------------------------------------------------------
(* The lookups *)

\* Every step keeps the lookups in step with the records.
LEMMA LookupsStep == TypeOK /\ LookupsMirrorRecords /\ [Next]_vars => LookupsMirrorRecords'
<1> SUFFICES ASSUME TypeOK, LookupsMirrorRecords, [Next]_vars PROVE LookupsMirrorRecords'
  OBVIOUS
<1>1. ASSUME NEW issuer \in Addresses, NEW subject \in Addresses, NEW scope \in ScopesInUse,
             NEW parent \in Parents, NEW permissionsHash \in Permissions,
             NEW expiresAt \in Expiries,
             IssueAccreditation(issuer, subject, scope, parent, permissionsHash, expiresAt)
      PROVE LookupsMirrorRecords'
  <2> DEFINE id == AccreditationId(issuer, subject, scope, permissionsHash, now)
             r  == NewRecord(issuer, subject, scope, parent, expiresAt)
  <2>1. /\ id \notin Issued
        /\ Issued' = Issued \cup {id}
        /\ accreditations'[id] = r
        /\ \A i \in Issued : accreditations'[i] = accreditations[i]
    BY <1>1, IssueStep
  <2>2. r.subject = subject /\ r.issuer = issuer /\ r.revoked = FALSE
    BY DEF NewRecord
  <2>3. /\ accreditationsBySubject' = [accreditationsBySubject EXCEPT ![subject] = @ \cup {id}]
        /\ accreditationsByIssuer' = [accreditationsByIssuer EXCEPT ![issuer] = @ \cup {id}]
        /\ validAccreditations' = validAccreditations \cup {<<id, subject>>}
    BY <1>1, <2>2 DEF IssueAccreditation, Store
  <2> HIDE DEF id, r
  <2>4. ASSUME NEW a \in Addresses
        PROVE  accreditationsBySubject'[a] = {i \in Issued' : accreditations'[i].subject = a}
    BY <2>1, <2>2, <2>3 DEF TypeOK, LookupsMirrorRecords
  <2>5. ASSUME NEW a \in Addresses
        PROVE  accreditationsByIssuer'[a] = {i \in Issued' : accreditations'[i].issuer = a}
    BY <2>1, <2>2, <2>3 DEF TypeOK, LookupsMirrorRecords
  <2>6. ASSUME NEW i \in Issued', NEW a \in Addresses
        PROVE  <<i, a>> \in validAccreditations'
                 <=> a = accreditations'[i].subject /\ ~accreditations'[i].revoked
    <3>1. CASE i = id
      <4>1. <<i, a>> \notin validAccreditations
        BY <3>1, <2>1 DEF TypeOK
      <4>2. QED
        BY <4>1, <3>1, <2>1, <2>2, <2>3
    <3>2. CASE i # id
      BY <3>2, <2>1, <2>3 DEF LookupsMirrorRecords
    <3>3. QED
      BY <3>1, <3>2
  <2>7. QED
    BY <2>4, <2>5, <2>6 DEF LookupsMirrorRecords
<1>2. ASSUME NEW sender \in Addresses, NEW id \in Issued, RevokeAccreditation(sender, id)
      PROVE LookupsMirrorRecords'
  <2>1. /\ validAccreditations' = validAccreditations \ {<<id, accreditations[id].subject>>}
        /\ accreditationsBySubject' = accreditationsBySubject
        /\ accreditationsByIssuer' = accreditationsByIssuer
    BY <1>2 DEF RevokeAccreditation
  <2>2. /\ Issued' = Issued
        /\ \A i \in Issued : /\ accreditations'[i].subject = accreditations[i].subject
                             /\ accreditations'[i].issuer = accreditations[i].issuer
    BY <1>2, RevokeStep, StepKeepsFields DEF RecordKept
  <2>3. /\ accreditations'[id].revoked
        /\ \A i \in Issued \ {id} : accreditations'[i] = accreditations[i]
    <3>1. accreditations[id] \in Accreditation
      BY DEF TypeOK
    <3>2. [accreditations[id] EXCEPT !.revoked = TRUE].revoked
      BY <3>1 DEF Accreditation
    <3>3. QED
      BY <1>2, <3>2, RevokeStep
  <2>4. \A i \in Issued, a \in Addresses :
          <<i, a>> \in validAccreditations'
            <=> a = accreditations'[i].subject /\ ~accreditations'[i].revoked
    <3> SUFFICES ASSUME NEW i \in Issued, NEW a \in Addresses
                 PROVE  <<i, a>> \in validAccreditations'
                          <=> a = accreditations'[i].subject /\ ~accreditations'[i].revoked
      OBVIOUS
    <3>1. <<i, a>> \in validAccreditations
            <=> a = accreditations[i].subject /\ ~accreditations[i].revoked
      BY DEF LookupsMirrorRecords
    <3>2. CASE i = id
      <4>1. <<i, a>> \notin validAccreditations'
        BY <3>1, <3>2, <2>1
      <4>2. QED
        BY <4>1, <3>2, <2>3
    <3>3. CASE i # id
      BY <3>1, <3>3, <2>1, <2>3
    <3>4. QED
      BY <3>2, <3>3
  <2>5. \A a \in Addresses :
          /\ {i \in Issued' : accreditations'[i].subject = a}
               = {i \in Issued : accreditations[i].subject = a}
          /\ {i \in Issued' : accreditations'[i].issuer = a}
               = {i \in Issued : accreditations[i].issuer = a}
    BY <2>2
  <2>6. QED
    BY <2>1, <2>2, <2>4, <2>5 DEF LookupsMirrorRecords
<1>3. CASE UNCHANGED accreditationVars
  BY <1>3 DEF LookupsMirrorRecords, accreditationVars, Issued
<1>4. QED
  BY <1>1, <1>2, <1>3 DEF Next, Tick, vars

\* The subject and issuer lists and the validity flags never disagree with the
\* records, whatever is issued and revoked.
THEOREM LookupsAlwaysMirror == Spec => []LookupsMirrorRecords
<1>1. Init => LookupsMirrorRecords
  BY DEF Init, LookupsMirrorRecords, Issued
<1>2. QED
  BY <1>1, LookupsStep, TypeCorrect, PTL DEF Spec

-----------------------------------------------------------------------------
(* Trust *)

\* validateTrustChain, which is written scope by scope, obeys one rule: an
\* accreditation is trusted iff it stands and either the owner issued it at the
\* top of the hierarchy or it hangs, issued by the right account, under a
\* trusted accreditation of the scope above.
TrustRule(id) ==
  /\ Standing(id)
  /\ \/ RootIssued(id) /\ accreditations[id].scope \in {"MemberState", "Ministry"}
     \/ /\ accreditations[id].scope \in DOMAIN Superior
        /\ accreditations[id].parent # NoId
        /\ Under(id, Superior[accreditations[id].scope])
        /\ ValidateTrustChain(accreditations[id].parent)

\* The six branches of validateTrustChain, which recurses by scope, come to one rule.
LEMMA TrustUnfolds ==
  ASSUME TypeOK, NEW id \in Issued
  PROVE  ValidateTrustChain(id) <=> TrustRule(id)
<1> DEFINE a == accreditations[id]
<1>1. a.scope \in Scopes
  BY DEF TypeOK, Accreditation
<1>2. NoId \notin Issued
  BY RegistryAssumption DEF TypeOK
<1>3. \A p, s : Under(id, s) => a.parent \in Issued /\ accreditations[a.parent].scope = s
  BY DEF Under
<1>4. CASE a.scope = "MemberState"
  BY <1>4, ScopeTable DEF ValidateTrustChain, TrustRule, MemberStateChain
<1>5. CASE a.scope = "Ministry"
  <2>1. ValidateTrustChain(id) <=> MinistryChain(id)
    BY <1>5 DEF ValidateTrustChain
  <2>2. Under(id, "MemberState")
          => (ValidateTrustChain(a.parent) <=> MemberStateChain(a.parent))
    BY <1>3 DEF ValidateTrustChain
  <2>3. QED
    BY <1>2, <1>5, <2>1, <2>2, ScopeTable DEF TrustRule, MinistryChain, RootIssued, Under
<1>6. CASE a.scope = "Institution"
  <2>1. ValidateTrustChain(id) <=> InstitutionChain(id)
    BY <1>6 DEF ValidateTrustChain
  <2>2. Under(id, "Ministry")
          => (ValidateTrustChain(a.parent) <=> MinistryChain(a.parent))
    BY <1>3 DEF ValidateTrustChain
  <2>3. QED
    BY <1>2, <1>3, <1>6, <2>1, <2>2, ScopeTable DEF TrustRule, InstitutionChain
<1>7. CASE a.scope = "Department"
  <2>1. ValidateTrustChain(id) <=> DepartmentChain(id)
    BY <1>7 DEF ValidateTrustChain
  <2>2. Under(id, "Institution")
          => (ValidateTrustChain(a.parent) <=> InstitutionChain(a.parent))
    BY <1>3 DEF ValidateTrustChain
  <2>3. QED
    BY <1>2, <1>3, <1>7, <2>1, <2>2, ScopeTable DEF TrustRule, DepartmentChain
<1>8. CASE a.scope = "BusinessRegistry"
  <2>1. ValidateTrustChain(id) <=> BusinessRegistryChain(id)
    BY <1>8 DEF ValidateTrustChain
  <2>2. Under(id, "MemberState")
          => (ValidateTrustChain(a.parent) <=> MemberStateChain(a.parent))
    BY <1>3 DEF ValidateTrustChain
  <2>3. QED
    BY <1>2, <1>3, <1>8, <2>1, <2>2, ScopeTable DEF TrustRule, BusinessRegistryChain
<1>9. CASE a.scope = "Enterprise"
  <2>1. ValidateTrustChain(id) <=> EnterpriseChain(id)
    BY <1>9 DEF ValidateTrustChain
  <2>2. Under(id, "BusinessRegistry")
          => (ValidateTrustChain(a.parent) <=> BusinessRegistryChain(a.parent))
    BY <1>3 DEF ValidateTrustChain
  <2>3. QED
    BY <1>2, <1>3, <1>9, <2>1, <2>2, ScopeTable DEF TrustRule, EnterpriseChain
<1>10. QED
  BY <1>1, <1>4, <1>5, <1>6, <1>7, <1>8, <1>9 DEF Scopes

\* The same of the state before and of the state after a step.
TrustRuleHolds == \A id \in Issued : ValidateTrustChain(id) <=> TrustRule(id)

\* The same of the state after a step.
LEMMA TrustUnfoldsAfter == (TypeOK => TrustRuleHolds)'
<1>1. TypeOK => TrustRuleHolds
  BY TrustUnfolds DEF TrustRuleHolds
<1>2. QED
  BY <1>1, PTL

\* Trust flows down only: whatever is trusted stands, and unless the owner issued
\* it at the top of the hierarchy its parent is trusted and held by its issuer.
\* So one revocation or expiry withdraws trust from everything below it.
THEOREM TrustIsInherited ==
  Spec => [](\A id \in Issued :
               ValidateTrustChain(id)
                 => /\ Standing(id)
                    /\ \/ RootIssued(id)
                       \/ /\ accreditations[id].parent \in Issued
                          /\ ValidateTrustChain(accreditations[id].parent)
                          /\ accreditations[accreditations[id].parent].subject
                               = accreditations[id].issuer)
<1>1. TypeOK => \A id \in Issued :
                  ValidateTrustChain(id)
                    => /\ Standing(id)
                       /\ \/ RootIssued(id)
                          \/ /\ accreditations[id].parent \in Issued
                             /\ ValidateTrustChain(accreditations[id].parent)
                             /\ accreditations[accreditations[id].parent].subject
                                  = accreditations[id].issuer
  BY TrustUnfolds DEF TrustRule, Under
<1>2. QED
  BY <1>1, TypeCorrect, PTL

\* The parent of a trusted record is a record or NoId.
LEMMA TrustedParentIsIssued ==
  ASSUME TypeOK, NEW id \in Issued, ValidateTrustChain(id)
  PROVE  accreditations[id].parent \in Issued \cup {NoId}
BY TrustUnfolds DEF TrustRule, Under, RootIssued

\* No step leaves a record whose issuer lacks the parent it was issued under.
LEMMA ParentsStep ==
  TypeOK /\ IssuersHoldTheParent /\ [Next]_vars => IssuersHoldTheParent'
<1> SUFFICES ASSUME TypeOK, IssuersHoldTheParent, [Next]_vars,
                    NEW i \in Issued'
             PROVE  HoldsTheParent(i)'
  BY DEF IssuersHoldTheParent
<1>1. \A j \in Issued : RecordKept(j)
  BY StepKeepsFields
<1>2. Issued \subseteq Issued'
  BY <1>1 DEF RecordKept
<1>3. CASE i \in Issued
  <2>1. HoldsTheParent(i)
    BY <1>3 DEF IssuersHoldTheParent
  <2>2. RecordKept(i)
    BY <1>1, <1>3
  <2>3. accreditations[i].parent \in Issued => RecordKept(accreditations[i].parent)
    BY <1>1
  <2>4. QED
    BY <1>2, <2>1, <2>2, <2>3 DEF HoldsTheParent, RecordKept
<1>4. ASSUME NEW issuer \in Addresses, NEW subject \in Addresses, NEW scope \in ScopesInUse,
             NEW parent \in Parents, NEW permissionsHash \in Permissions,
             NEW expiresAt \in Expiries,
             IssueAccreditation(issuer, subject, scope, parent, permissionsHash, expiresAt),
             i \notin Issued
      PROVE  HoldsTheParent(i)'
  <2>1. accreditations'[i] = NewRecord(issuer, subject, scope, parent, expiresAt)
    BY <1>4, IssueStep
  <2>2. /\ accreditations'[i].issuer = issuer
        /\ accreditations'[i].scope = scope
        /\ accreditations'[i].parent = parent
    BY <2>1 DEF NewRecord
  <2>3. parent \in Issued => accreditations'[parent] = accreditations[parent]
    BY <1>4, IssueStep
  <2>4. ValidateIssuerAuthorization(issuer, scope, parent)
    BY <1>4 DEF IssueAccreditation
  <2>5. CASE scope \in {"MemberState", "Ministry"} /\ issuer = Owner
    BY <2>2, <2>5, ScopeTable DEF HoldsTheParent
  <2>6. CASE /\ scope = "Ministry"
             /\ parent \in Issued
             /\ accreditations[parent].scope = "MemberState"
             /\ accreditations[parent].subject = issuer
    BY <1>2, <2>2, <2>3, <2>6, ScopeTable DEF HoldsTheParent
  <2>7. CASE /\ scope \in DOMAIN ParentScope
             /\ parent \in Issued
             /\ accreditations[parent].scope = ParentScope[scope]
             /\ accreditations[parent].subject = issuer \/ issuer = Owner
             /\ ValidateTrustChain(parent)
    <3>1. accreditations[parent].parent \in Issued \cup {NoId}
      BY <2>7, TrustedParentIsIssued
    <3>2. QED
      BY <1>2, <2>2, <2>3, <2>7, <3>1, ScopeTable DEF HoldsTheParent
  <2>8. QED
    BY <2>4, <2>5, <2>6, <2>7 DEF ValidateIssuerAuthorization
<1>5. ASSUME i \notin Issued
      PROVE  \E issuer, subject \in Addresses, scope \in ScopesInUse, parent \in Parents,
                permissionsHash \in Permissions, expiresAt \in Expiries :
               IssueAccreditation(issuer, subject, scope, parent, permissionsHash, expiresAt)
  <2>1. ASSUME NEW sender \in Addresses, NEW id \in Issued, RevokeAccreditation(sender, id)
        PROVE  FALSE
    BY <1>5, <2>1, RevokeStep
  <2>2. CASE UNCHANGED accreditations
    BY <1>5, <2>2 DEF Issued
  <2>3. QED
    BY <2>1, <2>2 DEF Next, Tick, vars, accreditationVars
<1>6. QED
  BY <1>3, <1>4, <1>5

\* Delegation is never skipped: every account but the owner only ever issues
\* below an accreditation it holds itself.
THEOREM IssuersAlwaysHoldTheParent == Spec => []IssuersHoldTheParent
<1>1. Init => IssuersHoldTheParent
  BY DEF Init, IssuersHoldTheParent, Issued
<1>2. QED
  BY <1>1, ParentsStep, TypeCorrect, PTL DEF Spec

-----------------------------------------------------------------------------
(* Trust never returns *)

\* Time does not run backwards.
LEMMA TimeMovesOn == TypeOK /\ [Next]_vars => now' \in Nat /\ now <= now'
<1> SUFFICES ASSUME TypeOK, [Next]_vars PROVE now' \in Nat /\ now <= now'
  OBVIOUS
<1>1. CASE UNCHANGED now
  BY <1>1 DEF TypeOK
<1>2. CASE Tick
  BY <1>2 DEF TypeOK, Tick
<1>3. QED
  BY <1>1, <1>2 DEF Next, IssueAccreditation, RevokeAccreditation, vars

\* A record that stands after a step stood before it.
LEMMA StandingStep ==
  ASSUME TypeOK, [Next]_vars, NEW id \in Issued, Standing(id)'
  PROVE  Standing(id)
<1>1. RecordKept(id) /\ now' \in Nat /\ now <= now' /\ now \in Nat
  BY StepKeepsFields, TimeMovesOn DEF TypeOK
<1>2. accreditations[id].expiresAt \in Nat
  BY DEF TypeOK, Accreditation
<1>3. QED
  BY <1>1, <1>2 DEF Standing, RecordKept, Lapsed

\* A link to a parent that was already issued held before the step, if it holds after.
LEMMA LinkStep ==
  ASSUME TypeOK, [Next]_vars, NEW id \in Issued, NEW scope,
         accreditations[id].parent \in Issued, Under(id, scope)'
  PROVE  Under(id, scope)
<1>1. RecordKept(id) /\ RecordKept(accreditations[id].parent)
  BY StepKeepsFields
<1>2. QED
  BY <1>1 DEF Under, RecordKept

\* The trust rule looks one parent up; the next lemma climbs it scope by scope.
SettledParent(id) == accreditations[id].parent \in Issued \cup {NoId}

\* One link of the argument that trust does not return: if it did not for the parent, it
\* did not for the record.
LEMMA TrustRuleStep ==
  ASSUME TypeOK, TypeOK', [Next]_vars, NEW id \in Issued, ValidateTrustChain(id)',
         accreditations[id].scope \in DOMAIN Superior
           => /\ SettledParent(id)
              /\ /\ accreditations[id].parent \in Issued
                 /\ accreditations[accreditations[id].parent].scope
                      = Superior[accreditations[id].scope]
                 /\ ValidateTrustChain(accreditations[id].parent)'
                 => ValidateTrustChain(accreditations[id].parent)
  PROVE  ValidateTrustChain(id)
<1> DEFINE parent == accreditations[id].parent
           scope  == accreditations[id].scope
<1>1. RecordKept(id)
  BY StepKeepsFields
<1>2. id \in Issued' /\ TrustRule(id)'
  BY <1>1, TrustUnfoldsAfter DEF RecordKept, TrustRuleHolds
<1>3. Standing(id)
  BY <1>2, StandingStep DEF TrustRule
<1>4. CASE RootIssued(id)' /\ accreditations'[id].scope \in {"MemberState", "Ministry"}
  BY <1>1, <1>3, <1>4, TrustUnfolds DEF RecordKept, RootIssued, TrustRule
<1>5. CASE /\ accreditations'[id].scope \in DOMAIN Superior
           /\ accreditations'[id].parent # NoId
           /\ Under(id, Superior[accreditations[id].scope])'
           /\ ValidateTrustChain(accreditations[id].parent)'
  <2>1. parent \in Issued /\ parent # NoId /\ scope \in DOMAIN Superior
    BY <1>1, <1>5 DEF RecordKept, SettledParent
  <2>2. accreditations'[id].scope = scope /\ accreditations'[id].parent = parent
    BY <1>1 DEF RecordKept
  <2>3. Under(id, Superior[scope])
    BY <1>1, <1>5, <2>1, <2>2, LinkStep
  <2>4. ValidateTrustChain(parent)
    BY <1>5, <2>1, <2>2, <2>3 DEF Under
  <2>5. QED
    BY <1>3, <2>1, <2>3, <2>4, TrustUnfolds DEF TrustRule
<1>6. QED
  BY <1>2, <1>4, <1>5 DEF TrustRule

\* A record that is trusted after a step was trusted before it, from the top scope down.
LEMMA TrustStep ==
  ASSUME TypeOK, TypeOK', IssuersHoldTheParent, [Next]_vars,
         NEW id \in Issued, SettledParent(id), ValidateTrustChain(id)'
  PROVE  ValidateTrustChain(id)
<1>1. \A i \in Issued : accreditations[i].scope \in Scopes
  BY DEF TypeOK, Accreditation
\* Below the ministries every parent is issued, and so is its parent.
<1>2. ASSUME NEW i \in Issued, accreditations[i].scope \in DOMAIN ParentScope
      PROVE  /\ SettledParent(i)
             /\ accreditations[i].parent \in Issued
             /\ SettledParent(accreditations[i].parent)
  BY <1>2 DEF IssuersHoldTheParent, HoldsTheParent, SettledParent
<1>3. ASSUME NEW i \in Issued, accreditations[i].scope = "MemberState",
             ValidateTrustChain(i)'
      PROVE  ValidateTrustChain(i)
  BY <1>3, TrustRuleStep, ScopeTable
<1>4. ASSUME NEW i \in Issued, accreditations[i].scope = "Ministry", SettledParent(i),
             ValidateTrustChain(i)'
      PROVE  ValidateTrustChain(i)
  <2>1. ASSUME accreditations[i].parent \in Issued,
               accreditations[accreditations[i].parent].scope = "MemberState",
               ValidateTrustChain(accreditations[i].parent)'
        PROVE  ValidateTrustChain(accreditations[i].parent)
    <3>1. accreditations'[i].parent = accreditations[i].parent
      BY StepKeepsFields DEF RecordKept
    <3>2. QED
      BY <1>3, <2>1, <3>1
  <2>2. QED
    BY <1>4, <2>1, TrustRuleStep, ScopeTable
<1>5. ASSUME NEW i \in Issued, accreditations[i].scope = "BusinessRegistry",
             ValidateTrustChain(i)'
      PROVE  ValidateTrustChain(i)
  <2>1. ASSUME accreditations[accreditations[i].parent].scope = "MemberState",
               ValidateTrustChain(accreditations[i].parent)'
        PROVE  ValidateTrustChain(accreditations[i].parent)
    <3>1. accreditations'[i].parent = accreditations[i].parent
      BY StepKeepsFields DEF RecordKept
    <3>2. QED
      BY <1>2, <1>3, <1>5, <2>1, <3>1, ScopeTable
  <2>2. QED
    BY <1>2, <1>5, <2>1, TrustRuleStep, ScopeTable
<1>6. ASSUME NEW i \in Issued, accreditations[i].scope = "Institution",
             ValidateTrustChain(i)'
      PROVE  ValidateTrustChain(i)
  <2>1. ASSUME accreditations[accreditations[i].parent].scope = "Ministry",
               ValidateTrustChain(accreditations[i].parent)'
        PROVE  ValidateTrustChain(accreditations[i].parent)
    <3>1. accreditations'[i].parent = accreditations[i].parent
      BY StepKeepsFields DEF RecordKept
    <3>2. QED
      BY <1>2, <1>4, <1>6, <2>1, <3>1, ScopeTable
  <2>2. QED
    BY <1>2, <1>6, <2>1, TrustRuleStep, ScopeTable
<1>7. ASSUME NEW i \in Issued, accreditations[i].scope = "Department",
             ValidateTrustChain(i)'
      PROVE  ValidateTrustChain(i)
  <2>1. ASSUME accreditations[accreditations[i].parent].scope = "Institution",
               ValidateTrustChain(accreditations[i].parent)'
        PROVE  ValidateTrustChain(accreditations[i].parent)
    <3>1. accreditations'[i].parent = accreditations[i].parent
      BY StepKeepsFields DEF RecordKept
    <3>2. QED
      BY <1>2, <1>6, <1>7, <2>1, <3>1, ScopeTable
  <2>2. QED
    BY <1>2, <1>7, <2>1, TrustRuleStep, ScopeTable
<1>8. ASSUME NEW i \in Issued, accreditations[i].scope = "Enterprise",
             ValidateTrustChain(i)'
      PROVE  ValidateTrustChain(i)
  <2>1. ASSUME accreditations[accreditations[i].parent].scope = "BusinessRegistry",
               ValidateTrustChain(accreditations[i].parent)'
        PROVE  ValidateTrustChain(accreditations[i].parent)
    <3>1. accreditations'[i].parent = accreditations[i].parent
      BY StepKeepsFields DEF RecordKept
    <3>2. QED
      BY <1>2, <1>5, <1>8, <2>1, <3>1, ScopeTable
  <2>2. QED
    BY <1>2, <1>8, <2>1, TrustRuleStep, ScopeTable
<1>9. QED
  BY <1>1, <1>3, <1>4, <1>5, <1>6, <1>7, <1>8 DEF Scopes

\* An accreditation whose parent is in place and that is not trusted now never
\* becomes trusted: neither a new accreditation, nor a revocation, nor the passing
\* of time gives trust back.
THEOREM TrustNeverReturnsAlways == Spec => TrustNeverReturns
<1>1. TypeOK /\ TypeOK' /\ IssuersHoldTheParent /\ [Next]_vars
        => [\A id \in Issued :
              accreditations[id].parent \in Issued \cup {NoId} /\ ~ValidateTrustChain(id)
                => ~ValidateTrustChain(id)']_vars
  BY TrustStep DEF SettledParent
<1>2. QED
  BY <1>1, TypeCorrect, IssuersAlwaysHoldTheParent, PTL DEF Spec, TrustNeverReturns

-----------------------------------------------------------------------------
(* The listing of a trust chain *)

\* The walk of _getChainLength, which is defined by recursion on its length, is what it says:
\* each record is the parent of the one before.
LEMMA WalkUnfolds ==
  ASSUME NEW id
  PROVE  Walk(id) = [n \in 1 .. ChainLimit |-> IF n = 1 THEN id ELSE ParentOf(Walk(id)[n - 1])]
<1> DEFINE Up(w) == [n \in 1 .. ChainLimit |-> IF n = 1 THEN id ELSE ParentOf(w[n - 1])]
           p2 == ParentOf(id)  p3 == ParentOf(p2)  p4 == ParentOf(p3)  p5 == ParentOf(p4)
           p6 == ParentOf(p5)  p7 == ParentOf(p6)  p8 == ParentOf(p7)  p9 == ParentOf(p8)
           p10 == ParentOf(p9)  p11 == ParentOf(p10)
           p(n) == CASE n = 1 -> id [] n = 2 -> p2 [] n = 3 -> p3 [] n = 4 -> p4
                     [] n = 5 -> p5 [] n = 6 -> p6 [] n = 7 -> p7 [] n = 8 -> p8
                     [] n = 9 -> p9 [] n = 10 -> p10 [] n = 11 -> p11
           w == [n \in 1 .. ChainLimit |-> p(n)]
<1>1. ASSUME NEW n \in 1 .. ChainLimit
      PROVE  p(n) = IF n = 1 THEN id ELSE ParentOf(p(n - 1))
  <2>1. n \in {1, 2, 3, 4, 5, 6, 7, 8, 9, 10, 11}
    BY DEF ChainLimit
  <2> HIDE DEF p2, p3, p4, p5, p6, p7, p8, p9, p10, p11
  <2>2. /\ p3 = ParentOf(p2) /\ p4 = ParentOf(p3) /\ p5 = ParentOf(p4) /\ p6 = ParentOf(p5)
        /\ p7 = ParentOf(p6) /\ p8 = ParentOf(p7) /\ p9 = ParentOf(p8) /\ p10 = ParentOf(p9)
        /\ p11 = ParentOf(p10) /\ p2 = ParentOf(id)
    BY DEF p2, p3, p4, p5, p6, p7, p8, p9, p10, p11
  <2> QED
    BY <2>1, <2>2 DEF ChainLimit
<1> HIDE DEF p
<1>2. \A n \in 1 .. ChainLimit : w[n] = IF n = 1 THEN id ELSE ParentOf(w[n - 1])
  BY <1>1 DEF ChainLimit
<1>3. w = Up(w)
  BY <1>2
<1>4. Walk(id) = CHOOSE u : u = Up(u)
  BY DEF Walk
<1> HIDE DEF Up
<1>5. Walk(id) = Up(Walk(id))
  BY <1>3, <1>4
<1> QED
  BY <1>5 DEF Up

\* The walk goes on to the parent of an issued record, and no further than NoId.
LEMMA WalkGoesUp ==
  ASSUME TypeOK, NEW id \in Issued
  PROVE  /\ Walk(id)[1] = id
         /\ \A n \in 1 .. 10 : /\ Walk(id)[n + 1] = ParentOf(Walk(id)[n])
                               /\ Walk(id)[n] \in Issued
                                    => Walk(id)[n + 1] = accreditations[Walk(id)[n]].parent
                               /\ Walk(id)[n] = NoId => Walk(id)[n + 1] = NoId
<1> DEFINE w == Walk(id)
<1>1. w = [n \in 1 .. ChainLimit |-> IF n = 1 THEN id ELSE ParentOf(w[n - 1])]
  BY WalkUnfolds
<1> HIDE DEF w
<1>2. w[1] = id
  BY <1>1 DEF ChainLimit
<1>3. ASSUME NEW n \in 1 .. 10 PROVE w[n + 1] = ParentOf(w[n])
  <2>1. n + 1 \in 1 .. ChainLimit /\ n + 1 # 1 /\ (n + 1) - 1 = n
    BY DEF ChainLimit
  <2> QED
    BY <1>1, <2>1
<1>4. NoId \notin Issued
  BY RegistryAssumption DEF TypeOK
<1>5. ParentOf(NoId) = NoId
  BY <1>4 DEF ParentOf
<1>6. \A i \in Issued : ParentOf(i) = accreditations[i].parent
  BY DEF ParentOf
<1> QED
  BY <1>2, <1>3, <1>5, <1>6 DEF w

\* A walk that has k records, at most four, is listed by getTrustChain from the top down.
LEMMA ListingOfWalk ==
  ASSUME TypeOK, NEW id \in Issued, NEW k \in 1 .. 4,
         \A n \in 1 .. k : Walk(id)[n] \in Issued, Walk(id)[k + 1] = NoId
  PROVE  /\ ChainLength(id) = k
         /\ GetTrustChain(id) = [i \in 1 .. k |-> Walk(id)[k - i + 1]]
<1> DEFINE w == Walk(id)
           S == {n \in 1 .. ChainLimit : w[n] # NoId}
<1>1. NoId \notin Issued
  BY RegistryAssumption DEF TypeOK
<1>2. \A n \in 1 .. 10 : w[n] = NoId => w[n + 1] = NoId
  BY WalkGoesUp
<1>3. \A n \in 1 .. k : w[n] # NoId
  BY <1>1
<1>4. w[k + 1] = NoId
  OBVIOUS
<1> HIDE DEF w
<1>5. \A n \in 1 .. ChainLimit : n > k => w[n] = NoId
  <2>1. k \in {1, 2, 3, 4}
    OBVIOUS
  <2>2. /\ w[2] = NoId => w[3] = NoId
        /\ w[3] = NoId => w[4] = NoId
        /\ w[4] = NoId => w[5] = NoId
    BY <1>2
  <2>3. w[5] = NoId
    BY <1>4, <2>1, <2>2
  <2>4. w[6] = NoId
    BY <1>2, <2>3
  <2>5. w[7] = NoId
    BY <1>2, <2>4
  <2>6. w[8] = NoId
    BY <1>2, <2>5
  <2>7. w[9] = NoId
    BY <1>2, <2>6
  <2>8. w[10] = NoId
    BY <1>2, <2>7
  <2>9. w[11] = NoId
    BY <1>2, <2>8
  <2>10. ASSUME NEW n \in 1 .. ChainLimit, n > k PROVE w[n] = NoId
    <3>1. n \in {2, 3, 4, 5, 6, 7, 8, 9, 10, 11}
      BY <2>10 DEF ChainLimit
    <3>2. CASE n \in {2, 3, 4}
      BY <1>4, <2>1, <2>2, <2>10, <3>2
    <3> QED
      BY <2>3, <2>4, <2>5, <2>6, <2>7, <2>8, <2>9, <3>1, <3>2
  <2> QED
    BY <2>10
<1>6. S = 1 .. k
  BY <1>3, <1>5 DEF ChainLimit
<1>7. Cardinality(1 .. k) = k
  <2>1. 1 \in Int /\ k \in Int
    OBVIOUS
  <2>2. Cardinality(1 .. k) = IF 1 > k THEN 0 ELSE k - 1 + 1
    BY <2>1, FS_Interval
  <2> QED
    BY <2>2
<1>8. ChainLength(id) = k
  BY <1>6, <1>7 DEF ChainLength, w
<1> QED
  BY <1>8 DEF GetTrustChain, w

\* The link of a certificate: c is issued by the subject of p, one scope down.
Linked(c, p) ==
  /\ accreditations[c].parent = p
  /\ accreditations[c].scope \in DOMAIN Superior
  /\ accreditations[p].scope = Superior[accreditations[c].scope]
  /\ accreditations[p].subject = accreditations[c].issuer

\* The walk from its m-th record to its k-th, read upwards, is a certificate.
Climbs(w, m, k) ==
  /\ \A n \in m .. k : Standing(w[n])
  /\ RootIssued(w[k]) /\ accreditations[w[k]].scope \in {"MemberState", "Ministry"}
  /\ \A n \in m .. k : n < k => Linked(w[n], w[n + 1])

\* A trusted record is at the top, or its parent is trusted and linked to it.
LEMMA TrustClimbs ==
  ASSUME TypeOK, NEW id \in Issued, ValidateTrustChain(id)
  PROVE  /\ Standing(id)
         /\ \/ RootIssued(id) /\ accreditations[id].scope \in {"MemberState", "Ministry"}
            \/ /\ accreditations[id].parent \in Issued
               /\ Linked(id, accreditations[id].parent)
               /\ ValidateTrustChain(accreditations[id].parent)
<1>1. TrustRule(id)
  BY TrustUnfolds
<1> QED
  BY <1>1 DEF TrustRule, Under, Linked

\* One step further down.
LEMMA ClimbsFurther ==
  ASSUME NEW w, NEW m \in Nat, NEW k \in Nat, m < k, Climbs(w, m + 1, k),
         Standing(w[m]), Linked(w[m], w[m + 1])
  PROVE  Climbs(w, m, k)
<1>1. \A n \in m .. k : n = m \/ n \in m + 1 .. k
  OBVIOUS
<1> QED
  BY <1>1 DEF Climbs

\* There are four scopes on the way up, so that the walk from a trusted record is done
\* after four records at most.
LEMMA TrustedWalkEnds ==
  ASSUME TypeOK, NEW id \in Issued, ValidateTrustChain(id)
  PROVE  \E k \in 1 .. 4 : Climbs(Walk(id), 1, k)
<1> DEFINE w == Walk(id)
           At(n) == w[n] \in Issued /\ ValidateTrustChain(w[n])
           Scope(n) == accreditations[w[n]].scope
<1>1. w[1] = id /\ \A n \in 1 .. 10 : w[n] \in Issued => w[n + 1] = accreditations[w[n]].parent
  BY WalkGoesUp
<1>2. At(1)
  BY <1>1
<1> HIDE DEF w
<1>3. ASSUME NEW n \in 1 .. 4, At(n)
      PROVE  /\ Standing(w[n])
             /\ \/ RootIssued(w[n]) /\ Scope(n) \in {"MemberState", "Ministry"}
                \/ Linked(w[n], w[n + 1]) /\ At(n + 1)
  BY <1>1, <1>3, TrustClimbs
<1>4. ASSUME NEW n \in 1 .. 4, Standing(w[n]), RootIssued(w[n]),
             Scope(n) \in {"MemberState", "Ministry"}
      PROVE  Climbs(w, n, n)
  <2>1. \A j \in n .. n : j = n
    OBVIOUS
  <2> QED
    BY <1>4, <2>1 DEF Climbs
<1>5. ASSUME NEW n \in 1 .. 4, NEW k \in 1 .. 4, n < k, Climbs(w, n + 1, k),
             Standing(w[n]), Linked(w[n], w[n + 1])
      PROVE  Climbs(w, n, k)
  BY <1>5, ClimbsFurther
<1>6. \A n \in 1 .. 4 : At(n) => Scope(n) \in Scopes
  BY DEF TypeOK, Accreditation
<1>7. ASSUME NEW n \in 1 .. 4, At(n), Scope(n) = "MemberState" PROVE Climbs(w, n, n)
  <2>1. ~Linked(w[n], w[n + 1])
    BY <1>7, ScopeTable DEF Linked
  <2> QED
    BY <1>3, <1>4, <1>7, <2>1
<1>8. ASSUME NEW n \in 1 .. 3, At(n), Scope(n) \in {"Ministry", "BusinessRegistry"}
      PROVE  Climbs(w, n, n) \/ Climbs(w, n, n + 1)
  <2>1. CASE RootIssued(w[n]) /\ Scope(n) \in {"MemberState", "Ministry"}
    BY <1>3, <1>4, <1>8, <2>1
  <2>2. CASE Linked(w[n], w[n + 1]) /\ At(n + 1)
    <3>1. Scope(n + 1) = "MemberState"
      BY <1>8, <2>2, ScopeTable DEF Linked
    <3>2. n + 1 \in 1 .. 4 /\ n < n + 1
      OBVIOUS
    <3>3. Climbs(w, n + 1, n + 1)
      BY <1>7, <2>2, <3>1, <3>2
    <3> QED
      BY <1>3, <1>5, <1>8, <2>2, <3>2, <3>3
  <2> QED
    BY <1>3, <1>8, <2>1, <2>2
<1>9. ASSUME NEW n \in 1 .. 2, At(n), Scope(n) \in {"Institution", "Enterprise"}
      PROVE  \E k \in 1 .. 4 : k <= n + 2 /\ Climbs(w, n, k)
  <2>1. Linked(w[n], w[n + 1]) /\ At(n + 1)
    BY <1>3, <1>9
  <2>2. Scope(n + 1) \in {"Ministry", "BusinessRegistry"}
    BY <1>9, <2>1, ScopeTable DEF Linked
  <2>3. n + 1 \in 1 .. 3 /\ n + 1 \in 1 .. 4 /\ n + 2 \in 1 .. 4 /\ (n + 1) + 1 = n + 2
    OBVIOUS
  <2>4. PICK k \in {n + 1, n + 2} : Climbs(w, n + 1, k)
    BY <1>8, <2>1, <2>2, <2>3
  <2>5. k \in 1 .. 4 /\ n < k /\ k <= n + 2
    BY <2>3
  <2> QED
    BY <1>3, <1>5, <1>9, <2>1, <2>4, <2>5
<1>10. ASSUME Scope(1) = "Department"
       PROVE  \E k \in 1 .. 4 : Climbs(w, 1, k)
  <2>1. Linked(w[1], w[1 + 1]) /\ At(1 + 1) /\ Standing(w[1])
    BY <1>2, <1>3, <1>10
  <2>2. Scope(1 + 1) = "Institution"
    BY <1>10, <2>1, ScopeTable DEF Linked
  <2>3. 1 + 1 \in 1 .. 2
    OBVIOUS
  <2>4. PICK k \in 1 .. 4 : Climbs(w, 1 + 1, k)
    BY <1>9, <2>1, <2>2, <2>3
  <2>5. CASE k > 1
    BY <1>5, <2>1, <2>4, <2>5
  <2>6. CASE k = 1
    \* Then the root is the department itself, which is no root.
    BY <1>10, <2>4, <2>6 DEF Climbs
  <2> QED
    BY <2>5, <2>6
<1>11. CASE Scope(1) = "MemberState"
  BY <1>2, <1>7, <1>11 DEF w
<1>12. CASE Scope(1) \in {"Ministry", "BusinessRegistry"}
  <2>1. Climbs(w, 1, 1) \/ Climbs(w, 1, 1 + 1)
    BY <1>2, <1>8, <1>12
  <2>2. 1 \in 1 .. 4 /\ 1 + 1 \in 1 .. 4
    OBVIOUS
  <2> QED
    BY <2>1, <2>2 DEF w
<1>13. CASE Scope(1) \in {"Institution", "Enterprise"}
  BY <1>2, <1>9, <1>13 DEF w
<1>14. Scope(1) \in Scopes
  BY <1>2, <1>6
<1> QED
  BY <1>10, <1>11, <1>12, <1>13, <1>14 DEF w, Scopes

\* What getTrustChain lists of such a walk is a certificate.
LEMMA ClimbIsListed ==
  ASSUME TypeOK, NEW id \in Issued, NEW k \in 1 .. 4, Climbs(Walk(id), 1, k)
  PROVE  Certifies(GetTrustChain(id), id)
<1> DEFINE w == Walk(id)
           chain == [i \in 1 .. k |-> w[k - i + 1]]
<1>1. /\ w[1] = id
      /\ \A n \in 1 .. 10 : w[n] \in Issued => w[n + 1] = accreditations[w[n]].parent
  BY WalkGoesUp
<1>2. /\ \A n \in 1 .. k : Standing(w[n])
      /\ RootIssued(w[k]) /\ accreditations[w[k]].scope \in {"MemberState", "Ministry"}
      /\ \A n \in 1 .. k : n < k => Linked(w[n], w[n + 1])
  BY DEF Climbs
<1>3. \A n \in 1 .. k : w[n] \in Issued
  BY <1>2 DEF Standing
<1>4. w[k + 1] = NoId
  BY <1>1, <1>2, <1>3 DEF RootIssued
<1>5. GetTrustChain(id) = chain
  BY <1>3, <1>4, ListingOfWalk
<1> HIDE DEF w
<1>6. /\ DOMAIN chain = 1 .. k
      /\ \A i \in 1 .. k : chain[i] = w[k - i + 1]
  OBVIOUS
<1>7. Len(chain) = k
  <2>1. chain \in [1 .. k -> Issued]
    <3>1. \A i \in 1 .. k : k - i + 1 \in 1 .. k
      OBVIOUS
    <3> QED
      BY <1>3, <3>1
  <2>2. chain \in Seq(Issued) /\ k \in Nat
    BY <2>1
  <2> HIDE DEF chain
  <2> QED
    BY <1>6, <2>2
<1> HIDE DEF chain
<1>8. chain # <<>> /\ chain[Len(chain)] = id
  <2>1. chain[k] = w[k - k + 1] /\ k - k + 1 = 1
    BY <1>6
  <2> QED
    BY <1>1, <1>6, <1>7, <2>1
<1>9. \A i \in DOMAIN chain : Standing(chain[i])
  <2>1. \A i \in 1 .. k : k - i + 1 \in 1 .. k
    OBVIOUS
  <2> QED
    BY <1>2, <1>6, <2>1
<1>10. RootIssued(chain[1]) /\ accreditations[chain[1]].scope \in {"MemberState", "Ministry"}
  <2>1. chain[1] = w[k - 1 + 1] /\ k - 1 + 1 = k
    BY <1>6
  <2> QED
    BY <1>2, <2>1
<1>11. ASSUME NEW i \in DOMAIN chain \ {1} PROVE Linked(chain[i], chain[i - 1])
  <2>1. i \in 1 .. k /\ i - 1 \in 1 .. k
    BY <1>6, <1>11
  <2>2. /\ k - i + 1 \in 1 .. k /\ k - i + 1 < k
        /\ k - (i - 1) + 1 = (k - i + 1) + 1
    BY <1>6, <1>11
  <2>3. chain[i] = w[k - i + 1] /\ chain[i - 1] = w[(k - i + 1) + 1]
    BY <1>6, <2>1, <2>2
  <2> QED
    BY <1>2, <2>2, <2>3
<1>12. Certifies(chain, id)
  BY <1>8, <1>9, <1>10, <1>11 DEF Certifies, Linked
<1> QED
  BY <1>5, <1>12

\* A certificate, wherever it is from, is proof of trust.
LEMMA CertificatesAreSound ==
  ASSUME TypeOK, NEW id \in Issued, NEW S, NEW chain \in Seq(S), Certifies(chain, id)
  PROVE  ValidateTrustChain(id)
<1> DEFINE k == Len(chain)
           Scope(i) == accreditations[chain[i]].scope
<1>0. k \in Nat /\ DOMAIN chain = 1 .. k
  OBVIOUS
<1> HIDE DEF k
<1>1. /\ \A i \in 1 .. k : Standing(chain[i])
      /\ RootIssued(chain[1]) /\ Scope(1) \in {"MemberState", "Ministry"}
      /\ \A i \in 2 .. k : Linked(chain[i], chain[i - 1])
  <2>1. /\ \A i \in DOMAIN chain : Standing(chain[i])
        /\ RootIssued(chain[1]) /\ Scope(1) \in {"MemberState", "Ministry"}
        /\ \A i \in DOMAIN chain \ {1} : Linked(chain[i], chain[i - 1])
    BY DEF Certifies, Linked
  <2>2. \A i \in 2 .. k : i \in DOMAIN chain \ {1}
    BY <1>0
  <2> QED
    BY <1>0, <2>1, <2>2
<1>2. \A i \in 1 .. k : chain[i] \in Issued
  BY <1>1 DEF Standing
<1>3. \A i \in 1 .. k : Scope(i) \in Scopes
  BY <1>2 DEF TypeOK, Accreditation
<1>4. 1 \in 1 .. k => ValidateTrustChain(chain[1])
  <2> HAVE 1 \in 1 .. k
  <2>1. TrustRule(chain[1])
    BY <1>1 DEF TrustRule
  <2> QED
    BY <1>2, <2>1, TrustUnfolds
<1>5. ASSUME NEW i \in 2 .. k, ValidateTrustChain(chain[i - 1])
      PROVE  ValidateTrustChain(chain[i])
  <2>1. i \in 1 .. k /\ i - 1 \in 1 .. k
    BY <1>0
  <2>2. /\ Standing(chain[i]) /\ Linked(chain[i], chain[i - 1])
        /\ chain[i - 1] \in Issued /\ ~accreditations[chain[i - 1]].revoked
    BY <1>1, <1>2, <2>1 DEF Standing
  <2>3. chain[i - 1] # NoId
    BY <2>2, RegistryAssumption DEF TypeOK
  <2>4. TrustRule(chain[i])
    BY <1>5, <2>2, <2>3 DEF TrustRule, Under, Linked
  <2> QED
    BY <1>2, <2>1, <2>4, TrustUnfolds
<1>6. ASSUME NEW i \in 1 .. k, Scope(i) = "MemberState" PROVE ValidateTrustChain(chain[i])
  <2>1. ~(i \in 2 .. k)
    BY <1>1, <1>6, ScopeTable DEF Linked
  <2>2. i = 1
    BY <1>0, <2>1
  <2> QED
    BY <1>4, <2>2
<1>7. ASSUME NEW i \in 1 .. k, Scope(i) \in {"Ministry", "BusinessRegistry"}
      PROVE  ValidateTrustChain(chain[i])
  <2>1. CASE i = 1
    BY <1>4, <2>1
  <2>2. CASE i # 1
    <3>1. i \in 2 .. k /\ i - 1 \in 1 .. k
      BY <1>0, <2>2
    <3>2. Scope(i - 1) = "MemberState"
      BY <1>1, <1>7, <3>1, ScopeTable DEF Linked
    <3> QED
      BY <1>5, <1>6, <3>1, <3>2
  <2> QED
    BY <2>1, <2>2
<1>8. ASSUME NEW i \in 1 .. k, Scope(i) \in {"Institution", "Enterprise"}
      PROVE  ValidateTrustChain(chain[i])
  <2>1. CASE i = 1
    BY <1>4, <2>1
  <2>2. CASE i # 1
    <3>1. i \in 2 .. k /\ i - 1 \in 1 .. k
      BY <1>0, <2>2
    <3>2. Scope(i - 1) \in {"Ministry", "BusinessRegistry"}
      BY <1>1, <1>8, <3>1, ScopeTable DEF Linked
    <3> QED
      BY <1>5, <1>7, <3>1, <3>2
  <2> QED
    BY <2>1, <2>2
<1>9. ASSUME NEW i \in 1 .. k, Scope(i) = "Department" PROVE ValidateTrustChain(chain[i])
  <2>1. CASE i = 1
    BY <1>4, <2>1
  <2>2. CASE i # 1
    <3>1. i \in 2 .. k /\ i - 1 \in 1 .. k
      BY <1>0, <2>2
    <3>2. Scope(i - 1) = "Institution"
      BY <1>1, <1>9, <3>1, ScopeTable DEF Linked
    <3> QED
      BY <1>5, <1>8, <3>1, <3>2
  <2> QED
    BY <2>1, <2>2
<1>10. chain[k] = id /\ k \in 1 .. k
  <2>1. chain # <<>> /\ chain[k] = id
    BY DEF Certifies, k
  <2>2. k # 0
    BY <2>1 DEF k
  <2> QED
    BY <1>0, <2>1, <2>2
<1> QED
  BY <1>3, <1>6, <1>7, <1>8, <1>9, <1>10 DEF Scopes

\* The list is a sequence, whatever the records say.
LEMMA ListingIsASequence ==
  ASSUME NEW id
  PROVE  \E S : GetTrustChain(id) \in Seq(S)
<1> DEFINE L == ChainLength(id)
           chain == [i \in 1 .. L |-> Walk(id)[L - i + 1]]
           S == {Walk(id)[L - i + 1] : i \in 1 .. L}
<1>1. L \in Nat
  <2> DEFINE T == {n \in 1 .. ChainLimit : Walk(id)[n] # NoId}
  <2>1. IsFiniteSet(1 .. ChainLimit) /\ T \subseteq 1 .. ChainLimit
    <3>1. 1 \in Int /\ ChainLimit \in Int
      BY DEF ChainLimit
    <3>2. IsFiniteSet(1 .. ChainLimit)
      BY <3>1, FS_Interval
    <3> QED
      BY <3>2
  <2>2. IsFiniteSet(T)
    BY <2>1, FS_Subset
  <2>3. Cardinality(T) \in Nat
    BY <2>2, FS_CardinalityType
  <2> QED
    BY <2>3 DEF ChainLength
<1>2. chain \in Seq(S)
  <2>1. chain \in [1 .. L -> S]
    OBVIOUS
  <2> HIDE DEF chain, S, L
  <2> QED
    BY <1>1, <2>1
<1>3. GetTrustChain(id) = chain
  BY DEF GetTrustChain
<1> QED
  BY <1>2, <1>3

(* What validateTrustChain accepts scope by scope, and what getTrustChain  *)
(* lists by following parents, however the records point at one another,   *)
(* say the same: an accreditation is trusted just when the list is a chain *)
(* of standing records from the owner down to it.                          *)
THEOREM TrustAlwaysMatchesListing == Spec => []TrustMatchesListing
<1>1. ASSUME TypeOK PROVE TrustMatchesListing
  <2>1. ASSUME NEW id \in Issued, ValidateTrustChain(id)
        PROVE  Certifies(GetTrustChain(id), id)
    BY <1>1, <2>1, TrustedWalkEnds, ClimbIsListed
  <2>2. ASSUME NEW id \in Issued, Certifies(GetTrustChain(id), id)
        PROVE  ValidateTrustChain(id)
    BY <1>1, <2>2, ListingIsASequence, CertificatesAreSound
  <2> QED
    BY <2>1, <2>2 DEF TrustMatchesListing
<1> QED
  BY <1>1, TypeCorrect, PTL

(* hasValidAccreditation finds, through the list it keeps by subject, just *)
(* the accreditations that validateTrustChain trusts, but for those in the *)
(* second they expire in.                                                  *)
THEOREM LookupAlwaysAgrees == Spec => []LookupAgreesExceptAtExpiry
<1>1. ASSUME TypeOK, LookupsMirrorRecords PROVE LookupAgreesExceptAtExpiry
  <2>1. \A a \in Addresses :
          accreditationsBySubject[a] = {id \in Issued : accreditations[id].subject = a}
    BY <1>1 DEF LookupsMirrorRecords
  <2>2. ASSUME NEW id \in Issued, ValidateTrustChain(id)
        PROVE  /\ ~accreditations[id].revoked
               /\ accreditations[id].expiresAt # now
                    <=> \/ accreditations[id].expiresAt = 0
                        \/ accreditations[id].expiresAt > now
    <3>1. Standing(id)
      BY <1>1, <2>2, TrustUnfolds DEF TrustRule
    <3>2. accreditations[id].expiresAt \in Nat /\ now \in Nat \ {0}
      BY <1>1, RegistryAssumption DEF TypeOK, Accreditation
    <3> QED
      BY <3>1, <3>2 DEF Standing, Lapsed
  <2> QED
    BY <2>1, <2>2 DEF LookupAgreesExceptAtExpiry, HasValidAccreditation
<1> QED
  BY <1>1, TypeCorrect, LookupsAlwaysMirror, PTL

-----------------------------------------------------------------------------
(* The accreditation registry is undisturbed *)

\* A step of the two contracts is, for the accreditation registry, a step or a stutter.
LEMMA CredStepIsStep == [CredNext]_allVars => [Next]_vars
BY DEF CredNext, allVars, RecordCredential, RevokeCredential, SuspendCredential,
       ReactivateCredential, SetStatus

\* The two contracts together do nothing to the accreditation registry that it
\* would not do alone, so every theorem about it holds of the two.
THEOREM ImplementsAccreditationRegistry == CredSpec => Spec
<1>1. CredInit => Init
  BY DEF CredInit
<1>2. QED
  BY <1>1, CredStepIsStep, PTL DEF CredSpec, Spec

-----------------------------------------------------------------------------
(* Type correctness *)

\* The two contracts start well typed.
LEMMA CredInitTypeOK == CredInit => CredTypeOK
BY InitTypeOK DEF CredInit, CredTypeOK, Recorded

\* What recordCredential does to the records, in one place.
LEMMA RecordStep ==
  ASSUME CredTypeOK,
         NEW issuer \in Addresses, NEW holder \in Holders, NEW document \in Documents,
         NEW accreditationId \in Issued, NEW expiresAt \in Expiries,
         RecordCredential(issuer, holder, document, accreditationId, expiresAt)
  PROVE  LET id == CredentialId(issuer, holder, document, now)
             r  == NewCredential(issuer, holder, accreditationId, expiresAt) IN
         /\ id \in Tracked
         /\ id \in CredentialIds
         /\ id \notin Recorded
         /\ r \in Credential
         /\ Recorded' = Recorded \cup {id}
         /\ credentials'[id] = r
         /\ \A i \in Recorded : credentials'[i] = credentials[i]
         /\ credentials' \in [Recorded' -> Credential]
<1> DEFINE id == CredentialId(issuer, holder, document, now)
           r  == NewCredential(issuer, holder, accreditationId, expiresAt)
<1>1. now \in 1 .. MaxTime /\ now \in Nat /\ expiresAt \in Nat /\ accreditationId \in Ids
  BY RegistryAssumption DEF CredTypeOK, TypeOK
<1>2. id \in Tracked /\ id \in CredentialIds
  BY <1>1 DEF CredentialId, Tracked, CredentialIds
<1>3. r \in Credential
  BY <1>1 DEF NewCredential, Credential, Statuses
<1>4. id \notin Recorded /\ StoreCredential(id, r)
  BY DEF RecordCredential
<1>5. credentials' = [i \in Recorded \cup {id} |-> IF i = id THEN r ELSE credentials[i]]
  BY <1>4 DEF StoreCredential
<1> HIDE DEF id, r
<1>6. Recorded' = Recorded \cup {id}
  BY <1>5 DEF Recorded
<1>7. /\ credentials'[id] = r
      /\ \A i \in Recorded : credentials'[i] = credentials[i]
  BY <1>4, <1>5
<1>8. credentials' \in [Recorded' -> Credential]
  BY <1>3, <1>5, <1>6 DEF CredTypeOK
<1>9. QED
  BY <1>2, <1>3, <1>4, <1>6, <1>7, <1>8 DEF id, r

\* What revoking, suspending and reactivating do to the records.
LEMMA SetStatusStep ==
  ASSUME CredTypeOK, NEW id \in Recorded, NEW status \in Statuses, SetStatus(id, status)
  PROVE  /\ Recorded' = Recorded
         /\ credentials' \in [Recorded -> Credential]
         /\ credentials'[id].status = status
         /\ credentials'[id].issuer = credentials[id].issuer
         /\ credentials'[id].expiresAt = credentials[id].expiresAt
         /\ credentials'[id].issuerAccreditationId = credentials[id].issuerAccreditationId
         /\ \A i \in Recorded \ {id} : credentials'[i] = credentials[i]
<1>1. credentials' = [credentials EXCEPT ![id].status = status]
  BY DEF SetStatus
<1>2. credentials[id] \in Credential
  BY DEF CredTypeOK
<1>3. [credentials[id] EXCEPT !.status = status] \in Credential
  BY <1>2 DEF Credential
<1>4. QED
  BY <1>1, <1>2, <1>3 DEF CredTypeOK, Recorded, Credential

\* The three status changes are SetStatus steps.
LEMMA StatusSteps ==
  ASSUME NEW sender, NEW id,
         \/ RevokeCredential(sender, id)
         \/ SuspendCredential(sender, id)
         \/ ReactivateCredential(sender, id)
  PROVE  \E status \in Statuses :
           /\ SetStatus(id, status)
           /\ credentials[id].status # "Revoked"
           /\ status = "Active" => credentials[id].status = "Suspended"
BY DEF RevokeCredential, SuspendCredential, ReactivateCredential, Statuses

\* Every transaction of the two contracts keeps the types.
LEMMA CredNextTypeOK == CredTypeOK /\ [CredNext]_allVars => CredTypeOK'
<1> SUFFICES ASSUME CredTypeOK, [CredNext]_allVars PROVE CredTypeOK'
  OBVIOUS
<1>1. TypeOK'
  BY CredStepIsStep, NextTypeOK DEF CredTypeOK
<1>2. ASSUME NEW issuer \in Addresses, NEW holder \in Holders, NEW document \in Documents,
             NEW accreditationId \in Issued, NEW expiresAt \in Expiries,
             RecordCredential(issuer, holder, document, accreditationId, expiresAt)
      PROVE  CredTypeOK'
  <2> DEFINE id == CredentialId(issuer, holder, document, now)
             r  == NewCredential(issuer, holder, accreditationId, expiresAt)
  <2>1. /\ id \in CredentialIds
        /\ Recorded' = Recorded \cup {id}
        /\ credentials' \in [Recorded' -> Credential]
    BY <1>2, RecordStep
  <2>2. r.holder = holder /\ r.issuer = issuer
    BY DEF NewCredential
  <2>3. /\ credentialsByHolder' = [credentialsByHolder EXCEPT ![holder] = @ \cup {id}]
        /\ credentialsByIssuer' = [credentialsByIssuer EXCEPT ![issuer] = @ \cup {id}]
    BY <1>2, <2>2 DEF RecordCredential, StoreCredential
  <2> HIDE DEF id, r
  <2>4. /\ credentialsByHolder' \in [Holders -> SUBSET Recorded']
        /\ credentialsByIssuer' \in [Addresses -> SUBSET Recorded']
    BY <2>1, <2>3 DEF CredTypeOK
  <2>5. QED
    BY <1>1, <2>1, <2>4 DEF CredTypeOK
<1>3. ASSUME NEW id \in Recorded, NEW status \in Statuses, SetStatus(id, status)
      PROVE  CredTypeOK'
  BY <1>1, <1>3, SetStatusStep DEF CredTypeOK, SetStatus
<1>4. CASE UNCHANGED credentialVars
  BY <1>1, <1>4 DEF CredTypeOK, credentialVars, Recorded
<1>5. QED
  BY <1>2, <1>3, <1>4, StatusSteps DEF CredNext, allVars

\* The storage of both contracts stays well typed.
THEOREM CredTypeCorrect == CredSpec => []CredTypeOK
BY CredInitTypeOK, CredNextTypeOK, PTL DEF CredSpec

-----------------------------------------------------------------------------
(* The verdicts *)

\* In every reachable state the three ways to ask for validity give one answer,
\* and the two ways to ask for the status agree.
THEOREM VerdictsAlwaysAgree == CredSpec => []VerdictsAgree
<1>1. CredTypeOK => VerdictsAgree
  <2> SUFFICES ASSUME CredTypeOK, NEW id \in Recorded
               PROVE  /\ IsActive(id) <=> VerifyCredential(id).isValid
                      /\ IsActive(id) <=> BatchVerify(id)
                      /\ VerifyCredential(id).status = GetCredentialStatus(id)
                      /\ IsActive(id) => GetCredentialStatus(id) = "Active"
    BY DEF VerdictsAgree
  <2>1. credentials[id].expiresAt \in Nat /\ now \in Nat
    BY DEF CredTypeOK, TypeOK, Credential
  <2>2. IsActive(id) <=> BatchVerify(id)
    BY <2>1 DEF IsActive, BatchVerify, CredentialLapsed, Lapsed
  <2>3. CASE CredentialLapsed(id)
    BY <2>2, <2>3 DEF IsActive, VerifyCredential, GetCredentialStatus
  <2>4. CASE ~CredentialLapsed(id)
    <3>1. VerifyCredential(id) =
            [isValid |-> credentials[id].status = "Active" /\ TrustChainValid(id),
             status |-> credentials[id].status,
             trustChainValid |-> TrustChainValid(id)]
      BY <2>4 DEF VerifyCredential
    <3>2. VerifyCredential(id).isValid
            <=> credentials[id].status = "Active" /\ TrustChainValid(id)
      <4>1. \A v, s, t : [isValid |-> v, status |-> s, trustChainValid |-> t].isValid = v
        OBVIOUS
      <4>2. VerifyCredential(id).isValid
              = (credentials[id].status = "Active" /\ TrustChainValid(id))
        BY <3>1, <4>1, Zenon
      <4>3. QED
        BY <4>2, Zenon
    <3>3. VerifyCredential(id).status = credentials[id].status
      BY <3>1
    <3>4. QED
      BY <2>2, <2>4, <3>2, <3>3 DEF IsActive, GetCredentialStatus
  <2>5. QED
    BY <2>3, <2>4
<1>2. QED
  BY <1>1, CredTypeCorrect, PTL

-----------------------------------------------------------------------------
(* The authority behind a credential *)

\* Accreditations keep their fields in every step of the composition.
LEMMA AccreditationsKept ==
  ASSUME CredTypeOK, [CredNext]_allVars, NEW a \in Issued
  PROVE  RecordKept(a)
BY CredStepIsStep, StepKeepsFields DEF CredTypeOK

\* Credentials keep theirs, the status excepted.
CredentialKept(id) ==
  /\ id \in Recorded'
  /\ credentials'[id].issuer = credentials[id].issuer
  /\ credentials'[id].expiresAt = credentials[id].expiresAt
  /\ credentials'[id].issuerAccreditationId = credentials[id].issuerAccreditationId
  /\ credentials[id].status = "Revoked" => credentials'[id].status = "Revoked"

\* A step neither drops a credential nor rewrites its terms, and a revocation stands.
LEMMA CredentialsKept ==
  ASSUME CredTypeOK, [CredNext]_allVars, NEW id \in Recorded
  PROVE  CredentialKept(id)
<1>1. CASE UNCHANGED credentials
  BY <1>1 DEF CredentialKept, Recorded
<1>2. ASSUME NEW issuer \in Addresses, NEW holder \in Holders, NEW document \in Documents,
             NEW accreditationId \in Issued, NEW expiresAt \in Expiries,
             RecordCredential(issuer, holder, document, accreditationId, expiresAt)
      PROVE  CredentialKept(id)
  BY <1>2, RecordStep DEF CredentialKept
<1>3. ASSUME NEW i \in Recorded, NEW status \in Statuses, SetStatus(i, status),
             credentials[i].status # "Revoked"
      PROVE  CredentialKept(id)
  <2>1. CASE i = id
    BY <1>3, <2>1, SetStatusStep DEF CredentialKept
  <2>2. CASE i # id
    BY <1>3, <2>2, SetStatusStep DEF CredentialKept
  <2>3. QED
    BY <2>1, <2>2
<1>4. QED
  BY <1>1, <1>2, <1>3, StatusSteps DEF CredNext, allVars, credentialVars

\* Every step keeps each credential under an institution accreditation of its issuer.
LEMMA AuthorityStep ==
  /\ CredTypeOK /\ IssuersHoldTheParent /\ CredentialsNameTheirAuthority
  /\ [CredNext]_allVars
  => CredentialsNameTheirAuthority'
<1> SUFFICES ASSUME CredTypeOK, IssuersHoldTheParent, CredentialsNameTheirAuthority,
                    [CredNext]_allVars, NEW id \in Recorded'
             PROVE  LET authority == credentials'[id].issuerAccreditationId IN
                    /\ authority \in Issued'
                    /\ accreditations'[authority].subject = credentials'[id].issuer
                    /\ accreditations'[authority].scope = "Institution"
                    /\ accreditations'[authority].parent \in Issued'
  BY DEF CredentialsNameTheirAuthority
<1> DEFINE authority == credentials'[id].issuerAccreditationId
<1>1. ASSUME NEW a \in Issued, a = authority,
             accreditations[a].subject = credentials'[id].issuer,
             accreditations[a].scope = "Institution",
             accreditations[a].parent \in Issued
      PROVE  /\ authority \in Issued'
             /\ accreditations'[authority].subject = credentials'[id].issuer
             /\ accreditations'[authority].scope = "Institution"
             /\ accreditations'[authority].parent \in Issued'
  <2>1. RecordKept(a) /\ RecordKept(accreditations[a].parent)
    BY <1>1, AccreditationsKept
  <2>2. QED
    BY <1>1, <2>1 DEF RecordKept
<1>2. CASE id \in Recorded
  <2>1. /\ authority = credentials[id].issuerAccreditationId
        /\ credentials'[id].issuer = credentials[id].issuer
    BY <1>2, CredentialsKept DEF CredentialKept
  <2>2. QED
    BY <1>1, <1>2, <2>1 DEF CredentialsNameTheirAuthority
<1>3. ASSUME NEW issuer \in Addresses, NEW holder \in Holders, NEW document \in Documents,
             NEW accreditationId \in Issued, NEW expiresAt \in Expiries,
             RecordCredential(issuer, holder, document, accreditationId, expiresAt),
             id \notin Recorded
      PROVE  /\ authority \in Issued'
             /\ accreditations'[authority].subject = credentials'[id].issuer
             /\ accreditations'[authority].scope = "Institution"
             /\ accreditations'[authority].parent \in Issued'
  <2>1. credentials'[id] = NewCredential(issuer, holder, accreditationId, expiresAt)
    BY <1>3, RecordStep
  <2>2. credentials'[id].issuer = issuer /\ authority = accreditationId
    BY <2>1 DEF NewCredential
  <2>3. /\ accreditations[accreditationId].subject = issuer
        /\ accreditations[accreditationId].scope = "Institution"
    BY <1>3 DEF RecordCredential, ValidateCredentialIssuer, REQUIRED_ISSUER_SCOPE
  <2>4. accreditations[accreditationId].parent \in Issued
    BY <2>3, ScopeTable DEF IssuersHoldTheParent, HoldsTheParent
  <2>5. QED
    BY <1>1, <2>2, <2>3, <2>4
<1>4. ASSUME id \notin Recorded
      PROVE  \E issuer \in Addresses, holder \in Holders, document \in Documents,
                accreditationId \in Issued, expiresAt \in Expiries :
               RecordCredential(issuer, holder, document, accreditationId, expiresAt)
  <2>1. CASE UNCHANGED credentials
    BY <1>4, <2>1 DEF Recorded
  <2>2. ASSUME NEW i \in Recorded, NEW status \in Statuses, SetStatus(i, status)
        PROVE  FALSE
    BY <1>4, <2>2, SetStatusStep
  <2>3. QED
    BY <2>1, <2>2, StatusSteps DEF CredNext, allVars, credentialVars
<1>5. QED
  BY <1>2, <1>3, <1>4

\* No credential is ever on record under an accreditation that is missing, held by
\* someone else or of another scope.
THEOREM CredentialsAlwaysNameTheirAuthority == CredSpec => []CredentialsNameTheirAuthority
<1>1. CredInit => CredentialsNameTheirAuthority
  BY DEF CredInit, CredentialsNameTheirAuthority, Recorded
<1>2. CredSpec => []IssuersHoldTheParent
  BY ImplementsAccreditationRegistry, IssuersAlwaysHoldTheParent, PTL
<1>3. QED
  BY <1>1, <1>2, AuthorityStep, CredTypeCorrect, PTL DEF CredSpec

\* A credential whose issuer's trust chain is broken is broken for good: no
\* sequence of transactions on either contract makes a verifier accept it again.
THEOREM LostAuthorityIsFinalAlways == CredSpec => LostAuthorityIsFinal
<1>1. ASSUME CredTypeOK, CredTypeOK', IssuersHoldTheParent, CredentialsNameTheirAuthority,
             VerdictsAgree', [CredNext]_allVars,
             NEW id \in Recorded, ~TrustChainValid(id)
      PROVE  ~(VerifyCredential(id).isValid)'
  <2> DEFINE authority == credentials[id].issuerAccreditationId
  <2>1. authority \in Issued /\ SettledParent(authority)
    BY <1>1 DEF CredentialsNameTheirAuthority, SettledParent
  <2>2. ~ValidateTrustChain(authority)'
    <3> SUFFICES ASSUME ValidateTrustChain(authority)' PROVE FALSE
      OBVIOUS
    <3>1. TypeOK /\ TypeOK' /\ [Next]_vars
      BY <1>1, CredStepIsStep DEF CredTypeOK
    <3>2. credentials'[id].issuerAccreditationId = authority
      BY <1>1, CredentialsKept DEF CredentialKept
    <3>3. QED
      BY <1>1, <2>1, <3>1, <3>2, TrustStep DEF TrustChainValid
  <2>3. id \in Recorded' /\ credentials'[id].issuerAccreditationId = authority
    BY <1>1, CredentialsKept DEF CredentialKept
  <2>4. ~TrustChainValid(id)'
    BY <2>2, <2>3 DEF TrustChainValid
  <2>5. ~IsActive(id)'
    BY <2>4 DEF IsActive
  <2>6. QED
    BY <1>1, <2>3, <2>5 DEF VerdictsAgree
<1>2. /\ CredTypeOK /\ CredTypeOK' /\ IssuersHoldTheParent /\ CredentialsNameTheirAuthority
      /\ VerdictsAgree' /\ [CredNext]_allVars
      => [\A id \in Recorded :
            ~TrustChainValid(id) => ~(VerifyCredential(id).isValid)']_allVars
  BY <1>1
<1>3. CredSpec => []IssuersHoldTheParent
  BY ImplementsAccreditationRegistry, IssuersAlwaysHoldTheParent, PTL
<1>4. QED
  BY <1>2, <1>3, CredTypeCorrect, CredentialsAlwaysNameTheirAuthority, VerdictsAlwaysAgree,
     PTL DEF CredSpec, LostAuthorityIsFinal

-----------------------------------------------------------------------------
(* The status *)

\* An expired credential is reported expired for ever, a revoked one never as
\* anything but revoked or expired.
THEOREM ReportedStatusIsFinalAlways == CredSpec => ReportedStatusIsFinal
<1>1. ASSUME CredTypeOK, [CredNext]_allVars, NEW id \in Recorded
      PROVE  /\ GetCredentialStatus(id) = "Expired" => GetCredentialStatus(id)' = "Expired"
             /\ GetCredentialStatus(id) = "Revoked"
                  => GetCredentialStatus(id)' \in {"Revoked", "Expired"}
  <2>1. now \in Nat /\ now' \in Nat /\ now <= now'
    BY <1>1, CredStepIsStep, TimeMovesOn DEF CredTypeOK, TypeOK
  <2>2. credentials[id].expiresAt \in Nat /\ credentials[id].status # "Expired"
    BY <1>1 DEF CredTypeOK, Credential, Statuses
  <2>3. CredentialKept(id)
    BY <1>1, CredentialsKept
  <2>4. CredentialLapsed(id) => CredentialLapsed(id)'
    BY <2>1, <2>2, <2>3 DEF CredentialKept, CredentialLapsed, Lapsed
  <2>5. GetCredentialStatus(id) = "Expired" => CredentialLapsed(id)
    BY <2>2 DEF GetCredentialStatus
  <2>6. GetCredentialStatus(id) = "Revoked" => credentials[id].status = "Revoked"
    BY DEF GetCredentialStatus
  <2>7. QED
    BY <2>3, <2>4, <2>5, <2>6 DEF CredentialKept, GetCredentialStatus
<1>2. CredTypeOK /\ [CredNext]_allVars
      => [\A id \in Recorded :
            /\ GetCredentialStatus(id) = "Expired" => GetCredentialStatus(id)' = "Expired"
            /\ GetCredentialStatus(id) = "Revoked"
                 => GetCredentialStatus(id)' \in {"Revoked", "Expired"}]_allVars
  BY <1>1
<1>3. QED
  BY <1>2, CredTypeCorrect, PTL DEF CredSpec, ReportedStatusIsFinal

\* The status the lifecycle sees, as a function of all the ids there can be.
Mapped == [id \in Tracked |-> IF id \in Recorded THEN credentials[id].status ELSE "None"]

\* What a step does to the life cycle of the credentials: nothing, or one of its moves.
LEMMA LifecycleStep ==
  CredTypeOK /\ [CredNext]_allVars
    => \/ Mapped' = Mapped
       \/ \E c \in Tracked :
            \/ Mapped[c] = "None" /\ Mapped' = [Mapped EXCEPT ![c] = "Active"]
            \/ Mapped[c] = "Active" /\ Mapped' = [Mapped EXCEPT ![c] = "Suspended"]
            \/ Mapped[c] = "Suspended" /\ Mapped' = [Mapped EXCEPT ![c] = "Active"]
            \/ /\ Mapped[c] \in {"Active", "Suspended"}
               /\ Mapped' = [Mapped EXCEPT ![c] = "Revoked"]
<1> SUFFICES ASSUME CredTypeOK, [CredNext]_allVars
             PROVE  \/ Mapped' = Mapped
                    \/ \E c \in Tracked :
                         \/ Mapped[c] = "None" /\ Mapped' = [Mapped EXCEPT ![c] = "Active"]
                         \/ Mapped[c] = "Active" /\ Mapped' = [Mapped EXCEPT ![c] = "Suspended"]
                         \/ Mapped[c] = "Suspended" /\ Mapped' = [Mapped EXCEPT ![c] = "Active"]
                         \/ /\ Mapped[c] \in {"Active", "Suspended"}
                            /\ Mapped' = [Mapped EXCEPT ![c] = "Revoked"]
  OBVIOUS
<1>1. CASE UNCHANGED credentials
  BY <1>1 DEF Mapped, Recorded
<1>2. ASSUME NEW issuer \in Addresses, NEW holder \in Holders, NEW document \in Documents,
             NEW accreditationId \in Issued, NEW expiresAt \in Expiries,
             RecordCredential(issuer, holder, document, accreditationId, expiresAt)
      PROVE  \E c \in Tracked :
               Mapped[c] = "None" /\ Mapped' = [Mapped EXCEPT ![c] = "Active"]
  <2> DEFINE c == CredentialId(issuer, holder, document, now)
  <2>1. /\ c \in Tracked
        /\ c \notin Recorded
        /\ Recorded' = Recorded \cup {c}
        /\ credentials'[c].status = "Active"
        /\ \A i \in Recorded : credentials'[i] = credentials[i]
    <3>1. credentials'[c] = NewCredential(issuer, holder, accreditationId, expiresAt)
      BY <1>2, RecordStep
    <3>2. credentials'[c].status = "Active"
      BY <3>1 DEF NewCredential
    <3>3. QED
      BY <1>2, <3>2, RecordStep
  <2> HIDE DEF c
  <2>2. Mapped[c] = "None"
    BY <2>1 DEF Mapped
  <2>3. Mapped' = [Mapped EXCEPT ![c] = "Active"]
    BY <2>1 DEF Mapped
  <2>4. QED
    BY <2>1, <2>2, <2>3
<1>3. ASSUME NEW id \in Recorded, NEW status \in Statuses, SetStatus(id, status)
      PROVE  Mapped' = [Mapped EXCEPT ![id] = status]
  BY <1>3, SetStatusStep DEF Mapped
<1>4. ASSUME NEW id \in Recorded PROVE id \in Tracked => Mapped[id] = credentials[id].status
  BY <1>4 DEF Mapped
<1>5. ASSUME NEW id \in Recorded, NEW status \in Statuses, SetStatus(id, status),
             id \notin Tracked
      PROVE  Mapped' = Mapped
  BY <1>3, <1>5 DEF Mapped
<1>6. ASSUME NEW id \in Recorded PROVE credentials[id].status \in Statuses
  BY <1>6 DEF CredTypeOK, Credential
<1>7. ASSUME NEW id \in Recorded, NEW status \in Statuses, SetStatus(id, status),
             credentials[id].status # "Revoked",
             status = "Active" => credentials[id].status = "Suspended"
      PROVE  \/ Mapped' = Mapped
             \/ \E c \in Tracked :
                  \/ Mapped[c] = "Active" /\ Mapped' = [Mapped EXCEPT ![c] = "Suspended"]
                  \/ Mapped[c] = "Suspended" /\ Mapped' = [Mapped EXCEPT ![c] = "Active"]
                  \/ /\ Mapped[c] \in {"Active", "Suspended"}
                     /\ Mapped' = [Mapped EXCEPT ![c] = "Revoked"]
  <2>1. CASE id \notin Tracked
    BY <1>5, <1>7, <2>1
  <2>2. CASE id \in Tracked /\ status = credentials[id].status
    <3>1. Mapped[id] = status /\ Mapped' = [Mapped EXCEPT ![id] = status]
      BY <1>3, <1>4, <1>7, <2>2
    <3>2. Mapped = [Mapped EXCEPT ![id] = Mapped[id]]
      BY DEF Mapped
    <3>3. QED
      BY <3>1, <3>2
  <2>3. CASE id \in Tracked /\ status # credentials[id].status
    <3>1. Mapped[id] = credentials[id].status /\ Mapped' = [Mapped EXCEPT ![id] = status]
      BY <1>3, <1>4, <1>7, <2>3
    <3>2. QED
      BY <1>6, <1>7, <2>3, <3>1 DEF Statuses
  <2>4. QED
    BY <2>1, <2>2, <2>3
<1>8. QED
  BY <1>1, <1>2, <1>7, StatusSteps DEF CredNext, allVars, credentialVars

\* The credential registry implements CredentialLifecycle: each of its steps is one
\* of the lifecycle's on one credential, or changes no status.
THEOREM ImplementsLifecycleAlways == CredSpec => ImplementsLifecycle
<1>1. CredInit => Lifecycle!Init
  BY DEF CredInit, Lifecycle!Init, Recorded
<1>2. CredTypeOK /\ [CredNext]_allVars => [Lifecycle!Next]_Mapped
  BY LifecycleStep DEF Lifecycle!Next, Lifecycle!Record, Lifecycle!Suspend,
     Lifecycle!Reactivate, Lifecycle!Revoke, Lifecycle!Change, Mapped
<1>3. QED
  BY <1>1, <1>2, CredTypeCorrect, PTL
     DEF CredSpec, ImplementsLifecycle, Lifecycle!Spec, Mapped
=============================================================================
