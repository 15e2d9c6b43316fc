----------------------------- MODULE WalletSetup -----------------------------
(***************************************************************************)
(* Setting up the wallet: the registration wizard of the mobile app, with  *)
(* what it keeps in memory, what it keeps in storage, and what it learns   *)
(* from the enterprise registrations and from the chain.                   *)
(*                                                                         *)
(* Memory is lost when the app is closed; the wizard then starts anew, on  *)
(* the storage it left.  The owner may go back at any time, and choose     *)
(* another kind of account.                                                *)
(*                                                                         *)
(* Left out: what is typed into the forms, the consents, and the wallet's  *)
(* registration with the Identity service, which may fail without effect   *)
(* on the wizard.  createWallet and getOrCreateIdentity find what they     *)
(* made before, and are one step here.                                     *)
(***************************************************************************)
EXTENDS EnterpriseRegistration

CONSTANTS
  OwnAddress,           \* of the identity the wallet creates for itself
  InstitutionAddress,   \* of the key a university's operator types in
  InstitutionId,        \* the accreditation of that address
  None

ASSUME SetupAssumption ==
  /\ Wallets = {OwnAddress, InstitutionAddress}
  /\ OwnAddress # InstitutionAddress
  /\ None \notin Wallets \cup Requests
  /\ InstitutionId \notin AccreditationIds \cup {NoId}

VARIABLES
  \* in memory
  step,           \* of the wizard; chooser before it, open after it
  accountType,    \* chosen
  did,            \* address of the registration's identity
  accreditation,  \* its accreditation
  request,        \* the request the wizard shows
  check,          \* a question about a request, not answered yet
  call,           \* another call to a service, not answered yet
  finishing,      \* how far handleFinish is
  \* in storage
  keys,           \* secret key and identity exist
  saved,          \* the request's id
  pin,            \* a PIN is set
  profile,        \* the encrypted profile
  created,        \* the flag a finished set-up leaves
  typed           \* history: the key of an institution was typed in

memory == <<step, accountType, did, accreditation, request, check, call, finishing>>
storage == <<keys, saved, pin, profile, created, typed>>
setupVars == <<vars, memory, storage>>

AccountTypes == {"personal", "university", "enterprise"}
Steps == {"chooser", "form", "gating", "pin", "consents", "open"}
KnownIds == AccreditationIds \cup {NoId, InstitutionId}
NoProfile == [type |-> "none"]
Profile == [type : AccountTypes, did : Wallets, accreditation : KnownIds]
NotFinishing == [at |-> "no"]

\* Calls in flight, and whether the wizard that made one is still shown: the answer
\* reaches storage and the registration in any case, the wizard only then.
Check == [request : Requests, here : BOOLEAN]
Call ==
  [what : {"post"}, request : Requests, here : BOOLEAN] \cup [what : {"lookup"}, here : BOOLEAN]

AskAbout(q) == check' = [request |-> q, here |-> TRUE]
Left(c) == IF c = None THEN None ELSE [c EXCEPT !.here = FALSE]
Leave == check' = Left(check) /\ call' = Left(call)

SetupInit ==
  /\ Init
  /\ step = "chooser" /\ accountType = "personal"
  /\ did = None /\ accreditation = NoId
  /\ request = None /\ check = None /\ call = None
  /\ finishing = NotFinishing
  /\ keys = FALSE /\ saved = None /\ pin = FALSE
  /\ profile = NoProfile /\ created = FALSE
  /\ typed = FALSE

-----------------------------------------------------------------------------
(* Moving through the wizard *)

\* The enterprise wizard reads the stored id when it opens, and asks about it.
Choose(type) ==
  /\ step = "chooser"
  /\ step' = "form"
  /\ accountType' = type
  /\ IF type = "enterprise" /\ saved # None
     THEN request' = saved /\ AskAbout(saved)
     ELSE request' = None /\ UNCHANGED check
  /\ UNCHANGED <<vars, did, accreditation, call, finishing, storage>>

\* ensureIdentityCreated: an identity the registration already has is kept.
EnsureIdentity ==
  IF did = None THEN did' = OwnAddress /\ keys' = TRUE ELSE UNCHANGED <<did, keys>>

Continue ==
  /\ step = "form"
  /\ step' = IF accountType = "personal" THEN "pin" ELSE "gating"
  /\ IF accountType = "enterprise" THEN EnsureIdentity ELSE UNCHANGED <<did, keys>>
  /\ UNCHANGED <<vars, accountType, accreditation, request, check, call, finishing,
                 saved, pin, profile, created, typed>>

PinChosen ==
  /\ step = "pin"
  /\ step' = "consents"
  /\ UNCHANGED <<vars, accountType, did, accreditation, request, check, call, finishing, storage>>

Previous ==
  [form |-> "chooser", gating |-> "form",
   pin |-> IF accountType = "personal" THEN "form" ELSE "gating",
   consents |-> "pin"]

\* Going back to the enterprise gate makes an identity as entering it does.
StepBack ==
  /\ step \in DOMAIN Previous
  /\ step' = Previous[step]
  /\ IF step' = "gating" /\ accountType = "enterprise"
     THEN EnsureIdentity
     ELSE UNCHANGED <<did, keys>>
  /\ IF step' = "chooser"
     THEN request' = None /\ Leave
     ELSE UNCHANGED <<request, check, call>>
  /\ UNCHANGED <<vars, accountType, accreditation, finishing, saved, pin, profile, created, typed>>

-----------------------------------------------------------------------------
(* Gating *)

\* The wizard's buttons are disabled while it waits.  One that is left while it waits
\* keeps its successor from calling too: a bound on the calls in flight.
Waiting == call # None \/ finishing.at # "no"

\* handleSubmitEnterpriseRequest: the service has a row when it answers ...
SubmitRequest(q) ==
  /\ step = "gating" /\ accountType = "enterprise"
  /\ request = None /\ ~Waiting
  /\ Submit(q, did)
  /\ call' = [what |-> "post", request |-> q, here |-> TRUE]
  /\ UNCHANGED <<step, accountType, did, accreditation, request, check, finishing, storage>>

Answered(what) == call # None /\ call.what = what /\ call' = None

\* ... and the wallet keeps its id when the answer arrives, wherever the owner has
\* gone since.
KeepRequest ==
  /\ Answered("post")
  /\ saved' = call.request
  /\ request' = IF call.here THEN call.request ELSE request
  /\ UNCHANGED <<vars, step, accountType, did, accreditation, check, finishing,
                 keys, pin, profile, created, typed>>

\* The answer is lost: the wizard offers to submit again.
SubmitFails ==
  /\ Answered("post")
  /\ Fault
  /\ UNCHANGED <<rows, accreditations, indexed, review, step, accountType, did, accreditation,
                 request, check, finishing, storage>>

\* handlePollEnterpriseApproval asks again about the request that is shown.  A rejected
\* one stays the one that is shown; there is no way to submit another.
PollEnterpriseApproval ==
  /\ step = "gating" /\ accountType = "enterprise"
  /\ request # None /\ check = None
  /\ AskAbout(request)
  /\ UNCHANGED <<vars, step, accountType, did, accreditation, request, call, finishing, storage>>

\* An approval: the accreditation is kept in memory and the request is forgotten.
TakeApproval ==
  /\ rows[check.request].status = "Approved"
  /\ accreditation' = rows[check.request].accreditationId
  /\ saved' = None
  /\ step' = IF check.here THEN "pin" ELSE step

\* The answer to either question.  Anything but an approval, a failed call included,
\* is at most a message.
CheckAnswers ==
  /\ check # None
  /\ check' = None
  /\ TakeApproval \/ UNCHANGED <<accreditation, saved, step>>
  /\ UNCHANGED <<vars, accountType, did, request, call, finishing, keys, pin, profile,
                 created, typed>>

\* handleCheckUniversityAccreditation: the registration takes the address of the
\* typed key, whether or not that address turns out to be accredited ...
CheckUniversityAccreditation ==
  /\ step = "gating" /\ accountType = "university"
  /\ ~Waiting
  /\ did' = InstitutionAddress
  /\ keys' = TRUE
  /\ typed' = TRUE
  /\ call' = [what |-> "lookup", here |-> TRUE]
  /\ UNCHANGED <<vars, step, accountType, accreditation, request, check, finishing,
                 saved, pin, profile, created>>

\* ... and the accreditation the chain has for it, if it has one.
LookupAnswers ==
  /\ Answered("lookup")
  /\ \/ /\ accreditation' = InstitutionId
        /\ step' = IF call.here THEN "pin" ELSE step
     \/ UNCHANGED <<accreditation, step>>
  /\ UNCHANGED <<vars, accountType, did, request, check, finishing, storage>>

-----------------------------------------------------------------------------
(* handleFinish *)

\* The profile is made of what the registration holds when the owner confirms.
BeginFinish ==
  /\ step = "consents"
  /\ ~Waiting
  /\ EnsureIdentity
  /\ finishing' = [at |-> "pin",
                   profile |-> [type |-> accountType, did |-> did', accreditation |-> accreditation]]
  /\ UNCHANGED <<vars, step, accountType, accreditation, request, check, call,
                 saved, pin, profile, created, typed>>

SetupPin ==
  /\ finishing.at = "pin"
  /\ pin' = TRUE
  /\ finishing' = [finishing EXCEPT !.at = "profile"]
  /\ UNCHANGED <<vars, step, accountType, did, accreditation, request, check, call,
                 keys, saved, profile, created, typed>>

\* An organisation without an accreditation is turned away here.
SaveProfile ==
  /\ finishing.at = "profile"
  /\ IF finishing.profile.type # "personal" /\ finishing.profile.accreditation = NoId
     THEN finishing' = NotFinishing /\ UNCHANGED profile
     ELSE /\ finishing' = [finishing EXCEPT !.at = "complete"]
          /\ profile' = finishing.profile
  /\ UNCHANGED <<vars, step, accountType, did, accreditation, request, check, call,
                 keys, saved, pin, created, typed>>

\* completeWalletSetup, and the wallet opens.
CompleteWalletSetup ==
  /\ finishing.at = "complete"
  /\ profile # NoProfile
  /\ created' = TRUE
  /\ step' = "open"
  /\ finishing' = NotFinishing
  /\ Leave
  /\ UNCHANGED <<vars, accountType, did, accreditation, request,
                 keys, saved, pin, profile, typed>>

\* A step fails; the owner may try again.
FinishFails ==
  /\ finishing.at # "no"
  /\ finishing' = NotFinishing
  /\ Fault
  /\ UNCHANGED <<rows, accreditations, indexed, review, step, accountType, did, accreditation,
                 request, check, call, storage>>

\* Faulty variant: keys are taken for a wallet.
HasKeys == keys

\* hasWallet: a finished set-up with a readable profile.
HasWallet == created /\ profile # NoProfile

\* The app is closed, or crashes, and starts again.
Restart ==
  /\ step' = IF HasWallet THEN "open" ELSE "chooser"
  /\ accountType' = "personal"
  /\ did' = None /\ accreditation' = NoId
  /\ request' = None /\ check' = None /\ call' = None
  /\ finishing' = NotFinishing
  /\ Fault
  /\ UNCHANGED <<rows, accreditations, indexed, review, storage>>

-----------------------------------------------------------------------------
Wizard ==
  \/ \E type \in AccountTypes : Choose(type)
  \/ Continue \/ PinChosen \/ StepBack
  \/ \E q \in Requests : SubmitRequest(q)
  \/ KeepRequest \/ SubmitFails
  \/ PollEnterpriseApproval \/ CheckAnswers
  \/ CheckUniversityAccreditation \/ LookupAnswers
  \/ BeginFinish \/ SetupPin \/ SaveProfile \/ CompleteWalletSetup \/ FinishFails
  \/ Restart

SetupNext ==
  \/ (\E v \in Reviewers : Reviewing(v)) /\ UNCHANGED <<memory, storage>>
  \/ Wizard

SetupSpec == SetupInit /\ [][SetupNext]_setupVars

-----------------------------------------------------------------------------
(* Correctness *)

SetupTypeOK ==
  /\ TypeOK
  /\ step \in Steps
  /\ accountType \in AccountTypes
  /\ did \in Wallets \cup {None}
  /\ accreditation \in KnownIds
  /\ {request, saved} \subseteq Submitted \cup {None}
  /\ check # None => check \in Check /\ check.request \in Submitted
  /\ call # None => call \in Call /\ (call.what = "post" => call.request \in Submitted)
  /\ finishing \in [at : {"pin", "profile", "complete"}, profile : Profile] \cup {NotFinishing}
  /\ {keys, pin, created, typed} \subseteq BOOLEAN
  /\ profile \in Profile \cup {NoProfile}

\* authService.hasWallet must not "route an interrupted setup into the authenticated
\* app": however often the set-up was broken off and begun again, as whatever kind of
\* account, a wallet that opens has its keys, a PIN to unlock it with, and a profile
\* with the accreditation its kind of account needs.
OnlyFinishedWalletsOpen ==
  step = "open" \/ HasWallet =>
    /\ created /\ keys /\ pin
    /\ profile # NoProfile
    /\ profile.type # "personal" => profile.accreditation # NoId

\* A wallet set up as an enterprise holds an accreditation that is on chain, was issued
\* to the address in its profile, and is in the service's index: whatever was asked twice,
\* answered late, approved twice or begun again.  The exception is a set-up in which the
\* key of an institution was typed in too, which mixes two addresses, and an answer that
\* comes late two accreditations, into one registration.
EnterpriseIsAccredited ==
  profile.type = "enterprise" /\ ~typed =>
    /\ profile.accreditation \in indexed
    /\ accreditations[profile.accreditation] = profile.did

\* A comment in handleCheckUniversityAccreditation asks to "Store the private key so
\* the Veramo agent can sign later": the agent should have the key of the identity a
\* finished wallet shows.  The one identity it has is the one it created.  The code does
\* not keep this.
AgentCanSign == HasWallet => profile.did = OwnAddress

Approval(q) == saved = q \/ accreditation = rows[q].accreditationId

\* The wizard is to "Restore persisted enterprise request ID on mount and auto-check if
\* already approved": an approval the wallet could get at, it can still get at after
\* any step, until the set-up is finished.  The code does not keep this.
ApprovalSurvives ==
  [][\A q \in Submitted :
       rows[q].status = "Approved" /\ Approval(q)
         => Approval(q)' \/ rows'[q] # rows[q] \/ HasWallet']_setupVars
=============================================================================
