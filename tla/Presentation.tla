----------------------------- MODULE Presentation -----------------------------
(***************************************************************************)
(* Presenting: what PresentationConsentScreen does from the owner's        *)
(* approval of a request to the entry in the history of presentations.     *)
(*                                                                         *)
(* handleApprove goes on when its screen is left, so several may be under  *)
(* way, each waiting at its own await, over one bridge and one history.    *)
(* A request that failed is approved anew, which is another approval.      *)
(*                                                                         *)
(* Left out: what the profile says, of which an approval that goes on has  *)
(* found enough; what is disclosed in full beyond whether something is;    *)
(* the order of the answers, which the response groups by kind;            *)
(* the signature with its fallback to the bare hash; and the app being     *)
(* killed, which ends every approval where it is.                          *)
(***************************************************************************)
EXTENDS ZkpBridge

CONSTANTS
  Approvals,      \* runs of handleApprove
  Requests,
  Requirements,   \* of a request: the kinds of its requirements, in order
  HasCallback     \* requests that name a callbackUrl

\* A request is whatever its link decodes to.  "unknown" is a requirement this app has
\* no answer for: of another kind, or a zkp one for a circuit it does not have.
Kinds == {"zkp", "credential-ref", "full-disclosure", "unknown"}
ProveCall(a, i) == <<a, i, "prove">>
VerifyCall(a, i) == <<a, i, "verify">>

ASSUME PresentationAssumption ==
  /\ Requirements \in [Requests -> Seq(Kinds)]
  /\ HasCallback \subseteq Requests
  /\ \A a \in Approvals, r \in Requests : \A i \in DOMAIN Requirements[r] :
       {ProveCall(a, i), VerifyCall(a, i)} \subseteq Calls

VARIABLES
  phase,      \* where an approval is
  request,    \* what it approves
  evidence,   \* what has been put together for the requirements so far
  copy,       \* the history it read
  history,    \* vp_history in storage, newest first
  accepted,   \* approvals whose response a verifier took
  saves,      \* history: the approvals in the order they saved
  listedAt    \* history: saves made when an approval read the history

presVars == <<phase, request, evidence, copy, history, accepted, saves, listedAt>>
allVars == <<bridgeVars, presVars>>

Phases == {"idle", "building", "proving", "verifying", "posting", "listing", "saving",
           "done", "failed"}
Ended == {"done", "failed"}
Evidence == [what : {"proof"}, call : Calls]
              \cup [what : {"reference", "document", "nothing", "skipped"}]

PresInit ==
  /\ Init
  /\ phase = [a \in Approvals |-> "idle"]
  /\ request \in [Approvals -> Requests]
  /\ evidence = [a \in Approvals |-> <<>>]
  /\ copy = [a \in Approvals |-> <<>>]
  /\ history = <<>>
  /\ accepted = {}
  /\ saves = <<>>
  /\ listedAt = [a \in Approvals |-> 0]

-----------------------------------------------------------------------------
(* The requirements, one after the other *)

Needs(a) == Requirements[request[a]]
Position(a) == Len(evidence[a]) + 1
Need(a, kind) == Position(a) \in DOMAIN Needs(a) /\ Needs(a)[Position(a)] = kind

GoTo(a, p) == phase' = [phase EXCEPT ![a] = p]
Attach(a, e) == evidence' = [evidence EXCEPT ![a] = Append(@, e)]

\* handleApprove reads the profile and begins.
Approve(a) ==
  /\ phase[a] = "idle"
  /\ GoTo(a, "building")
  /\ UNCHANGED <<bridgeVars, request, evidence, copy, history, accepted, saves, listedAt>>

\* What the profile does not meet is not even tried (Fails).  The prover's files are
\* read and the page is asked.
BuildZkpProof(a) ==
  /\ phase[a] = "building"
  /\ Need(a, "zkp")
  /\ Send(ProveCall(a, Position(a)))
  /\ GoTo(a, "proving")
  /\ UNCHANGED <<request, evidence, copy, history, accepted, saves, listedAt>>

Answered(c, kind) == c \in DOMAIN reply /\ reply[c].kind = kind

\* With the proof, the page is asked again.
VerifyProof(a) ==
  /\ phase[a] = "proving"
  /\ Answered(ProveCall(a, Position(a)), "result")
  /\ Send(VerifyCall(a, Position(a)))
  /\ GoTo(a, "verifying")
  /\ UNCHANGED <<request, evidence, copy, history, accepted, saves, listedAt>>

\* The page found the proof consistent and its first public signal says that the
\* requirement is met; a verdict against it counts as an error here (Fails).
TakeProof(a) ==
  /\ phase[a] = "verifying"
  /\ Answered(VerifyCall(a, Position(a)), "result")
  /\ Attach(a, [what |-> "proof", call |-> reply[ProveCall(a, Position(a))].of])
  /\ GoTo(a, "building")
  /\ UNCHANGED <<bridgeVars, request, copy, history, accepted, saves, listedAt>>

BuildCredentialRef(a) ==
  /\ phase[a] = "building"
  /\ Need(a, "credential-ref")
  /\ Attach(a, [what |-> "reference"])
  /\ UNCHANGED <<bridgeVars, phase, request, copy, history, accepted, saves, listedAt>>

\* A document the wallet does not have, or cannot read, is left out without an error.
BuildFullDisclosure(a) ==
  /\ phase[a] = "building"
  /\ Need(a, "full-disclosure")
  /\ \E what \in {"document", "nothing"} : Attach(a, [what |-> what])
  /\ UNCHANGED <<bridgeVars, phase, request, copy, history, accepted, saves, listedAt>>

\* Neither an error nor anything in the response: the loop goes on to the next.
SkipUnknown(a) ==
  /\ phase[a] = "building"
  /\ Need(a, "unknown")
  /\ Attach(a, [what |-> "skipped"])
  /\ UNCHANGED <<bridgeVars, phase, request, copy, history, accepted, saves, listedAt>>

-----------------------------------------------------------------------------
(* Handing it in, and the history *)

\* Faulty variant: the loop ends one requirement early.
CompleteButLast(a) == Len(Needs(a)) <= Position(a)

Complete(a) == Position(a) \notin DOMAIN Needs(a)

\* The response is signed; whether it is posted depends on the request.
SignResponse(a) ==
  /\ phase[a] = "building"
  /\ Complete(a)
  /\ GoTo(a, IF request[a] \in HasCallback THEN "posting" ELSE "listing")
  /\ UNCHANGED <<bridgeVars, request, evidence, copy, history, accepted, saves, listedAt>>

\* The verifier answered; what it answered is not looked at.
PostAnswered(a) ==
  /\ phase[a] = "posting"
  /\ GoTo(a, "listing")
  /\ accepted' \in {accepted, accepted \cup {a}}
  /\ UNCHANGED <<bridgeVars, request, evidence, copy, history, saves, listedAt>>

\* There is no answer; the response may have arrived all the same.
PostFails(a) ==
  /\ phase[a] = "posting"
  /\ GoTo(a, "failed")
  /\ accepted' \in {accepted, accepted \cup {a}}
  /\ UNCHANGED <<bridgeVars, request, evidence, copy, history, saves, listedAt>>

ListHistory(a) ==
  /\ phase[a] = "listing"
  /\ copy' = [copy EXCEPT ![a] = history]
  /\ listedAt' = [listedAt EXCEPT ![a] = Len(saves)]
  /\ GoTo(a, "saving")
  /\ UNCHANGED <<bridgeVars, request, evidence, history, accepted, saves>>

\* Faulty variant: an entry that comes when there are others takes their place.
SaveAlone(a) ==
  /\ phase[a] = "saving"
  /\ history' = <<a>>
  /\ saves' = Append(saves, a)
  /\ GoTo(a, "done")
  /\ UNCHANGED <<bridgeVars, request, evidence, copy, accepted, listedAt>>

\* The entry is put before the ones read, and all of it written back.  The owner is
\* told that the presentation was submitted.
SaveHistory(a) ==
  /\ phase[a] = "saving"
  /\ history' = <<a>> \o copy[a]
  /\ saves' = Append(saves, a)
  /\ GoTo(a, "done")
  /\ UNCHANGED <<bridgeVars, request, evidence, copy, accepted, listedAt>>

\* Everything awaited may throw, the profile may not meet what is asked, the page may
\* answer with an error or the proof may not verify: the owner is told, and may begin
\* anew.
Fails(a) ==
  /\ \/ phase[a] \in {"building", "listing", "saving"}
     \/ phase[a] = "proving" /\ Answered(ProveCall(a, Position(a)), "error")
     \/ phase[a] = "verifying" /\ Answered(VerifyCall(a, Position(a)), "error")
  /\ GoTo(a, "failed")
  /\ UNCHANGED <<bridgeVars, request, evidence, copy, history, accepted, saves, listedAt>>

-----------------------------------------------------------------------------
Goes(a) ==
  \/ BuildZkpProof(a) \/ VerifyProof(a) \/ TakeProof(a)
  \/ BuildCredentialRef(a) \/ BuildFullDisclosure(a) \/ SkipUnknown(a)
  \/ SignResponse(a) \/ PostAnswered(a) \/ PostFails(a)
  \/ ListHistory(a) \/ SaveHistory(a) \/ Fails(a)

PresNext ==
  \/ Page /\ UNCHANGED presVars
  \/ \E a \in Approvals : Approve(a) \/ Goes(a)

PresSpec == PresInit /\ [][PresNext]_allVars

\* The page loads or fails to, and answers what it is given, if with an error; there is
\* an end to what it is given.  What it posts is handled, and what handleApprove calls
\* returns or throws.  Nothing obliges the owner to approve.
PresFairness ==
  /\ WF_allVars(Load /\ UNCHANGED presVars)
  /\ WF_allVars(Work /\ UNCHANGED presVars)
  /\ \A a \in Approvals : WF_allVars(Goes(a))

PresFairSpec == PresSpec /\ PresFairness

-----------------------------------------------------------------------------
(* Correctness *)

\* The bridge and the approvals have their types; no more evidence is put together than
\* there are requirements, and nobody read a history of more saves than there were.
PresTypeOK ==
  /\ TypeOK
  /\ phase \in [Approvals -> Phases]
  /\ request \in [Approvals -> Requests]
  /\ evidence \in [Approvals -> Seq(Evidence)]
  /\ copy \in [Approvals -> Seq(Approvals)]
  /\ history \in Seq(Approvals)
  /\ accepted \subseteq Approvals
  /\ saves \in Seq(Approvals)
  /\ listedAt \in [Approvals -> 0 .. Len(saves)]
  /\ \A a \in Approvals : Len(evidence[a]) <= Len(Needs(a))

\* What answers a requirement: of the right kind, and a proof is the one made for this
\* requirement of this approval.  One the app does not know has no answer.
Answers(e, a, i) ==
  /\ Needs(a)[i] = "zkp" => e = [what |-> "proof", call |-> ProveCall(a, i)]
  /\ Needs(a)[i] = "credential-ref" => e = [what |-> "reference"]
  /\ Needs(a)[i] = "full-disclosure" => e.what \in {"document", "nothing"}
  /\ Needs(a)[i] = "unknown" => e = [what |-> "skipped"]

\* A response that is handed in or saved answers every requirement of its request that
\* the app knows, each with evidence made for it, whatever else was being proved over the
\* same bridge and however the page's answers were delayed or reordered.  The exception
\* the code makes is a requirement it does not know, which is left unanswered.
SubmittedIsProved ==
  \A a \in Approvals :
    phase[a] \in {"posting", "listing", "saving", "done"} =>
      /\ DOMAIN evidence[a] = DOMAIN Needs(a)
      /\ \A i \in DOMAIN Needs(a) : Answers(evidence[a][i], a, i)

\* The history loses a presentation only to an overlap: an entry that was saved and is
\* not there was saved between another approval's reading of the history and its
\* writing it back.
LostOnlyToOverlap ==
  \A p \in DOMAIN saves :
    \/ \E i \in DOMAIN history : history[i] = saves[p]
    \/ \E q \in DOMAIN saves : p < q /\ listedAt[saves[q]] < p

\* An approval comes to its end, well or badly, unless the page is gone: no proof is
\* waited for for ever, though the wait has no limit, even one asked for before the
\* page had loaded.
ApprovalsEnd ==
  \A a \in Approvals :
    phase[a] # "idle" ~> (phase[a] \in Ended \/ page = "gone")

\* "Your verifiable presentation has been successfully built and submitted": whoever is
\* told so has a verifier that took the response, and a response that left no requirement
\* out.  The code keeps neither.
AnnouncedIsSubmitted ==
  \A a \in Approvals :
    phase[a] = "done" =>
      /\ a \in accepted
      /\ \A i \in DOMAIN evidence[a] : evidence[a][i].what # "skipped"
=============================================================================
