------------------------ MODULE EnterpriseRegistration ------------------------
(***************************************************************************)
(* How an enterprise's request is decided.  A wallet posts the request; in *)
(* the admin client, reviewers of the business registry reject it, or      *)
(* approve it in three calls that know nothing of each other: issue an     *)
(* accreditation on chain, report it to the Accreditation service, then    *)
(* approve the request naming that accreditation.                          *)
(*                                                                         *)
(* A reviewer is one browser tab.  The list it works on may be old, so a   *)
(* request may be taken up by several of them.  The service reads a row,   *)
(* checks it and writes it back in separate calls and without a version.   *)
(*                                                                         *)
(* The event published at the end has no reader: the Identity service's    *)
(* consumer of it is never registered.                                     *)
(***************************************************************************)
EXTENDS Naturals, Sequences

CONSTANTS
  Requests,    \* ids of requests
  Wallets,     \* addresses requests are made for
  Reviewers,
  MaxIssued,   \* bound on the accreditations issued to enterprises
  MaxFaults    \* bound on failed calls

ASSUME RegistrationAssumption ==
  MaxIssued \in Nat /\ MaxFaults \in Nat

VARIABLES
  rows,            \* request -> row, for the requests submitted
  accreditations,  \* wallets accredited on chain; an accreditation's id is its place
  indexed,         \* ids the Accreditation service has a row for
  review,          \* what each reviewer is doing
  faults           \* faults so far

vars == <<rows, accreditations, indexed, review, faults>>

NoId == 0
AccreditationIds == 1 .. MaxIssued

Row ==
  [wallet : Wallets, status : {"Pending", "Approved", "Rejected"},
   accreditationId : AccreditationIds \cup {NoId}, rejectionReason : BOOLEAN]

Submitted == DOMAIN rows
Issued == DOMAIN accreditations

\* issued, recorded: the tab between its calls; approving, rejecting: the service
\* between reading the row and writing it; approved: before the event is published.
Review ==
  [at : {"issued", "recorded", "approving", "approved"},
   request : Requests, accreditationId : AccreditationIds]
    \cup [at : {"rejecting"}, request : Requests]

Idle == [at |-> "idle"]

Init ==
  /\ rows = [q \in {} |-> {}]
  /\ accreditations = <<>>
  /\ indexed = {}
  /\ review = [v \in Reviewers |-> Idle]
  /\ faults = 0

Fault == faults < MaxFaults /\ faults' = faults + 1

-----------------------------------------------------------------------------
(* SubmitAsync *)

NewRow(wallet) ==
  [wallet |-> wallet, status |-> "Pending", accreditationId |-> NoId,
   rejectionReason |-> FALSE]

\* The id is a fresh Guid.
Submit(q, wallet) ==
  /\ q \notin Submitted
  /\ rows' = [p \in Submitted \cup {q} |-> IF p = q THEN NewRow(wallet) ELSE rows[p]]
  /\ UNCHANGED <<accreditations, indexed, review, faults>>

-----------------------------------------------------------------------------
(* submitApprove, and the services behind it *)

Goes(v, r) == review' = [review EXCEPT ![v] = r]

Step(v, at) == Goes(v, [review[v] EXCEPT !.at = at])

\* The transaction is mined.  One that fails leaves everything as it was.
IssueOnChain(v, q) ==
  /\ review[v].at = "idle"
  /\ q \in Submitted
  /\ Len(accreditations) < MaxIssued
  /\ accreditations' = Append(accreditations, rows[q].wallet)
  /\ Goes(v, [at |-> "issued", request |-> q, accreditationId |-> Len(accreditations) + 1])
  /\ UNCHANGED <<rows, indexed, faults>>

\* Faulty variant: the tab goes on without the answer of the report.
SkipReport(v) ==
  /\ review[v].at = "issued"
  /\ Step(v, "recorded")
  /\ UNCHANGED <<rows, accreditations, indexed, faults>>

\* Faulty variant: the id is looked up among those issued to the wallet.
RecordByLookup(v) ==
  /\ review[v].at = "issued"
  /\ \E n \in Issued :
       /\ accreditations[n] = rows[review[v].request].wallet
       /\ indexed' = indexed \cup {n}
       /\ Goes(v, [review[v] EXCEPT !.at = "recorded", !.accreditationId = n])
  /\ UNCHANGED <<rows, accreditations, faults>>

\* The report; the service finds the id in the events of the transaction.
RecordFromClientTx(v) ==
  /\ review[v].at = "issued"
  /\ indexed' = indexed \cup {review[v].accreditationId}
  /\ Step(v, "recorded")
  /\ UNCHANGED <<rows, accreditations, faults>>

Pending(q) == rows[q].status = "Pending"

\* Faulty variant: the status of the row is not looked at.
LoadAnyToApprove(v) ==
  /\ review[v].at = "recorded"
  /\ Step(v, "approving")
  /\ UNCHANGED <<rows, accreditations, indexed, faults>>

\* ApproveAsync reads the row; one that is decided by now ends in an error, and
\* the accreditation stays where it is.
LoadToApprove(v) ==
  /\ review[v].at = "recorded"
  /\ IF Pending(review[v].request) THEN Step(v, "approving") ELSE Goes(v, Idle)
  /\ UNCHANGED <<rows, accreditations, indexed, faults>>

\* Faulty variant: only the columns that were set are written.
ApprovedColumns(row, id) == [row EXCEPT !.status = "Approved", !.accreditationId = id]

\* Update marks every column as changed, so the whole row is written as it was when
\* it was read (Pending, that is) with the approval in it, over whatever another
\* call wrote meanwhile.
ApprovedRow(row, id) ==
  [NewRow(row.wallet) EXCEPT !.status = "Approved", !.accreditationId = id]

SaveApproval(v) ==
  LET q == review[v].request IN
  /\ review[v].at = "approving"
  /\ rows' = [rows EXCEPT ![q] = ApprovedRow(@, review[v].accreditationId)]
  /\ Step(v, "approved")
  /\ UNCHANGED <<accreditations, indexed, faults>>

PublishApproved(v) ==
  /\ review[v].at = "approved"
  /\ Goes(v, Idle)
  /\ UNCHANGED <<rows, accreditations, indexed, faults>>

\* A call fails, or its answer is lost: the tab shows an error and forgets what it
\* had done.  Taken up again, the request is accredited again.
CallFails(v) ==
  /\ review[v].at # "idle"
  /\ Goes(v, Idle)
  /\ Fault
  /\ UNCHANGED <<rows, accreditations, indexed>>

-----------------------------------------------------------------------------
(* submitReject *)

LoadToReject(v, q) ==
  /\ review[v].at = "idle"
  /\ q \in Submitted
  /\ Pending(q)
  /\ Goes(v, [at |-> "rejecting", request |-> q])
  /\ UNCHANGED <<rows, accreditations, indexed, faults>>

RejectedRow(row) ==
  [NewRow(row.wallet) EXCEPT !.status = "Rejected", !.rejectionReason = TRUE]

SaveRejection(v) ==
  /\ review[v].at = "rejecting"
  /\ rows' = [rows EXCEPT ![review[v].request] = RejectedRow(@)]
  /\ Goes(v, Idle)
  /\ UNCHANGED <<accreditations, indexed, faults>>

-----------------------------------------------------------------------------
Reviewing(v) ==
  \/ \E q \in Submitted : IssueOnChain(v, q) \/ LoadToReject(v, q)
  \/ RecordFromClientTx(v) \/ LoadToApprove(v) \/ SaveApproval(v) \/ PublishApproved(v)
  \/ SaveRejection(v)
  \/ CallFails(v)

Next ==
  \/ \E q \in Requests, wallet \in Wallets : Submit(q, wallet)
  \/ \E v \in Reviewers : Reviewing(v)

Spec == Init /\ [][Next]_vars

-----------------------------------------------------------------------------
(* Correctness *)

TypeOK ==
  /\ Submitted \subseteq Requests
  /\ rows \in [Submitted -> Row]
  /\ accreditations \in Seq(Wallets)
  /\ Len(accreditations) <= MaxIssued
  /\ indexed \subseteq Issued
  /\ review \in [Reviewers -> Review \cup {Idle}]
  /\ \A v \in Reviewers : review[v] # Idle => review[v].request \in Submitted
  /\ faults \in 0 .. MaxFaults

\* A request reads as one decision, never as a mixture of two that overlapped: what
\* the wallet shows of it (an accreditation, a reason) goes with its status.
RowsCohere ==
  \A q \in Submitted :
    /\ rows[q].status = "Approved" <=> rows[q].accreditationId # NoId
    /\ rows[q].status = "Rejected" <=> rows[q].rejectionReason

\* A wallet that is told of its approval is told of an accreditation that is on
\* chain, was issued to that wallet, and is in the service's index.
ApprovedNamesIssued ==
  \A q \in Submitted :
    rows[q].status = "Approved" =>
      /\ rows[q].accreditationId \in indexed
      /\ accreditations[rows[q].accreditationId] = rows[q].wallet

\* No two requests are approved with the same accreditation, whatever fails and is
\* tried again.
OneRequestEach ==
  \A p, q \in Submitted :
    rows[p].status = "Approved" /\ rows[p].accreditationId = rows[q].accreditationId => p = q

\* The service has read q as pending on someone's behalf and not written it back.
InHand(q) ==
  \E v \in Reviewers : review[v].at \in {"approving", "rejecting"} /\ review[v].request = q

Settled(q) == ~Pending(q) /\ ~InHand(q)

\* A decision may be overturned only by a call that had read the row before it; once
\* there is none, the decision stands for ever.
SettledStaysSettled ==
  [][\A q \in Submitted : Settled(q) => rows'[q] = rows[q] /\ Settled(q)']_vars
=============================================================================
