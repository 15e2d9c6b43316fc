-------------------------- MODULE RegistrationProofs --------------------------
(***************************************************************************)
(* What holds of enterprise requests, and of the wallet that is set up     *)
(* with one, for any number of requests, wallets, reviewers,               *)
(* accreditations and faults, whatever the owner does and in whatever      *)
(* order services answer. The first part is about the requests alone, the  *)
(* second about the wallet with them.                                      *)
(***************************************************************************)
EXTENDS WalletSetup, TLAPS

Approvals == {"issued", "recorded", "approving", "approved"}

\* A reviewer's accreditation is on chain and was issued to the wallet of the request;
\* once it is reported, it is in the index.
ReviewsHold ==
  \A v \in Reviewers : review[v].at \in Approvals =>
    /\ review[v].accreditationId \in Issued
    /\ accreditations[review[v].accreditationId] = rows[review[v].request].wallet
    /\ review[v].at # "issued" => review[v].accreditationId \in indexed

\* The reviewer has an accreditation that no row names yet.
Holds(v) == review[v].at \in Approvals \ {"approved"}

\* Nobody else holds it, and no row names it.
Unshared ==
  /\ \A v, w \in Reviewers :
       Holds(v) /\ Holds(w) /\ review[v].accreditationId = review[w].accreditationId => v = w
  /\ \A v \in Reviewers, q \in Submitted :
       Holds(v) => rows[q].accreditationId # review[v].accreditationId

RegistrationInv ==
  TypeOK /\ ReviewsHold /\ RowsCohere /\ ApprovedNamesIssued /\ Unshared /\ OneRequestEach

-----------------------------------------------------------------------------
(* What a reviewer's state looks like *)

Approving == [at : Approvals, request : Requests, accreditationId : AccreditationIds]
Rejecting == [at : {"rejecting"}, request : Requests]

\* A reviewer that is not idle has a submitted request, and an accreditation to approve
\* it with if that is what it does.
LEMMA ReviewShape ==
  ASSUME TypeOK, NEW v \in Reviewers
  PROVE  /\ review[v] \in Approving \cup Rejecting \cup {Idle}
         /\ review[v] \in Approving <=> review[v].at \in Approvals
         /\ review[v].at # "idle" => review[v].request \in Submitted
<1>1. review[v] \in Approving \cup Rejecting \cup {Idle}
  BY DEF TypeOK, Review, Approving, Rejecting, Approvals
<1>2. review[v] \in Approving <=> review[v].at \in Approvals
  BY <1>1 DEF Approving, Rejecting, Idle, Approvals
<1>3. review[v].at # "idle" => review[v] # Idle
  BY DEF Idle
<1> QED
  BY <1>1, <1>2, <1>3 DEF TypeOK

\* Going to a state changes that reviewer's, and keeps the type.
LEMMA GoesTo ==
  ASSUME TypeOK, NEW v \in Reviewers, NEW r, Goes(v, r)
  PROVE  /\ review'[v] = r
         /\ \A w \in Reviewers : w # v => review'[w] = review[w]
         /\ r \in Approving \cup Rejecting \cup {Idle}
              => review' \in [Reviewers -> Review \cup {Idle}]
  BY DEF TypeOK, Goes, Review, Approving, Rejecting, Approvals

\* A step of an approval changes how far it is, and nothing else.
LEMMA StepsTo ==
  ASSUME TypeOK, NEW v \in Reviewers, review[v].at \in Approvals,
         NEW at \in Approvals, Step(v, at)
  PROVE  /\ review'[v] = [review[v] EXCEPT !.at = at]
         /\ review'[v] \in Approving
         /\ review'[v].at = at
         /\ review'[v].request = review[v].request
         /\ review'[v].accreditationId = review[v].accreditationId
         /\ \A w \in Reviewers : w # v => review'[w] = review[w]
         /\ review' \in [Reviewers -> Review \cup {Idle}]
<1> DEFINE r == [review[v] EXCEPT !.at = at]
<1>1. review[v] \in Approving
  BY ReviewShape
<1>2. r \in Approving /\ r.at = at /\ r.request = review[v].request
      /\ r.accreditationId = review[v].accreditationId
  BY <1>1 DEF Approving
<1>3. Goes(v, r)
  BY DEF Step
<1> QED
  BY <1>2, <1>3, GoesTo

-----------------------------------------------------------------------------
(* Each action keeps the invariant *)

\* A new request: pending, and named by nobody.
LEMMA SubmitKeeps ==
  ASSUME RegistrationInv, NEW q \in Requests, NEW wallet \in Wallets, Submit(q, wallet)
  PROVE  RegistrationInv'
<1> USE DEF RegistrationInv, Submit
<1>1. /\ Submitted' = Submitted \cup {q}
      /\ \A p \in Submitted : p # q /\ rows'[p] = rows[p]
      /\ rows'[q] = NewRow(wallet)
  BY DEF Submitted
<1>2. NewRow(wallet) \in Row
  BY DEF NewRow, Row
<1>3. TypeOK'
  <2>1. rows' \in [Submitted' -> Row]
    BY <1>1, <1>2 DEF TypeOK, Submitted
  <2> QED
    BY <2>1, <1>1 DEF TypeOK, Issued
<1>4. ReviewsHold'
  <2>1. \A v \in Reviewers : review[v].at \in Approvals => review[v].request \in Submitted
    BY ReviewShape DEF Approvals
  <2> QED
    BY <2>1, <1>1 DEF ReviewsHold, Issued
<1>5. RowsCohere'
  BY <1>1 DEF RowsCohere, NewRow
<1>6. ApprovedNamesIssued'
  BY <1>1 DEF ApprovedNamesIssued, NewRow
<1>7. Unshared'
  <2>1. \A v \in Reviewers : Holds(v) => review[v].accreditationId # NoId
    BY ReviewShape, RegistrationAssumption DEF Holds, Approving, AccreditationIds, NoId
  <2> QED
    BY <2>1, <1>1 DEF Unshared, Holds, NewRow
<1>8. OneRequestEach'
  BY <1>1 DEF OneRequestEach, RowsCohere, NewRow
<1> QED
  BY <1>3, <1>4, <1>5, <1>6, <1>7, <1>8

\* A new accreditation: its id is in no row and with no other reviewer.
LEMMA IssueKeeps ==
  ASSUME RegistrationInv, NEW v \in Reviewers, NEW q \in Submitted, IssueOnChain(v, q)
  PROVE  RegistrationInv'
<1> USE DEF RegistrationInv, IssueOnChain
<1> DEFINE n == Len(accreditations) + 1
           r == [at |-> "issued", request |-> q, accreditationId |-> n]
<1>1. /\ accreditations \in Seq(Wallets)
      /\ rows[q].wallet \in Wallets
      /\ Len(accreditations) < MaxIssued
      /\ accreditations' = Append(accreditations, rows[q].wallet)
  BY DEF TypeOK, Row
<1>2. /\ accreditations' \in Seq(Wallets)
      /\ Issued' = Issued \cup {n}
      /\ n \notin Issued
      /\ n \in AccreditationIds
      /\ Len(accreditations') <= MaxIssued
      /\ \A id \in Issued : accreditations'[id] = accreditations[id]
      /\ accreditations'[n] = rows[q].wallet
  BY <1>1, RegistrationAssumption DEF Issued, AccreditationIds
<1>3. r \in Approving
  BY <1>2 DEF Approving, Approvals, TypeOK
<1>4. /\ review'[v] = r
      /\ \A w \in Reviewers : w # v => review'[w] = review[w]
      /\ review' \in [Reviewers -> Review \cup {Idle}]
  BY <1>3, GoesTo
<1>5. \A p \in Submitted : rows[p].accreditationId # n
  <2>1. \A p \in Submitted : rows[p].accreditationId \in Issued \cup {NoId}
    <3> SUFFICES ASSUME NEW p \in Submitted PROVE rows[p].accreditationId \in Issued \cup {NoId}
      OBVIOUS
    <3>1. CASE rows[p].status = "Approved"
      BY <3>1 DEF ApprovedNamesIssued, TypeOK
    <3>2. CASE rows[p].status # "Approved"
      BY <3>2 DEF RowsCohere
    <3> QED
      BY <3>1, <3>2
  <2> QED
    BY <2>1, <1>2, RegistrationAssumption DEF NoId, AccreditationIds
<1>6. \A w \in Reviewers : Holds(w) => review[w].accreditationId # n
  BY <1>2 DEF ReviewsHold, Holds
<1>7. TypeOK'
  <2>1. \A w \in Reviewers : review'[w] # Idle => review'[w].request \in Submitted
    BY <1>4 DEF TypeOK
  <2> QED
    BY <2>1, <1>2, <1>4 DEF TypeOK, Submitted
<1>8. ReviewsHold'
  <2>1. \A w \in Reviewers : w # v /\ review[w].at \in Approvals
          => review[w].accreditationId \in Issued
    BY DEF ReviewsHold
  <2>2. ASSUME NEW w \in Reviewers \ {v}, review'[w].at \in Approvals
        PROVE  /\ review'[w].accreditationId \in Issued'
               /\ accreditations'[review'[w].accreditationId] = rows'[review'[w].request].wallet
               /\ review'[w].at # "issued" => review'[w].accreditationId \in indexed'
    <3>1. review'[w] = review[w] /\ review[w].at \in Approvals
      BY <2>2, <1>4
    <3>2. /\ review[w].accreditationId \in Issued
          /\ accreditations[review[w].accreditationId] = rows[review[w].request].wallet
          /\ review[w].at # "issued" => review[w].accreditationId \in indexed
      BY <3>1 DEF ReviewsHold
    <3>3. rows' = rows /\ indexed' = indexed
      OBVIOUS
    <3>4. accreditations'[review[w].accreditationId] = accreditations[review[w].accreditationId]
      BY <3>2, <1>2
    <3> QED
      BY <3>1, <3>2, <3>3, <3>4, <1>2
  <2>3. /\ review'[v].accreditationId \in Issued'
        /\ accreditations'[review'[v].accreditationId] = rows'[review'[v].request].wallet
        /\ review'[v].at = "issued"
    BY <1>2, <1>4
  <2> QED
    BY <2>2, <2>3 DEF ReviewsHold
<1>9. RowsCohere' /\ OneRequestEach'
  BY DEF RowsCohere, OneRequestEach, Submitted
<1>10. ApprovedNamesIssued'
  BY <1>2 DEF ApprovedNamesIssued, Submitted, TypeOK
<1>11. Unshared'
  BY <1>4, <1>5, <1>6 DEF Unshared, Holds, Submitted
<1> QED
  BY <1>7, <1>8, <1>9, <1>10, <1>11

\* A report: the accreditation is in the index from here on.
LEMMA RecordKeeps ==
  ASSUME RegistrationInv, NEW v \in Reviewers, RecordFromClientTx(v)
  PROVE  RegistrationInv'
<1> USE DEF RegistrationInv, RecordFromClientTx
<1> DEFINE n == review[v].accreditationId
<1>1. /\ review'[v] \in Approving
      /\ review'[v].at = "recorded"
      /\ review'[v].request = review[v].request
      /\ review'[v].accreditationId = n
      /\ \A w \in Reviewers : w # v => review'[w] = review[w]
      /\ review' \in [Reviewers -> Review \cup {Idle}]
  BY StepsTo DEF Approvals
<1>2. n \in Issued /\ accreditations[n] = rows[review[v].request].wallet
  BY DEF ReviewsHold, Approvals
<1>3. Issued' = Issued /\ Submitted' = Submitted /\ indexed' = indexed \cup {n}
  BY DEF Issued, Submitted
<1>4. TypeOK'
  <2>1. review[v].request \in Submitted
    BY ReviewShape
  <2>2. \A w \in Reviewers : review'[w] # Idle => review'[w].request \in Submitted
    BY <2>1, <1>1 DEF TypeOK
  <2> QED
    BY <2>2, <1>1, <1>2, <1>3 DEF TypeOK
<1>5. ReviewsHold'
  <2>1. \A w \in Reviewers \ {v} : review'[w].at \in Approvals =>
          /\ review'[w].accreditationId \in Issued'
          /\ accreditations'[review'[w].accreditationId] = rows'[review'[w].request].wallet
          /\ review'[w].at # "issued" => review'[w].accreditationId \in indexed'
    BY <1>1, <1>3 DEF ReviewsHold
  <2> QED
    BY <2>1, <1>1, <1>2, <1>3 DEF ReviewsHold
<1>6. RowsCohere' /\ OneRequestEach'
  BY <1>3 DEF RowsCohere, OneRequestEach
<1>7. ApprovedNamesIssued'
  BY <1>3 DEF ApprovedNamesIssued
<1>8. Unshared'
  <2>1. Holds(v) /\ \A w \in Reviewers : Holds(w)' => Holds(w)
    BY <1>1 DEF Holds, Approvals
  <2>2. \A w \in Reviewers : review'[w].accreditationId = review[w].accreditationId
    BY <1>1
  <2> QED
    BY <2>1, <2>2, <1>3 DEF Unshared
<1> QED
  BY <1>4, <1>5, <1>6, <1>7, <1>8

\* A reviewer goes to a state in which it holds what it held, or nothing; the rest is
\* as it was, but for the faults.
LEMMA MoveKeeps ==
  ASSUME RegistrationInv, NEW v \in Reviewers,
         \/ /\ review[v].at \in Approvals
            /\ \E at \in Approvals \ {"issued"} :
                  /\ Step(v, at)
                  /\ review[v].at # "issued"
                  /\ review[v].at = "approved" => at = "approved"
         \/ Goes(v, Idle)
         \/ \E q \in Submitted : Goes(v, [at |-> "rejecting", request |-> q]),
         UNCHANGED <<rows, accreditations, indexed>>,
         faults' \in 0 .. MaxFaults
  PROVE  RegistrationInv'
<1> USE DEF RegistrationInv
<1>1. /\ \A w \in Reviewers : w # v => review'[w] = review[w]
      /\ review' \in [Reviewers -> Review \cup {Idle}]
      /\ review'[v].at \in Approvals =>
           /\ review[v].at \in Approvals \ {"issued"}
           /\ review[v].at = "approved" => review'[v].at = "approved"
           /\ review'[v].at # "issued"
           /\ review'[v].request = review[v].request
           /\ review'[v].accreditationId = review[v].accreditationId
      /\ review'[v] # Idle => review'[v].request \in Submitted
  <2>1. CASE review[v].at \in Approvals /\ \E at \in Approvals \ {"issued"} :
               /\ Step(v, at)
               /\ review[v].at # "issued"
               /\ review[v].at = "approved" => at = "approved"
    <3>1. PICK at \in Approvals \ {"issued"} :
            /\ Step(v, at)
            /\ review[v].at # "issued"
            /\ review[v].at = "approved" => at = "approved"
      BY <2>1
    <3>2. review[v].request \in Submitted
      BY <2>1, ReviewShape DEF Approvals
    <3> QED
      BY <2>1, <3>1, <3>2, StepsTo
  <2>2. CASE Goes(v, Idle)
    BY <2>2, GoesTo DEF Idle, Approvals
  <2>3. CASE \E q \in Submitted : Goes(v, [at |-> "rejecting", request |-> q])
    <3>1. PICK q \in Submitted : Goes(v, [at |-> "rejecting", request |-> q])
      BY <2>3
    <3>2. [at |-> "rejecting", request |-> q] \in Rejecting
      BY DEF Rejecting, TypeOK
    <3> QED
      BY <3>1, <3>2, GoesTo DEF Approvals
  <2> QED
    BY <2>1, <2>2, <2>3
<1>2. Issued' = Issued /\ Submitted' = Submitted
  BY DEF Issued, Submitted
<1>3. TypeOK'
  <2>1. \A w \in Reviewers : review'[w] # Idle => review'[w].request \in Submitted
    BY <1>1 DEF TypeOK
  <2> QED
    BY <2>1, <1>1, <1>2 DEF TypeOK
<1>4. ReviewsHold'
  BY <1>1, <1>2 DEF ReviewsHold
<1>5. RowsCohere' /\ OneRequestEach' /\ ApprovedNamesIssued'
  BY <1>2 DEF RowsCohere, OneRequestEach, ApprovedNamesIssued
<1>6. Unshared'
  <2>1. \A w \in Reviewers : Holds(w)' =>
          Holds(w) /\ review'[w].accreditationId = review[w].accreditationId
    BY <1>1 DEF Holds, Approvals
  <2> QED
    BY <2>1, <1>2 DEF Unshared
<1> QED
  BY <1>3, <1>4, <1>5, <1>6

\* The row that a rejection writes back.
LEMMA RejectedRowIs ==
  ASSUME NEW row, row.wallet \in Wallets
  PROVE  /\ RejectedRow(row) \in Row
         /\ RejectedRow(row).wallet = row.wallet
         /\ RejectedRow(row).status = "Rejected"
         /\ RejectedRow(row).accreditationId = NoId
         /\ RejectedRow(row).rejectionReason = TRUE
<1> DEFINE new == [wallet |-> row.wallet, status |-> "Pending",
                   accreditationId |-> NoId, rejectionReason |-> FALSE]
<1>1. RejectedRow(row) =
        [new EXCEPT !.status = "Rejected", !.rejectionReason = TRUE]
  BY DEF RejectedRow, NewRow
<1>2. RejectedRow(row) =
        [wallet |-> row.wallet, status |-> "Rejected",
         accreditationId |-> NoId, rejectionReason |-> TRUE]
  BY <1>1
<1> QED
  BY <1>2 DEF Row

\* The row that an approval writes back.
LEMMA ApprovedRowIs ==
  ASSUME NEW row, row.wallet \in Wallets, NEW id \in AccreditationIds
  PROVE  /\ ApprovedRow(row, id) \in Row
         /\ ApprovedRow(row, id).wallet = row.wallet
         /\ ApprovedRow(row, id).status = "Approved"
         /\ ApprovedRow(row, id).accreditationId = id
         /\ ApprovedRow(row, id).rejectionReason = FALSE
<1> DEFINE new == [wallet |-> row.wallet, status |-> "Pending",
                   accreditationId |-> NoId, rejectionReason |-> FALSE]
<1>1. ApprovedRow(row, id) =
        [new EXCEPT !.status = "Approved", !.accreditationId = id]
  BY DEF ApprovedRow, NewRow
<1>2. ApprovedRow(row, id) =
        [wallet |-> row.wallet, status |-> "Approved",
         accreditationId |-> id, rejectionReason |-> FALSE]
  BY <1>1
<1> QED
  BY <1>2 DEF Row

\* An approval: the row takes the accreditation the reviewer held alone.
LEMMA SaveApprovalKeeps ==
  ASSUME RegistrationInv, NEW v \in Reviewers, SaveApproval(v)
  PROVE  RegistrationInv'
<1> USE DEF RegistrationInv, SaveApproval
<1> DEFINE q == review[v].request
           n == review[v].accreditationId
<1>1. /\ review'[v].at = "approved"
      /\ review'[v].request = q
      /\ review'[v].accreditationId = n
      /\ \A w \in Reviewers : w # v => review'[w] = review[w]
      /\ review' \in [Reviewers -> Review \cup {Idle}]
  BY StepsTo DEF Approvals
<1>2. /\ q \in Submitted
      /\ n \in AccreditationIds
      /\ n # NoId
  BY ReviewShape, RegistrationAssumption DEF Approvals, Approving, AccreditationIds, NoId
<1>3. n \in indexed /\ n \in Issued /\ accreditations[n] = rows[q].wallet
  BY DEF ReviewsHold, Approvals
<1>4. /\ Submitted' = Submitted /\ Issued' = Issued
      /\ \A p \in Submitted : p # q => rows'[p] = rows[p]
      /\ rows'[q] = ApprovedRow(rows[q], n)
  BY <1>2 DEF Submitted, Issued, TypeOK
<1>5. /\ rows'[q] \in Row
      /\ rows'[q].wallet = rows[q].wallet
      /\ rows'[q].status = "Approved"
      /\ rows'[q].accreditationId = n
      /\ rows'[q].rejectionReason = FALSE
  <2>1. rows[q].wallet \in Wallets
    BY <1>2 DEF TypeOK, Row
  <2>2. /\ ApprovedRow(rows[q], n) \in Row
        /\ ApprovedRow(rows[q], n).wallet = rows[q].wallet
        /\ ApprovedRow(rows[q], n).status = "Approved"
        /\ ApprovedRow(rows[q], n).accreditationId = n
        /\ ApprovedRow(rows[q], n).rejectionReason = FALSE
    <3> HIDE DEF SaveApproval, RegistrationInv
    <3> QED
      BY <2>1, <1>2, ApprovedRowIs
  <2> QED
    BY <2>2, <1>4
<1>6. TypeOK'
  <2>1. rows' \in [Submitted' -> Row]
    BY <1>2, <1>4, <1>5 DEF TypeOK
  <2>2. \A w \in Reviewers : review'[w] # Idle => review'[w].request \in Submitted
    BY <1>1, <1>2 DEF TypeOK
  <2> QED
    BY <2>1, <2>2, <1>1, <1>4 DEF TypeOK
<1>7. ReviewsHold'
  <2>1. \A p \in Submitted : rows'[p].wallet = rows[p].wallet
    BY <1>4, <1>5
  <2>2. \A w \in Reviewers : review[w].at \in Approvals => review[w].request \in Submitted
    BY ReviewShape DEF Approvals
  <2> QED
    BY <2>1, <2>2, <1>1, <1>2, <1>3, <1>4 DEF ReviewsHold
<1>8. RowsCohere'
  BY <1>2, <1>4, <1>5 DEF RowsCohere
<1>9. ApprovedNamesIssued'
  BY <1>3, <1>4, <1>5 DEF ApprovedNamesIssued
<1>10. Unshared'
  <2>1. \A w \in Reviewers : Holds(w)' =>
          Holds(w) /\ w # v /\ review'[w].accreditationId = review[w].accreditationId
    BY <1>1 DEF Holds
  <2>2. Holds(v)
    BY DEF Holds, Approvals
  <2>3. \A w \in Reviewers : Holds(w)' => review'[w].accreditationId # n
    BY <2>1, <2>2 DEF Unshared
  <2> QED
    BY <2>1, <2>3, <1>4, <1>5 DEF Unshared
<1>11. OneRequestEach'
  <2>1. \A p \in Submitted : rows[p].accreditationId # n
    <3>1. Holds(v)
      BY DEF Holds, Approvals
    <3> QED
      BY <3>1 DEF Unshared
  <2> QED
    BY <2>1, <1>4, <1>5 DEF OneRequestEach
<1> QED
  BY <1>6, <1>7, <1>8, <1>9, <1>10, <1>11

\* A rejection: the row names no accreditation, whatever it named before.
LEMMA SaveRejectionKeeps ==
  ASSUME RegistrationInv, NEW v \in Reviewers, SaveRejection(v)
  PROVE  RegistrationInv'
<1> USE DEF RegistrationInv, SaveRejection
<1> DEFINE q == review[v].request
<1>1. /\ review'[v] = Idle
      /\ \A w \in Reviewers : w # v => review'[w] = review[w]
      /\ review' \in [Reviewers -> Review \cup {Idle}]
  BY GoesTo
<1>2. q \in Submitted
  BY ReviewShape
<1>3. /\ Submitted' = Submitted /\ Issued' = Issued
      /\ \A p \in Submitted : p # q => rows'[p] = rows[p]
      /\ rows'[q] = RejectedRow(rows[q])
  BY <1>2 DEF Submitted, Issued, TypeOK
<1>4. /\ rows'[q] \in Row
      /\ rows'[q].wallet = rows[q].wallet
      /\ rows'[q].status = "Rejected"
      /\ rows'[q].accreditationId = NoId
      /\ rows'[q].rejectionReason = TRUE
  <2>1. rows[q].wallet \in Wallets
    BY <1>2 DEF TypeOK, Row
  <2>2. /\ RejectedRow(rows[q]) \in Row
        /\ RejectedRow(rows[q]).wallet = rows[q].wallet
        /\ RejectedRow(rows[q]).status = "Rejected"
        /\ RejectedRow(rows[q]).accreditationId = NoId
        /\ RejectedRow(rows[q]).rejectionReason = TRUE
    <3> HIDE DEF SaveRejection, RegistrationInv
    <3> QED
      BY <2>1, RejectedRowIs
  <2> QED
    BY <2>2, <1>3
<1>5. TypeOK'
  <2>1. rows' \in [Submitted' -> Row]
    BY <1>2, <1>3, <1>4 DEF TypeOK
  <2>2. \A w \in Reviewers : review'[w] # Idle => review'[w].request \in Submitted
    BY <1>1 DEF TypeOK
  <2> QED
    BY <2>1, <2>2, <1>1, <1>3 DEF TypeOK
<1>6. \A w \in Reviewers : review'[w].at \in Approvals => review'[w] = review[w]
  BY <1>1 DEF Idle, Approvals
<1>7. ReviewsHold'
  <2>1. \A p \in Submitted : rows'[p].wallet = rows[p].wallet
    BY <1>3, <1>4
  <2>2. \A w \in Reviewers : review[w].at \in Approvals => review[w].request \in Submitted
    BY ReviewShape DEF Approvals
  <2> QED
    BY <2>1, <2>2, <1>3, <1>6 DEF ReviewsHold
<1>8. RowsCohere'
  BY <1>3, <1>4 DEF RowsCohere
<1>9. ApprovedNamesIssued'
  BY <1>3, <1>4 DEF ApprovedNamesIssued
<1>10. Unshared'
  <2>1. \A w \in Reviewers : Holds(w)' =>
          /\ Holds(w)
          /\ review'[w].accreditationId = review[w].accreditationId
          /\ review[w].accreditationId # NoId
    BY <1>6, ReviewShape, RegistrationAssumption DEF Holds, Approving, AccreditationIds, NoId
  <2> QED
    BY <2>1, <1>3, <1>4 DEF Unshared
<1>11. OneRequestEach'
  BY <1>3, <1>4 DEF OneRequestEach, RowsCohere
<1> QED
  BY <1>5, <1>7, <1>8, <1>9, <1>10, <1>11

-----------------------------------------------------------------------------
(* The specification *)

\* The invariant is inductive.
LEMMA RegistrationStep ==
  ASSUME RegistrationInv, [Next]_vars
  PROVE  RegistrationInv'
<1>1. CASE UNCHANGED vars
  BY <1>1 DEF vars, RegistrationInv, TypeOK, ReviewsHold, RowsCohere, ApprovedNamesIssued,
              Unshared, OneRequestEach, Holds, Submitted, Issued
<1>2. ASSUME NEW q \in Requests, NEW wallet \in Wallets, Submit(q, wallet)
      PROVE  RegistrationInv'
  BY <1>2, SubmitKeeps
<1>3. ASSUME NEW v \in Reviewers, Reviewing(v)
      PROVE  RegistrationInv'
  <2>1. TypeOK /\ faults \in 0 .. MaxFaults
    BY DEF RegistrationInv, TypeOK
  <2>2. ASSUME NEW q \in Submitted, IssueOnChain(v, q)
        PROVE  RegistrationInv'
    BY <2>2, IssueKeeps
  <2>3. ASSUME NEW q \in Submitted, LoadToReject(v, q)
        PROVE  RegistrationInv'
    BY <2>1, <2>3, MoveKeeps DEF LoadToReject
  <2>4. CASE RecordFromClientTx(v)
    BY <2>4, RecordKeeps
  <2>5. CASE LoadToApprove(v)
    <3>1. \/ Step(v, "approving")
          \/ Goes(v, Idle)
      BY <2>5 DEF LoadToApprove
    <3>2. /\ review[v].at = "recorded"
          /\ UNCHANGED <<rows, accreditations, indexed, faults>>
      BY <2>5 DEF LoadToApprove
    <3> QED
      BY <2>1, <3>1, <3>2, MoveKeeps DEF Approvals
  <2>6. CASE SaveApproval(v)
    BY <2>6, SaveApprovalKeeps
  <2>7. CASE PublishApproved(v)
    BY <2>1, <2>7, MoveKeeps DEF PublishApproved
  <2>8. CASE SaveRejection(v)
    BY <2>8, SaveRejectionKeeps
  <2>9. CASE CallFails(v)
    <3>1. faults' \in 0 .. MaxFaults
      BY <2>1, <2>9, RegistrationAssumption DEF CallFails, Fault
    <3> QED
      BY <2>9, <3>1, MoveKeeps DEF CallFails
  <2> QED
    BY <1>3, <2>2, <2>3, <2>4, <2>5, <2>6, <2>7, <2>8, <2>9 DEF Reviewing
<1> QED
  BY <1>1, <1>2, <1>3 DEF Next

\* Nothing is submitted, issued or under review at the start.
LEMMA RegistrationStart == Init => RegistrationInv
<1> SUFFICES ASSUME Init PROVE RegistrationInv
  OBVIOUS
<1>1. Submitted = {} /\ Issued = {} /\ \A v \in Reviewers : review[v] = Idle
  BY DEF Init, Submitted, Issued
<1>2. rows \in [Submitted -> Row]
  BY <1>1 DEF Init, Submitted
<1>3. TypeOK
  BY <1>1, <1>2, RegistrationAssumption DEF Init, TypeOK, Issued
<1> QED
  BY <1>1, <1>3 DEF RegistrationInv, ReviewsHold, RowsCohere, ApprovedNamesIssued, Unshared,
                   OneRequestEach, Holds, Approvals, Idle

\* The invariant holds in every reachable state.
THEOREM RegistrationAlways == Spec => []RegistrationInv
BY RegistrationStart, RegistrationStep, PTL DEF Spec

\* The values of the variables keep their types: above all, no row and no reviewer
\* names a request or an accreditation that there is not.
THEOREM RegistrationTypeCorrect == Spec => []TypeOK
<1>1. RegistrationInv => TypeOK
  BY DEF RegistrationInv
<1> QED
  BY <1>1, RegistrationAlways, PTL

\* A request always reads as one decision, although approve and reject of the same row
\* may overlap.
THEOREM RowsAlwaysCohere == Spec => []RowsCohere
<1>1. RegistrationInv => RowsCohere
  BY DEF RegistrationInv
<1> QED
  BY <1>1, RegistrationAlways, PTL

\* A wallet is never told of an accreditation that was not issued to it.
THEOREM ApprovedAlwaysNamesIssued == Spec => []ApprovedNamesIssued
<1>1. RegistrationInv => ApprovedNamesIssued
  BY DEF RegistrationInv
<1> QED
  BY <1>1, RegistrationAlways, PTL

\* An accreditation decides one request at most, whatever fails in its three calls.
THEOREM AlwaysOneRequestEach == Spec => []OneRequestEach
<1>1. RegistrationInv => OneRequestEach
  BY DEF RegistrationInv
<1> QED
  BY <1>1, RegistrationAlways, PTL

\* A step writes only rows that a call has in hand, and takes only pending rows in hand.
LEMMA SettledStep ==
  ASSUME TypeOK, [Next]_vars, NEW q \in Submitted, Settled(q)
  PROVE  rows'[q] = rows[q] /\ Settled(q)'
<1>1. /\ rows[q].status # "Pending"
      /\ \A v \in Reviewers : review[v].at \in {"approving", "rejecting"} => review[v].request # q
  BY DEF Settled, InHand, Pending
<1> SUFFICES /\ rows'[q] = rows[q]
             /\ \A v \in Reviewers :
                  review'[v].at \in {"approving", "rejecting"} => review'[v].request # q
  BY <1>1 DEF Settled, InHand, Pending
<1>2. CASE UNCHANGED vars
  BY <1>1, <1>2 DEF vars
<1>3. ASSUME NEW p \in Requests, NEW wallet \in Wallets, Submit(p, wallet)
      PROVE  /\ rows'[q] = rows[q]
             /\ \A v \in Reviewers :
                  review'[v].at \in {"approving", "rejecting"} => review'[v].request # q
  BY <1>1, <1>3 DEF Submit
<1>4. ASSUME NEW v \in Reviewers, Reviewing(v)
      PROVE  /\ rows'[q] = rows[q]
             /\ \A w \in Reviewers :
                  review'[w].at \in {"approving", "rejecting"} => review'[w].request # q
  <2>1. rows'[q] = rows[q]
    <3>1. CASE SaveApproval(v)
      BY <1>1, <3>1 DEF SaveApproval, TypeOK
    <3>2. CASE SaveRejection(v)
      BY <1>1, <3>2 DEF SaveRejection, TypeOK
    <3>3. CASE UNCHANGED rows
      BY <3>3
    <3> QED
      BY <1>4, <3>1, <3>2, <3>3
      DEF Reviewing, IssueOnChain, LoadToReject, RecordFromClientTx, LoadToApprove,
          PublishApproved, CallFails
  <2>2. \A w \in Reviewers : w # v => review'[w] = review[w]
    BY <1>4, GoesTo
    DEF Reviewing, IssueOnChain, LoadToReject, RecordFromClientTx, LoadToApprove,
        SaveApproval, PublishApproved, SaveRejection, CallFails, Step
  <2>3. review'[v].at \in {"approving", "rejecting"} => review'[v].request # q
    <3>1. ASSUME NEW p \in Submitted, IssueOnChain(v, p)
          PROVE  review'[v].at = "issued"
      BY <3>1, GoesTo DEF IssueOnChain
    <3>2. ASSUME NEW p \in Submitted, LoadToReject(v, p)
          PROVE  review'[v].request # q
      BY <1>1, <3>2, GoesTo DEF LoadToReject, Pending
    <3>3. CASE RecordFromClientTx(v)
      BY <3>3, StepsTo DEF RecordFromClientTx, Approvals
    <3>4. CASE LoadToApprove(v)
      <4>1. CASE Pending(review[v].request)
        BY <1>1, <3>4, <4>1, StepsTo DEF LoadToApprove, Pending, Approvals
      <4>2. CASE ~Pending(review[v].request)
        BY <3>4, <4>2, GoesTo DEF LoadToApprove, Idle
      <4> QED
        BY <4>1, <4>2
    <3>5. CASE SaveApproval(v)
      BY <3>5, StepsTo DEF SaveApproval, Approvals
    <3>6. CASE PublishApproved(v) \/ SaveRejection(v) \/ CallFails(v)
      BY <3>6, GoesTo DEF PublishApproved, SaveRejection, CallFails, Idle
    <3> QED
      BY <1>4, <3>1, <3>2, <3>3, <3>4, <3>5, <3>6 DEF Reviewing
  <2> QED
    BY <1>1, <2>1, <2>2, <2>3
<1> QED
  BY <1>2, <1>3, <1>4 DEF Next

\* A decision stands for ever once no call that had read the row before it is left.
THEOREM SettledAlwaysStaysSettled == Spec => SettledStaysSettled
<1>1. TypeOK /\ [Next]_vars
        => [\A q \in Submitted : Settled(q) => rows'[q] = rows[q] /\ Settled(q)']_vars
  BY SettledStep
<1> QED
  BY <1>1, RegistrationTypeCorrect, PTL DEF Spec, SettledStaysSettled

-----------------------------------------------------------------------------
(* The wallet *)

\* A request is posted for an identity that exists.
GateHasIdentity == step = "gating" /\ accountType = "enterprise" => did # None

\* What is in storage was put there in order.
StorageInOrder ==
  /\ did # None => keys
  /\ finishing.at # "no" => keys
  /\ finishing.at \in {"profile", "complete"} => pin
  /\ profile # NoProfile =>
       keys /\ pin /\ (profile.type # "personal" => profile.accreditation # NoId)
  /\ created => profile # NoProfile
  /\ step = "open" => created

\* The wallet's own address holds the accreditation, if it is one.
Own(id) == id = NoId \/ (id \in indexed /\ accreditations[id] = OwnAddress)

\* Unless the key of an institution was typed in, there is one address in the whole
\* set-up, and every accreditation in it is that address's.
AllOwn ==
  ~typed =>
    /\ did \in {None, OwnAddress}
    /\ \A q \in Submitted : rows[q].wallet = OwnAddress
    /\ call # None => call.what = "post"
    /\ Own(accreditation)
    /\ finishing.at # "no" => finishing.profile.did = OwnAddress /\ Own(finishing.profile.accreditation)
    /\ profile # NoProfile => profile.did = OwnAddress /\ Own(profile.accreditation)

SetupInv ==
  RegistrationInv /\ SetupTypeOK /\ GateHasIdentity /\ StorageInOrder /\ AllOwn

-----------------------------------------------------------------------------
(* The services, as the wallet sees them *)

\* Requests, accreditations and index entries stay; a request keeps its wallet.
Grows ==
  /\ Submitted \subseteq Submitted'
  /\ \A q \in Submitted : rows'[q].wallet = rows[q].wallet
  /\ indexed \subseteq indexed'
  /\ \A id \in Issued : id \in Issued' /\ accreditations'[id] = accreditations[id]

\* A step of the registrations only adds to them.
LEMMA RegistrationGrows ==
  ASSUME TypeOK, [Next]_vars
  PROVE  Grows
<1>1. CASE UNCHANGED vars
  BY <1>1 DEF vars, Grows, Submitted, Issued
<1>2. ASSUME NEW q \in Requests, NEW wallet \in Wallets, Submit(q, wallet)
      PROVE  Grows
  BY <1>2 DEF Submit, Grows, Submitted, Issued
<1>3. ASSUME NEW v \in Reviewers, Reviewing(v)
      PROVE  Grows
  <2>1. ASSUME NEW q \in Submitted, IssueOnChain(v, q)
        PROVE  Grows
    <3>1. /\ accreditations \in Seq(Wallets)
          /\ rows[q].wallet \in Wallets
          /\ accreditations' = Append(accreditations, rows[q].wallet)
          /\ UNCHANGED <<rows, indexed>>
      BY <2>1 DEF IssueOnChain, TypeOK, Row
    <3> QED
      BY <3>1 DEF Grows, Submitted, Issued
  <2>2. CASE SaveApproval(v)
    <3>1. review[v].request \in Submitted
      BY <2>2, ReviewShape DEF SaveApproval
    <3>2. ApprovedRow(rows[review[v].request], review[v].accreditationId).wallet
            = rows[review[v].request].wallet
      <4>1. rows[review[v].request].wallet \in Wallets
        BY <3>1 DEF TypeOK, Row
      <4>2. review[v].accreditationId \in AccreditationIds
        BY <2>2, ReviewShape DEF SaveApproval, Approvals, Approving
      <4> QED
        BY <4>1, <4>2, ApprovedRowIs
    <3> QED
      BY <2>2, <3>1, <3>2 DEF SaveApproval, Grows, TypeOK, Submitted, Issued
  <2>3. CASE SaveRejection(v)
    <3>1. review[v].request \in Submitted
      BY <2>3, ReviewShape DEF SaveRejection
    <3>2. RejectedRow(rows[review[v].request]).wallet = rows[review[v].request].wallet
      <4>1. rows[review[v].request].wallet \in Wallets
        BY <3>1 DEF TypeOK, Row
      <4> QED
        BY <4>1, RejectedRowIs
    <3> QED
      BY <2>3, <3>1, <3>2 DEF SaveRejection, Grows, TypeOK, Submitted, Issued
  <2>4. CASE UNCHANGED <<rows, accreditations>> /\ indexed \subseteq indexed'
    BY <2>4 DEF Grows, Submitted, Issued
  <2> QED
    BY <1>3, <2>1, <2>2, <2>3, <2>4
    DEF Reviewing, LoadToReject, RecordFromClientTx, LoadToApprove, PublishApproved, CallFails
<1> QED
  BY <1>1, <1>2, <1>3 DEF Next

\* Of the registrations, a step of the set-up is one of their steps, or a fault.
LEMMA ServicesStep ==
  ASSUME SetupInv, [SetupNext]_setupVars
  PROVE  RegistrationInv' /\ Grows
<1>1. RegistrationInv /\ TypeOK
  BY DEF SetupInv, RegistrationInv
<1>2. CASE [Next]_vars
  BY <1>1, <1>2, RegistrationStep, RegistrationGrows
<1>3. CASE UNCHANGED <<rows, accreditations, indexed, review>> /\ Fault
  <2>1. faults' \in 0 .. MaxFaults
    BY <1>1, <1>3, RegistrationAssumption DEF TypeOK, Fault
  <2>2. RegistrationInv'
    BY <1>1, <1>3, <2>1
    DEF RegistrationInv, TypeOK, ReviewsHold, RowsCohere, ApprovedNamesIssued,
        Unshared, OneRequestEach, Holds, Submitted, Issued
  <2> QED
    BY <1>3, <2>2 DEF Grows, Submitted, Issued
<1>4. ASSUME NEW q \in Requests, SubmitRequest(q)
      PROVE  [Next]_vars
  <2>1. did \in Wallets
    BY <1>4 DEF SubmitRequest, SetupInv, SetupTypeOK, GateHasIdentity
  <2> QED
    BY <1>4, <2>1 DEF SubmitRequest, Next
<1>5. CASE UNCHANGED setupVars
  BY <1>2, <1>5 DEF setupVars
<1>6. ASSUME NEW v \in Reviewers, Reviewing(v)
      PROVE  [Next]_vars
  BY <1>6 DEF Next
<1> QED
  BY <1>2, <1>3, <1>4, <1>5, <1>6
  DEF SetupNext, Wizard, Choose, Continue, PinChosen, StepBack, KeepRequest, SubmitFails,
      CheckAnswers, PollEnterpriseApproval, CheckUniversityAccreditation, LookupAnswers,
      BeginFinish, SetupPin, SaveProfile, CompleteWalletSetup, FinishFails, Restart

-----------------------------------------------------------------------------
(* Each part of the invariant *)

\* A request is posted for an identity that exists.
LEMMA GateStep ==
  ASSUME SetupInv, [SetupNext]_setupVars
  PROVE  GateHasIdentity'
<1> USE SetupAssumption
<1>1. CASE UNCHANGED <<memory, storage>>
  BY <1>1 DEF memory, storage, GateHasIdentity, SetupInv
<1>2. ASSUME NEW type \in AccountTypes, Choose(type)
      PROVE  GateHasIdentity'
  BY <1>2 DEF Choose, AskAbout, storage, GateHasIdentity, SetupInv
<1>3. ASSUME NEW q \in Requests, SubmitRequest(q)
      PROVE  GateHasIdentity'
  BY <1>3 DEF SubmitRequest, storage, GateHasIdentity, SetupInv
<1>4. CASE Continue
  BY <1>4 DEF Continue, EnsureIdentity, storage, GateHasIdentity, SetupInv
<1>5. CASE PinChosen
  BY <1>5 DEF PinChosen, storage, GateHasIdentity, SetupInv
<1>6. CASE StepBack
  BY <1>6 DEF StepBack, EnsureIdentity, Leave, Left, Previous, storage, GateHasIdentity, SetupInv
<1>7. CASE KeepRequest
  BY <1>7 DEF KeepRequest, Answered, storage, GateHasIdentity, SetupInv
<1>8. CASE SubmitFails
  BY <1>8 DEF SubmitFails, Answered, storage, GateHasIdentity, SetupInv
<1>9. CASE PollEnterpriseApproval
  BY <1>9 DEF PollEnterpriseApproval, AskAbout, storage, GateHasIdentity, SetupInv
<1>10. CASE CheckAnswers
  BY <1>10 DEF CheckAnswers, TakeApproval, storage, GateHasIdentity, SetupInv
<1>11. CASE CheckUniversityAccreditation
  BY <1>11 DEF CheckUniversityAccreditation, storage, GateHasIdentity, SetupInv
<1>12. CASE LookupAnswers
  BY <1>12 DEF LookupAnswers, Answered, storage, GateHasIdentity, SetupInv
<1>13. CASE BeginFinish
  BY <1>13 DEF BeginFinish, EnsureIdentity, storage, GateHasIdentity, SetupInv
<1>14. CASE SetupPin
  BY <1>14 DEF SetupPin, storage, GateHasIdentity, SetupInv
<1>15. CASE SaveProfile
  BY <1>15 DEF SaveProfile, storage, GateHasIdentity, SetupInv
<1>16. CASE CompleteWalletSetup
  BY <1>16 DEF CompleteWalletSetup, Leave, Left, storage, GateHasIdentity, SetupInv
<1>17. CASE FinishFails
  BY <1>17 DEF FinishFails, storage, GateHasIdentity, SetupInv
<1>18. CASE Restart
  BY <1>18 DEF Restart, HasWallet, storage, GateHasIdentity, SetupInv
<1> QED
  BY <1>1, <1>2, <1>3, <1>4, <1>5, <1>6, <1>7, <1>8, <1>9, <1>10, <1>11, <1>12, <1>13, <1>14,
     <1>15, <1>16, <1>17, <1>18
     DEF SetupNext, Wizard, setupVars

\* What is in storage was put there in order.
LEMMA StorageStep ==
  ASSUME SetupInv, [SetupNext]_setupVars
  PROVE  StorageInOrder'
<1>1. CASE UNCHANGED <<memory, storage>>
  BY <1>1 DEF memory, storage, StorageInOrder, SetupInv, SetupTypeOK, NotFinishing, HasWallet
<1>2. ASSUME NEW type \in AccountTypes, Choose(type)
      PROVE  StorageInOrder'
  BY <1>2
     DEF Choose, AskAbout, storage, StorageInOrder, SetupInv, SetupTypeOK, NotFinishing,
         HasWallet
<1>3. ASSUME NEW q \in Requests, SubmitRequest(q)
      PROVE  StorageInOrder'
  BY <1>3 DEF SubmitRequest, storage, StorageInOrder, SetupInv, SetupTypeOK, NotFinishing, HasWallet
<1>4. CASE Continue
  BY <1>4
     DEF Continue, EnsureIdentity, storage, StorageInOrder, SetupInv, SetupTypeOK, NotFinishing,
         HasWallet
<1>5. CASE PinChosen
  BY <1>5 DEF PinChosen, storage, StorageInOrder, SetupInv, SetupTypeOK, NotFinishing, HasWallet
<1>6. CASE StepBack
  BY <1>6
     DEF StepBack, EnsureIdentity, Leave, Left, Previous, storage, StorageInOrder, SetupInv,
         SetupTypeOK, NotFinishing, HasWallet
<1>7. CASE KeepRequest
  BY <1>7
     DEF KeepRequest, Answered, storage, StorageInOrder, SetupInv, SetupTypeOK, NotFinishing,
         HasWallet
<1>8. CASE SubmitFails
  BY <1>8
     DEF SubmitFails, Answered, storage, StorageInOrder, SetupInv, SetupTypeOK, NotFinishing,
         HasWallet
<1>9. CASE PollEnterpriseApproval
  BY <1>9
     DEF PollEnterpriseApproval, AskAbout, storage, StorageInOrder, SetupInv, SetupTypeOK,
         NotFinishing, HasWallet
<1>10. CASE CheckAnswers
  BY <1>10
     DEF CheckAnswers, TakeApproval, storage, StorageInOrder, SetupInv, SetupTypeOK,
         NotFinishing, HasWallet
<1>11. CASE CheckUniversityAccreditation
  BY <1>11
     DEF CheckUniversityAccreditation, storage, StorageInOrder, SetupInv, SetupTypeOK,
         NotFinishing, HasWallet
<1>12. CASE LookupAnswers
  BY <1>12
     DEF LookupAnswers, Answered, storage, StorageInOrder, SetupInv, SetupTypeOK, NotFinishing,
         HasWallet
<1>13. CASE BeginFinish
  BY <1>13
     DEF BeginFinish, EnsureIdentity, storage, StorageInOrder, SetupInv, SetupTypeOK,
         NotFinishing, HasWallet
<1>14. CASE SetupPin
  BY <1>14 DEF SetupPin, storage, StorageInOrder, SetupInv, SetupTypeOK, NotFinishing, HasWallet
<1>15. CASE SaveProfile
  <2>1. /\ finishing \in [at : {"pin", "profile", "complete"}, profile : Profile]
        /\ finishing.profile \in Profile
        /\ keys /\ pin
    BY <1>15 DEF SaveProfile, SetupInv, SetupTypeOK, StorageInOrder, NotFinishing
  <2>2. CASE finishing' = NotFinishing /\ UNCHANGED profile
    BY <1>15, <2>2 DEF SaveProfile, StorageInOrder, SetupInv, NotFinishing
  <2>3. CASE /\ finishing.profile.type # "personal" => finishing.profile.accreditation # NoId
             /\ finishing' = [finishing EXCEPT !.at = "complete"]
             /\ profile' = finishing.profile
    <3>1. finishing'.at = "complete"
      BY <2>1, <2>3
    <3>2. created => profile' # NoProfile
      BY <2>1, <2>3 DEF Profile, AccountTypes, NoProfile
    <3> QED
      BY <1>15, <2>1, <2>3, <3>1, <3>2 DEF SaveProfile, StorageInOrder, SetupInv
  <2> QED
    BY <1>15, <2>2, <2>3 DEF SaveProfile
<1>16. CASE CompleteWalletSetup
  BY <1>16
     DEF CompleteWalletSetup, Leave, Left, storage, StorageInOrder, SetupInv, SetupTypeOK,
         NotFinishing, HasWallet
<1>17. CASE FinishFails
  BY <1>17 DEF FinishFails, storage, StorageInOrder, SetupInv, SetupTypeOK, NotFinishing, HasWallet
<1>18. CASE Restart
  BY <1>18
     DEF Restart, HasWallet, storage, StorageInOrder, SetupInv, SetupTypeOK, NotFinishing,
         HasWallet
<1> QED
  BY <1>1, <1>2, <1>3, <1>4, <1>5, <1>6, <1>7, <1>8, <1>9, <1>10, <1>11, <1>12, <1>13, <1>14,
     <1>15, <1>16, <1>17, <1>18
     DEF SetupNext, Wizard, setupVars

\* SetupTypeOK in four parts.
PlaceTypes ==
  /\ step \in Steps
  /\ accountType \in AccountTypes
  /\ did \in Wallets \cup {None}
  /\ accreditation \in KnownIds
  /\ request \in Submitted \cup {None}
  /\ saved \in Submitted \cup {None}

FlagTypes == keys \in BOOLEAN /\ pin \in BOOLEAN /\ created \in BOOLEAN /\ typed \in BOOLEAN

CallTypes ==
  /\ check # None => check \in Check /\ check.request \in Submitted
  /\ call # None => call \in Call /\ (call.what = "post" => call.request \in Submitted)

ProfileTypes ==
  /\ finishing \in [at : {"pin", "profile", "complete"}, profile : Profile] \cup {NotFinishing}
  /\ profile \in Profile \cup {NoProfile}

\* The four parts make up the type invariant.
LEMMA TypeParts ==
  SetupTypeOK <=> TypeOK /\ PlaceTypes /\ FlagTypes /\ CallTypes /\ ProfileTypes
<1>1. {keys, pin, created, typed} \subseteq BOOLEAN <=> FlagTypes
  BY DEF FlagTypes
<1> QED
  BY <1>1 DEF SetupTypeOK, PlaceTypes, CallTypes, ProfileTypes

\* A call that is left behind is the call it was.
LEMMA LeaveKeeps ==
  ASSUME CallTypes, Leave
  PROVE  /\ check' # None =>
              check # None /\ check' \in Check /\ check'.request = check.request
         /\ call' # None =>
              /\ call # None /\ call' \in Call /\ call'.what = call.what
              /\ call.what = "post" => call'.request = call.request
<1>1. ASSUME check' # None
      PROVE  check # None /\ check' \in Check /\ check'.request = check.request
  <2>1. check # None /\ check' = [check EXCEPT !.here = FALSE]
    BY <1>1 DEF Leave, Left
  <2> QED
    BY <2>1 DEF CallTypes, Check
<1>2. ASSUME call' # None
      PROVE  /\ call # None /\ call' \in Call /\ call'.what = call.what
             /\ call.what = "post" => call'.request = call.request
  <2>1. call # None /\ call' = [call EXCEPT !.here = FALSE]
    BY <1>2 DEF Leave, Left
  <2>2. CASE call \in [what : {"post"}, request : Requests, here : BOOLEAN]
    BY <2>1, <2>2 DEF Call
  <2>3. CASE call \in [what : {"lookup"}, here : BOOLEAN]
    BY <2>1, <2>3 DEF Call
  <2> QED
    BY <2>1, <2>2, <2>3 DEF CallTypes, Call
<1> QED
  BY <1>1, <1>2

\* Where the wizard is, and whom and what it is about.
LEMMA PlaceStep ==
  ASSUME SetupInv, [SetupNext]_setupVars, RegistrationInv', Grows
  PROVE  PlaceTypes'
<1>t. PlaceTypes /\ CallTypes /\ FlagTypes /\ ProfileTypes /\ TypeOK /\ Submitted \subseteq Submitted'
  BY TypeParts DEF SetupInv, Grows
<1>1. CASE UNCHANGED <<memory, storage>>
  BY <1>1, <1>t, SetupAssumption DEF memory, storage, PlaceTypes, Steps, AccountTypes, KnownIds
<1>2. ASSUME NEW type \in AccountTypes, Choose(type)
      PROVE  PlaceTypes'
  BY <1>2, <1>t, SetupAssumption
     DEF Choose, AskAbout, storage, PlaceTypes, Steps, AccountTypes, KnownIds
<1>3. ASSUME NEW q \in Requests, SubmitRequest(q)
      PROVE  PlaceTypes'
  BY <1>3, <1>t, SetupAssumption
     DEF SubmitRequest, storage, PlaceTypes, Steps, AccountTypes, KnownIds
<1>4. CASE Continue
  BY <1>4, <1>t, SetupAssumption
     DEF Continue, EnsureIdentity, storage, PlaceTypes, Steps, AccountTypes, KnownIds
<1>5. CASE PinChosen
  BY <1>5, <1>t, SetupAssumption DEF PinChosen, storage, PlaceTypes, Steps, AccountTypes, KnownIds
<1>6. CASE StepBack
  BY <1>6, <1>t, SetupAssumption
     DEF StepBack, EnsureIdentity, Leave, Left, Previous, storage, PlaceTypes, Steps,
         AccountTypes, KnownIds
<1>7. CASE KeepRequest
  <2>1. call.request \in Submitted
    BY <1>7, <1>t DEF KeepRequest, Answered, CallTypes
  <2> QED
    BY <1>7, <1>t, <2>1 DEF KeepRequest, Answered, PlaceTypes, Steps, AccountTypes
<1>8. CASE SubmitFails
  BY <1>8, <1>t, SetupAssumption
     DEF SubmitFails, Answered, storage, PlaceTypes, Steps, AccountTypes, KnownIds
<1>9. CASE PollEnterpriseApproval
  BY <1>9, <1>t, SetupAssumption
     DEF PollEnterpriseApproval, AskAbout, storage, PlaceTypes, Steps, AccountTypes, KnownIds
<1>10. CASE CheckAnswers
  <2>1. /\ UNCHANGED <<accountType, did, request>>
        /\ \/ /\ accreditation' = rows[check.request].accreditationId
              /\ saved' = None
              /\ step' \in {"pin", step}
           \/ UNCHANGED <<accreditation, saved, step>>
    BY <1>10 DEF CheckAnswers, TakeApproval
  <2>2. rows[check.request].accreditationId \in KnownIds
    <3>1. check.request \in Submitted
      BY <1>10, <1>t DEF CheckAnswers, CallTypes
    <3> QED
      BY <1>t, <3>1 DEF TypeOK, Row, KnownIds
  <2> QED
    BY <1>t, <2>1, <2>2 DEF PlaceTypes, Steps
<1>11. CASE CheckUniversityAccreditation
  BY <1>11, <1>t, SetupAssumption
     DEF CheckUniversityAccreditation, storage, PlaceTypes, Steps, AccountTypes, KnownIds
<1>12. CASE LookupAnswers
  BY <1>12, <1>t, SetupAssumption
     DEF LookupAnswers, Answered, storage, PlaceTypes, Steps, AccountTypes, KnownIds
<1>13. CASE BeginFinish
  BY <1>13, <1>t, SetupAssumption
     DEF BeginFinish, EnsureIdentity, storage, PlaceTypes, Steps, AccountTypes, KnownIds
<1>14. CASE SetupPin
  BY <1>14, <1>t, SetupAssumption DEF SetupPin, storage, PlaceTypes, Steps, AccountTypes, KnownIds
<1>15. CASE SaveProfile
  BY <1>15, <1>t, SetupAssumption
     DEF SaveProfile, storage, PlaceTypes, Steps, AccountTypes, KnownIds
<1>16. CASE CompleteWalletSetup
  BY <1>16, <1>t, SetupAssumption
     DEF CompleteWalletSetup, Leave, Left, storage, PlaceTypes, Steps, AccountTypes, KnownIds
<1>17. CASE FinishFails
  BY <1>17, <1>t, SetupAssumption
     DEF FinishFails, storage, PlaceTypes, Steps, AccountTypes, KnownIds
<1>18. CASE Restart
  BY <1>18, <1>t, SetupAssumption
     DEF Restart, HasWallet, storage, PlaceTypes, Steps, AccountTypes, KnownIds
<1> QED
  BY <1>1, <1>2, <1>3, <1>4, <1>5, <1>6, <1>7, <1>8, <1>9, <1>10, <1>11, <1>12, <1>13, <1>14,
     <1>15, <1>16, <1>17, <1>18
     DEF SetupNext, Wizard, setupVars

\* The flags in storage.
LEMMA FlagStep ==
  ASSUME SetupInv, [SetupNext]_setupVars, RegistrationInv', Grows
  PROVE  FlagTypes'
<1>t. PlaceTypes /\ CallTypes /\ FlagTypes /\ ProfileTypes /\ TypeOK /\ Submitted \subseteq Submitted'
  BY TypeParts DEF SetupInv, Grows
<1>1. CASE UNCHANGED <<memory, storage>>
  BY <1>1, <1>t DEF memory, storage, FlagTypes
<1>2. ASSUME NEW type \in AccountTypes, Choose(type)
      PROVE  FlagTypes'
  BY <1>2, <1>t DEF Choose, AskAbout, storage, FlagTypes
<1>3. ASSUME NEW q \in Requests, SubmitRequest(q)
      PROVE  FlagTypes'
  BY <1>3, <1>t DEF SubmitRequest, storage, FlagTypes
<1>4. CASE Continue
  BY <1>4, <1>t DEF Continue, EnsureIdentity, storage, FlagTypes
<1>5. CASE PinChosen
  BY <1>5, <1>t DEF PinChosen, storage, FlagTypes
<1>6. CASE StepBack
  BY <1>6, <1>t DEF StepBack, EnsureIdentity, Leave, Left, Previous, storage, FlagTypes
<1>7. CASE KeepRequest
  BY <1>7, <1>t DEF KeepRequest, Answered, storage, FlagTypes
<1>8. CASE SubmitFails
  BY <1>8, <1>t DEF SubmitFails, Answered, storage, FlagTypes
<1>9. CASE PollEnterpriseApproval
  BY <1>9, <1>t DEF PollEnterpriseApproval, AskAbout, storage, FlagTypes
<1>10. CASE CheckAnswers
  BY <1>10, <1>t DEF CheckAnswers, TakeApproval, storage, FlagTypes
<1>11. CASE CheckUniversityAccreditation
  BY <1>11, <1>t DEF CheckUniversityAccreditation, storage, FlagTypes
<1>12. CASE LookupAnswers
  BY <1>12, <1>t DEF LookupAnswers, Answered, storage, FlagTypes
<1>13. CASE BeginFinish
  BY <1>13, <1>t DEF BeginFinish, EnsureIdentity, storage, FlagTypes
<1>14. CASE SetupPin
  BY <1>14, <1>t DEF SetupPin, storage, FlagTypes
<1>15. CASE SaveProfile
  BY <1>15, <1>t DEF SaveProfile, storage, FlagTypes
<1>16. CASE CompleteWalletSetup
  BY <1>16, <1>t DEF CompleteWalletSetup, Leave, Left, storage, FlagTypes
<1>17. CASE FinishFails
  BY <1>17, <1>t DEF FinishFails, storage, FlagTypes
<1>18. CASE Restart
  BY <1>18, <1>t DEF Restart, HasWallet, storage, FlagTypes
<1> QED
  BY <1>1, <1>2, <1>3, <1>4, <1>5, <1>6, <1>7, <1>8, <1>9, <1>10, <1>11, <1>12, <1>13, <1>14,
     <1>15, <1>16, <1>17, <1>18
     DEF SetupNext, Wizard, setupVars

\* The calls in flight are about requests that exist.
LEMMA CallStep ==
  ASSUME SetupInv, [SetupNext]_setupVars, RegistrationInv', Grows
  PROVE  CallTypes'
<1>t. PlaceTypes /\ CallTypes /\ FlagTypes /\ ProfileTypes /\ TypeOK /\ Submitted \subseteq Submitted'
  BY TypeParts DEF SetupInv, Grows
<1>1. CASE UNCHANGED <<memory, storage>>
  BY <1>1, <1>t DEF memory, storage, CallTypes
<1>2. ASSUME NEW type \in AccountTypes, Choose(type)
      PROVE  CallTypes'
  <2>1. saved # None => saved \in Submitted /\ saved \in Requests
    BY <1>t DEF PlaceTypes, TypeOK
  <2>2. \/ check' = [request |-> saved, here |-> TRUE] /\ saved # None
        \/ UNCHANGED check
    BY <1>2 DEF Choose, AskAbout
  <2>3. \/ check' \in Check /\ check'.request \in Submitted
        \/ UNCHANGED check
    <3>1. ASSUME saved \in Requests
          PROVE  [request |-> saved, here |-> TRUE] \in Check
      BY <3>1 DEF Check
    <3>2. CASE check' = [request |-> saved, here |-> TRUE] /\ saved # None
      <4>1. check'.request = saved
        BY <3>2
      <4> QED
        BY <2>1, <3>1, <3>2, <4>1
    <3> QED
      BY <2>2, <3>2
  <2>4. UNCHANGED call
    BY <1>2 DEF Choose
  <2> QED
    BY <1>t, <2>3, <2>4 DEF CallTypes
<1>3. ASSUME NEW q \in Requests, SubmitRequest(q)
      PROVE  CallTypes'
  <2>1. q \in Submitted'
    BY <1>3 DEF SubmitRequest, Submit, Submitted
  <2>2. call' = [what |-> "post", request |-> q, here |-> TRUE]
    BY <1>3 DEF SubmitRequest
  <2>3. call' \in Call /\ call'.request = q
    BY <1>3, <2>2 DEF Call
  <2> QED
    BY <1>3, <1>t, <2>1, <2>3 DEF SubmitRequest, CallTypes
<1>4. CASE Continue
  BY <1>4, <1>t DEF Continue, EnsureIdentity, storage, CallTypes
<1>5. CASE PinChosen
  BY <1>5, <1>t DEF PinChosen, storage, CallTypes
<1>6. CASE StepBack
  <2>1. Leave \/ UNCHANGED <<check, call>>
    BY <1>6 DEF StepBack
  <2> QED
    BY <1>t, <2>1, LeaveKeeps DEF CallTypes
<1>7. CASE KeepRequest
  BY <1>7, <1>t DEF KeepRequest, Answered, storage, CallTypes
<1>8. CASE SubmitFails
  BY <1>8, <1>t DEF SubmitFails, Answered, storage, CallTypes
<1>9. CASE PollEnterpriseApproval
  <2>1. request \in Submitted /\ request \in Requests
    BY <1>9, <1>t DEF PollEnterpriseApproval, PlaceTypes, TypeOK
  <2> QED
    BY <1>9, <1>t, <2>1 DEF PollEnterpriseApproval, AskAbout, CallTypes, Check
<1>10. CASE CheckAnswers
  BY <1>10, <1>t DEF CheckAnswers, TakeApproval, storage, CallTypes
<1>11. CASE CheckUniversityAccreditation
  <2>1. call' = [what |-> "lookup", here |-> TRUE]
    BY <1>11 DEF CheckUniversityAccreditation
  <2>2. call' \in Call /\ call'.what = "lookup"
    BY <2>1 DEF Call
  <2> QED
    BY <1>11, <1>t, <2>2 DEF CheckUniversityAccreditation, CallTypes
<1>12. CASE LookupAnswers
  BY <1>12, <1>t DEF LookupAnswers, Answered, storage, CallTypes
<1>13. CASE BeginFinish
  BY <1>13, <1>t DEF BeginFinish, EnsureIdentity, storage, CallTypes
<1>14. CASE SetupPin
  BY <1>14, <1>t DEF SetupPin, storage, CallTypes
<1>15. CASE SaveProfile
  BY <1>15, <1>t DEF SaveProfile, storage, CallTypes
<1>16. CASE CompleteWalletSetup
  BY <1>16, <1>t, LeaveKeeps DEF CompleteWalletSetup, CallTypes
<1>17. CASE FinishFails
  BY <1>17, <1>t DEF FinishFails, storage, CallTypes
<1>18. CASE Restart
  BY <1>18, <1>t DEF Restart, HasWallet, storage, CallTypes
<1> QED
  BY <1>1, <1>2, <1>3, <1>4, <1>5, <1>6, <1>7, <1>8, <1>9, <1>10, <1>11, <1>12, <1>13, <1>14,
     <1>15, <1>16, <1>17, <1>18
     DEF SetupNext, Wizard, setupVars

\* The profile, in the making and made.
LEMMA ProfileStep ==
  ASSUME SetupInv, [SetupNext]_setupVars, RegistrationInv', Grows
  PROVE  ProfileTypes'
<1>t. PlaceTypes /\ CallTypes /\ FlagTypes /\ ProfileTypes /\ TypeOK /\ Submitted \subseteq Submitted'
  BY TypeParts DEF SetupInv, Grows
<1>1. CASE UNCHANGED <<memory, storage>>
  BY <1>1, <1>t DEF memory, storage, ProfileTypes, NotFinishing
<1>2. ASSUME NEW type \in AccountTypes, Choose(type)
      PROVE  ProfileTypes'
  BY <1>2, <1>t DEF Choose, AskAbout, storage, ProfileTypes, NotFinishing
<1>3. ASSUME NEW q \in Requests, SubmitRequest(q)
      PROVE  ProfileTypes'
  BY <1>3, <1>t DEF SubmitRequest, storage, ProfileTypes, NotFinishing
<1>4. CASE Continue
  BY <1>4, <1>t DEF Continue, EnsureIdentity, storage, ProfileTypes, NotFinishing
<1>5. CASE PinChosen
  BY <1>5, <1>t DEF PinChosen, storage, ProfileTypes, NotFinishing
<1>6. CASE StepBack
  BY <1>6, <1>t
     DEF StepBack, EnsureIdentity, Leave, Left, Previous, storage, ProfileTypes, NotFinishing
<1>7. CASE KeepRequest
  BY <1>7, <1>t DEF KeepRequest, Answered, storage, ProfileTypes, NotFinishing
<1>8. CASE SubmitFails
  BY <1>8, <1>t DEF SubmitFails, Answered, storage, ProfileTypes, NotFinishing
<1>9. CASE PollEnterpriseApproval
  BY <1>9, <1>t DEF PollEnterpriseApproval, AskAbout, storage, ProfileTypes, NotFinishing
<1>10. CASE CheckAnswers
  BY <1>10, <1>t DEF CheckAnswers, TakeApproval, storage, ProfileTypes, NotFinishing
<1>11. CASE CheckUniversityAccreditation
  BY <1>11, <1>t DEF CheckUniversityAccreditation, storage, ProfileTypes, NotFinishing
<1>12. CASE LookupAnswers
  BY <1>12, <1>t DEF LookupAnswers, Answered, storage, ProfileTypes, NotFinishing
<1>13. CASE BeginFinish
  <2>1. did' \in Wallets
    BY <1>13, <1>t, SetupAssumption DEF BeginFinish, EnsureIdentity, PlaceTypes
  <2>2. [type |-> accountType, did |-> did', accreditation |-> accreditation] \in Profile
    BY <1>t, <2>1 DEF PlaceTypes, Profile
  <2> QED
    BY <1>13, <1>t, <2>2 DEF BeginFinish, ProfileTypes
<1>14. CASE SetupPin
  BY <1>14, <1>t DEF SetupPin, storage, ProfileTypes, NotFinishing
<1>15. CASE SaveProfile
  BY <1>15, <1>t DEF SaveProfile, storage, ProfileTypes, NotFinishing
<1>16. CASE CompleteWalletSetup
  BY <1>16, <1>t DEF CompleteWalletSetup, Leave, Left, storage, ProfileTypes, NotFinishing
<1>17. CASE FinishFails
  BY <1>17, <1>t DEF FinishFails, storage, ProfileTypes, NotFinishing
<1>18. CASE Restart
  BY <1>18, <1>t DEF Restart, HasWallet, storage, ProfileTypes, NotFinishing
<1> QED
  BY <1>1, <1>2, <1>3, <1>4, <1>5, <1>6, <1>7, <1>8, <1>9, <1>10, <1>11, <1>12, <1>13, <1>14,
     <1>15, <1>16, <1>17, <1>18
     DEF SetupNext, Wizard, setupVars

\* The part of AllOwn about requests.
OwnRows == ~typed => \A q \in Submitted : rows[q].wallet = OwnAddress

\* The part about memory and storage.
OwnMemory ==
  ~typed =>
    /\ did \in {None, OwnAddress}
    /\ call # None => call.what = "post"
    /\ Own(accreditation)
    /\ finishing.at # "no" => finishing.profile.did = OwnAddress /\ Own(finishing.profile.accreditation)
    /\ profile # NoProfile => profile.did = OwnAddress /\ Own(profile.accreditation)

\* AllOwn is the two together.
LEMMA OwnParts == AllOwn <=> OwnRows /\ OwnMemory
BY DEF AllOwn, OwnRows, OwnMemory

\* A request is made for the wallet's own address.
LEMMA OwnRowsStep ==
  ASSUME SetupInv, [SetupNext]_setupVars, RegistrationInv', Grows
  PROVE  OwnRows'
<1>1. OwnRows /\ OwnMemory /\ GateHasIdentity /\ typed \in BOOLEAN
  BY OwnParts, TypeParts DEF SetupInv, FlagTypes
<1>2. typed => typed'
  BY DEF SetupNext, Wizard, setupVars, storage, Choose, Continue, PinChosen, StepBack,
         SubmitRequest, KeepRequest, SubmitFails, CheckAnswers, PollEnterpriseApproval,
         CheckUniversityAccreditation, LookupAnswers, BeginFinish, SetupPin, SaveProfile,
         CompleteWalletSetup, FinishFails, Restart
<1>3. CASE Submitted' = Submitted
  BY <1>1, <1>2, <1>3 DEF OwnRows, Grows
<1>4. ASSUME NEW q \in Requests, SubmitRequest(q)
      PROVE  OwnRows'
  <2>1. ~typed => did = OwnAddress
    BY <1>1, <1>4 DEF OwnMemory, GateHasIdentity, SubmitRequest
  <2> QED
    BY <1>1, <1>2, <1>4, <2>1 DEF SubmitRequest, Submit, NewRow, OwnRows, Submitted
<1>5. ASSUME NEW v \in Reviewers, Reviewing(v)
      PROVE  Submitted' = Submitted
  BY <1>5 DEF Reviewing, IssueOnChain, LoadToReject, RecordFromClientTx, LoadToApprove,
              SaveApproval, PublishApproved, SaveRejection, CallFails, SetupInv, SetupTypeOK,
              TypeOK, Submitted
<1>6. CASE UNCHANGED rows
  BY <1>3, <1>6 DEF Submitted
<1> QED
  BY <1>3, <1>4, <1>5, <1>6
  DEF SetupNext, Wizard, setupVars, vars, Choose, Continue, PinChosen, StepBack,
      KeepRequest, SubmitFails, CheckAnswers, PollEnterpriseApproval,
      CheckUniversityAccreditation, LookupAnswers, BeginFinish, SetupPin, SaveProfile,
      CompleteWalletSetup, FinishFails, Restart

\* What memory and storage hold is the wallet's own.
LEMMA OwnMemoryStep ==
  ASSUME SetupInv, [SetupNext]_setupVars, RegistrationInv', Grows
  PROVE  OwnMemory'
<1>t. \A id : Own(id) => Own(id)'
  BY DEF SetupInv, RegistrationInv, TypeOK, Own, Grows
<1>o. OwnMemory /\ OwnRows /\ typed \in BOOLEAN
  BY OwnParts, TypeParts DEF SetupInv, FlagTypes
<1>c. CallTypes /\ ProfileTypes
  BY TypeParts DEF SetupInv
<1>1. CASE UNCHANGED <<memory, storage>>
  BY <1>1, <1>t, <1>o DEF memory, storage, OwnMemory, NotFinishing
<1>2. ASSUME NEW type \in AccountTypes, Choose(type)
      PROVE  OwnMemory'
  BY <1>2, <1>t, <1>o DEF Choose, AskAbout, storage, OwnMemory, NotFinishing
<1>3. ASSUME NEW q \in Requests, SubmitRequest(q)
      PROVE  OwnMemory'
  BY <1>3, <1>t, <1>o DEF SubmitRequest, storage, OwnMemory, NotFinishing
<1>4. CASE Continue
  BY <1>4, <1>t, <1>o DEF Continue, EnsureIdentity, storage, OwnMemory, NotFinishing
<1>5. CASE PinChosen
  BY <1>5, <1>t, <1>o DEF PinChosen, storage, OwnMemory, NotFinishing
<1>6. CASE StepBack
  <2>1. did' \in {did, OwnAddress}
    BY <1>6 DEF StepBack, EnsureIdentity
  <2>2. call' # None => call # None /\ call'.what = call.what
    BY <1>6, <1>c, LeaveKeeps DEF StepBack
  <2> QED
    BY <1>6, <1>t, <1>o, <2>1, <2>2 DEF StepBack, storage, OwnMemory
<1>7. CASE KeepRequest
  BY <1>7, <1>t, <1>o DEF KeepRequest, Answered, storage, OwnMemory, NotFinishing
<1>8. CASE SubmitFails
  BY <1>8, <1>t, <1>o DEF SubmitFails, Answered, storage, OwnMemory, NotFinishing
<1>9. CASE PollEnterpriseApproval
  BY <1>9, <1>t, <1>o DEF PollEnterpriseApproval, AskAbout, storage, OwnMemory, NotFinishing
<1>10. CASE CheckAnswers
  <2>1. ASSUME TakeApproval, ~typed
        PROVE  Own(accreditation')
    <3>1. check.request \in Submitted
      BY <1>10, <1>c DEF CheckAnswers, CallTypes
    <3> QED
      BY <1>o, <2>1, <3>1 DEF TakeApproval, SetupInv, RegistrationInv, ApprovedNamesIssued,
                              OwnRows, Own
  <2>2. ~typed => Own(accreditation')
    BY <1>10, <1>o, <2>1 DEF CheckAnswers, OwnMemory
  <2>3. ~typed => Own(accreditation)'
    BY <1>t, <2>2, <1>10 DEF CheckAnswers, vars, Own
  <2> QED
    BY <1>10, <1>t, <1>o, <2>3 DEF CheckAnswers, OwnMemory
<1>11. CASE CheckUniversityAccreditation
  BY <1>11, <1>t, <1>o DEF CheckUniversityAccreditation, storage, OwnMemory, NotFinishing
<1>12. CASE LookupAnswers
  BY <1>12, <1>t, <1>o DEF LookupAnswers, Answered, storage, OwnMemory, NotFinishing
<1>13. CASE BeginFinish
  BY <1>13, <1>t, <1>o DEF BeginFinish, EnsureIdentity, storage, OwnMemory, NotFinishing
<1>14. CASE SetupPin
  BY <1>14, <1>t, <1>o DEF SetupPin, storage, OwnMemory, NotFinishing
<1>15. CASE SaveProfile
  <2>1. CASE finishing' = NotFinishing /\ UNCHANGED profile
    BY <1>15, <1>t, <1>o, <2>1 DEF SaveProfile, OwnMemory, NotFinishing
  <2>2. CASE finishing' = [finishing EXCEPT !.at = "complete"] /\ profile' = finishing.profile
    <3>1. finishing \in [at : {"pin", "profile", "complete"}, profile : Profile]
      BY <1>15, <1>c DEF SaveProfile, ProfileTypes, NotFinishing
    <3>2. finishing'.profile = finishing.profile
      BY <2>2, <3>1
    <3>3. finishing.at # "no"
      BY <1>15 DEF SaveProfile
    <3> QED
      BY <1>15, <1>t, <1>o, <2>2, <3>2, <3>3 DEF SaveProfile, OwnMemory
  <2> QED
    BY <1>15, <2>1, <2>2 DEF SaveProfile
<1>16. CASE CompleteWalletSetup
  <2>1. call' # None => call # None /\ call'.what = call.what
    BY <1>16, <1>c, LeaveKeeps DEF CompleteWalletSetup
  <2> QED
    BY <1>16, <1>t, <1>o, <2>1 DEF CompleteWalletSetup, OwnMemory, NotFinishing
<1>17. CASE FinishFails
  BY <1>17, <1>t, <1>o DEF FinishFails, storage, OwnMemory, NotFinishing
<1>18. CASE Restart
  <2>1. Own(NoId)'
    BY DEF Own
  <2> QED
    BY <1>18, <1>t, <1>o, <2>1 DEF Restart, storage, OwnMemory, NotFinishing
<1> QED
  BY <1>1, <1>2, <1>3, <1>4, <1>5, <1>6, <1>7, <1>8, <1>9, <1>10, <1>11, <1>12, <1>13, <1>14,
     <1>15, <1>16, <1>17, <1>18
     DEF SetupNext, Wizard, setupVars

-----------------------------------------------------------------------------
(* The specification *)

\* A wallet that was just installed.
LEMMA SetupStart == SetupInit => SetupInv
<1> SUFFICES ASSUME SetupInit PROVE SetupInv
  OBVIOUS
<1>1. RegistrationInv /\ TypeOK
  BY RegistrationStart DEF SetupInit, RegistrationInv
<1>2. SetupTypeOK
  <2>1. PlaceTypes /\ FlagTypes /\ CallTypes /\ ProfileTypes
    BY DEF SetupInit, PlaceTypes, FlagTypes, CallTypes, ProfileTypes, Steps, AccountTypes, KnownIds
  <2> QED
    BY <1>1, <2>1, TypeParts
<1>3. GateHasIdentity /\ StorageInOrder
  BY DEF SetupInit, GateHasIdentity, StorageInOrder, NotFinishing
<1>4. AllOwn
  BY DEF SetupInit, Init, AllOwn, Own, NotFinishing, Submitted
<1> QED
  BY <1>1, <1>2, <1>3, <1>4 DEF SetupInv

\* The invariant is inductive.
LEMMA SetupStep ==
  ASSUME SetupInv, [SetupNext]_setupVars
  PROVE  SetupInv'
<1>1. RegistrationInv' /\ Grows
  BY ServicesStep
<1>2. SetupTypeOK'
  <2>1. TypeOK'
    BY <1>1 DEF RegistrationInv
  <2>2. PlaceTypes' /\ FlagTypes' /\ CallTypes' /\ ProfileTypes'
    BY <1>1, PlaceStep, FlagStep, CallStep, ProfileStep
  <2>3. (TypeOK /\ PlaceTypes /\ FlagTypes /\ CallTypes /\ ProfileTypes => SetupTypeOK)'
    BY TypeParts, PTL
  <2> QED
    BY <2>1, <2>2, <2>3
<1>3. AllOwn'
  <2>1. OwnRows' /\ OwnMemory'
    BY <1>1, OwnRowsStep, OwnMemoryStep
  <2>2. (OwnRows /\ OwnMemory => AllOwn)'
    BY OwnParts, PTL
  <2> QED
    BY <2>1, <2>2
<1>4. GateHasIdentity' /\ StorageInOrder'
  BY GateStep, StorageStep
<1> QED
  BY <1>1, <1>2, <1>3, <1>4 DEF SetupInv

\* The invariant holds in every reachable state.
THEOREM SetupAlways == SetupSpec => []SetupInv
BY SetupStart, SetupStep, PTL DEF SetupSpec

\* The registrations, used by the wizard, keep what they promise on their own: the
\* requests a wallet posts and the calls it loses are within what they were proved for.
THEOREM RegistrationKeptBySetup == SetupSpec => []RegistrationInv
<1>1. SetupInv => RegistrationInv
  BY DEF SetupInv
<1> QED
  BY <1>1, SetupAlways, PTL

\* Memory and storage keep their types: above all, every request the wallet knows of, or
\* asks about, is one the service has.
THEOREM SetupTypeCorrect == SetupSpec => []SetupTypeOK
<1>1. SetupInv => SetupTypeOK
  BY DEF SetupInv
<1> QED
  BY <1>1, SetupAlways, PTL

\* A set-up that was broken off never opens as a wallet, at whatever step it was.
THEOREM OnlyFinishedWalletsEverOpen == SetupSpec => []OnlyFinishedWalletsOpen
<1>1. SetupInv => OnlyFinishedWalletsOpen
  BY DEF SetupInv, StorageInOrder, OnlyFinishedWalletsOpen, HasWallet
<1> QED
  BY <1>1, SetupAlways, PTL

\* An enterprise's profile names an accreditation of the enterprise's own.
THEOREM EnterpriseAlwaysAccredited == SetupSpec => []EnterpriseIsAccredited
<1>1. SetupInv => EnterpriseIsAccredited
  <2> SUFFICES ASSUME SetupInv, profile.type = "enterprise", ~typed
               PROVE  /\ profile.accreditation \in indexed
                      /\ accreditations[profile.accreditation] = profile.did
    BY DEF EnterpriseIsAccredited
  <2>1. profile # NoProfile
    BY DEF NoProfile
  <2>2. profile.accreditation # NoId
    BY <2>1 DEF SetupInv, StorageInOrder
  <2>3. profile.did = OwnAddress /\ Own(profile.accreditation)
    BY <2>1 DEF SetupInv, AllOwn
  <2> QED
    BY <2>2, <2>3 DEF Own
<1> QED
  BY <1>1, SetupAlways, PTL
=============================================================================
