-------------------------- MODULE PublicationProofs --------------------------
(***************************************************************************)
(* Proofs about Publication, for every set of files and every bound on the *)
(* contents: type correctness, and what a publication that ends leaves on  *)
(* the hub, for a file that comes back to an earlier content as well.      *)
(***************************************************************************)
EXTENDS Publication, TLAPS

\* The receipt tells what the hub holds, but for the files of commits that it
\* does not record.
ReceiptIsRemote == \A f \in Files : f \in unrecorded \/ remote[f] = receipt[f]

\* What the publisher's place tells of the files.
PublisherKnows ==
  /\ publisher \in {"committed", "verified"} => \A f \in Deleted : remote[f] = Absent
  /\ publisher = "verified" => UploadsMatch
  /\ publisher \in {"published", "skipped"} => receipt = local

\* The inductive invariant behind PublishedIsRemote.
IInv == TypeOK /\ ReceiptIsRemote /\ PublisherKnows

USE MaxDigestAssumption

LEMMA InitInvariant == Init => IInv
  BY DEF Init, IInv, TypeOK, ReceiptIsRemote, PublisherKnows, Absent, Digests

\* A commit disturbs only the files of its plan, which count as unrecorded.
LEMMA CommitKeeps ==
  ASSUME IInv, CommitPlan, UNCHANGED <<local, receipt>>
  PROVE  /\ remote' \in [Files -> {Absent, Corrupt} \cup Digests]
         /\ unrecorded' \subseteq Files
         /\ ReceiptIsRemote'
         /\ \A f \in Deleted' : remote'[f] = Absent
<1>1. PICK damaged \in SUBSET Changed :
        remote' = [f \in Files |-> IF f \in damaged THEN Corrupt
                                   ELSE IF f \in Changed THEN local[f]
                                   ELSE IF f \in Deleted THEN Absent ELSE remote[f]]
  BY DEF CommitPlan
<1>2. unrecorded' = unrecorded \cup Changed \cup Deleted
  BY DEF CommitPlan
<1>3. remote' \in [Files -> {Absent, Corrupt} \cup Digests]
  BY <1>1 DEF IInv, TypeOK
<1>4. unrecorded' \subseteq Files
  BY <1>2 DEF IInv, TypeOK, Changed, Deleted
<1>5. ASSUME NEW f \in Files, f \notin unrecorded' PROVE remote'[f] = receipt'[f]
  <2>1. f \notin Changed /\ f \notin Deleted /\ f \notin unrecorded
    BY <1>2, <1>5
  <2>2. remote'[f] = remote[f]
    BY <1>1, <2>1
  <2> QED BY <2>1, <2>2 DEF IInv, ReceiptIsRemote
<1>6. ASSUME NEW f \in Deleted' PROVE remote'[f] = Absent
  <2>1. f \in Deleted /\ f \notin Changed
    BY <1>6 DEF Changed, Deleted
  <2> QED BY <1>1, <2>1 DEF Deleted
<1> QED BY <1>3, <1>4, <1>5, <1>6 DEF ReceiptIsRemote

LEMMA StepInvariant == IInv /\ [Next]_vars => IInv'
<1> SUFFICES ASSUME IInv, [Next]_vars PROVE IInv'
  OBVIOUS
<1> USE DEF IInv
<1>1. ASSUME NEW f \in Files, Generate(f) PROVE IInv'
  BY <1>1 DEF Generate, TypeOK, ReceiptIsRemote, PublisherKnows
<1>2. ASSUME NEW f \in Files, Retire(f) PROVE IInv'
  BY <1>2 DEF Retire, TypeOK, ReceiptIsRemote, PublisherKnows
<1>3. ASSUME Plan PROVE IInv'
  BY <1>3 DEF Plan, TypeOK, ReceiptIsRemote, PublisherKnows
<1>4. ASSUME Commit PROVE IInv'
  <2>1. TypeOK' /\ ReceiptIsRemote' /\ \A f \in Deleted' : remote'[f] = Absent
    BY <1>4, CommitKeeps DEF Commit, TypeOK
  <2> QED BY <1>4, <2>1 DEF Commit, PublisherKnows
<1>5. ASSUME CommitRaises PROVE IInv'
  <2>1. TypeOK' /\ ReceiptIsRemote'
    BY <1>5, CommitKeeps DEF CommitRaises, TypeOK, ReceiptIsRemote
  <2> QED BY <1>5, <2>1 DEF CommitRaises, PublisherKnows
<1>6. ASSUME Verify PROVE IInv'
  BY <1>6 DEF Verify, TypeOK, ReceiptIsRemote, PublisherKnows, UploadsMatch, Changed, Deleted
<1>7. ASSUME WriteReceipt PROVE IInv'
  <2>1. TypeOK'
    BY <1>7 DEF WriteReceipt, RecordedDigests, TypeOK
  <2>2. ASSUME NEW f \in Files, f \notin unrecorded' PROVE remote'[f] = receipt'[f]
    <3>1. remote'[f] = remote[f] /\ receipt'[f] = local[f]
      BY <1>7 DEF WriteReceipt, RecordedDigests
    <3>2. CASE f \in Changed
      BY <1>7, <3>1, <3>2 DEF WriteReceipt, PublisherKnows, UploadsMatch
    <3>3. CASE f \in Deleted
      BY <1>7, <3>1, <3>3 DEF WriteReceipt, PublisherKnows, Deleted
    <3>4. CASE f \notin Changed \cup Deleted
      <4>1. f \notin unrecorded /\ receipt[f] = local[f]
        BY <1>7, <2>2, <3>4 DEF WriteReceipt, Changed, Deleted
      <4> QED BY <3>1, <4>1 DEF ReceiptIsRemote
    <3> QED BY <3>2, <3>3, <3>4
  <2>3. PublisherKnows'
    BY <1>7 DEF WriteReceipt, RecordedDigests, PublisherKnows
  <2> QED BY <2>1, <2>2, <2>3 DEF ReceiptIsRemote
<1>8. ASSUME Interrupted PROVE IInv'
  BY <1>8 DEF Interrupted, TypeOK, ReceiptIsRemote, PublisherKnows
<1>9. ASSUME UNCHANGED vars PROVE IInv'
  BY <1>9 DEF vars, TypeOK, ReceiptIsRemote, PublisherKnows, UploadsMatch, Changed, Deleted
<1> QED BY <1>1, <1>2, <1>3, <1>4, <1>5, <1>6, <1>7, <1>8, <1>9 DEF Next

\* Receipt, inventory and hub stay in step over every publication that is
\* killed or fails: the inductive invariant holds for every instance.
THEOREM InvariantHolds == Spec => []IInv
  BY InitInvariant, StepInvariant, PTL DEF Spec

\* publish_dataset keeps every variable in its type.
THEOREM TypeCorrect == Spec => []TypeOK
<1>1. IInv => TypeOK
  BY DEF IInv
<1> QED BY <1>1, InvariantHolds, PTL

\* A publication that ends, by a commit or by a skip, leaves on the hub exactly
\* the inventory, but for the files that an unrecorded commit changed and that
\* neither it nor a later publication uploaded or deleted again.
THEOREM PublicationCorrect == Spec => []PublishedIsRemote
<1>1. IInv => PublishedIsRemote
  BY DEF IInv, PublisherKnows, ReceiptIsRemote, PublishedIsRemote
<1> QED BY <1>1, InvariantHolds, PTL
=============================================================================
