---------------------------- MODULE Publication ----------------------------
(***************************************************************************)
(* Publication of the public dataset (artifacts/publication.py) through    *)
(* the hub adapter (integrations/huggingface.py), over many publications   *)
(* that may be killed, or fail, between any two of their steps.            *)
(*                                                                         *)
(* A file is a path of the publication inventory and its content a number, *)
(* the digest; Absent is a path that is not there.  The receipt records    *)
(* the digests of the last publication that reached its end; the next one  *)
(* uploads only what differs from the receipt and deletes what only the    *)
(* receipt has.  A commit that no receipt records is unknown to it.        *)
(***************************************************************************)
EXTENDS Naturals

CONSTANTS Files,       \* paths an inventory can hold
          MaxDigest    \* how many contents a file can have

ASSUME MaxDigestAssumption == MaxDigest \in Nat \ {0}

Absent == 0
Digests == 1..MaxDigest
Corrupt == MaxDigest + 1   \* what a failed upload leaves on the hub

VARIABLES
  local,     \* the inventory: digest of each file, or Absent
  remote,    \* the dataset repository on the hub
  receipt,   \* receipts/publication.json; Absent everywhere before the first
  publisher, \* where publish_dataset is
  unrecorded \* history: files a commit changed on the hub and no receipt records since

vars == <<local, remote, receipt, publisher, unrecorded>>

TypeOK ==
  /\ local \in [Files -> {Absent} \cup Digests]
  /\ remote \in [Files -> {Absent, Corrupt} \cup Digests]
  /\ receipt \in [Files -> {Absent} \cup Digests]
  /\ publisher \in {"idle", "planned", "committed", "verified", "published", "skipped"}
  /\ unrecorded \subseteq Files

Init ==
  /\ local = [f \in Files |-> 1]
  /\ remote = [f \in Files |-> Absent]
  /\ receipt = [f \in Files |-> Absent]
  /\ publisher = "idle"
  /\ unrecorded = {}

\* No publication is under way.
AtRest == publisher \in {"idle", "published", "skipped"}

\* _plan_commit: the files to upload and the paths to delete.  The receipt and
\* the inventory stay as they are until the publication ends.
NewPaths == {f \in Files : local[f] # Absent /\ receipt[f] = Absent}  \* faulty
Changed == {f \in Files : local[f] # Absent /\ receipt[f] # local[f]}
Deleted == {f \in Files : local[f] = Absent /\ receipt[f] # Absent}

\* Metadata is generated between two publications: a file gets another content,
\* a new one or one that it had before.
Generate(f) ==
  /\ AtRest
  /\ \E digest \in Digests \ {local[f]} : local' = [local EXCEPT ![f] = digest]
  /\ publisher' = "idle"
  /\ UNCHANGED <<remote, receipt, unrecorded>>

\* Another version of the program no longer publishes a path.
Retire(f) ==
  /\ AtRest
  /\ local[f] # Absent /\ \E g \in Files \ {f} : local[g] # Absent
  /\ local' = [local EXCEPT ![f] = Absent]
  /\ publisher' = "idle"
  /\ UNCHANGED <<remote, receipt, unrecorded>>

\* publish_dataset up to the plan: an inventory the receipt records is skipped.
Plan ==
  /\ AtRest
  /\ publisher' = IF receipt = local THEN "skipped" ELSE "planned"
  /\ UNCHANGED <<local, remote, receipt, unrecorded>>

\* hub.commit applies the plan as one commit.  An upload may arrive damaged.
CommitPlan ==
  /\ \E damaged \in SUBSET Changed :
       remote' = [f \in Files |-> IF f \in damaged THEN Corrupt
                                 ELSE IF f \in Changed THEN local[f]
                                 ELSE IF f \in Deleted THEN Absent ELSE remote[f]]
  /\ unrecorded' = unrecorded \cup Changed \cup Deleted

Commit ==
  /\ publisher = "planned"
  /\ CommitPlan
  /\ publisher' = "committed"
  /\ UNCHANGED <<local, receipt>>

\* hub.commit raises, whether or not the hub has applied the commit.
CommitRaises ==
  /\ publisher = "planned"
  /\ CommitPlan \/ UNCHANGED <<remote, unrecorded>>
  /\ publisher' = "idle"
  /\ UNCHANGED <<local, receipt>>

\* _verify_remote_files: every uploaded file is downloaded at the commit.
NoneMissing == \A f \in Changed : remote[f] # Absent  \* faulty: presence is enough
UploadsMatch == \A f \in Changed : remote[f] = local[f]

Verify ==
  /\ publisher = "committed"
  /\ UploadsMatch
  /\ publisher' = "verified"
  /\ UNCHANGED <<local, remote, receipt, unrecorded>>

\* _receipt_payload: the digests of the inventory, uploaded now or before.
RemoteDigests == remote  \* faulty: what the hub holds, damaged files included
RecordedDigests == local

\* _write_receipt replaces the receipt atomically.
WriteReceipt ==
  /\ publisher = "verified"
  /\ receipt' = RecordedDigests
  /\ publisher' = "published"
  /\ unrecorded' = unrecorded \ (Changed \cup Deleted)
  /\ UNCHANGED <<local, remote>>

\* A digest differs, a download fails, or the process is killed.  (The receipt
\* is renamed without a sync of its directory: a loss of power after
\* WriteReceipt is this step as well.)
Interrupted ==
  /\ publisher \in {"planned", "committed", "verified"}
  /\ publisher' = "idle"
  /\ UNCHANGED <<local, remote, receipt, unrecorded>>

Next ==
  \/ \E f \in Files : Generate(f) \/ Retire(f)
  \/ Plan \/ Commit \/ CommitRaises \/ Verify \/ WriteReceipt \/ Interrupted

Spec == Init /\ [][Next]_vars

(***************************************************************************)
(* Properties.                                                             *)
(***************************************************************************)

\* A publication that ends, by a commit or by a skip, leaves on the hub the
\* local content of every file of the inventory and no file that left it,
\* whatever failed before it, but for one case.  The plan and the skip look at
\* the receipt only: a file that a commit without a receipt changed, and that
\* has returned to what the receipt says of it, is neither uploaded nor deleted
\* again, and the hub keeps what the lost publication gave it.
PublishedIsRemote ==
  publisher \in {"published", "skipped"} =>
    \A f \in Files : remote[f] = local[f] \/ f \in unrecorded
=============================================================================
