--------------------------- MODULE LeaseRegistry ---------------------------
(***************************************************************************)
(* ctmux_core::AttachmentLeaseRegistry: who owns the exclusive input lease  *)
(* of a terminal, or the exclusive layout lease of a view.  The registry is *)
(* plain data; the daemon guards it with a mutex, so every operator below   *)
(* is one critical section.  A lease is its owner, or NoOwner.              *)
(***************************************************************************)
CONSTANTS Attachment, NoOwner

ASSUME NoOwnerAssumption == NoOwner \notin Attachment

Lease == Attachment \cup {NoOwner}

\* What one attachment is told about a lease.
LeaseStatus(owner, a) == [held |-> owner # NoOwner, owned |-> owner = a]

\* request_initial: claims a requested lease nobody holds.
RequestInitial(owner, a, wanted) ==
    IF wanted /\ owner = NoOwner THEN a ELSE owner

\* Mutant: acquiring takes the lease from whoever holds it.
AcquireSteals(owner, a) == a

\* acquire: claims an unheld lease, never takes one from another attachment.
AcquireLease(owner, a) == IF owner \in {NoOwner, a} THEN a ELSE owner

\* release, and each half of release_attachment.
ReleaseLease(owner, a) == IF owner = a THEN NoOwner ELSE owner
=============================================================================
