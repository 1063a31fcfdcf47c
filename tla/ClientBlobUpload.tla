-------------------------- MODULE ClientBlobUpload --------------------------
(***************************************************************************)
(* Leases on objects a browser uploaded straight to private Blob storage.  *)
(* The signed callback records a lease, a business transaction claims it   *)
(* together with the record that refers to the object, and reconciliation  *)
(* runs delete what nobody claimed in time.                                *)
(* Source: services/client-blob-upload.service.ts,                         *)
(* arsip-attachment-upload.service.ts, storage/vercel-blob.adapter.ts.     *)
(***************************************************************************)
EXTENDS Naturals

CONSTANTS
    Leases,         \* uploads, one lease each
    Legacy,         \* leases left by the former provider, never claimable
    Claimers,       \* concurrent business requests
    Runs,           \* concurrent reconciliation runs
    Ttl,            \* clientBlobClaimTtlMs
    Margin,         \* minimumRemainingMs of the preflight
    StaleRun,       \* STALE_CLEANUP_CLAIM_MS: 15 minutes
    Backoff,        \* attempt -> delay before a failed deletion is retried
    MaxAttempts,    \* bound on cleanup attempts per lease
    SlowClaims,     \* whether time may pass inside claimWithExecutor, between
                    \* new Date() and the UPDATE that compares it
    Horizon         \* bound on the clock

ASSUME LeaseAssumption ==
    /\ Leases # {}
    /\ Legacy \subseteq Leases
    /\ Ttl \in Nat \ {0}
    /\ Margin \in Nat
    /\ StaleRun \in Nat \ {0}
    /\ MaxAttempts \in Nat
    /\ Backoff \in [0 .. MaxAttempts -> Nat]
    /\ SlowClaims \in BOOLEAN
    /\ Horizon \in Nat

VARIABLES
    now,            \* the clock
    lease,          \* Leases -> the client_blob_uploads row
    object,         \* Leases -> the object in storage
    claimer,        \* Claimers -> local state of a business request
    run             \* Runs -> local state of cleanupExpired

vars == <<now, lease, object, claimer, run>>

Statuses == {"none", "authorized", "pending", "cleanup_started", "claimed",
             "release_cleanup", "deleted"}
Restorable == {"authorized", "pending", "release_cleanup"}
Lease == [status : Statuses, expires : Nat, previous : Restorable \cup {"none"},
          started : Nat, attempts : 0 .. MaxAttempts, failed : BOOLEAN,
          updated : Nat]
Objects == {"absent", "stored", "gone"}
AnyLease == CHOOSE l \in Leases : TRUE
Claimer == [phase : {"idle", "checked", "stamped"}, lease : Leases, at : Nat]
Run == [phase : {"idle", "working", "deleting", "settling"}, at : Nat,
        todo : SUBSET Leases,
        seen : [Leases -> Statuses \X (Restorable \cup {"none"})],
        lease : Leases, previous : Restorable \cup {"none"}, removed : BOOLEAN]
IdleClaimer == [phase |-> "idle", lease |-> AnyLease, at |-> 0]
IdleRun == [phase |-> "idle", at |-> 0, todo |-> {},
            seen |-> [l \in Leases |-> <<"none", "none">>],
            lease |-> AnyLease, previous |-> "none", removed |-> FALSE]
Row(status) == [status |-> status, expires |-> 0, previous |-> "none",
                started |-> 0, attempts |-> 0, failed |-> FALSE, updated |-> 0]

Init ==
    /\ now = 0
    /\ lease \in [Leases -> {Row("none"), Row("authorized"),
                            Row("release_cleanup"), Row("cleanup_started")}]
    /\ \A l \in Leases : l \in Legacy <=> lease[l].status # "none"
    /\ object = [l \in Leases |-> IF l \in Legacy THEN "stored" ELSE "absent"]
    /\ claimer = [c \in Claimers |-> IdleClaimer]
    /\ run = [r \in Runs |-> IdleRun]

\* The browser's upload; storage then calls back, perhaps never.
Upload(l) ==
    /\ object[l] = "absent"
    /\ object' = [object EXCEPT ![l] = "stored"]
    /\ UNCHANGED <<now, lease, claimer, run>>

\* recordCompletedUpload: INSERT .. ON CONFLICT DO NOTHING, so a repeated
\* callback neither extends nor revives a lease.
RecordCompletedUpload(l) ==
    /\ object[l] # "absent"
    /\ lease[l].status = "none"
    /\ lease' = [lease EXCEPT ![l] = [Row("pending") EXCEPT
                   !.expires = now + Ttl, !.updated = now]]
    /\ UNCHANGED <<now, object, claimer, run>>

(***************************************************************************)
(* Claims.                                                                 *)
(***************************************************************************)

\* preAuthorizeClaim, then the bounded read of the object.
PreAuthorize(c, l) ==
    /\ claimer[c].phase = "idle"
    /\ lease[l].status = "pending"
    /\ lease[l].expires > now + Margin
    /\ object[l] = "stored"
    /\ claimer' = [claimer EXCEPT ![c] = [phase |-> "checked", lease |-> l,
                                          at |-> 0]]
    /\ UNCHANGED <<now, lease, object, run>>

Claimed(l, at) == [lease[l] EXCEPT !.status = "claimed", !.updated = at]

\* finalize of an archive attachment: the lease row is locked and examined,
\* then claimed, in one transaction.
FinalizeArchive(c) ==
    /\ claimer[c].phase = "checked"
    /\ LET l == claimer[c].lease IN
         lease' = IF lease[l].status = "pending" /\ lease[l].expires > now
                    THEN [lease EXCEPT ![l] = Claimed(l, now)]
                    ELSE lease
    /\ claimer' = [claimer EXCEPT ![c] = IdleClaimer]
    /\ UNCHANGED <<now, object, run>>

\* claimWithExecutor of a letter or a regulatory source: the caller's clock
\* is read first ...
Stamp(c) ==
    /\ claimer[c].phase = "checked"
    /\ claimer' = [claimer EXCEPT ![c] = [@ EXCEPT !.phase = "stamped", !.at = now]]
    /\ UNCHANGED <<now, lease, object, run>>

\* Mutant: the claim does not look at the expiry.
ClaimableAnytime(l, at) == lease[l].status = "pending"

ClaimableAt(l, at) == /\ lease[l].status = "pending"
                      /\ lease[l].expires > at

\* ... and compared by the conditional UPDATE; no row is a ConflictError.
ClaimWithExecutor(c) ==
    /\ claimer[c].phase = "stamped"
    /\ LET l == claimer[c].lease IN
         lease' = IF ClaimableAt(l, claimer[c].at)
                    THEN [lease EXCEPT ![l] = Claimed(l, claimer[c].at)]
                    ELSE lease
    /\ claimer' = [claimer EXCEPT ![c] = IdleClaimer]
    /\ UNCHANGED <<now, object, run>>

\* The request fails elsewhere and its transaction rolls back.
GiveUp(c) ==
    /\ claimer[c].phase # "idle"
    /\ claimer' = [claimer EXCEPT ![c] = IdleClaimer]
    /\ UNCHANGED <<now, lease, object, run>>

(***************************************************************************)
(* Reconciliation: cleanupExpired.  Its clock is read once, when it starts.*)
(***************************************************************************)
\* Mutant: a deletion that keeps failing is given up.
GivenUp(l, at) ==
    lease[l].failed => /\ lease[l].attempts < MaxAttempts
                       /\ lease[l].updated + Backoff[lease[l].attempts] <= at

BackedOff(l, at) ==
    lease[l].failed => lease[l].updated + Backoff[lease[l].attempts] <= at

CleanupEligible(l, at) ==
    /\ \/ /\ lease[l].status \in {"authorized", "pending"}
          /\ lease[l].expires <= at
       \/ lease[l].status = "release_cleanup"
       \/ /\ lease[l].status = "cleanup_started"
          /\ lease[l].started + StaleRun <= at
    /\ BackedOff(l, at)

Begin(r) ==
    /\ run[r].phase = "idle"
    /\ \E l \in Leases : CleanupEligible(l, now)
    /\ run' = [run EXCEPT ![r] =
                 [IdleRun EXCEPT
                    !.phase = "working", !.at = now,
                    !.todo = {l \in Leases : CleanupEligible(l, now)},
                    !.seen = [l \in Leases |->
                                <<lease[l].status, lease[l].previous>>]]]
    /\ UNCHANGED <<now, lease, object, claimer>>

\* Mutant: a taken-over reservation remembers itself as the previous status.
PreviousAsSeen(r, l) == run[r].seen[l][1]

\* What to restore if the deletion fails, from the selected candidate.
PreviousStatus(r, l) ==
    IF run[r].seen[l][1] = "cleanup_started" THEN run[r].seen[l][2]
                                             ELSE run[r].seen[l][1]

Reserved(r, l) ==
    [lease[l] EXCEPT !.status = "cleanup_started", !.started = run[r].at,
                     !.previous = PreviousStatus(r, l),
                     !.attempts = lease[l].attempts + 1,
                     !.failed = FALSE, !.updated = run[r].at]

\* The reserving UPDATE; a candidate that is no longer eligible is skipped.
Reserve(r, l) ==
    /\ run[r].phase = "working"
    /\ l \in run[r].todo
    /\ lease[l].attempts < MaxAttempts
    /\ IF CleanupEligible(l, run[r].at)
         THEN /\ lease' = [lease EXCEPT ![l] = Reserved(r, l)]
              /\ run' = [run EXCEPT ![r] =
                   [@ EXCEPT !.phase = "deleting", !.todo = run[r].todo \ {l},
                             !.lease = l, !.previous = PreviousStatus(r, l)]]
         ELSE /\ run' = [run EXCEPT ![r].todo = @ \ {l}]
              /\ UNCHANGED lease
    /\ UNCHANGED <<now, object, claimer>>

\* deleteFile: every exception is reported as "not removed", including the
\* one of a deletion that took effect.
DeleteFile(r) ==
    /\ run[r].phase = "deleting"
    /\ \E effect, removed \in BOOLEAN :
         /\ removed => effect
         /\ object' = IF effect
              THEN [object EXCEPT ![run[r].lease] = "gone"] ELSE object
         /\ run' = [run EXCEPT ![r] =
                      [@ EXCEPT !.phase = "settling", !.removed = removed]]
    /\ UNCHANGED <<now, lease, claimer>>

\* Mutant: the settling UPDATE names the row by id only.
AlwaysReserved(l) == lease[l].status # "none"

StillReserved(l) == lease[l].status = "cleanup_started"

\* An unknown previous status is restored as authorized, never claimable.
SettledStatus(r, l) ==
    CASE run[r].removed -> "deleted"
      [] ~run[r].removed /\ run[r].previous \in Restorable -> run[r].previous
      [] OTHER -> "authorized"

SettledRow(r, l) ==
    [lease[l] EXCEPT !.status = SettledStatus(r, l), !.previous = "none",
                     !.started = 0, !.failed = ~run[r].removed, !.updated = now]

\* The settling UPDATE: deleted, or the previous status with a backoff.
SettleCleanup(r) ==
    /\ run[r].phase = "settling"
    /\ LET l == run[r].lease IN
         lease' = IF StillReserved(l)
                    THEN [lease EXCEPT ![l] = SettledRow(r, l)]
                    ELSE lease
    /\ run' = [run EXCEPT ![r].phase = "working"]
    /\ UNCHANGED <<now, object, claimer>>

\* A run ends when its candidates are done, or dies at any point.
EndRun(r) ==
    /\ run[r].phase # "idle"
    /\ run' = [run EXCEPT ![r] = IdleRun]
    /\ UNCHANGED <<now, lease, object, claimer>>

Tick ==
    /\ now < Horizon
    /\ \/ SlowClaims
       \/ \A c \in Claimers : claimer[c].phase # "stamped"
    /\ now' = now + 1
    /\ UNCHANGED <<lease, object, claimer, run>>

ClaimStep(c) == \/ \E l \in Leases : PreAuthorize(c, l)
                \/ FinalizeArchive(c) \/ Stamp(c) \/ ClaimWithExecutor(c)
                \/ GiveUp(c)

RunStep(r) == \/ Begin(r)
              \/ \E l \in Leases : Reserve(r, l)
              \/ DeleteFile(r) \/ SettleCleanup(r) \/ EndRun(r)

Next == \/ \E l \in Leases : Upload(l) \/ RecordCompletedUpload(l)
        \/ \E c \in Claimers : ClaimStep(c)
        \/ \E r \in Runs : RunStep(r)
        \/ Tick

Spec == Init /\ [][Next]_vars

-----------------------------------------------------------------------------

\* Types of the variables.
TypeOK ==
    /\ now \in Nat
    /\ lease \in [Leases -> Lease]
    /\ object \in [Leases -> Objects]
    /\ claimer \in [Claimers -> Claimer]
    /\ run \in [Runs -> Run]

\* An object a committed record refers to is never deleted by
\* reconciliation, neither before nor after the claim.
ClaimedKeepsObject ==
    \A l \in Leases : lease[l].status = "claimed" => object[l] = "stored"

\* A lease closed as deleted has no object left behind.
DeletedMeansGone ==
    \A l \in Leases : lease[l].status = "deleted" => object[l] = "gone"

\* Leases of the former provider never become claimable, however many runs
\* reserve, fail and restore them.
LegacyNeverClaimable ==
    \A l \in Legacy : lease[l].status \notin {"pending", "claimed"}

\* What was uploaded and is not claimed is never lost from sight: whatever
\* runs have reserved, failed to delete, restored or died over, a run that
\* starts after the claim window, a stale reservation and a backoff takes it.
NothingLeaked ==
    \A l \in Leases :
      lease[l].status \notin {"none", "claimed", "deleted"} =>
        CleanupEligible(l, now + Ttl + StaleRun + Backoff[lease[l].attempts])

\* Claimed and deleted are final, also for a run that comes back late.
ClosedStays ==
    \A l \in Leases :
      lease[l].status \in {"claimed", "deleted"} => lease'[l] = lease[l]
ClosedIsFinal == [][ClosedStays]_vars

\* What a lease means to those who wait for its object.
CustodyOf(l) ==
    CASE lease[l].status = "none" -> "none"
      [] lease[l].status = "claimed" -> "kept"
      [] lease[l].status = "deleted" -> "closed"
      [] OTHER -> IF l \in Legacy \/ lease[l].expires <= now THEN "lapsed" ELSE "offered"

Custody == INSTANCE ObjectCustody WITH custody <- [l \in Leases |-> CustodyOf(l)]

\* Through preflights, overlapping runs, reservations taken over, deletions
\* that fail or only seem to, and restored rows: what lapsed is never offered
\* again, what was claimed is kept, and an object only goes when its offer lapsed.
ImplementsCustody == Custody!CustodySpec

=============================================================================
