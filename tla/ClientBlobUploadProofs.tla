----------------------- MODULE ClientBlobUploadProofs -----------------------
(***************************************************************************)
(* Proofs about the leases, for any uploads, requests, runs and times.     *)
(***************************************************************************)
EXTENDS ClientBlobUpload, TLAPS

\* Everything a run selected may be restored to its previous status.
Selected ==
    \A r \in Runs : \A l \in run[r].todo :
      run[r].seen[l][1] \in Restorable \cup {"cleanup_started"}

TypeInv == TypeOK /\ Selected

LEMMA LeaseTypes ==
    TypeInv => /\ now \in Nat
               /\ lease \in [Leases -> Lease]
               /\ object \in [Leases -> Objects]
               /\ claimer \in [Claimers -> Claimer]
               /\ run \in [Runs -> Run]
               /\ \A c \in Claimers : claimer[c].lease \in Leases /\ claimer[c].at \in Nat
               /\ \A r \in Runs : run[r].lease \in Leases /\ run[r].at \in Nat
BY DEF TypeInv, TypeOK, Claimer, Run

LEMMA IdleTypes == IdleClaimer \in Claimer /\ IdleRun \in Run
<1>1. AnyLease \in Leases
  BY LeaseAssumption DEF AnyLease
<1>2. [l \in Leases |-> <<"none", "none">>]
        \in [Leases -> Statuses \X (Restorable \cup {"none"})]
  BY DEF Statuses
<1>. QED
  BY <1>1, <1>2 DEF IdleClaimer, IdleRun, Claimer, Run

LEMMA RowType ==
    ASSUME NEW status \in Statuses
    PROVE  Row(status) \in Lease /\ Row(status).status = status
BY LeaseAssumption DEF Row, Lease

LEMMA InitTypeInv == Init => TypeInv
<1>. SUFFICES ASSUME Init PROVE TypeInv
  OBVIOUS
<1>1. lease \in [Leases -> Lease]
  BY RowType DEF Init, Statuses
<1>2. TypeOK
  BY <1>1, IdleTypes DEF Init, TypeOK, Objects
<1>3. Selected
  BY DEF Init, Selected, IdleRun
<1>. QED
  BY <1>2, <1>3 DEF TypeInv

LEMMA ClaimedType ==
    ASSUME TypeInv, NEW l \in Leases, NEW at \in Nat
    PROVE  /\ Claimed(l, at) \in Lease
           /\ Claimed(l, at).status = "claimed"
           /\ Claimed(l, at).expires = lease[l].expires
           /\ Claimed(l, at).previous = lease[l].previous
<1>1. lease[l] \in Lease
  BY LeaseTypes
<1>. QED
  BY <1>1 DEF Claimed, Lease, Statuses

LEMMA PreviousType ==
    ASSUME TypeInv, NEW r \in Runs, NEW l \in run[r].todo
    PROVE  PreviousStatus(r, l) \in Restorable \cup {"none"}
<1>1. /\ run[r].seen[l] \in Statuses \X (Restorable \cup {"none"})
      /\ run[r].seen[l][1] \in Restorable \cup {"cleanup_started"}
  BY LeaseTypes DEF Run, TypeInv, Selected
<1>. QED
  BY <1>1 DEF PreviousStatus

LEMMA ReservedType ==
    ASSUME TypeInv, NEW r \in Runs, NEW l \in run[r].todo,
           lease[l].attempts < MaxAttempts
    PROVE  /\ Reserved(r, l) \in Lease
           /\ Reserved(r, l).status = "cleanup_started"
           /\ Reserved(r, l).expires = lease[l].expires
           /\ Reserved(r, l).previous = PreviousStatus(r, l)
           /\ Reserved(r, l).started = run[r].at /\ Reserved(r, l).updated = run[r].at
<1>1. l \in Leases /\ lease[l] \in Lease /\ run[r].at \in Nat
  BY LeaseTypes DEF Run
<1>2. lease[l].attempts + 1 \in 0 .. MaxAttempts
  BY <1>1, LeaseAssumption DEF Lease
<1>. DEFINE n == lease[l].attempts + 1
<1>. HIDE DEF n
<1>3. PreviousStatus(r, l) \in Restorable \cup {"none"}
  BY PreviousType
<1>4. Reserved(r, l) = [lease[l] EXCEPT !.status = "cleanup_started",
                          !.started = run[r].at, !.previous = PreviousStatus(r, l),
                          !.attempts = n, !.failed = FALSE, !.updated = run[r].at]
  BY DEF Reserved, n
<1>5. n \in 0 .. MaxAttempts
  BY <1>2 DEF n
<1>. QED
  BY <1>1, <1>3, <1>4, <1>5 DEF Lease, Statuses

LEMMA SettledType ==
    ASSUME TypeInv, NEW r \in Runs, NEW l \in Leases
    PROVE  /\ SettledRow(r, l) \in Lease
           /\ SettledRow(r, l).status = SettledStatus(r, l)
           /\ SettledRow(r, l).expires = lease[l].expires
           /\ SettledRow(r, l).previous = "none"
           /\ SettledRow(r, l).started = 0 /\ SettledRow(r, l).updated = now
<1>1. lease[l] \in Lease /\ now \in Nat /\ run[r].removed \in BOOLEAN
  BY LeaseTypes DEF Run
<1>2. SettledStatus(r, l) \in Statuses
  BY DEF SettledStatus, Statuses, Restorable
<1>. QED
  BY <1>1, <1>2 DEF SettledRow, Lease

\* Steps of requests leave the runs and the objects alone.
LEMMA ClaimTypeStep ==
    ASSUME TypeInv, NEW c \in Claimers, ClaimStep(c)
    PROVE  TypeInv'
<1>. USE LeaseTypes, IdleTypes
<1>1. UNCHANGED <<now, object, run>>
  BY DEF ClaimStep, PreAuthorize, FinalizeArchive, Stamp, ClaimWithExecutor, GiveUp
<1>2. lease' \in [Leases -> Lease]
  <2>1. CASE FinalizeArchive(c)
    BY <2>1, ClaimedType DEF FinalizeArchive
  <2>2. CASE ClaimWithExecutor(c)
    BY <2>2, ClaimedType DEF ClaimWithExecutor
  <2>. QED
    BY <2>1, <2>2 DEF ClaimStep, PreAuthorize, Stamp, GiveUp
<1>3. claimer' \in [Claimers -> Claimer]
  <2>1. ASSUME NEW l \in Leases, PreAuthorize(c, l) PROVE claimer' \in [Claimers -> Claimer]
    BY <2>1 DEF PreAuthorize, Claimer
  <2>2. CASE Stamp(c)
    <3>1. \A k \in Claimer : [k EXCEPT !.phase = "stamped", !.at = now] \in Claimer
      BY DEF Claimer
    <3>. QED
      BY <2>2, <3>1 DEF Stamp
  <2>3. CASE FinalizeArchive(c) \/ ClaimWithExecutor(c) \/ GiveUp(c)
    BY <2>3 DEF FinalizeArchive, ClaimWithExecutor, GiveUp
  <2>. QED
    BY <2>1, <2>2, <2>3 DEF ClaimStep
<1>. QED
  BY <1>1, <1>2, <1>3 DEF TypeInv, TypeOK, Selected

LEMMA RunTypeStep ==
    ASSUME TypeInv, NEW r \in Runs, RunStep(r)
    PROVE  TypeInv'
<1>. USE LeaseTypes, IdleTypes
<1>1. UNCHANGED <<now, claimer>>
  BY DEF RunStep, Begin, Reserve, DeleteFile, SettleCleanup, EndRun
<1>2. ASSUME NEW q \in Run, run' = [run EXCEPT ![r] = q],
             \A l \in q.todo : q.seen[l][1] \in Restorable \cup {"cleanup_started"}
      PROVE  run' \in [Runs -> Run] /\ Selected'
  BY <1>2 DEF TypeInv, Selected
<1>3. \A l \in run[r].todo :
        run[r].seen[l][1] \in Restorable \cup {"cleanup_started"}
  BY DEF TypeInv, Selected
<1>4. CASE Begin(r)
  <2>. DEFINE seen == [l \in Leases |-> <<lease[l].status, lease[l].previous>>]
             todo == {l \in Leases : CleanupEligible(l, now)}
             q == [IdleRun EXCEPT !.phase = "working", !.at = now,
                                  !.todo = todo, !.seen = seen]
  <2>1. seen \in [Leases -> Statuses \X (Restorable \cup {"none"})]
    BY DEF Lease
  <2>2. \A l \in todo : seen[l][1] \in Restorable \cup {"cleanup_started"}
    BY DEF CleanupEligible, Restorable
  <2>3. todo \in SUBSET Leases
    OBVIOUS
  <2>4. run' = [run EXCEPT ![r] = q]
    BY <1>4 DEF Begin
  <2>. HIDE DEF seen, todo
  <2>5. q \in Run /\ q.todo = todo /\ q.seen = seen
    BY <2>1, <2>3 DEF Run
  <2>. HIDE DEF q
  <2>6. run' \in [Runs -> Run] /\ Selected'
    BY <1>2, <2>2, <2>4, <2>5
  <2>. QED
    BY <1>1, <1>4, <2>6 DEF Begin, TypeInv, TypeOK
<1>5. ASSUME NEW l \in Leases, Reserve(r, l) PROVE TypeInv'
  <2>1. l \in run[r].todo /\ lease[l].attempts < MaxAttempts
    BY <1>5 DEF Reserve
  <2>2. CASE CleanupEligible(l, run[r].at)
    <3>. DEFINE q == [run[r] EXCEPT !.phase = "deleting", !.todo = run[r].todo \ {l},
                                   !.lease = l, !.previous = PreviousStatus(r, l)]
    <3>1. PreviousStatus(r, l) \in Restorable \cup {"none"}
      BY <2>1, PreviousType
    <3>2. q \in Run /\ q.todo = run[r].todo \ {l} /\ q.seen = run[r].seen
      BY <3>1 DEF Run
    <3>3. run' = [run EXCEPT ![r] = q] /\ UNCHANGED object
      BY <1>5, <2>2 DEF Reserve
    <3>. HIDE DEF q
    <3>4. run' \in [Runs -> Run] /\ Selected'
      BY <1>2, <1>3, <3>2, <3>3
    <3>5. lease' \in [Leases -> Lease]
      BY <1>5, <2>1, <2>2, ReservedType DEF Reserve
    <3>. QED
      BY <1>1, <3>3, <3>4, <3>5 DEF TypeInv, TypeOK
  <2>3. CASE ~CleanupEligible(l, run[r].at)
    <3>. DEFINE q == [run[r] EXCEPT !.todo = run[r].todo \ {l}]
    <3>1. q \in Run /\ q.todo = run[r].todo \ {l} /\ q.seen = run[r].seen
      BY DEF Run
    <3>2. run' = [run EXCEPT ![r] = q] /\ UNCHANGED <<lease, object>>
      BY <1>5, <2>3 DEF Reserve
    <3>. HIDE DEF q
    <3>3. run' \in [Runs -> Run] /\ Selected'
      BY <1>2, <1>3, <3>1, <3>2
    <3>. QED
      BY <1>1, <3>2, <3>3 DEF TypeInv, TypeOK
  <2>. QED
    BY <2>2, <2>3
<1>6. CASE DeleteFile(r)
  <2>1. PICK effect \in BOOLEAN, removed \in BOOLEAN :
          /\ object' = IF effect THEN [object EXCEPT ![run[r].lease] = "gone"] ELSE object
          /\ run' = [run EXCEPT ![r] =
                      [@ EXCEPT !.phase = "settling", !.removed = removed]]
    BY <1>6 DEF DeleteFile
  <2>. DEFINE q == [run[r] EXCEPT !.phase = "settling", !.removed = removed]
  <2>2. q \in Run /\ q.todo = run[r].todo /\ q.seen = run[r].seen
    BY DEF Run
  <2>3. run' = [run EXCEPT ![r] = q]
    BY <2>1
  <2>. HIDE DEF q
  <2>4. run' \in [Runs -> Run] /\ Selected'
    BY <1>2, <1>3, <2>2, <2>3
  <2>5. object' \in [Leases -> Objects]
    BY <2>1 DEF Objects
  <2>. QED
    BY <1>1, <1>6, <2>4, <2>5 DEF DeleteFile, TypeInv, TypeOK
<1>7. CASE SettleCleanup(r)
  <2>. DEFINE q == [run[r] EXCEPT !.phase = "working"]
  <2>1. q \in Run /\ q.todo = run[r].todo /\ q.seen = run[r].seen
    BY DEF Run
  <2>2. run' = [run EXCEPT ![r] = q]
    BY <1>7 DEF SettleCleanup
  <2>. HIDE DEF q
  <2>3. run' \in [Runs -> Run] /\ Selected'
    BY <1>2, <1>3, <2>1, <2>2
  <2>4. lease' \in [Leases -> Lease]
    BY <1>7, SettledType DEF SettleCleanup
  <2>. QED
    BY <1>1, <1>7, <2>3, <2>4 DEF SettleCleanup, TypeInv, TypeOK
<1>8. CASE EndRun(r)
  <2>1. IdleRun.todo = {}
    BY DEF IdleRun
  <2>2. run' \in [Runs -> Run] /\ Selected'
    BY <1>2, <1>8, <2>1 DEF EndRun
  <2>. QED
    BY <1>1, <1>8, <2>2 DEF EndRun, TypeInv, TypeOK
<1>. QED
  BY <1>4, <1>5, <1>6, <1>7, <1>8 DEF RunStep

LEMMA TypeStep == TypeInv /\ [Next]_vars => TypeInv'
<1>. SUFFICES ASSUME TypeInv, [Next]_vars PROVE TypeInv'
  OBVIOUS
<1>. USE LeaseTypes
<1>1. ASSUME NEW l \in Leases, Upload(l) PROVE TypeInv'
  BY <1>1 DEF Upload, TypeInv, TypeOK, Objects, Selected
<1>2. ASSUME NEW l \in Leases, RecordCompletedUpload(l) PROVE TypeInv'
  <2>1. now + Ttl \in Nat /\ now \in Nat
    BY LeaseAssumption
  <2>2. Row("pending") \in Lease
    BY RowType DEF Statuses
  <2>3. [Row("pending") EXCEPT !.expires = now + Ttl, !.updated = now] \in Lease
    BY <2>1, <2>2 DEF Lease
  <2>. QED
    BY <1>2, <2>3 DEF RecordCompletedUpload, TypeInv, TypeOK, Selected
<1>3. CASE Tick
  BY <1>3 DEF Tick, TypeInv, TypeOK, Selected
<1>4. CASE UNCHANGED vars
  BY <1>4 DEF vars, TypeInv, TypeOK, Selected
<1>. QED
  BY <1>1, <1>2, <1>3, <1>4, ClaimTypeStep, RunTypeStep DEF Next


\* TypeOK: rows, requests and runs keep their types, and attempts stay within
\* their bound, whatever the uploads, requests, runs and times.
THEOREM BlobTypeCorrect == Spec => []TypeOK
<1>1. TypeInv => TypeOK
  BY DEF TypeInv
<1>. QED
  BY <1>1, InitTypeInv, TypeStep, PTL DEF Spec

-----------------------------------------------------------------------------

(***************************************************************************)
(* What a step may do to one lease.                                        *)
(***************************************************************************)
Recorded(l) ==
    /\ lease[l].status = "none"
    /\ object[l] # "absent"
    /\ lease'[l].status = "pending"
    /\ lease'[l].expires = now + Ttl
    /\ lease'[l].previous = "none"
    /\ lease'[l].started = 0 /\ lease'[l].updated = now

ClaimedBy(c, l) ==
    /\ lease[l].status = "pending"
    /\ \/ lease[l].expires > now
       \/ claimer[c].phase = "stamped" /\ lease[l].expires > claimer[c].at
    /\ lease'[l].status = "claimed"
    /\ lease'[l].expires = lease[l].expires
    /\ lease'[l].previous = lease[l].previous

ReservedBy(r, l) ==
    /\ l \in run[r].todo
    /\ CleanupEligible(l, run[r].at)
    /\ lease'[l].status = "cleanup_started"
    /\ lease'[l].expires = lease[l].expires
    /\ lease'[l].previous = PreviousStatus(r, l)
    /\ lease'[l].started = run[r].at /\ lease'[l].updated = run[r].at

SettledBy(r, l) ==
    /\ run[r].phase = "settling"
    /\ run[r].lease = l
    /\ lease[l].status = "cleanup_started"
    /\ lease'[l].status = SettledStatus(r, l)
    /\ lease'[l].expires = lease[l].expires
    /\ lease'[l].previous = "none"
    /\ lease'[l].started = 0 /\ lease'[l].updated = now

LeaseChange(l) ==
    \/ lease'[l] = lease[l]
    \/ Recorded(l)
    \/ \E c \in Claimers : ClaimedBy(c, l)
    \/ \E r \in Runs : ReservedBy(r, l) \/ SettledBy(r, l)

LEMMA LeaseStep ==
    ASSUME TypeInv, [Next]_vars, NEW l \in Leases
    PROVE  LeaseChange(l)
<1>. USE LeaseTypes DEF LeaseChange
<1>1. ASSUME NEW k \in Leases, Upload(k) PROVE LeaseChange(l)
  BY <1>1 DEF Upload
<1>2. ASSUME NEW k \in Leases, RecordCompletedUpload(k) PROVE LeaseChange(l)
  <2>1. CASE k = l
    <3>. DEFINE row == [Row("pending") EXCEPT !.expires = now + Ttl, !.updated = now]
    <3>1. /\ row.status = "pending" /\ row.previous = "none" /\ row.expires = now + Ttl
          /\ row.started = 0 /\ row.updated = now
      BY DEF Row
    <3>2. lease'[l] = row
      BY <1>2, <2>1 DEF RecordCompletedUpload
    <3>. QED
      BY <1>2, <2>1, <3>1, <3>2 DEF RecordCompletedUpload, Recorded
  <2>2. CASE k # l
    BY <1>2, <2>2 DEF RecordCompletedUpload
  <2>. QED
    BY <2>1, <2>2
<1>3. ASSUME NEW c \in Claimers, ClaimStep(c) PROVE LeaseChange(l)
  <2>1. ASSUME FinalizeArchive(c) PROVE LeaseChange(l)
    BY <2>1, ClaimedType DEF FinalizeArchive, ClaimedBy
  <2>2. ASSUME ClaimWithExecutor(c) PROVE LeaseChange(l)
    BY <2>2, ClaimedType DEF ClaimWithExecutor, ClaimableAt, ClaimedBy
  <2>. QED
    BY <1>3, <2>1, <2>2 DEF ClaimStep, PreAuthorize, Stamp, GiveUp
<1>4. ASSUME NEW r \in Runs, RunStep(r) PROVE LeaseChange(l)
  <2>1. ASSUME NEW k \in Leases, Reserve(r, k) PROVE LeaseChange(l)
    BY <2>1, ReservedType DEF Reserve, ReservedBy
  <2>2. ASSUME SettleCleanup(r) PROVE LeaseChange(l)
    BY <2>2, SettledType DEF SettleCleanup, StillReserved, SettledBy
  <2>. QED
    BY <1>4, <2>1, <2>2 DEF RunStep, Begin, DeleteFile, EndRun
<1>. QED
  BY <1>1, <1>2, <1>3, <1>4 DEF Next, Tick, vars

\* ClosedIsFinal: no step of any request or run changes a lease that was
\* claimed or closed as deleted.
THEOREM BlobClosedFinal == Spec => ClosedIsFinal
<1>1. ASSUME TypeInv, [Next]_vars PROVE ClosedStays
  <2>. SUFFICES ASSUME NEW l \in Leases, lease[l].status \in {"claimed", "deleted"}
                PROVE  lease'[l] = lease[l]
    BY DEF ClosedStays
  <2>. QED
    BY <1>1, LeaseStep
    DEF LeaseChange, Recorded, ClaimedBy, ReservedBy, CleanupEligible, SettledBy
<1>2. TypeInv /\ [Next]_vars => [ClosedStays]_vars
  BY <1>1
<1>. QED
  BY <1>2, InitTypeInv, TypeStep, PTL DEF Spec, ClosedIsFinal


-----------------------------------------------------------------------------

(***************************************************************************)
(* What a step may do to one run, and to one object.                       *)
(***************************************************************************)
SameSelection(r) == /\ run'[r].seen = run[r].seen
                    /\ run'[r].at = run[r].at

Begun(r) == /\ run'[r].phase = "working"
            /\ run'[r].previous = "none"
            /\ run'[r].at = now
            /\ \A l \in Leases :
                 run'[r].seen[l] = <<lease[l].status, lease[l].previous>>

Picked(r) == \E l \in run[r].todo :
               /\ CleanupEligible(l, run[r].at)
               /\ lease'[l].status = "cleanup_started"
               /\ lease'[l].expires = lease[l].expires
               /\ run'[r].lease = l
               /\ run'[r].previous = PreviousStatus(r, l)
               /\ run'[r].phase = "deleting"
               /\ SameSelection(r)

Moved(r) == /\ run'[r].phase \in {"deleting", "settling"} =>
                 run[r].phase \in {"deleting", "settling"}
            /\ run'[r].phase = "settling" /\ run'[r].removed =>
                 \/ run[r].phase = "settling" /\ run[r].removed
                 \/ object'[run[r].lease] = "gone"
            /\ run'[r].lease = run[r].lease
            /\ run'[r].previous = run[r].previous
            /\ SameSelection(r)

RunChange(r) == run'[r] = IdleRun \/ Begun(r) \/ Picked(r) \/ Moved(r)

ObjectChange(l) ==
    \/ object'[l] = object[l]
    \/ object[l] = "absent" /\ object'[l] = "stored"
    \/ /\ object'[l] = "gone"
       /\ \E r \in Runs : run[r].phase = "deleting" /\ run[r].lease = l

LEMMA RunChanges ==
    ASSUME TypeInv, [Next]_vars, NEW r \in Runs
    PROVE  RunChange(r)
<1>. USE LeaseTypes DEF RunChange
<1>1. ASSUME run'[r] = run[r] PROVE Moved(r)
  BY <1>1 DEF Moved, SameSelection
<1>2. ASSUME NEW q \in Runs, RunStep(q) PROVE RunChange(r)
  <2>1. CASE q # r
    <3>1. run'[r] = run[r]
      BY <1>2, <2>1 DEF RunStep, Begin, Reserve, DeleteFile, SettleCleanup, EndRun
    <3>. QED
      BY <1>1, <3>1
  <2>. SUFFICES ASSUME q = r PROVE RunChange(r)
    BY <2>1
  <2>2. ASSUME Begin(r) PROVE Begun(r)
    <3>. DEFINE seen == [l \in Leases |-> <<lease[l].status, lease[l].previous>>]
               todo == {l \in Leases : CleanupEligible(l, now)}
               b == [IdleRun EXCEPT !.phase = "working", !.at = now,
                                    !.todo = todo, !.seen = seen]
    <3>1. run'[r] = b
      BY <2>2 DEF Begin
    <3>2. \A l \in Leases : seen[l] = <<lease[l].status, lease[l].previous>>
      OBVIOUS
    <3>. HIDE DEF seen, todo
    <3>3. b.phase = "working" /\ b.at = now /\ b.seen = seen /\ b.previous = "none"
      BY DEF IdleRun
    <3>. QED
      BY <3>1, <3>2, <3>3 DEF Begun
  <2>3. ASSUME NEW l \in Leases, Reserve(r, l) PROVE RunChange(r)
    <3>1. CASE CleanupEligible(l, run[r].at)
      <4>. DEFINE b == [run[r] EXCEPT !.phase = "deleting", !.todo = run[r].todo \ {l},
                                     !.lease = l, !.previous = PreviousStatus(r, l)]
      <4>1. run'[r] = b
        BY <2>3, <3>1 DEF Reserve
      <4>2. /\ b.phase = "deleting" /\ b.lease = l /\ b.previous = PreviousStatus(r, l)
            /\ b.seen = run[r].seen /\ b.at = run[r].at
        BY DEF Run
      <4>. HIDE DEF b
      <4>3. l \in run[r].todo /\ lease'[l] = Reserved(r, l) /\ lease[l].attempts < MaxAttempts
        BY <2>3, <3>1 DEF Reserve
      <4>. QED
        BY <3>1, <4>1, <4>2, <4>3, ReservedType DEF Picked, SameSelection
    <3>2. CASE ~CleanupEligible(l, run[r].at)
      <4>1. run'[r] = [run[r] EXCEPT !.todo = @ \ {l}]
        BY <2>3, <3>2 DEF Reserve
      <4>2. run[r] \in Run
        OBVIOUS
      <4>. QED
        BY <4>1, <4>2 DEF Moved, SameSelection, Run
    <3>. QED
      BY <3>1, <3>2
  <2>4. ASSUME DeleteFile(r) PROVE Moved(r)
    <3>1. PICK effect \in BOOLEAN, removed \in BOOLEAN :
            /\ removed => effect
            /\ object' = IF effect THEN [object EXCEPT ![run[r].lease] = "gone"] ELSE object
            /\ run' = [run EXCEPT ![r] =
                        [@ EXCEPT !.phase = "settling", !.removed = removed]]
      BY <2>4 DEF DeleteFile
    <3>. DEFINE b == [run[r] EXCEPT !.phase = "settling", !.removed = removed]
    <3>2. run'[r] = b
      BY <3>1
    <3>3. /\ b.phase = "settling" /\ b.removed = removed /\ b.lease = run[r].lease
          /\ b.previous = run[r].previous /\ b.seen = run[r].seen /\ b.at = run[r].at
      BY DEF Run
    <3>. HIDE DEF b
    <3>4. removed => object'[run[r].lease] = "gone"
      BY <3>1
    <3>. QED
      BY <2>4, <3>2, <3>3, <3>4 DEF DeleteFile, Moved, SameSelection
  <2>5. ASSUME SettleCleanup(r) PROVE Moved(r)
    <3>1. run'[r] = [run[r] EXCEPT !.phase = "working"]
      BY <2>5 DEF SettleCleanup
    <3>2. run[r] \in Run
      OBVIOUS
    <3>. QED
      BY <3>1, <3>2 DEF Moved, SameSelection, Run
  <2>6. ASSUME EndRun(r) PROVE run'[r] = IdleRun
    BY <2>6 DEF EndRun
  <2>. QED
    BY <1>2, <2>2, <2>3, <2>4, <2>5, <2>6 DEF RunStep
<1>3. ASSUME NEW l \in Leases, Upload(l) \/ RecordCompletedUpload(l) PROVE RunChange(r)
  BY <1>1, <1>3 DEF Upload, RecordCompletedUpload
<1>4. ASSUME NEW c \in Claimers, ClaimStep(c) PROVE RunChange(r)
  <2>1. UNCHANGED run
    BY <1>4 DEF ClaimStep, PreAuthorize, FinalizeArchive, Stamp, ClaimWithExecutor, GiveUp
  <2>. QED
    BY <1>1, <2>1
<1>5. ASSUME Tick \/ UNCHANGED vars PROVE RunChange(r)
  BY <1>1, <1>5 DEF Tick, vars
<1>. QED
  BY <1>2, <1>3, <1>4, <1>5 DEF Next

LEMMA ObjectChanges ==
    ASSUME TypeInv, [Next]_vars, NEW l \in Leases
    PROVE  ObjectChange(l)
<1>. USE LeaseTypes DEF ObjectChange
<1>1. ASSUME NEW k \in Leases, Upload(k) PROVE ObjectChange(l)
  BY <1>1 DEF Upload
<1>2. ASSUME NEW k \in Leases, RecordCompletedUpload(k) PROVE ObjectChange(l)
  BY <1>2 DEF RecordCompletedUpload
<1>3. ASSUME NEW c \in Claimers, ClaimStep(c) PROVE ObjectChange(l)
  BY <1>3 DEF ClaimStep, PreAuthorize, FinalizeArchive, Stamp, ClaimWithExecutor, GiveUp
<1>4. ASSUME NEW r \in Runs, RunStep(r) PROVE ObjectChange(l)
  BY <1>4 DEF RunStep, Begin, Reserve, DeleteFile, SettleCleanup, EndRun
<1>. QED
  BY <1>1, <1>2, <1>3, <1>4 DEF Next, Tick, vars


-----------------------------------------------------------------------------

(***************************************************************************)
(* Leases of the former provider, and completed deletions.                 *)
(***************************************************************************)

\* Nothing a run may restore puts a legacy lease back as pending, and only
\* legacy leases are ever restored as release_cleanup.
Provider(l, status) ==
    /\ l \in Legacy => status \notin {"pending", "claimed"}
    /\ l \notin Legacy => status # "release_cleanup"

Separated ==
    /\ \A l \in Leases : /\ Provider(l, lease[l].status)
                         /\ Provider(l, lease[l].previous)
                         /\ l \in Legacy => lease[l].status # "none"
    /\ \A r \in Runs : /\ Provider(run[r].lease, run[r].previous)
                       /\ \A l \in Leases : /\ Provider(l, run[r].seen[l][1])
                                            /\ Provider(l, run[r].seen[l][2])

\* A run that will record a deletion has seen the object go.
Removed ==
    \A r \in Runs :
      run[r].phase = "settling" /\ run[r].removed => object[run[r].lease] = "gone"

LeaseInv == TypeInv /\ Separated /\ Removed /\ DeletedMeansGone

LEMMA InitLeaseInv == Init => LeaseInv
<1>. SUFFICES ASSUME Init PROVE LeaseInv
  OBVIOUS
<1>1. TypeInv
  BY InitTypeInv
<1>2. \A l \in Leases :
        /\ lease[l].previous = "none"
        /\ lease[l].status \in {"none", "authorized", "release_cleanup", "cleanup_started"}
        /\ l \in Legacy <=> lease[l].status # "none"
  <2>. SUFFICES ASSUME NEW l \in Leases
                PROVE  /\ lease[l].previous = "none"
                       /\ lease[l].status \in {"none", "authorized",
                                               "release_cleanup", "cleanup_started"}
                       /\ l \in Legacy <=> lease[l].status # "none"
    OBVIOUS
  <2>1. PICK status \in {"none", "authorized", "release_cleanup", "cleanup_started"} :
          lease[l] = Row(status)
    BY DEF Init
  <2>2. lease[l].status = status /\ lease[l].previous = "none"
    BY <2>1 DEF Row
  <2>3. l \in Legacy <=> lease[l].status # "none"
    BY DEF Init
  <2>. QED
    BY <2>2, <2>3
<1>3. \A r \in Runs : /\ run[r].previous = "none" /\ run[r].phase = "idle"
                      /\ \A l \in Leases : run[r].seen[l] = <<"none", "none">>
  BY DEF Init, IdleRun
<1>. QED
  BY <1>1, <1>2, <1>3 DEF LeaseInv, Separated, Provider, Removed, DeletedMeansGone

LEMMA IdleRunFields ==
    /\ IdleRun.phase = "idle" /\ IdleRun.previous = "none" /\ IdleRun.at = 0
    /\ \A l \in Leases : IdleRun.seen[l] = <<"none", "none">>
BY DEF IdleRun

LEMMA SeparatedStep ==
    ASSUME LeaseInv, [Next]_vars
    PROVE  Separated'
<1>. USE DEF LeaseInv
<1>1. ASSUME NEW r \in Runs, NEW l \in run[r].todo
      PROVE  l \in Leases /\ Provider(l, PreviousStatus(r, l))
  BY <1>1, LeaseTypes DEF Run, Separated, PreviousStatus
<1>2. ASSUME NEW l \in Leases
      PROVE  /\ Provider(l, lease'[l].status)
             /\ Provider(l, lease'[l].previous)
             /\ l \in Legacy => lease'[l].status # "none"
  <2>1. ASSUME NEW r \in Runs, ReservedBy(r, l)
        PROVE  Provider(l, lease'[l].status) /\ Provider(l, lease'[l].previous)
    BY <1>1, <2>1 DEF ReservedBy, Provider
  <2>2. ASSUME NEW r \in Runs, SettledBy(r, l)
        PROVE  Provider(l, lease'[l].status) /\ Provider(l, lease'[l].previous)
    BY <2>2 DEF SettledBy, SettledStatus, Separated, Provider
  <2>3. ASSUME NEW r \in Runs, ReservedBy(r, l) \/ SettledBy(r, l)
        PROVE  lease'[l].status # "none"
    BY <2>3 DEF ReservedBy, SettledBy, SettledStatus, Restorable
  <2>4. ASSUME Recorded(l) \/ \E c \in Claimers : ClaimedBy(c, l)
        PROVE  /\ Provider(l, lease'[l].status) /\ Provider(l, lease'[l].previous)
               /\ lease'[l].status # "none"
    BY <2>4 DEF Recorded, ClaimedBy, Separated, Provider
  <2>5. ASSUME lease'[l] = lease[l]
        PROVE  /\ Provider(l, lease'[l].status) /\ Provider(l, lease'[l].previous)
               /\ l \in Legacy => lease'[l].status # "none"
    BY <2>5 DEF Separated
  <2>. QED
    BY <2>1, <2>2, <2>3, <2>4, <2>5, LeaseStep DEF LeaseChange
<1>3. ASSUME NEW r \in Runs
      PROVE  /\ Provider(run'[r].lease, run'[r].previous)
             /\ \A l \in Leases : /\ Provider(l, run'[r].seen[l][1])
                                  /\ Provider(l, run'[r].seen[l][2])
  <2>1. CASE run'[r] = IdleRun
    BY <2>1, IdleRunFields DEF Provider
  <2>2. CASE Begun(r)
    BY <2>2 DEF Begun, Separated, Provider
  <2>3. CASE Picked(r)
    BY <1>1, <2>3 DEF Picked, SameSelection, Separated
  <2>4. CASE Moved(r)
    BY <2>4 DEF Moved, SameSelection, Separated
  <2>. QED
    BY <2>1, <2>2, <2>3, <2>4, RunChanges DEF RunChange
<1>. QED
  BY <1>2, <1>3 DEF Separated, Provider

\* An object that is gone stays gone.
LEMMA GoneStays ==
    ASSUME TypeInv, [Next]_vars, NEW l \in Leases, object[l] = "gone"
    PROVE  object'[l] = "gone"
BY ObjectChanges DEF ObjectChange

LEMMA LeaseInvStep == LeaseInv /\ [Next]_vars => LeaseInv'
<1>. SUFFICES ASSUME LeaseInv, [Next]_vars PROVE LeaseInv'
  OBVIOUS
<1>. USE DEF LeaseInv
<1>1. TypeInv' /\ Separated'
  BY TypeStep, SeparatedStep
<1>2. Removed'
  <2>. SUFFICES ASSUME NEW r \in Runs, run'[r].phase = "settling", run'[r].removed
                PROVE  object'[run'[r].lease] = "gone"
    BY DEF Removed
  <2>1. Moved(r)
    BY RunChanges, IdleRunFields DEF RunChange, Begun, Picked
  <2>. QED
    BY <2>1, GoneStays, LeaseTypes DEF Moved, Removed
<1>3. DeletedMeansGone'
  <2>. SUFFICES ASSUME NEW l \in Leases, lease'[l].status = "deleted"
                PROVE  object'[l] = "gone"
    BY DEF DeletedMeansGone
  <2>1. CASE lease'[l] = lease[l]
    BY <2>1, GoneStays DEF DeletedMeansGone
  <2>2. ASSUME NEW r \in Runs, SettledBy(r, l) PROVE object'[l] = "gone"
    <3>1. run[r].removed
      BY <2>2 DEF SettledBy, SettledStatus, Restorable
    <3>. QED
      BY <2>2, <3>1, GoneStays DEF SettledBy, Removed
  <2>. QED
    BY <2>1, <2>2, LeaseStep DEF LeaseChange, Recorded, ClaimedBy, ReservedBy
<1>. QED
  BY <1>1, <1>2, <1>3

THEOREM BlobInvariant == Spec => []LeaseInv
BY InitLeaseInv, LeaseInvStep, PTL DEF Spec

\* DeletedMeansGone: a lease closed as deleted leaves no object behind,
\* however runs overlap, die and take reservations over.
THEOREM BlobDeletedGone == Spec => []DeletedMeansGone
<1>1. LeaseInv => DeletedMeansGone
  BY DEF LeaseInv
<1>. QED
  BY <1>1, BlobInvariant, PTL

\* LegacyNeverClaimable: no sequence of reservations, failures and
\* restorations makes a lease of the former provider claimable.
THEOREM BlobLegacyClosed == Spec => []LegacyNeverClaimable
<1>1. LeaseInv => LegacyNeverClaimable
  BY LeaseAssumption DEF LeaseInv, Separated, Provider, LegacyNeverClaimable
<1>. QED
  BY <1>1, BlobInvariant, PTL


-----------------------------------------------------------------------------

(***************************************************************************)
(* Nothing is leaked.                                                      *)
(***************************************************************************)
RunClock == \A r \in Runs : run[r].at <= now

\* No stamp of an open lease lies ahead of the clock.
OnTime ==
    \A l \in Leases :
      lease[l].status \notin {"none", "claimed", "deleted"} =>
        /\ lease[l].expires <= now + Ttl
        /\ lease[l].started <= now
        /\ lease[l].updated <= now

SightInv == TypeInv /\ RunClock /\ OnTime

LEMMA NowStep ==
    ASSUME TypeInv, [Next]_vars
    PROVE  now \in Nat /\ now' \in Nat /\ now <= now'
<1>1. CASE Tick
  BY <1>1, LeaseTypes DEF Tick
<1>2. ASSUME UNCHANGED now PROVE now' \in Nat /\ now <= now'
  BY <1>2, LeaseTypes
<1>3. ASSUME NEW l \in Leases, Upload(l) \/ RecordCompletedUpload(l) PROVE UNCHANGED now
  BY <1>3 DEF Upload, RecordCompletedUpload
<1>4. ASSUME NEW c \in Claimers, ClaimStep(c) PROVE UNCHANGED now
  BY <1>4 DEF ClaimStep, PreAuthorize, FinalizeArchive, Stamp, ClaimWithExecutor, GiveUp
<1>5. ASSUME NEW r \in Runs, RunStep(r) PROVE UNCHANGED now
  BY <1>5 DEF RunStep, Begin, Reserve, DeleteFile, SettleCleanup, EndRun
<1>. QED
  BY <1>1, <1>2, <1>3, <1>4, <1>5, LeaseTypes DEF Next, vars

LEMMA RunClockStep ==
    ASSUME TypeInv, RunClock, [Next]_vars
    PROVE  RunClock'
<1>. SUFFICES ASSUME NEW r \in Runs PROVE run'[r].at <= now'
  BY DEF RunClock
<1>1. run[r].at \in Nat /\ run[r].at <= now
  BY LeaseTypes DEF RunClock
<1>. QED
  BY <1>1, NowStep, RunChanges, IdleRunFields
  DEF RunChange, Begun, Picked, Moved, SameSelection

LEMMA InitSightInv == Init => SightInv
<1>. SUFFICES ASSUME Init PROVE SightInv
  OBVIOUS
<1>1. RunClock
  BY IdleRunFields DEF Init, RunClock
<1>2. ASSUME NEW l \in Leases
      PROVE  lease[l].expires = 0 /\ lease[l].started = 0 /\ lease[l].updated = 0
  <2>1. PICK status : lease[l] = Row(status)
    BY DEF Init
  <2>. QED
    BY <2>1 DEF Row
<1>3. now = 0 /\ Ttl \in Nat
  BY LeaseAssumption DEF Init
<1>. QED
  BY <1>1, <1>2, <1>3, InitTypeInv DEF SightInv, OnTime

LEMMA SightInvStep == SightInv /\ [Next]_vars => SightInv'
<1>. SUFFICES ASSUME SightInv, [Next]_vars PROVE SightInv'
  OBVIOUS
<1>. USE DEF SightInv
<1>1. TypeInv' /\ RunClock'
  BY TypeStep, RunClockStep
<1>2. /\ now \in Nat /\ now' \in Nat /\ now <= now' /\ Ttl \in Nat
      /\ \A r \in Runs : run[r].at \in Nat /\ run[r].at <= now
  BY NowStep, LeaseTypes, LeaseAssumption DEF RunClock
<1>3. ASSUME NEW l \in Leases, lease'[l].status \notin {"none", "claimed", "deleted"}
      PROVE  /\ lease'[l].expires <= now' + Ttl
             /\ lease'[l].started <= now'
             /\ lease'[l].updated <= now'
  <2>1. /\ lease[l].expires \in Nat /\ lease[l].started \in Nat /\ lease[l].updated \in Nat
    BY LeaseTypes DEF Lease
  <2>2. CASE lease'[l] = lease[l]
    BY <1>2, <1>3, <2>1, <2>2 DEF OnTime
  <2>3. CASE Recorded(l)
    <3>1. now + Ttl <= now' + Ttl /\ 0 <= now'
      BY <1>2
    <3>. QED
      BY <1>2, <2>3, <3>1 DEF Recorded
  <2>4. ASSUME NEW r \in Runs, ReservedBy(r, l)
        PROVE  /\ lease'[l].expires <= now' + Ttl
               /\ lease'[l].started <= now'
               /\ lease'[l].updated <= now'
    <3>1. lease[l].expires <= now + Ttl
      BY <2>4 DEF ReservedBy, CleanupEligible, OnTime
    <3>. QED
      BY <1>2, <2>1, <2>4, <3>1 DEF ReservedBy
  <2>5. ASSUME NEW r \in Runs, SettledBy(r, l)
        PROVE  /\ lease'[l].expires <= now' + Ttl
               /\ lease'[l].started <= now'
               /\ lease'[l].updated <= now'
    <3>1. lease[l].expires <= now + Ttl
      BY <2>5 DEF SettledBy, OnTime
    <3>. QED
      BY <1>2, <2>1, <2>5, <3>1 DEF SettledBy
  <2>6. ASSUME NEW c \in Claimers, ClaimedBy(c, l) PROVE FALSE
    BY <1>3, <2>6 DEF ClaimedBy
  <2>7. TypeInv
    OBVIOUS
  <2>8. LeaseChange(l)
    BY <2>7, LeaseStep
  <2>. QED
    BY <2>2, <2>3, <2>4, <2>5, <2>6, <2>8 DEF LeaseChange
<1>. QED
  BY <1>1, <1>3 DEF OnTime

\* NothingLeaked: every upload that is recorded and not claimed is taken by a
\* run that starts late enough, however many runs died or failed over it, and
\* also when claims are slow.
THEOREM BlobNotLeaked == Spec => []NothingLeaked
<1>1. SightInv => NothingLeaked
  <2>. SUFFICES ASSUME SightInv, NEW l \in Leases,
                       lease[l].status \notin {"none", "claimed", "deleted"}
                PROVE  CleanupEligible(l, now + Ttl + StaleRun + Backoff[lease[l].attempts])
    BY DEF NothingLeaked
  <2>. DEFINE wait == Backoff[lease[l].attempts]
  <2>1. /\ now \in Nat /\ lease[l] \in Lease
        /\ Ttl \in Nat /\ StaleRun \in Nat
    BY LeaseTypes, LeaseAssumption DEF SightInv
  <2>2. wait \in Nat
    BY <2>1, LeaseAssumption DEF Lease
  <2>3. /\ lease[l].expires \in Nat /\ lease[l].started \in Nat /\ lease[l].updated \in Nat
        /\ lease[l].status \in {"authorized", "pending", "release_cleanup", "cleanup_started"}
    BY <2>1 DEF Lease, Statuses
  <2>4. /\ lease[l].expires <= now + Ttl /\ lease[l].started <= now /\ lease[l].updated <= now
    BY DEF SightInv, OnTime
  <2>. HIDE DEF wait
  <2>5. /\ lease[l].expires <= now + Ttl + StaleRun + wait
        /\ lease[l].started + StaleRun <= now + Ttl + StaleRun + wait
        /\ lease[l].updated + wait <= now + Ttl + StaleRun + wait
    BY <2>1, <2>2, <2>3, <2>4
  <2>. QED
    BY <2>3, <2>5 DEF CleanupEligible, BackedOff, wait
<1>. QED
  BY <1>1, InitSightInv, SightInvStep, PTL DEF Spec


-----------------------------------------------------------------------------

(***************************************************************************)
(* Claims against deletions.  A request compares the expiry with a clock   *)
(* read earlier in its own process: the claim is safe when no time passes  *)
(* between the two.                                                        *)
(***************************************************************************)

\* A lease no claim can take: its window has passed, or it never had one.
Doomed(l) ==
    /\ lease[l].status \notin {"none", "claimed"}
    /\ l \in Legacy \/ lease[l].expires <= now

Prompt == \A c \in Claimers : claimer[c].phase = "stamped" => claimer[c].at = now

\* What reconciliation reserves, deletes or has deleted is doomed.
OnlyDoomed ==
    \A l \in Leases :
      /\ lease[l].status # "none" => object[l] # "absent"
      /\ \/ lease[l].status = "cleanup_started"
         \/ object[l] = "gone"
         \/ \E r \in Runs : run[r].phase \in {"deleting", "settling"} /\ run[r].lease = l
         => Doomed(l)

PromptInv == LeaseInv /\ Prompt /\ RunClock /\ OnlyDoomed

LEMMA InitPromptInv == Init => PromptInv
<1>. SUFFICES ASSUME Init PROVE PromptInv
  OBVIOUS
<1>1. LeaseInv
  BY InitLeaseInv
<1>2. Prompt /\ RunClock
  BY IdleRunFields DEF Init, Prompt, RunClock, IdleClaimer
<1>3. \A l \in Leases : /\ lease[l].status # "none" => object[l] # "absent"
                        /\ object[l] # "gone"
                        /\ lease[l].status = "cleanup_started" => l \in Legacy
  BY DEF Init
<1>4. \A r \in Runs : run[r].phase = "idle"
  BY IdleRunFields DEF Init
<1>. QED
  BY <1>1, <1>2, <1>3, <1>4 DEF PromptInv, OnlyDoomed, Doomed

\* Only Tick moves the clock, and not between a request's two steps.
LEMMA ClockStep ==
    ASSUME PromptInv, [Next]_vars, ~SlowClaims
    PROVE  now <= now' /\ now' \in Nat /\ Prompt'
<1>. USE LeaseTypes DEF PromptInv, LeaseInv
<1>1. CASE Tick
  BY <1>1 DEF Tick, Prompt
<1>2. ASSUME NEW c \in Claimers, ClaimStep(c) PROVE UNCHANGED now /\ Prompt'
  <2>1. UNCHANGED now
    BY <1>2 DEF ClaimStep, PreAuthorize, FinalizeArchive, Stamp, ClaimWithExecutor, GiveUp
  <2>2. ASSUME NEW l \in Leases, PreAuthorize(c, l) PROVE Prompt'
    <3>1. claimer'[c].phase = "checked" /\ \A d \in Claimers : d # c => claimer'[d] = claimer[d]
      BY <2>2 DEF PreAuthorize
    <3>. QED
      BY <2>1, <3>1 DEF Prompt
  <2>3. ASSUME Stamp(c) PROVE Prompt'
    <3>1. \A k \in Claimer : [k EXCEPT !.phase = "stamped", !.at = now].at = now
      BY DEF Claimer
    <3>2. claimer'[c].at = now /\ \A d \in Claimers : d # c => claimer'[d] = claimer[d]
      BY <2>3, <3>1 DEF Stamp
    <3>. QED
      BY <2>1, <3>2 DEF Prompt
  <2>4. ASSUME FinalizeArchive(c) \/ ClaimWithExecutor(c) \/ GiveUp(c) PROVE Prompt'
    <3>1. claimer' = [claimer EXCEPT ![c] = IdleClaimer] /\ IdleClaimer.phase = "idle"
      BY <2>4 DEF FinalizeArchive, ClaimWithExecutor, GiveUp, IdleClaimer
    <3>. QED
      BY <2>1, <3>1 DEF Prompt
  <2>. QED
    BY <1>2, <2>1, <2>2, <2>3, <2>4 DEF ClaimStep
<1>3. ASSUME UNCHANGED <<now, claimer>> PROVE now <= now' /\ now' \in Nat /\ Prompt'
  BY <1>3 DEF Prompt
<1>4. ASSUME NEW l \in Leases, Upload(l) \/ RecordCompletedUpload(l) PROVE UNCHANGED <<now, claimer>>
  BY <1>4 DEF Upload, RecordCompletedUpload
<1>5. ASSUME NEW r \in Runs, RunStep(r) PROVE UNCHANGED <<now, claimer>>
  BY <1>5 DEF RunStep, Begin, Reserve, DeleteFile, SettleCleanup, EndRun
<1>. QED
  BY <1>1, <1>2, <1>3, <1>4, <1>5 DEF Next, vars

\* Once doomed, a lease is never claimed.
LEMMA DoomedStays ==
    ASSUME PromptInv, [Next]_vars, ~SlowClaims, NEW l \in Leases, Doomed(l)
    PROVE  Doomed(l)'
<1>. USE LeaseTypes, ClockStep DEF PromptInv, LeaseInv, Doomed
<1>1. lease[l].expires \in Nat
  BY DEF Lease
<1>2. ASSUME lease'[l] = lease[l] PROVE Doomed(l)'
  BY <1>1, <1>2
<1>3. ~ Recorded(l)
  BY DEF Recorded
<1>4. ASSUME NEW c \in Claimers, ClaimedBy(c, l) PROVE FALSE
  BY <1>1, <1>4 DEF ClaimedBy, Prompt, Separated, Provider
<1>5. ASSUME NEW r \in Runs, ReservedBy(r, l) \/ SettledBy(r, l) PROVE Doomed(l)'
  BY <1>1, <1>5 DEF ReservedBy, SettledBy, SettledStatus, Restorable
<1>. QED
  BY <1>2, <1>3, <1>4, <1>5, LeaseStep DEF LeaseChange

\* What a run reserves has run out of time, so it is doomed from then on.
LEMMA ReservedDoomed ==
    ASSUME PromptInv, [Next]_vars, ~SlowClaims, NEW r \in Runs, NEW l \in Leases,
           CleanupEligible(l, run[r].at), lease'[l].status = "cleanup_started",
           lease'[l].expires = lease[l].expires
    PROVE  Doomed(l)'
<1>. USE LeaseTypes, ClockStep DEF PromptInv, LeaseInv
<1>1. lease[l].expires \in Nat /\ run[r].at \in Nat /\ run[r].at <= now
  BY DEF Lease, RunClock
<1>2. l \in Legacy \/ lease[l].expires <= now
  BY <1>1 DEF CleanupEligible, OnlyDoomed, Doomed, Separated, Provider
<1>. QED
  BY <1>1, <1>2 DEF Doomed

LEMMA PromptInvStep ==
    ASSUME ~SlowClaims
    PROVE  PromptInv /\ [Next]_vars => PromptInv'
<1>. SUFFICES ASSUME PromptInv, [Next]_vars PROVE PromptInv'
  OBVIOUS
<1>. USE LeaseTypes, ClockStep DEF PromptInv
<1>1. LeaseInv' /\ Prompt' /\ TypeInv
  BY LeaseInvStep DEF LeaseInv
<1>2. RunClock'
  BY <1>1, RunClockStep
<1>3. ASSUME NEW l \in Leases, lease'[l].status # "none" PROVE object'[l] # "absent"
  <2>1. object[l] # "absent"
    BY <1>1, <1>3, LeaseStep
    DEF LeaseChange, Recorded, ClaimedBy, ReservedBy, CleanupEligible, SettledBy, OnlyDoomed
  <2>. QED
    BY <1>1, <2>1, ObjectChanges DEF ObjectChange
<1>4. ASSUME NEW l \in Leases, lease'[l].status = "cleanup_started" PROVE Doomed(l)'
  <2>1. ASSUME NEW r \in Runs, ReservedBy(r, l) PROVE Doomed(l)'
    BY <2>1, ReservedDoomed DEF ReservedBy
  <2>2. ASSUME lease[l].status = "cleanup_started" PROVE Doomed(l)'
    BY <2>2, DoomedStays DEF OnlyDoomed
  <2>. QED
    BY <1>1, <1>4, <2>1, <2>2, LeaseStep
    DEF LeaseChange, Recorded, ClaimedBy, SettledBy
<1>5. ASSUME NEW l \in Leases, object'[l] = "gone" PROVE Doomed(l)'
  BY <1>1, <1>5, ObjectChanges, DoomedStays DEF ObjectChange, OnlyDoomed
<1>6. ASSUME NEW r \in Runs, run'[r].phase \in {"deleting", "settling"},
             NEW l \in Leases, run'[r].lease = l
      PROVE  Doomed(l)'
  <2>1. CASE Picked(r)
    BY <1>4, <1>6, <2>1 DEF Picked
  <2>2. CASE Moved(r)
    BY <1>6, <2>2, DoomedStays DEF Moved, OnlyDoomed
  <2>. QED
    BY <1>1, <1>6, <2>1, <2>2, RunChanges, IdleRunFields DEF RunChange, Begun
<1>7. OnlyDoomed'
  BY <1>3, <1>4, <1>5, <1>6 DEF OnlyDoomed
<1>. QED
  BY <1>1, <1>2, <1>7

\* ClaimedKeepsObject: when no time passes inside a claim, an object that a
\* committed record refers to is never deleted, whatever the interleaving of
\* requests and runs, failed deletions and takeovers.
THEOREM BlobClaimSafe == ~SlowClaims => (Spec => []ClaimedKeepsObject)
<1>. SUFFICES ASSUME ~SlowClaims PROVE Spec => []ClaimedKeepsObject
  OBVIOUS
<1>1. PromptInv => ClaimedKeepsObject
  <2>. SUFFICES ASSUME PromptInv, NEW l \in Leases, lease[l].status = "claimed"
                PROVE  object[l] = "stored"
    BY DEF ClaimedKeepsObject
  <2>. QED
    BY LeaseTypes DEF PromptInv, LeaseInv, OnlyDoomed, Doomed, Objects
<1>2. PromptInv /\ [Next]_vars => PromptInv'
  BY PromptInvStep
<1>. QED
  BY <1>1, <1>2, InitPromptInv, PTL DEF Spec


-----------------------------------------------------------------------------

(***************************************************************************)
(* The refinement.  Only Tick lets offers lapse; every other step changes  *)
(* one lease, or one object, or neither.                                   *)
(***************************************************************************)

OneLease(k) ==
    /\ lease' = [lease EXCEPT ![k] = lease'[k]]
    /\ UNCHANGED <<now, object>>

OneObject(k) ==
    /\ object' = [object EXCEPT ![k] = object'[k]]
    /\ UNCHANGED <<now, lease>>

LEMMA OneAtATime ==
    ASSUME TypeInv, [Next]_vars
    PROVE  \/ Tick
           \/ UNCHANGED <<now, lease, object>>
           \/ \E k \in Leases : OneLease(k) \/ OneObject(k)
<1>. USE LeaseTypes DEF OneLease, OneObject
<1>1. ASSUME NEW k \in Leases, Upload(k) PROVE OneObject(k)
  BY <1>1 DEF Upload
<1>2. ASSUME NEW k \in Leases, RecordCompletedUpload(k) PROVE OneLease(k)
  <2>1. PICK row : lease' = [lease EXCEPT ![k] = row]
    BY <1>2 DEF RecordCompletedUpload
  <2>. QED
    BY <1>2, <2>1 DEF RecordCompletedUpload
<1>3. ASSUME NEW c \in Claimers, FinalizeArchive(c) \/ ClaimWithExecutor(c)
      PROVE  \E k \in Leases : OneLease(k)
  <2>1. PICK k \in Leases : k = claimer[c].lease
    OBVIOUS
  <2>2. /\ UNCHANGED <<now, object>>
        /\ \/ lease' = lease
           \/ \E at : lease' = [lease EXCEPT ![k] = Claimed(k, at)]
    BY <1>3, <2>1 DEF FinalizeArchive, ClaimWithExecutor
  <2>. QED
    BY <2>2
<1>4. ASSUME NEW r \in Runs, NEW k \in Leases, Reserve(r, k) PROVE OneLease(k)
  <2>1. \/ lease' = lease
        \/ lease' = [lease EXCEPT ![k] = Reserved(r, k)]
    BY <1>4 DEF Reserve
  <2>. QED
    BY <1>4, <2>1 DEF Reserve
<1>5. ASSUME NEW r \in Runs, SettleCleanup(r) PROVE \E k \in Leases : OneLease(k)
  <2>1. PICK k \in Leases : k = run[r].lease
    OBVIOUS
  <2>2. \/ lease' = lease
        \/ lease' = [lease EXCEPT ![k] = SettledRow(r, k)]
    BY <1>5, <2>1 DEF SettleCleanup
  <2>. QED
    BY <1>5, <2>2 DEF SettleCleanup
<1>6. ASSUME NEW r \in Runs, DeleteFile(r) PROVE \E k \in Leases : OneObject(k)
  <2>1. PICK k \in Leases : k = run[r].lease
    OBVIOUS
  <2>2. object' = object \/ object' = [object EXCEPT ![k] = "gone"]
    BY <1>6, <2>1 DEF DeleteFile
  <2>. QED
    BY <1>6, <2>2 DEF DeleteFile
<1>. QED
  BY <1>1, <1>2, <1>3, <1>4, <1>5, <1>6
  DEF Next, vars, ClaimStep, RunStep, PreAuthorize, Stamp, GiveUp, Begin, EndRun

\* What is neither claimed nor doomed can still be claimed, and is there.
LEMMA CustodyCases ==
    ASSUME PromptInv, NEW l \in Leases
    PROVE  /\ CustodyOf(l) = "none" => lease[l].status = "none"
           /\ lease[l].status = "none" =>
                CustodyOf(l) = "none" /\ l \notin Legacy /\ object[l] # "gone"
           /\ lease[l].status = "claimed" <=> CustodyOf(l) = "kept"
           /\ lease[l].status = "deleted" <=> CustodyOf(l) = "closed"
           /\ CustodyOf(l) = "offered" <=>
                lease[l].status \notin {"none", "claimed", "deleted"} /\ ~Doomed(l)
           /\ CustodyOf(l) = "lapsed" <=>
                lease[l].status \notin {"none", "claimed", "deleted"} /\ Doomed(l)
           /\ ~Doomed(l) /\ lease[l].status # "none" => object[l] = "stored"
           /\ CustodyOf(l) \in {"none", "offered", "kept", "lapsed", "closed"}
<1>1. object[l] \in Objects
  BY LeaseTypes DEF PromptInv, LeaseInv
<1>2. /\ lease[l].status # "none" => object[l] # "absent"
      /\ object[l] = "gone" => Doomed(l)
  BY DEF PromptInv, OnlyDoomed
<1>3. l \in Legacy => lease[l].status # "none"
  BY DEF PromptInv, LeaseInv, Separated
<1>. QED
  BY <1>1, <1>2, <1>3 DEF CustodyOf, Doomed, Objects

\* What becomes of one lease while the clock stands still.
LEMMA LeaseCustody ==
    ASSUME PromptInv, [Next]_vars, ~SlowClaims, NEW l \in Leases,
           UNCHANGED <<now, object>>
    PROVE  \/ CustodyOf(l)' = CustodyOf(l)
           \/ CustodyOf(l) = "none" /\ CustodyOf(l)' = "offered" /\ object[l] = "stored"
           \/ CustodyOf(l) = "offered" /\ CustodyOf(l)' = "kept" /\ object[l] = "stored"
           \/ CustodyOf(l) = "lapsed" /\ CustodyOf(l)' = "closed" /\ object[l] = "gone"
<1>1. TypeInv /\ now \in Nat /\ object[l] \in Objects /\ lease[l].expires \in Nat
  BY LeaseTypes DEF PromptInv, LeaseInv, Lease
<1>2. LeaseChange(l)
  BY <1>1, LeaseStep
<1>3. CASE lease'[l] = lease[l]
  BY <1>3 DEF CustodyOf
<1>4. CASE Recorded(l)
  <2>1. CustodyOf(l) = "none" /\ l \notin Legacy /\ object[l] = "stored"
    BY <1>1, <1>4, CustodyCases DEF Recorded, Objects
  <2>2. ~(now + Ttl <= now)
    BY <1>1, LeaseAssumption
  <2>3. CustodyOf(l)' = "offered"
    BY <1>4, <2>1, <2>2 DEF CustodyOf, Recorded
  <2>. QED
    BY <2>1, <2>3
<1>5. ASSUME NEW c \in Claimers, ClaimedBy(c, l)
      PROVE  CustodyOf(l) = "offered" /\ CustodyOf(l)' = "kept" /\ object[l] = "stored"
  <2>1. lease[l].expires > now /\ l \notin Legacy
    BY <1>5 DEF ClaimedBy, PromptInv, Prompt, LeaseInv, Separated, Provider
  <2>2. ~Doomed(l)
    BY <1>1, <2>1 DEF Doomed
  <2>3. CustodyOf(l)' = "kept"
    BY <1>5 DEF ClaimedBy, CustodyOf
  <2>. QED
    BY <1>5, <2>2, <2>3, CustodyCases DEF ClaimedBy
<1>6. ASSUME NEW r \in Runs, ReservedBy(r, l)
      PROVE  CustodyOf(l)' = CustodyOf(l)
  <2>1. Doomed(l)'
    BY <1>6, ReservedDoomed DEF ReservedBy
  <2>2. lease[l].status \in {"authorized", "pending", "release_cleanup", "cleanup_started"}
    BY <1>6 DEF ReservedBy, CleanupEligible
  <2>3. Doomed(l)
    BY <1>6, <2>1, <2>2 DEF Doomed, ReservedBy
  <2>. QED
    BY <1>6, <2>1, <2>2, <2>3 DEF CustodyOf, Doomed, ReservedBy
<1>7. ASSUME NEW r \in Runs, SettledBy(r, l)
      PROVE  \/ CustodyOf(l)' = CustodyOf(l)
             \/ CustodyOf(l) = "lapsed" /\ CustodyOf(l)' = "closed" /\ object[l] = "gone"
  <2>1. Doomed(l)
    BY <1>7 DEF PromptInv, OnlyDoomed, SettledBy
  <2>2. CustodyOf(l) = "lapsed"
    BY <1>7, <2>1, CustodyCases DEF SettledBy
  <2>3. CASE run[r].removed
    <3>1. object[l] = "gone"
      BY <1>7, <2>3 DEF PromptInv, LeaseInv, Removed, SettledBy
    <3>2. CustodyOf(l)' = "closed"
      BY <1>7, <2>3 DEF CustodyOf, SettledBy, SettledStatus
    <3>. QED
      BY <2>2, <3>1, <3>2
  <2>4. CASE ~run[r].removed
    <3>1. lease'[l].status \in {"authorized", "pending", "release_cleanup"}
      BY <1>7, <2>4 DEF SettledBy, SettledStatus, Restorable
    <3>2. CustodyOf(l)' = "lapsed"
      BY <1>7, <2>1, <3>1 DEF CustodyOf, Doomed, SettledBy
    <3>. QED
      BY <2>2, <3>2
  <2>. QED
    BY <2>3, <2>4
<1>. QED
  BY <1>2, <1>3, <1>4, <1>5, <1>6, <1>7 DEF LeaseChange

LEMMA CustodyStep ==
    ASSUME PromptInv, [Next]_vars, ~SlowClaims
    PROVE  [Custody!CustodyNext]_(Custody!custodyVars)
<1>. DEFINE custody == [l \in Leases |-> CustodyOf(l)]
<1>a. TypeInv /\ now \in Nat
  BY LeaseTypes DEF PromptInv, LeaseInv
<1>1. CASE Tick
  <2>1. UNCHANGED <<lease, object>> /\ now <= now' /\ now' \in Nat
    BY <1>1, ClockStep DEF Tick
  <2>2. ASSUME NEW l \in Leases
        PROVE  \/ CustodyOf(l)' = CustodyOf(l)
               \/ CustodyOf(l) = "offered" /\ CustodyOf(l)' = "lapsed"
    <3>1. lease[l].expires \in Nat
      BY LeaseTypes DEF PromptInv, LeaseInv, Lease
    <3>2. lease[l].expires <= now => lease[l].expires <= now'
      BY <1>a, <2>1, <3>1
    <3>. QED
      BY <2>1, <3>2 DEF CustodyOf
  <2>. DEFINE over == {l \in Leases : CustodyOf(l) = "offered" /\ CustodyOf(l)' = "lapsed"}
  <2>3. over \in SUBSET {l \in Leases : custody[l] = "offered"}
    OBVIOUS
  <2>4. custody' = [l \in Leases |-> IF l \in over THEN "lapsed" ELSE custody[l]]
    BY <2>2
  <2>5. Custody!Lapse
    BY <2>1, <2>3, <2>4 DEF Custody!Lapse
  <2>. QED
    BY <2>5 DEF Custody!CustodyNext
<1>2. CASE UNCHANGED <<now, lease, object>>
  <2>1. \A l \in Leases : CustodyOf(l)' = CustodyOf(l)
    BY <1>2 DEF CustodyOf
  <2>. QED
    BY <1>2, <2>1 DEF Custody!custodyVars
<1>3. ASSUME NEW k \in Leases, OneLease(k)
      PROVE  [Custody!CustodyNext]_(Custody!custodyVars)
  <2>1. UNCHANGED <<now, object>> /\ \A l \in Leases : l # k => lease'[l] = lease[l]
    BY <1>a, <1>3, LeaseTypes DEF OneLease
  <2>2. \A l \in Leases : l # k => CustodyOf(l)' = CustodyOf(l)
    BY <2>1 DEF CustodyOf
  <2>3. custody' = [custody EXCEPT ![k] = CustodyOf(k)'] /\ custody[k] = CustodyOf(k)
    BY <2>2
  <2>4. CASE CustodyOf(k)' = CustodyOf(k)
    BY <2>1, <2>2, <2>4 DEF Custody!custodyVars
  <2>5. CASE CustodyOf(k) = "none" /\ CustodyOf(k)' = "offered" /\ object[k] = "stored"
    <3>1. Custody!Offer(k)
      BY <2>1, <2>3, <2>5 DEF Custody!Offer, Custody!Passes
    <3>. QED
      BY <3>1 DEF Custody!CustodyNext
  <2>6. CASE CustodyOf(k) = "offered" /\ CustodyOf(k)' = "kept" /\ object[k] = "stored"
    <3>1. Custody!Keep(k)
      BY <2>1, <2>3, <2>6 DEF Custody!Keep, Custody!Passes
    <3>. QED
      BY <3>1 DEF Custody!CustodyNext
  <2>7. CASE CustodyOf(k) = "lapsed" /\ CustodyOf(k)' = "closed" /\ object[k] = "gone"
    <3>1. Custody!Close(k)
      BY <2>1, <2>3, <2>7 DEF Custody!Close, Custody!Passes
    <3>. QED
      BY <3>1 DEF Custody!CustodyNext
  <2>. QED
    BY <2>1, <2>4, <2>5, <2>6, <2>7, LeaseCustody
<1>4. ASSUME NEW k \in Leases, OneObject(k)
      PROVE  [Custody!CustodyNext]_(Custody!custodyVars)
  <2>1. UNCHANGED <<now, lease>> /\ object' = [object EXCEPT ![k] = object'[k]]
    BY <1>4 DEF OneObject
  <2>2. \A l \in Leases : CustodyOf(l)' = CustodyOf(l)
    BY <2>1 DEF CustodyOf
  <2>3. custody' = custody /\ custody[k] = CustodyOf(k)
    BY <2>2
  <2>4. ObjectChange(k)
    BY <1>a, ObjectChanges
  <2>5. CASE object'[k] = object[k]
    <3>1. object' = object
      BY <1>a, <2>1, <2>5, LeaseTypes
    <3>. QED
      BY <2>3, <3>1 DEF Custody!custodyVars
  <2>6. CASE object[k] = "absent" /\ object'[k] = "stored"
    <3>1. Custody!Store(k)
      BY <2>1, <2>3, <2>6 DEF Custody!Store
    <3>. QED
      BY <3>1 DEF Custody!CustodyNext
  <2>7. CASE object'[k] = "gone" /\ object[k] # "gone"
    <3>1. Doomed(k)
      BY <2>4, <2>7 DEF ObjectChange, PromptInv, OnlyDoomed
    <3>2. lease[k].status \notin {"none", "claimed", "deleted"}
      BY <2>7, <3>1 DEF Doomed, PromptInv, LeaseInv, DeletedMeansGone
    <3>3. CustodyOf(k) = "lapsed" /\ object[k] = "stored"
      BY <1>a, <2>7, <3>1, <3>2, CustodyCases, LeaseTypes
      DEF PromptInv, OnlyDoomed, Objects
    <3>4. Custody!Remove(k)
      BY <2>1, <2>3, <2>7, <3>3 DEF Custody!Remove
    <3>. QED
      BY <3>4 DEF Custody!CustodyNext
  <2>. QED
    BY <2>4, <2>5, <2>6, <2>7 DEF ObjectChange
<1>. QED
  BY <1>a, <1>1, <1>2, <1>3, <1>4, OneAtATime

LEMMA InitCustody == Init => Custody!CustodyInit
<1>. SUFFICES ASSUME Init PROVE Custody!CustodyInit
  OBVIOUS
<1>1. ASSUME NEW l \in Leases
      PROVE  CustodyOf(l) = IF l \in Legacy THEN "lapsed" ELSE "none"
  <2>1. PICK status \in {"none", "authorized", "release_cleanup", "cleanup_started"} :
          lease[l] = Row(status)
    BY DEF Init
  <2>2. lease[l].status = status /\ (l \in Legacy <=> status # "none")
    BY <2>1 DEF Init, Row
  <2>. QED
    BY <2>2 DEF CustodyOf
<1>. QED
  BY <1>1 DEF Init, Custody!CustodyInit

\* ImplementsCustody: if no time passes inside a claim, rows, clocks and runs
\* keep the promise of custody: what lapsed is never offered again, what was
\* claimed is kept, and an object only goes when its offer has lapsed.
THEOREM BlobCustody == ~SlowClaims => (Spec => ImplementsCustody)
<1>. SUFFICES ASSUME ~SlowClaims PROVE Spec => ImplementsCustody
  OBVIOUS
<1>1. PromptInv /\ [Next]_vars => [Custody!CustodyNext]_(Custody!custodyVars)
  BY CustodyStep
<1>2. PromptInv /\ [Next]_vars => PromptInv'
  BY PromptInvStep
<1>. QED
  BY <1>1, <1>2, InitPromptInv, InitCustody, PTL
  DEF Spec, ImplementsCustody, Custody!CustodySpec

=============================================================================
