# SIMSA / ATR-BPN: TLA+ models, checks and proofs

SIMSA is the correspondence and archive system under `src/`: an Express and
PostgreSQL backend (`src/backend`) and a React frontend (`src/frontend`). The
backend runs as serverless invocations and as worker processes that share one
database, one private object store and a few remote services. Its hard parts
are the protocols between these processes; this directory models them, checks
the models with TLC and proves their main properties with TLAPS.

Each specification module is written from the code its row of the `map` in
`PROJECT.json` names. `*Proofs.tla` hold theorems, `MC*.tla` and `*.cfg` hold
the small instances TLC checks.

    tlc -workers 2 -config MCMalwareQueue.cfg MCBitstreamQuarantine
    tlapm BitstreamQuarantineProofs.tla

## 1. Inventory

Paths are relative to `src/backend/src`.

| component | state | operations | modelled in |
|---|---|---|---|
| Malware scan queue (`services/malware-scan.worker.ts`, `workers/malware-scan*.ts`) | `file_attachments.malware_scan_status`, `integrity_status`, an advisory lock | claim, take over, scan, verdict, retry, abort | `ScanQueue`, `MalwareScan` |
| Fixity and integrity (`services/file-fixity.service.ts`, `file-attachment.service.ts`) | `file_fixity_jobs`, `integrity_status`, the stored bytes | enrol, lease, read, record; verifyIntegrity; delete | `BitstreamQuarantine` |
| Client blob leases (`services/client-blob-upload.service.ts`, `arsip-attachment-upload.service.ts`) | `client_blob_uploads`, the objects | callback, preflight, claim, reconcile | `ClientBlobUpload` |
| SRIKANDI outbox (`services/srikandi*.ts`) | `srikandi_outbox`, what SRIKANDI has accepted | enqueue with the letter, claim, deliver, settle, retry by hand | `SrikandiOutbox` |
| Approval (`services/approval.service.ts`) | `surat_keluar`, `approval_requests`, `approval_steps` | submit, approve, forward, reject | `SuratApproval` |
| User management (`services/user-management.service.ts`, `middlewares/auth.middleware.ts`) | `users` | change role, unit and activity; authenticate | `SuratApproval` (partly) |
| Outgoing letters (`services/surat-keluar.service.ts`, `routes/surat-keluar.routes.ts`) | `surat_keluar` | create, edit, delete, archive, link, import | `SuratApproval` (partly) |
| Incoming letters (`services/surat-masuk.service.ts`), distribution (`distribution.service.ts`), case chains (`rangkaian.service.ts`, `rangkaian/*.ts`) | `surat_masuk.status`, `surat_distributions`, `rangkaian_surat`, `rangkaian_anggota`, `rangkaian_relasi` | register, change, delete; distribute, receive, process, reject, close; relate, cancel, merge, finish, reopen, file; derived status | `Rangkaian` |
| Archives and legal holds (`services/arsip.service.ts`, `archive-rule-assignment.service.ts`) | `arsip`, `legal_hold`, rule snapshots | place and release a hold, reconcile with the catalogue, evaluate retention | `ArsipRecord` |
| Retention governance (`services/retention-governance.service.ts`) | `archive_retention_events`, appraisal cases and decisions, `permanent_transfer_*` | record and verify an event; open, submit, decide an appraisal; manifest, handover, acknowledgement, cancellation | `RetentionAppraisal`, `PermanentTransfer` |
| Disposal (`services/penyusutan.service.ts`) | `penyusutan_arsip`, `penyusutan_items`, `arsip.disposal_*` | create, add, remove, delete; propose, review, approve, execute | `Penyusutan`, `ArchiveDisposition` |
| Regulatory rule sets (`services/regulatory-rule-set.service.ts`, `klasifikasi.service.ts`) | `regulatory_rule_sets`, items, sources, events | clone, edit, scan, attest, report, submit, review, approve, return, activate | `RegulatoryRuleSet` |
| Archive lending, storage locations | `archive_lending`, `arsip.lending_status` | lend, extend, return | not modelled (section 9) |
| Record access grants | `record_access_grants` | request, decide, expire, revoke | not modelled (section 9) |
| Bulk upload and OCR capacity, server-side final objects | batches, items, leases, objects | claim, renew, finish, confirm, clean up | not modelled (section 9) |
| Dossiers, notifications, audit log, reports, exports, search, readiness, rate limits, imports, frontend | derived, append-only or one statement | - | not modelled (section 9) |

How they interact:

* Invocations share the database only. Mutual exclusion is by row locks,
  conditional UPDATEs guarded by a token, and two advisory locks: the scan
  worker's, and the gate that approval takes shared and user management
  takes exclusive.
* An attachment row has four independent writers: the scan worker, the fixity
  service, `verifyIntegrity` and deletion. What may be served is a predicate of
  two of its columns (`isFileReleased`).
* A letter and its SRIKANDI message are committed by one transaction; delivery
  is later, by any dispatcher.
* The object store takes part in no transaction: a browser writes to it before
  the database knows, and a deletion may take effect although it is reported
  as failed.
* Letters, requests and steps of an approval are three tables written by one
  transaction, and depend on a fourth, `users`, that another component changes.
* The status of an incoming letter and of its chain are columns derived from
  five tables. Incoming letters, outgoing letters, distributions and chains
  each change some of these and recompute the columns they believe affected.
* Retention governance, disposal and transfer never call each other: they meet
  in the columns of the archive's row, which each of them locks.
* An edition of a rule set is bound to evidence (source, manifest, impact
  report) that every edit must invalidate, and to the edition it replaces,
  which another activation may close first.

What is hard: results that arrive for a claim that has moved on; leases that
expire under a live holder; crashes between an external effect and its record;
lost responses; reading a clock or a row before the statement that depends on
it; mandates revoked while a request is in flight. `PROJECT.json` lists each of
these under `hazards`, with its line and the property that is about it.

What makes each component correct:

* quarantine: no file is served without a clean verdict and a matching read of
  the bytes it was accepted with; every upload is settled; a claim has one holder;
* blob leases: reconciliation never deletes what a record refers to, and
  removes what nobody refers to;
* outbox: a letter has its message, one content per key is delivered, success
  is acknowledged and final, every message is resolved;
* approval: what is approved is what was submitted, by somebody entitled at
  that moment, and no letter waits for nobody;
* case chains: derived statuses stay true to their facts, a merge loses
  nothing, and a filed chain is closed for good;
* disposal: one claim at a time on an archive, decisions in force are about what
  is in force, an archive is gone only with a right that still stands, and a
  legal hold freezes everything;
* rule sets: published editions succeed each other without gap or overlap, each
  rests on evidence about its own content, and who reviews or approves one has
  neither prepared it nor submitted it in that round.

## 2. Modules

    ScanQueue                 what the scan queue promises (abstract)
      ^ implemented by
    BitstreamQuarantine       EXTENDS MalwareScan: all writers of the row
      ^ BitstreamQuarantineProofs  <- QueueRefinementProofs
    SrikandiOutbox            implements ReliableDelivery  <- SrikandiOutboxProofs
    ClientBlobUpload          implements ObjectCustody     <- ClientBlobUploadProofs
    SuratApproval             implements MandatedReview    <- SuratApprovalProofs
    Rangkaian                 implements CaseFiles         <- RangkaianProofs
    ArsipRecord
      ^ RetentionAppraisal, Penyusutan, PermanentTransfer (each EXTENDS it)
        ^ ArchiveDisposition  (EXTENDS the three, composes them)
            implements ArchiveLifecycle (abstract)
                              <- ArchiveDispositionProofs
    RegulatoryRuleSet         implements RulesInForce      <- RegulatoryRuleSetProofs

In the `map`, `Next` and the disjunctions below it are traced to the routes (or
the worker) through which their operations are reached.

One action stands for one SQL statement, or one transaction that locks the
rows it reads, or one step outside the database (a read of an object, a
request to SRIKANDI). Code between two such steps runs without exclusion, and
so do the actions.

**ScanQueue** is the abstract queue: a file is queued, held by at most one
invocation, backing off, suspect (clean, but its bytes no longer known to
match), settled or removed. Nothing in it mentions clocks, tokens or locks.

**MalwareScan** has the rows (`row`), the stored bytes (`object`), the
invocations (`worker`), the advisory lock and the clock in seconds. The status
column is a token such as `scanning:<attempt>:<second>`; the model keeps the
three parts as a record. `Claim` is the statement of `claimNext`: oldest
eligible row, where not scanned, unverified, due for retry and stale rows are
eligible, and `NextAttempt` is its CASE (a takeover keeps the attempt number).
`Read` is the download and the scan of the object as it is then, `Report` the
conditional UPDATE on the exact token, followed by the end of the invocation.
`End` is an empty queue, an abort, a deadline or a crash. `LoseLock` is the
lock connection dropping while the invocation goes on.

**BitstreamQuarantine** adds the fixity service (`Enrol`, `FixityClaim`,
`FixityRead`, `FixityFinish`, `FixityCrash`), `verifyIntegrity` (`CheckSelect`,
`CheckRead`, `CheckWrite`) and deletion with its cascade. `object` decays
(`Decay`) or is deleted without confirmation. Its refinement mapping derives
the phase from the two columns and the holder from tokens: a worker holds a
file exactly while its token is the row's.

**SrikandiOutbox** has the letters, the outbox rows, the dispatchers and what
SRIKANDI has accepted. `CreateLetter` is the creating transaction of a letter
of either kind, `Enqueue` an internal enqueue with the same key. `Send` covers
every outcome of the HTTP adapter: SRIKANDI accepts or not, and an accepted
delivery may still look like a failure. `Finalize` is `finalizeSuccess` and
`finalizeFailure`. `Deploy` changes the configured contract version. Times are
only compared with the clock by `<=`, so they are two flags per row: due, and
lease expired. **ReliableDelivery** is its abstract specification: a message per
key that waits, is delivered or is given up, a receiver that accepts nothing but
that message, no claims, leases or attempts. The mapping reads the progress off
the status (`ProgressOf`) and takes content and acceptance as they are.

**ClientBlobUpload** has the lease rows, the objects, the business requests and
the reconciliation runs. `FinalizeArchive` claims under a row lock with the
clock of that moment; letters and regulatory sources claim by `Stamp`, which
reads the clock, and `ClaimWithExecutor`, which compares it. The constant
`SlowClaims` says whether time may pass between the two. A run reads its clock
once (`Begin`), reserves its candidates one by one, deletes and settles.
`DeleteFile` reports every exception as "not removed", as the adapter does.
The attempts counter is not bounded by the code; `MaxAttempts` bounds it here.
**ObjectCustody** is what leases are for: an object is offered, and either kept
in time or lapsed; only a lapsed one is removed, and closed when it is gone.
Under the mapping (`CustodyOf`) every reservation, restoration and takeover of
an expired row is `lapsed`, and a tick of the clock may lapse several offers.

**SuratApproval** has the accounts, a letter with its approval request and
steps, and the requests in flight with what middleware and route have read
(`Arrive`). Submit, decide, forward and `updateUser` re-read the accounts under
locks; edit, delete and archive go by what the route has read and by the
condition of their UPDATE. `edited` is a history variable: the letters changed
since their last submission. `unitKerjaId` is not part of the update schema, so
a letter never changes its unit. Role `admin` stands for `admin_unit`,
`admin_dirjen` and `admin_sesditjen` with their unit, `staff` for all roles
that do not write. History rows, notes, notifications and the recomputed status
of the letter's chain are left out: nothing in the module reads them. Chain
metadata (`balasan_untuk`, `asal_naskah`, the link to a chain) can be corrected
on a letter whatever its approval status is; `edited` is about the fields that
`update` and `delete` change. **MandatedReview** is the abstract specification:
a letter with an author, a unit and the reviewer it awaits, the decisions on it,
and who holds the mandate of which unit. The mapping takes the decisions from
the answered steps (`Verdicts`) and the mandate from the accounts
(`EligibleApprover`), so that a change of accounts is `Reassign`.

**Rangkaian** has the chains, the membership of letters, their relations and
dispositions, and the two derived statuses. `StatusTurunan` is
`deriveRangkaianStatus`, `Dihitung` the recompute of one chain, `HitungMasuk`
the recompute of incoming letters; each action recomputes exactly the rows its
operation does. An operation locks letters, then chains, then dispositions,
reads again what it had read before and starts over if that changed, so it is
one step. The exception is the recompute after a change of an outgoing letter
(`recomputeForSuratKeluar`), which goes by the membership it read: `MulaiKeluar`
reads, `SelesaiKeluar` locks, recomputes and commits. `draft` stands for the
approval statuses that block a chain, `balasan` for the relations that answer.
`DaftarReferensi` and `DaftarLanjutan` are the registration of a letter that
refers to one of ours, with its chain open and filed. **CaseFiles** is the
abstract specification: cases are sets of letters that gather loose letters and
whole other cases, references stay within a case, and a case is closed when none
of its letters has open work, after which nothing about them changes. The
mapping takes the members of the chains as cases (so a merged chain is no case
and a chain without members is none either), the relations ever made, cancelled
ones included, as references, and as open work an outgoing letter that blocks
(`Memblokir`) or a disposition that was neither processed nor rejected.

**ArsipRecord** has the archive's row with its hold, its claim and the numbers of
the rule snapshot, event and decision in force, and `evaluateCanonicalRetention`
as `Verified`, `EffectiveDisposition` and `DispositionEligible`. Dates are
abstracted to the phase they put the retention in, chosen freely when the rule
or the event changes and moved on by `Berjalan`. **RetentionAppraisal** adds
events and appraisals with the triggers that take a decision out of force;
**Penyusutan** disposal batches; **PermanentTransfer** manifests. Every
operation locks the rows of its archives and is one step;
**ArchiveDisposition** interleaves the steps of all four. **ArchiveLifecycle**
is its abstract specification: an archive is free, claimed or disposed; it is
given back at any time, or all archives of one claim are disposed of together;
neither the claim nor the disposal happens under a hold.

**RegulatoryRuleSet** has the editions of one instrument, who contributed to
each, the activations in progress and the calendar. The content of an edition
is one value (what the content hash covers). `TanpaBukti` is the invalidation
of manifest and impact report, `Siap` the readiness checks. An activation is two
steps, since it locks its candidate and then waits for the row of the active
edition: `MulaiAktivasi` takes the snapshot, `Activate` finds the row as it is
by then (`Kini`) and goes on or fails on the unique index (`SatuAktif`).
Publication does not require review and approval: `activate` accepts a draft.
The scanner (`PindaiSumber`) verifies the source of a draft or withdraws that,
with any later verdict that is not clean.
**RulesInForce** is what those who apply the rules see of it: which edition is
in force on each day, and what was published. A publication takes over all days
from its first one on from the edition it replaces, and no earlier day.

## 3. Runs

| run | instance | checks | states |
|---|---|---|---|
| `scan_queue` | 2 files, 2 workers, 2 attempts | `EventuallySettled` | 161 |
| `malware_queue` | 2 files (one malicious), 2 workers, 2 attempts, stale after 2 s, 4 s | `TypeOK`, `MaliciousNeverReleased`, `OneHolder`, `NoFileStranded` | 1.6 M |
| `bitstream_quarantine` | 1 file, 2 workers, 2 fixity runs, 1 check, stale after 2 s, 2 s | `ImplementsQueue`, `ReleaseNeedsFreshMatch`, `FixityNeverUnblocks` | 0.44 M |
| `srikandi_outbox` | 1 key, 2 bodies, 2 versions, 2 dispatchers, 2 attempts, 2 crashes, 1 manual retry, 1 deployment | `TypeOK`, `SucceededMeansAcknowledged`, `LetterHasMessage`, `RetriesWithinLimit`, `OnlyHolderDecides`, `ImplementsDelivery`, `EventuallyResolved` | 82 k |
| `srikandi_exhausted` | the same | `AttemptsWithinLimit`, violated | - |
| `client_blob` | 1 upload, 1 old lease, 1 request, 2 runs, 2 attempts, clock to 3 | `TypeOK`, `ClaimedKeepsObject`, `NothingLeaked`, `ImplementsCustody` | 2.7 M |
| `client_blob_slow` | 1 upload, 1 request, 1 run, slow claims | `ClaimedKeepsObject`, violated | - |
| `surat_approval` | 3 accounts, 2 units, 1 letter, 2 requests in flight, 3 steps | `TypeOK`, `PendingAnswerable`, `TablesAgree`, `MandateHeld`, `ImplementsReview` | 0.47 M |
| `rangkaian` | 2 incoming letters (1 distributable), 1 outgoing, 3 chains, 1 unit, 3 relations of 4 | `TypeOK`, `SelesaiBeralasan`, `BalasanTercatat`, `AnggotaTidakTercecer`, `ImplementsCases` | 0.39 M |
| `rangkaian_dibuka` | the same, all letters registered as unanswered | `DibukaMenyeluruh`, violated | - |
| `archive_disposition` | 2 archives, 1 batch, 1 manifest, 2 appraisers, 4 batch people, 1 decision, 3 revisions | `TypeOK`, `SatuKlaim`, `KeputusanSegar`, `DisposisiSah`, `HoldSajaMenahan`, `HoldFreezes`, `LifecycleRefined` | 0.47 M |
| `regulatory_rule_set` | the baseline and 2 clones, 3 people, 2 contents, 1 source, 3 days | `TypeOK`, `TerbitSesuaiBukti`, `PenelaahMandiri`, `ImplementsRules` | 0.67 M |

What they show:

* **scan_queue**: takeovers and retries cannot keep a file in quarantine for
  ever, if an invocation does not die every time on the same file.
* **malware_queue**: two invocations overlap after a lost lock, claims go stale
  while their holder works, results come late; still a claim has one holder, a
  malicious file is never served, and no file drops out of the queue: one that
  is neither settled nor served is claimable, or will be at a bounded time.
* **bitstream_quarantine**: the row with its tokens and leases implements
  `ScanQueue`. A file starts being served only through a matching read that is
  still current, and never through a fixity run, also not through one whose lease
  another run has taken over.
* **srikandi_outbox**: the outbox implements `ReliableDelivery`: delivery is at
  least once and with one content, success is an acknowledged one and never
  undone. Only the holder of the token settles a message, a waiting one has
  attempts left, only a dead or stalled dispatcher drives one past the limit
  (`RetriesWithinLimit`), and every message ends in `succeeded` or `dead_letter`.
* **client_blob**: with prompt claims no claimed object is deleted, whatever
  the overlap, takeover or failure of runs; what is not claimed is taken by a run
  that starts late enough (`NothingLeaked`), reserved by a dead run or not; the
  leases implement `ObjectCustody`, so what has lapsed is never on offer again,
  and a closed lease is final and its object gone.
* **surat_approval**: no sequence of submissions, forwards, edits, deletions and
  account changes leaves a pending letter with nobody to decide it, lets anybody
  without the mandate decide, or makes the three tables disagree; the letters go
  through one `MandatedReview` each, closed to their author while it lasts.
* **rangkaian**: every order of answers, relations, dispositions, merges, finishing
  and filing, also between the two steps of an outgoing letter's change. A
  finished chain has no open work, an answered letter counts as answered
  wherever merges moved it, relations and dispositions follow their letters.
  The chains implement `CaseFiles`: letters once together stay together, a
  case gives up no letter, and nothing touches a filed one.
* **archive_disposition**: a hold, a correction of the event, a new rule or an
  appraisal meets a batch or a manifest at any stage. Each archive has one claim;
  a decision in force is about the rule and event in force; four people took
  part in a destruction, two in a transfer; what was checked of an archive when
  it was claimed holds until the claim ends, so that a legal hold is all that
  can stop it (`HoldSajaMenahan`); the composition implements `ArchiveLifecycle`.
* **regulatory_rule_set**: two drafts of one predecessor are edited, returned and
  activated concurrently. One becomes its successor; the other one can only fail.
  Seen from the calendar this is `RulesInForce`. `PenelaahMandiri` is what the
  code keeps of the separation of duties: the creator, whoever worked on items,
  source or evidence in any round, and the present submitter are excluded from
  review and approval, and the reviewer from approval. Who only submitted the
  edition in a round that was returned is not: `returnToDraft` clears
  `submittedBy`, and `isMaterialContributor` does not count submissions.

**Bounds.** Two of each competing actor is where the protocols race: a holder
and the one that takes over, two runs, a route and a transaction. A third actor
repeats one of these roles. Two attempts reach both branches of every retry
limit. A clock of a few units passes every expiry, staleness and backoff of the
instance, since these are 1 or 2. In `surat_approval` three accounts are what
a requester, an approver and a next approver or super administrator need; three
steps allow forwarding and a resubmission after a rejection. In `rangkaian` three
chains are two with members and a new one, and three relations an answer, a
reference and one more after a cancellation. In `archive_disposition` one
archive goes through rules, events and an appraisal while the other one shares
its batch or manifest; one batch and one manifest are the two that may compete
for them, and four people are what a destruction needs. In
`regulatory_rule_set` two clones of one edition are two activations that race;
three days let each be published with a period of its own. The proofs of
section 6 do not have these bounds.

Symmetry is used for workers, fixity and reconciliation runs, accounts, requests, chains, appraisers,
batch people and the two reviewers that take part alike, in runs without
liveness: none of them is distinguished by the modules or the instances.
Deadlock is checked in `malware_queue`, `bitstream_quarantine` and
`surat_approval`. It is off where the system may really stop: all messages
resolved, all files removed, all leases closed or out of bounded attempts at the
end of the clock, every chain filed, every archive disposed of, or the last
edition published on the last day.

## 4. Fairness

`ScanQueue!FairSpec`: strong fairness of taking each file, since invocations
are started again and again, the clock passes every delay and the oldest
eligible row is claimed; and strong fairness of finishing it, that is, an
invocation does not die each time on the same file. The second is an
assumption about files, not about scheduling: a takeover keeps the attempt
number, so a file that kills its worker every time is never given up.

`SrikandiOutbox!FairSpec`: a dispatcher that has claimed proceeds (a request
has a timeout) unless it crashes, which is bounded; retries fall due and leases
expire as time passes; a message that is eligible again and again is claimed
(the worker polls and orders by due time; strong fairness because another
message may be claimed first).

No fairness is assumed for safety, for crashes, for a user's actions, or for
manual retries.

## 5. Findings

* **srikandi_exhausted.** `claim` takes over an expired `processing` row
  whatever its `attempt_count`; only `planSrikandiFailure`, which a dead
  dispatcher never reaches, compares it with the maximum. A message whose last
  permitted attempt dies is delivered again. `docs/INTEGRASI_SRIKANDI.md:13`
  says exhausted attempts go to `dead_letter`.
* **client_blob_slow.** The comment at
  `services/client-blob-upload.service.ts:256-258` says a claim can never race
  a deletion, because it demands `expiresAt > now`. That `now` is read before
  the UPDATE. If the lease expires in between, and a deletion takes effect but
  is reported as failed, the run restores the lease to `pending` and the late
  claim succeeds: a committed record without its object. With prompt claims
  the comment is right, which theorem `BlobClaimSafe` proves.
* **rangkaian_dibuka.** `services/distribution.service.ts:153-155` and
  `services/rangkaian/rangkaian-link.service.ts:178` say that when a chain is
  reopened all its incoming letters are recomputed. `attach` reports a reopening
  only for a new member. A relation between two members may reopen the chain
  too, through `recomputeRangkaian`, which also clears the mark of manual
  completion; then only the two ends are recomputed, and another member keeps
  counting as answered although nothing answers it any more. The opposite
  direction, `BalasanTercatat`, always holds.

## 6. Proofs

| module | theorems | inductive invariant |
|---|---|---|
| `BitstreamQuarantineProofs` | `TypeCorrect`, `MaliciousSafe`, `HolderUnique`, `TerminalSafe`, `NeverStranded`, `FixitySafe`, `ReleaseSafe` | `SafeInv`, `AllWait` |
| `QueueRefinementProofs` | `QuarantineImplementsQueue` | `SafeInv` |
| `SrikandiOutboxProofs` | `OutboxTypeCorrect`, `SuccessIsAcknowledged`, `DeliversOneContent`, `LetterAndMessage`, `SuccessFinal`, `HolderSettles`, `RetriesLimited`, `OutboxDelivers` | `OutboxInv`, `RetryInv` |
| `ClientBlobUploadProofs` | `BlobTypeCorrect`, `BlobClosedFinal`, `BlobDeletedGone`, `BlobLegacyClosed`, `BlobClaimSafe`, `BlobNotLeaked`, `BlobCustody` | `LeaseInv`, `PromptInv`, `SightInv` |
| `SuratApprovalProofs` | `ApprovalTypeCorrect`, `PendingNeverStranded`, `ApprovedAsSubmitted`, `ApprovalTablesAgree`, `MandateHeldAlways`, `SpecAdministratorRemains`, `LettersReviewed` | `ApprovalInv`, `ReviewInv` |
| `RangkaianProofs` | `SpecTypeOK`, `SpecSelesaiBeralasan`, `SpecBalasanTercatat`, `SpecAnggotaTidakTercecer`, `SpecBerkasTerkunci`, `SpecImplementsCases` | `RangkaianInv` |
| `ArchiveDispositionProofs` | `SpecTypeOK`, `SpecSatuKlaim`, `SpecKeputusanSegar`, `SpecDisposisiSah`, `SpecHoldSajaMenahan`, `SpecHoldFreezes`, `SpecLifecycleRefined` | `DispInv`, `LayakInv` |
| `RegulatoryRuleSetProofs` | `EditionsTyped`, `EditionsInSuccession`, `EditionsMatchEvidence`, `ReviewersIndependent`, `EditionsImplementRules` | `EditionInv`, `CalendarInv` |

They hold for all values of the constants that satisfy the assumption of the
module (`QueueAssumption`, `FixityAssumption`, `OutboxAssumption`,
`LeaseAssumption`, `ApprovalAssumption`, `RangkaianAssumption`,
`ArsipAssumption`, `EditionAssumption`): any numbers of files, workers, runs,
messages, leases, accounts, units, letters, chains, archives, batches, manifests
and editions, and any delays, which need only
be positive where the configuration makes them so.

* **Quarantine.** `MaliciousNeverReleased` and `OneHolder` are not inductive:
  a worker's local result matters before it is written. `SafeInv` adds `Benign`
  (a clean row, and a clean result not yet written, are about a benign file),
  `Judged` (a clean row has been compared with its baseline) and `Holding`: a
  claim an invocation still carries is the row's, or its row is removed, or its
  second has passed. A new claim carries the present second, so it differs from
  every claim that is no longer the row's; and a takeover of the row's own claim
  comes `StaleAfter > 0` seconds after it.
  Integrity columns never matter to a malicious file: they alone do not serve it.
  `NoFileStranded` has an invariant of its own, `AllWait`: a claim's second is
  not ahead of the clock, and a retry was scheduled with an attempt to spare and
  its delay from a second that has come. Two writers of a row set its status
  (claim and report); for the others it is enough that the clock only advances.
* **Refinement.** `Holder` picks a worker by CHOOSE; `OneHolder` makes it the
  only one, so every step changes it as the abstract step does. Each action is
  then mapped: `Claim` to `Take`, `Report` to `Settle`, `BackOff` or a stutter,
  `End` to `LetGo`, integrity changes to `Doubt` and `Restore`, deletion to
  `Drop`, everything else to a stutter.
* **Outbox.** `OutboxInv` says that the content of a row never changes, that a
  dispatcher carries the content of its row, that everything SRIKANDI accepted
  under a key is that content, and that an acknowledged answer was accepted.
  The action properties follow from it and a lemma about the steps of a row.
  `OutboxDelivers` maps these steps: `CreateLetter` and `Enqueue` to `Submit`, an
  accepted request to `Accept`, the settling of a message to `Confirm` or
  `GiveUp`, a manual retry to `Reopen`, claims, crashes and time to stutters.
  `RetryInv` counts what the limit does not: a row held by nobody at work, or
  with an expired lease, owes an attempt to a crash or a stall that is counted.
* **Blob leases.** `LeaseInv` says that whatever a run selected has a status to
  restore (`Selected`), that the statuses of old leases, those they may be
  restored to included, are never `pending` (`Separated`), and that a run that
  will record a deletion has seen the object go (`Removed`). For
  `BlobClaimSafe`, `PromptInv` adds that a stamped clock is the present one, that
  a run's clock is not ahead, and that a lease which is reserved, being deleted
  or without its object is doomed: expired, or never claimable. Without
  `~SlowClaims` this is false, as the finding shows. `BlobCustody` has the same
  hypothesis: a late claim would turn `lapsed` into `kept`. `BlobNotLeaked` needs
  none: `SightInv` says that no stamp of an open lease is ahead of the clock, its
  expiry by more than `Ttl`.
* **Approval.** Per letter: the three tables agree, the letter is unedited from
  its submission on, and its approver is entitled and not its requester. The
  step `UpdateUser` uses the guard on pending letters; submit and forward use
  the fresh account of the next approver. For `LettersReviewed`, `ReviewInv` adds
  who a letter comes from (its creator is the requester of its request, and no
  approver is named but on a pending letter) and that a request in flight has a
  user. One lemma per action says what it does to the letter, its request and
  its steps (`CreateEffect` and so on), and from that to what abstract step.
  `SpecAdministratorRemains`, which no run lists, follows from the guard on the
  acting account alone: it is a super administrator and cannot demote itself.
* **Case chains.** `RangkaianInv` is stated chain by chain and letter by letter:
  membership, relations and dispositions agree (`AnggotaInv`); the mark of manual
  completion is only on a chain that is finished or was (`ManualOK`); a letter
  under change is an uncommitted draft, and stays without a chain if it had none
  when that was read (`BerubahOK`); finished chains and
  answered letters have their reasons (`SelesaiOK`, `MasukOK`). A chain whose
  members, relations and dispositions a step leaves alone keeps its status
  (`AmanLokal`). Two lemmas carry the rest: one for steps that recompute a single
  chain, one (`PindahStep`) for steps that bring letters into a chain.
  `SpecImplementsCases` needs of a step only `BerkasTerkunciStep` and `Gerak`:
  whoever moves takes the whole chain along (`Utuh`), no relation is forgotten,
  and only filing files. From these, `PerkaraPindah` shows a move to be one
  `Gather`, `KerjaStep` every step but a filing to be `Work`, and `TutupStep` a
  filing to be `Close`, or a stutter if the chain has no members left.
* **Disposal.** `DispInv` adds to the checked invariants how many people a batch
  has had at each status and that handover and acknowledgement are by two. Each
  service needs only what it knows of a row: a claim needs `Tersedia`, a
  transition of a batch checks again that its archives may go, and a change of
  rule, event or decision is refused while anybody claims the archive. Hence a
  right that was checked cannot be withdrawn before its disposal. The action
  property and the refinement come from one lemma per operation. `LayakInv` is
  `HoldSajaMenahan` archive by archive; it needs `DispInv` for the single claim,
  and one lemma (`AwetCukup`): what the checks look at, apart from the hold,
  survives a step that keeps rule, event, decision and retention data, while the
  calendar only moves towards the end of the retention and appraisals only end.
* **Rule sets.** `EditionInv` says that a manifest or report that is there is
  about the present content (`Bukti`), that names of reviewers are only in rows
  that were reviewed in this round, and are not those of its creator,
  contributors or present submitter (`Telaah`), that an activation in progress
  holds a ready candidate (`Kunci`), and that the published editions form a line
  (`Garis`): an edition whose predecessor was closed by another one fails
  `Mutakhir`, since the active edition is no longer the one it names.
  `CalendarInv` adds that what is superseded ended before the active edition
  begins (`Rapat`) and that a candidate under activation has begun (`Tiba`);
  hence a publication changes the calendar from its first day on, and nothing else.

Some theorems state properties that no run lists any more, because a refinement
that is checked says as much: `SuccessIsFinal` and `OneContentPerKey` of the
outbox, `ClosedIsFinal` and `DeletedMeansGone` of the leases, `ReviewedContent`
of the letters, `MasaBerlakuBersambung` of the editions and `TerminalForGood` of
the quarantine. Two of them say a little more than theirs: `BerkasTerkunci`, that
a merged chain stays merged (`CaseFiles` has no names for cases), and
`LegacyNeverClaimable`, that an old lease is not even `pending` (to
`ObjectCustody` it has lapsed either way).

## 7. Only model-checked

`EventuallySettled` and `EventuallyResolved` (liveness under fairness is outside
the prover) and freedom from deadlock. All other properties of passing runs are
also theorems, with the hypothesis `~SlowClaims` where the leases need it. Each property is shown to have teeth by a mutant of the code's
definition that TLC refutes (`mutants` in `PROJECT.json`); where a mutant needs
an operator of its own it stands before the definition, marked as such.

## 8. Plan

Done: `ScanQueue`, `MalwareScan`, `BitstreamQuarantine`, `SrikandiOutbox`,
`ClientBlobUpload`, `SuratApproval`, `Rangkaian`, `ArsipRecord`,
`RetentionAppraisal`, `Penyusutan`, `PermanentTransfer`, `ArchiveDisposition`
with `ArchiveLifecycle`, and `RegulatoryRuleSet`, with their proofs; the abstract
`ReliableDelivery`, `ObjectCustody`, `MandatedReview`, `CaseFiles` and `RulesInForce`, with the
refinements proved. Left, in order:

1. `BulkUpload` with the OCR capacity semaphore and the compensation of
   server-side uploads: claims of items, renewal by claim stamp, clean-up of
   expired batches against a running recognition, confirmation, and a commit that
   is reported as failed although it took effect. Property: an object a live
   record refers to is never removed, a late recognition changes nothing.
2. The correction of filed chains (`rangkaian-koreksi.service.ts`), with the unit
   and the classification of a chain, which `Rangkaian` abstracts from.
3. `ArchiveLending`, if archives are ever put in boxes, with each UPDATE and its
   `NOT EXISTS` subquery a step of its own.
4. `RecordAccessGrant`, with the records whose owner changes under a grant.

## 9. Not modelled

* Reports, exports, dashboards, search and readiness read only. Notifications
  and e-mail are derived or best effort; nothing depends on them. The audit log
  is written in the transaction it describes.
* Numbering of letters and rate limits are one SQL statement each.
* Imports and OCR text extraction are parsing and I/O.
* **Lending.** An item loan is one transaction under the row lock of its
  archive. No service assigns `arsip.storage_location_id`: creation and imports do not set
  it and `updateArsipSchema` refuses it. So a loan of a box touches no archive, and the
  interplay of the two kinds of loan has nothing to happen on.
* **Record access grants.** Each operation is one transaction with a conditional
  UPDATE, and partial unique indexes decide between concurrent ones. Every
  statement that relies on a grant compares `expires_at` itself.
* **Dossiers** are folders of letters; nothing depends on their status.
* **Bulk upload**, the OCR semaphore and server-side final objects are a
  protocol of the size of `ClientBlobUpload`; see the plan.
* The scanner engine, the object store, SRIKANDI and browsers are environment:
  they appear by what the code may observe of them.
* In modelled components, first the older ones: ownership and path checks of
  leases, formatting of payloads, listing of messages, creation of accounts,
  passwords and sessions.
* Case chains: chains of imported old data, the correction of filed chains,
  unit, classification and participants of a chain, permissions, the archived
  flag, the responsible unit, deadlines, and access to controlled letters. When
  a merge commits between the two steps of an outgoing letter's change, the
  target of the merge may stay open although its facts would finish it; the
  next recompute corrects it and no comment promises more, so no property does.
* Disposal: roles and permissions, the designations vital and protected,
  unit and classification, `recoverInactiveTransfer`, the bytes of execution
  evidence, which cancelled manifest a new one replaces, batches of the retired
  kind `penyerahan`, decisions on single items of an archive. Loans are not looked
  at by the disposal code at all.
* Rule sets: the bootstrap of a local installation, the rules an item must meet
  (a content is valid or not), availability of the source object, page numbers
  and counts, the hash chain of the events, counts of affected archives, the
  summary of changes, the status `withdrawn`.
* Settings that change between deployments: the scan worker's limit of attempts
  is a constant. Lowering `MALWARE_SCAN_MAX_ATTEMPTS` while files wait could leave
  rows whose attempt number `claimNext` no longer selects; `NoFileStranded` is
  about a limit that stays.
* A lost upload callback leaves an object without a lease, which no operation
  of the backend sees; the model has such objects, and no property about them.
