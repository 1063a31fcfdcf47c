---------------------------- MODULE MalwareScan ----------------------------
(***************************************************************************)
(* The quarantine queue of uploaded bitstreams: the rows of                *)
(* file_attachments, the object each row points at, and the scan workers   *)
(* that claim a row, read and scan the object and record a verdict.        *)
(* Source: services/malware-scan.worker.ts, workers/malware-scan*.ts,      *)
(* services/file-attachment.service.ts.                                    *)
(*                                                                         *)
(* A row's malware_scan_status is a token: scanning:<attempt>:<second> and *)
(* retry:<attempt>:<second> carry their arguments, so a status is a record *)
(* of a kind, an attempt and a second.  Every statement below is a single  *)
(* SQL statement (or a transaction that locks the row) and so one action.  *)
(***************************************************************************)
EXTENDS Naturals

CONSTANTS
    Files,          \* attachments (all registered as private, with a baseline)
    Malicious,      \* those whose accepted bytes carry a signature
    CreatedAt,      \* Files -> Nat, injective: created_at, then id
    Workers,        \* concurrent worker invocations
    NoWorker,       \* the advisory lock when nobody holds it
    MaxAttempts,    \* config.worker.maxAttempts
    StaleAfter,     \* config.worker.staleAfterMs, in seconds
    RetryDelay,     \* attempt -> seconds: retryDelayMs
    Horizon         \* bound on the clock

ASSUME QueueAssumption ==
    /\ Files # {}
    /\ Malicious \subseteq Files
    /\ CreatedAt \in [Files -> Nat]
    /\ \A f, g \in Files : CreatedAt[f] = CreatedAt[g] => f = g
    /\ NoWorker \notin Workers
    /\ MaxAttempts \in Nat \ {0}
    /\ StaleAfter \in Nat \ {0}
    /\ RetryDelay \in [1 .. MaxAttempts -> Nat \ {0}]
    /\ Horizon \in Nat

VARIABLES
    now,            \* the clock, in seconds
    row,            \* Files -> the file_attachments row (status, integrity)
    object,         \* Files -> what object storage holds for the row
    worker,         \* Workers -> the invocation's local state
    lock            \* holder of the advisory lock simsa:malware-on-demand

qvars == <<now, row, object, worker, lock>>

Kinds == {"not_scanned", "scanning", "retry", "clean", "infected",
          "scan_error", "removed"}
Status == [kind : Kinds, attempt : 0 .. MaxAttempts, at : Nat]
Is(kind) == [kind |-> kind, attempt |-> 0, at |-> 0]
Scanning(n, t) == [kind |-> "scanning", attempt |-> n, at |-> t]
Retry(n, t) == [kind |-> "retry", attempt |-> n, at |-> t]

\* "altered": the stored bytes no longer hash to the baseline of the row.
Contents == {"intact", "altered", "missing"}
Integrity == {"baseline_recorded", "verified", "mismatch"}
Row == [status : Status, integrity : Integrity]
Results == {"none", "clean", "infected", "infected_altered", "altered",
            "retryable", "fatal"}
Phases == {"idle", "started", "claimed", "read"}
AnyFile == CHOOSE f \in Files : TRUE
Job == [phase : Phases, file : Files, token : Status, result : Results]
Idle == [phase |-> "idle", file |-> AnyFile, token |-> Is("not_scanned"),
         result |-> "none"]

(***************************************************************************)
(* What may be served: isFileReleased.                                     *)
(***************************************************************************)
Released(f) == /\ row[f].status.kind = "clean"
               /\ row[f].integrity = "verified"

(***************************************************************************)
(* The queue: claimNext.                                                   *)
(***************************************************************************)
\* Mutant: a claim may be taken over at once.
ImpatientStale(f) == /\ row[f].status.kind = "scanning"
                     /\ row[f].status.at <= now

Stale(f) == /\ row[f].status.kind = "scanning"
            /\ row[f].status.attempt <= MaxAttempts
            /\ row[f].status.at + StaleAfter <= now

DueRetry(f) == /\ row[f].status.kind = "retry"
               /\ row[f].status.attempt < MaxAttempts
               /\ row[f].status.at <= now

Unverified(f) == /\ row[f].status.kind = "clean"
                 /\ row[f].integrity # "verified"

Claimable(f) == \/ row[f].status.kind = "not_scanned"
                \/ Unverified(f)
                \/ DueRetry(f)
                \/ Stale(f)

\* Mutant: a takeover of a stale claim counts as a new attempt.
CountingAttempt(f) ==
    IF row[f].status.kind \in {"not_scanned", "clean"} THEN 1
    ELSE row[f].status.attempt + 1

\* A stale claim is taken over under the same attempt number.
NextAttempt(f) ==
    CASE row[f].status.kind \in {"not_scanned", "clean"} -> 1
      [] row[f].status.kind = "retry" -> row[f].status.attempt + 1
      [] OTHER -> row[f].status.attempt

\* ORDER BY created_at.  A claim is one step here, so that no other one holds a
\* row it would have to skip (SKIP LOCKED).
Oldest(f) == \A g \in Files : Claimable(g) => CreatedAt[f] <= CreatedAt[g]

QueueInit ==
    /\ now = 0
    /\ row = [f \in Files |-> [status |-> Is("not_scanned"),
                               integrity |-> "baseline_recorded"]]
    /\ object = [f \in Files |-> "intact"]
    /\ worker = [w \in Workers |-> Idle]
    /\ lock = NoWorker

\* The session's advisory lock is released with the invocation that holds it.
Unlock(w) == lock' = IF lock = w THEN NoWorker ELSE lock

\* runOnDemandMalwareScan: pg_try_advisory_lock, or the invocation is 'busy'.
Start(w) ==
    /\ worker[w].phase = "idle"
    /\ lock = NoWorker
    /\ lock' = w
    /\ worker' = [worker EXCEPT ![w].phase = "started"]
    /\ UNCHANGED <<now, row, object>>

\* The lock connection drops: the server frees the lock at once, the
\* invocation learns of it later and may still finish the step it is in.
LoseLock(w) ==
    /\ lock = w
    /\ lock' = NoWorker
    /\ UNCHANGED <<now, row, object, worker>>

\* runOnce(1) with a claim.
Claim(w) ==
    /\ worker[w].phase = "started"
    /\ \E f \in Files :
         /\ Claimable(f)
         /\ Oldest(f)
         /\ LET token == Scanning(NextAttempt(f), now) IN
              /\ row' = [row EXCEPT ![f].status = token]
              /\ worker' = [worker EXCEPT ![w] =
                              [phase |-> "claimed", file |-> f,
                               token |-> token, result |-> "none"]]
    /\ UNCHANGED <<now, object, lock>>

\* runOnce(1) with an empty queue, and every abort, deadline or crash of an
\* invocation: it ends where it is and leaves its claim in the row.
End(w) ==
    /\ worker[w].phase # "idle"
    /\ worker' = [worker EXCEPT ![w] = Idle]
    /\ Unlock(w)
    /\ UNCHANGED <<now, row, object>>

\* processClaim: what reading and scanning the object as it is now can give.
Outcome(f) ==
    {"retryable", "fatal"}
      \cup CASE object[f] = "intact" /\ f \in Malicious -> {"infected"}
             [] object[f] = "intact" /\ f \notin Malicious -> {"clean"}
             [] object[f] = "altered" -> {"altered", "infected_altered"}
             [] OTHER -> {}

Read(w) ==
    /\ worker[w].phase = "claimed"
    /\ \E result \in Outcome(worker[w].file) :
         worker' = [worker EXCEPT ![w].phase = "read", ![w].result = result]
    /\ UNCHANGED <<now, row, object, lock>>

\* transition: the conditional UPDATE, guarded by the exact claim token.
HoldsClaim(w) == row[worker[w].file].status = worker[w].token

\* Mutant: the last attempt is retried too.
AfterFailureLate(w) ==
    LET n == worker[w].token.attempt IN
      IF worker[w].result = "retryable" /\ n <= MaxAttempts
        THEN Retry(n, now + RetryDelay[n])
        ELSE Is("scan_error")

\* handleFailure.
AfterFailure(w) ==
    LET n == worker[w].token.attempt IN
      IF worker[w].result = "retryable" /\ n < MaxAttempts
        THEN Retry(n, now + RetryDelay[n])
        ELSE Is("scan_error")

\* Mutant: a matching hash decides before the scanner's verdict does.
HashFirstVerdict(w, r) ==
    CASE worker[w].result \in {"clean", "infected"} ->
           [status |-> Is("clean"), integrity |-> "verified"]
      [] worker[w].result \in {"infected_altered", "altered"} ->
           [status |-> Is("scan_error"), integrity |-> "mismatch"]
      [] OTHER -> [status |-> AfterFailure(w), integrity |-> r.integrity]

Verdict(w, r) ==
    CASE worker[w].result = "clean" ->
           [status |-> Is("clean"), integrity |-> "verified"]
      [] worker[w].result = "infected" ->
           [status |-> Is("infected"), integrity |-> "verified"]
      [] worker[w].result = "infected_altered" ->
           [status |-> Is("infected"), integrity |-> "mismatch"]
      [] worker[w].result = "altered" ->
           [status |-> Is("scan_error"), integrity |-> "mismatch"]
      [] OTHER -> [status |-> AfterFailure(w), integrity |-> r.integrity]

\* A result whose token is no longer the row's is discarded ('stale').
Report(w) ==
    /\ worker[w].phase = "read"
    /\ LET f == worker[w].file IN
         row' = IF HoldsClaim(w)
                  THEN [row EXCEPT ![f] = Verdict(w, row[f])]
                  ELSE row
    /\ worker' = [worker EXCEPT ![w] = Idle]
    /\ Unlock(w)
    /\ UNCHANGED <<now, object>>

\* FileAttachmentService.delete: the row goes with a confirmed deletion.
Remove(f) ==
    /\ row[f].status.kind # "removed"
    /\ row' = [row EXCEPT ![f].status = Is("removed")]
    /\ object' = [object EXCEPT ![f] = "missing"]
    /\ UNCHANGED <<now, worker, lock>>

\* The same, unconfirmed: the transaction rolls back, the object may be gone.
RemoveUnconfirmed(f) ==
    /\ row[f].status.kind # "removed"
    /\ object' = [object EXCEPT ![f] = "missing"]
    /\ UNCHANGED <<now, row, worker, lock>>

\* Object storage: bytes decay, or are replaced behind the locator.
Decay(f) ==
    /\ object[f] = "intact"
    /\ object' = [object EXCEPT ![f] = "altered"]
    /\ UNCHANGED <<now, row, worker, lock>>

Tick ==
    /\ now < Horizon
    /\ now' = now + 1
    /\ UNCHANGED <<row, object, worker, lock>>

WorkerStep(w) == \/ Start(w)
                 \/ LoseLock(w)
                 \/ Claim(w)
                 \/ End(w)
                 \/ Read(w)
                 \/ Report(w)

-----------------------------------------------------------------------------

\* Types of the queue's variables.
QueueTypeOK ==
    /\ now \in Nat
    /\ row \in [Files -> Row]
    /\ object \in [Files -> Contents]
    /\ worker \in [Workers -> Job]
    /\ lock \in Workers \cup {NoWorker}

=============================================================================
