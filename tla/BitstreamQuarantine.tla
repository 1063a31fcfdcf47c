------------------------ MODULE BitstreamQuarantine ------------------------
(***************************************************************************)
(* The malware queue composed with the other writers of a row's integrity: *)
(* the scheduled fixity service, which leases a job per file, re-reads the *)
(* object and records match or mismatch, and verifyIntegrity, the check a  *)
(* user's operation runs, which is optimistic: it writes only if the row   *)
(* is the one it read.  A file is served while Released holds.             *)
(* Source: services/file-fixity.service.ts, file-attachment.service.ts     *)
(* (verifyIntegrity), bitstream-integrity.ts, file-release-policy.ts.      *)
(***************************************************************************)
EXTENDS MalwareScan

CONSTANTS
    Runs,           \* concurrent fixity runs; a run's id is its claim_token
    NoRun,          \* claim_token IS NULL
    Checks,         \* concurrent verifyIntegrity calls
    Lease,          \* seconds of a fixity lease (read timeout + 60)
    Interval,       \* seconds to the next check after a match
    RetryGap        \* seconds to the next check otherwise

ASSUME FixityAssumption ==
    /\ NoRun \notin Runs
    /\ Lease \in Nat \ {0}
    /\ Interval \in Nat \ {0}
    /\ RetryGap \in Nat \ {0}

VARIABLES
    job,            \* Files -> the file_fixity_jobs row
    run,            \* Runs -> local state of a fixity run
    check           \* Checks -> local state of a verifyIntegrity call

fvars == <<job, run, check>>
vars == <<qvars, fvars>>

Readings == {"none", "match", "mismatch", "error"}
FixityJob == [enrolled : BOOLEAN, token : Runs \cup {NoRun},
              lease : Nat, next : Nat]
FixityRun == [phase : {"idle", "claimed", "read"}, file : Files,
              reading : Readings]
Check == [phase : {"idle", "selected", "read"}, file : Files, seen : Row,
          reading : Readings]
IdleRun == [phase |-> "idle", file |-> AnyFile, reading |-> "none"]
IdleCheck == [phase |-> "idle", file |-> AnyFile,
              seen |-> [status |-> Is("not_scanned"),
                        integrity |-> "baseline_recorded"],
              reading |-> "none"]

FixityInit ==
    /\ job = [f \in Files |-> [enrolled |-> FALSE, token |-> NoRun,
                               lease |-> 0, next |-> 0]]
    /\ run = [r \in Runs |-> IdleRun]
    /\ check = [c \in Checks |-> IdleCheck]

Init == QueueInit /\ FixityInit

\* The rows a fixity run may take up, at enrolment, claim and finish.
FixityEligible(f) == /\ row[f].status.kind = "clean"
                     /\ row[f].integrity # "mismatch"

\* inspectBitstream: the stored bytes against the baseline.
ReadingsOf(f) == {"error"} \cup CASE object[f] = "intact" -> {"match"}
                                  [] object[f] = "altered" -> {"mismatch"}
                                  [] OTHER -> {}

\* run: enrolment inserts a job for every eligible file without one; a file
\* beyond the first batch falls due a spacing later.
Enrol ==
    /\ \E f \in Files : FixityEligible(f) /\ ~job[f].enrolled
    /\ \E due \in [Files -> {now, now + RetryGap}] :
         job' = [f \in Files |->
                   IF FixityEligible(f) /\ ~job[f].enrolled
                     THEN [enrolled |-> TRUE, token |-> NoRun, lease |-> 0,
                           next |-> due[f]]
                     ELSE job[f]]
    /\ UNCHANGED <<qvars, run, check>>

FixityDue(f) == /\ job[f].enrolled
                /\ job[f].next <= now
                /\ job[f].token = NoRun \/ job[f].lease <= now
                /\ FixityEligible(f)

FixityClaim(r) ==
    /\ run[r].phase = "idle"
    /\ \E f \in Files :
         /\ FixityDue(f)
         /\ \A g \in Files : FixityDue(g) => job[f].next <= job[g].next
         /\ job' = [job EXCEPT ![f].token = r, ![f].lease = now + Lease]
         /\ run' = [run EXCEPT ![r] = [phase |-> "claimed", file |-> f,
                                       reading |-> "none"]]
    /\ UNCHANGED <<qvars, check>>

FixityRead(r) ==
    /\ run[r].phase = "claimed"
    /\ \E reading \in ReadingsOf(run[r].file) :
         run' = [run EXCEPT ![r].phase = "read", ![r].reading = reading]
    /\ UNCHANGED <<qvars, job, check>>

HoldsLease(r) == /\ job[run[r].file].token = r
                 /\ job[run[r].file].lease > now

\* Mutant: the UPDATE of finish forgets integrity_status <> 'mismatch'.
RecordsAny(f) == row[f].status.kind = "clean"

\* finish: the conditional UPDATE of the exact baseline.
Records(f) == FixityEligible(f)

\* finish: one transaction under the job's row lock; without the lease it
\* rolls back, and a result for a row that moved on is kept out of the row.
FixityFinish(r) ==
    /\ run[r].phase = "read"
    /\ LET f == run[r].file
           reading == run[r].reading
           recorded == reading # "error" /\ Records(f)
       IN
         IF HoldsLease(r)
           THEN /\ row' = IF recorded
                            THEN [row EXCEPT ![f].integrity =
                                   IF reading = "match" THEN "verified"
                                                        ELSE "mismatch"]
                            ELSE row
                /\ job' = [job EXCEPT
                     ![f].token = NoRun, ![f].lease = 0,
                     ![f].next = now + IF recorded /\ reading = "match"
                                         THEN Interval ELSE RetryGap]
           ELSE UNCHANGED <<row, job>>
    /\ run' = [run EXCEPT ![r] = IdleRun]
    /\ UNCHANGED <<now, object, worker, lock, check>>

\* A run that dies leaves its lease to expire.
FixityCrash(r) ==
    /\ run[r].phase # "idle"
    /\ run' = [run EXCEPT ![r] = IdleRun]
    /\ UNCHANGED <<qvars, job, check>>

\* verifyIntegrity: the row is read, ...
CheckSelect(c) ==
    /\ check[c].phase = "idle"
    /\ \E f \in Files :
         /\ row[f].status.kind # "removed"
         /\ check' = [check EXCEPT ![c] = [phase |-> "selected", file |-> f,
                                           seen |-> row[f],
                                           reading |-> "none"]]
    /\ UNCHANGED <<qvars, job, run>>

\* ... then the object (a failed read ends the call) ...
CheckRead(c) ==
    /\ check[c].phase = "selected"
    /\ \E reading \in ReadingsOf(check[c].file) :
         check' = [check EXCEPT ![c] =
                     IF reading = "error" THEN IdleCheck
                     ELSE [@ EXCEPT !.phase = "read", !.reading = reading]]
    /\ UNCHANGED <<qvars, job, run>>

\* Mutant: the UPDATE of verifyIntegrity names the row by id only.
BaselineIgnored(c) == row[check[c].file].status.kind # "removed"

\* The row is still the one the call read.
BaselineUnchanged(c) == row[check[c].file] = check[c].seen

\* ... and the result is written only if the row is the one it read.
CheckWrite(c) ==
    /\ check[c].phase = "read"
    /\ LET f == check[c].file IN
         row' = IF BaselineUnchanged(c)
                  THEN [row EXCEPT ![f].integrity =
                          IF check[c].reading = "match" THEN "verified"
                                                        ELSE "mismatch"]
                  ELSE row
    /\ check' = [check EXCEPT ![c] = IdleCheck]
    /\ UNCHANGED <<now, object, worker, lock, job, run>>

FixityNext == \/ Enrol
              \/ \E r \in Runs : \/ FixityClaim(r) \/ FixityRead(r)
                                 \/ FixityFinish(r) \/ FixityCrash(r)
              \/ \E c \in Checks : \/ CheckSelect(c) \/ CheckRead(c)
                                   \/ CheckWrite(c)

\* ON DELETE CASCADE: the job of a removed row goes with it.
RemoveWithJob(f) ==
    /\ Remove(f)
    /\ job' = [job EXCEPT ![f] = [enrolled |-> FALSE, token |-> NoRun,
                                  lease |-> 0, next |-> 0]]
    /\ UNCHANGED <<run, check>>

Next == \/ \E w \in Workers : WorkerStep(w) /\ UNCHANGED fvars
        \/ \E f \in Files : RemoveWithJob(f)
        \/ \E f \in Files : (RemoveUnconfirmed(f) \/ Decay(f)) /\ UNCHANGED fvars
        \/ Tick /\ UNCHANGED fvars
        \/ FixityNext

Spec == Init /\ [][Next]_vars

-----------------------------------------------------------------------------

\* Types of all variables of the composition.
TypeOK ==
    /\ QueueTypeOK
    /\ job \in [Files -> FixityJob]
    /\ run \in [Runs -> FixityRun]
    /\ check \in [Checks -> Check]

\* A file whose accepted bytes carry a signature is never served, whatever
\* workers, fixity runs and checks do to its row and in what order.
MaliciousNeverReleased == \A f \in Malicious : ~Released(f)

Active(w) == worker[w].phase \in {"claimed", "read"}

\* Two invocations never hold the same claim: an attempt and a second are
\* enough to tell a claim from the one that took it over.
OneHolder ==
    \A v, w \in Workers :
      /\ Active(v) /\ Active(w)
      /\ worker[v].file = worker[w].file
      /\ row[worker[v].file].status = worker[v].token
      /\ row[worker[w].file].status = worker[w].token
      => v = w

\* No file is lost to the queue: one that is neither settled nor served can be
\* claimed now, or it backs off and will be claimed with an attempt to spare when
\* its delay is over, or its claim will be stale StaleAfter seconds later.
NoFileStranded ==
    \A f \in Files :
      LET status == row[f].status IN
        \/ status.kind \in {"infected", "scan_error", "removed"}
        \/ Released(f)
        \/ Claimable(f)
        \/ /\ status.kind = "retry"
           /\ status.attempt < MaxAttempts
           /\ status.at <= now + RetryDelay[status.attempt]
        \/ /\ status.kind = "scanning"
           /\ status.attempt <= MaxAttempts
           /\ status.at <= now

\* infected and scan_error are final: only the deletion of the row ends them.
FinalVerdicts ==
    \A f \in Files :
      row[f].status.kind \in {"infected", "scan_error"} =>
        row'[f].status.kind \in {row[f].status.kind, "removed"}
TerminalForGood == [][FinalVerdicts]_vars

\* A file becomes served only by a result of a complete matching read, held
\* under the row's current claim or taken from the row as it still is.
FreshReleases ==
    \A f \in Files :
      ~Released(f) /\ Released(f)' =>
        \/ \E w \in Workers : /\ worker[w].phase = "read"
                              /\ worker[w].file = f
                              /\ worker[w].result = "clean"
                              /\ worker[w].token = row[f].status
        \/ \E c \in Checks : /\ check[c].phase = "read"
                             /\ check[c].file = f
                             /\ check[c].reading = "match"
                             /\ check[c].seen = row[f]
ReleaseNeedsFreshMatch == [][FreshReleases]_vars

\* A scheduled fixity run, however late, never turns a blocked file into a
\* served one.
FixitySteps == \E r \in Runs : run[r].phase = "read" /\ run'[r].phase = "idle"
FixityBlocksOnly == FixitySteps => \A f \in Files : Released(f)' => Released(f)
FixityNeverUnblocks == [][FixityBlocksOnly]_vars

(***************************************************************************)
(* The abstract queue.  A row that is clean but not verified is 'suspect'; *)
(* a claim counts only while its token is the row's.                       *)
(***************************************************************************)
PhaseOf(f) ==
    LET kind == row[f].status.kind IN
      CASE kind = "not_scanned" -> "queued"
        [] kind = "scanning" -> "held"
        [] kind = "retry" -> "backoff"
        [] kind = "clean" /\ row[f].integrity # "verified" -> "suspect"
        [] OTHER -> kind

Holder(f) ==
    LET holders == {w \in Workers : /\ worker[w].phase \in {"claimed", "read"}
                                    /\ worker[w].file = f
                                    /\ worker[w].token = row[f].status}
    IN IF holders = {} THEN NoWorker ELSE CHOOSE w \in holders : TRUE

Queue == INSTANCE ScanQueue WITH
    phase <- [f \in Files |-> PhaseOf(f)],
    holder <- [f \in Files |-> Holder(f)],
    attempt <- [f \in Files |-> row[f].status.attempt]

\* Rows, tokens and leases behave as the abstract queue: one counted holder,
\* takeovers that do not count, retries that do.
ImplementsQueue == Queue!SSpec

=============================================================================
