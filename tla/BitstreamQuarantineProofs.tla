---------------------- MODULE BitstreamQuarantineProofs ----------------------
(***************************************************************************)
(* Proofs about the quarantine, for any number of files, invocations,      *)
(* fixity runs and checks, any clock and any timing constants.             *)
(***************************************************************************)
EXTENDS BitstreamQuarantine, TLAPS

\* A claim in a row or in the hands of an invocation counts at least one
\* attempt: RetryDelay is applied to the attempt of a token.
AttemptsCounted ==
    /\ \A f \in Files : row[f].status.kind \in {"scanning", "retry"} =>
                          row[f].status.attempt \in 1 .. MaxAttempts
    /\ \A w \in Workers : Active(w) =>
                            /\ worker[w].token.kind = "scanning"
                            /\ worker[w].token.attempt \in 1 .. MaxAttempts

TypeInv == TypeOK /\ AttemptsCounted

LEMMA AnyFileType == AnyFile \in Files
BY QueueAssumption DEF AnyFile

LEMMA StatusType ==
    /\ \A kind \in Kinds : Is(kind) \in Status
    /\ \A n \in 0 .. MaxAttempts, t \in Nat : Scanning(n, t) \in Status
    /\ \A n \in 0 .. MaxAttempts, t \in Nat : Retry(n, t) \in Status
BY QueueAssumption DEF Is, Scanning, Retry, Status, Kinds

LEMMA IdleType == Idle \in Job /\ IdleRun \in FixityRun /\ IdleCheck \in Check
<1>1. "not_scanned" \in Kinds
  BY DEF Kinds
<1>2. Is("not_scanned") \in Status
  BY <1>1, StatusType
<1>. QED
  BY <1>2, AnyFileType DEF Idle, IdleRun, IdleCheck, Job, Phases, Results,
     FixityRun, Check, Readings, Row, Integrity

LEMMA InitTypeInv == Init => TypeInv
<1>. SUFFICES ASSUME Init PROVE TypeInv
  OBVIOUS
<1>1. Is("not_scanned") \in Status
  BY StatusType DEF Kinds
<1>2. [status |-> Is("not_scanned"), integrity |-> "baseline_recorded"] \in Row
  BY <1>1 DEF Row, Integrity
<1>3. QueueTypeOK
  BY <1>2, IdleType DEF Init, QueueInit, QueueTypeOK, Contents
<1>4. job \in [Files -> FixityJob] /\ run \in [Runs -> FixityRun]
                                   /\ check \in [Checks -> Check]
  BY IdleType DEF Init, FixityInit, FixityJob
<1>5. AttemptsCounted
  BY DEF Init, QueueInit, AttemptsCounted, Active, Is, Idle
<1>. QED
  BY <1>3, <1>4, <1>5 DEF TypeInv, TypeOK

LEMMA NextAttemptType ==
    ASSUME TypeInv, NEW f \in Files, Claimable(f)
    PROVE  NextAttempt(f) \in 1 .. MaxAttempts
<1>1. row[f] \in Row /\ row[f].status \in Status
  BY DEF TypeInv, TypeOK, QueueTypeOK, Row
<1>2. row[f].status.kind \in {"scanning", "retry"} =>
        row[f].status.attempt \in 1 .. MaxAttempts
  BY DEF TypeInv, AttemptsCounted
<1>3. row[f].status.kind \in {"not_scanned", "clean", "retry", "scanning"}
  BY DEF Claimable, Unverified, DueRetry, Stale
<1>4. CASE row[f].status.kind = "retry"
  <2>1. PICK n \in 1 .. MaxAttempts : n = row[f].status.attempt
    BY <1>2, <1>4
  <2>2. n < MaxAttempts
    BY <1>4, <2>1 DEF Claimable, Unverified, DueRetry, Stale
  <2>3. NextAttempt(f) = n + 1
    BY <1>4, <2>1 DEF NextAttempt
  <2>4. MaxAttempts \in Nat
    BY QueueAssumption
  <2>5. n + 1 \in 1 .. MaxAttempts
    BY <2>2, <2>4
  <2>. QED
    BY <2>3, <2>5
<1>5. CASE row[f].status.kind = "scanning"
  BY <1>2, <1>5 DEF NextAttempt
<1>6. CASE row[f].status.kind \in {"not_scanned", "clean"}
  BY <1>6, QueueAssumption DEF NextAttempt
<1>. QED
  BY <1>3, <1>4, <1>5, <1>6

LEMMA VerdictType ==
    ASSUME TypeInv, NEW w \in Workers, worker[w].phase = "read",
           NEW r \in Row
    PROVE  /\ Verdict(w, r) \in Row
           /\ Verdict(w, r).status.kind \in {"scanning", "retry"} =>
                Verdict(w, r).status.attempt \in 1 .. MaxAttempts
<1>1. worker[w] \in Job /\ worker[w].token.attempt \in 1 .. MaxAttempts /\ now \in Nat
  BY DEF TypeInv, TypeOK, QueueTypeOK, AttemptsCounted, Active
<1>2. \A n \in 1 .. MaxAttempts : now + RetryDelay[n] \in Nat
  BY <1>1, QueueAssumption
<1>3. /\ AfterFailure(w) \in Status
      /\ AfterFailure(w).kind \in {"scanning", "retry"} =>
           AfterFailure(w).attempt \in 1 .. MaxAttempts
  <2>1. Is("scan_error") \in Status /\ Is("scan_error").kind = "scan_error"
    BY StatusType DEF Kinds, Is
  <2>2. LET n == worker[w].token.attempt IN
          /\ Retry(n, now + RetryDelay[n]) \in Status
          /\ Retry(n, now + RetryDelay[n]).attempt = n
    BY <1>1, <1>2, StatusType, QueueAssumption DEF Retry
  <2>. QED
    BY <1>1, <2>1, <2>2 DEF AfterFailure
<1>4. /\ Is("clean") \in Status /\ Is("clean").kind = "clean"
      /\ Is("infected") \in Status /\ Is("infected").kind = "infected"
      /\ Is("scan_error") \in Status /\ Is("scan_error").kind = "scan_error"
  BY StatusType DEF Kinds, Is
<1>. QED
  BY <1>3, <1>4 DEF Verdict, Row, Integrity

\* Fixity runs and checks write the integrity of a row and nothing else.
LEMMA IntegrityOnly ==
    ASSUME TypeOK, NEW f \in Files,
           \/ row' = row
           \/ \E i \in Integrity : row' = [row EXCEPT ![f].integrity = i]
    PROVE  /\ row' \in [Files -> Row]
           /\ \A g \in Files : row'[g].status = row[g].status
<1>1. row \in [Files -> Row]
  BY DEF TypeOK, QueueTypeOK
<1>2. CASE row' = row
  BY <1>1, <1>2
<1>3. ASSUME NEW i \in Integrity, row' = [row EXCEPT ![f].integrity = i]
      PROVE  /\ row' \in [Files -> Row]
             /\ \A g \in Files : row'[g].status = row[g].status
  <2>1. \A g \in Files : row'[g] = IF g = f THEN [row[f] EXCEPT !.integrity = i]
                                            ELSE row[g]
    BY <1>1, <1>3
  <2>2. /\ [row[f] EXCEPT !.integrity = i] \in Row
        /\ [row[f] EXCEPT !.integrity = i].status = row[f].status
    BY <1>1 DEF Row
  <2>. QED
    BY <1>1, <1>3, <2>1, <2>2
<1>. QED
  BY <1>2, <1>3

LEMMA TypeStep == TypeInv /\ [Next]_vars => TypeInv'
<1>. SUFFICES ASSUME TypeInv, [Next]_vars PROVE TypeInv'
  OBVIOUS
<1>. USE DEF TypeInv, TypeOK, QueueTypeOK, fvars
<1>1. ASSUME NEW w \in Workers, Start(w), UNCHANGED fvars PROVE TypeInv'
  BY <1>1 DEF Start, AttemptsCounted, Active, Job, Phases
<1>2. ASSUME NEW w \in Workers, LoseLock(w), UNCHANGED fvars PROVE TypeInv'
  BY <1>2 DEF LoseLock, AttemptsCounted, Active
<1>3. ASSUME NEW w \in Workers, Claim(w), UNCHANGED fvars PROVE TypeInv'
  <2>1. PICK f \in Files :
          /\ Claimable(f)
          /\ row' = [row EXCEPT ![f].status = Scanning(NextAttempt(f), now)]
          /\ worker' = [worker EXCEPT ![w] =
               [phase |-> "claimed", file |-> f,
                token |-> Scanning(NextAttempt(f), now), result |-> "none"]]
    BY <1>3 DEF Claim
  <2>2. /\ NextAttempt(f) \in 1 .. MaxAttempts
        /\ Scanning(NextAttempt(f), now) \in Status
        /\ Scanning(NextAttempt(f), now).kind = "scanning"
        /\ Scanning(NextAttempt(f), now).attempt = NextAttempt(f)
    BY <2>1, NextAttemptType, StatusType, QueueAssumption DEF Scanning
  <2>3. row' \in [Files -> Row]
    BY <2>1, <2>2 DEF Row
  <2>4. worker' \in [Workers -> Job]
    BY <2>1, <2>2 DEF Job, Phases, Results
  <2>5. AttemptsCounted'
    BY <2>1, <2>2 DEF AttemptsCounted, Active
  <2>. QED
    BY <1>3, <2>3, <2>4, <2>5 DEF Claim
<1>4. ASSUME NEW w \in Workers, End(w), UNCHANGED fvars PROVE TypeInv'
  <2>1. worker' \in [Workers -> Job] /\ lock' \in Workers \cup {NoWorker}
    BY <1>4, IdleType DEF End, Unlock
  <2>2. AttemptsCounted'
    BY <1>4 DEF End, AttemptsCounted, Active, Idle
  <2>. QED
    BY <1>4, <2>1, <2>2 DEF End
<1>5. ASSUME NEW w \in Workers, Read(w), UNCHANGED fvars PROVE TypeInv'
  <2>1. PICK result \in Results :
          worker' = [worker EXCEPT ![w].phase = "read", ![w].result = result]
    BY <1>5 DEF Read, Outcome, Results
  <2>2. worker' \in [Workers -> Job]
    BY <2>1 DEF Job, Phases
  <2>3. AttemptsCounted'
    BY <1>5, <2>1 DEF Read, AttemptsCounted, Active
  <2>. QED
    BY <1>5, <2>2, <2>3 DEF Read
<1>6. ASSUME NEW w \in Workers, Report(w), UNCHANGED fvars PROVE TypeInv'
  <2>. DEFINE f == worker[w].file
  <2>1. f \in Files /\ row[f] \in Row
    BY DEF Job
  <2>2. /\ Verdict(w, row[f]) \in Row
        /\ Verdict(w, row[f]).status.kind \in {"scanning", "retry"} =>
             Verdict(w, row[f]).status.attempt \in 1 .. MaxAttempts
    BY <1>6, <2>1, VerdictType DEF Report
  <2>3. row' = row \/ row' = [row EXCEPT ![f] = Verdict(w, row[f])]
    BY <1>6 DEF Report
  <2>4. row' \in [Files -> Row]
    BY <2>1, <2>2, <2>3
  <2>5. worker' \in [Workers -> Job] /\ lock' \in Workers \cup {NoWorker}
    BY <1>6, IdleType DEF Report, Unlock
  <2>6. AttemptsCounted'
    <3>. HIDE DEF f
    <3>1. \A g \in Files : row'[g].status.kind \in {"scanning", "retry"} =>
                              row'[g].status.attempt \in 1 .. MaxAttempts
      BY <2>1, <2>2, <2>3 DEF AttemptsCounted
    <3>2. \A v \in Workers : Active(v)' => Active(v) /\ worker'[v] = worker[v]
      BY <1>6 DEF Report, Active, Idle
    <3>. QED
      BY <3>1, <3>2 DEF AttemptsCounted
  <2>. QED
    BY <1>6, <2>4, <2>5, <2>6 DEF Report
<1>7. ASSUME NEW f \in Files, RemoveWithJob(f) PROVE TypeInv'
  <2>1. Is("removed") \in Status /\ Is("removed").kind = "removed"
    BY StatusType DEF Kinds, Is
  <2>2. row' \in [Files -> Row] /\ object' \in [Files -> Contents]
    BY <1>7, <2>1 DEF RemoveWithJob, Remove, Row, Contents
  <2>3. job' \in [Files -> FixityJob]
    BY <1>7 DEF RemoveWithJob, FixityJob
  <2>4. AttemptsCounted'
    BY <1>7, <2>1 DEF RemoveWithJob, Remove, AttemptsCounted, Active
  <2>. QED
    BY <1>7, <2>2, <2>3, <2>4 DEF RemoveWithJob, Remove
<1>8. ASSUME NEW f \in Files, RemoveUnconfirmed(f) \/ Decay(f), UNCHANGED fvars
      PROVE  TypeInv'
  BY <1>8 DEF RemoveUnconfirmed, Decay, Contents, AttemptsCounted, Active
<1>9. CASE Tick /\ UNCHANGED fvars
  BY <1>9 DEF Tick, AttemptsCounted, Active
<1>10. CASE FixityNext
  <2>1. CASE Enrol
    <3>1. PICK due \in [Files -> {now, now + RetryGap}] :
            job' = [f \in Files |->
                     IF FixityEligible(f) /\ ~job[f].enrolled
                       THEN [enrolled |-> TRUE, token |-> NoRun, lease |-> 0,
                             next |-> due[f]]
                       ELSE job[f]]
      BY <2>1 DEF Enrol
    <3>2. \A f \in Files : due[f] \in Nat
      BY <3>1, FixityAssumption
    <3>3. job' \in [Files -> FixityJob]
      BY <3>1, <3>2 DEF FixityJob
    <3>. QED
      BY <2>1, <3>3 DEF Enrol, qvars, AttemptsCounted, Active
  <2>2. ASSUME NEW r \in Runs, FixityClaim(r) PROVE TypeInv'
    <3>1. PICK f \in Files :
            /\ job' = [job EXCEPT ![f].token = r, ![f].lease = now + Lease]
            /\ run' = [run EXCEPT ![r] = [phase |-> "claimed", file |-> f,
                                          reading |-> "none"]]
      BY <2>2 DEF FixityClaim
    <3>2. now + Lease \in Nat
      BY FixityAssumption
    <3>3. job' \in [Files -> FixityJob]
      BY <3>1, <3>2 DEF FixityJob
    <3>4. run' \in [Runs -> FixityRun]
      BY <3>1 DEF FixityRun, Readings
    <3>. QED
      BY <2>2, <3>3, <3>4 DEF FixityClaim, qvars, AttemptsCounted, Active
  <2>3. ASSUME NEW r \in Runs, FixityRead(r) PROVE TypeInv'
    <3>1. PICK reading \in Readings :
            run' = [run EXCEPT ![r].phase = "read", ![r].reading = reading]
      BY <2>3 DEF FixityRead, ReadingsOf, Readings
    <3>2. run' \in [Runs -> FixityRun]
      BY <3>1 DEF FixityRun
    <3>. QED
      BY <2>3, <3>2 DEF FixityRead, qvars, AttemptsCounted, Active
  <2>4. ASSUME NEW r \in Runs, FixityFinish(r) PROVE TypeInv'
    <3>. DEFINE f == run[r].file
    <3>1. f \in Files
      BY DEF FixityRun
    <3>2. \/ row' = row
          \/ \E i \in Integrity : row' = [row EXCEPT ![f].integrity = i]
      BY <2>4 DEF FixityFinish, Integrity
    <3>3. row' \in [Files -> Row]
      BY <3>1, <3>2, IntegrityOnly
    <3>4. \A g \in Files : row'[g].status = row[g].status
      BY <3>1, <3>2, IntegrityOnly
    <3>5. job' \in [Files -> FixityJob]
      <4>1. now + Interval \in Nat /\ now + RetryGap \in Nat
        BY FixityAssumption
      <4>2. CASE job' = job
        BY <4>2
      <4>3. ASSUME NEW next \in Nat,
                   job' = [job EXCEPT ![f].token = NoRun, ![f].lease = 0,
                                      ![f].next = next]
            PROVE  job' \in [Files -> FixityJob]
        <5>1. job[f] \in FixityJob
          BY <3>1
        <5>2. [job[f] EXCEPT !.token = NoRun, !.lease = 0, !.next = next]
                \in FixityJob
          BY <5>1 DEF FixityJob
        <5>3. job' = [job EXCEPT ![f] =
                [job[f] EXCEPT !.token = NoRun, !.lease = 0, !.next = next]]
          BY <4>3, <5>1 DEF FixityJob
        <5>. QED
          BY <3>1, <5>2, <5>3
      <4>4. CASE HoldsLease(r)
        <5>1. PICK next \in {now + Interval, now + RetryGap} :
                job' = [job EXCEPT ![f].token = NoRun, ![f].lease = 0,
                                   ![f].next = next]
          BY <2>4, <4>4 DEF FixityFinish
        <5>. QED
          BY <4>1, <4>3, <5>1
      <4>. QED
        BY <2>4, <4>2, <4>4 DEF FixityFinish
    <3>6. run' \in [Runs -> FixityRun]
      BY <2>4, IdleType DEF FixityFinish
    <3>7. AttemptsCounted'
      BY <2>4, <3>4 DEF FixityFinish, AttemptsCounted, Active
    <3>. QED
      BY <2>4, <3>3, <3>5, <3>6, <3>7 DEF FixityFinish
  <2>5. ASSUME NEW r \in Runs, FixityCrash(r) PROVE TypeInv'
    <3>1. run' \in [Runs -> FixityRun]
      BY <2>5, IdleType DEF FixityCrash
    <3>. QED
      BY <2>5, <3>1 DEF FixityCrash, qvars, AttemptsCounted, Active
  <2>6. ASSUME NEW c \in Checks, CheckSelect(c) PROVE TypeInv'
    <3>1. check' \in [Checks -> Check]
      BY <2>6 DEF CheckSelect, Check, Readings
    <3>. QED
      BY <2>6, <3>1 DEF CheckSelect, qvars, AttemptsCounted, Active
  <2>7. ASSUME NEW c \in Checks, CheckRead(c) PROVE TypeInv'
    <3>1. PICK reading \in Readings :
            check' = [check EXCEPT ![c] =
                        IF reading = "error" THEN IdleCheck
                        ELSE [@ EXCEPT !.phase = "read", !.reading = reading]]
      BY <2>7 DEF CheckRead, ReadingsOf, Readings
    <3>2. check' \in [Checks -> Check]
      BY <3>1, IdleType DEF Check
    <3>. QED
      BY <2>7, <3>2 DEF CheckRead, qvars, AttemptsCounted, Active
  <2>8. ASSUME NEW c \in Checks, CheckWrite(c) PROVE TypeInv'
    <3>. DEFINE f == check[c].file
    <3>1. f \in Files
      BY DEF Check
    <3>2. \/ row' = row
          \/ \E i \in Integrity : row' = [row EXCEPT ![f].integrity = i]
      BY <2>8 DEF CheckWrite, Integrity
    <3>3. row' \in [Files -> Row]
      BY <3>1, <3>2, IntegrityOnly
    <3>4. \A g \in Files : row'[g].status = row[g].status
      BY <3>1, <3>2, IntegrityOnly
    <3>5. check' \in [Checks -> Check]
      BY <2>8, IdleType DEF CheckWrite
    <3>6. AttemptsCounted'
      BY <2>8, <3>4 DEF CheckWrite, AttemptsCounted, Active
    <3>. QED
      BY <2>8, <3>3, <3>5, <3>6 DEF CheckWrite
  <2>. QED
    BY <1>10, <2>1, <2>2, <2>3, <2>4, <2>5, <2>6, <2>7, <2>8 DEF FixityNext
<1>11. CASE UNCHANGED vars
  BY <1>11 DEF vars, qvars, AttemptsCounted, Active
<1>. QED
  BY <1>1, <1>2, <1>3, <1>4, <1>5, <1>6, <1>7, <1>8, <1>9, <1>10, <1>11
  DEF Next, WorkerStep

-----------------------------------------------------------------------------

\* Clean verdicts, recorded or about to be, are of benign files only.
Benign ==
    /\ \A f \in Files : row[f].status.kind = "clean" => f \notin Malicious
    /\ \A w \in Workers :
         worker[w].phase = "read" /\ worker[w].result = "clean" =>
           worker[w].file \notin Malicious

\* A clean row has been compared with its baseline.
Judged ==
    \A f \in Files : row[f].status.kind = "clean" =>
                        row[f].integrity # "baseline_recorded"

\* A claim that an invocation still carries is the row's, or belongs to a
\* removed row, or is older than any claim made from now on.
Holding ==
    \A w \in Workers : Active(w) =>
      \/ row[worker[w].file].status = worker[w].token
      \/ row[worker[w].file].status.kind = "removed"
      \/ worker[w].token.at < now

SafeInv == TypeInv /\ Benign /\ Judged /\ OneHolder /\ Holding

LEMMA InitSafeInv == Init => SafeInv
<1>. SUFFICES ASSUME Init PROVE SafeInv
  OBVIOUS
<1>1. TypeInv
  BY InitTypeInv
<1>2. \A f \in Files : row[f].status.kind = "not_scanned"
  BY DEF Init, QueueInit, Is
<1>3. \A w \in Workers : worker[w].phase = "idle"
  BY DEF Init, QueueInit, Idle
<1>. QED
  BY <1>1, <1>2, <1>3 DEF SafeInv, Benign, Judged, OneHolder, Holding, Active

\* A step that leaves every status and every claim alone ...
Quiet ==
    /\ now' \in {now, now + 1}
    /\ \A f \in Files : row'[f].status = row[f].status
    /\ \A f \in Files : row[f].integrity # "baseline_recorded" =>
                         row'[f].integrity # "baseline_recorded"
    /\ \A w \in Workers : Active(w)' => /\ Active(w)
                                        /\ worker'[w].file = worker[w].file
                                        /\ worker'[w].token = worker[w].token
    /\ \A w \in Workers :
         worker'[w].phase = "read" /\ worker'[w].result = "clean" =>
           worker'[w].file \notin Malicious

\* ... keeps the invariant.
LEMMA QuietStep ==
    ASSUME SafeInv, TypeInv', Quiet
    PROVE  SafeInv'
<1>. USE DEF Quiet
<1>1. \A w \in Workers : worker[w].file \in Files /\ worker[w].token.at \in Nat
  BY DEF SafeInv, TypeInv, TypeOK, QueueTypeOK, Job, Status
<1>2. now \in Nat
  BY DEF SafeInv, TypeInv, TypeOK, QueueTypeOK
<1>3. Benign' /\ Judged'
  BY DEF SafeInv, Benign, Judged
<1>4. OneHolder'
  BY <1>1 DEF SafeInv, OneHolder
<1>5. Holding'
  BY <1>1, <1>2 DEF SafeInv, Holding
<1>. QED
  BY <1>3, <1>4, <1>5 DEF SafeInv

\* A new claim differs from every claim still carried.
LEMMA ClaimStep ==
    ASSUME SafeInv, TypeInv', NEW w \in Workers, Claim(w)
    PROVE  SafeInv'
<1>1. PICK f \in Files :
        /\ Claimable(f)
        /\ row' = [row EXCEPT ![f].status = Scanning(NextAttempt(f), now)]
        /\ worker' = [worker EXCEPT ![w] =
             [phase |-> "claimed", file |-> f,
              token |-> Scanning(NextAttempt(f), now), result |-> "none"]]
  BY DEF Claim
<1>. DEFINE token == Scanning(NextAttempt(f), now)
<1>2. /\ now' = now /\ now \in Nat
      /\ row \in [Files -> Row]
      /\ worker \in [Workers -> Job]
  BY DEF SafeInv, TypeInv, TypeOK, QueueTypeOK, Claim
<1>3. /\ token.kind = "scanning"
      /\ token.at = now
  BY DEF Scanning
<1>. HIDE DEF token
<1>4. /\ row'[f].status = token
      /\ row'[f].integrity = row[f].integrity
      /\ \A g \in Files : g # f => row'[g] = row[g]
  BY <1>1, <1>2 DEF token, Row
<1>5. /\ worker'[w].phase = "claimed"
      /\ worker'[w].file = f
      /\ worker'[w].token = token
      /\ \A v \in Workers : v # w => worker'[v] = worker[v]
  BY <1>1, <1>2 DEF token
<1>6. Benign' /\ Judged'
  BY <1>3, <1>4, <1>5 DEF SafeInv, Benign, Judged
<1>7. ASSUME NEW v \in Workers, v # w, Active(v), worker[v].file = f
      PROVE  worker[v].token.at < now
  <2>1. /\ worker[v].token.kind = "scanning"
        /\ worker[v].token.at \in Nat
    BY <1>2, <1>7 DEF SafeInv, TypeInv, AttemptsCounted, Job, Status
  <2>2. CASE row[f].status = worker[v].token
    <3>1. Stale(f)
      BY <1>1, <2>1, <2>2 DEF Claimable, Unverified, DueRetry
    <3>. QED
      BY <1>2, <2>1, <2>2, <3>1, QueueAssumption DEF Stale
  <2>3. row[f].status.kind # "removed"
    BY <1>1 DEF Claimable, Unverified, DueRetry, Stale
  <2>. QED
    BY <1>7, <2>2, <2>3 DEF SafeInv, Holding
<1>8. \A v \in Workers : v # w => Active(v)' = Active(v)
  BY <1>5 DEF Active
<1>9. OneHolder'
  <2>1. \A v \in Workers : v # w /\ Active(v) /\ worker[v].file = f =>
                              worker[v].token # token
    BY <1>2, <1>3, <1>7
  <2>2. \A v \in Workers : worker[v].file \in Files
    BY <1>2 DEF Job
  <2>. QED
    BY <1>4, <1>5, <1>8, <2>1, <2>2 DEF OneHolder, SafeInv
<1>10. Holding'
  <2>1. \A v \in Workers : worker[v].file \in Files
    BY <1>2 DEF Job
  <2>. QED
    BY <1>2, <1>4, <1>5, <1>7, <1>8, <2>1 DEF Holding, SafeInv
<1>. QED
  BY <1>6, <1>9, <1>10 DEF SafeInv

\* Only the invocation whose claim is the row's changes the row.
LEMMA ReportStep ==
    ASSUME SafeInv, TypeInv', NEW w \in Workers, Report(w)
    PROVE  SafeInv'
<1>. DEFINE f == worker[w].file
<1>1. /\ now' = now /\ now \in Nat
      /\ row \in [Files -> Row]
      /\ worker \in [Workers -> Job]
      /\ f \in Files
  BY DEF SafeInv, TypeInv, TypeOK, QueueTypeOK, Report, Job
<1>2. /\ \A v \in Workers : v # w => worker'[v] = worker[v]
      /\ worker'[w] = Idle
      /\ worker[w].phase = "read"
  BY <1>1 DEF Report
<1>3. \A v \in Workers : Active(v)' => v # w /\ Active(v)
  BY <1>2 DEF Active, Idle
<1>4. CASE ~HoldsClaim(w)
  <2>1. row' = row
    BY <1>4 DEF Report
  <2>. QED
    BY <1>1, <1>2, <1>3, <2>1, QuietStep DEF Quiet, Idle, SafeInv, Benign
<1>5. CASE HoldsClaim(w)
  <2>1. /\ row'[f] = Verdict(w, row[f])
        /\ \A g \in Files : g # f => row'[g] = row[g]
    BY <1>1, <1>5 DEF Report
  <2>2. /\ Verdict(w, row[f]).status.kind = "clean" =>
             /\ worker[w].result = "clean"
             /\ Verdict(w, row[f]).integrity = "verified"
    BY DEF Verdict, AfterFailure, Is, Retry
  <2>. HIDE DEF f
  <2>3. Benign' /\ Judged'
    BY <1>1, <1>2, <2>1, <2>2 DEF SafeInv, Benign, Judged, Idle, f
  <2>4. \A v \in Workers : Active(v)' /\ worker[v].file = f => row[f].status # worker[v].token
    BY <1>2, <1>3, <1>5 DEF SafeInv, OneHolder, HoldsClaim, Active, f
  <2>5. row[f].status.kind = "scanning"
    BY <1>2, <1>5 DEF SafeInv, TypeInv, AttemptsCounted, HoldsClaim, Active, f
  <2>6. \A v \in Workers : Active(v)' /\ worker[v].file = f =>
                            worker[v].token.at < now
    BY <1>3, <2>4, <2>5 DEF SafeInv, Holding
  <2>7. \A v \in Workers : Active(v)' => worker'[v] = worker[v] /\ Active(v)
    BY <1>2, <1>3
  <2>8. \A v \in Workers : worker[v].file \in Files
    BY <1>1 DEF Job
  <2>9. OneHolder'
    <3>1. SUFFICES ASSUME NEW u \in Workers, NEW v \in Workers,
                          Active(u)', Active(v)',
                          worker[u].file = worker[v].file,
                          row'[worker[u].file].status = worker[u].token,
                          row'[worker[v].file].status = worker[v].token
                   PROVE  u = v
      BY <2>7 DEF OneHolder
    <3>2. CASE worker[u].file = f
      <4>1. worker[u].token.kind = "scanning" /\ worker[v].token.kind = "scanning"
        BY <3>1, <2>7 DEF SafeInv, TypeInv, AttemptsCounted
      <4>2. Verdict(w, row[f]).status.kind # "scanning"
        BY DEF Verdict, AfterFailure, Is, Retry
      <4>. QED
        BY <2>1, <3>1, <3>2, <4>1, <4>2
    <3>3. CASE worker[u].file # f
      BY <2>1, <2>7, <2>8, <3>1, <3>3 DEF SafeInv, OneHolder
    <3>. QED
      BY <3>2, <3>3
  <2>10. Holding'
    <3>1. SUFFICES ASSUME NEW v \in Workers, Active(v)'
                   PROVE  \/ row'[worker[v].file].status = worker[v].token
                          \/ row'[worker[v].file].status.kind = "removed"
                          \/ worker[v].token.at < now
      BY <1>1, <2>7 DEF Holding
    <3>2. CASE worker[v].file = f
      BY <2>6, <3>1, <3>2
    <3>3. CASE worker[v].file # f
      BY <2>1, <2>7, <2>8, <3>1, <3>3 DEF SafeInv, Holding
    <3>. QED
      BY <3>2, <3>3
  <2>. QED
    BY <2>3, <2>9, <2>10 DEF SafeInv
<1>. QED
  BY <1>4, <1>5

\* A removed row is nobody's: no claim is ever made for it again.
LEMMA RemoveStep ==
    ASSUME SafeInv, TypeInv', NEW f \in Files, Remove(f)
    PROVE  SafeInv'
<1>1. /\ now' = now /\ worker' = worker
      /\ row \in [Files -> Row]
      /\ worker \in [Workers -> Job]
  BY DEF SafeInv, TypeInv, TypeOK, QueueTypeOK, Remove
<1>2. /\ row'[f].status = Is("removed")
      /\ \A g \in Files : g # f => row'[g] = row[g]
  BY <1>1 DEF Remove, Row
<1>3. Is("removed").kind = "removed"
  BY DEF Is
<1>4. Benign' /\ Judged'
  BY <1>1, <1>2, <1>3 DEF SafeInv, Benign, Judged
<1>5. \A v \in Workers : /\ worker[v].file \in Files
                         /\ Active(v)' = Active(v)
                         /\ Active(v) => worker[v].token.kind = "scanning"
  BY <1>1 DEF Job, Active, SafeInv, TypeInv, AttemptsCounted
<1>6. OneHolder'
  BY <1>1, <1>2, <1>3, <1>5 DEF SafeInv, OneHolder
<1>7. Holding'
  BY <1>1, <1>2, <1>3, <1>5 DEF SafeInv, Holding
<1>. QED
  BY <1>4, <1>6, <1>7 DEF SafeInv

LEMMA SafeStep == SafeInv /\ [Next]_vars => SafeInv'
<1>. SUFFICES ASSUME SafeInv, [Next]_vars PROVE SafeInv'
  OBVIOUS
<1>1. TypeInv /\ TypeInv'
  BY TypeStep DEF SafeInv
<1>2. ASSUME Quiet PROVE SafeInv'
  BY <1>1, <1>2, QuietStep
<1>. USE DEF Quiet
<1>3. ASSUME NEW w \in Workers, WorkerStep(w), UNCHANGED fvars PROVE SafeInv'
  <2>1. CASE Start(w)
    <3>1. Quiet
      BY <1>1, <2>1 DEF Start, Active, SafeInv, Benign, TypeInv, TypeOK, QueueTypeOK, Job
    <3>. QED
      BY <1>2, <3>1
  <2>2. CASE LoseLock(w)
    <3>1. Quiet
      BY <2>2 DEF LoseLock, Active, SafeInv, Benign
    <3>. QED
      BY <1>2, <3>1
  <2>3. CASE Claim(w)
    BY <1>1, <2>3, ClaimStep
  <2>4. CASE End(w)
    <3>1. Quiet
      BY <1>1, <2>4 DEF End, Active, SafeInv, Benign, Idle, TypeInv, TypeOK, QueueTypeOK
    <3>. QED
      BY <1>2, <3>1
  <2>5. CASE Read(w)
    <3>1. PICK result \in Outcome(worker[w].file) :
            worker' = [worker EXCEPT ![w].phase = "read", ![w].result = result]
      BY <2>5 DEF Read
    <3>2. result = "clean" => worker[w].file \notin Malicious
      BY DEF Outcome
    <3>3. /\ \A v \in Workers : v # w => worker'[v] = worker[v]
          /\ worker'[w].phase = "read" /\ worker'[w].result = result
          /\ worker'[w].file = worker[w].file
          /\ worker'[w].token = worker[w].token
      BY <1>1, <3>1 DEF TypeInv, TypeOK, QueueTypeOK, Job
    <3>4. Quiet
      BY <2>5, <3>2, <3>3 DEF Read, Active, SafeInv, Benign
    <3>. QED
      BY <1>2, <3>4
  <2>6. CASE Report(w)
    BY <1>1, <2>6, ReportStep
  <2>. QED
    BY <1>3, <2>1, <2>2, <2>3, <2>4, <2>5, <2>6 DEF WorkerStep
<1>4. ASSUME NEW f \in Files, RemoveWithJob(f) PROVE SafeInv'
  BY <1>1, <1>4, RemoveStep DEF RemoveWithJob
<1>5. ASSUME NEW f \in Files, RemoveUnconfirmed(f) \/ Decay(f) PROVE SafeInv'
  <2>1. Quiet
    BY <1>5 DEF RemoveUnconfirmed, Decay, Active, SafeInv, Benign
  <2>. QED
    BY <1>2, <2>1
<1>6. CASE Tick
  <2>1. Quiet
    BY <1>6 DEF Tick, Active, SafeInv, Benign
  <2>. QED
    BY <1>2, <2>1
<1>7. CASE FixityNext
  <2>1. ASSUME NEW f \in Files, UNCHANGED <<now, worker>>,
               \/ row' = row
               \/ \E i \in {"verified", "mismatch"} :
                    row' = [row EXCEPT ![f].integrity = i]
        PROVE  SafeInv'
    <3>1. \A g \in Files : row'[g].status = row[g].status
      BY <1>1, <2>1, IntegrityOnly DEF TypeInv, Integrity
    <3>2. \A g \in Files : row[g].integrity # "baseline_recorded" =>
                            row'[g].integrity # "baseline_recorded"
      BY <1>1, <2>1 DEF TypeInv, TypeOK, QueueTypeOK, Row
    <3>3. Quiet
      BY <2>1, <3>1, <3>2 DEF Active, SafeInv, Benign
    <3>. QED
      BY <1>2, <3>3
  <2>2. AnyFile \in Files
    BY AnyFileType
  <2>3. CASE Enrol
    BY <2>1, <2>2, <2>3 DEF Enrol, qvars
  <2>4. ASSUME NEW r \in Runs, FixityClaim(r) \/ FixityRead(r) \/ FixityCrash(r)
        PROVE  SafeInv'
    BY <2>1, <2>2, <2>4 DEF FixityClaim, FixityRead, FixityCrash, qvars
  <2>5. ASSUME NEW r \in Runs, FixityFinish(r) PROVE SafeInv'
    <3>1. run[r].file \in Files
      BY <1>1 DEF TypeInv, TypeOK, FixityRun
    <3>2. \/ row' = row
          \/ \E i \in {"verified", "mismatch"} :
               row' = [row EXCEPT ![run[r].file].integrity = i]
      BY <2>5 DEF FixityFinish
    <3>. QED
      BY <2>1, <2>5, <3>1, <3>2 DEF FixityFinish
  <2>6. ASSUME NEW c \in Checks, CheckSelect(c) \/ CheckRead(c) PROVE SafeInv'
    BY <2>1, <2>2, <2>6 DEF CheckSelect, CheckRead, qvars
  <2>7. ASSUME NEW c \in Checks, CheckWrite(c) PROVE SafeInv'
    <3>1. check[c].file \in Files
      BY <1>1 DEF TypeInv, TypeOK, Check
    <3>2. \/ row' = row
          \/ \E i \in {"verified", "mismatch"} :
               row' = [row EXCEPT ![check[c].file].integrity = i]
      BY <2>7 DEF CheckWrite
    <3>. QED
      BY <2>1, <2>7, <3>1, <3>2 DEF CheckWrite
  <2>. QED
    BY <1>7, <2>3, <2>4, <2>5, <2>6, <2>7 DEF FixityNext
<1>8. CASE UNCHANGED vars
  <2>1. Quiet
    BY <1>8 DEF vars, qvars, Active, SafeInv, Benign
  <2>. QED
    BY <1>2, <2>1
<1>. QED
  BY <1>3, <1>4, <1>5, <1>6, <1>7, <1>8 DEF Next

\* The inductive invariant holds in every reachable state.
THEOREM QuarantineInvariant == Spec => []SafeInv
BY InitSafeInv, SafeStep, PTL DEF Spec

\* The types of the composition, claimNext's attempt numbers included.
THEOREM TypeCorrect == Spec => []TypeOK
<1>1. SafeInv => TypeOK
  BY DEF SafeInv, TypeInv
<1>. QED
  BY <1>1, QuarantineInvariant, PTL

\* isFileReleased never holds of a file whose bytes carry a signature.
THEOREM MaliciousSafe == Spec => []MaliciousNeverReleased
<1>1. SafeInv => MaliciousNeverReleased
  BY QueueAssumption DEF SafeInv, Benign, MaliciousNeverReleased, Released
<1>. QED
  BY <1>1, QuarantineInvariant, PTL

\* The claim token of claimNext identifies one invocation.
THEOREM HolderUnique == Spec => []OneHolder
<1>1. SafeInv => OneHolder
  BY DEF SafeInv
<1>. QED
  BY <1>1, QuarantineInvariant, PTL

-----------------------------------------------------------------------------

\* What a step can do to a row: transition and claimNext write the status,
\* finish and verifyIntegrity the integrity, delete ends the row.
RowStep ==
    \/ row' = row
    \/ \E w \in Workers : Claim(w)
    \/ \E w \in Workers : Report(w) /\ HoldsClaim(w)
    \/ \E f \in Files : Remove(f)
    \/ \E r \in Runs : FixityFinish(r) /\ Records(run[r].file)
    \/ \E c \in Checks : CheckWrite(c) /\ BaselineUnchanged(c)

LEMMA RowSteps == [Next]_vars => RowStep
<1>. SUFFICES ASSUME [Next]_vars PROVE RowStep
  OBVIOUS
<1>1. ASSUME NEW w \in Workers, WorkerStep(w) PROVE RowStep
  BY <1>1 DEF WorkerStep, RowStep, Start, LoseLock, End, Read, Report
<1>2. ASSUME NEW f \in Files, RemoveWithJob(f) \/ RemoveUnconfirmed(f) \/ Decay(f)
      PROVE  RowStep
  BY <1>2 DEF RemoveWithJob, RemoveUnconfirmed, Decay, RowStep
<1>3. CASE Tick
  BY <1>3 DEF Tick, RowStep
<1>4. CASE FixityNext
  BY <1>4 DEF FixityNext, Enrol, FixityClaim, FixityRead, FixityFinish,
              FixityCrash, CheckSelect, CheckRead, CheckWrite, qvars, RowStep
<1>5. CASE UNCHANGED vars
  BY <1>5 DEF vars, qvars, RowStep
<1>. QED
  BY <1>1, <1>2, <1>3, <1>4, <1>5 DEF Next

LEMMA FinalVerdictsStep == SafeInv /\ [Next]_vars => FinalVerdicts
<1>. SUFFICES ASSUME SafeInv, [Next]_vars, NEW f \in Files,
                     row[f].status.kind \in {"infected", "scan_error"}
              PROVE  row'[f].status.kind \in {row[f].status.kind, "removed"}
  BY DEF FinalVerdicts
<1>1. row \in [Files -> Row] /\ worker \in [Workers -> Job] /\ TypeOK
  BY DEF SafeInv, TypeInv, TypeOK, QueueTypeOK
<1>2. CASE row' = row
  BY <1>2
<1>3. ASSUME NEW w \in Workers, Claim(w) PROVE row'[f] = row[f]
  <2>1. ~Claimable(f)
    BY DEF Claimable, Unverified, DueRetry, Stale
  <2>. QED
    BY <1>1, <1>3, <2>1 DEF Claim
<1>4. ASSUME NEW w \in Workers, Report(w), HoldsClaim(w) PROVE row'[f] = row[f]
  <2>1. row[worker[w].file].status.kind = "scanning"
    BY <1>4 DEF Report, HoldsClaim, SafeInv, TypeInv, AttemptsCounted, Active
  <2>. QED
    BY <1>1, <1>4, <2>1 DEF Report
<1>5. ASSUME NEW g \in Files, Remove(g)
      PROVE  row'[f].status.kind \in {row[f].status.kind, "removed"}
  BY <1>1, <1>5 DEF Remove, Row, Is
<1>6. ASSUME NEW r \in Runs, FixityFinish(r) PROVE row'[f].status = row[f].status
  <2>1. run[r].file \in Files
    BY <1>1 DEF TypeOK, FixityRun
  <2>2. \/ row' = row
        \/ \E i \in Integrity : row' = [row EXCEPT ![run[r].file].integrity = i]
    BY <1>6 DEF FixityFinish, Integrity
  <2>. QED
    BY <1>1, <2>1, <2>2, IntegrityOnly
<1>7. ASSUME NEW c \in Checks, CheckWrite(c) PROVE row'[f].status = row[f].status
  <2>1. check[c].file \in Files
    BY <1>1 DEF TypeOK, Check
  <2>2. \/ row' = row
        \/ \E i \in Integrity : row' = [row EXCEPT ![check[c].file].integrity = i]
    BY <1>7 DEF CheckWrite, Integrity
  <2>. QED
    BY <1>1, <2>1, <2>2, IntegrityOnly
<1>. QED
  BY <1>2, <1>3, <1>4, <1>5, <1>6, <1>7, RowSteps DEF RowStep

\* No writer of a row, however late, reopens an infected or failed verdict.
THEOREM TerminalSafe == Spec => TerminalForGood
BY QuarantineInvariant, FinalVerdictsStep, PTL DEF Spec, TerminalForGood

\* finish, whose UPDATE asks for a clean row that is not a mismatch, only
\* meets rows that are served already.
LEMMA FinishBlocksOnly ==
    ASSUME SafeInv, NEW r \in Runs, FixityFinish(r), NEW f \in Files,
           Released(f)'
    PROVE  Released(f)
<1>1. row \in [Files -> Row] /\ TypeOK
  BY DEF SafeInv, TypeInv, TypeOK, QueueTypeOK
<1>2. run[r].file \in Files
  BY <1>1 DEF TypeOK, FixityRun
<1>. DEFINE g == run[r].file
<1>3. CASE row'[f] = row[f]
  BY <1>3 DEF Released
<1>4. CASE row'[f] # row[f]
  <2>1. PICK i \in Integrity : row' = [row EXCEPT ![g].integrity = i]
    BY <1>4 DEF FixityFinish, Integrity
  <2>2. f = g /\ Records(f)
    BY <1>1, <1>2, <1>4, <2>1 DEF FixityFinish
  <2>3. row[f].status.kind = "clean" /\ row[f].integrity # "mismatch"
    BY <2>2 DEF Records, FixityEligible
  <2>4. row[f].integrity = "verified"
    BY <1>1, <2>3 DEF SafeInv, Judged, Row, Integrity
  <2>. QED
    BY <2>3, <2>4 DEF Released
<1>. QED
  BY <1>3, <1>4

LEMMA FixityBlocksOnlyStep == SafeInv /\ [Next]_vars => FixityBlocksOnly
<1>. SUFFICES ASSUME SafeInv, [Next]_vars,
                     NEW r \in Runs, run[r].phase = "read", run'[r].phase = "idle",
                     NEW f \in Files, Released(f)'
              PROVE  Released(f)
  BY DEF FixityBlocksOnly, FixitySteps
<1>1. run \in [Runs -> FixityRun]
  BY DEF SafeInv, TypeInv, TypeOK
<1>2. run' # run
  OBVIOUS
<1>3. \/ \E q \in Runs : FixityFinish(q)
      \/ \E q \in Runs : FixityCrash(q)
      \/ \E q \in Runs : FixityClaim(q) \/ FixityRead(q)
  BY <1>2 DEF Next, FixityNext, RemoveWithJob, fvars, vars, Enrol,
              CheckSelect, CheckRead, CheckWrite
<1>4. CASE \E q \in Runs : FixityFinish(q)
  BY <1>4, FinishBlocksOnly
<1>5. CASE \E q \in Runs : FixityCrash(q)
  BY <1>5 DEF FixityCrash, qvars, Released
<1>6. CASE \E q \in Runs : FixityClaim(q) \/ FixityRead(q)
  BY <1>6 DEF FixityClaim, FixityRead, qvars, Released
<1>. QED
  BY <1>3, <1>4, <1>5, <1>6

\* A scheduled fixity run never turns a blocked file into a served one.
THEOREM FixitySafe == Spec => FixityNeverUnblocks
BY QuarantineInvariant, FixityBlocksOnlyStep, PTL DEF Spec, FixityNeverUnblocks

LEMMA FreshReleasesStep == SafeInv /\ [Next]_vars => FreshReleases
<1>. SUFFICES ASSUME SafeInv, [Next]_vars, NEW f \in Files,
                     ~Released(f), Released(f)'
              PROVE  \/ \E w \in Workers : /\ worker[w].phase = "read"
                                           /\ worker[w].file = f
                                           /\ worker[w].result = "clean"
                                           /\ worker[w].token = row[f].status
                     \/ \E c \in Checks : /\ check[c].phase = "read"
                                          /\ check[c].file = f
                                          /\ check[c].reading = "match"
                                          /\ check[c].seen = row[f]
  BY DEF FreshReleases
<1>1. row \in [Files -> Row] /\ TypeOK
  BY DEF SafeInv, TypeInv, TypeOK, QueueTypeOK
<1>2. row'[f] # row[f]
  BY DEF Released
<1>3. ASSUME NEW w \in Workers, Claim(w) PROVE FALSE
  <2>1. PICK g \in Files :
          row' = [row EXCEPT ![g].status = Scanning(NextAttempt(g), now)]
    BY <1>3 DEF Claim
  <2>2. row'[f].status = Scanning(NextAttempt(g), now)
    BY <1>1, <1>2, <2>1 DEF Row
  <2>. QED
    BY <2>2 DEF Released, Scanning
<1>4. ASSUME NEW w \in Workers, Report(w), HoldsClaim(w)
      PROVE  /\ worker[w].phase = "read"
             /\ worker[w].file = f
             /\ worker[w].result = "clean"
             /\ worker[w].token = row[f].status
  <2>1. /\ worker[w].phase = "read"
        /\ row' = [row EXCEPT ![worker[w].file] = Verdict(w, row[worker[w].file])]
    BY <1>4 DEF Report
  <2>2. f = worker[w].file /\ row'[f] = Verdict(w, row[f])
    BY <1>1, <1>2, <2>1
  <2>3. Verdict(w, row[f]).status.kind = "clean" => worker[w].result = "clean"
    BY DEF Verdict, AfterFailure, Is, Retry
  <2>. QED
    BY <1>4, <2>1, <2>2, <2>3 DEF HoldsClaim, Released
<1>5. ASSUME NEW g \in Files, Remove(g) PROVE FALSE
  <2>1. row'[f].status.kind = "removed"
    BY <1>1, <1>2, <1>5 DEF Remove, Row, Is
  <2>. QED
    BY <2>1 DEF Released
<1>6. ASSUME NEW r \in Runs, FixityFinish(r) PROVE FALSE
  BY <1>6, FinishBlocksOnly
<1>7. ASSUME NEW c \in Checks, CheckWrite(c), BaselineUnchanged(c)
      PROVE  /\ check[c].phase = "read"
             /\ check[c].file = f
             /\ check[c].reading = "match"
             /\ check[c].seen = row[f]
  <2>1. /\ check[c].phase = "read"
        /\ row' = [row EXCEPT ![check[c].file].integrity =
             IF check[c].reading = "match" THEN "verified" ELSE "mismatch"]
    BY <1>7 DEF CheckWrite
  <2>2. f = check[c].file
    BY <1>1, <1>2, <2>1
  <2>3. row'[f].integrity =
          IF check[c].reading = "match" THEN "verified" ELSE "mismatch"
    BY <1>1, <2>1, <2>2 DEF Row
  <2>. QED
    BY <1>7, <2>1, <2>2, <2>3 DEF BaselineUnchanged, Released
<1>. QED
  BY <1>2, <1>3, <1>4, <1>5, <1>6, <1>7, RowSteps DEF RowStep

\* A file becomes served only by a complete matching read of the row as it
\* still is.
THEOREM ReleaseSafe == Spec => ReleaseNeedsFreshMatch
BY QuarantineInvariant, FreshReleasesStep, PTL DEF Spec, ReleaseNeedsFreshMatch

(***************************************************************************)
(* No file is lost to the queue.                                           *)
(***************************************************************************)

\* How long a row may wait: a claim was made at the latest now, a retry has an
\* attempt to spare and its delay ends at the latest one delay from now.
Waits(status) ==
    /\ status.kind = "scanning" => status.at <= now
    /\ status.kind = "retry" => /\ status.attempt < MaxAttempts
                                /\ status.at <= now + RetryDelay[status.attempt]

AllWait == \A f \in Files : Waits(row[f].status)

LEMMA WaitsOn ==
    ASSUME TypeInv, now' \in {now, now + 1}, NEW f \in Files,
           Waits(row[f].status), row'[f].status = row[f].status
    PROVE  Waits(row[f].status)'
<1>1. /\ now \in Nat /\ row[f].status \in Status
      /\ row[f].status.kind \in {"scanning", "retry"} =>
           row[f].status.attempt \in 1 .. MaxAttempts
  BY DEF TypeInv, TypeOK, QueueTypeOK, AttemptsCounted, Row
<1>2. row[f].status.kind = "retry" => RetryDelay[row[f].status.attempt] \in Nat
  BY <1>1, QueueAssumption
<1>3. row[f].status.at \in Nat
  BY <1>1 DEF Status
<1>. QED
  BY <1>1, <1>2, <1>3 DEF Waits

\* What handleFailure leaves, for a claim that is an invocation's.
LEMMA VerdictWaits ==
    ASSUME TypeInv, NEW w \in Workers, worker[w].phase = "read", NEW r \in Row
    PROVE  Waits(Verdict(w, r).status)
<1>1. /\ worker[w].token.attempt \in 1 .. MaxAttempts /\ now \in Nat
  BY DEF TypeInv, TypeOK, QueueTypeOK, AttemptsCounted, Active
<1>2. Waits(AfterFailure(w))
  <2>. DEFINE n == worker[w].token.attempt
  <2>1. RetryDelay[n] \in Nat
    BY <1>1, QueueAssumption
  <2>. QED
    BY <1>1, <2>1, QueueAssumption DEF AfterFailure, Retry, Is, Waits
<1>3. \A kind \in {"clean", "infected", "scan_error"} : Waits(Is(kind))
  BY DEF Waits, Is
<1>. QED
  BY <1>2, <1>3 DEF Verdict

LEMMA AllWaitStep == TypeInv /\ AllWait /\ [Next]_vars => AllWait'
<1>. SUFFICES ASSUME TypeInv, AllWait, [Next]_vars, NEW f \in Files
              PROVE  Waits(row[f].status)'
  BY DEF AllWait
<1>1. /\ row \in [Files -> Row] /\ worker \in [Workers -> Job] /\ TypeOK /\ now \in Nat
      /\ Waits(row[f].status)
  BY DEF TypeInv, TypeOK, QueueTypeOK, AllWait
<1>2. now' \in {now, now + 1}
  BY DEF Next, WorkerStep, Start, LoseLock, Claim, End, Read, Report, RemoveWithJob, Remove,
         RemoveUnconfirmed, Decay, Tick, FixityNext, Enrol, FixityClaim, FixityRead,
         FixityFinish, FixityCrash, CheckSelect, CheckRead, CheckWrite, qvars, vars
<1>3. ASSUME row'[f].status = row[f].status PROVE Waits(row[f].status)'
  BY <1>1, <1>2, <1>3, WaitsOn
<1>4. ASSUME NEW w \in Workers, Claim(w) PROVE Waits(row[f].status)'
  <2>1. PICK g \in Files : row' = [row EXCEPT ![g].status = Scanning(NextAttempt(g), now)]
    BY <1>4 DEF Claim
  <2>2. CASE f = g
    <3>1. row'[f].status = Scanning(NextAttempt(g), now) /\ now' = now
      BY <1>1, <1>4, <2>1, <2>2 DEF Row, Claim
    <3>. QED
      BY <1>1, <3>1 DEF Waits, Scanning
  <2>3. CASE f # g
    BY <1>1, <1>3, <2>1, <2>3
  <2>. QED
    BY <2>2, <2>3
<1>5. ASSUME NEW w \in Workers, Report(w), HoldsClaim(w) PROVE Waits(row[f].status)'
  <2>1. CASE f = worker[w].file
    <3>1. row'[f] = Verdict(w, row[f]) /\ now' = now /\ row[f] \in Row
      BY <1>1, <1>5, <2>1 DEF Report
    <3>2. Waits(Verdict(w, row[f]).status)
      BY <1>5, <3>1, VerdictWaits DEF Report
    <3>. QED
      BY <3>1, <3>2 DEF Waits
  <2>2. CASE f # worker[w].file
    BY <1>1, <1>3, <1>5, <2>2 DEF Report
  <2>. QED
    BY <2>1, <2>2
<1>6. ASSUME NEW g \in Files, Remove(g) PROVE Waits(row[f].status)'
  <2>1. f = g => row'[f].status = Is("removed")
    BY <1>1, <1>6 DEF Remove, Row
  <2>2. f # g => row'[f] = row[f]
    BY <1>1, <1>6 DEF Remove
  <2>. QED
    BY <1>3, <2>1, <2>2 DEF Waits, Is
<1>7. ASSUME NEW r \in Runs, FixityFinish(r) PROVE row'[f].status = row[f].status
  <2>1. run[r].file \in Files
    BY <1>1 DEF TypeOK, FixityRun
  <2>2. \/ row' = row
        \/ \E i \in Integrity : row' = [row EXCEPT ![run[r].file].integrity = i]
    BY <1>7 DEF FixityFinish, Integrity
  <2>. QED
    BY <1>1, <2>1, <2>2, IntegrityOnly
<1>8. ASSUME NEW c \in Checks, CheckWrite(c) PROVE row'[f].status = row[f].status
  <2>1. check[c].file \in Files
    BY <1>1 DEF TypeOK, Check
  <2>2. \/ row' = row
        \/ \E i \in Integrity : row' = [row EXCEPT ![check[c].file].integrity = i]
    BY <1>8 DEF CheckWrite, Integrity
  <2>. QED
    BY <1>1, <2>1, <2>2, IntegrityOnly
<1>9. CASE row' = row
  BY <1>3, <1>9
<1>. QED
  BY <1>3, <1>4, <1>5, <1>6, <1>7, <1>8, <1>9, RowSteps DEF RowStep

\* Whatever crashes, goes stale, fails and is retried: a file that is neither
\* settled nor served is claimable, or will be when a known delay is over.
THEOREM NeverStranded == Spec => []NoFileStranded
<1>1. Init => AllWait
  <2>1. ASSUME Init, NEW f \in Files PROVE Waits(row[f].status)
    <3>1. row[f].status.kind = "not_scanned"
      BY <2>1 DEF Init, QueueInit, Is
    <3>. QED
      BY <3>1 DEF Waits
  <2>. QED
    BY <2>1 DEF AllWait
<1>2. SafeInv /\ AllWait => NoFileStranded
  <2>. SUFFICES ASSUME SafeInv, AllWait, NEW f \in Files,
                       row[f].status.kind \notin {"infected", "scan_error", "removed"},
                       ~Released(f), ~Claimable(f)
                PROVE  LET status == row[f].status IN
                         \/ /\ status.kind = "retry"
                            /\ status.attempt < MaxAttempts
                            /\ status.at <= now + RetryDelay[status.attempt]
                         \/ /\ status.kind = "scanning"
                            /\ status.attempt <= MaxAttempts
                            /\ status.at <= now
    BY DEF NoFileStranded
  <2>1. /\ row[f].status.kind \in Kinds
        /\ row[f].status.kind \in {"scanning", "retry"} =>
             row[f].status.attempt \in 1 .. MaxAttempts
    BY DEF SafeInv, TypeInv, TypeOK, QueueTypeOK, AttemptsCounted, Row, Status
  <2>2. row[f].status.kind \in {"scanning", "retry"}
    BY <2>1 DEF Kinds, Claimable, Unverified, Released
  <2>. QED
    BY <2>1, <2>2, QueueAssumption DEF AllWait, Waits
<1>3. SafeInv => TypeInv
  BY DEF SafeInv
<1>. QED
  BY <1>1, <1>2, <1>3, AllWaitStep, QuarantineInvariant, PTL DEF Spec

=============================================================================
