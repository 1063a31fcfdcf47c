------------------------ MODULE QueueRefinementProofs ------------------------
(***************************************************************************)
(* The quarantine implements the abstract queue: a step of workers, rows   *)
(* and fixity is a step of ScanQueue or leaves its variables alone.        *)
(***************************************************************************)
EXTENDS BitstreamQuarantineProofs

\* The invocation's claim is the row's.
Holds(w, f) == /\ Active(w)
               /\ worker[w].file = f
               /\ worker[w].token = row[f].status

HolderOf(f) == /\ \A w \in Workers : Holder(f) = w <=> Holds(w, f)
               /\ Holder(f) = NoWorker <=> \A w \in Workers : ~Holds(w, f)
               /\ Holder(f) \in Workers \cup {NoWorker}
HoldersOf == \A f \in Files : HolderOf(f)

LEMMA HolderIs == SafeInv => HoldersOf
<1>. SUFFICES ASSUME SafeInv, NEW f \in Files PROVE HolderOf(f)
  BY DEF HoldersOf
<1>. DEFINE holders == {w \in Workers : Holds(w, f)}
<1>1. Holder(f) = IF holders = {} THEN NoWorker
                                  ELSE CHOOSE w \in holders : TRUE
  BY DEF Holder, Holds, Active
<1>2. \A v, w \in Workers : Holds(v, f) /\ Holds(w, f) => v = w
  BY DEF Holds, SafeInv, OneHolder
<1>3. CASE holders = {}
  BY <1>1, <1>3, QueueAssumption DEF HolderOf
<1>4. CASE holders # {}
  <2>1. PICK w \in holders : TRUE
    BY <1>4
  <2>2. Holder(f) \in holders
    BY <1>1, <1>4
  <2>. QED
    BY <1>2, <2>1, <2>2, QueueAssumption DEF HolderOf
<1>. QED
  BY <1>3, <1>4

LEMMA HolderIsNext == SafeInv' => HoldersOf'
BY HolderIs, PTL

\* Nothing the abstract queue sees of a file changes.
Same(f) == /\ PhaseOf(f)' = PhaseOf(f)
           /\ Holder(f)' = Holder(f)
           /\ row'[f].status.attempt = row[f].status.attempt

LEMMA SameEverywhere ==
    ASSUME \A f \in Files : Same(f)
    PROVE  UNCHANGED Queue!svars
BY DEF Same, Queue!svars

LEMMA HolderSame ==
    ASSUME SafeInv, SafeInv', NEW f \in Files,
           \A w \in Workers : Holds(w, f)' <=> Holds(w, f)
    PROVE  Holder(f)' = Holder(f)
<1>1. HolderOf(f) /\ HolderOf(f)'
  BY HolderIs, HolderIsNext DEF HoldersOf
<1>. QED
  BY <1>1 DEF HolderOf

LEMMA RowSame ==
    ASSUME NEW f \in Files, row'[f] = row[f]
    PROVE  PhaseOf(f)' = PhaseOf(f)
BY DEF PhaseOf

LEMMA InitRefines == Init => Queue!SInit
<1>. SUFFICES ASSUME Init PROVE Queue!SInit
  OBVIOUS
<1>1. \A f \in Files : row[f].status.kind = "not_scanned" /\ row[f].status.attempt = 0
  BY DEF Init, QueueInit, Is
<1>2. \A w \in Workers : ~Active(w)
  BY DEF Init, QueueInit, Idle, Active
<1>3. \A f \in Files : PhaseOf(f) = "queued"
  BY <1>1 DEF PhaseOf
<1>4. \A f \in Files : Holder(f) = NoWorker
  BY <1>2, InitSafeInv, HolderIs DEF Holds, HoldersOf, HolderOf
<1>. QED
  BY <1>1, <1>3, <1>4 DEF Queue!SInit

\* The phase of a row, kind by kind.
LEMMA PhaseKinds ==
    ASSUME SafeInv, NEW f \in Files
    PROVE  LET kind == row[f].status.kind IN
             /\ PhaseOf(f) = "queued" <=> kind = "not_scanned"
             /\ PhaseOf(f) = "held" <=> kind = "scanning"
             /\ PhaseOf(f) = "backoff" <=> kind = "retry"
             /\ PhaseOf(f) = "suspect" <=>
                  kind = "clean" /\ row[f].integrity # "verified"
             /\ PhaseOf(f) = "clean" <=>
                  kind = "clean" /\ row[f].integrity = "verified"
             /\ kind \in {"infected", "scan_error", "removed"} =>
                  PhaseOf(f) = kind
             /\ PhaseOf(f) = "removed" => kind = "removed"
<1>1. row[f].status.kind \in Kinds
  BY DEF SafeInv, TypeInv, TypeOK, QueueTypeOK, Row, Status
<1>. QED
  BY <1>1 DEF PhaseOf, Kinds

LEMMA RowTypes == SafeInv => /\ row \in [Files -> Row]
                             /\ worker \in [Workers -> Job]
                             /\ \A w \in Workers : worker[w].file \in Files
BY DEF SafeInv, TypeInv, TypeOK, QueueTypeOK, Job

LEMMA ClaimRefines ==
    ASSUME SafeInv, SafeInv', NEW w \in Workers, Claim(w)
    PROVE  \E f \in Files : Queue!Take(w, f)
<1>. DEFINE token(f) == Scanning(NextAttempt(f), now)
<1>1. PICK f \in Files :
        /\ Claimable(f)
        /\ row' = [row EXCEPT ![f].status = token(f)]
        /\ worker' = [worker EXCEPT ![w] =
             [phase |-> "claimed", file |-> f, token |-> token(f),
              result |-> "none"]]
  BY DEF Claim
<1>2. /\ row'[f].status = token(f)
      /\ token(f).kind = "scanning" /\ token(f).attempt = NextAttempt(f)
      /\ \A g \in Files : g # f => row'[g] = row[g]
  BY <1>1, RowTypes DEF Row, Scanning
<1>3. /\ worker'[w].phase = "claimed" /\ worker'[w].file = f
      /\ worker'[w].token = token(f)
      /\ \A v \in Workers : v # w => worker'[v] = worker[v]
      /\ ~Active(w)
  BY <1>1, RowTypes DEF Claim, Active
<1>. HIDE DEF token
<1>4. /\ PhaseOf(f) \in {"queued", "held", "backoff", "suspect"}
      /\ PhaseOf(f) = "backoff" => row[f].status.attempt < MaxAttempts
  BY <1>1, PhaseKinds DEF Claimable, Unverified, DueRetry, Stale
<1>5. \A g \in Files : Holder(g) # w
  BY <1>3, HolderIs DEF HoldersOf, HolderOf, Holds
<1>6. /\ PhaseOf(f)' = "held"
      /\ \A g \in Files : g # f => PhaseOf(g)' = PhaseOf(g)
  BY <1>2 DEF PhaseOf
<1>7. Holder(f)' = w
  BY <1>2, <1>3, HolderIsNext DEF HoldersOf, HolderOf, Holds, Active
<1>8. ASSUME NEW g \in Files, g # f PROVE Holder(g)' = Holder(g)
  <2>1. \A v \in Workers : Holds(v, g)' <=> Holds(v, g)
    BY <1>2, <1>3, <1>8 DEF Holds, Active
  <2>. QED
    BY <2>1, HolderSame
<1>9. token(f).attempt = CASE PhaseOf(f) \in {"queued", "suspect"} -> 1
                           [] PhaseOf(f) = "backoff" -> row[f].status.attempt + 1
                           [] OTHER -> row[f].status.attempt
  BY <1>1, <1>2, PhaseKinds
  DEF NextAttempt, Claimable, Unverified, DueRetry, Stale
<1>10. Queue!Take(w, f)
  BY <1>2, <1>4, <1>5, <1>6, <1>7, <1>8, <1>9
  DEF Queue!Take, Queue!Pending, Queue!Free, Queue!Counted
<1>. QED
  BY <1>10

LEMMA EndRefines ==
    ASSUME SafeInv, SafeInv', NEW w \in Workers, End(w)
    PROVE  (\E f \in Files : Queue!LetGo(w, f)) \/ UNCHANGED Queue!svars
<1>1. /\ row' = row
      /\ \A v \in Workers : v # w => worker'[v] = worker[v]
      /\ worker'[w] = Idle
  BY RowTypes DEF End
<1>2. \A v \in Workers, g \in Files : Holds(v, g)' <=> v # w /\ Holds(v, g)
  BY <1>1 DEF Holds, Active, Idle
<1>3. \A g \in Files : PhaseOf(g)' = PhaseOf(g)
  BY <1>1 DEF PhaseOf
<1>4. PICK f \in Files : \A g \in Files : Holds(w, g) => g = f
  BY RowTypes DEF Holds
<1>5. ASSUME NEW g \in Files, ~Holds(w, g) PROVE Same(g)
  <2>1. \A v \in Workers : Holds(v, g)' <=> Holds(v, g)
    BY <1>2, <1>5
  <2>. QED
    BY <1>1, <1>3, <2>1, HolderSame DEF Same
<1>6. CASE Holds(w, f)
  <2>1. \A v \in Workers : Holds(v, f) => v = w
    BY <1>6 DEF SafeInv, OneHolder, Holds
  <2>2. \A v \in Workers : ~Holds(v, f)'
    BY <1>2, <2>1
  <2>3. Holder(f) = w /\ Holder(f)' = NoWorker
    BY <1>6, <2>2, HolderIs, HolderIsNext DEF HoldersOf, HolderOf
  <2>4. \A g \in Files : g # f => Holder(g)' = Holder(g)
    BY <1>4, <1>5 DEF Same
  <2>5. Queue!LetGo(w, f)
    BY <1>1, <1>3, <2>3, <2>4 DEF Queue!LetGo
  <2>. QED
    BY <2>5
<1>7. CASE ~Holds(w, f)
  <2>1. \A g \in Files : ~Holds(w, g)
    BY <1>4, <1>7
  <2>. QED
    BY <1>5, <2>1, SameEverywhere
<1>. QED
  BY <1>6, <1>7

LEMMA VerdictFacts ==
    ASSUME SafeInv, NEW w \in Workers, worker[w].phase = "read", NEW r \in Row
    PROVE  LET v == Verdict(w, r) IN
             \/ /\ v.status.kind \in {"clean", "infected", "scan_error"}
                /\ v.status.kind = "clean" => v.integrity = "verified"
                /\ v.status.attempt = 0
             \/ /\ v.status.kind = "retry"
                /\ v.status.attempt = worker[w].token.attempt
                /\ worker[w].token.attempt < MaxAttempts
BY DEF Verdict, AfterFailure, Is, Retry

LEMMA ReportRefines ==
    ASSUME SafeInv, SafeInv', NEW w \in Workers, Report(w)
    PROVE  (\E f \in Files : Queue!Finish(w, f)) \/ UNCHANGED Queue!svars
<1>1. PICK f \in Files : f = worker[w].file
  BY RowTypes
<1>2. /\ worker[w].phase = "read"
      /\ worker'[w] = Idle
      /\ \A v \in Workers : v # w => worker'[v] = worker[v]
      /\ \A g \in Files : g # f => row'[g] = row[g]
  BY <1>1, RowTypes DEF Report
<1>3. \A v \in Workers : ~Active(v)' \/ (v # w /\ Active(v))
  BY <1>2 DEF Active, Idle
<1>4. ASSUME NEW g \in Files, row'[g] = row[g], ~Holds(w, g) PROVE Same(g)
  <2>1. \A v \in Workers : Holds(v, g)' <=> Holds(v, g)
    BY <1>2, <1>4 DEF Holds, Active, Idle
  <2>. QED
    BY <1>4, <2>1, HolderSame, RowSame DEF Same
<1>5. \A g \in Files : g # f => Same(g)
  BY <1>1, <1>2, <1>4 DEF Holds
<1>6. CASE ~HoldsClaim(w)
  <2>1. row' = row
    BY <1>6 DEF Report
  <2>2. ~Holds(w, f)
    BY <1>1, <1>6 DEF Holds, HoldsClaim
  <2>. QED
    BY <1>4, <1>5, <2>1, <2>2, SameEverywhere
<1>7. CASE HoldsClaim(w)
  <2>1. /\ row'[f] = Verdict(w, row[f])
        /\ row[f].status = worker[w].token
        /\ row[f].status.kind = "scanning"
    BY <1>1, <1>2, <1>7, RowTypes
    DEF Report, HoldsClaim, SafeInv, TypeInv, AttemptsCounted, Active
  <2>2. Holds(w, f) /\ \A v \in Workers : Holds(v, f) => v = w
    BY <1>1, <1>2, <2>1 DEF Holds, Active, SafeInv, OneHolder
  <2>3. row'[f].status.kind # "scanning"
    BY <1>2, <2>1, VerdictFacts, RowTypes
  <2>4. \A v \in Workers : ~Holds(v, f)'
    BY <1>2, <1>3, <2>3
    DEF Holds, SafeInv, TypeInv, AttemptsCounted
  <2>5. Holder(f) = w /\ Holder(f)' = NoWorker
    BY <2>2, <2>4, HolderIs, HolderIsNext DEF HoldersOf, HolderOf
  <2>6. CASE row'[f].status.kind = "retry"
    <3>1. PhaseOf(f)' = "backoff"
      BY <2>6 DEF PhaseOf
    <3>2. /\ row'[f].status.attempt = row[f].status.attempt
          /\ row[f].status.attempt < MaxAttempts
      BY <1>2, <2>1, <2>6, VerdictFacts, RowTypes
    <3>3. Queue!BackOff(w, f)
      BY <1>5, <2>5, <3>1, <3>2 DEF Queue!BackOff, Same
    <3>. QED
      BY <3>3 DEF Queue!Finish
  <2>7. CASE row'[f].status.kind # "retry"
    <3>1. /\ row'[f].status.kind \in {"clean", "infected", "scan_error"}
          /\ row'[f].status.kind = "clean" => row'[f].integrity = "verified"
          /\ row'[f].status.attempt = 0
      BY <1>2, <2>1, <2>7, VerdictFacts, RowTypes
    <3>2. PhaseOf(f)' \in {"clean", "infected", "scan_error"}
      BY <3>1 DEF PhaseOf
    <3>3. Queue!Settle(w, f)
      BY <1>5, <2>5, <3>1, <3>2 DEF Queue!Settle, Same
    <3>. QED
      BY <3>3 DEF Queue!Finish
  <2>. QED
    BY <2>6, <2>7
<1>. QED
  BY <1>6, <1>7

LEMMA RemoveRefines ==
    ASSUME SafeInv, SafeInv', NEW f \in Files, Remove(f)
    PROVE  Queue!Drop(f)
<1>1. /\ row'[f].status = Is("removed")
      /\ \A g \in Files : g # f => row'[g] = row[g]
      /\ worker' = worker
      /\ row[f].status.kind # "removed"
  BY RowTypes DEF Remove, Row
<1>2. Is("removed").kind = "removed" /\ Is("removed").attempt = 0
  BY DEF Is
<1>3. \A g \in Files : g # f => Same(g)
  <2>1. \A g \in Files, v \in Workers : g # f => (Holds(v, g)' <=> Holds(v, g))
    BY <1>1 DEF Holds, Active
  <2>. QED
    BY <1>1, <2>1, HolderSame, RowSame DEF Same
<1>4. \A v \in Workers : ~Holds(v, f)'
  BY <1>1, <1>2 DEF Holds, Active, SafeInv, TypeInv, AttemptsCounted
<1>5. Holder(f)' = NoWorker
  BY <1>4, HolderIsNext DEF HoldersOf, HolderOf
<1>6. PhaseOf(f) # "removed" /\ PhaseOf(f)' = "removed"
  BY <1>1, <1>2, PhaseKinds DEF PhaseOf
<1>. QED
  BY <1>1, <1>2, <1>3, <1>5, <1>6 DEF Queue!Drop, Same

\* A write of the integrity doubts or restores a clean file; of any other
\* row the queue sees nothing.
LEMMA IntegrityRefines ==
    ASSUME SafeInv, SafeInv', NEW f \in Files, NEW i \in Integrity,
           row' = [row EXCEPT ![f].integrity = i], UNCHANGED worker
    PROVE  Queue!Doubt(f) \/ Queue!Restore(f) \/ UNCHANGED Queue!svars
<1>1. /\ row'[f].integrity = i
      /\ \A g \in Files : g # f => row'[g] = row[g]
      /\ \A g \in Files : row'[g].status = row[g].status
  BY RowTypes, IntegrityOnly DEF SafeInv, TypeInv, Row
<1>2. \A g \in Files : Holder(g)' = Holder(g)
  <2>1. \A g \in Files, v \in Workers : Holds(v, g)' <=> Holds(v, g)
    BY <1>1 DEF Holds, Active
  <2>. QED
    BY <2>1, HolderSame
<1>3. \A g \in Files : g # f => PhaseOf(g)' = PhaseOf(g)
  BY <1>1, RowSame
<1>4. CASE PhaseOf(f)' = PhaseOf(f)
  BY <1>1, <1>2, <1>3, <1>4, SameEverywhere DEF Same
<1>5. CASE PhaseOf(f)' # PhaseOf(f)
  <2>1. row[f].status.kind = "clean"
    BY <1>1, <1>5 DEF PhaseOf
  <2>2. PhaseOf(f) \in {"clean", "suspect"} /\ PhaseOf(f)' \in {"clean", "suspect"}
    BY <1>1, <2>1 DEF PhaseOf
  <2>3. \A g \in Files : row'[g].status.attempt = row[g].status.attempt
    BY <1>1
  <2>4. CASE PhaseOf(f) = "clean"
    <3>1. PhaseOf(f)' = "suspect"
      BY <1>5, <2>2, <2>4
    <3>. QED
      BY <1>2, <1>3, <2>3, <2>4, <3>1 DEF Queue!Doubt
  <2>5. CASE PhaseOf(f) = "suspect"
    <3>1. PhaseOf(f)' = "clean"
      BY <1>5, <2>2, <2>5
    <3>. QED
      BY <1>2, <1>3, <2>3, <2>5, <3>1 DEF Queue!Restore
  <2>. QED
    BY <2>2, <2>4, <2>5
<1>. QED
  BY <1>4, <1>5

\* Steps that leave the rows and the carried claims alone.
CarriedSame ==
    \A w \in Workers : \/ worker'[w] = worker[w]
                       \/ ~Active(w) /\ ~Active(w)'
                       \/ /\ Active(w) /\ Active(w)'
                          /\ worker'[w].file = worker[w].file
                          /\ worker'[w].token = worker[w].token

LEMMA QuietRefines ==
    ASSUME SafeInv, SafeInv', row' = row, CarriedSame
    PROVE  UNCHANGED Queue!svars
<1>1. \A w \in Workers, f \in Files : Holds(w, f)' <=> Holds(w, f)
  BY DEF Holds, Active, CarriedSame
<1>. QED
  BY <1>1, HolderSame, RowSame, SameEverywhere DEF Same

LEMMA WorkerSame == worker' = worker => CarriedSame
BY DEF CarriedSame

LEMMA StepRefines ==
    SafeInv /\ SafeInv' /\ [Next]_vars => [Queue!SNext]_(Queue!svars)
<1>. SUFFICES ASSUME SafeInv, SafeInv', [Next]_vars
              PROVE  Queue!SNext \/ UNCHANGED Queue!svars
  OBVIOUS
<1>1. ASSUME NEW w \in Workers, WorkerStep(w)
      PROVE  Queue!SNext \/ UNCHANGED Queue!svars
  <2>1. CASE Start(w)
    <3>1. CarriedSame
      BY <2>1, RowTypes DEF Start, CarriedSame, Active
    <3>. QED
      BY <2>1, <3>1, QuietRefines DEF Start
  <2>2. CASE LoseLock(w)
    BY <2>2, WorkerSame, QuietRefines DEF LoseLock
  <2>3. CASE Claim(w)
    BY <2>3, ClaimRefines DEF Queue!SNext
  <2>4. CASE End(w)
    BY <2>4, EndRefines DEF Queue!SNext
  <2>5. CASE Read(w)
    <3>1. CarriedSame
      BY <2>5, RowTypes DEF Read, CarriedSame, Active, Job
    <3>. QED
      BY <2>5, <3>1, QuietRefines DEF Read
  <2>6. CASE Report(w)
    BY <2>6, ReportRefines DEF Queue!SNext
  <2>. QED
    BY <1>1, <2>1, <2>2, <2>3, <2>4, <2>5, <2>6 DEF WorkerStep
<1>2. ASSUME NEW f \in Files, RemoveWithJob(f)
      PROVE  Queue!SNext \/ UNCHANGED Queue!svars
  BY <1>2, RemoveRefines DEF RemoveWithJob, Queue!SNext
<1>3. ASSUME NEW f \in Files, RemoveUnconfirmed(f) \/ Decay(f)
      PROVE  UNCHANGED Queue!svars
  BY <1>3, WorkerSame, QuietRefines DEF RemoveUnconfirmed, Decay
<1>4. CASE Tick
  BY <1>4, WorkerSame, QuietRefines DEF Tick
<1>5. CASE FixityNext
  <2>1. CASE row' = row
    BY <1>5, <2>1, WorkerSame, QuietRefines
    DEF FixityNext, Enrol, FixityClaim, FixityRead, FixityFinish, FixityCrash,
        CheckSelect, CheckRead, CheckWrite, qvars
  <2>2. CASE row' # row
    <3>1. PICK f \in Files, i \in Integrity :
            row' = [row EXCEPT ![f].integrity = i] /\ UNCHANGED worker
      <4>1. /\ \A r \in Runs : run[r].file \in Files
            /\ \A c \in Checks : check[c].file \in Files
        BY DEF SafeInv, TypeInv, TypeOK, FixityRun, Check
      <4>2. ASSUME NEW r \in Runs, FixityFinish(r)
            PROVE  \E f \in Files, i \in Integrity :
                     row' = [row EXCEPT ![f].integrity = i] /\ UNCHANGED worker
        <5>1. \E i \in Integrity : row' = [row EXCEPT ![run[r].file].integrity = i]
          BY <2>2, <4>2 DEF FixityFinish, Integrity
        <5>. QED
          BY <4>1, <4>2, <5>1 DEF FixityFinish
      <4>3. ASSUME NEW c \in Checks, CheckWrite(c)
            PROVE  \E f \in Files, i \in Integrity :
                     row' = [row EXCEPT ![f].integrity = i] /\ UNCHANGED worker
        <5>1. \E i \in Integrity : row' = [row EXCEPT ![check[c].file].integrity = i]
          BY <2>2, <4>3 DEF CheckWrite, Integrity
        <5>. QED
          BY <4>1, <4>3, <5>1 DEF CheckWrite
      <4>. QED
        BY <1>5, <2>2, <4>2, <4>3
        DEF FixityNext, Enrol, FixityClaim, FixityRead, FixityCrash,
            CheckSelect, CheckRead, qvars
    <3>. QED
      BY <3>1, IntegrityRefines DEF Queue!SNext
  <2>. QED
    BY <2>1, <2>2
<1>6. CASE UNCHANGED vars
  BY <1>6, WorkerSame, QuietRefines DEF vars, qvars
<1>. QED
  BY <1>1, <1>2, <1>3, <1>4, <1>5, <1>6 DEF Next

\* Rows, tokens, leases and late results behave as the abstract queue.
THEOREM QuarantineImplementsQueue == Spec => ImplementsQueue
<1>1. Spec => []SafeInv
  BY QuarantineInvariant
<1>. QED
  BY <1>1, InitRefines, StepRefines, PTL DEF Spec, ImplementsQueue, Queue!SSpec

=============================================================================
