----------------------------- MODULE ScanQueue -----------------------------
(***************************************************************************)
(* What the malware queue promises, without clocks, tokens or stored       *)
(* bytes: a file is waiting, held by at most one invocation, backing off,  *)
(* or settled; an invocation may let go of a file at any moment and        *)
(* another one takes it over.  BitstreamQuarantine implements this.        *)
(***************************************************************************)
EXTENDS Naturals

CONSTANTS Files, Workers, NoWorker, MaxAttempts

ASSUME ScanQueueAssumption ==
    /\ NoWorker \notin Workers
    /\ MaxAttempts \in Nat \ {0}

VARIABLES
    phase,          \* Files -> where the file is
    holder,         \* Files -> the invocation whose result would count
    attempt         \* Files -> attempts counted in this round

svars == <<phase, holder, attempt>>

Pending == {"queued", "held", "backoff", "suspect"}
Settled == {"clean", "infected", "scan_error", "removed"}

SInit == /\ phase = [f \in Files |-> "queued"]
         /\ holder = [f \in Files |-> NoWorker]
         /\ attempt = [f \in Files |-> 0]

Free(w) == \A f \in Files : holder[f] # w

Counted(f) == CASE phase[f] \in {"queued", "suspect"} -> 1
                [] phase[f] = "backoff" -> attempt[f] + 1
                [] OTHER -> attempt[f]

\* A claim: of a waiting file, of one whose delay is over, or a takeover.
Take(w, f) ==
    /\ phase[f] \in Pending
    /\ Free(w)
    /\ phase[f] = "backoff" => attempt[f] < MaxAttempts
    /\ phase' = [phase EXCEPT ![f] = "held"]
    /\ holder' = [holder EXCEPT ![f] = w]
    /\ attempt' = [attempt EXCEPT ![f] = Counted(f)]

Settle(w, f) ==
    /\ holder[f] = w
    /\ \E p \in {"clean", "infected", "scan_error"} :
         phase' = [phase EXCEPT ![f] = p]
    /\ holder' = [holder EXCEPT ![f] = NoWorker]
    /\ attempt' = [attempt EXCEPT ![f] = 0]

\* Mutant: a retryable failure is put back however often it was tried.
BackOffForever(w, f) ==
    /\ holder[f] = w
    /\ phase' = [phase EXCEPT ![f] = "backoff"]
    /\ holder' = [holder EXCEPT ![f] = NoWorker]
    /\ attempt' = [attempt EXCEPT ![f] = 0]

BackOff(w, f) ==
    /\ holder[f] = w
    /\ attempt[f] < MaxAttempts
    /\ phase' = [phase EXCEPT ![f] = "backoff"]
    /\ holder' = [holder EXCEPT ![f] = NoWorker]
    /\ UNCHANGED attempt

Finish(w, f) == Settle(w, f) \/ BackOff(w, f)

\* The invocation dies, is aborted, or gives up without a counted result.
LetGo(w, f) ==
    /\ holder[f] = w
    /\ holder' = [holder EXCEPT ![f] = NoWorker]
    /\ UNCHANGED <<phase, attempt>>

\* A later check no longer matches; a later one may match again.
Doubt(f) ==
    /\ phase[f] = "clean"
    /\ phase' = [phase EXCEPT ![f] = "suspect"]
    /\ UNCHANGED <<holder, attempt>>

Restore(f) ==
    /\ phase[f] = "suspect"
    /\ phase' = [phase EXCEPT ![f] = "clean"]
    /\ UNCHANGED <<holder, attempt>>

Drop(f) ==
    /\ phase[f] # "removed"
    /\ phase' = [phase EXCEPT ![f] = "removed"]
    /\ holder' = [holder EXCEPT ![f] = NoWorker]
    /\ attempt' = [attempt EXCEPT ![f] = 0]

SNext == \/ \E w \in Workers, f \in Files :
              \/ Take(w, f) \/ Finish(w, f) \/ LetGo(w, f)
         \/ \E f \in Files : Doubt(f) \/ Restore(f) \/ Drop(f)

SSpec == SInit /\ [][SNext]_svars

\* Workers keep polling and time passes, so a file that stays pending is taken
\* again and again; and an invocation does not die every time it holds the
\* same file.  (If it did, the takeovers would never run out: they do not
\* count as attempts.)
FairSpec ==
    /\ SSpec
    /\ \A f \in Files : /\ SF_svars(\E w \in Workers : Take(w, f))
                        /\ SF_svars(\E w \in Workers : Finish(w, f))

-----------------------------------------------------------------------------

\* Every uploaded file is eventually settled: workers that die hand it on,
\* and retries run out.
EventuallySettled ==
    \A f \in Files : phase[f] \in Pending ~> phase[f] \in Settled

=============================================================================
