-------------------------- MODULE SrikandiOutbox --------------------------
(***************************************************************************)
(* The durable outbox towards SRIKANDI: a letter and its message commit in *)
(* one transaction, workers claim due messages under a lease, deliver them *)
(* over HTTP and record the outcome under their lock token.                *)
(* Source: services/srikandi.service.ts, srikandi.worker.ts,               *)
(* srikandi-producer.service.ts, srikandi-http.adapter.ts.                 *)
(*                                                                         *)
(* The code compares next_attempt_at and lease_expires_at with the clock   *)
(* only by <=, and both comparisons stay true once they are, so a clock    *)
(* is two flags per row: the retry is due, the lease has expired.          *)
(***************************************************************************)
EXTENDS Naturals

CONSTANTS
    Keys,           \* idempotency keys, one per source record
    Payloads,       \* message bodies
    Versions,       \* contract versions a deployment may be configured with
    Dispatchers,    \* concurrent dispatchers; a dispatcher's id is its token
    Nobody,         \* lock_token IS NULL
    NoContent,      \* no row for the key
    MaxAttempts,    \* config.maxAttempts
    MaxCrashes,     \* bound on dispatchers that die, fail to finalize or stall
    MaxManual,      \* bound on manual retries
    MaxDeploys      \* bound on changes of the configured version

ASSUME OutboxAssumption ==
    /\ Keys # {}
    /\ Nobody \notin Dispatchers
    /\ NoContent \notin Versions \X Payloads
    /\ MaxAttempts \in Nat \ {0}
    /\ MaxCrashes \in Nat
    /\ MaxManual \in Nat
    /\ MaxDeploys \in Nat

VARIABLES
    version,        \* contract version of the running configuration
    letter,         \* Keys -> what the source record says, or NoContent
    outbox,         \* Keys -> the srikandi_outbox row
    dispatcher,     \* Dispatchers -> local state of dispatchOne
    remote,         \* Keys -> contents SRIKANDI accepted under the key
    acked,          \* keys for which an official acknowledgment was received
    crashes, manual, deploys    \* counters of the bounded events

vars == <<version, letter, outbox, dispatcher, remote, acked,
          crashes, manual, deploys>>
bounds == <<crashes, manual, deploys>>

Contents == Versions \X Payloads
OutboxStatus == {"none", "pending", "processing", "retry_scheduled",
                 "succeeded", "dead_letter"}
OutboxRow == [status : OutboxStatus, content : Contents \cup {NoContent},
              attempts : Nat, due : BOOLEAN,
              token : Dispatchers \cup {Nobody}, expired : BOOLEAN]
NoRow == [status |-> "none", content |-> NoContent, attempts |-> 0,
          due |-> FALSE, token |-> Nobody, expired |-> FALSE]
Replies == {"none", "ack", "retryable", "permanent"}
Dispatch == [phase : {"idle", "claimed", "answered"}, key : Keys,
             content : Contents \cup {NoContent}, attempts : Nat,
             reply : Replies]
IdleDispatch == [phase |-> "idle", key |-> CHOOSE k \in Keys : TRUE,
                 content |-> NoContent, attempts |-> 0, reply |-> "none"]

Init ==
    /\ version \in Versions
    /\ letter = [k \in Keys |-> NoContent]
    /\ outbox = [k \in Keys |-> NoRow]
    /\ dispatcher = [d \in Dispatchers |-> IdleDispatch]
    /\ remote = [k \in Keys |-> {}]
    /\ acked = {}
    /\ crashes = 0 /\ manual = 0 /\ deploys = 0

\* A row when it is enqueued, claimed, settled, or retried by hand.
Enqueued(c) == [NoRow EXCEPT !.status = "pending", !.content = c, !.due = TRUE]
Claimed(r, d) == [r EXCEPT !.status = "processing", !.attempts = r.attempts + 1,
                           !.token = d, !.expired = FALSE]
SettledAs(r, status) == [r EXCEPT !.status = status, !.due = FALSE,
                                  !.token = Nobody, !.expired = FALSE]
Retried(r) == [r EXCEPT !.status = "pending", !.attempts = 0, !.due = TRUE,
                        !.token = Nobody, !.expired = FALSE]

\* suratMasukCreated / suratKeluarCreated: the record is inserted and its
\* message enqueued by the same transaction.  A key that is already used for
\* another message (an internal enqueue) fails the whole transaction.
CreateLetter(k) ==
    /\ letter[k] = NoContent
    /\ \E p \in Payloads :
         LET c == <<version, p>> IN
           /\ \/ /\ outbox[k].status = "none"
                 /\ outbox' = [outbox EXCEPT ![k] = Enqueued(c)]
              \/ /\ outbox[k].content = c
                 /\ UNCHANGED outbox
           /\ letter' = [letter EXCEPT ![k] = c]
    /\ UNCHANGED <<version, dispatcher, remote, acked, bounds>>

\* Mutant: a replay with another body replaces the message.
UpsertEnqueue(k, c) ==
    /\ outbox[k].content # c
    /\ outbox' = [outbox EXCEPT ![k] = Enqueued(c)]

\* enqueueWithExecutor: INSERT .. ON CONFLICT DO NOTHING; a replay with the
\* same hash is a no-op, with another one a conflict.
EnqueueWithExecutor(k, c) ==
    /\ outbox[k].status = "none"
    /\ outbox' = [outbox EXCEPT ![k] = Enqueued(c)]

Enqueue(k) ==
    /\ \E p \in Payloads : EnqueueWithExecutor(k, <<version, p>>)
    /\ UNCHANGED <<version, letter, dispatcher, remote, acked, bounds>>

\* Mutant: success is not terminal for the claim.
EligibleAgain(k) ==
    \/ outbox[k].status \in {"pending", "retry_scheduled"} /\ outbox[k].due
    \/ outbox[k].status = "processing" /\ outbox[k].expired
    \/ outbox[k].status = "succeeded"

\* Mutant: an expired lease is never taken over.
EligibleOnlyWaiting(k) ==
    outbox[k].status \in {"pending", "retry_scheduled"} /\ outbox[k].due

Eligible(k) ==
    \/ outbox[k].status \in {"pending", "retry_scheduled"} /\ outbox[k].due
    \/ outbox[k].status = "processing" /\ outbox[k].expired

\* claim: one conditional UPDATE that counts the attempt.
Claim(d, k) ==
    /\ dispatcher[d].phase = "idle"
    /\ Eligible(k)
    /\ outbox' = [outbox EXCEPT ![k] = Claimed(outbox[k], d)]
    /\ dispatcher' = [dispatcher EXCEPT ![d] =
                        [phase |-> "claimed", key |-> k,
                         content |-> outbox[k].content,
                         attempts |-> outbox[k].attempts + 1,
                         reply |-> "none"]]
    /\ UNCHANGED <<version, letter, remote, acked, bounds>>

\* adapter.send: SRIKANDI may accept or not, and only an acknowledgment with
\* its remote id counts.  An accepted delivery can look like a failure (the
\* response is lost, late or not the agreed one).
Send(d) ==
    /\ dispatcher[d].phase = "claimed"
    /\ LET k == dispatcher[d].key IN
         \E reply \in Replies \ {"none"}, accepted \in BOOLEAN :
           /\ reply = "ack" => accepted
           /\ remote' = IF accepted
                THEN [remote EXCEPT ![k] = @ \cup {dispatcher[d].content}]
                ELSE remote
           /\ acked' = IF reply = "ack" THEN acked \cup {k} ELSE acked
           /\ dispatcher' = [dispatcher EXCEPT ![d] =
                               [@ EXCEPT !.phase = "answered", !.reply = reply]]
    /\ UNCHANGED <<version, letter, outbox, bounds>>

\* Mutant: the finalizing UPDATE forgets the lock token.
HoldsAnyLock(d) == outbox[dispatcher[d].key].status = "processing"

HoldsLock(d) == /\ outbox[dispatcher[d].key].status = "processing"
                /\ outbox[dispatcher[d].key].token = d

\* Mutant: the last attempt is retried too.
PlanFailureLate(d) ==
    IF dispatcher[d].reply = "retryable" /\ dispatcher[d].attempts <= MaxAttempts
      THEN "retry_scheduled" ELSE "dead_letter"

\* planSrikandiFailure on the attempt this dispatcher claimed.
PlanFailure(d) ==
    IF dispatcher[d].reply = "retryable" /\ dispatcher[d].attempts < MaxAttempts
      THEN "retry_scheduled" ELSE "dead_letter"

\* Mutant: any answered request is a success.
HttpPlan(d) == IF dispatcher[d].reply \in {"ack", "permanent"}
                 THEN "succeeded" ELSE PlanFailure(d)

\* Mutant: a retryable failure is left to the lease.
PlanByLease(d) ==
    IF dispatcher[d].reply = "retryable" THEN "processing"
    ELSE IF dispatcher[d].reply = "ack" THEN "succeeded" ELSE "dead_letter"

Plan(d) == IF dispatcher[d].reply = "ack" THEN "succeeded" ELSE PlanFailure(d)

\* finalizeSuccess / finalizeFailure; without the lock a ConflictError.
Finalize(d) ==
    /\ dispatcher[d].phase = "answered"
    /\ LET k == dispatcher[d].key IN
         outbox' = IF HoldsLock(d)
           THEN [outbox EXCEPT ![k] = SettledAs(outbox[k], Plan(d))]
           ELSE outbox
    /\ dispatcher' = [dispatcher EXCEPT ![d] = IdleDispatch]
    /\ UNCHANGED <<version, letter, remote, acked, bounds>>

\* The process dies, or the finalizing transaction fails: the row stays
\* processing until its lease expires.
Crash(d) ==
    /\ crashes < MaxCrashes
    /\ dispatcher[d].phase # "idle"
    /\ crashes' = crashes + 1
    /\ dispatcher' = [dispatcher EXCEPT ![d] = IdleDispatch]
    /\ UNCHANGED <<version, letter, outbox, remote, acked, manual, deploys>>

\* manualRetry by an administrator.
ManualRetry(k) ==
    /\ manual < MaxManual
    /\ manual' = manual + 1
    /\ outbox[k].status \in {"dead_letter", "retry_scheduled"}
    /\ outbox' = [outbox EXCEPT ![k] = Retried(outbox[k])]
    /\ UNCHANGED <<version, letter, dispatcher, remote, acked, crashes, deploys>>

\* The clock passes next_attempt_at, or lease_expires_at.
FallDue(k) ==
    /\ outbox[k].status = "retry_scheduled" /\ ~outbox[k].due
    /\ outbox' = [outbox EXCEPT ![k].due = TRUE]
    /\ UNCHANGED <<version, letter, dispatcher, remote, acked, bounds>>

AtWork(k) == \E d \in Dispatchers : /\ outbox[k].token = d
                                    /\ dispatcher[d].phase # "idle"
                                    /\ dispatcher[d].key = k

Expire(k) ==
    /\ outbox[k].status = "processing" /\ ~outbox[k].expired
    /\ outbox' = [outbox EXCEPT ![k].expired = TRUE]

LeaseExpires(k) ==
    /\ ~AtWork(k)
    /\ Expire(k)
    /\ UNCHANGED <<version, letter, dispatcher, remote, acked, bounds>>

\* The lease outlives the request timeout by 30 s, so it expires under a live
\* dispatcher only if that one is suspended or its transaction hangs.
Stall(k) ==
    /\ crashes < MaxCrashes
    /\ crashes' = crashes + 1
    /\ AtWork(k)
    /\ Expire(k)
    /\ UNCHANGED <<version, letter, dispatcher, remote, acked, manual, deploys>>

\* A deployment with another configured contract version.
Deploy ==
    /\ deploys < MaxDeploys
    /\ deploys' = deploys + 1
    /\ version' \in Versions \ {version}
    /\ UNCHANGED <<letter, outbox, dispatcher, remote, acked, crashes, manual>>

DispatcherStep(d) == Send(d) \/ Finalize(d)

Next == \/ \E k \in Keys : \/ CreateLetter(k) \/ Enqueue(k) \/ ManualRetry(k)
                           \/ FallDue(k) \/ LeaseExpires(k) \/ Stall(k)
        \/ \E d \in Dispatchers : \/ \E k \in Keys : Claim(d, k)
                                  \/ DispatcherStep(d) \/ Crash(d)
        \/ Deploy

Spec == Init /\ [][Next]_vars

\* The worker loop polls for ever and survives failed cycles, a request is cut
\* off by its timeout, and time passes.
Fairness ==
    /\ \A d \in Dispatchers : WF_vars(DispatcherStep(d))
    /\ \A k \in Keys : /\ WF_vars(FallDue(k))
                       /\ WF_vars(LeaseExpires(k))
                       /\ SF_vars(\E d \in Dispatchers : Claim(d, k))

FairSpec == Spec /\ Fairness

-----------------------------------------------------------------------------

\* Types of the variables, and srikandi_outbox_terminal_state_check: a row has
\* a lock token exactly while it is processing.
TypeOK ==
    /\ version \in Versions
    /\ letter \in [Keys -> Contents \cup {NoContent}]
    /\ outbox \in [Keys -> OutboxRow]
    /\ dispatcher \in [Dispatchers -> Dispatch]
    /\ remote \in [Keys -> SUBSET Contents]
    /\ acked \in SUBSET Keys
    /\ crashes \in Nat /\ manual \in Nat /\ deploys \in Nat
    /\ \A k \in Keys : outbox[k].status = "processing" <=> outbox[k].token # Nobody

\* succeeded is never inferred: SRIKANDI acknowledged this key, and accepted
\* exactly the content of the row.
SucceededMeansAcknowledged ==
    \A k \in Keys : outbox[k].status = "succeeded" =>
                      k \in acked /\ outbox[k].content \in remote[k]

\* Whatever is retried, replayed or redeployed, SRIKANDI sees one content per
\* idempotency key: the one of the row.
OneContentPerKey == \A k \in Keys : remote[k] \subseteq {outbox[k].content}

\* A committed letter has its message, with the letter's content.
LetterHasMessage ==
    \A k \in Keys : letter[k] # NoContent => outbox[k].content = letter[k]

\* A processing row is settled by the dispatcher that holds its token, and
\* taken over only after its lease.
HolderDecides ==
    \A k \in Keys :
      outbox[k].status = "processing" /\ outbox'[k] # outbox[k] =>
        \/ outbox[k].expired /\ outbox'[k].status = "processing"
        \/ ~outbox[k].expired /\ outbox'[k] = [outbox[k] EXCEPT !.expired = TRUE]
        \/ /\ dispatcher[outbox[k].token].key = k
           /\ dispatcher[outbox[k].token].phase = "answered"
           /\ dispatcher'[outbox[k].token].phase = "idle"
OnlyHolderDecides == [][HolderDecides]_vars

\* A success is final: no retry, takeover or late failure undoes it.
SuccessStays ==
    \A k \in Keys : outbox[k].status = "succeeded" => outbox'[k] = outbox[k]
SuccessIsFinal == [][SuccessStays]_vars

\* The message of a key as ReliableDelivery tells it: a dead letter is given
\* up, and everything short of success still waits.
ProgressOf(k) ==
    CASE outbox[k].status = "none" -> "absent"
      [] outbox[k].status = "succeeded" -> "delivered"
      [] outbox[k].status = "dead_letter" -> "given_up"
      [] OTHER -> "waiting"

Delivery == INSTANCE ReliableDelivery WITH
    Nothing <- NoContent,
    progress <- [k \in Keys |-> ProgressOf(k)],
    message <- [k \in Keys |-> outbox[k].content],
    accepted <- remote

\* Crashes, takeovers, late answers and deployments stay hidden behind the
\* promise of a reliable delivery: the content of a key never changes, success
\* follows acceptance and is final.
ImplementsDelivery == Delivery!DeliverySpec

\* planSrikandiFailure schedules a retry only below the limit, so a message
\* that waits has attempts left; and only a dispatcher that dies or stalls
\* (its takeover counts an attempt without asking) drives it past the limit.
RetriesWithinLimit ==
    \A k \in Keys :
      /\ outbox[k].status \in {"pending", "retry_scheduled"} =>
           outbox[k].attempts < MaxAttempts
      /\ outbox[k].attempts <= MaxAttempts + crashes

\* Every message is eventually delivered or dead-lettered.
EventuallyResolved ==
    \A k \in Keys :
      outbox[k].status # "none" ~> outbox[k].status \in {"succeeded", "dead_letter"}

\* docs/INTEGRASI_SRIKANDI.md:13: exhausted attempts end in dead_letter, so no
\* attempt beyond the limit is ever made.
AttemptsWithinLimit ==
    \A k \in Keys :
      outbox[k].status = "processing" => outbox[k].attempts <= MaxAttempts

=============================================================================
