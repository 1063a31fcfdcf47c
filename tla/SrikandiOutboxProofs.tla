------------------------ MODULE SrikandiOutboxProofs ------------------------
(***************************************************************************)
(* Proofs about the outbox, for any keys, bodies, contract versions,       *)
(* dispatchers and numbers of crashes, manual retries and deployments.     *)
(***************************************************************************)
EXTENDS SrikandiOutbox, TLAPS

\* A key without a message has no content, letter or delivery; one with a
\* message has a content.
Unused ==
    \A k \in Keys :
      /\ outbox[k].status = "none" => /\ outbox[k].content = NoContent
                                      /\ letter[k] = NoContent
                                      /\ remote[k] = {}
      /\ outbox[k].status # "none" => outbox[k].content \in Contents

\* A dispatcher carries the content of the row it claimed, and an
\* acknowledgment it carries was recorded by SRIKANDI for that content.
Carried ==
    \A d \in Dispatchers :
      dispatcher[d].phase # "idle" =>
        LET k == dispatcher[d].key IN
          /\ outbox[k].status # "none"
          /\ dispatcher[d].content = outbox[k].content
          /\ dispatcher[d].phase = "answered" /\ dispatcher[d].reply = "ack" =>
               k \in acked /\ outbox[k].content \in remote[k]

OutboxInv == /\ TypeOK
             /\ Unused
             /\ Carried
             /\ SucceededMeansAcknowledged
             /\ OneContentPerKey
             /\ LetterHasMessage

\* The row of a key, its letter and its deliveries as types.
LEMMA OutboxTypes ==
    TypeOK => /\ outbox \in [Keys -> OutboxRow]
              /\ dispatcher \in [Dispatchers -> Dispatch]
              /\ letter \in [Keys -> Contents \cup {NoContent}]
              /\ remote \in [Keys -> SUBSET Contents]
              /\ acked \in SUBSET Keys
              /\ version \in Versions
              /\ \A d \in Dispatchers : dispatcher[d].key \in Keys
BY DEF TypeOK, Dispatch

LEMMA EnqueuedType ==
    ASSUME NEW c \in Contents
    PROVE  /\ Enqueued(c) \in OutboxRow
           /\ Enqueued(c).status = "pending"
           /\ Enqueued(c).content = c
           /\ Enqueued(c).token = Nobody
BY DEF Enqueued, NoRow, OutboxRow, OutboxStatus

\* OutboxInv looks at few fields of a row: the steps of claims, leases and
\* retries ...
SameContent ==
    /\ UNCHANGED <<letter, remote, acked>>
    /\ \A k \in Keys :
         /\ outbox'[k].content = outbox[k].content
         /\ outbox'[k].status = "none" <=> outbox[k].status = "none"
         /\ outbox'[k].status = "succeeded" =>
              \/ outbox[k].status = "succeeded"
              \/ k \in acked /\ outbox[k].content \in remote[k]
    /\ \A d \in Dispatchers :
         dispatcher'[d].phase # "idle" =>
           \/ dispatcher'[d] = dispatcher[d]
           \/ /\ dispatcher'[d].phase = "claimed"
              /\ dispatcher'[d].key \in Keys
              /\ outbox[dispatcher'[d].key].status # "none"
              /\ dispatcher'[d].content = outbox[dispatcher'[d].key].content

\* ... keep it.
LEMMA SameContentStep ==
    ASSUME OutboxInv, TypeOK', SameContent
    PROVE  OutboxInv'
<1>. USE DEF SameContent
<1>1. Unused'
  BY DEF OutboxInv, Unused
<1>2. Carried'
  BY OutboxTypes DEF OutboxInv, Carried
<1>3. SucceededMeansAcknowledged' /\ OneContentPerKey' /\ LetterHasMessage'
  BY DEF OutboxInv, SucceededMeansAcknowledged, OneContentPerKey, LetterHasMessage
<1>. QED
  BY <1>1, <1>2, <1>3 DEF OutboxInv

LEMMA InitOutboxInv == Init => OutboxInv
<1>. SUFFICES ASSUME Init PROVE OutboxInv
  OBVIOUS
<1>1. NoRow \in OutboxRow /\ NoRow.status = "none" /\ NoRow.token = Nobody
  BY DEF NoRow, OutboxRow, OutboxStatus
<1>2. IdleDispatch \in Dispatch
  BY OutboxAssumption DEF IdleDispatch, Dispatch, Replies
<1>3. TypeOK
  BY <1>1, <1>2 DEF Init, TypeOK
<1>. QED
  BY <1>1, <1>3
  DEF Init, NoRow, IdleDispatch, OutboxInv, Unused, Carried,
      SucceededMeansAcknowledged, OneContentPerKey, LetterHasMessage

\* A message enters an unused key.
LEMMA EnqueueStep ==
    ASSUME OutboxInv, NEW k \in Keys, NEW c \in Contents,
           outbox[k].status = "none",
           outbox' = [outbox EXCEPT ![k] = Enqueued(c)],
           letter' = letter \/ letter' = [letter EXCEPT ![k] = c],
           UNCHANGED <<version, dispatcher, remote, acked, bounds>>
    PROVE  OutboxInv'
<1>. USE OutboxTypes
<1>1. TypeOK
  BY DEF OutboxInv
<1>2. /\ outbox'[k] = Enqueued(c)
      /\ \A j \in Keys : j # k => outbox'[j] = outbox[j]
      /\ letter'[k] = letter[k] \/ letter'[k] = c
      /\ \A j \in Keys : j # k => letter'[j] = letter[j]
  BY <1>1
<1>3. TypeOK'
  <2>1. outbox' \in [Keys -> OutboxRow]
    BY <1>1, EnqueuedType
  <2>2. letter' \in [Keys -> Contents \cup {NoContent}]
    BY <1>1
  <2>3. \A j \in Keys : outbox'[j].status = "processing" <=> outbox'[j].token # Nobody
    BY <1>1, <1>2, EnqueuedType DEF TypeOK
  <2>. QED
    BY <1>1, <2>1, <2>2, <2>3 DEF TypeOK, bounds
<1>4. Unused'
  BY <1>2, EnqueuedType DEF OutboxInv, Unused
<1>5. Carried'
  BY <1>1, <1>2 DEF OutboxInv, Carried
<1>6. SucceededMeansAcknowledged' /\ OneContentPerKey' /\ LetterHasMessage'
  BY <1>2, EnqueuedType
  DEF OutboxInv, Unused, SucceededMeansAcknowledged, OneContentPerKey, LetterHasMessage
<1>. QED
  BY <1>3, <1>4, <1>5, <1>6 DEF OutboxInv

LEMMA CreateLetterStep ==
    ASSUME OutboxInv, NEW k \in Keys, CreateLetter(k)
    PROVE  OutboxInv'
<1>1. PICK p \in Payloads :
        LET c == <<version, p>> IN
          /\ \/ outbox[k].status = "none" /\ outbox' = [outbox EXCEPT ![k] = Enqueued(c)]
             \/ outbox[k].content = c /\ UNCHANGED outbox
          /\ letter' = [letter EXCEPT ![k] = c]
  BY DEF CreateLetter
<1>. DEFINE c == <<version, p>>
<1>2. c \in Contents
  BY OutboxTypes DEF OutboxInv, Contents
<1>3. UNCHANGED <<version, dispatcher, remote, acked, bounds>>
  BY DEF CreateLetter
<1>4. /\ \/ outbox[k].status = "none" /\ outbox' = [outbox EXCEPT ![k] = Enqueued(c)]
         \/ outbox[k].content = c /\ UNCHANGED outbox
      /\ letter' = [letter EXCEPT ![k] = c]
  BY <1>1
<1>. HIDE DEF c
<1>5. CASE outbox[k].status = "none" /\ outbox' = [outbox EXCEPT ![k] = Enqueued(c)]
  BY <1>2, <1>3, <1>4, <1>5, EnqueueStep
<1>6. CASE outbox[k].content = c /\ UNCHANGED outbox
  <2>1. c # NoContent
    BY <1>2, OutboxAssumption DEF Contents
  <2>2. /\ letter \in [Keys -> Contents \cup {NoContent}]
        /\ letter'[k] = c
        /\ \A j \in Keys : j # k => letter'[j] = letter[j]
    BY <1>4, OutboxTypes DEF OutboxInv
  <2>3. TypeOK'
    BY <1>2, <1>3, <1>4, <1>6, <2>2 DEF OutboxInv, TypeOK, bounds
  <2>4. outbox[k].status # "none"
    BY <1>6, <2>1 DEF OutboxInv, Unused
  <2>5. Unused' /\ LetterHasMessage'
    BY <1>3, <1>6, <2>2, <2>4 DEF OutboxInv, Unused, LetterHasMessage
  <2>6. Carried' /\ SucceededMeansAcknowledged' /\ OneContentPerKey'
    BY <1>3, <1>6
    DEF OutboxInv, Carried, SucceededMeansAcknowledged, OneContentPerKey
  <2>. QED
    BY <2>3, <2>5, <2>6 DEF OutboxInv
<1>. QED
  BY <1>4, <1>5, <1>6

LEMMA ClaimedRow ==
    ASSUME NEW r \in OutboxRow, NEW d \in Dispatchers
    PROVE  /\ Claimed(r, d) \in OutboxRow
           /\ Claimed(r, d).status = "processing"
           /\ Claimed(r, d).token = d
           /\ Claimed(r, d).content = r.content
<1>1. r.attempts + 1 \in Nat
  BY DEF OutboxRow
<1>. QED
  BY <1>1 DEF Claimed, OutboxRow, OutboxStatus

LEMMA RetriedRow ==
    ASSUME NEW r \in OutboxRow
    PROVE  /\ Retried(r) \in OutboxRow
           /\ Retried(r).status = "pending"
           /\ Retried(r).token = Nobody
           /\ Retried(r).content = r.content
BY DEF Retried, OutboxRow, OutboxStatus

LEMMA SettledRow ==
    ASSUME NEW r \in OutboxRow, NEW s \in OutboxStatus
    PROVE  /\ SettledAs(r, s) \in OutboxRow
           /\ SettledAs(r, s).status = s
           /\ SettledAs(r, s).token = Nobody
           /\ SettledAs(r, s).content = r.content
BY DEF SettledAs, OutboxRow

LEMMA ClaimStep ==
    ASSUME OutboxInv, NEW d \in Dispatchers, NEW k \in Keys, Claim(d, k)
    PROVE  OutboxInv'
<1>. USE OutboxTypes
<1>1. TypeOK
  BY DEF OutboxInv
<1>2. /\ outbox'[k] = Claimed(outbox[k], d)
      /\ \A j \in Keys : j # k => outbox'[j] = outbox[j]
      /\ dispatcher'[d] = [phase |-> "claimed", key |-> k,
                           content |-> outbox[k].content,
                           attempts |-> outbox[k].attempts + 1, reply |-> "none"]
      /\ \A e \in Dispatchers : e # d => dispatcher'[e] = dispatcher[e]
  BY <1>1 DEF Claim
<1>3. /\ outbox'[k] \in OutboxRow
      /\ outbox'[k].status = "processing" /\ outbox'[k].token = d
      /\ outbox'[k].content = outbox[k].content
  BY <1>1, <1>2, ClaimedRow
<1>4. dispatcher'[d] \in Dispatch
  BY <1>1, <1>2 DEF Dispatch, Replies, OutboxRow
<1>5. TypeOK'
  <2>1. outbox' \in [Keys -> OutboxRow] /\ dispatcher' \in [Dispatchers -> Dispatch]
    BY <1>1, <1>2, <1>3, <1>4 DEF Claim
  <2>2. ASSUME NEW j \in Keys
        PROVE  outbox'[j].status = "processing" <=> outbox'[j].token # Nobody
    <3>1. CASE j = k
      BY <1>3, <3>1, OutboxAssumption
    <3>2. CASE j # k
      BY <1>1, <1>2, <3>2 DEF TypeOK
    <3>. QED
      BY <3>1, <3>2
  <2>. QED
    BY <1>1, <2>1, <2>2 DEF Claim, TypeOK, bounds
<1>6. outbox[k].status # "none"
  BY DEF Claim, Eligible
<1>7. SameContent
  BY <1>1, <1>2, <1>3, <1>6 DEF Claim, SameContent
<1>. QED
  BY <1>5, <1>7, SameContentStep

LEMMA SendStep ==
    ASSUME OutboxInv, NEW d \in Dispatchers, Send(d)
    PROVE  OutboxInv'
<1>. USE OutboxTypes
<1>1. TypeOK
  BY DEF OutboxInv
<1>2. PICK k \in Keys : k = dispatcher[d].key
  BY <1>1
<1>3. PICK reply \in {"ack", "retryable", "permanent"}, accepted \in BOOLEAN :
        /\ reply = "ack" => accepted
        /\ remote' = IF accepted
             THEN [remote EXCEPT ![k] = @ \cup {dispatcher[d].content}] ELSE remote
        /\ acked' = IF reply = "ack" THEN acked \cup {k} ELSE acked
        /\ dispatcher' = [dispatcher EXCEPT ![d] =
                            [@ EXCEPT !.phase = "answered", !.reply = reply]]
  BY <1>2 DEF Send, Replies
<1>4. /\ dispatcher[d].phase = "claimed"
      /\ outbox[k].status # "none"
      /\ dispatcher[d].content = outbox[k].content
      /\ UNCHANGED <<version, letter, outbox, bounds>>
  BY <1>2 DEF Send, OutboxInv, Carried
<1>5. outbox[k].content \in Contents
  BY <1>4 DEF OutboxInv, Unused
<1>6. /\ \A j \in Keys : /\ remote[j] \subseteq remote'[j]
                         /\ j # k => remote'[j] = remote[j]
      /\ remote'[k] \subseteq remote[k] \cup {outbox[k].content}
      /\ acked \subseteq acked' /\ acked' \subseteq Keys
      /\ reply = "ack" => k \in acked' /\ outbox[k].content \in remote'[k]
  BY <1>1, <1>3, <1>4
<1>7. /\ dispatcher'[d].phase = "answered" /\ dispatcher'[d].reply = reply
      /\ dispatcher'[d].key = k
      /\ dispatcher'[d].content = outbox[k].content
      /\ \A e \in Dispatchers : e # d => dispatcher'[e] = dispatcher[e]
  BY <1>1, <1>2, <1>3, <1>4 DEF Dispatch
<1>8. TypeOK'
  <2>1. dispatcher' \in [Dispatchers -> Dispatch]
    <3>1. \A e \in Dispatch :
            [e EXCEPT !.phase = "answered", !.reply = reply] \in Dispatch
      BY DEF Dispatch, Replies
    <3>2. dispatcher[d] \in Dispatch
      BY <1>1
    <3>3. [dispatcher[d] EXCEPT !.phase = "answered", !.reply = reply] \in Dispatch
      BY <3>1, <3>2
    <3>. QED
      BY <1>1, <1>3, <3>3
  <2>2. remote' \in [Keys -> SUBSET Contents]
    BY <1>1, <1>3, <1>4, <1>5
  <2>. QED
    BY <1>1, <1>4, <1>6, <2>1, <2>2 DEF TypeOK, bounds
<1>9. Unused'
  BY <1>4, <1>6 DEF OutboxInv, Unused
<1>10. Carried'
  BY <1>1, <1>4, <1>6, <1>7 DEF OutboxInv, Carried
<1>11. SucceededMeansAcknowledged' /\ LetterHasMessage'
  BY <1>4, <1>6 DEF OutboxInv, SucceededMeansAcknowledged, LetterHasMessage
<1>12. OneContentPerKey'
  BY <1>4, <1>6 DEF OutboxInv, OneContentPerKey
<1>. QED
  BY <1>8, <1>9, <1>10, <1>11, <1>12 DEF OutboxInv

LEMMA FinalizeStep ==
    ASSUME OutboxInv, NEW d \in Dispatchers, Finalize(d)
    PROVE  OutboxInv'
<1>. USE OutboxTypes
<1>1. TypeOK
  BY DEF OutboxInv
<1>2. PICK k \in Keys : k = dispatcher[d].key
  BY <1>1
<1>3. /\ dispatcher'[d] = IdleDispatch
      /\ \A e \in Dispatchers : e # d => dispatcher'[e] = dispatcher[e]
      /\ UNCHANGED <<version, letter, remote, acked, bounds>>
      /\ dispatcher[d].phase = "answered"
  BY <1>1 DEF Finalize
<1>4. IdleDispatch \in Dispatch /\ IdleDispatch.phase = "idle"
  BY OutboxAssumption DEF IdleDispatch, Dispatch, Replies
<1>5. dispatcher' \in [Dispatchers -> Dispatch]
  BY <1>1, <1>4 DEF Finalize
<1>6. CASE outbox' = outbox
  <2>1. TypeOK'
    BY <1>1, <1>3, <1>5, <1>6 DEF TypeOK, bounds
  <2>2. SameContent
    BY <1>3, <1>4, <1>6 DEF SameContent
  <2>. QED
    BY <2>1, <2>2, SameContentStep
<1>7. CASE HoldsLock(d) /\ outbox' # outbox
  <2>1. outbox' = [outbox EXCEPT ![k] = SettledAs(outbox[k], Plan(d))]
    BY <1>2, <1>7 DEF Finalize
  <2>2. /\ Plan(d) \in {"succeeded", "retry_scheduled", "dead_letter"}
        /\ Plan(d) = "succeeded" => dispatcher[d].reply = "ack"
    BY DEF Plan, PlanFailure
  <2>3. /\ outbox'[k] \in OutboxRow
        /\ outbox'[k].status = Plan(d) /\ outbox'[k].token = Nobody
        /\ outbox'[k].content = outbox[k].content
        /\ \A j \in Keys : j # k => outbox'[j] = outbox[j]
    BY <1>1, <2>1, <2>2, SettledRow DEF OutboxStatus
  <2>4. TypeOK'
    <3>1. outbox' \in [Keys -> OutboxRow]
      BY <1>1, <2>1, <2>3
    <3>2. \A j \in Keys : outbox'[j].status = "processing" <=> outbox'[j].token # Nobody
      BY <1>1, <2>2, <2>3 DEF TypeOK
    <3>. QED
      BY <1>1, <1>3, <1>5, <3>1, <3>2 DEF TypeOK, bounds
  <2>5. outbox[k].status = "processing"
    BY <1>2, <1>7 DEF HoldsLock
  <2>6. dispatcher[d].reply = "ack" => k \in acked /\ outbox[k].content \in remote[k]
    BY <1>2, <1>3 DEF OutboxInv, Carried
  <2>7. SameContent
    BY <1>3, <1>4, <2>2, <2>3, <2>5, <2>6 DEF SameContent
  <2>. QED
    BY <2>4, <2>7, SameContentStep
<1>. QED
  BY <1>6, <1>7 DEF Finalize

\* The steps that change one row's status, lease or due flag alone.
LEMMA RowOnlyStep ==
    ASSUME OutboxInv, NEW k \in Keys,
           ManualRetry(k) \/ FallDue(k) \/ LeaseExpires(k) \/ Stall(k)
    PROVE  OutboxInv'
<1>. USE OutboxTypes
<1>1. TypeOK
  BY DEF OutboxInv
<1>2. /\ outbox'[k] \in OutboxRow
      /\ outbox'[k].content = outbox[k].content
      /\ outbox'[k].status # "succeeded"
      /\ outbox'[k].status # "none" /\ outbox[k].status # "none"
      /\ outbox'[k].status = "processing" <=> outbox'[k].token # Nobody
      /\ outbox' = [outbox EXCEPT ![k] = outbox'[k]]
  <2>1. CASE ManualRetry(k)
    BY <1>1, <2>1, RetriedRow DEF ManualRetry
  <2>2. CASE FallDue(k)
    BY <1>1, <2>2 DEF FallDue, OutboxRow, OutboxStatus, TypeOK
  <2>3. CASE Expire(k)
    BY <1>1, <2>3 DEF Expire, OutboxRow, OutboxStatus, TypeOK
  <2>. QED
    BY <2>1, <2>2, <2>3 DEF LeaseExpires, Stall
<1>3. /\ \A j \in Keys : j # k => outbox'[j] = outbox[j]
      /\ outbox' \in [Keys -> OutboxRow]
  BY <1>1, <1>2
<1>4. UNCHANGED <<version, letter, dispatcher, remote, acked>>
  BY DEF ManualRetry, FallDue, LeaseExpires, Stall
<1>5. crashes' \in Nat /\ manual' \in Nat /\ deploys' \in Nat
  BY <1>1 DEF ManualRetry, FallDue, LeaseExpires, Stall, bounds, TypeOK
<1>6. TypeOK'
  BY <1>1, <1>2, <1>3, <1>4, <1>5 DEF TypeOK
<1>7. SameContent
  BY <1>2, <1>3, <1>4 DEF SameContent
<1>. QED
  BY <1>6, <1>7, SameContentStep

LEMMA CrashStep ==
    ASSUME OutboxInv, NEW d \in Dispatchers, Crash(d)
    PROVE  OutboxInv'
<1>. USE OutboxTypes
<1>1. TypeOK
  BY DEF OutboxInv
<1>2. IdleDispatch \in Dispatch /\ IdleDispatch.phase = "idle"
  BY OutboxAssumption DEF IdleDispatch, Dispatch, Replies
<1>3. TypeOK'
  BY <1>1, <1>2 DEF Crash, TypeOK
<1>4. SameContent
  BY <1>1, <1>2 DEF Crash, SameContent
<1>. QED
  BY <1>3, <1>4, SameContentStep

LEMMA OutboxStep == OutboxInv /\ [Next]_vars => OutboxInv'
<1>. SUFFICES ASSUME OutboxInv, [Next]_vars PROVE OutboxInv'
  OBVIOUS
<1>1. ASSUME NEW k \in Keys, Enqueue(k) PROVE OutboxInv'
  <2>1. PICK p \in Payloads : EnqueueWithExecutor(k, <<version, p>>)
    BY <1>1 DEF Enqueue
  <2>2. <<version, p>> \in Contents
    BY DEF OutboxInv, TypeOK, Contents
  <2>. QED
    BY <1>1, <2>1, <2>2, EnqueueStep DEF Enqueue, EnqueueWithExecutor
<1>2. CASE Deploy
  <2>1. TypeOK'
    BY <1>2 DEF Deploy, OutboxInv, TypeOK
  <2>. QED
    BY <1>2, <2>1
    DEF Deploy, OutboxInv, Unused, Carried, SucceededMeansAcknowledged,
        OneContentPerKey, LetterHasMessage
<1>3. CASE UNCHANGED vars
  BY <1>3
  DEF vars, OutboxInv, TypeOK, Unused, Carried, SucceededMeansAcknowledged,
      OneContentPerKey, LetterHasMessage
<1>. QED
  BY <1>1, <1>2, <1>3, CreateLetterStep, ClaimStep, SendStep, FinalizeStep,
     RowOnlyStep, CrashStep
  DEF Next, DispatcherStep

\* The inductive invariant holds in every reachable state.
THEOREM OutboxInvariant == Spec => []OutboxInv
BY InitOutboxInv, OutboxStep, PTL DEF Spec

\* Types, and a lock token exactly on the processing rows.
THEOREM OutboxTypeCorrect == Spec => []TypeOK
<1>1. OutboxInv => TypeOK
  BY DEF OutboxInv
<1>. QED
  BY <1>1, OutboxInvariant, PTL

\* finalizeSuccess only follows an acknowledgment of the row's own content.
THEOREM SuccessIsAcknowledged == Spec => []SucceededMeansAcknowledged
<1>1. OutboxInv => SucceededMeansAcknowledged
  BY DEF OutboxInv
<1>. QED
  BY <1>1, OutboxInvariant, PTL

\* Retries, takeovers and deployments deliver one content per key.
THEOREM DeliversOneContent == Spec => []OneContentPerKey
<1>1. OutboxInv => OneContentPerKey
  BY DEF OutboxInv
<1>. QED
  BY <1>1, OutboxInvariant, PTL

\* A committed letter never lacks its message.
THEOREM LetterAndMessage == Spec => []LetterHasMessage
<1>1. OutboxInv => LetterHasMessage
  BY DEF OutboxInv
<1>. QED
  BY <1>1, OutboxInvariant, PTL

-----------------------------------------------------------------------------

\* How a step can change the row of a key.
RowStep(k) ==
    \/ outbox'[k] = outbox[k]
    \/ outbox[k].status = "none"
    \/ Eligible(k) /\ outbox'[k].status = "processing"
    \/ \E d \in Dispatchers : HoldsLock(d) /\ dispatcher[d].key = k /\ Finalize(d)
    \/ outbox[k].status \in {"dead_letter", "retry_scheduled"}
    \/ /\ outbox[k].status = "processing" /\ ~outbox[k].expired
       /\ outbox'[k] = [outbox[k] EXCEPT !.expired = TRUE]

LEMMA RowSteps ==
    ASSUME OutboxInv, [Next]_vars, NEW k \in Keys
    PROVE  RowStep(k)
<1>. USE OutboxTypes
<1>1. TypeOK
  BY DEF OutboxInv
<1>2. ASSUME NEW j \in Keys, CreateLetter(j) \/ Enqueue(j) PROVE RowStep(k)
  BY <1>1, <1>2 DEF CreateLetter, Enqueue, EnqueueWithExecutor, RowStep
<1>3. ASSUME NEW j \in Keys, ManualRetry(j) \/ FallDue(j) PROVE RowStep(k)
  BY <1>1, <1>3 DEF ManualRetry, FallDue, RowStep
<1>4. ASSUME NEW j \in Keys, LeaseExpires(j) \/ Stall(j) PROVE RowStep(k)
  BY <1>1, <1>4 DEF LeaseExpires, Stall, Expire, RowStep
<1>5. ASSUME NEW d \in Dispatchers, NEW j \in Keys, Claim(d, j) PROVE RowStep(k)
  BY <1>1, <1>5, ClaimedRow DEF Claim, RowStep
<1>6. ASSUME NEW d \in Dispatchers, Finalize(d) PROVE RowStep(k)
  BY <1>1, <1>6 DEF Finalize, RowStep
<1>7. ASSUME NEW d \in Dispatchers, Send(d) \/ Crash(d) PROVE RowStep(k)
  BY <1>7 DEF Send, Crash, RowStep
<1>8. CASE Deploy \/ UNCHANGED vars
  BY <1>8 DEF Deploy, vars, RowStep
<1>. QED
  BY <1>2, <1>3, <1>4, <1>5, <1>6, <1>7, <1>8 DEF Next, DispatcherStep

LEMMA SuccessStaysStep == OutboxInv /\ [Next]_vars => SuccessStays
BY RowSteps DEF SuccessStays, RowStep, Eligible, HoldsLock

LEMMA HolderDecidesStep == OutboxInv /\ [Next]_vars => HolderDecides
<1>. SUFFICES ASSUME OutboxInv, [Next]_vars, NEW k \in Keys,
                     outbox[k].status = "processing", outbox'[k] # outbox[k]
              PROVE  \/ outbox[k].expired /\ outbox'[k].status = "processing"
                     \/ /\ ~outbox[k].expired
                        /\ outbox'[k] = [outbox[k] EXCEPT !.expired = TRUE]
                     \/ /\ dispatcher[outbox[k].token].key = k
                        /\ dispatcher[outbox[k].token].phase = "answered"
                        /\ dispatcher'[outbox[k].token].phase = "idle"
  BY DEF HolderDecides
<1>1. RowStep(k)
  BY RowSteps
<1>2. CASE Eligible(k) /\ outbox'[k].status = "processing"
  BY <1>2 DEF Eligible
<1>3. ASSUME NEW d \in Dispatchers,
             HoldsLock(d), dispatcher[d].key = k, Finalize(d)
      PROVE  /\ dispatcher[outbox[k].token].key = k
             /\ dispatcher[outbox[k].token].phase = "answered"
             /\ dispatcher'[outbox[k].token].phase = "idle"
  BY <1>3, OutboxTypes DEF OutboxInv, HoldsLock, Finalize, IdleDispatch
<1>. QED
  BY <1>1, <1>2, <1>3 DEF RowStep

\* No takeover, retry or late failure reopens a succeeded message.
THEOREM SuccessFinal == Spec => SuccessIsFinal
BY OutboxInvariant, SuccessStaysStep, PTL DEF Spec, SuccessIsFinal

\* A processing row is settled by the dispatcher of its lock token, and only
\* an expired lease is taken over.
THEOREM HolderSettles == Spec => OnlyHolderDecides
BY OutboxInvariant, HolderDecidesStep, PTL DEF Spec, OnlyHolderDecides

-----------------------------------------------------------------------------

\* A dispatcher that holds the lock knows the attempt it counted.
Counted ==
    \A d \in Dispatchers :
      dispatcher[d].phase # "idle" /\ HoldsLock(d) =>
        dispatcher[d].attempts = outbox[dispatcher[d].key].attempts

\* An attempt that ends without an answer was paid for by a crash or a stall.
Abandoned(k) == outbox[k].status = "processing" /\ (outbox[k].expired \/ ~AtWork(k))
KeyWithinLimit(k) ==
    /\ outbox[k].status \in {"pending", "retry_scheduled"} =>
         outbox[k].attempts < MaxAttempts
    /\ outbox[k].attempts <= MaxAttempts + crashes
    /\ Abandoned(k) => outbox[k].attempts + 1 <= MaxAttempts + crashes

RetryInv == Counted /\ \A k \in Keys : KeyWithinLimit(k)

LEMMA AttemptTypes ==
    TypeOK => /\ \A k \in Keys : outbox[k].attempts \in Nat
              /\ crashes \in Nat
              /\ MaxAttempts \in Nat /\ MaxAttempts > 0
BY OutboxAssumption DEF TypeOK, OutboxRow

\* A key whose row no step touches, and whose dispatcher stays at work.
LEMMA KeyUntouched ==
    ASSUME TypeOK, RetryInv, NEW k \in Keys, crashes' = crashes,
           outbox'[k] = outbox[k],
           outbox[k].status = "processing" /\ AtWork(k) => AtWork(k)'
    PROVE  KeyWithinLimit(k)'
<1>1. KeyWithinLimit(k)
  BY DEF RetryInv
<1>2. Abandoned(k)' => Abandoned(k)
  BY DEF Abandoned
<1>. QED
  BY <1>1, <1>2 DEF KeyWithinLimit

LEMMA InitRetryInv == Init => RetryInv
<1>. SUFFICES ASSUME Init PROVE RetryInv
  OBVIOUS
<1>1. \A k \in Keys : outbox[k].status = "none" /\ outbox[k].attempts = 0
  BY DEF Init, NoRow
<1>2. \A d \in Dispatchers : dispatcher[d].phase = "idle"
  BY DEF Init, IdleDispatch
<1>3. crashes = 0 /\ MaxAttempts \in Nat
  BY OutboxAssumption DEF Init
<1>. QED
  BY <1>1, <1>2, <1>3 DEF RetryInv, Counted, KeyWithinLimit, Abandoned

\* The steps that leave the dispatchers alone: a message enters, is retried by
\* hand, falls due, or its lease runs out.
LEMMA QuietRetryStep ==
    ASSUME OutboxInv, TypeOK', RetryInv, NEW k \in Keys,
           \/ CreateLetter(k) \/ Enqueue(k) \/ ManualRetry(k)
           \/ FallDue(k) \/ LeaseExpires(k) \/ Stall(k)
    PROVE  RetryInv'
<1>. USE OutboxTypes, AttemptTypes
<1>1. TypeOK
  BY DEF OutboxInv
<1>2. /\ dispatcher' = dispatcher
      /\ \A j \in Keys : j # k => outbox'[j] = outbox[j]
  BY <1>1
  DEF CreateLetter, Enqueue, EnqueueWithExecutor, ManualRetry, FallDue, LeaseExpires,
      Stall, Expire
<1>3. \/ /\ crashes' = crashes
         /\ \/ outbox'[k] = outbox[k]
            \/ /\ outbox'[k].status = "pending" /\ outbox'[k].attempts = 0
               /\ outbox[k].status # "processing"
            \/ /\ outbox'[k].status = "retry_scheduled"
               /\ outbox[k].status = "retry_scheduled"
               /\ outbox'[k].attempts = outbox[k].attempts
            \/ /\ Abandoned(k) /\ outbox'[k].status = "processing"
               /\ outbox'[k].token = outbox[k].token
               /\ outbox'[k].attempts = outbox[k].attempts
      \/ /\ crashes' = crashes + 1
         /\ outbox[k].status = "processing" /\ outbox'[k].status = "processing"
         /\ outbox'[k].token = outbox[k].token
         /\ outbox'[k].attempts = outbox[k].attempts
  <2>1. CASE CreateLetter(k)
    BY <1>1, <2>1 DEF CreateLetter, Enqueued, NoRow, bounds
  <2>2. CASE Enqueue(k)
    BY <1>1, <2>2 DEF Enqueue, EnqueueWithExecutor, Enqueued, NoRow, bounds
  <2>3. CASE ManualRetry(k)
    BY <1>1, <2>3 DEF ManualRetry, Retried, OutboxRow
  <2>4. CASE FallDue(k)
    BY <1>1, <2>4 DEF FallDue, OutboxRow, bounds
  <2>5. CASE LeaseExpires(k)
    BY <1>1, <2>5 DEF LeaseExpires, Expire, OutboxRow, Abandoned, bounds
  <2>6. CASE Stall(k)
    BY <1>1, <2>6 DEF Stall, Expire, OutboxRow
  <2>. QED
    BY <2>1, <2>2, <2>3, <2>4, <2>5, <2>6
<1>4. \A j \in Keys : KeyWithinLimit(j)
  BY DEF RetryInv
<1>5. crashes' >= crashes
  BY <1>1, <1>3
<1>6. ASSUME NEW j \in Keys, j # k PROVE KeyWithinLimit(j)'
  <2>1. outbox'[j] = outbox[j] /\ (AtWork(j)' <=> AtWork(j))
    BY <1>2, <1>6 DEF AtWork
  <2>2. Abandoned(j)' => Abandoned(j)
    BY <2>1 DEF Abandoned
  <2>3. KeyWithinLimit(j)
    BY <1>4
  <2>4. outbox[j].attempts \in Nat /\ crashes' \in Nat
    BY <1>1 DEF TypeOK
  <2>. QED
    BY <1>1, <1>5, <2>1, <2>2, <2>3, <2>4 DEF KeyWithinLimit
<1>7. KeyWithinLimit(k)'
  <2>1. outbox'[k] = outbox[k] => (Abandoned(k)' => Abandoned(k))
    BY <1>2 DEF AtWork, Abandoned
  <2>2. outbox'[k].status # "processing" => ~Abandoned(k)'
    BY DEF Abandoned
  <2>3. KeyWithinLimit(k)
    BY <1>4
  <2>4. Abandoned(k) => outbox[k].status = "processing"
    BY DEF Abandoned
  <2>. QED
    BY <1>1, <1>3, <2>1, <2>2, <2>3, <2>4 DEF KeyWithinLimit
<1>8. Counted'
  <2>1. Counted
    BY DEF RetryInv
  <2>. QED
    BY <1>1, <1>2, <1>3, <2>1 DEF Counted, HoldsLock, Abandoned
<1>. QED
  BY <1>6, <1>7, <1>8 DEF RetryInv

LEMMA ClaimRetryStep ==
    ASSUME OutboxInv, TypeOK', RetryInv,
           NEW d \in Dispatchers, NEW k \in Keys, Claim(d, k)
    PROVE  RetryInv'
<1>. USE OutboxTypes, AttemptTypes
<1>1. TypeOK
  BY DEF OutboxInv
<1>2. /\ outbox'[k].status = "processing" /\ outbox'[k].token = d
      /\ ~outbox'[k].expired
      /\ outbox'[k].attempts = outbox[k].attempts + 1
      /\ \A j \in Keys : j # k => outbox'[j] = outbox[j]
      /\ dispatcher'[d].phase = "claimed" /\ dispatcher'[d].key = k
      /\ dispatcher'[d].attempts = outbox[k].attempts + 1
      /\ \A e \in Dispatchers : e # d => dispatcher'[e] = dispatcher[e]
      /\ dispatcher[d].phase = "idle"
      /\ crashes' = crashes
  BY <1>1 DEF Claim, Claimed, OutboxRow, bounds
<1>3. KeyWithinLimit(k)'
  <2>1. ~Abandoned(k)'
    BY <1>2 DEF Abandoned, AtWork
  <2>2. outbox[k].attempts + 1 <= MaxAttempts + crashes
    <3>1. KeyWithinLimit(k)
      BY DEF RetryInv
    <3>2. \/ outbox[k].status \in {"pending", "retry_scheduled"}
          \/ Abandoned(k)
      BY DEF Claim, Eligible, Abandoned
    <3>. QED
      BY <1>1, <3>1, <3>2 DEF KeyWithinLimit
  <2>. QED
    BY <1>2, <2>1, <2>2 DEF KeyWithinLimit
<1>4. ASSUME NEW j \in Keys, j # k PROVE KeyWithinLimit(j)'
  <2>1. AtWork(j) => AtWork(j)'
    BY <1>2, <1>4 DEF AtWork
  <2>. QED
    BY <1>1, <1>2, <1>4, <2>1, KeyUntouched
<1>5. Counted'
  <2>1. Counted
    BY DEF RetryInv
  <2>. QED
    BY <1>1, <1>2, <2>1 DEF Counted, HoldsLock
<1>. QED
  BY <1>3, <1>4, <1>5 DEF RetryInv

LEMMA SendRetryStep ==
    ASSUME OutboxInv, TypeOK', RetryInv, NEW d \in Dispatchers, Send(d)
    PROVE  RetryInv'
<1>. USE OutboxTypes
<1>1. TypeOK
  BY DEF OutboxInv
<1>2. /\ outbox' = outbox /\ crashes' = crashes
      /\ dispatcher'[d].phase # "idle" /\ dispatcher[d].phase # "idle"
      /\ dispatcher'[d].key = dispatcher[d].key
      /\ dispatcher'[d].attempts = dispatcher[d].attempts
      /\ \A e \in Dispatchers : e # d => dispatcher'[e] = dispatcher[e]
  BY <1>1 DEF Send, Dispatch, bounds
<1>3. ASSUME NEW j \in Keys PROVE KeyWithinLimit(j)'
  <2>1. AtWork(j) => AtWork(j)'
    BY <1>2 DEF AtWork
  <2>. QED
    BY <1>1, <1>2, <2>1, KeyUntouched
<1>4. Counted'
  <2>1. Counted
    BY DEF RetryInv
  <2>. QED
    BY <1>2, <2>1 DEF Counted, HoldsLock
<1>. QED
  BY <1>3, <1>4 DEF RetryInv

\* planSrikandiFailure schedules a retry only below the limit of the attempt
\* it counted, which is the row's while the lock is held.
LEMMA FinalizeRetryStep ==
    ASSUME OutboxInv, TypeOK', RetryInv, NEW d \in Dispatchers, Finalize(d)
    PROVE  RetryInv'
<1>. USE OutboxTypes, AttemptTypes
<1>1. TypeOK
  BY DEF OutboxInv
<1>k. PICK k \in Keys : k = dispatcher[d].key
  BY <1>1
<1>2. /\ dispatcher[d].key = k
      /\ dispatcher[d].phase # "idle" /\ dispatcher'[d].phase = "idle"
      /\ \A e \in Dispatchers : e # d => dispatcher'[e] = dispatcher[e]
      /\ crashes' = crashes
      /\ \A j \in Keys : j # k => outbox'[j] = outbox[j]
  BY <1>1, <1>k DEF Finalize, IdleDispatch, bounds
<1>3. Counted
  BY DEF RetryInv
<1>4. CASE HoldsLock(d)
  <2>1. outbox'[k] = SettledAs(outbox[k], Plan(d))
    BY <1>1, <1>2, <1>4 DEF Finalize
  <2>2. /\ Plan(d) \in {"succeeded", "retry_scheduled", "dead_letter"}
        /\ Plan(d) = "retry_scheduled" => dispatcher[d].attempts < MaxAttempts
    BY DEF Plan, PlanFailure
  <2>3. /\ outbox'[k].status = Plan(d) /\ outbox'[k].token = Nobody
        /\ outbox'[k].attempts = outbox[k].attempts
    BY <1>1, <1>2, <2>1 DEF SettledAs, OutboxRow
  <2>4. dispatcher[d].attempts = outbox[k].attempts
    BY <1>2, <1>3, <1>4 DEF Counted
  <2>5. KeyWithinLimit(k)
    BY <1>2 DEF RetryInv
  <2>6. ~Abandoned(k)'
    BY <2>2, <2>3 DEF Abandoned
  <2>7. KeyWithinLimit(k)'
    BY <1>1, <1>2, <2>2, <2>3, <2>4, <2>5, <2>6 DEF KeyWithinLimit
  <2>8. ASSUME NEW j \in Keys, j # k PROVE KeyWithinLimit(j)'
    <3>1. AtWork(j) => AtWork(j)'
      BY <1>2, <2>8 DEF AtWork
    <3>. QED
      BY <1>1, <1>2, <2>8, <3>1, KeyUntouched
  <2>9. Counted'
    BY <1>1, <1>2, <1>3, <2>2, <2>3 DEF Counted, HoldsLock
  <2>. QED
    BY <2>7, <2>8, <2>9 DEF RetryInv
<1>5. CASE ~HoldsLock(d)
  <2>1. outbox' = outbox
    BY <1>5 DEF Finalize
  <2>2. ASSUME NEW j \in Keys PROVE KeyWithinLimit(j)'
    <3>1. outbox[j].status = "processing" /\ AtWork(j) => AtWork(j)'
      BY <1>2, <1>5, <2>1 DEF AtWork, HoldsLock
    <3>. QED
      BY <1>1, <1>2, <2>1, <3>1, KeyUntouched
  <2>3. Counted'
    BY <1>2, <1>3, <2>1 DEF Counted, HoldsLock
  <2>. QED
    BY <2>2, <2>3 DEF RetryInv
<1>. QED
  BY <1>4, <1>5

LEMMA CrashRetryStep ==
    ASSUME OutboxInv, TypeOK', RetryInv, NEW d \in Dispatchers, Crash(d)
    PROVE  RetryInv'
<1>. USE OutboxTypes, AttemptTypes
<1>1. TypeOK
  BY DEF OutboxInv
<1>2. /\ outbox' = outbox /\ crashes' = crashes + 1
      /\ dispatcher'[d].phase = "idle"
      /\ \A e \in Dispatchers : e # d => dispatcher'[e] = dispatcher[e]
  BY <1>1 DEF Crash, IdleDispatch
<1>3. ASSUME NEW j \in Keys PROVE KeyWithinLimit(j)'
  <2>1. KeyWithinLimit(j)
    BY DEF RetryInv
  <2>. QED
    BY <1>1, <1>2, <2>1 DEF KeyWithinLimit
<1>4. Counted'
  <2>1. Counted
    BY DEF RetryInv
  <2>. QED
    BY <1>2, <2>1 DEF Counted, HoldsLock
<1>. QED
  BY <1>3, <1>4 DEF RetryInv

LEMMA RetryStep == OutboxInv /\ RetryInv /\ [Next]_vars => RetryInv'
<1>. SUFFICES ASSUME OutboxInv, RetryInv, [Next]_vars PROVE RetryInv'
  OBVIOUS
<1>1. TypeOK'
  BY OutboxStep DEF OutboxInv
<1>2. CASE Deploy \/ UNCHANGED vars
  <2>1. UNCHANGED <<outbox, dispatcher, crashes>>
    BY <1>2 DEF Deploy, vars
  <2>. QED
    BY <2>1
    DEF RetryInv, Counted, HoldsLock, KeyWithinLimit, Abandoned, AtWork
<1>. QED
  BY <1>1, <1>2, QuietRetryStep, ClaimRetryStep, SendRetryStep, FinalizeRetryStep,
     CrashRetryStep
  DEF Next, DispatcherStep

\* A message that waits has attempts left, and only dispatchers that died or
\* stalled can have driven one past maxAttempts, by one attempt each.
THEOREM RetriesLimited == Spec => []RetriesWithinLimit
<1>1. RetryInv => RetriesWithinLimit
  BY DEF RetryInv, KeyWithinLimit, RetriesWithinLimit
<1>. QED
  BY <1>1, InitRetryInv, RetryStep, OutboxInvariant, PTL DEF Spec

-----------------------------------------------------------------------------

\* Every row change as a step of ReliableDelivery: what Delivery sees of a row
\* is its status, up to the leases, and its content.
DeliverySteps ==
    \/ \E k \in Keys, c \in Contents : Delivery!Submit(k, c)
    \/ \E k \in Keys : \/ Delivery!Accept(k) \/ Delivery!Confirm(k)
                       \/ Delivery!GiveUp(k) \/ Delivery!Reopen(k)
    \/ UNCHANGED Delivery!deliveryVars

LEMMA DeliveryStepIsNext ==
    DeliverySteps => [Delivery!DeliveryNext]_(Delivery!deliveryVars)
BY DEF DeliverySteps, Delivery!DeliveryNext

LEMMA InitDelivery == Init => Delivery!DeliveryInit
BY DEF Init, NoRow, ProgressOf, Delivery!DeliveryInit

\* A step that changes the row of one key only, in progress but not content.
LEMMA OneKeyMoves ==
    ASSUME TypeOK, NEW k \in Keys, NEW from, NEW to,
           \A j \in Keys : j # k => outbox'[j] = outbox[j],
           outbox'[k].content = outbox[k].content,
           ProgressOf(k) = from, ProgressOf(k)' = to,
           UNCHANGED remote
    PROVE  /\ Delivery!Becomes(k, from, to)
           /\ UNCHANGED <<[j \in Keys |-> outbox[j].content], remote>>
<1>1. \A j \in Keys : j # k => ProgressOf(j)' = ProgressOf(j)
  BY DEF ProgressOf
<1>2. [j \in Keys |-> ProgressOf(j)]'
        = [[j \in Keys |-> ProgressOf(j)] EXCEPT ![k] = to]
  BY <1>1
<1>3. [j \in Keys |-> outbox[j].content]' = [j \in Keys |-> outbox[j].content]
  OBVIOUS
<1>. QED
  BY <1>2, <1>3 DEF Delivery!Becomes

\* Claims, leases, due dates and retries in time are invisible.
LEMMA NothingMoves ==
    ASSUME \A j \in Keys : /\ ProgressOf(j)' = ProgressOf(j)
                           /\ outbox'[j].content = outbox[j].content,
           UNCHANGED remote
    PROVE  DeliverySteps
BY DEF DeliverySteps, Delivery!deliveryVars

LEMMA SubmitStep ==
    ASSUME OutboxInv, NEW k \in Keys, NEW c \in Contents,
           outbox[k].status = "none",
           outbox' = [outbox EXCEPT ![k] = Enqueued(c)],
           UNCHANGED remote
    PROVE  DeliverySteps
<1>1. outbox \in [Keys -> OutboxRow]
  BY OutboxTypes DEF OutboxInv
<1>2. /\ outbox'[k] = Enqueued(c)
      /\ \A j \in Keys : j # k => outbox'[j] = outbox[j]
  BY <1>1
<1>3. ProgressOf(k) = "absent" /\ ProgressOf(k)' = "waiting"
  BY <1>2, EnqueuedType DEF ProgressOf
<1>4. \A j \in Keys : j # k => ProgressOf(j)' = ProgressOf(j)
  BY <1>2 DEF ProgressOf
<1>5. [j \in Keys |-> ProgressOf(j)]'
        = [[j \in Keys |-> ProgressOf(j)] EXCEPT ![k] = "waiting"]
  BY <1>3, <1>4
<1>6. [j \in Keys |-> outbox[j].content]'
        = [[j \in Keys |-> outbox[j].content] EXCEPT ![k] = c]
  <2>1. outbox'[k].content = c
    BY <1>2, EnqueuedType
  <2>2. \A j \in Keys : j # k => outbox'[j].content = outbox[j].content
    BY <1>2
  <2>. QED
    BY ONLY <2>1, <2>2, k \in Keys
<1>. QED
  BY <1>3, <1>5, <1>6 DEF DeliverySteps, Delivery!Submit, Delivery!Becomes

LEMMA EnterDelivery ==
    ASSUME OutboxInv, NEW k \in Keys, CreateLetter(k) \/ Enqueue(k)
    PROVE  DeliverySteps
<1>1. PICK p \in Payloads :
        \/ outbox[k].status = "none" /\ outbox' = [outbox EXCEPT ![k] = Enqueued(<<version, p>>)]
        \/ UNCHANGED outbox
  BY DEF CreateLetter, Enqueue, EnqueueWithExecutor
<1>2. <<version, p>> \in Contents
  BY OutboxTypes DEF OutboxInv, Contents
<1>3. UNCHANGED remote
  BY DEF CreateLetter, Enqueue
<1>4. CASE UNCHANGED outbox
  BY <1>3, <1>4, NothingMoves DEF ProgressOf
<1>. QED
  BY <1>1, <1>2, <1>3, <1>4, SubmitStep

LEMMA QuietDelivery ==
    ASSUME OutboxInv, NEW k \in Keys,
           \/ \E d \in Dispatchers : Claim(d, k)
           \/ FallDue(k) \/ LeaseExpires(k) \/ Stall(k)
    PROVE  DeliverySteps
<1>1. outbox \in [Keys -> OutboxRow]
  BY OutboxTypes DEF OutboxInv
<1>2. UNCHANGED remote
  BY DEF Claim, FallDue, LeaseExpires, Stall
<1>3. /\ \A j \in Keys : j # k => outbox'[j] = outbox[j]
      /\ outbox'[k].content = outbox[k].content
      /\ outbox[k].status \in {"pending", "processing", "retry_scheduled"}
      /\ outbox'[k].status \in {"pending", "processing", "retry_scheduled"}
  <2>1. ASSUME NEW d \in Dispatchers, Claim(d, k)
        PROVE  /\ outbox' = [outbox EXCEPT ![k] = Claimed(outbox[k], d)]
               /\ outbox[k].status \in {"pending", "processing", "retry_scheduled"}
    BY <2>1 DEF Claim, Eligible
  <2>2. CASE \E d \in Dispatchers : Claim(d, k)
    BY <1>1, <2>1, <2>2, ClaimedRow
  <2>3. CASE FallDue(k)
    BY <1>1, <2>3 DEF FallDue, OutboxRow
  <2>4. CASE Expire(k)
    BY <1>1, <2>4 DEF Expire, OutboxRow
  <2>. QED
    BY <2>2, <2>3, <2>4 DEF LeaseExpires, Stall
<1>4. \A j \in Keys : /\ ProgressOf(j)' = ProgressOf(j)
                      /\ outbox'[j].content = outbox[j].content
  BY <1>3 DEF ProgressOf
<1>. QED
  BY <1>2, <1>4, NothingMoves

LEMMA ManualRetryDelivery ==
    ASSUME OutboxInv, NEW k \in Keys, ManualRetry(k)
    PROVE  DeliverySteps
<1>1. TypeOK
  BY DEF OutboxInv
<1>2. /\ \A j \in Keys : j # k => outbox'[j] = outbox[j]
      /\ outbox'[k].content = outbox[k].content
      /\ outbox'[k].status = "pending"
      /\ outbox[k].status \in {"dead_letter", "retry_scheduled"}
      /\ UNCHANGED remote
  BY <1>1, OutboxTypes, RetriedRow DEF ManualRetry
<1>3. ProgressOf(k)' = "waiting"
  BY <1>2 DEF ProgressOf
<1>4. CASE outbox[k].status = "dead_letter"
  <2>1. ProgressOf(k) = "given_up"
    BY <1>4 DEF ProgressOf
  <2>2. Delivery!Reopen(k)
    BY <1>1, <1>2, <1>3, <2>1, OneKeyMoves DEF Delivery!Reopen
  <2>. QED
    BY <2>2 DEF DeliverySteps
<1>5. CASE outbox[k].status = "retry_scheduled"
  <2>1. \A j \in Keys : ProgressOf(j)' = ProgressOf(j)
    BY <1>2, <1>5 DEF ProgressOf
  <2>. QED
    BY <1>2, <2>1, NothingMoves
<1>. QED
  BY <1>2, <1>4, <1>5

\* An accepted request adds the row's own content, noticed or not.
LEMMA SendDelivery ==
    ASSUME OutboxInv, NEW d \in Dispatchers, Send(d)
    PROVE  DeliverySteps
<1>1. PICK k \in Keys : k = dispatcher[d].key
  BY OutboxTypes DEF OutboxInv
<1>2. /\ UNCHANGED outbox
      /\ outbox[k].status # "none"
      /\ dispatcher[d].content = outbox[k].content
      /\ \/ UNCHANGED remote
         \/ remote' = [remote EXCEPT ![k] = @ \cup {dispatcher[d].content}]
  BY <1>1 DEF Send, OutboxInv, Carried
<1>3. \A j \in Keys : ProgressOf(j)' = ProgressOf(j)
  BY <1>2 DEF ProgressOf
<1>4. CASE UNCHANGED remote
  BY <1>2, <1>3, <1>4, NothingMoves
<1>5. CASE remote' = [remote EXCEPT ![k] = @ \cup {outbox[k].content}]
  <2>1. ProgressOf(k) # "absent"
    BY <1>2, OutboxTypes DEF ProgressOf, OutboxInv, OutboxRow, OutboxStatus
  <2>2. UNCHANGED <<[j \in Keys |-> ProgressOf(j)], [j \in Keys |-> outbox[j].content]>>
    BY <1>2, <1>3
  <2>3. Delivery!Accept(k)
    BY <1>5, <2>1, <2>2 DEF Delivery!Accept
  <2>. QED
    BY <2>3 DEF DeliverySteps
<1>. QED
  BY <1>2, <1>4, <1>5

\* finalizeSuccess confirms what was accepted; finalizeFailure gives up, or
\* leaves the message waiting.
LEMMA FinalizeDelivery ==
    ASSUME OutboxInv, NEW d \in Dispatchers, Finalize(d)
    PROVE  DeliverySteps
<1>1. TypeOK /\ outbox \in [Keys -> OutboxRow]
  BY OutboxTypes DEF OutboxInv
<1>2. PICK k \in Keys : k = dispatcher[d].key
  BY <1>1, OutboxTypes
<1>3. UNCHANGED remote /\ dispatcher[d].phase = "answered"
  BY DEF Finalize
<1>4. CASE UNCHANGED outbox
  BY <1>3, <1>4, NothingMoves DEF ProgressOf
<1>5. CASE HoldsLock(d)
  <2>1. /\ Plan(d) \in {"succeeded", "retry_scheduled", "dead_letter"}
        /\ Plan(d) = "succeeded" => dispatcher[d].reply = "ack"
    BY DEF Plan, PlanFailure
  <2>2. outbox' = [outbox EXCEPT ![k] = SettledAs(outbox[k], Plan(d))]
    BY <1>2, <1>5 DEF Finalize
  <2>3. /\ outbox'[k].status = Plan(d)
        /\ outbox'[k].content = outbox[k].content
        /\ \A j \in Keys : j # k => outbox'[j] = outbox[j]
    BY <1>1, <2>1, <2>2, SettledRow DEF OutboxStatus
  <2>4. ProgressOf(k) = "waiting"
    BY <1>2, <1>5 DEF HoldsLock, ProgressOf
  <2>5. CASE Plan(d) = "succeeded"
    <3>1. outbox[k].content \in remote[k]
      BY <1>2, <1>3, <2>1, <2>5 DEF OutboxInv, Carried
    <3>2. ProgressOf(k)' = "delivered"
      BY <2>3, <2>5 DEF ProgressOf
    <3>3. Delivery!Confirm(k)
      BY <1>1, <1>3, <2>3, <2>4, <3>1, <3>2, OneKeyMoves DEF Delivery!Confirm
    <3>. QED
      BY <3>3 DEF DeliverySteps
  <2>6. CASE Plan(d) = "dead_letter"
    <3>1. ProgressOf(k)' = "given_up"
      BY <2>3, <2>6 DEF ProgressOf
    <3>2. Delivery!GiveUp(k)
      BY <1>1, <1>3, <2>3, <2>4, <3>1, OneKeyMoves DEF Delivery!GiveUp
    <3>. QED
      BY <3>2 DEF DeliverySteps
  <2>7. CASE Plan(d) = "retry_scheduled"
    <3>1. \A j \in Keys : ProgressOf(j)' = ProgressOf(j)
      BY <2>3, <2>4, <2>7 DEF ProgressOf
    <3>. QED
      BY <1>3, <2>3, <3>1, NothingMoves
  <2>. QED
    BY <2>1, <2>5, <2>6, <2>7
<1>. QED
  BY <1>4, <1>5 DEF Finalize

LEMMA DeliveryStep == OutboxInv /\ [Next]_vars => DeliverySteps
<1>. SUFFICES ASSUME OutboxInv, [Next]_vars PROVE DeliverySteps
  OBVIOUS
<1>1. CASE Deploy \/ (\E d \in Dispatchers : Crash(d)) \/ UNCHANGED vars
  <2>1. UNCHANGED <<outbox, remote>>
    BY <1>1 DEF Deploy, Crash, vars
  <2>. QED
    BY <2>1, NothingMoves DEF ProgressOf
<1>. QED
  BY <1>1, EnterDelivery, QuietDelivery, ManualRetryDelivery, SendDelivery,
     FinalizeDelivery
  DEF Next, DispatcherStep

\* The outbox is a reliable delivery: whatever crashes, is taken over, answered
\* late or redeployed, each key has one message that never changes, SRIKANDI
\* accepts nothing else, success follows acceptance and is final, and a dead
\* letter is reopened only by hand.
THEOREM OutboxDelivers == Spec => ImplementsDelivery
<1>1. Spec => Delivery!DeliveryInit
  BY InitDelivery DEF Spec
<1>2. OutboxInv /\ [Next]_vars => [Delivery!DeliveryNext]_(Delivery!deliveryVars)
  BY DeliveryStep, DeliveryStepIsNext
<1>3. Spec => [][Delivery!DeliveryNext]_(Delivery!deliveryVars)
  BY <1>2, OutboxInvariant, PTL DEF Spec
<1>. QED
  BY <1>1, <1>3, PTL DEF ImplementsDelivery, Delivery!DeliverySpec

=============================================================================
