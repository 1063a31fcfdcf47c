------------------------ MODULE SuratApprovalProofs ------------------------
(***************************************************************************)
(* Proofs about approvals, for any accounts, units, letters and requests.  *)
(***************************************************************************)
EXTENDS SuratApproval, Sequences, TLAPS

Steps == 1 .. MaxSteps

\* The parts of the invariants that speak of one letter.
Answerable(l) ==
    letter[l].status = "pending" =>
      /\ letter[l].approver \in Users
      /\ EligibleApprover(letter[l].approver, letter[l].unit)
      /\ letter[l].approver # request[l].requester
      /\ ~letter[l].archived /\ ~letter[l].deleted

Reviewed(l) ==
    /\ letter[l].status \in {"pending", "approved"} =>
         l \notin edited /\ ~letter[l].deleted
    /\ letter[l].archived => letter[l].status = "approved"

Agree(l) ==
    LET last == request[l].order IN
      /\ request[l].status =
           IF letter[l].status = "draft" THEN "none" ELSE letter[l].status
      /\ last = 0 <=> request[l].status = "none"
      /\ \A i \in Steps :
           /\ i = last => step[l][i].status = letter[l].status
           /\ i = last /\ letter[l].status = "pending" =>
                step[l][i].approver = letter[l].approver
           /\ i < last => step[l][i].status \in {"approved", "rejected"}
           /\ i > last => step[l][i] = NoStep

ApprovalInv == TypeOK /\ \A l \in Letters : Answerable(l) /\ Reviewed(l) /\ Agree(l)

LEMMA ApprovalTypes ==
    TypeOK => /\ user \in [Users -> Accounts]
              /\ letter \in [Letters -> Letter]
              /\ request \in [Letters -> Request]
              /\ step \in [Letters -> [Steps -> Step]]
              /\ edited \subseteq Letters
              /\ inflight \in [Requests -> Inflight]
              /\ \A q \in Requests : /\ inflight[q].letter \in Letters
                                     /\ inflight[q].user \in Users \cup {Nobody}
              /\ \A l \in Letters : /\ request[l].order \in 0 .. MaxSteps
                                    /\ step[l] \in [Steps -> Step]
BY DEF TypeOK, Inflight, Request, Steps

LEMMA ClosedType == Closed \in Inflight
BY ApprovalAssumption DEF Closed, Inflight

LEMMA LetterSet ==
    ASSUME NEW r \in Letter, NEW status, NEW approver \in Users \cup {Nobody},
           status \in {"none", "draft", "pending", "approved", "rejected"}
    PROVE  LET s == [r EXCEPT !.status = status, !.approver = approver] IN
             /\ s \in Letter
             /\ s.status = status /\ s.approver = approver
             /\ s.unit = r.unit /\ s.creator = r.creator
             /\ s.deleted = r.deleted /\ s.archived = r.archived
BY DEF Letter

LEMMA StepSet ==
    ASSUME NEW f \in [Steps -> Step], NEW i \in Steps, NEW x \in Step
    PROVE  /\ [f EXCEPT ![i] = x] \in [Steps -> Step]
           /\ [f EXCEPT ![i] = x][i] = x
           /\ \A j \in Steps : j # i => [f EXCEPT ![i] = x][j] = f[j]
OBVIOUS

LEMMA InitApprovalInv == Init => ApprovalInv
<1>. SUFFICES ASSUME Init PROVE ApprovalInv
  OBVIOUS
<1>. USE ApprovalAssumption
<1>1. NoLetter \in Letter /\ NoRequest \in Request /\ NoStep \in Step
  BY DEF NoLetter, Letter, NoRequest, Request, NoStep, Step
<1>2. TypeOK
  BY <1>1, ClosedType DEF Init, TypeOK
<1>3. ASSUME NEW l \in Letters PROVE Answerable(l) /\ Reviewed(l) /\ Agree(l)
  <2>1. letter[l] = NoLetter /\ request[l] = NoRequest /\ \A i \in Steps : step[l][i] = NoStep
    BY DEF Init, Steps
  <2>. QED
    BY <2>1 DEF Answerable, Reviewed, Agree, NoLetter, NoRequest, NoStep, Steps
<1>. QED
  BY <1>2, <1>3 DEF ApprovalInv

\* A request ends, having touched neither letters nor accounts but perhaps
\* the set of edited letters ...
LEMMA QuietStep ==
    ASSUME ApprovalInv, UNCHANGED <<user, letter, request, step>>,
           edited' \subseteq Letters, inflight' \in [Requests -> Inflight],
           \A l \in Letters : l \in edited' =>
             l \in edited \/ letter[l].status \notin {"pending", "approved"}
    PROVE  ApprovalInv'
<1>1. TypeOK'
  BY DEF ApprovalInv, TypeOK
<1>2. ASSUME NEW l \in Letters PROVE (Answerable(l) /\ Reviewed(l) /\ Agree(l))'
  BY DEF ApprovalInv, Answerable, Reviewed, Agree, EligibleApprover
<1>. QED
  BY <1>1, <1>2 DEF ApprovalInv

\* ... or having changed one letter with its request and steps.
LEMMA OneLetterStep ==
    ASSUME ApprovalInv, NEW k \in Letters,
           UNCHANGED user,
           inflight' \in [Requests -> Inflight],
           NEW row \in Letter, letter' = [letter EXCEPT ![k] = row],
           NEW req \in Request, request' = [request EXCEPT ![k] = req],
           NEW f \in [Steps -> Step], step' = [step EXCEPT ![k] = f],
           edited' \subseteq edited,
           (Answerable(k) /\ Reviewed(k) /\ Agree(k))'
    PROVE  ApprovalInv'
<1>. USE ApprovalTypes DEF ApprovalInv
<1>1. TypeOK'
  BY DEF TypeOK, Steps
<1>2. ASSUME NEW l \in Letters, l # k
      PROVE  letter'[l] = letter[l] /\ request'[l] = request[l] /\ step'[l] = step[l]
  BY <1>2
<1>3. ASSUME NEW l \in Letters, l # k PROVE (Answerable(l) /\ Reviewed(l) /\ Agree(l))'
  BY <1>2, <1>3 DEF Answerable, Reviewed, Agree, EligibleApprover
<1>. QED
  BY <1>1, <1>3

LEMMA DoneType ==
    ASSUME TypeOK, NEW q \in Requests, Done(q)
    PROVE  inflight' \in [Requests -> Inflight]
BY ApprovalTypes, ClosedType DEF Done

LEMMA ArriveStep ==
    ASSUME ApprovalInv, NEW q \in Requests, NEW u \in Users, NEW l \in Letters,
           Arrive(q, u, l)
    PROVE  ApprovalInv'
<1>1. Offer(l) \in {"edit", "archive", "neither"}
  BY DEF Offer
<1>2. inflight' \in [Requests -> Inflight]
  BY <1>1, ApprovalTypes DEF ApprovalInv, Arrive, Inflight
<1>. QED
  BY <1>2, QuietStep, ApprovalTypes DEF Arrive, ApprovalInv

\* The tables agree about a letter that stays as it is in this respect, or
\* that is created.
LEMMA SameTables ==
    ASSUME NEW k \in Letters, Agree(k), UNCHANGED <<request, step>>,
           \/ letter[k].status = "none" /\ letter'[k].status = "draft"
           \/ letter'[k].status = letter[k].status /\ letter[k].status # "pending"
    PROVE  Agree(k)'
<1>1. \A i \in Steps : i # 0
  BY DEF Steps
<1>2. CASE letter[k].status = "none"
  <2>1. request[k].status = "none" /\ request[k].order = 0
    BY <1>2 DEF Agree
  <2>. QED
    BY <1>1, <1>2, <2>1 DEF Agree
<1>3. CASE letter[k].status # "none"
  BY <1>3 DEF Agree
<1>. QED
  BY <1>2, <1>3

\* Create, Delete and Archive change the letter's row only.
LEMMA RowStep ==
    ASSUME ApprovalInv, NEW q \in Requests, Create(q) \/ Delete(q) \/ Archive(q)
    PROVE  ApprovalInv'
<1>. USE ApprovalTypes DEF ApprovalInv
<1>k. PICK k \in Letters : k = inflight[q].letter
  OBVIOUS
<1>. USE <1>k
<1>1. k \in Letters /\ letter[k] \in Letter /\ inflight' \in [Requests -> Inflight]
  BY DoneType DEF Create, Delete, Archive
<1>2. PICK row \in Letter : /\ letter' = [letter EXCEPT ![k] = row]
                            /\ \/ /\ letter[k].status = "none"
                                  /\ row.status = "draft"
                                  /\ ~row.deleted /\ ~row.archived
                               \/ /\ letter[k].status \in Submittable
                                  /\ ~letter[k].archived
                                  /\ row.status = letter[k].status
                                  /\ ~row.archived
                               \/ /\ letter[k].status = "approved"
                                  /\ row.status = "approved"
                                  /\ ~row.deleted
  <2>1. CASE Create(q)
    <3>1. PICK unit \in Units : letter' = [letter EXCEPT ![k] = Draft(inflight[q].user, unit)]
      BY <2>1 DEF Create
    <3>2. Draft(inflight[q].user, unit) \in Letter
      BY DEF Draft, Letter
    <3>. QED
      BY <2>1, <3>1, <3>2 DEF Create, Draft
  <2>2. CASE Delete(q)
    <3>1. [letter[k] EXCEPT !.deleted = TRUE] \in Letter
      BY <1>1 DEF Letter
    <3>. QED
      BY <1>1, <2>2, <3>1 DEF Delete, StillEditable, Letter
  <2>3. CASE Archive(q)
    <3>1. [letter[k] EXCEPT !.archived = TRUE] \in Letter
      BY <1>1 DEF Letter
    <3>. QED
      BY <1>1, <2>3, <3>1 DEF Archive, Letter
  <2>. QED
    BY <2>1, <2>2, <2>3
<1>3. UNCHANGED <<user, request, step, edited>>
  BY DEF Create, Delete, Archive
<1>4. letter'[k] = row
  BY <1>1, <1>2
<1>5. Answerable(k)'
  BY <1>1, <1>2, <1>4 DEF Answerable, Submittable
<1>6. Reviewed(k)'
  BY <1>1, <1>2, <1>3, <1>4 DEF Reviewed, Submittable
<1>7. Agree(k)'
  <2>1. Agree(k)
    BY <1>1
  <2>2. \/ letter[k].status = "none" /\ letter'[k].status = "draft"
        \/ /\ letter'[k].status = letter[k].status
           /\ letter[k].status # "pending"
    BY <1>2, <1>4 DEF Submittable
  <2>. HIDE <1>k, ApprovalTypes DEF ApprovalInv
  <2>. QED
    BY <1>3, <2>1, <2>2, SameTables
<1>8. request' = [request EXCEPT ![k] = request[k]] /\ step' = [step EXCEPT ![k] = step[k]]
  BY <1>1, <1>3
<1>. QED
  BY <1>1, <1>2, <1>3, <1>5, <1>6, <1>7, <1>8, OneLetterStep

\* SetLetter and the fields it leaves alone.
LEMMA SetLetterRow ==
    ASSUME TypeOK, NEW l \in Letters, NEW status, NEW approver \in Users \cup {Nobody},
           status \in {"none", "draft", "pending", "approved", "rejected"},
           SetLetter(l, status, approver)
    PROVE  /\ letter'[l] \in Letter
           /\ letter' = [letter EXCEPT ![l] = letter'[l]]
           /\ letter'[l].status = status
           /\ letter'[l].approver = approver
           /\ letter'[l].unit = letter[l].unit
           /\ letter'[l].deleted = letter[l].deleted
           /\ letter'[l].archived = letter[l].archived
<1>. DEFINE row == [letter[l] EXCEPT !.status = status, !.approver = approver]
<1>1. letter[l] \in Letter /\ letter \in [Letters -> Letter]
  BY ApprovalTypes
<1>2. letter' = [letter EXCEPT ![l] = row]
  BY DEF SetLetter
<1>3. /\ row \in Letter
      /\ row.status = status /\ row.approver = approver /\ row.unit = letter[l].unit
      /\ row.deleted = letter[l].deleted /\ row.archived = letter[l].archived
  BY <1>1, LetterSet DEF Letter
<1>. HIDE DEF row
<1>4. letter'[l] = row
  BY <1>1, <1>2
<1>. QED
  BY <1>2, <1>3, <1>4

LEMMA SubmitStep ==
    ASSUME ApprovalInv, NEW q \in Requests, NEW next \in Users, Submit(q, next)
    PROVE  ApprovalInv'
<1>. USE ApprovalTypes DEF ApprovalInv
<1>k. PICK k \in Letters : k = inflight[q].letter
  OBVIOUS
<1>. USE <1>k
<1>. DEFINE u == inflight[q].user
            order == request[k].order + 1
            f == [step[k] EXCEPT ![order] = Pending(next)]
            req == [status |-> "pending", requester |-> u, order |-> order]
<1>1. /\ k \in Letters /\ u \in Users \cup {Nobody} /\ next # u
      /\ letter[k].status \in Submittable
      /\ ~letter[k].archived /\ ~letter[k].deleted
      /\ EligibleApprover(next, letter[k].unit)
      /\ order <= MaxSteps
      /\ request' = [request EXCEPT ![k] = req]
      /\ step' = [step EXCEPT ![k] = f]
      /\ SetLetter(k, "pending", next)
      /\ edited' = edited \ {k}
      /\ UNCHANGED user
      /\ Done(q)
  BY DEF Submit, Approvable
<1>2. order \in Steps /\ request[k].order \in Nat /\ order = request[k].order + 1
  BY <1>1, ApprovalAssumption DEF Steps
<1>3. req \in Request /\ req.status = "pending" /\ req.requester = u /\ req.order = order
  BY <1>1, <1>2, ApprovalAssumption DEF Request, Steps
<1>4. Pending(next) \in Step
  BY DEF Pending, Step
<1>5. f \in [Steps -> Step] /\ f[order] = Pending(next) /\ \A j \in Steps : j # order => f[j] = step[k][j]
  BY <1>1, <1>2, <1>4, StepSet
<1>. HIDE DEF f, req, order, u
<1>6. request'[k] = req /\ step'[k] = f
  BY <1>1
<1>7. /\ letter'[k] \in Letter
      /\ letter' = [letter EXCEPT ![k] = letter'[k]]
      /\ letter'[k].status = "pending" /\ letter'[k].approver = next
      /\ letter'[k].unit = letter[k].unit
      /\ ~letter'[k].deleted /\ ~letter'[k].archived
  BY <1>1, SetLetterRow
<1>8. Answerable(k)'
  BY <1>1, <1>3, <1>6, <1>7 DEF Answerable, EligibleApprover
<1>9. Reviewed(k)'
  BY <1>1, <1>7 DEF Reviewed
<1>10. Agree(k)'
  <2>1. Agree(k)
    BY <1>1
  <2>2. \A i \in Steps : i \in Nat
    BY DEF Steps
  <2>3. ASSUME NEW i \in Steps, i < order PROVE f[i].status \in {"approved", "rejected"}
    <3>1. /\ f[i] = step[k][i]
          /\ i = request[k].order \/ i < request[k].order
      <4>1. order \in Nat /\ i \in Nat /\ i # order
        BY <1>2, <2>2, <2>3
      <4>. HIDE DEF ApprovalInv
      <4>2. f[i] = step[k][i]
        BY <1>5, <4>1
      <4>3. i = request[k].order \/ i < request[k].order
        BY <1>2, <2>3, <4>1
      <4>. QED
        BY <4>2, <4>3
    <3>2. step[k][i].status \in {letter[k].status, "approved", "rejected"}
      BY <2>1, <3>1 DEF Agree
    <3>3. i = request[k].order => letter[k].status = "rejected"
      <4>1. i # 0
        BY DEF Steps
      <4>. QED
        BY <1>1, <2>1, <4>1 DEF Agree, Submittable
    <3>4. i < request[k].order => step[k][i].status \in {"approved", "rejected"}
      BY <2>1 DEF Agree
    <3>. QED
      BY <3>1, <3>2, <3>3, <3>4
  <2>4. ASSUME NEW i \in Steps, i > order PROVE f[i] = NoStep
    <3>1. i > request[k].order /\ i # order
      BY <1>2, <2>2, <2>4
    <3>2. step[k][i] = NoStep
      BY <2>1, <3>1 DEF Agree
    <3>. QED
      BY <1>5, <3>1, <3>2
  <2>. QED
    BY <1>2, <1>3, <1>5, <1>6, <1>7, <2>3, <2>4 DEF Agree, Pending
<1>11. inflight' \in [Requests -> Inflight] /\ edited' \subseteq edited
  BY <1>1, DoneType
<1>. QED
  BY <1>1, <1>3, <1>5, <1>7, <1>8, <1>9, <1>10, <1>11, OneLetterStep

LEMMA DecideStep ==
    ASSUME ApprovalInv, NEW q \in Requests, NEW verdict \in {"approved", "rejected"},
           Decide(q, verdict)
    PROVE  ApprovalInv'
<1>. USE ApprovalTypes DEF ApprovalInv
<1>k. PICK k \in Letters : k = inflight[q].letter
  OBVIOUS
<1>. USE <1>k
<1>. DEFINE last == request[k].order
            f == [step[k] EXCEPT ![last] = Decided(k, verdict)]
            req == [request[k] EXCEPT !.status = verdict]
<1>1. /\ k \in Letters /\ last \in Steps
      /\ letter[k].status = "pending"
      /\ request' = [request EXCEPT ![k] = req]
      /\ step' = [step EXCEPT ![k] = f]
      /\ SetLetter(k, verdict, Nobody)
      /\ UNCHANGED <<user, edited>>
      /\ Done(q)
  BY DEF Decide, Awaits, Steps
<1>2. req \in Request /\ req.status = verdict /\ req.order = last
  BY <1>1 DEF Request
<1>3. Decided(k, verdict) \in Step /\ Decided(k, verdict).status = verdict
  BY <1>1 DEF Decided, Step
<1>4. f \in [Steps -> Step] /\ f[last] = Decided(k, verdict) /\ \A j \in Steps : j # last => f[j] = step[k][j]
  BY <1>1, <1>3, StepSet
<1>. HIDE DEF f, req, last
<1>5. request'[k] = req /\ step'[k] = f
  BY <1>1
<1>6. /\ letter'[k] \in Letter
      /\ letter' = [letter EXCEPT ![k] = letter'[k]]
      /\ letter'[k].status = verdict
      /\ letter'[k].deleted = letter[k].deleted /\ letter'[k].archived = letter[k].archived
  BY <1>1, SetLetterRow
<1>7. Answerable(k)' /\ Reviewed(k)'
  BY <1>1, <1>6 DEF Answerable, Reviewed
<1>8. Agree(k)'
  <2>1. Agree(k) /\ last = request[k].order
    BY <1>1 DEF last
  <2>2. \A i \in Steps : i \in Nat /\ i # 0
    BY DEF Steps
  <2>3. ASSUME NEW i \in Steps
        PROVE  /\ i = last => f[i].status = verdict
               /\ i < last => f[i].status \in {"approved", "rejected"}
               /\ i > last => f[i] = NoStep
    <3>1. last \in Nat /\ i \in Nat
      BY <1>1, <2>2
    <3>2. /\ i < last => step[k][i].status \in {"approved", "rejected"}
          /\ i > last => step[k][i] = NoStep
      BY <2>1 DEF Agree
    <3>3. i = last => f[i].status = verdict
      BY <1>3, <1>4
    <3>4. i # last => f[i] = step[k][i]
      BY <1>4
    <3>5. i < last \/ i > last => i # last
      BY <3>1
    <3>. HIDE <1>k, ApprovalTypes DEF ApprovalInv
    <3>. QED
      BY <3>2, <3>3, <3>4, <3>5
  <2>. QED
    BY <1>1, <1>2, <1>5, <1>6, <2>2, <2>3 DEF Agree
<1>9. inflight' \in [Requests -> Inflight] /\ edited' \subseteq edited
  BY <1>1, DoneType
<1>. QED
  BY <1>1, <1>2, <1>4, <1>6, <1>7, <1>8, <1>9, OneLetterStep

LEMMA ForwardStep ==
    ASSUME ApprovalInv, NEW q \in Requests, NEW next \in Users, Forward(q, next)
    PROVE  ApprovalInv'
<1>. USE ApprovalTypes DEF ApprovalInv
<1>k. PICK k \in Letters : k = inflight[q].letter
  OBVIOUS
<1>. USE <1>k
<1>. DEFINE last == request[k].order
            order == last + 1
            g == [step[k] EXCEPT ![last] = Decided(k, "approved")]
            f == [g EXCEPT ![order] = Pending(next)]
            req == [request[k] EXCEPT !.order = order]
<1>1. /\ k \in Letters /\ last \in Steps
      /\ letter[k].status = "pending" /\ request[k].status = "pending"
      /\ EligibleApprover(next, letter[k].unit)
      /\ next # request[k].requester
      /\ order <= MaxSteps
      /\ request' = [request EXCEPT ![k] = req]
      /\ step' = [step EXCEPT ![k] = f]
      /\ SetLetter(k, "pending", next)
      /\ UNCHANGED <<user, edited>>
      /\ Done(q)
  BY DEF Forward, Awaits, Forwardable, Steps
<1>2. order \in Steps /\ last \in Nat /\ order = last + 1
  BY <1>1, ApprovalAssumption DEF Steps
<1>3. /\ req \in Request /\ req.status = "pending" /\ req.order = order
      /\ req.requester = request[k].requester
  <2>1. request[k] \in Request /\ request[k].status = "pending" /\ order \in 0 .. MaxSteps
    BY <1>1, <1>2, ApprovalAssumption DEF Steps
  <2>. HIDE DEF order
  <2>. QED
    BY <2>1 DEF Request
<1>4. /\ Decided(k, "approved") \in Step /\ Decided(k, "approved").status = "approved"
      /\ Pending(next) \in Step
  BY <1>1 DEF Decided, Step, Pending
<1>5. g \in [Steps -> Step] /\ g[last] = Decided(k, "approved") /\ \A j \in Steps : j # last => g[j] = step[k][j]
  BY <1>1, <1>4, StepSet
<1>. HIDE DEF g
<1>6. f \in [Steps -> Step] /\ f[order] = Pending(next) /\ \A j \in Steps : j # order => f[j] = g[j]
  BY <1>2, <1>4, <1>5, StepSet
<1>7. Agree(k) /\ last = request[k].order
  BY <1>1
<1>. HIDE DEF f, req, order, last
<1>8. request'[k] = req /\ step'[k] = f
  BY <1>1
<1>9. /\ letter'[k] \in Letter
      /\ letter' = [letter EXCEPT ![k] = letter'[k]]
      /\ letter'[k].status = "pending" /\ letter'[k].approver = next
      /\ letter'[k].unit = letter[k].unit
      /\ letter'[k].deleted = letter[k].deleted /\ letter'[k].archived = letter[k].archived
  BY <1>1, SetLetterRow
<1>10. Answerable(k)' /\ Reviewed(k)'
  BY <1>1, <1>3, <1>8, <1>9 DEF Answerable, Reviewed, EligibleApprover
<1>11. Agree(k)'
  <2>1. \A i \in Steps : i \in Nat /\ i # 0
    BY DEF Steps
  <2>2. ASSUME NEW i \in Steps
        PROVE  /\ i < order => f[i].status \in {"approved", "rejected"}
               /\ i > order => f[i] = NoStep
    <3>. HIDE <1>k, ApprovalTypes DEF ApprovalInv
    <3>1. CASE i < last
      <4>1. step[k][i].status \in {"approved", "rejected"}
        BY <1>7, <3>1 DEF Agree
      <4>2. i # last /\ i # order /\ ~(i > order)
        BY <1>2, <2>1, <3>1
      <4>. QED
        BY <1>5, <1>6, <4>1, <4>2
    <3>2. CASE i = last
      <4>1. i # order /\ ~(i > order)
        BY <1>2, <2>1, <3>2
      <4>. QED
        BY <1>4, <1>5, <1>6, <3>2, <4>1
    <3>3. CASE i > last
      <4>1. step[k][i] = NoStep
        BY <1>7, <3>3 DEF Agree
      <4>2. i # last /\ ~(i < order)
        BY <1>2, <2>1, <3>3
      <4>3. i > order => i # order
        BY <1>2, <2>1
      <4>. QED
        BY <1>5, <1>6, <4>1, <4>2, <4>3
    <3>4. last \in Nat /\ i \in Nat
      BY <1>2, <2>1
    <3>. QED
      BY <3>1, <3>2, <3>3, <3>4
  <2>3. f[order].status = "pending" /\ f[order].approver = next /\ order # 0
    BY <1>2, <1>6, <2>1 DEF Pending
  <2>. QED
    BY <1>3, <1>8, <1>9, <2>2, <2>3 DEF Agree
<1>12. inflight' \in [Requests -> Inflight] /\ edited' \subseteq edited
  BY <1>1, DoneType
<1>. QED
  BY <1>1, <1>3, <1>6, <1>9, <1>10, <1>11, <1>12, OneLetterStep

\* A mandate a pending letter rests on outlives every change of accounts.
LEMMA UpdateUserStep ==
    ASSUME ApprovalInv, NEW q \in Requests, NEW target \in Users, NEW a \in Accounts,
           UpdateUser(q, target, a)
    PROVE  ApprovalInv'
<1>. USE ApprovalTypes DEF ApprovalInv
<1>1. /\ user' = [user EXCEPT ![target] = a]
      /\ Released(target, a)
      /\ UNCHANGED <<letter, request, step, edited>>
      /\ Done(q)
  BY DEF UpdateUser
<1>2. TypeOK'
  BY <1>1, DoneType DEF TypeOK
<1>3. ASSUME NEW l \in Letters PROVE Answerable(l)'
  <2>. SUFFICES ASSUME letter[l].status = "pending"
                PROVE  EligibleApprover(letter[l].approver, letter[l].unit)'
    BY <1>1 DEF Answerable
  <2>1. /\ letter[l].approver \in Users
        /\ EligibleApprover(letter[l].approver, letter[l].unit)
        /\ ~letter[l].deleted
    BY DEF Answerable
  <2>2. CASE letter[l].approver = target
    <3>1. a.role = user[target].role /\ a.unit = user[target].unit /\ (a.active \/ ~user[target].active)
      BY <1>1, <2>1, <2>2 DEF Released
    <3>. QED
      BY <1>1, <2>1, <2>2, <3>1 DEF EligibleApprover, Mandated, InScope
  <2>3. CASE letter[l].approver # target
    BY <1>1, <2>1, <2>3 DEF EligibleApprover
  <2>. QED
    BY <2>2, <2>3
<1>4. ASSUME NEW l \in Letters PROVE (Reviewed(l) /\ Agree(l))'
  BY <1>1 DEF Reviewed, Agree
<1>. QED
  BY <1>2, <1>3, <1>4

LEMMA ApprovalStep == ApprovalInv /\ [Next]_vars => ApprovalInv'
<1>. SUFFICES ASSUME ApprovalInv, [Next]_vars PROVE ApprovalInv'
  OBVIOUS
<1>. USE ApprovalTypes
<1>1. ASSUME NEW q \in Requests, Refuse(q) \/ Edit(q) PROVE ApprovalInv'
  <2>1. inflight' \in [Requests -> Inflight] /\ UNCHANGED <<user, letter, request, step>>
    BY <1>1, DoneType DEF ApprovalInv, Refuse, Edit
  <2>2. /\ edited' \subseteq Letters
        /\ \A l \in Letters : l \in edited' =>
             l \in edited \/ letter[l].status \notin {"pending", "approved"}
    BY <1>1 DEF ApprovalInv, Refuse, Edit, StillEditable, Submittable
  <2>. QED
    BY <2>1, <2>2, QuietStep
<1>2. CASE UNCHANGED vars
  BY <1>2, QuietStep DEF vars, ApprovalInv
<1>3. ASSUME NEW q \in Requests, RequestStep(q) PROVE ApprovalInv'
  BY <1>1, <1>3, ArriveStep, RowStep, SubmitStep, DecideStep, ForwardStep, UpdateUserStep
  DEF RequestStep
<1>. QED
  BY <1>2, <1>3 DEF Next

\* The invariant the theorems below are read from.
THEOREM ApprovalInvariant == Spec => []ApprovalInv
BY InitApprovalInv, ApprovalStep, PTL DEF Spec

\* TypeOK: letters, approval requests, steps and accounts keep their types.
THEOREM ApprovalTypeCorrect == Spec => []TypeOK
<1>1. ApprovalInv => TypeOK
  BY DEF ApprovalInv
<1>. QED
  BY <1>1, ApprovalInvariant, PTL

AdministratorRemains == SuperAdmins # {}

\* Somebody can always administer accounts: of administrators that demote and
\* deactivate each other concurrently, the last one that acts remains.
THEOREM SpecAdministratorRemains == Spec => []AdministratorRemains
<1>1. Init => AdministratorRemains
  BY DEF Init, AdministratorRemains
<1>2. ASSUME AdministratorRemains, ApprovalInv, [Next]_vars PROVE AdministratorRemains'
  <2>1. ASSUME UNCHANGED user PROVE AdministratorRemains'
    BY <1>2, <2>1 DEF AdministratorRemains, SuperAdmins
  <2>2. ASSUME NEW q \in Requests, NEW target \in Users, NEW a \in Accounts,
               UpdateUser(q, target, a)
        PROVE  AdministratorRemains'
    <3>. DEFINE actor == inflight[q].user
    <3>1. /\ actor \in SuperAdmins
          /\ user' = [user EXCEPT ![target] = a]
          /\ target = actor => a.active /\ a.role = user[target].role
      BY <2>2 DEF UpdateUser
    <3>2. user \in [Users -> Accounts]
      BY <1>2, ApprovalTypes DEF ApprovalInv
    <3>3. /\ actor \in Users
          /\ user'[actor].role = "super_admin" /\ user'[actor].active
      BY <3>1, <3>2 DEF SuperAdmins
    <3>. QED
      BY <3>3 DEF AdministratorRemains, SuperAdmins
  <2>3. ASSUME NEW q \in Requests, RequestStep(q) PROVE AdministratorRemains'
    BY <2>1, <2>2, <2>3
    DEF RequestStep, Arrive, Refuse, Create, Edit, Delete, Archive, Submit, Forward, Decide
  <2>. QED
    BY <1>2, <2>1, <2>3 DEF Next, vars
<1>. QED
  BY <1>1, <1>2, ApprovalInvariant, PTL DEF Spec

\* PendingAnswerable: no change of roles, units or accounts strands a letter
\* that awaits approval.
THEOREM PendingNeverStranded == Spec => []PendingAnswerable
<1>1. ApprovalInv => PendingAnswerable
  BY DEF ApprovalInv, Answerable, PendingAnswerable
<1>. QED
  BY <1>1, ApprovalInvariant, PTL

\* ReviewedContent: what was approved is what was submitted.
THEOREM ApprovedAsSubmitted == Spec => []ReviewedContent
<1>1. ApprovalInv => ReviewedContent
  BY DEF ApprovalInv, Reviewed, ReviewedContent
<1>. QED
  BY <1>1, ApprovalInvariant, PTL

\* TablesAgree: letter, approval request and steps never contradict each other.
THEOREM ApprovalTablesAgree == Spec => []TablesAgree
<1>1. ApprovalInv => TablesAgree
  BY DEF ApprovalInv, Agree, TablesAgree, Steps
<1>. QED
  BY <1>1, ApprovalInvariant, PTL

\* MandateHeld: submissions and decisions are those of accounts that hold the
\* mandate when the transaction commits.
THEOREM MandateHeldAlways == Spec => MandateHeld
<1>1. ASSUME ApprovalInv, [Next]_vars PROVE [MandateHeldStep]_vars
  <2>. SUFFICES ASSUME NEW l \in Letters
       PROVE  /\ letter[l].status \in Submittable /\ letter'[l].status = "pending" =>
                   EligibleApprover(letter[l].creator, letter[l].unit)
              /\ letter[l].status = "pending" =>
                   EligibleApprover(letter[l].approver, letter[l].unit)
    BY DEF MandateHeldStep
  <2>1. letter[l].status = "pending" => EligibleApprover(letter[l].approver, letter[l].unit)
    BY <1>1 DEF ApprovalInv, Answerable
  <2>2. ASSUME letter[l].status \in Submittable, letter'[l].status = "pending"
        PROVE  EligibleApprover(letter[l].creator, letter[l].unit)
    <3>. USE ApprovalTypes DEF ApprovalInv
    <3>1. letter[l].status # "pending" /\ letter'[l] # letter[l] /\ letter[l].status # "none"
      BY <2>2 DEF Submittable
    <3>2. ASSUME NEW q \in Requests, RequestStep(q)
          PROVE  \E next \in Users : Submit(q, next) /\ inflight[q].letter = l
      <4>1. ASSUME NEW next \in Users, Submit(q, next) PROVE inflight[q].letter = l
        BY <1>1, <3>1, <4>1 DEF Submit, SetLetter
      <4>2. ASSUME NEW next \in Users, Forward(q, next) PROVE FALSE
        BY <1>1, <3>1, <4>2 DEF Forward, Awaits, SetLetter
      <4>3. ASSUME NEW verdict \in {"approved", "rejected"}, Decide(q, verdict) PROVE FALSE
        BY <1>1, <3>1, <4>3 DEF Decide, Awaits, SetLetter
      <4>4. ~Create(q)
        BY <1>1, <3>1 DEF Create
      <4>5. ASSUME Delete(q) \/ Archive(q) PROVE FALSE
        <5>1. letter'[l].status = letter[l].status
          BY <1>1, <4>5 DEF Delete, Archive, Letter
        <5>. QED
          BY <2>2, <3>1, <5>1
      <4>6. ASSUME UNCHANGED letter PROVE FALSE
        BY <3>1, <4>6
      <4>. QED
        BY <3>2, <4>1, <4>2, <4>3, <4>4, <4>5, <4>6
        DEF RequestStep, Arrive, Refuse, Edit, UpdateUser
    <3>3. PICK q \in Requests, next \in Users : Submit(q, next) /\ inflight[q].letter = l
      BY <1>1, <3>1, <3>2 DEF Next, vars
    <3>. QED
      BY <3>3 DEF Submit, Approvable, FreshActor, EligibleApprover
  <2>. QED
    BY <2>1, <2>2
<1>2. ApprovalInv /\ [Next]_vars => [MandateHeldStep]_vars
  BY <1>1
<1>. QED
  BY <1>2, ApprovalInvariant, PTL DEF Spec, MandateHeld

(***************************************************************************)
(* One mandated review.  Beyond the invariant: requests in progress belong *)
(* to accounts, approval is asked for by the creator, and only a pending   *)
(* letter names an approver.                                               *)
(***************************************************************************)

Sourced(l) ==
    /\ letter[l].status = "none" => letter[l] = NoLetter
    /\ letter[l].status # "none" =>
         letter[l].creator \in Users /\ letter[l].unit \in Units
    /\ letter[l].status # "pending" => letter[l].approver = Nobody
    /\ request[l].status # "none" => request[l].requester = letter[l].creator

Known(q) == inflight[q].open => inflight[q].user \in Users

ReviewInv == (\A l \in Letters : Sourced(l)) /\ \A q \in Requests : Known(q)

\* What a step does to letters, as far as the review is concerned: it leaves
\* them alone or changes one letter with its request and steps.
OnlyLetter(k) ==
    /\ letter' = [letter EXCEPT ![k] = letter'[k]]
    /\ request' = [request EXCEPT ![k] = request'[k]]
    /\ step' = [step EXCEPT ![k] = step'[k]]

LEMMA CreateEffect ==
    ASSUME ApprovalInv, ReviewInv, NEW q \in Requests, Create(q)
    PROVE  \E l \in Letters, u \in Users, unit \in Units :
             /\ OnlyLetter(l)
             /\ letter[l] = NoLetter /\ letter'[l] = Draft(u, unit)
             /\ UNCHANGED <<user, request, step, edited>>
<1>1. PICK l \in Letters : l = inflight[q].letter
  BY ApprovalTypes DEF ApprovalInv
<1>2. PICK u \in Users : u = inflight[q].user
  BY DEF ReviewInv, Known, Create
<1>3. PICK unit \in Units : letter' = [letter EXCEPT ![l] = Draft(u, unit)]
  BY <1>1, <1>2 DEF Create
<1>4. letter \in [Letters -> Letter] /\ request \in [Letters -> Request]
      /\ step \in [Letters -> [Steps -> Step]]
  BY ApprovalTypes DEF ApprovalInv
<1>5. letter'[l] = Draft(u, unit)
  BY <1>3, <1>4
<1>6. letter[l] = NoLetter
  BY <1>1 DEF Create, ReviewInv, Sourced
<1>7. UNCHANGED <<user, request, step, edited>>
  BY DEF Create
<1>8. OnlyLetter(l)
  BY <1>3, <1>4, <1>5, <1>7 DEF OnlyLetter
<1>. QED
  BY <1>5, <1>6, <1>7, <1>8

LEMMA DeleteEffect ==
    ASSUME ApprovalInv, NEW q \in Requests, Delete(q)
    PROVE  \E l \in Letters :
             /\ OnlyLetter(l)
             /\ letter[l].status \in Submittable
             /\ ~letter[l].deleted /\ ~letter[l].archived
             /\ letter'[l] = [letter[l] EXCEPT !.deleted = TRUE]
             /\ UNCHANGED <<user, request, step, edited>>
<1>1. PICK l \in Letters : l = inflight[q].letter
  BY ApprovalTypes DEF ApprovalInv
<1>2. letter \in [Letters -> Letter] /\ request \in [Letters -> Request]
      /\ step \in [Letters -> [Steps -> Step]]
  BY ApprovalTypes DEF ApprovalInv
<1>3. letter' = [letter EXCEPT ![l] = [letter[l] EXCEPT !.deleted = TRUE]]
  BY <1>1, <1>2 DEF Delete, Letter
<1>4. letter'[l] = [letter[l] EXCEPT !.deleted = TRUE]
  BY <1>2, <1>3
<1>5. UNCHANGED <<user, request, step, edited>>
  BY DEF Delete
<1>6. OnlyLetter(l)
  BY <1>2, <1>3, <1>4, <1>5 DEF OnlyLetter
<1>. QED
  BY <1>1, <1>4, <1>5, <1>6 DEF Delete, StillEditable

LEMMA ArchiveEffect ==
    ASSUME ApprovalInv, NEW q \in Requests, Archive(q)
    PROVE  \E l \in Letters :
             /\ OnlyLetter(l)
             /\ letter[l].status = "approved"
             /\ ~letter[l].deleted /\ ~letter[l].archived
             /\ letter'[l] = [letter[l] EXCEPT !.archived = TRUE]
             /\ UNCHANGED <<user, request, step, edited>>
<1>1. PICK l \in Letters : l = inflight[q].letter
  BY ApprovalTypes DEF ApprovalInv
<1>2. letter \in [Letters -> Letter] /\ request \in [Letters -> Request]
      /\ step \in [Letters -> [Steps -> Step]]
  BY ApprovalTypes DEF ApprovalInv
<1>3. letter' = [letter EXCEPT ![l] = [letter[l] EXCEPT !.archived = TRUE]]
  BY <1>1, <1>2 DEF Archive, Letter
<1>4. letter'[l] = [letter[l] EXCEPT !.archived = TRUE]
  BY <1>2, <1>3
<1>5. UNCHANGED <<user, request, step, edited>>
  BY DEF Archive
<1>6. OnlyLetter(l)
  BY <1>2, <1>3, <1>4, <1>5 DEF OnlyLetter
<1>. QED
  BY <1>1, <1>4, <1>5, <1>6 DEF Archive

\* The row a status change leaves.
Marked(l, status, approver) ==
    letter'[l] = [letter[l] EXCEPT !.status = status, !.approver = approver]

LEMMA SubmitEffect ==
    ASSUME ApprovalInv, ReviewInv, NEW q \in Requests, NEW next \in Users, Submit(q, next)
    PROVE  \E l \in Letters :
             /\ OnlyLetter(l)
             /\ letter[l].status \in Submittable
             /\ ~letter[l].deleted /\ ~letter[l].archived
             /\ EligibleApprover(letter[l].creator, letter[l].unit)
             /\ EligibleApprover(next, letter[l].unit)
             /\ next # letter[l].creator
             /\ letter[l].creator \in Users
             /\ Marked(l, "pending", next)
             /\ request'[l] = [status |-> "pending", requester |-> letter[l].creator,
                               order |-> request[l].order + 1]
             /\ request[l].order + 1 \in Steps
             /\ step'[l] = [step[l] EXCEPT ![request[l].order + 1] = Pending(next)]
             /\ edited' = edited \ {l}
             /\ UNCHANGED user
<1>1. PICK l \in Letters : l = inflight[q].letter
  BY ApprovalTypes DEF ApprovalInv
<1>2. letter \in [Letters -> Letter] /\ request \in [Letters -> Request]
      /\ step \in [Letters -> [Steps -> Step]] /\ request[l].order \in 0 .. MaxSteps
  BY ApprovalTypes DEF ApprovalInv
<1>3. /\ next # inflight[q].user
      /\ letter[l].creator = inflight[q].user
      /\ EligibleApprover(inflight[q].user, letter[l].unit)
      /\ EligibleApprover(next, letter[l].unit)
      /\ letter[l].status \in Submittable
      /\ ~letter[l].deleted /\ ~letter[l].archived
      /\ request[l].order + 1 <= MaxSteps
      /\ request' = [request EXCEPT ![l] =
           [status |-> "pending", requester |-> letter[l].creator,
            order |-> request[l].order + 1]]
      /\ step' = [step EXCEPT ![l] = [step[l] EXCEPT ![request[l].order + 1] = Pending(next)]]
      /\ SetLetter(l, "pending", next)
      /\ edited' = edited \ {l}
      /\ UNCHANGED user
  BY <1>1, <1>2 DEF Submit, Approvable, FreshActor, EligibleApprover
<1>4. request[l].order + 1 \in Steps
  BY <1>2, <1>3, ApprovalAssumption DEF Steps
<1>5. Marked(l, "pending", next) /\ letter' = [letter EXCEPT ![l] = letter'[l]]
  BY <1>2, <1>3 DEF SetLetter, Marked
<1>6. /\ request' = [request EXCEPT ![l] = request'[l]]
      /\ request'[l] = [status |-> "pending", requester |-> letter[l].creator,
                        order |-> request[l].order + 1]
  BY <1>2, <1>3
<1>7. /\ step' = [step EXCEPT ![l] = step'[l]]
      /\ step'[l] = [step[l] EXCEPT ![request[l].order + 1] = Pending(next)]
  BY <1>2, <1>3
<1>8. letter[l].creator \in Users
  BY <1>3 DEF ReviewInv, Sourced, Submittable
<1>. QED
  BY <1>3, <1>4, <1>5, <1>6, <1>7, <1>8 DEF OnlyLetter

\* A decision by the approver the letter awaits.
DecidedBy(l, last, verdict) ==
    /\ letter[l].status = "pending"
    /\ ~letter[l].deleted /\ ~letter[l].archived
    /\ request[l].order = last /\ last \in Steps
    /\ EligibleApprover(letter[l].approver, letter[l].unit)
    /\ letter[l].approver \in Users
    /\ letter[l].approver # letter[l].creator
    /\ request[l].requester = letter[l].creator
    /\ Decided(l, verdict) = [approver |-> letter[l].approver, status |-> verdict]
    /\ UNCHANGED <<user, edited>>

LEMMA AwaitsEffect ==
    ASSUME ApprovalInv, ReviewInv, NEW q \in Requests, Awaits(q),
           UNCHANGED <<user, edited>>
    PROVE  \E l \in Letters, last \in Steps :
             /\ l = inflight[q].letter
             /\ \A verdict : DecidedBy(l, last, verdict)
<1>1. PICK l \in Letters : l = inflight[q].letter
  BY ApprovalTypes DEF ApprovalInv
<1>2. PICK last \in Steps : last = request[l].order
  BY <1>1 DEF Awaits, Steps
<1>3. /\ letter[l].status = "pending" /\ request[l].status = "pending"
      /\ ~letter[l].deleted /\ ~letter[l].archived
      /\ letter[l].approver = inflight[q].user
      /\ EligibleApprover(letter[l].approver, letter[l].unit)
      /\ step[l][last] = Pending(letter[l].approver)
      /\ request[l].requester # letter[l].approver
  BY <1>1, <1>2 DEF Awaits, Approvable, FreshActor, EligibleApprover
<1>4. letter[l].approver \in Users
  BY <1>3 DEF ApprovalInv, Answerable
<1>5. request[l].requester = letter[l].creator
  BY <1>3 DEF ReviewInv, Sourced
<1>6. \A verdict : Decided(l, verdict) = [approver |-> letter[l].approver, status |-> verdict]
  BY <1>2, <1>3 DEF Decided, Pending
<1>. QED
  BY <1>1, <1>2, <1>3, <1>4, <1>5, <1>6 DEF DecidedBy

LEMMA DecideEffect ==
    ASSUME ApprovalInv, ReviewInv, NEW q \in Requests,
           NEW verdict \in {"approved", "rejected"}, Decide(q, verdict)
    PROVE  \E l \in Letters, last \in Steps :
             /\ OnlyLetter(l)
             /\ DecidedBy(l, last, verdict)
             /\ Marked(l, verdict, Nobody)
             /\ request'[l] = [request[l] EXCEPT !.status = verdict]
             /\ step'[l] = [step[l] EXCEPT ![last] = Decided(l, verdict)]
<1>1. Awaits(q) /\ UNCHANGED <<user, edited>>
  BY DEF Decide
<1>2. PICK l \in Letters, last \in Steps :
        l = inflight[q].letter /\ DecidedBy(l, last, verdict)
  BY <1>1, AwaitsEffect
<1>3. letter \in [Letters -> Letter] /\ request \in [Letters -> Request]
      /\ step \in [Letters -> [Steps -> Step]]
  BY ApprovalTypes DEF ApprovalInv
<1>4. /\ step' = [step EXCEPT ![l] = [step[l] EXCEPT ![last] = Decided(l, verdict)]]
      /\ request' = [request EXCEPT ![l] = [request[l] EXCEPT !.status = verdict]]
      /\ SetLetter(l, verdict, Nobody)
  BY <1>2, <1>3 DEF Decide, DecidedBy
<1>5. Marked(l, verdict, Nobody) /\ letter' = [letter EXCEPT ![l] = letter'[l]]
  BY <1>3, <1>4 DEF SetLetter, Marked
<1>6. /\ request' = [request EXCEPT ![l] = request'[l]]
      /\ request'[l] = [request[l] EXCEPT !.status = verdict]
  BY <1>3, <1>4
<1>7. /\ step' = [step EXCEPT ![l] = step'[l]]
      /\ step'[l] = [step[l] EXCEPT ![last] = Decided(l, verdict)]
  BY <1>3, <1>4
<1>. QED
  BY <1>2, <1>5, <1>6, <1>7 DEF OnlyLetter

HandedOn(l, last, next) ==
    [step[l] EXCEPT ![last] = Decided(l, "approved"), ![last + 1] = Pending(next)]

LEMMA ForwardEffect ==
    ASSUME ApprovalInv, ReviewInv, NEW q \in Requests, NEW next \in Users, Forward(q, next)
    PROVE  \E l \in Letters, last \in Steps :
             /\ OnlyLetter(l)
             /\ DecidedBy(l, last, "approved")
             /\ EligibleApprover(next, letter[l].unit)
             /\ next \notin {letter[l].creator, letter[l].approver}
             /\ Marked(l, "pending", next)
             /\ last + 1 \in Steps
             /\ request'[l] = [request[l] EXCEPT !.order = last + 1]
             /\ step'[l] = HandedOn(l, last, next)
<1>1. Awaits(q) /\ UNCHANGED <<user, edited>>
  BY DEF Forward
<1>2. PICK l \in Letters, last \in Steps :
        l = inflight[q].letter /\ DecidedBy(l, last, "approved")
  BY <1>1, AwaitsEffect
<1>3. letter \in [Letters -> Letter] /\ request \in [Letters -> Request]
      /\ step \in [Letters -> [Steps -> Step]]
  BY ApprovalTypes DEF ApprovalInv
<1>4. /\ step' = [step EXCEPT ![l] = [step[l] EXCEPT ![last] = Decided(l, "approved"),
                                                      ![last + 1] = Pending(next)]]
      /\ request' = [request EXCEPT ![l] = [request[l] EXCEPT !.order = last + 1]]
      /\ SetLetter(l, "pending", next)
      /\ last + 1 <= MaxSteps
      /\ Forwardable(l, inflight[q].user, next)
      /\ letter[l].approver = inflight[q].user
  BY <1>2, <1>3 DEF Forward, Awaits, DecidedBy
<1>5. Marked(l, "pending", next) /\ letter' = [letter EXCEPT ![l] = letter'[l]]
  BY <1>3, <1>4 DEF SetLetter, Marked
<1>6. /\ request' = [request EXCEPT ![l] = request'[l]]
      /\ request'[l] = [request[l] EXCEPT !.order = last + 1]
  BY <1>3, <1>4
<1>7. /\ step' = [step EXCEPT ![l] = step'[l]]
      /\ step'[l] = [step[l] EXCEPT ![last] = Decided(l, "approved"),
                                    ![last + 1] = Pending(next)]
  BY <1>3, <1>4
<1>8. EligibleApprover(next, letter[l].unit) /\ next \notin {letter[l].creator, letter[l].approver}
  BY <1>2, <1>4 DEF Forwardable, DecidedBy
<1>9. last + 1 \in Steps
  BY <1>4, ApprovalAssumption DEF Steps
<1>. QED
  <2>1. /\ OnlyLetter(l) /\ DecidedBy(l, last, "approved")
        /\ step'[l] = HandedOn(l, last, next)
    BY <1>2, <1>5, <1>6, <1>7 DEF OnlyLetter, HandedOn
  <2>. QED
    BY <1>5, <1>6, <1>8, <1>9, <2>1

\* Requests end or begin with an account; letters nothing happened to stay.
LEMMA KnownStep ==
    ASSUME ApprovalInv, ReviewInv, NEW q \in Requests, RequestStep(q)
    PROVE  \A r \in Requests : Known(r)'
<1>1. inflight \in [Requests -> Inflight]
  BY ApprovalTypes DEF ApprovalInv
<1>2. ASSUME Done(q), NEW r \in Requests PROVE Known(r)'
  BY <1>1, <1>2 DEF Done, Closed, Known, ReviewInv
<1>3. ASSUME NEW u \in Users, NEW l \in Letters, Arrive(q, u, l), NEW r \in Requests
      PROVE  Known(r)'
  BY <1>1, <1>3 DEF Arrive, Known, ReviewInv
<1>4. Done(q) \/ \E u \in Users, l \in Letters : Arrive(q, u, l)
  BY DEF RequestStep, Refuse, Create, Edit, Delete, Archive, Submit, Forward, Decide, UpdateUser
<1>. QED
  BY <1>2, <1>3, <1>4

LEMMA OtherLetters ==
    ASSUME ApprovalInv, NEW k \in Letters, OnlyLetter(k), NEW l \in Letters, l # k
    PROVE  /\ letter'[l] = letter[l] /\ request'[l] = request[l] /\ step'[l] = step[l]
           /\ Phase(l)' = Phase(l) /\ Verdicts(l)' = Verdicts(l)
           /\ Sourced(l) => Sourced(l)'
<1>1. letter \in [Letters -> Letter] /\ request \in [Letters -> Request]
      /\ step \in [Letters -> [Steps -> Step]]
  BY ApprovalTypes DEF ApprovalInv
<1>2. letter'[l] = letter[l] /\ request'[l] = request[l] /\ step'[l] = step[l]
  BY <1>1 DEF OnlyLetter
<1>. QED
  BY <1>2 DEF Phase, Verdicts, Sourced

LEMMA OneSourced ==
    ASSUME ApprovalInv, ReviewInv, NEW k \in Letters, OnlyLetter(k), Sourced(k)'
    PROVE  \A l \in Letters : Sourced(l)'
BY OtherLetters DEF ReviewInv

\* A change of status, approver or a mark is one of fields.
LEMMA RowFields ==
    ASSUME NEW r \in Letter, NEW status, NEW approver
    PROVE  /\ LET s == [r EXCEPT !.status = status, !.approver = approver] IN
                /\ s.status = status /\ s.approver = approver
                /\ s.unit = r.unit /\ s.creator = r.creator
                /\ s.deleted = r.deleted /\ s.archived = r.archived
           /\ LET s == [r EXCEPT !.deleted = TRUE] IN
                /\ s.status = r.status /\ s.approver = r.approver
                /\ s.unit = r.unit /\ s.creator = r.creator
                /\ s.deleted = TRUE /\ s.archived = r.archived
           /\ LET s == [r EXCEPT !.archived = TRUE] IN
                /\ s.status = r.status /\ s.approver = r.approver
                /\ s.unit = r.unit /\ s.creator = r.creator
                /\ s.deleted = r.deleted /\ s.archived = TRUE
BY DEF Letter

LEMMA ReviewInvStep == ApprovalInv /\ ReviewInv /\ [Next]_vars => ReviewInv'
<1>. SUFFICES ASSUME ApprovalInv, ReviewInv, [Next]_vars PROVE ReviewInv'
  OBVIOUS
<1>a. /\ \A l \in Letters : letter[l] \in Letter /\ request[l] \in Request
      /\ \A l \in Letters : Sourced(l)
  BY ApprovalTypes DEF ApprovalInv, ReviewInv
<1>1. ASSUME UNCHANGED <<letter, request>> PROVE \A l \in Letters : Sourced(l)'
  BY <1>a, <1>1 DEF Sourced
<1>2. ASSUME NEW q \in Requests, RequestStep(q) PROVE \A l \in Letters : Sourced(l)'
  <2>1. CASE Create(q)
    <3>1. PICK l \in Letters, u \in Users, unit \in Units :
            /\ OnlyLetter(l)
            /\ letter[l] = NoLetter /\ letter'[l] = Draft(u, unit)
            /\ UNCHANGED request
      BY <2>1, CreateEffect
    <3>2. request[l].status = "none"
      BY <3>1, ApprovalTypes DEF ApprovalInv, Agree, NoLetter
    <3>3. Sourced(l)'
      BY <3>1, <3>2 DEF Sourced, Draft
    <3>. QED
      BY <3>1, <3>3, OneSourced
  <2>2. CASE Delete(q)
    <3>1. PICK l \in Letters :
            /\ OnlyLetter(l)
            /\ letter[l].status \in Submittable
            /\ letter'[l] = [letter[l] EXCEPT !.deleted = TRUE]
            /\ UNCHANGED request
      BY <2>2, DeleteEffect
    <3>2. /\ letter'[l].status = letter[l].status /\ letter'[l].approver = letter[l].approver
          /\ letter'[l].creator = letter[l].creator /\ letter'[l].unit = letter[l].unit
      BY <1>a, <3>1, RowFields
    <3>3. Sourced(l)'
      BY <1>a, <3>1, <3>2 DEF Sourced, Submittable
    <3>. QED
      BY <3>1, <3>3, OneSourced
  <2>3. CASE Archive(q)
    <3>1. PICK l \in Letters :
            /\ OnlyLetter(l)
            /\ letter[l].status = "approved"
            /\ letter'[l] = [letter[l] EXCEPT !.archived = TRUE]
            /\ UNCHANGED request
      BY <2>3, ArchiveEffect
    <3>2. /\ letter'[l].status = letter[l].status /\ letter'[l].approver = letter[l].approver
          /\ letter'[l].creator = letter[l].creator /\ letter'[l].unit = letter[l].unit
      BY <1>a, <3>1, RowFields
    <3>3. Sourced(l)'
      BY <1>a, <3>1, <3>2 DEF Sourced
    <3>. QED
      BY <3>1, <3>3, OneSourced
  <2>4. ASSUME NEW next \in Users, Submit(q, next) PROVE \A l \in Letters : Sourced(l)'
    <3>1. PICK l \in Letters :
            /\ OnlyLetter(l)
            /\ letter[l].status \in Submittable
            /\ Marked(l, "pending", next)
            /\ request'[l] = [status |-> "pending", requester |-> letter[l].creator,
                              order |-> request[l].order + 1]
      BY <2>4, SubmitEffect
    <3>2. /\ letter'[l].status = "pending"
          /\ letter'[l].creator = letter[l].creator /\ letter'[l].unit = letter[l].unit
      BY <1>a, <3>1, RowFields DEF Marked
    <3>3. Sourced(l)'
      BY <1>a, <3>1, <3>2 DEF Sourced, Submittable
    <3>. QED
      BY <3>1, <3>3, OneSourced
  <2>5. ASSUME NEW verdict \in {"approved", "rejected"}, Decide(q, verdict)
        PROVE  \A l \in Letters : Sourced(l)'
    <3>1. PICK l \in Letters, last \in Steps :
            /\ OnlyLetter(l)
            /\ DecidedBy(l, last, verdict)
            /\ Marked(l, verdict, Nobody)
            /\ request'[l] = [request[l] EXCEPT !.status = verdict]
      BY <2>5, DecideEffect
    <3>2. /\ letter'[l].status = verdict /\ letter'[l].approver = Nobody
          /\ letter'[l].creator = letter[l].creator /\ letter'[l].unit = letter[l].unit
      BY <1>a, <3>1, RowFields DEF Marked
    <3>3. request'[l].requester = letter[l].creator
      BY <1>a, <3>1 DEF Request, DecidedBy
    <3>4. Sourced(l)'
      BY <1>a, <3>1, <3>2, <3>3 DEF Sourced, DecidedBy
    <3>. QED
      BY <3>1, <3>4, OneSourced
  <2>6. ASSUME NEW next \in Users, Forward(q, next) PROVE \A l \in Letters : Sourced(l)'
    <3>1. PICK l \in Letters, last \in Steps :
            /\ OnlyLetter(l)
            /\ DecidedBy(l, last, "approved")
            /\ Marked(l, "pending", next)
            /\ request'[l] = [request[l] EXCEPT !.order = last + 1]
      BY <2>6, ForwardEffect
    <3>2. /\ letter'[l].status = "pending"
          /\ letter'[l].creator = letter[l].creator /\ letter'[l].unit = letter[l].unit
      BY <1>a, <3>1, RowFields DEF Marked
    <3>3. request'[l].requester = letter[l].creator
      BY <1>a, <3>1 DEF Request, DecidedBy
    <3>4. Sourced(l)'
      BY <1>a, <3>1, <3>2, <3>3 DEF Sourced, DecidedBy
    <3>. QED
      BY <3>1, <3>4, OneSourced
  <2>. QED
    BY <1>1, <1>2, <2>1, <2>2, <2>3, <2>4, <2>5, <2>6
    DEF RequestStep, Arrive, Refuse, Edit, UpdateUser
<1>3. CASE UNCHANGED vars
  BY <1>1, <1>3 DEF vars, ReviewInv, Known
<1>. QED
  BY <1>2, <1>3, KnownStep DEF Next, ReviewInv

LEMMA InitReviewInv == Init => ReviewInv
<1>. SUFFICES ASSUME Init PROVE ReviewInv
  OBVIOUS
<1>1. ASSUME NEW l \in Letters PROVE Sourced(l)
  <2>1. letter[l] = NoLetter /\ request[l] = NoRequest
    BY DEF Init
  <2>. QED
    BY <2>1 DEF Sourced, NoLetter, NoRequest
<1>2. ASSUME NEW q \in Requests PROVE Known(q)
  BY <1>2 DEF Init, Known, Closed
<1>. QED
  BY <1>1, <1>2 DEF ReviewInv

(***************************************************************************)
(* The refinement.                                                         *)
(***************************************************************************)

Folder(l) == [phase |-> Phase(l), author |-> letter[l].creator,
              unit |-> letter[l].unit, reviewer |-> letter[l].approver]
Mandate(unit) == {u \in Users : EligibleApprover(u, unit)}

LEMMA SameMandate ==
    ASSUME UNCHANGED user
    PROVE  [unit \in Units |-> Mandate(unit)]' = [unit \in Units |-> Mandate(unit)]
BY DEF Mandate, EligibleApprover

\* One letter's part of the review moves on, the others stay.
LEMMA OneFolder ==
    ASSUME ApprovalInv, NEW k \in Letters, OnlyLetter(k)
    PROVE  /\ [l \in Letters |-> Folder(l)]'
                = [[l \in Letters |-> Folder(l)] EXCEPT ![k] = Folder(k)']
           /\ [l \in Letters |-> Verdicts(l)]'
                = [[l \in Letters |-> Verdicts(l)] EXCEPT ![k] = Verdicts(k)']
BY OtherLetters DEF Folder

LEMMA FolderBecomes ==
    ASSUME ApprovalInv, NEW k \in Letters, OnlyLetter(k), NEW phase, NEW reviewer,
           Phase(k)' = phase, letter'[k].approver = reviewer,
           letter'[k].creator = letter[k].creator, letter'[k].unit = letter[k].unit
    PROVE  Approval!Becomes(k, phase, reviewer)
<1>1. Folder(k)' = [phase |-> phase, author |-> letter[k].creator,
                    unit |-> letter[k].unit, reviewer |-> reviewer]
  BY DEF Folder
<1>2. [l \in Letters |-> Folder(l)][k] = Folder(k)
  OBVIOUS
<1>3. [l \in Letters |-> Folder(l)]'
        = [[l \in Letters |-> Folder(l)] EXCEPT ![k] =
             [phase |-> phase, author |-> letter[k].creator,
              unit |-> letter[k].unit, reviewer |-> reviewer]]
  BY <1>1, OneFolder
<1>. QED
  BY <1>2, <1>3 DEF Approval!Becomes, Approval!File, Folder

\* The decided steps are as many as before, or one more.
LEMMA SameVerdicts ==
    ASSUME NEW l \in Letters, ApprovalInv,
           step'[l] = step[l], request'[l].order = request[l].order,
           letter[l].status # "pending", letter'[l].status # "pending"
    PROVE  Verdicts(l)' = Verdicts(l)
BY DEF Verdicts

LEMMA AppendStep ==
    ASSUME NEW n \in Nat, n < MaxSteps, NEW f \in [Steps -> Step], NEW g \in [Steps -> Step],
           \A i \in 1 .. n : g[i] = f[i]
    PROVE  [i \in 1 .. n + 1 |-> g[i]] = Append([i \in 1 .. n |-> f[i]], g[n + 1])
<1>. DEFINE s == [i \in 1 .. n |-> f[i]]
            t == [i \in 1 .. n + 1 |-> g[i]]
<1>1. n + 1 \in Steps /\ \A i \in 1 .. n : i \in Steps
  BY ApprovalAssumption DEF Steps
<1>2. s \in Seq(Step) /\ Len(s) = n
  BY <1>1
<1>3. t \in Seq(Step) /\ Len(t) = n + 1
  <2>1. \A i \in 1 .. n + 1 : i \in Steps
    BY ApprovalAssumption DEF Steps
  <2>. QED
    BY <2>1
<1>4. g[n + 1] \in Step
  BY <1>1
<1>. QED
  BY <1>2, <1>3, <1>4

\* Each operation is a step of the review.
LEMMA CreateReview ==
    ASSUME ApprovalInv, ReviewInv, NEW q \in Requests, Create(q)
    PROVE  Approval!ReviewNext
<1>1. PICK l \in Letters, u \in Users, unit \in Units :
        /\ OnlyLetter(l)
        /\ letter[l] = NoLetter /\ letter'[l] = Draft(u, unit)
        /\ UNCHANGED <<user, request, step, edited>>
  BY CreateEffect
<1>2. Phase(l) = "absent" /\ Phase(l)' = "open"
  BY <1>1 DEF Phase, NoLetter, Draft, Submittable
<1>3. Folder(l)' = [phase |-> "open", author |-> u, unit |-> unit, reviewer |-> Nobody]
  BY <1>1, <1>2 DEF Folder, Draft
<1>4. \A k \in Letters : Verdicts(k)' = Verdicts(k)
  <2>1. Verdicts(l)' = Verdicts(l)
    BY <1>1 DEF Verdicts, NoLetter, Draft
  <2>. QED
    BY <1>1, <2>1, OtherLetters
<1>5. [k \in Letters |-> Verdicts(k)]' = [k \in Letters |-> Verdicts(k)]
  BY <1>4
<1>6. [k \in Letters |-> Folder(k)]'
        = [[k \in Letters |-> Folder(k)] EXCEPT ![l] =
             [phase |-> "open", author |-> u, unit |-> unit, reviewer |-> Nobody]]
  BY <1>1, <1>3, OneFolder
<1>7. Approval!Write(l, u, unit)
  BY <1>1, <1>2, <1>5, <1>6, SameMandate DEF Approval!Write, Approval!File, Folder, Mandate
<1>. QED
  BY <1>7 DEF Approval!ReviewNext

LEMMA EditReview ==
    ASSUME ApprovalInv, NEW q \in Requests, Edit(q)
    PROVE  Approval!ReviewNext
<1>1. PICK l \in Letters : l = inflight[q].letter
  BY ApprovalTypes DEF ApprovalInv
<1>2. /\ letter[l].status \in Submittable /\ ~letter[l].deleted /\ ~letter[l].archived
      /\ edited' = edited \cup {l}
      /\ UNCHANGED <<user, letter, request, step>>
  BY <1>1 DEF Edit, StillEditable
<1>3. Phase(l) = "open"
  BY <1>2 DEF Phase, Submittable
<1>4. \A k \in Letters : Folder(k)' = Folder(k) /\ Verdicts(k)' = Verdicts(k)
  BY <1>2 DEF Folder, Phase, Verdicts
<1>5. Approval!Touch(l)
  BY <1>2, <1>3, <1>4, SameMandate DEF Approval!Touch, Folder, Mandate
<1>. QED
  BY <1>5 DEF Approval!ReviewNext

\* Delete and Archive mark the letter.
LEMMA MarkReview ==
    ASSUME ApprovalInv, ReviewInv, NEW q \in Requests, Delete(q) \/ Archive(q)
    PROVE  Approval!ReviewNext
<1>a. \A l \in Letters : letter[l] \in Letter /\ Sourced(l)
  BY ApprovalTypes DEF ApprovalInv, ReviewInv
<1>1. CASE Delete(q)
  <2>1. PICK l \in Letters :
          /\ OnlyLetter(l)
          /\ letter[l].status \in Submittable
          /\ ~letter[l].deleted /\ ~letter[l].archived
          /\ letter'[l] = [letter[l] EXCEPT !.deleted = TRUE]
          /\ UNCHANGED <<user, request, step, edited>>
    BY <1>1, DeleteEffect
  <2>2. /\ letter'[l].status = letter[l].status /\ letter'[l].approver = letter[l].approver
        /\ letter'[l].creator = letter[l].creator /\ letter'[l].unit = letter[l].unit
        /\ letter'[l].deleted
    BY <1>a, <2>1, RowFields
  <2>3. Phase(l) = "open" /\ Phase(l)' = "deleted" /\ letter'[l].approver = Nobody
    BY <1>a, <2>1, <2>2 DEF Phase, Submittable, Sourced
  <2>4. Approval!Becomes(l, "deleted", Nobody)
    BY <2>1, <2>2, <2>3, FolderBecomes
  <2>5. Verdicts(l)' = Verdicts(l)
    BY <2>1, <2>2 DEF Verdicts
  <2>6. [k \in Letters |-> Verdicts(k)]' = [k \in Letters |-> Verdicts(k)]
    BY <2>1, <2>5, OtherLetters
  <2>7. Approval!Discard(l)
    BY <2>1, <2>3, <2>4, <2>6, SameMandate DEF Approval!Discard, Folder, Mandate
  <2>. QED
    BY <2>7 DEF Approval!ReviewNext
<1>2. CASE Archive(q)
  <2>1. PICK l \in Letters :
          /\ OnlyLetter(l)
          /\ letter[l].status = "approved"
          /\ ~letter[l].deleted /\ ~letter[l].archived
          /\ letter'[l] = [letter[l] EXCEPT !.archived = TRUE]
          /\ UNCHANGED <<user, request, step, edited>>
    BY <1>2, ArchiveEffect
  <2>2. /\ letter'[l].status = letter[l].status /\ letter'[l].approver = letter[l].approver
        /\ letter'[l].creator = letter[l].creator /\ letter'[l].unit = letter[l].unit
        /\ ~letter'[l].deleted /\ letter'[l].archived
    BY <1>a, <2>1, RowFields
  <2>3. Phase(l) = "approved" /\ Phase(l)' = "filed" /\ letter'[l].approver = Nobody
    BY <1>a, <2>1, <2>2 DEF Phase, Submittable, Sourced
  <2>4. Approval!Becomes(l, "filed", Nobody)
    BY <2>1, <2>2, <2>3, FolderBecomes
  <2>5. Verdicts(l)' = Verdicts(l)
    BY <2>1, <2>2 DEF Verdicts
  <2>6. [k \in Letters |-> Verdicts(k)]' = [k \in Letters |-> Verdicts(k)]
    BY <2>1, <2>5, OtherLetters
  <2>7. Approval!Archive(l)
    BY <2>1, <2>3, <2>4, <2>6, SameMandate DEF Approval!Archive, Folder, Mandate
  <2>. QED
    BY <2>7 DEF Approval!ReviewNext
<1>. QED
  BY <1>1, <1>2

LEMMA SubmitReview ==
    ASSUME ApprovalInv, ReviewInv, NEW q \in Requests, NEW next \in Users, Submit(q, next)
    PROVE  Approval!ReviewNext
<1>1. PICK l \in Letters :
        /\ OnlyLetter(l)
        /\ letter[l].status \in Submittable
        /\ ~letter[l].deleted /\ ~letter[l].archived
        /\ EligibleApprover(letter[l].creator, letter[l].unit)
        /\ EligibleApprover(next, letter[l].unit)
        /\ next # letter[l].creator
        /\ letter[l].creator \in Users
        /\ Marked(l, "pending", next)
        /\ request'[l] = [status |-> "pending", requester |-> letter[l].creator,
                          order |-> request[l].order + 1]
        /\ request[l].order + 1 \in Steps
        /\ step'[l] = [step[l] EXCEPT ![request[l].order + 1] = Pending(next)]
        /\ edited' = edited \ {l}
        /\ UNCHANGED user
  BY SubmitEffect
<1>2. /\ letter[l] \in Letter /\ Sourced(l) /\ request[l].order \in Nat
      /\ step[l] \in [Steps -> Step]
  BY ApprovalTypes DEF ApprovalInv, ReviewInv
<1>3. /\ letter'[l].status = "pending" /\ letter'[l].approver = next
      /\ letter'[l].creator = letter[l].creator /\ letter'[l].unit = letter[l].unit
      /\ ~letter'[l].deleted /\ ~letter'[l].archived
  BY <1>1, <1>2, RowFields DEF Marked
<1>4. letter[l].unit \in Units
  BY <1>1, <1>2 DEF Sourced, Submittable
<1>5. Phase(l) = "open" /\ Phase(l)' = "review"
  BY <1>1, <1>3 DEF Phase, Submittable
<1>6. Approval!Becomes(l, "review", next)
  BY <1>1, <1>3, <1>5, FolderBecomes
<1>7. Verdicts(l)' = Verdicts(l)
  <2>1. PICK n \in Nat : n = request[l].order
    BY <1>2
  <2>2. Verdicts(l) = [i \in 1 .. n |-> step[l][i]]
    BY <1>1, <2>1 DEF Verdicts, Submittable
  <2>3. request'[l].order - 1 = n
    BY <1>1, <2>1
  <2>4. Verdicts(l)' = [i \in 1 .. n |-> step'[l][i]]
    BY <1>3, <2>3 DEF Verdicts
  <2>5. \A i \in 1 .. n : step'[l][i] = step[l][i]
    <3>1. \A i \in 1 .. n : i \in Steps /\ i # n + 1
      BY <1>1, <2>1, ApprovalAssumption DEF Steps
    <3>. QED
      BY <1>1, <1>2, <2>1, <3>1
  <2>. QED
    BY <2>2, <2>4, <2>5
<1>8. [k \in Letters |-> Verdicts(k)]' = [k \in Letters |-> Verdicts(k)]
  BY <1>1, <1>7, OtherLetters
<1>9. letter[l].creator \in Mandate(letter[l].unit) /\ next \in Mandate(letter[l].unit)
  BY <1>1 DEF Mandate
<1>10. Approval!Submit(l, next)
  BY <1>1, <1>4, <1>5, <1>6, <1>8, <1>9, SameMandate
  DEF Approval!Submit, Approval!Entitled, Folder, Mandate
<1>. QED
  BY <1>10 DEF Approval!ReviewNext

\* A decision, the last one or not: one more step is decided.
LEMMA DecidedReview ==
    ASSUME ApprovalInv, ReviewInv, NEW l \in Letters, NEW last \in Steps,
           NEW verdict \in {"approved", "rejected"},
           NEW status \in {"pending", "approved", "rejected"}, NEW next,
           NEW phase, phase = IF status = "pending" THEN "review"
                              ELSE IF status = "approved" THEN "approved" ELSE "open",
           OnlyLetter(l), DecidedBy(l, last, verdict), Marked(l, status, next),
           request'[l].order = IF status = "pending" THEN last + 1 ELSE last,
           step'[l] \in [Steps -> Step],
           step'[l][last] = Decided(l, verdict),
           \A i \in Steps : i < last => step'[l][i] = step[l][i]
    PROVE  Approval!Decide(l, verdict, phase, next)
<1>1. letter[l] \in Letter /\ Sourced(l) /\ step[l] \in [Steps -> Step]
  BY ApprovalTypes DEF ApprovalInv, ReviewInv
<1>2. /\ letter'[l].status = status /\ letter'[l].approver = next
      /\ letter'[l].creator = letter[l].creator /\ letter'[l].unit = letter[l].unit
      /\ ~letter'[l].deleted /\ ~letter'[l].archived
  BY <1>1, RowFields DEF Marked, DecidedBy
<1>3. Phase(l) = "review" /\ Phase(l)' = phase
  BY <1>2 DEF Phase, Submittable, DecidedBy
<1>4. Approval!Becomes(l, phase, next)
  BY <1>2, <1>3, FolderBecomes
<1>5. letter[l].unit \in Units
  BY <1>1 DEF Sourced, DecidedBy
<1>6. PICK n \in Nat : n = last - 1 /\ n < MaxSteps
  BY ApprovalAssumption DEF Steps
<1>7. Verdicts(l) = [i \in 1 .. n |-> step[l][i]]
  BY <1>6 DEF Verdicts, DecidedBy
<1>8. Verdicts(l)' = [i \in 1 .. n + 1 |-> step'[l][i]]
  <2>1. (IF letter'[l].status = "pending" THEN request'[l].order - 1
                                          ELSE request'[l].order) = n + 1
    BY <1>2, <1>6 DEF Steps
  <2>. QED
    BY <2>1 DEF Verdicts
<1>9. \A i \in 1 .. n : step'[l][i] = step[l][i]
  <2>1. \A i \in 1 .. n : i \in Steps /\ i < last
    BY <1>6, ApprovalAssumption DEF Steps
  <2>. QED
    BY <2>1
<1>10. Verdicts(l)' = Append(Verdicts(l), step'[l][n + 1])
  BY <1>1, <1>6, <1>7, <1>8, <1>9, AppendStep
<1>11. step'[l][n + 1] = [approver |-> letter[l].approver, status |-> verdict]
  <2>1. n + 1 = last
    BY <1>6 DEF Steps
  <2>. QED
    BY <2>1 DEF DecidedBy
<1>12. [k \in Letters |-> Verdicts(k)]'
         = [[k \in Letters |-> Verdicts(k)] EXCEPT ![l] =
              Append(Verdicts(l), [approver |-> letter[l].approver, status |-> verdict])]
  BY <1>10, <1>11, OneFolder
<1>13. letter[l].approver \in Mandate(letter[l].unit) /\ letter[l].approver # letter[l].creator
  BY DEF Mandate, DecidedBy
<1>14. UNCHANGED <<user, edited>>
  BY DEF DecidedBy
<1>. QED
  BY <1>3, <1>4, <1>5, <1>12, <1>13, <1>14, SameMandate
  DEF Approval!Decide, Approval!Entitled, Folder, Mandate

LEMMA DecideReview ==
    ASSUME ApprovalInv, ReviewInv, NEW q \in Requests,
           NEW verdict \in {"approved", "rejected"}, Decide(q, verdict)
    PROVE  Approval!ReviewNext
<1>1. PICK l \in Letters, last \in Steps :
        /\ OnlyLetter(l)
        /\ DecidedBy(l, last, verdict)
        /\ Marked(l, verdict, Nobody)
        /\ request'[l] = [request[l] EXCEPT !.status = verdict]
        /\ step'[l] = [step[l] EXCEPT ![last] = Decided(l, verdict)]
  BY DecideEffect
<1>2. request[l] \in Request /\ step[l] \in [Steps -> Step]
  BY ApprovalTypes DEF ApprovalInv
<1>3. request'[l].order = last
  BY <1>1, <1>2 DEF Request, DecidedBy
<1>4. Decided(l, verdict) \in Step
  BY <1>1 DEF DecidedBy, Step
<1>5. /\ step'[l] \in [Steps -> Step]
      /\ step'[l][last] = Decided(l, verdict)
      /\ \A i \in Steps : i # last => step'[l][i] = step[l][i]
  BY <1>1, <1>2, <1>4, StepSet
<1>6. \A i \in Steps : i < last => step'[l][i] = step[l][i]
  <2>1. \A i \in Steps : i < last => i # last
    BY DEF Steps
  <2>. QED
    BY <1>5, <2>1
<1>7. CASE verdict = "approved"
  <2>1. Approval!Decide(l, "approved", "approved", Nobody)
    BY <1>1, <1>3, <1>5, <1>6, <1>7, DecidedReview
  <2>. QED
    BY <2>1 DEF Approval!ReviewNext
<1>8. CASE verdict = "rejected"
  <2>1. Approval!Decide(l, "rejected", "open", Nobody)
    BY <1>1, <1>3, <1>5, <1>6, <1>8, DecidedReview
  <2>. QED
    BY <2>1 DEF Approval!ReviewNext
<1>. QED
  BY <1>7, <1>8

LEMMA ForwardReview ==
    ASSUME ApprovalInv, ReviewInv, NEW q \in Requests, NEW next \in Users, Forward(q, next)
    PROVE  Approval!ReviewNext
<1>1. PICK l \in Letters, last \in Steps :
        /\ OnlyLetter(l)
        /\ DecidedBy(l, last, "approved")
        /\ EligibleApprover(next, letter[l].unit)
        /\ next \notin {letter[l].creator, letter[l].approver}
        /\ Marked(l, "pending", next)
        /\ last + 1 \in Steps
        /\ request'[l] = [request[l] EXCEPT !.order = last + 1]
        /\ step'[l] = HandedOn(l, last, next)
  BY ForwardEffect
<1>2. request[l] \in Request /\ step[l] \in [Steps -> Step] /\ Sourced(l)
  BY ApprovalTypes DEF ApprovalInv, ReviewInv
<1>3. request'[l].order = last + 1
  BY <1>1, <1>2 DEF Request
<1>4. Decided(l, "approved") \in Step /\ Pending(next) \in Step
  BY <1>1 DEF DecidedBy, Step, Pending
<1>5. \A i \in Steps : (i < last => i # last /\ i # last + 1) /\ last # last + 1
  BY DEF Steps
<1>6. /\ step'[l] \in [Steps -> Step]
      /\ step'[l][last] = Decided(l, "approved")
      /\ \A i \in Steps : i < last => step'[l][i] = step[l][i]
  BY <1>1, <1>2, <1>4, <1>5 DEF HandedOn
<1>7. Approval!Decide(l, "approved", "review", next)
  BY <1>1, <1>3, <1>6, DecidedReview
<1>8. letter[l].unit \in Units
  BY <1>1, <1>2 DEF Sourced, DecidedBy
<1>9. next \in Mandate(letter[l].unit)
  BY <1>1 DEF Mandate
<1>10. Approval!PassOn(l, next)
  BY <1>1, <1>7, <1>8, <1>9 DEF Approval!PassOn, Approval!Entitled, Folder, Mandate
<1>. QED
  BY <1>10 DEF Approval!ReviewNext

\* No change of accounts takes the mandate a review awaits.
LEMMA UpdateReview ==
    ASSUME ApprovalInv, ReviewInv, ApprovalInv',
           UNCHANGED <<letter, request, step, edited>>
    PROVE  Approval!ReviewNext
<1>1. \A l \in Letters : Folder(l)' = Folder(l) /\ Verdicts(l)' = Verdicts(l)
  BY DEF Folder, Phase, Verdicts
<1>2. [unit \in Units |-> Mandate(unit)]' \in [Units -> SUBSET Users]
  BY DEF Mandate
<1>3. ASSUME NEW l \in Letters, Phase(l) = "review"
      PROVE  /\ letter[l].unit \in Units
             /\ letter[l].approver \in Mandate(letter[l].unit)'
  <2>1. letter[l] \in Letter /\ letter[l].status = "pending"
    BY <1>3, ApprovalTypes DEF Phase, Submittable, ApprovalInv, Letter
  <2>2. letter[l].unit \in Units
    BY <2>1 DEF ReviewInv, Sourced
  <2>3. Answerable(l)'
    BY DEF ApprovalInv
  <2>. QED
    BY <2>1, <2>2, <2>3 DEF Answerable, Mandate
<1>4. Approval!Reassign
  BY <1>1, <1>2, <1>3 DEF Approval!Reassign, Folder, Mandate
<1>. QED
  BY <1>4 DEF Approval!ReviewNext

LEMMA InitReview == Init => Approval!ReviewInit
<1>. SUFFICES ASSUME Init PROVE Approval!ReviewInit
  OBVIOUS
<1>1. ASSUME NEW l \in Letters
      PROVE  /\ Folder(l) = [phase |-> "absent", author |-> Nobody,
                             unit |-> NoUnit, reviewer |-> Nobody]
             /\ Verdicts(l) = <<>>
  <2>1. letter[l] = NoLetter /\ request[l] = NoRequest
    BY DEF Init
  <2>2. Phase(l) = "absent"
    BY <2>1 DEF Phase, NoLetter, Submittable
  <2>3. Verdicts(l) = [i \in 1 .. 0 |-> step[l][i]]
    BY <2>1 DEF Verdicts, NoLetter, NoRequest
  <2>4. 1 .. 0 = {}
    OBVIOUS
  <2>. QED
    BY <2>1, <2>2, <2>3, <2>4 DEF Folder, NoLetter
<1>. QED
  BY <1>1 DEF Init, Approval!ReviewInit, Approval!File, Folder, Mandate

\* ImplementsReview: through requests in flight, three tables and changing
\* accounts every letter goes through one mandated review, whose decisions are
\* kept and whose approval is final.
THEOREM LettersReviewed == Spec => ImplementsReview
<1>1. ASSUME ApprovalInv, ReviewInv, ApprovalInv', [Next]_vars
      PROVE  [Approval!ReviewNext]_(Approval!reviewVars)
  <2>1. ASSUME NEW q \in Requests, RequestStep(q) PROVE Approval!ReviewNext
    BY <1>1, <2>1, CreateReview, EditReview, MarkReview, SubmitReview, DecideReview,
       ForwardReview, UpdateReview
    DEF RequestStep, Arrive, Refuse, UpdateUser
  <2>2. ASSUME UNCHANGED vars PROVE Approval!ReviewNext
    BY <1>1, <2>2, UpdateReview DEF vars
  <2>. QED
    BY <1>1, <2>1, <2>2 DEF Next
<1>2. ApprovalInv /\ ReviewInv /\ ApprovalInv' /\ [Next]_vars
        => [Approval!ReviewNext]_(Approval!reviewVars)
  BY <1>1
<1>. QED
  BY <1>2, InitReview, InitReviewInv, ReviewInvStep, ApprovalInvariant, PTL
  DEF Spec, ImplementsReview, Approval!ReviewSpec

=============================================================================
