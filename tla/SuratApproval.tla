--------------------------- MODULE SuratApproval ---------------------------
(***************************************************************************)
(* Approval of outgoing letters, and the mandates it rests on.  A creator  *)
(* submits a draft to an approver, approvers forward, approve or reject,   *)
(* and a super administrator meanwhile changes roles, units and accounts.  *)
(* Requests carry what middleware and route read before the transaction;   *)
(* a transaction is one step: the mandate gate and the row locks order it  *)
(* against every other transaction that reads or writes the same rows.     *)
(* Source: services/approval.service.ts, user-management.service.ts,       *)
(* surat-keluar.service.ts, arsip.service.ts, routes/surat-keluar.routes.ts*)
(***************************************************************************)
EXTENDS Naturals, FiniteSets

CONSTANTS
    Users,          \* accounts
    Units,          \* unit_kerja
    Letters,        \* surat_keluar
    Accounts,       \* the roles, units and activity an account can have
    Requests,       \* requests the server works on at the same time
    Nobody,         \* no approver
    NoUnit,         \* the unit of a cross-unit or unassigned account
    MaxSteps        \* bound on the approval steps of one letter

\* "admin" is admin_unit, admin_dirjen or admin_sesditjen, the last two with
\* the unit their role is bound to; "staff" stands for the read-only roles.
Account ==
    {a \in [role : {"super_admin", "admin", "staff"}, unit : Units \cup {NoUnit},
            active : BOOLEAN] : a.role = "super_admin" <=> a.unit = NoUnit}

ASSUME ApprovalAssumption ==
    /\ Letters # {}
    /\ Accounts \subseteq Account
    /\ Nobody \notin Users
    /\ NoUnit \notin Units
    /\ MaxSteps \in Nat \ {0}

VARIABLES
    user,           \* Users -> role, effective unit and activity
    letter,         \* Letters -> the surat_keluar row
    request,        \* Letters -> its approval_requests row
    step,           \* Letters -> step order -> its approval_steps row
    edited,         \* letters changed since they were last submitted
    inflight        \* Requests -> what a request in progress has read

vars == <<user, letter, request, step, edited, inflight>>

Letter == [status : {"none", "draft", "pending", "approved", "rejected"},
           unit : Units \cup {NoUnit}, creator : Users \cup {Nobody},
           approver : Users \cup {Nobody}, deleted : BOOLEAN, archived : BOOLEAN]
Request == [status : {"none", "pending", "approved", "rejected"},
            requester : Users \cup {Nobody}, order : 0 .. MaxSteps]
Step == [approver : Users \cup {Nobody},
         status : {"none", "pending", "approved", "rejected"}]
NoAccount == [role |-> "none", unit |-> NoUnit, active |-> FALSE]
Inflight == [open : BOOLEAN, user : Users \cup {Nobody},
             account : Accounts \cup {NoAccount},
             letter : Letters, offer : {"edit", "archive", "neither"}]

NoLetter == [status |-> "none", unit |-> NoUnit, creator |-> Nobody,
             approver |-> Nobody, deleted |-> FALSE, archived |-> FALSE]
NoRequest == [status |-> "none", requester |-> Nobody, order |-> 0]
NoStep == [approver |-> Nobody, status |-> "none"]
Draft(u, unit) ==
    [status |-> "draft", unit |-> unit, creator |-> u, approver |-> Nobody,
     deleted |-> FALSE, archived |-> FALSE]
Closed == [open |-> FALSE, user |-> Nobody, account |-> NoAccount,
           letter |-> CHOOSE l \in Letters : TRUE, offer |-> "neither"]

SuperAdmins == {u \in Users : user[u].role = "super_admin" /\ user[u].active}

Init ==
    /\ user \in [Users -> {a \in Accounts : a.active}]
    /\ SuperAdmins # {}
    /\ letter = [l \in Letters |-> NoLetter]
    /\ request = [l \in Letters |-> NoRequest]
    /\ step = [l \in Letters |-> [i \in 1 .. MaxSteps |-> NoStep]]
    /\ edited = {}
    /\ inflight = [q \in Requests |-> Closed]

(***************************************************************************)
(* Mandates.                                                               *)
(***************************************************************************)

\* The roles that write, and the only ones user management still assigns.
Assignable == {"super_admin", "admin"}

\* resolveRecordUnitScope: null for a super administrator, else the unit.
InScope(a, unit) == a.role = "super_admin" \/ a.unit = unit

\* assertSubmitterMandate, assertApproverMandate.
Mandated(a, unit) == a.role \in Assignable /\ InScope(a, unit)

\* Mutant: the transaction trusts the account the middleware has read.
SessionActor(q) == inflight[q].account

\* requireFreshApprovalActor: the account row, locked in the transaction.
FreshActor(q) == user[inflight[q].user]

\* assertMandatedApprover
EligibleApprover(u, unit) == user[u].active /\ Mandated(user[u], unit)

(***************************************************************************)
(* Requests.                                                               *)
(***************************************************************************)

Submittable == {"draft", "rejected"}

\* What the route goes on to, from the status it reads: update and delete
\* take a draft or rejected letter, archiving an approved one.
Offer(l) == CASE letter[l].deleted -> "neither"
              [] ~letter[l].deleted /\ letter[l].status \in Submittable -> "edit"
              [] ~letter[l].deleted /\ letter[l].status = "approved" -> "archive"
              [] OTHER -> "neither"

\* authMiddleware loads an active account, canWriteMiddleware refuses the
\* read-only roles, the route loads its letter.
Arrive(q, u, l) ==
    /\ ~inflight[q].open
    /\ user[u].active
    /\ user[u].role \in Assignable
    /\ inflight' = [inflight EXCEPT ![q] =
         [open |-> TRUE, user |-> u, account |-> user[u], letter |-> l,
          offer |-> Offer(l)]]
    /\ UNCHANGED <<user, letter, request, step, edited>>

Done(q) == inflight' = [inflight EXCEPT ![q] = Closed]

\* The request is refused: an early return, an error and a rollback.
Refuse(q) ==
    /\ inflight[q].open
    /\ Done(q)
    /\ UNCHANGED <<user, letter, request, step, edited>>

\* POST /surat-keluar: in the unit of the account, or any for a super
\* administrator.
Create(q) ==
    /\ inflight[q].open
    /\ LET l == inflight[q].letter IN
         /\ letter[l].status = "none"
         /\ \E unit \in Units :
              /\ InScope(inflight[q].account, unit)
              /\ letter' = [letter EXCEPT ![l] = Draft(inflight[q].user, unit)]
    /\ Done(q)
    /\ UNCHANGED <<user, request, step, edited>>

\* Mutant: the UPDATE relies on the status the route has read.
EditableAsRead(q) == /\ letter[inflight[q].letter].status # "none"
                     /\ ~letter[inflight[q].letter].deleted

\* The condition of the UPDATE in update and delete.
StillEditable(q) ==
    LET l == inflight[q].letter IN
      /\ letter[l].status \in Submittable
      /\ ~letter[l].deleted
      /\ ~letter[l].archived

\* The route's checks before it calls update or delete.
RouteAllowsEdit(q) ==
    /\ inflight[q].open
    /\ inflight[q].offer = "edit"
    /\ InScope(inflight[q].account, letter[inflight[q].letter].unit)

Edit(q) ==
    /\ RouteAllowsEdit(q)
    /\ StillEditable(q)
    /\ edited' = edited \cup {inflight[q].letter}
    /\ Done(q)
    /\ UNCHANGED <<user, letter, request, step>>

Delete(q) ==
    /\ RouteAllowsEdit(q)
    /\ StillEditable(q)
    /\ letter' = [letter EXCEPT ![inflight[q].letter].deleted = TRUE]
    /\ Done(q)
    /\ UNCHANGED <<user, request, step, edited>>

\* archiveFromSuratKeluar, under the lock of the letter's row.
Archive(q) ==
    /\ inflight[q].open
    /\ inflight[q].offer = "archive"
    /\ LET l == inflight[q].letter IN
         /\ InScope(inflight[q].account, letter[l].unit)
         /\ letter[l].status = "approved"
         /\ ~letter[l].deleted
         /\ ~letter[l].archived
         /\ letter' = [letter EXCEPT ![l].archived = TRUE]
    /\ Done(q)
    /\ UNCHANGED <<user, request, step, edited>>

(***************************************************************************)
(* Approval.                                                               *)
(***************************************************************************)

\* The locked letter an approval operation works on.
Approvable(q) ==
    LET l == inflight[q].letter IN
      /\ inflight[q].open
      /\ FreshActor(q).active
      /\ Mandated(FreshActor(q), letter[l].unit)
      /\ letter[l].status # "none"
      /\ ~letter[l].archived
      /\ ~letter[l].deleted

\* Mutant: final approval writes the status "signed" of the schema.
SignedLetter(l, status, approver) ==
    letter' = [letter EXCEPT ![l] =
      [@ EXCEPT !.status = IF status = "approved" THEN "signed" ELSE status,
                !.approver = approver]]

SetLetter(l, status, approver) ==
    letter' = [letter EXCEPT ![l] = [@ EXCEPT !.status = status, !.approver = approver]]

Pending(u) == [approver |-> u, status |-> "pending"]

Submit(q, next) ==
    LET l == inflight[q].letter
        u == inflight[q].user
        order == request[l].order + 1
    IN  /\ next # u
        /\ Approvable(q)
        /\ letter[l].creator = u
        /\ letter[l].status \in Submittable
        /\ EligibleApprover(next, letter[l].unit)
        /\ request[l].status \in {"none", "rejected"}
        /\ order <= MaxSteps
        /\ request' = [request EXCEPT ![l] =
             [status |-> "pending", requester |-> u, order |-> order]]
        /\ step' = [step EXCEPT ![l] = [@ EXCEPT ![order] = Pending(next)]]
        /\ SetLetter(l, "pending", next)
        /\ edited' = edited \ {l}
        /\ Done(q)
        /\ UNCHANGED user

\* The letter awaits this very actor, who did not request the approval.
Awaits(q) ==
    LET l == inflight[q].letter
        u == inflight[q].user
    IN  /\ Approvable(q)
        /\ letter[l].status = "pending"
        /\ letter[l].approver = u
        /\ request[l].status = "pending"
        /\ request[l].requester # u
        /\ request[l].order \in 1 .. MaxSteps
        /\ step[l][request[l].order] = Pending(u)

\* Mutant: a decision leaves the step pending.
Undecided(l, verdict) == step[l][request[l].order]

Decided(l, verdict) == [approver |-> step[l][request[l].order].approver, status |-> verdict]

\* approve without a next approver, and reject.
Decide(q, verdict) ==
    LET l == inflight[q].letter IN
      /\ Awaits(q)
      /\ step' = [step EXCEPT ![l] =
                    [@ EXCEPT ![request[l].order] = Decided(l, verdict)]]
      /\ request' = [request EXCEPT ![l].status = verdict]
      /\ SetLetter(l, verdict, Nobody)
      /\ Done(q)
      /\ UNCHANGED <<user, edited>>

Forwardable(l, u, next) ==
    /\ next # u
    /\ EligibleApprover(next, letter[l].unit)
    /\ next # request[l].requester

\* approve with a next approver.
Forward(q, next) ==
    LET l == inflight[q].letter
        order == request[l].order + 1
    IN  /\ Awaits(q)
        /\ Forwardable(l, inflight[q].user, next)
        /\ order <= MaxSteps
        /\ step' = [step EXCEPT ![l] =
             [@ EXCEPT ![request[l].order] = Decided(l, "approved"),
                       ![order] = Pending(next)]]
        /\ request' = [request EXCEPT ![l].order = order]
        /\ SetLetter(l, "pending", next)
        /\ Done(q)
        /\ UNCHANGED <<user, edited>>

(***************************************************************************)
(* User management.                                                        *)
(***************************************************************************)

\* Mutant: only deactivation is checked against pending letters.
ReleasedOnDeactivation(target, a) ==
    ~a.active => \A l \in Letters :
      ~(letter[l].approver = target /\ letter[l].status = "pending")

\* A change of role or unit, or a deactivation, waits for the letters that
\* await the account.
Released(target, a) ==
    \/ /\ a.role = user[target].role
       /\ a.unit = user[target].unit
       /\ a.active \/ ~user[target].active
    \/ \A l \in Letters :
         ~(/\ letter[l].approver = target
           /\ letter[l].status = "pending"
           /\ ~letter[l].deleted)

\* updateUser, under the exclusive mandate gate.
UpdateUser(q, target, a) ==
    LET actor == inflight[q].user IN
      /\ inflight[q].open
      /\ actor \in SuperAdmins
      /\ a.role = user[target].role \/ a.role \in Assignable
      /\ target = actor => a.active /\ a.role = user[target].role
      /\ target \in SuperAdmins /\ ~(a.role = "super_admin" /\ a.active)
           => Cardinality(SuperAdmins) > 1
      /\ Released(target, a)
      /\ user' = [user EXCEPT ![target] = a]
      /\ Done(q)
      /\ UNCHANGED <<letter, request, step, edited>>

RequestStep(q) ==
    \/ \E u \in Users, l \in Letters : Arrive(q, u, l)
    \/ Refuse(q) \/ Create(q) \/ Edit(q) \/ Delete(q) \/ Archive(q)
    \/ \E next \in Users : Submit(q, next) \/ Forward(q, next)
    \/ \E verdict \in {"approved", "rejected"} : Decide(q, verdict)
    \/ \E target \in Users, a \in Accounts : UpdateUser(q, target, a)

Next == \E q \in Requests : RequestStep(q)

Spec == Init /\ [][Next]_vars

-----------------------------------------------------------------------------

\* Types of the variables.
TypeOK ==
    /\ user \in [Users -> Accounts]
    /\ letter \in [Letters -> Letter]
    /\ request \in [Letters -> Request]
    /\ step \in [Letters -> [1 .. MaxSteps -> Step]]
    /\ edited \subseteq Letters
    /\ inflight \in [Requests -> Inflight]

\* A letter that awaits approval awaits somebody who can decide it: an
\* active administrator of its unit other than its requester, whatever
\* became of roles, units and accounts since it was submitted or forwarded.
PendingAnswerable ==
    \A l \in Letters :
      letter[l].status = "pending" =>
        /\ letter[l].approver \in Users
        /\ EligibleApprover(letter[l].approver, letter[l].unit)
        /\ letter[l].approver # request[l].requester
        /\ ~letter[l].archived /\ ~letter[l].deleted

\* What an approver decided on is what was submitted: from its submission on
\* a letter is neither changed nor deleted, unless it is rejected, and only
\* an approved one is archived.
ReviewedContent ==
    \A l \in Letters :
      /\ letter[l].status \in {"pending", "approved"} =>
           l \notin edited /\ ~letter[l].deleted
      /\ letter[l].archived => letter[l].status = "approved"

\* The letter, its approval request and its steps tell one story: one step
\* is pending while the letter is, for the approver it names, and the last
\* step carries the verdict the letter has.
TablesAgree ==
    \A l \in Letters :
      LET last == request[l].order IN
        /\ request[l].status =
             IF letter[l].status = "draft" THEN "none" ELSE letter[l].status
        /\ last = 0 <=> request[l].status = "none"
        /\ \A i \in 1 .. MaxSteps :
             /\ i = last => step[l][i].status = letter[l].status
             /\ i = last /\ letter[l].status = "pending" =>
                  step[l][i].approver = letter[l].approver
             /\ i < last => step[l][i].status \in {"approved", "rejected"}
             /\ i > last => step[l][i] = NoStep

\* Whoever submits a letter or decides on it holds the mandate at that very
\* moment, not only when the request was authenticated.
MandateHeldStep ==
    \A l \in Letters :
      /\ letter[l].status \in Submittable /\ letter'[l].status = "pending" =>
           EligibleApprover(letter[l].creator, letter[l].unit)
      /\ letter[l].status = "pending" /\ letter'[l] # letter[l] =>
           EligibleApprover(letter[l].approver, letter[l].unit)
MandateHeld == [][MandateHeldStep]_vars

\* How far a letter is.
Phase(l) ==
    CASE letter[l].deleted -> "deleted"
      [] ~letter[l].deleted /\ letter[l].archived -> "filed"
      [] OTHER -> CASE letter[l].status = "none" -> "absent"
                    [] letter[l].status \in Submittable -> "open"
                    [] letter[l].status = "pending" -> "review"
                    [] OTHER -> "approved"

\* The steps that were decided: all but the one a pending letter awaits.
Verdicts(l) ==
    [i \in 1 .. (IF letter[l].status = "pending" THEN request[l].order - 1
                                                 ELSE request[l].order) |-> step[l][i]]

Approval == INSTANCE MandatedReview WITH
    file <- [l \in Letters |-> [phase |-> Phase(l), author |-> letter[l].creator,
                               unit |-> letter[l].unit, reviewer |-> letter[l].approver]],
    touched <- edited,
    verdicts <- [l \in Letters |-> Verdicts(l)],
    mandate <- [unit \in Units |-> {u \in Users : EligibleApprover(u, unit)}]

\* Through all requests in flight, three tables and changing accounts, a
\* letter goes through one mandated review: it is closed while it awaits its
\* reviewer, only the reviewer decides it, who did not write it, no decision
\* is ever changed or lost, and an approved letter is final.
ImplementsReview == Approval!ReviewSpec

=============================================================================
