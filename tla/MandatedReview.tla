--------------------------- MODULE MandatedReview ---------------------------
(***************************************************************************)
(* What approval promises the office, without requests, tables, roles and  *)
(* locks.  A letter is closed while it is under review.  Whoever submits   *)
(* it or decides on it holds the mandate for its unit at that moment, only *)
(* the reviewer it awaits decides, and that is never its author.  Every    *)
(* decision is kept, in order.  An approved letter is final: it can only   *)
(* be filed.  Mandates come and go, but none that a review awaits.         *)
(***************************************************************************)
EXTENDS Sequences

CONSTANTS
    Users,      \* accounts
    Units,      \* the units letters belong to
    Letters,    \* letters
    Nobody,     \* no author, no reviewer
    NoUnit      \* no unit yet

VARIABLES
    file,       \* Letters -> phase, author, unit, and the reviewer it awaits
    touched,    \* letters changed since they were last submitted
    verdicts,   \* Letters -> the decisions on it, oldest first
    mandate     \* Units -> those who may submit and decide its letters

reviewVars == <<file, touched, verdicts, mandate>>

File(phase, author, unit, reviewer) ==
    [phase |-> phase, author |-> author, unit |-> unit, reviewer |-> reviewer]

ReviewInit ==
    /\ file = [l \in Letters |-> File("absent", Nobody, NoUnit, Nobody)]
    /\ touched = {}
    /\ verdicts = [l \in Letters |-> <<>>]
    /\ mandate \in [Units -> SUBSET Users]

Entitled(u, l) == u \in mandate[file[l].unit]

Becomes(l, phase, reviewer) ==
    file' = [file EXCEPT ![l] = File(phase, file[l].author, file[l].unit, reviewer)]

Write(l, u, unit) ==
    /\ file[l].phase = "absent"
    /\ file' = [file EXCEPT ![l] = File("open", u, unit, Nobody)]
    /\ UNCHANGED <<touched, verdicts, mandate>>

Touch(l) ==
    /\ file[l].phase = "open"
    /\ touched' = touched \cup {l}
    /\ UNCHANGED <<file, verdicts, mandate>>

Discard(l) ==
    /\ file[l].phase = "open"
    /\ Becomes(l, "deleted", Nobody)
    /\ UNCHANGED <<touched, verdicts, mandate>>

Archive(l) ==
    /\ file[l].phase = "approved"
    /\ Becomes(l, "filed", Nobody)
    /\ UNCHANGED <<touched, verdicts, mandate>>

Submit(l, r) ==
    /\ file[l].phase = "open"
    /\ Entitled(file[l].author, l) /\ Entitled(r, l)
    /\ r # file[l].author
    /\ Becomes(l, "review", r)
    /\ touched' = touched \ {l}
    /\ UNCHANGED <<verdicts, mandate>>

\* The reviewer's word, which ends the review or hands the letter on.
Decide(l, verdict, phase, next) ==
    LET r == file[l].reviewer IN
      /\ file[l].phase = "review"
      /\ Entitled(r, l) /\ r # file[l].author
      /\ Becomes(l, phase, next)
      /\ verdicts' = [verdicts EXCEPT ![l] = Append(@, [approver |-> r, status |-> verdict])]
      /\ UNCHANGED <<touched, mandate>>

PassOn(l, next) ==
    /\ Decide(l, "approved", "review", next)
    /\ Entitled(next, l)
    /\ next \notin {file[l].author, file[l].reviewer}

\* Roles, units and accounts change.
Reassign ==
    /\ UNCHANGED <<file, touched, verdicts>>
    /\ mandate' \in [Units -> SUBSET Users]
    /\ \A l \in Letters :
         file[l].phase = "review" => file[l].reviewer \in mandate'[file[l].unit]

ReviewNext ==
    \/ Reassign
    \/ \E l \in Letters :
         \/ Touch(l) \/ Discard(l) \/ Archive(l)
         \/ Decide(l, "approved", "approved", Nobody)
         \/ Decide(l, "rejected", "open", Nobody)
         \/ \E r \in Users : Submit(l, r) \/ PassOn(l, r)
         \/ \E u \in Users, unit \in Units : Write(l, u, unit)

ReviewSpec == ReviewInit /\ [][ReviewNext]_reviewVars

=============================================================================
