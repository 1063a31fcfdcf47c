----------------------------- MODULE CaseFiles -----------------------------
(***************************************************************************)
(* What case chains promise to a registry, without derived statuses,       *)
(* roots, relations of all kinds and locks.  Letters are gathered into     *)
(* cases: cases only grow, by new letters and by whole other cases, so     *)
(* letters that are once together stay together.  Letters that refer to    *)
(* each other are in one case.  A case is filed when no work on it is      *)
(* open; from then on nothing about its letters changes and nothing joins  *)
(* it.                                                                     *)
(***************************************************************************)
CONSTANTS
    Letters,    \* letters, registered or not
    Blank       \* Letters -> the record of a letter nothing is known of

VARIABLES
    cases,      \* the sets of letters that belong together
    filed,      \* the cases that are closed
    partners,   \* Letters -> the letters it ever referred to
    record,     \* Letters -> what else is on record about it
    busy        \* the letters with open work

caseVars == <<cases, filed, partners, record, busy>>

CasesInit ==
    /\ cases = {}
    /\ filed = {}
    /\ partners = [x \in Letters |-> {}]
    /\ record = Blank
    /\ busy = {}

Loose == Letters \ UNION cases

\* The open cases K and the loose letters S become one case.
Gather(K, S) ==
    /\ K # {} \/ S # {}
    /\ cases' = (cases \ K) \cup {(UNION K) \cup S}
    /\ UNCHANGED filed

Together(x, y) == \E k \in cases : x \in k /\ y \in k

\* References are never lost and stay within a case, and filed letters are
\* left alone.
Work ==
    /\ \A x \in Letters : partners[x] \subseteq partners'[x]
    /\ \A x \in Letters : \A y \in partners'[x] : Together(x, y)'
    /\ \A x \in UNION filed : /\ partners'[x] = partners[x]
                              /\ record'[x] = record[x]
                              /\ x \notin busy'

\* A case is closed with its work done.
Close(k) ==
    /\ k \cap busy = {}
    /\ filed' = filed \cup {k}
    /\ UNCHANGED <<cases, partners, record, busy>>

CasesNext ==
    \/ \E K \in SUBSET (cases \ filed), S \in SUBSET Loose : Gather(K, S) /\ Work
    \/ UNCHANGED <<cases, filed>> /\ Work
    \/ \E k \in cases \ filed : Close(k)

CasesSpec == CasesInit /\ [][CasesNext]_caseVars

=============================================================================
