--------------------------- MODULE ObjectCustody ---------------------------
(***************************************************************************)
(* What leases promise about uploaded objects, without clocks, requests,   *)
(* reservations and runs.  An object is offered once, for a while.  Who    *)
(* takes it in time keeps it for good.  An offer that has lapsed is never  *)
(* open again, and only then is the object removed, perhaps without        *)
(* anybody noticing; its custody is closed when it is known to be gone.    *)
(***************************************************************************)
CONSTANTS
    Leases,     \* uploads
    Legacy      \* objects of the former provider, never offered

VARIABLES
    custody,    \* Leases -> "none", "offered", "kept", "lapsed" or "closed"
    object      \* Leases -> "absent", "stored" or "gone"

custodyVars == <<custody, object>>

CustodyInit ==
    /\ custody = [l \in Leases |-> IF l \in Legacy THEN "lapsed" ELSE "none"]
    /\ object = [l \in Leases |-> IF l \in Legacy THEN "stored" ELSE "absent"]

Store(l) ==
    /\ object[l] = "absent"
    /\ object' = [object EXCEPT ![l] = "stored"]
    /\ UNCHANGED custody

Passes(l, from, to) ==
    /\ custody[l] = from
    /\ custody' = [custody EXCEPT ![l] = to]
    /\ UNCHANGED object

Offer(l) == object[l] = "stored" /\ Passes(l, "none", "offered")

Keep(l) == object[l] = "stored" /\ Passes(l, "offered", "kept")

\* Time passes: some offers are over.
Lapse ==
    /\ UNCHANGED object
    /\ \E over \in SUBSET {l \in Leases : custody[l] = "offered"} :
         custody' = [l \in Leases |-> IF l \in over THEN "lapsed" ELSE custody[l]]

Remove(l) ==
    /\ custody[l] = "lapsed"
    /\ object[l] = "stored"
    /\ object' = [object EXCEPT ![l] = "gone"]
    /\ UNCHANGED custody

Close(l) == object[l] = "gone" /\ Passes(l, "lapsed", "closed")

CustodyNext ==
    \/ Lapse
    \/ \E l \in Leases : Store(l) \/ Offer(l) \/ Keep(l) \/ Remove(l) \/ Close(l)

CustodySpec == CustodyInit /\ [][CustodyNext]_custodyVars

=============================================================================
