------------------------- MODULE ReliableDelivery -------------------------
(***************************************************************************)
(* What the outbox promises to those who write letters: one message per    *)
(* key, whose content never changes; the receiver may accept it more than  *)
(* once and may accept it unnoticed, but it accepts nothing else; it is    *)
(* reported delivered only after it was accepted, and that report is       *)
(* final; a delivery is given up only in the open, and reopened only by    *)
(* somebody's decision.                                                    *)
(***************************************************************************)
CONSTANTS
    Keys,       \* idempotency keys
    Contents,   \* what a message can say
    Nothing     \* the content of a key without a message

VARIABLES
    progress,   \* Keys -> "absent", "waiting", "delivered" or "given_up"
    message,    \* Keys -> the content
    accepted    \* Keys -> the contents the receiver took for the key

deliveryVars == <<progress, message, accepted>>

DeliveryInit ==
    /\ progress = [k \in Keys |-> "absent"]
    /\ message = [k \in Keys |-> Nothing]
    /\ accepted = [k \in Keys |-> {}]

Becomes(k, from, to) ==
    /\ progress[k] = from
    /\ progress' = [progress EXCEPT ![k] = to]

Submit(k, c) ==
    /\ Becomes(k, "absent", "waiting")
    /\ message' = [message EXCEPT ![k] = c]
    /\ UNCHANGED accepted

\* A copy may still arrive when the fate of the message is decided.
Accept(k) ==
    /\ progress[k] # "absent"
    /\ accepted' = [accepted EXCEPT ![k] = @ \cup {message[k]}]
    /\ UNCHANGED <<progress, message>>

Confirm(k) ==
    /\ message[k] \in accepted[k]
    /\ Becomes(k, "waiting", "delivered")
    /\ UNCHANGED <<message, accepted>>

GiveUp(k) == Becomes(k, "waiting", "given_up") /\ UNCHANGED <<message, accepted>>

Reopen(k) == Becomes(k, "given_up", "waiting") /\ UNCHANGED <<message, accepted>>

DeliveryNext ==
    \E k \in Keys : \/ \E c \in Contents : Submit(k, c)
                    \/ Accept(k) \/ Confirm(k) \/ GiveUp(k) \/ Reopen(k)

DeliverySpec == DeliveryInit /\ [][DeliveryNext]_deliveryVars

=============================================================================
