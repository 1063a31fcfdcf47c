-------------------------- MODULE ArchiveLifecycle --------------------------
(***************************************************************************)
(* What the disposal of archives promises, without how an archive becomes  *)
(* eligible: an archive is free, claimed by one batch or manifest, or      *)
(* disposed of; whoever claims archives gives some of them back or         *)
(* disposes of all it has; and a legal hold stops both the claim and the   *)
(* disposal, but not the giving back.                                      *)
(***************************************************************************)
CONSTANTS
    Arsip,      \* archives
    Claims,     \* the batches and manifests that can claim them
    NoClaim     \* none of them

VARIABLES
    nasib,      \* Arsip -> "free", "claimed" or "disposed"
    klaim,      \* Arsip -> who has or had it
    hold        \* Arsip -> whether it is under legal hold

lifeVars == <<nasib, klaim, hold>>

LifeInit ==
    /\ nasib = [a \in Arsip |-> "free"]
    /\ klaim = [a \in Arsip |-> NoClaim]
    /\ hold = [a \in Arsip |-> FALSE]

Claimed(c) == {a \in Arsip : nasib[a] = "claimed" /\ klaim[a] = c}

Moved(S, n, c) ==
    /\ nasib' = [a \in Arsip |-> IF a \in S THEN n ELSE nasib[a]]
    /\ klaim' = [a \in Arsip |-> IF a \in S THEN c ELSE klaim[a]]
    /\ UNCHANGED hold

Claim(c, S) ==
    /\ \A a \in S : nasib[a] = "free" /\ ~hold[a]
    /\ Moved(S, "claimed", c)

GiveBack(c, S) ==
    /\ S \subseteq Claimed(c)
    /\ Moved(S, "free", NoClaim)

Dispose(c) ==
    /\ \A a \in Claimed(c) : ~hold[a]
    /\ Moved(Claimed(c), "disposed", c)

SetHold(a, h) ==
    /\ nasib[a] # "disposed"
    /\ hold' = [hold EXCEPT ![a] = h]
    /\ UNCHANGED <<nasib, klaim>>

LifeNext ==
    \/ \E c \in Claims :
         \/ \E S \in SUBSET Arsip : Claim(c, S) \/ GiveBack(c, S)
         \/ Dispose(c)
    \/ \E a \in Arsip, h \in BOOLEAN : SetHold(a, h)

LifeSpec == LifeInit /\ [][LifeNext]_lifeVars

=============================================================================
