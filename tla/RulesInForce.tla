---------------------------- MODULE RulesInForce ----------------------------
(***************************************************************************)
(* What publishing editions of a regulation promises to those who apply    *)
(* them, without drafts, evidence, reviews and locks: a calendar that says *)
(* which edition is in force on each day.  A publication takes over the    *)
(* days from its first one on, which are all those of the edition it       *)
(* replaces; it never touches an earlier day, leaves no day of the future  *)
(* without an edition, and neither it nor anything else changes an edition *)
(* that was published.                                                     *)
(***************************************************************************)
EXTENDS Naturals

CONSTANTS
    Edisi,          \* the editions
    Isi,            \* their contents
    MaxTanggal      \* the last day

VARIABLES
    berlaku,        \* day -> the editions in force
    terbit,         \* Edisi -> its publication: none or one
    hari            \* today

ruleVars == <<berlaku, terbit, hari>>

Kalender == 1 .. MaxTanggal

RulesInit ==
    /\ berlaku = [d \in Kalender |-> {}]
    /\ terbit = [e \in Edisi |-> {}]
    /\ hari = 1

\* The edition to be replaced has been in force for a day at least.
Mulai(dari) ==
    LET kini == berlaku[MaxTanggal] IN
      /\ dari <= hari
      /\ \A d \in Kalender : d >= dari => berlaku[d] = kini
      /\ kini # {} => \E d \in Kalender : d < dari /\ berlaku[d] = kini

Terbitkan(e, isi, dari) ==
    /\ terbit' = [terbit EXCEPT ![e] = {[isi |-> isi, dari |-> dari,
                                         atas |-> berlaku[MaxTanggal]]}]
    /\ berlaku' = [d \in Kalender |-> IF d >= dari THEN {e} ELSE berlaku[d]]
    /\ UNCHANGED hari

Esok ==
    /\ hari < MaxTanggal
    /\ hari' = hari + 1
    /\ UNCHANGED <<berlaku, terbit>>

RulesNext ==
    \/ \E e \in Edisi :
         /\ terbit[e] = {} /\ terbit'[e] # {}
         /\ \E isi \in Isi, dari \in Kalender : Mulai(dari) /\ Terbitkan(e, isi, dari)
    \/ Esok

RulesSpec == RulesInit /\ [][RulesNext]_ruleVars

=============================================================================
