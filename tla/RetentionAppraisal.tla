------------------------- MODULE RetentionAppraisal -------------------------
(***************************************************************************)
(* Retention governance of one archive: the events that start its          *)
(* retention, verified by somebody else, and the appraisals that decide    *)
(* what the rule leaves open.  A new event takes the old one and the       *)
(* decision out of force.                                                  *)
(* Source: services/retention-governance.service.ts and the triggers of    *)
(* db/migrations/0019_authoritative_retention_decisions.sql                *)
(***************************************************************************)
EXTENDS ArsipRecord

\* assertVerifiedRuleContext
RuleContext(a) == arsip[a].aturan # 0

(***************************************************************************)
(* Retention events.                                                       *)
(***************************************************************************)

\* invalidate_archive_retention_on_event_insert
Invalidated(r) == [r EXCEPT !.peristiwa = 0, !.keputusan = 0]

\* createRetentionEvent, the first one or a correction of the latest.
CreateRetentionEvent(a, u) ==
    /\ RuleContext(a)
    /\ Tersedia(a)
    /\ ~ActiveAppraisal(a)
    /\ MasihRevisi(a)
    /\ peristiwa' = [peristiwa EXCEPT ![a] =
         [NoPeristiwa EXCEPT !.revisi = peristiwa[a].revisi + 1, !.aktor = u]]
    /\ arsip' = [arsip EXCEPT ![a] = Invalidated(@)]
    /\ fase' = [fase EXCEPT ![a] = "aktif"]
    /\ UNCHANGED <<kasus, keputusan>>

\* verifyRetentionEvent: one verdict on each event; a verified one is
\* published, its date puts the retention anywhere.
VerifyRetentionEvent(a, u, verdict, f) ==
    /\ RuleContext(a)
    /\ Tersedia(a)
    /\ peristiwa[a].revisi # 0
    /\ peristiwa[a].verdict = "none"
    /\ peristiwa[a].aktor # u
    /\ verdict = "verified" => arsip[a].peristiwa = 0
    /\ peristiwa' = [peristiwa EXCEPT ![a].verdict = verdict, ![a].verifikator = u]
    /\ IF verdict = "verified"
       THEN /\ arsip' = [arsip EXCEPT ![a].peristiwa = peristiwa[a].revisi,
                                      ![a].keputusan = 0]
            /\ fase' = [fase EXCEPT ![a] = f]
       ELSE UNCHANGED <<arsip, fase>>
    /\ UNCHANGED <<kasus, keputusan>>

(***************************************************************************)
(* Appraisals.                                                             *)
(***************************************************************************)

CreateAppraisal(a, u, usulan) ==
    /\ RuleContext(a)
    /\ Tersedia(a)
    /\ ~ActiveAppraisal(a)
    /\ keputusan[a].nomor < MaxKeputusan
    /\ kasus' = [kasus EXCEPT ![a] =
         [NoKasus EXCEPT !.status = "open", !.penilai = u, !.usulan = usulan]]
    /\ UNCHANGED <<arsip, fase, peristiwa, keputusan>>

AddAppraisalEvidence(a, u) ==
    /\ kasus[a].status = "open"
    /\ kasus[a].penilai = u
    /\ kasus' = [kasus EXCEPT ![a].bukti = TRUE]
    /\ UNCHANGED <<arsip, fase, peristiwa, keputusan>>

\* submitAppraisal: the rule and the event the case is about are frozen.
SubmitAppraisal(a, u) ==
    /\ kasus[a].status = "open"
    /\ kasus[a].penilai = u
    /\ RuleContext(a)
    /\ Tersedia(a)
    /\ kasus[a].bukti
    /\ PemicuSah(a)
    /\ kasus' = [kasus EXCEPT ![a].status = "in_review",
                              ![a].aturan = arsip[a].aturan,
                              ![a].peristiwa = arsip[a].peristiwa]
    /\ UNCHANGED <<arsip, fase, peristiwa, keputusan>>

\* The submission is still about the current rule and event.
SubmissionCurrent(a) ==
    /\ kasus[a].aturan = arsip[a].aturan
    /\ kasus[a].peristiwa = arsip[a].peristiwa
    /\ PemicuSah(a)

\* finalizeAppraisal with verdict approved: the decision supersedes the
\* latest one and is published.
ApproveAppraisal(a, u) ==
    /\ kasus[a].status = "in_review"
    /\ kasus[a].penilai # u
    /\ RuleContext(a)
    /\ Tersedia(a)
    /\ SubmissionCurrent(a)
    /\ keputusan' = [keputusan EXCEPT ![a] =
         [nomor |-> @.nomor + 1, hasil |-> kasus[a].usulan,
          aturan |-> kasus[a].aturan, peristiwa |-> kasus[a].peristiwa]]
    /\ kasus' = [kasus EXCEPT ![a] = [NoKasus EXCEPT !.status = "approved"]]
    /\ arsip' = [arsip EXCEPT ![a].keputusan = keputusan[a].nomor + 1]
    /\ UNCHANGED <<fase, peristiwa>>

\* finalizeAppraisal with verdict rejected, under a hold or a claim too.
RejectAppraisal(a, u) ==
    /\ kasus[a].status = "in_review"
    /\ kasus[a].penilai # u
    /\ kasus' = [kasus EXCEPT ![a] = [NoKasus EXCEPT !.status = "rejected"]]
    /\ UNCHANGED <<arsip, fase, peristiwa, keputusan>>

AppraisalStep(a, u) ==
    \/ CreateRetentionEvent(a, u)
    \/ \E verdict \in {"verified", "rejected"}, f \in Fase :
         VerifyRetentionEvent(a, u, verdict, f)
    \/ \E usulan \in Usulan[a] : CreateAppraisal(a, u, usulan)
    \/ AddAppraisalEvidence(a, u) \/ SubmitAppraisal(a, u)
    \/ ApproveAppraisal(a, u) \/ RejectAppraisal(a, u)

=============================================================================
