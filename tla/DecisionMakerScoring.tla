------------------------- MODULE DecisionMakerScoring -------------------------
(***************************************************************************)
(* What is concluded of one person (application/decision_maker_scoring.py):*)
(* employment, suitability and contact status, from evidence, addresses,   *)
(* the match of the role and the review of a user; and whom drafting and   *)
(* sending refuse (targeting_block_reason, legacy_role_match).             *)
(*                                                                         *)
(* The state is one such dossier, a step is a new result for an address.   *)
(***************************************************************************)
EXTENDS Naturals, FiniteSets, FiniteSetsExt

CONSTANTS
  Items,       \* the evidence there may be
  MaxEvidence  \* bound: items in a dossier

(* ContactEvidence: the company's website, a provider's record or one of   *)
(* its source pages.  The titles T1 and T2 conflict; listed is             *)
(* still_on_page, recent that a website was read within its window (when a *)
(* provider last saw the person changes no result).                        *)
Item == [source : {"WEBSITE", "RECORD", "PAGE"}, url : Nat, listed : {"YES", "NO", "UNKNOWN"},
         recent : BOOLEAN, title : {"NONE", "T1", "T2", "FORMER"}]

Results == {"VALID", "UNVERIFIED", "INVALID"}

Dossier ==
  [evidence : UNION {kSubset(n, Items) : n \in 0 .. MaxEvidence},
   mails : SUBSET Results,
   role : {"HIGH", "MEDIUM", "LOW", "NONE"},
   review : {"NONE", "APPROVED", "EXCLUDED"}]

ASSUME DossierAssumption ==
  Items \subseteq Item /\ IsFiniteSet(Items) /\ MaxEvidence \in Nat

VARIABLE dossier

-----------------------------------------------------------------------------
Website(d) == {e \in d.evidence : e.source = "WEBSITE"}
Official(d) == {e \in Website(d) : e.listed # "NO"}
Provider(d) == d.evidence \ Website(d)
Delisted(d) == Website(d) # {} /\ Official(d) = {}

TitlesConflict(d) ==
  \E e \in Official(d), f \in Provider(d) :
    {e.title, f.title} = {"T1", "T2"}

Gone(d) ==
  /\ \E e \in Provider(d) : e.listed = "NO"
  /\ \A e \in Provider(d) : e.listed # "YES"

(* Mutant: a verified mailbox is taken for a rejected one.                 *)
RejectedWhenValid(d) == "VALID" \in d.mails

(* Every address is rejected.                                              *)
Rejected(d) == d.mails = {"INVALID"}

(* A page of the provider still lists the person.                          *)
StillListed(d) == \E e \in Provider(d) : e.listed = "YES"

Employment(d) ==
  IF \E e \in d.evidence : e.title = "FORMER" THEN "FORMER"
  ELSE IF TitlesConflict(d) THEN "CONFLICTING"
  ELSE IF \E e \in Official(d) : e.recent THEN "CURRENT_CONFIRMED"
  ELSE IF Rejected(d) /\ (Delisted(d) \/ Provider(d) = {} \/ Gone(d)) THEN "FORMER"
  ELSE IF \/ StillListed(d)
          \/ "VALID" \in d.mails /\ Provider(d) # {}
       THEN "CURRENT_LIKELY"
  ELSE "CURRENT_UNCERTAIN"

(* independent_sources: by kind and address.                               *)
Sources(d) == Cardinality({<<e.source, e.url>> : e \in d.evidence})

BestMail(d) ==
  IF d.mails = {} THEN "NONE"
  ELSE IF "VALID" \in d.mails THEN "VALID"
  ELSE IF "UNVERIFIED" \in d.mails THEN "UNVERIFIED" ELSE "INVALID"

RolePoints == [HIGH |-> 40, MEDIUM |-> 25, LOW |-> 10, NONE |-> 0]

EmploymentPoints ==
  [CURRENT_CONFIRMED |-> 30, CURRENT_LIKELY |-> 20, CURRENT_UNCERTAIN |-> 8,
   FORMER |-> 0, CONFLICTING |-> 0]

MailPoints == [VALID |-> 15, UNVERIFIED |-> 7, INVALID |-> 0, NONE |-> 0]

Points(d) ==
  RolePoints[d.role] + EmploymentPoints[Employment(d)]
    + 5 * (IF Sources(d) > 3 THEN 3 ELSE Sources(d)) + MailPoints[BestMail(d)]

(* suitability: rules before scores.                                       *)
SuitabilityOf(d) ==
  CASE d.role = "NONE" \/ Employment(d) = "FORMER" -> "LOW"
    [] d.role # "NONE" /\
       \/ Employment(d) = "CONFLICTING"
       \/ Employment(d) = "CURRENT_UNCERTAIN" /\ Sources(d) < 2 -> "INSUFFICIENT_EVIDENCE"
    [] OTHER -> CASE Points(d) >= 70 /\ d.role = "HIGH" -> "HIGH"
                  [] Points(d) >= 45 /\ d.role = "MEDIUM" -> "MEDIUM"
                  [] Points(d) \in 45 .. 69 /\ d.role = "HIGH" -> "MEDIUM"
                  [] OTHER -> "LOW"

(* Mutant: an address that is not refused will do.                         *)
ContactStatusUnverified(d) ==
  IF d.review = "EXCLUDED" THEN "EXCLUDED"
  ELSE IF BestMail(d) \in {"VALID", "UNVERIFIED"} /\ SuitabilityOf(d) \in {"HIGH", "MEDIUM"}
       THEN "READY_FOR_DRAFT" ELSE "EMAIL_UNVERIFIED"

ContactStatus(d) ==
  IF d.review = "EXCLUDED" THEN "EXCLUDED"
  ELSE IF /\ d.review # "APPROVED"
          /\ \/ d.role \in {"NONE", "LOW"} \/ Employment(d) = "FORMER"
             \/ SuitabilityOf(d) = "LOW"
       THEN "NOT_RELEVANT"
  ELSE IF d.review # "APPROVED" /\ SuitabilityOf(d) = "INSUFFICIENT_EVIDENCE"
       THEN "INSUFFICIENT_EVIDENCE"
  ELSE IF BestMail(d) \in {"NONE", "INVALID"} THEN "CONTACT_FOUND_EMAIL_MISSING"
  ELSE IF BestMail(d) = "VALID" THEN "READY_FOR_DRAFT" ELSE "EMAIL_UNVERIFIED"

(* legacy_role_match, as far as the gates of drafts ask.                   *)
Aligned(d) == d.review # "EXCLUDED" /\ (d.role \in {"HIGH", "MEDIUM"} \/ d.review = "APPROVED")

(* targeting_block_reason.                                                 *)
Blocked(d) ==
  \/ d.review = "EXCLUDED"
  \/ d.review # "APPROVED" /\ Employment(d) \in {"FORMER", "CONFLICTING"}

-----------------------------------------------------------------------------
DossierInit == dossier \in Dossier

(* An address is found, or one is checked.                                 *)
LearnMail(mails) ==
  /\ \E result \in Results : \E old \in SUBSET dossier.mails :
       Cardinality(old) <= 1 /\ mails = (dossier.mails \ old) \cup {result}
  /\ mails # dossier.mails
  /\ dossier' = [dossier EXCEPT !.mails = mails]

DossierNext == \E mails \in SUBSET Results : LearnMail(mails)

DossierSpec == DossierInit /\ [][DossierNext]_dossier

-----------------------------------------------------------------------------
(* Every dossier is one, and its score is in range.                        *)
DossierTypeOK == dossier \in Dossier /\ Points(dossier) \in 0 .. 100

(* Two tables written apart agree: whoever is READY_FOR_DRAFT passes the   *)
(* gates of drafting and sending, and, unless a user approved, has a role  *)
(* that matches and at least two sources or one that lists the person.     *)
ReadyIsTargetable ==
  ContactStatus(dossier) = "READY_FOR_DRAFT" =>
    /\ "VALID" \in dossier.mails /\ Aligned(dossier) /\ ~Blocked(dossier)
    /\ \/ dossier.review = "APPROVED"
       \/ /\ Employment(dossier) \notin {"FORMER", "CONFLICTING"}
          /\ \/ Sources(dossier) >= 2
             \/ Provider(dossier) # {} \/ \E e \in Official(dossier) : e.recent

StatusRank ==
  [READY_FOR_DRAFT |-> 5, EMAIL_UNVERIFIED |-> 4, CONTACT_FOUND_EMAIL_MISSING |-> 3,
   INSUFFICIENT_EVIDENCE |-> 2, NOT_RELEVANT |-> 1, EXCLUDED |-> 0]

(* A verified mailbox never hurts: when an address turns out to be valid,  *)
(* no rule on employment, grade or status puts the person lower.           *)
VerifiedMailNeverHurts ==
  [][/\ "VALID" \notin dossier.mails /\ "VALID" \in dossier'.mails
     => StatusRank[ContactStatus(dossier')] >= StatusRank[ContactStatus(dossier)]]_dossier
=============================================================================
