------------------------------ MODULE MCWorkflow ------------------------------
(* The guarded workflow and the arithmetic of fit for TLC.  A behaviour     *)
(* focuses on one question: "alone", one worker and users in between;       *)
(* "together", a second request that began before anything was stored and   *)
(* lands at any time; "profiles", users only, who revise; "evidence", users *)
(* only, who observe and review; "scores", tables of evaluated criteria.    *)
EXTENDS Orchestration, FitScoring, TLC

CONSTANTS a, b

(* For the profile and the criteria that a behaviour begins with.          *)
ASSUME MCAssumption == IcpNames # {} /\ 1 \in Weights

VARIABLE focus

mcVars == <<focus, results, flowVars>>

MCIcp == [lineage |-> 1, name |-> CHOOSE n \in IcpNames : TRUE, version |-> 1,
          active |-> TRUE, born |-> 0]

MCBare == [i \in CriterionIds |->
  [weight |-> 1, required |-> FALSE,
   outcome |-> [result |-> "UNKNOWN", quality |-> "CURRENT"]]]

(* Three observations, by rank: the second contradicts the others, and is   *)
(* of the least confidence that counts.                                     *)
MCValueOf == [f \in Facts |-> f % 2]
MCConfidenceOf == [f \in Facts |-> IF f = 2 THEN 60 ELSE 80]

(* Edits left: five of observations, four of profiles, two for one worker    *)
(* over known facts, one otherwise.                                         *)
MCInit ==
  /\ focus \in {"alone", "together", "profiles", "evidence", "scores"}
  /\ icps = [r \in Revisions |-> IF r = 1 THEN MCIcp ELSE NoRow]
  /\ known \in SUBSET (Facts \cap {1})
  /\ age = [f \in Facts |-> "FRESH"]
  /\ known # {} => focus \in {"alone", "profiles"}
  /\ focus = "profiles" => known # {}
  /\ pinned = NoReview /\ fits = {} /\ quals = {} /\ tick = 0
  /\ personaMode \in BOOLEAN /\ (personaMode \/ focus = "alone")
  /\ contacts = {} /\ searches = {} /\ expired = 0
  /\ work = [w \in Workers |-> NoWork]
  /\ edits = MaxEdits - CASE focus = "evidence" -> 5
                         [] focus = "profiles" -> 4
                         [] focus = "alone" -> IF personaMode /\ known # {} THEN 2 ELSE 1
                         [] OTHER -> 0
  /\ IF focus = "scores" THEN ScoringInit ELSE results = MCBare

(* Users stop early enough for the workflow to have time left; there is one *)
(* observation, which they may approve.  Of two revisions that they add,    *)
(* the first keeps the profile's name and the later has the lower id, so    *)
(* that the services may differ on them, which ends after two assessments.  *)
MCFlow ==
  /\ focus \in {"alone", "together"} /\ FlowNext /\ UNCHANGED <<focus, results>>
  /\ edits' # edits => tick <= LastTick - 8
  /\ icps'[2] # NoRow => icps'[3] # NoRow
  /\ icps'[3] # NoRow /\ icps'[3].lineage = 1 => icps'[3].name = MCIcp.name
  /\ Disputed => Cardinality(fits') <= 2
  /\ known' \subseteq {1} /\ pinned'.action \in {"NONE", "APPROVE"}
  /\ \A w \in Workers : work'[w] = NoWork \/ work'[w].view.known \subseteq {1}
  /\ work[b] = NoWork /\ work'[b] # NoWork =>
       focus = "together" /\ fits = {} /\ work'[b].credits

MCUsers ==
  /\ Edit /\ LeadNext /\ UNCHANGED <<focus, results, workVars>>
  /\ \/ focus = "profiles" /\ UNCHANGED <<known, age, pinned>>
     \/ focus = "evidence" /\ UNCHANGED icps

MCNext ==
  \/ MCFlow
  \/ MCUsers
  \/ focus = "scores" /\ ScoringNext /\ UNCHANGED <<focus, flowVars>>

(* A request that is open takes its next step.                              *)
MCSpec ==
  /\ MCInit /\ [][MCNext]_mcVars
  /\ WF_mcVars(/\ focus \in {"alone", "together"}
               /\ \E w \in Workers : Proceed(w)
               /\ UNCHANGED <<focus, results, edits>>)
-----------------------------------------------------------------------------
(* Every variable keeps its type.                                          *)
WorkflowTypeOK == FlowTypeOK /\ ScoringTypeOK
=============================================================================
