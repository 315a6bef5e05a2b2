---------------------------- MODULE MCProspecting ----------------------------
(* The scheduled work for TLC: discovery rules and automation policies.     *)
(* They share no state, so that a behaviour focuses on one of them.  Each   *)
(* criteria matches the same three companies; rule 1, and perhaps rule 2,    *)
(* searches with the AI source at first.                                    *)
EXTENDS CompanyDiscovery, AutomationPolicies, TLC

VARIABLE focus

scheduleVars == <<focus, discoveryVars, policyVars>>

MCCatalogue == [c \in Criteria |-> <<"d1", "d2", "d3">>]

MCInit ==
  /\ focus \in {"rules", "policies"}
  /\ DiscoveryInit /\ PolicyInit
  /\ IF focus = "rules"
     THEN /\ rules[1] # NoRule /\ rules[1].criteria \in PaidCriteria
          /\ rules[2] = NoRule \/ rules[2].criteria \in PaidCriteria
          /\ policies = [s \in Scopes |-> NoPolicy]
     ELSE /\ policies[1] # NoPolicy
          /\ rules = [r \in Rules |-> NoRule]

MCNext ==
  \/ focus = "rules" /\ DiscoveryNext /\ UNCHANGED <<focus, policyVars>>
  \/ focus = "policies" /\ PolicyNext /\ UNCHANGED <<focus, discoveryVars>>

(* The scheduler starts a job again while something is due, and somewhere  *)
(* a transaction that does not wait takes its next step.                   *)
MCProgress ==
  \/ /\ focus = "rules" /\ UNCHANGED <<focus, policyVars>>
     /\ StartBatch \/ \E a \in SearchActors : ProceedSearch(a)
  \/ /\ focus = "policies" /\ UNCHANGED <<focus, discoveryVars>>
     /\ \/ BeginDue(Cron)
        \/ \E e \in Executors : ProceedDue(e) \/ BreakDeadlock(e)

(* A batch of policies that is granted its rows now and then goes on.      *)
MCSpec ==
  /\ MCInit /\ [][MCNext]_scheduleVars
  /\ WF_scheduleVars(MCProgress)
  /\ \A e \in Executors :
       SF_scheduleVars(focus = "policies" /\ ProceedDue(e) /\ UNCHANGED <<focus, discoveryVars>>)

-----------------------------------------------------------------------------
(* Every variable keeps its type.                                          *)
ProspectingTypeOK == DiscoveryTypeOK /\ PolicyTypeOK
=============================================================================
