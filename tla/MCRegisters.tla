----------------------------- MODULE MCRegisters -----------------------------
(* What an organization records about companies, people and mail, for TLC.  *)
(* The modules share no state: a behaviour focuses on one of them, and the  *)
(* others keep a first state.  People have two focuses: "pair", two people  *)
(* and two requests, and "person", one person and more of them.             *)
EXTENDS Engagement, CurrentFacts, Companies, LoginThrottle, PaidCalls, Personas,
        DecisionMakers, DecisionMakerScoring, TLC

CONSTANTS p, q,
  MaxPairLandings  \* bound: landings in the focus "pair"

ASSUME MCRegistersAssumption ==
  /\ PersonaIds \subseteq Nat
  /\ Rows = {1, 2} /\ {"OPEN", "STRONG"} \subseteq Cases
  /\ p # q /\ {p, q} \subseteq People /\ p \in Keyed

VARIABLE focus

registerVars ==
  <<focus, engagementVars, factVars, companyVars, throttleVars, paidVars, personaVars,
    contactVars, dossier>>

MCAddressOf == [a \in Attempts |-> CHOOSE x \in Addresses : TRUE]

MCReported == {"DELIVERED", "BOUNCED", "REPLIED", "POSITIVE_REPLY"}

MCEventKeys == ManualKeys \cup WebhookKeys

MCItems ==
  [source : {"WEBSITE"}, url : {1}, listed : {"YES", "NO"}, recent : BOOLEAN,
   title : {"NONE", "T1", "FORMER"}]
  \cup [source : {"RECORD"}, url : {0}, listed : {"UNKNOWN"}, recent : {FALSE},
        title : {"NONE", "T1", "T2"}]
  \cup [source : {"PAGE"}, url : {2, 3}, listed : {"YES", "NO", "UNKNOWN"},
        recent : {FALSE}, title : {"NONE"}]

(* Lists of personas met before: none, or one or two rows.                 *)
MCLists ==
  {[i \in PersonaIds |-> IF i \in DOMAIN names THEN names[i] ELSE NoPersona] :
     names \in {names \in UNION {[1 .. n -> PersonaNames] : n \in 0 .. MaxPersonas} :
                  \A i, j \in DOMAIN names : names[i] = names[j] => i = j}}

(* Ids of new rows are nothing but distinct: the first that are free.      *)
MCFirstFresh ==
  \A u \in Editors \ Replacing :
    replacement'[u] # NoReplacement =>
      LET new == DOMAIN replacement'[u].asked \ Stored(personas)
      IN \A i \in FreshRows, j \in new : i < j => i \in new

MCNobody == [evidence |-> {}, mails |-> {}, role |-> "NONE", review |-> "NONE"]

(* People met before: p in row 1, perhaps after a lookup that found no      *)
(* address, and q in row 2, known by the website only.                      *)
MCKnown(person, ref, case, mail, tried) ==
  [person |-> person, ref |-> ref, review |-> "NONE", case |-> case, mail |-> mail,
   tried |-> tried, status |-> "NOT_RELEVANT", rank |-> 0]

MCMet(two, case, tried, mail) ==
  Evaluated([r \in Rows |->
    IF r = 1 THEN MCKnown(p, TRUE, case, "NONE", tried)
    ELSE IF two THEN MCKnown(q, FALSE, "STRONG", mail, FALSE) ELSE NoRow])

MCTables(two) ==
  {MCMet(two, case, tried, mail) :
     case \in {"OPEN", "STRONG"}, tried \in BOOLEAN,
     mail \in IF two THEN {"NONE", "VALID"} ELSE {"NONE"}}

MCPeopleInit ==
  /\ contacts \in IF focus \notin {"pair", "person"} THEN {[r \in Rows |-> NoRow]}
                  ELSE {[r \in Rows |-> NoRow]} \cup MCTables(focus = "pair")
  /\ answered = {r \in In(contacts) : contacts[r].tried}
  /\ request = [u \in Users |-> NoRequest]
  /\ landings = 0 /\ agreed = TRUE /\ raced = FALSE /\ askedAgain = FALSE

MCInit ==
  /\ focus \in {"engagement", "facts", "companies", "throttle", "paid", "personas",
                "dossier", "pair", "person"}
  /\ EngagementInit /\ FactInit /\ CompanyInit /\ ThrottleInit /\ PaidInit /\ PersonaInit
  /\ focus # "facts" => facts = {[owner |-> Shared, rank |-> 1]}
  /\ focus # "companies" => companies = [d \in Domains |-> NoCompany]
  /\ focus # "paid" => operation = "ENRICH"
  /\ personas \in IF focus = "personas" THEN MCLists ELSE {[i \in PersonaIds |-> NoPersona]}
  /\ dossier \in IF focus = "dossier" THEN Dossier ELSE {MCNobody}
  /\ MCPeopleInit

MCPeople ==
  \/ focus = "pair" /\ landings < MaxPairLandings /\ ContactNext
  \/ /\ focus = "person"
     /\ \/ SomeReview
        \/ \E u \in Users :
             \/ BeginRequest(u) \/ DropRequest(u) \/ MailContact(u, 1)
             \/ \E web, provider \in {{}, {p}}, force \in BOOLEAN :
                  DiscoverPeople(u, web, provider, force)
        \/ \E m \in Mails : MailOutside(1, m)
     /\ contacts'[2] = NoRow

MCNext ==
  /\ UNCHANGED focus
  /\ IF focus = "engagement" THEN EngagementNext ELSE UNCHANGED engagementVars
  /\ IF focus = "facts" THEN FactNext ELSE UNCHANGED factVars
  /\ IF focus = "companies" THEN CompanyNext ELSE UNCHANGED companyVars
  /\ IF focus = "throttle" THEN ThrottleNext ELSE UNCHANGED throttleVars
  /\ IF focus = "paid" THEN PaidNext ELSE UNCHANGED paidVars
  /\ IF focus = "personas" THEN PersonaNext /\ MCFirstFresh ELSE UNCHANGED personaVars
  /\ IF focus = "dossier" THEN DossierNext ELSE UNCHANGED dossier
  /\ IF focus \in {"pair", "person"} THEN MCPeople ELSE UNCHANGED contactVars

MCSpec == MCInit /\ [][MCNext]_registerVars

-----------------------------------------------------------------------------
(* Every register keeps its type.                                          *)
RegistersTypeOK == EngagementTypeOK /\ ContactTypeOK /\ DossierTypeOK

(* What is on record stands: the verdict on a mail, a user's on a person   *)
(* and on a fact of a company, and a shared value of a company.            *)
RecordsStand ==
  VerdictStands /\ ReviewStands /\ ReviewedSelectionStands /\ SharedValuesStand

(* A request does what it was asked to, but for what another inserted      *)
(* since it read the table, and what it reports: the personas of a         *)
(* product, and an import.                                                 *)
RequestsAreHonest == RenamesNeverCollide /\ ListIsWhatWasAsked /\ ReportIsTrue

(* What was paid for and what has failed is counted, once.                 *)
CountersAreHonest ==
  AttemptsAreRecorded /\ KeptAnswersAreReused /\ CountIsHonest /\ LoneFailuresCount
=============================================================================
