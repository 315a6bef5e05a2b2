---------------------------- MODULE DecisionMakers ----------------------------
(***************************************************************************)
(* The people to contact at one company for one product                    *)
(* (application/decision_makers.py): discovery on the company's pages and  *)
(* at a provider, the search and check of addresses for credits, and the   *)
(* reviews of users, which all evaluate and rank everyone in scope.        *)
(*                                                                         *)
(* A request is one transaction.  It reads its snapshot and its own writes *)
(* only, so that all it does is one step, Land, of a snapshot taken        *)
(* earlier; of a row it writes the columns it has changed.  The evidence   *)
(* is reduced to whether it suffices (module DecisionMakerScoring), and    *)
(* one persona and one address per person are modelled; two people never   *)
(* share an address, a reference, a profile or the key of their name.      *)
(***************************************************************************)
EXTENDS Naturals, FiniteSets, SequencesExt

CONSTANTS
  Rows,        \* rows of contact_candidates, numbered
  People,
  Keyed,       \* of them, those whose name every source spells with the
               \* same name_key, and not the empty one
  Users,       \* requests at work at the same time
  Cases,       \* what evidence and role may amount to
  Limit,       \* max_contacts of the persona
  EmailBudget, \* MAX_EMAIL_OPERATIONS
  MaxFound,    \* bound: people that one search observes
  MaxLandings, \* bound: requests that land
  NoRow, NoRequest

Mails == {"NONE", "UNKNOWN", "UNVERIFIABLE", "INVALID", "VALID"}

(* STATUS_ORDER, without what ranking leaves out.                          *)
StatusOrder == [READY_FOR_DRAFT |-> 0, EMAIL_UNVERIFIED |-> 1,
                CONTACT_FOUND_EMAIL_MISSING |-> 2]
Rankable == DOMAIN StatusOrder

(* ContactCandidate with its ContactEmail: case is what evidence and role  *)
(* amount to ("OPEN" suffices with a verified mailbox), tried the stamp of *)
(* a lookup in suitability_components; status NONE is not evaluated yet.   *)
Candidate ==
  [person : People, ref : BOOLEAN, review : {"NONE", "APPROVED", "EXCLUDED"},
   case : Cases, mail : Mails, tried : BOOLEAN,
   status : Rankable \cup {"NONE", "NOT_RELEVANT", "EXCLUDED"}, rank : 0 .. Limit]

ASSUME CandidateAssumption ==
  /\ Rows \subseteq Nat \ {0} /\ IsFiniteSet(Rows) /\ IsFiniteSet(People)
  /\ Keyed \subseteq People
  /\ "OPEN" \in Cases /\ Cases \subseteq {"WEAK", "OPEN", "STRONG"}
  /\ {EmailBudget, MaxFound, MaxLandings} \subseteq Nat /\ Limit \in Nat \ {0}
  /\ NoRow \notin Candidate /\ NoRequest \notin [Rows -> Candidate \cup {NoRow}]

VARIABLES
  contacts,  \* contacts[r]: the committed row r, or NoRow
  request,   \* request[u]: the snapshot of u's open request, or NoRequest
  landings,  \* bound: requests that landed
  agreed,    \* history: the last change evaluated everyone it should have
  raced,     \* history: a request landed after its snapshot had changed
  answered,  \* history: rows whose unforced lookup was answered
  askedAgain \* history: one of those was looked up again, unforced

contactVars == <<contacts, request, landings, agreed, raced, answered, askedAgain>>

-----------------------------------------------------------------------------
In(t) == {r \in Rows : t[r] # NoRow}

Suffices(c) == c.case = "STRONG" \/ (c.case = "OPEN" /\ c.mail = "VALID")

(* contact_status.                                                         *)
StatusOf(c) ==
  IF c.review = "EXCLUDED" THEN "EXCLUDED"
  ELSE IF c.review # "APPROVED" /\ ~Suffices(c) THEN "NOT_RELEVANT"
  ELSE IF c.mail \in {"NONE", "INVALID"} THEN "CONTACT_FOUND_EMAIL_MISSING"
  ELSE IF c.mail = "VALID" THEN "READY_FOR_DRAFT" ELSE "EMAIL_UNVERIFIED"

(* The approved first, then the better evidence, then the status.          *)
Merit(c) ==
  (IF c.review = "APPROVED" THEN 0 ELSE 20) + (IF Suffices(c) THEN 0 ELSE 10)
    + StatusOrder[c.status]

(* Mutant: one person too many.                                            *)
RankOfOneMore(t, r) ==
  IF t[r].status \notin Rankable THEN 0
  ELSE 1 + Cardinality({s \in In(t) : t[s].status \in Rankable /\ Merit(t[s]) < Merit(t[r])})

(* The place of r among those who can be contacted, or 0; names break a    *)
(* tie, here the row.                                                      *)
RankOf(t, r) ==
  IF t[r].status \notin Rankable THEN 0
  ELSE LET better == {s \in In(t) :
             /\ t[s].status \in Rankable
             /\ \/ Merit(t[s]) < Merit(t[r])
                \/ Merit(t[s]) = Merit(t[r]) /\ s < r}
       IN IF Cardinality(better) < Limit THEN 1 + Cardinality(better) ELSE 0

Ranked(t) == [r \in Rows |-> IF t[r] = NoRow THEN NoRow
                             ELSE [t[r] EXCEPT !.rank = RankOf(t, r)]]

(* _evaluate: everyone whose role is resolved, whoever the request was for.*)
Evaluated(t) ==
  Ranked([r \in Rows |-> IF t[r] = NoRow \/ t[r].status = "NONE" THEN t[r]
                         ELSE [t[r] EXCEPT !.status = StatusOf(t[r])]])

RowsOf(t, p) == {r \in In(t) : t[r].person = p}

(* Mutant: no one is looked for by name.                                   *)
ExistingByReference(t, p, provider, mailed) ==
  LET known == {r \in RowsOf(t, p) : provider /\ t[r].ref} IN
  IF known # {} THEN known ELSE {0}

(* _find_existing, of p observed with or without an address: the rows it   *)
(* may return, 0 for none.  By address; by the provider's reference; by    *)
(* profile or name, which finds people whose name has one key, and others  *)
(* only by chance.                                                         *)
Existing(t, p, provider, mailed) ==
  LET byMail == {r \in RowsOf(t, p) : mailed /\ t[r].mail # "NONE"}
      byReference == {r \in RowsOf(t, p) : provider /\ t[r].ref}
  IN IF byMail # {} THEN byMail
     ELSE IF byReference # {} THEN byReference
     ELSE IF p \in Keyed /\ RowsOf(t, p) # {} THEN RowsOf(t, p)
     ELSE RowsOf(t, p) \cup {0}

Lowest(S) == CHOOSE r \in S : \A s \in S : r <= s

(* A new row; a reference someone else in the organization has is left out.*)
NewRow(p, ref) ==
  [person |-> p, ref |-> ref, review |-> "NONE", case |-> "OPEN", mail |-> "NONE",
   tried |-> FALSE, status |-> "NONE", rank |-> 0]

(* Row r as it is, with the mail an observation leaves it with.            *)
RowReported(x, r, row, mailed) ==
  {[table |-> [x.table EXCEPT ![r] = [row EXCEPT !.mail = m]], seen |-> x.seen \cup {r}] :
     m \in IF ~mailed THEN {row.mail}
           ELSE {"VALID", IF row.mail = "NONE" THEN "UNKNOWN" ELSE row.mail}}

FreeRows(t) == {r \in Rows : t[r] = NoRow /\ contacts[r] = NoRow}

Inserted(x, p, provider, mailed) ==
  IF FreeRows(x.table) = {} THEN {}
  ELSE UNION {RowReported(x, Lowest(FreeRows(x.table)), NewRow(p, ref), mailed) :
                ref \in {FALSE, provider}}

(* _merge: p is observed, and, by the provider, perhaps with an address    *)
(* and its verification.  x is the table so far and the rows observed.     *)
MergedWith(x, p, provider, mailed) ==
  UNION {IF r = 0 THEN Inserted(x, p, provider, mailed)
         ELSE RowReported(x, r, x.table[r], mailed) : r \in Existing(x.table, p, provider, mailed)}

Merged(x, p, provider) ==
  UNION {MergedWith(x, p, provider, mailed) : mailed \in {FALSE, provider}}

(* What a run has observed: the pages first, then the provider.            *)
Observed(X, people, provider) ==
  FoldSet(LAMBDA p, Y : UNION {Merged(x, p, provider) : x \in Y}, X, people)

(* _resolve_roles: of rows S, and of everyone not resolved before.         *)
Resolved(t, S) ==
  LET targets == {r \in In(t) : r \in S \/ t[r].status = "NONE"}
  IN {[r \in Rows |-> IF r \in targets
                      THEN [t[r] EXCEPT !.case = case[r], !.status = "NOT_RELEVANT"]
                      ELSE t[r]] :
        case \in [targets -> Cases]}

(* Email operations on a table: what is left of the budget, and whom the   *)
(* provider was asked about and answered.                                  *)
Mailing(t) == [table |-> t, left |-> EmailBudget, asked |-> {}, told |-> {}]

(* _find_email: an error leaves no stamp.                                  *)
Found(x, r) ==
  LET spent == [x EXCEPT !.left = @ - 1, !.asked = @ \cup {r}]
      told(m) == [spent EXCEPT !.told = @ \cup {r}, !.table[r].tried = TRUE,
                               !.table[r].mail = m]
  IN {spent} \cup {told(m) : m \in {x.table[r].mail, "UNKNOWN", "VALID"}}

(* _verify: an error leaves the address as it was.                         *)
Verified(x, r) ==
  {[x EXCEPT !.left = @ - 1, !.table[r].mail = m] :
     m \in {"UNVERIFIABLE", "INVALID", "VALID", x.table[r].mail}}

(* A verified address is kept, and one that was just checked.              *)
ToVerify(c, force) == c.mail # "NONE" /\ (force \/ c.mail = "UNKNOWN")

(* _email_phase, of one person.                                            *)
Mailed(x, r, force) ==
  LET c == x.table[r]
      found == IF x.left > 0 /\ c.mail = "NONE" /\ (force \/ ~c.tried)
               THEN Found(x, r) ELSE {x}
  IN UNION {IF y.left > 0 /\ ToVerify(y.table[r], force) THEN Verified(y, r) ELSE {y} :
              y \in found}

EmailPhase(t, force) ==
  LET ranked == {r \in In(t) : t[r].rank # 0}
      order == [i \in 1 .. Cardinality(ranked) |-> CHOOSE r \in ranked : t[r].rank = i]
  IN FoldLeft(LAMBDA X, r : UNION {Mailed(x, r, force) : x \in X}, {Mailing(t)}, order)

-----------------------------------------------------------------------------
ContactInit ==
  /\ contacts = [r \in Rows |-> NoRow]
  /\ request = [u \in Users |-> NoRequest]
  /\ landings = 0 /\ agreed = TRUE /\ raced = FALSE
  /\ answered = {} /\ askedAgain = FALSE

BeginRequest(u) ==
  /\ request[u] = NoRequest /\ landings < MaxLandings
  /\ request' = [request EXCEPT ![u] = contacts]
  /\ UNCHANGED <<contacts, landings, agreed, raced, answered, askedAgain>>

(* A column as it is now, unless the request has changed it.               *)
Column(base, view, now) == IF view = base THEN now ELSE view

(* suitability_components is one column, of the stamp and the scores.      *)
Components(c) == <<c.tried, c.case, c.mail \in {"NONE", "INVALID"}, c.mail = "VALID">>

(* Mutant: every column is written.                                        *)
RowWrittenWhole(base, view, now) == view

RowWritten(base, view, now) ==
  [now EXCEPT
     !.review = Column(base.review, view.review, @),
     !.case = Column(base.case, view.case, @),
     !.mail = Column(base.mail, view.mail, @),
     !.tried = IF Components(view) = Components(base) THEN @ ELSE view.tried,
     !.status = Column(base.status, view.status, @),
     !.rank = Column(base.rank, view.rank, @)]

(* The commit; a person known by reference, or an address, that someone    *)
(* else has inserted meets a unique key.                                   *)
Land(u, view) ==
  LET base == request[u] IN
  /\ landings' = landings + 1
  /\ \A r \in In(view) \ In(base) :
       view[r].ref => ~ \E s \in In(contacts) \ In(base) :
                          contacts[s].ref /\ contacts[s].person = view[r].person
  /\ \A r \in In(base) :
       base[r].mail = "NONE" /\ view[r].mail # "NONE" => contacts[r].mail = "NONE"
  /\ contacts' = [r \in Rows |->
       IF view[r] = NoRow THEN contacts[r]
       ELSE IF base[r] = NoRow THEN view[r]
       ELSE RowWritten(base[r], view[r], contacts[r])]
  /\ request' = [request EXCEPT ![u] = NoRequest]
  /\ agreed' = (base = contacts)
  /\ raced' = (raced \/ base # contacts)

Working(u) == request[u] # NoRequest /\ landings < MaxLandings

(* A request that fails, or a crash, leaves nothing.                       *)
DropRequest(u) ==
  /\ request[u] # NoRequest
  /\ request' = [request EXCEPT ![u] = NoRequest]
  /\ UNCHANGED <<contacts, landings, agreed, raced, answered, askedAgain>>

(* discover: what the pages show, what the provider knows for credits,     *)
(* roles, and, for credits, addresses.                                     *)
DiscoverPeople(u, web, provider, force) ==
  /\ Working(u)
  /\ \E merged \in Observed(Observed({[table |-> request[u], seen |-> {}]}, web, FALSE),
                            provider, TRUE) :
     \E resolved \in Resolved(merged.table, IF force THEN In(merged.table) ELSE merged.seen) :
       \/ /\ provider = {} /\ \E view \in {Evaluated(resolved)} : Land(u, view)
          /\ UNCHANGED <<answered, askedAgain>>
       \/ \E x \in UNION {EmailPhase(t, force) : t \in {Evaluated(resolved)}} :
            /\ \E view \in {Evaluated(x.table)} : Land(u, view)
            /\ answered' = IF force THEN answered ELSE answered \cup x.told
            /\ askedAgain' = (askedAgain \/ (~force /\ x.asked \cap answered # {}))

(* Mutant: only the contact itself is evaluated again.                     *)
ReevaluatedAlone(t, r) ==
  {[t EXCEPT ![r].status = StatusOf(x[r])] :
     x \in IF t[r].status = "NONE" THEN Resolved(t, {r}) ELSE {t}}

(* _reevaluate, after a user has changed r.                                *)
Reevaluated(t, r) ==
  {Evaluated(x) : x \in IF t[r].status = "NONE" THEN Resolved(t, {r}) ELSE {t}}

(* review: APPROVE, EXCLUDE or RESET.                                      *)
ReviewContact(u, r, verdict) ==
  /\ Working(u) /\ r \in In(request[u])
  /\ \E view \in Reevaluated([request[u] EXCEPT ![r].review = verdict], r) : Land(u, view)
  /\ UNCHANGED <<answered, askedAgain>>

(* find_email and verify_email of a user are forced.                       *)
MailContact(u, r) ==
  /\ Working(u) /\ r \in In(request[u])
  /\ LET t == request[u]
         done == Found(Mailing(t), r) \cup
                 (IF t[r].mail = "NONE" THEN {} ELSE Verified(Mailing(t), r))
     IN \E x \in done : \E view \in Reevaluated(x.table, r) : Land(u, view)
  /\ UNCHANGED <<answered, askedAgain>>

(* ContactDiscoveryService.find_email and verify_email, of the older       *)
(* contacts interface, evaluate no one.                                    *)
MailOutside(r, m) ==
  /\ landings < MaxLandings /\ landings' = landings + 1
  /\ r \in In(contacts)
  /\ m \in IF contacts[r].mail = "NONE" THEN {"UNKNOWN"}
           ELSE {"UNVERIFIABLE", "INVALID", "VALID"}
  /\ contacts' = [contacts EXCEPT ![r].mail = m]
  /\ agreed' = FALSE
  /\ UNCHANGED <<request, raced, answered, askedAgain>>

SomeReview ==
  \E u \in Users, r \in Rows, verdict \in {"NONE", "APPROVED", "EXCLUDED"} :
    ReviewContact(u, r, verdict)

ContactNext ==
  \/ SomeReview
  \/ \E u \in Users :
       \/ BeginRequest(u) \/ DropRequest(u)
       \/ \E web, provider \in SUBSET People, force \in BOOLEAN :
            Cardinality(web \cup provider) <= MaxFound
              /\ DiscoverPeople(u, web, provider, force)
       \/ \E r \in Rows : MailContact(u, r)
  \/ \E r \in Rows, m \in Mails : MailOutside(r, m)

ContactSpec == ContactInit /\ [][ContactNext]_contactVars

-----------------------------------------------------------------------------
(* Every variable keeps its type.                                          *)
ContactTypeOK ==
  /\ contacts \in [Rows -> Candidate \cup {NoRow}]
  /\ DOMAIN request = Users
  /\ landings \in 0 .. MaxLandings
  /\ {agreed, raced, askedAgain} \subseteq BOOLEAN
  /\ answered \subseteq Rows

(* After a request that met no other, every status, and every rank of the  *)
(* persona, is what the columns it is computed from amount to; whatever a  *)
(* race has left behind is put right.                                      *)
StatusesAgree ==
  agreed => \A r \in In(contacts) :
    /\ contacts[r].status # "NONE" => contacts[r].status = StatusOf(contacts[r])
    /\ contacts[r].rank = RankOf(contacts, r)

(* A user's verdict on a person is only changed by a user's review:        *)
(* discovery and address checks that read the row before it do not undo it.*)
ReviewStands ==
  [][(\E r \in In(contacts) : contacts'[r].review # contacts[r].review)
       => SomeReview]_contactVars

(* A person whose name has one key, or whom the provider knows, has one    *)
(* row, unless two requests raced to insert it.                            *)
TwinsNeedARace ==
  ~raced => \A r, s \in In(contacts) :
    /\ contacts[r].person = contacts[s].person
    /\ contacts[r].person \in Keyed \/ (contacts[r].ref /\ contacts[s].ref)
    => r = s

(* A lookup of a row that was answered is not paid for again by an         *)
(* unforced run, unless a racing request has overwritten its stamp.        *)
LookupsAreRemembered == askedAgain => raced

(* What requests that do not overlap never do.                             *)
OnlyRacesLose == TwinsNeedARace /\ LookupsAreRemembered
=============================================================================
