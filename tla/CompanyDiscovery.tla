-------------------------- MODULE CompanyDiscovery --------------------------
(***************************************************************************)
(* Scheduled company discovery (application/discovery.py): rules that      *)
(* search a provider page by page, add what is new to the tenant's list,   *)
(* and pay for AI searches out of a daily budget.                          *)
(*                                                                         *)
(* The cron job runs its batch of due rules in one transaction; a user's   *)
(* request (run a rule now, preview, add, create, update) is one too.  A   *)
(* transaction reads the snapshot of its start and its own writes; the     *)
(* rows it changes stay locked until it ends.  Of a search, the model      *)
(* keeps its criteria: they name the source as well.  The workflow that a  *)
(* run starts for a company it added is module Orchestration.              *)
(***************************************************************************)
EXTENDS Integers, Sequences, FiniteSets, SequencesExt

CONSTANTS
  Rules,         \* discovery rules, numbered in the order of their ids
  Criteria,      \* what a rule searches for, and with which source
  PaidCriteria,  \* the ones searched with the AI source: it costs credits,
                 \*   leaves known domains out, and has no pages
  Domains,       \* companies, by domain
  InvalidDomains,\* answers that attach_company refuses
  Catalogue,     \* the companies that match each criteria, in result order
  PageSize,      \* results per answer
  MaxNew,        \* max_new_per_run
  DailyLimit,    \* DISCOVERY_AI_DAILY_LIMIT
  BatchLimit,    \* DISCOVERY_CRON_BATCH_SIZE
  Seekers,       \* concurrent users
  Job,           \* the cron job
  LastDay,       \* bound: the days modelled; a rule's cadence is a day
  MaxRequests,   \* bound: requests of users
  MaxFaults,     \* bound: transactions that crash
  NoRule, NoPage

SearchActors == Seekers \cup {Job}
SearchDays == 0 .. LastDay
Offsets == 0 .. Cardinality(Domains)

(* A rule row.  Its origin is history: the criteria whose pages its offset *)
(* counts.                                                                 *)
Rule == [criteria : Criteria, offset : Offsets, nextRun : 0 .. LastDay + 1,
         enabled : BOOLEAN, origin : SUBSET Criteria]

(* The provider's answer to a search.                                      *)
Page == [offset : Offsets, found : Seq(Domains)]

ASSUME DiscoveryAssumption ==
  /\ PaidCriteria \subseteq Criteria /\ InvalidDomains \subseteq Domains
  /\ Catalogue \in [Criteria -> Seq(Domains)]
  /\ \A c \in Criteria : IsInjective(Catalogue[c])
  /\ {PageSize, MaxNew, DailyLimit, BatchLimit} \subseteq Nat \ {0}
  /\ {LastDay, MaxRequests, MaxFaults} \subseteq Nat
  /\ Rules \subseteq Nat /\ IsFiniteSet(Rules) /\ IsFiniteSet(Domains) /\ IsFiniteSet(Seekers)
  /\ Job \notin Seekers /\ NoRule \notin Rule /\ NoPage \notin Page

VARIABLES
  today,   \* the UTC day
  rules,   \* rules[r]: the committed row of r, or NoRule
  slots,   \* committed runs: rule and scheduled day
  known,   \* domains on the tenant's list
  search,  \* search[a]: the open transaction of actor a, if it has one
  paid,    \* history: paid[d]: AI searches the provider was asked for on d
  lost,    \* history: lost[d]: those whose audit row was rolled back
  requests, faults  \* bounds

discoveryVars ==
  <<today, rules, slots, known, search, paid, lost, requests, faults>>

-----------------------------------------------------------------------------
(* Paid searches of the day that are counted by their audit rows.          *)
InFlight(d) ==
  LET on == {a \in DOMAIN search : search[a].day = d}
  IN FoldFunctionOnSet(LAMBDA w, n : w.spends + n, 0, search, on)

Spent(d) == paid[d] - lost[d] - InFlight(d)

(* Mutant: the batch counts the searches of its snapshot only.             *)
HasBudgetIgnoringOwn(w, c) == c \in PaidCriteria => w.spent < DailyLimit

(* _check_budget: the audit rows of the snapshot and the own ones.         *)
HasBudget(w, c) == c \in PaidCriteria => w.spent + w.spends < DailyLimit

(* Domains of the tenant that transaction w can see.                       *)
Seen(w) == w.known \cup w.adds

TakeFirst(s, n) == SubSeq(s, 1, IF n < Len(s) THEN n ELSE Len(s))

(* The companies that match c and are not on the list, in result order.    *)
Unseen(w, c) ==
  LET fresh == {i \in 1 .. Len(Catalogue[c]) : Catalogue[c][i] \notin Seen(w)}
      order == CHOOSE s \in SetToSeqs(fresh) :
                 \A i, j \in DOMAIN s : i < j => s[i] < s[j]
  IN [k \in 1 .. Len(order) |-> Catalogue[c][order[k]]]

(* What provider.discover answers at an offset.                            *)
Answer(w, c, o) ==
  TakeFirst(IF c \in PaidCriteria THEN Unseen(w, c)
            ELSE SubSeq(Catalogue[c], o + 1, Len(Catalogue[c])), PageSize)

(* attach_company succeeds: the domain is well formed, new to the          *)
(* transaction, and its unique key was not taken since the snapshot.       *)
Attachable(w, d) == d \notin Seen(w) \cup InvalidDomains \cup known

(* _attach_new: how many of the first i results of a page were added; it   *)
(* stops looking once max_new are.                                         *)
AddedUpTo(w, page) ==
  LET count[i \in 0 .. Len(page)] ==
        IF i = 0 THEN 0
        ELSE IF count[i - 1] < MaxNew /\ Attachable(w, page[i])
             THEN count[i - 1] + 1 ELSE count[i - 1]
  IN count

Visited(w, page) ==
  {i \in 1 .. Len(page) : AddedUpTo(w, page)[i - 1] < MaxNew}

AddedFrom(w, page) ==
  {page[i] : i \in {j \in Visited(w, page) : Attachable(w, page[j])}}

(* Mutant: a page counts as consumed although max_new cut it short.        *)
OffsetAfterAnyPage(w, c, o, page) ==
  IF page # <<>> /\ c \notin PaidCriteria
     /\ o + Len(page) < Len(Catalogue[c])
  THEN o + Len(page) ELSE o

(* Mutant: every page that was looked through moves the offset by its size,*)
(* the last one too.                                                       *)
OffsetPastTheEnd(w, c, o, page) ==
  IF Visited(w, page) = 1 .. Len(page) /\ c \notin PaidCriteria
  THEN o + PageSize ELSE o

(* The next offset: moved past a page all of whose results were looked at, *)
(* while the provider's total says that there is more.                     *)
OffsetAfter(w, c, o, page) ==
  IF /\ page # <<>> /\ Visited(w, page) = 1 .. Len(page)
     /\ c \notin PaidCriteria
     /\ o + Len(page) < Len(Catalogue[c])
  THEN o + Len(page) ELSE o

(* Rules and domains locked by another open transaction.                   *)
Others(a) == DOMAIN search \ {a}
RuleFree(a, r) == \A b \in Others(a) : r \notin DOMAIN search[b].rows
DomainsFree(a, D) == \A b \in Others(a) : search[b].adds \cap D = {}

(* A transaction as it starts: the rules it will run, and its snapshot.    *)
Opened(todo, scheduled) ==
  [day |-> today, todo |-> todo, scheduled |-> scheduled,
   rules |-> rules, known |-> known, spent |-> Spent(today),
   rows |-> <<>>, edit |-> <<>>, slots |-> {}, adds |-> {}, spends |-> 0,
   page |-> NoPage]

(* The open transactions with w as that of actor a, and without one of a.  *)
With(a, w) ==
  [b \in DOMAIN search \cup {a} |-> IF b = a THEN w ELSE search[b]]
Without(a) == [b \in DOMAIN search \ {a} |-> search[b]]

(* The columns of f, and those that only g has.                            *)
Joined(f, g) ==
  [x \in DOMAIN f \cup DOMAIN g |-> IF x \in DOMAIN f THEN f[x] ELSE g[x]]

(* An UPDATE writes the columns that differ from the row that was read.    *)
ChangedColumns(old, new) ==
  LET changed == {k \in DOMAIN old \ {"origin"} : old[k] # new[k]}
  IN [k \in changed \cup (IF "offset" \in changed THEN {"origin"} ELSE {})
        |-> new[k]]

Overlaid(old, columns) ==
  [k \in DOMAIN old |-> IF k \in DOMAIN columns THEN columns[k] ELSE old[k]]

-----------------------------------------------------------------------------
FreshRule(c) ==
  [criteria |-> c, offset |-> 0, nextRun |-> today, enabled |-> TRUE,
   origin |-> {}]

(* Some rules were created already, and are due.                           *)
DiscoveryInit ==
  /\ today = 0
  /\ rules \in [Rules -> {NoRule} \cup {FreshRule(c) : c \in Criteria}]
  /\ slots = {} /\ known = {}
  /\ search = <<>>
  /\ paid = [d \in SearchDays |-> 0] /\ lost = [d \in SearchDays |-> 0]
  /\ requests = 0 /\ faults = 0

NextDay ==
  /\ today < LastDay
  /\ today' = today + 1
  /\ UNCHANGED <<rules, slots, known, search, paid, lost, requests,
                 faults>>

Due(r) ==
  rules[r] # NoRule /\ rules[r].enabled /\ rules[r].nextRun <= today

(* The first due rules, by next_run_at and id.                             *)
Batch ==
  LET sooner(r, q) == \/ rules[r].nextRun < rules[q].nextRun
                      \/ rules[r].nextRun = rules[q].nextRun /\ r < q
      order == CHOOSE s \in SetToSeqs({r \in Rules : Due(r)}) :
                 \A i, j \in DOMAIN s : i < j => sooner(s[i], s[j])
  IN TakeFirst(order, BatchLimit)

StartBatch ==
  /\ Job \notin DOMAIN search
  /\ Batch # <<>>
  /\ search' = With(Job, Opened(Batch, TRUE))
  /\ UNCHANGED <<today, rules, slots, known, paid, lost, requests, faults>>

CreateRule(r, c) ==
  /\ rules[r] = NoRule
  /\ requests < MaxRequests
  /\ requests' = requests + 1
  /\ rules' = [rules EXCEPT ![r] = FreshRule(c)]
  /\ UNCHANGED <<today, slots, known, search, paid, lost, faults>>

(* A user's request opens transaction w.                                   *)
Request(u, w) ==
  /\ u \notin DOMAIN search
  /\ requests < MaxRequests
  /\ search' = With(u, w)
  /\ requests' = requests + 1
  /\ UNCHANGED <<today, rules, slots, known, lost, faults>>

StartRunNow(u, r) ==
  /\ rules[r] # NoRule
  /\ Request(u, Opened(<<r>>, FALSE))
  /\ UNCHANGED paid

(* A user updates a rule: criteria, new or given again, restart the pages; *)
(* the schedule and the switch may change too.  The row is read here and   *)
(* written when the request commits.                                       *)
StartUpdate(u, r, c, given, day, on) ==
  /\ rules[r] # NoRule
  /\ c # rules[r].criteria => given
  /\ LET old == rules[r]
         new == [criteria |-> c, nextRun |-> day, enabled |-> on,
                 offset |-> IF given THEN 0 ELSE old.offset,
                 origin |-> IF given THEN {} ELSE old.origin]
     IN /\ new # old
        /\ Request(u, [Opened(<<>>, FALSE) EXCEPT
                         !.edit = [x \in {r} |-> ChangedColumns(old, new)]])
  /\ UNCHANGED paid

(* A preview searches, and pays, but adds nothing.                         *)
Preview(u, c) ==
  /\ c \in PaidCriteria /\ HasBudget(Opened(<<>>, FALSE), c)
  /\ Request(u, [Opened(<<>>, FALSE) EXCEPT !.spends = 1])
  /\ paid' = [paid EXCEPT ![today] = @ + 1]

(* A user picks a previewed company for the list.                          *)
AddCompany(u, d) ==
  /\ DomainsFree(u, {d}) /\ Attachable(Opened(<<>>, FALSE), d)
  /\ Request(u, [Opened(<<>>, FALSE) EXCEPT !.adds = {d}])
  /\ UNCHANGED paid

-----------------------------------------------------------------------------
(* The rule that open transaction a turns to: its row is locked from here, *)
(* and its run was not inserted yet.                                       *)
Turn(a, r) ==
  /\ a \in DOMAIN search
  /\ search[a].page = NoPage /\ search[a].todo # <<>>
  /\ r = Head(search[a].todo) /\ RuleFree(a, r)

Slot(w, r) == <<r, w.rules[r].nextRun>>

(* Mutant: a slot that was run already is left where it is.                *)
ScheduledNot(w, r) ==
  IF w.scheduled /\ Slot(w, r) \notin slots THEN [nextRun |-> w.day + 1] ELSE <<>>

(* The schedule moves past the day of the transaction; run_now leaves it.  *)
Scheduled(w, r) == IF w.scheduled THEN [nextRun |-> w.day + 1] ELSE <<>>

(* w is done with its rule r, and writes these columns of it.              *)
Finished(w, r, columns) ==
  [w EXCEPT !.todo = Tail(@), !.page = NoPage,
            !.rows = [x \in DOMAIN @ \cup {r} |->
                        IF x = r THEN columns ELSE @[x]],
            !.slots = IF w.scheduled THEN @ \cup {Slot(w, r)} ELSE @]

(* The slot was run before: the rule only moves on.                        *)
SkipSlot(a, r) ==
  /\ Turn(a, r)
  /\ search[a].scheduled /\ Slot(search[a], r) \in slots
  /\ search' = With(a, Finished(search[a], r, Scheduled(search[a], r)))
  /\ UNCHANGED <<today, rules, slots, known, paid, lost, requests, faults>>

RunsNew(a, r) ==
  Turn(a, r) /\ ~(search[a].scheduled /\ Slot(search[a], r) \in slots)

(* The run fails before a search: an unknown source, a run-as user without *)
(* permission, or (only then is it sure to) no budget left.                *)
FailRun(a, r) ==
  /\ RunsNew(a, r)
  /\ search' = With(a, Finished(search[a], r, Scheduled(search[a], r)))
  /\ UNCHANGED <<today, rules, slots, known, paid, lost, requests, faults>>

(* The spend row is flushed and the provider asked with the criteria and   *)
(* the offset of the snapshot.  It answers with a page, with the first one *)
(* because its plan has no other, or with an error: then the run fails but *)
(* the spend row stays.                                                    *)
AskProvider(a, r) ==
  /\ RunsNew(a, r)
  /\ LET w == search[a]
         c == w.rules[r].criteria
         cost == IF c \in PaidCriteria THEN 1 ELSE 0
         asked == [w EXCEPT !.spends = @ + cost]
     IN /\ HasBudget(w, c)
        /\ \/ \E o \in {w.rules[r].offset}
                      \cup (IF c \in PaidCriteria THEN {} ELSE {0}) :
                search' = With(a, [asked EXCEPT
                  !.page = [offset |-> o, found |-> Answer(w, c, o)]])
           \/ search' = With(a, Finished(asked, r, Scheduled(w, r)))
        /\ paid' = [paid EXCEPT ![w.day] = @ + cost]
  /\ UNCHANGED <<today, rules, slots, known, lost, requests, faults>>

(* The answer is attached and the offset moved; the column is written only *)
(* when it differs from the row that was read.                             *)
TakeAnswer(a) ==
  /\ a \in DOMAIN search /\ search[a].page # NoPage
  /\ LET w == search[a]
         r == Head(w.todo)
         row == w.rules[r]
         new == AddedFrom(w, w.page.found)
         next == [row EXCEPT
           !.offset = OffsetAfter(w, row.criteria, w.page.offset, w.page.found),
           !.origin = {row.criteria} \cup IF w.page.offset = 0 THEN {} ELSE @]
     IN /\ DomainsFree(a, new)
        /\ search' = With(a,
             [Finished(w, r, Joined(Scheduled(w, r), ChangedColumns(row, next)))
                EXCEPT !.adds = @ \cup new])
  /\ UNCHANGED <<today, rules, slots, known, paid, lost, requests, faults>>

(* What a wrote becomes visible.                                           *)
PersistSearch(a) ==
  LET writes == Joined(search[a].rows, search[a].edit) IN
  /\ rules' = [r \in Rules |-> IF r \in DOMAIN writes
                               THEN Overlaid(rules[r], writes[r])
                               ELSE rules[r]]
  /\ slots' = slots \cup search[a].slots
  /\ known' = known \cup search[a].adds
  /\ UNCHANGED <<today, paid, lost, requests, faults>>

(* The transaction commits.  An edit takes its row lock, and is written,   *)
(* only now.                                                               *)
CommitSearch(a) ==
  /\ a \in DOMAIN search
  /\ search[a].todo = <<>> /\ search[a].page = NoPage
  /\ \A r \in DOMAIN search[a].edit : RuleFree(a, r)
  /\ PersistSearch(a)
  /\ search' = Without(a)

(* The workflow of an added company met a failing contact search: that     *)
(* commits the request's whole session to keep its usage row.  The batch   *)
(* goes on with the rules it has read, in a new snapshot.                  *)
CommitPartly(a) ==
  /\ a \in DOMAIN search /\ search[a].page = NoPage
  /\ search[a].rows # <<>> /\ search[a].adds # {}
  /\ PersistSearch(a)
  /\ LET w == search[a] IN
     search' = With(a,
       [w EXCEPT !.known = known', !.spent = Spent(w.day) + w.spends,
                 !.rows = <<>>, !.slots = {}, !.adds = {}, !.spends = 0])

(* An unexpected error, a deadlock or a crash: the whole transaction is    *)
(* rolled back, with the audit rows of the searches it paid for.           *)
LoseSearch(a) ==
  /\ a \in DOMAIN search
  /\ faults < MaxFaults
  /\ faults' = faults + 1
  /\ lost' = [lost EXCEPT ![search[a].day] = @ + search[a].spends]
  /\ search' = Without(a)
  /\ UNCHANGED <<today, rules, slots, known, paid, requests>>

ProceedSearch(a) ==
  \/ \E r \in Rules : SkipSlot(a, r) \/ FailRun(a, r) \/ AskProvider(a, r)
  \/ TakeAnswer(a)
  \/ CommitSearch(a) \/ CommitPartly(a)

DiscoveryNext ==
  \/ NextDay
  \/ \E r \in Rules, c \in Criteria : CreateRule(r, c)
  \/ StartBatch
  \/ \E u \in Seekers :
       \/ \E r \in Rules : StartRunNow(u, r)
       \/ \E r \in Rules, c \in Criteria, given, on \in BOOLEAN, day \in SearchDays :
            StartUpdate(u, r, c, given, day, on)
       \/ \E c \in Criteria : Preview(u, c)
       \/ \E d \in Domains : AddCompany(u, d)
  \/ \E a \in SearchActors : ProceedSearch(a) \/ LoseSearch(a)

DiscoverySpec == DiscoveryInit /\ [][DiscoveryNext]_discoveryVars

-----------------------------------------------------------------------------
(* Every variable keeps its type.                                          *)
DiscoveryTypeOK ==
  /\ today \in SearchDays
  /\ rules \in [Rules -> Rule \cup {NoRule}]
  /\ slots \subseteq Rules \X (0 .. LastDay + 1)
  /\ known \subseteq Domains
  /\ DOMAIN search \subseteq SearchActors
  /\ paid \in [SearchDays -> Nat] /\ lost \in [SearchDays -> Nat]
  /\ requests \in 0 .. MaxRequests /\ faults \in 0 .. MaxFaults

(* The budget check reads a snapshot, so requests and the batch may exceed *)
(* it together, but only by what the batch and one search of each other    *)
(* user can add: whatever fails, every paid search of a surviving          *)
(* transaction is counted, and those of one batch count each other.        *)
OverspendIsBounded ==
  \A d \in SearchDays :
    paid[d] - lost[d] <=
      DailyLimit + Cardinality(Seekers) - 1
        + (IF BatchLimit < DailyLimit THEN BatchLimit ELSE DailyLimit)

(* A rule never pages past a company: while its offset counts pages of its *)
(* own criteria, every result before it is on the list or was refused, in  *)
(* spite of max_new_per_run, failed runs, restarts of the pages and other  *)
(* writers of the list.                                                    *)
NoResultSkipped ==
  \A r \in Rules :
    rules[r] # NoRule /\ rules[r].origin \subseteq {rules[r].criteria} =>
      \A i \in 1 .. rules[r].offset :
        Catalogue[rules[r].criteria][i] \in known \cup InvalidDomains

(* docs/company-discovery.md: every AI search "counts toward               *)
(* DISCOVERY_AI_DAILY_LIMIT", and a rule over it fails its run: the        *)
(* provider is never asked more often on a day.                            *)
DailyLimitHolds == \A d \in SearchDays : paid[d] - lost[d] <= DailyLimit

(* A due rule is not passed over for ever, though its slot was run before, *)
(* its run fails or the batch is rolled back a few times.                  *)
DueRuleRuns == \A r \in Rules : Due(r) ~> ~Due(r)
=============================================================================
