----------------------------- MODULE Orchestration -----------------------------
(***************************************************************************)
(* The guarded workflow of one company and product                         *)
(* (application/orchestration.py): it researches, assesses fit, qualifies  *)
(* and looks for people to contact, and stops at the human gate.           *)
(*                                                                         *)
(* A request is one transaction: its steps read the snapshot of Begin and  *)
(* their own writes, and everything lands at Finish.  A refused step, or a *)
(* crash, lands nothing.  What a search finds is module DecisionMakers.    *)
(***************************************************************************)
EXTENDS LeadFit

CONSTANTS
  Workers,    \* requests at work at the same time
  StepLimits, \* the max_steps that requests give
  MaxEdits,   \* bound: steps of users, expiries and crashes
  NoWork

StepOrder == [RESEARCH |-> 1, ASSESS |-> 2, QUALIFY |-> 3, DISCOVER |-> 4]
Steps == DOMAIN StepOrder

FirstOf(S) ==
  IF S = {} THEN "STOP" ELSE CHOOSE s \in S : \A t \in S : StepOrder[s] <= StepOrder[t]

(* The audit row of a search for people, which the next plan reads back.   *)
Search == [at : Ticks, qual : Ticks, credits : BOOLEAN, planned : BOOLEAN]

ASSUME OrchestrationAssumption == 
  /\ StepLimits \subseteq 1 .. Cardinality(Steps) /\ MaxEdits \in Nat

VARIABLES
  personaMode, \* whether the product has personas: never switched here
  contacts,    \* the qualifications that people ready for a draft are under
  searches,
  expired,     \* searches until then are out of the freshness window
  work,        \* work[a]: the open request of a, or NoWork
  edits        \* bound

workVars == <<personaMode, contacts, searches, expired, work>>
flowVars == <<leadVars, workVars, edits>>

(* The age of a view is the clock of the plan, read when the request began. *)
Seen == [icps |-> icps, known |-> known, age |-> age, pinned |-> pinned,
         fits |-> fits, quals |-> quals, contacts |-> contacts, searches |-> searches]

(* The services of a step read a clock of their own.                       *)
Now(v) == [v EXCEPT !.age = age]

-----------------------------------------------------------------------------
(* The plan.                                                               *)
IsLatest(x, S) == \A y \in S : y.at <= x.at

Fresh(v) == \E f \in v.fits : IsLatest(f, v.fits) /\ IsCurrent(v, f)

(* The qualification shown: of the current fit, or, when the latest fit is *)
(* stale, the latest of any fit.                                           *)
Shown(v) ==
  Latest(IF Fresh(v) THEN {q \in v.quals : q.fit = Latest(v.fits).at} ELSE v.quals)

Pursued(q) == q # NoRow /\ q.status = "QUALIFIED"

AtGate(v) == Pursued(Shown(v)) /\ Shown(v).at \in v.contacts

LastSearch(v) == Latest(v.searches)

(* A search with credits is final for its qualification, one without for   *)
(* as long as it is fresh.                                                 *)
RecentRun(v) ==
  /\ LastSearch(v) # NoRow /\ LastSearch(v).qual = Shown(v).at
  /\ LastSearch(v).credits \/ LastSearch(v).at > expired

ReadySteps(v, credits) ==
  LET fresh == Fresh(v)
      shown == Shown(v)
  IN {s \in Steps :
        CASE s = "RESEARCH" -> ~fresh \/ Gaps(Latest(v.fits))
          [] s = "ASSESS" -> ~fresh /\ ActiveIcp(v) # NoRow
          [] s = "QUALIFY" -> fresh /\ shown = NoRow
          [] s = "DISCOVER" ->
               /\ Pursued(shown) /\ shown.at \notin v.contacts
               /\ personaMode =>
                    ~RecentRun(v) \/ (credits /\ ~LastSearch(v).credits)}

(* What contact discovery demands of the latest qualification.             *)
Target(v) == Latest(v.quals)
Discoverable(v) ==
  Pursued(Target(v)) /\ \E f \in v.fits : f.at = Target(v).fit /\ IsCurrent(v, f)

-----------------------------------------------------------------------------
FlowInit ==
  /\ LeadInit
  /\ personaMode \in BOOLEAN
  /\ contacts = {} /\ searches = {} /\ expired = 0
  /\ work = [a \in Workers |-> NoWork] /\ edits = 0

(* Mutant: a step that was taken is taken again.                           *)
ProceedingAgain(a, w) ==
  work' = [work EXCEPT ![a] = [w EXCEPT !.step =
    IF AtGate(w.view) THEN "STOP" ELSE FirstOf(ReadySteps(w.view, w.credits))]]

(* run_until_gate: the plan says which step comes next, or to stop.  A     *)
(* product without personas is searched with credits only.                 *)
Proceeding(a, w) ==
  \E ready \in {ReadySteps(w.view, w.credits) \ w.done} :
    work' = [work EXCEPT ![a] = [w EXCEPT !.step =
      IF \/ AtGate(w.view) \/ Cardinality(w.done) = w.limit
         \/ FirstOf(ready) = "DISCOVER" /\ ~personaMode /\ ~w.credits
      THEN "STOP" ELSE FirstOf(ready)]]

(* run_until_gate begins, by the scheduler or a user.                      *)
Begin(a, credits, steps) ==
  /\ work[a] = NoWork
  /\ \E w \in {[view |-> Seen, old |-> contacts, done |-> {}, step |-> "STOP",
                credits |-> credits, limit |-> steps]} : Proceeding(a, w)
  /\ UNCHANGED <<leadVars, personaMode, contacts, searches, expired>>

Step(a, step, view) ==
  /\ \E w \in {[work[a] EXCEPT !.view = view, !.done = @ \cup {step}]} :
       Proceeding(a, w)
  /\ UNCHANGED <<icps, known, age, pinned, fits, quals, personaMode, contacts, searches, expired>>

Research(a, v, new) ==
  Step(a, "RESEARCH", [v EXCEPT !.known = @ \cup new]) /\ UNCHANGED tick

Assess(a, v) ==
  /\ Tick
  /\ \E f \in Assessed(Now(v), ActiveIcp(v)) :
       Step(a, "ASSESS", [v EXCEPT !.fits = @ \cup {f}])

Qualify(a, v) ==
  /\ Tick
  /\ Step(a, "QUALIFY", [v EXCEPT !.quals = @ \cup {Qualified(Now(v), Latest(v.fits))}])

(* The people known are carried over to the qualification searched for;    *)
(* without personas they stay.  Addresses are found for credits.           *)
PeopleAfter(v, found) ==
  IF (v.contacts # {} /\ personaMode) \/ found
  THEN {Target(v).at} \cup (IF personaMode THEN {} ELSE v.contacts)
  ELSE v.contacts

Discover(a, v, found) ==
  /\ Discoverable(Now(v))
  /\ found => work[a].credits
  /\ LET ran == [at |-> tick + 1, qual |-> Target(v).at,
                 credits |-> work[a].credits, planned |-> TRUE]
         after == [v EXCEPT !.contacts = PeopleAfter(v, found)]
     IN \/ personaMode /\ Tick /\ Step(a, "DISCOVER", [after EXCEPT !.searches = @ \cup {ran}])
        \/ ~personaMode /\ UNCHANGED tick /\ Step(a, "DISCOVER", after)

(* The commit: rows are inserted, and the contacts that were carried over  *)
(* are updated.                                                            *)
Finish(a, v) ==
  /\ known' = known \cup v.known
  /\ fits' = fits \cup v.fits
  /\ quals' = quals \cup v.quals
  /\ searches' = searches \cup v.searches
  /\ contacts' = (contacts \ (work[a].old \ v.contacts)) \cup (v.contacts \ work[a].old)
  /\ work' = [work EXCEPT ![a] = NoWork]
  /\ UNCHANGED <<icps, age, pinned, tick, personaMode, expired>>

(* Nothing lands: a crash, or a conflict.                                  *)
Abandon(a) ==
  /\ work' = [work EXCEPT ![a] = NoWork]
  /\ UNCHANGED <<leadVars, personaMode, contacts, searches, expired>>

(* A qualification of a stale fit is not searched for.                     *)
Refuse(a, v) == ~Discoverable(Now(v)) /\ Abandon(a)

(* A user's search, which may repeat an earlier one.                       *)
Refresh(credits, found) ==
  /\ personaMode /\ Tick /\ Discoverable(Seen) /\ (found => credits)
  /\ contacts' = PeopleAfter(Seen, found)
  /\ searches' = searches \cup {[at |-> tick + 1, qual |-> Target(Seen).at,
                                 credits |-> credits, planned |-> FALSE]}
  /\ UNCHANGED <<icps, known, age, pinned, fits, quals, personaMode, expired, work>>

(* CONTACT_SEARCH_FRESHNESS_HOURS pass.                                    *)
Expire ==
  /\ expired < tick /\ expired' = tick
  /\ UNCHANGED <<leadVars, personaMode, contacts, searches, work>>

Proceed(a) ==
  /\ work[a] # NoWork
  /\ LET v == work[a].view
         step == work[a].step
     IN \/ step = "RESEARCH" /\ \E new \in SUBSET Facts : Research(a, v, new)
        \/ step = "ASSESS" /\ Assess(a, v)
        \/ step = "QUALIFY" /\ Qualify(a, v)
        \/ step = "DISCOVER" /\ ((\E found \in BOOLEAN : Discover(a, v, found)) \/ Refuse(a, v))
        \/ step = "STOP" /\ Finish(a, v)

Edit == edits < MaxEdits /\ edits' = edits + 1

FlowNext ==
  \/ /\ \/ \E a \in Workers, credits \in BOOLEAN, steps \in StepLimits :
             Begin(a, credits, steps)
        \/ \E a \in Workers : Proceed(a)
     /\ UNCHANGED edits
  \/ /\ Edit
     /\ \/ LeadNext /\ UNCHANGED workVars
        \/ \E credits, found \in BOOLEAN : Refresh(credits, found)
        \/ Expire
        \/ \E a \in Workers : work[a] # NoWork /\ Abandon(a)

FlowSpec == FlowInit /\ [][FlowNext]_flowVars

-----------------------------------------------------------------------------
(* Every variable keeps its type.                                          *)
FlowTypeOK ==
  /\ LeadTypeOK
  /\ contacts \subseteq {q.at : q \in quals}
  /\ searches \subseteq Search
  /\ expired \in Ticks
  /\ \A a \in Workers : work[a] # NoWork =>
       work[a].done \subseteq Steps

(* The services differ on the active revision: possible only for a tie.    *)
(* Every run then assesses by the one, and freshness asks for the other.   *)
Disputed ==
  ActiveIcp(Committed) # NoRow
  /\ CurrentIcp(Committed, ActiveIcp(Committed)) # ActiveIcp(Committed)

(* What remains needs a person: an active profile, an end to the tie, or a *)
(* qualification of the latest assessment after an older one was qualified *)
(* again.                                                                  *)
NeedsUser ==
  \/ ActiveIcp(Committed) = NoRow /\ ~Fresh(Seen)
  \/ Disputed
  \/ Target(Seen) # Shown(Seen)

(* The workflow, run again and again when users have stopped, comes to the *)
(* human gate or to a plan with no step ready but research: it does not    *)
(* assess, qualify or search for ever, unless it needs a person.  A        *)
(* revision revised twice under two names is such a case (Disputed).       *)
Settled ==
  \/ ReadySteps(Seen, FALSE) \subseteq
       {"RESEARCH"} \cup (IF personaMode THEN {} ELSE {"DISCOVER"})
  \/ AtGate(Seen) \/ NeedsUser

WorkflowSettles == []<>(\E a \in Workers : work[a] # NoWork) => <>[]Settled
=============================================================================
