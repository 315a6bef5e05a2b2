------------------------------ MODULE PaidCalls ------------------------------
(***************************************************************************)
(* Calls of a paid provider: one operation about one contact or company,   *)
(* of the older contacts interface (discover, find_email, verify_email in  *)
(* application/contacts.py) or of research (application/research.py).      *)
(*                                                                         *)
(* A request is a transaction: it looks in its snapshot for an answer that *)
(* is young enough, calls the provider otherwise, and commits a usage row. *)
(* A provider's error commits the row, but not an answer; any other error, *)
(* and a crash, loses row and answer.                                      *)
(***************************************************************************)
EXTENDS Integers, FiniteSets

CONSTANTS
  Operations,  \* of PaidOperations
  Callers,     \* requests at work at the same time
  Window,      \* how long an answer is reused
  MaxClock,    \* bound
  MaxCalls,    \* bound: usage rows and calls
  NoCall       \* no transaction open

PaidOperations == {"CONTACT_SEARCH", "EMAIL_FIND", "EMAIL_VERIFY", "ENRICH"}

Answers == {"SUCCESS", "NO_RESULTS", "FAILURE"}

(* ProviderUsage; completed is completed_at, landed and fresh are history: *)
(* the place of the row, and that it wrote a date of its own.              *)
Usage == [answer : Answers, cached : BOOLEAN, fresh : BOOLEAN, completed : Nat, landed : Nat]

Call ==
  [force : BOOLEAN, now : Nat, usage : SUBSET Usage, stamped : Int,
   answer : Answers \cup {"NONE"}, completed : Nat, cached : BOOLEAN]

ASSUME PaidAssumption ==
  /\ Operations \subseteq PaidOperations /\ IsFiniteSet(Callers)
  /\ {Window, MaxClock, MaxCalls} \subseteq Nat /\ NoCall \notin Call

VARIABLES
  operation, \* the operation, which never changes
  clock,     \* bound
  usage,     \* the committed ProviderUsage rows, with the instant of commit
  stamped,   \* found_at or verified_at of the address, or -1
  calling,   \* calling[u]: the open transaction of u, or NoCall
  attempts,  \* history: calls of the provider
  lost,      \* history: calls whose row was rolled back
  repeated   \* history: an answer known to the snapshot was bought again

paidVars == <<operation, clock, usage, stamped, calling, attempts, lost, repeated>>

-----------------------------------------------------------------------------
Begun == Cardinality(usage) + Cardinality({u \in Callers : calling[u] # NoCall}) + lost

(* _usage and run: a row that succeeded, with or without a result, bought  *)
(* or reused.  find_email and verify_email: the dates of the address.      *)
Remembered(t) ==
  IF operation \in {"CONTACT_SEARCH", "ENRICH"}
  THEN \E r \in t.usage :
         r.answer \in {"SUCCESS", "NO_RESULTS"} /\ r.completed >= t.now - Window
  ELSE t.stamped >= 0 /\ t.stamped >= t.now - Window

(* run takes the time of the answer, the others that of the request.       *)
Completed(t) == IF operation = "ENRICH" THEN clock ELSE t.now

PaidInit ==
  /\ clock = 0 /\ usage = {} /\ attempts = 0 /\ lost = 0 /\ repeated = FALSE
  /\ stamped = -1 /\ operation \in Operations
  /\ calling = [u \in Callers |-> NoCall]

Tick ==
  /\ clock < MaxClock /\ clock' = clock + 1
  /\ UNCHANGED <<operation, usage, stamped, calling, attempts, lost, repeated>>

BeginCall(u, force) ==
  /\ calling[u] = NoCall /\ Begun < MaxCalls
  /\ calling' = [calling EXCEPT ![u] =
       [force |-> force, now |-> clock, usage |-> usage,
        stamped |-> stamped, answer |-> "NONE", completed |-> clock, cached |-> FALSE]]
  /\ UNCHANGED <<operation, clock, usage, stamped, attempts, lost, repeated>>

Answered(u, answer, cached) ==
  LET t == calling[u] IN
  calling' = [calling EXCEPT ![u] =
    [t EXCEPT !.answer = answer, !.cached = cached, !.completed = Completed(t)]]

Asking(u) == calling[u] # NoCall /\ calling[u].answer = "NONE"

(* An answer is reused, for nothing.                                       *)
Reuse(u) ==
  /\ Asking(u) /\ ~calling[u].force /\ Remembered(calling[u])
  /\ Answered(u, "SUCCESS", TRUE)
  /\ UNCHANGED <<operation, clock, usage, stamped, attempts, lost, repeated>>

(* A row of the snapshot that t bought, with an answer that is still young *)
(* and that its operation keeps: a lookup of an address keeps none without *)
(* a result, nor one the address was known from before; a check that finds *)
(* the date of its very instant writes none, and its date may have been    *)
(* overwritten by a check that began earlier.                              *)
Kept(r, t) ==
  /\ ~r.cached /\ r.answer \in {"SUCCESS", "NO_RESULTS"}
  /\ r.completed >= t.now - Window
  /\ operation \in {"EMAIL_FIND", "EMAIL_VERIFY"} => r.answer = "SUCCESS" /\ r.fresh
  /\ operation = "EMAIL_VERIFY" =>
       ~ \E s \in t.usage : s.completed < r.completed /\ s.landed > r.landed

(* The provider is paid and answers, or refuses.                           *)
CallProvider(u, answer) ==
  /\ Asking(u)
  /\ calling[u].force \/ ~Remembered(calling[u])
  /\ answer = "NO_RESULTS" => operation # "EMAIL_VERIFY"
  /\ Answered(u, answer, FALSE)
  /\ attempts' = attempts + 1
  /\ repeated' = (repeated \/ (/\ ~calling[u].force
                               /\ \E r \in calling[u].usage : Kept(r, calling[u])))
  /\ UNCHANGED <<operation, clock, usage, stamped, lost>>

(* _add_email: an address that was known keeps the date it was found.      *)
Stamps(t) ==
  IF t.cached \/ t.answer # "SUCCESS" \/ operation \in {"CONTACT_SEARCH", "ENRICH"}
  THEN {t.stamped}
  ELSE {t.now} \cup (IF operation = "EMAIL_FIND" /\ t.stamped >= 0
                     THEN {t.stamped} ELSE {})

(* Mutant: the error of the provider rolls its row back.                   *)
CommitCallUnlessFailed(u) ==
  /\ calling[u] # NoCall /\ calling[u].answer # "NONE"
  /\ usage' = IF calling[u].answer = "FAILURE" THEN usage
              ELSE usage \cup {[answer |-> calling[u].answer,
                                cached |-> calling[u].cached, fresh |-> TRUE,
                                completed |-> calling[u].completed,
                                landed |-> Cardinality(usage)]}
  /\ calling' = [calling EXCEPT ![u] = NoCall]
  /\ UNCHANGED <<operation, clock, stamped, attempts, lost, repeated>>

(* The commit, also of a refused call; what the address's columns become.  *)
CommitCall(u) ==
  /\ calling[u] # NoCall /\ calling[u].answer # "NONE"
  /\ LET t == calling[u] IN \E date \in Stamps(t) :
     /\ usage' = usage \cup {[answer |-> t.answer, cached |-> t.cached,
                             fresh |-> date = t.now /\ date # t.stamped,
                             completed |-> t.completed, landed |-> Cardinality(usage)]}
     /\ stamped' = IF date = t.stamped \/ (operation = "EMAIL_FIND" /\ date < stamped)
                   THEN stamped ELSE date
  /\ calling' = [calling EXCEPT ![u] = NoCall]
  /\ UNCHANGED <<operation, clock, attempts, lost, repeated>>

(* A crash, or an error that is not the provider's.                        *)
LoseCall(u) ==
  /\ calling[u] # NoCall
  /\ calling' = [calling EXCEPT ![u] = NoCall]
  /\ lost' = IF calling[u].answer # "NONE" /\ ~calling[u].cached THEN lost + 1 ELSE lost
  /\ UNCHANGED <<operation, clock, usage, stamped, attempts, repeated>>

PaidNext ==
  \/ Tick
  \/ \E u \in Callers :
       \/ \E force \in BOOLEAN : BeginCall(u, force)
       \/ Reuse(u) \/ \E answer \in Answers : CallProvider(u, answer)
       \/ CommitCall(u) \/ LoseCall(u)

PaidSpec == PaidInit /\ [][PaidNext]_paidVars

-----------------------------------------------------------------------------
(* Every call that went out is in the usage report, whatever the provider  *)
(* said, but for those a crash has taken while they were being recorded.   *)
AttemptsAreRecorded ==
  attempts = lost + Cardinality({r \in usage : ~r.cached})
               + Cardinality({u \in Callers :
                    /\ calling[u] # NoCall
                    /\ calling[u].answer # "NONE" /\ ~calling[u].cached})

(* No call is repeated, unforced, within the window of an answer that its  *)
(* operation keeps and that was committed when the request began.          *)
KeptAnswersAreReused == ~repeated
=============================================================================
