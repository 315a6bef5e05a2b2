-------------------------- MODULE MailboxEngagement --------------------------
(***************************************************************************)
(* The scheduled mailbox scan (jobs/run_mailbox_engagement.py): an IMAP    *)
(* reader with a durable UID cursor (infrastructure/mailbox_checkpoint.py) *)
(* and the ingestor that turns replies and delivery failures into events   *)
(* (infrastructure/mailbox_engagement.py), beside every other report.      *)
(*                                                                         *)
(* A run is one transaction under a zero-wait advisory lock: its snapshot  *)
(* is taken when it reads the checkpoint, before it talks to the IMAP      *)
(* server, and the cursor and the events commit or roll back together.     *)
(***************************************************************************)
EXTENDS Engagement, Sequences

CONSTANTS
  Messages,       \* mails that may appear in the mailbox
  References,     \* attempts whose message ids a mail refers to
  Outcome,        \* what parse_mailbox_outcome makes of a mail
  Unidentified,   \* mails without a Message-ID
  Limit,          \* MAILBOX_ENGAGEMENT_BATCH_SIZE
  MaxUid,         \* bound: UIDs the server gives out in one generation
  MaxGeneration,  \* bound: UIDVALIDITY generations
  NoMessage,      \* the mail of a UID was moved or deleted
  NoMessageId,
  NoOutcome,      \* the mail is skipped: unrelated or automatic
  NoAttempt,      \* a mail that matched no attempt
  NoCheckpoint,
  NoRun

Uids == 1 .. MaxUid

Generations == 1 .. MaxGeneration

(* last_processed_uid; 0 stands for None, which the code treats alike.     *)
Checkpoint == [generation : Generations, uid : 0 .. MaxUid]

MailKeys == Uids \X (Messages \cup {NoMessageId})

(* A mail that a run read: the attempt it was matched with in the run's    *)
(* snapshot, and (history) the one it was due to when it was read.         *)
Consumed == [generation : Generations, uid : Uids, message : Messages,
             attempt : Attempts \cup {NoAttempt},
             due : Attempts \cup {NoAttempt}]

(* An open run: the snapshot it reads from, and what it is about to save.  *)
Run == [stage : {"READING", "FETCHED"},
        checkpoint : Checkpoint \cup {NoCheckpoint},
        sent : SUBSET Attempts,
        suppressed : SUBSET Addresses,
        saved : Checkpoint \cup {NoCheckpoint},
        mails : SUBSET Consumed,
        window : 1 .. MaxUid + 1]

ASSUME MailboxAssumption ==
  /\ References \in [Messages -> SUBSET Attempts]
  /\ Outcome \in [Messages -> {"REPLIED", "BOUNCED", NoOutcome}]
  /\ Unidentified \subseteq Messages
  /\ MailKeys \subseteq EventKeys
  /\ MailKeys \cap (ManualKeys \cup WebhookKeys) = {}
  /\ NoMessageId \notin Messages
  /\ \A m \in Messages : IsFiniteSet(References[m])
  /\ Limit \in Nat \ {0}
  /\ MaxUid \in Nat /\ MaxGeneration \in Nat \ {0}
  /\ NoMessage \notin Messages
  /\ NoAttempt \notin Attempts
  /\ NoCheckpoint \notin Checkpoint
  /\ NoRun \notin Run

VARIABLES
  handed,      \* attempts the SMTP server took, committed or not
  box,         \* box[u]: the mail with UID u, or NoMessage
  generation,  \* UIDVALIDITY
  checkpoint,  \* the committed checkpoint row, or NoCheckpoint
  run,         \* the scan under way, or NoRun
  window,      \* history: where the generation's bootstrap window starts
  consumed     \* history: the mails read by committed runs

mailboxVars == <<handed, box, generation, checkpoint, run, window, consumed>>

vars == <<engagementVars, mailboxVars>>

-----------------------------------------------------------------------------
Present == {u \in DOMAIN box : box[u] # NoMessage}

(* The first, and the last, n members of a set of UIDs.                    *)
Oldest(S, n) == {u \in S : Cardinality({v \in S : v <= u}) <= n}
Latest(S, n) == {u \in S : Cardinality({v \in S : v >= u}) <= n}

(* No cursor, or the cursor of another generation.                         *)
Bootstraps(c) == c = NoCheckpoint \/ c.generation # generation

(* Mutant: the cursor's own mail is read again.                            *)
SelectedAgain(c) ==
  IF Bootstraps(c) THEN Latest(Present, Limit)
  ELSE Oldest({u \in Present : u >= c.uid}, Limit)

(* The UIDs that fetch_messages asks for.                                  *)
Selected(c) ==
  IF Bootstraps(c) THEN Latest(Present, Limit)
  ELSE Oldest({u \in Present : u > c.uid}, Limit)

Newest(S) == CHOOSE u \in S : \A v \in S : v <= u
First(S) == CHOOSE u \in S : \A v \in S : u <= v

(* Mutant: the cursor moves over the mails that could not be fetched.      *)
AdvancedOverFailure(c, selected, fetched) ==
  IF selected # {} THEN [generation |-> generation, uid |-> Newest(selected)]
  ELSE IF Bootstraps(c) THEN [generation |-> generation, uid |-> 0]
  ELSE c

(* The checkpoint that _save_checkpoint flushes after fetching a prefix of *)
(* the selected mails.                                                     *)
Advanced(c, selected, fetched) ==
  IF fetched # {} THEN [generation |-> generation, uid |-> Newest(fetched)]
  ELSE IF Bootstraps(c) THEN [generation |-> generation, uid |-> 0]
  ELSE c

(* The attempt that _match_attempt finds for mail m among the SENT         *)
(* attempts S of the snapshot: exactly one, or none.                       *)
Matched(m, S) ==
  IF Outcome[m] # NoOutcome /\ Cardinality(References[m] \cap S) = 1
  THEN CHOOSE a \in References[m] \cap S : TRUE
  ELSE NoAttempt

(* Mutant: the event id leaves the Message-ID out.                         *)
MailKeyByUid(u, m) == <<u, NoMessageId>>

(* _mailbox_event_id: the mailbox, the UID and the Message-ID; not the     *)
(* generation.                                                             *)
MailKey(u, m) == <<u, IF m \in Unidentified THEN NoMessageId ELSE m>>

(* The events that run() inserts: a mail whose key is taken is ingested    *)
(* already, or skipped as a conflict.  No one else writes these keys.      *)
Recorded(mails) ==
  {[key |-> MailKey(c.uid, c.message), attempt |-> c.attempt,
    type |-> Outcome[c.message]] :
     c \in {d \in mails : /\ d.attempt # NoAttempt
                          /\ KeyFree(MailKey(d.uid, d.message))}}

(* The suppression entries that the run's snapshot does not have.          *)
NewlySuppressed(r) ==
  {AddressOf[e.attempt] : e \in {f \in Recorded(r.mails) :
      f.type \in SuppressionTypes}} \ r.suppressed

-----------------------------------------------------------------------------
Init ==
  /\ EngagementInit
  /\ handed = {}
  /\ box = <<>>
  /\ generation = 1
  /\ checkpoint = NoCheckpoint
  /\ run = NoRun
  /\ window = 1
  /\ consumed = {}

(* A send hands its mail to the SMTP server before its commit, which may   *)
(* never come.                                                             *)
HandOver(a) ==
  /\ a \notin handed
  /\ handed' = handed \cup {a}
  /\ UNCHANGED <<engagementVars, box, generation, checkpoint, run, window,
                 consumed>>

CommitHandedSend(a) ==
  /\ a \in handed
  /\ CommitSend(a)
  /\ UNCHANGED mailboxVars

(* A mail, new or moved back, gets the next UID.                           *)
Arrive(m) ==
  /\ References[m] \subseteq handed
  /\ Len(box) < MaxUid
  /\ \A u \in Present : box[u] # m
  /\ box' = Append(box, m)
  /\ UNCHANGED <<engagementVars, handed, generation, checkpoint, run, window,
                 consumed>>

(* The mailbox's owner moves or deletes a mail.                            *)
Expunge(u) ==
  /\ u \in Present
  /\ box' = [box EXCEPT ![u] = NoMessage]
  /\ UNCHANGED <<engagementVars, handed, generation, checkpoint, run, window,
                 consumed>>

(* The IMAP server rebuilds the mailbox under a new UIDVALIDITY and        *)
(* numbers its mails anew, in an order of its own.                         *)
ResetMailbox ==
  /\ generation < MaxGeneration
  /\ generation' = generation + 1
  /\ LET mails == {box[u] : u \in Present} IN
     /\ box' \in [1 .. Cardinality(Present) -> mails]
     /\ {box'[i] : i \in DOMAIN box'} = mails
  /\ UNCHANGED <<engagementVars, handed, checkpoint, run, window, consumed>>

(* The job holds the lock; reading the checkpoint takes the snapshot.      *)
BeginRun ==
  /\ run = NoRun
  /\ run' = [stage |-> "READING", checkpoint |-> checkpoint, sent |-> sent,
             suppressed |-> suppressed, saved |-> checkpoint, mails |-> {},
             window |-> window]
  /\ UNCHANGED <<engagementVars, handed, box, generation, checkpoint, window,
                 consumed>>

(* The IMAP session: the first n of the selected mails can be fetched.     *)
Fetch(n) ==
  /\ run # NoRun
  /\ run.stage = "READING"
  /\ LET selected == Selected(run.checkpoint)
         fetched == Oldest(selected, n)
     IN run' = [run EXCEPT
          !.stage = "FETCHED",
          !.saved = Advanced(run.checkpoint, selected, fetched),
          !.mails = {[generation |-> generation, uid |-> u,
                      message |-> box[u],
                      attempt |-> Matched(box[u], run.sent),
                      due |-> Matched(box[u], sent)] : u \in fetched},
          !.window = IF ~Bootstraps(run.checkpoint) THEN @
                     ELSE IF selected = {} THEN Len(box) + 1
                     ELSE First(selected)]
  /\ UNCHANGED <<engagementVars, handed, box, generation, checkpoint, window,
                 consumed>>

(* Cursor, events and suppression entries commit together; an entry that   *)
(* someone else inserted since the snapshot fails the whole run.           *)
CommitRun ==
  /\ run # NoRun
  /\ run.stage = "FETCHED"
  /\ NewlySuppressed(run) \cap suppressed = {}
  /\ events' = events \cup Recorded(run.mails)
  /\ suppressed' = suppressed \cup NewlySuppressed(run)
  /\ checkpoint' = run.saved
  /\ window' = run.window
  /\ consumed' = consumed \cup run.mails
  /\ run' = NoRun
  /\ UNCHANGED <<sent, report, handed, box, generation>>

(* The IMAP session breaks, an insert fails or the job dies: rollback.     *)
AbortRun ==
  /\ run # NoRun
  /\ run' = NoRun
  /\ UNCHANGED <<engagementVars, handed, box, generation, checkpoint, window,
                 consumed>>

Next ==
  \/ Reporting /\ UNCHANGED mailboxVars
  \/ \E a \in Attempts : HandOver(a) \/ CommitHandedSend(a)
  \/ \E m \in Messages : Arrive(m)
  \/ \E u \in Uids : Expunge(u)
  \/ ResetMailbox
  \/ BeginRun
  \/ \E n \in 0 .. Limit : Fetch(n)
  \/ CommitRun
  \/ AbortRun

Spec == Init /\ [][Next]_vars

(* Cron starts the job again and again, every run ends, and the IMAP       *)
(* server and the database do not fail it for ever.                        *)
Fairness ==
  /\ WF_vars(BeginRun)
  /\ WF_vars(CommitRun \/ AbortRun)
  /\ SF_vars(\E n \in 1 .. Limit : Fetch(n))
  /\ SF_vars(run # NoRun /\ run.mails # {} /\ CommitRun)

FairSpec == Spec /\ Fairness

-----------------------------------------------------------------------------
(* Every variable keeps its type.                                          *)
MailboxTypeOK ==
  /\ EngagementTypeOK
  /\ handed \subseteq Attempts /\ sent \subseteq handed
  /\ box \in Seq(Messages \cup {NoMessage}) /\ Len(box) <= MaxUid
  /\ generation \in Generations
  /\ checkpoint \in Checkpoint \cup {NoCheckpoint}
  /\ run \in Run \cup {NoRun}
  /\ window \in 1 .. MaxUid + 1
  /\ consumed \subseteq Consumed

InCurrentGeneration(c) == c # NoCheckpoint /\ c.generation = generation

(* The durable cursor never lies: every mail of this generation from the   *)
(* bootstrap window up to the cursor was read by a run that committed, and *)
(* no committed run read beyond it.  A failed fetch, a rollback, a mailbox *)
(* reset under a run or a moved mail must not open a gap.                  *)
CursorIsHonest ==
  InCurrentGeneration(checkpoint) =>
    LET read == {c.uid : c \in {d \in consumed : d.generation = generation}}
    IN /\ \A u \in Present : window <= u /\ u <= checkpoint.uid => u \in read
       /\ \A u \in read : u <= checkpoint.uid

(* The cursor and the outcomes move together: a mail that a committed run  *)
(* matched with an attempt has its event, with that outcome, although UIDs *)
(* are given out again after a reset.  Mails without a Message-ID are left *)
(* out: their key is the UID alone.                                        *)
ReadMailIsRecorded ==
  \A c \in consumed :
    c.attempt # NoAttempt /\ c.message \notin Unidentified =>
      \E e \in events : /\ e.key = MailKey(c.uid, c.message)
                        /\ e.attempt = c.attempt
                        /\ e.type = Outcome[c.message]

Unread(u) ==
  u \in Present /\ InCurrentGeneration(checkpoint) /\ u > checkpoint.uid

(* A backlog is drained across runs: a mail beyond the cursor does not     *)
(* stay there, whatever else arrives, fails or is reported.                *)
BacklogDrains == \A u \in Uids : Unread(u) ~> ~Unread(u)

(* docs/mailbox-engagement.md: "Bounces automatically create the existing  *)
(* tenant suppression entry": also the bounce of an attempt that is SENT   *)
(* when its mail is read.                                                  *)
ReadBounceSuppresses ==
  \A c \in consumed :
    Outcome[c.message] = "BOUNCED" /\ c.due # NoAttempt =>
      AddressOf[c.due] \in suppressed
=============================================================================
