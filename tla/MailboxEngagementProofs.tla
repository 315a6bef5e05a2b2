------------------------ MODULE MailboxEngagementProofs ------------------------
(***************************************************************************)
(* Theorems about MailboxEngagement for any mails, attempts, batch size,   *)
(* UIDs and generations: what a committed run matched is recorded, the     *)
(* cursor never passes an unread mail of its window, and beside the scan   *)
(* the reports of Engagement keep what EngagementProofs shows of them.     *)
(***************************************************************************)
EXTENDS MailboxEngagement, EngagementProofs, Integers, FiniteSetTheorems,
        SequenceTheorems, NaturalsInduction

(* The newest and the oldest of some mails.                                *)
LEMMA NewestIs ==
  ASSUME NEW S, S \subseteq Uids, S # {}
  PROVE  Newest(S) \in S /\ \A v \in S : v <= Newest(S)
<1> DEFINE T == {MaxUid - u : u \in S}
<1>1. MaxUid \in Nat /\ S \subseteq 1 .. MaxUid
  BY MailboxAssumption DEF Uids
<1>2. T \subseteq Nat /\ T # {}
  <2>1. \A u \in S : MaxUid - u \in Nat
    BY <1>1
  <2>2. QED BY <2>1
<1>3. IsWellFoundedOn(OpToRel(<, Nat), Nat)
  BY NatLessThanWellFounded
<1>4. PICK x \in T : \A y \in T : ~ (<<y, x>> \in OpToRel(<, Nat))
  BY <1>2, <1>3, WFMin
<1>5. \A y \in T : ~ (y < x)
  BY <1>2, <1>4 DEF OpToRel
<1>6. PICK u \in S : x = MaxUid - u
  BY <1>4
<1>7. \A v \in S : ~ (MaxUid - v < MaxUid - u)
  BY <1>5, <1>6
<1>8. \A v \in S : v <= u
  BY <1>1, <1>7
<1>9. QED BY <1>8 DEF Newest

LEMMA FirstIs ==
  ASSUME NEW S, S \subseteq Uids, S # {}
  PROVE  First(S) \in S /\ \A v \in S : First(S) <= v
<1>1. S \subseteq Nat
  BY MailboxAssumption DEF Uids
<1>2. IsWellFoundedOn(OpToRel(<, Nat), Nat)
  BY NatLessThanWellFounded
<1>3. PICK u \in S : \A v \in S : ~ (<<v, u>> \in OpToRel(<, Nat))
  BY <1>1, <1>2, WFMin
<1>4. \A v \in S : ~ (v < u)
  BY <1>1, <1>3 DEF OpToRel
<1>5. \A v \in S : u <= v
  BY <1>1, <1>4
<1>6. QED BY <1>5 DEF First

(* A batch has no gap: an older mail of the same kind is in it too, and a  *)
(* bootstrap batch has every newer one.                                    *)
LEMMA UidsFinite ==
  ASSUME NEW S, S \subseteq Uids
  PROVE  IsFiniteSet(S) /\ S \subseteq Nat /\ Cardinality(S) \in Nat
<1>1. IsFiniteSet(Uids) /\ Uids \subseteq Nat
  BY MailboxAssumption, FS_Interval DEF Uids
<1>2. QED BY <1>1, FS_Subset, FS_CardinalityType

LEMMA OldestClosed ==
  ASSUME NEW S, S \subseteq Uids, NEW n \in Nat, NEW v \in Oldest(S, n),
         NEW u \in S, u <= v
  PROVE  u \in Oldest(S, n)
<1> DEFINE A == {w \in S : w <= u}
           B == {w \in S : w <= v}
<1>1. v \in S /\ Cardinality(B) <= n /\ S \subseteq Nat
  BY UidsFinite DEF Oldest
<1>2. A \subseteq B
  <2>1. \A w \in Nat : w <= u => w <= v
    BY <1>1
  <2>2. QED BY <1>1, <2>1
<1>3. IsFiniteSet(B) /\ Cardinality(B) \in Nat /\ Cardinality(A) \in Nat
  BY UidsFinite
<1>4. Cardinality(A) <= Cardinality(B)
  BY <1>2, <1>3, FS_Subset
<1> HIDE DEF B
<1>5. Cardinality(A) <= n
  BY <1>1, <1>3, <1>4
<1>6. QED BY <1>5 DEF Oldest

LEMMA LatestClosed ==
  ASSUME NEW S, S \subseteq Uids, NEW n \in Nat, NEW v \in Latest(S, n),
         NEW u \in S, v <= u
  PROVE  u \in Latest(S, n)
<1> DEFINE A == {w \in S : w >= u}
           B == {w \in S : w >= v}
<1>1. v \in S /\ Cardinality(B) <= n /\ S \subseteq Nat
  BY UidsFinite DEF Latest
<1>2. A \subseteq B
  <2>1. \A w \in Nat : w >= u => w >= v
    BY <1>1
  <2>2. QED BY <1>1, <2>1
<1>3. IsFiniteSet(B) /\ Cardinality(B) \in Nat /\ Cardinality(A) \in Nat
  BY UidsFinite
<1>4. Cardinality(A) <= Cardinality(B)
  BY <1>2, <1>3, FS_Subset
<1> HIDE DEF B
<1>5. Cardinality(A) <= n
  BY <1>1, <1>3, <1>4
<1>6. QED BY <1>5 DEF Latest

(* The attempt of a mail is the only one it refers to.                     *)
LEMMA MatchedIs ==
  ASSUME NEW m \in Messages, NEW S \in SUBSET Attempts
  PROVE  /\ Matched(m, S) \in Attempts \cup {NoAttempt}
         /\ Matched(m, S) # NoAttempt =>
              /\ Outcome[m] \in {"REPLIED", "BOUNCED"}
              /\ References[m] \cap S = {Matched(m, S)}
<1>1. /\ References[m] \subseteq Attempts /\ IsFiniteSet(References[m])
      /\ Outcome[m] \in {"REPLIED", "BOUNCED", NoOutcome}
  BY MailboxAssumption
<1>2. IsFiniteSet(References[m] \cap S)
  BY <1>1, FS_Subset
<1>3. Cardinality(References[m] \cap S) = 1 <=> \E x : References[m] \cap S = {x}
  BY <1>2, FS_Singleton
<1>4. QED BY <1>1, <1>3 DEF Matched

-----------------------------------------------------------------------------
(* What an open run has read of the committed state, and of the mailbox.   *)
RunInv ==
  run # NoRun =>
    /\ run.sent \subseteq sent
    /\ run.suppressed \subseteq suppressed
    /\ run.checkpoint = checkpoint
    /\ run.stage = "READING" =>
         run.saved = checkpoint /\ run.mails = {} /\ run.window = window
    /\ \A c \in run.mails : c.attempt = Matched(c.message, run.sent)
    /\ \A c, d \in run.mails : c.uid = d.uid => c = d

(* No one else writes the keys of mails.                                   *)
ReportsElsewhere ==
  \A r \in Reporters : report[r] # NoReport => report[r].event.key \notin MailKeys

(* The event of a mail names the attempt that the mail refers to: also the *)
(* one that a run matches when it reads the mail again.                    *)
MailEventsFit ==
  \A e \in events, u \in Uids, m \in Messages \ Unidentified :
    e.key = MailKey(u, m) =>
      /\ e.type = Outcome[m]
      /\ e.attempt \in References[m] \cap sent
      /\ run # NoRun => e.attempt \in run.sent

(* A cursor c with window w accounts for the mails C.                      *)
Honest(c, w, C) ==
  /\ c # NoCheckpoint => c.generation <= generation
  /\ \A d \in C : d.generation <= generation
  /\ \A d \in C : d.generation = generation =>
       InCurrentGeneration(c) /\ d.uid <= c.uid
  /\ InCurrentGeneration(c) =>
       /\ c.uid <= Len(box)
       /\ \A u \in Present : w <= u /\ u <= c.uid =>
            \E d \in C : d.generation = generation /\ d.uid = u

(* The committed cursor, and the one that an open run is about to save.    *)
CursorInv ==
  /\ Honest(checkpoint, window, consumed)
  /\ run # NoRun => Honest(run.saved, run.window, consumed \cup run.mails)

MailboxInv ==
  /\ MailboxTypeOK
  /\ EngagementInv
  /\ RunInv
  /\ ReportsElsewhere
  /\ MailEventsFit
  /\ ReadMailIsRecorded
  /\ CursorInv

-----------------------------------------------------------------------------
LEMMA MailboxInitial == Init => MailboxInv
<1> SUFFICES ASSUME Init PROVE MailboxInv
  OBVIOUS
<1>1. EngagementInv
  BY EngagementInitial DEF Init
<1>2. box = <<>> /\ box \in Seq(Messages \cup {NoMessage}) /\ Len(box) = 0
  BY EmptySeq DEF Init
<1>3. MailboxTypeOK
  BY <1>1, <1>2, MailboxAssumption
     DEF Init, MailboxTypeOK, EngagementInv, EngagementInit, Generations
<1>4. events = {} /\ consumed = {} /\ run = NoRun /\ checkpoint = NoCheckpoint
      /\ report = [r \in Reporters |-> NoReport]
  BY DEF Init, EngagementInit
<1>5. CursorInv
  BY <1>4 DEF CursorInv, Honest, InCurrentGeneration
<1>6. QED BY <1>1, <1>3, <1>4, <1>5
          DEF MailboxInv, RunInv, ReportsElsewhere, MailEventsFit, ReadMailIsRecorded

(* The mails of the mailbox.                                               *)
LEMMA PresentIs ==
  ASSUME MailboxTypeOK
  PROVE  /\ Present \subseteq Uids /\ \A u \in Present : box[u] \in Messages
         /\ Len(box) \in Nat /\ Len(box) <= MaxUid /\ DOMAIN box = 1 .. Len(box)
         /\ \A u \in Present : u <= Len(box)
<1>1. box \in Seq(Messages \cup {NoMessage}) /\ Len(box) <= MaxUid
  BY DEF MailboxTypeOK
<1>2. Len(box) \in Nat /\ DOMAIN box = 1 .. Len(box)
      /\ \A u \in DOMAIN box : box[u] \in Messages \cup {NoMessage}
  BY <1>1, LenProperties
<1>3. QED BY <1>1, <1>2, MailboxAssumption DEF Present, Uids

(* Reports, sends and suppressions leave the mailbox and its run alone.    *)
LEMMA EngagementKeeps ==
  ASSUME MailboxInv,
         \/ Reporting /\ UNCHANGED mailboxVars
         \/ \E a \in Attempts : CommitHandedSend(a)
  PROVE  MailboxInv'
<1> USE DEF MailboxInv
<1>1. UNCHANGED mailboxVars /\ EngagementNext
  BY DEF EngagementNext, CommitHandedSend
<1>2. EngagementInv'
  BY <1>1, EngagementStep
<1>3. /\ sent \subseteq sent' /\ sent' \subseteq handed
      /\ suppressed \subseteq suppressed'
  BY CommitAppends DEF CommitHandedSend, CommitSend, Reporting, SuppressAddress,
       BeginReport, AbandonReport, CommitReport, MailboxTypeOK
<1>4. MailboxTypeOK'
  BY <1>1, <1>2, <1>3 DEF MailboxTypeOK, mailboxVars, EngagementInv
<1>5. RunInv'
  BY <1>1, <1>3 DEF RunInv, mailboxVars, Matched
<1>6. ReportsElsewhere'
  <2>1. CASE \E a \in Attempts : CommitHandedSend(a)
    BY <2>1 DEF CommitHandedSend, CommitSend, ReportsElsewhere
  <2>2. CASE \E x \in Addresses : SuppressAddress(x)
    BY <2>2 DEF SuppressAddress, ReportsElsewhere
  <2>3. ASSUME NEW r \in Reporters, NEW k \in EventKeys, NEW a \in Attempts,
               NEW t \in Reported, BeginReport(r, k, a, t)
        PROVE  ReportsElsewhere'
    <3>1. k \notin MailKeys
      BY <2>3, MailboxAssumption DEF BeginReport
    <3>2. report'[r].event.key = k /\ \A s \in Reporters : s # r => report'[s] = report[s]
      BY <2>3 DEF BeginReport, EngagementInv, EngagementTypeOK
    <3>3. QED BY <3>1, <3>2 DEF ReportsElsewhere
  <2>4. ASSUME NEW r \in Reporters, CommitReport(r) \/ AbandonReport(r)
        PROVE  ReportsElsewhere'
    BY <2>4 DEF CommitReport, AbandonReport, ReportsElsewhere, EngagementInv,
                EngagementTypeOK
  <2>5. QED BY <2>1, <2>2, <2>3, <2>4 DEF Reporting
<1>7. events \subseteq events' /\ \A e \in events' : e \in events \/ e.key \notin MailKeys
  <2>1. events' = events \/ \E r \in Reporters : CommitReport(r)
    BY DEF CommitHandedSend, CommitSend, Reporting, SuppressAddress, BeginReport,
           AbandonReport
  <2>2. ASSUME NEW r \in Reporters, CommitReport(r)
        PROVE  events' = events \cup {report[r].event} /\ report[r].event.key \notin MailKeys
    BY <2>2 DEF CommitReport, ReportsElsewhere
  <2>3. QED BY <2>1, <2>2
<1>8. MailEventsFit'
  <2>1. \A u \in Uids, m \in Messages : MailKey(u, m) \in MailKeys
    BY DEF MailKey, MailKeys
  <2>2. QED BY <1>1, <1>3, <1>7, <2>1 DEF MailEventsFit, mailboxVars
<1>9. ReadMailIsRecorded'
  BY <1>1, <1>7 DEF ReadMailIsRecorded, mailboxVars
<1>10. CursorInv'
  BY <1>1 DEF CursorInv, Honest, InCurrentGeneration, Present, mailboxVars
<1>11. QED BY <1>2, <1>4, <1>5, <1>6, <1>8, <1>9, <1>10

(* Steps outside the database change the mailbox, or nothing here.         *)
LEMMA OutsideKeeps ==
  ASSUME MailboxInv, MailboxTypeOK', CursorInv',
         UNCHANGED <<engagementVars, checkpoint, run, window, consumed>>
  PROVE  MailboxInv'
<1>1. EngagementInv'
  BY DEF MailboxInv, EngagementInv, engagementVars, EngagementTypeOK, OmittedIsThere,
         OutcomesSuppress, KeysAreUnique
<1>2. RunInv' /\ ReportsElsewhere' /\ MailEventsFit' /\ ReadMailIsRecorded'
  BY DEF MailboxInv, engagementVars, RunInv, ReportsElsewhere, MailEventsFit,
         ReadMailIsRecorded, Matched
<1>3. QED BY <1>1, <1>2 DEF MailboxInv

LEMMA HandOverKeeps ==
  ASSUME MailboxInv, NEW a \in Attempts, HandOver(a)
  PROVE  MailboxInv'
<1>1. MailboxTypeOK'
  BY DEF MailboxInv, HandOver, MailboxTypeOK, engagementVars, EngagementTypeOK
<1>2. CursorInv'
  BY DEF MailboxInv, HandOver, CursorInv, Honest, InCurrentGeneration, Present
<1>3. QED BY <1>1, <1>2, OutsideKeeps DEF HandOver

(* A cursor that accounts for the mailbox still does when a mail comes in  *)
(* beyond it, when one goes, and when the mails are numbered anew.         *)
LEMMA ArriveKeeps ==
  ASSUME MailboxInv, NEW m \in Messages, Arrive(m)
  PROVE  MailboxInv'
<1>1. box \in Seq(Messages \cup {NoMessage}) /\ Len(box) \in Nat /\ Len(box) < MaxUid
  BY PresentIs DEF MailboxInv, MailboxTypeOK, Arrive
<1>2. /\ box' \in Seq(Messages \cup {NoMessage}) /\ Len(box') = Len(box) + 1
      /\ \A u \in 1 .. Len(box) : box'[u] = box[u]
      /\ DOMAIN box' = 1 .. Len(box) + 1 /\ DOMAIN box = 1 .. Len(box)
  BY <1>1 DEF Arrive
<1>3. MailboxTypeOK'
  BY <1>1, <1>2, MailboxAssumption
     DEF MailboxInv, Arrive, MailboxTypeOK, engagementVars, EngagementTypeOK
<1>4. \A u \in Present' : u \in Present \/ u = Len(box) + 1
  BY <1>1, <1>2 DEF Present
<1>5. ASSUME NEW c \in Checkpoint \cup {NoCheckpoint}, NEW w, NEW C, Honest(c, w, C)
      PROVE  Honest(c, w, C)'
  <2>1. generation' = generation
    BY DEF Arrive
  <2>2. InCurrentGeneration(c) => c.uid \in Nat /\ c.uid <= Len(box)
    BY <1>5, MailboxAssumption DEF Honest, InCurrentGeneration, Checkpoint
  <2>3. InCurrentGeneration(c) =>
          /\ c.uid <= Len(box')
          /\ \A u \in Present' : u <= c.uid => u \in Present
    BY <1>1, <1>2, <1>4, <2>2
  <2>4. QED BY <1>5, <2>1, <2>3 DEF Honest, InCurrentGeneration
<1>6. CursorInv'
  BY <1>5 DEF MailboxInv, CursorInv, Arrive, MailboxTypeOK, Run
<1>7. QED BY <1>3, <1>6, OutsideKeeps DEF Arrive

LEMMA ExpungeKeeps ==
  ASSUME MailboxInv, NEW u \in Uids, Expunge(u)
  PROVE  MailboxInv'
<1>1. box \in Seq(Messages \cup {NoMessage}) /\ u \in 1 .. Len(box)
  BY PresentIs DEF MailboxInv, MailboxTypeOK, Expunge, Present
<1>2. /\ box' \in Seq(Messages \cup {NoMessage}) /\ Len(box') = Len(box)
      /\ \A v \in 1 .. Len(box) : box'[v] = IF v = u THEN NoMessage ELSE box[v]
      /\ DOMAIN box' = 1 .. Len(box) /\ DOMAIN box = 1 .. Len(box)
  BY <1>1, ExceptSeq, LenProperties DEF Expunge
<1>3. MailboxTypeOK'
  BY <1>2 DEF MailboxInv, Expunge, MailboxTypeOK, engagementVars, EngagementTypeOK
<1>4. Present' \subseteq Present
  BY <1>2 DEF Present
<1>5. CursorInv'
  BY <1>2, <1>4 DEF MailboxInv, CursorInv, Honest, InCurrentGeneration, Expunge
<1>6. QED BY <1>3, <1>5, OutsideKeeps DEF Expunge

LEMMA ResetKeeps ==
  ASSUME MailboxInv, ResetMailbox
  PROVE  MailboxInv'
<1> DEFINE n == Cardinality(Present)
           mails == {box[v] : v \in Present}
<1>1. /\ Present \subseteq 1 .. Len(box) /\ Len(box) \in Nat /\ Len(box) <= MaxUid
      /\ mails \subseteq Messages
  BY PresentIs DEF MailboxInv, Present
<1>2. n \in Nat /\ n <= Len(box)
  <2>1. IsFiniteSet(1 .. Len(box)) /\ Cardinality(1 .. Len(box)) = Len(box)
    BY <1>1, FS_Interval
  <2>2. QED BY <1>1, <2>1, FS_Subset, FS_CardinalityType
<1>3. box' \in [1 .. n -> mails]
  BY DEF ResetMailbox
<1> HIDE DEF n, mails
<1>4. box' \in Seq(Messages) /\ Len(box') = n
  <2>1. box' \in [1 .. n -> Messages]
    BY <1>1, <1>3
  <2>2. box' \in Seq(Messages)
    BY <1>2, <2>1, SeqDef
  <2>3. QED BY <1>2, <2>1, <2>2, LenProperties
<1>5. MailboxTypeOK'
  <2>1. box' \in Seq(Messages \cup {NoMessage})
    BY <1>4, SeqMonotonic
  <2>2. generation' \in Generations
    BY MailboxAssumption DEF MailboxInv, MailboxTypeOK, ResetMailbox, Generations
  <2>3. QED BY <1>1, <1>2, <1>4, <2>1, <2>2, MailboxAssumption
            DEF MailboxInv, ResetMailbox, MailboxTypeOK, engagementVars, EngagementTypeOK
<1>6. generation \in Nat /\ generation' = generation + 1
  BY MailboxAssumption DEF ResetMailbox, MailboxInv, MailboxTypeOK, Generations
<1>7. ASSUME NEW c \in Checkpoint \cup {NoCheckpoint}, NEW w, NEW C \in SUBSET Consumed,
             Honest(c, w, C)
      PROVE  Honest(c, w, C)'
  <2>1. /\ c # NoCheckpoint => c.generation \in Nat
        /\ \A d \in C : d.generation \in Nat
    BY MailboxAssumption DEF Checkpoint, Consumed, Generations
  <2>2. /\ c # NoCheckpoint => c.generation < generation'
        /\ \A d \in C : d.generation < generation'
    BY <1>6, <1>7, <2>1 DEF Honest
  <2>3. QED BY <1>6, <2>1, <2>2 DEF Honest, InCurrentGeneration
<1>8. CursorInv'
  BY <1>7 DEF MailboxInv, CursorInv, ResetMailbox, MailboxTypeOK, Run
<1>9. QED BY <1>5, <1>8, OutsideKeeps DEF ResetMailbox

(* A run starts from the committed cursor, and an aborted one saves none.  *)
LEMMA BeginRunKeeps ==
  ASSUME MailboxInv, BeginRun
  PROVE  MailboxInv'
<1>1. /\ UNCHANGED <<engagementVars, handed, box, generation, checkpoint, window, consumed>>
      /\ run' = [stage |-> "READING", checkpoint |-> checkpoint, sent |-> sent,
                 suppressed |-> suppressed, saved |-> checkpoint, mails |-> {},
                 window |-> window]
  BY DEF BeginRun
<1>2. run' \in Run
  BY <1>1 DEF MailboxInv, MailboxTypeOK, EngagementTypeOK, Run
<1>3. MailboxTypeOK'
  BY <1>1, <1>2 DEF MailboxInv, MailboxTypeOK, engagementVars, EngagementTypeOK
<1>4. EngagementInv'
  BY <1>1 DEF MailboxInv, EngagementInv, engagementVars, EngagementTypeOK, OmittedIsThere,
              OutcomesSuppress, KeysAreUnique
<1>5. RunInv'
  BY <1>1 DEF RunInv, engagementVars
<1>6. CursorInv'
  BY <1>1 DEF MailboxInv, CursorInv, Honest, InCurrentGeneration, Present
<1>7. ReportsElsewhere' /\ MailEventsFit' /\ ReadMailIsRecorded'
  BY <1>1 DEF MailboxInv, engagementVars, ReportsElsewhere, MailEventsFit,
              ReadMailIsRecorded
<1>8. QED BY <1>3, <1>4, <1>5, <1>6, <1>7 DEF MailboxInv

LEMMA AbortRunKeeps ==
  ASSUME MailboxInv, AbortRun
  PROVE  MailboxInv'
<1>1. /\ UNCHANGED <<engagementVars, handed, box, generation, checkpoint, window, consumed>>
      /\ run' = NoRun
  BY DEF AbortRun
<1>2. MailboxTypeOK'
  BY <1>1 DEF MailboxInv, MailboxTypeOK, engagementVars, EngagementTypeOK
<1>3. EngagementInv'
  BY <1>1 DEF MailboxInv, EngagementInv, engagementVars, EngagementTypeOK, OmittedIsThere,
              OutcomesSuppress, KeysAreUnique
<1>4. CursorInv'
  BY <1>1 DEF MailboxInv, CursorInv, Honest, InCurrentGeneration, Present
<1>5. RunInv' /\ ReportsElsewhere' /\ MailEventsFit' /\ ReadMailIsRecorded'
  BY <1>1 DEF MailboxInv, engagementVars, RunInv, ReportsElsewhere, MailEventsFit,
              ReadMailIsRecorded
<1>6. QED BY <1>2, <1>3, <1>4, <1>5 DEF MailboxInv

-----------------------------------------------------------------------------
(* The mails that Fetch(n) brings, as records of the run.                  *)
Read(fetched) ==
  {[generation |-> generation, uid |-> u, message |-> box[u],
    attempt |-> Matched(box[u], run.sent), due |-> Matched(box[u], sent)] : u \in fetched}

(* Whatever prefix of the selection can be fetched, the cursor it leads to *)
(* accounts for the mails read before and now.                             *)
LEMMA FetchIsHonest ==
  ASSUME MailboxTypeOK, NEW c \in Checkpoint \cup {NoCheckpoint},
         NEW w, NEW n \in Nat, NEW C \in SUBSET Consumed,
         Honest(c, w, C)
  PROVE  LET selected == Selected(c)
             fetched == Oldest(selected, n)
             start == IF ~Bootstraps(c) THEN w
                      ELSE IF selected = {} THEN Len(box) + 1 ELSE First(selected)
         IN /\ fetched \subseteq Present
            /\ Advanced(c, selected, fetched) \in Checkpoint \cup {NoCheckpoint}
            /\ Bootstraps(c) => start \in 1 .. MaxUid + 1
            /\ Honest(Advanced(c, selected, fetched), start, C \cup Read(fetched))
<1> DEFINE selected == Selected(c)
           fetched == Oldest(selected, n)
           start == IF ~Bootstraps(c) THEN w
                    ELSE IF selected = {} THEN Len(box) + 1 ELSE First(selected)
           saved == Advanced(c, selected, fetched)
<1>1. /\ Present \subseteq Uids /\ Len(box) \in Nat /\ Len(box) <= MaxUid
      /\ \A u \in Present : u <= Len(box)
  BY PresentIs
<1>2. Limit \in Nat /\ MaxUid \in Nat /\ Uids = 1 .. MaxUid
  BY MailboxAssumption DEF Uids
<1>3. selected \subseteq Present
  BY DEF Selected, Latest, Oldest
<1>4. fetched \subseteq selected
  BY DEF Oldest
<1> HIDE DEF selected, fetched, start, saved
<1>0. /\ Uids \subseteq Nat
      /\ \A u \in fetched : u \in Nat /\ u \in Uids /\ u <= Len(box)
      /\ \A d \in C : d.uid \in Nat
  BY <1>1, <1>2, <1>3, <1>4 DEF Consumed
<1>5. generation \in Generations /\ generation \in Nat
  BY MailboxAssumption DEF MailboxTypeOK, Generations
<1>6. Bootstraps(c) <=> ~InCurrentGeneration(c)
  BY DEF Bootstraps, InCurrentGeneration
<1>7. selected # {} => /\ First(selected) \in selected
                       /\ \A v \in selected : First(selected) <= v
  BY <1>1, <1>3, FirstIs
<1>8. fetched # {} => /\ Newest(fetched) \in fetched
                      /\ \A v \in fetched : v <= Newest(fetched)
  BY <1>1, <1>3, <1>4, NewestIs
<1>9. saved \in Checkpoint \cup {NoCheckpoint}
  <2>1. \A u \in fetched : [generation |-> generation, uid |-> u] \in Checkpoint
    BY <1>0, <1>2, <1>5 DEF Checkpoint
  <2>2. [generation |-> generation, uid |-> 0] \in Checkpoint
    BY <1>2, <1>5 DEF Checkpoint
  <2>3. QED BY <1>8, <2>1, <2>2 DEF saved, Advanced
<1>10. Bootstraps(c) => start \in 1 .. MaxUid + 1
  <2>1. CASE selected = {}
    BY <1>1, <1>2, <2>1 DEF start
  <2>2. CASE selected # {}
    <3>1. First(selected) \in 1 .. MaxUid
      BY <1>1, <1>2, <1>3, <1>7, <2>2
    <3>2. QED BY <1>2, <2>2, <3>1 DEF start
  <2>3. QED BY <2>1, <2>2
<1>11. \A d \in Read(fetched) : d.generation = generation /\ d.uid \in fetched
  BY DEF Read
<1>12. \A u \in fetched : \E d \in Read(fetched) : d.generation = generation /\ d.uid = u
  <2> TAKE u \in fetched
  <2> DEFINE d == [generation |-> generation, uid |-> u, message |-> box[u],
                   attempt |-> Matched(box[u], run.sent), due |-> Matched(box[u], sent)]
  <2>1. d \in Read(fetched)
    BY DEF Read
  <2>2. d.generation = generation /\ d.uid = u
    OBVIOUS
  <2> HIDE DEF d
  <2>3. QED BY <2>1, <2>2
<1>13. ASSUME NEW v \in fetched, NEW u \in selected, u <= v PROVE u \in fetched
  BY <1>1, <1>3, <1>13, OldestClosed DEF fetched
<1>14. Honest(saved, start, C \cup Read(fetched))
  <2>1. CASE fetched = {}
    <3>1. Read(fetched) = {}
      BY <2>1 DEF Read
    <3>2. CASE Bootstraps(c)
      <4>1. saved = [generation |-> generation, uid |-> 0]
        BY <2>1, <3>2 DEF saved, Advanced
      <4>2. \A d \in C : d.generation # generation
        BY <1>6, <3>2 DEF Honest
      <4>3. \A u \in Present : ~ (u <= 0)
        BY <1>1, <1>2
      <4>4. saved # NoCheckpoint
        BY <4>1, <1>5, <1>2, MailboxAssumption DEF Checkpoint
      <4>5. \A d \in C : d.generation <= generation
        BY DEF Honest
      <4>6. QED BY <1>1, <1>5, <3>1, <4>1, <4>2, <4>3, <4>4, <4>5
                DEF Honest, InCurrentGeneration
    <3>3. CASE ~Bootstraps(c)
      <4>1. saved = c /\ start = w
        BY <2>1, <3>3 DEF saved, start, Advanced
      <4>2. QED BY <3>1, <4>1
    <3>4. QED BY <3>2, <3>3
  <2>2. CASE fetched # {}
    <3>1. saved = [generation |-> generation, uid |-> Newest(fetched)]
      BY <2>2 DEF saved, Advanced
    <3>2. saved # NoCheckpoint /\ InCurrentGeneration(saved)
      <4>1. [generation |-> generation, uid |-> Newest(fetched)] \in Checkpoint
        BY <1>0, <1>2, <1>5, <1>8, <2>2 DEF Checkpoint
      <4>2. QED BY <3>1, <4>1, MailboxAssumption DEF InCurrentGeneration
    <3>3. \A d \in C \cup Read(fetched) : d.generation <= generation
      BY <1>5, <1>11 DEF Honest
    <3>4. \A d \in C \cup Read(fetched) : d.generation = generation => d.uid <= saved.uid
      <4>1. ASSUME NEW d \in C, d.generation = generation PROVE d.uid <= Newest(fetched)
        <5>1. InCurrentGeneration(c) /\ d.uid <= c.uid
          BY <4>1 DEF Honest
        <5>2. Newest(fetched) \in selected /\ Newest(fetched) \in Nat
          BY <1>0, <1>4, <1>8, <2>2
        <5>3. Newest(fetched) > c.uid
          BY <1>6, <5>1, <5>2 DEF selected, Selected, Oldest
        <5>4. c.uid \in Nat /\ d.uid \in Nat
          BY <1>0, <1>2, <5>1 DEF InCurrentGeneration, Checkpoint
        <5>5. QED BY <5>1, <5>2, <5>3, <5>4
      <4>2. \A d \in Read(fetched) : d.uid <= Newest(fetched)
        BY <1>8, <1>11, <2>2
      <4>3. QED BY <3>1, <4>1, <4>2
    <3>5. saved.uid <= Len(box)
      BY <1>0, <1>8, <2>2, <3>1
    <3>6. ASSUME NEW u \in Present, start <= u, u <= Newest(fetched)
          PROVE  \E d \in C \cup Read(fetched) : d.generation = generation /\ d.uid = u
      <4>1. CASE Bootstraps(c)
        <5>1. start = First(selected) /\ First(selected) \in Latest(Present, Limit)
          BY <1>4, <1>7, <2>2, <4>1 DEF start, selected, Selected
        <5>2. u \in selected
          BY <1>1, <1>2, <3>6, <4>1, <5>1, LatestClosed DEF selected, Selected
        <5>3. u \in fetched
          BY <1>8, <1>13, <2>2, <3>6, <5>2
        <5>4. QED BY <1>12, <5>3
      <4>2. CASE ~Bootstraps(c)
        <5>1. InCurrentGeneration(c) /\ start = w /\ c.uid \in Nat /\ u \in Nat
          BY <1>0, <1>1, <1>2, <1>6, <4>2 DEF start, InCurrentGeneration, Checkpoint
        <5>2. CASE u <= c.uid
          BY <3>6, <5>1, <5>2 DEF Honest
        <5>3. CASE u > c.uid
          <6> DEFINE beyond == {v \in Present : v > c.uid}
          <6>1. selected = Oldest(beyond, Limit) /\ u \in beyond
            BY <4>2, <5>3 DEF selected, Selected
          <6>2. Newest(fetched) \in Oldest(beyond, Limit) /\ beyond \subseteq Uids
            BY <1>1, <1>4, <1>8, <2>2, <6>1
          <6>3. u \in selected
            BY <1>2, <3>6, <6>1, <6>2, OldestClosed
          <6>4. u \in fetched
            BY <1>8, <1>13, <2>2, <3>6, <6>3
          <6>5. QED BY <1>12, <6>4
        <5>4. QED BY <5>1, <5>2, <5>3
      <4>3. QED BY <4>1, <4>2
    <3>7. saved.generation = generation /\ saved.uid = Newest(fetched)
      BY <3>1
    <3>8. QED BY <1>5, <3>2, <3>3, <3>4, <3>5, <3>6, <3>7 DEF Honest
  <2>3. QED BY <2>1, <2>2
<1>15. fetched \subseteq Present
  BY <1>3, <1>4
<1>16. QED BY <1>9, <1>10, <1>14, <1>15 DEF fetched, selected, saved, start

LEMMA FetchKeeps ==
  ASSUME MailboxInv, NEW n \in 0 .. Limit, Fetch(n)
  PROVE  MailboxInv'
<1> DEFINE c == run.checkpoint
           selected == Selected(c)
           fetched == Oldest(selected, n)
           start == IF ~Bootstraps(c) THEN run.window
                    ELSE IF selected = {} THEN Len(box) + 1 ELSE First(selected)
           saved == Advanced(c, selected, fetched)
<1>1. /\ MailboxTypeOK /\ run \in Run /\ run # NoRun /\ run.stage = "READING"
      /\ n \in Nat
  BY MailboxAssumption DEF MailboxInv, MailboxTypeOK, Fetch
<1>2. /\ c = checkpoint /\ c \in Checkpoint \cup {NoCheckpoint}
      /\ run.window = window /\ run.window \in 1 .. MaxUid + 1
      /\ run.sent \in SUBSET Attempts /\ run.mails = {}
      /\ consumed \in SUBSET Consumed
  BY <1>1 DEF MailboxInv, RunInv, MailboxTypeOK, Run
<1>3. Honest(c, run.window, consumed)
  BY <1>2 DEF MailboxInv, CursorInv
<1>4. run' = [run EXCEPT !.stage = "FETCHED", !.saved = saved, !.mails = Read(fetched),
                         !.window = start]
  BY DEF Fetch, Read
<1>5. /\ fetched \subseteq Present /\ saved \in Checkpoint \cup {NoCheckpoint}
      /\ Bootstraps(c) => start \in 1 .. MaxUid + 1
      /\ Honest(saved, start, consumed \cup Read(fetched))
  BY <1>1, <1>2, <1>3, FetchIsHonest
<1>6. start \in 1 .. MaxUid + 1
  BY <1>2, <1>5
<1>7. UNCHANGED <<engagementVars, handed, box, generation, checkpoint, window, consumed>>
  BY DEF Fetch
<1> HIDE DEF c, selected, fetched, start, saved
<1>8. \A u \in fetched : u \in Uids /\ box[u] \in Messages
  BY <1>1, <1>5, PresentIs
<1>9. Read(fetched) \subseteq Consumed
  <2> SUFFICES ASSUME NEW u \in fetched
               PROVE  [generation |-> generation, uid |-> u, message |-> box[u],
                       attempt |-> Matched(box[u], run.sent),
                       due |-> Matched(box[u], sent)] \in Consumed
    BY DEF Read
  <2>1. sent \in SUBSET Attempts /\ generation \in Generations
    BY <1>1 DEF MailboxTypeOK
  <2>2. /\ Matched(box[u], run.sent) \in Attempts \cup {NoAttempt}
        /\ Matched(box[u], sent) \in Attempts \cup {NoAttempt}
    BY <1>2, <1>8, <2>1, MatchedIs
  <2>3. QED BY <1>8, <2>1, <2>2 DEF Consumed
<1>10. /\ run' \in Run /\ run' # NoRun
       /\ run'.stage = "FETCHED" /\ run'.checkpoint = run.checkpoint
       /\ run'.sent = run.sent /\ run'.suppressed = run.suppressed
       /\ run'.saved = saved /\ run'.mails = Read(fetched) /\ run'.window = start
  <2>1. run' \in Run
    BY <1>1, <1>4, <1>5, <1>6, <1>9 DEF Run
  <2>2. QED BY <1>1, <1>4, <2>1, MailboxAssumption DEF Run
<1>11. MailboxTypeOK'
  BY <1>1, <1>7, <1>10 DEF MailboxTypeOK, engagementVars, EngagementTypeOK
<1>12. EngagementInv'
  BY <1>7 DEF MailboxInv, EngagementInv, engagementVars, EngagementTypeOK, OmittedIsThere,
              OutcomesSuppress, KeysAreUnique
<1>13. RunInv'
  <2>1. \A d \in Read(fetched) : d.attempt = Matched(d.message, run.sent)
    BY DEF Read
  <2>2. \A d, e \in Read(fetched) : d.uid = e.uid => d = e
    BY DEF Read
  <2>3. run.sent \subseteq sent /\ run.suppressed \subseteq suppressed
        /\ run.checkpoint = checkpoint
    BY <1>1 DEF MailboxInv, RunInv
  <2>4. QED BY <1>7, <1>10, <2>1, <2>2, <2>3 DEF RunInv, engagementVars, Matched
<1>14. ReportsElsewhere' /\ MailEventsFit' /\ ReadMailIsRecorded'
  BY <1>1, <1>7, <1>10 DEF MailboxInv, engagementVars, ReportsElsewhere, MailEventsFit,
              ReadMailIsRecorded
<1>15. CursorInv'
  BY <1>5, <1>7, <1>10 DEF MailboxInv, CursorInv, Honest, InCurrentGeneration, Present
<1>16. QED BY <1>11, <1>12, <1>13, <1>14, <1>15 DEF MailboxInv

(* The events that a run brings: one for each mail it matched, under a key *)
(* that was free.                                                          *)
LEMMA RecordedIs ==
  ASSUME MailboxInv, run # NoRun
  PROVE  /\ Recorded(run.mails) \subseteq Event
         /\ \A e, f \in Recorded(run.mails) : e.key = f.key => e = f
         /\ \A e \in Recorded(run.mails) : KeyFree(e.key)
         /\ \A e \in Recorded(run.mails) : \E d \in run.mails :
              /\ d.uid \in Uids /\ d.message \in Messages
              /\ e.key = MailKey(d.uid, d.message)
              /\ e.type = Outcome[d.message]
              /\ e.attempt \in References[d.message] \cap run.sent
<1>1. run \in Run /\ run.mails \subseteq Consumed /\ run.sent \in SUBSET Attempts
  BY DEF MailboxInv, MailboxTypeOK, Run
<1>2. ASSUME NEW e \in Recorded(run.mails)
      PROVE  /\ e \in Event /\ KeyFree(e.key)
             /\ \E d \in run.mails :
                  /\ d.uid \in Uids /\ d.message \in Messages
                  /\ e = [key |-> MailKey(d.uid, d.message), attempt |-> d.attempt,
                          type |-> Outcome[d.message]]
                  /\ e.attempt \in References[d.message] \cap run.sent
  <2>1. PICK d \in run.mails :
          /\ d.attempt # NoAttempt /\ KeyFree(MailKey(d.uid, d.message))
          /\ e = [key |-> MailKey(d.uid, d.message), attempt |-> d.attempt,
                  type |-> Outcome[d.message]]
    BY DEF Recorded
  <2>2. d.uid \in Uids /\ d.message \in Messages
    BY <1>1 DEF Consumed
  <2>3. d.attempt = Matched(d.message, run.sent)
    BY DEF MailboxInv, RunInv
  <2>4. /\ d.attempt \in Attempts /\ Outcome[d.message] \in {"REPLIED", "BOUNCED"}
        /\ References[d.message] \cap run.sent = {d.attempt}
    BY <1>1, <2>1, <2>2, <2>3, MatchedIs
  <2>5. MailKey(d.uid, d.message) \in EventKeys
    BY <2>2, MailboxAssumption DEF MailKey, MailKeys
  <2>6. Outcome[d.message] \in EventTypes
    BY <2>4 DEF EventTypes
  <2>7. e \in Event
    BY <2>1, <2>4, <2>5, <2>6 DEF Event
  <2>8. QED BY <2>1, <2>2, <2>4, <2>7
<1>3. ASSUME NEW e \in Recorded(run.mails), NEW f \in Recorded(run.mails), e.key = f.key
      PROVE  e = f
  <2>1. PICK d \in run.mails : e = [key |-> MailKey(d.uid, d.message),
                                    attempt |-> d.attempt, type |-> Outcome[d.message]]
    BY DEF Recorded
  <2>2. PICK g \in run.mails : f = [key |-> MailKey(g.uid, g.message),
                                    attempt |-> g.attempt, type |-> Outcome[g.message]]
    BY DEF Recorded
  <2>3. d.uid = g.uid
    BY <1>3, <2>1, <2>2 DEF MailKey
  <2>4. d = g
    BY <2>3 DEF MailboxInv, RunInv
  <2>5. QED BY <2>1, <2>2, <2>4
<1>4. QED BY <1>2, <1>3

LEMMA CommitRunKeeps ==
  ASSUME MailboxInv, CommitRun
  PROVE  MailboxInv'
<1> DEFINE new == Recorded(run.mails)
<1>1. /\ run \in Run /\ run # NoRun
      /\ run.mails \subseteq Consumed /\ run.sent \in SUBSET Attempts
  BY DEF MailboxInv, MailboxTypeOK, CommitRun, Run
<1>2. /\ events' = events \cup new
      /\ suppressed' = suppressed \cup NewlySuppressed(run)
      /\ checkpoint' = run.saved /\ window' = run.window
      /\ consumed' = consumed \cup run.mails /\ run' = NoRun
      /\ UNCHANGED <<sent, report, handed, box, generation>>
  BY DEF CommitRun
<1>3. /\ new \subseteq Event
      /\ \A e, f \in new : e.key = f.key => e = f
      /\ \A e \in new : KeyFree(e.key)
      /\ \A e \in new : \E d \in run.mails :
           /\ d.uid \in Uids /\ d.message \in Messages
           /\ e.key = MailKey(d.uid, d.message) /\ e.type = Outcome[d.message]
           /\ e.attempt \in References[d.message] \cap run.sent
  BY <1>1, RecordedIs
<1>4. /\ run.sent \subseteq sent /\ run.suppressed \subseteq suppressed
      /\ \A d \in run.mails : d.attempt = Matched(d.message, run.sent)
  BY <1>1 DEF MailboxInv, RunInv
<1>5. NewlySuppressed(run) \subseteq Addresses
      /\ \A e \in new : e.type \in SuppressionTypes => AddressOf[e.attempt] \in suppressed'
  <2>1. NewlySuppressed(run) =
          {AddressOf[e.attempt] : e \in {f \in new : f.type \in SuppressionTypes}}
            \ run.suppressed
    BY DEF NewlySuppressed
  <2> HIDE DEF new
  <2>2. QED BY <1>2, <1>3, <1>4, <2>1, EngagementAssumption DEF Event
<1> HIDE DEF new
<1>6. EngagementInv'
  <2>1. EngagementTypeOK'
    BY <1>2, <1>3, <1>5 DEF MailboxInv, MailboxTypeOK, EngagementTypeOK
  <2>2. OmittedIsThere' /\ OutcomesSuppress'
    BY <1>2, <1>5 DEF MailboxInv, EngagementInv, OmittedIsThere, OutcomesSuppress
  <2>3. KeysAreUnique'
    BY <1>2, <1>3 DEF MailboxInv, EngagementInv, KeysAreUnique, KeyFree
  <2>4. QED BY <2>1, <2>2, <2>3 DEF EngagementInv
<1>7. MailboxTypeOK'
  BY <1>1, <1>2, <1>6 DEF MailboxInv, MailboxTypeOK, EngagementInv, Run
<1>8. RunInv' /\ ReportsElsewhere'
  BY <1>2 DEF MailboxInv, RunInv, ReportsElsewhere
<1>9. \A u, v \in Uids, m \in Messages \ Unidentified, k \in Messages :
        MailKey(u, m) = MailKey(v, k) => u = v /\ m = k
  BY MailboxAssumption DEF MailKey
<1>10. MailEventsFit'
  <2> SUFFICES ASSUME NEW e \in events', NEW u \in Uids, NEW m \in Messages \ Unidentified,
                      e.key = MailKey(u, m)
               PROVE  e.type = Outcome[m] /\ e.attempt \in References[m] \cap sent'
    BY <1>2 DEF MailEventsFit, MailKey
  <2>1. CASE e \in events
    BY <1>2, <2>1 DEF MailboxInv, MailEventsFit
  <2>2. CASE e \in new
    BY <1>2, <1>3, <1>4, <1>9, <2>2
  <2>3. QED BY <1>2, <2>1, <2>2
<1>11. ReadMailIsRecorded'
  <2> SUFFICES ASSUME NEW d \in consumed', d.attempt # NoAttempt, d.message \notin Unidentified
               PROVE  \E e \in events' : /\ e.key = MailKey(d.uid, d.message)
                                         /\ e.attempt = d.attempt
                                         /\ e.type = Outcome[d.message]
    BY DEF ReadMailIsRecorded, MailKey
  <2>1. CASE d \in consumed
    BY <1>2, <2>1 DEF MailboxInv, ReadMailIsRecorded
  <2>2. CASE d \in run.mails
    <3>1. d.uid \in Uids /\ d.message \in Messages \ Unidentified
      BY <1>1, <2>2 DEF Consumed
    <3>2. References[d.message] \cap run.sent = {d.attempt}
      BY <1>1, <1>4, <2>2, <3>1, MatchedIs
    <3>3. CASE KeyFree(MailKey(d.uid, d.message))
      <4> DEFINE e == [key |-> MailKey(d.uid, d.message), attempt |-> d.attempt,
                       type |-> Outcome[d.message]]
      <4>1. e \in new
        BY <2>2, <3>3 DEF new, Recorded
      <4>2. e.key = MailKey(d.uid, d.message) /\ e.attempt = d.attempt
            /\ e.type = Outcome[d.message]
        OBVIOUS
      <4> HIDE DEF e
      <4>3. QED BY <1>2, <4>1, <4>2
    <3>4. CASE ~KeyFree(MailKey(d.uid, d.message))
      <4>1. PICK e \in events : e.key = MailKey(d.uid, d.message)
        BY <3>4 DEF KeyFree
      <4>2. /\ e.type = Outcome[d.message]
            /\ e.attempt \in References[d.message] \cap run.sent
        BY <1>1, <3>1, <4>1 DEF MailboxInv, MailEventsFit
      <4>3. e.attempt = d.attempt
        BY <3>2, <4>2
      <4>4. QED BY <1>2, <4>1, <4>2, <4>3
    <3>5. QED BY <3>3, <3>4
  <2>3. QED BY <1>2, <2>1, <2>2
<1>12. CursorInv'
  BY <1>1, <1>2 DEF MailboxInv, CursorInv, Honest, InCurrentGeneration, Present
<1>13. QED BY <1>6, <1>7, <1>8, <1>10, <1>11, <1>12 DEF MailboxInv

LEMMA MailboxStep ==
  ASSUME MailboxInv, [Next]_vars
  PROVE  MailboxInv'
<1>1. CASE UNCHANGED vars
  <2>1. MailboxTypeOK' /\ CursorInv'
    BY <1>1 DEF vars, mailboxVars, engagementVars, MailboxInv, MailboxTypeOK,
                EngagementTypeOK, CursorInv, Honest, InCurrentGeneration, Present
  <2>2. QED BY <1>1, <2>1, OutsideKeeps DEF vars, mailboxVars
<1>2. CASE Next
  BY <1>2, EngagementKeeps, HandOverKeeps, ArriveKeeps, ExpungeKeeps, ResetKeeps,
     BeginRunKeeps, FetchKeeps, CommitRunKeeps, AbortRunKeeps DEF Next
<1>3. QED BY <1>1, <1>2

-----------------------------------------------------------------------------
(* What the open run has fetched, and the checkpoint it will save (read).  *)
THEOREM MailboxInvariant == Spec => []MailboxInv
BY MailboxInitial, MailboxStep, PTL DEF Spec

(* Every variable keeps its type.                                          *)
THEOREM MailboxTypeCorrect == Spec => []MailboxTypeOK
<1>1. MailboxInv => MailboxTypeOK
  BY DEF MailboxInv
<1>2. QED BY <1>1, MailboxInvariant, PTL

(* A committed run never loses an outcome that it matched: UIDs given out  *)
(* again, retried runs and racing reports never take a mail's key.         *)
THEOREM ReadMailIsAlwaysRecorded == Spec => []ReadMailIsRecorded
<1>1. MailboxInv => ReadMailIsRecorded
  BY DEF MailboxInv
<1>2. QED BY <1>1, MailboxInvariant, PTL

(* The durable cursor (mailbox_checkpoint.py) never passes a mail of its   *)
(* window that no committed run has read, whatever could be fetched.       *)
THEOREM CursorIsAlwaysHonest == Spec => []CursorIsHonest
<1>1. ASSUME MailboxInv, InCurrentGeneration(checkpoint) PROVE CursorIsHonest
  <2>1. Honest(checkpoint, window, consumed)
    BY <1>1 DEF MailboxInv, CursorInv
  <2>2. QED BY <1>1, <2>1 DEF Honest, CursorIsHonest
<1>2. MailboxInv => CursorIsHonest
  BY <1>1 DEF CursorIsHonest
<1>3. QED BY <1>2, MailboxInvariant, PTL

(* Beside the scan, which writes events and suppressions of its own, every *)
(* recorded bounce, complaint and opt-out has its suppression entry.       *)
THEOREM ScanSuppressesToo == Spec => []OutcomesSuppress
<1>1. MailboxInv => OutcomesSuppress
  BY DEF MailboxInv, EngagementInv
<1>2. QED BY <1>1, MailboxInvariant, PTL
=============================================================================
