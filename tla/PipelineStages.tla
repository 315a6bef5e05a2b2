--------------------------- MODULE PipelineStages ---------------------------
(***************************************************************************)
(* What the sales pipeline promises of an opportunity, with no transaction *)
(* in it: a sent attempt has at most one opportunity, which starts at      *)
(* CONTACTED or RESPONDED and only ever moves on to a stage that may       *)
(* follow.  Opportunities are independent: several may move in one step.   *)
(***************************************************************************)
EXTENDS Sequences

CONSTANT Attempts  \* outbound send attempts

VARIABLE history   \* history[a]: the stages of the attempt's opportunity

(* The stages that may follow each stage.                                  *)
Followers ==
  [CONTACTED |-> {"RESPONDED", "MEETING", "PROPOSAL", "LOST"},
   RESPONDED |-> {"MEETING", "PROPOSAL", "LOST"},
   MEETING   |-> {"PROPOSAL", "LOST"},
   PROPOSAL  |-> {"WON", "LOST"},
   WON       |-> {},
   LOST      |-> {}]

Evolves(h, g) ==
  \/ g = h
  \/ h = <<>> /\ g \in {<<"CONTACTED">>, <<"RESPONDED">>}
  \/ h # <<>> /\ \E t \in Followers[h[Len(h)]] : g = Append(h, t)

Init == history = [a \in Attempts |-> <<>>]

Next ==
  /\ DOMAIN history' = Attempts
  /\ \A a \in Attempts : Evolves(history[a], history'[a])

Spec == Init /\ [][Next]_history
=============================================================================
