---------------------------- MODULE LoginThrottle ----------------------------
(***************************************************************************)
(* Failed logins are counted in the database, for one key and a fixed      *)
(* window of time, so that all workers share the count                     *)
(* (application/login_throttle.py and login in api/app.py).                *)
(*                                                                         *)
(* A login is one transaction.  It adds to the count of its snapshot: an   *)
(* UPDATE writes the sum, not the increment.                               *)
(***************************************************************************)
EXTENDS Naturals, FiniteSets

CONSTANTS
  Workers,        \* logins at work at the same time
  Windows,        \* fixed windows, numbered
  MaxFailures,    \* max_failures_per_email
  MaxLogins,      \* bound: logins of a window
  NoLogin         \* no login at work

ASSUME ThrottleAssumption ==
  /\ Windows \subseteq Nat /\ 0 \in Windows
  /\ MaxFailures \in Nat \ {0} /\ MaxLogins \in Nat

VARIABLES
  window,   \* the window of now
  counted,  \* counted[w]: failure_count of the window's row, 0 without a row
  login,    \* login[k]: the open transaction of worker k, or NoLogin
  begun,    \* bound: logins begun in the window
  failed,   \* history: failed[w]: logins that failed in window w
  contended \* history: windows in which two logins were at work together

throttleVars == <<window, counted, login, begun, failed, contended>>

-----------------------------------------------------------------------------
ThrottleInit ==
  /\ window = 0 /\ begun = 0 /\ contended = {}
  /\ counted = [w \in Windows |-> 0] /\ failed = [w \in Windows |-> 0]
  /\ login = [k \in Workers |-> NoLogin]

NextWindow ==
  /\ window + 1 \in Windows /\ window' = window + 1 /\ begun' = 0
  /\ UNCHANGED <<counted, login, failed, contended>>

AtWork(w) == {k \in Workers : login[k] # NoLogin /\ login[k].window = w}

(* check: a login that is not refused outright.                            *)
BeginLogin(k) ==
  /\ login[k] = NoLogin /\ begun < MaxLogins /\ begun' = begun + 1
  /\ counted[window] < MaxFailures
  /\ login' = [login EXCEPT ![k] = [window |-> window, count |-> counted[window]]]
  /\ contended' = IF AtWork(window) = {} THEN contended ELSE contended \cup {window}
  /\ UNCHANGED <<window, counted, failed>>

(* record_failure: a row that another login has inserted meanwhile is not  *)
(* in the snapshot, and the failure is not counted.                        *)
CountAfter(t) ==
  IF t.count = 0 /\ counted[t.window] > 0 THEN counted[t.window] ELSE t.count + 1

(* The password was wrong.                                                 *)
FailLogin(k) ==
  /\ login[k] # NoLogin
  /\ failed' = [failed EXCEPT ![login[k].window] = @ + 1]
  /\ counted' = [counted EXCEPT ![login[k].window] = CountAfter(login[k])]
  /\ login' = [login EXCEPT ![k] = NoLogin]
  /\ UNCHANGED <<window, begun, contended>>

(* It was right, or the worker died.                                       *)
EndLogin(k) ==
  /\ login[k] # NoLogin
  /\ login' = [login EXCEPT ![k] = NoLogin]
  /\ UNCHANGED <<window, counted, begun, failed, contended>>

ThrottleNext ==
  \/ NextWindow
  \/ \E k \in Workers : BeginLogin(k) \/ FailLogin(k) \/ EndLogin(k)

ThrottleSpec == ThrottleInit /\ [][ThrottleNext]_throttleVars

-----------------------------------------------------------------------------
(* No more failures are counted in a window than there were: nobody is     *)
(* refused for less than the limit, however logins overlap.                *)
CountIsHonest == \A w \in Windows : counted[w] <= failed[w]

(* Where no two logins of a key overlapped, every failure counts, so that  *)
(* the limit is exact; overlapping ones may be lost.                       *)
LoneFailuresCount ==
  \A w \in Windows \ contended : counted[w] = failed[w]
=============================================================================
