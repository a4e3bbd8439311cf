---------------------------- MODULE AlertLedger ----------------------------
(***************************************************************************)
(* What the marker files promise to the people who receive the mails, with *)
(* no file in sight.  A check hands in a verdict on a condition; a faulty  *)
(* verdict mails an alert unless the last mail about the condition already *)
(* was one, a recovered verdict mails a resolution only after an alert.    *)
(* So alerts and resolutions alternate for as long as the process lives.   *)
(***************************************************************************)
CONSTANTS Files,    \* one condition per marker file
          MayFail   \* TRUE: a verdict may be lost to an I/O error

VARIABLES mailed,   \* the last mail about the condition: none, alert, resolved
          pending   \* the verdict being acted upon: none, faulty, recovered

ledgerVars == <<mailed, pending>>

Init == /\ mailed  = [f \in Files |-> "none"]
        /\ pending = [f \in Files |-> "none"]

Submit(f) == /\ pending[f] = "none"
             /\ \E v \in {"faulty", "recovered"} : pending' = [pending EXCEPT ![f] = v]
             /\ UNCHANGED mailed

Done(f) == pending' = [pending EXCEPT ![f] = "none"]

Alert(f) == /\ pending[f] = "faulty"
            /\ mailed[f] # "alert"
            /\ mailed' = [mailed EXCEPT ![f] = "alert"]
            /\ Done(f)

Resolve(f) == /\ pending[f] = "recovered"
              /\ mailed[f] = "alert"
              /\ mailed' = [mailed EXCEPT ![f] = "resolved"]
              /\ Done(f)

(* The verdict adds nothing to what the recipient knows. *)
Suppress(f) == /\ \/ pending[f] = "faulty"    /\ mailed[f] = "alert"
                  \/ pending[f] = "recovered" /\ mailed[f] # "alert"
               /\ Done(f)
               /\ UNCHANGED mailed

Fail(f) == /\ MayFail
           /\ pending[f] # "none"
           /\ Done(f)
           /\ UNCHANGED mailed

Settle(f) == Alert(f) \/ Resolve(f) \/ Suppress(f)

(* The process dies: what it had mailed is forgotten. *)
Restart == /\ mailed'  = [f \in Files |-> "none"]
           /\ pending' = [f \in Files |-> "none"]

Next == \/ \E f \in Files : Submit(f) \/ Settle(f) \/ Fail(f)
        \/ Restart

LedgerSafe == Init /\ [][Next]_ledgerVars

Ledger == LedgerSafe /\ \A f \in Files : WF_ledgerVars(Settle(f) \/ Fail(f))
=============================================================================
