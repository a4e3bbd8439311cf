------------------------- MODULE AlertMarker_proofs -------------------------
(* Theorems about the marker files, for any number of files and handlers. *)
EXTENDS AlertMarker, TLAPS

Assumptions == FilesAssumption /\ CallersAssumption /\ FaultsAssumption /\ RestartsAssumption

(* The assumptions on the constants, in one name. *)
LEMMA Assumed == Assumptions
  BY FilesAssumption, CallersAssumption, FaultsAssumption, RestartsAssumption DEF Assumptions

(* A new container is well formed. *)
LEMMA InitTypeOK == Init => TypeOK
  BY Assumed DEF Init, CleanSlate, TypeOK, Assumptions

(* Every step of a call keeps the types, its own step and file in accord. *)
LEMMA StepTypeOK ==
  ASSUME TypeOK, NEW p \in Handlers, Advance(p)
  PROVE  TypeOK'
<1> USE Assumed DEF TypeOK, Assumptions, At, Goto, Return, Mark, Mail, AlertSteps, RecoverSteps
<1>1. CASE AlertStat(p)   BY <1>1 DEF AlertStat
<1>2. CASE AlertRead(p)   BY <1>2 DEF AlertRead
<1>3. CASE Truncate(p)    BY <1>3 DEF Truncate
<1>4. CASE Open(p)        BY <1>4 DEF Open
<1>5. CASE Write(p)       BY <1>5 DEF Write
<1>6. CASE AlertMail(p)   BY <1>6 DEF AlertMail
<1>7. CASE RecoverStat(p) BY <1>7 DEF RecoverStat
<1>8. CASE RecoverRead(p) BY <1>8 DEF RecoverRead
<1>9. CASE RecoverMail(p) BY <1>9 DEF RecoverMail
<1>10. CASE Remove(p)     BY <1>10 DEF Remove, OpenOn
<1> QED BY <1>1, <1>2, <1>3, <1>4, <1>5, <1>6, <1>7, <1>8, <1>9, <1>10 DEF Advance

(* Every step keeps the types. *)
LEMMA NextTypeOK == TypeOK /\ [Next]_vars => TypeOK'
<1> SUFFICES ASSUME TypeOK, [Next]_vars PROVE TypeOK'
  OBVIOUS
<1>1. CASE \E p \in Handlers : Advance(p)
  BY <1>1, StepTypeOK
<1>2. CASE \E f \in Files, verdict \in {"faulty", "recovered"} : Call(f, verdict)
  <2>1. PICK f \in Files, verdict \in {"faulty", "recovered"}, p \in Handlers :
          SendEmail(p, f, verdict)
    BY <1>2 DEF Call
  <2> QED BY <2>1, Assumed DEF SendEmail, TypeOK, Assumptions, At, AlertSteps, RecoverSteps
<1>3. CASE Restart
  BY <1>3, Assumed DEF Restart, CleanSlate, TypeOK, Assumptions
<1>4. CASE UNCHANGED vars
  BY <1>4 DEF vars, TypeOK
<1> QED BY <1>1, <1>2, <1>3, <1>4 DEF Next

(* The state of the two functions stays in its types: in particular, only  *)
(* a handler between its open and its write holds a removed file.          *)
THEOREM Typing == Spec => []TypeOK
  BY InitTypeOK, NextTypeOK, PTL DEF Spec
----------------------------------------------------------------------------
(* A marker that reads "sent" tells the truth under any concurrency, as    *)
(* long as removing a file does not fail.                                  *)

(* No marker exists at first. *)
LEMMA InitMarkerTruth == Init => MarkerTruth
  BY DEF Init, CleanSlate, MarkerTruth

(* A step of a handler concerns the marker of its own file only. *)
LEMMA StepMarkerTruth ==
  ASSUME "remove" \notin Faults, TypeOK, MarkerTruth, NEW p \in Handlers, Advance(p)
  PROVE  MarkerTruth'
<1> USE Assumed DEF TypeOK, Assumptions, MarkerTruth, Busy, At, Goto, Return, Mark, Mail
<1>1. CASE AlertStat(p)   BY <1>1 DEF AlertStat
<1>2. CASE AlertRead(p)   BY <1>2 DEF AlertRead
<1>3. CASE Truncate(p)    BY <1>3 DEF Truncate
<1>4. CASE Open(p)        BY <1>4 DEF Open
<1>5. CASE Write(p)       BY <1>5 DEF Write
<1>6. CASE AlertMail(p)   BY <1>6 DEF AlertMail
<1>7. CASE RecoverStat(p) BY <1>7 DEF RecoverStat
<1>8. CASE RecoverRead(p) BY <1>8 DEF RecoverRead
<1>9. CASE RecoverMail(p) BY <1>9 DEF RecoverMail
<1>10. CASE Remove(p)     BY <1>10 DEF Remove, OpenOn, Fails
<1> QED BY <1>1, <1>2, <1>3, <1>4, <1>5, <1>6, <1>7, <1>8, <1>9, <1>10 DEF Advance

(* Whatever the number of handlers on one marker, and whatever fails short *)
(* of os.Remove: SendEmailAlert never hushes up a fault that the recipient *)
(* has not been, and is not about to be, told of.                          *)
THEOREM MarkerTruthHolds ==
  ASSUME "remove" \notin Faults
  PROVE  Spec => []MarkerTruth
<1>1. TypeOK /\ MarkerTruth /\ [Next]_vars => MarkerTruth'
  <2> SUFFICES ASSUME TypeOK, MarkerTruth, [Next]_vars PROVE MarkerTruth'
    OBVIOUS
  <2>1. CASE \E p \in Handlers : Advance(p)
    BY <2>1, StepMarkerTruth
  <2>2. CASE \E f \in Files, verdict \in {"faulty", "recovered"} : Call(f, verdict)
    BY <2>2 DEF Call, SendEmail, MarkerTruth, Busy, TypeOK, At
  <2>3. CASE Restart
    BY <2>3 DEF Restart, CleanSlate, MarkerTruth
  <2>4. CASE UNCHANGED vars
    BY <2>4 DEF vars, MarkerTruth, Busy
  <2> QED BY <2>1, <2>2, <2>3, <2>4 DEF Next
<1> QED BY <1>1, InitMarkerTruth, Typing, PTL DEF Spec

----------------------------------------------------------------------------
(* While no system call fails, an unfinished marker has a writer. *)

(* The writer of an unfinished marker finishes it, or passes it on. *)
LEMMA StepUnfinished ==
  ASSUME Faults = {}, TypeOK, UnfinishedHasWriter, NEW p \in Handlers, Advance(p)
  PROVE  UnfinishedHasWriter'
<1> USE Assumed DEF TypeOK, Assumptions, UnfinishedHasWriter, Busy, At, Goto, Return, Mark, Mail, Fails
<1>1. CASE AlertStat(p)   BY <1>1 DEF AlertStat
<1>2. CASE AlertRead(p)   BY <1>2 DEF AlertRead
<1>3. CASE Truncate(p)    BY <1>3 DEF Truncate
<1>4. CASE Open(p)        BY <1>4 DEF Open
<1>5. CASE Write(p)       BY <1>5 DEF Write
<1>6. CASE AlertMail(p)   BY <1>6 DEF AlertMail
<1>7. CASE RecoverStat(p) BY <1>7 DEF RecoverStat
<1>8. CASE RecoverRead(p) BY <1>8 DEF RecoverRead
<1>9. CASE RecoverMail(p) BY <1>9 DEF RecoverMail
<1>10. CASE Remove(p)     BY <1>10 DEF Remove, OpenOn
<1> QED BY <1>1, <1>2, <1>3, <1>4, <1>5, <1>6, <1>7, <1>8, <1>9, <1>10 DEF Advance

(* No interleaving of SendEmailAlert and SendEmailRecoveredAlert leaves a  *)
(* file that SendEmailRecoveredAlert reads and does not remove.            *)
THEOREM UnfinishedHasWriterHolds ==
  ASSUME Faults = {}
  PROVE  Spec => []UnfinishedHasWriter
<1>1. Init => UnfinishedHasWriter
  BY DEF Init, CleanSlate, UnfinishedHasWriter
<1>2. TypeOK /\ UnfinishedHasWriter /\ [Next]_vars => UnfinishedHasWriter'
  <2> SUFFICES ASSUME TypeOK, UnfinishedHasWriter, [Next]_vars PROVE UnfinishedHasWriter'
    OBVIOUS
  <2>1. CASE \E p \in Handlers : Advance(p)
    BY <2>1, StepUnfinished
  <2>2. CASE \E f \in Files, verdict \in {"faulty", "recovered"} : Call(f, verdict)
    BY <2>2 DEF Call, SendEmail, UnfinishedHasWriter, Busy, TypeOK, At
  <2>3. CASE Restart
    BY <2>3 DEF Restart, CleanSlate, UnfinishedHasWriter
  <2>4. CASE UNCHANGED vars
    BY <2>4 DEF vars, UnfinishedHasWriter, Busy
  <2> QED BY <2>1, <2>2, <2>3, <2>4 DEF Next
<1> QED BY <1>1, <1>2, Typing, PTL DEF Spec
----------------------------------------------------------------------------
(* Calls on one marker that do not overlap. *)

Serial == \A f \in Files : \A p, q \in Callers[f] : p = q

(* One step of a serial handler leaves its own file as SerialInv says, and *)
(* the files of the others, which are different ones, alone.               *)
LEMMA StepSerialInv ==
  ASSUME Serial, "remove" \notin Faults, TypeOK, SerialInv, NEW p \in Handlers, Advance(p)
  PROVE  SerialInv'
<1> USE Assumed DEF TypeOK, Assumptions, Serial, SerialInv, SettledAgreement, Agreement, NoCall,
                    Busy, At, Goto, Return, Mark, Mail
<1>1. CASE AlertStat(p)   BY <1>1 DEF AlertStat
<1>2. CASE AlertRead(p)   BY <1>2 DEF AlertRead
<1>3. CASE Truncate(p)    BY <1>3 DEF Truncate
<1>4. CASE Open(p)        BY <1>4 DEF Open
<1>5. CASE Write(p)       BY <1>5 DEF Write
<1>6. CASE AlertMail(p)   BY <1>6 DEF AlertMail
<1>7. CASE RecoverStat(p) BY <1>7 DEF RecoverStat
<1>8. CASE RecoverRead(p) BY <1>8 DEF RecoverRead
<1>9. CASE RecoverMail(p) BY <1>9 DEF RecoverMail
<1>10. CASE Remove(p)     BY <1>10 DEF Remove, OpenOn, Fails
<1> QED BY <1>1, <1>2, <1>3, <1>4, <1>5, <1>6, <1>7, <1>8, <1>9, <1>10 DEF Advance

(* A new call starts on a file that no other call is on. *)
LEMMA CallSerialInv ==
  ASSUME Serial, TypeOK, SerialInv, NEW p \in Handlers, NEW f \in Files,
         NEW verdict \in {"faulty", "recovered"}, SendEmail(p, f, verdict)
  PROVE  SerialInv'
<1>1. NoCall(f) /\ Agreement(f)
  BY Assumed DEF SendEmail, TypeOK, Serial, NoCall, SerialInv, SettledAgreement, At, Assumptions
<1> QED BY <1>1, Assumed DEF SendEmail, TypeOK, SerialInv, SettledAgreement, Agreement, NoCall,
                             Busy, At, Assumptions

(* The inductive invariant of serial use. *)
LEMMA SerialInvHolds ==
  ASSUME Serial, "remove" \notin Faults
  PROVE  Spec => []SerialInv
<1>1. Init => SerialInv
  BY Assumed DEF Init, CleanSlate, SerialInv, SettledAgreement, Agreement, Busy, Assumptions
<1>2. TypeOK /\ SerialInv /\ [Next]_vars => SerialInv'
  <2> SUFFICES ASSUME TypeOK, SerialInv, [Next]_vars PROVE SerialInv'
    OBVIOUS
  <2>1. CASE \E p \in Handlers : Advance(p)
    BY <2>1, StepSerialInv
  <2>2. CASE \E f \in Files, verdict \in {"faulty", "recovered"} : Call(f, verdict)
    BY <2>2, CallSerialInv DEF Call
  <2>3. CASE Restart
    BY <2>3, Assumed DEF Restart, CleanSlate, SerialInv, SettledAgreement, Agreement, Busy, Assumptions
  <2>4. CASE UNCHANGED vars
    BY <2>4 DEF vars, SerialInv, SettledAgreement, Agreement, NoCall, Busy
  <2> QED BY <2>1, <2>2, <2>3, <2>4 DEF Next
<1> QED BY <1>1, <1>2, Typing, PTL DEF Spec

(* Between calls the file says "sent" exactly when the recipient's last    *)
(* mail is an alert, whichever reads, truncates, opens and writes failed.  *)
THEOREM SettledAgreementHolds ==
  ASSUME Serial, "remove" \notin Faults
  PROVE  Spec => []SettledAgreement
<1>1. SerialInv => SettledAgreement
  BY DEF SerialInv
<1> QED BY <1>1, SerialInvHolds, PTL

----------------------------------------------------------------------------
(* What a call that returns has done *)

Returns(p, f, steps) == Busy(p, f, steps) /\ step'[p] = "idle" /\ restarts' = restarts

(* SendEmailAlert leaves "sent" and an alert as the last mail, whatever it *)
(* found; SendEmailRecoveredAlert leaves no file and no open alert.        *)
CallDecides ==
  [][\A p \in Handlers : \A f \in Files :
       /\ Returns(p, f, AlertSteps)   => marker'[f] = "sent" /\ mailed'[f] = "alert"
       /\ Returns(p, f, RecoverSteps) => marker'[f] = "absent" /\ mailed'[f] # "alert"]_vars

(* Nobody but a file's own call touches the file or mails about it.        *)
CallMindsItsOwn ==
  [][\A f \in Files : marker'[f] # marker[f] \/ mailed'[f] # mailed[f]
                       => restarts' # restarts \/ ~ NoCall(f)]_vars

(* A file nobody is writing to is absent or "sent".                        *)
LEMMA NothingHalfWritten ==
  ASSUME Serial, TypeOK, UnfinishedHasWriter, NEW p \in Handlers, NEW f \in Files,
         Busy(p, f, {"stat", "read", "rstat", "rread"})
  PROVE  marker[f] \in {"absent", "sent"}
<1>1. p \in Callers[f] /\ \A q \in Handlers : file[q] = f => q = p
  BY Assumed DEF TypeOK, Serial, Busy, Assumptions
<1> QED BY <1>1 DEF UnfinishedHasWriter, Busy, TypeOK

(* A step that ends a serial call ends it with its verdict carried out.    *)
LEMMA StepDecides ==
  ASSUME Serial, Faults = {}, TypeOK, TypeOK', SerialInv, UnfinishedHasWriter,
         NEW p \in Handlers, Advance(p), NEW q \in Handlers, NEW f \in Files
  PROVE  /\ Returns(q, f, AlertSteps)   => marker'[f] = "sent" /\ mailed'[f] = "alert"
         /\ Returns(q, f, RecoverSteps) => marker'[f] = "absent" /\ mailed'[f] # "alert"
<1>1. q # p => step'[q] = step[q]
  BY DEF Advance, AlertStat, AlertRead, Truncate, Open, Write, AlertMail, RecoverStat, RecoverRead,
         RecoverMail, Remove, Goto, Return, TypeOK
<1>2. SUFFICES ASSUME q = p, file[p] = f, step'[p] = "idle", step[p] # "idle"
               PROVE  /\ step[p] \in AlertSteps   => marker'[f] = "sent" /\ mailed'[f] = "alert"
                      /\ step[p] \in RecoverSteps => marker'[f] = "absent" /\ mailed'[f] # "alert"
  BY <1>1 DEF Returns, Busy, AlertSteps, RecoverSteps
<1>3. step[p] \in {"stat", "read", "rstat", "rread"} => marker[f] \in {"absent", "sent"}
  BY <1>2, NothingHalfWritten DEF Busy
<1> USE <1>2, <1>3 DEF At, Goto, Return, Mark, Mail, Fails, AlertSteps, RecoverSteps, SerialInv, Agreement,
                       Busy, TypeOK
<1>4. CASE AlertStat(p)   BY <1>4 DEF AlertStat
<1>5. CASE AlertRead(p)   BY <1>5 DEF AlertRead
<1>6. CASE Truncate(p)    BY <1>6 DEF Truncate
<1>7. CASE Open(p)        BY <1>7 DEF Open
<1>8. CASE Write(p)       BY <1>8 DEF Write
<1>9. CASE AlertMail(p)   BY <1>9 DEF AlertMail
<1>10. CASE RecoverStat(p) BY <1>10 DEF RecoverStat
<1>11. CASE RecoverRead(p) BY <1>11 DEF RecoverRead
<1>12. CASE RecoverMail(p) BY <1>12 DEF RecoverMail
<1>13. CASE Remove(p)     BY <1>13 DEF Remove
<1> QED BY <1>4, <1>5, <1>6, <1>7, <1>8, <1>9, <1>10, <1>11, <1>12, <1>13 DEF Advance

(* While calls on a file do not overlap and no system call fails, a        *)
(* SendEmail is what the modules of the checks take it for: one step that  *)
(* puts its verdict in the file and in the mailbox, whatever was there.    *)
THEOREM CallDecidesHolds ==
  ASSUME Serial, Faults = {}
  PROVE  Spec => CallDecides
<1>1. /\ TypeOK /\ TypeOK' /\ SerialInv /\ UnfinishedHasWriter
      /\ [Next]_vars
      => [\A p \in Handlers : \A f \in Files :
            /\ Returns(p, f, AlertSteps)   => marker'[f] = "sent" /\ mailed'[f] = "alert"
            /\ Returns(p, f, RecoverSteps) => marker'[f] = "absent" /\ mailed'[f] # "alert"]_vars
  <2> SUFFICES ASSUME TypeOK, TypeOK', SerialInv, UnfinishedHasWriter, Next,
                      NEW p \in Handlers, NEW f \in Files
               PROVE  /\ Returns(p, f, AlertSteps)   => marker'[f] = "sent" /\ mailed'[f] = "alert"
                      /\ Returns(p, f, RecoverSteps) => marker'[f] = "absent" /\ mailed'[f] # "alert"
    OBVIOUS
  <2>1. CASE \E q \in Handlers : Advance(q)
    BY <2>1, StepDecides
  <2>2. CASE \E g \in Files, verdict \in {"faulty", "recovered"} : Call(g, verdict)
    BY <2>2 DEF Call, SendEmail, Returns, Busy, AlertSteps, RecoverSteps, At, TypeOK
  <2>3. CASE Restart
    BY <2>3, Assumed DEF Restart, Returns, Assumptions, TypeOK
  <2> QED BY <2>1, <2>2, <2>3 DEF Next
<1>2. Spec => []SerialInv /\ []UnfinishedHasWriter
  BY SerialInvHolds, UnfinishedHasWriterHolds
<1> QED BY <1>1, <1>2, Typing, PTL DEF Spec, CallDecides

(* The other half of that reading, for any number of handlers and faults:  *)
(* a call changes no file but its own.                                     *)
THEOREM CallMindsItsOwnHolds == Spec => CallMindsItsOwn
<1>1. /\ TypeOK /\ [Next]_vars
      => [\A f \in Files : marker'[f] # marker[f] \/ mailed'[f] # mailed[f]
                           => restarts' # restarts \/ ~ NoCall(f)]_vars
  <2> SUFFICES ASSUME TypeOK, Next, NEW f \in Files, marker'[f] # marker[f] \/ mailed'[f] # mailed[f],
                      restarts' = restarts
               PROVE  ~ NoCall(f)
    OBVIOUS
  <2>1. CASE \E p \in Handlers : Advance(p)
    <3>1. PICK p \in Handlers : Advance(p)
      BY <2>1
    <3>2. file[p] = f
      BY <3>1 DEF Advance, AlertStat, AlertRead, Truncate, Open, Write, AlertMail, RecoverStat, RecoverRead,
                  RecoverMail, Remove, Mark, Mail, TypeOK
    <3> QED BY <3>2 DEF NoCall
  <2>2. CASE \E g \in Files, verdict \in {"faulty", "recovered"} : Call(g, verdict)
    BY <2>2 DEF Call, SendEmail
  <2>3. CASE Restart
    BY <2>3, Assumed DEF Restart, Assumptions, TypeOK
  <2> QED BY <2>1, <2>2, <2>3 DEF Next
<1> QED BY <1>1, Typing, PTL DEF Spec, CallMindsItsOwn

----------------------------------------------------------------------------
(* The serial markers implement the ledger. *)

PendingAt(s) == IF s \in AlertSteps THEN "faulty"
                ELSE IF s \in RecoverSteps \ {"remove"} THEN "recovered" ELSE "none"

(* The verdict pending on a file is the one its only caller acts upon. *)
LEMMA PendingIs ==
  ASSUME Serial, TypeOK, NEW p \in Handlers, NEW f \in Files, p \in Callers[f], file[p] \in {f, NoFile}
  PROVE  Pending(f) = PendingAt(step[p])
<1>1. \A q \in Handlers : file[q] = f => q = p
  BY Assumed DEF TypeOK, Serial, Assumptions
<1>2. file[p] = NoFile => step[p] = "idle"
  BY DEF TypeOK
<1> QED BY <1>1, <1>2, Assumed DEF Pending, PendingAt, Busy, AlertSteps, RecoverSteps, Assumptions, TypeOK
(* A handler that moves within a call, or into or out of one, changes what *)
(* is pending on that call's file and on no other.                         *)
LEMMA PendingMoves ==
  ASSUME Serial, TypeOK, TypeOK', NEW p \in Handlers, NEW f \in Files, p \in Callers[f],
         file[p] \in {f, NoFile}, file'[p] \in {f, NoFile},
         \A q \in Handlers \ {p} : step'[q] = step[q] /\ file'[q] = file[q]
  PROVE  /\ Pending(f) = PendingAt(step[p])
         /\ Pending(f)' = PendingAt(step'[p])
         /\ \A g \in Files \ {f} : Pending(g)' = Pending(g)
<1>1. Pending(f) = PendingAt(step[p])
  BY PendingIs
<1>2. Pending(f)' = PendingAt(step'[p])
  <2>1. \A q \in Handlers : file'[q] = f => q = p
    BY Assumed DEF TypeOK, Serial, Assumptions
  <2>2. file'[p] = NoFile => step'[p] = "idle"
    BY DEF TypeOK
  <2> QED BY <2>1, <2>2, Assumed DEF Pending, PendingAt, Busy, AlertSteps, RecoverSteps, Assumptions, TypeOK
<1>3. ASSUME NEW g \in Files \ {f} PROVE Pending(g)' = Pending(g)
  <2>1. \A q \in Handlers : file'[q] = g <=> file[q] = g
    BY Assumed DEF Assumptions
  <2>2. \A q \in Handlers : file[q] = g => step'[q] = step[q]
    BY Assumed DEF Assumptions
  <2> QED BY <2>1, <2>2 DEF Pending, Busy
<1> QED BY <1>1, <1>2, <1>3

(* What one step of a call may do to the last mail about its file, given   *)
(* what was pending before it and what is pending after it.                *)
LedgerMove(f, was, is) ==
  \/ /\ is = was
     /\ mailed' = mailed
  \/ /\ was = "none" /\ is # "none"
     /\ mailed' = mailed
  \/ /\ was = "faulty" /\ is = "none" /\ mailed[f] # "alert"
     /\ mailed' = [mailed EXCEPT ![f] = "alert"]
  \/ /\ was = "recovered" /\ is = "none" /\ mailed[f] = "alert"
     /\ mailed' = [mailed EXCEPT ![f] = "resolved"]
  \/ /\ \/ was = "faulty" /\ mailed[f] = "alert"
        \/ was = "recovered" /\ mailed[f] # "alert"
        \/ was # "none" /\ Faults # {}
     /\ is = "none"
     /\ mailed' = mailed

(* Such a move is a step of the ledger. *)
LEMMA LedgerStep ==
  ASSUME NEW f \in Files, NEW was, NEW is \in {"none", "faulty", "recovered"},
         Pending(f) = was, Pending(f)' = is, \A g \in Files \ {f} : Pending(g)' = Pending(g),
         LedgerMove(f, was, is)
  PROVE  [L!Next]_(L!ledgerVars)
<1> DEFINE P == [g \in Files |-> Pending(g)]
<1>1. P' = [P EXCEPT ![f] = is]
  OBVIOUS
<1>2. P[f] = was
  OBVIOUS
<1> HIDE DEF P
<1>3. L!Submit(f) \/ L!Settle(f) \/ L!Fail(f) \/ (P' = P /\ mailed' = mailed)
  BY <1>1, <1>2 DEF LedgerMove, L!Submit, L!Settle, L!Fail, L!Done, L!Alert, L!Resolve, L!Suppress, P
<1> QED BY <1>3 DEF L!Next, L!ledgerVars, P

(* Each step of a call is a ledger step or a stutter. *)
LEMMA AdvanceRefines ==
  ASSUME Serial, "remove" \notin Faults, TypeOK, TypeOK', SerialInv, NEW p \in Handlers, Advance(p)
  PROVE  [L!Next]_(L!ledgerVars)
<1>0. PICK f \in Files : file[p] = f
  BY DEF Advance, AlertStat, AlertRead, Truncate, Open, Write, AlertMail, RecoverStat, RecoverRead,
         RecoverMail, Remove, At, TypeOK
<1>1. /\ p \in Callers[f]
      /\ file[p] = f
      /\ file'[p] \in {f, NoFile}
      /\ \A q \in Handlers \ {p} : step'[q] = step[q] /\ file'[q] = file[q]
  BY <1>0, Assumed DEF Advance, AlertStat, AlertRead, Truncate, Open, Write, AlertMail, RecoverStat, RecoverRead,
                 RecoverMail, Remove, At, Goto, Return, TypeOK, Assumptions
<1>2. /\ Pending(f) = PendingAt(step[p])
      /\ Pending(f)' = PendingAt(step'[p])
      /\ \A g \in Files \ {f} : Pending(g)' = Pending(g)
  BY <1>1, PendingMoves
<1>3. LedgerMove(f, PendingAt(step[p]), PendingAt(step'[p]))
  <2> USE DEF At, Goto, Return, Mark, Mail, Fails, PendingAt, AlertSteps, RecoverSteps, SerialInv,
              Agreement, Busy, TypeOK, LedgerMove
  <2>1. CASE AlertStat(p)     BY <1>1, <2>1 DEF AlertStat
  <2>2. CASE AlertRead(p)     BY <1>1, <2>2 DEF AlertRead
  <2>3. CASE Truncate(p)      BY <1>1, <2>3 DEF Truncate
  <2>4. CASE Open(p)          BY <1>1, <2>4 DEF Open
  <2>5. CASE Write(p)         BY <1>1, <2>5 DEF Write
  <2>6. CASE AlertMail(p)     BY <1>1, <2>6 DEF AlertMail
  <2>7. CASE RecoverStat(p)   BY <1>1, <2>7 DEF RecoverStat
  <2>8. CASE RecoverRead(p)   BY <1>1, <2>8 DEF RecoverRead
  <2>9. CASE RecoverMail(p)   BY <1>1, <2>9 DEF RecoverMail
  <2>10. CASE Remove(p)       BY <1>1, <2>10 DEF Remove
  <2> QED BY <2>1, <2>2, <2>3, <2>4, <2>5, <2>6, <2>7, <2>8, <2>9, <2>10 DEF Advance
<1>4. PendingAt(step'[p]) \in {"none", "faulty", "recovered"}
  BY DEF PendingAt
<1> QED BY <1>1, <1>2, <1>3, <1>4, LedgerStep

(* A serial use of the marker files is a ledger: alerts and resolutions    *)
(* about a condition alternate, the first one being an alert, and only an  *)
(* I/O error loses a verdict.                                              *)
THEOREM LedgerRefined ==
  ASSUME Serial, "remove" \notin Faults
  PROVE  Spec => LedgerSafe
<1>1. Init => L!Init
  BY Assumed DEF Init, CleanSlate, L!Init, Pending, Busy, Assumptions
<1>2. TypeOK /\ TypeOK' /\ SerialInv /\ [Next]_vars => [L!Next]_(L!ledgerVars)
  <2> SUFFICES ASSUME TypeOK, TypeOK', SerialInv, [Next]_vars PROVE [L!Next]_(L!ledgerVars)
    OBVIOUS
  <2>1. CASE \E p \in Handlers : Advance(p)
    BY <2>1, AdvanceRefines
  <2>2. ASSUME NEW p \in Handlers, NEW f \in Files, NEW verdict \in {"faulty", "recovered"},
               SendEmail(p, f, verdict)
        PROVE  [L!Next]_(L!ledgerVars)
    <3>1. /\ p \in Callers[f] /\ file[p] = NoFile /\ file'[p] = f /\ mailed' = mailed
          /\ \A q \in Handlers \ {p} : step'[q] = step[q] /\ file'[q] = file[q]
          /\ step[p] = "idle" /\ step'[p] \in {"stat", "rstat"}
      BY <2>2 DEF SendEmail, TypeOK, At
    <3>2. /\ Pending(f) = PendingAt(step[p])
          /\ Pending(f)' = PendingAt(step'[p])
          /\ \A g \in Files \ {f} : Pending(g)' = Pending(g)
      BY <3>1, PendingMoves
    <3>3. LedgerMove(f, PendingAt(step[p]), PendingAt(step'[p]))
      BY <3>1 DEF LedgerMove, PendingAt, AlertSteps, RecoverSteps
    <3>4. PendingAt(step'[p]) \in {"none", "faulty", "recovered"}
      BY DEF PendingAt
    <3> QED BY <3>2, <3>3, <3>4, LedgerStep
  <2>3. CASE Restart
    <3>1. \A f \in Files : Pending(f)' = "none"
      BY <2>3, Assumed DEF Restart, CleanSlate, Pending, Busy, Assumptions
    <3> QED BY <2>3, <3>1 DEF Restart, CleanSlate, L!Next, L!Restart
  <2>4. CASE UNCHANGED vars
    <3>1. \A f \in Files : Pending(f)' = Pending(f)
      BY <2>4 DEF vars, Pending, Busy
    <3> QED BY <2>4, <3>1 DEF vars, L!ledgerVars
  <2> QED BY <2>1, <2>2, <2>3, <2>4 DEF Next, Call
<1> QED BY <1>1, <1>2, Typing, SerialInvHolds, PTL DEF Spec, LedgerSafe, L!LedgerSafe
=============================================================================
