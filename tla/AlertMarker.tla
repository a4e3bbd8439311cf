---------------------------- MODULE AlertMarker ----------------------------
(***************************************************************************)
(* The marker files of /home/golanguser/files and the only two functions   *)
(* that decide, from such a file, whether a mail goes out:                 *)
(* util.SendEmailAlert and util.SendEmailRecoveredAlert.  A handler is a   *)
(* goroutine inside one call: an informer's event loop, a cleanup or hub   *)
(* goroutine.  Each system call is a step of its own, because nothing      *)
(* locks a marker between them.                                            *)
(***************************************************************************)
EXTENDS Naturals

CONSTANTS Files,        \* marker files
          NoFile,       \* what an idle handler works on
          Handlers,     \* goroutines
          Callers,      \* Callers[f]: the handlers that run the checks of file f
          Faults,       \* system calls that may fail
          MaxRestarts   \* bound on container restarts

SystemCalls == {"read", "truncate", "open", "write", "remove"}

ASSUME FilesAssumption    == NoFile \notin Files
ASSUME CallersAssumption  == Callers \in [Files -> SUBSET Handlers]
ASSUME FaultsAssumption   == Faults \subseteq SystemCalls
ASSUME RestartsAssumption == MaxRestarts \in Nat

VARIABLES marker,    \* absent, sent, or other (empty or half written)
          step,      \* where the handler stands in the call
          file,      \* the file the handler's call is about
          orphan,    \* handlers whose open file was removed under them
          mailed,    \* the last mail attempted about the file in this process
          restarts

vars == <<marker, step, file, orphan, mailed, restarts>>

AlertSteps   == {"stat", "read", "truncate", "open", "write", "mail"}
RecoverSteps == {"rstat", "rread", "rmail", "remove"}

TypeOK == /\ marker \in [Files -> {"absent", "other", "sent"}]
          /\ step \in [Handlers -> {"idle"} \cup AlertSteps \cup RecoverSteps]
          /\ file \in [Handlers -> Files \cup {NoFile}]
          /\ \A p \in Handlers : step[p] = "idle" <=> file[p] = NoFile
          /\ \A p \in Handlers : step[p] # "idle" => p \in Callers[file[p]]
          /\ orphan \subseteq {p \in Handlers : step[p] = "write"}
          /\ mailed \in [Files -> {"none", "alert", "resolved"}]
          /\ restarts \in 0..MaxRestarts

(* A container starts with an empty files directory (the image only makes  *)
(* the directory and no volume is mounted on it) and no call in progress.  *)
CleanSlate(m, s, fl, o, ml) == /\ m  = [f \in Files |-> "absent"]
                               /\ s  = [p \in Handlers |-> "idle"]
                               /\ fl = [p \in Handlers |-> NoFile]
                               /\ o  = {}
                               /\ ml = [f \in Files |-> "none"]

Init == CleanSlate(marker, step, file, orphan, mailed) /\ restarts = 0

At(p, s)     == step[p] = s
Goto(p, s)   == step' = [step EXCEPT ![p] = s] /\ UNCHANGED file
Return(p)    == /\ step' = [step EXCEPT ![p] = "idle"]
                /\ file' = [file EXCEPT ![p] = NoFile]
Fails(call)  == call \in Faults
Mark(f, c)   == marker' = [marker EXCEPT ![f] = c]
Mail(f, m)   == mailed' = [mailed EXCEPT ![f] = m]

(* SendEmail: "faulty" enters SendEmailAlert, "recovered" its counterpart. *)
(* With mail suspended the call returns at once, which changes nothing.    *)
SendEmail(p, f, verdict) ==
  /\ At(p, "idle")
  /\ p \in Callers[f]
  /\ step' = [step EXCEPT ![p] = IF verdict = "faulty" THEN "stat" ELSE "rstat"]
  /\ file' = [file EXCEPT ![p] = f]
  /\ UNCHANGED <<marker, orphan, mailed, restarts>>

----------------------------------------------------------------------------
(* SendEmailAlert *)

AlertStat(p) ==
  /\ At(p, "stat")
  /\ Goto(p, IF marker[file[p]] = "absent" THEN "open" ELSE "read")
  /\ UNCHANGED <<marker, orphan, mailed, restarts>>

(* Mutant: a read error is retried at once. *)
AlertRead_Retry(p) ==
  /\ At(p, "read")
  /\ \/ marker[file[p]] = "other" /\ Goto(p, "truncate")
     \/ marker[file[p]] = "sent" /\ Return(p)
     \/ (marker[file[p]] = "absent" \/ Fails("read")) /\ Goto(p, "stat")
  /\ UNCHANGED <<marker, orphan, mailed, restarts>>

(* Only a marker that reads something else than "sent" is taken further;   *)
(* one that vanished since the stat is a read error.                       *)
AlertRead(p) ==
  /\ At(p, "read")
  /\ \/ marker[file[p]] = "other" /\ Goto(p, "truncate")
     \/ (marker[file[p]] # "other" \/ Fails("read")) /\ Return(p)
  /\ UNCHANGED <<marker, orphan, mailed, restarts>>

(* Mutant: the file is emptied and the call forgets to go on. *)
Truncate_Return(p) ==
  /\ At(p, "truncate")
  /\ Return(p)
  /\ \/ marker[file[p]] # "absent" /\ Mark(file[p], "other")
     \/ (marker[file[p]] = "absent" \/ Fails("truncate")) /\ UNCHANGED marker
  /\ UNCHANGED <<orphan, mailed, restarts>>

Truncate(p) ==
  /\ At(p, "truncate")
  /\ \/ marker[file[p]] # "absent" /\ Mark(file[p], "other") /\ Goto(p, "open")
     \/ (marker[file[p]] = "absent" \/ Fails("truncate")) /\ Return(p) /\ UNCHANGED marker
  /\ UNCHANGED <<orphan, mailed, restarts>>

(* The first half of os.WriteFile: open, creating or emptying the file. *)
Open(p) ==
  /\ At(p, "open")
  /\ \/ Mark(file[p], "other") /\ Goto(p, "write")
     \/ Fails("open") /\ Return(p) /\ UNCHANGED marker
  /\ UNCHANGED <<orphan, mailed, restarts>>

(* Mutant: the error of the write is ignored. *)
Write_IgnoreError(p) ==
  /\ At(p, "write")
  /\ Goto(p, "mail")
  /\ \/ IF p \in orphan THEN UNCHANGED marker ELSE Mark(file[p], "sent")
     \/ Fails("write") /\ UNCHANGED marker
  /\ orphan' = orphan \ {p}
  /\ UNCHANGED <<mailed, restarts>>

(* Mutant: the alert is recorded and never mailed. *)
Write_NoMail(p) ==
  /\ At(p, "write")
  /\ Return(p)
  /\ IF p \in orphan THEN UNCHANGED marker ELSE Mark(file[p], "sent")
  /\ orphan' = orphan \ {p}
  /\ UNCHANGED <<mailed, restarts>>

(* Mutant: the writer of a removed file is not forgotten. *)
Write_StaleFd(p) ==
  /\ At(p, "write")
  /\ Goto(p, "mail")
  /\ IF p \in orphan THEN UNCHANGED marker ELSE Mark(file[p], "sent")
  /\ UNCHANGED <<orphan, mailed, restarts>>

(* The second half: write to the file that was opened, removed or not. *)
Write(p) ==
  /\ At(p, "write")
  /\ \/ /\ Goto(p, "mail")
        /\ IF p \in orphan THEN UNCHANGED marker ELSE Mark(file[p], "sent")
     \/ Fails("write") /\ Return(p) /\ UNCHANGED marker
  /\ orphan' = orphan \ {p}
  /\ UNCHANGED <<mailed, restarts>>

(* The outcome of sendmail is logged and changes nothing. *)
AlertMail(p) ==
  /\ At(p, "mail")
  /\ Mail(file[p], "alert")
  /\ Return(p)
  /\ UNCHANGED <<marker, orphan, restarts>>

----------------------------------------------------------------------------
(* SendEmailRecoveredAlert *)

RecoverStat(p) ==
  /\ At(p, "rstat")
  /\ IF marker[file[p]] = "absent" THEN Return(p) ELSE Goto(p, "rread")
  /\ UNCHANGED <<marker, orphan, mailed, restarts>>

(* Mutant: any existing file will do. *)
RecoverRead_AnyContent(p) ==
  /\ At(p, "rread")
  /\ \/ marker[file[p]] # "absent" /\ Goto(p, "rmail")
     \/ (marker[file[p]] = "absent" \/ Fails("read")) /\ Return(p)
  /\ UNCHANGED <<marker, orphan, mailed, restarts>>

RecoverRead(p) ==
  /\ At(p, "rread")
  /\ \/ marker[file[p]] = "sent" /\ Goto(p, "rmail")
     \/ (marker[file[p]] # "sent" \/ Fails("read")) /\ Return(p)
  /\ UNCHANGED <<marker, orphan, mailed, restarts>>

(* Mutant: as in SendEmailAlert, a failing sendmail ends the call. *)
RecoverMail_ReturnOnError(p) ==
  /\ At(p, "rmail")
  /\ Mail(file[p], "resolved")
  /\ Goto(p, "remove") \/ Return(p)
  /\ UNCHANGED <<marker, orphan, restarts>>

RecoverMail(p) ==
  /\ At(p, "rmail")
  /\ Mail(file[p], "resolved")
  /\ Goto(p, "remove")
  /\ UNCHANGED <<marker, orphan, restarts>>

(* os.Remove, its error ignored; writers keep the file they have open. *)
OpenOn(f) == {q \in Handlers : step[q] = "write" /\ file[q] = f}

Remove(p) ==
  /\ At(p, "remove")
  /\ \/ Mark(file[p], "absent") /\ orphan' = orphan \cup OpenOn(file[p])
     \/ Fails("remove") /\ UNCHANGED <<marker, orphan>>
  /\ Return(p)
  /\ UNCHANGED <<mailed, restarts>>

----------------------------------------------------------------------------
(* The container dies at any point and comes back empty. *)
Restart ==
  /\ restarts < MaxRestarts
  /\ restarts' = restarts + 1
  /\ CleanSlate(marker', step', file', orphan', mailed')

Advance(p) == \/ AlertStat(p) \/ AlertRead(p) \/ Truncate(p) \/ Open(p) \/ Write(p) \/ AlertMail(p)
              \/ RecoverStat(p) \/ RecoverRead(p) \/ RecoverMail(p) \/ Remove(p)

Call(f, verdict) == \E p \in Handlers : SendEmail(p, f, verdict)

Next == \/ \E p \in Handlers : Advance(p)
        \/ \E f \in Files, verdict \in {"faulty", "recovered"} : Call(f, verdict)
        \/ Restart

Spec == Init /\ [][Next]_vars

(* Goroutines are scheduled: a call under way goes on.  Nothing makes a    *)
(* check run.                                                              *)
FairSpec == Spec /\ \A p \in Handlers : WF_vars(Advance(p))

----------------------------------------------------------------------------
(* Properties *)

Busy(p, f, steps) == file[p] = f /\ step[p] \in steps
NoCall(f)         == \A p \in Handlers : file[p] # f
Agreement(f)      == marker[f] = "sent" <=> mailed[f] = "alert"

(* However many handlers work on a marker at once, a marker that reads     *)
(* "sent" tells the truth: the last mail about it was an alert, or the     *)
(* alert is about to go out, or a resolution just did and the marker is    *)
(* about to go.  Otherwise SendEmailAlert would hush up the next fault.    *)
MarkerTruth ==
  \A f \in Files : marker[f] = "sent" =>
     \/ mailed[f] = "alert"
     \/ \E p \in Handlers : Busy(p, f, {"mail", "remove"})

(* When the calls on a marker do not overlap, the file and the recipient   *)
(* agree whenever no call is in progress: "sent" exactly when the last     *)
(* mail was an alert, through failed reads, truncates, opens and writes.   *)
SettledAgreement ==
  \A f \in Files : NoCall(f) => Agreement(f)

(* While no system call fails, a marker that is neither absent nor "sent"  *)
(* has a writer at work that will make it "sent": none is left half        *)
(* written, which SendEmailRecoveredAlert would never remove.              *)
UnfinishedHasWriter ==
  \A f \in Files : marker[f] = "other" =>
     \E p \in Handlers : \/ Busy(p, f, {"open"})
                         \/ Busy(p, f, {"write"}) /\ p \notin orphan

(* A fault that check after check reports, with no recovered verdict any   *)
(* more, ends up as the last thing mailed, whatever races came before.     *)
PersistentFaultAlerted ==
  \A f \in Files :
    (/\ <>[](\A p \in Handlers : ~ Busy(p, f, RecoverSteps))
     /\ []<><<Call(f, "faulty")>>_vars)
      => <>[](mailed[f] = "alert")

(* A recovery that check after check reports, with no fault any more, ends *)
(* with the marker gone, so that status.healthy can become true.           *)
PersistentRecoveryClears ==
  \A f \in Files :
    (/\ <>[](\A p \in Handlers : ~ Busy(p, f, AlertSteps))
     /\ []<><<Call(f, "recovered")>>_vars)
      => <>[](marker[f] = "absent")

(* Why SettledAgreement holds: what each point of a call knows of its file *)
(* when no other call is on it.  The inductive strengthening of the proof.  *)
SerialInv ==
  /\ orphan = {}
  /\ \A p \in Handlers : \A f \in Files :
       /\ Busy(p, f, {"stat", "read", "rstat", "rread"}) => Agreement(f)
       /\ Busy(p, f, {"read"})     => marker[f] # "absent"
       /\ Busy(p, f, {"truncate"}) => marker[f] = "other"
       /\ Busy(p, f, {"truncate", "open", "write"}) => marker[f] # "sent" /\ mailed[f] # "alert"
       /\ Busy(p, f, {"mail"})   => marker[f] = "sent" /\ mailed[f] # "alert"
       /\ Busy(p, f, {"rmail"})  => marker[f] = "sent" /\ mailed[f] = "alert"
       /\ Busy(p, f, {"remove"}) => marker[f] = "sent" /\ mailed[f] = "resolved"
  /\ SettledAgreement

----------------------------------------------------------------------------
(* With serial calls the markers implement the ledger.  A call's verdict   *)
(* is pending up to the step that mails or gives up.                       *)
Pending(f) ==
  IF \E p \in Handlers : Busy(p, f, AlertSteps) THEN "faulty"
  ELSE IF \E p \in Handlers : Busy(p, f, RecoverSteps \ {"remove"}) THEN "recovered"
  ELSE "none"

L == INSTANCE AlertLedger WITH MayFail <- Faults # {},
                               pending <- [f \in Files |-> Pending(f)]

LedgerSafe == L!LedgerSafe
Ledger     == L!Ledger
=============================================================================
