-------------------------- MODULE CoordinatedRestore --------------------------
(***************************************************************************)
(* The restore of a company under drained maintenance, and its recovery:   *)
(* one database transaction replaces the rows and writes a receipt, and an *)
(* intent recorded before it holds the image of every file before and      *)
(* after.  Whoever recovers later reads the receipt, and completes or      *)
(* undoes the files; it never repeats the transaction.                     *)
(*                                                                         *)
(* The rows and each file are represented by who wrote them last: the      *)
(* archive of a restore r is r itself.                                     *)
(***************************************************************************)
EXTENDS MaintenanceGate

CONSTANTS
    Files,    \* the files a restore replaces: company configuration and logo
    Original, \* what the rows and the files hold at first
    Hand      \* an edit of a file by somebody who takes no lease

ASSUME RestoreAssumption ==
    /\ Original \notin Ops \union {Hand} /\ Hand \notin Ops
    /\ "rows" \notin Files \* the name of the part of a company that is not a file
    /\ IsFiniteSet(Files)

VARIABLES
    db,      \* who wrote the rows of the company last
    file,    \* who wrote each file last
    tx,      \* the transaction of each restore, as the database sees it
    intent,  \* the recovery journal of each restore
    work,    \* where each owner stands inside its recovery
    verdict, \* the receipt an owner acts upon
    todo     \* the files an owner has still to replace

restoreVars == <<db, file, tx, intent, work, verdict, todo>>
vars == <<up, crashes, starts, lease, marker, lock, pc, own,
          db, file, tx, intent, work, verdict, todo>>

Writers == Requests \union Restores \union {Original, Hand}
Images == [Files -> Writers]
NoImages == [f \in Files |-> Original]
Intents == [state : {"absent", "torn", "written"}, before : Images]

TypeOK ==
    /\ GateTypeOK
    /\ db \in Writers /\ file \in Images
    /\ tx \in [Restores -> {"none", "open", "committing", "committed", "aborted"}]
    /\ intent \in [Restores -> Intents]
    /\ work \in [Ops -> {"out", "begun", "inTx", "planned", "sent", "answered",
                         "applying"}]
    /\ verdict \in [Ops -> {"none", "committed", "absent"}]
    /\ todo \in [Ops -> SUBSET Files]
    /\ \A o \in Ops : work[o] # "out" => pc[o] = "recovering"

At(o, w) == pc[o] = "recovering" /\ work[o] = w /\ Turn(o)
To(o, w) == work' = [work EXCEPT ![o] = w]

\* The advisory lock of the company: a transaction holds it to its end.
CompanyLockFree == \A r \in Restores : tx[r] \notin {"open", "committing"}

(***************************************************************************)
(* What ordinary operations do to the books.                               *)
(***************************************************************************)

EditRows(o) ==
    /\ o \in Requests /\ pc[o] = "working" /\ Turn(o)
    /\ db' = o
    /\ UNCHANGED <<gateVars, file, tx, intent, work, verdict, todo>>

EditFile(o, f) ==
    /\ o \in Requests /\ pc[o] = "working" /\ Turn(o)
    /\ file' = [file EXCEPT ![f] = o]
    /\ UNCHANGED <<gateVars, db, tx, intent, work, verdict, todo>>

\* A file is changed by hand while a restore is in doubt and nobody works on it.
HandEdit(f) ==
    /\ marker \in Restores /\ intent[marker].state = "written"
    /\ \A o \in Ops : pc[o] \notin {"recovering", "closing", "releasable",
                                  "relocking", "unmarking"}
    /\ \A g \in Files : file[g] # Hand
    /\ file' = [file EXCEPT ![f] = Hand]
    /\ UNCHANGED <<gateVars, db, tx, intent, work, verdict, todo>>

(***************************************************************************)
(* restoreDatabase, inside runRecovery.                                    *)
(***************************************************************************)

\* The transaction takes the advisory lock before it reads anything.
OpenTransaction(r) ==
    /\ r \in Restores /\ At(r, "begun")
    /\ CompanyLockFree
    /\ tx' = [tx EXCEPT ![r] = "open"] /\ To(r, "inTx")
    /\ UNCHANGED <<gateVars, db, file, intent, verdict, todo>>

\* The source or the destination is refused, or the safety snapshot cannot be
\* published: nothing is recorded, the marker is taken back.
RefuseRestore(r) ==
    /\ r \in Restores /\ (At(r, "begun") \/ At(r, "inTx"))
    /\ tx' = [tx EXCEPT ![r] = "aborted"] /\ To(r, "out")
    /\ EndRecovery(r, "undoing")
    /\ UNCHANGED <<db, file, intent, verdict, todo>>

\* The safety snapshot is published; then the images are recorded.
WriteIntent(r) ==
    /\ r \in Restores /\ At(r, "inTx")
    /\ intent' = [intent EXCEPT ![r] = [state |-> "written", before |-> file]]
    /\ To(r, "planned")
    /\ UNCHANGED <<gateVars, db, file, tx, verdict, todo>>

\* The record could not be written whole: it stays, and blocks.
FailIntent(r) ==
    /\ r \in Restores /\ At(r, "inTx")
    /\ \E state \in {"absent", "torn"} :
          intent' = [intent EXCEPT ![r] = [state |-> state, before |-> NoImages]]
    /\ tx' = [tx EXCEPT ![r] = "aborted"] /\ To(r, "out")
    /\ EndRecovery(r, "failed")
    /\ UNCHANGED <<db, file, verdict, todo>>

\* Rows, chain head and receipt are written; COMMIT is on its way.
SendCommit(r) ==
    /\ r \in Restores /\ At(r, "planned")
    /\ tx' = [tx EXCEPT ![r] = "committing"] /\ To(r, "sent")
    /\ UNCHANGED <<gateVars, db, file, intent, verdict, todo>>

NotConfirmedDangling(r) ==
    /\ r \in Restores /\ (At(r, "planned") \/ At(r, "sent"))
    /\ EndRecovery(r, "failed")
    /\ UNCHANGED restoreVars

\* A statement fails, the transaction times out or the answer is lost: the
\* outcome is not confirmed. The intent stays and maintenance stays closed.
NotConfirmed(r) ==
    /\ r \in Restores /\ (At(r, "planned") \/ At(r, "sent"))
    /\ To(r, "out")
    /\ EndRecovery(r, "failed")
    /\ UNCHANGED <<db, file, tx, intent, verdict, todo>>

Confirmed(r) ==
    /\ r \in Restores /\ At(r, "sent") /\ tx[r] = "committed"
    /\ verdict' = [verdict EXCEPT ![r] = "committed"] /\ To(r, "answered")
    /\ UNCHANGED <<gateVars, db, file, tx, intent, todo>>

(***************************************************************************)
(* The database ends the transaction in its own time.                      *)
(***************************************************************************)

CommitTx(r) ==
    /\ tx[r] = "committing"
    /\ tx' = [tx EXCEPT ![r] = "committed"] /\ db' = r
    /\ UNCHANGED <<gateVars, file, intent, work, verdict, todo>>

\* Refused at COMMIT, or left open by a client that is gone.
AbortTx(r) ==
    /\ \/ tx[r] = "committing"
       \/ tx[r] = "open" /\ work[r] \notin {"inTx", "planned"}
    /\ tx' = [tx EXCEPT ![r] = "aborted"]
    /\ UNCHANGED <<gateVars, db, file, intent, work, verdict, todo>>

(***************************************************************************)
(* The files: all are looked at before any is replaced.                    *)
(***************************************************************************)

\* The restore an owner works for, and the images of it.
Before(o, f) == intent[own[o]].before[f]
After(o, f) == own[o]

KnownOrNot(o) == TRUE

Known(o) == \A f \in Files : file[f] \in {Before(o, f), After(o, f)}

DesiredAfter(o, f) == After(o, f)

Desired(o, f) == IF verdict[o] = "committed" THEN After(o, f) ELSE Before(o, f)

PlanFiles(o) ==
    /\ At(o, "answered") /\ Known(o)
    /\ todo' = [todo EXCEPT ![o] = {f \in Files : file[f] # Desired(o, f)}]
    /\ To(o, "applying")
    /\ UNCHANGED <<gateVars, db, file, tx, intent, verdict>>

\* A generation nobody recorded blocks the whole pass.
Diverged(o) ==
    /\ At(o, "answered") /\ ~ Known(o)
    /\ To(o, "out") /\ verdict' = [verdict EXCEPT ![o] = "none"]
    /\ EndRecovery(o, "failed")
    /\ UNCHANGED <<db, file, tx, intent, todo>>

\* A file is renamed into place.
ReplaceFile(o, f) ==
    /\ At(o, "applying") /\ f \in todo[o]
    /\ file' = [file EXCEPT ![f] = Desired(o, f)]
    /\ todo' = [todo EXCEPT ![o] = @ \ {f}]
    /\ UNCHANGED <<gateVars, db, tx, intent, work, verdict>>

FilesReplaced(o) ==
    /\ At(o, "applying") /\ todo[o] = {}
    /\ To(o, "out") /\ verdict' = [verdict EXCEPT ![o] = "none"]
    /\ EndRecovery(o, "closing")
    /\ UNCHANGED <<db, file, tx, intent, todo>>

(***************************************************************************)
(* Recovery of a recorded restore.                                         *)
(***************************************************************************)

\* The intent must be whole before the maintenance it names is resumed.
Recover(o) ==
    /\ \E m \in Restores :
          /\ intent[m].state = "written"
          /\ Resume(o, m) \/ ResumeOffline(o, m, "draining")
    /\ UNCHANGED restoreVars

ReleaseLock(o) ==
    /\ \E m \in Restores :
          /\ intent[m].state = "written"
          /\ ResumeOffline(o, m, "idle")
    /\ UNCHANGED restoreVars

\* The receipt is read once the advisory lock is held, so that a transaction
\* still committing is waited for.
ReadReceipt(o) ==
    /\ o \in Resumes /\ At(o, "begun")
    /\ CompanyLockFree
    /\ verdict' = [verdict EXCEPT
          ![o] = IF tx[own[o]] = "committed" THEN "committed" ELSE "absent"]
    /\ To(o, "answered")
    /\ UNCHANGED <<gateVars, db, file, tx, intent, todo>>

\* The query fails or times out: nothing is concluded from it.
ReceiptUnknown(o) ==
    /\ o \in Resumes /\ At(o, "begun")
    /\ To(o, "out")
    /\ EndRecovery(o, "failed")
    /\ UNCHANGED <<db, file, tx, intent, verdict, todo>>

(***************************************************************************)

\* The steps of the gate. An owner that enters its recovery begins it there.
Gate(o) ==
    /\ GateStep(o)
    /\ work' = [work EXCEPT ![o] =
                   IF pc[o] # "recovering" /\ pc'[o] = "recovering" THEN "begun" ELSE @]
    /\ UNCHANGED <<db, file, tx, intent, verdict, todo>>

\* What a process was doing is forgotten; an intent being written may be torn.
Fault ==
    \E p \in Procs :
       \/ (Stop(p) \/ Start(p)) /\ UNCHANGED restoreVars
       \/ /\ \E torn \in BOOLEAN :
                /\ Crash(p, torn)
                /\ \E lost \in SUBSET {r \in Restores : ProcOf[r] = p /\ work[r] = "inTx"} :
                      intent' = [r \in Restores |->
                         IF r \in lost THEN [state |-> "torn", before |-> NoImages]
                         ELSE intent[r]]
          /\ work' = [o \in Ops |-> IF ProcOf[o] = p THEN "out" ELSE work[o]]
          /\ verdict' = [o \in Ops |-> IF ProcOf[o] = p THEN "none" ELSE verdict[o]]
          /\ todo' = [o \in Ops |-> IF ProcOf[o] = p THEN {} ELSE todo[o]]
          /\ UNCHANGED <<db, file, tx>>

Init ==
    /\ GateInit
    /\ db = Original /\ file = NoImages
    /\ tx = [r \in Restores |-> "none"]
    /\ intent = [r \in Restores |-> [state |-> "absent", before |-> NoImages]]
    /\ work = [o \in Ops |-> "out"]
    /\ verdict = [o \in Ops |-> "none"]
    /\ todo = [o \in Ops |-> {}]

Work(o) ==
    \/ OpenTransaction(o) \/ RefuseRestore(o) \/ WriteIntent(o) \/ FailIntent(o)
    \/ SendCommit(o) \/ NotConfirmed(o) \/ Confirmed(o)
    \/ PlanFiles(o) \/ Diverged(o) \/ FilesReplaced(o)
    \/ \E f \in Files : ReplaceFile(o, f)
    \/ ReadReceipt(o) \/ ReceiptUnknown(o)

Database == \E r \in Restores : CommitTx(r) \/ AbortTx(r)

Next ==
    \/ \E o \in Ops : Gate(o) \/ Work(o) \/ Recover(o) \/ ReleaseLock(o)
    \/ \E o \in Ops : EditRows(o) \/ \E f \in Files : EditFile(o, f)
    \/ \E f \in Files : HandEdit(f)
    \/ Database \/ Fault

Spec == Init /\ [][Next]_vars

\* A call that has begun goes on as long as its process runs; the database ends
\* every transaction. Whoever runs the installation stops it and runs the
\* recovery command, again when the database did not answer.
Runs(o) == (pc[o] # "idle" /\ Gate(o)) \/ Work(o)

FairSpec ==
    /\ Spec
    /\ WF_vars(Database)
    /\ \A o \in Ops : WF_vars(Runs(o))
    /\ \A p \in Procs : SF_vars(Stop(p) /\ UNCHANGED restoreVars)
    /\ \A o \in Resumes : ProcOf[o] = Operator =>
          SF_vars(Recover(o)) /\ SF_vars(ReadReceipt(o))
=============================================================================
