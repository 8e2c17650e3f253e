---------------------------- MODULE MaintenanceGate ----------------------------
(***************************************************************************)
(* The maintenance gate every process of an installation shares: files in  *)
(* one directory, nothing else.  An admitted operation holds a lease file; *)
(* a maintenance owner publishes the marker, waits until the leases drain, *)
(* and holds the recovery lock while it recovers and while it reopens.     *)
(*                                                                         *)
(* A step is what one call does to the files between two moments at which  *)
(* another process may run.  The calls are synchronous, so inside one      *)
(* process nothing runs between the steps of a call (MidCall); between     *)
(* processes everything does, and a process may die anywhere.  A record    *)
(* whose writer dies in the middle of writing it is Torn: it names nobody, *)
(* and whoever reads it refuses.                                           *)
(***************************************************************************)
EXTENDS Naturals, FiniteSets

CONSTANTS
    Procs,      \* processes of the installation, the operator's included
    Requests,   \* ordinary operations: requests, timers, command-line tools
    Restores,   \* requests that restore a company; each may publish a marker
    Resumes,    \* attempts to resume the maintenance of an interrupted restore
    ProcOf,     \* the process each of them runs in
    Operator,   \* the process of the offline recovery command
    NoId,       \* no record in the file
    Torn,       \* a record whose writer died while writing it
    MaxCrashes, \* bound on the crashes of a behaviour
    MaxStarts   \* bound on the restarts of a behaviour

Ops == Requests \union Restores \union Resumes

ASSUME GateAssumption ==
    /\ Requests \intersect Restores = {}
    /\ Resumes \intersect (Requests \union Restores) = {}
    /\ NoId \notin Restores /\ Torn \notin Restores /\ NoId # Torn
    /\ ProcOf \in [Ops -> Procs] /\ Operator \in Procs
    /\ \A o \in Requests \union Restores : ProcOf[o] # Operator
    \* the recovery command is run once at a time
    /\ \A o, q \in Resumes : ProcOf[o] = Operator /\ ProcOf[q] = Operator => o = q
    /\ MaxCrashes \in Nat /\ MaxStarts \in Nat

VARIABLES
    up,      \* the processes that run
    crashes, \* how many crashes there have been
    starts,  \* how many processes have been started again
    lease,   \* the lease file of each operation
    marker,  \* maintenance.json: the restore that published it
    lock,    \* recovery.json: the maintenance it belongs to
    pc,      \* where each operation stands
    own      \* the maintenance each owner believes it owns

gateVars == <<up, crashes, starts, lease, marker, lock, pc, own>>

\* Between two file operations of one synchronous call.
MidCall == {"checked", "leased", "marking", "lockable", "locking",
            "releasable", "relocking", "unmarking", "unmarked"}

Phases == MidCall \union
    {"idle", "working", "draining", "drained", "recovering", "undoing",
     "closing", "closed", "failed", "done", "dead"}

\* An owner whose recovery lock is on disk.
HoldsLock == {"locking", "recovering", "relocking", "unmarking", "unmarked"}

GateTypeOK ==
    /\ up \subseteq Procs
    /\ crashes \in 0..MaxCrashes /\ starts \in 0..MaxStarts
    /\ lease \in [Ops -> {"none", "held", "orphan", "torn"}]
    /\ marker \in Restores \union {NoId, Torn}
    /\ lock \in Restores \union {NoId, Torn}
    /\ pc \in [Ops -> Phases]
    /\ own \in [Ops -> Restores \union {NoId}]

\* o may take its next step: its process runs, and is not inside another call.
Turn(o) ==
    /\ ProcOf[o] \in up
    /\ \A q \in Ops : ProcOf[q] = ProcOf[o] /\ pc[q] \in MidCall => q = o

Goto(o, phase) == pc' = [pc EXCEPT ![o] = phase]

\* leaseIds reads every lease: a torn one makes it throw, and the lease of a
\* process that is gone is removed on the way.
Legible == \A q \in Ops : lease[q] # "torn"

Reap == lease' = [q \in Ops |-> IF lease[q] = "orphan" THEN "none" ELSE lease[q]]

DrainedUnread(o) == Legible

\* No lease blocks the owner o. A restore does not wait for its own request.
Drained(o) == Legible /\ \A q \in Ops \ {o} : lease[q] # "held"

Unmarked == marker = NoId /\ Legible

Owned(o) == marker = own[o]

(***************************************************************************)
(* Admission: look, leave a lease, look again.                             *)
(***************************************************************************)

Admit(o) ==
    /\ o \in Requests \union Restores /\ pc[o] = "idle" /\ Turn(o)
    /\ Unmarked
    /\ Reap /\ Goto(o, "checked")
    /\ UNCHANGED <<up, crashes, starts, marker, lock, own>>

WriteLease(o) ==
    /\ pc[o] = "checked" /\ Turn(o)
    /\ lease' = [lease EXCEPT ![o] = "held"] /\ Goto(o, "leased")
    /\ UNCHANGED <<up, crashes, starts, marker, lock, own>>

RecheckNever(o) ==
    /\ pc[o] = "leased" /\ Turn(o)
    /\ Reap /\ Goto(o, "working")
    /\ UNCHANGED <<up, crashes, starts, marker, lock, own>>

\* Maintenance may have been published between the first look and the lease.
Recheck(o) ==
    /\ pc[o] = "leased" /\ Turn(o)
    /\ IF Unmarked
       THEN Reap /\ Goto(o, "working")
       ELSE lease' = [lease EXCEPT ![o] = "none"] /\ Goto(o, "idle")
    /\ UNCHANGED <<up, crashes, starts, marker, lock, own>>

\* The handler answers and the lease goes.
Finish(o) ==
    /\ \/ o \in Requests /\ pc[o] = "working"
       \/ o \in Restores /\ pc[o] \in {"failed", "closed"}
    /\ Turn(o)
    /\ lease' = [lease EXCEPT ![o] = "none"] /\ Goto(o, "done")
    /\ UNCHANGED <<up, crashes, starts, marker, lock, own>>

(***************************************************************************)
(* Publishing the marker and draining.                                     *)
(***************************************************************************)

Begin(r) ==
    /\ r \in Restores /\ pc[r] = "working" /\ Turn(r)
    /\ IF Unmarked THEN Reap /\ Goto(r, "marking")
                   ELSE Goto(r, "failed") /\ UNCHANGED lease
    /\ UNCHANGED <<up, crashes, starts, marker, lock, own>>

\* The file is created exclusively: of two owners one fails.
PublishMarker(r) ==
    /\ pc[r] = "marking" /\ Turn(r)
    /\ IF marker = NoId
       THEN marker' = r /\ own' = [own EXCEPT ![r] = r] /\ Goto(r, "draining")
       ELSE Goto(r, "failed") /\ UNCHANGED <<marker, own>>
    /\ UNCHANGED <<up, crashes, starts, lease, lock>>

\* Where an owner goes when a step of it is refused. A restore that has not
\* recorded its intent undoes what it published; a resumed owner gives up.
Refused(o) ==
    IF o \in Resumes THEN "idle"
    ELSE IF pc[o] \in {"draining", "drained", "lockable", "locking"}
         THEN "undoing" ELSE "failed"

\* An owner that gives up forgets what it resumed.
Forget(o) == own' = IF o \in Resumes THEN [own EXCEPT ![o] = NoId] ELSE own

Drain(o) ==
    /\ pc[o] \in {"draining", "undoing"} /\ Turn(o)
    /\ Owned(o) /\ Drained(o)
    /\ Reap /\ Goto(o, IF pc[o] = "draining" THEN "drained" ELSE "closing")
    /\ UNCHANGED <<up, crashes, starts, marker, lock, own>>

\* The deadline passes while a lease still blocks, or the marker is lost.
DrainExpires(o) ==
    /\ pc[o] \in {"draining", "undoing"} /\ Turn(o)
    /\ ~ (Owned(o) /\ Drained(o))
    /\ Goto(o, Refused(o)) /\ Forget(o)
    /\ UNCHANGED <<up, crashes, starts, lease, marker, lock>>

(***************************************************************************)
(* The recovery lock, held while recovering and while reopening.           *)
(***************************************************************************)

\* The drain of before is not trusted: the leases are read again.
CheckOwner(o) ==
    /\ pc[o] \in {"drained", "closing"} /\ Turn(o)
    /\ IF Owned(o) /\ Drained(o)
       THEN /\ Reap /\ UNCHANGED own
            /\ Goto(o, IF pc[o] = "drained" THEN "lockable" ELSE "releasable")
       ELSE Goto(o, Refused(o)) /\ Forget(o) /\ UNCHANGED lease
    /\ UNCHANGED <<up, crashes, starts, marker, lock>>

LockShared(o) ==
    /\ pc[o] \in {"lockable", "releasable"} /\ Turn(o)
    /\ lock' = own[o] /\ UNCHANGED own
    /\ Goto(o, IF pc[o] = "lockable" THEN "locking" ELSE "relocking")
    /\ UNCHANGED <<up, crashes, starts, lease, marker>>

LockRecovery(o) ==
    /\ pc[o] \in {"lockable", "releasable"} /\ Turn(o)
    /\ IF lock = NoId
       THEN /\ lock' = own[o] /\ UNCHANGED own
            /\ Goto(o, IF pc[o] = "lockable" THEN "locking" ELSE "relocking")
       ELSE Goto(o, Refused(o)) /\ Forget(o) /\ UNCHANGED lock
    /\ UNCHANGED <<up, crashes, starts, lease, marker>>

\* The marker could have been released before the lock was taken.
Revalidate(o) ==
    /\ pc[o] \in {"locking", "relocking"} /\ Turn(o)
    /\ IF Owned(o)
       THEN /\ Goto(o, IF pc[o] = "locking" THEN "recovering" ELSE "unmarking")
            /\ UNCHANGED <<lock, own>>
       ELSE Goto(o, Refused(o)) /\ Forget(o) /\ lock' = NoId
    /\ UNCHANGED <<up, crashes, starts, lease, marker>>

\* runRecovery settles and drops its lock; what happens next is the caller's.
EndRecovery(o, phase) ==
    /\ pc[o] = "recovering" /\ Turn(o) /\ lock = own[o]
    /\ phase \in {"closing", "undoing", "failed"}
    /\ phase = "undoing" => o \in Restores
    /\ lock' = NoId
    /\ IF phase = "failed" /\ o \in Resumes
       THEN Goto(o, "idle") /\ Forget(o)
       ELSE Goto(o, phase) /\ UNCHANGED own
    /\ UNCHANGED <<up, crashes, starts, lease, marker>>

Unmark(o) ==
    /\ pc[o] = "unmarking" /\ Turn(o)
    /\ marker' = NoId /\ Goto(o, "unmarked")
    /\ UNCHANGED <<up, crashes, starts, lease, lock, own>>

Unlock(o) ==
    /\ pc[o] = "unmarked" /\ Turn(o)
    /\ lock' = NoId
    /\ Goto(o, IF o \in Resumes THEN "idle" ELSE "closed") /\ Forget(o)
    /\ UNCHANGED <<up, crashes, starts, lease, marker>>

(***************************************************************************)
(* Resuming the maintenance of an interrupted restore m.                   *)
(***************************************************************************)

\* In a running process: the exact marker, and no lock is ever taken over.
Resume(o, m) ==
    /\ o \in Resumes /\ ProcOf[o] # Operator /\ pc[o] = "idle" /\ Turn(o)
    /\ m \in Restores /\ marker = m
    /\ own' = [own EXCEPT ![o] = m] /\ Goto(o, "draining")
    /\ UNCHANGED <<up, crashes, starts, lease, marker, lock>>

ResumeOfflineLocked(o, m, phase) ==
    /\ o \in Resumes /\ ProcOf[o] = Operator /\ pc[o] = "idle" /\ Turn(o)
    /\ up = {Operator}
    /\ m \in Restores /\ marker = m /\ lock \in {NoId, m} /\ Drained(o)
    /\ phase \in {"draining", "idle"}
    /\ Reap /\ UNCHANGED lock
    /\ own' = [own EXCEPT ![o] = IF phase = "idle" THEN NoId ELSE m]
    /\ Goto(o, phase)
    /\ UNCHANGED <<up, crashes, starts, marker>>

\* The operator, once every other process is stopped, drained and marked: a
\* lock left by the maintenance it names is removed. With release-lock the
\* command ends there.
ResumeOffline(o, m, phase) ==
    /\ o \in Resumes /\ ProcOf[o] = Operator /\ pc[o] = "idle" /\ Turn(o)
    /\ up = {Operator}
    /\ m \in Restores /\ marker = m /\ lock \in {NoId, m} /\ Drained(o)
    /\ phase \in {"draining", "idle"}
    /\ Reap /\ lock' = NoId
    /\ own' = [own EXCEPT ![o] = IF phase = "idle" THEN NoId ELSE m]
    /\ Goto(o, phase)
    /\ UNCHANGED <<up, crashes, starts, marker>>

(***************************************************************************)
(* Processes die, are stopped and are started again.                       *)
(***************************************************************************)

\* A process may end when nothing runs in it.
Quiet(p) == \A o \in Ops : ProcOf[o] = p => pc[o] \in {"idle", "done", "dead"}

Stop(p) ==
    /\ p \in up /\ p # Operator /\ Quiet(p)
    /\ up' = up \ {p}
    /\ UNCHANGED <<crashes, starts, lease, marker, lock, pc, own>>

\* The record a process may leave torn is the one it was about to write.
TornLeases(p) == {o \in Ops : ProcOf[o] = p /\ pc[o] = "checked"}
TornMarker(p) == marker = NoId /\ \E o \in Ops : ProcOf[o] = p /\ pc[o] = "marking"
TornLock(p) ==
    lock = NoId /\ \E o \in Ops : ProcOf[o] = p /\ pc[o] \in {"lockable", "releasable"}

\* The leases of a dead process name a process id that is gone.
Crash(p, torn) ==
    /\ p \in up /\ ~ Quiet(p) /\ crashes < MaxCrashes /\ torn \in BOOLEAN
    /\ crashes' = crashes + 1
    /\ up' = IF p = Operator THEN up ELSE up \ {p}
    /\ lease' = [o \in Ops |->
                    IF ProcOf[o] = p /\ lease[o] = "held" THEN "orphan"
                    ELSE IF torn /\ o \in TornLeases(p) THEN "torn" ELSE lease[o]]
    /\ marker' = IF torn /\ TornMarker(p) THEN Torn ELSE marker
    /\ lock' = IF torn /\ TornLock(p) THEN Torn ELSE lock
    /\ pc' = [o \in Ops |-> IF ProcOf[o] # p \/ pc[o] \in {"idle", "done"} THEN pc[o]
                            ELSE IF o \in Resumes THEN "idle" ELSE "dead"]
    /\ own' = [o \in Ops |-> IF ProcOf[o] = p /\ o \in Resumes THEN NoId ELSE own[o]]
    /\ UNCHANGED starts

\* The processes stay stopped while the operator works.
Start(p) ==
    /\ p \in Procs \ up /\ starts < MaxStarts
    /\ \A o \in Ops : ProcOf[o] = Operator => pc[o] = "idle"
    /\ starts' = starts + 1 /\ up' = up \union {p}
    /\ UNCHANGED <<crashes, lease, marker, lock, pc, own>>

GateInit ==
    /\ up = Procs /\ crashes = 0 /\ starts = 0
    /\ lease = [o \in Ops |-> "none"]
    /\ marker = NoId /\ lock = NoId
    /\ pc = [o \in Ops |-> "idle"]
    /\ own = [o \in Ops |-> NoId]

\* The steps of an operation that leave the books and the files alone.
GateStep(o) ==
    \/ Admit(o) \/ WriteLease(o) \/ Recheck(o) \/ Finish(o)
    \/ Begin(o) \/ PublishMarker(o) \/ Drain(o) \/ DrainExpires(o)
    \/ CheckOwner(o) \/ LockRecovery(o) \/ Revalidate(o)
    \/ Unmark(o) \/ Unlock(o)

Resumption(o) ==
    \E m \in Restores :
        Resume(o, m) \/ \E phase \in {"draining", "idle"} : ResumeOffline(o, m, phase)

Settle(o) == \E phase \in {"closing", "undoing", "failed"} : EndRecovery(o, phase)

Environment ==
    \E p \in Procs : Stop(p) \/ Start(p) \/ \E torn \in BOOLEAN : Crash(p, torn)

GateNext ==
    Environment \/ \E o \in Ops : GateStep(o) \/ Resumption(o) \/ Settle(o)

GateSpec == GateInit /\ [][GateNext]_gateVars
=============================================================================
