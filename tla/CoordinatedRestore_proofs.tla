----------------------- MODULE CoordinatedRestore_proofs -----------------------
(***************************************************************************)
(* Proofs about the maintenance gate and the coordinated restore, for any  *)
(* number of processes, requests, restores, recoveries and crashes: the    *)
(* recovery lock and the drained leases exclude whom they should, files    *)
(* changed by hand stand, an application that is open holds no half of a   *)
(* restore, and the whole implements RestorePromise.                       *)
(***************************************************************************)
EXTENDS CoordinatedRestoreProps, TLAPS

(***************************************************************************)
(* The gate.                                                               *)
(***************************************************************************)
\* An operation that does not run: it has not begun, has ended, or is dead.
Resting == {"idle", "done", "dead"}

\* A restore that has not published its marker.
Early == {"idle", "checked", "leased", "working", "marking"}

OwnerPhases == HoldsLock \union
    {"draining", "drained", "undoing", "closing", "lockable", "releasable"}

\* Only running processes have operations under way.
Live == \A o \in Ops : pc[o] \notin Resting => ProcOf[o] \in up

\* An admitted operation has its lease on disk.
Leased == \A o \in Ops : pc[o] \in {"leased", "working"} => lease[o] = "held"

\* Owners own a maintenance, and only restores publish one.
Owning ==
    /\ \A o \in Ops : pc[o] \in OwnerPhases => own[o] \in Restores
    /\ \A o \in Ops : pc[o] = "marking" => o \in Restores

\* A marker, published or owned, is not published a second time.
PublishedOnce ==
    /\ \A o \in Ops : own[o] \in Restores => pc[own[o]] \notin Early
    /\ marker \in Restores => pc[marker] \notin Early

LockHeld == \A o \in Ops : pc[o] \in HoldsLock => lock = own[o]

OneHolder == \A o, q \in Ops : pc[o] \in HoldsLock /\ pc[q] \in HoldsLock => o = q

MarkerHeld == \A o \in Ops : pc[o] \in {"recovering", "unmarking"} => marker = own[o]

\* From the second look at the leases on, nobody is admitted under the marker.
Fenced ==
    \A r \in Ops : pc[r] \in {"lockable", "locking", "recovering"} /\ marker = own[r] =>
        \A q \in Ops : q # r => pc[q] # "working"

GateInv ==
    /\ GateTypeOK /\ Live /\ Leased /\ Owning /\ PublishedOnce
    /\ LockHeld /\ OneHolder /\ MarkerHeld /\ Fenced

LEMMA InitGateInv == GateInit => GateInv
  BY GateAssumption DEF GateInit, GateInv, GateTypeOK, Live, Leased, Owning, PublishedOnce,
     LockHeld, OneHolder, MarkerHeld, Fenced, Resting, OwnerPhases, HoldsLock, Phases,
     MidCall, Early, Ops

\* The invariant is expanded in the lemma of every step.
USE DEF GateInv, GateTypeOK, Live, Leased, Owning, PublishedOnce, LockHeld, OneHolder,
    MarkerHeld, Fenced, Resting, OwnerPhases, HoldsLock, Phases, MidCall, Early, Ops

LEMMA AdmitGateInv ==
    ASSUME GateInv, NEW o \in Ops, Admit(o) PROVE GateInv'
  BY GateAssumption DEF Admit, Goto, Turn, Reap, Unmarked, Legible, Owned, Drained, Refused,
     Forget

LEMMA WriteLeaseGateInv ==
    ASSUME GateInv, NEW o \in Ops, WriteLease(o) PROVE GateInv'
  BY GateAssumption DEF WriteLease, Goto, Turn, Reap, Unmarked, Legible, Owned, Drained,
     Refused, Forget

LEMMA RecheckGateInv ==
    ASSUME GateInv, NEW o \in Ops, Recheck(o) PROVE GateInv'
  BY GateAssumption DEF Recheck, Goto, Turn, Reap, Unmarked, Legible, Owned, Drained, Refused,
     Forget

LEMMA FinishGateInv ==
    ASSUME GateInv, NEW o \in Ops, Finish(o) PROVE GateInv'
  BY GateAssumption DEF Finish, Goto, Turn, Reap, Unmarked, Legible, Owned, Drained, Refused,
     Forget

LEMMA BeginGateInv ==
    ASSUME GateInv, NEW o \in Ops, Begin(o) PROVE GateInv'
  BY GateAssumption DEF Begin, Goto, Turn, Reap, Unmarked, Legible, Owned, Drained, Refused,
     Forget

LEMMA PublishMarkerGateInv ==
    ASSUME GateInv, NEW o \in Ops, PublishMarker(o) PROVE GateInv'
  BY GateAssumption DEF PublishMarker, Goto, Turn, Reap, Unmarked, Legible, Owned, Drained,
     Refused, Forget

LEMMA DrainGateInv ==
    ASSUME GateInv, NEW o \in Ops, Drain(o) PROVE GateInv'
  BY GateAssumption DEF Drain, Goto, Turn, Reap, Unmarked, Legible, Owned, Drained, Refused,
     Forget

LEMMA DrainExpiresGateInv ==
    ASSUME GateInv, NEW o \in Ops, DrainExpires(o) PROVE GateInv'
  BY GateAssumption DEF DrainExpires, Goto, Turn, Reap, Unmarked, Legible, Owned, Drained,
     Refused, Forget

LEMMA CheckOwnerGateInv ==
    ASSUME GateInv, NEW o \in Ops, CheckOwner(o) PROVE GateInv'
  BY GateAssumption DEF CheckOwner, Goto, Turn, Reap, Unmarked, Legible, Owned, Drained,
     Refused, Forget

LEMMA LockRecoveryGateInv ==
    ASSUME GateInv, NEW o \in Ops, LockRecovery(o) PROVE GateInv'
  BY GateAssumption DEF LockRecovery, Goto, Turn, Reap, Unmarked, Legible, Owned, Drained,
     Refused, Forget

LEMMA RevalidateGateInv ==
    ASSUME GateInv, NEW o \in Ops, Revalidate(o) PROVE GateInv'
  BY GateAssumption DEF Revalidate, Goto, Turn, Reap, Unmarked, Legible, Owned, Drained,
     Refused, Forget

LEMMA UnmarkGateInv ==
    ASSUME GateInv, NEW o \in Ops, Unmark(o) PROVE GateInv'
  BY GateAssumption DEF Unmark, Goto, Turn, Reap, Unmarked, Legible, Owned, Drained, Refused,
     Forget

LEMMA UnlockGateInv ==
    ASSUME GateInv, NEW o \in Ops, Unlock(o) PROVE GateInv'
  BY GateAssumption DEF Unlock, Goto, Turn, Reap, Unmarked, Legible, Owned, Drained, Refused,
     Forget

LEMMA EndRecoveryGateInv ==
    ASSUME GateInv, NEW o \in Ops, NEW phase, EndRecovery(o, phase) PROVE GateInv'
  BY GateAssumption DEF EndRecovery, Goto, Turn, Reap, Unmarked, Legible, Owned, Drained,
     Refused, Forget

LEMMA ResumeGateInv ==
    ASSUME GateInv, NEW o \in Ops, NEW m, Resume(o, m) PROVE GateInv'
  BY GateAssumption DEF Resume, Goto, Turn, Reap, Unmarked, Legible, Owned, Drained, Refused,
     Forget

LEMMA ResumeOfflineGateInv ==
    ASSUME GateInv, NEW o \in Ops, NEW m, NEW phase, ResumeOffline(o, m, phase) PROVE GateInv'
  BY GateAssumption DEF ResumeOffline, Goto, Turn, Reap, Unmarked, Legible, Owned, Drained,
     Refused, Forget

LEMMA StopGateInv == ASSUME GateInv, NEW p \in Procs, Stop(p) PROVE GateInv'
  BY GateAssumption DEF Stop, Quiet

LEMMA StartGateInv == ASSUME GateInv, NEW p \in Procs, Start(p) PROVE GateInv'
  BY GateAssumption DEF Start

LEMMA CrashGateInv ==
    ASSUME GateInv, NEW p \in Procs, NEW torn \in BOOLEAN, Crash(p, torn) PROVE GateInv'
  BY GateAssumption DEF Crash, Quiet, TornLeases, TornMarker, TornLock

HIDE DEF GateInv, GateTypeOK, Live, Leased, Owning, PublishedOnce, LockHeld, OneHolder,
    MarkerHeld, Fenced, Resting, OwnerPhases, HoldsLock, Phases, MidCall, Early, Ops

LEMMA NextGateInv == ASSUME GateInv, [GateNext]_gateVars PROVE GateInv'
<1>1. CASE Environment
  BY <1>1, StopGateInv, StartGateInv, CrashGateInv DEF Environment
<1>2. ASSUME NEW o \in Ops, GateStep(o) PROVE GateInv'
  BY <1>2, AdmitGateInv, WriteLeaseGateInv, RecheckGateInv, FinishGateInv, BeginGateInv,
     PublishMarkerGateInv, DrainGateInv, DrainExpiresGateInv, CheckOwnerGateInv,
     LockRecoveryGateInv, RevalidateGateInv, UnmarkGateInv, UnlockGateInv DEF GateStep
<1>3. ASSUME NEW o \in Ops, Resumption(o) PROVE GateInv'
  BY <1>3, ResumeGateInv, ResumeOfflineGateInv DEF Resumption
<1>4. ASSUME NEW o \in Ops, Settle(o) PROVE GateInv'
  BY <1>4, EndRecoveryGateInv DEF Settle
<1>5. CASE UNCHANGED gateVars
  BY <1>5 DEF gateVars, GateInv, GateTypeOK, Live, Leased, Owning, PublishedOnce, LockHeld,
     OneHolder, MarkerHeld, Fenced
<1>. QED  BY <1>1, <1>2, <1>3, <1>4, <1>5 DEF GateNext

THEOREM GateSpecInv == GateSpec => []GateInv
  BY InitGateInv, NextGateInv, PTL DEF GateSpec

(***************************************************************************)
(* Every step of the coordinated restore is a step of the gate, or leaves  *)
(* the gate alone.                                                         *)
(***************************************************************************)

LEMMA NextIsGateNext == ASSUME [Next]_vars PROVE [GateNext]_gateVars
<1>1. ASSUME NEW o \in Ops, Gate(o) PROVE GateNext
  BY <1>1 DEF Gate, GateNext
<1>2. ASSUME NEW o \in Ops, Recover(o) \/ ReleaseLock(o) PROVE GateNext
  BY <1>2 DEF Recover, ReleaseLock, GateNext, Resumption
<1>3. ASSUME NEW o \in Ops, Work(o) PROVE [GateNext]_gateVars
  <2>1. ASSUME NEW phase \in {"closing", "undoing", "failed"}, EndRecovery(o, phase)
        PROVE GateNext
    BY <2>1 DEF GateNext, Settle
  <2>. QED
    BY <1>3, <2>1 DEF Work, OpenTransaction, RefuseRestore, WriteIntent, FailIntent, SendCommit,
       NotConfirmed, Confirmed, PlanFiles, Diverged, FilesReplaced, ReplaceFile, ReadReceipt,
       ReceiptUnknown
<1>4. CASE Database \/ (\E o \in Ops : EditRows(o) \/ \E f \in Files : EditFile(o, f))
           \/ \E f \in Files : HandEdit(f)
  BY <1>4 DEF Database, CommitTx, AbortTx, EditRows, EditFile, HandEdit
<1>5. CASE Fault
  BY <1>5 DEF Fault, GateNext, Environment
<1>6. CASE UNCHANGED vars
  BY <1>6 DEF vars, gateVars
<1>. QED  BY <1>1, <1>2, <1>3, <1>4, <1>5, <1>6 DEF Next

\* A coordinated restore keeps the protocol of the gate.
THEOREM RestoreKeepsGate == Spec => GateSpec
  BY NextIsGateNext, PTL DEF Spec, GateSpec, Init

THEOREM RestoreGateInv == Spec => []GateInv
  BY RestoreKeepsGate, GateSpecInv

\* No operation is admitted while an owner recovers (runRecovery).
THEOREM RecoveryExcludesWork == Spec => []NoWorkWhileRecovering
<1>1. GateInv => NoWorkWhileRecovering
  BY DEF GateInv, Fenced, MarkerHeld, NoWorkWhileRecovering
<1>. QED  BY <1>1, RestoreGateInv, PTL

\* Two owners never hold the recovery lock (lockRecovery).
THEOREM LockExcludes == Spec => []OneOwnerActs
<1>1. GateInv => OneOwnerActs
  BY DEF GateInv, OneHolder, OneOwnerActs
<1>. QED  BY <1>1, RestoreGateInv, PTL

(***************************************************************************)
(* What the refinement needs of the recovery itself.                       *)
(***************************************************************************)

\* The intent of m is whole on disk.
Recorded(m) == m \in Restores /\ intent[m].state = "written"

\* What a file must hold when the maintenance of a recorded restore ends.
Final(m, f) == IF tx[m] = "committed" THEN m ELSE intent[m].before[f]

Working ==
    /\ \A o \in Ops : pc[o] = "recovering" <=> work[o] # "out"
    /\ \A o \in Ops : work[o] \in {"inTx", "planned", "sent"} => o \in Restores
    /\ \A r \in Restores : own[r] \in {NoId, r}
    /\ \A o \in Ops : pc[o] \in OwnerPhases => o \notin Requests

\* What the transaction of a restore may be while its client works.
Client ==
    \A r \in Restores :
       /\ work[r] = "begun" => tx[r] = "none" /\ intent[r].state = "absent"
       /\ work[r] = "inTx" => tx[r] = "open" /\ intent[r].state = "absent"
       /\ work[r] = "planned" => tx[r] = "open"
       /\ work[r] = "sent" => tx[r] \in {"committing", "committed", "aborted"}

Journalled ==
    /\ \A r \in Restores : intent[r].state # "absent" \/ tx[r] # "none" => pc[r] \notin Early
    /\ \A r \in Restores : Recorded(r) => tx[r] # "none"
    /\ \A r \in Restores : tx[r] \in {"committing", "committed"} => Recorded(r)
    /\ \A r \in Restores : tx[r] = "committing" => marker = r
    /\ \A o \in Resumes : own[o] # NoId => Recorded(own[o])
    /\ \A o \in Ops : work[o] \in {"planned", "sent", "answered", "applying"} => Recorded(own[o])

\* A restore that has not begun its recovery has recorded and sent nothing; one
\* that undoes it has recorded nothing.
Unrecorded ==
    /\ \A r \in Restores : pc[r] \in {"draining", "drained", "lockable", "locking"} =>
          intent[r].state = "absent" /\ tx[r] = "none"
    /\ \A o \in Ops : pc[o] = "undoing" => o \in Restores /\ ~ Recorded(o)

\* What an owner read of the outcome stays true.
Judged ==
    \A o \in Ops :
       /\ verdict[o] # "none" <=> work[o] \in {"answered", "applying"}
       /\ verdict[o] = "committed" => tx[own[o]] = "committed"
       /\ verdict[o] = "absent" => tx[own[o]] = "aborted"

Applied ==
    \A o \in Ops : work[o] = "applying" =>
        \A f \in Files : f \notin todo[o] => file[f] = Final(own[o], f)

Quieted == InDoubt => \A o \in Ops : pc[o] # "working"

\* The marker of a recorded restore is only taken away over settled files.
Closing ==
    \A o \in Ops :
       /\ pc[o] \in {"closing", "releasable", "relocking", "unmarking"}
       /\ own[o] = marker /\ Recorded(marker)
       => /\ tx[marker] \in {"committed", "aborted"}
          /\ \A f \in Files : file[f] = Final(marker, f)

RestoreInv ==
    /\ GateInv /\ TypeOK /\ Working /\ Client /\ Journalled /\ Unrecorded /\ Judged /\ Applied
    /\ Quieted /\ Closing

LEMMA InitRestoreInv == Init => RestoreInv
  BY InitGateInv, GateAssumption, RestoreAssumption DEF Init, GateInit, NoImages, GateInv,
     GateTypeOK, Live, Leased, Owning, PublishedOnce, LockHeld, OneHolder, MarkerHeld, Fenced,
     TypeOK, RestoreInv, Working, Client, Journalled, Unrecorded, Judged, Applied, Quieted,
     Closing, Recorded, Final, InDoubt, Intents, Images, Writers, Resting, OwnerPhases,
     HoldsLock, Phases, MidCall, Early, Ops

LEMMA PublishMarkerRestoreInv ==
    ASSUME RestoreInv, GateInv', NEW o \in Ops, Gate(o), PublishMarker(o)
    PROVE  RestoreInv'
<1>1. TypeOK'
  BY GateAssumption, RestoreAssumption DEF Gate, PublishMarker, Goto, Turn, Reap, Unmarked,
     Legible, Owned, Drained, Refused, Forget, GateInv, GateTypeOK, TypeOK, RestoreInv, Working,
     Intents, Images, Writers, Phases, MidCall, Ops
<1>2. Working'
  BY GateAssumption, RestoreAssumption DEF Gate, PublishMarker, Goto, Turn, Reap, Unmarked,
     Legible, Owned, Drained, Refused, Forget, GateInv, GateTypeOK, Owning, TypeOK, RestoreInv,
     Working, OwnerPhases, HoldsLock, Phases, MidCall, Ops
<1>3. Client'
  BY GateAssumption, RestoreAssumption DEF Gate, PublishMarker, Goto, Turn, Reap, Unmarked,
     Legible, Owned, Drained, Refused, Forget, GateInv, GateTypeOK, OneHolder, TypeOK,
     RestoreInv, Working, Client, Unrecorded, OwnerPhases, HoldsLock, Ops
<1>4. Journalled'
  BY GateAssumption, RestoreAssumption DEF Gate, PublishMarker, Goto, Turn, Reap, Unmarked,
     Legible, Owned, Drained, Refused, Forget, GateInv, GateTypeOK, Owning, PublishedOnce,
     TypeOK, RestoreInv, Working, Journalled, Recorded, OwnerPhases, HoldsLock, Early, Ops
<1>5. Unrecorded'
  BY GateAssumption, RestoreAssumption DEF Gate, PublishMarker, Goto, Turn, Reap, Unmarked,
     Legible, Owned, Drained, Refused, Forget, GateInv, GateTypeOK, Live, Leased, Owning,
     PublishedOnce, LockHeld, OneHolder, MarkerHeld, Fenced, TypeOK, RestoreInv, Working,
     Client, Journalled, Unrecorded, Judged, Applied, Quieted, Closing, Recorded, Final,
     InDoubt, Intents, Images, Writers, Resting, OwnerPhases, HoldsLock, Phases, MidCall, Early,
     Ops
<1>6. Judged'
  BY GateAssumption, RestoreAssumption DEF Gate, PublishMarker, Goto, Turn, Reap, Unmarked,
     Legible, Owned, Drained, Refused, Forget, GateInv, GateTypeOK, Owning, OneHolder, TypeOK,
     RestoreInv, Working, Judged, OwnerPhases, HoldsLock, Ops
<1>7. Applied'
  BY GateAssumption, RestoreAssumption DEF Gate, PublishMarker, Goto, Turn, Reap, Unmarked,
     Legible, Owned, Drained, Refused, Forget, GateInv, GateTypeOK, Owning, OneHolder, TypeOK,
     RestoreInv, Working, Applied, Final, OwnerPhases, HoldsLock, Ops
<1>8. Quieted'
  BY GateAssumption, RestoreAssumption DEF Gate, PublishMarker, Goto, Turn, Reap, Unmarked,
     Legible, Owned, Drained, Refused, Forget, GateInv, GateTypeOK, PublishedOnce, MarkerHeld,
     Fenced, TypeOK, RestoreInv, Journalled, Quieted, InDoubt, Early, Ops
<1>9. Closing'
  BY GateAssumption, RestoreAssumption DEF Gate, PublishMarker, Goto, Turn, Reap, Unmarked,
     Legible, Owned, Drained, Refused, Forget, GateInv, GateTypeOK, Live, Leased, Owning,
     PublishedOnce, LockHeld, OneHolder, MarkerHeld, Fenced, TypeOK, RestoreInv, Working,
     Client, Journalled, Unrecorded, Judged, Applied, Quieted, Closing, Recorded, Final,
     InDoubt, Intents, Images, Writers, Resting, OwnerPhases, HoldsLock, Phases, MidCall, Early,
     Ops
<1>. QED  BY <1>1, <1>2, <1>3, <1>4, <1>5, <1>6, <1>7, <1>8, <1>9 DEF RestoreInv

LEMMA DrainExpiresRestoreInv ==
    ASSUME RestoreInv, GateInv', NEW o \in Ops, Gate(o), DrainExpires(o)
    PROVE  RestoreInv'
<1>1. TypeOK'
  BY GateAssumption, RestoreAssumption DEF Gate, DrainExpires, Goto, Turn, Reap, Unmarked,
     Legible, Owned, Drained, Refused, Forget, GateInv, GateTypeOK, TypeOK, RestoreInv, Working,
     Intents, Images, Writers, Phases, MidCall, Ops
<1>2. Working'
  BY GateAssumption, RestoreAssumption DEF Gate, DrainExpires, Goto, Turn, Reap, Unmarked,
     Legible, Owned, Drained, Refused, Forget, GateInv, GateTypeOK, Owning, TypeOK, RestoreInv,
     Working, OwnerPhases, HoldsLock, Phases, MidCall, Ops
<1>3. Client'
  BY GateAssumption, RestoreAssumption DEF Gate, DrainExpires, Goto, Turn, Reap, Unmarked,
     Legible, Owned, Drained, Refused, Forget, GateInv, GateTypeOK, OneHolder, TypeOK,
     RestoreInv, Working, Client, Unrecorded, OwnerPhases, HoldsLock, Ops
<1>4. Journalled'
  BY GateAssumption, RestoreAssumption DEF Gate, DrainExpires, Goto, Turn, Reap, Unmarked,
     Legible, Owned, Drained, Refused, Forget, GateInv, GateTypeOK, Owning, PublishedOnce,
     TypeOK, RestoreInv, Working, Journalled, Recorded, OwnerPhases, HoldsLock, Early, Ops
<1>5. Unrecorded'
  BY GateAssumption, RestoreAssumption DEF Gate, DrainExpires, Goto, Turn, Reap, Unmarked,
     Legible, Owned, Drained, Refused, Forget, GateInv, GateTypeOK, Owning, TypeOK, RestoreInv,
     Working, Unrecorded, Recorded, OwnerPhases, HoldsLock, Ops
<1>6. Judged'
  BY GateAssumption, RestoreAssumption DEF Gate, DrainExpires, Goto, Turn, Reap, Unmarked,
     Legible, Owned, Drained, Refused, Forget, GateInv, GateTypeOK, Owning, OneHolder, TypeOK,
     RestoreInv, Working, Judged, OwnerPhases, HoldsLock, Ops
<1>7. Applied'
  BY GateAssumption, RestoreAssumption DEF Gate, DrainExpires, Goto, Turn, Reap, Unmarked,
     Legible, Owned, Drained, Refused, Forget, GateInv, GateTypeOK, Owning, OneHolder, TypeOK,
     RestoreInv, Working, Applied, Final, OwnerPhases, HoldsLock, Ops
<1>8. Quieted'
  BY GateAssumption, RestoreAssumption DEF Gate, DrainExpires, Goto, Turn, Reap, Unmarked,
     Legible, Owned, Drained, Refused, Forget, GateInv, GateTypeOK, PublishedOnce, MarkerHeld,
     Fenced, TypeOK, RestoreInv, Journalled, Quieted, InDoubt, Early, Ops
<1>9. Closing'
  BY GateAssumption, RestoreAssumption DEF Gate, DrainExpires, Goto, Turn, Reap, Unmarked,
     Legible, Owned, Drained, Refused, Forget, GateInv, GateTypeOK, Owning, TypeOK, RestoreInv,
     Working, Journalled, Unrecorded, Closing, Recorded, Final, OwnerPhases, HoldsLock, Ops
<1>. QED  BY <1>1, <1>2, <1>3, <1>4, <1>5, <1>6, <1>7, <1>8, <1>9 DEF RestoreInv

LEMMA CheckOwnerRestoreInv ==
    ASSUME RestoreInv, GateInv', NEW o \in Ops, Gate(o), CheckOwner(o)
    PROVE  RestoreInv'
<1>1. TypeOK'
  BY GateAssumption, RestoreAssumption DEF Gate, CheckOwner, Goto, Turn, Reap, Unmarked,
     Legible, Owned, Drained, Refused, Forget, GateInv, GateTypeOK, TypeOK, RestoreInv, Working,
     Intents, Images, Writers, Phases, MidCall, Ops
<1>2. Working'
  BY GateAssumption, RestoreAssumption DEF Gate, CheckOwner, Goto, Turn, Reap, Unmarked,
     Legible, Owned, Drained, Refused, Forget, GateInv, GateTypeOK, Owning, TypeOK, RestoreInv,
     Working, OwnerPhases, HoldsLock, Phases, MidCall, Ops
<1>3. Client'
  BY GateAssumption, RestoreAssumption DEF Gate, CheckOwner, Goto, Turn, Reap, Unmarked,
     Legible, Owned, Drained, Refused, Forget, GateInv, GateTypeOK, OneHolder, TypeOK,
     RestoreInv, Working, Client, Unrecorded, OwnerPhases, HoldsLock, Ops
<1>4. Journalled'
  BY GateAssumption, RestoreAssumption DEF Gate, CheckOwner, Goto, Turn, Reap, Unmarked,
     Legible, Owned, Drained, Refused, Forget, GateInv, GateTypeOK, Owning, PublishedOnce,
     TypeOK, RestoreInv, Working, Journalled, Recorded, OwnerPhases, HoldsLock, Early, Ops
<1>5. Unrecorded'
  BY GateAssumption, RestoreAssumption DEF Gate, CheckOwner, Goto, Turn, Reap, Unmarked,
     Legible, Owned, Drained, Refused, Forget, GateInv, GateTypeOK, Owning, TypeOK, RestoreInv,
     Working, Unrecorded, Recorded, OwnerPhases, HoldsLock, Ops
<1>6. Judged'
  BY GateAssumption, RestoreAssumption DEF Gate, CheckOwner, Goto, Turn, Reap, Unmarked,
     Legible, Owned, Drained, Refused, Forget, GateInv, GateTypeOK, Owning, OneHolder, TypeOK,
     RestoreInv, Working, Judged, OwnerPhases, HoldsLock, Ops
<1>7. Applied'
  BY GateAssumption, RestoreAssumption DEF Gate, CheckOwner, Goto, Turn, Reap, Unmarked,
     Legible, Owned, Drained, Refused, Forget, GateInv, GateTypeOK, Owning, OneHolder, TypeOK,
     RestoreInv, Working, Applied, Final, OwnerPhases, HoldsLock, Ops
<1>8. Quieted'
  BY GateAssumption, RestoreAssumption DEF Gate, CheckOwner, Goto, Turn, Reap, Unmarked,
     Legible, Owned, Drained, Refused, Forget, GateInv, GateTypeOK, PublishedOnce, MarkerHeld,
     Fenced, TypeOK, RestoreInv, Journalled, Quieted, InDoubt, Early, Ops
<1>9. Closing'
  BY GateAssumption, RestoreAssumption DEF Gate, CheckOwner, Goto, Turn, Reap, Unmarked,
     Legible, Owned, Drained, Refused, Forget, GateInv, GateTypeOK, Owning, TypeOK, RestoreInv,
     Working, Journalled, Unrecorded, Closing, Recorded, Final, OwnerPhases, HoldsLock, Ops
<1>. QED  BY <1>1, <1>2, <1>3, <1>4, <1>5, <1>6, <1>7, <1>8, <1>9 DEF RestoreInv

LEMMA LockRecoveryRestoreInv ==
    ASSUME RestoreInv, GateInv', NEW o \in Ops, Gate(o), LockRecovery(o)
    PROVE  RestoreInv'
<1>1. TypeOK'
  BY GateAssumption, RestoreAssumption DEF Gate, LockRecovery, Goto, Turn, Reap, Unmarked,
     Legible, Owned, Drained, Refused, Forget, GateInv, GateTypeOK, TypeOK, RestoreInv, Working,
     Intents, Images, Writers, Phases, MidCall, Ops
<1>2. Working'
  BY GateAssumption, RestoreAssumption DEF Gate, LockRecovery, Goto, Turn, Reap, Unmarked,
     Legible, Owned, Drained, Refused, Forget, GateInv, GateTypeOK, Owning, TypeOK, RestoreInv,
     Working, OwnerPhases, HoldsLock, Phases, MidCall, Ops
<1>3. Client'
  BY GateAssumption, RestoreAssumption DEF Gate, LockRecovery, Goto, Turn, Reap, Unmarked,
     Legible, Owned, Drained, Refused, Forget, GateInv, GateTypeOK, OneHolder, TypeOK,
     RestoreInv, Working, Client, Unrecorded, OwnerPhases, HoldsLock, Ops
<1>4. Journalled'
  BY GateAssumption, RestoreAssumption DEF Gate, LockRecovery, Goto, Turn, Reap, Unmarked,
     Legible, Owned, Drained, Refused, Forget, GateInv, GateTypeOK, Owning, PublishedOnce,
     TypeOK, RestoreInv, Working, Journalled, Recorded, OwnerPhases, HoldsLock, Early, Ops
<1>5. Unrecorded'
  BY GateAssumption, RestoreAssumption DEF Gate, LockRecovery, Goto, Turn, Reap, Unmarked,
     Legible, Owned, Drained, Refused, Forget, GateInv, GateTypeOK, Owning, TypeOK, RestoreInv,
     Working, Unrecorded, Recorded, OwnerPhases, HoldsLock, Ops
<1>6. Judged'
  BY GateAssumption, RestoreAssumption DEF Gate, LockRecovery, Goto, Turn, Reap, Unmarked,
     Legible, Owned, Drained, Refused, Forget, GateInv, GateTypeOK, Owning, OneHolder, TypeOK,
     RestoreInv, Working, Judged, OwnerPhases, HoldsLock, Ops
<1>7. Applied'
  BY GateAssumption, RestoreAssumption DEF Gate, LockRecovery, Goto, Turn, Reap, Unmarked,
     Legible, Owned, Drained, Refused, Forget, GateInv, GateTypeOK, Owning, OneHolder, TypeOK,
     RestoreInv, Working, Applied, Final, OwnerPhases, HoldsLock, Ops
<1>8. Quieted'
  BY GateAssumption, RestoreAssumption DEF Gate, LockRecovery, Goto, Turn, Reap, Unmarked,
     Legible, Owned, Drained, Refused, Forget, GateInv, GateTypeOK, PublishedOnce, MarkerHeld,
     Fenced, TypeOK, RestoreInv, Journalled, Quieted, InDoubt, Early, Ops
<1>9. Closing'
  BY GateAssumption, RestoreAssumption DEF Gate, LockRecovery, Goto, Turn, Reap, Unmarked,
     Legible, Owned, Drained, Refused, Forget, GateInv, GateTypeOK, Owning, TypeOK, RestoreInv,
     Working, Journalled, Unrecorded, Closing, Recorded, Final, OwnerPhases, HoldsLock, Ops
<1>. QED  BY <1>1, <1>2, <1>3, <1>4, <1>5, <1>6, <1>7, <1>8, <1>9 DEF RestoreInv

LEMMA RevalidateRestoreInv ==
    ASSUME RestoreInv, GateInv', NEW o \in Ops, Gate(o), Revalidate(o)
    PROVE  RestoreInv'
<1>1. TypeOK'
  BY GateAssumption, RestoreAssumption DEF Gate, Revalidate, Goto, Turn, Reap, Unmarked,
     Legible, Owned, Drained, Refused, Forget, GateInv, GateTypeOK, TypeOK, RestoreInv, Working,
     Intents, Images, Writers, Phases, MidCall, Ops
<1>2. Working'
  BY GateAssumption, RestoreAssumption DEF Gate, Revalidate, Goto, Turn, Reap, Unmarked,
     Legible, Owned, Drained, Refused, Forget, GateInv, GateTypeOK, Owning, TypeOK, RestoreInv,
     Working, OwnerPhases, HoldsLock, Phases, MidCall, Ops
<1>3. Client'
  BY GateAssumption, RestoreAssumption DEF Gate, Revalidate, Goto, Turn, Reap, Unmarked,
     Legible, Owned, Drained, Refused, Forget, GateInv, GateTypeOK, OneHolder, TypeOK,
     RestoreInv, Working, Client, Unrecorded, OwnerPhases, HoldsLock, Ops
<1>4. Journalled'
  BY GateAssumption, RestoreAssumption DEF Gate, Revalidate, Goto, Turn, Reap, Unmarked,
     Legible, Owned, Drained, Refused, Forget, GateInv, GateTypeOK, Owning, PublishedOnce,
     TypeOK, RestoreInv, Working, Journalled, Recorded, OwnerPhases, HoldsLock, Early, Ops
<1>5. Unrecorded'
  BY GateAssumption, RestoreAssumption DEF Gate, Revalidate, Goto, Turn, Reap, Unmarked,
     Legible, Owned, Drained, Refused, Forget, GateInv, GateTypeOK, Owning, TypeOK, RestoreInv,
     Working, Unrecorded, Recorded, OwnerPhases, HoldsLock, Ops
<1>6. Judged'
  BY GateAssumption, RestoreAssumption DEF Gate, Revalidate, Goto, Turn, Reap, Unmarked,
     Legible, Owned, Drained, Refused, Forget, GateInv, GateTypeOK, Owning, OneHolder, TypeOK,
     RestoreInv, Working, Judged, OwnerPhases, HoldsLock, Ops
<1>7. Applied'
  BY GateAssumption, RestoreAssumption DEF Gate, Revalidate, Goto, Turn, Reap, Unmarked,
     Legible, Owned, Drained, Refused, Forget, GateInv, GateTypeOK, Owning, OneHolder, TypeOK,
     RestoreInv, Working, Applied, Final, OwnerPhases, HoldsLock, Ops
<1>8. Quieted'
  BY GateAssumption, RestoreAssumption DEF Gate, Revalidate, Goto, Turn, Reap, Unmarked,
     Legible, Owned, Drained, Refused, Forget, GateInv, GateTypeOK, PublishedOnce, MarkerHeld,
     Fenced, TypeOK, RestoreInv, Journalled, Quieted, InDoubt, Early, Ops
<1>9. Closing'
  BY GateAssumption, RestoreAssumption DEF Gate, Revalidate, Goto, Turn, Reap, Unmarked,
     Legible, Owned, Drained, Refused, Forget, GateInv, GateTypeOK, Owning, TypeOK, RestoreInv,
     Working, Journalled, Unrecorded, Closing, Recorded, Final, OwnerPhases, HoldsLock, Ops
<1>. QED  BY <1>1, <1>2, <1>3, <1>4, <1>5, <1>6, <1>7, <1>8, <1>9 DEF RestoreInv

LEMMA RecoverRestoreInv ==
    ASSUME RestoreInv, GateInv', NEW o \in Ops, Recover(o)
    PROVE  RestoreInv'
<1>1. TypeOK'
  BY GateAssumption, RestoreAssumption DEF Recover, Resume, ResumeOffline, restoreVars, Goto,
     Turn, Reap, Unmarked, Legible, Owned, Drained, Refused, Forget, GateInv, GateTypeOK,
     TypeOK, RestoreInv, Working, Intents, Images, Writers, Phases, MidCall, Ops
<1>2. Working'
  BY GateAssumption, RestoreAssumption DEF Recover, Resume, ResumeOffline, restoreVars, Goto,
     Turn, Reap, Unmarked, Legible, Owned, Drained, Refused, Forget, GateInv, GateTypeOK,
     Owning, TypeOK, RestoreInv, Working, OwnerPhases, HoldsLock, Phases, MidCall, Ops
<1>3. Client'
  BY GateAssumption, RestoreAssumption DEF Recover, Resume, ResumeOffline, restoreVars, Goto,
     Turn, Reap, Unmarked, Legible, Owned, Drained, Refused, Forget, GateInv, GateTypeOK,
     OneHolder, TypeOK, RestoreInv, Working, Client, Unrecorded, OwnerPhases, HoldsLock, Ops
<1>4. Journalled'
  BY GateAssumption, RestoreAssumption DEF Recover, Resume, ResumeOffline, restoreVars, Goto,
     Turn, Reap, Unmarked, Legible, Owned, Drained, Refused, Forget, GateInv, GateTypeOK,
     Owning, PublishedOnce, TypeOK, RestoreInv, Working, Journalled, Recorded, OwnerPhases,
     HoldsLock, Early, Ops
<1>5. Unrecorded'
  BY GateAssumption, RestoreAssumption DEF Recover, Resume, ResumeOffline, restoreVars, Goto,
     Turn, Reap, Unmarked, Legible, Owned, Drained, Refused, Forget, GateInv, GateTypeOK,
     Owning, TypeOK, RestoreInv, Working, Unrecorded, Recorded, OwnerPhases, HoldsLock, Ops
<1>6. Judged'
  BY GateAssumption, RestoreAssumption DEF Recover, Resume, ResumeOffline, restoreVars, Goto,
     Turn, Reap, Unmarked, Legible, Owned, Drained, Refused, Forget, GateInv, GateTypeOK,
     Owning, OneHolder, TypeOK, RestoreInv, Working, Judged, OwnerPhases, HoldsLock, Ops
<1>7. Applied'
  BY GateAssumption, RestoreAssumption DEF Recover, Resume, ResumeOffline, restoreVars, Goto,
     Turn, Reap, Unmarked, Legible, Owned, Drained, Refused, Forget, GateInv, GateTypeOK,
     Owning, OneHolder, TypeOK, RestoreInv, Working, Applied, Final, OwnerPhases, HoldsLock, Ops
<1>8. Quieted'
  BY GateAssumption, RestoreAssumption DEF Recover, Resume, ResumeOffline, restoreVars, Goto,
     Turn, Reap, Unmarked, Legible, Owned, Drained, Refused, Forget, GateInv, GateTypeOK,
     PublishedOnce, MarkerHeld, Fenced, TypeOK, RestoreInv, Journalled, Quieted, InDoubt, Early,
     Ops
<1>9. Closing'
  BY GateAssumption, RestoreAssumption DEF Recover, Resume, ResumeOffline, restoreVars, Goto,
     Turn, Reap, Unmarked, Legible, Owned, Drained, Refused, Forget, GateInv, GateTypeOK,
     Owning, TypeOK, RestoreInv, Working, Journalled, Unrecorded, Closing, Recorded, Final,
     OwnerPhases, HoldsLock, Ops
<1>. QED  BY <1>1, <1>2, <1>3, <1>4, <1>5, <1>6, <1>7, <1>8, <1>9 DEF RestoreInv

LEMMA OpenTransactionRestoreInv ==
    ASSUME RestoreInv, GateInv', NEW o \in Ops, OpenTransaction(o)
    PROVE  RestoreInv'
<1>1. TypeOK'
  BY GateAssumption, RestoreAssumption DEF OpenTransaction, gateVars, Known, Before, After,
     Desired, CompanyLockFree, NoImages, At, To, EndRecovery, Goto, Turn, Forget, GateInv,
     GateTypeOK, TypeOK, RestoreInv, Working, Intents, Images, Writers, Phases, MidCall, Ops
<1>2. Working'
  BY GateAssumption, RestoreAssumption DEF OpenTransaction, gateVars, Known, Before, After,
     Desired, CompanyLockFree, NoImages, At, To, EndRecovery, Goto, Turn, Forget, GateInv,
     GateTypeOK, Owning, TypeOK, RestoreInv, Working, OwnerPhases, HoldsLock, Phases, MidCall,
     Ops
<1>3. Client'
  BY GateAssumption, RestoreAssumption DEF OpenTransaction, gateVars, Known, Before, After,
     Desired, CompanyLockFree, NoImages, At, To, EndRecovery, Goto, Turn, Forget, GateInv,
     GateTypeOK, OneHolder, TypeOK, RestoreInv, Working, Client, Unrecorded, OwnerPhases,
     HoldsLock, Ops
<1>4. Journalled'
  BY GateAssumption, RestoreAssumption DEF OpenTransaction, gateVars, Known, Before, After,
     Desired, CompanyLockFree, NoImages, At, To, EndRecovery, Goto, Turn, Forget, GateInv,
     GateTypeOK, Owning, PublishedOnce, TypeOK, RestoreInv, Working, Journalled, Recorded,
     OwnerPhases, HoldsLock, Early, Ops
<1>5. Unrecorded'
  BY GateAssumption, RestoreAssumption DEF OpenTransaction, gateVars, Known, Before, After,
     Desired, CompanyLockFree, NoImages, At, To, EndRecovery, Goto, Turn, Forget, GateInv,
     GateTypeOK, Owning, TypeOK, RestoreInv, Working, Unrecorded, Recorded, OwnerPhases,
     HoldsLock, Ops
<1>6. Judged'
  BY GateAssumption, RestoreAssumption DEF OpenTransaction, gateVars, Known, Before, After,
     Desired, CompanyLockFree, NoImages, At, To, EndRecovery, Goto, Turn, Forget, GateInv,
     GateTypeOK, Owning, OneHolder, TypeOK, RestoreInv, Working, Judged, OwnerPhases, HoldsLock,
     Ops
<1>7. Applied'
  BY GateAssumption, RestoreAssumption DEF OpenTransaction, gateVars, Known, Before, After,
     Desired, CompanyLockFree, NoImages, At, To, EndRecovery, Goto, Turn, Forget, GateInv,
     GateTypeOK, Owning, OneHolder, TypeOK, RestoreInv, Working, Applied, Final, OwnerPhases,
     HoldsLock, Ops
<1>8. Quieted'
  BY GateAssumption, RestoreAssumption DEF OpenTransaction, gateVars, Known, Before, After,
     Desired, CompanyLockFree, NoImages, At, To, EndRecovery, Goto, Turn, Forget, GateInv,
     GateTypeOK, PublishedOnce, MarkerHeld, Fenced, TypeOK, RestoreInv, Journalled, Quieted,
     InDoubt, Early, Ops
<1>9. Closing'
  BY GateAssumption, RestoreAssumption DEF OpenTransaction, gateVars, Known, Before, After,
     Desired, CompanyLockFree, NoImages, At, To, EndRecovery, Goto, Turn, Forget, GateInv,
     GateTypeOK, Live, Leased, Owning, PublishedOnce, LockHeld, OneHolder, MarkerHeld, Fenced,
     TypeOK, RestoreInv, Working, Client, Journalled, Unrecorded, Judged, Applied, Quieted,
     Closing, Recorded, Final, InDoubt, Intents, Images, Writers, Resting, OwnerPhases,
     HoldsLock, Phases, MidCall, Early, Ops
<1>. QED  BY <1>1, <1>2, <1>3, <1>4, <1>5, <1>6, <1>7, <1>8, <1>9 DEF RestoreInv

LEMMA WriteIntentRestoreInv ==
    ASSUME RestoreInv, GateInv', NEW o \in Ops, WriteIntent(o)
    PROVE  RestoreInv'
<1>1. TypeOK'
  BY GateAssumption, RestoreAssumption DEF WriteIntent, gateVars, Known, Before, After, Desired,
     CompanyLockFree, NoImages, At, To, EndRecovery, Goto, Turn, Forget, GateInv, GateTypeOK,
     TypeOK, RestoreInv, Working, Intents, Images, Writers, Phases, MidCall, Ops
<1>2. Working'
  BY GateAssumption, RestoreAssumption DEF WriteIntent, gateVars, Known, Before, After, Desired,
     CompanyLockFree, NoImages, At, To, EndRecovery, Goto, Turn, Forget, GateInv, GateTypeOK,
     Owning, TypeOK, RestoreInv, Working, OwnerPhases, HoldsLock, Phases, MidCall, Ops
<1>3. Client'
  BY GateAssumption, RestoreAssumption DEF WriteIntent, gateVars, Known, Before, After, Desired,
     CompanyLockFree, NoImages, At, To, EndRecovery, Goto, Turn, Forget, GateInv, GateTypeOK,
     OneHolder, TypeOK, RestoreInv, Working, Client, Unrecorded, OwnerPhases, HoldsLock, Ops
<1>4. Journalled'
  BY GateAssumption, RestoreAssumption DEF WriteIntent, gateVars, Known, Before, After, Desired,
     CompanyLockFree, NoImages, At, To, EndRecovery, Goto, Turn, Forget, GateInv, GateTypeOK,
     Live, Leased, Owning, PublishedOnce, LockHeld, OneHolder, MarkerHeld, Fenced, TypeOK,
     RestoreInv, Working, Client, Journalled, Unrecorded, Judged, Applied, Quieted, Closing,
     Recorded, Final, InDoubt, Intents, Images, Writers, Resting, OwnerPhases, HoldsLock,
     Phases, MidCall, Early, Ops
<1>5. Unrecorded'
  BY GateAssumption, RestoreAssumption DEF WriteIntent, gateVars, Known, Before, After, Desired,
     CompanyLockFree, NoImages, At, To, EndRecovery, Goto, Turn, Forget, GateInv, GateTypeOK,
     Owning, TypeOK, RestoreInv, Working, Unrecorded, Recorded, OwnerPhases, HoldsLock, Ops
<1>6. Judged'
  BY GateAssumption, RestoreAssumption DEF WriteIntent, gateVars, Known, Before, After, Desired,
     CompanyLockFree, NoImages, At, To, EndRecovery, Goto, Turn, Forget, GateInv, GateTypeOK,
     Owning, OneHolder, TypeOK, RestoreInv, Working, Judged, OwnerPhases, HoldsLock, Ops
<1>7. Applied'
  BY GateAssumption, RestoreAssumption DEF WriteIntent, gateVars, Known, Before, After, Desired,
     CompanyLockFree, NoImages, At, To, EndRecovery, Goto, Turn, Forget, GateInv, GateTypeOK,
     Owning, OneHolder, TypeOK, RestoreInv, Working, Applied, Final, OwnerPhases, HoldsLock, Ops
<1>8. Quieted'
  BY GateAssumption, RestoreAssumption DEF WriteIntent, gateVars, Known, Before, After, Desired,
     CompanyLockFree, NoImages, At, To, EndRecovery, Goto, Turn, Forget, GateInv, GateTypeOK,
     PublishedOnce, MarkerHeld, Fenced, TypeOK, RestoreInv, Journalled, Quieted, InDoubt, Early,
     Ops
<1>9. Closing'
  <2>. SUFFICES ASSUME NEW q \in Ops, Recorded(marker)', own'[q] = marker',
                       pc'[q] \in {"closing", "releasable", "relocking", "unmarking"}
                PROVE  (/\ tx[marker] \in {"committed", "aborted"}
                        /\ \A f \in Files : file[f] = Final(marker, f))'
    BY DEF Closing
  <2>0. UNCHANGED <<pc, own, marker, file, tx>>
    BY DEF WriteIntent, gateVars
  <2>1. intent[o].state = "absent" /\ pc[o] = "recovering" /\ o \in Restores
    BY DEF WriteIntent, At, RestoreInv, Client
  <2>2. marker # o
    <3>1. SUFFICES ASSUME marker = o PROVE FALSE
      OBVIOUS
    <3>2. q \in Restores \union Resumes
      BY <2>0 DEF RestoreInv, Working, OwnerPhases, HoldsLock, Ops
    <3>3. CASE q \in Restores
      BY <3>1, <3>3, <2>0, <2>1, RestoreAssumption, GateAssumption DEF RestoreInv, Working, Ops
    <3>4. CASE q \in Resumes
      BY <3>1, <3>4, <2>0, <2>1, GateAssumption DEF RestoreInv, Journalled, Recorded
    <3>. QED  BY <3>2, <3>3, <3>4
  <2>. QED
    BY <2>0, <2>1, <2>2 DEF WriteIntent, Recorded, RestoreInv, TypeOK, Closing, Final
<1>. QED  BY <1>1, <1>2, <1>3, <1>4, <1>5, <1>6, <1>7, <1>8, <1>9 DEF RestoreInv

LEMMA DivergedRestoreInv ==
    ASSUME RestoreInv, GateInv', NEW o \in Ops, Diverged(o)
    PROVE  RestoreInv'
<1>1. TypeOK'
  BY GateAssumption, RestoreAssumption DEF Diverged, gateVars, Known, Before, After, Desired,
     CompanyLockFree, NoImages, At, To, EndRecovery, Goto, Turn, Forget, GateInv, GateTypeOK,
     TypeOK, RestoreInv, Working, Intents, Images, Writers, Phases, MidCall, Ops
<1>2. Working'
  BY GateAssumption, RestoreAssumption DEF Diverged, gateVars, Known, Before, After, Desired,
     CompanyLockFree, NoImages, At, To, EndRecovery, Goto, Turn, Forget, GateInv, GateTypeOK,
     Owning, TypeOK, RestoreInv, Working, OwnerPhases, HoldsLock, Phases, MidCall, Ops
<1>3. Client'
  BY GateAssumption, RestoreAssumption DEF Diverged, gateVars, Known, Before, After, Desired,
     CompanyLockFree, NoImages, At, To, EndRecovery, Goto, Turn, Forget, GateInv, GateTypeOK,
     OneHolder, TypeOK, RestoreInv, Working, Client, Unrecorded, OwnerPhases, HoldsLock, Ops
<1>4. Journalled'
  BY GateAssumption, RestoreAssumption DEF Diverged, gateVars, Known, Before, After, Desired,
     CompanyLockFree, NoImages, At, To, EndRecovery, Goto, Turn, Forget, GateInv, GateTypeOK,
     Owning, PublishedOnce, TypeOK, RestoreInv, Working, Journalled, Recorded, OwnerPhases,
     HoldsLock, Early, Ops
<1>5. Unrecorded'
  BY GateAssumption, RestoreAssumption DEF Diverged, gateVars, Known, Before, After, Desired,
     CompanyLockFree, NoImages, At, To, EndRecovery, Goto, Turn, Forget, GateInv, GateTypeOK,
     Owning, TypeOK, RestoreInv, Working, Unrecorded, Recorded, OwnerPhases, HoldsLock, Ops
<1>6. Judged'
  BY GateAssumption, RestoreAssumption DEF Diverged, gateVars, Known, Before, After, Desired,
     CompanyLockFree, NoImages, At, To, EndRecovery, Goto, Turn, Forget, GateInv, GateTypeOK,
     Owning, OneHolder, TypeOK, RestoreInv, Working, Judged, OwnerPhases, HoldsLock, Ops
<1>7. Applied'
  BY GateAssumption, RestoreAssumption DEF Diverged, gateVars, Known, Before, After, Desired,
     CompanyLockFree, NoImages, At, To, EndRecovery, Goto, Turn, Forget, GateInv, GateTypeOK,
     Owning, OneHolder, TypeOK, RestoreInv, Working, Applied, Final, OwnerPhases, HoldsLock, Ops
<1>8. Quieted'
  BY GateAssumption, RestoreAssumption DEF Diverged, gateVars, Known, Before, After, Desired,
     CompanyLockFree, NoImages, At, To, EndRecovery, Goto, Turn, Forget, GateInv, GateTypeOK,
     PublishedOnce, MarkerHeld, Fenced, TypeOK, RestoreInv, Journalled, Quieted, InDoubt, Early,
     Ops
<1>9. Closing'
  BY GateAssumption, RestoreAssumption DEF Diverged, gateVars, Known, Before, After, Desired,
     CompanyLockFree, NoImages, At, To, EndRecovery, Goto, Turn, Forget, GateInv, GateTypeOK,
     Owning, TypeOK, RestoreInv, Working, Journalled, Unrecorded, Closing, Recorded, Final,
     OwnerPhases, HoldsLock, Ops
<1>. QED  BY <1>1, <1>2, <1>3, <1>4, <1>5, <1>6, <1>7, <1>8, <1>9 DEF RestoreInv

LEMMA ReceiptUnknownRestoreInv ==
    ASSUME RestoreInv, GateInv', NEW o \in Ops, ReceiptUnknown(o)
    PROVE  RestoreInv'
<1>1. TypeOK'
  BY GateAssumption, RestoreAssumption DEF ReceiptUnknown, gateVars, Known, Before, After,
     Desired, CompanyLockFree, NoImages, At, To, EndRecovery, Goto, Turn, Forget, GateInv,
     GateTypeOK, TypeOK, RestoreInv, Working, Intents, Images, Writers, Phases, MidCall, Ops
<1>2. Working'
  BY GateAssumption, RestoreAssumption DEF ReceiptUnknown, gateVars, Known, Before, After,
     Desired, CompanyLockFree, NoImages, At, To, EndRecovery, Goto, Turn, Forget, GateInv,
     GateTypeOK, Owning, TypeOK, RestoreInv, Working, OwnerPhases, HoldsLock, Phases, MidCall,
     Ops
<1>3. Client'
  BY GateAssumption, RestoreAssumption DEF ReceiptUnknown, gateVars, Known, Before, After,
     Desired, CompanyLockFree, NoImages, At, To, EndRecovery, Goto, Turn, Forget, GateInv,
     GateTypeOK, OneHolder, TypeOK, RestoreInv, Working, Client, Unrecorded, OwnerPhases,
     HoldsLock, Ops
<1>4. Journalled'
  BY GateAssumption, RestoreAssumption DEF ReceiptUnknown, gateVars, Known, Before, After,
     Desired, CompanyLockFree, NoImages, At, To, EndRecovery, Goto, Turn, Forget, GateInv,
     GateTypeOK, Owning, PublishedOnce, TypeOK, RestoreInv, Working, Journalled, Recorded,
     OwnerPhases, HoldsLock, Early, Ops
<1>5. Unrecorded'
  BY GateAssumption, RestoreAssumption DEF ReceiptUnknown, gateVars, Known, Before, After,
     Desired, CompanyLockFree, NoImages, At, To, EndRecovery, Goto, Turn, Forget, GateInv,
     GateTypeOK, Owning, TypeOK, RestoreInv, Working, Unrecorded, Recorded, OwnerPhases,
     HoldsLock, Ops
<1>6. Judged'
  BY GateAssumption, RestoreAssumption DEF ReceiptUnknown, gateVars, Known, Before, After,
     Desired, CompanyLockFree, NoImages, At, To, EndRecovery, Goto, Turn, Forget, GateInv,
     GateTypeOK, Owning, OneHolder, TypeOK, RestoreInv, Working, Judged, OwnerPhases, HoldsLock,
     Ops
<1>7. Applied'
  BY GateAssumption, RestoreAssumption DEF ReceiptUnknown, gateVars, Known, Before, After,
     Desired, CompanyLockFree, NoImages, At, To, EndRecovery, Goto, Turn, Forget, GateInv,
     GateTypeOK, Owning, OneHolder, TypeOK, RestoreInv, Working, Applied, Final, OwnerPhases,
     HoldsLock, Ops
<1>8. Quieted'
  BY GateAssumption, RestoreAssumption DEF ReceiptUnknown, gateVars, Known, Before, After,
     Desired, CompanyLockFree, NoImages, At, To, EndRecovery, Goto, Turn, Forget, GateInv,
     GateTypeOK, PublishedOnce, MarkerHeld, Fenced, TypeOK, RestoreInv, Journalled, Quieted,
     InDoubt, Early, Ops
<1>9. Closing'
  BY GateAssumption, RestoreAssumption DEF ReceiptUnknown, gateVars, Known, Before, After,
     Desired, CompanyLockFree, NoImages, At, To, EndRecovery, Goto, Turn, Forget, GateInv,
     GateTypeOK, Owning, TypeOK, RestoreInv, Working, Journalled, Unrecorded, Closing, Recorded,
     Final, OwnerPhases, HoldsLock, Ops
<1>. QED  BY <1>1, <1>2, <1>3, <1>4, <1>5, <1>6, <1>7, <1>8, <1>9 DEF RestoreInv

\* A process dies; the intents it was writing may be torn.
Dies(p, torn) ==
    /\ Crash(p, torn)
    /\ \E lost \in SUBSET {r \in Restores : ProcOf[r] = p /\ work[r] = "inTx"} :
          intent' = [r \in Restores |->
             IF r \in lost THEN [state |-> "torn", before |-> NoImages]
             ELSE intent[r]]
    /\ work' = [o \in Ops |-> IF ProcOf[o] = p THEN "out" ELSE work[o]]
    /\ verdict' = [o \in Ops |-> IF ProcOf[o] = p THEN "none" ELSE verdict[o]]
    /\ todo' = [o \in Ops |-> IF ProcOf[o] = p THEN {} ELSE todo[o]]
    /\ UNCHANGED <<db, file, tx>>

LEMMA CrashRestoreInv ==
    ASSUME RestoreInv, GateInv', NEW p \in Procs, NEW torn \in BOOLEAN, Dies(p, torn)
    PROVE  RestoreInv'
<1>1. TypeOK'
  BY GateAssumption, RestoreAssumption DEF Dies, Crash, Quiet, TornLeases, TornMarker, TornLock,
     NoImages, GateInv, GateTypeOK, TypeOK, RestoreInv, Working, Intents, Images, Writers,
     Phases, MidCall, Ops
<1>2. Working'
  BY GateAssumption, RestoreAssumption DEF Dies, Crash, Quiet, TornLeases, TornMarker, TornLock,
     NoImages, GateInv, GateTypeOK, Owning, TypeOK, RestoreInv, Working, OwnerPhases, HoldsLock,
     Phases, MidCall, Ops
<1>3. Client'
  BY GateAssumption, RestoreAssumption DEF Dies, Crash, Quiet, TornLeases, TornMarker, TornLock,
     NoImages, GateInv, GateTypeOK, OneHolder, TypeOK, RestoreInv, Working, Client, Unrecorded,
     OwnerPhases, HoldsLock, Ops
<1>4. Journalled'
  BY SMTT(30), GateAssumption, RestoreAssumption DEF Dies, Crash, Quiet, TornLeases, TornMarker, TornLock,
     NoImages, GateInv, GateTypeOK, Live, Leased, Owning, PublishedOnce, LockHeld, OneHolder,
     MarkerHeld, Fenced, TypeOK, RestoreInv, Working, Client, Journalled, Unrecorded, Judged,
     Applied, Quieted, Closing, Recorded, Final, InDoubt, Intents, Images, Writers, Resting,
     OwnerPhases, HoldsLock, Phases, MidCall, Early, Ops
<1>5. Unrecorded'
  BY GateAssumption, RestoreAssumption DEF Dies, Crash, Quiet, TornLeases, TornMarker, TornLock,
     NoImages, GateInv, GateTypeOK, Owning, TypeOK, RestoreInv, Working, Unrecorded, Recorded,
     OwnerPhases, HoldsLock, Ops
<1>6. Judged'
  BY GateAssumption, RestoreAssumption DEF Dies, Crash, Quiet, TornLeases, TornMarker, TornLock,
     NoImages, GateInv, GateTypeOK, Owning, OneHolder, TypeOK, RestoreInv, Working, Judged,
     OwnerPhases, HoldsLock, Ops
<1>7. Applied'
  BY GateAssumption, RestoreAssumption DEF Dies, Crash, Quiet, TornLeases, TornMarker, TornLock,
     NoImages, GateInv, GateTypeOK, Owning, OneHolder, TypeOK, RestoreInv, Working, Applied,
     Final, OwnerPhases, HoldsLock, Ops
<1>8. Quieted'
  BY GateAssumption, RestoreAssumption DEF Dies, Crash, Quiet, TornLeases, TornMarker, TornLock,
     NoImages, GateInv, GateTypeOK, PublishedOnce, MarkerHeld, Fenced, TypeOK, RestoreInv,
     Journalled, Quieted, InDoubt, Early, Ops
<1>9. Closing'
  BY GateAssumption, RestoreAssumption DEF Dies, Crash, Quiet, TornLeases, TornMarker, TornLock,
     NoImages, GateInv, GateTypeOK, Owning, TypeOK, RestoreInv, Working, Journalled, Unrecorded,
     Closing, Recorded, Final, OwnerPhases, HoldsLock, Ops
<1>. QED  BY <1>1, <1>2, <1>3, <1>4, <1>5, <1>6, <1>7, <1>8, <1>9 DEF RestoreInv

\* The steps below need no case of their own: the invariant is expanded in all of them.
USE DEF GateInv, GateTypeOK, Live, Leased, Owning, PublishedOnce, LockHeld, OneHolder,
    MarkerHeld, Fenced, TypeOK, RestoreInv, Working, Client, Journalled, Unrecorded, Judged,
    Applied, Quieted, Closing, Recorded, Final, InDoubt, Intents, Images, Writers, Resting,
    OwnerPhases, HoldsLock, Phases, MidCall, Early, Ops

LEMMA AdmitRestoreInv ==
    ASSUME RestoreInv, GateInv', NEW o \in Ops, Gate(o), Admit(o)
    PROVE  RestoreInv'
  BY GateAssumption, RestoreAssumption DEF Gate, Admit, Goto, Turn, Reap, Unmarked, Legible,
     Owned, Drained, Refused, Forget

LEMMA WriteLeaseRestoreInv ==
    ASSUME RestoreInv, GateInv', NEW o \in Ops, Gate(o), WriteLease(o)
    PROVE  RestoreInv'
  BY GateAssumption, RestoreAssumption DEF Gate, WriteLease, Goto, Turn, Reap, Unmarked,
     Legible, Owned, Drained, Refused, Forget

LEMMA RecheckRestoreInv ==
    ASSUME RestoreInv, GateInv', NEW o \in Ops, Gate(o), Recheck(o)
    PROVE  RestoreInv'
  BY GateAssumption, RestoreAssumption DEF Gate, Recheck, Goto, Turn, Reap, Unmarked, Legible,
     Owned, Drained, Refused, Forget

LEMMA FinishRestoreInv ==
    ASSUME RestoreInv, GateInv', NEW o \in Ops, Gate(o), Finish(o)
    PROVE  RestoreInv'
  BY SMTT(40), GateAssumption, RestoreAssumption DEF Gate, Finish, Goto, Turn, Reap, Unmarked, Legible,
     Owned, Drained, Refused, Forget

LEMMA BeginRestoreInv ==
    ASSUME RestoreInv, GateInv', NEW o \in Ops, Gate(o), Begin(o)
    PROVE  RestoreInv'
  BY GateAssumption, RestoreAssumption DEF Gate, Begin, Goto, Turn, Reap, Unmarked, Legible,
     Owned, Drained, Refused, Forget

LEMMA DrainRestoreInv ==
    ASSUME RestoreInv, GateInv', NEW o \in Ops, Gate(o), Drain(o)
    PROVE  RestoreInv'
  BY SMTT(40), GateAssumption, RestoreAssumption DEF Gate, Drain, Goto, Turn, Reap, Unmarked, Legible,
     Owned, Drained, Refused, Forget

LEMMA UnmarkRestoreInv ==
    ASSUME RestoreInv, GateInv', NEW o \in Ops, Gate(o), Unmark(o)
    PROVE  RestoreInv'
  BY SMTT(40), GateAssumption, RestoreAssumption DEF Gate, Unmark, Goto, Turn, Reap, Unmarked, Legible,
     Owned, Drained, Refused, Forget

LEMMA UnlockRestoreInv ==
    ASSUME RestoreInv, GateInv', NEW o \in Ops, Gate(o), Unlock(o)
    PROVE  RestoreInv'
  BY SMTT(40), GateAssumption, RestoreAssumption DEF Gate, Unlock, Goto, Turn, Reap, Unmarked, Legible,
     Owned, Drained, Refused, Forget

LEMMA ReleaseLockRestoreInv ==
    ASSUME RestoreInv, GateInv', NEW o \in Ops, ReleaseLock(o)
    PROVE  RestoreInv'
  BY SMTT(40), GateAssumption, RestoreAssumption DEF ReleaseLock, Resume, ResumeOffline, restoreVars,
     Goto, Turn, Reap, Unmarked, Legible, Owned, Drained, Refused, Forget

LEMMA RefuseRestoreRestoreInv ==
    ASSUME RestoreInv, GateInv', NEW o \in Ops, RefuseRestore(o)
    PROVE  RestoreInv'
  BY SMTT(40), GateAssumption, RestoreAssumption DEF RefuseRestore, gateVars, Known, Before, After,
     Desired, CompanyLockFree, NoImages, At, To, EndRecovery, Goto, Turn, Forget

LEMMA FailIntentRestoreInv ==
    ASSUME RestoreInv, GateInv', NEW o \in Ops, FailIntent(o)
    PROVE  RestoreInv'
  BY SMTT(40), GateAssumption, RestoreAssumption DEF FailIntent, gateVars, Known, Before, After, Desired,
     CompanyLockFree, NoImages, At, To, EndRecovery, Goto, Turn, Forget

LEMMA SendCommitRestoreInv ==
    ASSUME RestoreInv, GateInv', NEW o \in Ops, SendCommit(o)
    PROVE  RestoreInv'
  BY GateAssumption, RestoreAssumption DEF SendCommit, gateVars, Known, Before, After, Desired,
     CompanyLockFree, NoImages, At, To, EndRecovery, Goto, Turn, Forget

LEMMA NotConfirmedRestoreInv ==
    ASSUME RestoreInv, GateInv', NEW o \in Ops, NotConfirmed(o)
    PROVE  RestoreInv'
  BY SMTT(40), GateAssumption, RestoreAssumption DEF NotConfirmed, gateVars, Known, Before, After,
     Desired, CompanyLockFree, NoImages, At, To, EndRecovery, Goto, Turn, Forget

LEMMA ConfirmedRestoreInv ==
    ASSUME RestoreInv, GateInv', NEW o \in Ops, Confirmed(o)
    PROVE  RestoreInv'
  BY SMTT(40), GateAssumption, RestoreAssumption DEF Confirmed, gateVars, Known, Before, After, Desired,
     CompanyLockFree, NoImages, At, To, EndRecovery, Goto, Turn, Forget

LEMMA PlanFilesRestoreInv ==
    ASSUME RestoreInv, GateInv', NEW o \in Ops, PlanFiles(o)
    PROVE  RestoreInv'
  BY SMTT(40), GateAssumption, RestoreAssumption DEF PlanFiles, gateVars, Known, Before, After, Desired,
     CompanyLockFree, NoImages, At, To, EndRecovery, Goto, Turn, Forget

LEMMA FilesReplacedRestoreInv ==
    ASSUME RestoreInv, GateInv', NEW o \in Ops, FilesReplaced(o)
    PROVE  RestoreInv'
  BY SMTT(40), GateAssumption, RestoreAssumption DEF FilesReplaced, gateVars, Known, Before, After,
     Desired, CompanyLockFree, NoImages, At, To, EndRecovery, Goto, Turn, Forget

LEMMA ReadReceiptRestoreInv ==
    ASSUME RestoreInv, GateInv', NEW o \in Ops, ReadReceipt(o)
    PROVE  RestoreInv'
  BY SMTT(40), GateAssumption, RestoreAssumption DEF ReadReceipt, gateVars, Known, Before, After, Desired,
     CompanyLockFree, NoImages, At, To, EndRecovery, Goto, Turn, Forget

LEMMA ReplaceFileRestoreInv ==
    ASSUME RestoreInv, GateInv', NEW o \in Ops, NEW f \in Files, ReplaceFile(o, f)
    PROVE  RestoreInv'
  BY SMTT(40), GateAssumption, RestoreAssumption DEF ReplaceFile, Before, After, Desired, gateVars, At

LEMMA EditRowsRestoreInv ==
    ASSUME RestoreInv, GateInv', NEW o \in Ops, EditRows(o)
    PROVE  RestoreInv'
  BY GateAssumption, RestoreAssumption DEF EditRows, gateVars, Turn

LEMMA EditFileRestoreInv ==
    ASSUME RestoreInv, GateInv', NEW o \in Ops, NEW f \in Files, EditFile(o, f)
    PROVE  RestoreInv'
  BY GateAssumption, RestoreAssumption DEF EditFile, gateVars, Turn

LEMMA HandEditRestoreInv ==
    ASSUME RestoreInv, GateInv', NEW f \in Files, HandEdit(f)
    PROVE  RestoreInv'
  BY GateAssumption, RestoreAssumption DEF HandEdit, gateVars

LEMMA CommitTxRestoreInv ==
    ASSUME RestoreInv, GateInv', NEW r \in Restores, CommitTx(r)
    PROVE  RestoreInv'
  BY GateAssumption, RestoreAssumption DEF CommitTx, gateVars

LEMMA AbortTxRestoreInv ==
    ASSUME RestoreInv, GateInv', NEW r \in Restores, AbortTx(r)
    PROVE  RestoreInv'
  BY GateAssumption, RestoreAssumption DEF AbortTx, gateVars

LEMMA StopRestoreInv ==
    ASSUME RestoreInv, GateInv', NEW p \in Procs, Stop(p) \/ Start(p), UNCHANGED restoreVars
    PROVE  RestoreInv'
  BY GateAssumption, RestoreAssumption DEF Stop, Start, restoreVars

HIDE DEF GateInv, GateTypeOK, Live, Leased, Owning, PublishedOnce, LockHeld, OneHolder,
    MarkerHeld, Fenced, TypeOK, RestoreInv, Working, Client, Journalled, Unrecorded, Judged,
    Applied, Quieted, Closing, Recorded, Final, InDoubt, Intents, Images, Writers, Resting,
    OwnerPhases, HoldsLock, Phases, MidCall, Early, Ops

LEMMA NextRestoreInv == ASSUME RestoreInv, [Next]_vars PROVE RestoreInv'
<1>. GateInv'
  BY NextIsGateNext, NextGateInv DEF RestoreInv
<1>1. ASSUME NEW o \in Ops, Gate(o) PROVE RestoreInv'
  BY <1>1, AdmitRestoreInv, WriteLeaseRestoreInv, RecheckRestoreInv, FinishRestoreInv,
     BeginRestoreInv, PublishMarkerRestoreInv, DrainRestoreInv, DrainExpiresRestoreInv,
     CheckOwnerRestoreInv, LockRecoveryRestoreInv, RevalidateRestoreInv, UnmarkRestoreInv,
     UnlockRestoreInv DEF Gate, GateStep
<1>2. ASSUME NEW o \in Ops, Work(o) PROVE RestoreInv'
  BY <1>2, OpenTransactionRestoreInv, RefuseRestoreRestoreInv, WriteIntentRestoreInv,
     FailIntentRestoreInv, SendCommitRestoreInv, NotConfirmedRestoreInv, ConfirmedRestoreInv,
     PlanFilesRestoreInv, DivergedRestoreInv, FilesReplacedRestoreInv, ReplaceFileRestoreInv,
     ReadReceiptRestoreInv, ReceiptUnknownRestoreInv DEF Work
<1>3. ASSUME NEW o \in Ops, Recover(o) \/ ReleaseLock(o) PROVE RestoreInv'
  BY <1>3, RecoverRestoreInv, ReleaseLockRestoreInv
<1>4. ASSUME NEW o \in Ops, EditRows(o) \/ \E f \in Files : EditFile(o, f) PROVE RestoreInv'
  BY <1>4, EditRowsRestoreInv, EditFileRestoreInv
<1>5. CASE \E f \in Files : HandEdit(f)
  BY <1>5, HandEditRestoreInv
<1>6. CASE Database
  BY <1>6, CommitTxRestoreInv, AbortTxRestoreInv DEF Database
<1>7. CASE Fault
  BY <1>7, StopRestoreInv, CrashRestoreInv DEF Fault, Dies
<1>8. CASE UNCHANGED vars
  BY <1>8 DEF vars, RestoreInv, TypeOK, GateTypeOK, Working, Client, Journalled, Unrecorded,
     Judged, Applied, Quieted, Closing, InDoubt, Recorded, Final
<1>. QED  BY <1>1, <1>2, <1>3, <1>4, <1>5, <1>6, <1>7, <1>8 DEF Next

THEOREM RestoreSpecInv == Spec => []RestoreInv
  BY InitRestoreInv, NextRestoreInv, PTL DEF Spec

\* Every variable keeps its range.
THEOREM RestoreTypes == Spec => []TypeOK
  BY RestoreSpecInv, PTL DEF RestoreInv

\* An owner that found no receipt undoes the files of a restore that can no
\* longer commit (reconcileCompanyBackupRecovery).
THEOREM AbsenceStays == Spec => []AbsenceIsFinal
<1>1. RestoreInv => AbsenceIsFinal
  BY DEF RestoreInv, Judged, AbsenceIsFinal
<1>. QED  BY <1>1, RestoreSpecInv, PTL

(***************************************************************************)
(* A file changed by hand.                                                 *)
(***************************************************************************)

\* A hand edit happens in doubt, keeps the doubt, and stops every recovery.
HandInv ==
    /\ \A r \in Restores, f \in Files : intent[r].before[f] # Hand
    /\ \A f \in Files : file[f] = Hand => InDoubt
    /\ \A o \in Ops, f \in Files : work[o] = "applying" => file[f] # Hand

HandStands == \A f \in Files : file[f] = Hand => file'[f] = Hand

LEMMA NextHandInv ==
    ASSUME RestoreInv, RestoreInv', HandInv, [Next]_vars
    PROVE  HandInv' /\ HandStands
<1>. USE DEF HandStands
<1>. Hand \notin Restores /\ Hand \notin Requests /\ Hand # Original
  BY RestoreAssumption DEF Ops
<1>1. ASSUME UNCHANGED <<marker, file, intent>>,
             \A o \in Ops : work'[o] = "applying" => work[o] = "applying"
      PROVE  HandInv' /\ HandStands
  BY <1>1 DEF HandInv, InDoubt
<1>2. ASSUME NEW o \in Ops, Gate(o) PROVE HandInv' /\ HandStands
  <2>1. UNCHANGED <<file, intent>> /\ \A q \in Ops : work'[q] = "applying" => work[q] = "applying"
    BY <1>2 DEF Gate, RestoreInv, TypeOK
  <2>2. CASE UNCHANGED marker
    BY <2>1, <2>2, <1>1
  <2>3. CASE PublishMarker(o) /\ ~ UNCHANGED marker
    <3>1. marker = NoId
      BY <2>3 DEF PublishMarker
    <3>. QED  BY <2>1, <3>1, GateAssumption DEF HandInv, InDoubt
  <2>4. CASE Unmark(o)
    <3>1. \A f \in Files : file[f] # Hand
      <4>1. pc[o] = "unmarking" /\ marker = own[o]
        BY <2>4 DEF Unmark, RestoreInv, GateInv, MarkerHeld
      <4>2. Recorded(marker) => \A f \in Files : file[f] = Final(marker, f)
        BY <4>1 DEF RestoreInv, Closing
      <4>. QED  BY <4>2 DEF HandInv, InDoubt, Recorded, Final
    <3>. QED  BY <2>1, <3>1 DEF HandInv
  <2>. QED
    BY <1>2, <2>2, <2>3, <2>4 DEF Gate, GateStep, Admit, WriteLease, Recheck, Finish, Begin,
       Drain, DrainExpires, CheckOwner, LockRecovery, Revalidate, Unlock
<1>3. ASSUME NEW o \in Ops, WriteIntent(o) PROVE HandInv' /\ HandStands
  <2>1. o \in Restores /\ marker = own[o] /\ intent[o].state = "absent" /\ own[o] = o
    BY <1>3, GateAssumption DEF WriteIntent, At, RestoreInv, GateInv, MarkerHeld, Client, Working,
       Owning, OwnerPhases, HoldsLock
  <2>2. \A f \in Files : file[f] # Hand
    BY <2>1 DEF HandInv, InDoubt
  <2>3. UNCHANGED file /\ \A q \in Ops : work'[q] = "applying" => work[q] = "applying"
    BY <1>3 DEF WriteIntent, To, RestoreInv, TypeOK
  <2>4. \A r \in Restores : intent'[r].before \in {intent[r].before, file}
    BY <1>3 DEF WriteIntent, RestoreInv, TypeOK
  <2>. QED  BY <2>2, <2>3, <2>4 DEF HandInv
<1>4. ASSUME NEW o \in Ops, FailIntent(o) PROVE HandInv' /\ HandStands
  <2>1. o \in Restores /\ intent[o].state = "absent" /\ UNCHANGED <<file, marker>>
    BY <1>4 DEF FailIntent, At, EndRecovery, RestoreInv, Client
  <2>2. \A r \in Restores : intent'[r] = intent[r] \/ r = o
    BY <1>4 DEF FailIntent, RestoreInv, TypeOK
  <2>3. \A r \in Restores : intent'[r].before \in {intent[r].before, NoImages}
    BY <1>4 DEF FailIntent, RestoreInv, TypeOK
  <2>4. \A q \in Ops : work'[q] = "applying" => work[q] = "applying"
    BY <1>4 DEF FailIntent, To, RestoreInv, TypeOK
  <2>. QED  BY <2>1, <2>2, <2>3, <2>4 DEF HandInv, InDoubt, NoImages
<1>5. ASSUME NEW o \in Ops, PlanFiles(o) PROVE HandInv' /\ HandStands
  <2>1. \A f \in Files : file[f] # Hand
    <3>1. own[o] \in Restores
      BY <1>5 DEF PlanFiles, At, RestoreInv, GateInv, Owning, OwnerPhases, HoldsLock
    <3>. QED  BY <1>5, <3>1 DEF PlanFiles, Known, Before, After, HandInv
  <2>. QED  BY <1>5, <2>1 DEF PlanFiles, HandInv
<1>6. ASSUME NEW o \in Ops, NEW f \in Files, ReplaceFile(o, f) PROVE HandInv' /\ HandStands
  <2>1. \A g \in Files : file[g] # Hand
    BY <1>6 DEF ReplaceFile, At, HandInv
  <2>2. own[o] \in Restores
    BY <1>6 DEF ReplaceFile, At, RestoreInv, GateInv, Owning, OwnerPhases, HoldsLock
  <2>3. \A g \in Files : file'[g] # Hand
    BY <1>6, <2>1, <2>2 DEF ReplaceFile, Desired, Before, After, HandInv, RestoreInv, TypeOK, Images
  <2>. QED  BY <1>6, <2>1, <2>3 DEF ReplaceFile, HandInv
<1>7. ASSUME NEW o \in Ops, Work(o), ~ WriteIntent(o), ~ FailIntent(o), ~ PlanFiles(o),
             \A f \in Files : ~ ReplaceFile(o, f)
      PROVE  HandInv' /\ HandStands
  <2>1. UNCHANGED <<marker, file, intent>>
    BY <1>7 DEF Work, OpenTransaction, RefuseRestore, SendCommit, NotConfirmed, Confirmed,
       Diverged, FilesReplaced, ReadReceipt, ReceiptUnknown, EndRecovery, gateVars
  <2>2. \A q \in Ops : work'[q] = "applying" => work[q] = "applying"
    BY <1>7 DEF Work, OpenTransaction, RefuseRestore, SendCommit, NotConfirmed, Confirmed,
       Diverged, FilesReplaced, ReadReceipt, ReceiptUnknown, To, RestoreInv, TypeOK
  <2>. QED  BY <2>1, <2>2, <1>1
<1>8. ASSUME NEW o \in Ops, Recover(o) \/ ReleaseLock(o) \/ EditRows(o) PROVE HandInv' /\ HandStands
  BY <1>8, <1>1 DEF Recover, ReleaseLock, Resume, ResumeOffline, restoreVars, EditRows, gateVars
<1>9. ASSUME NEW o \in Ops, NEW f \in Files, EditFile(o, f) PROVE HandInv' /\ HandStands
  <2>1. ~ InDoubt /\ o \in Requests
    BY <1>9 DEF EditFile, RestoreInv, Quieted
  <2>2. \A g \in Files : file[g] # Hand /\ file'[g] # Hand
    BY <1>9, <2>1 DEF EditFile, HandInv, RestoreInv, TypeOK, Images
  <2>. QED  BY <1>9, <2>2 DEF EditFile, HandInv
<1>10. ASSUME NEW f \in Files, HandEdit(f) PROVE HandInv' /\ HandStands
  <2>1. \A o \in Ops : work[o] = "out"
    BY <1>10 DEF HandEdit, RestoreInv, Working
  <2>. QED
    BY <1>10, <2>1 DEF HandEdit, HandInv, InDoubt, gateVars, RestoreInv, TypeOK, Images
<1>11. CASE Database
  BY <1>11, <1>1 DEF Database, CommitTx, AbortTx, gateVars
<1>12. ASSUME NEW p \in Procs, Stop(p) \/ Start(p), UNCHANGED restoreVars PROVE HandInv' /\ HandStands
  BY <1>12, <1>1 DEF Stop, Start, restoreVars
<1>13. ASSUME NEW p \in Procs, NEW torn \in BOOLEAN, Dies(p, torn) PROVE HandInv' /\ HandStands
  <2>1. UNCHANGED file /\ \A q \in Ops : work'[q] = "applying" => work[q] = "applying"
    BY <1>13 DEF Dies
  <2>2. \A r \in Restores : intent'[r].before \in {intent[r].before, NoImages}
    BY <1>13 DEF Dies
  <2>3. \A r \in Restores : Recorded(r) => Recorded(r)'
    BY <1>13 DEF Dies, Recorded, RestoreInv, Client
  <2>4. marker' = marker \/ (marker' = Torn /\ marker = NoId)
    BY <1>13 DEF Dies, Crash, TornMarker
  <2>. QED  BY <2>1, <2>2, <2>3, <2>4, GateAssumption DEF HandInv, InDoubt, Recorded, NoImages
<1>14. CASE UNCHANGED vars
  BY <1>14, <1>1 DEF vars
<1>. HIDE DEF HandStands
<1>15. HandInv' /\ HandStands
  <2>1. CASE Fault
    BY <2>1, <1>12, <1>13 DEF Fault, Dies
  <2>2. ASSUME NEW o \in Ops, Work(o) PROVE HandInv' /\ HandStands
    BY <2>2, <1>3, <1>4, <1>5, <1>6, <1>7
  <2>3. ASSUME NEW o \in Ops, Recover(o) \/ ReleaseLock(o) PROVE HandInv' /\ HandStands
    BY <2>3, <1>8
  <2>4. ASSUME NEW o \in Ops, EditRows(o) \/ \E f \in Files : EditFile(o, f)
        PROVE  HandInv' /\ HandStands
    BY <2>4, <1>8, <1>9
  <2>5. CASE \E f \in Files : HandEdit(f)
    BY <2>5, <1>10
  <2>. QED
    BY <2>1, <2>2, <2>3, <2>4, <2>5, <1>2, <1>11, <1>14 DEF Next
<1>. QED  BY <1>15

\* No recovery overwrites a file that was changed by hand meanwhile
\* (reconcileRecoveryFiles).
THEOREM HandEditsKept == Spec => HandEditsStand
<1>1. Init => HandInv
  BY RestoreAssumption DEF Init, HandInv, NoImages
<1>2. RestoreInv /\ RestoreInv' /\ HandInv /\ [Next]_vars
      => HandInv' /\ (\A f \in Files : file[f] = Hand => file'[f] = Hand)
  BY NextHandInv DEF HandStands
<1>. QED  BY <1>1, <1>2, RestoreSpecInv, PTL DEF Spec, HandEditsStand

(***************************************************************************)
(* An application that is open holds the whole archive or nothing of it.   *)
(***************************************************************************)

\* Who has written a file is done with it, or is about to be: only a restore
\* that committed replaces a file.
Wrote ==
    \A f \in Files :
       /\ file[f] \in Restores => tx[file[f]] = "committed"
       /\ file[f] \in Requests => pc[file[f]] \in {"working", "done", "dead"}

\* The writers of the images of a recorded restore never write again.
Past ==
    \A r \in Restores, f \in Files :
       Recorded(r) =>
          LET x == intent[r].before[f]
          IN  /\ x # r
              /\ x \in Restores => tx[x] = "committed" /\ marker # x
              /\ x \in Requests => pc[x] \in {"done", "dead"}

\* What a recovery puts back is not what a restore that ended found.
Apart ==
    \A r, m \in Restores, f \in Files :
       marker = m /\ r # m /\ Recorded(m) /\ Recorded(r) /\ tx[r] = "committed"
          => intent[m].before[f] # intent[r].before[f]

WholeInv == Wrote /\ Past /\ Apart /\ OpenMeansWhole

\* A request that is done stays so; one that works goes on, ends or dies.
Ages ==
    \A o \in Requests :
       /\ pc[o] \in {"done", "dead"} => pc'[o] = pc[o]
       /\ pc[o] = "working" => pc'[o] \in {"working", "done", "dead"}

\* Nothing is written or recorded; a transaction may end.
Rests ==
    /\ UNCHANGED file /\ Ages
    /\ marker' = marker \/ (marker = NoId /\ marker' = Torn)
    /\ \A r \in Restores :
          /\ Recorded(r) => intent'[r] = intent[r]
          /\ intent'[r].state = "written" => Recorded(r)
          /\ tx[r] \in {"committed", "aborted"} => tx'[r] = tx[r]
          /\ tx'[r] = "committed" => tx[r] \in {"committing", "committed"}

Publishes(r) ==
    /\ UNCHANGED <<file, tx, intent>> /\ Ages
    /\ r \in Restores /\ pc[r] = "marking" /\ marker = NoId /\ marker' = r

Reopens(o) ==
    /\ UNCHANGED <<file, tx, intent>> /\ Ages
    /\ pc[o] = "unmarking" /\ marker' = NoId

Records(r) ==
    /\ UNCHANGED <<file, tx, marker, pc>>
    /\ r \in Restores /\ marker = r /\ tx[r] = "open" /\ ~ Recorded(r)
    /\ pc[r] = "recovering"
    /\ intent' = [intent EXCEPT ![r] = [state |-> "written", before |-> file]]

Writes(f) ==
    /\ UNCHANGED <<marker, tx, intent, pc>>
    /\ \/ \E o \in Requests : pc[o] = "working" /\ file' = [file EXCEPT ![f] = o]
       \/ InDoubt /\ file' = [file EXCEPT ![f] = Hand]
       \/ \E o \in Ops : work[o] = "applying" /\ file' = [file EXCEPT ![f] = Desired(o, f)]

\* Every step is one of these.
Kinds ==
    \/ Rests
    \/ \E r \in Restores : Publishes(r) \/ Records(r)
    \/ \E o \in Ops : Reopens(o)
    \/ \E f \in Files : Writes(f)

\* The steps of the gate.
LEMMA GateKinds == ASSUME RestoreInv, NEW o \in Ops, Gate(o) PROVE Kinds
<1>1. UNCHANGED <<file, tx, intent>>
  BY DEF Gate
<1>2. Ages
  <2>1. pc \in [Ops -> Phases]
    BY DEF RestoreInv, GateInv, GateTypeOK
  <2>2. o \in Requests => o \notin Restores /\ o \notin Resumes
    BY GateAssumption
  <2> QED
    BY <2>1, <2>2 DEF Gate, GateStep, Admit, WriteLease, Recheck, Finish, Begin, PublishMarker, Drain,
       DrainExpires, CheckOwner, LockRecovery, Revalidate, Unmark, Unlock, Goto, Ages, Refused, Ops
<1>3. CASE UNCHANGED marker
  BY <1>1, <1>2, <1>3 DEF Kinds, Rests, Recorded
<1>4. CASE PublishMarker(o) /\ ~ UNCHANGED marker
  <2>1. o \in Restores
    BY <1>4 DEF PublishMarker, RestoreInv, GateInv, Owning
  <2> QED  BY <1>1, <1>2, <1>4, <2>1 DEF PublishMarker, Kinds, Publishes
<1>5. CASE Unmark(o)
  BY <1>1, <1>2, <1>5 DEF Unmark, Kinds, Reopens
<1> QED
  BY <1>3, <1>4, <1>5 DEF Gate, GateStep, Admit, WriteLease, Recheck, Finish, Begin,
     PublishMarker, Drain, DrainExpires, CheckOwner, LockRecovery, Revalidate, Unlock

\* The steps of a recovery.
LEMMA WorkKinds == ASSUME RestoreInv, NEW o \in Ops, Work(o) PROVE Kinds
<1>1. pc[o] = "recovering" /\ marker' = marker
  BY DEF Work, OpenTransaction, RefuseRestore, WriteIntent, FailIntent, SendCommit,
     NotConfirmed, Confirmed, PlanFiles, Diverged, FilesReplaced, ReplaceFile, ReadReceipt,
     ReceiptUnknown, At, EndRecovery, gateVars
<1>2. Ages
  <2>1. pc \in [Ops -> Phases]
    BY DEF RestoreInv, GateInv, GateTypeOK
  <2> QED
    BY <1>1, <2>1 DEF Work, OpenTransaction, RefuseRestore, WriteIntent, FailIntent, SendCommit,
       NotConfirmed, Confirmed, PlanFiles, Diverged, FilesReplaced, ReplaceFile, ReadReceipt,
       ReceiptUnknown, EndRecovery, gateVars, Goto, Ages, Ops
<1>3. CASE WriteIntent(o)
  <2>1. o \in Restores /\ work[o] = "inTx"
    BY <1>3 DEF WriteIntent, At
  <2>2. marker = own[o] /\ own[o] = o
    BY <1>1, <2>1, GateAssumption DEF RestoreInv, GateInv, MarkerHeld, Working, Owning,
       OwnerPhases, HoldsLock
  <2>3. tx[o] = "open" /\ ~ Recorded(o)
    BY <2>1 DEF RestoreInv, Client, Recorded
  <2> QED
    BY <1>1, <1>3, <2>1, <2>2, <2>3 DEF WriteIntent, gateVars, Kinds, Records
<1>4. CASE \E f \in Files : ReplaceFile(o, f)
  BY <1>4 DEF ReplaceFile, At, gateVars, Kinds, Writes
<1>5. CASE FailIntent(o)
  <2>1. o \in Restores /\ work[o] = "inTx"
    BY <1>5 DEF FailIntent, At
  <2>2. tx[o] = "open" /\ ~ Recorded(o)
    BY <2>1 DEF RestoreInv, Client, Recorded
  <2>3. /\ UNCHANGED file /\ tx' = [tx EXCEPT ![o] = "aborted"]
        /\ \A r \in Restores : r # o => intent'[r] = intent[r]
        /\ intent'[o].state # "written"
    BY <1>5, <2>1 DEF FailIntent, RestoreInv, TypeOK
  <2>4. tx \in [Restores -> {"none", "open", "committing", "committed", "aborted"}]
    BY DEF RestoreInv, TypeOK
  <2> QED
    BY <1>1, <1>2, <2>1, <2>2, <2>3, <2>4 DEF Kinds, Rests, Recorded
<1>6. CASE OpenTransaction(o) \/ RefuseRestore(o) \/ SendCommit(o)
  <2>1. /\ o \in Restores /\ UNCHANGED <<file, intent>>
        /\ work[o] \in {"begun", "inTx", "planned"}
        /\ \E x \in {"open", "aborted", "committing"} : tx' = [tx EXCEPT ![o] = x]
    BY <1>6 DEF OpenTransaction, RefuseRestore, SendCommit, At
  <2>2. tx[o] \in {"none", "open"}
    BY <2>1 DEF RestoreInv, Client
  <2>3. tx \in [Restores -> {"none", "open", "committing", "committed", "aborted"}]
    BY DEF RestoreInv, TypeOK
  <2> QED  BY <1>1, <1>2, <2>1, <2>2, <2>3 DEF Kinds, Rests, Recorded
<1>7. CASE UNCHANGED <<file, tx, intent>>
  BY <1>1, <1>2, <1>7 DEF Kinds, Rests, Recorded
<1> QED
  BY <1>3, <1>4, <1>5, <1>6, <1>7 DEF Work, NotConfirmed, Confirmed, PlanFiles, Diverged,
     FilesReplaced, ReadReceipt, ReceiptUnknown

\* The steps of the database, of processes that die, and of nobody.
LEMMA StepKinds == ASSUME RestoreInv, [Next]_vars PROVE Kinds
<1>1. pc \in [Ops -> Phases]
  BY DEF RestoreInv, GateInv, GateTypeOK
<1>2. ASSUME NEW o \in Ops, Recover(o) \/ ReleaseLock(o) PROVE Kinds
  <2>1. UNCHANGED <<file, tx, intent, marker>> /\ o \in Resumes
    BY <1>2 DEF Recover, ReleaseLock, Resume, ResumeOffline, restoreVars
  <2>2. Ages
    BY <1>1, <1>2, <2>1, GateAssumption DEF Recover, ReleaseLock, Resume, ResumeOffline, Goto,
       Ages, Ops
  <2> QED  BY <2>1, <2>2 DEF Kinds, Rests, Recorded
<1>3. ASSUME NEW o \in Ops, EditRows(o) PROVE Kinds
  BY <1>3 DEF EditRows, gateVars, Kinds, Rests, Recorded, Ages
<1>4. ASSUME NEW o \in Ops, NEW f \in Files, EditFile(o, f) PROVE Kinds
  BY <1>4 DEF EditFile, gateVars, Kinds, Writes
<1>5. ASSUME NEW f \in Files, HandEdit(f) PROVE Kinds
  BY <1>5 DEF HandEdit, gateVars, Kinds, Writes, InDoubt
<1>6. ASSUME NEW r \in Restores, CommitTx(r) \/ AbortTx(r) PROVE Kinds
  <2>1. /\ UNCHANGED <<file, intent, marker, pc>> /\ tx[r] \in {"open", "committing"}
        /\ \/ tx' = [tx EXCEPT ![r] = "aborted"]
           \/ tx[r] = "committing" /\ tx' = [tx EXCEPT ![r] = "committed"]
    BY <1>6 DEF CommitTx, AbortTx, gateVars
  <2>2. tx \in [Restores -> {"none", "open", "committing", "committed", "aborted"}]
    BY DEF RestoreInv, TypeOK
  <2> QED  BY <2>1, <2>2 DEF Kinds, Rests, Recorded, Ages
<1>7. ASSUME NEW p \in Procs, Stop(p) \/ Start(p), UNCHANGED restoreVars PROVE Kinds
  BY <1>7 DEF Stop, Start, restoreVars, Kinds, Rests, Recorded, Ages
<1>8. ASSUME NEW p \in Procs, NEW torn \in BOOLEAN, Dies(p, torn) PROVE Kinds
  <2>1. UNCHANGED <<file, tx>> /\ (marker' = marker \/ (marker = NoId /\ marker' = Torn))
    BY <1>8 DEF Dies, Crash, TornMarker
  <2>2. Ages
    BY <1>8, GateAssumption DEF Dies, Crash, Ages, Ops
  <2>3. \A r \in Restores : /\ Recorded(r) => intent'[r] = intent[r]
                            /\ intent'[r].state = "written" => Recorded(r)
    BY <1>8 DEF Dies, Recorded, RestoreInv, Client
  <2> QED  BY <2>1, <2>2, <2>3 DEF Kinds, Rests
<1>9. CASE UNCHANGED vars
  BY <1>9 DEF vars, Kinds, Rests, Recorded, Ages
<1> HIDE DEF Kinds
<1> QED
  BY <1>2, <1>3, <1>4, <1>5, <1>6, <1>7, <1>8, <1>9, GateKinds, WorkKinds
     DEF Next, Database, Fault, Dies

\* What the proofs below need of a step of any kind: transactions that ended, and
\* the images of those recorded, stay.
LEMMA KindsKeep ==
    ASSUME RestoreInv, Kinds
    PROVE  /\ \A r \in Restores :
                /\ tx[r] \in {"committed", "aborted"} => tx'[r] = tx[r]
                /\ Recorded(r) => intent'[r] = intent[r] /\ Recorded(r)'
           /\ Ages
<1>1. intent \in [Restores -> Intents] /\ pc \in [Ops -> Phases]
  BY DEF RestoreInv, TypeOK, GateInv, GateTypeOK
<1>2. CASE Rests
  BY <1>2 DEF Rests, Recorded
<1>3. CASE \E r \in Restores : Publishes(r)
  BY <1>3 DEF Publishes, Recorded
<1>4. CASE \E o \in Ops : Reopens(o)
  BY <1>4 DEF Reopens, Recorded
<1>5. CASE \E f \in Files : Writes(f)
  BY <1>5 DEF Writes, Recorded, Ages
<1>6. CASE \E r \in Restores : Records(r)
  BY <1>1, <1>6 DEF Records, Recorded, Ages
<1> QED  BY <1>2, <1>3, <1>4, <1>5, <1>6 DEF Kinds

\* Whose maintenance a recovery works for, and what it puts in place of a file.
LEMMA WritesWhat ==
    ASSUME RestoreInv, NEW o \in Ops, work[o] = "applying", NEW f \in Files
    PROVE  /\ marker = own[o] /\ Recorded(marker)
           /\ \/ tx[marker] = "committed" /\ Desired(o, f) = marker
              \/ tx[marker] = "aborted" /\ Desired(o, f) = intent[marker].before[f]
<1>1. pc[o] = "recovering" /\ marker = own[o]
  BY DEF RestoreInv, Working, GateInv, MarkerHeld
<1>2. Recorded(own[o])
  BY DEF RestoreInv, Journalled
<1>3. verdict[o] \in {"committed", "absent"}
  BY DEF RestoreInv, Judged, TypeOK
<1> QED  BY <1>1, <1>2, <1>3 DEF RestoreInv, Judged, Desired, Before, After

\* Only a restore that committed, or a request at work, has written a file.
LEMMA WroteStep ==
    ASSUME RestoreInv, HandInv, WholeInv, Kinds
    PROVE  Wrote'
<1> SUFFICES ASSUME NEW f \in Files
             PROVE  /\ file'[f] \in Restores => tx'[file'[f]] = "committed"
                    /\ file'[f] \in Requests => pc'[file'[f]] \in {"working", "done", "dead"}
  BY DEF Wrote
<1>1. /\ file[f] \in Restores => tx'[file[f]] = "committed"
      /\ file[f] \in Requests => pc'[file[f]] \in {"working", "done", "dead"}
  BY KindsKeep DEF WholeInv, Wrote, Ages
<1>2. file \in [Files -> Writers]
  BY DEF RestoreInv, TypeOK, Images
<1>3. Requests \intersect Restores = {} /\ Hand \notin Restores /\ Hand \notin Requests
  BY GateAssumption, RestoreAssumption DEF Ops
<1>4. CASE file'[f] = file[f]
  BY <1>1, <1>4
<1>5. CASE \E g \in Files : Writes(g)
  <2>1. PICK g \in Files : Writes(g)
    BY <1>5
  <2>2. CASE f # g
    BY <1>1, <1>2, <2>1, <2>2 DEF Writes
  <2>3. CASE f = g
    <3>1. CASE \E o \in Requests : pc[o] = "working" /\ file'[f] = o
      BY <1>3, <2>1, <3>1 DEF Writes
    <3>2. CASE file'[f] = Hand
      BY <1>3, <3>2
    <3>3. CASE \E o \in Ops : work[o] = "applying" /\ file'[f] = Desired(o, f)
      <4>1. PICK o \in Ops : work[o] = "applying" /\ file'[f] = Desired(o, f)
        BY <3>3
      <4>2. /\ Recorded(marker)
            /\ \/ tx[marker] = "committed" /\ file'[f] = marker
               \/ file'[f] = intent[marker].before[f]
        BY <4>1, WritesWhat
      <4>3. marker \in Restores /\ tx' = tx /\ pc' = pc
        BY <2>1, <4>2 DEF Writes, Recorded
      <4> QED  BY <1>3, <4>2, <4>3 DEF WholeInv, Past
    <3> QED  BY <1>2, <2>1, <2>3, <3>1, <3>2, <3>3 DEF Writes
  <2> QED  BY <2>2, <2>3
<1>6. ~ (\E g \in Files : Writes(g)) => file'[f] = file[f]
  BY DEF Kinds, Rests, Publishes, Reopens, Records
<1> QED  BY <1>4, <1>5, <1>6

\* Who wrote an image of a recorded restore has ended, and its marker is not seen again.
LEMMA PastStep ==
    ASSUME RestoreInv, HandInv, WholeInv, Kinds
    PROVE  Past'
<1> SUFFICES ASSUME NEW r \in Restores, NEW f \in Files, Recorded(r)'
             PROVE  /\ intent'[r].before[f] # r
                    /\ intent'[r].before[f] \in Restores =>
                          /\ tx'[intent'[r].before[f]] = "committed"
                          /\ marker' # intent'[r].before[f]
                    /\ intent'[r].before[f] \in Requests =>
                          pc'[intent'[r].before[f]] \in {"done", "dead"}
  BY DEF Past
<1>1. CASE Recorded(r)
  <2> DEFINE x == intent[r].before[f]
  <2>1. intent'[r].before[f] = x
    BY <1>1, KindsKeep
  <2>2. /\ x # r
        /\ x \in Restores => tx[x] = "committed" /\ marker # x
        /\ x \in Requests => pc[x] \in {"done", "dead"}
    BY <1>1 DEF WholeInv, Past
  <2> HIDE DEF x
  <2>3. x \in Restores => tx'[x] = "committed"
    BY <2>2, KindsKeep
  <2>4. x \in Requests => pc'[x] \in {"done", "dead"}
    BY <2>2, KindsKeep DEF Ages
  <2>5. x \in Restores => pc[x] # "marking"
    BY <2>2 DEF RestoreInv, Journalled, Early
  <2>6. x \in Restores => marker' # x
    <3>1. marker' = marker \/ marker' \in {NoId, Torn} \/ pc[marker'] = "marking"
      BY DEF Kinds, Rests, Publishes, Reopens, Records, Writes
    <3> QED  BY <2>2, <2>5, <3>1, GateAssumption
  <2> QED  BY <2>1, <2>2, <2>3, <2>4, <2>6
<1>2. CASE ~ Recorded(r)
  <2>1. PICK q \in Restores : Records(q)
    BY <1>2 DEF Kinds, Rests, Publishes, Reopens, Writes, Recorded
  <2>2. intent \in [Restores -> Intents]
    BY DEF RestoreInv, TypeOK
  <2>3. q = r
    BY <1>2, <2>1, <2>2 DEF Records, Recorded
  <2>4. intent'[r].before[f] = file[f] /\ tx' = tx /\ marker' = marker /\ pc' = pc
    BY <2>1, <2>2, <2>3 DEF Records
  <2>5. marker = r /\ tx[r] = "open"
    BY <2>1, <2>3 DEF Records
  <2>6. file[f] \in Restores => tx[file[f]] = "committed"
    BY DEF WholeInv, Wrote
  <2>7. file[f] \in Requests => pc[file[f]] \in {"done", "dead"}
    <3>1. r \in Ops /\ pc[r] = "recovering" /\ marker = own[r]
      BY <2>1, <2>3 DEF Records, Ops, RestoreInv, GateInv, MarkerHeld
    <3>2. \A o \in Ops : pc[o] # "working"
      BY <3>1 DEF RestoreInv, GateInv, Fenced
    <3> QED  BY <3>2 DEF WholeInv, Wrote, Ops
  <2>8. file[f] # r
    BY <2>5, <2>6
  <2> QED  BY <2>4, <2>5, <2>6, <2>7, <2>8
<1> QED  BY <1>1, <1>2

\* The images of a later restore are of after an earlier one.
LEMMA ApartStep ==
    ASSUME RestoreInv, WholeInv, Kinds
    PROVE  Apart'
<1> SUFFICES ASSUME NEW r \in Restores, NEW m \in Restores, NEW f \in Files, marker' = m, r # m,
                    Recorded(m)', Recorded(r)', tx'[r] = "committed"
             PROVE  intent'[m].before[f] # intent'[r].before[f]
  BY DEF Apart
<1>1. intent \in [Restores -> Intents]
  BY DEF RestoreInv, TypeOK
<1>2. CASE \E q \in Restores : Records(q)
  <2>1. PICK q \in Restores : Records(q)
    BY <1>2
  <2>2. q = m /\ marker = m /\ tx' = tx
    BY <2>1 DEF Records
  <2>3. intent'[m].before = file /\ intent'[r] = intent[r]
    BY <1>1, <2>1, <2>2 DEF Records
  <2>4. intent[r].state = "written"
    BY <2>3 DEF Recorded
  <2> QED  BY <2>2, <2>3, <2>4 DEF WholeInv, OpenMeansWhole
<1>3. CASE ~ \E q \in Restores : Records(q)
  <2>1. Recorded(m) /\ Recorded(r)
    BY <1>3 DEF Kinds, Rests, Publishes, Reopens, Writes, Recorded
  <2>2. intent'[m] = intent[m] /\ intent'[r] = intent[r]
    BY <2>1, KindsKeep
  <2>3. pc[m] # "marking"
    BY <2>1 DEF RestoreInv, Journalled, Recorded, Early
  <2>4. marker = m
    BY <1>3, <2>3, GateAssumption DEF Kinds, Rests, Publishes, Reopens, Writes
  <2>5. tx[r] \in {"committing", "committed"}
    BY <1>3 DEF Kinds, Rests, Publishes, Reopens, Writes
  <2>6. tx[r] = "committed"
    BY <2>4, <2>5 DEF RestoreInv, Journalled
  <2> QED  BY <2>1, <2>2, <2>4, <2>6 DEF WholeInv, Apart
<1> QED  BY <1>2, <1>3

\* No step leaves half a restore behind an open application.
LEMMA WholeStep ==
    ASSUME RestoreInv, HandInv, WholeInv, Kinds
    PROVE  OpenMeansWhole'
<1> SUFFICES ASSUME NEW r \in Restores, marker' # r, Recorded(r)'
             PROVE  /\ tx'[r] \in {"committed", "aborted"}
                    /\ \A f \in Files :
                          IF tx'[r] = "committed" THEN file'[f] # intent'[r].before[f]
                                                  ELSE file'[f] # r
  BY DEF OpenMeansWhole, Recorded
<1>1. Recorded(r)
  <2>1. intent \in [Restores -> Intents]
    BY DEF RestoreInv, TypeOK
  <2>2. CASE \E q \in Restores : Records(q)
    BY <2>1, <2>2 DEF Records, Recorded
  <2>3. CASE ~ \E q \in Restores : Records(q)
    BY <2>3 DEF Kinds, Rests, Publishes, Reopens, Writes, Recorded
  <2> QED  BY <2>2, <2>3
<1>2. intent'[r] = intent[r]
  BY <1>1, KindsKeep
<1>3. Hand \notin Restores /\ Requests \intersect Restores = {} /\ r # NoId
  BY GateAssumption, RestoreAssumption DEF Ops
<1>4. SUFFICES /\ tx[r] \in {"committed", "aborted"}
               /\ \A f \in Files : IF tx[r] = "committed" THEN file'[f] # intent[r].before[f]
                                                         ELSE file'[f] # r
  BY <1>2, KindsKeep
<1>5. CASE marker = r
  <2>1. PICK o \in Ops : Reopens(o)
    BY <1>3, <1>5 DEF Kinds, Rests, Publishes, Records, Writes
  <2>2. pc[o] = "unmarking" /\ own[o] = marker /\ file' = file
    BY <2>1 DEF Reopens, RestoreInv, GateInv, MarkerHeld
  <2>3. tx[r] \in {"committed", "aborted"} /\ \A f \in Files : file[f] = Final(r, f)
    BY <1>1, <1>5, <2>2 DEF RestoreInv, Closing
  <2>4. \A f \in Files : intent[r].before[f] # r
    BY <1>1 DEF WholeInv, Past
  <2> QED  BY <2>2, <2>3, <2>4 DEF Final
<1>6. CASE marker # r
  <2>1. /\ tx[r] \in {"committed", "aborted"}
        /\ \A f \in Files : IF tx[r] = "committed" THEN file[f] # intent[r].before[f]
                                                  ELSE file[f] # r
    BY <1>1, <1>6 DEF WholeInv, OpenMeansWhole, Recorded
  <2>2. SUFFICES ASSUME NEW f \in Files, file'[f] # file[f]
                 PROVE  IF tx[r] = "committed" THEN file'[f] # intent[r].before[f]
                                               ELSE file'[f] # r
    BY <2>1
  <2>3. PICK g \in Files : Writes(g)
    BY <2>2 DEF Kinds, Rests, Publishes, Reopens, Records
  <2>4. file \in [Files -> Writers] /\ intent \in [Restores -> Intents]
    BY DEF RestoreInv, TypeOK, Images
  <2>5. /\ f = g
        /\ \/ \E o \in Requests : pc[o] = "working" /\ file'[f] = o
           \/ file'[f] = Hand
           \/ \E o \in Ops : work[o] = "applying" /\ file'[f] = Desired(o, f)
    BY <2>2, <2>3, <2>4 DEF Writes
  <2>6. CASE \E o \in Requests : pc[o] = "working" /\ file'[f] = o
    BY <1>1, <1>3, <2>6 DEF WholeInv, Past
  <2>7. CASE file'[f] = Hand
    BY <1>3, <2>7 DEF HandInv
  <2>8. CASE \E o \in Ops : work[o] = "applying" /\ file'[f] = Desired(o, f)
    <3>1. PICK o \in Ops : work[o] = "applying" /\ file'[f] = Desired(o, f)
      BY <2>8
    <3>2. /\ Recorded(marker)
          /\ file'[f] = marker \/ file'[f] = intent[marker].before[f]
      BY <3>1, WritesWhat
    <3>3. marker \in Restores
      BY <3>2 DEF Recorded
    <3>4. CASE file'[f] = marker
      BY <1>1, <1>6, <3>3, <3>4 DEF WholeInv, Past
    <3>5. CASE file'[f] = intent[marker].before[f]
      <4>1. tx[r] = "committed" => file'[f] # intent[r].before[f]
        BY <1>1, <1>6, <3>2, <3>3, <3>5 DEF WholeInv, Apart
      <4>2. tx[r] # "committed" => file'[f] # r
        BY <3>2, <3>3, <3>5 DEF WholeInv, Past
      <4> QED  BY <4>1, <4>2
    <3> QED  BY <3>2, <3>4, <3>5
  <2> QED  BY <2>5, <2>6, <2>7, <2>8
<1> QED  BY <1>5, <1>6

\* Whatever a person changed by hand, no intent holds it.
LEMMA HandHolds == Spec => []HandInv
<1>1. Init => HandInv
  BY RestoreAssumption DEF Init, HandInv, NoImages
<1>2. RestoreInv /\ RestoreInv' /\ HandInv /\ [Next]_vars => HandInv'
  BY NextHandInv
<1> QED  BY <1>1, <1>2, RestoreSpecInv, PTL DEF Spec

\* Whatever dies and when, an application that is open holds the whole archive of a
\* restore whose receipt is present, and nothing of one whose receipt is absent
\* (restoreCompanyBackupCoordinated, reconcileRecoveryFiles).
THEOREM OpenIsWhole == Spec => []OpenMeansWhole
<1>1. Init => WholeInv
  <2> SUFFICES ASSUME Init PROVE WholeInv
    OBVIOUS
  <2>1. /\ \A r \in Restores : intent[r].state = "absent"
        /\ \A f \in Files : file[f] = Original
    BY DEF Init, NoImages
  <2>2. Original \notin Restores /\ Original \notin Requests
    BY RestoreAssumption DEF Ops
  <2> QED
    BY <2>1, <2>2 DEF WholeInv, Wrote, Past, Apart, OpenMeansWhole, Recorded
<1>2. RestoreInv /\ HandInv /\ WholeInv /\ [Next]_vars => WholeInv'
  BY StepKinds, WroteStep, PastStep, ApartStep, WholeStep DEF WholeInv
<1>3. WholeInv => OpenMeansWhole
  BY DEF WholeInv
<1> QED  BY <1>1, <1>2, <1>3, RestoreSpecInv, HandHolds, PTL DEF Spec

(***************************************************************************)
(* The refinement.                                                         *)
(***************************************************************************)

Parts == {"rows"} \union Files
Inside == {o \in Requests : pc[o] = "working"}
Books == [x \in Parts |-> IF x = "rows" THEN db ELSE Settled(x)]

LEMMA InitPromise == Init => Promise!Init
<1>. SUFFICES ASSUME Init PROVE Promise!Init
  OBVIOUS
<1>1. Inside = {}
  BY DEF Init, GateInit, Inside, Ops
<1>2. \A x \in Parts : (IF x = "rows" THEN db ELSE Settled(x)) = Original
  BY GateAssumption DEF Init, GateInit, NoImages, Settled, InDoubt, Parts
<1>. QED  BY <1>1, <1>2 DEF Promise!Init, Inside, Parts

\* A step that admits nobody, lets nobody go and settles nothing differently.
Invisible ==
    /\ \A o \in Requests : pc'[o] = "working" <=> pc[o] = "working"
    /\ db' = db /\ \A f \in Files : Settled(f)' = Settled(f)

LEMMA InvisibleStep == ASSUME Invisible PROVE UNCHANGED <<Inside, Books>>
  BY DEF Invisible, Inside, Books, Parts

\* The recovery of an owner does not change what the files settle to.
LEMMA SettledStays ==
    ASSUME UNCHANGED <<marker, tx, intent, file>>, NEW f \in Files
    PROVE  Settled(f)' = Settled(f)
  BY DEF Settled, InDoubt

LEMMA GatePromise ==
    ASSUME RestoreInv, RestoreInv', NEW o \in Ops, Gate(o) PROVE [Promise!Next]_<<Inside, Books>>
<1>. pc \in [Ops -> Phases] /\ Requests \subseteq Ops
  BY DEF RestoreInv, GateInv, GateTypeOK, Ops
<1>0. UNCHANGED <<db, file, tx, intent>>
  BY DEF Gate
<1>1. ASSUME UNCHANGED marker, ~ Recheck(o), ~ Finish(o) PROVE Invisible
  <2>1. \A f \in Files : Settled(f)' = Settled(f)
    BY <1>0, <1>1, SettledStays
  <2>2. \A q \in Requests : pc'[q] = "working" <=> pc[q] = "working"
    BY <1>1, GateAssumption DEF Gate, GateStep, Admit, WriteLease, Begin, PublishMarker, Drain,
       DrainExpires, CheckOwner, LockRecovery, Revalidate, Unmark, Unlock, Goto, Refused
  <2>. QED  BY <1>0, <2>1, <2>2 DEF Invisible
<1>2. CASE Recheck(o)
  <2>1. UNCHANGED Books
    BY <1>0, <1>2, SettledStays DEF Recheck, Books, Parts
  <2>2. CASE o \in Requests /\ pc'[o] = "working"
    <3>1. o \notin Inside /\ Inside' = Inside \union {o}
      BY <1>2, <2>2 DEF Recheck, Goto, Inside
    <3>. QED  BY <2>1, <2>2, <3>1 DEF Promise!Next, Promise!Enter, Inside, Books, Parts
  <2>3. CASE ~ (o \in Requests /\ pc'[o] = "working")
    <3>1. UNCHANGED Inside
      BY <1>2, <2>3 DEF Recheck, Goto, Inside
    <3>. QED  BY <2>1, <3>1
  <2>. QED  BY <2>2, <2>3
<1>3. CASE Finish(o)
  <2>1. UNCHANGED Books
    BY <1>0, <1>3, SettledStays DEF Finish, Books, Parts
  <2>2. CASE o \in Requests
    <3>1. o \in Inside /\ Inside' = Inside \ {o}
      BY <1>3, <2>2, GateAssumption DEF Finish, Goto, Inside
    <3>. QED
      BY <2>1, <2>2, <3>1 DEF Promise!Next, Promise!Leave, Inside, Books, Parts
  <2>3. CASE o \notin Requests
    <3>1. UNCHANGED Inside
      BY <1>3, <2>3 DEF Finish, Goto, Inside
    <3>. QED  BY <2>1, <3>1
  <2>. QED  BY <2>2, <2>3
<1>4. CASE PublishMarker(o) /\ ~ UNCHANGED marker
  <2>1. marker = NoId /\ marker' = o /\ o \in Restores /\ ~ Recorded(o)
    BY <1>4 DEF PublishMarker, RestoreInv, GateInv, Owning, Journalled, Recorded, Early
  <2>2. \A f \in Files : Settled(f)' = Settled(f)
    BY <2>1, <1>0, GateAssumption DEF Settled, InDoubt, Recorded
  <2>3. \A q \in Requests : pc'[q] = "working" <=> pc[q] = "working"
    BY <1>4, <2>1, GateAssumption DEF PublishMarker, Goto
  <2>. QED  BY <1>0, <2>2, <2>3, InvisibleStep DEF Invisible
<1>5. CASE Unmark(o)
  <2>1. marker = own[o] /\ marker' = NoId /\ pc[o] = "unmarking"
    BY <1>5 DEF Unmark, RestoreInv, GateInv, MarkerHeld
  <2>2. \A f \in Files : Settled(f)' = Settled(f)
    BY <2>1, <1>0, GateAssumption DEF Settled, InDoubt, RestoreInv, Closing, Recorded, Final
  <2>3. \A q \in Requests : pc'[q] = "working" <=> pc[q] = "working"
    BY <1>5, GateAssumption DEF Unmark, Goto
  <2>. QED  BY <1>0, <2>2, <2>3, InvisibleStep DEF Invisible
<1>6. UNCHANGED marker \/ PublishMarker(o) \/ Unmark(o)
  BY DEF Gate, GateStep, Admit, WriteLease, Recheck, Finish, Begin, Drain, DrainExpires,
     CheckOwner, LockRecovery, Revalidate, Unlock
<1>. QED  BY <1>1, <1>2, <1>3, <1>4, <1>5, <1>6, InvisibleStep

LEMMA WorkPromise ==
    ASSUME RestoreInv, RestoreInv', NEW o \in Ops, Work(o) PROVE [Promise!Next]_<<Inside, Books>>
<1>. pc \in [Ops -> Phases] /\ Requests \subseteq Ops
  BY DEF RestoreInv, GateInv, GateTypeOK, Ops
<1>1. pc[o] = "recovering" /\ marker = own[o] /\ own[o] \in Restores
  BY DEF Work, OpenTransaction, RefuseRestore, WriteIntent, FailIntent, SendCommit, NotConfirmed,
     Confirmed, PlanFiles, Diverged, FilesReplaced, ReplaceFile, ReadReceipt, ReceiptUnknown, At,
     RestoreInv, GateInv, MarkerHeld, Owning, OwnerPhases, HoldsLock
<1>2. UNCHANGED <<marker, db>>
  BY DEF Work, OpenTransaction, RefuseRestore, WriteIntent, FailIntent, SendCommit, NotConfirmed,
     Confirmed, PlanFiles, Diverged, FilesReplaced, ReplaceFile, ReadReceipt, ReceiptUnknown,
     EndRecovery, gateVars
<1>3. \A q \in Requests : pc'[q] = "working" <=> pc[q] = "working"
  BY <1>1 DEF Work, OpenTransaction, RefuseRestore, WriteIntent, FailIntent, SendCommit,
     NotConfirmed, Confirmed, PlanFiles, Diverged, FilesReplaced, ReplaceFile, ReadReceipt,
     ReceiptUnknown, EndRecovery, Goto, gateVars
<1>4. ASSUME NEW f \in Files PROVE Settled(f)' = Settled(f)
  <2>1. CASE \E g \in Files : ReplaceFile(o, g)
    <3>1. Recorded(own[o])
      BY <2>1 DEF ReplaceFile, At, RestoreInv, Journalled
    <3>2. UNCHANGED <<tx, intent>>
      BY <2>1 DEF ReplaceFile
    <3>. QED  BY <1>1, <1>2, <3>1, <3>2 DEF Settled, InDoubt, Recorded
  <2>2. CASE OpenTransaction(o) \/ RefuseRestore(o) \/ FailIntent(o)
    <3>1. o \in Restores /\ marker = o /\ ~ Recorded(o) /\ ~ Recorded(o)' /\ UNCHANGED file
      BY <2>2, <1>1, GateAssumption DEF OpenTransaction, RefuseRestore, FailIntent, At, RestoreInv, Working,
         Client, Recorded, TypeOK
    <3>. QED  BY <1>2, <3>1 DEF Settled, InDoubt, Recorded
  <2>3. CASE WriteIntent(o)
    <3>1. o \in Restores /\ marker = o /\ ~ Recorded(o) /\ tx[o] = "open"
      BY <2>3, <1>1, GateAssumption DEF WriteIntent, At, RestoreInv, Working, Client, Recorded
    <3>2. UNCHANGED <<file, tx>> /\ intent'[o] = [state |-> "written", before |-> file]
      BY <2>3, <3>1 DEF WriteIntent, RestoreInv, TypeOK
    <3>. QED  BY <1>2, <3>1, <3>2 DEF Settled, InDoubt, Recorded
  <2>4. CASE SendCommit(o)
    <3>1. o \in Restores /\ marker = o /\ tx[o] = "open"
      BY <2>4, <1>1, GateAssumption DEF SendCommit, At, RestoreInv, Working, Client
    <3>2. UNCHANGED <<file, intent>> /\ tx'[o] = "committing"
      BY <2>4, <3>1 DEF SendCommit, RestoreInv, TypeOK
    <3>. QED  BY <1>2, <3>1, <3>2 DEF Settled, InDoubt
  <2>5. CASE UNCHANGED <<tx, intent, file>>
    BY <2>5, <1>2, SettledStays
  <2>. QED
    BY <2>1, <2>2, <2>3, <2>4, <2>5 DEF Work, NotConfirmed, Confirmed, PlanFiles, Diverged,
       FilesReplaced, ReadReceipt, ReceiptUnknown
<1>. QED  BY <1>2, <1>3, <1>4, InvisibleStep DEF Invisible

\* COMMIT is the moment the company changes hands.
LEMMA CommitPromise ==
    ASSUME RestoreInv, RestoreInv', NEW r \in Restores, CommitTx(r)
    PROVE  [Promise!Next]_<<Inside, Books>>
<1>1. marker = r /\ Recorded(r)
  BY DEF CommitTx, RestoreInv, Journalled
<1>2. Inside = {} /\ UNCHANGED Inside
  BY <1>1 DEF CommitTx, gateVars, RestoreInv, Quieted, InDoubt, Recorded, Inside, Ops
<1>3. tx'[r] = "committed" /\ UNCHANGED <<marker, intent>> /\ db' = r
  BY DEF CommitTx, gateVars, RestoreInv, TypeOK
<1>4. \A f \in Files : Settled(f)' = r
  BY <1>1, <1>3 DEF Settled, InDoubt, Recorded
<1>5. Books' = [x \in Parts |-> r]
  BY <1>3, <1>4 DEF Books, Parts
<1>. QED  BY <1>2, <1>5 DEF Promise!Next, Promise!Restore, Inside, Books, Parts

LEMMA AbortPromise ==
    ASSUME RestoreInv, RestoreInv', NEW r \in Restores, AbortTx(r)
    PROVE  [Promise!Next]_<<Inside, Books>>
<1>1. UNCHANGED <<marker, intent, file, db, pc>> /\ tx' = [tx EXCEPT ![r] = "aborted"]
  BY DEF AbortTx, gateVars
<1>2. tx[r] # "committed"
  BY DEF AbortTx
<1>3. \A f \in Files : Settled(f)' = Settled(f)
  BY <1>1, <1>2 DEF Settled, InDoubt, RestoreInv, TypeOK
<1>. QED  BY <1>1, <1>3, InvisibleStep DEF Invisible

LEMMA EditPromise ==
    ASSUME RestoreInv, NEW o \in Ops, EditRows(o) \/ \E f \in Files : EditFile(o, f)
    PROVE  [Promise!Next]_<<Inside, Books>>
<1>1. o \in Requests /\ o \in Inside /\ UNCHANGED <<Inside, marker, tx, intent>>
  BY DEF EditRows, EditFile, Inside, gateVars
<1>2. ~ InDoubt /\ ~ InDoubt'
  BY <1>1 DEF RestoreInv, Quieted, Inside, InDoubt
<1>3. \A f \in Files : Settled(f) = file[f] /\ Settled(f)' = file'[f]
  BY <1>2 DEF Settled
<1>4. CASE EditRows(o)
  <2>1. Books' = [Books EXCEPT !["rows"] = o]
    BY <1>3, <1>4 DEF EditRows, Books, Parts
  <2>. QED  BY <1>1, <2>1 DEF Promise!Next, Promise!Edit, Inside, Books, Parts
<1>5. ASSUME NEW f \in Files, EditFile(o, f) PROVE [Promise!Next]_<<Inside, Books>>
  <2>1. file \in [Files -> Writers] /\ file' = [file EXCEPT ![f] = o] /\ db' = db
    BY <1>5 DEF EditFile, RestoreInv, TypeOK, Images
  <2>2. Books' = [Books EXCEPT ![f] = o]
    BY <1>3, <2>1, RestoreAssumption DEF Books, Parts
  <2>. QED  BY <1>1, <2>2 DEF Promise!Next, Promise!Edit, Inside, Books, Parts
<1>. QED  BY <1>4, <1>5

LEMMA HandPromise ==
    ASSUME RestoreInv, NEW f \in Files, HandEdit(f) PROVE [Promise!Next]_<<Inside, Books>>
<1>1. UNCHANGED <<pc, db>> /\ \A g \in Files : Settled(g)' = Settled(g)
  BY DEF HandEdit, gateVars, Settled, InDoubt
<1>. QED  BY <1>1, InvisibleStep DEF Invisible

LEMMA ResumePromise ==
    ASSUME RestoreInv, NEW o \in Ops, Recover(o) \/ ReleaseLock(o)
    PROVE  [Promise!Next]_<<Inside, Books>>
<1>1. UNCHANGED <<marker, tx, intent, file, db>> /\ o \in Resumes
  BY DEF Recover, ReleaseLock, Resume, ResumeOffline, restoreVars
<1>2. \A q \in Requests : pc'[q] = "working" <=> pc[q] = "working"
  BY <1>1, GateAssumption DEF Recover, ReleaseLock, Resume, ResumeOffline, Goto, RestoreInv,
     GateInv, GateTypeOK, Ops
<1>. QED  BY <1>1, <1>2, SettledStays, InvisibleStep DEF Invisible

LEMMA FaultPromise ==
    ASSUME RestoreInv, RestoreInv', Fault PROVE [Promise!Next]_<<Inside, Books>>
<1>1. ASSUME NEW p \in Procs, Stop(p) \/ Start(p), UNCHANGED restoreVars
      PROVE [Promise!Next]_<<Inside, Books>>
  <2>1. UNCHANGED <<pc, marker, tx, intent, file, db>>
    BY <1>1 DEF Stop, Start, restoreVars
  <2>. QED  BY <2>1, SettledStays, InvisibleStep DEF Invisible
<1>2. ASSUME NEW p \in Procs, NEW torn \in BOOLEAN, Dies(p, torn)
      PROVE [Promise!Next]_<<Inside, Books>>
  <2>1. UNCHANGED <<tx, file, db>>
    BY <1>2 DEF Dies
  <2>2. ASSUME NEW r \in Restores PROVE Recorded(r)' <=> Recorded(r)
    BY <1>2, <2>2 DEF Dies, Recorded, RestoreInv, Client
  <2>3. ASSUME NEW r \in Restores, Recorded(r) PROVE intent'[r] = intent[r]
    BY <1>2, <2>3 DEF Dies, Recorded, RestoreInv, Client
  <2>4. marker' = marker \/ (marker' = Torn /\ marker = NoId)
    BY <1>2 DEF Dies, Crash, TornMarker
  <2>5. \A f \in Files : Settled(f)' = Settled(f)
    BY <2>1, <2>2, <2>3, <2>4, GateAssumption DEF Settled, InDoubt, Recorded
  <2>6. Inside' \subseteq Inside
    BY <1>2, GateAssumption DEF Dies, Crash, Inside, RestoreInv, GateInv, GateTypeOK, Ops
  <2>7. UNCHANGED Books
    BY <2>1, <2>5 DEF Books, Parts
  <2>8. CASE Inside' = Inside
    BY <2>7, <2>8
  <2>9. CASE Inside' # Inside
    <3>. DEFINE gone == Inside \ Inside'
    <3>1. gone # {} /\ gone \subseteq Inside /\ Inside' = Inside \ gone /\ gone \in SUBSET Requests
      BY <2>6, <2>9 DEF Inside
    <3>. HIDE DEF gone
    <3>. QED  BY <2>7, <3>1 DEF Promise!Next, Promise!Leave, Inside, Books, Parts
  <2>. QED  BY <2>8, <2>9
<1>. QED  BY <1>1, <1>2 DEF Fault, Dies

\* For whoever is admitted, a restore with its crashes, lost answers and
\* recoveries is one step: the company of before, or that of the archive.
THEOREM RestoreImplementsPromise == Spec => ImplementsPromise
<1>1. RestoreInv /\ RestoreInv' /\ [Next]_vars => [Promise!Next]_<<Inside, Books>>
  <2>. SUFFICES ASSUME RestoreInv, RestoreInv', [Next]_vars
                PROVE  [Promise!Next]_<<Inside, Books>>
    OBVIOUS
  <2>1. CASE UNCHANGED vars
    BY <2>1, SettledStays, InvisibleStep DEF vars, Invisible
  <2>. QED
    BY <2>1, GatePromise, WorkPromise, CommitPromise, AbortPromise, EditPromise, HandPromise,
       ResumePromise, FaultPromise DEF Next, Database
<1>2. RestoreInv /\ RestoreInv' /\ [Next]_vars
      => [Promise!Next]_<<{o \in Requests : pc[o] = "working"},
            [x \in {"rows"} \union Files |-> IF x = "rows" THEN db ELSE Settled(x)]>>
  BY <1>1 DEF Inside, Books, Parts
<1>. QED
  BY <1>2, InitPromise, RestoreSpecInv, PTL DEF Spec, ImplementsPromise, Promise!Spec
===============================================================================
