----------------------- MODULE CoordinatedRestoreProps -----------------------
(* What the maintenance gate and the coordinated restore must keep true. *)
EXTENDS CoordinatedRestore

\* While an owner recovers, no other operation is admitted: the lease taken
\* after the first look at the marker and the second look at it
\* (acquireNormalOperation) meet the drain and the lock of runRecovery.
NoWorkWhileRecovering ==
    \A r, o \in Ops : pc[r] = "recovering" => pc[o] # "working"

\* The recovery lock has one owner among resumed owners and the original one:
\* two of them never recover, or recover and reopen, at the same time.
OneOwnerActs ==
    \A o, q \in Ops : pc[o] \in HoldsLock /\ pc[q] \in HoldsLock => o = q

\* An application that is open is never left with half a restore: where the
\* receipt is present every file was replaced, where it is absent no file holds
\* anything of the archive and the transaction can no longer commit.
OpenMeansWhole ==
    \A r \in Restores :
       marker # r /\ intent[r].state = "written" =>
          /\ tx[r] \in {"committed", "aborted"}
          /\ \A f \in Files :
                IF tx[r] = "committed" THEN file[f] # intent[r].before[f]
                                       ELSE file[f] # r

\* An absent receipt is the last word: nobody undoes the files of a restore
\* whose transaction may still commit (reconcileCompanyBackupRecovery takes the
\* advisory lock before it looks).
AbsenceIsFinal ==
    \A o \in Ops : verdict[o] = "absent" => tx[own[o]] \in {"aborted", "none"}

\* A file changed by hand while a restore was in doubt is never overwritten by
\* its recovery (reconcileRecoveryFiles looks at every file before the first
\* replacement).
HandEditsStand == [][\A f \in Files : file[f] = Hand => file'[f] = Hand]_vars

\* The parts of the company as they are once the restore in doubt is settled.
InDoubt == marker \in Restores /\ intent[marker].state = "written"

Settled(f) ==
    IF ~ InDoubt THEN file[f]
    ELSE IF tx[marker] = "committed" THEN marker ELSE intent[marker].before[f]

Promise == INSTANCE RestorePromise WITH
    Parts <- {"rows"} \union Files,
    inside <- {o \in Requests : pc[o] = "working"},
    books <- [x \in {"rows"} \union Files |-> IF x = "rows" THEN db ELSE Settled(x)]

\* The restore with its crashes and recoveries implements the promise: for the
\* admitted operations the company changes hands once, when COMMIT does.
ImplementsPromise == Promise!Spec

\* A restore in doubt is settled: maintenance that closed over a recorded intent
\* reopens, unless a record was torn by a second death or a file was changed by
\* hand meanwhile.
Blocked == ~ Legible \/ lock = Torn \/ \E f \in Files : file[f] = Hand

InDoubtEnds == InDoubt ~> (~ InDoubt \/ Blocked)

\* A restore refused before its intent was recorded does not keep the
\* application closed (restoreCompanyBackupCoordinated takes its marker back).
RefusedReopens ==
    \A r \in Restores : pc[r] = "undoing" ~> (marker # r \/ pc[r] = "dead")
=============================================================================
