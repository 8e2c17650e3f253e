--------------------------- MODULE AccountAccessProps --------------------------
(* What must hold of the accounts of an installation.                      *)
EXTENDS AccountAccess

States == {"none", "live", "dead", "spent"}

\* What a call keeps, by where it stands.
Places ==
    [at: {"idle", "done", "preparing", "closing", "restoring", "discarding"}]
    \union [at: {"proving", "serialising"}, email: Emails, code: Nat]
    \union [at: {"confirming"}, email: Emails, code: Nat, found: Accounts, first: BOOLEAN]
    \union [at: {"changing"}, target: Emails, change: Changes]
    \union [at: {"naming", "listing"}, actor: Emails, target: Emails]
    \union [at: {"waiting"}, actor: Emails, target: Emails, listed: SUBSET Emails]
    \union [at: {"checking"}, actor: Emails, target: Emails, listed: SUBSET Emails,
            locked: SUBSET Emails]
    \union [at: {"removing"}, target: Emails, listed: SUBSET Emails, locked: SUBSET Emails,
            remaining: SUBSET Emails]

\* Accounts, requests and companies are of their kinds; codes are those mailed;
\* the installation is closed by a call.
TypeOK ==
    /\ user \in [Emails -> Accounts]
    /\ request \in [Emails -> [code: 0 .. issued, state: States]]
    /\ grants \subseteq Emails
    /\ issued \in 0 .. MaxCodes
    /\ companies \subseteq Emails \union Archived
    /\ marker \in Calls \union {Open}
    /\ calls \in [Calls -> Places]

-----------------------------------------------------------------------------
\* Of the registrations that are confirmed, at the same time or after others,
\* one at most becomes the first administrator: none when anybody is established
\* who does not owe it to a restore that ran meanwhile (finalizeRegistration
\* counts under the lock of the first confirmed registration).
OfRestore(e) == user[e].from \in {"archive", "invite"}

FirstAdminIsAlone ==
    [][\A c \in Calls :
          At(c, "confirming") /\ calls'[c] = Done /\ calls[c].first /\ user' # user
             => \A e \in Established : OfRestore(e)]_vars

\* A deletion leaves an administrator to the companies there are, though two
\* administrators delete each other, or roles change while it waits: those it
\* locked stay as they are until it ends.  It may go wrong only by those it
\* counted and had not locked, as they became administrators after it looked, or
\* by a company that came after it looked (DELETE of api/admin/users:
\* "concurrent deletions must not both count the other account").
LastAdminKept ==
    [][\A c \in Calls :
          (/\ At(c, "removing") /\ calls'[c] = Done /\ user' # user /\ companies # {}
           /\ user[calls[c].target].role = "super_admin"
           /\ calls[c].remaining \intersect calls[c].locked # {})
             => Admins' # {}]_vars

\* An account comes into being by the code of a request that stands: neither a
\* code sent before the account was deleted nor one that was replaced by another
\* brings it back, whatever ran while the confirmation was under way.
AccountsComeFromStandingRequests ==
    [][\A c \in Calls :
          At(c, "confirming") /\ calls'[c] = Done /\ user' # user
             => /\ request[calls[c].email].code = calls[c].code
                /\ request[calls[c].email].state # "spent"]_vars

\* A restored archive is not discarded by a first installation that failed: it
\* removes by the archive's ids, which are those of any other attempt, but the
\* restore waited for every attempt to end (discardBootstrapShell: "never
\* tenant data").
RestoredIsNotDiscarded ==
    [][\A c \in Calls :
          At(c, "discarding") /\ calls'[c] = Done /\ "restored" \in companies
             => "restored" \in companies']_vars
===============================================================================
