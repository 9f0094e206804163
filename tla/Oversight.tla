------------------------------ MODULE Oversight ------------------------------
(***************************************************************************)
(* Identity checks and moderation: landlords and agents submit documents   *)
(* (app/routers/users.py, app/services/kyc_service.py), NIRA officers      *)
(* decide and suspend (app/services/government_service.py), system         *)
(* administrators review, disconnect and delete                            *)
(* (app/services/workspace_service.py, app/routers/workspace.py).          *)
(*                                                                         *)
(* With the accounts and the portal these are all the writers of the users *)
(* table, composed here.                                                   *)
(***************************************************************************)
EXTENDS GovPortal

\* The tables are finite, and their ids numbers.
ASSUME UserAssumption == Users \subseteq Nat /\ IsFiniteSet(Users)

CONSTANT QueueLimit   \* the most accounts on a page of the queue, 200 in the code

ASSUME QueueAssumption == QueueLimit \in Nat

VARIABLE docs     \* the version of a user's complete set of images, or 0

vars == <<requests, accounts, invitation, docs>>

Init == RequestsInit /\ AccountsInit /\ PortalInit /\ docs = [u \in Users |-> 0]

TypeOK == AccountsTypeOK /\ PortalTypeOK /\ docs \in [Users -> Draw]

-----------------------------------------------------------------------------
(* Documents.  The manifest is the hash of the images on disk when it is   *)
(* made.                                                                   *)

Moderated(u) == Live(u) /\ user[u].role \in {"landlord", "staff"}

Acting(u) == Live(u) /\ user[u].active

Submitted(u) == [kyc |-> "pending", manifest |-> docs[u]]

\* upload_kyc_documents replaces the images, then submits them.
UploadKyc(w, u) ==
    /\ Ready(w, "upload_kyc")
    /\ Acting(u) /\ Moderated(u)
    /\ Drawn
    /\ docs' = [docs EXCEPT ![u] = New]
    /\ Goto(w, "anchor", [Session EXCEPT !.set = One(u, <<>>)])
    /\ UNCHANGED <<user, given, spent, lapsed, log, invitation>>

\* The first image is replaced and the second refused.
UploadRefused(u) ==
    /\ Uses("upload_refused")
    /\ Acting(u) /\ Moderated(u)
    /\ docs[u] # 0
    /\ Drawn
    /\ docs' = [docs EXCEPT ![u] = New]
    /\ UNCHANGED <<user, given, spent, lapsed, log, invitation, requests>>

AnchorUpload(w) ==
    /\ pc[w] = "anchor"
    /\ Assign(w, Owner(w), Submitted(Owner(w)), <<>>, {}, "idle")
    /\ UNCHANGED <<accounts, invitation, docs>>

KycSubmit(w, u) ==
    /\ Ready(w, "kyc_submit")
    /\ Acting(u) /\ Moderated(u)
    /\ docs[u] # 0
    /\ Assign(w, u, Submitted(u), <<>>, {}, "idle")
    /\ UNCHANGED <<accounts, invitation, docs>>

-----------------------------------------------------------------------------
(* reconcile_user_kyc_submission, from GET /users/me and from the queue.   *)

\* Whoever has all images and no approval; the row may be right already.
Reconcilable(u) == Moderated(u) /\ user[u].kyc # "approved" /\ docs[u] # 0

\* A row whose manifest has no blob, as when Walrus was down, is anchored.
Reconciled(u, anchored) ==
    IF anchored \/ user[u].manifest = 0 THEN Submitted(u) ELSE [kyc |-> "pending"]

GetMe(w, u, anchored) ==
    /\ Ready(w, "get_me")
    /\ Acting(u)
    /\ Reconcilable(u)
    /\ Assign(w, u, Reconciled(u, anchored), <<>>, {}, "idle")
    /\ UNCHANGED <<accounts, invitation, docs>>

Commerce == {u \in Users : Live(u) /\ user[u].role \in SelfService}
Reviewed(S, status) == {u \in S : user[u].kyc = status}

\* nira_queue without a status is of who was reviewed or asks to be.
Queued == Commerce \ Reviewed(Commerce, "none")

\* A query with a limit.  Which rows are cut depends on their dates, which are
\* not modelled, so any may be.
Cuts(S, n) ==
    {T \in SUBSET S : IF Cardinality(S) <= n THEN T = S ELSE Cardinality(T) = n}

\* nira_queue commits what it reconciles, then the certificates it issues.
NiraQueue(w, anchored) ==
    /\ Ready(w, "nira_queue")
    /\ Goto(w, "save",
            [Session EXCEPT
                !.set = [u \in {v \in Users : Reconcilable(v)} |->
                            Reconciled(u, anchored)],
                !.then = "queue"])
    /\ UNCHANGED <<accounts, invitation, docs>>

Uncertified(u) == user[u].kyc = "approved" /\ user[u].cert = 0

\* ensure_compliance_verify_token for each account of the page, which the
\* officer's status, search and limit choose.
QueueCertificates(w, page) ==
    LET todo == {u \in page : Uncertified(u)}
        token(u) == draws + Cardinality({v \in todo : v <= u})
        certs == [u \in todo |-> [cert |-> token(u)]] IN
    /\ pc[w] = "queue"
    /\ Cardinality(page) <= QueueLimit
    /\ draws + Cardinality(todo) <= load.draws
    /\ draws' = draws + Cardinality(todo)
    /\ Goto(w, "save", [Session EXCEPT !.set = certs])
    /\ UNCHANGED <<user, given, spent, lapsed, log, invitation, docs>>

-----------------------------------------------------------------------------
(* Decisions.  A decision, its audit entry and its certificate are one     *)
(* commit (nira_decide).                                                   *)

\* Mutant: the entry is not part of the commit.
DecideUnlogged(w, u, set, entry) ==
    Goto(w, "save", [Session EXCEPT !.set = One(u, set)])

Decide(w, u, set, entry) ==
    Goto(w, "save", [Session EXCEPT !.set = One(u, set), !.log = {<<u, entry>>}])

\* Mutant: every approval prints a new address.
CertificateAnew(u) == New

\* ensure_compliance_verify_token.
CertificateOf(u) == IF user[u].cert = 0 THEN New ELSE user[u].cert

NiraApprove(w, u) ==
    LET cert == CertificateOf(u) IN
    /\ Ready(w, "nira_decide")
    /\ Live(u)
    /\ cert <= load.draws
    /\ draws' = IF cert = New THEN New ELSE draws
    /\ Decide(w, u, [kyc |-> "approved", trusted |-> Moderated(u),
                     manifest |-> docs[u], cert |-> cert], "nira_approved")
    /\ UNCHANGED <<user, given, spent, lapsed, invitation, docs, log>>

\* Mutant: the rejected keep what trust they have.
RejectedTrusted(u) == [kyc |-> "rejected", manifest |-> docs[u]]

Rejected(u) == [kyc |-> "rejected", trusted |-> FALSE, manifest |-> docs[u]]

NiraReject(w, u) ==
    /\ Ready(w, "nira_decide")
    /\ Live(u)
    /\ Decide(w, u, Rejected(u), "nira_rejected")
    /\ UNCHANGED <<accounts, invitation, docs>>

\* admin_kyc_review.
AdminReview(w, u, approved) ==
    /\ Ready(w, "admin_kyc_review")
    /\ Moderated(u)
    /\ Assign(w, u, [kyc |-> IF approved THEN "approved" ELSE "rejected",
                     trusted |-> approved], <<>>, {}, "idle")
    /\ UNCHANGED <<accounts, invitation, docs>>

-----------------------------------------------------------------------------
(* Suspension and disconnection.                                           *)

NiraSuspend(w, u) ==
    /\ Ready(w, "nira_suspend")
    /\ Live(u) /\ user[u].role \in SelfService
    /\ Decide(w, u, [suspended |-> TRUE, active |-> FALSE, trusted |-> FALSE],
              "nira_blacklist")
    /\ UNCHANGED <<accounts, invitation, docs>>

NiraUnsuspend(w, u) ==
    /\ Ready(w, "nira_suspend")
    /\ Live(u)
    /\ Decide(w, u, [suspended |-> FALSE, active |-> TRUE], "nira_unsuspend")
    /\ UNCHANGED <<accounts, invitation, docs>>

Admins == {u \in Users : Live(u) /\ user[u].role = "system_admin"}
ActiveAdmins == {u \in Admins : user[u].active}

Disconnect(w, actor, u) ==
    /\ Ready(w, "admin_account")
    /\ actor \in ActiveAdmins \ {u}
    /\ Acting(u)
    /\ u \in Admins => Cardinality(ActiveAdmins) > 1
    /\ Assign(w, u, [active |-> FALSE, refresh |-> 0, trusted |-> FALSE],
              <<>>, {}, "audit_disconnect")
    /\ UNCHANGED <<accounts, invitation, docs>>

ReconnectedRow == [active |-> TRUE, suspended |-> FALSE]

Reconnect(w, actor, u) ==
    /\ Ready(w, "admin_account")
    /\ actor \in ActiveAdmins \ {u}
    /\ Live(u) /\ ~user[u].active
    /\ Assign(w, u, ReconnectedRow, <<>>, {}, "audit_reconnect")
    /\ UNCHANGED <<accounts, invitation, docs>>

\* log_action is a commit of its own.
AuditAccount(w) ==
    /\ \/ pc[w] = "audit_disconnect" /\ Logged(Owner(w), "admin_disconnect_user")
       \/ pc[w] = "audit_reconnect" /\ Logged(Owner(w), "admin_reconnect_user")
    /\ Respond(w)
    /\ UNCHANGED docs

MayDelete(actor, u) ==
    /\ actor \in ActiveAdmins \ {u}
    /\ Live(u)
    /\ u \in Admins => Cardinality(Admins) > 1

DeleteUser(w, actor, u) ==
    /\ Ready(w, "admin_delete_user")
    /\ MayDelete(actor, u)
    /\ Goto(w, "delete_links", [Session EXCEPT !.set = One(u, <<>>)])
    /\ UNCHANGED <<accounts, invitation, docs>>

\* log_action commits what has been removed so far: the invitations and, of
\* log, what gov_login_sessions alone has.
DeleteLinks(w) ==
    LET u == Owner(w) IN
    /\ pc[w] = "delete_links"
    /\ invitation' = [i \in Invitations |->
                         IF /\ invitation[i].status # "absent"
                            /\ invitation[i].email = EmailOf[u]
                         THEN [invitation[i] EXCEPT !.status = "deleted"]
                         ELSE invitation[i]]
    /\ log' = (log \ {<<u, "gov_login_refused">>}) \cup {<<u, "admin_delete_user">>}
    /\ Goto(w, "delete_row", job[w])
    /\ UNCHANGED <<user, given, spent, draws, lapsed, docs>>

\* The row goes, or a foreign key keeps it.
DeleteRow(w, kept) ==
    LET u == Owner(w) IN
    /\ pc[w] = "delete_row"
    /\ IF kept \/ ~Live(u) THEN UNCHANGED user
       ELSE user' = [user EXCEPT ![u].row = "deleted"]
    /\ Respond(w)
    /\ UNCHANGED <<given, spent, draws, lapsed, log, invitation, docs>>

\* update_me with a role.
UpdateRole(w, u, role) ==
    /\ Ready(w, "update_me")
    /\ Acting(u)
    /\ Assign(w, u, [role |-> role], <<>>, {}, "idle")
    /\ UNCHANGED <<accounts, invitation, docs>>

-----------------------------------------------------------------------------

OversightNext ==
    \/ \E w \in Workers, u \in Users :
          \/ UploadKyc(w, u) \/ KycSubmit(w, u)
          \/ \E anchored \in BOOLEAN : GetMe(w, u, anchored)
          \/ NiraApprove(w, u) \/ NiraReject(w, u)
          \/ \E approved \in BOOLEAN : AdminReview(w, u, approved)
          \/ NiraSuspend(w, u) \/ NiraUnsuspend(w, u)
          \/ \E role \in SelfService : UpdateRole(w, u, role)
          \/ \E actor \in Users :
                Disconnect(w, actor, u) \/ Reconnect(w, actor, u) \/ DeleteUser(w, actor, u)
    \/ \E w \in Workers :
          \/ \E anchored \in BOOLEAN : NiraQueue(w, anchored)
          \/ \E page \in SUBSET Queued : QueueCertificates(w, page)
          \/ AnchorUpload(w) \/ AuditAccount(w)
          \/ DeleteLinks(w)
          \/ \E kept \in BOOLEAN : DeleteRow(w, kept)
    \/ \E u \in Users : UploadRefused(u)

Next == OversightNext \/ (PortalNext /\ UNCHANGED docs)

Spec == Init /\ [][Next]_vars

-----------------------------------------------------------------------------
(* What holds however requests overlap and wherever they die.              *)

\* What officers and administrators do to an account for good is on record
\* even when the request dies: there is no suspension and no deletion without
\* its entry (_log_gov_action, admin_delete_user).
SanctionsAreLogged ==
    \A u \in Users :
        /\ user[u].suspended => <<u, "nira_blacklist">> \in log
        /\ user[u].row = "deleted" => <<u, "admin_delete_user">> \in log

-----------------------------------------------------------------------------
(* What holds when requests do not overlap.                                *)

\* An officer has approved the account; so has the seed script, and
\* administrators, who leave no entry.
Endorsed(u) ==
    \/ <<u, "nira_approved">> \in log
    \/ u \in DOMAIN load.seeds
    \/ Uses("admin_kyc_review")

\* A landlord or agent is trusted to publish only after an approval, and not
\* after a rejection: one who submits documents anew, and so waits again, keeps
\* the trust of the approval before ("landlords/agents await KYC + admin",
\* routers/auth.py).  It is not so where accounts change their role.
TrustFollowsReview ==
    ~load.overlap /\ ~Uses("update_me") =>
        \A u \in Users : Moderated(u) /\ user[u].trusted =>
            user[u].kyc \in {"pending", "approved"} /\ Endorsed(u)

\* A suspended account is not active, so every check of either flag keeps it
\* out: lifting one lifts both (nira_unsuspend_user, reconnect).
SuspendedStayOut ==
    ~load.overlap => \A u \in Users : user[u].suspended => ~user[u].active

\* An account an administrator has disconnected has no session left and gets
\* none ("deactivate + revoke sessions"), unless it is half way through the
\* authenticator, which does not ask whether the account is active.
DisconnectEndsSessions ==
    ~load.overlap /\ ~Uses("verify_totp") =>
        \A u \in Users : ~user[u].active /\ ~user[u].suspended => user[u].refresh = 0

\* The manifest of an account under review or approved is that of the images
\* on disk, unless an upload is cut short (upload_kyc_documents).
ManifestIsOfTheDocuments ==
    ~load.overlap /\ ~load.fails /\ ~Uses("upload_refused") =>
        \A u \in Users :
            /\ docs[u] # 0
            /\ \A w \in Workers : ~Busy(w)
            => user[u].kyc = "none" \/ user[u].manifest = docs[u]

\* The verification address of a certificate, which is printed and scanned,
\* never changes while the account is there (ensure_compliance_verify_token).
CertificatesKeepTheirAddress ==
    [][~load.overlap => \A u \in Users :
          Live(u) /\ Live(u)' /\ user[u].cert # 0 => user'[u].cert = user[u].cert]_vars

\* There is always an administrator who can act, unless one gives up the role
\* ("Cannot disconnect the last active system administrator").
AnAdministratorRemains ==
    ~load.overlap /\ ~Uses("update_me")
    /\ (\E u \in DOMAIN load.seeds : load.seeds[u] = "system_admin")
        => ActiveAdmins # {}

\* Suspensions and deletions are on record whatever dies, and keep an account
\* out by both of its flags (nira_decide, nira_suspend_user, reconnect).
SanctionsHold == SanctionsAreLogged /\ SuspendedStayOut

\* Disconnecting an account ends its sessions, and always leaves an
\* administrator (disconnect, admin_delete_user, refresh_token).
DisconnectionsHold == DisconnectEndsSessions /\ AnAdministratorRemains

\* The documents that were hashed are those on disk, and a certificate keeps
\* the address they are verified at (upload_kyc_documents,
\* ensure_compliance_verify_token).
DocumentsAreKept == []ManifestIsOfTheDocuments /\ CertificatesKeepTheirAddress
=============================================================================
