------------------------------ MODULE GovPortal ------------------------------
(***************************************************************************)
(* The government portal (app/services/government_invitation_service.py):  *)
(* invitations that become officer accounts, the portal's own sign-in, and *)
(* the code it mails as a second factor.                                   *)
(***************************************************************************)
EXTENDS Accounts

CONSTANTS
    Invitations,  \* ids of government_invitations rows
    Addresses     \* e-mail addresses officers are invited at

ASSUME AddressAssumption == Addresses # {} /\ \A u \in Users : EmailOf[u] \in Addresses

VARIABLES
    invitation    \* government_invitations rows

-----------------------------------------------------------------------------

\* The draw of the token also dates the invitation.  No code ever sets "revoked".
Invitation == [status : {"absent", "pending", "accepted", "expired", "deleted"},
               email : Addresses, token : Draw]

PortalInit ==
    /\ invitation = [i \in Invitations |->
                        [status |-> "absent", email |-> CHOOSE a \in Addresses : TRUE,
                         token |-> 0]]

PortalTypeOK ==
    /\ invitation \in [Invitations -> Invitation]

-----------------------------------------------------------------------------
(* Invitations.                                                            *)

Pending(i) == invitation[i].status = "pending"
PastDate(i) == ~Valid(invitation[i].token)

Registered(a) == \E u \in Users : Live(u) /\ EmailOf[u] = a

\* Whether it is past its date or not.
Invited(a) == \E i \in Invitations : Pending(i) /\ invitation[i].email = a

CreateInvitation(w, i, a) ==
    /\ Ready(w, "create_invitation")
    /\ invitation[i].status = "absent"
    /\ \A v \in Workers : pc[v] = "invite" => job[v].invitation # i
    /\ ~Registered(a)
    /\ ~Invited(a)
    /\ Drawn
    /\ Goto(w, "invite", [invitation |-> i, email |-> a, token |-> New, set |-> <<>>])
    /\ UNCHANGED <<user, given, spent, lapsed, log, invitation>>

InsertInvitation(w) ==
    LET j == job[w] IN
    /\ pc[w] = "invite"
    /\ invitation' = [invitation EXCEPT
                         ![j.invitation] = [status |-> "pending", email |-> j.email,
                                            token |-> j.token]]
    /\ Respond(w)
    /\ UNCHANGED accounts

\* resend_invitation_email, verify_invitation_token and the start of
\* accept_invitation mark a pending invitation that is past its date.
FindExpired(w, i) ==
    /\ Ready(w, "look_at_invitation")
    /\ Pending(i)
    /\ PastDate(i)
    /\ Goto(w, "expire", [invitation |-> i, set |-> <<>>])
    /\ UNCHANGED <<accounts, invitation>>

\* Mutant: an invitation past its date is only refused.
ExpireNever(w) ==
    /\ pc[w] = "expire"
    /\ Respond(w)
    /\ UNCHANGED <<accounts, invitation>>

Expire(w) ==
    LET i == job[w].invitation IN
    /\ pc[w] = "expire"
    /\ IF invitation[i].status = "deleted" THEN UNCHANGED invitation
       ELSE invitation' = [invitation EXCEPT ![i].status = "expired"]
    /\ Respond(w)
    /\ UNCHANGED accounts

Acceptable(i) == Pending(i) /\ ~PastDate(i)

AcceptInvitation(w, i, u) ==
    /\ Ready(w, "accept_invitation")
    /\ Acceptable(i)
    /\ EmailOf[u] = invitation[i].email
    /\ Unclaimed(u)
    /\ ~EmailTaken(u)
    /\ Goto(w, "accept", [invitation |-> i, set |-> One(u, <<>>)])
    /\ UNCHANGED <<accounts, invitation>>

\* Mutant: the row takes the name of the agency, which is no role.
OfficerAgency(role) ==
    [Absent EXCEPT !.row = "live", !.role = "nira", !.verified = TRUE]

Officer(role) ==
    [Absent EXCEPT !.row = "live", !.role = role, !.verified = TRUE]

\* The account and the invitation in one commit.
Accept(w) ==
    LET i == job[w].invitation IN
    /\ pc[w] = "accept"
    /\ IF EmailTaken(Owner(w)) \/ invitation[i].status = "deleted"
       THEN UNCHANGED <<user, invitation>>
       ELSE /\ user' = [user EXCEPT ![Owner(w)] = Officer("gov_nira")]
            /\ invitation' = [invitation EXCEPT ![i].status = "accepted"]
    /\ Respond(w)
    /\ UNCHANGED <<given, spent, draws, lapsed, log>>

-----------------------------------------------------------------------------
(* Sign-in at the portal: the tokens, then the code, then the attempt are  *)
(* three commits.                                                          *)

PortalUser(u) == Live(u) /\ user[u].role \in Officers

Logged(u, action) ==
    /\ log' = log \cup {<<u, action>>}
    /\ UNCHANGED <<user, given, spent, draws, lapsed, invitation>>

PortalRefused(w, u) ==
    /\ Ready(w, "portal_login")
    /\ Live(u)
    /\ ~PortalUser(u) \/ user[u].suspended
    /\ Logged(u, "gov_login_refused")
    /\ UNCHANGED requests

PortalLogin(w, u) ==
    /\ Ready(w, "portal_login")
    /\ PortalUser(u)
    /\ ~user[u].suspended
    /\ user[u].active
    /\ Drawn
    /\ Assign(w, u, [refresh |-> New], <<>>, {}, "mail_otp")
    /\ UNCHANGED <<user, given, spent, lapsed, log, invitation>>

MailOtp(w) ==
    LET u == Owner(w) IN
    /\ pc[w] = "mail_otp"
    /\ Drawn
    /\ Assign(w, u, NewCode(u, "otp"), [otp |-> New], {}, "attempt")
    /\ UNCHANGED <<user, given, spent, lapsed, log, invitation>>

Attempt(w) ==
    /\ pc[w] = "attempt"
    /\ Logged(Owner(w), "gov_login")
    /\ Respond(w)

\* Administrators may ask for a code and give one, though they sign in elsewhere.
CodeUser(u) == Live(u) /\ user[u].active /\ user[u].role \in Officers \cup {"system_admin"}

ResendOtp(w, u) ==
    /\ Ready(w, "resend_2fa")
    /\ CodeUser(u)
    /\ MailCode(w, u, "otp")
    /\ UNCHANGED invitation

OtpAccepted(u) == user[u].otp # 0 /\ Valid(user[u].otp)

VerifyOtp(w, u) ==
    /\ Ready(w, "verify_2fa")
    /\ CodeUser(u)
    /\ OtpAccepted(u)
    /\ Assign(w, u, [otp |-> 0], <<>>, {user[u].otp}, "audit_2fa")
    /\ UNCHANGED <<accounts, invitation>>

Audit2fa(w) ==
    /\ pc[w] = "audit_2fa"
    /\ Logged(Owner(w), "gov_2fa_verified")
    /\ Respond(w)

\* An entry under five minutes old; how old one is is left open here.
Repeatable(u) == user[u].otp = 0 /\ <<u, "gov_2fa_verified">> \in log

\* A second request after the first has cleared the code: whatever six digits
\* it brings, it is answered yes, and writes nothing.
RepeatOtp(w, u) ==
    /\ Ready(w, "verify_2fa")
    /\ CodeUser(u)
    /\ Repeatable(u)
    /\ Goto(w, "repeat_2fa", [Session EXCEPT !.set = One(u, <<>>)])
    /\ UNCHANGED <<accounts, invitation>>

AnswerRepeat(w) ==
    /\ pc[w] = "repeat_2fa"
    /\ Respond(w)
    /\ UNCHANGED <<accounts, invitation>>

PortalNext ==
    \/ \E w \in Workers, i \in Invitations :
          \/ \E a \in Addresses : CreateInvitation(w, i, a)
          \/ FindExpired(w, i)
          \/ \E u \in Users : AcceptInvitation(w, i, u)
    \/ \E w \in Workers, u \in Users :
          \/ PortalRefused(w, u) \/ PortalLogin(w, u)
          \/ ResendOtp(w, u) \/ VerifyOtp(w, u) \/ RepeatOtp(w, u)
    \/ \E w \in Workers :
          \/ InsertInvitation(w) \/ Expire(w) \/ Accept(w)
          \/ MailOtp(w) \/ Attempt(w) \/ Audit2fa(w) \/ AnswerRepeat(w)
    \/ AccountsNext /\ UNCHANGED invitation

-----------------------------------------------------------------------------

\* An invitation that was accepted has an officer's account at its address,
\* and only one, whoever else signs up there or follows the link twice; it
\* goes when the account goes (accept_invitation, admin_delete_user).  Where
\* accounts change their role, an officer may give up his (update_me).
AcceptedInvitationsHaveOfficers ==
    \A i \in Invitations : invitation[i].status = "accepted" =>
        LET holders == {u \in Users : Live(u) /\ EmailOf[u] = invitation[i].email} IN
        /\ Cardinality(holders) = 1
        /\ ~Uses("update_me") => \E u \in holders : PortalUser(u)

\* When requests do not overlap, one invitation at a time is out to an
\* address, and an expired one does not stand in the way of the next: it is
\* either seen to be past its date, or still pending and alone.
OnePendingInvitation ==
    ~load.overlap =>
        \A i, k \in Invitations :
            Pending(i) /\ Pending(k) /\ invitation[i].email = invitation[k].email
                => i = k

\* The portal says yes to a request that finds no code on the row only for an
\* account whose own code was accepted before, by a request that lived to log
\* it (verify_government_2fa, log_action).
RepeatsFollowACode ==
    \A w \in Workers : pc[w] = "repeat_2fa" => <<Owner(w), "gov_2fa_verified">> \in log

\* A code is taken off its row when it is accepted, and the portal's second
\* yes without one is to an account that had one accepted; until then the code
\* mailed last is on the row, and no account asks for codes of a secret its
\* owner has not shown to know (Requests, verify_email, reset_password,
\* verify_government_2fa, totp_enable).
CodesWorkOnce ==
    /\ SpentCodesAreGone
    /\ RepeatsFollowACode
    /\ MailedCodesWork
    /\ EnabledSecretIsConfirmed

\* An accepted invitation is one officer's account, and one invitation at a
\* time is out to an address (create_invitation, accept_invitation).
InvitationsMakeOfficers == AcceptedInvitationsHaveOfficers /\ OnePendingInvitation
=============================================================================
