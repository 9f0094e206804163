------------------------------ MODULE Accounts ------------------------------
(***************************************************************************)
(* Accounts and sessions (app/routers/auth.py, app/routers/users.py,       *)
(* app/services/auth_service.py): sign-up and its mailed codes, sign-in,   *)
(* refresh tokens, password reset and the authenticator second factor,     *)
(* each an update of one users row by a request that read it before.       *)
(*                                                                         *)
(* Codes, tokens and secrets are drawn at random; here each draw is the    *)
(* next number, and 0 is none.  What lasts a number of minutes lapses in   *)
(* the order it was drawn.                                                 *)
(***************************************************************************)
EXTENDS Requests

CONSTANTS
    Users,        \* ids of users rows
    EmailOf,      \* users.email of each
    MaxDraws      \* bound: random values drawn; a workload may set a lower one

ASSUME DrawsAssumption == MaxDraws \in Nat

VARIABLES
    user,         \* users rows
    given,        \* what each user was last mailed, shown or handed
    spent,        \* one-time codes a finished request has accepted
    draws,        \* the last random value drawn
    lapsed,       \* values up to this one are past their expiry
    log           \* audit_logs and gov_login_sessions: what was done to whom

accounts == <<user, given, spent, draws, lapsed, log>>

-----------------------------------------------------------------------------

SelfService == {"tenant", "landlord", "staff"}
Officers == {"gov_nira", "gov_kcca", "gov_ura"}
Roles == SelfService \cup Officers \cup {"system_admin"}
Reviews == {"none", "pending", "approved", "rejected"}
Draw == 0 .. MaxDraws
LogActions == {"gov_login", "gov_login_refused", "gov_2fa_verified",
               "nira_approved", "nira_rejected", "nira_blacklist",
               "nira_unsuspend", "admin_disconnect_user",
               "admin_reconnect_user", "admin_delete_user"}

\* The seed script makes one account of an address.
ASSUME SeedAssumption ==
    \A l \in Workloads :
        /\ l.draws \in 0 .. MaxDraws
        /\ DOMAIN l.seeds \subseteq Users
        /\ \A u \in DOMAIN l.seeds : l.seeds[u] \in Roles
        /\ \A u, v \in DOMAIN l.seeds : EmailOf[u] = EmailOf[v] => u = v

\* verify, reset and otp are the stored codes of sign-up, password reset and
\* the government portal; secret and totp those of the authenticator.
Row == [row : {"absent", "live", "deleted"}, role : Roles, active : BOOLEAN,
        verified : BOOLEAN, trusted : BOOLEAN, kyc : Reviews,
        suspended : BOOLEAN, verify : Draw, reset : Draw, otp : Draw,
        refresh : Draw, secret : Draw, totp : BOOLEAN, cert : Draw,
        manifest : Draw]

\* pending is a sign-in waiting for its authenticator code; confirmed the
\* secret a code was last accepted for when it was enabled.
Given == [verify : Draw, reset : Draw, otp : Draw, secret : Draw,
          confirmed : Draw, pending : Draw]

Absent == [row |-> "absent", role |-> "tenant", active |-> TRUE,
           verified |-> FALSE, trusted |-> FALSE, kyc |-> "none",
           suspended |-> FALSE, verify |-> 0, reset |-> 0, otp |-> 0,
           refresh |-> 0, secret |-> 0, totp |-> FALSE, cert |-> 0,
           manifest |-> 0]

Nothing == [verify |-> 0, reset |-> 0, otp |-> 0, secret |-> 0,
            confirmed |-> 0, pending |-> 0]

\* An account of the seed script.
Seeded(role) ==
    [Absent EXCEPT !.row = "live", !.role = role, !.verified = TRUE,
                   !.trusted = role \notin Officers, !.kyc = "approved"]

AccountsInit ==
    /\ user = [u \in Users |-> IF u \in DOMAIN load.seeds
                               THEN Seeded(load.seeds[u]) ELSE Absent]
    /\ given = [u \in Users |-> Nothing]
    /\ spent = {}
    /\ draws = 0
    /\ lapsed = 0
    /\ log = {}

AccountsTypeOK ==
    /\ user \in [Users -> Row]
    /\ given \in [Users -> Given]
    /\ spent \subseteq Draw
    /\ draws \in Draw
    /\ lapsed \in 0 .. draws
    /\ log \subseteq Users \X LogActions

-----------------------------------------------------------------------------

Live(u) == user[u].row = "live"
EmailTaken(u) == \E v \in Users : Live(v) /\ EmailOf[v] = EmailOf[u]
Valid(code) == code > lapsed

New == draws + 1

Drawn == draws < load.draws /\ draws' = New

\* A session that has read the table: set holds the assignments per row, hand
\* what the response or the mail will tell, spend the codes it accepts, log
\* the entries it adds, and then is the phase after the commit.
Session == [set |-> <<>>, seen |-> user, hand |-> <<>>, spend |-> {},
            log |-> {}, then |-> "idle"]

One(u, r) == [v \in {u} |-> r]

\* The request goes on to its commit with row u assigned.
Assign(w, u, set, hand, spend, then) ==
    Goto(w, "save", [Session EXCEPT !.set = One(u, set), !.hand = One(u, hand),
                                    !.spend = spend, !.then = then])

Saved(j) ==
    [u \in Users |-> IF u \in DOMAIN j.set
                     THEN Written(user[u], j.seen[u], j.set[u]) ELSE user[u]]

Told(j) ==
    [u \in Users |-> IF u \in DOMAIN j.hand
                     THEN Overlay(given[u], j.hand[u]) ELSE given[u]]

Proceed(w, j) ==
    IF j.then = "idle" THEN Respond(w) ELSE Goto(w, j.then, j)

\* The commit of an update; it fails when a row is gone.
Save(w) ==
    LET j == job[w] IN
    /\ pc[w] = "save"
    /\ IF \A u \in DOMAIN j.set : Live(u)
       THEN /\ user' = Saved(j)
            /\ given' = Told(j)
            /\ spent' = spent \cup j.spend
            /\ log' = log \cup j.log
            /\ Proceed(w, j)
       ELSE Respond(w) /\ UNCHANGED <<user, given, spent, log>>
    /\ UNCHANGED <<draws, lapsed>>

-----------------------------------------------------------------------------
(* Sign-up.                                                                *)

Unclaimed(u) ==
    /\ user[u].row = "absent"
    /\ \A w \in Workers : Busy(w) => u \notin DOMAIN job[w].set

\* register, and the new account of privy_sign_in, which goes on.
SignUp(w, u, role, handler, then) ==
    /\ Ready(w, handler)
    /\ Unclaimed(u)
    /\ ~EmailTaken(u)
    /\ Drawn
    /\ Goto(w, "insert",
            [Session EXCEPT
                !.set = One(u, [Absent EXCEPT !.row = "live", !.role = role,
                                              !.verify = New]),
                !.hand = One(u, [verify |-> New]),
                !.then = then])
    /\ UNCHANGED <<user, given, spent, lapsed, log>>

Register(w, u, role) == SignUp(w, u, role, "register", "idle")

\* Mutant: users.email is not unique.
InsertAny(w) ==
    LET j == job[w] IN
    /\ pc[w] = "insert"
    /\ user' = [u \in Users |-> IF u \in DOMAIN j.set THEN j.set[u] ELSE user[u]]
    /\ given' = Told(j)
    /\ Proceed(w, j)
    /\ UNCHANGED <<spent, draws, lapsed, log>>

\* users.email is unique: an insert that comes second fails.
Insert(w) ==
    LET j == job[w] IN
    /\ pc[w] = "insert"
    /\ IF \E u \in DOMAIN j.set : EmailTaken(u)
       THEN Respond(w) /\ UNCHANGED <<user, given>>
       ELSE /\ user' = [u \in Users |-> IF u \in DOMAIN j.set THEN j.set[u]
                                        ELSE user[u]]
            /\ given' = Told(j)
            /\ Proceed(w, j)
    /\ UNCHANGED <<spent, draws, lapsed, log>>

NewCode(u, field) == [f \in {field} |-> New]

\* A new code is stored and mailed: resend_verification, forgot_password.
MailCode(w, u, field) ==
    /\ Live(u)
    /\ Drawn
    /\ Assign(w, u, NewCode(u, field), [f \in {field} |-> New], {}, "idle")
    /\ UNCHANGED <<user, given, spent, lapsed, log>>

ResendVerification(w, u) ==
    /\ Ready(w, "resend_verification")
    /\ ~user[u].verified
    /\ MailCode(w, u, "verify")

\* _apply_trust_after_email_verify.
TrustOf(u) == user[u].role = "tenant" \/ user[u].trusted

\* Mutant: the codes stay.
VerifiedKept(u) == [verified |-> TRUE, trusted |-> TrustOf(u)]

VerifiedRow(u) == [verified |-> TRUE, verify |-> 0, trusted |-> TrustOf(u)]

VerifyEmail(w, u) ==
    /\ Ready(w, "verify_email")
    /\ Live(u)
    /\ ~user[u].verified
    /\ user[u].verify # 0
    /\ Valid(user[u].verify)
    /\ Assign(w, u, VerifiedRow(u), <<>>, {user[u].verify}, "idle")
    /\ UNCHANGED accounts

-----------------------------------------------------------------------------
(* Sign-in.                                                                *)

\* Mutant: a disabled account may sign in.
MaySignInDisabled(u) == Live(u) /\ user[u].role \notin Officers

MaySignIn(u) == Live(u) /\ user[u].active /\ user[u].role \notin Officers

\* create_tokens: the new refresh token replaces the stored one.
Tokens(w, u) ==
    /\ Drawn
    /\ Assign(w, u, [refresh |-> New], <<>>, {}, "idle")
    /\ UNCHANGED <<user, given, spent, lapsed, log>>

Login(w, u) ==
    /\ Ready(w, "login")
    /\ MaySignIn(u)
    /\ ~user[u].suspended
    /\ user[u].verified
    /\ ~(user[u].totp /\ user[u].secret # 0)
    /\ Tokens(w, u)

\* With the authenticator enabled, login only hands out a pending token.
LoginPending(w, u) ==
    /\ Ready(w, "login")
    /\ MaySignIn(u)
    /\ ~user[u].suspended
    /\ user[u].verified
    /\ user[u].totp /\ user[u].secret # 0
    /\ Drawn
    /\ given' = [given EXCEPT ![u].pending = New]
    /\ UNCHANGED <<user, spent, lapsed, log, requests>>

VerifyTotp(w, u) ==
    /\ Ready(w, "verify_totp")
    /\ Valid(given[u].pending)
    /\ Live(u)
    /\ user[u].totp /\ user[u].secret # 0
    /\ user[u].secret = given[u].secret
    /\ Tokens(w, u)

\* Whoever holds the stored token exchanges it for a new one.
Refresh(w, u) ==
    /\ Ready(w, "refresh")
    /\ Live(u)
    /\ user[u].active
    /\ user[u].refresh # 0
    /\ Valid(user[u].refresh)
    /\ Tokens(w, u)

Logout(w, u) ==
    /\ Ready(w, "logout")
    /\ Live(u)
    /\ user[u].active
    /\ user[u].refresh # 0
    /\ Assign(w, u, [refresh |-> 0], <<>>, {}, "idle")
    /\ UNCHANGED accounts

\* privy_sign_in and firebase_sign_in of an existing account.  Firebase may
\* not vouch for the address.
SocialSignIn(w, u, vouched) ==
    /\ Ready(w, "social_sign_in")
    /\ MaySignIn(u)
    /\ user[u].role # "system_admin"
    /\ Assign(w, u, IF vouched THEN [verified |-> TRUE, trusted |-> TrustOf(u)]
                    ELSE <<>>, <<>>, {}, "tokens")
    /\ UNCHANGED accounts

PrivySignUp(w, u, role) == SignUp(w, u, role, "social_sign_in", "privy_confirm")

Owner(w) == CHOOSE u \in DOMAIN job[w].set : TRUE

\* The second commit of a new Privy account.
PrivyConfirm(w) ==
    /\ pc[w] = "privy_confirm"
    /\ Assign(w, Owner(w), [verified |-> TRUE, trusted |-> TrustOf(Owner(w))],
              <<>>, {}, "tokens")
    /\ UNCHANGED accounts

SocialTokens(w) == pc[w] = "tokens" /\ Tokens(w, Owner(w))

-----------------------------------------------------------------------------
(* Passwords.                                                              *)

ForgotPassword(w, u) == Ready(w, "forgot_password") /\ MailCode(w, u, "reset")

\* set_password commits; clearing the code is a second commit.
ResetPassword(w, u) ==
    /\ Ready(w, "reset_password")
    /\ Live(u)
    /\ user[u].reset # 0
    /\ Valid(user[u].reset)
    /\ Goto(w, "clear_reset", [Session EXCEPT !.set = One(u, [reset |-> 0]),
                                              !.spend = {user[u].reset}])
    /\ UNCHANGED accounts

\* Mutant: the password is set and the code stays.
ClearResetNever(w) ==
    /\ pc[w] = "clear_reset"
    /\ spent' = spent \cup job[w].spend
    /\ Respond(w)
    /\ UNCHANGED <<user, given, draws, lapsed, log>>

\* The first commit has expired the row, so NULL is written whatever is there.
ClearReset(w) ==
    /\ pc[w] = "clear_reset"
    /\ IF Live(Owner(w))
       THEN /\ user' = [user EXCEPT ![Owner(w)].reset = 0]
            /\ spent' = spent \cup job[w].spend
       ELSE UNCHANGED <<user, spent>>
    /\ Respond(w)
    /\ UNCHANGED <<given, draws, lapsed, log>>

-----------------------------------------------------------------------------
(* The authenticator.                                                      *)

NewSecret(u) == [secret |-> New, totp |-> FALSE]

TotpSetup(w, u) ==
    /\ Ready(w, "totp_setup")
    /\ Live(u)
    /\ user[u].active
    /\ Drawn
    /\ Assign(w, u, NewSecret(u), [secret |-> New], {}, "idle")
    /\ UNCHANGED <<user, given, spent, lapsed, log>>

\* The code is one of the stored secret, which the user was shown last.
Knows(u) == user[u].secret # 0 /\ user[u].secret = given[u].secret

TotpEnable(w, u) ==
    /\ Ready(w, "totp_enable")
    /\ Live(u)
    /\ user[u].active
    /\ Knows(u)
    /\ Assign(w, u, [totp |-> TRUE], [confirmed |-> given[u].secret], {}, "idle")
    /\ UNCHANGED accounts

TotpDisable(w, u) ==
    /\ Ready(w, "totp_disable")
    /\ Live(u)
    /\ user[u].active
    /\ user[u].totp
    /\ Knows(u)
    /\ Assign(w, u, [totp |-> FALSE, secret |-> 0], <<>>, {}, "idle")
    /\ UNCHANGED accounts

-----------------------------------------------------------------------------

\* Time passes: a code, a pending sign-in or a refresh token expires.
Lapse ==
    /\ Uses("lapse")
    /\ lapsed < draws
    /\ lapsed' = lapsed + 1
    /\ UNCHANGED <<user, given, spent, draws, log, requests>>

AccountsNext ==
    \/ \E w \in Workers, u \in Users :
          \/ \E role \in {"tenant", "landlord"} :
                Register(w, u, role) \/ PrivySignUp(w, u, role)
          \/ ResendVerification(w, u) \/ VerifyEmail(w, u)
          \/ Login(w, u) \/ LoginPending(w, u) \/ VerifyTotp(w, u)
          \/ Refresh(w, u) \/ Logout(w, u)
          \/ \E vouched \in BOOLEAN : SocialSignIn(w, u, vouched)
          \/ ForgotPassword(w, u) \/ ResetPassword(w, u)
          \/ TotpSetup(w, u) \/ TotpEnable(w, u) \/ TotpDisable(w, u)
    \/ \E w \in Workers :
          \/ Save(w) \/ Insert(w) \/ PrivyConfirm(w) \/ SocialTokens(w)
          \/ ClearReset(w)
          \/ Die(w) /\ UNCHANGED accounts
    \/ Lapse

-----------------------------------------------------------------------------
(* What holds however requests overlap and wherever they die.              *)

\* A one-time code that a finished request has accepted is on no row, so no
\* later request can compare with it and find it right (verify_email,
\* reset_password, verify_government_2fa).
SpentCodesAreGone ==
    \A u \in Users :
        {user[u].verify, user[u].reset, user[u].otp} \cap spent = {}

-----------------------------------------------------------------------------
(* What holds when requests do not overlap.                                *)

\* The code a user was mailed last is the one on the row, until it is used: a
\* newer code replaces it in both places, and no other handler loses it.
MailedCodesWork ==
    ~load.overlap => \A u \in Users : Live(u) =>
        /\ given[u].reset \notin spent => user[u].reset = given[u].reset
        /\ ~user[u].verified => user[u].verify = given[u].verify
        /\ given[u].otp \notin spent => user[u].otp = given[u].otp

\* An account that asks for an authenticator code asks for one of a secret
\* its owner has shown to know (totp_enable), so the owner can sign in.
EnabledSecretIsConfirmed ==
    ~load.overlap => \A u \in Users :
        user[u].totp => user[u].secret # 0 /\ user[u].secret = given[u].confirmed
=============================================================================
