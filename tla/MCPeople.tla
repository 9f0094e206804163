------------------------------ MODULE MCPeople ------------------------------
(* Instances of Certificates, with all writers of the users table, for TLC. *)
EXTENDS Certificates, TLC

CONSTANTS w1, w2, inv1, inv2, boxA, boxB

MCWorkers == {w1, w2}
MCUsers == {1, 2, 3}
MCInvitations == {inv1, inv2}
MCAddresses == {boxA, boxB}
\* The first two accounts are rivals for one address.
MCEmailOf == (1 :> boxA) @@ (2 :> boxA) @@ (3 :> boxB)

\* A workload with its bound on draws, with requests one at a time and with
\* requests that overlap and die.
Serial(handlers, seeds, d) ==
    [uses |-> handlers, seeds |-> seeds, draws |-> d, overlap |-> FALSE, fails |-> FALSE]
Racing(handlers, seeds, d) ==
    [uses |-> handlers, seeds |-> seeds, draws |-> d, overlap |-> TRUE, fails |-> TRUE]

SignUps == {"register", "social_sign_in", "verify_email", "resend_verification"}
Sessions == {"login", "refresh", "logout", "admin_account", "lapse"}
Passwords == {"forgot_password", "reset_password", "login", "lapse"}
Authenticator == {"totp_setup", "totp_enable", "totp_disable", "login", "verify_totp", "lapse"}
Documents == {"upload_kyc", "kyc_submit", "get_me", "nira_queue", "nira_decide", "admin_kyc_review"}
Certifying == {"upload_kyc", "get_me", "nira_queue", "nira_decide"}
Sanctions == {"nira_suspend", "admin_delete_user", "login"}
Moderation == {"nira_suspend", "admin_account", "login", "social_sign_in"}
Invites == {"create_invitation", "look_at_invitation", "accept_invitation", "register",
            "admin_delete_user", "lapse"}
Portal == {"portal_login", "resend_2fa", "verify_2fa", "logout", "lapse"}
Administrators == {"admin_account", "admin_delete_user", "login"}
Roles2 == {"update_me", "upload_refused", "upload_kyc", "nira_decide"}

Seed1(role) == 1 :> role
Seed3(role) == 3 :> role
Seed(role, other) == (1 :> role) @@ (3 :> other)

MCWorkloads ==
    {Serial(SignUps, <<>>, 3), Racing(SignUps, <<>>, 2),
     Serial(Sessions, Seed("tenant", "system_admin"), 3),
     Racing(Sessions, Seed1("tenant"), 3),
     Serial(Passwords, Seed1("tenant"), 4), Racing(Passwords, Seed1("tenant"), 3),
     Serial(Authenticator, Seed1("tenant"), 4),
     Racing(Authenticator, Seed1("tenant"), 3),
     Serial(Documents, Seed("landlord", "tenant"), 3),
     Racing(Documents, Seed1("landlord"), 1),
     Serial(Certifying, Seed("landlord", "staff"), 3), Racing(Certifying, Seed1("landlord"), 1),
     Serial(Sanctions, Seed("landlord", "system_admin"), 2),
     Racing(Sanctions, Seed("landlord", "system_admin"), 1),
     Serial(Moderation, Seed("landlord", "system_admin"), 2),
     Serial(Invites, Seed3("system_admin"), 4), Racing(Invites, Seed3("system_admin"), 2),
     Serial(Portal, Seed("gov_nira", "tenant"), 4), Racing(Portal, Seed1("gov_nira"), 2),
     Serial(Administrators, Seed("system_admin", "system_admin"), 2),
     Serial(Roles2, Seed1("landlord"), 3)}

WorkersAlike == Permutations(MCWorkers)
=============================================================================
