---------------------------- MODULE TenantLinks ----------------------------
(***************************************************************************)
(* How a landlord's tenant record and the tenant's login find each other   *)
(* (app/routers/tenant_portal.py; app/services/invoice_service.py,         *)
(* resolve_tenant_for_user; app/services/tenant_service.py, update_tenant).*)
(* The record is made first and has an e-mail address; it is linked by an  *)
(* invitation token, or by the first request of a login with the address.  *)
(***************************************************************************)
EXTENDS Requests

CONSTANTS
    Rentals,      \* ids of tenants rows, in the order they are made
    Logins,       \* ids of users rows
    Mailboxes,    \* e-mail addresses, stripped and in lower case
    MaxTokens     \* bound: invitation tokens drawn

VARIABLES
    rental,       \* tenants rows: e-mail, login and invitation token
    login,        \* users rows: e-mail and role
    opened,       \* the rental whose invitation made each login
    tokens,       \* the last token drawn
    stale         \* tokens up to this one are past their expiry

ASSUME LinkAssumption ==
    /\ None \notin Logins \cup Mailboxes
    /\ MaxTokens \in Nat

linkVars == <<rental, login, opened, tokens, stale>>

-----------------------------------------------------------------------------

Token == 0 .. MaxTokens
RentalRow == [email : Mailboxes \cup {None}, user : Logins \cup {None}, token : Token]
NoLogin == [email |-> None, role |-> None]
LoginRow == [email : Mailboxes, role : {"tenant", "other"}]

Exists(u) == login[u] # NoLogin
Linked(t) == rental[t].user # None

LinksInit ==
    /\ rental \in [Rentals -> [email : Mailboxes \cup {None}, user : {None}, token : {0}]]
    /\ login = [u \in Logins |-> NoLogin]
    /\ opened = [u \in Logins |-> None]
    /\ tokens = 0
    /\ stale = 0

LinksTypeOK ==
    /\ rental \in [Rentals -> RentalRow]
    /\ login \in [Logins -> LoginRow \cup {NoLogin}]
    /\ opened \in [Logins -> Rentals \cup {None}]
    /\ tokens \in Token
    /\ stale \in 0 .. tokens

AccountOf(e) == {u \in Logins : login[u].email = e}
Claimed(e) == AccountOf(e) # {}

-----------------------------------------------------------------------------
(* Logins made and removed elsewhere.                                      *)

\* A sign-up of one's own; the address is unique in the table.
MakeLogin(u, e, role) ==
    /\ Served("make_login")
    /\ ~Exists(u) /\ ~Claimed(e)
    /\ login' = [login EXCEPT ![u] = [email |-> e, role |-> role]]
    /\ UNCHANGED <<requests, rental, opened, tokens, stale>>

\* admin_delete_user unlinks the records of the login.
DeleteLogin(u) ==
    /\ Served("delete_login")
    /\ Exists(u)
    /\ login' = [login EXCEPT ![u] = NoLogin]
    /\ opened' = [opened EXCEPT ![u] = None]
    /\ rental' = [t \in Rentals |-> IF rental[t].user = u
                                    THEN [rental[t] EXCEPT !.user = None] ELSE rental[t]]
    /\ UNCHANGED <<requests, tokens, stale>>

-----------------------------------------------------------------------------
(* Invitations.                                                            *)

Invitable(t) == ~Linked(t)

\* A session that has read rental t and assigns the fields of set.
Updating(t, set) == [rental |-> t, seen |-> rental[t], set |-> set]

StoredRental(j) == [rental EXCEPT ![j.rental] = Written(@, j.seen, j.set)]

SendInvite(w, t, e) ==
    /\ Ready(w, "send_invite")
    /\ Invitable(t)
    /\ tokens < MaxTokens
    /\ tokens' = tokens + 1
    /\ Goto(w, "store_rental", Updating(t, [email |-> e, token |-> tokens + 1]))
    /\ UNCHANGED <<rental, login, opened, stale>>

\* The foreign key to users refuses a login that is gone, when it is written.
Refused(j) ==
    /\ "user" \in DOMAIN j.set /\ j.set.user # j.seen.user
    /\ ~Exists(j.set.user)

\* The commit of an update of one tenants row; after "resolve" the tenant's own
\* edit of it follows.
StoresRental(w) == pc[w] \in {"store_rental", "resolve"}

StoreRental(w) ==
    LET j == job[w] IN
    /\ StoresRental(w)
    /\ rental' = IF Refused(j) THEN rental ELSE StoredRental(j)
    /\ IF pc[w] = "resolve" /\ ~Refused(j)
       THEN Goto(w, "profile", [rental |-> j.rental, email |-> j.email])
       ELSE Respond(w)
    /\ UNCHANGED <<login, opened, tokens, stale>>

\* Mutant: the account is signed in before its record is linked.
SpendToken(t, u) == Updating(t, [token |-> 0])

LinkTo(t, u) == Updating(t, [user |-> u, token |-> 0])

\* accept_tenant_invite with the token of an unlinked record: an account with
\* the address is linked, and signed in with the new password, if it is a
\* tenant's; without one an account is made first.
AcceptInvite(w, t) ==
    LET e == rental[t].email IN
    /\ Ready(w, "accept_invite")
    /\ rental[t].token > stale
    /\ e # None /\ ~Linked(t)
    /\ \/ \E u \in AccountOf(e) :
            /\ login[u].role = "tenant"
            /\ Goto(w, "store_rental", LinkTo(t, u))
       \/ ~Claimed(e) /\ Goto(w, "make_account", [rental |-> t, email |-> e])
    /\ UNCHANGED linkVars

\* The first commit: the account; the address must still be free.
MakeAccount(w) ==
    LET j == job[w] IN
    /\ pc[w] = "make_account"
    /\ IF Claimed(j.email)
       THEN Respond(w) /\ UNCHANGED <<login, opened>>
       ELSE \E u \in Logins :
              /\ ~Exists(u)
              /\ login' = [login EXCEPT ![u] = [email |-> j.email, role |-> "tenant"]]
              /\ opened' = [opened EXCEPT ![u] = j.rental]
              /\ Goto(w, "link", [rental |-> j.rental, user |-> u])
    /\ UNCHANGED <<rental, tokens, stale>>

\* The record, expired by the first commit, is read again to be linked.
LinkAccount(w) ==
    /\ pc[w] = "link"
    /\ Goto(w, "store_rental", LinkTo(job[w].rental, job[w].user))
    /\ UNCHANGED linkVars

-----------------------------------------------------------------------------
(* resolve_tenant_for_user, which every page of the portal begins with.    *)

\* The newest record with the login's address that nobody has, or that a
\* login with the same address has.
Candidates(u) ==
    {t \in Rentals : /\ rental[t].email = login[u].email
                     /\ Linked(t) => login[rental[t].user].email = login[u].email}

Newest(S) == {t \in S : \A s \in S : s <= t}

Unhoused(u) == \A t \in Rentals : rental[t].user # u

Resolve(w, handler, u) ==
    /\ Ready(w, handler)
    /\ Exists(u) /\ login[u].role = "tenant"
    /\ Unhoused(u)
    /\ \/ \E t \in Newest(Candidates(u)) :
             Goto(w, "store_rental", Updating(t, [user |-> u]))
       \/ /\ Candidates(u) = {}
          /\ handler = "accept_rental"
          /\ Goto(w, "pending", [user |-> u, email |-> login[u].email])
    /\ UNCHANGED linkVars

\* accept_rental_in_app looks once more for a record that nobody has; one is
\* there only when it has come since.
LinkPending(w) ==
    LET j == job[w]
        found == {t \in Rentals : ~Linked(t) /\ rental[t].email = j.email}
    IN
    /\ pc[w] = "pending"
    /\ \/ found = {} /\ Respond(w)
       \/ \E t \in Newest(found) : Goto(w, "store_rental", LinkTo(t, j.user))
    /\ UNCHANGED linkVars

-----------------------------------------------------------------------------
(* update_my_tenant_profile: the tenant edits the address on his record,   *)
(* and no other address.                                                   *)

\* A record that is not linked yet is linked first, in a commit of its own.
LinkBefore(t, u, e) == [rental |-> t, seen |-> rental[t], set |-> [user |-> u], email |-> e]

UpdateProfile(w, u, e) ==
    /\ Ready(w, "update_profile")
    /\ Exists(u) /\ login[u].role = "tenant"
    /\ \/ \E t \in Rentals : /\ rental[t].user = u
                             /\ Goto(w, "store_rental", Updating(t, [email |-> e]))
       \/ /\ Unhoused(u)
          /\ \E t \in Newest(Candidates(u)) : Goto(w, "resolve", LinkBefore(t, u, e))
    /\ UNCHANGED linkVars

EditProfile(w) ==
    /\ pc[w] = "profile"
    /\ Goto(w, "store_rental", Updating(job[w].rental, [email |-> job[w].email]))
    /\ UNCHANGED linkVars

-----------------------------------------------------------------------------
(* update_tenant: the landlord edits the address on the record.            *)

\* Mutant: the address of the login is left alone.
Unsynced(u, e) == login

Synced(u, e) == [login EXCEPT ![u].email = e]

\* It becomes the login's too; refused when another login has it.
UpdateEmail(t, e) ==
    LET u == rental[t].user IN
    /\ Served("update_email")
    /\ rental' = [rental EXCEPT ![t].email = e]
    /\ IF e = None \/ u = None \/ ~Exists(u) THEN UNCHANGED login
       ELSE AccountOf(e) \subseteq {u} /\ login' = Synced(u, e)
    /\ UNCHANGED <<requests, opened, tokens, stale>>

ExpireTokens ==
    /\ Served("expire")
    /\ stale < tokens
    /\ stale' = stale + 1
    /\ UNCHANGED <<requests, rental, login, opened, tokens>>

LinksNext ==
    \/ \E u \in Logins :
          \/ \E e \in Mailboxes, r \in {"tenant", "other"} : MakeLogin(u, e, r)
          \/ DeleteLogin(u)
          \/ \E w \in Workers, h \in {"portal", "accept_rental"} : Resolve(w, h, u)
          \/ \E w \in Workers, e \in Mailboxes \cup {None} : UpdateProfile(w, u, e)
    \/ \E w \in Workers, t \in Rentals :
          \/ \E e \in Mailboxes : SendInvite(w, t, e)
          \/ AcceptInvite(w, t)
    \/ \E w \in Workers :
          \/ StoreRental(w)
          \/ MakeAccount(w)
          \/ LinkAccount(w)
          \/ LinkPending(w)
          \/ EditProfile(w)
          \/ Die(w) /\ UNCHANGED linkVars
    \/ \E t \in Rentals, e \in Mailboxes \cup {None} : UpdateEmail(t, e)
    \/ ExpireTokens

-----------------------------------------------------------------------------

\* One request at a time, a login with one rental has the address on its
\* record, however they were linked and however often the landlord has edited
\* it since (send_tenant_invite refuses a linked record, update_tenant edits
\* both).  Where tenants edit the address on their record it is not so:
\* update_my_tenant_profile leaves the login's alone.
LinkedRentalsShareTheEmail ==
    ~load.overlap /\ ~Uses("update_profile") =>
        \A t \in Rentals :
            /\ Linked(t) /\ rental[t].email # None
            /\ \A s \in Rentals \ {t} : rental[s].user # rental[t].user
            => login[rental[t].user].email = rental[t].email

\* However requests overlap and die, an invitation is spent by the commit that
\* links its record and by no other: one that died halfway can be accepted
\* again (accept_tenant_invite).  A login removed under an overlapping request
\* is left out: its record may have been linked to it before, by the portal.
TokensAreSpentByLinking ==
    [][~(load.overlap /\ Uses("delete_login")) =>
         \A t \in Rentals :
             rental[t].token # 0 /\ rental'[t].token = 0 => rental'[t].user # None]_linkVars

\* One request at a time, a record that has a login is given to another only
\* with the same address, whatever address the tenant or the landlord has
\* written on it (resolve_tenant_for_user, update_my_tenant_profile).
RentalsStayWithTheirTenant ==
    [][~load.overlap =>
         \A t \in Rentals :
             Linked(t) /\ rental'[t].user \notin {None, rental[t].user} =>
                 login'[rental'[t].user].email = login[rental[t].user].email]_linkVars

\* Invitations are spent by linking and by nothing else, and no rental passes
\* to a login of another address (accept_tenant_invite,
\* resolve_tenant_for_user).
LinksAreKept == TokensAreSpentByLinking /\ RentalsStayWithTheirTenant
=============================================================================
