---------------------------- MODULE Certificates ----------------------------
(***************************************************************************)
(* What is shown of the users table by those who only read it: the public  *)
(* page of an identity certificate (app/services/verification_service.py,  *)
(* verify_compliance), and the numbers of accounts waiting for review on   *)
(* the officers' overview, their queue and the administrators' map         *)
(* (app/services/government_service.py, workspace_service.py,              *)
(* platform_data_service.py).                                              *)
(***************************************************************************)
EXTENDS Oversight

CONSTANTS
    LimitEach,    \* alerts of one list, 12 in the code
    Limit         \* alerts shown, 30 in the code

ASSUME LimitAssumption == LimitEach \in Nat /\ 2 * LimitEach <= Limit

-----------------------------------------------------------------------------
(* Certificates.                                                           *)

\* kyc_manifest_hash: the images were submitted, or an officer has decided,
\* and so hashed what there was.
Anchored(u) ==
    \/ user[u].manifest # 0
    \/ \E e \in {"nira_approved", "nira_rejected"} : <<u, e>> \in log

\* verify_compliance says "Identity Verified".
CertificateValid(u) ==
    /\ Live(u) /\ user[u].cert # 0
    /\ user[u].kyc = "approved" /\ ~user[u].suspended
    /\ Anchored(u)

-----------------------------------------------------------------------------
(* Accounts waiting for review.                                            *)

\* The slices of overview_summary.
Slices ==
    [verified |-> {u \in Reviewed(Commerce, "approved") : user[u].verified},
     pending |-> Reviewed(Commerce, "pending"),
     rejected |-> Reviewed(Commerce, "rejected")]

\* _pending_kyc_count and live_data_summary.
Waiting == Reviewed(Commerce, "pending")

\* platform_live_activity counts every account.
WaitingOnMap == Reviewed({u \in Users : Live(u)}, "pending")

\* The pages nira_queue may show of the accounts with a status, or of all, to
\* an officer who asks for n; without asking, he gets 100.
Queue(S, n) == Cuts(S \cap Queued, IF n < QueueLimit THEN n ELSE QueueLimit)

\* nira_blacklist: of who is suspended or rejected, the latest n, 50 unless
\* the officer asks otherwise.
Blacklisted == {u \in Commerce : user[u].suspended} \cup Reviewed(Commerce, "rejected")
Blacklist(n) == Cuts(Blacklisted, n)

\* What an officer may ask for; more would change nothing.
Asked == 0 .. Cardinality(Users)

-----------------------------------------------------------------------------
(* Alerts.  Four lists are cut to the latest of each, put together, sorted *)
(* by severity and cut again.                                              *)

Alert(S, severity) == S \X {severity}

\* _identity_fraud_alerts: what its four queries may return together.
IdentityAlerts ==
    {Alert(a, "suspended") \cup Alert(b, "rejected") \cup Alert(c, "pending")
        \cup Alert(d, "incomplete") :
        a \in Cuts({u \in Commerce : user[u].suspended}, LimitEach),
        b \in Cuts(Reviewed(Commerce, "rejected"), LimitEach),
        c \in Cuts(Waiting, LimitEach),
        d \in Cuts({u \in Reviewed(Commerce, "none") : user[u].role # "tenant"}, LimitEach)}

\* Mutant: the least severe come first.
RankMildFirst(alert) ==
    CASE alert[2] = "incomplete" -> 0
      [] alert[2] = "pending" -> 1
      [] OTHER -> 2

Rank(alert) ==
    CASE alert[2] \in {"suspended", "rejected"} -> 0
      [] alert[2] = "pending" -> 1
      [] OTHER -> 2

\* fraud_alerts for an identity officer.
Shown(alerts) ==
    {T \in Cuts(alerts, Limit) : \A a \in T, b \in alerts \ T : Rank(a) <= Rank(b)}

-----------------------------------------------------------------------------

\* A certificate shown as valid is one an officer has approved and that was
\* put on record, whatever requests overlap or die: its page says "verified by
\* NIRA officers" (verify_compliance).  It is not so where administrators
\* approve as well (admin_kyc_review).
VerifiedMeansDecided ==
    ~Uses("admin_kyc_review") =>
        \A u \in Users : CertificateValid(u) => <<u, "nira_approved">> \in log

\* Every screen counts the same accounts waiting, though the map counts all
\* roles and the others those of landlords, agents and tenants: no officer and
\* no administrator ever waits for review.  Who waits is on the page of the
\* queue that is to be worked off unless the page is full: of others who wait
\* when the officer asks for those, and of anybody queued when he asks for all
\* (overview_summary, nira_queue, platform_live_activity).
WaitingCountsAgree ==
    /\ WaitingOnMap = Waiting /\ Slices.pending = Waiting
    /\ \A S \in {Waiting, Queued}, n \in Asked : \A page \in Queue(S, n) :
          Waiting \subseteq page \/ Cardinality(page) \in {n, QueueLimit}

\* A suspended or rejected account is missing on an officer's screens only if
\* they are full: from the blacklist, if it is as long as he asked for, and
\* from his alerts, however many milder ones there are, if a full list of its
\* kind is shown (nira_blacklist, fraud_alerts).
BlacklistIsShown ==
    \A u \in Blacklisted :
        /\ \A n \in Asked : \A page \in Blacklist(n) : u \in page \/ Cardinality(page) = n
        /\ \A alerts \in IdentityAlerts : \A shown \in Shown(alerts) :
              \/ \E a \in shown : a[1] = u /\ Rank(a) = 0
              \/ Cardinality({a \in shown : Rank(a) = 0}) >= LimitEach

\* No landlord or agent is trusted, and no certificate is shown as valid,
\* without an approval, nor is anybody trusted after a rejection (nira_decide,
\* verify_compliance).
TrustIsDecided == TrustFollowsReview /\ VerifiedMeansDecided

\* Officers see all who wait and all of the blacklist, as far as their pages
\* go (overview_summary, nira_queue, nira_blacklist, fraud_alerts).
OfficersSeeEverybody == WaitingCountsAgree /\ BlacklistIsShown
=============================================================================
