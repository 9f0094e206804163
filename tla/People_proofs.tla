---------------------------- MODULE People_proofs ----------------------------
(***************************************************************************)
(* The users table of Certificates and all who write it, for every number  *)
(* of workers, accounts, invitations and draws.                            *)
(*                                                                         *)
(* A request that is about to commit says what it will write and what it   *)
(* read; nothing another request does can change that.  So what an update  *)
(* may be is settled once, where it is made (RowFits), and what the tables *)
(* satisfy is shown from it where it is committed.                         *)
(***************************************************************************)
EXTENDS Certificates, FiniteSetTheorems, TLAPS

USE DrawsAssumption

-----------------------------------------------------------------------------
(* Rows, and what is written over them.                                    *)

Codes == {"verify", "reset", "otp"}

\* A row is a function of its columns.
Column == [row |-> {"absent", "live", "deleted"}, role |-> Roles, active |-> BOOLEAN,
           verified |-> BOOLEAN, trusted |-> BOOLEAN, kyc |-> Reviews,
           suspended |-> BOOLEAN, verify |-> Draw, reset |-> Draw, otp |-> Draw,
           refresh |-> Draw, secret |-> Draw, totp |-> BOOLEAN, cert |-> Draw,
           manifest |-> Draw]

Fields == {"row", "role", "active", "verified", "trusted", "kyc", "suspended", "verify", "reset",
           "otp", "refresh", "secret", "totp", "cert", "manifest"}

Handouts == {"verify", "reset", "otp", "secret", "confirmed", "pending"}

PatchTyped(s) ==
    /\ DOMAIN s \subseteq Fields \ {"row"}
    /\ \A f \in DOMAIN s : s[f] \in Column[f]

HandTyped(h) ==
    /\ DOMAIN h \subseteq Handouts
    /\ \A f \in DOMAIN h : h[f] \in Draw

LEMMA RowColumns ==
    ASSUME NEW r \in Row
    PROVE  /\ DOMAIN r = Fields
           /\ \A f \in Fields : r[f] \in Column[f]
<1>1. DOMAIN r = Fields
  BY DEF Row, Fields
<1>2. \A f \in Fields : r[f] \in Column[f]
  BY DEF Row, Fields, Column
<1>3. QED
  BY <1>1, <1>2

LEMMA ColumnsRow ==
    ASSUME NEW r, r = [f \in Fields |-> r[f]], \A f \in Fields : r[f] \in Column[f]
    PROVE  r \in Row
<1>1. /\ r.row \in {"absent", "live", "deleted"} /\ r.role \in Roles /\ r.active \in BOOLEAN
      /\ r.verified \in BOOLEAN /\ r.trusted \in BOOLEAN /\ r.kyc \in Reviews
  BY DEF Fields, Column
<1>2. /\ r.suspended \in BOOLEAN /\ r.verify \in Draw /\ r.reset \in Draw /\ r.otp \in Draw
      /\ r.refresh \in Draw
  BY DEF Fields, Column
<1>3. r.secret \in Draw /\ r.totp \in BOOLEAN /\ r.cert \in Draw /\ r.manifest \in Draw
  BY DEF Fields, Column
<1> DEFINE t == [row |-> r.row, role |-> r.role, active |-> r.active, verified |-> r.verified,
                 trusted |-> r.trusted, kyc |-> r.kyc, suspended |-> r.suspended,
                 verify |-> r.verify, reset |-> r.reset, otp |-> r.otp, refresh |-> r.refresh,
                 secret |-> r.secret, totp |-> r.totp, cert |-> r.cert,
                 manifest |-> r.manifest]
<1>4. t \in Row
  BY <1>1, <1>2, <1>3 DEF Row
<1>5. r = t
  BY DEF Fields
<1>6. QED
  BY <1>4, <1>5

\* An update leaves a row, with the columns the session has changed.
LEMMA WrittenRow ==
    ASSUME NEW r \in Row, NEW seen, NEW s, PatchTyped(s)
    PROVE  /\ Written(r, seen, s) \in Row
           /\ \A f \in Fields : Written(r, seen, s)[f] =
                 IF f \in DOMAIN s /\ s[f] # seen[f] THEN s[f] ELSE r[f]
           /\ Written(r, seen, s).row = r.row
<1> DEFINE t == Written(r, seen, s)
<1>1. t = [f \in Fields |-> IF f \in DOMAIN s /\ s[f] # seen[f] THEN s[f] ELSE r[f]]
  BY RowColumns DEF Written
<1>2. \A f \in Fields : t[f] \in Column[f]
  BY <1>1, RowColumns DEF PatchTyped
<1>3. t = [f \in Fields |-> t[f]]
  BY <1>1
<1>4. t.row = r.row
  BY <1>1 DEF PatchTyped, Fields
<1>5. t \in Row
  BY <1>2, <1>3, ColumnsRow
<1>6. QED
  BY <1>1, <1>4, <1>5

LEMMA OverlayGiven ==
    ASSUME NEW g \in Given, NEW h, HandTyped(h)
    PROVE  /\ Overlay(g, h) \in Given
           /\ \A f \in Handouts : Overlay(g, h)[f] = IF f \in DOMAIN h THEN h[f] ELSE g[f]
<1> DEFINE t == Overlay(g, h)
<1>1. t = [f \in Handouts |-> IF f \in DOMAIN h THEN h[f] ELSE g[f]]
  BY DEF Overlay, Given, Handouts
<1>2. \A f \in Handouts : t[f] \in Draw
  BY <1>1 DEF HandTyped, Given, Handouts
<1>3. t = [verify |-> t.verify, reset |-> t.reset, otp |-> t.otp, secret |-> t.secret,
           confirmed |-> t.confirmed, pending |-> t.pending]
  BY <1>1 DEF Handouts
<1>4. t \in Given
  BY <1>2, <1>3 DEF Handouts, Given
<1>5. QED
  BY <1>1, <1>4

LEMMA AbsentRow == Absent \in Row /\ Nothing \in Given
<1>1. Absent \in Row
  BY DEF Absent, Row, Roles, SelfService, Reviews, Draw
<1>2. Nothing \in Given
  BY DEF Nothing, Given, Draw
<1>3. QED
  BY <1>1, <1>2

-----------------------------------------------------------------------------
(* What an update may be.  l is the workload, u the row, s what is written *)
(* to it, seen the table it was decided on, h what is handed out with it,  *)
(* x the codes it accepts and e the entries it logs.                       *)

FitsSanctions(u, s, e) ==
    /\ "active" \in DOMAIN s /\ s.active = TRUE => "suspended" \in DOMAIN s /\ s.suspended = FALSE
    /\ "suspended" \in DOMAIN s /\ s.suspended = TRUE =>
          "active" \in DOMAIN s /\ s.active = FALSE /\ <<u, "nira_blacklist">> \in e

FitsCodes(s, r, h, x) ==
    /\ \A f \in Codes \cap DOMAIN s :
          /\ s[f] # 0 => f \in DOMAIN h /\ h[f] = s[f] /\ x = {}
          /\ s[f] = 0 => r[f] # 0 /\ x = {r[f]}
    /\ \A f \in Codes \cap DOMAIN h : f \in DOMAIN s /\ s[f] # 0
    /\ x = {} \/ \E f \in Codes \cap DOMAIN s : s[f] = 0
    /\ "verify" \in DOMAIN s /\ s.verify = 0 => "verified" \in DOMAIN s
    /\ "verified" \in DOMAIN s => s.verified = TRUE

FitsAuthenticator(s, r, h) ==
    /\ "secret" \in DOMAIN s => "totp" \in DOMAIN s /\ s.totp = FALSE
    /\ "totp" \in DOMAIN s /\ s.totp = TRUE =>
          r.secret # 0 /\ "confirmed" \in DOMAIN h /\ h.confirmed = r.secret
    /\ "confirmed" \in DOMAIN h => "totp" \in DOMAIN s /\ s.totp = TRUE

FitsReview(l, u, s, r, e) ==
    /\ "role" \in DOMAIN s => s.role \in SelfService /\ "update_me" \in l.uses
    /\ "trusted" \in DOMAIN s /\ s.trusted = TRUE =>
          \/ r.role = "tenant" \/ r.trusted = TRUE
          \/ "kyc" \in DOMAIN s /\ s.kyc = "approved"
    /\ "kyc" \in DOMAIN s =>
          /\ s.kyc # "none"
          /\ s.kyc = "pending" => r.role \in SelfService
          /\ s.kyc = "approved" =>
                <<u, "nira_approved">> \in e \/ "admin_kyc_review" \in l.uses
          /\ s.kyc = "rejected" => "trusted" \in DOMAIN s /\ s.trusted = FALSE
    /\ "manifest" \in DOMAIN s => "kyc" \in DOMAIN s
    /\ "cert" \in DOMAIN s /\ r.cert # 0 => s.cert = r.cert
    /\ <<u, "nira_rejected">> \in e => "kyc" \in DOMAIN s /\ s.kyc = "rejected"

FitsSession(l, s, r) ==
    /\ "refresh" \in DOMAIN s /\ s.refresh # 0 =>
          l.overlap \/ r.active = TRUE \/ "verify_totp" \in l.uses
    /\ "active" \in DOMAIN s /\ s.active = FALSE =>
          \/ "refresh" \in DOMAIN s /\ s.refresh = 0
          \/ "suspended" \in DOMAIN s /\ s.suspended = TRUE
    /\ "suspended" \in DOMAIN s /\ s.suspended = FALSE => "active" \in DOMAIN s /\ s.active = TRUE

CanAct(r) == r.row = "live" /\ r.role = "system_admin" /\ r.active = TRUE

FitsAdmins(u, s, seen) ==
    "active" \in DOMAIN s /\ s.active = FALSE =>
       seen[u].role # "system_admin" \/ \E a \in Users \ {u} : CanAct(seen[a])

RowFits(l, u, s, seen, h, x, e) ==
    /\ PatchTyped(s) /\ HandTyped(h)
    /\ FitsSanctions(u, s, e)
    /\ FitsCodes(s, seen[u], h, x)
    /\ FitsAuthenticator(s, seen[u], h)
    /\ FitsReview(l, u, s, seen[u], e)
    /\ FitsSession(l, s, seen[u])
    /\ FitsAdmins(u, s, seen)

LEMMA FitCode ==
    ASSUME NEW l, NEW u, NEW seen, NEW f \in Codes, NEW d \in Draw, d # 0,
           NEW s, DOMAIN s = {f}, s[f] = d
    PROVE  RowFits(l, u, s, seen, s, {}, {})
BY DEF RowFits, PatchTyped, HandTyped, FitsSanctions, FitsCodes, FitsAuthenticator, FitsReview,
       FitsSession, FitsAdmins, Codes, Fields, Column, Handouts

LEMMA NoDraw == 0 \in Draw
BY DEF Draw

LEMMA Columns ==
    /\ Column["role"] = Roles /\ Column["kyc"] = Reviews
    /\ \A f \in {"active", "verified", "trusted", "suspended", "totp"} : Column[f] = BOOLEAN
    /\ \A f \in {"verify", "reset", "otp", "refresh", "secret", "cert", "manifest"} :
          Column[f] = Draw
BY DEF Column

LEMMA FitVerified ==
    ASSUME NEW l, NEW u, NEW seen, seen[u].verify # 0, NEW t \in BOOLEAN,
           t => seen[u].role = "tenant" \/ seen[u].trusted = TRUE
    PROVE  RowFits(l, u, [verified |-> TRUE, verify |-> 0, trusted |-> t], seen,
                   <<>>, {seen[u].verify}, {})
<1> DEFINE s == [verified |-> TRUE, verify |-> 0, trusted |-> t]
<1>1. /\ DOMAIN s = {"verified", "verify", "trusted"} /\ s.verified = TRUE /\ s.verify = 0
      /\ s.trusted = t
  OBVIOUS
<1> HIDE DEF s
<1>2. PatchTyped(s)
  BY <1>1, NoDraw, Columns DEF PatchTyped, Fields
<1>3. HandTyped(<<>>) /\ FitsCodes(s, seen[u], <<>>, {seen[u].verify})
  BY <1>1 DEF HandTyped, FitsCodes, Codes, Handouts
<1>4. FitsSanctions(u, s, {}) /\ FitsAuthenticator(s, seen[u], <<>>)
  BY <1>1 DEF FitsSanctions, FitsAuthenticator
<1>5. FitsReview(l, u, s, seen[u], {}) /\ FitsSession(l, s, seen[u]) /\ FitsAdmins(u, s, seen)
  BY <1>1 DEF FitsReview, FitsSession, FitsAdmins
<1>6. QED
  BY <1>2, <1>3, <1>4, <1>5 DEF RowFits, s

LEMMA FitRefresh ==
    ASSUME NEW l, NEW u, NEW seen, NEW d \in Draw,
           d # 0 => l.overlap \/ seen[u].active = TRUE \/ "verify_totp" \in l.uses
    PROVE  RowFits(l, u, [refresh |-> d], seen, <<>>, {}, {})
BY DEF RowFits, PatchTyped, HandTyped, FitsSanctions, FitsCodes, FitsAuthenticator, FitsReview,
       FitsSession, FitsAdmins, Codes, Fields, Column, Handouts

LEMMA FitSocial ==
    ASSUME NEW l, NEW u, NEW seen, NEW t \in BOOLEAN,
           t => seen[u].role = "tenant" \/ seen[u].trusted = TRUE
    PROVE  RowFits(l, u, [verified |-> TRUE, trusted |-> t], seen,
                   <<>>, {}, {})
<1> DEFINE s == [verified |-> TRUE, trusted |-> t]
<1>1. DOMAIN s = {"verified", "trusted"} /\ s.verified = TRUE /\ s.trusted = t
  OBVIOUS
<1> HIDE DEF s
<1>2. PatchTyped(s)
  BY <1>1, Columns DEF PatchTyped, Fields
<1>3. HandTyped(<<>>) /\ FitsCodes(s, seen[u], <<>>, {})
  BY <1>1 DEF HandTyped, FitsCodes, Codes, Handouts
<1>4. FitsSanctions(u, s, {}) /\ FitsAuthenticator(s, seen[u], <<>>)
  BY <1>1 DEF FitsSanctions, FitsAuthenticator
<1>5. FitsReview(l, u, s, seen[u], {}) /\ FitsSession(l, s, seen[u]) /\ FitsAdmins(u, s, seen)
  BY <1>1 DEF FitsReview, FitsSession, FitsAdmins
<1>6. QED
  BY <1>2, <1>3, <1>4, <1>5 DEF RowFits, s

LEMMA FitNothing ==
    ASSUME NEW l, NEW u, NEW seen
    PROVE  RowFits(l, u, <<>>, seen, <<>>, {}, {})
BY DEF RowFits, PatchTyped, HandTyped, FitsSanctions, FitsCodes, FitsAuthenticator, FitsReview,
       FitsSession, FitsAdmins, Codes

LEMMA FitSecret ==
    ASSUME NEW l, NEW u, NEW seen, NEW d \in Draw
    PROVE  RowFits(l, u, [secret |-> d, totp |-> FALSE], seen,
                   [secret |-> d], {}, {})
<1> DEFINE s == [secret |-> d, totp |-> FALSE]
           h == [secret |-> d]
<1>1. /\ DOMAIN s = {"secret", "totp"} /\ s.secret = d /\ s.totp = FALSE
      /\ DOMAIN h = {"secret"} /\ h.secret = d
  OBVIOUS
<1> HIDE DEF s, h
<1>2. PatchTyped(s)
  <2>1. s["secret"] \in Draw /\ s["totp"] \in BOOLEAN
    BY <1>1
  <2>2. QED
    BY <1>1, <2>1, Columns DEF PatchTyped, Fields
<1>3. HandTyped(h) /\ FitsCodes(s, seen[u], h, {})
  BY <1>1 DEF HandTyped, FitsCodes, Codes, Handouts
<1>4. FitsSanctions(u, s, {}) /\ FitsAuthenticator(s, seen[u], h)
  BY <1>1 DEF FitsSanctions, FitsAuthenticator
<1>5. FitsReview(l, u, s, seen[u], {}) /\ FitsSession(l, s, seen[u]) /\ FitsAdmins(u, s, seen)
  BY <1>1 DEF FitsReview, FitsSession, FitsAdmins
<1>6. QED
  BY <1>2, <1>3, <1>4, <1>5 DEF RowFits, s, h

LEMMA FitEnabled ==
    ASSUME NEW l, NEW u, NEW seen, NEW d \in Draw, d # 0, d = seen[u].secret
    PROVE  RowFits(l, u, [totp |-> TRUE], seen,
                   [confirmed |-> d], {}, {})
<1> DEFINE s == [totp |-> TRUE]
           h == [confirmed |-> d]
<1>1. DOMAIN s = {"totp"} /\ s.totp = TRUE /\ DOMAIN h = {"confirmed"} /\ h.confirmed = d
  OBVIOUS
<1> HIDE DEF s, h
<1>2. PatchTyped(s)
  BY <1>1, Columns DEF PatchTyped, Fields
<1>3. HandTyped(h) /\ FitsCodes(s, seen[u], h, {})
  BY <1>1 DEF HandTyped, FitsCodes, Codes, Handouts
<1>4. FitsSanctions(u, s, {}) /\ FitsAuthenticator(s, seen[u], h)
  BY <1>1 DEF FitsSanctions, FitsAuthenticator
<1>5. FitsReview(l, u, s, seen[u], {}) /\ FitsSession(l, s, seen[u]) /\ FitsAdmins(u, s, seen)
  BY <1>1 DEF FitsReview, FitsSession, FitsAdmins
<1>6. QED
  BY <1>2, <1>3, <1>4, <1>5 DEF RowFits, s, h

LEMMA FitDisabled ==
    ASSUME NEW l, NEW u, NEW seen
    PROVE  RowFits(l, u, [totp |-> FALSE, secret |-> 0], seen,
                   <<>>, {}, {})
<1> DEFINE s == [totp |-> FALSE, secret |-> 0]
<1>1. DOMAIN s = {"totp", "secret"} /\ s.totp = FALSE /\ s.secret = 0
  OBVIOUS
<1> HIDE DEF s
<1>2. PatchTyped(s)
  BY <1>1, NoDraw, Columns DEF PatchTyped, Fields
<1>3. HandTyped(<<>>) /\ FitsCodes(s, seen[u], <<>>, {})
  BY <1>1 DEF HandTyped, FitsCodes, Codes, Handouts
<1>4. FitsSanctions(u, s, {}) /\ FitsAuthenticator(s, seen[u], <<>>)
  BY <1>1 DEF FitsSanctions, FitsAuthenticator
<1>5. FitsReview(l, u, s, seen[u], {}) /\ FitsSession(l, s, seen[u]) /\ FitsAdmins(u, s, seen)
  BY <1>1 DEF FitsReview, FitsSession, FitsAdmins
<1>6. QED
  BY <1>2, <1>3, <1>4, <1>5 DEF RowFits, s

LEMMA FitOtpGiven ==
    ASSUME NEW l, NEW u, NEW seen, seen[u].otp # 0
    PROVE  RowFits(l, u, [otp |-> 0], seen, <<>>, {seen[u].otp}, {})
BY NoDraw
   DEF RowFits, PatchTyped, HandTyped, FitsSanctions, FitsCodes, FitsAuthenticator, FitsReview,
       FitsSession, FitsAdmins, Codes, Fields, Column, Handouts

LEMMA FitSubmitted ==
    ASSUME NEW l, NEW u, NEW seen, NEW m \in Draw, seen[u].role \in SelfService
    PROVE  /\ RowFits(l, u, [kyc |-> "pending", manifest |-> m], seen, <<>>, {}, {})
           /\ RowFits(l, u, [kyc |-> "pending"], seen, <<>>, {}, {})
<1>1. RowFits(l, u, [kyc |-> "pending", manifest |-> m], seen, <<>>, {}, {})
  BY DEF RowFits, PatchTyped, HandTyped, FitsSanctions, FitsCodes, FitsAuthenticator,
         FitsReview, FitsSession, FitsAdmins, Codes, Fields, Column, Handouts, Reviews
<1>2. RowFits(l, u, [kyc |-> "pending"], seen, <<>>, {}, {})
  BY DEF RowFits, PatchTyped, HandTyped, FitsSanctions, FitsCodes, FitsAuthenticator,
         FitsReview, FitsSession, FitsAdmins, Codes, Fields, Column, Handouts, Reviews
<1>3. QED
  BY <1>1, <1>2

LEMMA FitCertified ==
    ASSUME NEW l, NEW u, NEW seen, NEW d \in Draw, seen[u].cert = 0
    PROVE  RowFits(l, u, [cert |-> d], seen, <<>>, {}, {})
BY DEF RowFits, PatchTyped, HandTyped, FitsSanctions, FitsCodes, FitsAuthenticator, FitsReview,
       FitsSession, FitsAdmins, Codes, Fields, Column, Handouts

LEMMA FitApproved ==
    ASSUME NEW l, NEW u, NEW seen, NEW t \in BOOLEAN, NEW m \in Draw, NEW d \in Draw,
           seen[u].cert # 0 => d = seen[u].cert
    PROVE  RowFits(l, u, [kyc |-> "approved", trusted |-> t, manifest |-> m, cert |-> d], seen,
                   <<>>, {}, {<<u, "nira_approved">>})
BY DEF RowFits, PatchTyped, HandTyped, FitsSanctions, FitsCodes, FitsAuthenticator, FitsReview,
       FitsSession, FitsAdmins, Codes, Fields, Column, Handouts, Reviews

LEMMA FitRejected ==
    ASSUME NEW l, NEW u, NEW seen, NEW m \in Draw
    PROVE  RowFits(l, u, [kyc |-> "rejected", trusted |-> FALSE, manifest |-> m], seen,
                   <<>>, {}, {<<u, "nira_rejected">>})
<1> DEFINE s == [kyc |-> "rejected", trusted |-> FALSE, manifest |-> m]
<1>1. /\ DOMAIN s = {"kyc", "trusted", "manifest"} /\ s.kyc = "rejected" /\ s.trusted = FALSE
      /\ s.manifest = m
  OBVIOUS
<1> HIDE DEF s
<1>2. PatchTyped(s)
  BY <1>1, Columns DEF PatchTyped, Fields, Reviews
<1>3. HandTyped(<<>>) /\ FitsCodes(s, seen[u], <<>>, {})
  BY <1>1 DEF HandTyped, FitsCodes, Codes, Handouts
<1>4. FitsSanctions(u, s, {<<u, "nira_rejected">>}) /\ FitsAuthenticator(s, seen[u], <<>>)
  BY <1>1 DEF FitsSanctions, FitsAuthenticator
<1>5. FitsReview(l, u, s, seen[u], {<<u, "nira_rejected">>}) /\ FitsSession(l, s, seen[u])
      /\ FitsAdmins(u, s, seen)
  BY <1>1 DEF FitsReview, FitsSession, FitsAdmins
<1>6. QED
  BY <1>2, <1>3, <1>4, <1>5 DEF RowFits, s

LEMMA FitReviewed ==
    ASSUME NEW l, NEW u, NEW seen,
           NEW k \in {"approved", "rejected"}, NEW t \in BOOLEAN, k = "rejected" => t = FALSE,
           "admin_kyc_review" \in l.uses
    PROVE  RowFits(l, u, [kyc |-> k, trusted |-> t], seen,
                   <<>>, {}, {})
<1> DEFINE s == [kyc |-> k, trusted |-> t]
<1>1. DOMAIN s = {"kyc", "trusted"} /\ s.kyc = k /\ s.trusted = t
  OBVIOUS
<1> HIDE DEF s
<1>2. PatchTyped(s)
  BY <1>1, Columns DEF PatchTyped, Fields, Reviews
<1>3. HandTyped(<<>>) /\ FitsCodes(s, seen[u], <<>>, {})
  BY <1>1 DEF HandTyped, FitsCodes, Codes, Handouts
<1>4. FitsSanctions(u, s, {}) /\ FitsAuthenticator(s, seen[u], <<>>)
  BY <1>1 DEF FitsSanctions, FitsAuthenticator
<1>5. FitsReview(l, u, s, seen[u], {}) /\ FitsSession(l, s, seen[u]) /\ FitsAdmins(u, s, seen)
  BY <1>1 DEF FitsReview, FitsSession, FitsAdmins
<1>6. QED
  BY <1>2, <1>3, <1>4, <1>5 DEF RowFits, s

LEMMA FitSuspended ==
    ASSUME NEW l, NEW u, NEW seen, seen[u].role \in SelfService
    PROVE  RowFits(l, u, [suspended |-> TRUE, active |-> FALSE, trusted |-> FALSE], seen,
                   <<>>, {}, {<<u, "nira_blacklist">>})
<1> DEFINE s == [suspended |-> TRUE, active |-> FALSE, trusted |-> FALSE]
<1>1. /\ DOMAIN s = {"suspended", "active", "trusted"} /\ s.suspended = TRUE
      /\ s.active = FALSE /\ s.trusted = FALSE
  OBVIOUS
<1> HIDE DEF s
<1>2. PatchTyped(s)
  BY <1>1, Columns DEF PatchTyped, Fields, SelfService
<1>3. HandTyped(<<>>) /\ FitsCodes(s, seen[u], <<>>, {})
  BY <1>1 DEF HandTyped, FitsCodes, Codes, Handouts
<1>4. FitsSanctions(u, s, {<<u, "nira_blacklist">>}) /\ FitsAuthenticator(s, seen[u], <<>>)
  BY <1>1 DEF FitsSanctions, FitsAuthenticator
<1>5. FitsReview(l, u, s, seen[u], {<<u, "nira_blacklist">>}) /\ FitsSession(l, s, seen[u])
      /\ FitsAdmins(u, s, seen)
  BY <1>1 DEF FitsReview, FitsSession, FitsAdmins, SelfService
<1>6. QED
  BY <1>2, <1>3, <1>4, <1>5 DEF RowFits, s

LEMMA FitActive ==
    ASSUME NEW l, NEW u, NEW seen, NEW e \in {{}, {<<u, "nira_unsuspend">>}}
    PROVE  RowFits(l, u, [suspended |-> FALSE, active |-> TRUE], seen,
                   <<>>, {}, e)
<1> DEFINE s == [suspended |-> FALSE, active |-> TRUE]
<1>1. DOMAIN s = {"suspended", "active"} /\ s.suspended = FALSE /\ s.active = TRUE
  OBVIOUS
<1> HIDE DEF s
<1>2. PatchTyped(s)
  BY <1>1, Columns DEF PatchTyped, Fields
<1>3. HandTyped(<<>>) /\ FitsCodes(s, seen[u], <<>>, {})
  BY <1>1 DEF HandTyped, FitsCodes, Codes, Handouts
<1>4. FitsSanctions(u, s, e) /\ FitsAuthenticator(s, seen[u], <<>>)
  BY <1>1 DEF FitsSanctions, FitsAuthenticator
<1>5. FitsReview(l, u, s, seen[u], e) /\ FitsSession(l, s, seen[u]) /\ FitsAdmins(u, s, seen)
  BY <1>1 DEF FitsReview, FitsSession, FitsAdmins
<1>6. QED
  BY <1>2, <1>3, <1>4, <1>5 DEF RowFits, s

LEMMA FitDisconnected ==
    ASSUME NEW l, NEW u, NEW seen, NEW a \in Users \ {u}, CanAct(seen[a])
    PROVE  RowFits(l, u, [active |-> FALSE, refresh |-> 0, trusted |-> FALSE], seen,
                   <<>>, {}, {})
<1> DEFINE s == [active |-> FALSE, refresh |-> 0, trusted |-> FALSE]
<1>1. /\ DOMAIN s = {"active", "refresh", "trusted"} /\ s.active = FALSE /\ s.refresh = 0
      /\ s.trusted = FALSE
  OBVIOUS
<1> HIDE DEF s
<1>2. PatchTyped(s)
  BY <1>1, NoDraw, Columns DEF PatchTyped, Fields
<1>3. HandTyped(<<>>) /\ FitsCodes(s, seen[u], <<>>, {})
  BY <1>1 DEF HandTyped, FitsCodes, Codes, Handouts
<1>4. FitsSanctions(u, s, {}) /\ FitsAuthenticator(s, seen[u], <<>>)
  BY <1>1 DEF FitsSanctions, FitsAuthenticator
<1>5. FitsReview(l, u, s, seen[u], {}) /\ FitsSession(l, s, seen[u]) /\ FitsAdmins(u, s, seen)
  BY <1>1 DEF FitsReview, FitsSession, FitsAdmins
<1>6. QED
  BY <1>2, <1>3, <1>4, <1>5 DEF RowFits, s

LEMMA FitRole ==
    ASSUME NEW l, NEW u, NEW seen, NEW p \in SelfService, "update_me" \in l.uses
    PROVE  RowFits(l, u, [role |-> p], seen,
                   <<>>, {}, {})
<1> DEFINE s == [role |-> p]
<1>1. DOMAIN s = {"role"} /\ s.role = p
  OBVIOUS
<1> HIDE DEF s
<1>2. PatchTyped(s)
  BY <1>1, Columns DEF PatchTyped, Fields, Roles
<1>3. HandTyped(<<>>) /\ FitsCodes(s, seen[u], <<>>, {})
  BY <1>1 DEF HandTyped, FitsCodes, Codes, Handouts
<1>4. FitsSanctions(u, s, {}) /\ FitsAuthenticator(s, seen[u], <<>>)
  BY <1>1 DEF FitsSanctions, FitsAuthenticator
<1>5. FitsReview(l, u, s, seen[u], {}) /\ FitsSession(l, s, seen[u]) /\ FitsAdmins(u, s, seen)
  BY <1>1 DEF FitsReview, FitsSession, FitsAdmins
<1>6. QED
  BY <1>2, <1>3, <1>4, <1>5 DEF RowFits, s

-----------------------------------------------------------------------------
(* Sessions.                                                               *)

\* The phases an update may go on to.
Followed == {"tokens", "mail_otp", "attempt", "audit_2fa", "audit_disconnect", "audit_reconnect"}

OneRow(j) == \E u \in Users : DOMAIN j.set = {u}

Handed(j, u) == IF u \in DOMAIN j.hand THEN j.hand[u] ELSE <<>>

Update(l, j) ==
    /\ DOMAIN j.set \subseteq Users /\ DOMAIN j.hand \subseteq DOMAIN j.set
    /\ j.seen \in [Users -> Row]
    /\ j.spend \subseteq Draw /\ j.log \subseteq (DOMAIN j.set) \X LogActions
    /\ j.then \in {"idle", "queue"} \cup Followed
    /\ j.then \in Followed => OneRow(j)
    /\ \A u \in DOMAIN j.set : RowFits(l, u, j.set[u], j.seen, Handed(j, u), j.spend, j.log)
    /\ j.spend # {} \/ j.log # {} \/ (\E u \in DOMAIN j.set : "active" \in DOMAIN j.set[u]) =>
          OneRow(j)

NewAccount(role, d) == [Absent EXCEPT !.row = "live", !.role = role, !.verify = d]

Insertion(j) ==
    \E u \in Users, role \in {"tenant", "landlord"}, d \in Draw \ {0} :
       /\ j.set = One(u, NewAccount(role, d))
       /\ j.hand = One(u, [verify |-> d])
       /\ j.then \in {"idle", "privy_confirm"}

\* What a request may hold in each phase.
Stands(l, p, j) ==
    /\ p \in {"idle", "save", "insert", "queue", "invite", "expire", "accept", "anchor",
              "delete_links", "delete_row", "clear_reset", "privy_confirm",
              "repeat_2fa"} \cup Followed
    /\ p = "save" => Update(l, j)
    /\ p = "insert" => Insertion(j)
    /\ p \in Followed \cup {"privy_confirm", "anchor", "delete_links", "delete_row", "clear_reset",
                            "accept", "repeat_2fa"} =>
          OneRow(j)
    /\ p = "clear_reset" => \E d \in Draw \ {0} : j.spend = {d}
    /\ p \in {"accept", "expire"} => j.invitation \in Invitations
    /\ p = "expire" => DOMAIN j.set = {}
    /\ p = "invite" =>
          /\ j.invitation \in Invitations /\ j.email \in Addresses /\ j.token \in Draw
          /\ DOMAIN j.set = {}
    /\ p = "queue" => DOMAIN j.set \subseteq Users

PeopleTyped ==
    /\ load \in Workloads
    /\ DOMAIN pc = Workers /\ DOMAIN job = Workers
    /\ TypeOK
    /\ \A w \in Workers : Stands(load, pc[w], job[w])

-----------------------------------------------------------------------------
(* The inductive invariant, a part for each thing that may go wrong.       *)

Inserting(w) == pc[w] \in {"insert", "accept"}

\* Only an insert is of a row that is not there, and of one no other request
\* is about; an invitation is inserted once.
Claimed ==
    /\ \A w \in Workers : Busy(w) => \A u \in DOMAIN job[w].set :
          user[u].row = "absent" <=> Inserting(w)
    /\ \A v, w \in Workers : Inserting(v) /\ Inserting(w) =>
          \A u \in DOMAIN job[v].set : u \in DOMAIN job[w].set => v = w
    /\ \A w \in Workers : pc[w] = "invite" =>
          /\ invitation[job[w].invitation].status = "absent"
          /\ \A v \in Workers : pc[v] = "invite" /\ job[v].invitation = job[w].invitation => v = w
    /\ \A w \in Workers : pc[w] \in {"accept", "expire"} =>
          /\ invitation[job[w].invitation].status # "absent"
          /\ \A u \in DOMAIN job[w].set : EmailOf[u] = invitation[job[w].invitation].email

Alone == ~load.overlap => \A v, w \in Workers : Busy(v) /\ Busy(w) => v = w

\* What one request at a time has read is still so.
Current ==
    ~load.overlap => \A w \in Workers :
       /\ pc[w] = "save" => job[w].seen = user
       /\ pc[w] \in {"save", "tokens", "mail_otp", "privy_confirm", "anchor"} =>
             \A u \in DOMAIN job[w].set : Live(u)
       /\ (pc[w] = "save" /\ job[w].then = "tokens") \/ pc[w] \in {"tokens", "privy_confirm"} =>
             \A u \in DOMAIN job[w].set : user[u].active = TRUE
       /\ pc[w] = "save" /\ job[w].then = "tokens" =>
             \A u \in DOMAIN job[w].set : "active" \notin DOMAIN job[w].set[u]
       /\ pc[w] \in {"delete_links", "delete_row"} =>
             \A u \in DOMAIN job[w].set : \E a \in Users \ {u} : CanAct(user[a])

\* An account with documents is a landlord's, an agent's or a tenant's.
SelfServed ==
    /\ \A u \in Users : user[u].kyc = "pending" => user[u].role \in SelfService
    /\ \A w \in Workers : pc[w] = "save" => \A u \in DOMAIN job[w].set :
          job[w].seen[u].role \in SelfService => user[u].role \in SelfService
    /\ \A w \in Workers : pc[w] = "anchor" =>
          \A u \in DOMAIN job[w].set : user[u].role \in SelfService

-----------------------------------------------------------------------------
(* What a step is.                                                         *)

\* A step of one worker leaves the others where they were.
Moved(w) ==
    /\ DOMAIN pc' = Workers /\ DOMAIN job' = Workers
    /\ \A v \in Workers : v # w => pc'[v] = pc[v] /\ job'[v] = job[v]
    /\ load' = load

LEMMA Goes ==
    ASSUME PeopleTyped, NEW w \in Workers, NEW p, NEW j, Goto(w, p, j)
    PROVE  Moved(w) /\ pc'[w] = p /\ job'[w] = j
BY DEF PeopleTyped, Goto, Moved

LEMMA Responds ==
    ASSUME PeopleTyped, NEW w \in Workers, Respond(w)
    PROVE  Moved(w) /\ pc'[w] = "idle"
BY Goes DEF Respond

\* A request comes in, or goes on.
Comes(w) == Busy(w) \/ load.overlap \/ \A v \in Workers : ~Busy(v)

\* What it holds then.
OpensRows(w) ==
    /\ Stands(load, pc'[w], job'[w])
    /\ pc'[w] = "save" => job'[w].seen = user
    /\ \A u \in DOMAIN job'[w].set : user[u].row = "absent" <=> pc'[w] \in {"insert", "accept"}
    /\ pc'[w] \in {"insert", "accept"} =>
          \A v \in Workers : Busy(v) => \A u \in DOMAIN job'[w].set : u \notin DOMAIN job[v].set
    /\ load.overlap \/ \A u \in DOMAIN job'[w].set :
          /\ pc'[w] \in {"save", "anchor"} => Live(u)
          /\ pc'[w] = "save" /\ job'[w].then = "tokens" =>
                user[u].active = TRUE /\ "active" \notin DOMAIN job'[w].set[u]
          /\ pc'[w] = "delete_links" => \E a \in Users \ {u} : CanAct(user[a])
    /\ pc'[w] = "anchor" => \A u \in DOMAIN job'[w].set : user[u].role \in SelfService
    /\ pc'[w] = "repeat_2fa" =>
          \A u \in DOMAIN job'[w].set : <<u, "gov_2fa_verified">> \in log

OpensInvitation(w) ==
    /\ pc'[w] = "invite" =>
          /\ invitation[job'[w].invitation].status = "absent"
          /\ ~Invited(job'[w].email)
          /\ \A v \in Workers : pc[v] = "invite" => job[v].invitation # job'[w].invitation
    /\ pc'[w] \in {"accept", "expire"} =>
          /\ Pending(job'[w].invitation)
          /\ \A u \in DOMAIN job'[w].set : EmailOf[u] = invitation[job'[w].invitation].email

\* A code it writes is the one just drawn, and one it spends is on its row.
OpensCodes(w) ==
    /\ pc'[w] \in {"save", "insert"} => \A u \in DOMAIN job'[w].set, f \in Codes :
          f \in DOMAIN job'[w].set[u] /\ job'[w].set[u][f] # 0 =>
             /\ draws' = New /\ job'[w].set[u][f] = New
             /\ \A v \in DOMAIN job'[w].set, g \in Codes :
                   g \in DOMAIN job'[w].set[v] /\ job'[w].set[v][g] # 0 => v = u /\ g = f
    /\ pc'[w] = "clear_reset" => \A u \in DOMAIN job'[w].set :
          user[u].reset # 0 /\ job'[w].spend = {user[u].reset}

OpensDocuments(w) ==
    /\ pc'[w] # "anchor" => docs' = docs
    /\ pc'[w] = "anchor" => \A u \in Users : u \notin DOMAIN job'[w].set => docs'[u] = docs[u]
    /\ pc'[w] = "save" => \A u \in DOMAIN job'[w].set :
          "manifest" \in DOMAIN job'[w].set[u] => job'[w].set[u].manifest = docs[u]
    /\ pc[w] = "anchor" => pc'[w] = "save" /\ \A u \in DOMAIN job[w].set :
          u \in DOMAIN job'[w].set /\ "manifest" \in DOMAIN job'[w].set[u]

Opened == {"save", "insert", "clear_reset", "anchor", "invite", "expire", "accept",
           "delete_links", "repeat_2fa"}

Opens(w) ==
    /\ Moved(w) /\ Comes(w) /\ pc'[w] \in Opened
    /\ pc[w] \in {"idle", "privy_confirm", "tokens", "mail_otp", "anchor", "queue"}
    /\ UNCHANGED <<user, given, spent, log, invitation>>
    /\ draws' \in Draw /\ draws' >= draws /\ lapsed' = lapsed
    /\ docs' \in [Users -> Draw]
    /\ OpensRows(w) /\ OpensInvitation(w) /\ OpensCodes(w) /\ OpensDocuments(w)

LEMMA OneDomain ==
    ASSUME NEW u, NEW s
    PROVE  DOMAIN One(u, s) = {u} /\ One(u, s)[u] = s
BY DEF One

\* Owner is the one row of a session that has one.
LEMMA Owns ==
    ASSUME NEW w \in Workers, OneRow(job[w])
    PROVE  /\ Owner(w) \in Users
           /\ DOMAIN job[w].set = {Owner(w)}
<1>1. PICK u \in Users : DOMAIN job[w].set = {u}
  BY DEF OneRow
<1>2. Owner(w) = u
  BY <1>1 DEF Owner
<1>3. QED
  BY <1>1, <1>2

\* A new update of one row.
Writes(w, u, s, h, x, e, t) ==
    /\ Moved(w) /\ pc'[w] = "save"
    /\ job'[w].set = One(u, s) /\ job'[w].seen = user
    /\ job'[w].hand = One(u, h) \/ (job'[w].hand = <<>> /\ h = <<>>)
    /\ job'[w].spend = x /\ job'[w].log = e /\ job'[w].then = t

LEMMA Assigns ==
    ASSUME PeopleTyped, NEW w \in Workers, NEW u, NEW s, NEW h, NEW x, NEW t,
           Assign(w, u, s, h, x, t)
    PROVE  Writes(w, u, s, h, x, {}, t)
<1> DEFINE j == [Session EXCEPT !.set = One(u, s), !.hand = One(u, h), !.spend = x,
                               !.then = t]
<1>1. Moved(w) /\ pc'[w] = "save" /\ job'[w] = j
  BY Goes DEF Assign
<1>2. /\ j.set = One(u, s) /\ j.seen = user /\ j.hand = One(u, h) /\ j.spend = x
      /\ j.log = {} /\ j.then = t
  BY DEF Session
<1>3. QED
  BY <1>1, <1>2 DEF Writes

LEMMA Decides ==
    ASSUME PeopleTyped, NEW w \in Workers, NEW u, NEW s, NEW e, Decide(w, u, s, e)
    PROVE  Writes(w, u, s, <<>>, {}, {<<u, e>>}, "idle")
<1> DEFINE j == [Session EXCEPT !.set = One(u, s), !.log = {<<u, e>>}]
<1>1. Moved(w) /\ pc'[w] = "save" /\ job'[w] = j
  BY Goes DEF Decide
<1>2. /\ j.set = One(u, s) /\ j.seen = user /\ j.hand = <<>> /\ j.spend = {}
      /\ j.log = {<<u, e>>} /\ j.then = "idle"
  BY DEF Session
<1>3. QED
  BY <1>1, <1>2 DEF Writes

LEMMA WritesStand ==
    ASSUME PeopleTyped, NEW w \in Workers, NEW u \in Users, NEW s, NEW h, NEW x, NEW e, NEW t,
           Writes(w, u, s, h, x, e, t), RowFits(load, u, s, user, h, x, e),
           x \subseteq Draw, e \subseteq {u} \X LogActions, t \in {"idle"} \cup Followed
    PROVE  Stands(load, pc'[w], job'[w])
<1> DEFINE j == job'[w]
<1>1. /\ j.set = One(u, s) /\ j.seen = user /\ j.spend = x /\ j.log = e /\ j.then = t
      /\ pc'[w] = "save"
  BY DEF Writes
<1>2. DOMAIN j.set = {u} /\ j.set[u] = s
  BY <1>1 DEF One
<1>3. DOMAIN j.hand \subseteq {u} /\ Handed(j, u) = h
  <2>1. CASE j.hand = One(u, h)
    BY <2>1 DEF Handed, One
  <2>2. CASE j.hand = <<>> /\ h = <<>>
    BY <2>2 DEF Handed
  <2>3. QED
    BY <2>1, <2>2 DEF Writes
<1>4. j.seen \in [Users -> Row]
  BY <1>1 DEF PeopleTyped, TypeOK, AccountsTypeOK
<1> HIDE DEF j
<1>5. OneRow(j)
  BY <1>2 DEF OneRow
<1>6. Update(load, j)
  BY <1>1, <1>2, <1>3, <1>4, <1>5 DEF Update
<1>7. QED
  BY <1>1, <1>6 DEF Stands, j, Followed

\* It is of a row that is there, writes no code but the one just drawn, and of
\* documents those that are on disk.
Proper(w, u, s, h, x, e, t) ==
    /\ Writes(w, u, s, h, x, e, t) /\ RowFits(load, u, s, user, h, x, e)
    /\ Comes(w) /\ pc[w] \in {"idle", "privy_confirm", "tokens", "mail_otp", "anchor"}
    /\ UNCHANGED <<user, given, spent, lapsed, log, invitation, docs>>
    /\ draws' \in Draw /\ draws' >= draws
    /\ x \subseteq Draw /\ e \subseteq {u} \X LogActions /\ t \in {"idle"} \cup Followed
    /\ user[u].row # "absent" /\ (load.overlap \/ Live(u))
    /\ t = "tokens" => load.overlap \/ (user[u].active = TRUE /\ "active" \notin DOMAIN s)
    /\ \A f \in Codes : f \in DOMAIN s /\ s[f] # 0 =>
          draws' = New /\ s = [g \in {f} |-> New]
    /\ "manifest" \in DOMAIN s => s.manifest = docs[u]
    /\ pc[w] = "anchor" => DOMAIN job[w].set = {u} /\ "manifest" \in DOMAIN s

LEMMA OpensOne ==
    ASSUME PeopleTyped,
           NEW w \in Workers, NEW u \in Users, NEW s, NEW h, NEW x, NEW e, NEW t,
           Proper(w, u, s, h, x, e, t)
    PROVE  Opens(w)
<1> USE DEF Proper
<1> DEFINE j == job'[w]
<1>1. j.set = One(u, s) /\ j.seen = user /\ j.then = t /\ pc'[w] = "save" /\ Moved(w)
  BY DEF Writes
<1>2. DOMAIN j.set = {u} /\ j.set[u] = s
  BY <1>1 DEF One
<1>3. Stands(load, pc'[w], j)
  BY WritesStand
<1> HIDE DEF j
<1>4. OpensRows(w)
  BY <1>1, <1>2, <1>3 DEF OpensRows, j
<1>5. OpensInvitation(w)
  BY <1>1 DEF OpensInvitation
<1>6. OpensCodes(w)
  <2>1. ASSUME NEW f \in Codes, f \in DOMAIN s, s[f] # 0
        PROVE  draws' = New /\ s[f] = New /\ DOMAIN s = {f}
    BY <2>1
  <2>2. QED
    BY <1>1, <1>2, <2>1 DEF OpensCodes, j
<1>7. OpensDocuments(w)
  BY <1>1, <1>2 DEF OpensDocuments, j
<1>8. QED
  BY <1>1, <1>4, <1>5, <1>6, <1>7 DEF Opens, Opened, PeopleTyped, TypeOK

-----------------------------------------------------------------------------
(* Every request as it opens an update.                                    *)

LEMMA DrawnNew ==
    ASSUME PeopleTyped, Drawn
    PROVE  New \in Draw \ {0} /\ draws' = New /\ draws' \in Draw /\ draws' >= draws
<1>1. draws \in 0 .. MaxDraws /\ load.draws \in 0 .. MaxDraws
  BY SeedAssumption DEF PeopleTyped, TypeOK, AccountsTypeOK, Draw
<1>2. QED
  BY <1>1 DEF Drawn, New, Draw

LEMMA Stays ==
    ASSUME PeopleTyped, draws' = draws
    PROVE  draws' \in Draw /\ draws' >= draws
BY DEF PeopleTyped, TypeOK, AccountsTypeOK, Draw

LEMMA ComesIn ==
    ASSUME NEW w, NEW h, Ready(w, h)
    PROVE  Comes(w) /\ pc[w] = "idle" /\ h \in load.uses
BY DEF Ready, Served, Comes, Busy, Uses

LEMMA GoesOn ==
    ASSUME NEW w, pc[w] # "idle"
    PROVE  Comes(w)
BY DEF Comes, Busy

LEMMA RowTyped ==
    ASSUME PeopleTyped, NEW u \in Users
    PROVE  /\ user[u] \in Row
           /\ \A f \in Codes \cup {"refresh", "secret", "cert", "manifest"} : user[u][f] \in Draw
           /\ docs[u] \in Draw
           /\ Live(u) => user[u].row # "absent"
           /\ TrustOf(u) \in BOOLEAN /\ Moderated(u) \in BOOLEAN
           /\ TrustOf(u) => user[u].role = "tenant" \/ user[u].trusted = TRUE
           /\ user[u].active \in BOOLEAN
<1>1. user[u] \in Row /\ docs[u] \in Draw
  BY DEF PeopleTyped, TypeOK, AccountsTypeOK
<1>2. \A f \in Codes \cup {"refresh", "secret", "cert", "manifest"} : user[u][f] \in Draw
  BY <1>1 DEF Row, Codes
<1>3. user[u].trusted \in BOOLEAN /\ user[u].active \in BOOLEAN
  BY <1>1 DEF Row
<1>4. TrustOf(u) \in BOOLEAN /\ Moderated(u) \in BOOLEAN
  BY DEF TrustOf, Moderated
<1>5. TrustOf(u) => user[u].role = "tenant" \/ user[u].trusted = TRUE
  BY <1>3 DEF TrustOf
<1>6. Live(u) => user[u].row # "absent"
  BY DEF Live
<1>7. QED
  BY <1>1, <1>2, <1>3, <1>4, <1>5, <1>6

\* The tables an update leaves alone until it is saved.
Untouched == UNCHANGED <<user, given, spent, lapsed, log, invitation, docs>>

\* MailCode, and the code of a sign-in at the portal.
LEMMA CodeOpens ==
    ASSUME PeopleTyped, NEW w \in Workers, NEW u \in Users, NEW f \in Codes,
           NEW t \in {"idle", "attempt"},
           Comes(w), pc[w] \in {"idle", "mail_otp"},
           user[u].row # "absent", load.overlap \/ Live(u), Untouched, Drawn,
           Assign(w, u, NewCode(u, f), [g \in {f} |-> New], {}, t)
    PROVE  Opens(w)
<1> DEFINE s == [g \in {f} |-> New]
<1>1. New \in Draw \ {0} /\ draws' = New /\ draws' \in Draw /\ draws' >= draws
  BY DrawnNew
<1>2. Writes(w, u, s, s, {}, {}, t)
  BY Assigns DEF NewCode
<1>3. RowFits(load, u, s, user, s, {}, {})
  <2>1. DOMAIN s = {f} /\ s[f] = New
    OBVIOUS
  <2> HIDE DEF s
  <2>2. QED
    BY <1>1, <2>1, FitCode
<1>4. \A g \in Codes : g \in DOMAIN s /\ s[g] # 0 => draws' = New /\ s = [k \in {g} |-> New]
  BY <1>1
<1>5. "manifest" \notin DOMAIN s
  BY DEF Codes
<1>6. t # "tokens" /\ t \in {"idle"} \cup Followed
  BY DEF Followed
<1> HIDE DEF s
<1>7. Proper(w, u, s, s, {}, {}, t)
  BY <1>1, <1>2, <1>3, <1>4, <1>5, <1>6 DEF Proper, Untouched
<1>8. QED
  BY <1>7, OpensOne

LEMMA MailOpens ==
    ASSUME PeopleTyped, NEW w \in Workers, NEW u \in Users, NEW f \in Codes, NEW h,
           Ready(w, h), MailCode(w, u, f), UNCHANGED <<invitation, docs>>
    PROVE  Opens(w)
BY ComesIn, RowTyped, CodeOpens DEF MailCode, Untouched

LEMMA OtpOpens ==
    ASSUME PeopleTyped, Claimed, Current, NEW w \in Workers, MailOtp(w), docs' = docs
    PROVE  Opens(w)
<1> DEFINE u == Owner(w)
<1>1. u \in Users /\ DOMAIN job[w].set = {u}
  BY Owns DEF MailOtp, PeopleTyped, Stands, Followed
<1>2. user[u].row # "absent" /\ (load.overlap \/ Live(u))
  BY <1>1 DEF MailOtp, Claimed, Current, Busy, Inserting
<1>3. [otp |-> New] = [g \in {"otp"} |-> New]
  OBVIOUS
<1>4. Untouched /\ Drawn /\ pc[w] = "mail_otp"
      /\ Assign(w, u, NewCode(u, "otp"), [g \in {"otp"} |-> New], {}, "attempt")
  BY <1>3 DEF MailOtp, Untouched
<1> HIDE DEF u
<1>5. QED
  BY <1>1, <1>2, <1>4, GoesOn, CodeOpens DEF Codes

\* create_tokens, whichever way the account signed in.
LEMMA TokensOpen ==
    ASSUME PeopleTyped, NEW w \in Workers, NEW u \in Users, NEW t \in {"idle", "mail_otp"},
           Comes(w), pc[w] \in {"idle", "tokens"},
           user[u].row # "absent", load.overlap \/ Live(u),
           load.overlap \/ user[u].active = TRUE \/ "verify_totp" \in load.uses,
           Drawn, Assign(w, u, [refresh |-> New], <<>>, {}, t), Untouched
    PROVE  Opens(w)
<1> DEFINE s == [refresh |-> New]
<1>1. New \in Draw \ {0} /\ draws' = New /\ draws' \in Draw /\ draws' >= draws
  BY DrawnNew
<1>2. Writes(w, u, s, <<>>, {}, {}, t)
  BY Assigns
<1>3. RowFits(load, u, s, user, <<>>, {}, {})
  BY <1>1, FitRefresh
<1>4. \A f \in Codes : f \notin DOMAIN s
  BY DEF Codes
<1>5. "manifest" \notin DOMAIN s
  OBVIOUS
<1>6. t # "tokens" /\ t \in {"idle"} \cup Followed
  BY DEF Followed
<1> HIDE DEF s
<1>7. Proper(w, u, s, <<>>, {}, {}, t)
  BY <1>1, <1>2, <1>3, <1>4, <1>5, <1>6 DEF Proper, Untouched
<1>8. QED
  BY <1>7, OpensOne

LEMMA SignInOpens ==
    ASSUME PeopleTyped, NEW w \in Workers, NEW u \in Users, UNCHANGED <<invitation, docs>>,
           Login(w, u) \/ VerifyTotp(w, u) \/ Refresh(w, u) \/ PortalLogin(w, u)
    PROVE  Opens(w)
<1>1. user[u].active \in BOOLEAN
  BY RowTyped
<1>2. CASE Login(w, u) \/ Refresh(w, u) \/ VerifyTotp(w, u)
  <2>1. /\ Comes(w) /\ pc[w] = "idle" /\ Live(u) /\ Tokens(w, u)
        /\ user[u].active = TRUE \/ "verify_totp" \in load.uses
    BY <1>1, <1>2, ComesIn DEF Login, MaySignIn, VerifyTotp, Refresh
  <2>2. Drawn /\ Assign(w, u, [refresh |-> New], <<>>, {}, "idle") /\ Untouched
    BY <2>1 DEF Tokens, Untouched
  <2>3. QED
    BY <2>1, <2>2, RowTyped, TokensOpen
<1>3. CASE PortalLogin(w, u)
  <2>1. /\ Comes(w) /\ pc[w] = "idle" /\ Live(u) /\ user[u].active = TRUE
        /\ Drawn /\ Assign(w, u, [refresh |-> New], <<>>, {}, "mail_otp") /\ Untouched
    BY <1>1, <1>3, ComesIn DEF PortalLogin, PortalUser, Untouched
  <2>2. QED
    BY <2>1, RowTyped, TokensOpen
<1>4. QED
  BY <1>2, <1>3

LEMMA SocialTokensOpen ==
    ASSUME PeopleTyped, Claimed, Current, NEW w \in Workers, SocialTokens(w),
           UNCHANGED <<invitation, docs>>
    PROVE  Opens(w)
<1> DEFINE u == Owner(w)
<1>1. u \in Users /\ DOMAIN job[w].set = {u}
  BY Owns DEF SocialTokens, PeopleTyped, Stands, Followed
<1>2. /\ user[u].row # "absent" /\ (load.overlap \/ Live(u))
      /\ load.overlap \/ user[u].active = TRUE
  BY <1>1 DEF SocialTokens, Claimed, Current, Busy, Inserting
<1>3. /\ Drawn /\ Assign(w, u, [refresh |-> New], <<>>, {}, "idle") /\ Untouched
      /\ pc[w] = "tokens"
  BY DEF SocialTokens, Tokens, Untouched
<1> HIDE DEF u
<1>4. QED
  BY <1>1, <1>2, <1>3, GoesOn, TokensOpen


\* An update that draws no code, of a row that was read.
LEMMA PlainOpens ==
    ASSUME PeopleTyped, Untouched, draws' \in Draw, draws' >= draws,
           NEW w \in Workers, NEW u \in Users, NEW s, NEW h, NEW x, NEW e, NEW t, NEW p,
           Ready(w, p), Live(u),
           Writes(w, u, s, h, x, e, t), RowFits(load, u, s, user, h, x, e),
           x \subseteq Draw, e \subseteq {u} \X LogActions,
           t \in {"idle", "audit_2fa", "audit_disconnect", "audit_reconnect"},
           \A f \in Codes : f \in DOMAIN s => s[f] = 0,
           "manifest" \in DOMAIN s => s.manifest = docs[u]
    PROVE  Opens(w)
<1>1. Comes(w) /\ pc[w] = "idle"
  BY ComesIn
<1>2. user[u].row # "absent"
  BY DEF Live
<1>3. t # "tokens" /\ t \in {"idle"} \cup Followed
  BY DEF Followed
<1>4. Proper(w, u, s, h, x, e, t)
  BY <1>1, <1>2, <1>3 DEF Proper, Untouched
<1>5. QED
  BY <1>4, OpensOne

LEMMA VerifyOpens ==
    ASSUME PeopleTyped, NEW w \in Workers, NEW u \in Users, UNCHANGED <<invitation, docs>>,
           VerifyEmail(w, u)
    PROVE  Opens(w)
<1> DEFINE t == TrustOf(u)
           s == [verified |-> TRUE, verify |-> 0, trusted |-> t]
<1>1. t \in BOOLEAN /\ (t => user[u].role = "tenant" \/ user[u].trusted = TRUE)
      /\ user[u].verify \in Draw
  BY RowTyped DEF Codes
<1>2. /\ Ready(w, "verify_email") /\ Live(u) /\ user[u].verify # 0 /\ Untouched
      /\ draws' = draws /\ Assign(w, u, VerifiedRow(u), <<>>, {user[u].verify}, "idle")
  BY DEF VerifyEmail, Untouched, accounts
<1>3. Writes(w, u, s, <<>>, {user[u].verify}, {}, "idle")
  BY <1>2, Assigns DEF VerifiedRow
<1> HIDE DEF t
<1>4. RowFits(load, u, s, user, <<>>, {user[u].verify}, {})
  BY <1>1, <1>2, FitVerified
<1>5. /\ \A f \in Codes : f \in DOMAIN s => s[f] = 0
      /\ "manifest" \notin DOMAIN s
  BY DEF Codes
<1> HIDE DEF s
<1>6. {user[u].verify} \subseteq Draw
  BY <1>1
<1>7. QED
  BY <1>2, <1>3, <1>4, <1>5, <1>6, Stays, PlainOpens

LEMMA LogoutOpens ==
    ASSUME PeopleTyped, NEW w \in Workers, NEW u \in Users, UNCHANGED <<invitation, docs>>,
           Logout(w, u)
    PROVE  Opens(w)
<1> DEFINE s == [refresh |-> 0]
<1>1. /\ Ready(w, "logout") /\ Live(u) /\ Untouched /\ draws' = draws
      /\ Assign(w, u, s, <<>>, {}, "idle")
  BY DEF Logout, Untouched, accounts
<1>2. Writes(w, u, s, <<>>, {}, {}, "idle")
  BY <1>1, Assigns
<1>3. RowFits(load, u, s, user, <<>>, {}, {})
  BY NoDraw, FitRefresh
<1>4. \A f \in Codes \cup {"manifest"} : f \notin DOMAIN s
  BY DEF Codes
<1> HIDE DEF s
<1>5. QED
  BY <1>1, <1>2, <1>3, <1>4, Stays, PlainOpens

LEMMA OtpGivenOpens ==
    ASSUME PeopleTyped, NEW w \in Workers, NEW u \in Users, VerifyOtp(w, u), docs' = docs
    PROVE  Opens(w)
<1> DEFINE s == [otp |-> 0]
<1>1. /\ Ready(w, "verify_2fa") /\ Live(u) /\ Untouched /\ draws' = draws /\ user[u].otp # 0
      /\ Assign(w, u, s, <<>>, {user[u].otp}, "audit_2fa")
  BY DEF VerifyOtp, CodeUser, OtpAccepted, Untouched, accounts
<1>2. Writes(w, u, s, <<>>, {user[u].otp}, {}, "audit_2fa")
  BY <1>1, Assigns
<1>3. RowFits(load, u, s, user, <<>>, {user[u].otp}, {})
  BY <1>1, FitOtpGiven
<1>4. (\A f \in Codes : f \in DOMAIN s => s[f] = 0) /\ "manifest" \notin DOMAIN s
  BY DEF Codes
<1> HIDE DEF s
<1>5. {user[u].otp} \subseteq Draw
  BY RowTyped DEF Codes
<1>6. QED
  BY <1>1, <1>2, <1>3, <1>4, <1>5, Stays, PlainOpens

LEMMA AuthenticatorOpens ==
    ASSUME PeopleTyped, NEW w \in Workers, NEW u \in Users, UNCHANGED <<invitation, docs>>,
           TotpSetup(w, u) \/ TotpEnable(w, u) \/ TotpDisable(w, u)
    PROVE  Opens(w)
<1>1. CASE TotpSetup(w, u)
  <2> DEFINE s == [secret |-> New, totp |-> FALSE]
             h == [secret |-> New]
  <2>1. New \in Draw /\ draws' \in Draw /\ draws' >= draws
    BY <1>1, DrawnNew DEF TotpSetup
  <2>2. /\ Ready(w, "totp_setup") /\ Live(u) /\ Untouched
        /\ Assign(w, u, s, h, {}, "idle")
    BY <1>1 DEF TotpSetup, NewSecret, Untouched
  <2>3. Writes(w, u, s, h, {}, {}, "idle")
    BY <2>2, Assigns
  <2>4. RowFits(load, u, s, user, h, {}, {})
    BY <2>1, FitSecret
  <2>5. \A f \in Codes \cup {"manifest"} : f \notin DOMAIN s
    BY DEF Codes
  <2> HIDE DEF s, h
  <2>6. QED
    BY <2>1, <2>2, <2>3, <2>4, <2>5, PlainOpens
<1>2. CASE TotpEnable(w, u)
  <2> DEFINE s == [totp |-> TRUE]
             d == given[u].secret
             h == [confirmed |-> d]
  <2>1. /\ Ready(w, "totp_enable") /\ Live(u) /\ Untouched /\ draws' = draws
        /\ d # 0 /\ d = user[u].secret
        /\ Assign(w, u, s, h, {}, "idle")
    BY <1>2 DEF TotpEnable, Knows, Untouched, accounts
  <2>2. Writes(w, u, s, h, {}, {}, "idle")
    BY <2>1, Assigns
  <2>3. d \in Draw
    BY <2>1, RowTyped
  <2>4. RowFits(load, u, s, user, h, {}, {})
    BY <2>1, <2>3, FitEnabled
  <2>5. \A f \in Codes \cup {"manifest"} : f \notin DOMAIN s
    BY DEF Codes
  <2> HIDE DEF s, h
  <2>6. QED
    BY <2>1, <2>2, <2>4, <2>5, Stays, PlainOpens
<1>3. CASE TotpDisable(w, u)
  <2> DEFINE s == [totp |-> FALSE, secret |-> 0]
  <2>1. /\ Ready(w, "totp_disable") /\ Live(u) /\ Untouched /\ draws' = draws
        /\ Assign(w, u, s, <<>>, {}, "idle")
    BY <1>3 DEF TotpDisable, Untouched, accounts
  <2>2. Writes(w, u, s, <<>>, {}, {}, "idle")
    BY <2>1, Assigns
  <2>3. RowFits(load, u, s, user, <<>>, {}, {})
    BY FitDisabled
  <2>4. \A f \in Codes \cup {"manifest"} : f \notin DOMAIN s
    BY DEF Codes
  <2> HIDE DEF s
  <2>5. QED
    BY <2>1, <2>2, <2>3, <2>4, Stays, PlainOpens
<1>4. QED
  BY <1>1, <1>2, <1>3

\* An account that signs in elsewhere goes on to its tokens.
LEMMA VouchedOpens ==
    ASSUME PeopleTyped, NEW w \in Workers, NEW u \in Users, UNCHANGED <<invitation, docs>>,
           Comes(w), pc[w] \in {"idle", "privy_confirm"}, UNCHANGED accounts,
           user[u].row # "absent", load.overlap \/ Live(u),
           load.overlap \/ user[u].active = TRUE,
           \/ Assign(w, u, [verified |-> TRUE, trusted |-> TrustOf(u)], <<>>, {}, "tokens")
           \/ Assign(w, u, <<>>, <<>>, {}, "tokens")
    PROVE  Opens(w)
<1> DEFINE tr == TrustOf(u)
           r == [verified |-> TRUE, trusted |-> tr]
<1>1. tr \in BOOLEAN /\ (tr => user[u].role = "tenant" \/ user[u].trusted = TRUE)
  BY RowTyped
<1>2. Untouched /\ draws' \in Draw /\ draws' >= draws
  BY Stays DEF Untouched, accounts
<1>3. "tokens" \in {"idle"} \cup Followed
  BY DEF Followed
<1>4. CASE Assign(w, u, r, <<>>, {}, "tokens")
  <2>1. Writes(w, u, r, <<>>, {}, {}, "tokens")
    BY <1>4, Assigns
  <2> HIDE DEF tr
  <2>2. RowFits(load, u, r, user, <<>>, {}, {})
    BY <1>1, FitSocial
  <2>3. \A f \in Codes \cup {"manifest", "active"} : f \notin DOMAIN r
    BY DEF Codes
  <2> HIDE DEF r
  <2>4. Proper(w, u, r, <<>>, {}, {}, "tokens")
    BY <1>2, <1>3, <2>1, <2>2, <2>3 DEF Proper, Untouched
  <2>5. QED
    BY <2>4, OpensOne
<1>5. CASE Assign(w, u, <<>>, <<>>, {}, "tokens")
  <2>1. Writes(w, u, <<>>, <<>>, {}, {}, "tokens")
    BY <1>5, Assigns
  <2>2. RowFits(load, u, <<>>, user, <<>>, {}, {})
    BY FitNothing
  <2>3. DOMAIN <<>> = {}
    OBVIOUS
  <2>4. Proper(w, u, <<>>, <<>>, {}, {}, "tokens")
    BY <1>2, <1>3, <2>1, <2>2, <2>3 DEF Proper, Untouched
  <2>5. QED
    BY <2>4, OpensOne
<1>6. QED
  BY <1>4, <1>5

LEMMA SocialOpens ==
    ASSUME PeopleTyped, NEW w \in Workers, NEW u \in Users, NEW vouched \in BOOLEAN,
           SocialSignIn(w, u, vouched), UNCHANGED <<invitation, docs>>
    PROVE  Opens(w)
<1>1. /\ Comes(w) /\ pc[w] = "idle" /\ UNCHANGED accounts /\ Live(u) /\ user[u].active = TRUE
  BY ComesIn, RowTyped DEF SocialSignIn, MaySignIn
<1>2. \/ Assign(w, u, [verified |-> TRUE, trusted |-> TrustOf(u)], <<>>, {}, "tokens")
      \/ Assign(w, u, <<>>, <<>>, {}, "tokens")
  <2>1. CASE vouched
    BY <2>1 DEF SocialSignIn
  <2>2. CASE ~vouched
    BY <2>2 DEF SocialSignIn
  <2>3. QED
    BY <2>1, <2>2
<1>3. QED
  BY <1>1, <1>2, RowTyped, VouchedOpens

LEMMA ConfirmOpens ==
    ASSUME PeopleTyped, Claimed, Current, NEW w \in Workers, PrivyConfirm(w),
           UNCHANGED <<invitation, docs>>
    PROVE  Opens(w)
<1> DEFINE u == Owner(w)
<1>1. u \in Users /\ DOMAIN job[w].set = {u}
  BY Owns DEF PrivyConfirm, PeopleTyped, Stands, Followed
<1>2. /\ user[u].row # "absent" /\ (load.overlap \/ Live(u))
      /\ load.overlap \/ user[u].active = TRUE
  BY <1>1 DEF PrivyConfirm, Claimed, Current, Busy, Inserting
<1>3. /\ Assign(w, u, [verified |-> TRUE, trusted |-> TrustOf(u)], <<>>, {}, "tokens")
      /\ UNCHANGED accounts /\ pc[w] = "privy_confirm"
  BY DEF PrivyConfirm
<1> HIDE DEF u
<1>4. QED
  BY <1>1, <1>2, <1>3, GoesOn, VouchedOpens


\* What opens something else than an update.
LEMMA OtherOpens ==
    ASSUME PeopleTyped, NEW w \in Workers, NEW p, Ready(w, p),
           Moved(w), pc'[w] \in Opened \ {"save", "insert"},
           UNCHANGED <<user, given, spent, lapsed, log, invitation>>,
           draws' \in Draw, draws' >= draws, docs' \in [Users -> Draw],
           OpensRows(w), OpensInvitation(w), OpensDocuments(w),
           pc'[w] = "clear_reset" => \A u \in DOMAIN job'[w].set :
              user[u].reset # 0 /\ job'[w].spend = {user[u].reset}
    PROVE  Opens(w)
<1>1. Comes(w) /\ pc[w] = "idle"
  BY ComesIn
<1>2. OpensCodes(w)
  BY DEF OpensCodes
<1>3. QED
  BY <1>1, <1>2 DEF Opens

LEMMA ResetOpens ==
    ASSUME PeopleTyped, NEW w \in Workers, NEW u \in Users, ResetPassword(w, u),
           UNCHANGED <<invitation, docs>>
    PROVE  Opens(w)
<1> DEFINE j == [Session EXCEPT !.set = One(u, [reset |-> 0]), !.spend = {user[u].reset}]
<1>1. /\ Ready(w, "reset_password") /\ Live(u) /\ user[u].reset # 0 /\ Untouched
      /\ draws' = draws /\ Goto(w, "clear_reset", j)
  BY DEF ResetPassword, Untouched, accounts
<1>2. Moved(w) /\ pc'[w] = "clear_reset" /\ job'[w] = j
  BY <1>1, Goes
<1>3. DOMAIN j.set = {u} /\ j.spend = {user[u].reset}
  BY DEF Session, One
<1> HIDE DEF j
<1>4. user[u].reset \in Draw \ {0} /\ user[u].row # "absent"
  BY <1>1, RowTyped DEF Codes
<1>5. Stands(load, pc'[w], job'[w])
  BY <1>2, <1>3, <1>4 DEF Stands, OneRow, Followed
<1>6. OpensRows(w) /\ OpensInvitation(w)
  BY <1>1, <1>2, <1>3, <1>4, <1>5 DEF OpensRows, OpensInvitation
<1>7. OpensDocuments(w)
  BY <1>1, <1>2, ComesIn DEF OpensDocuments
<1>8. docs' \in [Users -> Draw]
  BY DEF PeopleTyped, TypeOK
<1>9. QED
  BY <1>1, <1>2, <1>3, <1>6, <1>7, <1>8, Stays, OtherOpens DEF Untouched, Opened

LEMMA SignUpOpens ==
    ASSUME PeopleTyped, NEW w \in Workers, NEW u \in Users, NEW role \in {"tenant", "landlord"},
           NEW p, NEW t \in {"idle", "privy_confirm"}, SignUp(w, u, role, p, t),
           UNCHANGED <<invitation, docs>>
    PROVE  Opens(w)
<1> DEFINE r == [Absent EXCEPT !.row = "live", !.role = role, !.verify = New]
           j == [Session EXCEPT !.set = One(u, r), !.hand = One(u, [verify |-> New]), !.then = t]
<1>1. /\ Ready(w, p) /\ Unclaimed(u) /\ Untouched /\ Drawn /\ Goto(w, "insert", j)
  BY DEF SignUp, Untouched
<1>2. Moved(w) /\ pc'[w] = "insert" /\ job'[w] = j
  BY <1>1, Goes
<1>3. New \in Draw \ {0} /\ draws' = New /\ draws' \in Draw /\ draws' >= draws
  BY <1>1, DrawnNew
<1>4. j.set = One(u, r) /\ j.hand = One(u, [verify |-> New]) /\ j.then = t
  BY DEF Session
<1>5. r = NewAccount(role, New)
  BY DEF NewAccount
<1>6. r.verify = New /\ r.reset = 0 /\ r.otp = 0
  BY DEF Absent
<1> HIDE DEF j, r
<1>7. Stands(load, pc'[w], job'[w])
  <2>1. Insertion(j)
    BY <1>3, <1>4, <1>5 DEF Insertion
  <2>2. QED
    BY <1>2, <2>1 DEF Stands, Followed
<1>8. DOMAIN j.set = {u} /\ j.set[u] = r
  BY <1>4 DEF One
<1>9. OpensRows(w)
  BY <1>1, <1>2, <1>7, <1>8 DEF OpensRows, Unclaimed
<1>10. OpensInvitation(w)
  BY <1>2 DEF OpensInvitation
<1>11. OpensCodes(w)
  BY <1>2, <1>3, <1>6, <1>8 DEF OpensCodes, Codes
<1>12. OpensDocuments(w)
  BY <1>1, <1>2, ComesIn DEF OpensDocuments, Untouched
<1>13. docs' \in [Users -> Draw]
  BY DEF PeopleTyped, TypeOK
<1>14. QED
  BY <1>1, <1>2, <1>3, <1>9, <1>10, <1>11, <1>12, <1>13, ComesIn DEF Opens, Opened, Untouched

LEMMA InviteOpens ==
    ASSUME PeopleTyped, NEW w \in Workers, NEW i \in Invitations, NEW a \in Addresses,
           CreateInvitation(w, i, a), docs' = docs
    PROVE  Opens(w)
<1> DEFINE j == [invitation |-> i, email |-> a, token |-> New, set |-> <<>>]
<1>1. /\ Ready(w, "create_invitation") /\ invitation[i].status = "absent" /\ ~Invited(a)
      /\ \A v \in Workers : pc[v] = "invite" => job[v].invitation # i
      /\ Drawn /\ Untouched /\ Goto(w, "invite", j)
  BY DEF CreateInvitation, Untouched
<1>2. Moved(w) /\ pc'[w] = "invite" /\ job'[w] = j
  BY <1>1, Goes
<1>3. New \in Draw \ {0} /\ draws' = New /\ draws' \in Draw /\ draws' >= draws
  BY <1>1, DrawnNew
<1>4. j.invitation = i /\ j.email = a /\ j.token = New /\ DOMAIN j.set = {}
  OBVIOUS
<1> HIDE DEF j
<1>5. Stands(load, pc'[w], job'[w])
  BY <1>2, <1>3, <1>4 DEF Stands, Followed
<1>6. OpensRows(w) /\ OpensInvitation(w)
  BY <1>1, <1>2, <1>4, <1>5 DEF OpensRows, OpensInvitation
<1>7. OpensDocuments(w)
  BY <1>1, <1>2, ComesIn DEF OpensDocuments, Untouched
<1>8. docs' \in [Users -> Draw]
  BY DEF PeopleTyped, TypeOK
<1>9. QED
  BY <1>1, <1>2, <1>3, <1>6, <1>7, <1>8, OtherOpens DEF Untouched, Opened

LEMMA LookOpens ==
    ASSUME PeopleTyped, NEW w \in Workers, NEW i \in Invitations, FindExpired(w, i), docs' = docs
    PROVE  Opens(w)
<1> DEFINE j == [invitation |-> i, set |-> <<>>]
<1>1. /\ Ready(w, "look_at_invitation") /\ draws' = draws /\ Untouched /\ Goto(w, "expire", j)
      /\ Pending(i)
  BY DEF FindExpired, Untouched, accounts
<1>2. Moved(w) /\ pc'[w] = "expire" /\ job'[w] = j
  BY <1>1, Goes
<1>3. j.invitation = i /\ DOMAIN j.set = {}
  OBVIOUS
<1> HIDE DEF j
<1>4. Stands(load, pc'[w], job'[w])
  BY <1>2, <1>3 DEF Stands, Followed
<1>5. OpensRows(w) /\ OpensInvitation(w)
  BY <1>1, <1>2, <1>3, <1>4 DEF OpensRows, OpensInvitation
<1>6. OpensDocuments(w)
  BY <1>1, <1>2, ComesIn DEF OpensDocuments, Untouched
<1>7. docs' \in [Users -> Draw]
  BY DEF PeopleTyped, TypeOK
<1>8. QED
  BY <1>1, <1>2, <1>5, <1>6, <1>7, Stays, OtherOpens DEF Untouched, Opened

LEMMA AcceptOpens ==
    ASSUME PeopleTyped, NEW w \in Workers, NEW i \in Invitations, NEW u \in Users,
           AcceptInvitation(w, i, u), docs' = docs
    PROVE  Opens(w)
<1> DEFINE j == [invitation |-> i, set |-> One(u, <<>>)]
<1>1. /\ Ready(w, "accept_invitation") /\ draws' = draws /\ Untouched /\ Goto(w, "accept", j)
      /\ Pending(i) /\ EmailOf[u] = invitation[i].email /\ Unclaimed(u)
  BY DEF AcceptInvitation, Acceptable, Untouched, accounts
<1>2. Moved(w) /\ pc'[w] = "accept" /\ job'[w] = j
  BY <1>1, Goes
<1>3. j.invitation = i /\ DOMAIN j.set = {u}
  BY DEF One
<1> HIDE DEF j
<1>4. Stands(load, pc'[w], job'[w])
  BY <1>2, <1>3 DEF Stands, Followed, OneRow
<1>5. OpensRows(w) /\ OpensInvitation(w)
  BY <1>1, <1>2, <1>3, <1>4 DEF OpensRows, OpensInvitation, Unclaimed
<1>6. OpensDocuments(w)
  BY <1>1, <1>2, ComesIn DEF OpensDocuments, Untouched
<1>7. docs' \in [Users -> Draw]
  BY DEF PeopleTyped, TypeOK
<1>8. QED
  BY <1>1, <1>2, <1>5, <1>6, <1>7, Stays, OtherOpens DEF Untouched, Opened

LEMMA DeleteOpens ==
    ASSUME PeopleTyped, NEW w \in Workers, NEW actor \in Users, NEW u \in Users,
           DeleteUser(w, actor, u)
    PROVE  Opens(w)
<1> DEFINE j == [Session EXCEPT !.set = One(u, <<>>)]
<1>1. /\ Ready(w, "admin_delete_user") /\ draws' = draws /\ Untouched
      /\ Goto(w, "delete_links", j) /\ Live(u) /\ actor \in Users \ {u} /\ CanAct(user[actor])
  BY RowTyped DEF DeleteUser, MayDelete, ActiveAdmins, Admins, Live, CanAct, Untouched, accounts
<1>2. Moved(w) /\ pc'[w] = "delete_links" /\ job'[w] = j
  BY <1>1, Goes
<1>3. DOMAIN j.set = {u}
  BY DEF Session, One
<1> HIDE DEF j
<1>4. Stands(load, pc'[w], job'[w])
  BY <1>2, <1>3 DEF Stands, Followed, OneRow
<1>5. OpensRows(w) /\ OpensInvitation(w)
  BY <1>1, <1>2, <1>3, <1>4 DEF OpensRows, OpensInvitation, Live
<1>6. OpensDocuments(w)
  BY <1>1, <1>2, ComesIn DEF OpensDocuments, Untouched
<1>7. docs' \in [Users -> Draw]
  BY <1>1 DEF PeopleTyped, TypeOK, Untouched
<1>8. QED
  BY <1>1, <1>2, <1>5, <1>6, <1>7, Stays, OtherOpens DEF Untouched, Opened

\* A request of the portal that finds no code and an entry.
LEMMA RepeatOpens ==
    ASSUME PeopleTyped, NEW w \in Workers, NEW u \in Users, RepeatOtp(w, u), docs' = docs
    PROVE  Opens(w)
<1> DEFINE j == [Session EXCEPT !.set = One(u, <<>>)]
<1>1. /\ Ready(w, "verify_2fa") /\ draws' = draws /\ Untouched
      /\ Goto(w, "repeat_2fa", j) /\ Live(u) /\ <<u, "gov_2fa_verified">> \in log
  BY DEF RepeatOtp, CodeUser, Repeatable, Untouched, accounts
<1>2. Moved(w) /\ pc'[w] = "repeat_2fa" /\ job'[w] = j
  BY <1>1, Goes
<1>3. DOMAIN j.set = {u}
  BY DEF Session, One
<1> HIDE DEF j
<1>4. Stands(load, pc'[w], job'[w])
  BY <1>2, <1>3 DEF Stands, Followed, OneRow
<1>5. OpensRows(w) /\ OpensInvitation(w)
  BY <1>1, <1>2, <1>3, <1>4 DEF OpensRows, OpensInvitation, Live
<1>6. OpensDocuments(w)
  BY <1>1, <1>2, ComesIn DEF OpensDocuments, Untouched
<1>7. docs' \in [Users -> Draw]
  BY <1>1 DEF PeopleTyped, TypeOK, Untouched
<1>8. QED
  BY <1>1, <1>2, <1>5, <1>6, <1>7, Stays, OtherOpens DEF Untouched, Opened

LEMMA UploadOpens ==
    ASSUME PeopleTyped, NEW w \in Workers, NEW u \in Users, UploadKyc(w, u)
    PROVE  Opens(w)
<1> DEFINE j == [Session EXCEPT !.set = One(u, <<>>)]
<1>1. /\ Ready(w, "upload_kyc") /\ Drawn /\ Goto(w, "anchor", j) /\ Live(u)
      /\ user[u].role \in SelfService /\ docs' = [docs EXCEPT ![u] = New]
      /\ UNCHANGED <<user, given, spent, lapsed, log, invitation>>
  BY DEF UploadKyc, Moderated, SelfService
<1>2. Moved(w) /\ pc'[w] = "anchor" /\ job'[w] = j
  BY <1>1, Goes
<1>3. New \in Draw \ {0} /\ draws' = New /\ draws' \in Draw /\ draws' >= draws
  BY <1>1, DrawnNew
<1>4. DOMAIN j.set = {u}
  BY DEF Session, One
<1> HIDE DEF j
<1>5. docs' \in [Users -> Draw] /\ \A v \in Users : v # u => docs'[v] = docs[v]
  BY <1>1, <1>3 DEF PeopleTyped, TypeOK
<1>6. Stands(load, pc'[w], job'[w])
  BY <1>2, <1>4 DEF Stands, Followed, OneRow
<1>7. OpensRows(w) /\ OpensInvitation(w)
  BY <1>1, <1>2, <1>4, <1>6 DEF OpensRows, OpensInvitation, Live
<1>8. OpensDocuments(w)
  BY <1>1, <1>2, <1>4, <1>5, ComesIn DEF OpensDocuments
<1>9. QED
  BY <1>1, <1>2, <1>3, <1>5, <1>7, <1>8, OtherOpens DEF Opened


LEMMA AnchorOpens ==
    ASSUME PeopleTyped, Claimed, Current, SelfServed, NEW w \in Workers, AnchorUpload(w)
    PROVE  Opens(w)
<1> DEFINE u == Owner(w)
           m == docs[u]
           s == [kyc |-> "pending", manifest |-> m]
<1>1. u \in Users /\ DOMAIN job[w].set = {u}
  BY Owns DEF AnchorUpload, PeopleTyped, Stands
<1>2. /\ user[u].row # "absent" /\ (load.overlap \/ Live(u))
      /\ user[u].role \in SelfService
  BY <1>1 DEF AnchorUpload, Claimed, Current, SelfServed, Busy, Inserting
<1>3. /\ Assign(w, u, s, <<>>, {}, "idle") /\ Untouched /\ draws' = draws /\ pc[w] = "anchor"
  BY DEF AnchorUpload, Submitted, Untouched, accounts
<1> HIDE DEF u
<1>4. m \in Draw
  BY <1>1, RowTyped
<1>5. Writes(w, u, s, <<>>, {}, {}, "idle")
  BY <1>3, Assigns
<1>6. RowFits(load, u, s, user, <<>>, {}, {})
  BY <1>2, <1>4, FitSubmitted
<1>7. s.manifest = m /\ "manifest" \in DOMAIN s /\ \A f \in Codes : f \notin DOMAIN s
  BY DEF Codes
<1> HIDE DEF s
<1>8. Proper(w, u, s, <<>>, {}, {}, "idle")
  BY <1>1, <1>2, <1>3, <1>5, <1>6, <1>7, Stays, GoesOn DEF Proper, Untouched
<1>9. QED
  BY <1>1, <1>8, OpensOne

LEMMA SubmitOpens ==
    ASSUME PeopleTyped, NEW w \in Workers, NEW u \in Users, NEW anchored \in BOOLEAN,
           KycSubmit(w, u) \/ GetMe(w, u, anchored)
    PROVE  Opens(w)
<1> DEFINE m == docs[u]
           s == [kyc |-> "pending", manifest |-> m]
           r == [kyc |-> "pending"]
<1>1. /\ Ready(w, "kyc_submit") \/ Ready(w, "get_me")
      /\ Live(u) /\ user[u].role \in SelfService /\ Untouched /\ draws' = draws
      /\ Assign(w, u, s, <<>>, {}, "idle") \/ Assign(w, u, r, <<>>, {}, "idle")
  BY DEF KycSubmit, GetMe, Acting, Moderated, Reconcilable, Reconciled, Submitted, SelfService,
         Untouched, accounts
<1>2. m \in Draw
  BY RowTyped
<1>3. Writes(w, u, s, <<>>, {}, {}, "idle") \/ Writes(w, u, r, <<>>, {}, {}, "idle")
  BY <1>1, Assigns
<1>4. RowFits(load, u, s, user, <<>>, {}, {}) /\ RowFits(load, u, r, user, <<>>, {}, {})
  BY <1>1, <1>2, FitSubmitted
<1>5. /\ s.manifest = m /\ "manifest" \notin DOMAIN r
      /\ \A f \in Codes : f \notin DOMAIN s /\ f \notin DOMAIN r
  BY DEF Codes
<1> HIDE DEF s, r
<1>6. CASE Writes(w, u, s, <<>>, {}, {}, "idle")
  BY <1>1, <1>4, <1>5, <1>6, Stays, PlainOpens
<1>7. CASE Writes(w, u, r, <<>>, {}, {}, "idle")
  BY <1>1, <1>4, <1>5, <1>7, Stays, PlainOpens
<1>8. QED
  BY <1>3, <1>6, <1>7

LEMMA ApproveOpens ==
    ASSUME PeopleTyped, NEW w \in Workers, NEW u \in Users, NiraApprove(w, u)
    PROVE  Opens(w)
<1> DEFINE t == Moderated(u)
           m == docs[u]
           d == CertificateOf(u)
           s == [kyc |-> "approved", trusted |-> t, manifest |-> m, cert |-> d]
<1>1. /\ Ready(w, "nira_decide") /\ Live(u) /\ Untouched /\ d <= load.draws
      /\ draws' = (IF d = New THEN New ELSE draws)
      /\ Decide(w, u, s, "nira_approved")
  BY DEF NiraApprove, Untouched
<1>2. t \in BOOLEAN /\ m \in Draw /\ user[u].cert \in Draw
  BY RowTyped
<1>3. draws \in 0 .. MaxDraws /\ load.draws \in 0 .. MaxDraws
  BY SeedAssumption DEF PeopleTyped, TypeOK, AccountsTypeOK, Draw
<1>4. /\ d \in Draw /\ (user[u].cert # 0 => d = user[u].cert)
      /\ draws' \in Draw /\ draws' >= draws
  BY <1>1, <1>2, <1>3 DEF CertificateOf, New, Draw
<1>5. Writes(w, u, s, <<>>, {}, {<<u, "nira_approved">>}, "idle")
  BY <1>1, Decides
<1> HIDE DEF t, m, d
<1>6. RowFits(load, u, s, user, <<>>, {}, {<<u, "nira_approved">>})
  BY <1>2, <1>4, FitApproved
<1>7. s.manifest = m /\ \A f \in Codes : f \notin DOMAIN s
  BY DEF Codes
<1> HIDE DEF s
<1>8. {<<u, "nira_approved">>} \subseteq {u} \X LogActions
  BY DEF LogActions
<1>9. QED
  BY <1>1, <1>4, <1>5, <1>6, <1>7, <1>8, PlainOpens DEF m

LEMMA RejectOpens ==
    ASSUME PeopleTyped, NEW w \in Workers, NEW u \in Users, NiraReject(w, u)
    PROVE  Opens(w)
<1> DEFINE m == docs[u]
           s == [kyc |-> "rejected", trusted |-> FALSE, manifest |-> m]
<1>1. /\ Ready(w, "nira_decide") /\ Live(u) /\ Untouched /\ draws' = draws
      /\ Decide(w, u, s, "nira_rejected")
  BY DEF NiraReject, Rejected, Untouched, accounts
<1>2. m \in Draw
  BY RowTyped
<1>3. Writes(w, u, s, <<>>, {}, {<<u, "nira_rejected">>}, "idle")
  BY <1>1, Decides
<1>4. RowFits(load, u, s, user, <<>>, {}, {<<u, "nira_rejected">>})
  BY <1>2, FitRejected
<1>5. s.manifest = m /\ \A f \in Codes : f \notin DOMAIN s
  BY DEF Codes
<1> HIDE DEF s
<1>6. {<<u, "nira_rejected">>} \subseteq {u} \X LogActions
  BY DEF LogActions
<1>7. QED
  BY <1>1, <1>3, <1>4, <1>5, <1>6, Stays, PlainOpens

LEMMA ReviewOpens ==
    ASSUME PeopleTyped, NEW w \in Workers, NEW u \in Users, NEW approved \in BOOLEAN,
           AdminReview(w, u, approved)
    PROVE  Opens(w)
<1> DEFINE k == IF approved THEN "approved" ELSE "rejected"
           s == [kyc |-> k, trusted |-> approved]
<1>1. /\ Ready(w, "admin_kyc_review") /\ Live(u) /\ Untouched /\ draws' = draws
      /\ Assign(w, u, s, <<>>, {}, "idle")
  BY DEF AdminReview, Moderated, Untouched, accounts
<1>2. k \in {"approved", "rejected"} /\ (k = "rejected" => approved = FALSE)
  OBVIOUS
<1>3. Writes(w, u, s, <<>>, {}, {}, "idle")
  BY <1>1, Assigns
<1> HIDE DEF k
<1>4. RowFits(load, u, s, user, <<>>, {}, {})
  BY <1>1, <1>2, ComesIn, FitReviewed
<1>5. "manifest" \notin DOMAIN s /\ \A f \in Codes : f \notin DOMAIN s
  BY DEF Codes
<1> HIDE DEF s
<1>6. QED
  BY <1>1, <1>3, <1>4, <1>5, Stays, PlainOpens

LEMMA SuspendOpens ==
    ASSUME PeopleTyped, NEW w \in Workers, NEW u \in Users, NiraSuspend(w, u)
    PROVE  Opens(w)
<1> DEFINE s == [suspended |-> TRUE, active |-> FALSE, trusted |-> FALSE]
<1>1. /\ Ready(w, "nira_suspend") /\ Live(u) /\ Untouched /\ draws' = draws
      /\ Decide(w, u, s, "nira_blacklist") /\ user[u].role \in SelfService
  BY DEF NiraSuspend, Untouched, accounts
<1>2. Writes(w, u, s, <<>>, {}, {<<u, "nira_blacklist">>}, "idle")
  BY <1>1, Decides
<1>3. RowFits(load, u, s, user, <<>>, {}, {<<u, "nira_blacklist">>})
  BY <1>1, FitSuspended
<1>4. "manifest" \notin DOMAIN s /\ \A f \in Codes : f \notin DOMAIN s
  BY DEF Codes
<1> HIDE DEF s
<1>5. {<<u, "nira_blacklist">>} \subseteq {u} \X LogActions
  BY DEF LogActions
<1>6. QED
  BY <1>1, <1>2, <1>3, <1>4, <1>5, Stays, PlainOpens

LEMMA ActiveOpens ==
    ASSUME PeopleTyped, NEW w \in Workers, NEW u \in Users, NEW actor \in Users,
           NiraUnsuspend(w, u) \/ Reconnect(w, actor, u)
    PROVE  Opens(w)
<1> DEFINE s == [suspended |-> FALSE, active |-> TRUE]
<1>1. s = [active |-> TRUE, suspended |-> FALSE]
  OBVIOUS
<1>2. /\ Ready(w, "nira_suspend") \/ Ready(w, "admin_account")
      /\ Live(u) /\ Untouched /\ draws' = draws
      /\ Decide(w, u, s, "nira_unsuspend") \/ Assign(w, u, s, <<>>, {}, "audit_reconnect")
  BY <1>1 DEF NiraUnsuspend, Reconnect, ReconnectedRow, Untouched, accounts
<1>3. \/ Writes(w, u, s, <<>>, {}, {<<u, "nira_unsuspend">>}, "idle")
      \/ Writes(w, u, s, <<>>, {}, {}, "audit_reconnect")
  BY <1>2, Assigns, Decides
<1>4. /\ RowFits(load, u, s, user, <<>>, {}, {<<u, "nira_unsuspend">>})
      /\ RowFits(load, u, s, user, <<>>, {}, {})
  BY FitActive
<1>5. "manifest" \notin DOMAIN s /\ \A f \in Codes : f \notin DOMAIN s
  BY DEF Codes
<1> HIDE DEF s
<1>6. {<<u, "nira_unsuspend">>} \subseteq {u} \X LogActions
  BY DEF LogActions
<1>7. CASE Writes(w, u, s, <<>>, {}, {<<u, "nira_unsuspend">>}, "idle")
  BY <1>2, <1>4, <1>5, <1>6, <1>7, Stays, PlainOpens
<1>8. CASE Writes(w, u, s, <<>>, {}, {}, "audit_reconnect")
  BY <1>2, <1>4, <1>5, <1>8, Stays, PlainOpens
<1>9. QED
  BY <1>3, <1>7, <1>8

LEMMA DisconnectOpens ==
    ASSUME PeopleTyped, NEW w \in Workers, NEW u \in Users, NEW actor \in Users,
           Disconnect(w, actor, u)
    PROVE  Opens(w)
<1> DEFINE s == [active |-> FALSE, refresh |-> 0, trusted |-> FALSE]
<1>1. /\ Ready(w, "admin_account") /\ Live(u) /\ Untouched /\ draws' = draws
      /\ Assign(w, u, s, <<>>, {}, "audit_disconnect")
      /\ actor \in Users \ {u} /\ CanAct(user[actor])
  BY RowTyped DEF Disconnect, Acting, ActiveAdmins, Admins, Live, CanAct, Untouched, accounts
<1>2. Writes(w, u, s, <<>>, {}, {}, "audit_disconnect")
  BY <1>1, Assigns
<1>3. RowFits(load, u, s, user, <<>>, {}, {})
  BY <1>1, FitDisconnected
<1>4. "manifest" \notin DOMAIN s /\ \A f \in Codes : f \notin DOMAIN s
  BY DEF Codes
<1> HIDE DEF s
<1>5. QED
  BY <1>1, <1>2, <1>3, <1>4, Stays, PlainOpens

LEMMA RoleOpens ==
    ASSUME PeopleTyped, NEW w \in Workers, NEW u \in Users, NEW role \in SelfService,
           UpdateRole(w, u, role)
    PROVE  Opens(w)
<1> DEFINE s == [role |-> role]
<1>1. /\ Ready(w, "update_me") /\ Live(u) /\ Untouched /\ draws' = draws
      /\ Assign(w, u, s, <<>>, {}, "idle")
  BY DEF UpdateRole, Acting, Untouched, accounts
<1>2. Writes(w, u, s, <<>>, {}, {}, "idle")
  BY <1>1, Assigns
<1>3. RowFits(load, u, s, user, <<>>, {}, {})
  BY <1>1, ComesIn, FitRole
<1>4. "manifest" \notin DOMAIN s /\ \A f \in Codes : f \notin DOMAIN s
  BY DEF Codes
<1> HIDE DEF s
<1>5. QED
  BY <1>1, <1>2, <1>3, <1>4, Stays, PlainOpens


\* The queue changes any number of rows, and draws no code.
LEMMA QueueOpens ==
    ASSUME PeopleTyped, NEW w \in Workers, NEW j, NEW T \in SUBSET Users,
           Comes(w), pc[w] \in {"idle", "queue"}, Moved(w), pc'[w] = "save", job'[w] = j,
           UNCHANGED <<user, given, spent, lapsed, log, invitation, docs>>,
           draws' \in Draw, draws' >= draws,
           DOMAIN j.set = T, j.seen = user, j.hand = <<>>, j.spend = {}, j.log = {},
           j.then \in {"idle", "queue"},
           \A u \in T : /\ Live(u)
                        /\ RowFits(load, u, j.set[u], user, <<>>, {}, {})
                        /\ \A f \in Codes \cup {"active"} : f \notin DOMAIN j.set[u]
                        /\ "manifest" \in DOMAIN j.set[u] => j.set[u].manifest = docs[u]
    PROVE  Opens(w)
<1>1. DOMAIN j.hand = {} /\ \A u \in T : Handed(j, u) = <<>>
  BY DEF Handed
<1>2. user \in [Users -> Row]
  BY DEF PeopleTyped, TypeOK, AccountsTypeOK
<1>3. j.then \notin Followed /\ j.then # "tokens"
  BY DEF Followed
<1>4. Update(load, j)
  BY <1>1, <1>2, <1>3 DEF Update
<1>5. Stands(load, pc'[w], job'[w])
  BY <1>4 DEF Stands, Followed
<1>6. \A u \in T : user[u].row # "absent"
  BY DEF Live
<1>7. OpensRows(w)
  BY <1>3, <1>5, <1>6 DEF OpensRows
<1>8. OpensInvitation(w) /\ OpensCodes(w)
  BY DEF OpensInvitation, OpensCodes
<1>9. OpensDocuments(w)
  BY DEF OpensDocuments
<1>10. docs' \in [Users -> Draw]
  BY DEF PeopleTyped, TypeOK
<1>11. QED
  BY <1>7, <1>8, <1>9, <1>10 DEF Opens, Opened

LEMMA ReconcilesOpen ==
    ASSUME PeopleTyped, NEW w \in Workers, NEW anchored \in BOOLEAN, NiraQueue(w, anchored)
    PROVE  Opens(w)
<1> DEFINE T == {v \in Users : Reconcilable(v)}
           set == [u \in T |-> Reconciled(u, anchored)]
           j == [Session EXCEPT !.set = set, !.then = "queue"]
<1>1. /\ Ready(w, "nira_queue") /\ Goto(w, "save", j) /\ Untouched /\ draws' = draws
  BY DEF NiraQueue, Untouched, accounts
<1>2. Moved(w) /\ pc'[w] = "save" /\ job'[w] = j
  BY <1>1, Goes
<1>3. /\ j.set = set /\ j.seen = user /\ j.hand = <<>> /\ j.spend = {} /\ j.log = {}
      /\ j.then = "queue"
  BY DEF Session
<1> HIDE DEF j
<1>4. ASSUME NEW u \in T
      PROVE  /\ Live(u)
             /\ RowFits(load, u, set[u], user, <<>>, {}, {})
             /\ \A f \in Codes \cup {"active"} : f \notin DOMAIN set[u]
             /\ "manifest" \in DOMAIN set[u] => set[u].manifest = docs[u]
  <2> DEFINE m == docs[u]
             s == [kyc |-> "pending", manifest |-> m]
             r == [kyc |-> "pending"]
  <2>1. Live(u) /\ user[u].role \in SelfService
    BY DEF Reconcilable, Moderated, SelfService
  <2>2. set[u] = s \/ set[u] = r
    BY DEF Reconciled, Submitted
  <2>3. RowFits(load, u, s, user, <<>>, {}, {}) /\ RowFits(load, u, r, user, <<>>, {}, {})
    BY <2>1, RowTyped, FitSubmitted
  <2>4. /\ s.manifest = docs[u] /\ "manifest" \notin DOMAIN r
        /\ \A f \in Codes \cup {"active"} : f \notin DOMAIN s /\ f \notin DOMAIN r
    BY DEF Codes
  <2> HIDE DEF s, r, set
  <2>5. QED
    BY <2>1, <2>2, <2>3, <2>4
<1>5. DOMAIN set = T /\ T \in SUBSET Users
  OBVIOUS
<1> HIDE DEF set, T
<1>6. QED
  BY <1>1, <1>2, <1>3, <1>4, <1>5, ComesIn, Stays, QueueOpens DEF Untouched

LEMMA CertificatesOpen ==
    ASSUME PeopleTyped, NEW w \in Workers, NEW page \in SUBSET Queued,
           QueueCertificates(w, page)
    PROVE  Opens(w)
<1> DEFINE T == {u \in page : Uncertified(u)}
           token(u) == draws + Cardinality({v \in T : v <= u})
           set == [u \in T |-> [cert |-> token(u)]]
           j == [Session EXCEPT !.set = set]
<1>1. /\ pc[w] = "queue" /\ Goto(w, "save", j) /\ Untouched
      /\ draws + Cardinality(T) <= load.draws /\ draws' = draws + Cardinality(T)
  BY DEF QueueCertificates, Untouched
<1>2. Moved(w) /\ pc'[w] = "save" /\ job'[w] = j
  BY <1>1, Goes
<1>3. /\ j.set = set /\ j.seen = user /\ j.hand = <<>> /\ j.spend = {} /\ j.log = {}
      /\ j.then = "idle"
  BY DEF Session
<1> HIDE DEF j
<1>4. IsFiniteSet(T) /\ T \in SUBSET Users /\ \A u \in T : Live(u)
  BY UserAssumption, FS_Subset DEF Queued, Commerce
<1>5. Cardinality(T) \in Nat
  BY <1>4, FS_CardinalityType
<1>6. draws \in 0 .. MaxDraws /\ load.draws \in 0 .. MaxDraws
  BY SeedAssumption DEF PeopleTyped, TypeOK, AccountsTypeOK, Draw
<1>7. draws' \in Draw /\ draws' >= draws
  BY <1>1, <1>5, <1>6 DEF Draw
<1>8. ASSUME NEW u \in T
      PROVE  /\ Live(u)
             /\ RowFits(load, u, set[u], user, <<>>, {}, {})
             /\ \A f \in Codes \cup {"active"} : f \notin DOMAIN set[u]
             /\ "manifest" \in DOMAIN set[u] => set[u].manifest = docs[u]
  <2> DEFINE d == token(u)
             s == [cert |-> d]
             E == {v \in T : v <= u}
  <2>1. E \subseteq T
    OBVIOUS
  <2>2. Cardinality(E) \in Nat /\ Cardinality(E) <= Cardinality(T)
    BY <1>4, <2>1, FS_Subset, FS_CardinalityType
  <2>3. d \in Draw
    BY <1>1, <1>5, <1>6, <2>2 DEF Draw
  <2>4. Live(u) /\ user[u].cert = 0 /\ set[u] = s
    BY <1>4 DEF Uncertified
  <2> HIDE DEF d
  <2>5. RowFits(load, u, s, user, <<>>, {}, {})
    BY <2>3, <2>4, FitCertified
  <2>6. "manifest" \notin DOMAIN s /\ \A f \in Codes \cup {"active"} : f \notin DOMAIN s
    BY DEF Codes
  <2> HIDE DEF s, set
  <2>7. QED
    BY <2>4, <2>5, <2>6
<1>9. DOMAIN set = T
  OBVIOUS
<1>10. Comes(w)
  BY <1>1, GoesOn
<1> HIDE DEF set, T
<1>11. QED
  BY <1>1, <1>2, <1>3, <1>4, <1>7, <1>8, <1>9, <1>10, QueueOpens DEF Untouched


-----------------------------------------------------------------------------
(* Every request as it commits, column by column.                          *)

\* The entries of the log that invariants are about.
Weighty == {"nira_approved", "nira_rejected", "nira_blacklist", "admin_delete_user"}

\* Nothing of note: time passes, an entry is logged, or a request ends without
\* effect, which an update does only by failing.
Quiet ==
    /\ UNCHANGED <<user, spent, invitation, load>>
    /\ given' \in [Users -> Given]
    /\ \A u \in Users, f \in Handouts \ {"pending"} : given'[u][f] = given[u][f]
    /\ log' \subseteq Users \X LogActions /\ log \subseteq log'
    /\ \A u \in Users, a \in Weighty : <<u, a>> \in log' => <<u, a>> \in log
    /\ draws' \in Draw /\ draws' >= draws /\ lapsed' \in 0 .. draws'
    /\ docs' \in [Users -> Draw] /\ (docs' = docs \/ "upload_refused" \in load.uses)
    /\ \/ pc' = pc /\ job' = job
       \/ \E w \in Workers :
             /\ Moved(w) /\ pc'[w] = "idle"
             /\ pc[w] \notin {"save", "anchor"} \/ load.fails \/ load.overlap

Saves(w) ==
    LET j == job[w] IN
    /\ pc[w] = "save" /\ Update(load, j) /\ Moved(w)
    /\ pc'[w] = j.then /\ (j.then # "idle" => job'[w] = j)
    /\ \A u \in DOMAIN j.set : Live(u)
    /\ user' \in [Users -> Row]
    /\ \A u \in Users : u \notin DOMAIN j.set => user'[u] = user[u]
    /\ \A u \in Users, f \in Fields : user'[u][f] =
          IF u \in DOMAIN j.set /\ f \in DOMAIN j.set[u] /\ j.set[u][f] # j.seen[u][f]
          THEN j.set[u][f] ELSE user[u][f]
    /\ \A u \in Users : user'[u].row = user[u].row
    /\ given' \in [Users -> Given]
    /\ \A u \in Users, f \in Handouts : given'[u][f] =
          IF u \in DOMAIN j.set /\ f \in DOMAIN Handed(j, u) THEN Handed(j, u)[f] ELSE given[u][f]
    /\ spent' = spent \cup j.spend /\ log' = log \cup j.log
    /\ UNCHANGED <<draws, lapsed, invitation, docs>>

Inserts(w, u, role, d) ==
    /\ pc[w] = "insert" /\ Moved(w)
    /\ DOMAIN job[w].set = {u} /\ job[w].set[u] = NewAccount(role, d)
    /\ pc'[w] \in {"idle", "privy_confirm"} /\ (pc'[w] # "idle" => job'[w] = job[w])
    /\ ~EmailTaken(u) /\ user[u].row = "absent"
    /\ user' = [user EXCEPT ![u] = NewAccount(role, d)]
    /\ given' \in [Users -> Given]
    /\ \A v \in Users, f \in Handouts : given'[v][f] =
          IF v = u /\ f = "verify" THEN d ELSE given[v][f]
    /\ UNCHANGED <<spent, draws, lapsed, log, invitation, docs>>

Clears(w, u, d) ==
    /\ pc[w] = "clear_reset" /\ Moved(w) /\ pc'[w] = "idle"
    /\ DOMAIN job[w].set = {u} /\ job[w].spend = {d}
    /\ Live(u)
    /\ user' = [user EXCEPT ![u].reset = 0]
    /\ spent' = spent \cup {d}
    /\ UNCHANGED <<given, draws, lapsed, log, invitation, docs>>

Accepts(w, u, i) ==
    /\ pc[w] = "accept" /\ Moved(w) /\ pc'[w] = "idle"
    /\ DOMAIN job[w].set = {u} /\ job[w].invitation = i
    /\ ~EmailTaken(u) /\ user[u].row = "absent"
    /\ invitation[i].status \notin {"absent", "deleted"} /\ EmailOf[u] = invitation[i].email
    /\ user' = [user EXCEPT ![u] = Officer("gov_nira")]
    /\ invitation' = [invitation EXCEPT ![i].status = "accepted"]
    /\ UNCHANGED <<given, spent, draws, lapsed, log, docs>>

Invites(w, i) ==
    /\ pc[w] = "invite" /\ Moved(w) /\ pc'[w] = "idle"
    /\ job[w].invitation = i /\ invitation[i].status = "absent"
    /\ invitation' = [invitation EXCEPT ![i] = [status |-> "pending", email |-> job[w].email,
                                                token |-> job[w].token]]
    /\ UNCHANGED <<accounts, docs>>

Expires(w, i) ==
    /\ pc[w] = "expire" /\ Moved(w) /\ pc'[w] = "idle"
    /\ job[w].invitation = i /\ invitation[i].status # "absent"
    /\ invitation' = [invitation EXCEPT ![i].status = "expired"]
    /\ UNCHANGED <<accounts, docs>>

DeletesLinks(w, u) ==
    /\ pc[w] = "delete_links" /\ Moved(w) /\ pc'[w] = "delete_row" /\ job'[w] = job[w]
    /\ DOMAIN job[w].set = {u}
    /\ invitation' = [i \in Invitations |->
                         IF /\ invitation[i].status # "absent"
                            /\ invitation[i].email = EmailOf[u]
                         THEN [invitation[i] EXCEPT !.status = "deleted"]
                         ELSE invitation[i]]
    /\ log' = (log \ {<<u, "gov_login_refused">>}) \cup {<<u, "admin_delete_user">>}
    /\ UNCHANGED <<user, given, spent, draws, lapsed, docs>>

DeletesRow(w, u) ==
    /\ pc[w] = "delete_row" /\ Moved(w) /\ pc'[w] = "idle"
    /\ DOMAIN job[w].set = {u}
    /\ Live(u)
    /\ user' = [user EXCEPT ![u].row = "deleted"]
    /\ UNCHANGED <<given, spent, draws, lapsed, log, invitation, docs>>

Ends(w) == Moved(w) /\ pc'[w] = "idle" /\ UNCHANGED <<accounts, invitation, docs>>

LEMMA QuietEnd ==
    ASSUME PeopleTyped, NEW w \in Workers, Ends(w),
           pc[w] \notin {"save", "anchor"} \/ load.fails \/ load.overlap
    PROVE  Quiet
<1>1. UNCHANGED <<user, given, spent, log, draws, lapsed, invitation, docs, load>>
  BY DEF Ends, accounts, Moved
<1>2. /\ given' \in [Users -> Given] /\ docs' \in [Users -> Draw]
      /\ log' \subseteq Users \X LogActions /\ draws' \in Draw /\ lapsed' \in 0 .. draws'
  BY <1>1 DEF PeopleTyped, TypeOK, AccountsTypeOK
<1>3. draws' >= draws
  BY <1>1 DEF PeopleTyped, TypeOK, AccountsTypeOK, Draw
<1>4. QED
  BY <1>1, <1>2, <1>3 DEF Quiet, Ends

LEMMA SaveSaves ==
    ASSUME PeopleTyped, Current, NEW w \in Workers, Save(w), UNCHANGED <<invitation, docs>>
    PROVE  Saves(w) \/ Quiet
<1> DEFINE j == job[w]
<1>1. pc[w] = "save" /\ Update(load, j)
  BY DEF Save, PeopleTyped, Stands
<1>2. CASE ~(\A u \in DOMAIN j.set : Live(u))
  <2>1. load.overlap
    BY <1>1, <1>2 DEF Current
  <2>2. Ends(w)
    BY <1>2, Responds DEF Save, Ends, accounts
  <2>3. QED
    BY <2>1, <2>2, QuietEnd
<1>3. CASE \A u \in DOMAIN j.set : Live(u)
  <2>1. /\ user' = Saved(j) /\ given' = Told(j) /\ spent' = spent \cup j.spend
        /\ log' = log \cup j.log /\ Proceed(w, j) /\ UNCHANGED <<draws, lapsed>>
    BY <1>3 DEF Save
  <2>2. Moved(w) /\ pc'[w] = j.then /\ (j.then # "idle" => job'[w] = j)
    BY <2>1, Goes, Responds DEF Proceed
  <2> HIDE DEF j
  <2>3. \A u \in DOMAIN j.set : u \in Users /\ PatchTyped(j.set[u]) /\ HandTyped(Handed(j, u))
    BY <1>1 DEF Update, RowFits
  <2>4. user \in [Users -> Row] /\ given \in [Users -> Given]
    BY DEF PeopleTyped, TypeOK, AccountsTypeOK
  <2>5. ASSUME NEW u \in Users
        PROVE  /\ user'[u] \in Row /\ user'[u].row = user[u].row
               /\ u \notin DOMAIN j.set => user'[u] = user[u]
               /\ \A f \in Fields : user'[u][f] =
                     IF u \in DOMAIN j.set /\ f \in DOMAIN j.set[u] /\ j.set[u][f] # j.seen[u][f]
                     THEN j.set[u][f] ELSE user[u][f]
    <3>1. CASE u \in DOMAIN j.set
      <4>1. user'[u] = Written(user[u], j.seen[u], j.set[u])
        BY <2>1, <3>1 DEF Saved
      <4>2. QED
        BY <2>3, <2>4, <3>1, <4>1, WrittenRow
    <3>2. CASE u \notin DOMAIN j.set
      BY <2>1, <2>4, <3>2 DEF Saved
    <3>3. QED
      BY <3>1, <3>2
  <2>6. user' \in [Users -> Row]
    BY <2>1, <2>5 DEF Saved
  <2>7. ASSUME NEW u \in Users
        PROVE  /\ given'[u] \in Given
               /\ \A f \in Handouts : given'[u][f] =
                     IF u \in DOMAIN j.set /\ f \in DOMAIN Handed(j, u) THEN Handed(j, u)[f]
                     ELSE given[u][f]
    <3>1. CASE u \in DOMAIN j.hand
      <4>1. given'[u] = Overlay(given[u], Handed(j, u)) /\ u \in DOMAIN j.set
        BY <1>1, <2>1, <3>1 DEF Told, Handed, Update
      <4>2. QED
        BY <2>3, <2>4, <4>1, OverlayGiven
    <3>2. CASE u \notin DOMAIN j.hand
      BY <2>1, <2>4, <3>2 DEF Told, Handed
    <3>3. QED
      BY <3>1, <3>2
  <2>8. given' \in [Users -> Given]
    BY <2>1, <2>7 DEF Told
  <2>9. QED
    BY <1>1, <1>3, <2>1, <2>2, <2>5, <2>6, <2>7, <2>8 DEF Saves, j
<1>4. QED
  BY <1>2, <1>3

LEMMA InsertInserts ==
    ASSUME PeopleTyped, Claimed, NEW w \in Workers, Insert(w), UNCHANGED <<invitation, docs>>
    PROVE  \/ Quiet
           \/ \E u \in Users, role \in {"tenant", "landlord"}, d \in Draw \ {0} :
                 Inserts(w, u, role, d)
<1> DEFINE j == job[w]
<1>1. pc[w] = "insert" /\ Insertion(j)
  BY DEF Insert, PeopleTyped, Stands
<1>2. PICK u \in Users, role \in {"tenant", "landlord"}, d \in Draw \ {0} :
         /\ j.set = One(u, NewAccount(role, d)) /\ j.hand = One(u, [verify |-> d])
         /\ j.then \in {"idle", "privy_confirm"}
  BY <1>1 DEF Insertion
<1>3. DOMAIN j.set = {u} /\ j.set[u] = NewAccount(role, d)
  BY <1>2, OneDomain
<1>4. DOMAIN j.hand = {u} /\ j.hand[u] = [verify |-> d]
  <2> DEFINE h == [verify |-> d]
  <2>1. j.hand = One(u, h)
    BY <1>2
  <2> HIDE DEF h, j
  <2>2. DOMAIN j.hand = {u} /\ j.hand[u] = h
    BY <2>1, OneDomain
  <2>3. QED
    BY <2>2 DEF h
<1>5. user[u].row = "absent"
  BY <1>1, <1>3 DEF Claimed, Busy, Inserting
<1>6. CASE EmailTaken(u)
  <2>1. Ends(w)
    BY <1>3, <1>6, Responds DEF Insert, Ends, accounts
  <2>2. QED
    BY <1>1, <2>1, QuietEnd
<1>7. CASE ~EmailTaken(u)
  <2>1. /\ user' = [v \in Users |-> IF v \in DOMAIN j.set THEN j.set[v] ELSE user[v]]
        /\ given' = Told(j) /\ Proceed(w, j) /\ UNCHANGED <<spent, draws, lapsed, log>>
    BY <1>3, <1>7 DEF Insert
  <2>2. Moved(w) /\ pc'[w] = j.then /\ (j.then # "idle" => job'[w] = j)
    BY <2>1, Goes, Responds DEF Proceed
  <2>3. user \in [Users -> Row] /\ given \in [Users -> Given]
    BY DEF PeopleTyped, TypeOK, AccountsTypeOK
  <2> HIDE DEF j
  <2>4. user' = [user EXCEPT ![u] = NewAccount(role, d)]
    BY <1>3, <2>1, <2>3
  <2> DEFINE h == [verify |-> d]
  <2>5. DOMAIN h = {"verify"} /\ h["verify"] = d
    OBVIOUS
  <2> HIDE DEF h
  <2>6. HandTyped(h)
    BY <2>5 DEF HandTyped, Handouts
  <2>7. ASSUME NEW v \in Users
        PROVE  /\ given'[v] \in Given
               /\ \A f \in Handouts : given'[v][f] = IF v = u /\ f = "verify" THEN d ELSE given[v][f]
    <3>1. CASE v = u
      <4>1. given'[v] = Overlay(given[v], h)
        BY <1>4, <2>1, <3>1 DEF Told, h
      <4>2. QED
        BY <2>3, <2>5, <2>6, <3>1, <4>1, OverlayGiven
    <3>2. CASE v # u
      BY <1>4, <2>1, <2>3, <3>2 DEF Told
    <3>3. QED
      BY <3>1, <3>2
  <2>8. given' \in [Users -> Given]
    BY <2>1, <2>7 DEF Told
  <2>9. Inserts(w, u, role, d)
    BY <1>1, <1>2, <1>3, <1>5, <1>7, <2>1, <2>2, <2>4, <2>7, <2>8 DEF Inserts, j
  <2>10. QED
    BY <2>9
<1>8. QED
  BY <1>6, <1>7


LEMMA ResetClears ==
    ASSUME PeopleTyped, NEW w \in Workers, ClearReset(w), UNCHANGED <<invitation, docs>>
    PROVE  Quiet \/ \E u \in Users, d \in Draw \ {0} : Clears(w, u, d)
<1> DEFINE u == Owner(w)
<1>1. /\ pc[w] = "clear_reset" /\ OneRow(job[w])
      /\ \E d \in Draw \ {0} : job[w].spend = {d}
  BY DEF ClearReset, PeopleTyped, Stands
<1>2. u \in Users /\ DOMAIN job[w].set = {u}
  BY <1>1, Owns
<1>3. PICK d \in Draw \ {0} : job[w].spend = {d}
  BY <1>1
<1>4. Moved(w) /\ pc'[w] = "idle"
  BY Responds DEF ClearReset
<1>5. CASE Live(u)
  <2>1. Clears(w, u, d)
    BY <1>1, <1>2, <1>3, <1>4, <1>5 DEF ClearReset, Clears
  <2>2. QED
    BY <1>2, <2>1
<1>6. CASE ~Live(u)
  <2>1. Ends(w)
    BY <1>4, <1>6 DEF ClearReset, Ends, accounts
  <2>2. QED
    BY <1>1, <2>1, QuietEnd
<1>7. QED
  BY <1>5, <1>6

LEMMA AcceptAccepts ==
    ASSUME PeopleTyped, Claimed, NEW w \in Workers, Accept(w), docs' = docs
    PROVE  Quiet \/ \E u \in Users, i \in Invitations : Accepts(w, u, i)
<1> DEFINE u == Owner(w)
           i == job[w].invitation
<1>1. pc[w] = "accept" /\ OneRow(job[w]) /\ i \in Invitations
  BY DEF Accept, PeopleTyped, Stands
<1>2. u \in Users /\ DOMAIN job[w].set = {u}
  BY <1>1, Owns
<1>3. Moved(w) /\ pc'[w] = "idle"
  BY Responds DEF Accept
<1>4. /\ user[u].row = "absent" /\ invitation[i].status # "absent"
      /\ EmailOf[u] = invitation[i].email
  BY <1>1, <1>2 DEF Claimed, Busy, Inserting
<1>5. CASE EmailTaken(u) \/ invitation[i].status = "deleted"
  <2>1. Ends(w)
    BY <1>3, <1>5 DEF Accept, Ends, accounts
  <2>2. QED
    BY <1>1, <2>1, QuietEnd
<1>6. CASE ~(EmailTaken(u) \/ invitation[i].status = "deleted")
  <2>1. Accepts(w, u, i)
    BY <1>1, <1>2, <1>3, <1>4, <1>6 DEF Accept, Accepts
  <2>2. QED
    BY <1>1, <1>2, <2>1
<1>7. QED
  BY <1>5, <1>6

LEMMA InvitesOne ==
    ASSUME PeopleTyped, Claimed, NEW w \in Workers, InsertInvitation(w), docs' = docs
    PROVE  \E i \in Invitations : Invites(w, i)
<1> DEFINE i == job[w].invitation
<1>1. pc[w] = "invite" /\ i \in Invitations
  BY DEF InsertInvitation, PeopleTyped, Stands
<1>2. invitation[i].status = "absent"
  BY <1>1 DEF Claimed
<1>3. Invites(w, i)
  BY <1>1, <1>2, Responds DEF InsertInvitation, Invites
<1>4. QED
  BY <1>1, <1>3

LEMMA ExpireExpires ==
    ASSUME PeopleTyped, Claimed, NEW w \in Workers, Expire(w), docs' = docs
    PROVE  Quiet \/ \E i \in Invitations : Expires(w, i)
<1> DEFINE i == job[w].invitation
<1>1. pc[w] = "expire" /\ i \in Invitations
  BY DEF Expire, PeopleTyped, Stands
<1>2. invitation[i].status # "absent"
  BY <1>1 DEF Claimed
<1>3. Moved(w) /\ pc'[w] = "idle"
  BY Responds DEF Expire
<1>4. CASE invitation[i].status = "deleted"
  <2>1. Ends(w)
    BY <1>3, <1>4 DEF Expire, Ends
  <2>2. QED
    BY <1>1, <2>1, QuietEnd
<1>5. CASE invitation[i].status # "deleted"
  <2>1. Expires(w, i)
    BY <1>1, <1>2, <1>3, <1>5 DEF Expire, Expires
  <2>2. QED
    BY <1>1, <2>1
<1>6. QED
  BY <1>4, <1>5

LEMMA LinksDeleted ==
    ASSUME PeopleTyped, NEW w \in Workers, DeleteLinks(w)
    PROVE  \E u \in Users : DeletesLinks(w, u)
<1> DEFINE u == Owner(w)
<1>1. u \in Users /\ DOMAIN job[w].set = {u}
  BY Owns DEF DeleteLinks, PeopleTyped, Stands
<1>2. Moved(w) /\ pc'[w] = "delete_row" /\ job'[w] = job[w]
  BY Goes DEF DeleteLinks
<1>3. DeletesLinks(w, u)
  BY <1>1, <1>2 DEF DeleteLinks, DeletesLinks
<1>4. QED
  BY <1>1, <1>3

LEMMA RowDeleted ==
    ASSUME PeopleTyped, NEW w \in Workers, NEW kept \in BOOLEAN, DeleteRow(w, kept)
    PROVE  Quiet \/ \E u \in Users : DeletesRow(w, u)
<1> DEFINE u == Owner(w)
<1>1. pc[w] = "delete_row" /\ u \in Users /\ DOMAIN job[w].set = {u}
  BY Owns DEF DeleteRow, PeopleTyped, Stands
<1>2. Moved(w) /\ pc'[w] = "idle"
  BY Responds DEF DeleteRow
<1>3. CASE kept \/ ~Live(u)
  <2>1. Ends(w)
    BY <1>2, <1>3 DEF DeleteRow, Ends, accounts
  <2>2. QED
    BY <1>1, <2>1, QuietEnd
<1>4. CASE ~(kept \/ ~Live(u))
  <2>1. DeletesRow(w, u)
    BY <1>1, <1>2, <1>4 DEF DeleteRow, DeletesRow
  <2>2. QED
    BY <1>1, <2>1
<1>5. QED
  BY <1>3, <1>4

\* Entries that only tell what was done.
LEMMA QuietEntry ==
    ASSUME PeopleTyped, NEW u \in Users, NEW a \in LogActions \ Weighty, Logged(u, a),
           docs' = docs, load' = load,
           \/ pc' = pc /\ job' = job
           \/ \E w \in Workers : Moved(w) /\ pc'[w] = "idle" /\ pc[w] \notin {"save", "anchor"}
    PROVE  Quiet
<1>1. /\ UNCHANGED <<user, given, spent, draws, lapsed, invitation, docs, load>>
      /\ log' = log \cup {<<u, a>>}
  BY DEF Logged
<1>2. /\ given' \in [Users -> Given] /\ docs' \in [Users -> Draw]
      /\ log' \subseteq Users \X LogActions /\ draws' \in Draw /\ lapsed' \in 0 .. draws'
  BY <1>1 DEF PeopleTyped, TypeOK, AccountsTypeOK
<1>3. draws' >= draws
  BY <1>1 DEF PeopleTyped, TypeOK, AccountsTypeOK, Draw
<1>4. \A v \in Users, b \in Weighty : <<v, b>> \in log' => <<v, b>> \in log
  BY <1>1
<1>5. QED
  BY <1>1, <1>2, <1>3, <1>4 DEF Quiet

LEMMA LogsQuietly ==
    ASSUME PeopleTyped, NEW w \in Workers, docs' = docs,
           \/ Attempt(w) \/ Audit2fa(w) \/ AuditAccount(w)
           \/ \E u \in Users : PortalRefused(w, u)
    PROVE  Quiet
<1>1. CASE Attempt(w) \/ Audit2fa(w) \/ AuditAccount(w)
  <2> DEFINE u == Owner(w)
  <2>1. pc[w] \in {"attempt", "audit_2fa", "audit_disconnect", "audit_reconnect"}
    BY <1>1 DEF Attempt, Audit2fa, AuditAccount
  <2>2. u \in Users
    BY <2>1, Owns DEF PeopleTyped, Stands, Followed
  <2>3. Moved(w) /\ pc'[w] = "idle" /\ load' = load
    BY <1>1, Responds DEF Attempt, Audit2fa, AuditAccount, Moved
  <2>4. \E a \in LogActions \ Weighty : Logged(u, a)
    BY <1>1 DEF Attempt, Audit2fa, AuditAccount, LogActions, Weighty
  <2> HIDE DEF u
  <2>5. QED
    BY <2>1, <2>2, <2>3, <2>4, QuietEntry
<1>2. CASE \E u \in Users : PortalRefused(w, u)
  <2>1. PICK u \in Users : PortalRefused(w, u)
    BY <1>2
  <2>2. Logged(u, "gov_login_refused") /\ pc' = pc /\ job' = job /\ load' = load
    BY <2>1 DEF PortalRefused, requests
  <2>3. "gov_login_refused" \in LogActions \ Weighty
    BY DEF LogActions, Weighty
  <2>4. QED
    BY <2>2, <2>3, QuietEntry
<1>3. QED
  BY <1>1, <1>2

LEMMA TimeQuietly ==
    ASSUME PeopleTyped,
           \/ \E w \in Workers, u \in Users :
                 LoginPending(w, u) /\ UNCHANGED <<invitation, docs>>
           \/ \E w \in Workers : Die(w) /\ UNCHANGED <<accounts, invitation, docs>>
           \/ Lapse /\ UNCHANGED <<invitation, docs>>
           \/ \E u \in Users : UploadRefused(u)
           \/ UNCHANGED vars
    PROVE  Quiet
<1>1. /\ user \in [Users -> Row] /\ given \in [Users -> Given] /\ docs \in [Users -> Draw]
      /\ log \subseteq Users \X LogActions /\ draws \in 0 .. MaxDraws /\ lapsed \in 0 .. draws
  BY DEF PeopleTyped, TypeOK, AccountsTypeOK, Draw
<1>2. CASE \E w \in Workers, u \in Users : LoginPending(w, u) /\ UNCHANGED <<invitation, docs>>
  <2>1. PICK w \in Workers, u \in Users : LoginPending(w, u) /\ UNCHANGED <<invitation, docs>>
    BY <1>2
  <2>2. New \in Draw /\ draws' \in Draw /\ draws' >= draws
    BY <2>1, DrawnNew DEF LoginPending
  <2>3. given' = [given EXCEPT ![u].pending = New] /\ UNCHANGED <<user, spent, lapsed, log, requests>>
    BY <2>1 DEF LoginPending
  <2>4. given' \in [Users -> Given]
    BY <1>1, <2>2, <2>3 DEF Given
  <2>5. \A v \in Users, f \in Handouts \ {"pending"} : given'[v][f] = given[v][f]
    <3>1. TAKE v \in Users, f \in Handouts \ {"pending"}
    <3>2. DOMAIN given[v] = Handouts
      BY <1>1 DEF Given, Handouts
    <3>3. CASE v = u
      <4>1. given'[v] = [given[v] EXCEPT !.pending = New]
        BY <1>1, <2>3, <3>3
      <4>2. QED
        BY <3>2, <4>1
    <3>4. CASE v # u
      BY <1>1, <2>3, <3>4
    <3>5. QED
      BY <3>3, <3>4
  <2>6. lapsed' \in 0 .. draws'
    BY <1>1, <2>2, <2>3 DEF Draw
  <2>7. QED
    BY <1>1, <2>1, <2>2, <2>3, <2>4, <2>5, <2>6 DEF Quiet, requests
<1>3. CASE \E w \in Workers : Die(w) /\ UNCHANGED <<accounts, invitation, docs>>
  <2>1. PICK w \in Workers : Die(w) /\ UNCHANGED <<accounts, invitation, docs>>
    BY <1>3
  <2>2. Ends(w) /\ load.fails
    BY <2>1, Responds DEF Die, Ends
  <2>3. QED
    BY <2>2, QuietEnd
<1>4. CASE Lapse /\ UNCHANGED <<invitation, docs>>
  <2>1. lapsed' \in 0 .. draws' /\ draws' \in Draw /\ draws' >= draws
    BY <1>1, <1>4 DEF Lapse, Draw
  <2>2. QED
    BY <1>1, <1>4, <2>1 DEF Lapse, Quiet, requests
<1>5. CASE \E u \in Users : UploadRefused(u)
  <2>1. PICK u \in Users : UploadRefused(u)
    BY <1>5
  <2>2. New \in Draw /\ draws' \in Draw /\ draws' >= draws
    BY <2>1, DrawnNew DEF UploadRefused
  <2>3. /\ docs' = [docs EXCEPT ![u] = New] /\ "upload_refused" \in load.uses
        /\ UNCHANGED <<user, given, spent, lapsed, log, invitation, requests>>
    BY <2>1 DEF UploadRefused, Uses
  <2>4. docs' \in [Users -> Draw]
    BY <1>1, <2>2, <2>3
  <2>5. lapsed' \in 0 .. draws'
    BY <1>1, <2>2, <2>3 DEF Draw
  <2>6. QED
    BY <1>1, <2>2, <2>3, <2>4, <2>5 DEF Quiet, requests
<1>6. CASE UNCHANGED vars
  <2>1. lapsed' \in 0 .. draws' /\ draws' \in Draw /\ draws' >= draws
    BY <1>1, <1>6 DEF vars, accounts, Draw
  <2>2. QED
    BY <1>1, <1>6, <2>1 DEF vars, accounts, requests, Quiet
<1>7. QED
  BY <1>2, <1>3, <1>4, <1>5, <1>6


\* The commits of a worker.
Commits(w) ==
    \/ Saves(w)
    \/ \E u \in Users, role \in {"tenant", "landlord"}, d \in Draw \ {0} : Inserts(w, u, role, d)
    \/ \E u \in Users, d \in Draw \ {0} : Clears(w, u, d)
    \/ \E u \in Users, i \in Invitations : Accepts(w, u, i)
    \/ \E i \in Invitations : Invites(w, i) \/ Expires(w, i)
    \/ \E u \in Users : DeletesLinks(w, u) \/ DeletesRow(w, u)

\* Every step opens a request, commits one, or does nothing of note.
LEMMA Steps ==
    ASSUME PeopleTyped, Claimed, Current, SelfServed, [Next]_vars
    PROVE  Quiet \/ \E w \in Workers : Opens(w) \/ Commits(w)
<1>1. CASE UNCHANGED vars
  BY <1>1, TimeQuietly
<1>2. ASSUME NEW w \in Workers, NEW u \in Users,
             UNCHANGED <<invitation, docs>>,
             \/ \E role \in {"tenant", "landlord"} :
                   Register(w, u, role) \/ PrivySignUp(w, u, role)
             \/ ResendVerification(w, u) \/ VerifyEmail(w, u)
             \/ Login(w, u) \/ LoginPending(w, u) \/ VerifyTotp(w, u)
             \/ Refresh(w, u) \/ Logout(w, u)
             \/ \E vouched \in BOOLEAN : SocialSignIn(w, u, vouched)
             \/ ForgotPassword(w, u) \/ ResetPassword(w, u)
             \/ TotpSetup(w, u) \/ TotpEnable(w, u) \/ TotpDisable(w, u)
      PROVE  Opens(w) \/ Quiet
  <2>1. CASE \E role \in {"tenant", "landlord"} : Register(w, u, role) \/ PrivySignUp(w, u, role)
    BY <1>2, <2>1, SignUpOpens DEF Register, PrivySignUp
  <2>2. CASE ResendVerification(w, u) \/ ForgotPassword(w, u)
    BY <1>2, <2>2, MailOpens DEF ResendVerification, ForgotPassword, Codes
  <2>3. CASE VerifyEmail(w, u) \/ Logout(w, u) \/ ResetPassword(w, u)
    BY <1>2, <2>3, VerifyOpens, LogoutOpens, ResetOpens
  <2>4. CASE Login(w, u) \/ VerifyTotp(w, u) \/ Refresh(w, u)
    BY <1>2, <2>4, SignInOpens
  <2>5. CASE LoginPending(w, u)
    BY <1>2, <2>5, TimeQuietly
  <2>6. CASE \E vouched \in BOOLEAN : SocialSignIn(w, u, vouched)
    BY <1>2, <2>6, SocialOpens
  <2>7. CASE TotpSetup(w, u) \/ TotpEnable(w, u) \/ TotpDisable(w, u)
    BY <1>2, <2>7, AuthenticatorOpens
  <2>8. QED
    BY <1>2, <2>1, <2>2, <2>3, <2>4, <2>5, <2>6, <2>7
<1>3. ASSUME NEW w \in Workers, UNCHANGED <<invitation, docs>>,
             \/ Save(w) \/ Insert(w) \/ PrivyConfirm(w) \/ SocialTokens(w) \/ ClearReset(w)
             \/ Die(w) /\ UNCHANGED accounts
      PROVE  Opens(w) \/ Commits(w) \/ Quiet
  <2>1. CASE Save(w)
    BY <1>3, <2>1, SaveSaves DEF Commits
  <2>2. CASE Insert(w)
    BY <1>3, <2>2, InsertInserts DEF Commits
  <2>3. CASE PrivyConfirm(w) \/ SocialTokens(w)
    BY <1>3, <2>3, ConfirmOpens, SocialTokensOpen
  <2>4. CASE ClearReset(w)
    BY <1>3, <2>4, ResetClears DEF Commits
  <2>5. CASE Die(w) /\ UNCHANGED accounts
    BY <1>3, <2>5, TimeQuietly
  <2>6. QED
    BY <1>3, <2>1, <2>2, <2>3, <2>4, <2>5
<1>4. CASE AccountsNext /\ UNCHANGED <<invitation, docs>>
  BY <1>2, <1>3, <1>4, TimeQuietly DEF AccountsNext
<1>5. ASSUME NEW w \in Workers, docs' = docs,
             \/ \E i \in Invitations :
                   \/ \E a \in Addresses : CreateInvitation(w, i, a)
                   \/ FindExpired(w, i)
                   \/ \E u \in Users : AcceptInvitation(w, i, u)
             \/ \E u \in Users : PortalRefused(w, u) \/ PortalLogin(w, u)
                                 \/ ResendOtp(w, u) \/ VerifyOtp(w, u) \/ RepeatOtp(w, u)
             \/ InsertInvitation(w) \/ Expire(w) \/ Accept(w)
             \/ MailOtp(w) \/ Attempt(w) \/ Audit2fa(w) \/ AnswerRepeat(w)
      PROVE  Opens(w) \/ Commits(w) \/ Quiet
  <2>1. CASE \E i \in Invitations :
                \/ \E a \in Addresses : CreateInvitation(w, i, a)
                \/ FindExpired(w, i)
                \/ \E u \in Users : AcceptInvitation(w, i, u)
    BY <1>5, <2>1, InviteOpens, LookOpens, AcceptOpens
  <2>2. CASE \E u \in Users : PortalRefused(w, u)
    BY <1>5, <2>2, LogsQuietly
  <2>3. CASE \E u \in Users : PortalLogin(w, u)
    BY <1>5, <2>3, SignInOpens DEF PortalLogin
  <2>4. CASE \E u \in Users : ResendOtp(w, u)
    BY <1>5, <2>4, MailOpens DEF ResendOtp, Codes
  <2>5. CASE \E u \in Users : VerifyOtp(w, u) \/ RepeatOtp(w, u)
    BY <1>5, <2>5, OtpGivenOpens, RepeatOpens
  <2>6. CASE InsertInvitation(w) \/ Expire(w) \/ Accept(w)
    BY <1>5, <2>6, InvitesOne, ExpireExpires, AcceptAccepts DEF Commits
  <2>7. CASE MailOtp(w)
    BY <1>5, <2>7, OtpOpens
  <2>8. CASE Attempt(w) \/ Audit2fa(w)
    BY <1>5, <2>8, LogsQuietly
  <2>9. CASE AnswerRepeat(w)
    <3>1. Ends(w) /\ pc[w] \notin {"save", "anchor"}
      BY <1>5, <2>9, Responds DEF AnswerRepeat, Ends
    <3>2. QED
      BY <3>1, QuietEnd
  <2>10. QED
    BY <1>5, <2>1, <2>2, <2>3, <2>4, <2>5, <2>6, <2>7, <2>8, <2>9
<1>6. CASE PortalNext /\ UNCHANGED docs
  BY <1>4, <1>5, <1>6 DEF PortalNext
<1>7. ASSUME NEW w \in Workers,
             \/ \E u \in Users :
                   \/ UploadKyc(w, u) \/ KycSubmit(w, u)
                   \/ \E anchored \in BOOLEAN : GetMe(w, u, anchored)
                   \/ NiraApprove(w, u) \/ NiraReject(w, u)
                   \/ \E approved \in BOOLEAN : AdminReview(w, u, approved)
                   \/ NiraSuspend(w, u) \/ NiraUnsuspend(w, u)
                   \/ \E role \in SelfService : UpdateRole(w, u, role)
                   \/ \E actor \in Users :
                         Disconnect(w, actor, u) \/ Reconnect(w, actor, u) \/ DeleteUser(w, actor, u)
             \/ \E anchored \in BOOLEAN : NiraQueue(w, anchored)
             \/ \E page \in SUBSET Queued : QueueCertificates(w, page)
             \/ AnchorUpload(w) \/ AuditAccount(w)
             \/ DeleteLinks(w)
             \/ \E kept \in BOOLEAN : DeleteRow(w, kept)
      PROVE  Opens(w) \/ Commits(w) \/ Quiet
  <2>1. CASE \E u \in Users : UploadKyc(w, u) \/ KycSubmit(w, u)
                              \/ \E anchored \in BOOLEAN : GetMe(w, u, anchored)
    BY <2>1, UploadOpens, SubmitOpens
  <2>2. CASE \E u \in Users : NiraApprove(w, u) \/ NiraReject(w, u)
                              \/ \E approved \in BOOLEAN : AdminReview(w, u, approved)
    BY <2>2, ApproveOpens, RejectOpens, ReviewOpens
  <2>3. CASE \E u \in Users : NiraSuspend(w, u) \/ NiraUnsuspend(w, u)
                              \/ \E role \in SelfService : UpdateRole(w, u, role)
    BY <2>3, SuspendOpens, ActiveOpens, RoleOpens
  <2>4. CASE \E u \in Users, actor \in Users :
                Disconnect(w, actor, u) \/ Reconnect(w, actor, u) \/ DeleteUser(w, actor, u)
    BY <2>4, DisconnectOpens, ActiveOpens, DeleteOpens
  <2>5. CASE \E anchored \in BOOLEAN : NiraQueue(w, anchored)
    BY <2>5, ReconcilesOpen
  <2>6. CASE AnchorUpload(w) \/ \E page \in SUBSET Queued : QueueCertificates(w, page)
    BY <2>6, AnchorOpens, CertificatesOpen
  <2>7. CASE AuditAccount(w)
    BY <2>7, LogsQuietly DEF AuditAccount
  <2>8. CASE DeleteLinks(w) \/ \E kept \in BOOLEAN : DeleteRow(w, kept)
    BY <2>8, LinksDeleted, RowDeleted DEF Commits
  <2>9. QED
    BY <1>7, <2>1, <2>2, <2>3, <2>4, <2>5, <2>6, <2>7, <2>8
<1>8. CASE OversightNext
  BY <1>7, <1>8, TimeQuietly DEF OversightNext
<1>9. QED
  BY <1>1, <1>6, <1>8 DEF Next


-----------------------------------------------------------------------------
(* Types.                                                                  *)

LEMMA IdleStands ==
    ASSUME NEW l, NEW j
    PROVE  Stands(l, "idle", j)
BY DEF Stands, Followed

LEMMA NewRows ==
    ASSUME NEW role \in {"tenant", "landlord"}, NEW d \in Draw
    PROVE  /\ NewAccount(role, d) \in Row /\ Officer("gov_nira") \in Row
           /\ NewAccount(role, d).row = "live" /\ NewAccount(role, d).active = TRUE
<1> DEFINE a == Absent
           r == [a EXCEPT !.row = "live", !.role = role, !.verify = d]
           o == [a EXCEPT !.row = "live", !.role = "gov_nira", !.verified = TRUE]
<1>1. NewAccount(role, d) = r /\ Officer("gov_nira") = o
  BY DEF NewAccount, Officer
<1>2. a \in Row
  BY AbsentRow
<1>3. /\ a.active = TRUE /\ a.suspended = FALSE /\ a.totp = FALSE /\ a.reset = 0 /\ a.otp = 0
      /\ a.kyc = "none" /\ a.trusted = FALSE /\ a.refresh = 0 /\ a.manifest = 0
  BY DEF Absent
<1> HIDE DEF a
<1>4. {"tenant", "landlord", "gov_nira"} \subseteq Roles
  BY DEF Roles, SelfService, Officers
<1>5. r \in Row
  BY <1>2, <1>4 DEF Row
<1>6. o \in Row
  BY <1>2, <1>4 DEF Row
<1>7. r.row = "live" /\ r.role = role /\ r.verify = d
  BY <1>2 DEF Row
<1>8. /\ r.active = TRUE /\ r.suspended = FALSE /\ r.totp = FALSE /\ r.reset = 0 /\ r.otp = 0
      /\ r.kyc = "none" /\ r.trusted = FALSE /\ r.refresh = 0 /\ r.manifest = 0
  BY <1>2, <1>3 DEF Row
<1>9. QED
  BY <1>1, <1>5, <1>6, <1>7, <1>8

LEMMA NewCodes ==
    ASSUME NEW role \in {"tenant", "landlord"}, NEW d \in Draw
    PROVE  NewAccount(role, d).verify = d
<1> DEFINE a == Absent
           r == [a EXCEPT !.row = "live", !.role = role, !.verify = d]
<1>1. NewAccount(role, d) = r
  BY DEF NewAccount
<1>2. a \in Row
  BY AbsentRow
<1> HIDE DEF a
<1>3. r.verify = d
  BY <1>2 DEF Row
<1>4. QED
  BY <1>1, <1>3

LEMMA AllStand ==
    ASSUME PeopleTyped, NEW w \in Workers, Moved(w), Stands(load, pc'[w], job'[w]), TypeOK'
    PROVE  PeopleTyped'
<1>1. \A v \in Workers : Stands(load', pc'[v], job'[v])
  <2>1. TAKE v \in Workers
  <2>2. CASE v = w
    BY <2>2 DEF Moved
  <2>3. CASE v # w
    BY <2>3 DEF Moved, PeopleTyped
  <2>4. QED
    BY <2>2, <2>3
<1>2. load' \in Workloads /\ DOMAIN pc' = Workers /\ DOMAIN job' = Workers
  BY DEF Moved, PeopleTyped
<1>3. QED
  BY <1>1, <1>2 DEF PeopleTyped

LEMMA TypesUnfolded ==
    ASSUME PeopleTyped
    PROVE  /\ user \in [Users -> Row] /\ given \in [Users -> Given] /\ spent \subseteq Draw
           /\ draws \in Draw /\ lapsed \in 0 .. draws /\ log \subseteq Users \X LogActions
           /\ invitation \in [Invitations -> Invitation] /\ docs \in [Users -> Draw]
BY DEF PeopleTyped, TypeOK, AccountsTypeOK, PortalTypeOK

LEMMA TypedQuiet ==
    ASSUME PeopleTyped, Quiet
    PROVE  PeopleTyped'
<1>1. TypeOK'
  BY TypesUnfolded DEF Quiet, TypeOK, AccountsTypeOK, PortalTypeOK
<1>2. CASE pc' = pc /\ job' = job
  BY <1>1, <1>2 DEF Quiet, PeopleTyped
<1>3. CASE \E w \in Workers : Moved(w) /\ pc'[w] = "idle"
  BY <1>1, <1>3, IdleStands, AllStand
<1>4. QED
  BY <1>2, <1>3 DEF Quiet

LEMMA TypedOpens ==
    ASSUME PeopleTyped, NEW w \in Workers, Opens(w)
    PROVE  PeopleTyped'
<1>1. lapsed' \in 0 .. draws'
  BY TypesUnfolded DEF Opens, Draw
<1>2. TypeOK'
  BY <1>1, TypesUnfolded DEF Opens, TypeOK, AccountsTypeOK, PortalTypeOK
<1>3. QED
  BY <1>2, AllStand DEF Opens, OpensRows

LEMMA TypedSaves ==
    ASSUME PeopleTyped, NEW w \in Workers, Saves(w)
    PROVE  PeopleTyped'
<1> DEFINE j == job[w]
<1>1. TypeOK'
  BY TypesUnfolded DEF Saves, Update, TypeOK, AccountsTypeOK, PortalTypeOK
<1>2. Stands(load, pc'[w], job'[w])
  <2>1. CASE j.then = "idle"
    BY <2>1, IdleStands DEF Saves
  <2>2. CASE j.then # "idle"
    <3>1. job'[w] = j /\ Update(load, j) /\ pc'[w] = j.then
      BY <2>2 DEF Saves
    <3> HIDE DEF j
    <3>2. j.then \in Followed => OneRow(j)
      BY <3>1 DEF Update
    <3>3. DOMAIN j.set \subseteq Users /\ j.then \in {"queue"} \cup Followed
      BY <2>2, <3>1 DEF Update
    <3>4. QED
      BY <3>1, <3>2, <3>3 DEF Stands, Followed
  <2>3. QED
    BY <2>1, <2>2
<1>3. QED
  BY <1>1, <1>2, AllStand DEF Saves

LEMMA TypedCommits ==
    ASSUME PeopleTyped, NEW w \in Workers, Commits(w)
    PROVE  PeopleTyped'
<1>1. CASE Saves(w)
  BY <1>1, TypedSaves
<1>2. ASSUME NEW u \in Users, NEW role \in {"tenant", "landlord"}, NEW d \in Draw \ {0},
             Inserts(w, u, role, d)
      PROVE  PeopleTyped'
  <2>1. TypeOK'
    BY <1>2, TypesUnfolded, NewRows DEF Inserts, TypeOK, AccountsTypeOK, PortalTypeOK
  <2>2. Stands(load, pc'[w], job'[w])
    BY <1>2, IdleStands DEF Inserts, Stands, OneRow, Followed
  <2>3. QED
    BY <1>2, <2>1, <2>2, AllStand DEF Inserts
<1>3. ASSUME NEW u \in Users, NEW d \in Draw \ {0}, Clears(w, u, d)
      PROVE  PeopleTyped'
  <2>1. [user[u] EXCEPT !.reset = 0] \in Row
    BY TypesUnfolded, NoDraw DEF Row
  <2>2. user' \in [Users -> Row]
    BY <1>3, <2>1, TypesUnfolded DEF Clears
  <2>3. TypeOK'
    BY <1>3, <2>2, TypesUnfolded DEF Clears, TypeOK, AccountsTypeOK, PortalTypeOK
  <2>4. QED
    BY <1>3, <2>3, IdleStands, AllStand DEF Clears
<1>4. ASSUME NEW u \in Users, NEW i \in Invitations, Accepts(w, u, i)
      PROVE  PeopleTyped'
  <2>1. Officer("gov_nira") \in Row
    BY NewRows, NoDraw
  <2>2. [invitation[i] EXCEPT !.status = "accepted"] \in Invitation
    BY TypesUnfolded DEF Invitation
  <2>3. user' \in [Users -> Row] /\ invitation' \in [Invitations -> Invitation]
    BY <1>4, <2>1, <2>2, TypesUnfolded DEF Accepts
  <2>4. TypeOK'
    BY <1>4, <2>3, TypesUnfolded DEF Accepts, TypeOK, AccountsTypeOK, PortalTypeOK
  <2>5. QED
    BY <1>4, <2>4, IdleStands, AllStand DEF Accepts
<1>5. ASSUME NEW i \in Invitations, Invites(w, i) \/ Expires(w, i)
      PROVE  PeopleTyped'
  <2>1. pc[w] = "invite" => job[w].email \in Addresses /\ job[w].token \in Draw
    BY DEF PeopleTyped, Stands
  <2>2. [invitation[i] EXCEPT !.status = "expired"] \in Invitation
    BY TypesUnfolded DEF Invitation
  <2>3. invitation' \in [Invitations -> Invitation]
    BY <1>5, <2>1, <2>2, TypesUnfolded DEF Invites, Expires, Invitation
  <2>4. TypeOK'
    BY <1>5, <2>3, TypesUnfolded
       DEF Invites, Expires, accounts, TypeOK, AccountsTypeOK, PortalTypeOK
  <2>5. QED
    BY <1>5, <2>4, IdleStands, AllStand DEF Invites, Expires
<1>6. ASSUME NEW u \in Users, DeletesLinks(w, u)
      PROVE  PeopleTyped'
  <2>1. \A i \in Invitations : [invitation[i] EXCEPT !.status = "deleted"] \in Invitation
    BY TypesUnfolded DEF Invitation
  <2>2. invitation' \in [Invitations -> Invitation]
    BY <1>6, <2>1, TypesUnfolded DEF DeletesLinks
  <2>3. log' \subseteq Users \X LogActions
    BY <1>6, TypesUnfolded DEF DeletesLinks, LogActions
  <2>4. TypeOK'
    BY <1>6, <2>2, <2>3, TypesUnfolded DEF DeletesLinks, TypeOK, AccountsTypeOK, PortalTypeOK
  <2>5. Stands(load, pc'[w], job'[w])
    BY <1>6 DEF DeletesLinks, Stands, OneRow, Followed
  <2>6. QED
    BY <1>6, <2>4, <2>5, AllStand DEF DeletesLinks
<1>7. ASSUME NEW u \in Users, DeletesRow(w, u)
      PROVE  PeopleTyped'
  <2>1. [user[u] EXCEPT !.row = "deleted"] \in Row
    BY TypesUnfolded DEF Row
  <2>2. user' \in [Users -> Row]
    BY <1>7, <2>1, TypesUnfolded DEF DeletesRow
  <2>3. TypeOK'
    BY <1>7, <2>2, TypesUnfolded DEF DeletesRow, TypeOK, AccountsTypeOK, PortalTypeOK
  <2>4. QED
    BY <1>7, <2>3, IdleStands, AllStand DEF DeletesRow
<1>8. QED
  BY <1>1, <1>2, <1>3, <1>4, <1>5, <1>6, <1>7 DEF Commits

LEMMA TypedStep ==
    ASSUME PeopleTyped, Claimed, Current, SelfServed, [Next]_vars
    PROVE  PeopleTyped'
BY Steps, TypedQuiet, TypedOpens, TypedCommits


LEMMA OfficerRow ==
    LET o == Officer("gov_nira") IN
    /\ o \in Row
    /\ o.row = "live" /\ o.role = "gov_nira" /\ o.verified = TRUE
    /\ o.active = TRUE /\ o.suspended = FALSE /\ o.totp = FALSE /\ o.verify = 0 /\ o.reset = 0
    /\ o.otp = 0 /\ o.kyc = "none" /\ o.trusted = FALSE /\ o.refresh = 0 /\ o.manifest = 0
<1> DEFINE a == Absent
           o == [a EXCEPT !.row = "live", !.role = "gov_nira", !.verified = TRUE]
<1>1. Officer("gov_nira") = o
  BY DEF Officer
<1>2. a \in Row
  BY AbsentRow
<1>3. /\ a.active = TRUE /\ a.suspended = FALSE /\ a.totp = FALSE /\ a.verify = 0 /\ a.reset = 0
      /\ a.otp = 0 /\ a.kyc = "none" /\ a.trusted = FALSE /\ a.refresh = 0 /\ a.manifest = 0
  BY DEF Absent
<1> HIDE DEF a
<1>4. "gov_nira" \in Roles
  BY DEF Roles, Officers
<1>5. o \in Row
  BY <1>2, <1>4 DEF Row
<1>6. o.row = "live" /\ o.role = "gov_nira" /\ o.verified = TRUE
  BY <1>2 DEF Row
<1>7. /\ o.active = TRUE /\ o.suspended = FALSE /\ o.totp = FALSE /\ o.verify = 0 /\ o.reset = 0
      /\ o.otp = 0 /\ o.kyc = "none" /\ o.trusted = FALSE /\ o.refresh = 0 /\ o.manifest = 0
  BY <1>2, <1>3 DEF Row
<1>8. QED
  BY <1>1, <1>5, <1>6, <1>7

-----------------------------------------------------------------------------
(* Who has a claim on what is not there yet.                               *)

\* The row a commit changes, but for an update.
LEMMA InsertsOne ==
    ASSUME PeopleTyped, NEW w, NEW u \in Users, NEW role \in {"tenant", "landlord"},
           NEW d \in Draw \ {0}, Inserts(w, u, role, d)
    PROVE  LET r == user'[u] IN
           /\ \A v \in Users : v # u => user'[v] = user[v]
           /\ user[u].row = "absent" /\ r.row = "live" /\ r.role = role /\ r.active = TRUE
           /\ r.suspended = FALSE /\ r.totp = FALSE /\ r.verify = d /\ r.reset = 0 /\ r.otp = 0
           /\ r.kyc = "none" /\ r.trusted = FALSE /\ r.refresh = 0 /\ r.manifest = 0
<1>1. user'[u] = NewAccount(role, d) /\ \A v \in Users : v # u => user'[v] = user[v]
  BY TypesUnfolded DEF Inserts
<1>2. user[u].row = "absent"
  BY DEF Inserts
<1> DEFINE a == Absent
           r == [a EXCEPT !.row = "live", !.role = role, !.verify = d]
<1>3. user'[u] = r
  BY <1>1 DEF NewAccount
<1>4. a \in Row
  BY AbsentRow
<1>5. /\ a.active = TRUE /\ a.suspended = FALSE /\ a.totp = FALSE /\ a.reset = 0 /\ a.otp = 0
      /\ a.kyc = "none" /\ a.trusted = FALSE /\ a.refresh = 0 /\ a.manifest = 0
  BY DEF Absent
<1> HIDE DEF a
<1>6. r.row = "live" /\ r.role = role /\ r.verify = d
  BY <1>4 DEF Row
<1>7. /\ r.active = TRUE /\ r.suspended = FALSE /\ r.totp = FALSE /\ r.reset = 0 /\ r.otp = 0
      /\ r.kyc = "none" /\ r.trusted = FALSE /\ r.refresh = 0 /\ r.manifest = 0
  BY <1>4, <1>5 DEF Row
<1> HIDE DEF r
<1>8. QED
  BY <1>1, <1>2, <1>3, <1>6, <1>7

LEMMA AcceptsOne ==
    ASSUME PeopleTyped, NEW w, NEW u \in Users, NEW i, Accepts(w, u, i)
    PROVE  LET r == user'[u] IN
           /\ \A v \in Users : v # u => user'[v] = user[v]
           /\ user[u].row = "absent" /\ r.row = "live" /\ r.role = "gov_nira" /\ r.active = TRUE
           /\ r.verified = TRUE /\ r.suspended = FALSE /\ r.totp = FALSE /\ r.verify = 0
           /\ r.reset = 0 /\ r.otp = 0
           /\ r.kyc = "none" /\ r.trusted = FALSE /\ r.refresh = 0 /\ r.manifest = 0
<1>1. user'[u] = Officer("gov_nira") /\ \A v \in Users : v # u => user'[v] = user[v]
  BY TypesUnfolded DEF Accepts
<1>2. QED
  BY <1>1, OfficerRow DEF Accepts

LEMMA ClearsOne ==
    ASSUME PeopleTyped, NEW w, NEW u \in Users, NEW d, Clears(w, u, d)
    PROVE  /\ \A v \in Users : v # u => user'[v] = user[v]
           /\ user'[u].reset = 0
           /\ \A v \in Users, f \in Fields \ {"reset"} : user'[v][f] = user[v][f]
<1>1. user'[u] = [user[u] EXCEPT !.reset = 0] /\ \A v \in Users : v # u => user'[v] = user[v]
  BY TypesUnfolded DEF Clears
<1>2. DOMAIN user[u] = Fields
  BY RowColumns, TypesUnfolded
<1>3. user'[u].reset = 0 /\ \A f \in Fields \ {"reset"} : user'[u][f] = user[u][f]
  BY <1>1, <1>2 DEF Fields
<1>4. QED
  BY <1>1, <1>3

LEMMA DeletesOne ==
    ASSUME PeopleTyped, NEW w, NEW u \in Users, DeletesRow(w, u)
    PROVE  /\ \A v \in Users : v # u => user'[v] = user[v]
           /\ user[u].row = "live" /\ user'[u].row = "deleted"
           /\ \A v \in Users, f \in Fields \ {"row"} : user'[v][f] = user[v][f]
<1>1. user'[u] = [user[u] EXCEPT !.row = "deleted"] /\ \A v \in Users : v # u => user'[v] = user[v]
  BY TypesUnfolded DEF DeletesRow
<1>2. DOMAIN user[u] = Fields
  BY RowColumns, TypesUnfolded
<1>3. user'[u].row = "deleted" /\ \A f \in Fields \ {"row"} : user'[u][f] = user[u][f]
  BY <1>1, <1>2 DEF Fields
<1>4. QED
  BY <1>1, <1>3 DEF DeletesRow, Live

LEMMA SetUsers ==
    ASSUME PeopleTyped, NEW w \in Workers, Busy(w)
    PROVE  DOMAIN job[w].set \subseteq Users
<1>1. Stands(load, pc[w], job[w]) /\ pc[w] # "idle"
  BY DEF PeopleTyped, Busy
<1>2. CASE pc[w] = "save"
  BY <1>1, <1>2 DEF Stands, Update
<1>3. CASE pc[w] = "insert"
  <2>1. PICK u \in Users, role \in {"tenant", "landlord"}, d \in Draw \ {0} :
           job[w].set = One(u, NewAccount(role, d))
    BY <1>1, <1>3 DEF Stands, Insertion
  <2>2. DOMAIN job[w].set = {u}
    BY <2>1 DEF One
  <2>3. QED
    BY <2>2
<1>4. CASE pc[w] \in {"expire", "invite", "queue"}
  BY <1>1, <1>4 DEF Stands
<1>5. CASE pc[w] \notin {"save", "insert", "expire", "invite", "queue"}
  BY <1>1, <1>5 DEF Stands, OneRow
<1>6. QED
  BY <1>2, <1>3, <1>4, <1>5

LEMMA ClaimedOn ==
    ASSUME PeopleTyped, Claimed, NEW w \in Workers, Moved(w),
           pc'[w] \notin {"insert", "accept", "invite", "expire"},
           pc'[w] = "idle" \/ \A u \in DOMAIN job'[w].set : user'[u].row # "absent",
           \A u \in Users : user[u].row # "absent" => user'[u].row # "absent",
           \A u \in Users : user[u].row = "absent" /\ user'[u].row # "absent" =>
              Inserting(w) /\ u \in DOMAIN job[w].set,
           \A i \in Invitations : invitation[i].status # "absent" =>
              invitation'[i].status # "absent" /\ invitation'[i].email = invitation[i].email,
           \A i \in Invitations : invitation[i].status = "absent" /\ invitation'[i].status # "absent"
              => pc[w] = "invite" /\ job[w].invitation = i
    PROVE  Claimed'
<1>1. \A v \in Workers : v # w => pc'[v] = pc[v] /\ job'[v] = job[v]
  BY DEF Moved
<1>2. \A v \in Workers : Busy(v) => DOMAIN job[v].set \subseteq Users
  BY SetUsers
<1>3. \A v \in Workers : pc[v] \in {"accept", "expire", "invite"} => job[v].invitation \in Invitations
  BY DEF PeopleTyped, Stands
<1>4. ASSUME NEW v \in Workers, Busy(v)', NEW u \in DOMAIN job'[v].set
      PROVE  user'[u].row = "absent" <=> Inserting(v)'
  <2>1. CASE v = w
    BY <1>4, <2>1 DEF Busy, Inserting
  <2>2. CASE v # w
    <3>1. Busy(v) /\ u \in DOMAIN job[v].set /\ u \in Users
      BY <1>1, <1>2, <1>4, <2>2 DEF Busy
    <3>2. user[u].row = "absent" <=> Inserting(v)
      BY <3>1 DEF Claimed
    <3>3. ~(user[u].row = "absent" /\ user'[u].row # "absent")
      BY <2>2, <3>1, <3>2 DEF Claimed
    <3>4. QED
      BY <1>1, <2>2, <3>1, <3>2, <3>3 DEF Inserting
  <2>3. QED
    BY <2>1, <2>2
<1>5. \A v, x \in Workers : Inserting(v)' /\ Inserting(x)' =>
         \A u \in DOMAIN job'[v].set : u \in DOMAIN job'[x].set => v = x
  BY <1>1 DEF Claimed, Inserting
<1>6. ASSUME NEW v \in Workers, pc'[v] = "invite"
      PROVE  /\ invitation'[job'[v].invitation].status = "absent"
             /\ \A x \in Workers :
                   pc'[x] = "invite" /\ job'[x].invitation = job'[v].invitation => x = v
  <2>1. v # w /\ pc[v] = "invite" /\ job'[v] = job[v] /\ job[v].invitation \in Invitations
    BY <1>1, <1>3, <1>6
  <2>2. invitation[job[v].invitation].status = "absent"
    BY <2>1 DEF Claimed
  <2>3. ~(pc[w] = "invite" /\ job[w].invitation = job[v].invitation)
    BY <2>1 DEF Claimed
  <2>4. \A x \in Workers : pc'[x] = "invite" /\ job'[x].invitation = job'[v].invitation => x = v
    BY <1>1, <2>1 DEF Claimed
  <2>5. QED
    BY <2>1, <2>2, <2>3, <2>4
<1>7. ASSUME NEW v \in Workers, pc'[v] \in {"accept", "expire"}
      PROVE  /\ invitation'[job'[v].invitation].status # "absent"
             /\ \A u \in DOMAIN job'[v].set : EmailOf[u] = invitation'[job'[v].invitation].email
  <2>1. /\ v # w /\ pc[v] \in {"accept", "expire"} /\ job'[v] = job[v]
        /\ job[v].invitation \in Invitations
    BY <1>1, <1>3, <1>7
  <2>2. /\ invitation[job[v].invitation].status # "absent"
        /\ \A u \in DOMAIN job[v].set : EmailOf[u] = invitation[job[v].invitation].email
    BY <2>1 DEF Claimed
  <2>3. QED
    BY <2>1, <2>2
<1>8. QED
  BY <1>4, <1>5, <1>6, <1>7 DEF Claimed

LEMMA ClaimedQuiet ==
    ASSUME PeopleTyped, Claimed, Quiet
    PROVE  Claimed'
<1>1. user' = user /\ invitation' = invitation
  BY DEF Quiet
<1>2. CASE pc' = pc /\ job' = job
  BY <1>1, <1>2 DEF Claimed, Inserting, Busy
<1>3. ASSUME NEW w \in Workers, Moved(w), pc'[w] = "idle"
      PROVE  Claimed'
  BY <1>1, <1>3, ClaimedOn
<1>4. QED
  BY <1>2, <1>3 DEF Quiet

LEMMA ClaimedOpens ==
    ASSUME PeopleTyped, Claimed, NEW w \in Workers, Opens(w)
    PROVE  Claimed'
<1>1. /\ \A v \in Workers : v # w => pc'[v] = pc[v] /\ job'[v] = job[v]
      /\ user' = user /\ invitation' = invitation
  BY DEF Opens, Moved
<1>2. /\ OpensRows(w) /\ OpensInvitation(w)
  BY DEF Opens
<1>3. ASSUME NEW v \in Workers, Busy(v)', NEW u \in DOMAIN job'[v].set
      PROVE  user'[u].row = "absent" <=> Inserting(v)'
  BY <1>1, <1>2, <1>3 DEF Claimed, Inserting, Busy, OpensRows
<1>4. ASSUME NEW v \in Workers, NEW x \in Workers, Inserting(v)', Inserting(x)',
             NEW u \in DOMAIN job'[v].set, u \in DOMAIN job'[x].set
      PROVE  v = x
  <2>1. \A y \in Workers : y # w => (Inserting(y)' => Busy(y))
    BY <1>1 DEF Inserting, Busy
  <2>2. Inserting(w)' => \A y \in Workers, z \in DOMAIN job'[w].set :
           Busy(y) => z \notin DOMAIN job[y].set
    BY <1>2 DEF OpensRows, Inserting
  <2>3. QED
    BY <1>1, <1>4, <2>1, <2>2 DEF Claimed, Inserting
<1>5. ASSUME NEW v \in Workers, pc'[v] = "invite"
      PROVE  /\ invitation'[job'[v].invitation].status = "absent"
             /\ \A x \in Workers :
                   pc'[x] = "invite" /\ job'[x].invitation = job'[v].invitation => x = v
  BY <1>1, <1>2, <1>5 DEF Claimed, OpensInvitation
<1>6. ASSUME NEW v \in Workers, pc'[v] \in {"accept", "expire"}
      PROVE  /\ invitation'[job'[v].invitation].status # "absent"
             /\ \A u \in DOMAIN job'[v].set : EmailOf[u] = invitation'[job'[v].invitation].email
  BY <1>1, <1>2, <1>6 DEF Claimed, OpensInvitation, Pending
<1>7. QED
  BY <1>3, <1>4, <1>5, <1>6 DEF Claimed

LEMMA ClaimedCommits ==
    ASSUME PeopleTyped, Claimed, NEW w \in Workers, Commits(w)
    PROVE  Claimed'
<1>1. CASE Saves(w)
  <2>1. pc'[w] \notin {"insert", "accept", "invite", "expire"}
    BY <1>1 DEF Saves, Update, Followed
  <2>2. DOMAIN job[w].set \subseteq Users /\ \A u \in DOMAIN job[w].set : user'[u].row # "absent"
    BY <1>1, SetUsers DEF Saves, Busy, Live
  <2>3. pc'[w] = "idle" \/ \A u \in DOMAIN job'[w].set : user'[u].row # "absent"
    BY <1>1, <2>2 DEF Saves
  <2>4. /\ \A u \in Users : user'[u].row = user[u].row
        /\ invitation' = invitation /\ Moved(w)
    BY <1>1 DEF Saves
  <2>5. QED
    BY <2>1, <2>3, <2>4, ClaimedOn
<1>2. ASSUME NEW u \in Users, NEW role \in {"tenant", "landlord"}, NEW d \in Draw \ {0},
             Inserts(w, u, role, d)
      PROVE  Claimed'
  <2>1. /\ user'[u].row = "live" /\ \A v \in Users : v # u => user'[v] = user[v]
    BY <1>2, NewRows, TypesUnfolded DEF Inserts
  <2>2. QED
    BY <1>2, <2>1, ClaimedOn DEF Inserts, Inserting
<1>3. ASSUME NEW u \in Users, NEW d \in Draw \ {0}, Clears(w, u, d)
      PROVE  Claimed'
  <2>1. \A v \in Users : user'[v].row = user[v].row
    BY <1>3, TypesUnfolded DEF Clears, Row
  <2>2. QED
    BY <1>3, <2>1, ClaimedOn DEF Clears
<1>4. ASSUME NEW u \in Users, NEW i \in Invitations, Accepts(w, u, i)
      PROVE  Claimed'
  <2>1. user'[u].row = "live" /\ \A v \in Users : v # u => user'[v] = user[v]
    BY <1>4, OfficerRow, TypesUnfolded DEF Accepts
  <2>2. \A k \in Invitations : invitation[k].status # "absent" =>
           invitation'[k].status # "absent" /\ invitation'[k].email = invitation[k].email
    BY <1>4, TypesUnfolded DEF Accepts, Invitation
  <2>3. \A k \in Invitations : invitation[k].status = "absent" => invitation'[k].status = "absent"
    BY <1>4, TypesUnfolded DEF Accepts
  <2>4. QED
    BY <1>4, <2>1, <2>2, <2>3, ClaimedOn DEF Accepts, Inserting
<1>5. ASSUME NEW i \in Invitations, Invites(w, i) \/ Expires(w, i)
      PROVE  Claimed'
  <2>1. user' = user /\ Moved(w) /\ pc'[w] = "idle"
    BY <1>5 DEF Invites, Expires, accounts
  <2>2. \A k \in Invitations : invitation[k].status # "absent" =>
           invitation'[k].status # "absent" /\ invitation'[k].email = invitation[k].email
    BY <1>5, TypesUnfolded DEF Invites, Expires, Invitation
  <2>3. \A k \in Invitations : invitation[k].status = "absent" /\ invitation'[k].status # "absent"
           => pc[w] = "invite" /\ job[w].invitation = k
    BY <1>5, TypesUnfolded DEF Invites, Expires
  <2>4. QED
    BY <2>1, <2>2, <2>3, ClaimedOn
<1>6. ASSUME NEW u \in Users, DeletesLinks(w, u)
      PROVE  Claimed'
  <2>1. \A k \in Invitations : /\ invitation'[k].email = invitation[k].email
                               /\ invitation'[k].status = "absent" <=> invitation[k].status = "absent"
    BY <1>6, TypesUnfolded DEF DeletesLinks, Invitation
  <2>2. \A v \in DOMAIN job'[w].set : user'[v].row # "absent"
    BY <1>6 DEF DeletesLinks, Claimed, Busy, Inserting
  <2>3. user' = user /\ Moved(w) /\ pc'[w] = "delete_row"
    BY <1>6 DEF DeletesLinks
  <2>4. QED
    BY <2>1, <2>2, <2>3, ClaimedOn
<1>7. ASSUME NEW u \in Users, DeletesRow(w, u)
      PROVE  Claimed'
  <2>1. \A v \in Users : user'[v].row # user[v].row => user'[v].row = "deleted" /\ v = u
    BY <1>7, TypesUnfolded DEF DeletesRow, Row
  <2>2. \A v \in Users : user[v].row = "absent" <=> user'[v].row = "absent"
    BY <1>7, <2>1 DEF DeletesRow, Live
  <2>3. QED
    BY <1>7, <2>2, ClaimedOn DEF DeletesRow
<1>8. QED
  BY <1>1, <1>2, <1>3, <1>4, <1>5, <1>6, <1>7 DEF Commits


-----------------------------------------------------------------------------
(* Requests one at a time.                                                 *)

\* A commit is of a request in flight.
LEMMA CommitsBusy ==
    ASSUME NEW w \in Workers, Commits(w)
    PROVE  Busy(w) /\ Moved(w) /\ pc[w] # "queue" /\ pc[w] # "anchor"
BY DEF Commits, Saves, Inserts, Clears, Accepts, Invites, Expires, DeletesLinks, DeletesRow, Busy

LEMMA AloneStep ==
    ASSUME PeopleTyped, Alone, Quiet \/ \E w \in Workers : Opens(w) \/ Commits(w)
    PROVE  Alone'
<1>1. CASE Quiet
  BY <1>1 DEF Quiet, Alone, Busy, Moved
<1>2. ASSUME NEW w \in Workers, Moved(w), Comes(w)
      PROVE  Alone'
  <2>1. ASSUME ~load.overlap, NEW v \in Workers, v # w
        PROVE  ~Busy(v)'
    BY <1>2, <2>1 DEF Moved, Comes, Alone, Busy
  <2>2. load' = load
    BY <1>2 DEF Moved
  <2>3. QED
    BY <2>1, <2>2 DEF Alone
<1>3. QED
  BY <1>1, <1>2, CommitsBusy DEF Opens, Comes

\* One at a time, only the request that takes a step is in flight after it.
LEMMA OthersIdle ==
    ASSUME PeopleTyped, Alone, ~load.overlap, NEW w \in Workers, Opens(w) \/ Commits(w)
    PROVE  \A v \in Workers : v # w => pc[v] = "idle" /\ pc'[v] = "idle"
BY CommitsBusy DEF Opens, Comes, Alone, Busy, Moved

\* What a save does when nothing else has happened since it read.
LEMMA SavesSerially ==
    ASSUME PeopleTyped, Current, ~load.overlap, NEW w \in Workers, Saves(w)
    PROVE  LET j == job[w] IN
           /\ j.seen = user
           /\ \A u \in Users, f \in Fields : user'[u][f] =
                 IF u \in DOMAIN j.set /\ f \in DOMAIN j.set[u] THEN j.set[u][f] ELSE user[u][f]
<1>1. job[w].seen = user
  BY DEF Saves, Current
<1>2. QED
  BY <1>1 DEF Saves

LEMMA CurrentStep ==
    ASSUME PeopleTyped, Claimed, Alone, Current,
           Quiet \/ \E w \in Workers : Opens(w) \/ Commits(w)
    PROVE  Current'
<1>1. CASE Quiet
  <2>1. user' = user /\ load' = load
    BY <1>1 DEF Quiet
  <2>2. CASE pc' = pc /\ job' = job
    BY <2>1, <2>2 DEF Current, Live, CanAct
  <2>3. ASSUME NEW w \in Workers, Moved(w), pc'[w] = "idle"
        PROVE  Current'
    BY <2>1, <2>3 DEF Current, Live, CanAct, Moved
  <2>4. QED
    BY <1>1, <2>2, <2>3 DEF Quiet
<1>2. ASSUME NEW w \in Workers, Opens(w) \/ Commits(w),
             ~load.overlap =>
                /\ pc'[w] = "save" => job'[w].seen = user'
                /\ pc'[w] \in {"save", "tokens", "mail_otp", "privy_confirm", "anchor"} =>
                      \A u \in DOMAIN job'[w].set : user'[u].row = "live"
                /\ (pc'[w] = "save" /\ job'[w].then = "tokens") \/ pc'[w] \in {"tokens", "privy_confirm"}
                   => \A u \in DOMAIN job'[w].set : user'[u].active = TRUE
                /\ pc'[w] = "save" /\ job'[w].then = "tokens" =>
                      \A u \in DOMAIN job'[w].set : "active" \notin DOMAIN job'[w].set[u]
                /\ pc'[w] \in {"delete_links", "delete_row"} =>
                      \A u \in DOMAIN job'[w].set : \E a \in Users \ {u} : CanAct(user'[a])
      PROVE  Current'
  <2>1. load' = load
    BY <1>2, CommitsBusy DEF Opens, Moved
  <2>2. ~load.overlap => \A v \in Workers : v # w => pc'[v] = "idle"
    BY <1>2, OthersIdle
  <2>3. QED
    BY <1>2, <2>1, <2>2 DEF Current, Live
<1>3. ASSUME NEW w \in Workers, Opens(w)
      PROVE  Current'
  <2>1. user' = user /\ OpensRows(w) /\ pc'[w] \in Opened
    BY <1>3 DEF Opens
  <2>2. QED
    BY <1>2, <1>3, <2>1 DEF OpensRows, Opened, Live
<1>4. ASSUME NEW w \in Workers, Commits(w), pc'[w] = "idle"
      PROVE  Current'
  BY <1>2, <1>4
<1>5. ASSUME NEW w \in Workers, Saves(w)
      PROVE  Current'
  <2> DEFINE j == job[w]
  <2>1. CASE pc'[w] = "idle"
    BY <1>4, <1>5, <2>1 DEF Commits
  <2>2. CASE pc'[w] # "idle"
    <3>1. job'[w] = j /\ pc'[w] = j.then /\ pc[w] = "save"
      BY <1>5, <2>2 DEF Saves
    <3>2. j.then \in {"queue"} \cup Followed
      BY <1>5, <2>2, <3>1 DEF Saves, Update
    <3>3. DOMAIN j.set \subseteq Users /\ \A u \in DOMAIN j.set : user'[u].row = "live"
      BY <1>5, SetUsers DEF Saves, Live, Busy
    <3>4. ASSUME ~load.overlap, j.then = "tokens"
          PROVE  \A u \in DOMAIN j.set : user'[u].active = TRUE
      <4>1. \A u \in DOMAIN j.set : user[u].active = TRUE /\ "active" \notin DOMAIN j.set[u]
        BY <3>1, <3>4 DEF Current
      <4>2. QED
        BY <1>5, <3>3, <3>4, <4>1, SavesSerially DEF Fields
    <3> HIDE DEF j
    <3>5. pc'[w] \notin {"save", "delete_links", "delete_row", "privy_confirm"}
      BY <3>1, <3>2 DEF Followed
    <3>6. Commits(w)
      BY <1>5 DEF Commits
    <3>7. QED
      BY <1>2, <3>1, <3>3, <3>4, <3>5, <3>6
  <2>3. QED
    BY <2>1, <2>2
<1>6. ASSUME NEW w \in Workers, NEW u \in Users, NEW role \in {"tenant", "landlord"},
             NEW d \in Draw \ {0}, Inserts(w, u, role, d)
      PROVE  Current'
  <2>1. user'[u].row = "live" /\ user'[u].active = TRUE
    BY <1>6, NewRows, TypesUnfolded DEF Inserts
  <2>2. CASE pc'[w] = "idle"
    BY <1>4, <1>6, <2>2 DEF Commits
  <2>3. CASE pc'[w] # "idle"
    <3>1. DOMAIN job'[w].set = {u} /\ pc'[w] = "privy_confirm" /\ Commits(w)
      BY <1>6, <2>3 DEF Inserts, Commits
    <3>2. QED
      BY <1>2, <2>1, <3>1
  <2>4. QED
    BY <2>2, <2>3
<1>7. ASSUME NEW w \in Workers, NEW u \in Users, DeletesLinks(w, u)
      PROVE  Current'
  <2>1. /\ user' = user /\ pc'[w] = "delete_row" /\ job'[w] = job[w] /\ pc[w] = "delete_links"
        /\ Commits(w)
    BY <1>7 DEF DeletesLinks, Commits
  <2>2. ~load.overlap => \A v \in DOMAIN job'[w].set : \E a \in Users \ {v} : CanAct(user'[a])
    BY <2>1 DEF Current
  <2>3. QED
    BY <1>2, <2>1, <2>2
<1>8. ASSUME NEW w \in Workers, Commits(w)
      PROVE  Current'
  BY <1>4, <1>5, <1>6, <1>7, <1>8
     DEF Commits, Clears, Accepts, Invites, Expires, DeletesRow
<1>9. QED
  BY <1>1, <1>3, <1>8


LEMMA ClaimedStep ==
    ASSUME PeopleTyped, Claimed, Quiet \/ \E w \in Workers : Opens(w) \/ Commits(w)
    PROVE  Claimed'
BY ClaimedQuiet, ClaimedOpens, ClaimedCommits

\* A row that has a request in flight, other than the one that inserts it, is
\* not the row an insert adds.
LEMMA NotInserted ==
    ASSUME PeopleTyped, Claimed, NEW v \in Workers, Busy(v), ~Inserting(v),
           NEW u \in DOMAIN job[v].set
    PROVE  u \in Users /\ user[u].row # "absent"
BY SetUsers DEF Claimed

LEMMA SelfServedOn ==
    ASSUME PeopleTyped, Claimed, SelfServed, NEW w \in Workers, Moved(w),
           pc'[w] \notin {"save", "anchor"},
           \A u \in Users : user'[u].kyc = "pending" => user'[u].role \in SelfService,
           \A u \in Users : user[u].row # "absent" /\ user[u].role \in SelfService =>
              user'[u].role \in SelfService
    PROVE  SelfServed'
<1>1. \A v \in Workers : v # w => pc'[v] = pc[v] /\ job'[v] = job[v]
  BY DEF Moved
<1>2. ASSUME NEW v \in Workers, pc'[v] = "save", NEW u \in DOMAIN job'[v].set,
             job'[v].seen[u].role \in SelfService
      PROVE  user'[u].role \in SelfService
  <2>1. v # w /\ pc[v] = "save" /\ job'[v] = job[v] /\ Busy(v) /\ ~Inserting(v)
    BY <1>1, <1>2 DEF Busy, Inserting
  <2>2. u \in Users /\ user[u].row # "absent" /\ user[u].role \in SelfService
    BY <1>2, <2>1, NotInserted DEF SelfServed
  <2>3. QED
    BY <2>2
<1>3. ASSUME NEW v \in Workers, pc'[v] = "anchor", NEW u \in DOMAIN job'[v].set
      PROVE  user'[u].role \in SelfService
  <2>1. v # w /\ pc[v] = "anchor" /\ job'[v] = job[v] /\ Busy(v) /\ ~Inserting(v)
    BY <1>1, <1>3 DEF Busy, Inserting
  <2>2. u \in Users /\ user[u].row # "absent" /\ user[u].role \in SelfService
    BY <1>3, <2>1, NotInserted DEF SelfServed
  <2>3. QED
    BY <2>2
<1>4. QED
  BY <1>2, <1>3 DEF SelfServed

LEMMA SelfServedStep ==
    ASSUME PeopleTyped, Claimed, SelfServed, Quiet \/ \E w \in Workers : Opens(w) \/ Commits(w)
    PROVE  SelfServed'
<1>1. CASE Quiet
  <2>1. user' = user
    BY <1>1 DEF Quiet
  <2>2. CASE pc' = pc /\ job' = job
    BY <2>1, <2>2 DEF SelfServed
  <2>3. ASSUME NEW w \in Workers, Moved(w), pc'[w] = "idle"
        PROVE  SelfServed'
    BY <2>1, <2>3, SelfServedOn DEF SelfServed
  <2>4. QED
    BY <1>1, <2>2, <2>3 DEF Quiet
<1>2. ASSUME NEW w \in Workers, Opens(w)
      PROVE  SelfServed'
  <2>1. user' = user /\ OpensRows(w) /\ Moved(w)
    BY <1>2 DEF Opens
  <2>2. QED
    BY <2>1 DEF SelfServed, OpensRows, Moved
<1>3. ASSUME NEW w \in Workers, Saves(w)
      PROVE  SelfServed'
  <2> DEFINE j == job[w]
  <2>1. pc'[w] \notin {"save", "anchor"} /\ Moved(w) /\ pc[w] = "save"
    BY <1>3 DEF Saves, Update, Followed
  <2>2. \A u \in DOMAIN j.set : FitsReview(load, u, j.set[u], j.seen[u], j.log)
    BY <1>3 DEF Saves, Update, RowFits
  <2>3. \A u \in DOMAIN j.set : j.seen[u].role \in SelfService => user[u].role \in SelfService
    BY <2>1 DEF SelfServed
  <2>4. \A u \in Users : /\ user'[u].role = user[u].role \/ user'[u].role \in SelfService
                         /\ \/ user'[u].kyc = user[u].kyc
                            \/ user'[u].kyc = "pending" => user[u].role \in SelfService
    BY <1>3, <2>2, <2>3 DEF Saves, FitsReview, Fields
  <2>5. QED
    BY <2>1, <2>4, SelfServedOn DEF SelfServed
<1>4. ASSUME NEW w \in Workers, Commits(w), ~Saves(w)
      PROVE  SelfServed'
  <2>1. pc'[w] \notin {"save", "anchor"} /\ Moved(w)
    BY <1>4 DEF Commits, Inserts, Clears, Accepts, Invites, Expires, DeletesLinks, DeletesRow
  <2>2. ASSUME NEW u \in Users
        PROVE  \/ user'[u].kyc = user[u].kyc /\ user'[u].role = user[u].role
               \/ user[u].row = "absent" /\ user'[u].kyc = "none"
    <3>1. ASSUME NEW v \in Users, NEW role \in {"tenant", "landlord"}, NEW d \in Draw \ {0},
                 Inserts(w, v, role, d)
          PROVE  \/ user'[u] = user[u]
                 \/ user[u].row = "absent" /\ user'[u].kyc = "none"
      BY <3>1, InsertsOne
    <3>2. ASSUME NEW v \in Users, NEW i \in Invitations, Accepts(w, v, i)
          PROVE  \/ user'[u] = user[u]
                 \/ user[u].row = "absent" /\ user'[u].kyc = "none"
      BY <3>2, AcceptsOne
    <3>3. ASSUME NEW v \in Users, DeletesRow(w, v) \/ \E d \in Draw : Clears(w, v, d)
          PROVE  user'[u].kyc = user[u].kyc /\ user'[u].role = user[u].role
      BY <3>3, ClearsOne, DeletesOne DEF Fields
    <3>4. ASSUME \/ \E i \in Invitations : Invites(w, i) \/ Expires(w, i)
                 \/ \E v \in Users : DeletesLinks(w, v)
          PROVE  user' = user
      BY <3>4 DEF Invites, Expires, DeletesLinks, accounts
    <3>5. QED
      BY <1>4, <3>1, <3>2, <3>3, <3>4 DEF Commits
  <2>3. QED
    BY <2>1, <2>2, SelfServedOn DEF SelfServed
<1>5. QED
  BY <1>1, <1>2, <1>3, <1>4

LEMMA BaseInit ==
    ASSUME Init
    PROVE  PeopleTyped /\ Claimed /\ Alone /\ Current /\ SelfServed
<1>1. load \in Workloads /\ pc = [w \in Workers |-> "idle"] /\ job = [w \in Workers |-> None]
  BY DEF Init, RequestsInit
<1>2. /\ given = [u \in Users |-> Nothing] /\ spent = {} /\ draws = 0 /\ lapsed = 0 /\ log = {}
      /\ docs = [u \in Users |-> 0]
      /\ user = [u \in Users |-> IF u \in DOMAIN load.seeds
                                 THEN Seeded(load.seeds[u]) ELSE Absent]
  BY DEF Init, AccountsInit
<1>3. ASSUME NEW role \in Roles
      PROVE  Seeded(role) \in Row /\ Seeded(role).kyc = "approved"
  <2> DEFINE a == Absent
             t == role \notin Officers
             r == [a EXCEPT !.row = "live", !.role = role, !.verified = TRUE, !.trusted = t,
                            !.kyc = "approved"]
  <2>1. Seeded(role) = r
    BY DEF Seeded
  <2>2. a \in Row /\ t \in BOOLEAN /\ "approved" \in Reviews
    BY AbsentRow DEF Reviews
  <2> HIDE DEF a, t
  <2>3. r \in Row /\ r.kyc = "approved"
    BY <1>3, <2>2 DEF Row
  <2>4. QED
    BY <2>1, <2>3
<1>4. user \in [Users -> Row]
  BY <1>1, <1>2, <1>3, AbsentRow, SeedAssumption
<1>5. \A u \in Users : user[u].kyc \in {"approved", "none"}
  BY <1>1, <1>2, <1>3, SeedAssumption DEF Absent
<1>6. TypeOK
  <2>1. AccountsTypeOK
    BY <1>2, <1>4, AbsentRow, NoDraw DEF AccountsTypeOK
  <2>2. docs \in [Users -> Draw]
    BY <1>2, NoDraw
  <2>3. invitation \in [Invitations -> Invitation]
    <3> DEFINE x == CHOOSE a \in Addresses : TRUE
    <3>1. x \in Addresses
      BY AddressAssumption
    <3>2. invitation = [i \in Invitations |-> [status |-> "absent", email |-> x, token |-> 0]]
      BY DEF Init, PortalInit
    <3> HIDE DEF x
    <3>3. QED
      BY <3>1, <3>2, NoDraw DEF Invitation
  <2>4. QED
    BY <2>1, <2>2, <2>3 DEF TypeOK, PortalTypeOK
<1>7. PeopleTyped
  BY <1>1, <1>6, IdleStands DEF PeopleTyped
<1>8. QED
  BY <1>1, <1>5, <1>7 DEF Claimed, Alone, Current, SelfServed, Inserting, Busy


-----------------------------------------------------------------------------
(* Suspensions, deletions, and rows that are new.                          *)

\* A row just inserted.
Fresh(r) ==
    /\ r.row = "live" /\ r.role \in {"tenant", "landlord", "gov_nira"}
    /\ r.active = TRUE /\ r.suspended = FALSE /\ r.totp = FALSE /\ r.trusted = FALSE
    /\ r.kyc = "none" /\ r.reset = 0 /\ r.otp = 0 /\ r.refresh = 0 /\ r.manifest = 0

\* A row of which no column changes that an update could change, unless it is
\* a code that was accepted.
Kept(w, u) ==
    /\ \A f \in Fields \ {"row", "reset"} : user'[u][f] = user[u][f]
    /\ \/ user'[u].reset = user[u].reset
       \/ /\ user'[u].reset = 0 /\ pc[w] = "clear_reset" /\ u \in DOMAIN job[w].set
          /\ job[w].spend \subseteq spent'
    /\ \/ user'[u].row = user[u].row
       \/ /\ user[u].row = "live" /\ user'[u].row = "deleted"
          /\ pc[w] = "delete_row" /\ u \in DOMAIN job[w].set

LEMMA Keeps ==
    ASSUME PeopleTyped, NEW w \in Workers, Commits(w), ~Saves(w), NEW u \in Users
    PROVE  Kept(w, u) \/ (user[u].row = "absent" /\ Fresh(user'[u]))
<1>1. ASSUME NEW v \in Users, NEW role \in {"tenant", "landlord"}, NEW d \in Draw \ {0},
             Inserts(w, v, role, d)
      PROVE  user'[u] = user[u] \/ (user[u].row = "absent" /\ Fresh(user'[u]))
  BY <1>1, InsertsOne DEF Fresh
<1>2. ASSUME NEW v \in Users, NEW i \in Invitations, Accepts(w, v, i)
      PROVE  user'[u] = user[u] \/ (user[u].row = "absent" /\ Fresh(user'[u]))
  BY <1>2, AcceptsOne DEF Fresh
<1>3. ASSUME NEW v \in Users, NEW d \in Draw \ {0}, Clears(w, v, d)
      PROVE  Kept(w, u)
  <2>1. pc[w] = "clear_reset" /\ DOMAIN job[w].set = {v} /\ job[w].spend \subseteq spent'
    BY <1>3 DEF Clears
  <2>2. QED
    BY <1>3, <2>1, ClearsOne DEF Kept, Fields
<1>4. ASSUME NEW v \in Users, DeletesRow(w, v)
      PROVE  Kept(w, u)
  <2>1. pc[w] = "delete_row" /\ DOMAIN job[w].set = {v}
    BY <1>4 DEF DeletesRow
  <2>2. QED
    BY <1>4, <2>1, DeletesOne DEF Kept, Fields
<1>5. ASSUME \/ \E i \in Invitations : Invites(w, i) \/ Expires(w, i)
             \/ \E v \in Users : DeletesLinks(w, v)
      PROVE  user'[u] = user[u]
  BY <1>5 DEF Invites, Expires, DeletesLinks, accounts
<1>6. user'[u] = user[u] => Kept(w, u)
  BY DEF Kept
<1>7. QED
  BY <1>1, <1>2, <1>3, <1>4, <1>5, <1>6 DEF Commits

LEMMA KeepsSanctions ==
    ASSUME PeopleTyped, NEW w \in Workers, Commits(w), ~Saves(w), NEW u \in Users,
           user'[u].suspended = TRUE
    PROVE  user[u].suspended = TRUE /\ user'[u].active = user[u].active
<1>1. ~Fresh(user'[u])
  BY DEF Fresh
<1>2. Kept(w, u)
  BY <1>1, Keeps
<1>3. user'[u]["suspended"] = user[u]["suspended"] /\ user'[u]["active"] = user[u]["active"]
  BY <1>2 DEF Kept, Fields
<1>4. QED
  BY <1>3

\* What such a commit does to the log.
LEMMA Records ==
    ASSUME PeopleTyped, NEW w \in Workers, Commits(w), ~Saves(w)
    PROVE  /\ \A u, a : a \in Weighty /\ <<u, a>> \in log => <<u, a>> \in log'
           /\ \A u, a : a \in Weighty \ {"admin_delete_user"} /\ <<u, a>> \in log' => <<u, a>> \in log
           /\ pc'[w] \in {"idle", "privy_confirm", "delete_row"}
           /\ pc'[w] = "delete_row" =>
                 /\ job'[w] = job[w]
                 /\ \A u \in DOMAIN job[w].set : <<u, "admin_delete_user">> \in log'
<1>1. CASE \E u \in Users : DeletesLinks(w, u)
  BY <1>1 DEF DeletesLinks, Weighty
<1>2. CASE \A u \in Users : ~DeletesLinks(w, u)
  BY <1>2 DEF Commits, Inserts, Clears, Accepts, Invites, Expires, DeletesRow, accounts
<1>3. QED
  BY <1>1, <1>2

LEMMA InitRows ==
    ASSUME Init, NEW u \in Users
    PROVE  /\ user[u].row = (IF u \in DOMAIN load.seeds THEN "live" ELSE "absent")
           /\ u \in DOMAIN load.seeds => user[u].role = load.seeds[u]
           /\ user[u].suspended = FALSE /\ user[u].active = TRUE /\ user[u].totp = FALSE
           /\ user[u].verify = 0 /\ user[u].reset = 0 /\ user[u].otp = 0 /\ user[u].refresh = 0
           /\ user[u].secret = 0 /\ user[u].manifest = 0
           /\ user[u].row = "live" => user[u].kyc = "approved" /\ user[u].verified = TRUE
           /\ user[u].row = "absent" => user[u].kyc = "none"
<1> DEFINE a == Absent
           role == load.seeds[u]
           t == role \notin Officers
           r == [a EXCEPT !.row = "live", !.role = role, !.verified = TRUE, !.trusted = t,
                          !.kyc = "approved"]
<1>1. user[u] = IF u \in DOMAIN load.seeds THEN r ELSE a
  BY DEF Init, AccountsInit, Seeded
<1>2. a \in Row
  BY AbsentRow
<1>3. /\ a.row = "absent" /\ a.active = TRUE /\ a.suspended = FALSE /\ a.totp = FALSE
      /\ a.verify = 0 /\ a.reset = 0 /\ a.otp = 0 /\ a.kyc = "none" /\ a.refresh = 0
      /\ a.secret = 0 /\ a.manifest = 0
  BY DEF Absent
<1> HIDE DEF a, role, t
<1>4. r.row = "live" /\ r.role = role /\ r.kyc = "approved" /\ r.verified = TRUE
  BY <1>2 DEF Row
<1>5. /\ r.active = TRUE /\ r.suspended = FALSE /\ r.totp = FALSE
      /\ r.verify = 0 /\ r.reset = 0 /\ r.otp = 0 /\ r.refresh = 0
      /\ r.secret = 0 /\ r.manifest = 0
  BY <1>2, <1>3 DEF Row
<1> HIDE DEF r
<1>6. QED
  BY <1>1, <1>3, <1>4, <1>5 DEF role

\* What was done to an account for good is in the log, and before a row goes.
Logging ==
    /\ \A u \in Users : /\ user[u].suspended = TRUE => <<u, "nira_blacklist">> \in log
                        /\ user[u].row = "deleted" => <<u, "admin_delete_user">> \in log
    /\ \A w \in Workers : pc[w] = "delete_row" =>
          \A u \in DOMAIN job[w].set : <<u, "admin_delete_user">> \in log

KeptOut == ~load.overlap => \A u \in Users : user[u].suspended = TRUE => user[u].active = FALSE

LEMMA LoggingStep ==
    ASSUME PeopleTyped, Logging, Quiet \/ \E w \in Workers : Opens(w) \/ Commits(w)
    PROVE  Logging'
<1>1. CASE Quiet
  BY <1>1 DEF Quiet, Logging, Moved
<1>2. ASSUME NEW w \in Workers, Opens(w)
      PROVE  Logging'
  BY <1>2 DEF Opens, Opened, Logging, Moved
<1>3. ASSUME NEW w \in Workers, Saves(w)
      PROVE  Logging'
  <2> DEFINE j == job[w]
  <2>1. /\ log' = log \cup j.log /\ pc'[w] # "delete_row" /\ Moved(w)
        /\ \A u \in Users : user'[u].row = user[u].row
        /\ \A u \in DOMAIN j.set : FitsSanctions(u, j.set[u], j.log)
    BY <1>3 DEF Saves, Update, Followed, RowFits
  <2>2. ASSUME NEW u \in Users, user'[u].suspended = TRUE
        PROVE  <<u, "nira_blacklist">> \in log'
    <3>1. \/ user[u].suspended = TRUE
          \/ u \in DOMAIN j.set /\ "suspended" \in DOMAIN j.set[u] /\ j.set[u].suspended = TRUE
      BY <1>3, <2>2 DEF Saves, Fields
    <3>2. QED
      BY <2>1, <3>1 DEF FitsSanctions, Logging
  <2>3. QED
    BY <2>1, <2>2 DEF Logging, Moved
<1>4. ASSUME NEW w \in Workers, Commits(w), ~Saves(w)
      PROVE  Logging'
  <2>1. ASSUME NEW u \in Users, user'[u].suspended = TRUE
        PROVE  <<u, "nira_blacklist">> \in log'
    <3>1. user[u].suspended = TRUE
      BY <1>4, <2>1, KeepsSanctions
    <3>2. QED
      BY <1>4, <3>1, Records DEF Logging, Weighty
  <2>2. ASSUME NEW u \in Users, user'[u].row = "deleted"
        PROVE  <<u, "admin_delete_user">> \in log'
    <3>1. user[u].row = "deleted" \/ (pc[w] = "delete_row" /\ u \in DOMAIN job[w].set)
      BY <1>4, <2>2, Keeps DEF Kept, Fresh
    <3>2. <<u, "admin_delete_user">> \in log
      BY <3>1 DEF Logging
    <3>3. QED
      BY <1>4, <3>2, Records DEF Weighty
  <2>3. ASSUME NEW v \in Workers, pc'[v] = "delete_row", NEW u \in DOMAIN job'[v].set
        PROVE  <<u, "admin_delete_user">> \in log'
    BY <1>4, <2>3, Records, CommitsBusy DEF Moved, Logging, Weighty
  <2>4. QED
    BY <2>1, <2>2, <2>3 DEF Logging
<1>5. QED
  BY <1>1, <1>2, <1>3, <1>4

LEMMA KeptOutStep ==
    ASSUME PeopleTyped, PeopleTyped', Current, KeptOut,
           Quiet \/ \E w \in Workers : Opens(w) \/ Commits(w)
    PROVE  KeptOut'
<1>1. CASE Quiet \/ \E w \in Workers : Opens(w)
  BY <1>1 DEF Quiet, Opens, Moved, KeptOut
<1>2. ASSUME NEW w \in Workers, Saves(w), ~load.overlap, NEW u \in Users,
             user'[u].suspended = TRUE
      PROVE  user'[u].active = FALSE
  <2> DEFINE j == job[w]
             s == j.set[u]
  <2>1. \A f \in Fields : user'[u][f] =
           IF u \in DOMAIN j.set /\ f \in DOMAIN s THEN s[f] ELSE user[u][f]
    BY <1>2, SavesSerially
  <2>2. u \in DOMAIN j.set => FitsSanctions(u, s, j.log)
    BY <1>2 DEF Saves, Update, RowFits
  <2>3. user'[u].active \in BOOLEAN
    <3>1. user' \in [Users -> Row]
      BY <1>2 DEF Saves
    <3>2. QED
      BY <3>1 DEF Row
  <2>4. CASE u \in DOMAIN j.set /\ "suspended" \in DOMAIN s
    BY <1>2, <2>1, <2>2, <2>4 DEF FitsSanctions, Fields
  <2>5. CASE ~(u \in DOMAIN j.set /\ "suspended" \in DOMAIN s)
    <3>1. user[u].suspended = TRUE /\ user[u].active = FALSE
      BY <1>2, <2>1, <2>5 DEF Fields, KeptOut
    <3>2. user'[u].active = IF u \in DOMAIN j.set /\ "active" \in DOMAIN s THEN s.active ELSE FALSE
      BY <2>1, <3>1 DEF Fields
    <3> HIDE DEF j, s
    <3>3. QED
      BY <2>2, <2>3, <2>5, <3>2 DEF FitsSanctions, s
  <2>6. QED
    BY <2>4, <2>5
<1>3. ASSUME NEW w \in Workers, Commits(w), ~Saves(w), ~load.overlap, NEW u \in Users,
             user'[u].suspended = TRUE
      PROVE  user'[u].active = FALSE
  <2>1. user[u].suspended = TRUE /\ user'[u].active = user[u].active
    BY <1>3, KeepsSanctions
  <2>2. user[u].active = FALSE
    BY <1>3, <2>1 DEF KeptOut
  <2>3. QED
    BY <2>1, <2>2
<1>4. ASSUME NEW w \in Workers, Commits(w)
      PROVE  KeptOut'
  BY <1>2, <1>3, <1>4, CommitsBusy DEF KeptOut, Moved
<1>5. QED
  BY <1>1, <1>4


-----------------------------------------------------------------------------
(* What every state satisfies.                                             *)

Base == PeopleTyped /\ Claimed /\ Alone /\ Current /\ SelfServed

Taken == Quiet \/ \E w \in Workers : Opens(w) \/ Commits(w)

LEMMA BaseStep ==
    ASSUME Base, [Next]_vars
    PROVE  Base' /\ Taken
<1>1. Taken
  BY Steps DEF Base, Taken
<1>2. PeopleTyped'
  BY <1>1, TypedStep DEF Base, Taken
<1>3. Claimed' /\ Alone' /\ Current' /\ SelfServed'
  BY <1>1, ClaimedStep, AloneStep, CurrentStep, SelfServedStep DEF Base, Taken
<1>4. QED
  BY <1>1, <1>2, <1>3 DEF Base

LEMMA BaseAlways == Spec => []Base
<1>1. Init => Base
  BY BaseInit DEF Base
<1>2. Base /\ [Next]_vars => Base'
  BY BaseStep
<1>3. QED
  BY <1>1, <1>2, PTL DEF Spec

\* The rows of users, what they were handed and what requests hold keep their
\* types, in every workload (app/models/user.py).
THEOREM PeopleTypeCorrect == Spec => []TypeOK
<1>1. Base => TypeOK
  BY DEF Base, PeopleTyped
<1>2. QED
  BY <1>1, BaseAlways, PTL

\* No commit leaves a suspension or a deletion without its entry in the log, and
\* one request at a time no handler lifts one flag of a suspension alone
\* (nira_decide, nira_suspend_user, reconnect, admin_delete_user).
THEOREM SanctionsAlwaysHold == Spec => []SanctionsHold
<1>1. Init => Logging /\ KeptOut
  <2>1. ASSUME Init
        PROVE  /\ \A u \in Users : user[u].suspended = FALSE /\ user[u].row # "deleted"
               /\ \A w \in Workers : pc[w] = "idle"
    BY <2>1, InitRows DEF Init, RequestsInit
  <2>2. QED
    BY <2>1 DEF Logging, KeptOut
<1>2. Base /\ Logging /\ KeptOut /\ [Next]_vars => Logging' /\ KeptOut'
  <2>1. SUFFICES ASSUME Base, Logging, KeptOut, [Next]_vars
                 PROVE  Logging' /\ KeptOut'
    OBVIOUS
  <2>2. Base' /\ Taken
    BY <2>1, BaseStep
  <2>3. QED
    BY <2>1, <2>2, LoggingStep, KeptOutStep DEF Base, Taken
<1>3. Base /\ Logging /\ KeptOut => SanctionsHold
  <2>1. SUFFICES ASSUME Base, Logging, KeptOut
                 PROVE  SanctionsHold
    OBVIOUS
  <2>2. \A u \in Users : user[u].suspended \in BOOLEAN /\ user[u].active \in BOOLEAN
    BY <2>1, TypesUnfolded DEF Base, Row
  <2>3. SanctionsAreLogged
    BY <2>1, <2>2 DEF Logging, SanctionsAreLogged
  <2>4. SuspendedStayOut
    BY <2>1, <2>2 DEF KeptOut, SuspendedStayOut
  <2>5. QED
    BY <2>3, <2>4 DEF SanctionsHold
<1>4. QED
  BY <1>1, <1>2, <1>3, BaseAlways, PTL DEF Spec


-----------------------------------------------------------------------------
(* What officers are shown.                                                *)

LEMMA AlertsCounted ==
    ASSUME NEW S, IsFiniteSet(S), NEW severity
    PROVE  IsFiniteSet(Alert(S, severity)) /\ Cardinality(Alert(S, severity)) = Cardinality(S)
<1> DEFINE f == [x \in S |-> <<x, severity>>]
<1>1. f \in [S -> Alert(S, severity)]
  BY DEF Alert
<1>2. \A x, y \in S : f[x] = f[y] => x = y
  OBVIOUS
<1>3. \A a \in Alert(S, severity) : \E x \in S : f[x] = a
  BY DEF Alert
<1>4. DOMAIN f = S
  OBVIOUS
<1> HIDE DEF f
<1>5. f \in Bijection(S, Alert(S, severity))
  BY <1>1, <1>2, <1>3, <1>4 DEF Bijection, Injection, IsInjective, Surjection
<1>6. QED
  BY <1>5, FS_Bijection DEF ExistsBijection

LEMMA CutsOf ==
    ASSUME NEW S, NEW n, NEW T \in Cuts(S, n)
    PROVE  T \subseteq S /\ (T = S \/ Cardinality(T) = n)
BY DEF Cuts

\* One of the two lists that are put first.
LEMMA ShownOrFull ==
    ASSUME NEW X, NEW severity \in {"suspended", "rejected"}, NEW a \in Cuts(X, LimitEach),
           IsFiniteSet(X), NEW alerts, IsFiniteSet(alerts), Alert(a, severity) \subseteq alerts,
           NEW shown \in Shown(alerts), NEW u \in X
    PROVE  \/ \E x \in shown : x[1] = u /\ Rank(x) = 0
           \/ Cardinality({x \in shown : Rank(x) = 0}) >= LimitEach
<1> DEFINE top == {x \in shown : Rank(x) = 0}
<1>1. /\ shown \subseteq alerts /\ (shown = alerts \/ Cardinality(shown) = Limit)
      /\ \A x \in shown, y \in alerts \ shown : Rank(x) <= Rank(y)
  BY CutsOf DEF Shown
<1>2. IsFiniteSet(shown) /\ IsFiniteSet(top)
  BY <1>1, FS_Subset
<1>3. \A x \in a : <<x, severity>> \in alerts /\ Rank(<<x, severity>>) = 0
  BY DEF Alert, Rank
<1>4. \A x \in alerts : Rank(x) \in {0, 1, 2}
  BY DEF Rank
<1>5. CASE \E x \in a : <<x, severity>> \notin shown
  <2>1. PICK y \in a : <<y, severity>> \notin shown
    BY <1>5
  <2>2. \A x \in shown : Rank(x) = 0
    <3>1. TAKE x \in shown
    <3>2. Rank(x) <= 0 /\ Rank(x) \in {0, 1, 2}
      BY <1>1, <1>3, <1>4, <2>1
    <3>3. QED
      BY <3>2
  <2>3. top = shown
    BY <2>2
  <2>4. Cardinality(shown) = Limit
    BY <1>1, <1>3, <2>1
  <2>5. Limit >= LimitEach
    <3>1. Cardinality(shown) \in Nat
      BY <1>2, FS_CardinalityType
    <3>2. QED
      BY <2>4, <3>1, LimitAssumption
  <2>6. QED
    BY <2>3, <2>4, <2>5
<1>6. CASE \A x \in a : <<x, severity>> \in shown
  <2>1. CASE u \in a
    BY <1>3, <1>6, <2>1
  <2>2. CASE u \notin a
    <3>1. a \subseteq X /\ Cardinality(a) = LimitEach
      BY <2>2, CutsOf
    <3>2. Cardinality(Alert(a, severity)) = LimitEach
      BY <3>1, FS_Subset, AlertsCounted
    <3>3. Alert(a, severity) \subseteq top
      BY <1>3, <1>6 DEF Alert
    <3>4. LimitEach <= Cardinality(top)
      BY <1>2, <3>2, <3>3, FS_Subset
    <3>5. Cardinality(top) \in Nat
      BY <1>2, FS_CardinalityType
    <3>6. QED
      BY <3>4, <3>5, LimitAssumption
  <2>3. QED
    BY <2>1, <2>2
<1>7. QED
  BY <1>5, <1>6

LEMMA AlertsShown ==
    ASSUME NEW alerts \in IdentityAlerts, NEW shown \in Shown(alerts), NEW v \in Blacklisted
    PROVE  \/ \E x \in shown : x[1] = v /\ Rank(x) = 0
           \/ Cardinality({x \in shown : Rank(x) = 0}) >= LimitEach
<1> DEFINE S == {u \in Commerce : user[u].suspended}
           R == Reviewed(Commerce, "rejected")
           I == {u \in Reviewed(Commerce, "none") : user[u].role # "tenant"}
           All == {Alert(a, "suspended") \cup Alert(b, "rejected") \cup Alert(c, "pending")
                     \cup Alert(d, "incomplete") :
                     a \in Cuts(S, LimitEach), b \in Cuts(R, LimitEach),
                     c \in Cuts(Waiting, LimitEach), d \in Cuts(I, LimitEach)}
<1>1. IdentityAlerts = All
  BY DEF IdentityAlerts
<1>2. S \subseteq Users /\ R \subseteq Users /\ Waiting \subseteq Users /\ I \subseteq Users
  BY DEF Reviewed, Commerce, Waiting
<1>3. v \in S \/ v \in R
  BY DEF Blacklisted
<1> HIDE DEF S, R, I
<1>4. PICK a \in Cuts(S, LimitEach), b \in Cuts(R, LimitEach), c \in Cuts(Waiting, LimitEach),
           d \in Cuts(I, LimitEach) :
         alerts = Alert(a, "suspended") \cup Alert(b, "rejected") \cup Alert(c, "pending")
                     \cup Alert(d, "incomplete")
  BY <1>1
<1>5. IsFiniteSet(S) /\ IsFiniteSet(R) /\ IsFiniteSet(Waiting) /\ IsFiniteSet(I)
  BY <1>2, UserAssumption, FS_Subset
<1>6. IsFiniteSet(a) /\ IsFiniteSet(b) /\ IsFiniteSet(c) /\ IsFiniteSet(d)
  BY <1>5, CutsOf, FS_Subset
<1>7. IsFiniteSet(alerts)
  BY <1>4, <1>6, AlertsCounted, FS_Union
<1>8. CASE v \in S
  <2>1. Alert(a, "suspended") \subseteq alerts
    BY <1>4
  <2>2. QED
    BY <1>5, <1>7, <1>8, <2>1, ShownOrFull
<1>9. CASE v \in R
  <2>1. Alert(b, "rejected") \subseteq alerts
    BY <1>4
  <2>2. QED
    BY <1>5, <1>7, <1>9, <2>1, ShownOrFull
<1>10. QED
  BY <1>3, <1>8, <1>9

\* Whoever waits for review is a landlord, an agent or a tenant, so the map
\* and the overview count the same accounts; one of them is missing from a page
\* of the queue, and a suspended or rejected account from the blacklist or from
\* an officer's alerts, only if the page or the list is full (overview_summary,
\* platform_live_activity, nira_queue, nira_blacklist, fraud_alerts).
THEOREM OfficersAlwaysSeeEverybody == Spec => []OfficersSeeEverybody
<1>1. Base => OfficersSeeEverybody
  <2>1. SUFFICES ASSUME Base
                 PROVE  OfficersSeeEverybody
    OBVIOUS
  <2>2. \A u \in Users : user[u].kyc = "pending" => user[u].role \in SelfService
    BY <2>1 DEF Base, SelfServed
  <2>3. WaitingOnMap = Waiting /\ Slices.pending = Waiting
    BY <2>2 DEF WaitingOnMap, Waiting, Slices, Reviewed, Commerce
  <2>4. ASSUME NEW S \in {Waiting, Queued}, NEW n \in Asked, NEW page \in Queue(S, n)
        PROVE  Waiting \subseteq page \/ Cardinality(page) \in {n, QueueLimit}
    <3>1. Waiting \subseteq S \cap Queued
      BY DEF Waiting, Queued, Reviewed
    <3>2. PICK k \in {n, QueueLimit} : page \in Cuts(S \cap Queued, k)
      BY DEF Queue
    <3>3. page = S \cap Queued \/ Cardinality(page) = k
      BY <3>2, CutsOf
    <3>4. QED
      BY <3>1, <3>3
  <2>5. WaitingCountsAgree
    BY <2>3, <2>4 DEF WaitingCountsAgree
  <2>6. ASSUME NEW u \in Blacklisted, NEW n \in Asked, NEW page \in Blacklist(n)
        PROVE  u \in page \/ Cardinality(page) = n
    BY CutsOf DEF Blacklist
  <2>7. BlacklistIsShown
    BY <2>6, AlertsShown DEF BlacklistIsShown
  <2>8. QED
    BY <2>5, <2>7 DEF OfficersSeeEverybody
<1>2. QED
  BY <1>1, BaseAlways, PTL


-----------------------------------------------------------------------------
(* Reviews and trust.                                                      *)

\* One request at a time, a landlord or agent who is trusted has been approved
\* and is under review or approved.
Trust ==
    ~load.overlap /\ "update_me" \notin load.uses =>
        \A u \in Users :
            /\ user[u].row = "live" /\ user[u].role \in {"landlord", "staff"}
            /\ user[u].trusted = TRUE
            => user[u].kyc \in {"pending", "approved"} /\ Endorsed(u)

\* An account approved without an officer was so from the start, and nobody
\* has seen it otherwise.
Undecided(u) == user[u].kyc = "approved" /\ <<u, "nira_approved">> \notin log

Decided ==
    "admin_kyc_review" \notin load.uses =>
        \A u \in Users : Undecided(u) =>
            /\ user[u].manifest = 0 /\ <<u, "nira_rejected">> \notin log
            /\ \A w \in Workers : pc[w] = "save" => job[w].seen[u].kyc = "approved"

\* What a commit other than an update leaves of a review.
LEMMA KeepsReview ==
    ASSUME PeopleTyped, NEW w \in Workers, Commits(w), ~Saves(w), NEW u \in Users
    PROVE  \/ /\ user'[u].kyc = user[u].kyc /\ user'[u].manifest = user[u].manifest
              /\ user'[u].trusted = user[u].trusted /\ user'[u].role = user[u].role
              /\ user'[u].row = user[u].row \/ user'[u].row = "deleted"
           \/ user'[u].kyc = "none" /\ user'[u].trusted = FALSE
<1>1. CASE Fresh(user'[u])
  BY <1>1 DEF Fresh
<1>2. CASE Kept(w, u)
  <2>1. /\ user'[u]["kyc"] = user[u]["kyc"] /\ user'[u]["manifest"] = user[u]["manifest"]
        /\ user'[u]["trusted"] = user[u]["trusted"] /\ user'[u]["role"] = user[u]["role"]
    BY <1>2 DEF Kept, Fields
  <2>2. user'[u].row = user[u].row \/ user'[u].row = "deleted"
    BY <1>2 DEF Kept
  <2>3. QED
    BY <2>1, <2>2
<1>3. QED
  BY <1>1, <1>2, Keeps

LEMMA TrustStep ==
    ASSUME PeopleTyped, Current, Trust, Taken
    PROVE  Trust'
<1> SUFFICES ASSUME ~load'.overlap, "update_me" \notin load'.uses, NEW u \in Users,
                    user'[u].row = "live", user'[u].role \in {"landlord", "staff"},
                    user'[u].trusted = TRUE
             PROVE  user'[u].kyc \in {"pending", "approved"} /\ Endorsed(u)'
  BY DEF Trust
<1>1. load' = load
  BY CommitsBusy DEF Taken, Quiet, Opens, Moved
<1>2. Endorsed(u) => Endorsed(u)'
  <2>1. <<u, "nira_approved">> \in log => <<u, "nira_approved">> \in log'
    BY Records DEF Taken, Quiet, Opens, Saves, Weighty
  <2>2. QED
    BY <1>1, <2>1 DEF Endorsed, Uses
<1>3. ASSUME NEW w \in Workers, Saves(w)
      PROVE  user'[u].kyc \in {"pending", "approved"} /\ Endorsed(u)'
  <2> DEFINE j == job[w]
             s == j.set[u]
  <2>1. /\ user'[u]["role"] = IF u \in DOMAIN j.set /\ "role" \in DOMAIN s THEN s["role"]
                              ELSE user[u]["role"]
        /\ user'[u]["kyc"] = IF u \in DOMAIN j.set /\ "kyc" \in DOMAIN s THEN s["kyc"]
                             ELSE user[u]["kyc"]
        /\ user'[u]["trusted"] = IF u \in DOMAIN j.set /\ "trusted" \in DOMAIN s
                                 THEN s["trusted"] ELSE user[u]["trusted"]
        /\ j.seen = user
    BY <1>1, <1>3, SavesSerially DEF Fields
  <2>2. /\ user[u].row = "live" /\ log' = log \cup j.log
        /\ u \in DOMAIN j.set => FitsReview(load, u, s, user[u], j.log) /\ PatchTyped(s)
    BY <1>3, <2>1 DEF Saves, Update, RowFits
  <2> HIDE DEF j, s
  <2>3. user'[u].role = user[u].role
    BY <1>1, <2>1, <2>2 DEF FitsReview
  <2>4. CASE u \in DOMAIN j.set /\ "kyc" \in DOMAIN s
    <3>1. FitsReview(load, u, s, user[u], j.log) /\ user'[u].kyc = s.kyc
      BY <2>1, <2>2, <2>4
    <3>2. s.kyc # "rejected"
      BY <2>1, <2>4, <3>1 DEF FitsReview
    <3>3. s.kyc # "none" /\ s.kyc \in Reviews
      BY <2>2, <2>4, <3>1, Columns DEF FitsReview, PatchTyped
    <3>4. CASE s.kyc = "approved"
      <4>1. <<u, "nira_approved">> \in j.log \/ "admin_kyc_review" \in load.uses
        BY <2>4, <3>1, <3>4 DEF FitsReview
      <4>2. Endorsed(u)'
        BY <1>1, <2>2, <4>1 DEF Endorsed, Uses
      <4>3. QED
        BY <3>1, <3>4, <4>2
    <3>5. CASE s.kyc = "pending"
      <4>1. user[u].trusted = TRUE
        BY <2>1, <2>2, <2>3, <2>4, <3>5 DEF FitsReview
      <4>2. Endorsed(u)
        BY <1>1, <2>2, <2>3, <4>1 DEF Trust
      <4>3. QED
        BY <1>2, <3>1, <3>5, <4>2
    <3>6. QED
      BY <3>1, <3>2, <3>3, <3>4, <3>5 DEF Reviews
  <2>5. CASE ~(u \in DOMAIN j.set /\ "kyc" \in DOMAIN s)
    <3>1. user[u].trusted = TRUE
      BY <2>1, <2>2, <2>3, <2>5 DEF FitsReview
    <3>2. user'[u].kyc = user[u].kyc
      BY <2>1, <2>5
    <3>3. QED
      BY <1>1, <1>2, <2>2, <2>3, <3>1, <3>2 DEF Trust
  <2>6. QED
    BY <2>4, <2>5
<1>4. ASSUME NEW w \in Workers, Commits(w), ~Saves(w)
      PROVE  user'[u].kyc \in {"pending", "approved"} /\ Endorsed(u)'
  <2>1. user'[u].trusted # FALSE
    OBVIOUS
  <2>2. /\ user'[u].kyc = user[u].kyc /\ user[u].trusted = TRUE /\ user'[u].role = user[u].role
        /\ user[u].row = "live"
    BY <1>4, <2>1, KeepsReview
  <2>3. QED
    BY <1>1, <1>2, <2>2 DEF Trust
<1>5. CASE user' = user
  BY <1>1, <1>2, <1>5 DEF Trust
<1>6. QED
  BY <1>3, <1>4, <1>5 DEF Taken, Quiet, Opens

LEMMA DecidedStep ==
    ASSUME PeopleTyped, Decided, Taken
    PROVE  Decided'
<1> SUFFICES ASSUME "admin_kyc_review" \notin load'.uses, NEW u \in Users, Undecided(u)'
             PROVE  /\ user'[u].manifest = 0 /\ <<u, "nira_rejected">> \notin log'
                    /\ \A w \in Workers : pc'[w] = "save" => job'[w].seen[u].kyc = "approved"
  BY DEF Decided
<1>1. load' = load
  BY CommitsBusy DEF Taken, Quiet, Opens, Moved
<1>2. user'[u].kyc = "approved" /\ <<u, "nira_approved">> \notin log'
  BY DEF Undecided
<1> DEFINE So ==
       /\ user[u].manifest = 0 /\ <<u, "nira_rejected">> \notin log
       /\ \A w \in Workers : pc[w] = "save" => job[w].seen[u].kyc = "approved"
<1>3. user[u].kyc = "approved" /\ <<u, "nira_approved">> \notin log => So
  BY <1>1 DEF Decided, Undecided
<1>4. CASE Quiet
  <2>1. /\ user' = user /\ <<u, "nira_approved">> \notin log
        /\ <<u, "nira_rejected">> \in log' => <<u, "nira_rejected">> \in log
    BY <1>2, <1>4 DEF Quiet, Weighty
  <2>2. So
    BY <1>2, <1>3, <2>1
  <2>3. \A w \in Workers : pc'[w] = "save" => pc[w] = "save" /\ job'[w] = job[w]
    BY <1>4 DEF Quiet, Moved
  <2>4. QED
    BY <2>1, <2>2, <2>3
<1>5. ASSUME NEW w \in Workers, Opens(w)
      PROVE  /\ user'[u].manifest = 0 /\ <<u, "nira_rejected">> \notin log'
             /\ \A v \in Workers : pc'[v] = "save" => job'[v].seen[u].kyc = "approved"
  <2>1. user' = user /\ log' = log /\ So
    BY <1>2, <1>3, <1>5 DEF Opens
  <2>2. pc'[w] = "save" => job'[w].seen = user
    BY <1>5 DEF Opens, OpensRows
  <2>3. \A v \in Workers : v # w => pc'[v] = pc[v] /\ job'[v] = job[v]
    BY <1>5 DEF Opens, Moved
  <2>4. QED
    BY <1>2, <2>1, <2>2, <2>3
<1>6. ASSUME NEW w \in Workers, Saves(w)
      PROVE  /\ user'[u].manifest = 0 /\ <<u, "nira_rejected">> \notin log'
             /\ \A v \in Workers : pc'[v] = "save" => job'[v].seen[u].kyc = "approved"
  <2> DEFINE j == job[w]
             s == j.set[u]
  <2>1. /\ user'[u]["kyc"] = IF u \in DOMAIN j.set /\ "kyc" \in DOMAIN s /\ s["kyc"] # j.seen[u]["kyc"]
                             THEN s["kyc"] ELSE user[u]["kyc"]
        /\ user'[u]["manifest"] =
              IF u \in DOMAIN j.set /\ "manifest" \in DOMAIN s /\ s["manifest"] # j.seen[u]["manifest"]
              THEN s["manifest"] ELSE user[u]["manifest"]
        /\ log' = log \cup j.log /\ pc[w] = "save" /\ pc'[w] # "save"
        /\ \A v \in Workers : v # w => pc'[v] = pc[v] /\ job'[v] = job[v]
    BY <1>6 DEF Saves, Fields, Update, Followed, Moved
  <2>2. u \in DOMAIN j.set => FitsReview(load, u, s, j.seen[u], j.log)
    BY <1>6 DEF Saves, Update, RowFits
  <2>3. j.log \subseteq (DOMAIN j.set) \X LogActions
    BY <1>6 DEF Saves, Update
  <2> HIDE DEF j, s
  <2>4. u \in DOMAIN j.set /\ "kyc" \in DOMAIN s => s.kyc # "approved"
    BY <1>1, <1>2, <2>1, <2>2 DEF FitsReview
  <2>5. user[u].kyc = "approved" /\ <<u, "nira_approved">> \notin log
    BY <1>2, <2>1, <2>4
  <2>6. So /\ j.seen[u].kyc = "approved"
    BY <1>3, <2>1, <2>5 DEF j
  <2>7. ~(u \in DOMAIN j.set /\ "kyc" \in DOMAIN s)
    BY <1>2, <2>1, <2>4, <2>6
  <2>8. <<u, "nira_rejected">> \notin j.log
    BY <2>2, <2>3, <2>7 DEF FitsReview
  <2>9. user'[u].manifest = user[u].manifest
    BY <2>1, <2>2, <2>7 DEF FitsReview
  <2>10. QED
    BY <2>1, <2>6, <2>8, <2>9
<1>7. ASSUME NEW w \in Workers, Commits(w), ~Saves(w)
      PROVE  /\ user'[u].manifest = 0 /\ <<u, "nira_rejected">> \notin log'
             /\ \A v \in Workers : pc'[v] = "save" => job'[v].seen[u].kyc = "approved"
  <2>1. user'[u].kyc = user[u].kyc /\ user'[u].manifest = user[u].manifest
    BY <1>2, <1>7, KeepsReview
  <2>2. /\ <<u, "nira_approved">> \notin log
        /\ <<u, "nira_rejected">> \in log' => <<u, "nira_rejected">> \in log
        /\ pc'[w] # "save"
    BY <1>2, <1>7, Records DEF Weighty
  <2>3. So
    BY <1>2, <1>3, <2>1, <2>2
  <2>4. \A v \in Workers : v # w => pc'[v] = pc[v] /\ job'[v] = job[v]
    BY <1>7, CommitsBusy DEF Moved
  <2>5. QED
    BY <2>1, <2>2, <2>3, <2>4
<1>8. QED
  BY <1>4, <1>5, <1>6, <1>7 DEF Taken

\* One request at a time, a landlord or agent who may publish has been approved,
\* and not rejected since; and with overlap too, a certificate shown as valid has been
\* decided by an officer, as no handler but an administrator's approves
\* without an entry (nira_decide, _apply_trust_after_email_verify,
\* verify_compliance).
THEOREM TrustIsAlwaysDecided == Spec => []TrustIsDecided
<1>1. Init => Trust /\ Decided
  <2>1. SUFFICES ASSUME Init
                 PROVE  Trust /\ Decided
    OBVIOUS
  <2>2. /\ \A u \in Users : /\ user[u].row = "live" => user[u].kyc = "approved"
                            /\ user[u].row = "live" => u \in DOMAIN load.seeds
                            /\ user[u].manifest = 0
        /\ \A w \in Workers : pc[w] = "idle"
        /\ log = {}
    BY <2>1, InitRows DEF Init, RequestsInit, AccountsInit
  <2>3. QED
    BY <2>2 DEF Trust, Decided, Endorsed
<1>2. Base /\ Trust /\ Decided /\ [Next]_vars => Trust' /\ Decided'
  BY BaseStep, TrustStep, DecidedStep DEF Base
<1>3. Base /\ Trust /\ Decided => TrustIsDecided
  <2>1. SUFFICES ASSUME Base, Trust, Decided
                 PROVE  TrustIsDecided
    OBVIOUS
  <2>2. \A u \in Users : user[u].trusted \in BOOLEAN
    BY <2>1, TypesUnfolded DEF Base, Row
  <2>3. TrustFollowsReview
    BY <2>1, <2>2 DEF Trust, TrustFollowsReview, Uses, Moderated, Live
  <2>4. VerifiedMeansDecided
    BY <2>1 DEF Decided, Undecided, VerifiedMeansDecided, CertificateValid, Anchored, Uses
  <2>5. QED
    BY <2>3, <2>4 DEF TrustIsDecided
<1>4. QED
  BY <1>1, <1>2, <1>3, BaseAlways, PTL DEF Spec


-----------------------------------------------------------------------------
(* Disconnecting accounts.                                                 *)

\* One request at a time, an account that is not active has no session, unless
\* it was suspended.
Disconnected ==
    ~load.overlap /\ "verify_totp" \notin load.uses =>
        \A u \in Users : user[u].active = FALSE /\ user[u].suspended = FALSE =>
            user[u].refresh = 0

Administered ==
    /\ ~load.overlap /\ "update_me" \notin load.uses
    /\ \E u \in DOMAIN load.seeds : load.seeds[u] = "system_admin"

Remaining == Administered => \E a \in Users : CanAct(user[a])

LEMMA DisconnectedStep ==
    ASSUME PeopleTyped, PeopleTyped', Current, Disconnected, Taken
    PROVE  Disconnected'
<1> SUFFICES ASSUME ~load'.overlap, "verify_totp" \notin load'.uses, NEW u \in Users,
                    user'[u].active = FALSE, user'[u].suspended = FALSE
             PROVE  user'[u].refresh = 0
  BY DEF Disconnected
<1>1. load' = load
  BY CommitsBusy DEF Taken, Quiet, Opens, Moved
<1>2. CASE user' = user
  BY <1>1, <1>2 DEF Disconnected
<1>3. ASSUME NEW w \in Workers, Saves(w)
      PROVE  user'[u].refresh = 0
  <2> DEFINE j == job[w]
             s == j.set[u]
  <2>1. /\ user'[u]["active"] = IF u \in DOMAIN j.set /\ "active" \in DOMAIN s THEN s["active"]
                                ELSE user[u]["active"]
        /\ user'[u]["suspended"] = IF u \in DOMAIN j.set /\ "suspended" \in DOMAIN s
                                   THEN s["suspended"] ELSE user[u]["suspended"]
        /\ user'[u]["refresh"] = IF u \in DOMAIN j.set /\ "refresh" \in DOMAIN s
                                 THEN s["refresh"] ELSE user[u]["refresh"]
        /\ j.seen = user
    BY <1>1, <1>3, SavesSerially DEF Fields
  <2>2. u \in DOMAIN j.set => FitsSession(load, s, user[u])
    BY <1>3, <2>1 DEF Saves, Update, RowFits
  <2> HIDE DEF j, s
  <2>3. ~(u \in DOMAIN j.set /\ "suspended" \in DOMAIN s)
    <3>1. SUFFICES ASSUME u \in DOMAIN j.set, "suspended" \in DOMAIN s
                   PROVE  FALSE
      OBVIOUS
    <3>2. s.suspended = FALSE
      BY <2>1, <3>1
    <3>3. "active" \in DOMAIN s /\ s.active = TRUE
      BY <2>2, <3>1, <3>2 DEF FitsSession
    <3>4. user'[u].active = TRUE
      BY <2>1, <3>1, <3>3
    <3>5. QED
      BY <3>4
  <2>4. user[u].suspended = FALSE
    BY <2>1, <2>3
  <2>5. CASE u \in DOMAIN j.set /\ "active" \in DOMAIN s
    <3>1. s.active = FALSE
      BY <2>1, <2>5
    <3>2. "refresh" \in DOMAIN s /\ s.refresh = 0
      BY <2>2, <2>3, <2>5, <3>1 DEF FitsSession
    <3>3. QED
      BY <2>1, <2>5, <3>2
  <2>6. CASE ~(u \in DOMAIN j.set /\ "active" \in DOMAIN s)
    <3>1. user[u].active = FALSE
      BY <2>1, <2>6
    <3>2. user[u].refresh = 0
      BY <1>1, <2>4, <3>1 DEF Disconnected
    <3>3. user[u].active # TRUE
      BY <3>1
    <3>4. u \in DOMAIN j.set /\ "refresh" \in DOMAIN s => s.refresh = 0
      BY <1>1, <2>2, <3>3 DEF FitsSession
    <3>5. QED
      BY <2>1, <3>2, <3>4
  <2>7. QED
    BY <2>5, <2>6
<1>4. ASSUME NEW w \in Workers, Commits(w), ~Saves(w)
      PROVE  user'[u].refresh = 0
  <2>1. CASE Fresh(user'[u])
    BY <2>1 DEF Fresh
  <2>2. CASE Kept(w, u)
    <3>1. /\ user'[u]["active"] = user[u]["active"] /\ user'[u]["refresh"] = user[u]["refresh"]
          /\ user'[u]["suspended"] = user[u]["suspended"]
      BY <2>2 DEF Kept, Fields
    <3>2. user[u].active = FALSE /\ user[u].suspended = FALSE
      BY <3>1
    <3>3. QED
      BY <1>1, <3>1, <3>2 DEF Disconnected
  <2>3. QED
    BY <1>4, <2>1, <2>2, Keeps
<1>5. QED
  BY <1>2, <1>3, <1>4 DEF Taken, Quiet, Opens

LEMMA RemainingStep ==
    ASSUME PeopleTyped, PeopleTyped', Current, Remaining, Taken
    PROVE  Remaining'
<1> SUFFICES ASSUME Administered'
             PROVE  \E a \in Users : CanAct(user'[a])
  BY DEF Remaining, CanAct
<1>1. load' = load
  BY CommitsBusy DEF Taken, Quiet, Opens, Moved
<1>2. /\ ~load.overlap /\ "update_me" \notin load.uses
      /\ \E a \in Users : CanAct(user[a])
  BY <1>1 DEF Administered, Remaining
<1>3. CASE user' = user
  BY <1>2, <1>3
<1>4. ASSUME NEW w \in Workers, Saves(w)
      PROVE  \E a \in Users : CanAct(user'[a])
  <2> DEFINE j == job[w]
  <2>1. /\ \A u \in Users, f \in Fields : user'[u][f] =
              IF u \in DOMAIN j.set /\ f \in DOMAIN j.set[u] THEN j.set[u][f] ELSE user[u][f]
        /\ j.seen = user
    BY <1>2, <1>4, SavesSerially
  <2>2. /\ \A u \in DOMAIN j.set : RowFits(load, u, j.set[u], user, Handed(j, u), j.spend, j.log)
        /\ (\E u \in DOMAIN j.set : "active" \in DOMAIN j.set[u]) => OneRow(j)
        /\ \A u \in Users : user'[u].row = user[u].row
    BY <1>4, <2>1 DEF Saves, Update
  <2> HIDE DEF j
  <2>3. \A u \in Users : user'[u].role = user[u].role
    <3>1. \A u \in DOMAIN j.set : "role" \notin DOMAIN j.set[u]
      BY <1>2, <2>2 DEF RowFits, FitsReview
    <3>2. QED
      BY <2>1, <3>1 DEF Fields
  <2>4. ASSUME NEW a \in Users, CanAct(user[a]),
               a \in DOMAIN j.set => "active" \notin DOMAIN j.set[a]
        PROVE  CanAct(user'[a])
    <3>1. user'[a]["active"] = user[a]["active"]
      BY <2>1, <2>4 DEF Fields
    <3>2. QED
      BY <2>2, <2>3, <2>4, <3>1 DEF CanAct
  <2>5. PICK a \in Users : CanAct(user[a])
    BY <1>2
  <2>6. CASE a \in DOMAIN j.set /\ "active" \in DOMAIN j.set[a]
    <3>1. DOMAIN j.set = {a}
      BY <2>2, <2>6 DEF OneRow
    <3>2. CASE j.set[a].active = TRUE
      <4>1. user'[a].active = TRUE
        BY <2>1, <2>6, <3>2 DEF Fields
      <4>2. QED
        BY <2>2, <2>3, <2>5, <4>1 DEF CanAct
    <3>3. CASE j.set[a].active = FALSE
      <4>1. FitsAdmins(a, j.set[a], user) /\ user[a].role = "system_admin"
        BY <2>2, <2>5, <2>6 DEF RowFits, CanAct
      <4>2. \E b \in Users \ {a} : CanAct(user[b])
        BY <2>6, <3>3, <4>1 DEF FitsAdmins
      <4>3. QED
        BY <2>4, <3>1, <4>2
    <3>4. j.set[a]["active"] \in BOOLEAN
      BY <2>2, <2>6, Columns DEF RowFits, PatchTyped
    <3>5. QED
      BY <3>2, <3>3, <3>4
  <2>7. QED
    BY <2>4, <2>5, <2>6
<1>5. ASSUME NEW w \in Workers, Commits(w), ~Saves(w)
      PROVE  \E a \in Users : CanAct(user'[a])
  <2>1. PICK a \in Users : /\ CanAct(user[a])
                           /\ ~(pc[w] = "delete_row" /\ a \in DOMAIN job[w].set)
    <3>1. CASE pc[w] = "delete_row"
      <4>1. PICK u \in Users : DOMAIN job[w].set = {u}
        BY <3>1 DEF PeopleTyped, Stands, OneRow
      <4>2. QED
        BY <1>2, <3>1, <4>1 DEF Current
    <3>2. QED
      BY <1>2, <3>1
  <2>2. Kept(w, a) /\ user'[a].row = user[a].row
    BY <1>5, <2>1, Keeps DEF Kept, CanAct
  <2>3. user'[a]["active"] = user[a]["active"] /\ user'[a]["role"] = user[a]["role"]
    BY <2>2 DEF Kept, Fields
  <2>4. QED
    BY <2>1, <2>2, <2>3 DEF CanAct
<1>6. QED
  BY <1>3, <1>4, <1>5 DEF Taken, Quiet, Opens

\* One request at a time, an account an administrator disconnects keeps no
\* session and gets none but by verify_totp, which asks for no active account;
\* and there is always an administrator who can act, whoever is disconnected or
\* deleted (disconnect, reconnect, admin_delete_user, refresh_token).
THEOREM DisconnectionsAlwaysHold == Spec => []DisconnectionsHold
<1>1. Init => Disconnected /\ Remaining
  <2>1. SUFFICES ASSUME Init
                 PROVE  Disconnected /\ Remaining
    OBVIOUS
  <2>2. \A u \in Users : user[u].refresh = 0 /\ user[u].active = TRUE
    BY <2>1, InitRows
  <2>3. \A u \in DOMAIN load.seeds : u \in Users /\ user[u].row = "live" /\ user[u].role = load.seeds[u]
    BY <2>1, InitRows, SeedAssumption DEF Init, RequestsInit
  <2>4. QED
    BY <2>2, <2>3 DEF Disconnected, Remaining, Administered, CanAct
<1>2. Base /\ Disconnected /\ Remaining /\ [Next]_vars => Disconnected' /\ Remaining'
  BY BaseStep, DisconnectedStep, RemainingStep DEF Base
<1>3. Base /\ Disconnected /\ Remaining => DisconnectionsHold
  <2>1. SUFFICES ASSUME Base, Disconnected, Remaining
                 PROVE  DisconnectionsHold
    OBVIOUS
  <2>2. \A u \in Users : user[u].active \in BOOLEAN /\ user[u].suspended \in BOOLEAN
    BY <2>1, TypesUnfolded DEF Base, Row
  <2>3. DisconnectEndsSessions
    BY <2>1, <2>2 DEF Disconnected, DisconnectEndsSessions, Uses
  <2>4. AnAdministratorRemains
    BY <2>1 DEF Remaining, Administered, AnAdministratorRemains, Uses, CanAct, ActiveAdmins,
                Admins, Live
  <2>5. QED
    BY <2>3, <2>4 DEF DisconnectionsHold
<1>4. QED
  BY <1>1, <1>2, <1>3, BaseAlways, PTL DEF Spec


-----------------------------------------------------------------------------
(* One-time codes.                                                         *)

\* A code that an update, or an insert, is about to write.
Held(w, u, f) ==
    /\ pc[w] \in {"save", "insert"}
    /\ u \in DOMAIN job[w].set /\ f \in DOMAIN job[w].set[u] /\ job[w].set[u][f] # 0

\* A code that a commit is about to take off its row.
Clearing(w, u, f) ==
    /\ u \in DOMAIN job[w].set
    /\ pc[w] = "save" =>
          f \in DOMAIN job[w].set[u] /\ job[w].set[u][f] = 0 /\ job[w].seen[u][f] # 0
    /\ pc[w] = "clear_reset" => f = "reset"

\* A code is drawn before it is used, is in one place, and is in none once it
\* was accepted.
Used ==
    \A c \in spent : c # 0 /\ c <= draws

OnRows ==
    /\ \A u \in Users, f \in Codes : user[u][f] <= draws /\ user[u][f] \notin spent
    /\ \A u, v \in Users, f, g \in Codes :
          user[u][f] = user[v][g] /\ user[u][f] # 0 => u = v /\ f = g

InFlight ==
    \A w \in Workers, u \in Users, f \in Codes : Held(w, u, f) =>
       LET c == job[w].set[u][f] IN
       /\ c <= draws /\ c \notin spent
       /\ \A v \in Users, g \in Codes : user[v][g] # c
       /\ \A x \in Workers, v \in Users, g \in Codes :
             Held(x, v, g) /\ job[x].set[v][g] = c => x = w /\ v = u /\ g = f

Accepting ==
    \A w \in Workers : pc[w] \in {"save", "clear_reset"} => \A c \in job[w].spend :
       /\ c # 0 /\ c <= draws
       /\ \A x \in Workers, v \in Users, g \in Codes : Held(x, v, g) => job[x].set[v][g] # c
       /\ \A v \in Users, g \in Codes : user[v][g] = c => Clearing(w, v, g)

CodesDiffer == Used /\ OnRows /\ InFlight /\ Accepting

LEMMA HeldTyped ==
    ASSUME PeopleTyped, NEW w \in Workers, NEW u, NEW f \in Codes, Held(w, u, f)
    PROVE  u \in Users /\ job[w].set[u][f] \in Draw
<1>1. Stands(load, pc[w], job[w])
  BY DEF PeopleTyped
<1>2. CASE pc[w] = "save"
  <2>1. Update(load, job[w]) /\ u \in DOMAIN job[w].set /\ f \in DOMAIN job[w].set[u]
    BY <1>1, <1>2 DEF Stands, Held
  <2>2. u \in Users /\ PatchTyped(job[w].set[u])
    BY <2>1 DEF Update, RowFits
  <2>3. QED
    BY <2>1, <2>2, Columns DEF PatchTyped, Codes
<1>3. CASE pc[w] = "insert"
  <2>1. PICK v \in Users, role \in {"tenant", "landlord"}, d \in Draw \ {0} :
           job[w].set = One(v, NewAccount(role, d))
    BY <1>1, <1>3 DEF Stands, Insertion
  <2>2. u = v /\ job[w].set[u] = NewAccount(role, d)
    BY <2>1 DEF Held, One
  <2>3. NewAccount(role, d)[f] \in Draw
    BY NewRows, RowColumns, Columns DEF Codes, Fields
  <2>4. QED
    BY <2>2, <2>3
<1>4. QED
  BY <1>2, <1>3 DEF Held

LEMMA CodeTyped ==
    ASSUME PeopleTyped
    PROVE  /\ \A u \in Users, f \in Codes : user[u][f] \in Draw
           /\ draws \in Draw
           /\ \A w \in Workers : pc[w] \in {"save", "clear_reset"} => job[w].spend \subseteq Draw
<1>1. ASSUME NEW w \in Workers, pc[w] \in {"save", "clear_reset"}
      PROVE  job[w].spend \subseteq Draw
  BY <1>1 DEF PeopleTyped, Stands, Update
<1>2. QED
  BY <1>1, RowTyped, TypesUnfolded

\* A step after which what was held is on its row or gone, and what was
\* accepted is gone from its row.
Delivers(w, X) ==
    /\ Moved(w) /\ draws' = draws /\ pc'[w] \notin {"save", "insert", "clear_reset"}
    /\ \A u \in Users, f \in Codes :
          \/ user'[u][f] \in {user[u][f], 0}
          \/ Held(w, u, f) /\ user'[u][f] = job[w].set[u][f]
    /\ spent' = spent \cup X
    /\ X = {} \/ (pc[w] \in {"save", "clear_reset"} /\ X \subseteq job[w].spend)
    /\ \A u \in Users, f \in Codes : user'[u][f] \notin X

LEMMA CodesOn ==
    ASSUME PeopleTyped, CodesDiffer, NEW w \in Workers, NEW X, Delivers(w, X)
    PROVE  CodesDiffer'
<1> USE DEF Delivers
<1>1. /\ \A v \in Workers : v # w => pc'[v] = pc[v] /\ job'[v] = job[v]
      /\ \A v \in Workers, u \in Users, f \in Codes : Held(v, u, f)' =>
            v # w /\ Held(v, u, f) /\ job'[v].set[u][f] = job[v].set[u][f]
  BY DEF Moved, Held
<1>2. ASSUME NEW v \in Workers, v # w, NEW u \in Users, NEW f \in Codes, Held(v, u, f),
             NEW y \in Users, NEW g \in Codes
      PROVE  user'[y][g] # job[v].set[u][f]
  BY <1>2 DEF CodesDiffer, InFlight, Held
<1>3. Used'
  BY DEF CodesDiffer, Used, Accepting
<1>4. OnRows'
  <2>1. ASSUME NEW u \in Users, NEW f \in Codes
        PROVE  user'[u][f] <= draws' /\ user'[u][f] \notin spent'
    <3>1. 0 <= draws
      BY CodeTyped DEF Draw
    <3>2. 0 \notin spent
      BY DEF CodesDiffer, Used
    <3>3. user'[u][f] <= draws /\ user'[u][f] \notin spent
      BY <3>1, <3>2 DEF CodesDiffer, OnRows, InFlight
    <3>4. QED
      BY <3>3
  <2>2. ASSUME NEW u \in Users, NEW v \in Users, NEW f \in Codes, NEW g \in Codes,
               user'[u][f] = user'[v][g], user'[u][f] # 0
        PROVE  u = v /\ f = g
    BY <2>2 DEF CodesDiffer, OnRows, InFlight
  <2>3. QED
    BY <2>1, <2>2 DEF OnRows
<1>5. InFlight'
  <2>1. ASSUME NEW v \in Workers, NEW u \in Users, NEW f \in Codes, Held(v, u, f)'
        PROVE  LET c == job'[v].set[u][f] IN
               /\ c <= draws' /\ c \notin spent'
               /\ \A y \in Users, g \in Codes : user'[y][g] # c
               /\ \A x \in Workers, y \in Users, g \in Codes :
                     Held(x, y, g)' /\ job'[x].set[y][g] = c => x = v /\ y = u /\ g = f
    <3>1. v # w /\ Held(v, u, f) /\ job'[v].set[u][f] = job[v].set[u][f]
      BY <1>1, <2>1
    <3> DEFINE c == job[v].set[u][f]
    <3>2. c <= draws /\ c \notin spent
      BY <3>1 DEF CodesDiffer, InFlight
    <3>3. c \notin X
      BY <3>1 DEF CodesDiffer, Accepting
    <3>4. \A y \in Users, g \in Codes : user'[y][g] # c
      BY <1>2, <3>1
    <3>5. \A x \in Workers, y \in Users, g \in Codes :
             Held(x, y, g) /\ job[x].set[y][g] = c => x = v /\ y = u /\ g = f
      BY <3>1 DEF CodesDiffer, InFlight
    <3>6. QED
      BY <1>1, <3>1, <3>2, <3>3, <3>4, <3>5
  <2>2. QED
    BY <2>1 DEF InFlight
<1>6. Accepting'
  <2>1. ASSUME NEW v \in Workers, pc'[v] \in {"save", "clear_reset"}, NEW c \in job'[v].spend
        PROVE  /\ c # 0 /\ c <= draws'
               /\ \A x \in Workers, y \in Users, g \in Codes :
                     Held(x, y, g)' => job'[x].set[y][g] # c
               /\ \A y \in Users, g \in Codes : user'[y][g] = c => Clearing(v, y, g)'
    <3>1. v # w /\ pc[v] \in {"save", "clear_reset"} /\ c \in job[v].spend
          /\ pc'[v] = pc[v] /\ job'[v] = job[v]
      BY <1>1, <2>1
    <3>2. /\ c # 0 /\ c <= draws
          /\ \A x \in Workers, y \in Users, g \in Codes : Held(x, y, g) => job[x].set[y][g] # c
          /\ \A y \in Users, g \in Codes : user[y][g] = c => Clearing(v, y, g)
      BY <3>1 DEF CodesDiffer, Accepting
    <3>3. \A y \in Users, g \in Codes : user'[y][g] = c => user[y][g] = c
      BY <3>2
    <3>4. \A y \in Users, g \in Codes : user'[y][g] = c => Clearing(v, y, g)'
      BY <3>1, <3>2, <3>3 DEF Clearing
    <3>5. QED
      BY <1>1, <3>2, <3>4
  <2>2. QED
    BY <2>1 DEF Accepting
<1>7. QED
  BY <1>3, <1>4, <1>5, <1>6 DEF CodesDiffer

LEMMA CodesQuiet ==
    ASSUME PeopleTyped, CodesDiffer, Quiet
    PROVE  CodesDiffer'
<1>1. /\ user' = user /\ spent' = spent /\ draws' >= draws /\ draws' \in Draw
      /\ \A v \in Workers : pc'[v] = "idle" \/ (pc'[v] = pc[v] /\ job'[v] = job[v])
  BY DEF Quiet, Moved
<1>2. \A c \in Draw : c <= draws => c <= draws'
  BY <1>1, CodeTyped DEF Draw
<1>3. \A v \in Workers, u \in Users, f \in Codes : Held(v, u, f)' =>
         /\ Held(v, u, f) /\ job'[v].set[u][f] = job[v].set[u][f]
         /\ job[v].set[u][f] \in Draw
  BY <1>1, HeldTyped DEF Held
<1>4. Used'
  BY <1>1, <1>2, TypesUnfolded DEF CodesDiffer, Used
<1>5. OnRows'
  BY <1>1, <1>2, CodeTyped DEF CodesDiffer, OnRows
<1>6. InFlight'
  BY <1>1, <1>2, <1>3 DEF CodesDiffer, InFlight
<1>7. Accepting'
  <2>1. ASSUME NEW v \in Workers, pc'[v] \in {"save", "clear_reset"}, NEW c \in job'[v].spend
        PROVE  /\ c # 0 /\ c <= draws'
               /\ \A x \in Workers, y \in Users, g \in Codes :
                     Held(x, y, g)' => job'[x].set[y][g] # c
               /\ \A y \in Users, g \in Codes : user'[y][g] = c => Clearing(v, y, g)'
    <3>1. pc'[v] = pc[v] /\ job'[v] = job[v]
      BY <1>1, <2>1
    <3>2. /\ c # 0 /\ c <= draws /\ c \in Draw
          /\ \A x \in Workers, y \in Users, g \in Codes : Held(x, y, g) => job[x].set[y][g] # c
          /\ \A y \in Users, g \in Codes : user[y][g] = c => Clearing(v, y, g)
      BY <2>1, <3>1, CodeTyped DEF CodesDiffer, Accepting
    <3>3. \A y \in Users, g \in Codes : Clearing(v, y, g) => Clearing(v, y, g)'
      BY <3>1 DEF Clearing
    <3>4. QED
      BY <1>1, <1>2, <1>3, <3>2, <3>3
  <2>2. QED
    BY <2>1 DEF Accepting
<1>8. QED
  BY <1>4, <1>5, <1>6, <1>7 DEF CodesDiffer


\* A request that has just read the table holds the code just drawn, and
\* accepts one that is on the row it is about.
LEMMA OpensHeld ==
    ASSUME PeopleTyped, NEW w \in Workers, Opens(w)
    PROVE  /\ \A v \in Workers, u \in Users, f \in Codes : Held(v, u, f)' =>
                 \/ v # w /\ Held(v, u, f) /\ job'[v].set[u][f] = job[v].set[u][f]
                 \/ /\ v = w /\ job'[v].set[u][f] = New /\ draws' = New
                    /\ \A y \in Users, g \in Codes : Held(w, y, g)' => y = u /\ g = f
           /\ \A u, f : ~Held(w, u, f)
<1>1. \A v \in Workers : v # w => pc'[v] = pc[v] /\ job'[v] = job[v]
  BY DEF Opens, Moved
<1>2. OpensCodes(w) /\ pc[w] \notin {"save", "insert"}
  BY DEF Opens
<1>3. ASSUME NEW u \in Users, NEW f \in Codes, Held(w, u, f)'
      PROVE  /\ job'[w].set[u][f] = New /\ draws' = New
             /\ \A y \in Users, g \in Codes : Held(w, y, g)' => y = u /\ g = f
  BY <1>2, <1>3 DEF OpensCodes, Held
<1>4. QED
  BY <1>1, <1>2, <1>3 DEF Held

LEMMA OpensAccepting ==
    ASSUME PeopleTyped, NEW w \in Workers, Opens(w),
           pc'[w] \in {"save", "clear_reset"}, NEW c \in job'[w].spend
    PROVE  \E u \in Users, f \in Codes : c = user[u][f] /\ c # 0 /\ Clearing(w, u, f)'
<1> DEFINE j == job'[w]
<1>1. Stands(load, pc'[w], j) /\ OpensCodes(w) /\ (pc'[w] = "save" => j.seen = user)
  BY DEF Opens, OpensRows
<1>2. CASE pc'[w] = "save"
  <2>1. Update(load, j) /\ j.seen = user /\ c \in j.spend
    BY <1>1, <1>2 DEF Stands
  <2> HIDE DEF j
  <2>2. PICK u \in Users : DOMAIN j.set = {u}
    BY <2>1 DEF Update, OneRow
  <2> DEFINE s == j.set[u]
             h == Handed(j, u)
  <2>3. FitsCodes(s, user[u], h, j.spend)
    BY <2>1, <2>2 DEF Update, RowFits
  <2> HIDE DEF s, h
  <2>4. PICK f \in Codes : f \in DOMAIN s /\ s[f] = 0
    BY <2>1, <2>3 DEF FitsCodes
  <2>5. user[u][f] # 0 /\ c = user[u][f]
    BY <2>1, <2>3, <2>4 DEF FitsCodes
  <2>6. Clearing(w, u, f)'
    BY <1>2, <2>1, <2>2, <2>4, <2>5 DEF Clearing, j, s
  <2>7. QED
    BY <2>5, <2>6
<1>3. CASE pc'[w] = "clear_reset"
  <2>1. PICK u \in Users : DOMAIN j.set = {u}
    BY <1>1, <1>3 DEF Stands, OneRow
  <2>2. user[u]["reset"] # 0 /\ c = user[u]["reset"]
    BY <1>1, <1>3, <2>1 DEF OpensCodes
  <2>3. Clearing(w, u, "reset")'
    BY <1>3, <2>1 DEF Clearing
  <2>4. QED
    BY <2>2, <2>3 DEF Codes
<1>4. QED
  BY <1>2, <1>3

LEMMA CodesOpen ==
    ASSUME PeopleTyped, CodesDiffer, NEW w \in Workers, Opens(w)
    PROVE  CodesDiffer'
<1>1. /\ user' = user /\ spent' = spent /\ draws' >= draws /\ draws' \in Draw
      /\ \A v \in Workers : v # w => pc'[v] = pc[v] /\ job'[v] = job[v]
  BY DEF Opens, Moved
<1>2. /\ \A c \in Draw : c <= draws => c <= draws' /\ c # New
      /\ New = draws' => New <= draws'
  BY <1>1, CodeTyped DEF Draw, New
<1>3. /\ \A c \in spent : c \in Draw /\ c <= draws
      /\ \A u \in Users, f \in Codes : user[u][f] \in Draw /\ user[u][f] <= draws
      /\ \A v \in Workers, u \in Users, f \in Codes : Held(v, u, f) =>
            job[v].set[u][f] \in Draw /\ job[v].set[u][f] <= draws
  BY CodeTyped, TypesUnfolded, HeldTyped DEF CodesDiffer, Used, OnRows, InFlight
<1>4. Used'
  BY <1>1, <1>2, <1>3 DEF CodesDiffer, Used
<1>5. OnRows'
  BY <1>1, <1>2, <1>3 DEF CodesDiffer, OnRows
<1>6. InFlight'
  <2>1. ASSUME NEW v \in Workers, NEW u \in Users, NEW f \in Codes, Held(v, u, f)'
        PROVE  LET c == job'[v].set[u][f] IN
               /\ c <= draws' /\ c \notin spent'
               /\ \A y \in Users, g \in Codes : user'[y][g] # c
               /\ \A x \in Workers, y \in Users, g \in Codes :
                     Held(x, y, g)' /\ job'[x].set[y][g] = c => x = v /\ y = u /\ g = f
    <3> DEFINE c == job'[v].set[u][f]
    <3>1. CASE v # w /\ Held(v, u, f) /\ c = job[v].set[u][f]
      <4>1. /\ c <= draws /\ c \in Draw /\ c \notin spent
            /\ \A y \in Users, g \in Codes : user[y][g] # c
            /\ \A x \in Workers, y \in Users, g \in Codes :
                  Held(x, y, g) /\ job[x].set[y][g] = c => x = v /\ y = u /\ g = f
        BY <1>3, <3>1 DEF CodesDiffer, InFlight
      <4>2. \A x \in Workers, y \in Users, g \in Codes :
                  Held(x, y, g)' /\ job'[x].set[y][g] = c => x = v /\ y = u /\ g = f
        BY <1>2, <4>1, OpensHeld
      <4>3. QED
        BY <1>1, <1>2, <4>1, <4>2
    <3>2. CASE /\ v = w /\ c = New /\ draws' = New
               /\ \A y \in Users, g \in Codes : Held(w, y, g)' => y = u /\ g = f
      <4>1. \A x \in Workers, y \in Users, g \in Codes :
                  Held(x, y, g)' /\ job'[x].set[y][g] = c => x = v /\ y = u /\ g = f
        BY <1>2, <1>3, <3>2, OpensHeld
      <4>2. QED
        BY <1>1, <1>2, <1>3, <3>2, <4>1
    <3>3. QED
      BY <2>1, <3>1, <3>2, OpensHeld
  <2>2. QED
    BY <2>1 DEF InFlight
<1>7. Accepting'
  <2>1. ASSUME NEW v \in Workers, pc'[v] \in {"save", "clear_reset"}, NEW c \in job'[v].spend
        PROVE  /\ c # 0 /\ c <= draws'
               /\ \A x \in Workers, y \in Users, g \in Codes :
                     Held(x, y, g)' => job'[x].set[y][g] # c
               /\ \A y \in Users, g \in Codes : user'[y][g] = c => Clearing(v, y, g)'
    <3>1. CASE v # w
      <4>1. pc'[v] = pc[v] /\ job'[v] = job[v]
        BY <1>1, <3>1
      <4>2. /\ c # 0 /\ c <= draws /\ c \in Draw
            /\ \A x \in Workers, y \in Users, g \in Codes : Held(x, y, g) => job[x].set[y][g] # c
            /\ \A y \in Users, g \in Codes : user[y][g] = c => Clearing(v, y, g)
        BY <2>1, <4>1, CodeTyped DEF CodesDiffer, Accepting
      <4>3. \A y \in Users, g \in Codes : Clearing(v, y, g) => Clearing(v, y, g)'
        BY <4>1 DEF Clearing
      <4>4. \A x \in Workers, y \in Users, g \in Codes : Held(x, y, g)' => job'[x].set[y][g] # c
        BY <1>2, <4>2, OpensHeld
      <4>5. QED
        BY <1>1, <1>2, <4>2, <4>3, <4>4
    <3>2. CASE v = w
      <4>1. PICK u \in Users, f \in Codes : c = user[u][f] /\ c # 0 /\ Clearing(w, u, f)'
        BY <2>1, <3>2, OpensAccepting
      <4>2. /\ c \in Draw /\ c <= draws
            /\ \A x \in Workers, y \in Users, g \in Codes : Held(x, y, g) => job[x].set[y][g] # c
            /\ \A y \in Users, g \in Codes : user[y][g] = c => y = u /\ g = f
        BY <1>3, <4>1 DEF CodesDiffer, OnRows, InFlight
      <4>3. \A x \in Workers, y \in Users, g \in Codes : Held(x, y, g)' => job'[x].set[y][g] # c
        BY <1>2, <4>2, OpensHeld
      <4>4. QED
        BY <1>1, <1>2, <3>2, <4>1, <4>2, <4>3
    <3>3. QED
      BY <3>1, <3>2
  <2>2. QED
    BY <2>1 DEF Accepting
<1>8. QED
  BY <1>4, <1>5, <1>6, <1>7 DEF CodesDiffer


LEMMA CodesCommit ==
    ASSUME PeopleTyped, CodesDiffer, NEW w \in Workers, Commits(w)
    PROVE  CodesDiffer'
<1>1. CASE Saves(w)
  <2> DEFINE j == job[w]
  <2>1. /\ Moved(w) /\ draws' = draws /\ spent' = spent \cup j.spend /\ pc[w] = "save"
        /\ pc'[w] \notin {"save", "insert", "clear_reset"}
    BY <1>1 DEF Saves, Update, Followed
  <2>2. ASSUME NEW u \in Users, NEW f \in Codes
        PROVE  \/ user'[u][f] = user[u][f] /\ ~(/\ u \in DOMAIN j.set /\ f \in DOMAIN j.set[u]
                                                /\ j.set[u][f] = 0 /\ j.seen[u][f] # 0)
               \/ user'[u][f] = 0
               \/ Held(w, u, f) /\ user'[u][f] = j.set[u][f]
    <3>1. user'[u][f] = IF u \in DOMAIN j.set /\ f \in DOMAIN j.set[u] /\ j.set[u][f] # j.seen[u][f]
                        THEN j.set[u][f] ELSE user[u][f]
      BY <1>1 DEF Saves, Codes, Fields
    <3>2. QED
      BY <2>1, <3>1 DEF Held
  <2>3. ASSUME NEW u \in Users, NEW f \in Codes, user'[u][f] \in j.spend
        PROVE  FALSE
    <3>1. user'[u][f] # 0 /\ ~(Held(w, u, f) /\ user'[u][f] = j.set[u][f])
      BY <2>1, <2>3 DEF CodesDiffer, Accepting
    <3>2. user'[u][f] = user[u][f]
      BY <2>2, <3>1
    <3>3. Clearing(w, u, f)
      BY <2>1, <2>3, <3>2 DEF CodesDiffer, Accepting
    <3>4. QED
      BY <2>1, <2>2, <3>1, <3>3 DEF Clearing
  <2>4. Delivers(w, j.spend)
    BY <2>1, <2>2, <2>3 DEF Delivers
  <2>5. QED
    BY <2>4, CodesOn
<1>2. ASSUME NEW u \in Users, NEW role \in {"tenant", "landlord"}, NEW d \in Draw \ {0},
             Inserts(w, u, role, d)
      PROVE  CodesDiffer'
  <2>1. /\ Moved(w) /\ draws' = draws /\ spent' = spent \cup {}
        /\ pc'[w] \notin {"save", "insert", "clear_reset"} /\ pc[w] = "insert"
    BY <1>2 DEF Inserts
  <2>2. /\ \A v \in Users : v # u => user'[v] = user[v]
        /\ user'[u] = job[w].set[u] /\ u \in DOMAIN job[w].set /\ job[w].set[u] \in Row
    BY <1>2, TypesUnfolded, NewRows DEF Inserts
  <2>3. DOMAIN job[w].set[u] = Fields
    BY <2>2, RowColumns
  <2>4. \A v \in Users, f \in Codes :
           \/ user'[v][f] \in {user[v][f], 0}
           \/ Held(w, v, f) /\ user'[v][f] = job[w].set[v][f]
    BY <2>1, <2>2, <2>3 DEF Held, Codes, Fields
  <2>5. Delivers(w, {})
    BY <2>1, <2>4 DEF Delivers
  <2>6. QED
    BY <2>5, CodesOn
<1>3. ASSUME NEW u \in Users, NEW d \in Draw \ {0}, Clears(w, u, d)
      PROVE  CodesDiffer'
  <2>1. /\ Moved(w) /\ draws' = draws /\ spent' = spent \cup job[w].spend
        /\ pc'[w] = "idle" /\ pc[w] = "clear_reset" /\ DOMAIN job[w].set = {u}
    BY <1>3 DEF Clears
  <2>2. /\ user'[u].reset = 0
        /\ \A v \in Users, f \in Codes : v # u \/ f # "reset" => user'[v][f] = user[v][f]
    BY <1>3, ClearsOne DEF Codes, Fields
  <2>3. \A v \in Users, f \in Codes : user'[v][f] \in {user[v][f], 0}
    BY <2>2
  <2>4. ASSUME NEW v \in Users, NEW f \in Codes, user'[v][f] \in job[w].spend
        PROVE  FALSE
    <3>1. user'[v][f] # 0
      BY <2>1, <2>4 DEF CodesDiffer, Accepting
    <3>2. user'[v][f] = user[v][f]
      BY <2>3, <3>1
    <3>3. Clearing(w, v, f)
      BY <2>1, <2>4, <3>2 DEF CodesDiffer, Accepting
    <3>4. v = u /\ f = "reset"
      BY <2>1, <3>3 DEF Clearing
    <3>5. QED
      BY <2>2, <3>1, <3>4
  <2>5. Delivers(w, job[w].spend)
    BY <2>1, <2>3, <2>4 DEF Delivers
  <2>6. QED
    BY <2>5, CodesOn
<1>4. ASSUME NEW u \in Users, NEW i \in Invitations, Accepts(w, u, i)
      PROVE  CodesDiffer'
  <2>1. Moved(w) /\ draws' = draws /\ spent' = spent \cup {} /\ pc'[w] = "idle"
    BY <1>4 DEF Accepts
  <2>2. \A v \in Users, f \in Codes : user'[v][f] \in {user[v][f], 0}
    BY <1>4, AcceptsOne DEF Codes
  <2>3. Delivers(w, {})
    BY <2>1, <2>2 DEF Delivers
  <2>4. QED
    BY <2>3, CodesOn
<1>5. ASSUME NEW u \in Users, DeletesRow(w, u)
      PROVE  CodesDiffer'
  <2>1. Moved(w) /\ draws' = draws /\ spent' = spent \cup {} /\ pc'[w] = "idle"
    BY <1>5 DEF DeletesRow
  <2>2. \A v \in Users, f \in Codes : user'[v][f] \in {user[v][f], 0}
    BY <1>5, DeletesOne DEF Codes, Fields
  <2>3. Delivers(w, {})
    BY <2>1, <2>2 DEF Delivers
  <2>4. QED
    BY <2>3, CodesOn
<1>6. ASSUME \/ \E i \in Invitations : Invites(w, i) \/ Expires(w, i)
             \/ \E u \in Users : DeletesLinks(w, u)
      PROVE  CodesDiffer'
  <2>1. /\ Moved(w) /\ draws' = draws /\ spent' = spent \cup {} /\ user' = user
        /\ pc'[w] \in {"idle", "delete_row"}
    BY <1>6 DEF Invites, Expires, DeletesLinks, accounts
  <2>2. \A v \in Users, f \in Codes : user'[v][f] \in {user[v][f], 0}
    BY <2>1
  <2>3. Delivers(w, {})
    BY <2>1, <2>2 DEF Delivers
  <2>4. QED
    BY <2>3, CodesOn
<1>7. QED
  BY <1>1, <1>2, <1>3, <1>4, <1>5, <1>6 DEF Commits

LEMMA CodesStep ==
    ASSUME PeopleTyped, CodesDiffer, Taken
    PROVE  CodesDiffer'
BY CodesQuiet, CodesOpen, CodesCommit DEF Taken

-----------------------------------------------------------------------------
(* Codes that were mailed, one request at a time.                          *)

\* What a user was told last is on the row until it is used.
Mailed ==
    ~load.overlap =>
       /\ \A u \in Users :
             /\ user[u].row = "absent" => \A f \in Codes : given[u][f] = 0
             /\ \A f \in {"reset", "otp"} :
                   \/ user[u][f] = given[u][f]
                   \/ user[u][f] = 0 /\ given[u][f] \in spent
             /\ user[u].row = "live" /\ user[u].verified = FALSE =>
                   user[u].verify = given[u].verify
       /\ \A w \in Workers : pc[w] = "clear_reset" => \A u \in DOMAIN job[w].set :
             user[u].reset # 0 /\ job[w].spend = {user[u].reset}

Authenticated ==
    ~load.overlap => \A u \in Users :
        user[u].totp = TRUE => user[u].secret # 0 /\ user[u].secret = given[u].confirmed

\* Of what a user was told, only an insert changes anything without an update.
LEMMA KeepsGiven ==
    ASSUME PeopleTyped, NEW w \in Workers, Commits(w), ~Saves(w), NEW u \in Users
    PROVE  /\ \A f \in Handouts \ {"verify"} : given'[u][f] = given[u][f]
           /\ \/ given'[u]["verify"] = given[u]["verify"]
              \/ user'[u].row = "live" /\ user'[u].verify = given'[u]["verify"]
           /\ user[u].row = "absent" /\ user'[u].row = "live" =>
                 user'[u].verified = TRUE \/ user'[u].verify = given'[u]["verify"]
           /\ spent \subseteq spent'
<1>1. ASSUME NEW v \in Users, NEW role \in {"tenant", "landlord"}, NEW d \in Draw \ {0},
             Inserts(w, v, role, d)
      PROVE  /\ \A f \in Handouts \ {"verify"} : given'[u][f] = given[u][f]
             /\ \/ given'[u]["verify"] = given[u]["verify"] /\ user'[u] = user[u]
                \/ user'[u].row = "live" /\ user'[u].verify = given'[u]["verify"]
             /\ spent \subseteq spent'
  <2>1. \A y \in Users, f \in Handouts : given'[y][f] =
           IF y = v /\ f = "verify" THEN d ELSE given[y][f]
    BY <1>1 DEF Inserts
  <2>2. user'[v].row = "live"
    BY <1>1, InsertsOne
  <2>3. u # v => user'[u] = user[u]
    BY <1>1, TypesUnfolded DEF Inserts
  <2>4. user'[v].verify = d
    BY <1>1, TypesUnfolded, NewCodes DEF Inserts
  <2>5. spent' = spent
    BY <1>1 DEF Inserts
  <2>6. QED
    BY <2>1, <2>2, <2>3, <2>4, <2>5 DEF Handouts
<1>2. CASE \A v \in Users, role \in {"tenant", "landlord"}, d \in Draw \ {0} :
              ~Inserts(w, v, role, d)
  <2>1. given' = given /\ spent \subseteq spent'
    BY <1>2 DEF Commits, Clears, Accepts, Invites, Expires, DeletesLinks, DeletesRow, accounts
  <2>2. CASE \E v \in Users, i \in Invitations : Accepts(w, v, i)
    <3>1. user'[u] = user[u] \/ user'[u].verified = TRUE
      BY <2>2, AcceptsOne
    <3>2. QED
      BY <2>1, <3>1
  <2>3. CASE \A v \in Users, i \in Invitations : ~Accepts(w, v, i)
    <3>1. ~(user[u].row = "absent" /\ user'[u].row = "live")
      BY <1>2, <2>3, ClearsOne, DeletesOne
         DEF Commits, Invites, Expires, DeletesLinks, accounts, Fields
    <3>2. QED
      BY <2>1, <3>1
  <2>4. QED
    BY <2>2, <2>3
<1>3. QED
  BY <1>1, <1>2

LEMMA MailedStep ==
    ASSUME PeopleTyped, PeopleTyped', Alone, Current, Mailed, Taken
    PROVE  Mailed'
<1> DEFINE Rows ==
       \A u \in Users :
          /\ user[u].row = "absent" => \A f \in Codes : given[u][f] = 0
          /\ \A f \in {"reset", "otp"} :
                \/ user[u][f] = given[u][f]
                \/ user[u][f] = 0 /\ given[u][f] \in spent
          /\ user[u].row = "live" /\ user[u].verified = FALSE =>
                user[u].verify = given[u].verify
<1> SUFFICES ASSUME ~load'.overlap
             PROVE  /\ Rows'
                    /\ \A w \in Workers : pc'[w] = "clear_reset" => \A u \in DOMAIN job'[w].set :
                          user'[u].reset # 0 /\ job'[w].spend = {user'[u].reset}
  BY DEF Mailed
<1>1. load' = load
  BY CommitsBusy DEF Taken, Quiet, Opens, Moved
<1>2. /\ Rows
      /\ \A w \in Workers : pc[w] = "clear_reset" => \A u \in DOMAIN job[w].set :
            user[u].reset # 0 /\ job[w].spend = {user[u].reset}
  BY <1>1 DEF Mailed
<1>3. CASE Quiet
  <2>1. /\ user' = user /\ spent' = spent
        /\ \A u \in Users, f \in Codes : given'[u][f] = given[u][f]
    BY <1>3 DEF Quiet, Handouts, Codes
  <2>2. Rows'
    BY <1>2, <2>1 DEF Codes
  <2>3. \A w \in Workers : pc'[w] = "clear_reset" => pc[w] = "clear_reset" /\ job'[w] = job[w]
    BY <1>3 DEF Quiet, Moved
  <2>4. QED
    BY <1>2, <2>1, <2>2, <2>3
<1>4. ASSUME NEW w \in Workers, Opens(w)
      PROVE  /\ Rows'
             /\ \A v \in Workers : pc'[v] = "clear_reset" => \A u \in DOMAIN job'[v].set :
                   user'[u].reset # 0 /\ job'[v].spend = {user'[u].reset}
  <2>1. user' = user /\ spent' = spent /\ given' = given
    BY <1>4 DEF Opens
  <2>2. Rows'
    BY <1>2, <2>1
  <2>3. \A v \in Workers : v # w => pc'[v] = pc[v] /\ job'[v] = job[v]
    BY <1>4 DEF Opens, Moved
  <2>4. OpensCodes(w)
    BY <1>4 DEF Opens
  <2>5. QED
    BY <1>2, <2>1, <2>2, <2>3, <2>4 DEF OpensCodes
<1>5. ASSUME NEW w \in Workers, Saves(w)
      PROVE  Rows'
  <2> DEFINE j == job[w]
  <2>1. /\ \A u \in Users, f \in Fields : user'[u][f] =
              IF u \in DOMAIN j.set /\ f \in DOMAIN j.set[u] THEN j.set[u][f] ELSE user[u][f]
        /\ j.seen = user
    BY <1>1, <1>5, SavesSerially
  <2>2. /\ \A u \in DOMAIN j.set : RowFits(load, u, j.set[u], user, Handed(j, u), j.spend, j.log)
        /\ \A u \in Users : user'[u].row = user[u].row
        /\ \A u \in DOMAIN j.set : user[u].row = "live"
        /\ spent' = spent \cup j.spend
        /\ \A u \in Users, f \in Handouts : given'[u][f] =
              IF u \in DOMAIN j.set /\ f \in DOMAIN Handed(j, u) THEN Handed(j, u)[f] ELSE given[u][f]
    BY <1>5, <2>1 DEF Saves, Update, Live
  <2> HIDE DEF j
  <2>3. ASSUME NEW u \in Users, u \in DOMAIN j.set
        PROVE  /\ user'[u].row # "absent"
               /\ \A f \in {"reset", "otp"} :
                     \/ user'[u][f] = given'[u][f]
                     \/ user'[u][f] = 0 /\ given'[u][f] \in spent'
               /\ user'[u].row = "live" /\ user'[u].verified = FALSE =>
                     user'[u].verify = given'[u].verify
    <3> DEFINE s == j.set[u]
               h == Handed(j, u)
    <3>1. FitsCodes(s, user[u], h, j.spend)
      BY <2>2, <2>3 DEF RowFits
    <3>2. \A f \in Codes \cup {"verified"} : user'[u][f] = IF f \in DOMAIN s THEN s[f] ELSE user[u][f]
      BY <2>1, <2>3 DEF Codes, Fields
    <3>3. \A f \in Codes : given'[u][f] = IF f \in DOMAIN h THEN h[f] ELSE given[u][f]
      BY <2>2, <2>3 DEF Codes, Handouts
    <3> HIDE DEF s, h
    <3>4. \A f \in Codes : /\ f \in DOMAIN h => f \in DOMAIN s /\ s[f] # 0
                           /\ f \in DOMAIN s /\ s[f] # 0 => f \in DOMAIN h /\ h[f] = s[f]
                           /\ f \in DOMAIN s /\ s[f] = 0 => user[u][f] # 0 /\ user[u][f] \in j.spend
      BY <3>1 DEF FitsCodes
    <3>5. ASSUME NEW f \in {"reset", "otp"}
          PROVE  \/ user'[u][f] = given'[u][f]
                 \/ user'[u][f] = 0 /\ given'[u][f] \in spent'
      <4>1. \/ user[u][f] = given[u][f]
            \/ user[u][f] = 0 /\ given[u][f] \in spent
        BY <1>2
      <4>2. QED
        BY <2>2, <3>2, <3>3, <3>4, <4>1 DEF Codes
    <3>6. ASSUME user'[u].verified = FALSE
          PROVE  user'[u].verify = given'[u].verify
      <4>1. "verified" \notin DOMAIN s
        <5>1. SUFFICES ASSUME "verified" \in DOMAIN s
                       PROVE  FALSE
          OBVIOUS
        <5>2. s.verified = TRUE
          BY <3>1, <5>1 DEF FitsCodes
        <5>3. user'[u].verified = TRUE
          BY <3>2, <5>1, <5>2
        <5>4. QED
          BY <3>6, <5>3
      <4>2. user[u].verified = FALSE
        BY <3>2, <3>6, <4>1
      <4>3. user[u].verify = given[u].verify
        BY <1>2, <2>2, <2>3, <4>2
      <4>4. "verify" \in DOMAIN s => s.verify # 0
        BY <3>1, <4>1 DEF FitsCodes
      <4>5. QED
        BY <3>2, <3>3, <3>4, <4>3, <4>4 DEF Codes
    <3>7. QED
      BY <2>2, <2>3, <3>5, <3>6
  <2>4. ASSUME NEW u \in Users, u \notin DOMAIN j.set
        PROVE  /\ user'[u].row = user[u].row /\ user'[u].verified = user[u].verified
               /\ \A f \in Codes : user'[u][f] = user[u][f] /\ given'[u][f] = given[u][f]
    BY <2>1, <2>2, <2>4 DEF Codes, Fields, Handouts
  <2>5. ASSUME NEW u \in Users, u \notin DOMAIN j.set
        PROVE  /\ user'[u].row = "absent" => \A f \in Codes : given'[u][f] = 0
               /\ \A f \in {"reset", "otp"} :
                     \/ user'[u][f] = given'[u][f]
                     \/ user'[u][f] = 0 /\ given'[u][f] \in spent'
               /\ user'[u].row = "live" /\ user'[u].verified = FALSE =>
                     user'[u].verify = given'[u].verify
    <3>1. user'[u].row = "absent" => \A f \in Codes : given'[u][f] = 0
      BY <1>2, <2>4, <2>5
    <3>2. ASSUME NEW f \in {"reset", "otp"}
          PROVE  \/ user'[u][f] = given'[u][f]
                 \/ user'[u][f] = 0 /\ given'[u][f] \in spent'
      <4>1. \/ user[u][f] = given[u][f]
            \/ user[u][f] = 0 /\ given[u][f] \in spent
        BY <1>2
      <4>2. user'[u][f] = user[u][f] /\ given'[u][f] = given[u][f]
        BY <2>4, <2>5 DEF Codes
      <4>3. QED
        BY <2>2, <4>1, <4>2
    <3>3. user'[u].row = "live" /\ user'[u].verified = FALSE => user'[u].verify = given'[u].verify
      <4>1. user'[u]["verify"] = user[u]["verify"] /\ given'[u]["verify"] = given[u]["verify"]
        BY <2>4, <2>5 DEF Codes
      <4>2. QED
        BY <1>2, <2>4, <2>5, <4>1
    <3>4. QED
      BY <3>1, <3>2, <3>3
  <2>6. QED
    BY <2>3, <2>5
<1>6. ASSUME NEW w \in Workers, Commits(w), ~Saves(w)
      PROVE  Rows'
  <2> TAKE u \in Users
  <2>1. /\ given'[u]["reset"] = given[u]["reset"] /\ given'[u]["otp"] = given[u]["otp"]
        /\ \/ given'[u]["verify"] = given[u]["verify"]
           \/ user'[u].row = "live" /\ user'[u].verify = given'[u]["verify"]
        /\ user[u].row = "absent" /\ user'[u].row = "live" =>
              user'[u].verified = TRUE \/ user'[u].verify = given'[u]["verify"]
        /\ spent \subseteq spent'
    BY <1>6, KeepsGiven DEF Handouts
  <2>2. CASE Kept(w, u)
    <3>1. /\ user'[u]["verified"] = user[u]["verified"] /\ user'[u]["verify"] = user[u]["verify"]
          /\ user'[u]["otp"] = user[u]["otp"]
      BY <2>2 DEF Kept, Fields
    <3>2. user'[u].row = user[u].row \/ user'[u].row = "deleted"
      BY <2>2 DEF Kept
    <3>3. \/ user'[u].reset = user[u].reset
          \/ user'[u].reset = 0 /\ user[u].reset # 0 /\ user[u].reset \in spent'
      BY <1>2, <2>2 DEF Kept
    <3>4. user'[u].row = "absent" => \A f \in Codes : given'[u][f] = 0
      BY <1>2, <2>1, <3>2 DEF Codes
    <3>5. user'[u].row = "live" /\ user'[u].verified = FALSE => user'[u].verify = given'[u].verify
      BY <1>2, <2>1, <3>1, <3>2
    <3>6. ASSUME NEW f \in {"reset", "otp"}
          PROVE  \/ user'[u][f] = given'[u][f]
                 \/ user'[u][f] = 0 /\ given'[u][f] \in spent'
      <4>1. \/ user[u][f] = given[u][f]
            \/ user[u][f] = 0 /\ given[u][f] \in spent
        BY <1>2
      <4>2. QED
        BY <2>1, <3>1, <3>3, <4>1
    <3>7. QED
      BY <3>4, <3>5, <3>6
  <2>3. CASE user[u].row = "absent" /\ Fresh(user'[u])
    <3>1. user'[u].row = "live" /\ user'[u].reset = 0 /\ user'[u].otp = 0
      BY <2>3 DEF Fresh
    <3>2. given[u].reset = 0 /\ given[u].otp = 0
      BY <1>2, <2>3 DEF Codes
    <3>3. user'[u].verified = FALSE => user'[u].verify = given'[u].verify
      <4>1. SUFFICES ASSUME user'[u].verified = FALSE
                     PROVE  user'[u].verify = given'[u].verify
        OBVIOUS
      <4>2. user'[u].verified # TRUE
        BY <4>1
      <4>3. QED
        BY <2>1, <2>3, <3>1, <4>2
    <3>4. QED
      BY <2>1, <3>1, <3>2, <3>3
  <2>4. QED
    BY <1>6, <2>2, <2>3, Keeps
<1>7. ASSUME NEW w \in Workers, Commits(w), NEW v \in Workers, pc'[v] = "clear_reset"
      PROVE  FALSE
  <2>1. v = w
    BY <1>1, <1>7, OthersIdle
  <2>2. pc'[w] # "clear_reset"
    <3>1. CASE Saves(w)
      BY <3>1 DEF Saves, Update, Followed
    <3>2. QED
      BY <1>7, <3>1, Records
  <2>3. QED
    BY <1>7, <2>1, <2>2
<1>8. QED
  BY <1>3, <1>4, <1>5, <1>6, <1>7 DEF Taken


LEMMA AuthenticatedStep ==
    ASSUME PeopleTyped, Current, Authenticated, Taken
    PROVE  Authenticated'
<1> SUFFICES ASSUME ~load'.overlap, NEW u \in Users, user'[u].totp = TRUE
             PROVE  user'[u].secret # 0 /\ user'[u].secret = given'[u].confirmed
  BY DEF Authenticated
<1>1. load' = load
  BY CommitsBusy DEF Taken, Quiet, Opens, Moved
<1>2. CASE user' = user /\ given'[u]["confirmed"] = given[u]["confirmed"]
  BY <1>1, <1>2 DEF Authenticated
<1>3. ASSUME NEW w \in Workers, Saves(w)
      PROVE  user'[u].secret # 0 /\ user'[u].secret = given'[u].confirmed
  <2> DEFINE j == job[w]
             s == j.set[u]
             h == Handed(j, u)
  <2>1. /\ user'[u]["totp"] = IF u \in DOMAIN j.set /\ "totp" \in DOMAIN s THEN s["totp"]
                              ELSE user[u]["totp"]
        /\ user'[u]["secret"] = IF u \in DOMAIN j.set /\ "secret" \in DOMAIN s THEN s["secret"]
                                ELSE user[u]["secret"]
        /\ j.seen = user
    BY <1>1, <1>3, SavesSerially DEF Fields
  <2>2. /\ u \in DOMAIN j.set => FitsAuthenticator(s, user[u], h)
        /\ given'[u]["confirmed"] = IF u \in DOMAIN j.set /\ "confirmed" \in DOMAIN h
                                    THEN h["confirmed"] ELSE given[u]["confirmed"]
    BY <1>3, <2>1 DEF Saves, Update, RowFits, Handouts
  <2> HIDE DEF j, s, h
  <2>3. ~(u \in DOMAIN j.set /\ "secret" \in DOMAIN s)
    <3>1. SUFFICES ASSUME u \in DOMAIN j.set, "secret" \in DOMAIN s
                   PROVE  FALSE
      OBVIOUS
    <3>2. "totp" \in DOMAIN s /\ s.totp = FALSE
      BY <2>2, <3>1 DEF FitsAuthenticator
    <3>3. user'[u].totp = FALSE
      BY <2>1, <3>1, <3>2
    <3>4. QED
      BY <3>3
  <2>4. user'[u].secret = user[u].secret
    BY <2>1, <2>3
  <2>5. CASE u \in DOMAIN j.set /\ "totp" \in DOMAIN s
    <3>1. s.totp = TRUE
      BY <2>1, <2>5
    <3>2. user[u].secret # 0 /\ "confirmed" \in DOMAIN h /\ h.confirmed = user[u].secret
      BY <2>2, <2>5, <3>1 DEF FitsAuthenticator
    <3>3. QED
      BY <2>2, <2>4, <2>5, <3>2
  <2>6. CASE ~(u \in DOMAIN j.set /\ "totp" \in DOMAIN s)
    <3>1. user[u].totp = TRUE
      BY <2>1, <2>6
    <3>2. ~(u \in DOMAIN j.set /\ "confirmed" \in DOMAIN h)
      BY <2>2, <2>6 DEF FitsAuthenticator
    <3>3. given'[u].confirmed = given[u].confirmed
      BY <2>2, <3>2
    <3>4. user[u].secret # 0 /\ user[u].secret = given[u].confirmed
      BY <1>1, <3>1 DEF Authenticated
    <3>5. QED
      BY <2>4, <3>3, <3>4
  <2>7. QED
    BY <2>5, <2>6
<1>4. ASSUME NEW w \in Workers, Commits(w), ~Saves(w)
      PROVE  user'[u].secret # 0 /\ user'[u].secret = given'[u].confirmed
  <2>1. ~Fresh(user'[u])
    BY DEF Fresh
  <2>2. Kept(w, u)
    BY <1>4, <2>1, Keeps
  <2>3. user'[u]["totp"] = user[u]["totp"] /\ user'[u]["secret"] = user[u]["secret"]
    BY <2>2 DEF Kept, Fields
  <2>4. given'[u]["confirmed"] = given[u]["confirmed"]
    BY <1>4, KeepsGiven DEF Handouts
  <2>5. user[u].totp = TRUE
    BY <2>3
  <2>6. user[u].secret # 0 /\ user[u].secret = given[u].confirmed
    BY <1>1, <2>5 DEF Authenticated
  <2>7. QED
    BY <2>3, <2>4, <2>6
<1>5. CASE Quiet
  BY <1>2, <1>5 DEF Quiet, Handouts
<1>6. ASSUME NEW w \in Workers, Opens(w)
      PROVE  user'[u].secret # 0 /\ user'[u].secret = given'[u].confirmed
  BY <1>2, <1>6 DEF Opens
<1>7. QED
  BY <1>3, <1>4, <1>5, <1>6 DEF Taken

\* The second yes of the portal.
Repeating ==
    \A w \in Workers : pc[w] = "repeat_2fa" =>
        \A u \in DOMAIN job[w].set : <<u, "gov_2fa_verified">> \in log

LEMMA RepeatingStep ==
    ASSUME PeopleTyped, Repeating, Taken
    PROVE  Repeating'
<1>1. CASE Quiet
  BY <1>1 DEF Quiet, Repeating, Moved
<1>2. ASSUME NEW w \in Workers, Opens(w)
      PROVE  Repeating'
  BY <1>2 DEF Opens, OpensRows, Repeating, Moved
<1>3. ASSUME NEW w \in Workers, Saves(w)
      PROVE  Repeating'
  <2>1. Moved(w) /\ pc'[w] # "repeat_2fa" /\ log \subseteq log'
    BY <1>3 DEF Saves, Update, Followed
  <2>2. QED
    BY <2>1 DEF Repeating, Moved
<1>4. ASSUME NEW w \in Workers, Commits(w), ~Saves(w)
      PROVE  Repeating'
  <2>1. Moved(w) /\ pc'[w] # "repeat_2fa"
    BY <1>4, CommitsBusy, Records
  <2>2. \A u : <<u, "gov_2fa_verified">> \in log => <<u, "gov_2fa_verified">> \in log'
    BY <1>4 DEF Commits, Inserts, Clears, Accepts, Invites, Expires, DeletesLinks, DeletesRow,
                accounts
  <2>3. QED
    BY <2>1, <2>2 DEF Repeating, Moved
<1>5. QED
  BY <1>1, <1>2, <1>3, <1>4 DEF Taken

LEMMA CodesInit ==
    ASSUME Init
    PROVE  CodesDiffer /\ Mailed /\ Authenticated /\ Repeating
<1>1. /\ \A u \in Users : /\ \A f \in Codes : user[u][f] = 0
                          /\ user[u].row = "live" => user[u].verified = TRUE
      /\ \A u \in Users : user[u].totp = FALSE
  BY InitRows DEF Codes
<1>2. /\ \A w \in Workers : pc[w] = "idle"
      /\ given = [u \in Users |-> Nothing] /\ spent = {} /\ draws = 0
  BY DEF Init, RequestsInit, AccountsInit
<1>3. \A u \in Users, f \in Codes : given[u][f] = 0
  BY <1>2 DEF Nothing, Codes
<1>4. CodesDiffer
  BY <1>1, <1>2 DEF CodesDiffer, Used, OnRows, InFlight, Accepting, Held
<1>5. Mailed
  <2>1. \A u \in Users : ~(user[u].row = "live" /\ user[u].verified = FALSE)
    BY <1>1
  <2>2. QED
    BY <1>1, <1>2, <1>3, <2>1 DEF Mailed, Codes
<1>6. Authenticated
  <2>1. \A u \in Users : user[u].totp # TRUE
    BY <1>1
  <2>2. QED
    BY <2>1 DEF Authenticated
<1>7. Repeating
  BY <1>2 DEF Repeating
<1>8. QED
  BY <1>4, <1>5, <1>6, <1>7

\* A code that was accepted is on no row, however requests overlap and
\* wherever they die, so no second request compares with it, and the portal's
\* second yes without a code is to an account that had one accepted; one request
\* at a time, the code mailed last works until it is used, and an authenticator
\* asks for codes of a secret that was confirmed (verify_email, reset_password,
\* verify_government_2fa, totp_enable).
THEOREM CodesAlwaysWorkOnce == Spec => []CodesWorkOnce
<1>1. Init => CodesDiffer /\ Mailed /\ Authenticated /\ Repeating
  BY CodesInit
<1>2. Base /\ CodesDiffer /\ Mailed /\ Authenticated /\ Repeating /\ [Next]_vars
         => CodesDiffer' /\ Mailed' /\ Authenticated' /\ Repeating'
  BY BaseStep, CodesStep, MailedStep, AuthenticatedStep, RepeatingStep DEF Base
<1>3. Base /\ CodesDiffer /\ Mailed /\ Authenticated /\ Repeating => CodesWorkOnce
  <2>1. SUFFICES ASSUME Base, CodesDiffer, Mailed, Authenticated, Repeating
                 PROVE  CodesWorkOnce
    OBVIOUS
  <2>2. \A u \in Users : user[u].totp \in BOOLEAN /\ user[u].verified \in BOOLEAN
    BY <2>1, TypesUnfolded DEF Base, Row
  <2>3. SpentCodesAreGone
    BY <2>1 DEF CodesDiffer, OnRows, SpentCodesAreGone, Codes
  <2>4. MailedCodesWork
    BY <2>1, <2>2 DEF Mailed, MailedCodesWork, Live
  <2>5. EnabledSecretIsConfirmed
    BY <2>1, <2>2 DEF Authenticated, EnabledSecretIsConfirmed
  <2>6. RepeatsFollowACode
    <3>1. SUFFICES ASSUME NEW w \in Workers, pc[w] = "repeat_2fa"
                   PROVE  <<Owner(w), "gov_2fa_verified">> \in log
      BY DEF RepeatsFollowACode
    <3>2. OneRow(job[w])
      BY <2>1, <3>1 DEF Base, PeopleTyped, Stands
    <3>3. QED
      BY <2>1, <3>1, <3>2, Owns DEF Repeating
  <2>7. QED
    BY <2>3, <2>4, <2>5, <2>6 DEF CodesWorkOnce
<1>4. QED
  BY <1>1, <1>2, <1>3, BaseAlways, PTL DEF Spec


-----------------------------------------------------------------------------
(* Invitations and the accounts made of them.                              *)

EmailsDiffer ==
    \A u, v \in Users :
        user[u].row = "live" /\ user[v].row = "live" /\ EmailOf[u] = EmailOf[v] => u = v

\* The officer of an invitation that was accepted.
Holds(u, i) ==
    /\ user[u].row = "live" /\ EmailOf[u] = invitation[i].email
    /\ "update_me" \notin load.uses => user[u].role \in Officers

OfficersStay ==
    /\ \A i \in Invitations : invitation[i].status = "accepted" => \E u \in Users : Holds(u, i)
    /\ \A w \in Workers : pc[w] = "delete_row" => \A u \in DOMAIN job[w].set, i \in Invitations :
          user[u].row = "live" /\ invitation[i].email = EmailOf[u] =>
             invitation[i].status # "accepted"

Inviting ==
    ~load.overlap =>
       /\ \A i, k \in Invitations :
             /\ invitation[i].status = "pending" /\ invitation[k].status = "pending"
             /\ invitation[i].email = invitation[k].email
             => i = k
       /\ \A w \in Workers : pc[w] = "invite" => \A i \in Invitations :
             invitation[i].status = "pending" => invitation[i].email # job[w].email

\* A commit adds one row at most, at an address that is free, and takes rows
\* and roles from nobody but by a deletion.
LEMMA RowsCome ==
    ASSUME PeopleTyped, NEW w \in Workers, Commits(w)
    PROVE  /\ \A u \in Users : user'[u].row = "live" /\ user[u].row # "live" =>
                 /\ user[u].row = "absent" /\ ~EmailTaken(u)
                 /\ \A v \in Users : v # u => user'[v] = user[v]
           /\ \A u \in Users : user[u].row = "live" /\ user'[u].row # "live" =>
                 pc[w] = "delete_row" /\ u \in DOMAIN job[w].set
           /\ "update_me" \notin load.uses => \A u \in Users : user[u].row = "live" =>
                 user'[u].role = user[u].role
<1>1. CASE Saves(w)
  <2> DEFINE j == job[w]
  <2>1. \A u \in Users : user'[u].row = user[u].row
    BY <1>1 DEF Saves
  <2>2. \A u \in DOMAIN j.set : FitsReview(load, u, j.set[u], j.seen[u], j.log)
    BY <1>1 DEF Saves, Update, RowFits
  <2>3. "update_me" \notin load.uses => \A u \in DOMAIN j.set : "role" \notin DOMAIN j.set[u]
    BY <2>2 DEF FitsReview
  <2>4. "update_me" \notin load.uses => \A u \in Users : user'[u].role = user[u].role
    BY <1>1, <2>3 DEF Saves, Fields
  <2>5. QED
    BY <2>1, <2>4
<1>2. CASE ~Saves(w)
  <2>1. ASSUME NEW u \in Users, user'[u].row = "live", user[u].row # "live"
        PROVE  /\ user[u].row = "absent" /\ ~EmailTaken(u)
               /\ \A v \in Users : v # u => user'[v] = user[v]
    <3>1. ~Kept(w, u)
      BY <2>1 DEF Kept
    <3>2. user[u].row = "absent"
      BY <1>2, <3>1, Keeps
    <3>3. ASSUME NEW y \in Users, NEW role \in {"tenant", "landlord"}, NEW d \in Draw \ {0},
                 Inserts(w, y, role, d)
          PROVE  ~EmailTaken(u) /\ \A v \in Users : v # u => user'[v] = user[v]
      <4>1. \A v \in Users : v # y => user'[v] = user[v]
        BY <3>3, TypesUnfolded DEF Inserts
      <4>2. u = y
        BY <2>1, <4>1
      <4>3. QED
        BY <3>3, <4>1, <4>2 DEF Inserts
    <3>4. ASSUME NEW y \in Users, NEW i \in Invitations, Accepts(w, y, i)
          PROVE  ~EmailTaken(u) /\ \A v \in Users : v # u => user'[v] = user[v]
      <4>1. \A v \in Users : v # y => user'[v] = user[v]
        BY <3>4, AcceptsOne
      <4>2. u = y
        BY <2>1, <4>1
      <4>3. QED
        BY <3>4, <4>1, <4>2 DEF Accepts
    <3>5. ASSUME NEW y \in Users, DeletesRow(w, y) \/ \E d \in Draw : Clears(w, y, d)
          PROVE  FALSE
      BY <2>1, <3>5, ClearsOne, DeletesOne DEF Fields
    <3>6. ASSUME \/ \E i \in Invitations : Invites(w, i) \/ Expires(w, i)
                 \/ \E y \in Users : DeletesLinks(w, y)
          PROVE  FALSE
      BY <2>1, <3>6 DEF Invites, Expires, DeletesLinks, accounts
    <3>7. QED
      BY <1>2, <3>2, <3>3, <3>4, <3>5, <3>6 DEF Commits
  <2>2. ASSUME NEW u \in Users, user[u].row = "live"
        PROVE  /\ user'[u].row # "live" => pc[w] = "delete_row" /\ u \in DOMAIN job[w].set
               /\ user'[u].role = user[u].role
    <3>1. Kept(w, u)
      BY <1>2, <2>2, Keeps
    <3>2. user'[u]["role"] = user[u]["role"]
      BY <3>1 DEF Kept, Fields
    <3>3. user'[u].row # "live" => pc[w] = "delete_row" /\ u \in DOMAIN job[w].set
      BY <2>2, <3>1 DEF Kept
    <3>4. QED
      BY <3>2, <3>3
  <2>3. QED
    BY <2>1, <2>2
<1>3. QED
  BY <1>1, <1>2

\* What a commit does to the invitations.
LEMMA InvitationsGo ==
    ASSUME PeopleTyped, NEW w \in Workers, Commits(w)
    PROVE  \A i \in Invitations :
              \/ invitation'[i] = invitation[i]
              \/ /\ Invites(w, i) /\ invitation'[i].status = "pending"
                 /\ invitation'[i].email = job[w].email
              \/ /\ invitation'[i].email = invitation[i].email
                 /\ invitation'[i].status \in {"expired", "deleted"}
              \/ /\ invitation'[i].email = invitation[i].email
                 /\ invitation'[i].status = "accepted" /\ \E u \in Users : Accepts(w, u, i)
<1> SUFFICES ASSUME NEW i \in Invitations, invitation'[i] # invitation[i]
             PROVE  \/ /\ Invites(w, i) /\ invitation'[i].status = "pending"
                       /\ invitation'[i].email = job[w].email
                    \/ /\ invitation'[i].email = invitation[i].email
                       /\ invitation'[i].status \in {"expired", "deleted"}
                    \/ /\ invitation'[i].email = invitation[i].email
                       /\ invitation'[i].status = "accepted" /\ \E u \in Users : Accepts(w, u, i)
  OBVIOUS
<1>1. invitation \in [Invitations -> Invitation]
  BY TypesUnfolded
<1>2. invitation[i] \in Invitation
  BY <1>1
<1>3. ASSUME NEW k \in Invitations, Invites(w, k)
      PROVE  /\ Invites(w, i) /\ invitation'[i].status = "pending"
             /\ invitation'[i].email = job[w].email
  <2>1. k = i
    BY <1>1, <1>3 DEF Invites
  <2>2. invitation'[i] = [status |-> "pending", email |-> job[w].email, token |-> job[w].token]
    BY <1>1, <1>3, <2>1 DEF Invites
  <2>3. QED
    BY <1>3, <2>1, <2>2
<1>4. ASSUME NEW k \in Invitations, Expires(w, k)
      PROVE  /\ invitation'[i].email = invitation[i].email
             /\ invitation'[i].status \in {"expired", "deleted"}
  <2>1. invitation' = [invitation EXCEPT ![k].status = "expired"]
    BY <1>4 DEF Expires
  <2>2. k = i /\ invitation'[i] = [invitation[i] EXCEPT !.status = "expired"]
    BY <1>1, <2>1
  <2>3. QED
    BY <1>2, <2>2 DEF Invitation
<1>5. ASSUME NEW u \in Users, DeletesLinks(w, u)
      PROVE  /\ invitation'[i].email = invitation[i].email
             /\ invitation'[i].status \in {"expired", "deleted"}
  <2>1. invitation'[i] = [invitation[i] EXCEPT !.status = "deleted"]
    BY <1>5 DEF DeletesLinks
  <2>2. QED
    BY <1>2, <2>1 DEF Invitation
<1>6. ASSUME NEW u \in Users, NEW k \in Invitations, Accepts(w, u, k)
      PROVE  /\ invitation'[i].email = invitation[i].email
             /\ invitation'[i].status = "accepted" /\ Accepts(w, u, i)
  <2>1. invitation' = [invitation EXCEPT ![k].status = "accepted"]
    BY <1>6 DEF Accepts
  <2>2. k = i /\ invitation'[i] = [invitation[i] EXCEPT !.status = "accepted"]
    BY <1>1, <2>1
  <2>3. QED
    BY <1>2, <1>6, <2>2 DEF Invitation
<1>7. CASE \/ Saves(w)
           \/ \E u \in Users, role \in {"tenant", "landlord"}, d \in Draw \ {0} :
                 Inserts(w, u, role, d)
           \/ \E u \in Users, d \in Draw \ {0} : Clears(w, u, d)
           \/ \E u \in Users : DeletesRow(w, u)
  BY <1>7 DEF Saves, Inserts, Clears, DeletesRow
<1>8. QED
  BY <1>3, <1>4, <1>5, <1>6, <1>7 DEF Commits

LEMMA EmailsStep ==
    ASSUME PeopleTyped, EmailsDiffer, Taken
    PROVE  EmailsDiffer'
<1>1. CASE user' = user
  BY <1>1 DEF EmailsDiffer
<1>2. ASSUME NEW w \in Workers, Commits(w), NEW u \in Users, NEW v \in Users,
             user'[u].row = "live", user'[v].row = "live", EmailOf[u] = EmailOf[v], u # v
      PROVE  FALSE
  <2>1. CASE user[u].row = "live" /\ user[v].row = "live"
    BY <1>2, <2>1 DEF EmailsDiffer
  <2>2. CASE user[u].row # "live"
    <3>1. ~EmailTaken(u) /\ user'[v] = user[v]
      BY <1>2, <2>2, RowsCome
    <3>2. QED
      BY <1>2, <3>1 DEF EmailTaken, Live
  <2>3. CASE user[v].row # "live"
    <3>1. ~EmailTaken(v) /\ user'[u] = user[u]
      BY <1>2, <2>3, RowsCome
    <3>2. QED
      BY <1>2, <3>1 DEF EmailTaken, Live
  <2>4. QED
    BY <2>1, <2>2, <2>3
<1>3. QED
  BY <1>1, <1>2 DEF Taken, Quiet, Opens, EmailsDiffer

LEMMA OfficersStep ==
    ASSUME PeopleTyped, Claimed, EmailsDiffer, OfficersStay, Taken
    PROVE  OfficersStay'
<1>1. load' = load
  BY CommitsBusy DEF Taken, Quiet, Opens, Moved
<1>2. CASE Quiet \/ \E w \in Workers : Opens(w)
  <2>1. user' = user /\ invitation' = invitation
    BY <1>2 DEF Quiet, Opens
  <2>2. \A v \in Workers : pc'[v] = "delete_row" => pc[v] = "delete_row" /\ job'[v] = job[v]
    BY <1>2 DEF Quiet, Opens, Opened, Moved
  <2>3. QED
    BY <1>1, <2>1, <2>2 DEF OfficersStay, Holds
<1>3. ASSUME NEW w \in Workers, Commits(w)
      PROVE  OfficersStay'
  <2>1. ASSUME NEW i \in Invitations, invitation'[i].status = "accepted"
        PROVE  \E u \in Users : Holds(u, i)'
    <3>1. CASE \E u \in Users : Accepts(w, u, i)
      <4>1. PICK u \in Users : Accepts(w, u, i)
        BY <3>1
      <4>2. EmailOf[u] = invitation[i].email /\ invitation'[i].email = invitation[i].email
        <5>1. invitation[i] \in Invitation /\ invitation \in [Invitations -> Invitation]
          BY TypesUnfolded
        <5>2. invitation'[i] = [invitation[i] EXCEPT !.status = "accepted"]
          BY <4>1, <5>1 DEF Accepts
        <5>3. invitation'[i].email = invitation[i].email
          BY <5>1, <5>2 DEF Invitation
        <5>4. QED
          BY <4>1, <5>3 DEF Accepts
      <4>3. user'[u].row = "live" /\ user'[u].role = "gov_nira"
        BY <4>1, AcceptsOne
      <4>4. Holds(u, i)'
        BY <4>2, <4>3 DEF Holds, Officers
      <4>5. QED
        BY <4>4
    <3>2. CASE \A u \in Users : ~Accepts(w, u, i)
      <4>1. invitation'[i] = invitation[i]
        BY <1>3, <2>1, <3>2, InvitationsGo
      <4>2. PICK u \in Users : Holds(u, i)
        BY <2>1, <4>1 DEF OfficersStay
      <4>3. ~(pc[w] = "delete_row" /\ u \in DOMAIN job[w].set)
        BY <2>1, <4>1, <4>2 DEF OfficersStay, Holds
      <4>4. user'[u].row = "live"
        BY <1>3, <4>2, <4>3, RowsCome DEF Holds
      <4>5. "update_me" \notin load.uses => user'[u].role = user[u].role
        BY <1>3, <4>2, RowsCome DEF Holds
      <4>6. Holds(u, i)'
        BY <1>1, <4>1, <4>2, <4>4, <4>5 DEF Holds
      <4>7. QED
        BY <4>6
    <3>3. QED
      BY <3>1, <3>2
  <2>2. ASSUME NEW v \in Workers, pc'[v] = "delete_row", NEW u \in DOMAIN job'[v].set,
               NEW i \in Invitations, user'[u].row = "live", invitation'[i].email = EmailOf[u],
               invitation'[i].status = "accepted"
        PROVE  FALSE
    <3>1. CASE v = w
      <4>1. PICK y \in Users : DeletesLinks(w, y)
        <5>1. ~Saves(w)
          BY <2>2, <3>1 DEF Saves, Update, Followed
        <5>2. QED
          BY <1>3, <2>2, <3>1, <5>1 DEF Commits, Inserts, Clears, Accepts, Invites, Expires,
                                       DeletesRow
      <4>2. u = y
        BY <2>2, <3>1, <4>1 DEF DeletesLinks
      <4>3. invitation'[i].email = invitation[i].email
        <5>1. invitation[i] \in Invitation
          BY TypesUnfolded
        <5>2. \/ invitation'[i] = invitation[i]
              \/ invitation'[i] = [invitation[i] EXCEPT !.status = "deleted"]
          BY <4>1 DEF DeletesLinks
        <5>3. QED
          BY <5>1, <5>2 DEF Invitation
      <4>4. CASE invitation[i].status # "absent"
        <5>1. invitation[i] \in Invitation
          BY TypesUnfolded
        <5>2. invitation'[i] = [invitation[i] EXCEPT !.status = "deleted"]
          BY <2>2, <4>1, <4>2, <4>3, <4>4 DEF DeletesLinks
        <5>3. invitation'[i].status = "deleted"
          BY <5>1, <5>2 DEF Invitation
        <5>4. QED
          BY <2>2, <5>3
      <4>5. CASE invitation[i].status = "absent"
        BY <2>2, <4>1, <4>5 DEF DeletesLinks
      <4>6. QED
        BY <4>4, <4>5
    <3>2. CASE v # w
      <4>1. pc[v] = "delete_row" /\ job'[v] = job[v] /\ u \in DOMAIN job[v].set
        BY <1>3, <2>2, <3>2, CommitsBusy DEF Moved
      <4>2. u \in Users /\ user[u].row # "absent"
        BY <4>1, NotInserted DEF Busy, Inserting
      <4>3. user[u].row = "live"
        BY <1>3, <2>2, <4>2, RowsCome
      <4>4. CASE \E y \in Users : Accepts(w, y, i)
        <5>1. PICK y \in Users : Accepts(w, y, i)
          BY <4>4
        <5>2. ~EmailTaken(y) /\ EmailOf[y] = invitation[i].email
          BY <5>1 DEF Accepts
        <5>3. invitation'[i].email = invitation[i].email
          <6>1. invitation[i] \in Invitation /\ invitation \in [Invitations -> Invitation]
            BY TypesUnfolded
          <6>2. invitation'[i] = [invitation[i] EXCEPT !.status = "accepted"]
            BY <5>1, <6>1 DEF Accepts
          <6>3. QED
            BY <6>1, <6>2 DEF Invitation
        <5>4. QED
          BY <2>2, <4>2, <4>3, <5>2, <5>3 DEF EmailTaken, Live
      <4>5. CASE \A y \in Users : ~Accepts(w, y, i)
        <5>1. invitation'[i] = invitation[i]
          BY <1>3, <2>2, <4>5, InvitationsGo
        <5>2. QED
          BY <2>2, <4>1, <4>3, <5>1 DEF OfficersStay
      <4>6. QED
        BY <4>4, <4>5
    <3>3. QED
      BY <3>1, <3>2
  <2>3. QED
    BY <2>1, <2>2 DEF OfficersStay
<1>4. QED
  BY <1>2, <1>3 DEF Taken


LEMMA InvitingStep ==
    ASSUME PeopleTyped, Alone, Inviting, Taken
    PROVE  Inviting'
<1> SUFFICES ASSUME ~load'.overlap
             PROVE  /\ \A i, k \in Invitations :
                          /\ invitation'[i].status = "pending" /\ invitation'[k].status = "pending"
                          /\ invitation'[i].email = invitation'[k].email
                          => i = k
                    /\ \A w \in Workers : pc'[w] = "invite" => \A i \in Invitations :
                          invitation'[i].status = "pending" => invitation'[i].email # job'[w].email
  BY DEF Inviting
<1>1. load' = load
  BY CommitsBusy DEF Taken, Quiet, Opens, Moved
<1>2. /\ \A i, k \in Invitations :
            /\ invitation[i].status = "pending" /\ invitation[k].status = "pending"
            /\ invitation[i].email = invitation[k].email
            => i = k
      /\ \A w \in Workers : pc[w] = "invite" => \A i \in Invitations :
            invitation[i].status = "pending" => invitation[i].email # job[w].email
  BY <1>1 DEF Inviting
<1>3. CASE Quiet
  <2>1. invitation' = invitation
    BY <1>3 DEF Quiet
  <2>2. \A w \in Workers : pc'[w] = "invite" => pc[w] = "invite" /\ job'[w] = job[w]
    BY <1>3 DEF Quiet, Moved
  <2>3. QED
    BY <1>2, <2>1, <2>2
<1>4. CASE \E w \in Workers : Opens(w)
  <2>1. PICK w \in Workers : Opens(w)
    BY <1>4
  <2>2. invitation' = invitation /\ OpensInvitation(w)
    BY <2>1 DEF Opens
  <2>3. \A v \in Workers : v # w => pc'[v] = pc[v] /\ job'[v] = job[v]
    BY <2>1 DEF Opens, Moved
  <2>4. QED
    BY <1>2, <2>2, <2>3 DEF OpensInvitation, Invited, Pending
<1>5. ASSUME NEW w \in Workers, Commits(w)
      PROVE  /\ \A i, k \in Invitations :
                   /\ invitation'[i].status = "pending" /\ invitation'[k].status = "pending"
                   /\ invitation'[i].email = invitation'[k].email
                   => i = k
             /\ \A v \in Workers : pc'[v] # "invite"
  <2>1. \A i \in Invitations : invitation'[i].status = "pending" =>
           \/ invitation'[i] = invitation[i]
           \/ Invites(w, i) /\ invitation'[i].email = job[w].email
    BY <1>5, InvitationsGo
  <2>2. \A i, k \in Invitations : Invites(w, i) /\ Invites(w, k) => i = k
    BY DEF Invites
  <2>3. \A i \in Invitations : Invites(w, i) => pc[w] = "invite"
    BY DEF Invites
  <2>4. pc'[w] # "invite"
    <3>1. CASE Saves(w)
      BY <3>1 DEF Saves, Update, Followed
    <3>2. QED
      BY <1>5, <3>1, Records
  <2>5. \A v \in Workers : pc'[v] # "invite"
    BY <1>1, <1>5, <2>4, OthersIdle
  <2>6. QED
    BY <1>2, <2>1, <2>2, <2>3, <2>5
<1>6. QED
  BY <1>3, <1>4, <1>5 DEF Taken

LEMMA InvitingInit ==
    ASSUME Init
    PROVE  EmailsDiffer /\ OfficersStay /\ Inviting
<1>1. /\ \A w \in Workers : pc[w] = "idle"
      /\ \A i \in Invitations : invitation[i].status = "absent"
  BY DEF Init, RequestsInit, PortalInit
<1>2. \A u \in Users : user[u].row = "live" => u \in DOMAIN load.seeds
  BY InitRows
<1>3. load \in Workloads
  BY DEF Init, RequestsInit
<1>4. EmailsDiffer
  BY <1>2, <1>3, SeedAssumption DEF EmailsDiffer
<1>5. QED
  BY <1>1, <1>4 DEF OfficersStay, Inviting

\* An invitation that was accepted is one officer's account for as long as it
\* is one, however acceptances, sign-ups and deletions overlap, and one
\* request at a time no address has two that are open (create_invitation,
\* accept_invitation, admin_delete_user).
THEOREM InvitationsAlwaysMakeOfficers == Spec => []InvitationsMakeOfficers
<1>1. Init => EmailsDiffer /\ OfficersStay /\ Inviting
  BY InvitingInit
<1>2. Base /\ EmailsDiffer /\ OfficersStay /\ Inviting /\ [Next]_vars
         => EmailsDiffer' /\ OfficersStay' /\ Inviting'
  BY BaseStep, EmailsStep, OfficersStep, InvitingStep DEF Base
<1>3. EmailsDiffer /\ OfficersStay /\ Inviting => InvitationsMakeOfficers
  <2>1. SUFFICES ASSUME EmailsDiffer, OfficersStay, Inviting
                 PROVE  InvitationsMakeOfficers
    OBVIOUS
  <2>2. ASSUME NEW i \in Invitations, invitation[i].status = "accepted"
        PROVE  LET holders == {u \in Users : Live(u) /\ EmailOf[u] = invitation[i].email} IN
               /\ Cardinality(holders) = 1
               /\ ~Uses("update_me") => \E u \in holders : PortalUser(u)
    <3> DEFINE holders == {u \in Users : Live(u) /\ EmailOf[u] = invitation[i].email}
    <3>1. PICK u \in Users : Holds(u, i)
      BY <2>1, <2>2 DEF OfficersStay
    <3>2. holders = {u}
      BY <2>1, <3>1 DEF EmailsDiffer, Holds, Live
    <3>3. Cardinality(holders) = 1
      BY <3>2, FS_Singleton
    <3>4. ~Uses("update_me") => PortalUser(u)
      BY <3>1 DEF Holds, Uses, PortalUser, Live
    <3> HIDE DEF holders
    <3>5. QED
      BY <3>2, <3>3, <3>4 DEF holders
  <2>3. AcceptedInvitationsHaveOfficers
    BY <2>2 DEF AcceptedInvitationsHaveOfficers
  <2>4. OnePendingInvitation
    BY <2>1 DEF Inviting, OnePendingInvitation, Pending
  <2>5. QED
    BY <2>3, <2>4 DEF InvitationsMakeOfficers
<1>4. QED
  BY <1>1, <1>2, <1>3, BaseAlways, PTL DEF Spec

-----------------------------------------------------------------------------
(* Documents and certificates, one request at a time.                      *)

\* The documents of an account are those of its row, or the request that has
\* replaced them is still at it.
Recorded(u) ==
    \/ user[u].manifest = docs[u]
    \/ \E w \in Workers : u \in DOMAIN job[w].set /\
          \/ pc[w] = "anchor"
          \/ pc[w] = "save" /\ "manifest" \in DOMAIN job[w].set[u]

Intact == ~load.overlap /\ ~load.fails /\ "upload_refused" \notin load.uses

Documented ==
    Intact =>
       /\ \A u \in Users : /\ user[u].row = "absent" => docs[u] = 0
                           /\ docs[u] # 0 => Recorded(u)
       /\ \A w \in Workers : pc[w] = "save" => \A u \in DOMAIN job[w].set :
             "manifest" \in DOMAIN job[w].set[u] => job[w].set[u].manifest = docs[u]

LEMMA DocumentedStep ==
    ASSUME PeopleTyped, Alone, Current, Documented, Taken
    PROVE  Documented'
<1> SUFFICES ASSUME Intact'
             PROVE  /\ \A u \in Users : /\ user'[u].row = "absent" => docs'[u] = 0
                                        /\ docs'[u] # 0 => Recorded(u)'
                    /\ \A w \in Workers : pc'[w] = "save" => \A u \in DOMAIN job'[w].set :
                          "manifest" \in DOMAIN job'[w].set[u] =>
                             job'[w].set[u].manifest = docs'[u]
  BY DEF Documented
<1>1. load' = load
  BY CommitsBusy DEF Taken, Quiet, Opens, Moved
<1>2. /\ ~load.overlap /\ ~load.fails /\ "upload_refused" \notin load.uses
      /\ \A u \in Users : /\ user[u].row = "absent" => docs[u] = 0
                          /\ docs[u] # 0 => Recorded(u)
      /\ \A w \in Workers : pc[w] = "save" => \A u \in DOMAIN job[w].set :
            "manifest" \in DOMAIN job[w].set[u] => job[w].set[u].manifest = docs[u]
  BY <1>1 DEF Intact, Documented
<1>3. CASE Quiet
  <2>1. user' = user /\ docs' = docs
    BY <1>2, <1>3 DEF Quiet
  <2>2. \A w \in Workers : /\ pc'[w] = "save" => pc[w] = "save" /\ job'[w] = job[w]
                           /\ pc[w] \in {"save", "anchor"} => pc'[w] = pc[w] /\ job'[w] = job[w]
    BY <1>2, <1>3 DEF Quiet, Moved
  <2>3. \A u \in Users : Recorded(u) => Recorded(u)'
    BY <2>1, <2>2 DEF Recorded
  <2>4. QED
    BY <1>2, <2>1, <2>2, <2>3
<1>4. CASE \E w \in Workers : Opens(w)
  <2>1. PICK w \in Workers : Opens(w)
    BY <1>4
  <2>2. /\ user' = user /\ OpensDocuments(w) /\ OpensRows(w) /\ pc[w] # "save"
    BY <2>1 DEF Opens
  <2>3. \A v \in Workers : v # w => pc[v] = "idle" /\ pc'[v] = "idle"
    BY <1>2, <2>1, OthersIdle
  <2>4. ASSUME NEW u \in Users, docs'[u] # docs[u]
        PROVE  pc'[w] = "anchor" /\ u \in DOMAIN job'[w].set /\ user[u].row = "live"
    <3>1. pc'[w] = "anchor"
      BY <2>2, <2>4 DEF OpensDocuments
    <3>2. u \in DOMAIN job'[w].set
      BY <2>2, <2>4, <3>1 DEF OpensDocuments
    <3>3. user[u].row = "live"
      BY <1>2, <2>2, <3>1, <3>2 DEF OpensRows, Live
    <3>4. QED
      BY <3>1, <3>2, <3>3
  <2>5. ASSUME NEW u \in Users, docs'[u] # 0
        PROVE  Recorded(u)'
    <3>1. CASE docs'[u] # docs[u]
      BY <2>4, <3>1 DEF Recorded
    <3>2. CASE docs'[u] = docs[u]
      <4>1. Recorded(u)
        BY <1>2, <2>5, <3>2
      <4>2. CASE user[u].manifest = docs[u]
        BY <2>2, <3>2, <4>2 DEF Recorded
      <4>3. CASE pc[w] = "anchor" /\ u \in DOMAIN job[w].set
        BY <2>2, <4>3 DEF Recorded, OpensDocuments
      <4>4. QED
        BY <2>2, <2>3, <4>1, <4>2, <4>3 DEF Recorded
    <3>3. QED
      BY <3>1, <3>2
  <2>6. \A v \in Workers : pc'[v] = "save" => \A u \in DOMAIN job'[v].set :
           "manifest" \in DOMAIN job'[v].set[u] => job'[v].set[u].manifest = docs'[u]
    <3>1. pc'[w] = "save" => docs' = docs
      BY <2>2 DEF OpensDocuments
    <3>2. QED
      BY <2>2, <2>3, <3>1 DEF OpensDocuments
  <2>7. \A u \in Users : user'[u].row = "absent" => docs'[u] = 0
    BY <1>2, <2>2, <2>4
  <2>8. QED
    BY <2>5, <2>6, <2>7
<1>5. ASSUME NEW w \in Workers, Commits(w)
      PROVE  /\ \A u \in Users : /\ user'[u].row = "absent" => docs'[u] = 0
                                 /\ docs'[u] # 0 => Recorded(u)'
             /\ \A v \in Workers : pc'[v] # "save"
  <2>1. \A v \in Workers : v # w => pc[v] = "idle" /\ pc'[v] = "idle"
    BY <1>2, <1>5, OthersIdle
  <2>2. docs' = docs
    BY <1>5 DEF Commits, Saves, Inserts, Clears, Accepts, Invites, Expires, DeletesLinks,
               DeletesRow
  <2>3. pc[w] # "anchor"
    BY <1>5, CommitsBusy
  <2>4. CASE Saves(w)
    <3> DEFINE j == job[w]
    <3>1. /\ \A u \in Users, f \in Fields : user'[u][f] =
                IF u \in DOMAIN j.set /\ f \in DOMAIN j.set[u] THEN j.set[u][f] ELSE user[u][f]
          /\ pc[w] = "save" /\ pc'[w] # "save"
          /\ \A u \in Users : user'[u].row = user[u].row
      BY <1>2, <2>4, SavesSerially DEF Saves, Update, Followed
    <3>2. ASSUME NEW u \in Users, docs[u] # 0
          PROVE  user'[u].manifest = docs[u]
      <4>1. CASE u \in DOMAIN j.set /\ "manifest" \in DOMAIN j.set[u]
        BY <1>2, <3>1, <4>1 DEF Fields
      <4>2. CASE ~(u \in DOMAIN j.set /\ "manifest" \in DOMAIN j.set[u])
        <5>1. user[u].manifest = docs[u]
          BY <1>2, <2>1, <2>3, <3>2, <4>2 DEF Recorded
        <5>2. QED
          BY <3>1, <4>2, <5>1 DEF Fields
      <4>3. QED
        BY <4>1, <4>2
    <3>3. QED
      BY <1>2, <2>1, <2>2, <3>1, <3>2 DEF Recorded
  <2>5. CASE ~Saves(w)
    <3>1. pc[w] # "save" /\ pc'[w] # "save"
      BY <1>5, <2>5, Records
         DEF Commits, Inserts, Clears, Accepts, Invites, Expires, DeletesLinks, DeletesRow
    <3>2. ASSUME NEW u \in Users, docs[u] # 0
          PROVE  user'[u].manifest = docs[u]
      <4>1. user[u].manifest = docs[u] /\ user[u].row # "absent"
        BY <1>2, <2>1, <2>3, <3>1, <3>2 DEF Recorded
      <4>2. Kept(w, u)
        BY <1>5, <2>5, <4>1, Keeps
      <4>3. user'[u]["manifest"] = user[u]["manifest"]
        BY <4>2 DEF Kept, Fields
      <4>4. QED
        BY <4>1, <4>3
    <3>3. ASSUME NEW u \in Users, user'[u].row = "absent"
          PROVE  user[u].row = "absent"
      <4>1. ~Fresh(user'[u])
        BY <3>3 DEF Fresh
      <4>2. QED
        BY <1>5, <2>5, <3>3, <4>1, Keeps DEF Kept
    <3>4. QED
      BY <1>2, <2>1, <2>2, <3>1, <3>2, <3>3 DEF Recorded
  <2>6. QED
    BY <2>4, <2>5
<1>6. QED
  BY <1>3, <1>4, <1>5 DEF Taken

LEMMA CertificatesStay ==
    ASSUME PeopleTyped, Current, Taken, ~load.overlap, NEW u \in Users,
           user[u].row = "live", user[u].cert # 0
    PROVE  user'[u].cert = user[u].cert
<1>1. CASE user' = user
  BY <1>1
<1>2. ASSUME NEW w \in Workers, Saves(w)
      PROVE  user'[u].cert = user[u].cert
  <2> DEFINE j == job[w]
             s == j.set[u]
  <2>1. /\ user'[u]["cert"] = IF u \in DOMAIN j.set /\ "cert" \in DOMAIN s THEN s["cert"]
                              ELSE user[u]["cert"]
        /\ j.seen = user
    BY <1>2, SavesSerially DEF Fields
  <2>2. u \in DOMAIN j.set => FitsReview(load, u, s, user[u], j.log)
    BY <1>2, <2>1 DEF Saves, Update, RowFits
  <2> HIDE DEF j, s
  <2>3. QED
    BY <2>1, <2>2 DEF FitsReview
<1>3. ASSUME NEW w \in Workers, Commits(w), ~Saves(w)
      PROVE  user'[u].cert = user[u].cert
  <2>1. Kept(w, u)
    BY <1>3, Keeps
  <2>2. user'[u]["cert"] = user[u]["cert"]
    BY <2>1 DEF Kept, Fields
  <2>3. QED
    BY <2>2
<1>4. QED
  BY <1>1, <1>2, <1>3 DEF Taken, Quiet, Opens

\* One request at a time and none cut short, the documents that were hashed
\* are those on disk; and a certificate keeps the address it was printed with
\* (upload_kyc_documents, reconcile_user_kyc_submission,
\* ensure_compliance_verify_token).
THEOREM DocumentsAreAlwaysKept == Spec => DocumentsAreKept
<1>1. Init => Documented
  <2>1. SUFFICES ASSUME Init
                 PROVE  Documented
    OBVIOUS
  <2>2. (\A w \in Workers : pc[w] = "idle") /\ \A u \in Users : docs[u] = 0
    BY <2>1 DEF Init, RequestsInit
  <2>3. QED
    BY <2>2 DEF Documented
<1>2. Base /\ Documented /\ [Next]_vars => Documented'
  BY BaseStep, DocumentedStep DEF Base
<1>3. Documented => ManifestIsOfTheDocuments
  BY DEF Documented, Intact, Recorded, ManifestIsOfTheDocuments, Uses, Busy
<1>4. Base /\ [Next]_vars =>
         (~load.overlap => \A u \in Users :
             Live(u) /\ Live(u)' /\ user[u].cert # 0 => user'[u].cert = user[u].cert)
  BY BaseStep, CertificatesStay DEF Base, Live
<1>5. QED
  BY <1>1, <1>2, <1>3, <1>4, BaseAlways, PTL
     DEF Spec, DocumentsAreKept, CertificatesKeepTheirAddress

==============================================================================
