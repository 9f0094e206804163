------------------------------ MODULE Listings ------------------------------
(***************************************************************************)
(* Listings and their identity (app/services/property_service.py;          *)
(* app/services/blockchain/property_identity_service.py) and the decisions *)
(* of the city authority about them (government_service.py, kcca_decide).  *)
(* A listing is refused when the identity of an active one is the          *)
(* fingerprint of its location.  Its own identity is the hash of its       *)
(* manifest, published or not; it is the fingerprint only if storing the   *)
(* manifest raises, as a publication that fails in production does         *)
(* (walrus_service.py, store_json).  A landlord's first listing makes a    *)
(* wallet, whose commit saves the listing halfway.                         *)
(***************************************************************************)
EXTENDS Requests

CONSTANTS
    Estates,      \* ids of properties rows
    Owners,       \* landlords
    Locations,    \* address, parish and district, normalised
    MaxDrawn      \* bound: hashes and tokens drawn

ASSUME DrawnAssumption == MaxDrawn \in Nat

VARIABLES
    listing,      \* properties rows
    wallet,       \* landlords with a primary wallet
    drawn         \* the last hash or token drawn

listingVars == <<listing, wallet, drawn>>

-----------------------------------------------------------------------------

Decisions == {"verified", "rejected", "inspection", "illegal"}
Draw == 0 .. MaxDrawn

\* sui_identity_hash: the hash of a location or of a manifest.
NoIdentity == [kind |-> "none", of |-> None]
LocationHash(loc) == [kind |-> "location", of |-> loc]
ManifestHash(n) == [kind |-> "manifest", of |-> n]
Identity == {NoIdentity} \cup {LocationHash(l) : l \in Locations} \cup {ManifestHash(n) : n \in Draw}

\* gov_packet_hash: the decision it is the hash of.
NoPacket == [decision |-> "pending", at |-> 0]
Packet == {NoPacket} \cup [decision : Decisions, at : Draw]

\* An id that no row has had, and one whose row is deleted.
NoListing == [row |-> FALSE, was |-> FALSE]
DeletedListing == [row |-> FALSE, was |-> TRUE]
ListingRow == [row : {TRUE}, owner : Owners, loc : Locations, active : BOOLEAN,
               gov : Decisions \cup {"pending"}, identity : Identity, token : Draw,
               packet : Packet]
NewListing(o, loc) ==
    [row |-> TRUE, owner |-> o, loc |-> loc, active |-> TRUE, gov |-> "pending",
     identity |-> NoIdentity, token |-> 0, packet |-> NoPacket]

Listed(e) == listing[e].row

\* Rows of before there were identities have none.
ListingsInit ==
    /\ listing \in [Estates -> {NoListing} \cup {NewListing(o, l) : o \in Owners, l \in Locations}]
    /\ wallet \in SUBSET Owners
    /\ drawn = 0

ListingsTypeOK ==
    /\ listing \in [Estates -> ListingRow \cup {NoListing, DeletedListing}]
    /\ wallet \subseteq Owners
    /\ drawn \in Draw

-----------------------------------------------------------------------------

\* Mutant: only the fingerprint of an archived listing is in the way.
DuplicateArchived(loc, except) ==
    \E e \in Estates \ except :
        Listed(e) /\ ~listing[e].active /\ listing[e].identity = LocationHash(loc)

\* find_duplicate_listing.
Duplicate(loc, except) ==
    \E e \in Estates \ except :
        Listed(e) /\ listing[e].active /\ listing[e].identity = LocationHash(loc)

\* The row a session works on: its ids, none before the first commit, the
\* values it read, and what the request does to the row after the identity.
Work(ids, seen, then) == [ids |-> ids, seen |-> seen, then |-> then]
Nothing == [do |-> "nothing"]
Edit(set) == [do |-> "edit", set |-> set]
Delete == [do |-> "delete"]

CreateProperty(w, o, loc) ==
    /\ Ready(w, "create_property")
    /\ ~Duplicate(loc, {})
    /\ Goto(w, "anchor", Work({}, NewListing(o, loc), Nothing))
    /\ UNCHANGED listingVars

\* Mutant: a listing is registered again whenever it is looked at.
UnregisteredAlways(r) == TRUE

Unregistered(r) == r.identity = NoIdentity

\* The handlers that begin with get_property, which registers a listing that
\* has no identity yet (ensure_listing_identity_if_missing).
GetProperty(w, handler, e, then) ==
    /\ Ready(w, handler)
    /\ Listed(e)
    /\ Goto(w, IF Unregistered(listing[e]) THEN "anchor" ELSE "then",
            Work({e}, listing[e], then))
    /\ UNCHANGED listingVars

-----------------------------------------------------------------------------
(* anchor_listing_identity.                                                *)

\* Failing, a creation ends; a registration is forgotten and the handler goes
\* on with the row.
Unanchored(w) ==
    IF job[w].ids = {} \/ job[w].then = Nothing THEN Respond(w) ELSE Goto(w, "reload", job[w])

AnchorListing(w) ==
    LET j == job[w] IN
    /\ pc[w] = "anchor"
    /\ IF Duplicate(j.seen.loc, j.ids) THEN Unanchored(w)
       ELSE Goto(w, IF j.seen.owner \in wallet THEN "mint" ELSE "wallet", j)
    /\ UNCHANGED listingVars

\* The new row, whose id no other row has had.
Inserted(row, e) == listing[e] = NoListing /\ listing' = [listing EXCEPT ![e] = row]

\* The commit of ensure_platform_wallet takes the flushed listing along; a
\* second wallet of the landlord is refused, and the listing with it.
EnsureWallet(w) ==
    LET j == job[w] IN
    /\ pc[w] = "wallet"
    /\ IF j.seen.owner \in wallet
       THEN Unanchored(w) /\ UNCHANGED listingVars
       ELSE /\ wallet' = wallet \cup {j.seen.owner}
            /\ UNCHANGED drawn
            /\ \E e \in Estates :
                  /\ IF j.ids = {} THEN Inserted(j.seen, e)
                     ELSE e \in j.ids /\ UNCHANGED listing
                  /\ Goto(w, "expired", Work({e}, j.seen, j.then))

\* What the commit has expired is read again; of a row that is gone nothing is.
Reload(w) ==
    /\ pc[w] \in {"expired", "reload"}
    /\ \E e \in job[w].ids :
          IF ~Listed(e) THEN Respond(w)
          ELSE Goto(w, IF pc[w] = "expired" THEN "mint" ELSE "then",
                    Work({e}, listing[e], job[w].then))
    /\ UNCHANGED listingVars

\* Mutant: the link to the listing's page is made when an officer decides.
EnsuredLater(token) == token

\* ensure_property_verify_token.
Ensured(token) == IF token = 0 THEN drawn + 1 ELSE token

Registered(row, identity) ==
    [row EXCEPT !.identity = identity, !.token = Ensured(row.token)]

\* store_json returns the hash of the manifest, which names the row and the
\* time, whether it publishes it or not, or raises; the identity is committed
\* with the row or as an update of it.
MintIdentity(w, stored) ==
    LET j == job[w]
        row == Registered(j.seen, IF stored THEN ManifestHash(drawn + 1)
                                  ELSE LocationHash(j.seen.loc))
        left == IF j.then = Nothing THEN Respond(w) ELSE Goto(w, "reload", j)
    IN
    /\ pc[w] = "mint"
    /\ drawn < MaxDrawn
    /\ drawn' = drawn + 1
    /\ IF j.ids = {}
       THEN (\E e \in Estates : Inserted(row, e)) /\ Respond(w)
       ELSE \E e \in j.ids :
              IF Listed(e)
              THEN listing' = [listing EXCEPT ![e] = Written(@, j.seen, row)] /\ left
              ELSE UNCHANGED listing /\ Respond(w)
    /\ UNCHANGED wallet

-----------------------------------------------------------------------------
(* What is done to a listing.                                              *)

\* The handler's own commit.
StoreListing(w) ==
    LET j == job[w] IN
    /\ pc[w] = "then"
    /\ \E e \in j.ids :
          listing' = [listing EXCEPT ![e] =
                        IF j.then.do = "nothing" \/ ~Listed(e) THEN @
                        ELSE IF j.then.do = "delete" THEN DeletedListing
                        ELSE Written(@, j.seen, j.then.set)]
    /\ Respond(w)
    /\ UNCHANGED <<wallet, drawn>>

UpdateProperty(w, e, loc) == GetProperty(w, "update_property", e, Edit([loc |-> loc]))
ArchiveProperty(w, e) == GetProperty(w, "archive_property", e, Edit([active |-> FALSE]))
DeleteProperty(w, e) == GetProperty(w, "delete_property", e, Delete)

\* restore_property reads the row without registering it.
RestoreProperty(w, e) ==
    /\ Ready(w, "restore_property")
    /\ Listed(e)
    /\ Goto(w, "then", Work({e}, listing[e], Edit([active |-> TRUE])))
    /\ UNCHANGED listingVars

\* anchor_property_decision.
PacketOf(row, decision) == [decision |-> decision, at |-> drawn + 1]

ActiveAfter(row, decision) ==
    CASE decision = "verified" -> TRUE
      [] decision \in {"rejected", "illegal"} -> FALSE
      [] OTHER -> row.active

KccaDecide(w, e, decision) ==
    LET row == listing[e] IN
    /\ Ready(w, "kcca_decide")
    /\ Listed(e)
    /\ drawn < MaxDrawn
    /\ drawn' = drawn + 1
    /\ Goto(w, "then",
            Work({e}, row, Edit([gov |-> decision, active |-> ActiveAfter(row, decision),
                                 token |-> Ensured(row.token),
                                 packet |-> PacketOf(row, decision)])))
    /\ UNCHANGED <<listing, wallet>>

ListingsNext ==
    \/ \E w \in Workers :
          \/ \E o \in Owners, loc \in Locations : CreateProperty(w, o, loc)
          \/ \E e \in Estates :
                \/ GetProperty(w, "get_property", e, Nothing)
                \/ \E loc \in Locations : UpdateProperty(w, e, loc)
                \/ ArchiveProperty(w, e)
                \/ DeleteProperty(w, e)
                \/ RestoreProperty(w, e)
                \/ \E d \in Decisions : KccaDecide(w, e, d)
          \/ AnchorListing(w)
          \/ EnsureWallet(w)
          \/ Reload(w)
          \/ \E stored \in BOOLEAN : MintIdentity(w, stored)
          \/ StoreListing(w)
          \/ Die(w) /\ UNCHANGED listingVars

-----------------------------------------------------------------------------

\* _marketplace_base_query, of what is the listing's own.
OnMarket(e) ==
    /\ Listed(e) /\ listing[e].active
    /\ listing[e].gov \in {"verified", "pending"}
    /\ listing[e].identity # NoIdentity

\* verify_property finds a token and accepts what it finds.
Verifies(e) ==
    /\ listing[e].token # 0
    /\ listing[e].gov = "verified" \/ listing[e].identity # NoIdentity

\* Requests overlapping and dying, the page a listing on the market links to
\* finds it and accepts it, and finds no other (identity_public_fields).
MarketListingsVerify ==
    /\ \A e \in Estates : OnMarket(e) => Verifies(e)
    /\ \A e, f \in Estates :
          e # f /\ Listed(e) /\ Listed(f) /\ listing[e].token # 0 =>
              listing[e].token # listing[f].token

\* One request at a time, the identity and the link of a listing stay what
\* they are once it has them, through edits, decisions, archiving and creations
\* that died halfway (ensure_listing_identity_if_missing).
IdentityIsKept ==
    [][~load.overlap =>
         \A e \in Estates :
             Listed(e) /\ listing'[e].row =>
                 /\ listing[e].identity # NoIdentity =>
                        listing'[e].identity = listing[e].identity
                 /\ listing[e].token # 0 => listing'[e].token = listing[e].token]_listingVars

\* One request at a time, the packet is of the decision in force
\* (anchor_property_decision).
PacketIsOfTheStatus ==
    ~load.overlap => \A e \in Estates : Listed(e) => listing[e].packet.decision = listing[e].gov

\* Two listings on offer have one identity.
SameIdentity(e, f) ==
    /\ e # f /\ Listed(e) /\ Listed(f)
    /\ listing[e].active /\ listing[f].active
    /\ ~Unregistered(listing[e])
    /\ listing[e].identity = listing[f].identity

\* One request at a time, and where no archived listing becomes active again, no
\* two active ones have one identity, whichever manifests could be stored: the
\* fingerprint that a failed store leaves is of no other, a creation that died
\* halfway and was registered later and listings whose address was edited
\* included (find_duplicate_listing).
IdentitiesAreUnique ==
    /\ ~load.overlap
    /\ load.uses \cap {"restore_property", "kcca_decide"} = {}
    => \A e, f \in Estates : ~SameIdentity(e, f)

\* What the market links to verifies, with the packet of the decision in force
\* (identity_public_fields, anchor_property_decision).
ListingsVerify == MarketListingsVerify /\ PacketIsOfTheStatus
=============================================================================
