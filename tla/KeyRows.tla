------------------------------- MODULE KeyRows -------------------------------
(* The keys a store's page offers: the app's own, those on cards and those of   *)
(* the host, merged by fingerprint.  A worker lists them one source after the   *)
(* other, for the recipients the page had when it was asked; one runs at a time *)
(* and the latest that was asked meanwhile follows it.  Every edit draws the    *)
(* rows again from the list the page has, and the rows say which key may be     *)
(* cleared or removed.  They are hidden while the page loads.                   *)
EXTENDS FiniteSets, Naturals

CONSTANTS
    RowKeys,     \* fingerprints
    Protected,   \* keys that have to be unlocked
    UserIds,     \* user ids
    IdsOf,       \* [RowKeys -> the user ids of a key]
    Strangers,   \* recipients that no key has
    MaxClicks,   \* bound: what the user does
    MaxEvents    \* bound: loads, failures and what others do

VARIABLES
    managed,                    \* the app's own keys
    elsewhere,                  \* keys on cards, or with the host's backend the host's
    unlocked,
    integrated,                 \* the app's own backend, or the host's
    recipients, requireAll,     \* what the page shows
    inventory,                  \* the keys that were listed last
    rows,                       \* the rows as they were drawn last
    pageLoad,                   \* the page's settings are being read
    loading,                    \* the rows are hidden
    listing, queued,            \* the list that is made and the one after it
    base,                       \* history: the recipients the edits began with
    removed,                    \* history: the keys removed since they were listed
    shared,                     \* history: clearing a key cleared another one
    rowCount

rowVars == <<managed, elsewhere, unlocked, integrated, recipients, requireAll,
             inventory, rows, pageLoad, loading, listing, queued, base, removed, shared,
             rowCount>>
keyVars == <<managed, elsewhere, unlocked>>

Recipients == RowKeys \cup UserIds \cup Strangers
Kinds == {"managed", "card", "host"}

Context(rs, all) == [recipients |-> rs, all |-> all]
NoContext == [recipients |-> {}, all |-> FALSE, none |-> TRUE]

\* What was found: the keys by where they were found first, and the usable ones.
NoKeys == [kind \in Kinds |-> {}]
Inventory(found, usable, ok) == [found |-> found, usable |-> usable, ok |-> ok]
NotListed == Inventory(NoKeys, {}, FALSE)
KeysOf(inv) == UNION {inv.found[kind] : kind \in Kinds}

TypeOK ==
    /\ {managed, elsewhere, unlocked} \subseteq SUBSET RowKeys
    /\ {integrated, requireAll, pageLoad, loading, shared} \subseteq BOOLEAN
    /\ {recipients, base} \subseteq SUBSET Recipients /\ removed \subseteq RowKeys
    /\ KeysOf(inventory) \subseteq RowKeys /\ inventory.usable \subseteq RowKeys
    /\ listing.at \in {"none", "managed", "others", "states", "listed"}
    /\ rowCount \in [clicks : 0..MaxClicks, events : 0..MaxEvents]

-----------------------------------------------------------------------------
(* Which recipient is which key. *)

Matches(r, k) == r = k \/ r \in IdsOf[k]

Selected(rs, keys) == {k \in keys : \E r \in rs : Matches(r, k)}

Unresolved(rs, keys) == {r \in rs : \A k \in keys : ~Matches(r, k)}

Values(rs, k, enabled) == {r \in rs : ~Matches(r, k)} \cup IF enabled THEN {k} ELSE {}

\* The first source that has a key counts.
Merged(own, others) ==
    [kind \in Kinds |-> CASE kind = "managed" -> own
                          [] (kind = "card") = integrated -> others \ own
                          [] OTHER -> {}]

-----------------------------------------------------------------------------
(* The rows. *)

Few(s) == Cardinality(s) <= 1

\* Slip: a key is cleared whether or not another one can be used.
BlockedByNumber(k, inv, c) ==
    LET selected == Selected(c.recipients, KeysOf(inv))
    IN  k \in selected /\ (c.all \/ Few(selected))

\* private_key_toggle_block_message
ToggleBlocked(k, inv, c) ==
    LET selected == Selected(c.recipients, KeysOf(inv))
    IN  /\ k \in selected
        /\ \/ c.all
           \/ Few(selected)
           \/ k \in inv.usable /\ Few(selected \cap inv.usable)

\* Slip: the last selected key is removed as long as not all are required.
BlockedByRequirement(k, inv, c) == k \in Selected(c.recipients, KeysOf(inv)) /\ c.all

\* private_key_delete_block_message
DeleteBlocked(k, inv, c) ==
    LET selected == Selected(c.recipients, KeysOf(inv))
    IN  k \in selected /\ (c.all \/ Few(selected))

NoRows == [active |-> {}, free |-> {}, removable |-> {}, locked |-> {}, unresolved |-> {}]

Drawn(c, inv) ==
    LET keys == KeysOf(inv)
    IN  IF ~inv.ok THEN NoRows
        ELSE [active |-> Selected(c.recipients, keys),
              free |-> {k \in keys : ~ToggleBlocked(k, inv, c)},
              removable |-> {k \in inv.found["managed"] : ~DeleteBlocked(k, inv, c)},
              locked |-> IF integrated THEN (keys \ inv.found["host"]) \ inv.usable ELSE {},
              unresolved |-> Unresolved(c.recipients, keys)]

Init ==
    /\ managed \in SUBSET RowKeys /\ unlocked \in SUBSET managed
    /\ integrated \in BOOLEAN
    /\ elsewhere \in SUBSET RowKeys
    /\ recipients = {} /\ requireAll = FALSE
    /\ inventory = NotListed /\ rows = NoRows
    /\ pageLoad = TRUE /\ loading = TRUE
    /\ listing = [at |-> "none", for |-> NoContext, inv |-> NotListed]
    /\ queued = NoContext
    /\ base = {} /\ removed = {} /\ shared = FALSE
    /\ rowCount = [clicks |-> 0, events |-> 0]

-----------------------------------------------------------------------------
(* Listing the keys. *)

Started(c) == [at |-> "managed", for |-> c, inv |-> NotListed]

\* Slip: what is asked while a list is made waits for nothing.
RefreshUnlessListing(c) ==
    /\ listing' = IF listing.at = "none" THEN Started(c) ELSE listing
    /\ UNCHANGED queued

\* refresh_recipient_key_list
Refresh(c) ==
    IF listing.at = "none" THEN listing' = Started(c) /\ UNCHANGED queued
    ELSE queued' = c /\ UNCHANGED listing

ListManaged ==
    /\ listing.at = "managed"
    /\ listing' = [listing EXCEPT !.at = "others",
                                  !.inv = Inventory([NoKeys EXCEPT !["managed"] = managed],
                                                    {}, TRUE)]
    /\ UNCHANGED rowCount

ListOthers ==
    /\ listing.at = "others"
    /\ listing' = [listing EXCEPT !.at = "states",
                                  !.inv.found = Merged(@["managed"], elsewhere)]
    /\ UNCHANGED rowCount

\* A key whose state cannot be read counts as usable; the host's always is.
InspectStates ==
    /\ listing.at = "states"
    /\ listing' = [listing EXCEPT !.at = "listed",
                                  !.inv.usable = (RowKeys \ Protected) \cup unlocked
                                                 \cup @ \cup listing.inv.found["host"]]
    /\ UNCHANGED rowCount

Event ==
    /\ rowCount.events < MaxEvents
    /\ rowCount' = [rowCount EXCEPT !.events = @ + 1]

\* Without the app's own keys there is no list; without the others a shorter one.
ListingFails ==
    /\ Event
    /\ \/ /\ listing.at \in {"managed", "others", "states"}
          /\ listing' = [listing EXCEPT !.at = "listed", !.inv = NotListed]
       \/ /\ listing.at = "others"
          /\ listing' = [listing EXCEPT !.at = "states"]

ListStep ==
    /\ ListManaged \/ ListOthers \/ InspectStates \/ ListingFails
    /\ UNCHANGED <<keyVars, integrated, recipients, requireAll, inventory, rows, pageLoad,
                   loading, queued, base, removed, shared>>

FinishListing ==
    /\ listing.at = "listed"
    /\ \/ /\ queued # NoContext
          /\ listing' = Started(queued)
          /\ queued' = NoContext
          /\ UNCHANGED <<inventory, rows, loading, base, removed>>
       \/ /\ queued = NoContext
          /\ listing' = [listing EXCEPT !.at = "none", !.for = NoContext, !.inv = NotListed]
          /\ inventory' = listing.inv
          /\ rows' = Drawn(listing.for, listing.inv)
          /\ loading' = pageLoad
          /\ base' = recipients /\ removed' = {}
          /\ UNCHANGED queued
    /\ UNCHANGED <<keyVars, integrated, recipients, requireAll, pageLoad, shared, rowCount>>

-----------------------------------------------------------------------------
(* The page. *)

Reload ==
    /\ Event
    /\ pageLoad' = TRUE /\ loading' = TRUE
    /\ UNCHANGED <<keyVars, integrated, recipients, requireAll, inventory, rows, listing,
                   queued, base, removed, shared>>

\* The settings that were read are shown, or those the page has are kept.
PageLoaded ==
    /\ pageLoad
    /\ pageLoad' = FALSE
    /\ \/ recipients' \in SUBSET Recipients /\ requireAll' \in BOOLEAN
       \/ UNCHANGED <<recipients, requireAll>>
    /\ base' = recipients' /\ removed' = {}
    /\ Refresh(Context(recipients', requireAll'))
    /\ UNCHANGED <<keyVars, integrated, inventory, rows, loading, shared, rowCount>>

Click ==
    /\ ~loading
    /\ rowCount.clicks < MaxClicks
    /\ rowCount' = [rowCount EXCEPT !.clicks = @ + 1]

Rebuild(rs, all) ==
    IF inventory = NotListed THEN UNCHANGED rows ELSE rows' = Drawn(Context(rs, all), inventory)

SelectScope ==
    /\ Click
    /\ recipients' \in SUBSET Recipients /\ requireAll' \in BOOLEAN
    /\ base' = recipients' /\ removed' = {}
    /\ Rebuild(recipients', requireAll')
    /\ UNCHANGED <<shared, pageLoad, loading, listing, queued>>

Toggle(k) ==
    /\ Click
    /\ k \in rows.free
    /\ recipients' = Values(recipients, k, k \notin rows.active)
    /\ shared' = (shared \/ (k \in rows.active /\ \E other \in RowKeys \ {k} :
                               /\ \E r \in recipients : Matches(r, other)
                               /\ ~\E r \in recipients' : Matches(r, other)))
    /\ IF recipients' = recipients
       THEN rows' = [rows EXCEPT !.active = IF k \in @ THEN @ \ {k} ELSE @ \cup {k}]
       ELSE Rebuild(recipients', requireAll)
    /\ UNCHANGED <<requireAll, base, removed, pageLoad, loading, listing, queued>>

RequireAll ==
    /\ Click
    /\ integrated
    /\ KeysOf(inventory) # {}
    /\ requireAll' = ~requireAll
    /\ Rebuild(recipients, requireAll')
    /\ UNCHANGED <<recipients, base, removed, shared, pageLoad, loading, listing, queued>>

RemoveUnresolved(r) ==
    /\ Click
    /\ r \in rows.unresolved
    /\ recipients' = recipients \ {r}
    /\ Rebuild(recipients', requireAll)
    /\ UNCHANGED <<requireAll, base, removed, shared, pageLoad, loading, listing, queued>>

\* A page load under way is forgotten: see KeyInventoryChanged of RecipientPage.
KeysChanged ==
    /\ pageLoad' = FALSE /\ loading' = TRUE
    /\ Refresh(Context(recipients, requireAll))
    /\ UNCHANGED <<integrated, recipients, requireAll, inventory, rows, base, shared>>

RemoveKey(k) ==
    /\ Click
    /\ k \in rows.removable \cap managed
    /\ managed' = managed \ {k} /\ unlocked' = unlocked \ {k}
    /\ removed' = removed \cup {k}
    /\ UNCHANGED elsewhere
    /\ KeysChanged

UnlockKey(k) ==
    /\ Click
    /\ k \in rows.locked
    /\ unlocked' = unlocked \cup {k}
    /\ UNCHANGED <<managed, elsewhere, removed>>
    /\ KeysChanged

\* A key that was being made or imported is there.
KeyMade(k) ==
    /\ Event
    /\ managed' = managed \cup {k}
    /\ UNCHANGED <<elsewhere, unlocked, removed>>
    /\ KeysChanged

\* Another window removes a key, one is left idle, a card is pulled.
OthersAct ==
    /\ Event
    /\ \E k \in RowKeys :
           \/ managed' = managed \ {k} /\ unlocked' = unlocked \ {k}
              /\ UNCHANGED elsewhere
           \/ unlocked' = unlocked \ {k} /\ UNCHANGED <<managed, elsewhere>>
           \/ elsewhere' = elsewhere \ {k}
              /\ UNCHANGED <<managed, unlocked>>
    /\ UNCHANGED <<integrated, recipients, requireAll, inventory, rows, pageLoad, loading,
                   listing, queued, base, removed, shared>>

EditRows ==
    /\ SelectScope \/ RequireAll
       \/ (\E k \in RowKeys : Toggle(k)) \/ (\E r \in Recipients : RemoveUnresolved(r))
    /\ UNCHANGED <<keyVars, integrated, inventory>>

Next ==
    \/ ListStep \/ FinishListing \/ Reload \/ PageLoaded \/ EditRows \/ OthersAct
    \/ \E k \in RowKeys : RemoveKey(k) \/ UnlockKey(k) \/ KeyMade(k)

Spec == Init /\ [][Next]_rowVars

-----------------------------------------------------------------------------
(* Properties. *)

(* The rows a user can click are those of the recipients the page shows, so     *)
(* that what they allow is what the policy allows, whatever was loaded, listed  *)
(* and edited meanwhile.                                                        *)
RowsAreOfTheRecipients == ~loading => rows = Drawn(Context(recipients, requireAll), inventory)

(* "Keep at least one selected private key available": however keys are         *)
(* selected, cleared and removed, edits that began with a selected key end with *)
(* one that was listed and that they did not remove; and edits that began with  *)
(* one that can be used, and only selected and cleared keys, end with one that  *)
(* can be used.  Removing asks for another selected key alone, which may be     *)
(* locked: the only one that can be used may be removed, and the second part    *)
(* leaves that out.  Both are for recipients none of which stood for two keys,  *)
(* one of them cleared, and say nothing of a key that others remove.            *)
ASelectedKeyStays ==
    LET keys == KeysOf(inventory)
        usable == keys \cap inventory.usable
    IN  ~shared =>
            /\ Selected(base, keys) # {} => Selected(recipients, keys \ removed) # {}
            /\ removed = {} /\ Selected(base, usable) # {} => Selected(recipients, usable) # {}
=============================================================================
