------------------------------ MODULE CardSetup ------------------------------
(* Cards that are set up, added from a public key, and used.  A setup is many   *)
(* transactions with a card: its PIN is tried, the admin PIN entered, the PIN   *)
(* set, two keys generated, a certificate signed, the PIN tried again, and what *)
(* the card says of itself compared before the key is stored.  Between two of   *)
(* them the card may be taken out, or set up by another window or program.      *)
(* Left out: texts, algorithms, what certificates look like, pin pads, and the  *)
(* directory of a stored key, which SessionKeys has.                            *)
EXTENDS Naturals, FiniteSets

CONSTANTS
    CardWindows, Cards,
    MaxCardUses,    \* bound: setups, imports and uses
    MaxCardFaults   \* bound: cards that are moved or changed outside, calls that fail

VARIABLES
    card,        \* each card: whether it is connected, its PIN and tries, its keys
    counting,    \* the cards say how many tries are left, instead of refusing
    page,        \* the setup page of each window
    picking,     \* the card each window chooses a public key file for
    cardJobs,
    stored,      \* stored keys: their card and their keys
    superseded,  \* history: stored keys, or such as are being stored, whose card was changed
    mistried,    \* history: a PIN was tried on a card that has other keys
    shared,      \* history: cards that something else used while they were set up
    cardCount

cardVars == <<card, counting, page, picking, cardJobs, stored, superseded, mistried,
              shared, cardCount>>

Tries == 3
NoKey == 0
MaxKeys == MaxCardUses + MaxCardFaults + 1
Pins == {"default", "mine"}

KeyPairs == [signing : 0..MaxKeys, decryption : 0..MaxKeys]
NoKeys == [signing |-> NoKey, decryption |-> NoKey]
NoCard == [at |-> "none"]
Token(c) == [at |-> "token", card |-> c, keys |-> card[c].keys]
Tokens == {NoCard} \cup [at : {"token"}, card : Cards, keys : KeyPairs]

Stages == {"pin", "admin", "generate", "fingerprints", "certify", "certifyDefault", "ensure",
           "ensureSet", "ensureAgain", "validate", "store", "ok", "failed"}

CardJobs ==
    [kind : {"setup", "import"}, window : CardWindows, card : Cards, pin : Pins,
     admin : BOOLEAN, active : BOOLEAN, made : 0..MaxKeys, keys : KeyPairs, at : Stages]

StoredKeys == [card : Cards, keys : KeyPairs]

TypeOK ==
    /\ card \in [Cards -> [connected : BOOLEAN, pin : Pins, tries : 0..Tries,
                           adminTries : 0..Tries, keys : KeyPairs, certificate : BOOLEAN]]
    /\ {counting, mistried} \subseteq BOOLEAN
    /\ page \in [CardWindows -> [visible : BOOLEAN, token : Cards \cup {NoCard},
                                 inFlight : BOOLEAN]]
    /\ picking \in [CardWindows -> Tokens]
    /\ cardJobs \subseteq CardJobs
    /\ shared \subseteq Cards
    /\ {stored, superseded} \subseteq SUBSET StoredKeys
    /\ cardCount \in [uses : 0..MaxCardUses, faults : 0..MaxCardFaults, keys : 0..MaxKeys]

\* A card is empty, or has keys and perhaps the certificate that belongs to them.
Init ==
    /\ \E old \in SUBSET Cards, withCert \in SUBSET Cards, pin \in Pins :
           card = [c \in Cards |->
               [connected |-> TRUE, pin |-> pin, tries |-> Tries, adminTries |-> Tries,
                keys |-> IF c \in old THEN [signing |-> 1, decryption |-> 1] ELSE NoKeys,
                certificate |-> c \in old \cap withCert]]
    /\ counting \in BOOLEAN
    /\ page = [w \in CardWindows |-> [visible |-> FALSE, token |-> NoCard, inFlight |-> FALSE]]
    /\ picking = [w \in CardWindows |-> NoCard]
    /\ cardJobs = {} /\ stored = {} /\ superseded = {}
    /\ mistried = FALSE /\ shared = {}
    /\ cardCount = [uses |-> 0, faults |-> 0, keys |-> 1]

UseCounted ==
    /\ cardCount.uses < MaxCardUses
    /\ cardCount' = [cardCount EXCEPT !.uses = @ + 1]

Fault ==
    /\ cardCount.faults < MaxCardFaults
    /\ cardCount' = [cardCount EXCEPT !.faults = @ + 1]

-----------------------------------------------------------------------------
(* What a card does with a PIN. *)

Accepts(k, pin) == k.tries > 0 /\ k.pin = pin
Refuses(k, pin) == k.tries > 0 /\ k.pin # pin

AfterPin(k, pin) ==
    [k EXCEPT !.tries = CASE Accepts(k, pin) -> Tries
                          [] Refuses(k, pin) -> @ - 1
                          [] OTHER -> 0]

AcceptsAdmin(k, job) == k.adminTries > 0 /\ job.admin
AfterAdmin(k, job) ==
    [k EXCEPT !.adminTries = CASE AcceptsAdmin(k, job) -> Tries
                               [] k.adminTries > 0 /\ ~job.admin -> @ - 1
                               [] OTHER -> 0]

WithPin(k, pin) == [k EXCEPT !.pin = pin, !.tries = Tries]

\* A card that counts names the tries left, which is no refusal to the setup.
MayRetry(k, pin) == Refuses(k, pin) /\ ~counting

-----------------------------------------------------------------------------
(* The transactions of a setup. *)

GoesOn(job, next) == cardJobs' = (cardJobs \ {job}) \cup {next}
GoesTo(job, stage) == GoesOn(job, [job EXCEPT !.at = stage])

OnCard(job, k) == card' = [card EXCEPT ![job.card] = k]

\* Slip: a PIN that is refused counts as the active one.
AnyPinIsActive(job, active, inactive) ==
    LET k == card[job.card]
    IN  /\ OnCard(job, AfterPin(k, job.pin))
        /\ IF Accepts(k, job.pin) \/ MayRetry(k, job.pin) THEN GoesOn(job, active)
           ELSE GoesTo(job, "failed")

RequestedPinIsActive(job, active, inactive) ==
    LET k == card[job.card]
    IN  /\ OnCard(job, AfterPin(k, job.pin))
        /\ CASE Accepts(k, job.pin) -> GoesOn(job, active)
             [] MayRetry(k, job.pin) -> GoesOn(job, inactive)
             [] OTHER -> GoesTo(job, "failed")

\* The admin PIN resets it; a card that refuses may take it in place of the default.
SetRequestedPin(job, stage) ==
    LET k == AfterAdmin(card[job.card], job)
    IN  IF ~AcceptsAdmin(card[job.card], job)
        THEN OnCard(job, k) /\ GoesTo(job, "failed") /\ UNCHANGED cardCount
        ELSE \/ OnCard(job, WithPin(k, job.pin)) /\ GoesTo(job, stage) /\ UNCHANGED cardCount
             \/ /\ Fault
                /\ IF Accepts(k, "default")
                   THEN OnCard(job, WithPin(k, job.pin)) /\ GoesTo(job, stage)
                   ELSE OnCard(job, AfterPin(k, "default")) /\ GoesTo(job, "failed")

TryPin(job) ==
    /\ job.at = "pin"
    /\ RequestedPinIsActive(job, [job EXCEPT !.at = "admin", !.active = TRUE],
                                 [job EXCEPT !.at = "admin"])
    /\ UNCHANGED <<superseded, cardCount>>

EnterAdminPin(job) ==
    /\ job.at = "admin"
    /\ IF job.active
       THEN /\ OnCard(job, AfterAdmin(card[job.card], job))
            /\ GoesTo(job, IF AcceptsAdmin(card[job.card], job) THEN "generate" ELSE "failed")
            /\ UNCHANGED cardCount
       ELSE SetRequestedPin(job, "generate")
    /\ UNCHANGED superseded

\* Keys that are stored, or as good as stored, for a card.
KeysFor(c) ==
    {s \in stored : s.card = c}
      \cup {[card |-> c, keys |-> job.keys] : job \in {j \in cardJobs : j.card = c /\ j.at = "store"}}

\* What the card had is lost, if only one key could be generated as well.
GenerateKeys(job) ==
    /\ job.at = "generate"
    /\ LET k == AfterAdmin(card[job.card], job)
           n == cardCount.keys + 1
       IN  IF ~AcceptsAdmin(card[job.card], job)
           THEN OnCard(job, k) /\ GoesTo(job, "failed") /\ UNCHANGED <<superseded, cardCount>>
           ELSE /\ superseded' = superseded \cup KeysFor(job.card)
                /\ \/ /\ OnCard(job, [k EXCEPT !.keys = [signing |-> n, decryption |-> n]])
                      /\ GoesOn(job, [job EXCEPT !.at = "fingerprints", !.made = n])
                      /\ cardCount' = [cardCount EXCEPT !.keys = n]
                   \/ /\ cardCount.faults < MaxCardFaults
                      /\ OnCard(job, [k EXCEPT !.keys.signing = n])
                      /\ GoesTo(job, "failed")
                      /\ cardCount' = [cardCount EXCEPT !.keys = n, !.faults = @ + 1]

MaterialHas(n, keys) == keys = [signing |-> n, decryption |-> n]

\* The material that was generated has to have the fingerprints the card has by then.
ReadFingerprints(job) ==
    /\ job.at = "fingerprints"
    /\ LET keys == card[job.card].keys
       IN  IF MaterialHas(job.made, keys)
           THEN GoesOn(job, [job EXCEPT !.at = "certify", !.keys = keys])
           ELSE GoesTo(job, "failed")
    /\ UNCHANGED <<card, superseded, cardCount>>

\* Every packet of the certificate is signed after the PIN was tried.
SignsWith(k, pin) == Accepts(k, pin)

Certify(job) ==
    /\ job.at \in {"certify", "certifyDefault"}
    /\ LET k == card[job.card]
           pin == IF job.at = "certify" THEN job.pin ELSE "default"
       IN  /\ OnCard(job, AfterPin(k, pin))
           /\ GoesTo(job, CASE SignsWith(k, pin) -> "ensure"
                            [] Refuses(k, pin) /\ pin # "default" -> "certifyDefault"
                            [] OTHER -> "failed")
    /\ UNCHANGED <<superseded, cardCount>>

EnsurePin(job) ==
    /\ \/ /\ job.at \in {"ensure", "ensureAgain"}
          /\ RequestedPinIsActive(job, [job EXCEPT !.at = "validate"],
                 [job EXCEPT !.at = IF job.at = "ensure" THEN "ensureSet" ELSE "failed"])
          /\ UNCHANGED cardCount
       \/ /\ job.at = "ensureSet"
          /\ SetRequestedPin(job, "ensureAgain")
    /\ UNCHANGED superseded

\* Slip: what is stored is not compared with the card.
TakesAnyKeys(job) ==
    /\ job.at = "validate"
    /\ GoesTo(job, "store")
    /\ UNCHANGED <<card, superseded, cardCount>>

Names(keys, k) ==
    /\ keys.signing \in {NoKey, k.keys.signing}
    /\ keys.decryption \in {NoKey, k.keys.decryption}

\* Only the keys that are named are compared.
ValidateHardwareKeyMaterial(job) ==
    /\ job.at = "validate"
    /\ GoesTo(job, IF Names(job.keys, card[job.card]) THEN "store" ELSE "failed")
    /\ UNCHANGED <<card, superseded, cardCount>>

Setup(job) ==
    /\ card[job.card].connected
    /\ \/ TryPin(job) \/ EnterAdminPin(job) \/ GenerateKeys(job) \/ ReadFingerprints(job)
       \/ Certify(job) \/ EnsurePin(job) \/ ValidateHardwareKeyMaterial(job)
    /\ UNCHANGED <<counting, page, picking, stored, mistried, shared>>

\* A card that is not there ends it, and so may any call, or the worker's death.
SetupFails(job) ==
    /\ job.at \notin {"ok", "failed"}
    /\ GoesTo(job, "failed")
    /\ IF card[job.card].connected \/ job.at = "store" THEN Fault ELSE UNCHANGED cardCount
    /\ UNCHANGED <<card, counting, page, picking, stored, superseded, mistried, shared>>

StoreKey(job) ==
    /\ job.at = "store"
    /\ stored' = stored \cup {[card |-> job.card, keys |-> job.keys]}
    /\ GoesTo(job, "ok")
    /\ UNCHANGED <<card, counting, page, picking, superseded, mistried, shared, cardCount>>

-----------------------------------------------------------------------------
(* The pages. *)

TheConnectedCard(c) == {d \in Cards : card[d].connected} = {c}

BeginJob(w, kind, c, pin, admin, keys, stage) ==
    /\ cardJobs' = cardJobs \cup
           {[kind |-> kind, window |-> w, card |-> c, pin |-> pin, admin |-> admin,
             active |-> FALSE, made |-> NoKey, keys |-> keys, at |-> stage]}
    /\ shared' = IF \E job \in cardJobs : job.card = c THEN shared \cup {c} ELSE shared

BeginImport(w, c, keys) == BeginJob(w, "import", c, "default", FALSE, keys, "validate")

\* Only a card that has nothing is set up.  A setup under way shows its progress.
SetupConnectedKey(w) ==
    /\ ~page[w].visible
    /\ \E c \in Cards :
           /\ TheConnectedCard(c)
           /\ card[c].keys = NoKeys /\ ~card[c].certificate
           /\ page' = [page EXCEPT ![w].visible = TRUE, ![w].token = c]
    /\ UNCHANGED <<card, counting, picking, cardJobs, stored, superseded, mistried, shared,
                   cardCount>>

LeaveSetup(w) ==
    /\ page[w].visible
    /\ page' = [page EXCEPT ![w].visible = FALSE]
    /\ UNCHANGED <<card, counting, picking, cardJobs, stored, superseded, mistried, shared,
                   cardCount>>

\* Slip: the form stays while the setup runs.
SubmitAgain(w) ==
    /\ page[w].visible
    /\ page[w].token # NoCard
    /\ UseCounted
    /\ \E pin \in Pins, admin \in BOOLEAN :
           BeginJob(w, "setup", page[w].token, pin, admin, NoKeys, "pin")
    /\ page' = [page EXCEPT ![w].inFlight = TRUE]
    /\ UNCHANGED <<card, counting, picking, stored, superseded, mistried>>

\* The card is the one the page was opened for; what it has by now is not looked at.
StartGeneration(w) ==
    /\ page[w].visible /\ ~page[w].inFlight
    /\ page[w].token # NoCard
    /\ UseCounted
    /\ \E pin \in Pins, admin \in BOOLEAN :
           BeginJob(w, "setup", page[w].token, pin, admin, NoKeys, "pin")
    /\ page' = [page EXCEPT ![w].inFlight = TRUE]
    /\ UNCHANGED <<card, counting, picking, stored, superseded, mistried>>

\* A page that was opened again meanwhile goes as well.
Finish(job) ==
    /\ job.at \in {"ok", "failed"}
    /\ cardJobs' = cardJobs \ {job}
    /\ page' = IF job.kind = "import" THEN page
               ELSE [page EXCEPT ![job.window] =
                        IF job.at = "ok"
                        THEN [visible |-> FALSE, token |-> NoCard, inFlight |-> FALSE]
                        ELSE [@ EXCEPT !.inFlight = FALSE]]
    /\ UNCHANGED <<card, counting, picking, stored, superseded, mistried, shared, cardCount>>

AddConnectedKey(w) ==
    /\ UseCounted
    /\ \E c \in Cards :
           /\ TheConnectedCard(c) /\ card[c].certificate
           /\ BeginImport(w, c, card[c].keys)
    /\ UNCHANGED <<card, counting, page, picking, stored, superseded, mistried>>

ImportFromFile(w) ==
    /\ picking[w] = NoCard
    /\ UseCounted
    /\ \E c \in Cards : TheConnectedCard(c) /\ picking' = [picking EXCEPT ![w] = Token(c)]
    /\ UNCHANGED <<card, counting, page, cardJobs, stored, superseded, mistried, shared>>

\* A file that lacks a key the card had is refused, like a dialog that is closed.
FileIsChosen(w) ==
    /\ picking[w] # NoCard
    /\ picking' = [picking EXCEPT ![w] = NoCard]
    /\ \/ BeginImport(w, picking[w].card, picking[w].keys)
       \/ UNCHANGED <<cardJobs, shared>>
    /\ UNCHANGED <<card, counting, page, stored, superseded, mistried, cardCount>>

-----------------------------------------------------------------------------
(* A stored key is used. *)

Tried(s, pin) == card' = [card EXCEPT ![s.card] = AfterPin(@, pin)]

\* Slip: the PIN is tried before the keys are compared.
TriesAnyCard(s, pin) ==
    /\ Tried(s, pin)
    /\ mistried' = (mistried \/ ~Names(s.keys, card[s.card]))

TriesItsCard(s, pin) ==
    /\ IF Names(s.keys, card[s.card]) THEN Tried(s, pin) ELSE UNCHANGED card
    /\ UNCHANGED mistried

\* To verify a session that names no key takes no PIN.
UseCard(s) ==
    /\ card[s.card].connected
    /\ UseCounted
    /\ \E how \in {"verify", "decrypt", "sign"}, pin \in Pins :
           IF how = "verify" /\ s.keys = NoKeys THEN UNCHANGED <<card, mistried>>
           ELSE TriesItsCard(s, pin)
    /\ shared' = shared \cup {job.card : job \in {j \in cardJobs : j.card = s.card}}
    /\ UNCHANGED <<counting, page, picking, cardJobs, stored, superseded>>

-----------------------------------------------------------------------------
MoveCard(c) ==
    /\ Fault
    /\ card' = [card EXCEPT ![c].connected = ~@]
    /\ UNCHANGED <<counting, page, picking, cardJobs, stored, superseded, mistried, shared>>

\* Another program sets the card up.
SetUpElsewhere(c) ==
    /\ card[c].connected
    /\ cardCount.faults < MaxCardFaults
    /\ LET n == cardCount.keys + 1
       IN  /\ cardCount' = [cardCount EXCEPT !.faults = @ + 1, !.keys = n]
           /\ \E certificate \in BOOLEAN, pin \in Pins :
                  card' = [card EXCEPT ![c] =
                      [WithPin(@, pin) EXCEPT !.keys = [signing |-> n, decryption |-> n],
                                              !.certificate = certificate]]
    /\ superseded' = superseded \cup KeysFor(c)
    /\ shared' = shared \cup {c}
    /\ UNCHANGED <<counting, page, picking, cardJobs, stored, mistried>>

Next ==
    \/ \E job \in cardJobs : Setup(job) \/ SetupFails(job) \/ StoreKey(job) \/ Finish(job)
    \/ \E w \in CardWindows :
           \/ SetupConnectedKey(w) \/ LeaveSetup(w) \/ StartGeneration(w)
           \/ AddConnectedKey(w) \/ ImportFromFile(w) \/ FileIsChosen(w)
    \/ \E s \in stored : UseCard(s)
    \/ \E c \in Cards : MoveCard(c) \/ SetUpElsewhere(c)

Spec == Init /\ [][Next]_cardVars

-----------------------------------------------------------------------------
(* Properties. *)

(* The keys that a stored key names are those its card has, although the setup  *)
(* page, the chooser of a file and every worker remember what the card had      *)
(* earlier: only a card that is set up again after its key was stored, or as    *)
(* good as stored, is another one.  No PIN is tried on such a card.             *)
StoredKeysAreOnTheirCard ==
    /\ \A s \in stored \ superseded : Names(s.keys, card[s.card])
    /\ ~mistried

(* A key that a setup stores has the PIN its user asked for, with all tries     *)
(* left of it and of the admin PIN, whichever way the card made the setup go,   *)
(* unless something else used the card meanwhile.                               *)
AddedKeysHaveTheirPin ==
    \A job \in cardJobs :
        job.kind = "setup" /\ job.at \in {"validate", "store", "ok"} /\ job.card \notin shared =>
            LET k == card[job.card]
            IN  k.pin = job.pin /\ k.tries = Tries /\ k.adminTries = Tries

(* The form of the setup page is away exactly while a setup of its window runs, *)
(* wherever the user has gone meanwhile.                                        *)
ABusySetupIsRunning ==
    \A w \in CardWindows :
        Cardinality({job \in cardJobs : job.kind = "setup" /\ job.window = w})
            = IF page[w].inFlight THEN 1 ELSE 0
=============================================================================
