------------------------------- MODULE Launch -------------------------------
(* What the program is started with and what it opens then: an entry, a        *)
(* passkey file, or a search.  Arguments come from a shell, from the files of a *)
(* file manager, and from the results that the search provider gave the        *)
(* desktop, which may be stale by then.  A file is looked at, opened and read   *)
(* in steps, while others replace it or let it grow.  Whether a file asks for   *)
(* passkeys or holds one is told from the JSON in it, and a credential becomes  *)
(* an entry in one of two formats.  Texts are the faults they may have.         *)
EXTENDS Naturals, Sequences, FiniteSets

CONSTANTS
    Places,        \* entries that the stores may have
    ResultLimit,   \* results that the search provider gives
    MaxLaunches,   \* bound: starts of the program
    MaxSwaps       \* bound: changes of the file, of the entries and of the page by others

VARIABLES
    app,          \* the primary instance runs
    provider,     \* a search provider owns its name on the bus
    window,       \* the primary instance has its window
    launch,       \* the arguments that are handled, and how far
    file,         \* what is at the path of the arguments
    handle,       \* the file that was opened, or Nothing
    pending,      \* what the next activation takes
    shown,        \* what the last launch led to
    present,      \* entries of the stores
    results,      \* results that the desktop shows
    asked,        \* the result that was activated last, and whether its entry was there
    page,         \* what the entry page has: what is saved, what is not, or an import
    launchCount   \* launches, and changes by others, so far

launchVars == <<app, provider, window, launch, file, handle, pending, shown, present,
                results, asked, page, launchCount>>

NotAsked == [id |-> <<>>, there |-> FALSE]
Nothing == [kind |-> "missing"]
Idle == [step |-> "none", args |-> <<>>, explicit |-> FALSE, read |-> Nothing]

-----------------------------------------------------------------------------
(* Export requests. *)

RequiredFields == {"hpke", "version", "archive", "mode", "importer"}
OptionalFields == {"credentialTypes", "knownExtensions"}
CoreFields == RequiredFields \ {"hpke"}

\* What may be wrong with the value of a field; "type" is of another type.
Faults == {<<"version", "type">>, <<"version", "later">>, <<"importer", "space">>,
           <<"importer", "domain">>, <<"mode", "direct">>, <<"archive", "empty">>,
           <<"archive", "store">>, <<"credentialTypes", "blank">>,
           <<"credentialTypes", "others">>, <<"knownExtensions", "long">>}

JsonWebKey(kty, crv, x, y, d) == [kty |-> kty, crv |-> crv, x |-> x, y |-> y, d |-> d]
GoodKey == JsonWebKey("EC", "P-256", 32, 32, FALSE)
NoKey == JsonWebKey("none", "none", 0, 0, FALSE)
Parameters(mode, kem, key) == [mode |-> mode, kem |-> kem, key |-> key]
GoodParameters == Parameters("base", "P-256", GoodKey)

Request(has, faults, hpke) ==
    [is |-> "request", has |-> has, faults |-> {f \in faults : f[1] \in has}, hpke |-> hpke]

\* One field that only requests have, or enough of the others.
LooksLikeCxpExportRequest(has) ==
    \/ "hpke" \in has
    \/ Cardinality(has \cap CoreFields) >= 3
    \/ has \cap CoreFields # {} /\ has \cap OptionalFields # {}

\* The lengths of coordinates that a KEM asks for; an EC key has two.
KemShape == [kem \in {"P-256", "P-384", "X25519"} |->
                CASE kem = "P-256" -> <<"EC", "P-256", 32>>
                  [] kem = "P-384" -> <<"EC", "P-384", 48>>
                  [] kem = "X25519" -> <<"OKP", "X25519", 32>>]

ValidateJwk(key, kem) ==
    /\ ~key.d
    /\ <<key.kty, key.crv, key.x>> = KemShape[kem]
    /\ key.kty = "EC" => key.y = key.x

RecognizedModes == {"base", "psk", "auth", "auth-psk"}

\* Parameters that are not known are passed over, but one mode must be known.
ValidateHpke(hpke) ==
    /\ hpke # <<>>
    /\ \A i \in DOMAIN hpke :
         LET p == hpke[i]
         IN  p.mode # "blank"
             /\ (p.mode \in RecognizedModes /\ p.kem \in DOMAIN KemShape =>
                   IF p.key = NoKey THEN p.mode \notin {"base", "auth"}
                   ELSE ValidateJwk(p.key, p.kem))
    /\ \E i \in DOMAIN hpke : hpke[i].mode \in RecognizedModes

\* The checks in their order: all that come before the types refuse a request
\* that does not ask for passkeys.
ValidateRequest(doc) ==
    IF \/ doc.faults \cap {f \in Faults : f[1] \in RequiredFields} # {}
       \/ ~ValidateHpke(doc.hpke)
       \/ <<"credentialTypes", "blank">> \in doc.faults
    THEN "refused"
    ELSE IF <<"credentialTypes", "others">> \in doc.faults THEN "not"
    ELSE IF doc.faults # {} THEN "refused"
    ELSE "request"

ParsePasskeyExportRequest(doc) ==
    IF doc.is = "cut" THEN "refused"
    ELSE IF doc.is # "request" \/ ~LooksLikeCxpExportRequest(doc.has) THEN "not"
    ELSE IF \/ ~(RequiredFields \subseteq doc.has) \/ "other" \in doc.has
            \/ <<"version", "type">> \in doc.faults
         THEN "refused"
    ELSE ValidateRequest(doc)

-----------------------------------------------------------------------------
(* Credentials.  A document is the places of the passkeys in it, a place the    *)
(* keys that lead there: "followed" by the import, or any other.               *)

Algorithms == [key \in {"P-256", "Ed25519", "RSA-2048"} |->
                  CASE key = "P-256" -> 7 [] key = "Ed25519" -> 8 [] key = "RSA-2048" -> 257]

GoodCredential == [extensions |-> FALSE, key |-> "P-256", id |-> 32, handle |-> 1,
                   rp |-> "domain", name |-> "short"]
Exchange(places, credential) ==
    [is |-> "exchange", places |-> places, credential |-> credential]

IsPrefixOf(p, q) == Len(p) < Len(q) /\ SubSeq(q, 1, Len(p)) = p

\* Slip: passkeys are taken from anywhere in the file.
CollectAnywhere(places) == places

CollectPasskeys(places) ==
    {p \in places : /\ \A i \in DOMAIN p : p[i] = "followed"
                    /\ ~ \E q \in places : IsPrefixOf(q, p)}

ContainsCxfPasskeyType(doc) == doc.is = "exchange" /\ doc.places # {}

ParseCxfPasskeyJson(doc) ==
    /\ doc.is = "exchange"
    /\ Cardinality(CollectPasskeys(doc.places)) = 1
    /\ LET c == doc.credential
       IN  /\ ~c.extensions
           /\ c.key \in DOMAIN Algorithms
           /\ c.rp = "domain" /\ c.id = 32 /\ c.handle \in 1..64 /\ c.name # "none"

\* Slip: a file whose credential cannot be taken is no passkey file.
ReadOpenedOrNot(doc) ==
    IF ParsePasskeyExportRequest(doc) # "not" THEN ParsePasskeyExportRequest(doc)
    ELSE IF ParseCxfPasskeyJson(doc) THEN "credential" ELSE "not"

ReadOpenedPasskeyFile(doc) ==
    IF ParsePasskeyExportRequest(doc) # "not" THEN ParsePasskeyExportRequest(doc)
    ELSE IF ParseCxfPasskeyJson(doc) THEN "credential"
    ELSE IF ContainsCxfPasskeyType(doc) THEN "refused"
    ELSE "not"

-----------------------------------------------------------------------------
(* Records of the stores. *)

Formats == {"android", "passless"}

\* A name that fills the file leaves no room for the rest of a record.
TooLarge(credential) == credential.name = "filling"

Validate(credential, format) ==
    /\ credential.id = 32 /\ credential.handle \in 1..64 /\ credential.rp = "domain"
    /\ credential.name # "none"
    /\ Algorithms[credential.key] \in (IF format = "android" THEN {7, 8, 257} ELSE {7, 8, 19})

\* Only the Android format looks at the size of what it wrote.
Prepare(credential, format) ==
    /\ Validate(credential, format)
    /\ format = "android" => ~TooLarge(credential)

Saved == [is |-> "saved"]
Unsaved == [is |-> "unsaved"]

Record(credential, format) ==
    [is |-> "import", format |-> format, credential |-> credential, map |-> TRUE, marked |-> TRUE,
     whole |-> TRUE, rest |-> FALSE]

\* What may become of a record: it ends early, goes on, or was typed over.
Damaged(record) ==
    {[record EXCEPT !.whole = FALSE], [record EXCEPT !.rest = TRUE],
     [record EXCEPT !.whole = FALSE, !.marked = FALSE],
     [record EXCEPT !.map = FALSE, !.whole = FALSE],
     [record EXCEPT !.credential.id = 16], [record EXCEPT !.credential.handle = 0]}

\* Slip: what follows the record is passed over.
DecodeStart(record) ==
    /\ ~TooLarge(record.credential)
    /\ record.map /\ record.whole
    /\ Validate(record.credential, record.format)

Decode(record) ==
    /\ ~TooLarge(record.credential)
    /\ record.map /\ record.whole /\ ~record.rest
    /\ Validate(record.credential, record.format)

\* "none" is an entry like any other, whose first line is its password.
Inspect(record) ==
    IF ~record.map \/ ~record.marked THEN "none"
    ELSE IF Decode(record) THEN "passkey" ELSE "damaged"

-----------------------------------------------------------------------------
(* Documents that are tried: each check of a request with up to two faults, any *)
(* fields, any two parameters, any key; any two places, any credential.        *)

Documents ==
    LET all == RequiredFields \cup OptionalFields
        modes == {"base", "psk", "other", "blank"}
        parameters == {Parameters(m, k, y) : m \in modes, k \in {"P-256", "later"},
                                             y \in {GoodKey, NoKey, [GoodKey EXCEPT !.d = TRUE]}}
        keys == {JsonWebKey(t, c, x, y, d) : t \in {"EC", "OKP"}, c \in {"P-256", "P-384", "X25519"},
                                             x \in {32, 48}, y \in {0, 32, 48}, d \in BOOLEAN}
        paths == UNION {[1..n -> {"followed", "other"}] : n \in 0..2}
        credentials == [extensions : BOOLEAN, key : DOMAIN Algorithms \cup {"P-521", "none"},
                        id : {16, 32}, handle : {0, 1, 65}, rp : {"domain", "text"},
                        name : {"none", "short", "filling"}]
    IN  {[is |-> "cut"], [is |-> "text"]}
        \cup {Request(has, {}, <<GoodParameters>>) : has \in SUBSET (all \cup {"other"})}
        \cup {Request(all, {f, g}, hpke) : f \in Faults, g \in Faults, hpke \in {<<>>, <<GoodParameters>>}}
        \cup {Request(RequiredFields, {f}, <<GoodParameters>>) : f \in Faults}
        \cup {Request(RequiredFields, {}, <<p, q>>) : p \in parameters, q \in parameters}
        \cup {Request(RequiredFields, {}, <<Parameters("base", k, y)>>) : k \in DOMAIN KemShape, y \in keys}
        \cup {Exchange({p, q}, GoodCredential) : p \in paths, q \in paths}
        \cup {Exchange({}, GoodCredential)}
        \cup {Exchange({<<"followed">>}, c) : c \in credentials}

SomeDocuments ==
    {[is |-> "text"], Request(RequiredFields, {}, <<GoodParameters>>),
     Exchange({<<"followed">>}, GoodCredential)}

\* All documents and arguments are tried by the first launch; with most of them
\* nothing else happens then.
SomeWords == {"--open-entry", "path", "word"}
Common ==
    /\ \A f \in {file, launch.read} : f # Nothing => f.doc \in SomeDocuments
    /\ Len(launch.args) = 3 => launch.args \in [1..3 -> SomeWords]
Tried == IF launchCount.launches <= 1 THEN Documents ELSE SomeDocuments
File(kind, fits, doc) == [kind |-> kind, fits |-> fits, doc |-> doc]
FilesWith(documents) ==
    {Nothing} \cup {File("regular", TRUE, d) : d \in documents}
              \cup {File(k, fits, [is |-> "text"]) : k \in {"regular", "link", "pipe"}, fits \in BOOLEAN}

-----------------------------------------------------------------------------
(* Arguments. *)

Words == {"--open-entry", "--open-passkey-request", "--search-provider", "path", "uri", "word", ""}
Arguments ==
    UNION {[1..n -> IF launchCount.launches = 0 THEN Words ELSE SomeWords] : n \in 0..3}
NoRequest == [query |-> <<>>, entry |-> <<>>, passkey |-> "none"]

CommandLineOpenEntry(args) ==
    Len(args) >= 3 /\ args[1] = "--open-entry" /\ args[2] # "" /\ args[3] # ""

\* Nothing but empty words is no query.
CommandLineQuery(args) ==
    IF args = <<>> \/ args[1] = "--open-entry" \/ args = <<"">> THEN <<>> ELSE args

-----------------------------------------------------------------------------
(* Reading a file: looked at by its name, opened, looked at again, and read.    *)

ReadSteps == {"exists", "lstat", "open", "fstat", "read"}

\* What was read decides what the activation gets.
Answer(verdict) ==
    /\ handle' = Nothing
    /\ IF verdict = "not" /\ ~launch.explicit
       THEN pending' = [pending EXCEPT !.query = CommandLineQuery(launch.args)]
       ELSE pending' = [pending EXCEPT !.passkey = IF verdict = "not" THEN "refused" ELSE verdict]

Goes(step) == launch' = [launch EXCEPT !.step = step] /\ UNCHANGED <<handle, pending>>
Ends(verdict, read) ==
    /\ launch' = [launch EXCEPT !.step = "activate", !.read = read]
    /\ Answer(verdict)

\* A name that is free is searched for.
Exists ==
    /\ launch.step = "exists"
    /\ IF file.kind = "missing" THEN Ends("not", Nothing) ELSE Goes("lstat")

SymlinkMetadata ==
    /\ launch.step = "lstat"
    /\ IF file.kind = "regular" /\ file.fits THEN Goes("open") ELSE Ends("refused", Nothing)

\* A link at the end of the path is not opened, all else is.
OpenRequestFile ==
    /\ launch.step = "open"
    /\ IF file.kind \in {"missing", "link"} THEN Ends("refused", Nothing)
       ELSE /\ launch' = [launch EXCEPT !.step = "fstat"]
            /\ handle' = file
            /\ UNCHANGED pending

\* Slip: what was opened is not looked at again.
OpenedAnyway == launch.step = "fstat" /\ Goes("read")

OpenedMetadata ==
    /\ launch.step = "fstat"
    /\ IF handle.kind = "regular" /\ handle.fits THEN Goes("read") ELSE Ends("refused", Nothing)

ReadToEnd ==
    /\ launch.step = "read"
    /\ IF handle.fits THEN Ends(ReadOpenedPasskeyFile(handle.doc), handle)
       ELSE Ends("refused", Nothing)

ReadBoundedRegularFile ==
    /\ Exists \/ SymlinkMetadata \/ OpenRequestFile \/ OpenedMetadata \/ ReadToEnd
    /\ UNCHANGED <<app, provider, window, file, shown, present, results, asked, page,
                   launchCount>>

Meddles ==
    /\ launchCount.swaps < MaxSwaps /\ Common
    /\ launchCount' = [launchCount EXCEPT !.swaps = @ + 1]

\* Others put something else at the path, or write on into what is open.
Replace ==
    /\ launch.step \in ReadSteps /\ launch.args[Len(launch.args)] = "path"
    /\ Meddles
    /\ \/ file' \in FilesWith(SomeDocuments) /\ UNCHANGED handle
       \/ /\ handle.kind = "regular"
          /\ handle' = [handle EXCEPT !.fits = FALSE]
          /\ UNCHANGED file
    /\ UNCHANGED <<app, provider, window, launch, pending, shown, present, results,
                   asked, page>>

-----------------------------------------------------------------------------
(* What the arguments ask for. *)

DispatchCommandLineArgs ==
    /\ launch.step = "arguments"
    /\ LET args == launch.args
           explicit == args # <<>> /\ args[1] = "--open-passkey-request"
           name == IF explicit THEN 2 ELSE 1
           Activates(request) ==
               /\ launch' = [launch EXCEPT !.step = "activate"]
               /\ pending' = request
               /\ UNCHANGED file
       IN  IF CommandLineOpenEntry(args)
           THEN Activates([pending EXCEPT !.entry = <<args[2], args[3]>>])
           ELSE IF explicit /\ (Len(args) # 2 \/ args[2] = "uri")
           THEN Activates([pending EXCEPT !.passkey = "refused"])
           ELSE IF Len(args) = name /\ args[name] # "uri"
           THEN /\ file' \in IF args[name] = "path" THEN FilesWith(Tried) ELSE {Nothing}
                /\ launch' = [launch EXCEPT !.explicit = explicit,
                                            !.step = IF explicit THEN "lstat" ELSE "exists"]
                /\ UNCHANGED pending
           ELSE Activates([pending EXCEPT !.query = CommandLineQuery(args)])
    /\ UNCHANGED <<app, provider, window, handle, shown, present, results, asked, page,
                   launchCount>>

\* A file manager hands over files, of which only one is taken.
OpenRequestFromFiles(count) ==
    /\ app
    /\ launch' = [Idle EXCEPT !.step = IF count = 1 THEN "lstat" ELSE "activate",
                              !.args = <<"path">>, !.explicit = TRUE]
    /\ file' \in IF count = 1 THEN FilesWith(SomeDocuments) ELSE {Nothing}
    /\ pending' = [pending EXCEPT !.passkey = IF count = 1 THEN "none" ELSE "refused"]

-----------------------------------------------------------------------------
(* Starting the program, and its window. *)

Shows(what) == shown' = what
Nowhere == [what |-> "nothing", value |-> <<>>, dialog |-> "none"]

\* The program starts; a second instance only hands its arguments to the first.
Main(args) ==
    /\ IF args # <<>> /\ Head(args) = "--search-provider"
       THEN provider' \in {provider, TRUE} /\ launch' = Idle /\ UNCHANGED app
       ELSE /\ UNCHANGED provider
            /\ \/ app' = TRUE /\ launch' = [Idle EXCEPT !.step = "arguments", !.args = args]
               \* Resources, the toolkit, the display or the storage of keys fail.
               \/ ~app /\ launch' = Idle /\ UNCHANGED app

Begins ==
    /\ launch.step = "none"
    /\ launchCount.launches < MaxLaunches
    /\ Common
    /\ launchCount' = [launchCount EXCEPT !.launches = @ + 1]
    /\ shown' = Nowhere

Run ==
    /\ Begins
    /\ \/ /\ \E args \in Arguments : Main(args)
          /\ file' = Nothing
          /\ UNCHANGED pending
       \/ /\ \E count \in 0..2 : OpenRequestFromFiles(count)
          /\ UNCHANGED <<app, provider>>
    /\ asked' = NotAsked
    /\ UNCHANGED <<window, handle, present, results, page>>

\* The window takes an entry before a query; a passkey file has its dialog above.
WindowCommand(request) ==
    [what |-> IF request.entry # <<>> THEN "entry"
              ELSE IF request.query # <<>> THEN "search" ELSE "window",
     value |-> IF request.entry # <<>> THEN request.entry ELSE request.query,
     dialog |-> request.passkey]

\* Slip: what was taken by an activation stays for the next one.
KeepsRequest == pending' = pending

TakeActivationRequest == pending' = NoRequest

Activate ==
    /\ launch.step = "activate"
    /\ launch' = [launch EXCEPT !.step = "none"]
    /\ TakeActivationRequest
    /\ \/ window' = TRUE /\ UNCHANGED app /\ Shows(WindowCommand(pending))
       \/ /\ ~window /\ app' = FALSE /\ UNCHANGED window
          /\ Shows([Nowhere EXCEPT !.what = "error"])
    /\ file' = Nothing
    /\ UNCHANGED <<provider, handle, present, results, asked, page, launchCount>>

\* The window closes, and with it the program.
Shutdown ==
    /\ launch.step = "none" /\ window
    /\ app' = FALSE /\ window' = FALSE /\ pending' = NoRequest /\ page' = Saved
    /\ shown' = Nowhere
    /\ UNCHANGED <<provider, launch, file, handle, present, results, asked, launchCount>>

-----------------------------------------------------------------------------
(* Importing the credential of the dialog. *)

EditOrSave ==
    /\ launch.step = "none" /\ window /\ Meddles
    /\ page' = IF page = Saved THEN Unsaved ELSE Saved
    /\ UNCHANGED <<app, provider, window, launch, file, handle, pending, shown, present, results,
                   asked>>

\* Work on the page stays, and the dialog says so.
BeginPasskeyImport(format) ==
    LET credential == launch.read.doc.credential
    IN  /\ launch.step = "none" /\ shown.dialog = "credential"
        /\ shown' = [shown EXCEPT !.dialog = "answered"]
        /\ \/ /\ page = Saved /\ Prepare(credential, format)
              /\ page' = Record(credential, format)
           \* What is too large may not be told from a text, and is none.
           \/ /\ \/ page # Saved \/ ~Prepare(credential, format) \/ TooLarge(credential)
              /\ UNCHANGED page
        /\ UNCHANGED <<app, provider, window, launch, file, handle, pending, present, results,
                       asked, launchCount>>

-----------------------------------------------------------------------------
(* The search provider, asked by the desktop.  A term is part of the labels of *)
(* some entries; the identity of a result is its store and its label.          *)

Terms == {"word", "rare"}
Finds(terms) == {e \in present : "rare" \in terms => e[2] = "rare"}

SearchResultIds(terms) ==
    IF terms = {} THEN {{}}
    ELSE {ids \in SUBSET Finds(terms) :
             Cardinality(ids) = (IF Cardinality(Finds(terms)) < ResultLimit
                                 THEN Cardinality(Finds(terms)) ELSE ResultLimit)}

GetResultSet ==
    /\ provider
    /\ \E terms \in SUBSET Terms, ids \in SUBSET Places :
           ids \in SearchResultIds(terms) /\ results' = [ids |-> ids, terms |-> terms]
    /\ UNCHANGED <<app, provider, window, launch, file, handle, pending, shown, present, asked, page,
                   launchCount>>

\* Slip: what was found is opened, whether or not it is there.
DecodeAnyResult(id) == TRUE

DecodeResultId(id) == id \in present

\* Terms of a search are one word of the command line; none start the program.
Query(terms) == IF terms = {} THEN <<>> ELSE <<"word">>

ActivateResult ==
    /\ Begins /\ provider
    /\ \/ \E id \in results.ids :
            /\ asked' = [id |-> id, there |-> id \in present]
            /\ Main(IF DecodeResultId(id) THEN <<"--open-entry", id[1], id[2]>>
                    ELSE Query(results.terms))
       \* The search of the desktop, or a result whose process was not spawned.
       \/ Main(Query(results.terms)) /\ asked' = NotAsked
    /\ file' = Nothing
    /\ UNCHANGED <<window, handle, pending, present, results, page>>

ChangeEntries ==
    /\ Meddles
    /\ present' \in SUBSET Places
    /\ UNCHANGED <<app, provider, window, launch, file, handle, pending, shown, results, asked, page>>

ProviderEnds ==
    /\ provider /\ provider' = FALSE
    /\ UNCHANGED <<app, window, launch, file, handle, pending, shown, present, results, asked,
                   page, launchCount>>

-----------------------------------------------------------------------------
Init ==
    /\ app = FALSE /\ provider = FALSE /\ window = FALSE
    /\ launch = Idle
    /\ file = Nothing /\ handle = Nothing
    /\ pending = NoRequest
    /\ shown = Nowhere
    /\ present = Places
    /\ results = [ids |-> {}, terms |-> {}]
    /\ asked = NotAsked
    /\ page = Saved
    /\ launchCount = [launches |-> 0, swaps |-> 0]

Next ==
    \/ Run \/ DispatchCommandLineArgs \/ ReadBoundedRegularFile \/ Replace
    \/ Activate \/ Shutdown
    \/ EditOrSave \/ \E format \in Formats : BeginPasskeyImport(format)
    \/ GetResultSet \/ ActivateResult \/ ChangeEntries \/ ProviderEnds

Spec == Init /\ [][Next]_launchVars
-----------------------------------------------------------------------------
Answered == launch.step = "none" /\ shown.what \notin {"nothing", "error"}
Document == launch.read.doc

\* A request for passkeys as its fields declare it, whatever is wrong with it.
AsksForPasskeys(doc) ==
    /\ doc.is = "request" /\ LooksLikeCxpExportRequest(doc.has)
    /\ <<"credentialTypes", "others">> \notin doc.faults

(* A launch opens what its arguments say, and nothing of an earlier launch: the *)
(* entry they name, a dialog for a file given as a passkey file, and otherwise  *)
(* a search for the very words, except that a file with passkeys in it, or one  *)
(* that is cut off or cannot be looked into, is never taken for words           *)
(* (dispatch_command_line_args, command_line_request, connect_activate).        *)
OpensWhatItWasAskedFor ==
    Answered =>
        /\ shown.what = "entry" <=> CommandLineOpenEntry(launch.args)
        /\ shown.what = "entry" => shown.value = <<launch.args[2], launch.args[3]>>
        /\ shown.what = "search" => shown.value = launch.args /\ shown.dialog = "none"
        /\ (shown.dialog = "none" /\ Len(launch.args) > 1 /\ launch.args[1] = "word")
              => shown.what = "search"
        /\ launch.explicit => shown.dialog # "none"
        /\ launch.read # Nothing =>
              /\ (AsksForPasskeys(Document) \/ ContainsCxfPasskeyType(Document) \/ Document.is = "cut")
                    => shown.dialog # "none"
              /\ (Document.is = "text" /\ ~launch.explicit) => shown.what = "search"

(* What is taken from a file was in a regular file of at most the size that is  *)
(* allowed when it was read, whatever others put there between the looks at it  *)
(* (read_bounded_regular_file).                                                 *)
ReadsOnlyBoundedFiles ==
    launch.read # Nothing => launch.read.kind = "regular" /\ launch.read.fits

(* A request is accepted if and only if all it declares is right, and a         *)
(* credential if it is the only one (validate_request, collect_passkeys).       *)
AcceptsWhatItUnderstands ==
    Answered /\ launch.read # Nothing =>
        /\ (shown.dialog = "request") <=>
              /\ Document.is = "request" /\ RequiredFields \subseteq Document.has
              /\ Document.has \subseteq RequiredFields \cup OptionalFields
              /\ Document.faults = {} /\ ValidateHpke(Document.hpke)
        /\ shown.dialog \in {"credential", "answered"} =>
              /\ Document.is = "exchange"
              /\ \E p \in Document.places : \A i \in DOMAIN p : p[i] # "other"
              /\ \A p, q \in CollectPasskeys(Document.places) : p = q

(* An imported credential becomes a record that is read back, in either format, *)
(* unless a name fills the Passless record; and what becomes of a record is     *)
(* never taken for a passkey, nor for a password while it can be told from one  *)
(* (prepare, inspect_passkey_storage_value, inspect_passless).                  *)
ImportsStayReadable ==
    page.is = "import" =>
        /\ \/ Inspect(page) = "passkey"
           \/ page.format = "passless" /\ TooLarge(page.credential)
        /\ \A record \in Damaged(page) :
              Inspect(record) = IF record.map /\ record.marked THEN "damaged" ELSE "none"

(* A result of the desktop's search opens its own entry or, when that is gone,  *)
(* the search it came from (handle_activate_result).                            *)
ResultsLeadToTheirEntry ==
    Answered /\ asked # NotAsked =>
        IF asked.there THEN shown.what = "entry" /\ shown.value = asked.id
        ELSE shown.what \in {"search", "window"}
=============================================================================
