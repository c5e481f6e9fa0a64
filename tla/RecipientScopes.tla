--------------------------- MODULE RecipientScopes ---------------------------
(***************************************************************************)
(* Which .gpg-id governs an entry and what an entry encrypted for its      *)
(* recipients looks like: the vocabulary shared by the store on disk       *)
(* (RecipientStore) and by what it promises (RecipientVault).              *)
(*                                                                         *)
(* A ciphertext is the secret it hides and the stack of key sets that must *)
(* be peeled off, outermost first: an ordinary OpenPGP message has one     *)
(* layer holding all recipients, an "all keys" entry has one singleton     *)
(* layer per recipient.  Reading an entry peels layers off; what is left   *)
(* over (the hex text of an inner layer) is taken for the entry's text.    *)
(***************************************************************************)
EXTENDS Naturals, Sequences, FiniteSets

CONSTANTS
    Dirs,       \* directories that may hold a .gpg-id
    Root,       \* the store's root directory
    Labels,     \* entry labels
    Chain,      \* [Labels -> Seq(Dirs)], directories of a label, nearest first
    Keys,       \* key fingerprints
    Files,      \* .gpg-id contents that may be saved or present at start
    Secrets,    \* entry texts
    NoFile, NoDir, Absent

ASSUME RootAssumption ==
    /\ Root \in Dirs
    /\ NoDir \notin Dirs

ASSUME ChainAssumption ==
    /\ Chain \in [Labels -> Seq(Dirs)]
    /\ \A l \in Labels : /\ Len(Chain[l]) > 0
                         /\ Chain[l][Len(Chain[l])] = Root
                         /\ \A i \in 1..(Len(Chain[l]) - 1) : Chain[l][i] # Root

RecipientFile == [req : {"any", "all"}, ids : Seq(Keys)]

ASSUME FileAssumption ==
    /\ Files \subseteq RecipientFile
    /\ NoFile \notin Files

Blob == [secret : Secrets, layers : Seq(SUBSET Keys)]

ASSUME AbsentAssumption == Absent \notin Blob

\* Positions, in a label's chain, of the directories that have a .gpg-id.
ScopeDepths(g, l) == {i \in 1..Len(Chain[l]) : g[Chain[l][i]] # NoFile}

\* The directory whose .gpg-id governs a label: the nearest one that has any.
ScopeIn(g, l) ==
    IF ScopeDepths(g, l) = {} THEN NoDir
    ELSE Chain[l][CHOOSE i \in ScopeDepths(g, l) :
                     \A j \in ScopeDepths(g, l) : i <= j]

\* The recipients a file names, resolved to distinct keys.
Ids(f) == {f.ids[i] : i \in 1..Len(f.ids)}

\* Slip: the layers are added in the order they are to be peeled off.
LayersReversed(f) ==
    IF f.req = "all" THEN [i \in 1..Len(f.ids) |-> {f.ids[Len(f.ids) + 1 - i]}]
                     ELSE <<Ids(f)>>

\* The stack of key sets that encrypting for a recipient file produces.
Layers(f) ==
    IF f.req = "all" THEN [i \in 1..Len(f.ids) |-> {f.ids[i]}] ELSE <<Ids(f)>>

\* Slip: only for the key whose context encrypts.
EncryptForContextKey(f, b) ==
    [secret |-> b.secret, layers |-> <<{f.ids[Len(f.ids)]}>> \o b.layers]

Encrypt(f, b) == [secret |-> b.secret, layers |-> Layers(f) \o b.layers]

\* The entry is encrypted exactly for the recipients that govern its label.
ConsistentIn(g, e, l) ==
    ScopeIn(g, l) # NoDir /\ e[l].layers = Layers(g[ScopeIn(g, l)])
=============================================================================
