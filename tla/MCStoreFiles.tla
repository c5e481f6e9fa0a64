----------------------------- MODULE MCStoreFiles -----------------------------
(* Instances for TLC of the operations that can be undone, and of the backend  *)
(* that serves them.  One of the two is chosen at the start and takes all the  *)
(* steps.                                                                      *)
EXTENDS EntryUndo, TLC

CONSTANTS
    home, work, login, mail, t1, t2, t3, w1, w2,
    EntryLabels, plain, own, other, Escaping, Shaped, Root, Nested, password, passkey, Damaged,
    NoFile, Dangling, Callers, MaxCalls, MaxChanges

VARIABLES
    focus,
    file, ids, history, integrated, calls, strays, made, changes

\* One label is the name of the passkey, another that of no passkey of the store.
mcNamed == [l \in EntryLabels |-> IF l = own THEN passkey ELSE NoFile]

Host == INSTANCE HostEntries
            WITH Labels <- EntryLabels, Named <- mcNamed, Texts <- {password},
                 Passkeys <- {passkey}, Natives <- {}

(* No store, label or text is special.  *)
Symmetric == Permutations(Stores) \cup Permutations(Labels) \cup Permutations(Texts)

hostVars == <<file, ids, history, integrated, calls, strays, made, changes>>
allVars == <<focus, vars, hostVars>>

\* The store is empty, or has a passkey, or has a link to nothing.
mcEmpty == [l \in EntryLabels |-> NoFile]
mcWithPasskey == [mcEmpty EXCEPT ![own] = passkey, ![plain] = password]
mcWithLink == [mcEmpty EXCEPT ![own] = password, ![plain] = Dangling]

AllInit ==
    /\ focus \in {"undo", "host"}
    /\ Init /\ Host!Init
    /\ focus = "undo" => file = mcEmpty /\ ~ids
    /\ focus = "host" => \A p \in Places : files[p] = Absent
    /\ file \in {mcEmpty, mcWithPasskey, mcWithLink}
    /\ file = mcWithLink => ids
    /\ history = ids

AllNext ==
    /\ UNCHANGED focus
    /\ \/ /\ focus = "undo"
          /\ Next
          /\ UNCHANGED hostVars
       \/ /\ focus = "host"
          /\ Host!Next
          /\ UNCHANGED vars

AllSpec == AllInit /\ [][AllNext]_allVars

(* What the user did not delete or replace is still there, whoever serves: see *)
(* EntryUndo for the first, HostEntries for the others.                        *)
NothingIsLost ==
    /\ focus = "undo" => EntriesSurvive
    /\ focus = "host" =>
           /\ Host!TypeOK
           /\ Host!CallsKeepToTheirEntry
           /\ Host!PasskeysStayInTheirPlace
           /\ Host!NewStoresHaveAHistory

(* Undo leads back: see EntryUndo. *)
UndoLeadsBack == focus = "undo" => UndoReturnsTheFiles
=============================================================================
