---------------------------- MODULE CommitHistory ----------------------------
(***************************************************************************)
(* What Git promises a store that is synced: a history is a set of commits *)
(* that only grows.  This device adds its own commits and takes those of   *)
(* the remotes; a remote receives the whole history of this device or a    *)
(* commit of another device.                                               *)
(***************************************************************************)
CONSTANT Remotes

VARIABLES local, published    \* a set of commits, [Remotes -> sets of commits]

Fresh(c) == c \notin local /\ \A r \in Remotes : c \notin published[r]

HistoryInit == \A r \in Remotes : published[r] \subseteq local

CommitHere ==
    /\ \E c \in local' : Fresh(c) /\ local' = local \cup {c}
    /\ UNCHANGED published

\* What a remote holds, in a fast-forward or under a merge commit c.
Take(r) ==
    /\ local \subseteq local'
    /\ \/ local' \subseteq local \cup published[r]
       \/ \E c \in local' : Fresh(c) /\ local' \subseteq local \cup published[r] \cup {c}
    /\ UNCHANGED published

Publish(r) ==
    /\ published[r] \subseteq local
    /\ published' = [published EXCEPT ![r] = local]
    /\ UNCHANGED local

CommitElsewhere(r) ==
    /\ \E c \in published'[r] :
           Fresh(c) /\ published' = [published EXCEPT ![r] = @ \cup {c}]
    /\ UNCHANGED local

HistoryNext ==
    \/ CommitHere
    \/ \E r \in Remotes : Take(r) \/ Publish(r) \/ CommitElsewhere(r)

HistorySpec == HistoryInit /\ [][HistoryNext]_<<local, published>>
=============================================================================
