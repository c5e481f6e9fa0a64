-------------------------- MODULE MCRecipientStore --------------------------
(* Values for the constants of RecipientStore: a root and one directory below
   it, one entry in each, and two of the keys managed by the app. *)
EXTENDS RecipientStore, TLC

CONSTANTS root, sub, top, inner, k1, k2, k3, s1, s2

mcDirs == {root, sub}
mcLabels == {top, inner}
mcChain == (top :> <<root>>) @@ (inner :> <<sub, root>>)
mcRenames == {<<top, inner>>, <<inner, top>>}

AnyKey(ids) == [req |-> "any", ids |-> ids]
AllKeys(ids) == [req |-> "all", ids |-> ids]

\* Both requirements, an overlap of keys, and a key the app does not manage.
mcMixedFiles == {AnyKey(<<k1>>), AnyKey(<<k2, k1>>), AllKeys(<<k1, k2>>), AnyKey(<<k3>>)}
mcMixedManagedFiles == {AnyKey(<<k1>>), AllKeys(<<k1, k2>>), AllKeys(<<k2, k1>>)}

\* Files that all list k1 and ask for any one key.
mcSharedFiles == {AnyKey(<<k1>>), AnyKey(<<k1, k2>>)}
=============================================================================
