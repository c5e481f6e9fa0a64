------------------------------ MODULE MCSearch ------------------------------
(* The instances of MCPages for TLC, and beside them the parts that share no    *)
(* state with the pages: the queries that are typed to search the list, what    *)
(* the program is started with, and the workspace it is built from.  At the     *)
(* start one of the four is chosen, and takes all steps.                        *)
EXTENDS MCPages

CONSTANTS QueryWords, MaxWords
CONSTANTS Places, ResultLimit, MaxLaunches, MaxSwaps
CONSTANTS MaxEdits, MaxPieces

VARIABLES subject
VARIABLES words, parsed
VARIABLES app, provider, window, launch, file, handle, pending, shown, present, results,
          asked, page, launchCount
VARIABLES project, verdict, built, merged, complete, editCount

Search == INSTANCE SearchQuery WITH query <- parsed
Opening == INSTANCE Launch
Code == INSTANCE Workspace

\* Words that go together: how queries are put together, how fields are
\* compared, and what is no field.
mcQueryWords ==
    {{"(", ")", "AND", "OR", "NOT", "a", "OTP", "store"},
     {"a", "store", "IS", "NOT", "DOES", "CONTAINS", "'not'", "$a", "=="},
     {"WEAK", "PASSWORD", "AND", "OTP", "otpauth", "REGEX", "store", "$store", "!="}}

mcPlaces == {<<"store", "word">>, <<"store", "rare">>}

searchVars == <<words, parsed>>
launchVars == <<app, provider, window, launch, file, handle, pending, shown, present,
                results, asked, page, launchCount>>
workspaceVars == <<project, verdict, built, merged, complete, editCount>>

SearchInit ==
    /\ subject \in {"pages", "queries", "launch", "workspace"}
    /\ AllInit /\ Search!Init
    \* What is not chosen, and large, is left out.
    /\ \/ subject = "launch" /\ Opening!Init
       \/ /\ subject # "launch"
          /\ app = none /\ provider = none /\ window = none /\ launch = none
          /\ file = none /\ handle = none /\ pending = none /\ shown = none
          /\ present = none /\ results = none /\ asked = none /\ page = none
          /\ launchCount = none
    /\ \/ subject = "workspace" /\ Code!Init
       \/ /\ subject # "workspace"
          /\ project = none /\ verdict = none /\ built = none /\ merged = none
          /\ complete = none /\ editCount = none
    /\ subject # "pages" => focus = "store" /\ head = 0
    /\ subject # "queries" => words = <<"a">>

SearchNext ==
    /\ UNCHANGED subject
    /\ \/ /\ subject = "queries"
          /\ Search!Next
          /\ UNCHANGED <<allVars, launchVars, workspaceVars>>
       \/ /\ subject = "pages"
          /\ AllNext
          /\ UNCHANGED <<searchVars, launchVars, workspaceVars>>
       \/ /\ subject = "launch"
          /\ Opening!Next
          /\ UNCHANGED <<allVars, searchVars, workspaceVars>>
       \/ /\ subject = "workspace"
          /\ Code!Next
          /\ UNCHANGED <<allVars, searchVars, launchVars>>

SearchSpec ==
    SearchInit /\ [][SearchNext]_<<subject, allVars, searchVars, launchVars, workspaceVars>>

(* A query that is typed means what the search guide says, and waits for the   *)
(* fields if it has to (SearchQuery); a launch opens what it was asked for, and *)
(* a file is read, taken and imported for what it is (Launch); what the checker *)
(* of the workspace passes has the bounds and the owners it says, and can be    *)
(* built (Workspace).                                                          *)
PartsKeepTheirWord ==
    /\ subject = "queries" =>
          Search!ParsesTheGrammar /\ Search!IndexIsWaitedFor
    /\ subject = "launch" =>
          /\ Opening!OpensWhatItWasAskedFor
          /\ Opening!ReadsOnlyBoundedFiles
          /\ Opening!AcceptsWhatItUnderstands
          /\ Opening!ImportsStayReadable
          /\ Opening!ResultsLeadToTheirEntry
    /\ subject = "workspace" =>
          /\ Code!ReadsWhatIsWritten
          /\ Code!WhatPassesIsBuilt
          /\ Code!WhatPassesIsOwned
          /\ Code!WhatPassesKeepsBounds
          /\ Code!DataIsCurrent
=============================================================================
