--------------------------- MODULE MCEntryPageProofs ---------------------------
(* The entry page keeps apart what belongs to different entries, in whatever    *)
(* order answers to reads and dialogs arrive (EntryPage), for every value of    *)
(* the constants.  Len, Append and SubSeq of stacks come first, then one lemma  *)
(* per action.                                                                  *)
EXTENDS MCEntryPage, SequenceTheorems, TLAPS

\* No entry has the label that stands for none.
PageBounds == NoLabel \notin Page!AnyLabel /\ MaxSteps \in Nat

AnyName == Page!AnyLabel \cup {NoLabel}

\* What is asked for or undone is something.
Formed ==
    /\ Page!TypeOK
    /\ undoing # Page!NoUndo => undoing.id \in 1..MaxSteps
    /\ \A p \in prompts : p.for = "open" => p.value \in Page!OpenedEntries

\* The text that is kept under a label is that entry's.
KeptInPlace == \A e \in Page!AnyLabel \ crossed : kept[e] # Page!Blank => kept[e].of = e

\* So is what is shown for the opened entry,
ShownInPlace ==
    (/\ opened # Page!NoEntry /\ display = "editor"
     /\ opened.label \notin crossed) =>
        editor.of = opened.label /\ saved.of = opened.label

\* and what a worker has read.
ReadInPlace ==
    \A t \in reads :
        (t.at = "read" /\ t.value.label \notin crossed) => t.text.of = t.value.label

\* An entry that is being opened is read, or waits for a key; its label is pending.
Carried ==
    (display = "loading" /\ opened # Page!NoEntry) =>
        \/ \E t \in reads : t.value = opened
        \/ \E p \in prompts : p.for = "open" /\ p.value = opened

PageInv ==
    /\ Formed /\ raw.of = editor.of
    /\ KeptInPlace /\ ShownInPlace /\ ReadInPlace /\ Carried

\* What a step does beside the opened entry and its texts.
Around ==
    /\ kept' \in [Page!AnyLabel -> Page!Texts] /\ KeptInPlace'
    /\ stack' \in Page!Stacks
    /\ backend' \in {"integrated", "host"}
    /\ prompts' \subseteq Page!Prompts
    /\ \A p \in prompts' : p.for = "open" => p.value \in Page!OpenedEntries
    /\ undoing' \in [id : 0..MaxSteps, editing : BOOLEAN]
    /\ undoing' # Page!NoUndo => undoing'.id \in 1..MaxSteps
    /\ crossed \subseteq crossed' /\ crossed' \subseteq Page!AnyLabel
    /\ steps' \in 0..MaxSteps

-----------------------------------------------------------------------------
(* Texts, names and pages *)

LEMMA PageInvTypes ==
    ASSUME PageInv
    PROVE  /\ Page!TypeOK
           /\ kept \in [Page!AnyLabel -> Page!Texts] /\ stack \in Page!Stacks
           /\ opened \in Page!OpenedEntries \cup {Page!NoEntry}
           /\ display \in {"loading", "editor"}
           /\ editor \in Page!Texts /\ raw \in Page!Texts /\ saved \in Page!Texts
           /\ row \in AnyName /\ savedExists \in BOOLEAN
           /\ backend \in {"integrated", "host"}
           /\ reads \subseteq Page!Reads /\ prompts \subseteq Page!Prompts
           /\ undoing \in [id : 0..MaxSteps, editing : BOOLEAN]
           /\ crossed \subseteq Page!AnyLabel
           /\ steps \in 0..MaxSteps
BY DEF PageInv, Formed, Page!TypeOK, AnyName

LEMMA TextTypes ==
    /\ Page!Blank \in Page!Texts /\ Page!Blank.of = NoLabel
    /\ \A e \in AnyName, name \in Page!Users :
           Page!First(e, name) \in Page!Texts /\ Page!First(e, name).of = e
    /\ \A new \in Page!Texts, name \in Page!Users :
          /\ [new EXCEPT !.user = name] \in Page!Texts
          /\ [new EXCEPT !.user = name].of = new.of
          /\ [new EXCEPT !.changed = TRUE, !.user = name] \in Page!Texts
          /\ [new EXCEPT !.changed = TRUE, !.user = name].of = new.of
          /\ [new EXCEPT !.changed = TRUE, !.user = name].user = name
    /\ \A new \in Page!Texts :
          /\ [new EXCEPT !.changed = TRUE] \in Page!Texts
          /\ [new EXCEPT !.changed = TRUE].of = new.of
    /\ \A new \in Page!Texts, e \in Page!AnyLabel :
          /\ [new EXCEPT !.of = e] \in Page!Texts
          /\ [new EXCEPT !.of = e].of = e
    /\ \A new \in Page!Texts : new.user \in Page!Users
BY DEF Page!Texts, Page!Blank, Page!First, Page!Users, AnyName

LEMMA EntryTypes ==
    ASSUME PageBounds
    PROVE  /\ Page!NoEntry \notin Page!OpenedEntries /\ Page!NoEntry.label = NoLabel
           /\ Page!NoEntry.user = "none"
           /\ \A e \in Page!AnyLabel, name \in Page!Users :
                  [label |-> e, user |-> name] \in Page!OpenedEntries
           /\ \A e \in Page!AnyLabel :
                  Page!FromLabel(e) \in Page!OpenedEntries /\ Page!FromLabel(e).label = e
           /\ \A value \in Page!OpenedEntries :
                 /\ value # Page!NoEntry /\ value.label \in Page!AnyLabel
                 /\ value.label # NoLabel
                 /\ value.user \in Page!Users
           /\ \A value \in Page!OpenedEntries, name \in Page!Users :
                 /\ [value EXCEPT !.user = name] \in Page!OpenedEntries
                 /\ [value EXCEPT !.user = name].label = value.label
BY DEF PageBounds, Page!OpenedEntries, Page!NoEntry, Page!FromLabel, Page!Users

LEMMA NameTypes ==
    ASSUME NEW value, value.label \in AnyName, value.user \in Page!Users
    PROVE  Page!NameOf(value) \in AnyName
BY DEF Page!NameOf, AnyName, Page!AnyLabel, Page!Users

\* The text on the page is the editor's, changed or not.
LEMMA CurrentIsTheText ==
    ASSUME PageInv
    PROVE  /\ Page!Structured \in Page!Texts /\ Page!Structured.of = editor.of
           /\ Page!Current \in Page!Texts /\ Page!Current.of = editor.of
<1>1. editor \in Page!Texts /\ raw \in Page!Texts /\ raw.of = editor.of
  BY PageInvTypes DEF PageInv
<1>2. Page!Structured \in Page!Texts /\ Page!Structured.of = editor.of
  <2>1. PICK name \in Page!Users : name = IF row = NoLabel THEN "blank" ELSE "field"
    BY DEF Page!Users
  <2>2. Page!Structured = IF editor.user =
            "none" THEN editor ELSE [editor EXCEPT !.user = name]
    BY <2>1 DEF Page!Structured
  <2> QED
    BY <1>1, <2>2, TextTypes
<1> QED
  BY <1>1, <1>2 DEF Page!Current

LEMMA ShortSequences ==
    ASSUME NEW S, NEW s \in Seq(S)
    PROVE  /\ Len(s) = 1 => s = <<s[1]>>
           /\ Len(s) = 2 => s = <<s[1], s[2]>>
           /\ Len(s) = 3 => s = <<s[1], s[2], s[3]>>
<1>1. ASSUME Len(s) = 1 PROVE s = <<s[1]>>
  <2>1. <<s[1]>> \in Seq(S) /\ Len(<<s[1]>>) = 1 /\ <<s[1]>>[1] = s[1]
    BY <1>1
  <2>2. \A i \in 1..1 : i = 1
    OBVIOUS
  <2> QED
    BY ONLY s \in Seq(S), <1>1, <2>1, <2>2, SeqEqual
<1>2. ASSUME Len(s) = 2 PROVE s = <<s[1], s[2]>>
  <2>1. /\ <<s[1], s[2]>> \in Seq(S) /\ Len(<<s[1], s[2]>>) = 2
        /\ <<s[1], s[2]>>[1] = s[1] /\ <<s[1], s[2]>>[2] = s[2]
    <3>1. s[1] \in S /\ s[2] \in S
      BY <1>2, ElementOfSeq
    <3> QED
      BY <3>1
  <2>2. \A i \in 1..2 : i = 1 \/ i = 2
    OBVIOUS
  <2> QED
    BY ONLY s \in Seq(S), <1>2, <2>1, <2>2, SeqEqual
<1>3. ASSUME Len(s) = 3 PROVE s = <<s[1], s[2], s[3]>>
  <2>1. /\ <<s[1], s[2], s[3]>> \in Seq(S) /\ Len(<<s[1], s[2], s[3]>>) = 3
        /\ <<s[1], s[2], s[3]>>[1] = s[1] /\ <<s[1], s[2], s[3]>>[2] = s[2]
        /\ <<s[1], s[2], s[3]>>[3] = s[3]
    BY <1>3
  <2>2. \A i \in 1..3 : i = 1 \/ i = 2 \/ i = 3
    OBVIOUS
  <2> QED
    BY ONLY s \in Seq(S), <1>3, <2>1, <2>2, SeqEqual
<1> QED
  BY <1>1, <1>2, <1>3

\* A stack has up to three pages, each of them once.
LEMMA StacksAre ==
    /\ <<>> \in Page!Stacks
    /\ \A a \in Page!Pages : <<a>> \in Page!Stacks
    /\ \A a, b \in Page!Pages : a # b => <<a, b>> \in Page!Stacks
    /\ \A a, b, c \in Page!Pages : (a # b /\ a # c /\ b # c) => <<a, b, c>> \in Page!Stacks
<1>1. <<>> \in Page!Stacks /\ \A a \in Page!Pages : <<a>> \in Page!Stacks
  BY DEF Page!Stacks
<1>2. ASSUME NEW a \in Page!Pages, NEW b \in Page!Pages, a # b
      PROVE  <<a, b>> \in Page!Stacks
  <2>1. <<a, b>> \in Page!Pages \X Page!Pages /\ <<a, b>>[1] = a /\ <<a, b>>[2] = b
    OBVIOUS
  <2>2. <<a, b>> \in {p \in Page!Pages \X Page!Pages : p[1] # p[2]}
    BY <1>2, <2>1
  <2> QED
    BY <2>2 DEF Page!Stacks
<1>3. ASSUME NEW a \in Page!Pages, NEW b \in Page!Pages, NEW c \in
                 Page!Pages, a # b, a # c, b # c
      PROVE  <<a, b, c>> \in Page!Stacks
  <2>1. /\ <<a, b, c>> \in Page!Pages \X Page!Pages \X Page!Pages
        /\ <<a, b, c>>[1] = a /\ <<a, b, c>>[2] = b /\ <<a, b, c>>[3] = c
    OBVIOUS
  <2>2. Page!Pages = {a, b, c}
    BY <1>3 DEF Page!Pages
  <2>3. <<a, b, c>> \in
            {p \in Page!Pages \X Page!Pages \X Page!Pages : Page!Pages = {p[1], p[2], p[3]}}
    BY <2>1, <2>2
  <2> QED
    BY <2>3 DEF Page!Stacks
<1> QED
  BY <1>1, <1>2, <1>3

LEMMA StackCases ==
    ASSUME NEW s \in Page!Stacks
    PROVE  \/ s = <<>>
           \/ \E a \in Page!Pages : s = <<a>>
           \/ \E a, b \in Page!Pages : a # b /\ s = <<a, b>>
           \/ \E a, b, c \in Page!Pages :
                 a # b /\ a # c /\ b # c /\ s = <<a, b, c>> /\ Page!Pages = {a, b, c}
<1>1. CASE s = <<>> \/ s \in {<<p>> : p \in Page!Pages}
  BY <1>1
<1>2. CASE s \in {p \in Page!Pages \X Page!Pages : p[1] # p[2]}
  <2>1. s[1] \in Page!Pages /\ s[2] \in Page!Pages /\ s[1] # s[2] /\ s = <<s[1], s[2]>>
    BY <1>2
  <2> QED
    BY <2>1
<1>3. CASE s \in {p \in Page!Pages \X Page!Pages \X Page!Pages :
                  Page!Pages = {p[1], p[2], p[3]}}
  <2>1. /\ s[1] \in Page!Pages /\ s[2] \in Page!Pages /\ s[3] \in Page!Pages
        /\ s = <<s[1], s[2], s[3]>> /\ Page!Pages = {s[1], s[2], s[3]}
    BY <1>3
  <2>2. s[1] # s[2] /\ s[1] # s[3] /\ s[2] # s[3]
    BY <2>1 DEF Page!Pages
  <2> QED
    BY <2>1, <2>2
<1> QED
  BY <1>1, <1>2, <1>3 DEF Page!Stacks

LEMMA PushedTypes ==
    ASSUME stack \in Page!Stacks, NEW shown \in Page!Pages
    PROVE  Page!Pushed(shown) \in Page!Stacks
<1>1. CASE \E i \in 1..Len(stack) : stack[i] = shown
  BY <1>1 DEF Page!Pushed
<1>2. CASE ~ \E i \in 1..Len(stack) : stack[i] = shown
  <2>0. PICK s : s = stack
    OBVIOUS
  <2>1. /\ Page!Pushed(shown) = Append(s, shown)
        /\ \A i \in 1..Len(s) : s[i] # shown
    BY <1>2, <2>0 DEF Page!Pushed
  <2>2. CASE s = <<>>
    <3>1. Append(s, shown) = <<shown>>
      BY <2>2
    <3> QED
      BY <2>1, <3>1, StacksAre
  <2>3. ASSUME NEW a \in Page!Pages, s = <<a>> PROVE Append(s, shown) \in Page!Stacks
    <3>1. /\ Append(<<a>>, shown) = <<a, shown>>
          /\ Len(<<a>>) = 1 /\ <<a>>[1] = a
      <4>1. <<a>> \in Seq(Page!Pages) /\ Len(<<a>>) = 1 /\ <<a>>[1] = a
        OBVIOUS
      <4>2. /\ Append(<<a>>, shown) \in Seq(Page!Pages) /\ Len(Append(<<a>>, shown)) = 2
            /\ Append(<<a>>, shown)[1] = a /\ Append(<<a>>, shown)[2] = shown
        BY <4>1
      <4> QED
        BY <4>1, <4>2, ShortSequences
    <3>2. a # shown
      BY <2>1, <2>3, <3>1
    <3> QED
      BY <2>3, <3>1, <3>2, StacksAre
  <2>4. ASSUME NEW a \in Page!Pages, NEW b \in Page!Pages, a # b, s = <<a, b>>
        PROVE  Append(s, shown) \in Page!Stacks
    <3>1. /\ Append(<<a, b>>, shown) = <<a, b, shown>>
          /\ Len(<<a, b>>) = 2 /\ <<a, b>>[1] = a /\ <<a, b>>[2] = b
      <4>1. /\ <<a, b>> \in Seq(Page!Pages) /\ Len(<<a, b>>) = 2
            /\ <<a, b>>[1] = a /\ <<a, b>>[2] = b
        OBVIOUS
      <4>2. /\ Append(<<a, b>>, shown) \in Seq(Page!Pages)
            /\ Len(Append(<<a, b>>, shown)) = 3
            /\ Append(<<a, b>>, shown)[1] = a /\ Append(<<a, b>>, shown)[2] = b
            /\ Append(<<a, b>>, shown)[3] = shown
        BY <4>1
      <4> QED
        BY <4>1, <4>2, ShortSequences
    <3>2. a # shown /\ b # shown
      BY <2>1, <2>4, <3>1
    <3> QED
      BY <2>4, <3>1, <3>2, StacksAre
  <2>5. ASSUME NEW a \in Page!Pages, NEW b \in Page!Pages, NEW c \in Page!Pages, s =
                   <<a, b, c>>,
               Page!Pages = {a, b, c}
        PROVE  FALSE
    <3>1. Len(s) = 3 /\ s[1] = a /\ s[2] = b /\ s[3] = c
      BY <2>5
    <3> QED
      BY <2>1, <2>5, <3>1
  <2> QED
    BY <2>0, <2>1, <2>2, <2>3, <2>4, <2>5, StackCases
<1> QED
  BY <1>1, <1>2

LEMMA RestTypes == ASSUME stack \in Page!Stacks PROVE Page!Rest \in Page!Stacks
<1>0. PICK s \in Page!Stacks : s = stack
  OBVIOUS
<1>1. Page!Rest = IF s = <<>> THEN <<>> ELSE SubSeq(s, 1, Len(s) - 1)
  BY <1>0 DEF Page!Rest
<1>2. CASE s = <<>>
  BY <1>1, <1>2, StacksAre
<1>3. ASSUME NEW a \in Page!Pages, s = <<a>> PROVE Page!Rest \in Page!Stacks
  <2>1. s # <<>> /\ SubSeq(s, 1, Len(s) - 1) = <<>>
    BY <1>3
  <2> QED
    BY <1>1, <2>1, StacksAre
<1>4. ASSUME NEW a \in Page!Pages, NEW b \in Page!Pages, a # b, s = <<a, b>>
      PROVE  Page!Rest \in Page!Stacks
  <2>1. Len(<<a, b>>) = 2 /\ <<a, b>> # <<>> /\ SubSeq(<<a, b>>, 1, 1) = <<a>>
    <3>1. <<a, b>> \in Seq(Page!Pages) /\ Len(<<a, b>>) = 2 /\ <<a, b>>[1] = a
      OBVIOUS
    <3>2. /\ SubSeq(<<a, b>>, 1, 1) \in Seq(Page!Pages) /\ Len(SubSeq(<<a, b>>, 1, 1)) = 1
          /\ SubSeq(<<a, b>>, 1, 1)[1] = a
      BY <3>1
    <3> QED
      BY <3>1, <3>2, ShortSequences
  <2>2. SubSeq(s, 1, Len(s) - 1) = <<a>> /\ s # <<>>
    BY <1>4, <2>1
  <2> QED
    BY <1>1, <2>2, StacksAre
<1>5. ASSUME NEW a \in Page!Pages, NEW b \in Page!Pages, NEW c \in Page!Pages, a # b, s =
                 <<a, b, c>>
      PROVE  Page!Rest \in Page!Stacks
  <2>1. Len(<<a, b, c>>) = 3 /\ <<a, b, c>> # <<>> /\ SubSeq(<<a, b, c>>, 1, 2) = <<a, b>>
    <3>1. /\ <<a, b, c>> \in Seq(Page!Pages) /\ Len(<<a, b, c>>) = 3
          /\ <<a, b, c>>[1] = a /\ <<a, b, c>>[2] = b
      OBVIOUS
    <3>2. /\ SubSeq(<<a, b, c>>, 1, 2) \in Seq(Page!Pages)
          /\ Len(SubSeq(<<a, b, c>>, 1, 2)) = 2
          /\ SubSeq(<<a, b, c>>, 1, 2)[1] = a /\ SubSeq(<<a, b, c>>, 1, 2)[2] = b
      BY <3>1
    <3> QED
      BY <3>1, <3>2, ShortSequences
  <2>2. SubSeq(s, 1, Len(s) - 1) = <<a, b>> /\ s # <<>>
    BY <1>5, <2>1
  <2> QED
    BY <1>1, <1>5, <2>2, StacksAre
<1> QED
  BY <1>2, <1>3, <1>4, <1>5, StackCases

-----------------------------------------------------------------------------
(* What the steps have in common *)

\* An entry that is opened is read by a new worker; its page shows no text yet.
LEMMA AfterOpening ==
    ASSUME PageBounds, PageInv, NEW id \in 1..MaxSteps, NEW value \in Page!OpenedEntries,
           NEW pages, NEW others, others \subseteq reads,
           Page!Open(id, value, pages, others), Around
    PROVE  PageInv'
<1> DEFINE new == [id |-> id, value |-> value, text |-> Page!Blank, at |-> "reading"]
<1>1. /\ opened' = value /\ display' = "loading" /\ row' = NoLabel
      /\ reads' = others \cup {new}
      /\ editor' = editor /\ raw' = raw /\ saved' = saved /\ savedExists' = savedExists
  BY DEF Page!Open, Page!shownVars
<1>2. new \in Page!Reads
  BY TextTypes DEF Page!Reads
<1>3. reads' \subseteq Page!Reads
  BY <1>1, <1>2, PageInvTypes
<1>4. Formed'
  BY <1>1, <1>3, PageInvTypes DEF Around, Formed, Page!TypeOK, AnyName
<1>5. ReadInPlace'
  <2>1. ASSUME NEW t \in reads', t.at = "read", t.value.label \notin crossed'
        PROVE  t.text.of = t.value.label
    <3>1. t \in others
      BY <1>1, <2>1
    <3> QED
      BY <2>1, <3>1 DEF PageInv, ReadInPlace, Around
  <2> QED
    BY <2>1 DEF ReadInPlace
<1>6. Carried'
  <2>1. new \in reads' /\ new.value = opened'
    BY <1>1
  <2> QED
    BY <2>1 DEF Carried
<1> QED
  BY <1>1, <1>4, <1>5, <1>6 DEF PageInv, ShownInPlace, Around

\* Nothing is left of the entry in the list.
LEMMA AfterShowList ==
    ASSUME PageBounds, PageInv, Page!ShowList, Around, reads' \subseteq reads
    PROVE  PageInv'
<1>1. /\ opened' = Page!NoEntry /\ editor' = Page!Blank /\ raw' = Page!Blank
      /\ saved' = Page!Blank
      /\ row' = NoLabel /\ savedExists' = FALSE /\ display' = display
  BY DEF Page!ShowList
<1>2. Formed'
  BY <1>1, PageInvTypes, TextTypes DEF Around, Formed, Page!TypeOK, AnyName
<1>3. ReadInPlace'
  BY DEF PageInv, ReadInPlace, Around
<1> QED
  BY <1>1, <1>2, <1>3 DEF PageInv, ShownInPlace, Carried, Around

\* The page shows a text, which is the opened entry's unless that is noted.
LEMMA AfterSync ==
    ASSUME PageBounds, PageInv, Around, reads' \subseteq reads,
           NEW new \in Page!Texts, NEW value, value.label \in AnyName, value.user \in
               Page!Users,
           Page!SyncEditor(new, value),
           opened' \in Page!OpenedEntries \cup {Page!NoEntry}, saved' \in
               Page!Texts, savedExists' \in BOOLEAN,
           (opened' # Page!NoEntry /\ opened'.label \notin crossed') =>
               (new.of = opened'.label /\ saved'.of = opened'.label)
    PROVE  PageInv'
<1>1. /\ editor' = new /\ raw' = new /\ display' = "editor"
      /\ row' = IF new.user = "none" THEN Page!NameOf(value)
                ELSE Page!NameOf([label |-> NoLabel, user |-> new.user])
  BY DEF Page!SyncEditor
<1>2. row' \in AnyName
  <2>1. Page!NameOf(value) \in AnyName
    BY NameTypes
  <2>2. new.user \in Page!Users
    BY TextTypes
  <2>3. PICK other : other = [label |-> NoLabel, user |-> new.user]
    OBVIOUS
  <2>4. other.label \in AnyName /\ other.user \in Page!Users
    BY <2>2, <2>3 DEF AnyName
  <2>5. Page!NameOf(other) \in AnyName
    BY <2>4, NameTypes
  <2> QED
    BY <1>1, <2>1, <2>3, <2>5
<1>3. Formed'
  BY <1>1, <1>2, PageInvTypes DEF Around, Formed, Page!TypeOK, AnyName
<1>4. ReadInPlace'
  BY DEF PageInv, ReadInPlace, Around
<1>5. ShownInPlace'
  BY <1>1 DEF ShownInPlace
<1>6. Carried'
  BY <1>1 DEF Carried
<1> QED
  BY <1>1, <1>3, <1>4, <1>5, <1>6 DEF PageInv, Around

\* What is shown stays that entry's, and so does whoever carries its opening.
LEMMA AfterStaying ==
    ASSUME PageBounds, PageInv, Around, opened' = opened, saved' = saved,
           savedExists' \in BOOLEAN, row' \in AnyName,
           editor' \in Page!Texts, editor'.of = editor.of, raw' \in Page!Texts, raw'.of =
               editor.of,
           display' \in {"loading", display}, reads' \subseteq
               Page!Reads, ReadInPlace', Carried'
    PROVE  PageInv'
<1>1. display' \in {"loading", "editor"}
  BY PageInvTypes
<1>2. Formed'
  BY <1>1, PageInvTypes DEF Around, Formed, Page!TypeOK, AnyName
<1>3. ShownInPlace'
  BY DEF PageInv, ShownInPlace, Around
<1> QED
  BY <1>2, <1>3 DEF PageInv, Around

\* A step that does nothing about the stored texts.
LEMMA KeptStays ==
    ASSUME PageInv, kept' = kept, crossed \subseteq crossed' PROVE KeptInPlace'
BY DEF PageInv, KeptInPlace

\* A step that changes none of the dialogs and undos.
LEMMA AroundStays ==
    ASSUME PageInv, steps' \in 0..MaxSteps, stack' \in Page!Stacks, kept' = kept,
           backend' \in {"integrated", "host"}, prompts' \subseteq prompts, undoing' =
               undoing,
           crossed \subseteq crossed', crossed' \subseteq Page!AnyLabel
    PROVE  Around
<1>1. KeptInPlace'
  BY KeptStays
<1> QED
  BY <1>1, PageInvTypes DEF Around, PageInv, Formed

LEMMA CrossingNotes ==
    ASSUME PageBounds, PageInv, NEW e, Page!Crossing(e)
    PROVE  /\ crossed \subseteq crossed' /\ crossed' \subseteq Page!AnyLabel
           /\ Page!Pending(e) => e \in crossed'
<1>1. ASSUME Page!Pending(e) PROVE e \in Page!AnyLabel
  <2>1. PICK t \in reads \cup prompts : t.value.label = e /\ e # NoLabel
    BY <1>1 DEF Page!Pending
  <2>2. t.value \in Page!OpenedEntries \cup {Page!NoEntry}
    BY <2>1, PageInvTypes DEF Page!Reads, Page!Prompts
  <2> QED
    BY <2>1, <2>2, EntryTypes
<1> QED
  BY <1>1, PageInvTypes DEF Page!Crossing

LEMMA LoadingIsPending ==
    ASSUME PageBounds, PageInv, display = "loading", opened # Page!NoEntry
    PROVE  Page!Pending(opened.label)
<1>1. opened \in Page!OpenedEntries
  BY PageInvTypes
<1>2. opened.label # NoLabel
  BY <1>1, EntryTypes
<1>3. PICK t \in reads \cup prompts : t.value = opened
  BY DEF PageInv, Carried
<1> QED
  BY <1>2, <1>3 DEF Page!Pending

\* What is shown is the opened entry's, whatever the page is about to say.
LEMMA ShownUnlessPending ==
    ASSUME PageBounds, PageInv, opened # Page!NoEntry, opened.label \notin crossed,
           display = "editor" \/ ~Page!Pending(opened.label)
    PROVE  /\ editor.of = opened.label /\ saved.of = opened.label
           /\ Page!Current.of = opened.label
<1>1. display = "editor"
  BY LoadingIsPending, PageInvTypes
<1> QED
  BY <1>1, CurrentIsTheText DEF PageInv, ShownInPlace

-----------------------------------------------------------------------------
(* Opening an entry, and reading it *)

LEMMA OpenEntryStep ==
    ASSUME PageBounds, PageInv, steps' \in 1..MaxSteps, NEW e \in
           PageLabels, Page!OpenEntry(e)
    PROVE  PageInv'
<1>1. /\ Page!Open(steps', Page!FromLabel(e), Page!Pushed("entry"), reads)
      /\ Page!Crossing(e)
      /\ kept' = kept /\ backend' = backend /\ prompts' = prompts /\ undoing' = undoing
  BY DEF Page!OpenEntry
<1>2. PICK id \in 1..MaxSteps : id = steps'
  OBVIOUS
<1>3. stack' = Page!Pushed("entry")
  BY <1>1 DEF Page!Open
<1>4. stack' \in Page!Stacks
  BY <1>3, PageInvTypes, PushedTypes DEF Page!Pages
<1>5. Around
  BY <1>1, <1>4, CrossingNotes, AroundStays, PageInvTypes
<1>6. Page!FromLabel(e) \in Page!OpenedEntries
  BY EntryTypes DEF Page!AnyLabel
<1>7. PICK value \in Page!OpenedEntries : value = Page!FromLabel(e)
  BY <1>6
<1>8. Page!Open(id, value, Page!Pushed("entry"), reads)
  BY <1>1, <1>2, <1>7
<1> QED
  BY <1>5, <1>8, AfterOpening

LEMMA GoHomeStep ==
    ASSUME PageBounds, PageInv, steps' \in 0..MaxSteps, Page!GoHome PROVE PageInv'
<1>1. /\ Page!ShowList /\ kept' = kept /\ backend' = backend /\ reads' = reads
      /\ prompts' = prompts /\ undoing' = undoing /\ crossed' = crossed
  BY DEF Page!GoHome
<1>2. stack' \in Page!Stacks
  BY <1>1, StacksAre DEF Page!ShowList
<1>3. Around
  BY <1>1, <1>2, AroundStays, PageInvTypes
<1> QED
  BY <1>1, <1>3, AfterShowList

\* An entry is read as it is kept.
LEMMA ReadEntryStep ==
    ASSUME PageBounds, PageInv, steps' = steps, NEW t \in reads, Page!ReadEntry(t)
    PROVE  PageInv'
<1>1. /\ kept' = kept /\ stack' = stack /\ opened' = opened /\ display' = display
      /\ editor' = editor /\ raw' = raw /\ saved' = saved /\ savedExists' = savedExists
      /\ row' = row /\ backend' = backend /\ prompts' = prompts /\ undoing' = undoing
      /\ crossed' = crossed
  BY DEF Page!ReadEntry, Page!shownVars
<1>2. t \in Page!Reads /\ t.value \in Page!OpenedEntries /\ t.value.label \in Page!AnyLabel
  BY PageInvTypes, EntryTypes DEF Page!Reads
<1>3. PICK next : /\ reads' = (reads \ {t}) \cup {next}
                  /\ next \in Page!Reads /\ next.value = t.value
                  /\ (next.at = "read" /\ next.value.label \notin crossed) =>
                        next.text.of = next.value.label
  <2>1. CASE /\ kept[t.value.label] # Page!Blank
             /\ reads' = (reads \ {t}) \cup
                   {[t EXCEPT !.at = "read", !.text = kept[t.value.label]]}
    <3> DEFINE next == [t EXCEPT !.at = "read", !.text = kept[t.value.label]]
    <3>1. kept[t.value.label] \in Page!Texts
      BY <1>2, PageInvTypes
    <3>2. /\ next \in Page!Reads /\ next.value = t.value /\ next.text = kept[t.value.label]
      BY <1>2, <3>1 DEF Page!Reads
    <3>3. t.value.label \notin crossed => kept[t.value.label].of = t.value.label
      BY <1>2, <2>1 DEF PageInv, KeptInPlace
    <3> QED
      BY <2>1, <3>2, <3>3
  <2>2. CASE reads' = (reads \ {t}) \cup {[t EXCEPT !.at = "failed"]}
    <3> DEFINE next == [t EXCEPT !.at = "failed"]
    <3>1. next \in Page!Reads /\ next.value = t.value /\ next.at = "failed"
      BY <1>2 DEF Page!Reads
    <3> QED
      BY <2>2, <3>1
  <2> QED
    BY <2>1, <2>2 DEF Page!ReadEntry
<1>4. reads' \subseteq Page!Reads
  BY <1>3, PageInvTypes
<1>5. ReadInPlace'
  <2>1. ASSUME NEW u \in reads', u.at = "read", u.value.label \notin crossed'
        PROVE  u.text.of = u.value.label
    BY <1>1, <1>3, <2>1 DEF PageInv, ReadInPlace
  <2> QED
    BY <2>1 DEF ReadInPlace
<1>6. Carried'
  <2>1. \A u \in reads : \E v \in reads' : v.value = u.value
    BY <1>3
  <2> QED
    BY <1>1, <2>1 DEF PageInv, Carried
<1>7. Around
  BY <1>1, AroundStays, PageInvTypes
<1> QED
  BY <1>1, <1>4, <1>5, <1>6, <1>7, AfterStaying, PageInvTypes DEF PageInv

LEMMA ShowProgressStep ==
    ASSUME PageBounds, PageInv, steps' = steps, NEW t \in reads, Page!ShowProgress(t)
    PROVE  PageInv'
<1>1. /\ kept' = kept /\ stack' = stack /\ opened' = opened /\ display' = "loading"
      /\ editor' = editor /\ raw' = raw /\ saved' = saved /\ savedExists' = savedExists
      /\ row' = row /\ backend' = backend /\ prompts' = prompts /\ undoing' = undoing
      /\ crossed' = crossed /\ reads' = reads /\ opened = t.value
  BY DEF Page!ShowProgress, Page!shownVars
<1>2. Carried'
  BY <1>1 DEF Carried
<1>3. ReadInPlace'
  BY <1>1 DEF PageInv, ReadInPlace
<1>4. Around
  BY <1>1, AroundStays, PageInvTypes
<1> QED
  BY <1>1, <1>2, <1>3, <1>4, AfterStaying, PageInvTypes DEF PageInv

LEMMA ShowReadStep ==
    ASSUME PageBounds, PageInv, steps' = steps, NEW t \in reads, t.at =
           "read", Page!IsOpened(t),
           Page!ShowRead(t), kept' = kept, undoing' = undoing
    PROVE  PageInv'
<1>1. /\ t.value \in Page!OpenedEntries /\ t.text \in Page!Texts
      /\ t.text.user \in Page!Users
  BY PageInvTypes, TextTypes DEF Page!Reads
<1>2. PICK value \in Page!OpenedEntries : value = [t.value EXCEPT !.user = t.text.user]
  BY <1>1, EntryTypes
<1>3. value.label = t.value.label /\ value.label \in AnyName /\ value.user \in Page!Users
  BY <1>1, <1>2, EntryTypes DEF AnyName
<1>4. /\ opened' = value /\ saved' = t.text /\ savedExists' = TRUE
      /\ Page!SyncEditor(t.text, value) /\ reads' = reads \ {t}
      /\ stack' = stack /\ backend' = backend /\ prompts' = prompts /\ crossed' = crossed
  BY <1>2 DEF Page!ShowRead, Page!Refreshed, Page!IsOpened
<1>5. value.label \notin crossed => t.text.of = value.label
  BY <1>3 DEF PageInv, ReadInPlace
<1>6. Around
  BY <1>4, AroundStays, PageInvTypes
<1>7. reads' \subseteq reads
  BY <1>4
<1>8. PICK new \in Page!Texts : new = t.text
  BY <1>1
<1>9. /\ Page!SyncEditor(new, value) /\ saved' = new
      /\ value.label \notin crossed => new.of = value.label
  BY <1>4, <1>5, <1>8
<1> QED
  BY <1>3, <1>4, <1>6, <1>7, <1>9, AfterSync

LEMMA RecoverReadStep ==
    ASSUME PageBounds, PageInv, steps' = steps, NEW t \in reads, Page!IsOpened(t),
           Page!RecoverRead(t), kept' = kept, undoing' = undoing
    PROVE  PageInv'
<1>1. /\ t.value \in Page!OpenedEntries /\ t.id \in 1..MaxSteps /\ opened = t.value
  BY PageInvTypes DEF Page!Reads, Page!IsOpened
<1>2. ASSUME display' = "loading", reads' = reads \ {t},
             prompts' = prompts \cup {[id |-> t.id, for |-> "open", value |-> t.value]},
             UNCHANGED <<stack, opened, Page!shownVars, row, backend, crossed>>
      PROVE  PageInv'
  <2> DEFINE asked == [id |-> t.id, for |-> "open", value |-> t.value]
  <2>1. asked \in Page!Prompts /\ asked.for = "open" /\ asked.value = opened
    BY <1>1 DEF Page!Prompts
  <2>2. /\ prompts' = prompts \cup {asked}
        /\ stack' = stack /\ opened' = opened /\ row' = row /\ backend' = backend
        /\ crossed' = crossed /\ editor' = editor /\ raw' = raw /\ saved' = saved
        /\ savedExists' = savedExists
    BY <1>2 DEF Page!shownVars
  <2>3. KeptInPlace'
    BY <2>2, KeptStays
  <2>4. /\ prompts' \subseteq Page!Prompts
        /\ \A p \in prompts' : p.for = "open" => p.value \in Page!OpenedEntries
    BY <1>1, <2>1, <2>2, PageInvTypes DEF PageInv, Formed
  <2>5. Around
    BY <2>2, <2>3, <2>4, PageInvTypes DEF Around, PageInv, Formed
  <2>6. reads' \subseteq Page!Reads /\ ReadInPlace'
    BY <1>2, <2>2, PageInvTypes DEF PageInv, ReadInPlace
  <2>7. Carried'
    BY <2>1, <2>2 DEF Carried
  <2> QED
    BY <1>2, <2>2, <2>5, <2>6, <2>7, AfterStaying, PageInvTypes DEF PageInv
<1>3. ASSUME backend' = "integrated", Page!Open(t.id, t.value, stack, reads \ {t}),
             UNCHANGED <<prompts, crossed>>
      PROVE  PageInv'
  <2>1. stack' = stack
    BY <1>3 DEF Page!Open
  <2>2. Around
    BY <1>3, <2>1, AroundStays, PageInvTypes
  <2>3. PICK id \in 1..MaxSteps, value \in Page!OpenedEntries : id = t.id /\ value = t.value
    BY <1>1
  <2>4. PICK others : others = reads \ {t}
    OBVIOUS
  <2>5. Page!Open(id, value, stack, others) /\ others \subseteq reads
    BY <1>3, <2>3, <2>4
  <2>6. PICK pages : pages = stack
    OBVIOUS
  <2>7. Page!Open(id, value, pages, others)
    BY <2>5, <2>6
  <2> QED
    BY <2>2, <2>5, <2>7, AfterOpening
<1> QED
  BY <1>2, <1>3 DEF Page!RecoverRead

LEMMA HandleReadStep ==
    ASSUME PageBounds, PageInv, steps' = steps, NEW t \in reads, Page!HandleRead(t)
    PROVE  PageInv'
<1>1. kept' = kept /\ undoing' = undoing
  BY DEF Page!HandleRead
<1>2. ASSUME Page!IsOpened(t), t.at = "read", Page!ShowRead(t) PROVE PageInv'
  BY <1>1, <1>2, ShowReadStep
<1>3. ASSUME Page!IsOpened(t), Page!RecoverRead(t) PROVE PageInv'
  BY <1>1, <1>3, RecoverReadStep
<1>4. ASSUME Page!ShowReadFailure(t) PROVE PageInv'
  <2>1. /\ Page!ShowList /\ reads' = reads \ {t}
        /\ backend' = backend /\ prompts' = prompts /\ crossed' = crossed
    BY <1>4 DEF Page!ShowReadFailure
  <2>2. stack' \in Page!Stacks
    BY <2>1, StacksAre DEF Page!ShowList
  <2>3. Around
    BY <1>1, <2>1, <2>2, AroundStays, PageInvTypes
  <2> QED
    BY <2>1, <2>3, AfterShowList
<1>5. ASSUME ~Page!IsOpened(t), reads' = reads \ {t},
             UNCHANGED <<stack, opened, display, Page!shownVars, row, backend, prompts,
                         crossed>>
      PROVE  PageInv'
  <2>1. /\ stack' = stack /\ opened' = opened /\ display' = display /\ row' = row
        /\ backend' = backend /\ prompts' = prompts /\ crossed' = crossed
        /\ editor' = editor /\ raw' = raw /\ saved' = saved /\ savedExists' = savedExists
    BY <1>5 DEF Page!shownVars
  <2>2. Around
    BY <1>1, <2>1, AroundStays, PageInvTypes
  <2>3. reads' \subseteq Page!Reads /\ ReadInPlace'
    BY <1>5, <2>1, PageInvTypes DEF PageInv, ReadInPlace
  <2>4. t.value # opened
    BY <1>5 DEF Page!IsOpened
  <2>5. Carried'
    BY <1>5, <2>1, <2>4 DEF PageInv, Carried
  <2> QED
    BY <2>1, <2>2, <2>3, <2>5, AfterStaying, PageInvTypes DEF PageInv
<1> QED
  BY <1>2, <1>3, <1>4, <1>5 DEF Page!HandleRead

\* Answering removes a prompt; opening its entry takes its place.
LEMMA AnswerOpenStep ==
    ASSUME PageBounds, PageInv, steps' = steps, NEW p \in prompts, Page!AnswerOpenPrompt(p)
    PROVE  PageInv'
<1>1. /\ p.for = "open" /\ prompts' = prompts \ {p}
      /\ kept' = kept /\ backend' = backend /\ undoing' = undoing
  BY DEF Page!AnswerOpenPrompt
<1>2. p.value \in Page!OpenedEntries /\ p.id \in 1..MaxSteps
  BY <1>1, PageInvTypes DEF PageInv, Formed, Page!Prompts
<1>3. ASSUME Page!Open(p.id, p.value, stack, reads),
             crossed' \in {crossed, crossed \cup {p.value.label}}
      PROVE  PageInv'
  <2>1. stack' = stack
    BY <1>3 DEF Page!Open
  <2>2. crossed \subseteq crossed' /\ crossed' \subseteq Page!AnyLabel
    BY <1>2, <1>3, PageInvTypes, EntryTypes
  <2>3. Around
    BY <1>1, <2>1, <2>2, AroundStays, PageInvTypes
  <2>4. PICK id \in 1..MaxSteps, value \in Page!OpenedEntries : id = p.id /\ value = p.value
    BY <1>2
  <2>5. PICK pages, others : pages = stack /\ others = reads
    OBVIOUS
  <2>6. Page!Open(id, value, pages, others) /\ others \subseteq reads
    BY <1>3, <2>4, <2>5
  <2> QED
    BY <2>3, <2>6, AfterOpening
<1>4. ASSUME Page!CancelOpening, UNCHANGED <<reads, crossed>> PROVE PageInv'
  <2>1. Page!ShowList /\ reads' = reads /\ crossed' = crossed
    BY <1>4 DEF Page!CancelOpening
  <2>2. stack' \in Page!Stacks
    BY <2>1, StacksAre DEF Page!ShowList
  <2>3. Around
    BY <1>1, <2>1, <2>2, AroundStays, PageInvTypes
  <2> QED
    BY <2>1, <2>3, AfterShowList
<1> QED
  BY <1>3, <1>4 DEF Page!AnswerOpenPrompt

-----------------------------------------------------------------------------
(* Pages, fields and new entries *)

\* Moving to a page above, or back to one, changes a row of it at most.
LEMMA PageMoves ==
    ASSUME PageBounds, PageInv, steps' \in 0..MaxSteps, stack' \in Page!Stacks, row' \in
           AnyName,
           raw' \in {raw, Page!Structured},
           UNCHANGED <<kept, opened, display, editor, saved, savedExists, backend, reads,
                       prompts, undoing, crossed>>
    PROVE  PageInv'
<1>1. /\ kept' = kept /\ opened' = opened /\ display' = display /\ editor' = editor
      /\ saved' = saved /\ savedExists' = savedExists /\ backend' = backend
      /\ reads' = reads /\ prompts' = prompts /\ undoing' = undoing /\ crossed' = crossed
  OBVIOUS
<1>2. Around
  BY <1>1, AroundStays, PageInvTypes
<1>3. raw' \in Page!Texts /\ raw'.of = editor.of
  BY CurrentIsTheText, PageInvTypes DEF PageInv
<1>4. ReadInPlace' /\ Carried'
  BY <1>1 DEF PageInv, ReadInPlace, Carried
<1> QED
  BY <1>1, <1>2, <1>3, <1>4, AfterStaying, PageInvTypes

LEMMA ShowPageStep ==
    ASSUME PageBounds, PageInv, steps' \in 0..MaxSteps, Page!ShowPage \/ Page!ShowRaw
    PROVE  PageInv'
<1>1. Page!Pushed("page") \in Page!Stacks /\ Page!Pushed("raw") \in Page!Stacks
  BY PushedTypes, PageInvTypes DEF Page!Pages
<1>2. CASE Page!ShowPage
  <2>1. /\ stack' \in Page!Stacks /\ row' = row /\ raw' = raw
        /\ UNCHANGED <<kept, opened, display, editor, saved, savedExists, backend, reads,
                       prompts, undoing, crossed>>
    BY <1>1, <1>2 DEF Page!ShowPage, Page!shownVars
  <2> QED
    BY <2>1, PageMoves, PageInvTypes
<1>3. CASE Page!ShowRaw
  <2>1. /\ stack' \in Page!Stacks /\ row' = row /\ raw' = Page!Structured
        /\ UNCHANGED <<kept, opened, display, editor, saved, savedExists, backend, reads,
                       prompts, undoing, crossed>>
    BY <1>1, <1>3 DEF Page!ShowRaw
  <2> QED
    BY <2>1, PageMoves, PageInvTypes
<1> QED
  BY <1>2, <1>3

LEMMA BackStep ==
    ASSUME PageBounds, PageInv, steps' \in 1..MaxSteps, Page!Back PROVE PageInv'
<1>1. Page!Rest \in Page!Stacks
  BY RestTypes, PageInvTypes
<1>2. kept' = kept /\ backend' = backend /\ prompts' = prompts /\ undoing' = undoing
  BY DEF Page!Back
<1>3. ASSUME Page!ShowList, UNCHANGED <<reads, crossed>> PROVE PageInv'
  <2>1. stack' \in Page!Stacks
    BY <1>3, StacksAre DEF Page!ShowList
  <2>2. Around
    BY <1>2, <1>3, <2>1, AroundStays, PageInvTypes
  <2> QED
    BY <1>3, <2>2, AfterShowList
<1>4. ASSUME opened # Page!NoEntry, Page!Open(steps', opened, Page!Rest, reads),
                 Page!Crossing(opened.label)
      PROVE  PageInv'
  <2>1. stack' \in Page!Stacks
    BY <1>1, <1>4 DEF Page!Open
  <2>2. crossed \subseteq crossed' /\ crossed' \subseteq Page!AnyLabel
    BY <1>4, CrossingNotes
  <2>3. Around
    BY <1>2, <2>1, <2>2, AroundStays, PageInvTypes
  <2>4. PICK id \in 1..MaxSteps, value \in Page!OpenedEntries :
         id = steps' /\ value = opened
    BY <1>4, PageInvTypes
  <2>5. PICK pages, others : pages = Page!Rest /\ others = reads
    OBVIOUS
  <2>6. Page!Open(id, value, pages, others) /\ others \subseteq reads
    BY <1>4, <2>4, <2>5
  <2> QED
    BY <2>3, <2>6, AfterOpening
<1>5. ASSUME stack' = Page!Rest,
             row' = IF Page!Rest[Len(Page!Rest)] =
                 "entry" THEN Page!NameOf(opened) ELSE row,
             UNCHANGED <<opened, display, Page!shownVars, reads, crossed>>
      PROVE  PageInv'
  <2>1. Page!NameOf(opened) \in AnyName
    <3>1. opened.label \in AnyName /\ opened.user \in Page!Users
      BY PageInvTypes, EntryTypes DEF AnyName, Page!Users
    <3> QED
      BY <3>1, NameTypes
  <2>2. row' \in AnyName
    BY <1>5, <2>1, PageInvTypes
  <2>3. /\ raw' = raw
        /\ UNCHANGED <<kept, opened, display, editor, saved, savedExists, backend,
                                  reads, prompts, undoing, crossed>>
    BY <1>2, <1>5 DEF Page!shownVars
  <2>4. stack' \in Page!Stacks
    BY <1>1, <1>5
  <2> QED
    BY <2>2, <2>3, <2>4, PageMoves
<1> QED
  BY <1>3, <1>4, <1>5 DEF Page!Back

LEMMA EditStep ==
    ASSUME PageBounds, PageInv, steps' \in 0..MaxSteps, Page!Edit PROVE PageInv'
<1>1. /\ kept' = kept /\ stack' = stack /\ opened' = opened /\ display' = display
      /\ saved' = saved /\ savedExists' = savedExists /\ backend' = backend
      /\ reads' = reads /\ prompts' = prompts /\ undoing' = undoing /\ crossed' = crossed
  BY DEF Page!Edit
<1>2. editor \in Page!Texts /\ raw \in Page!Texts /\ row \in AnyName /\ raw.of = editor.of
  BY PageInvTypes DEF PageInv
<1>3. /\ editor' \in Page!Texts /\ editor'.of = editor.of
      /\ raw' \in Page!Texts /\ raw'.of = editor.of
      /\ row' \in AnyName
  <2>1. CASE editor' = [editor EXCEPT !.changed = TRUE] /\ UNCHANGED <<raw, row>>
    BY <1>2, <2>1, TextTypes
  <2>2. CASE row' \in Page!AnyLabel \cup {NoLabel} /\ UNCHANGED <<editor, raw>>
    BY <1>2, <2>2 DEF AnyName
  <2>3. ASSUME NEW name \in Page!Users, raw' = [raw EXCEPT !.changed = TRUE, !.user = name],
               UNCHANGED <<editor, row>>
        PROVE  /\ editor' \in Page!Texts /\ editor'.of = editor.of
               /\ raw' \in Page!Texts /\ raw'.of = editor.of
               /\ row' \in AnyName
    BY <1>2, <2>3, TextTypes
  <2> QED
    BY <2>1, <2>2, <2>3 DEF Page!Edit
<1>4. Around
  BY <1>1, AroundStays, PageInvTypes
<1>5. ReadInPlace' /\ Carried' /\ reads' \subseteq Page!Reads
  BY <1>1, PageInvTypes DEF PageInv, ReadInPlace, Carried
<1> QED
  BY <1>1, <1>3, <1>4, <1>5, AfterStaying, PageInvTypes

\* The text stays the opened entry's: while that is read or waits for its key, the
\* text is another's, and that is noted.
LEMMA ChangeFieldsStep ==
    ASSUME PageBounds, PageInv, steps' \in 0..MaxSteps, Page!ChangeFields PROVE PageInv'
<1>1. /\ kept' = kept /\ stack' = stack /\ saved' = saved /\ savedExists' = savedExists
      /\ backend' = backend /\ reads' = reads /\ prompts' = prompts /\ undoing' = undoing
      /\ Page!Crossing(opened.label)
  BY DEF Page!ChangeFields
<1>2. PICK name \in Page!Users :
         /\ opened' = IF opened =
                Page!NoEntry THEN Page!NoEntry ELSE [opened EXCEPT !.user = name]
         /\ Page!SyncEditor([Page!Current EXCEPT !.changed = TRUE, !.user = name],
                            IF opened =
                                Page!NoEntry THEN Page!NoEntry ELSE
                                    [opened EXCEPT !.user = name])
  BY DEF Page!ChangeFields, Page!Users
<1>3. PICK new \in Page!Texts :
          /\ new = [Page!Current EXCEPT !.changed = TRUE, !.user = name]
          /\ new.of = Page!Current.of
  <2>1. PICK now \in Page!Texts : now = Page!Current
    BY CurrentIsTheText
  <2>2. /\ [now EXCEPT !.changed = TRUE, !.user = name] \in Page!Texts
        /\ [now EXCEPT !.changed = TRUE, !.user = name].of = now.of
    BY TextTypes
  <2> QED
    BY <2>1, <2>2
<1>4. PICK value \in Page!OpenedEntries \cup {Page!NoEntry} :
         /\ value = IF opened =
                Page!NoEntry THEN Page!NoEntry ELSE [opened EXCEPT !.user = name]
         /\ value # Page!NoEntry => (opened # Page!NoEntry /\ value.label = opened.label)
  BY PageInvTypes, EntryTypes
<1>5. value.label \in AnyName /\ value.user \in Page!Users
  BY EntryTypes DEF AnyName, Page!Users
<1>6. opened' = value /\ Page!SyncEditor(new, value)
  BY <1>2, <1>3, <1>4
<1>7. /\ crossed \subseteq crossed' /\ crossed' \subseteq Page!AnyLabel
      /\ Page!Pending(opened.label) => opened.label \in crossed'
  BY <1>1, CrossingNotes
<1>8. ASSUME value # Page!NoEntry, value.label \notin crossed'
      PROVE  new.of = value.label /\ saved'.of = value.label
  BY <1>1, <1>3, <1>4, <1>7, <1>8, ShownUnlessPending
<1>9. Around
  BY <1>1, <1>7, AroundStays, PageInvTypes
<1> QED
  BY <1>1, <1>5, <1>6, <1>8, <1>9, AfterSync, PageInvTypes

LEMMA RevertStep ==
    ASSUME PageBounds, PageInv, steps' \in 0..MaxSteps, Page!Revert PROVE PageInv'
<1>1. /\ kept' = kept /\ stack' = stack /\ opened' = opened /\ saved' = saved
      /\ savedExists' = savedExists /\ backend' = backend /\ reads' = reads
      /\ prompts' = prompts /\ undoing' = undoing
      /\ Page!Crossing(opened.label) /\ Page!SyncEditor(saved, opened)
  BY DEF Page!Revert
<1>2. PICK new \in Page!Texts : new = saved
  BY PageInvTypes
<1>3. PICK value \in Page!OpenedEntries \cup {Page!NoEntry} : value = opened
  BY PageInvTypes
<1>4. value.label \in AnyName /\ value.user \in Page!Users
  BY EntryTypes DEF AnyName, Page!Users
<1>5. /\ crossed \subseteq crossed' /\ crossed' \subseteq Page!AnyLabel
      /\ Page!Pending(opened.label) => opened.label \in crossed'
  BY <1>1, CrossingNotes
<1>6. ASSUME opened # Page!NoEntry, opened.label \notin crossed'
      PROVE  saved.of = opened.label
  BY <1>5, <1>6, ShownUnlessPending
<1>7. Around
  BY <1>1, <1>5, AroundStays, PageInvTypes
<1>8. Page!SyncEditor(new, value)
  BY <1>1, <1>2, <1>3
<1> QED
  BY <1>1, <1>2, <1>4, <1>6, <1>7, <1>8, AfterSync, PageInvTypes

LEMMA NewEntryStep ==
    ASSUME PageBounds, PageInv, steps' \in 0..MaxSteps, NEW e \in
           PageLabels, Page!NewEntry(e)
    PROVE  PageInv'
<1>1. /\ kept' = kept /\ stack' = Page!Pushed("entry") /\ savedExists' = FALSE
      /\ backend' = backend /\ reads' = reads /\ prompts' = prompts /\ undoing' = undoing
      /\ Page!Crossing(e)
  BY DEF Page!NewEntry
<1>2. PICK name \in Page!Users :
         /\ opened' = [label |-> e, user |-> name]
         /\ Page!SyncEditor(Page!First(e, name), [label |-> e, user |-> name])
         /\ saved' = Page!First(e, name)
  BY DEF Page!NewEntry, Page!Users
<1>3. e \in AnyName /\ e \in Page!AnyLabel
  BY DEF AnyName, Page!AnyLabel
<1>4. PICK new \in Page!Texts : new = Page!First(e, name) /\ new.of = e
  BY <1>3, TextTypes, ZenonT(40)
<1>5. PICK value \in Page!OpenedEntries :
       /\ value = [label |-> e, user |-> name]
       /\ value.label = e
  BY <1>3, EntryTypes, ZenonT(40)
<1>6. value.label \in AnyName /\ value.user \in Page!Users
  BY <1>3, <1>5, EntryTypes
<1>7. stack' \in Page!Stacks
  BY <1>1, PushedTypes, PageInvTypes DEF Page!Pages
<1>8. Around
  BY <1>1, <1>7, CrossingNotes, AroundStays, PageInvTypes
<1>9. Page!SyncEditor(new, value) /\ opened' = value /\ saved' = new
  BY <1>2, <1>4, <1>5
<1> QED
  BY <1>1, <1>4, <1>5, <1>6, <1>8, <1>9, AfterSync

-----------------------------------------------------------------------------
(* Saving *)

LEMMA TargetIsALabel ==
    ASSUME PageBounds, PageInv, Page!CanSave
    PROVE  /\ opened \in Page!OpenedEntries /\ opened.label \in Page!AnyLabel
           /\ Page!Target \in Page!AnyLabel
<1>1. opened \in Page!OpenedEntries /\ row \in Page!AnyLabel \cup {NoLabel}
  BY PageInvTypes DEF Page!CanSave, AnyName
<1>2. opened.label \in Page!AnyLabel
  BY <1>1, EntryTypes
<1> QED
  BY <1>1, <1>2 DEF Page!CanSave, Page!Target

LEMMA SavingNotes ==
    ASSUME PageBounds, PageInv, Page!CanSave, Page!CrossingSave
    PROVE  /\ crossed \subseteq crossed' /\ crossed' \subseteq Page!AnyLabel
           /\ (display = "loading" \/ opened.label \in crossed) =>
                 (opened.label \in crossed' /\ Page!Target \in crossed')
BY TargetIsALabel, PageInvTypes DEF Page!CrossingSave

\* The text that is moved to the target is the target's.
LEMMA MovedText ==
    ASSUME PageBounds, PageInv, Page!CanSave
    PROVE  /\ Page!Moved(Page!Current) \in Page!Texts
           /\ Page!Current.of = opened.label => Page!Moved(Page!Current).of = Page!Target
<1>1. PICK now \in Page!Texts : now = Page!Current
  BY CurrentIsTheText
<1>2. Page!Moved(now) = IF now.of =
          opened.label THEN [now EXCEPT !.of = Page!Target] ELSE now
  BY DEF Page!Moved
<1>3. Page!Target \in Page!AnyLabel
  BY TargetIsALabel
<1>4. /\ [now EXCEPT !.of = Page!Target] \in Page!Texts
      /\ [now EXCEPT !.of = Page!Target].of = Page!Target
  <2>1. PICK e \in Page!AnyLabel : e = Page!Target
    BY <1>3
  <2> QED
    BY <2>1, TextTypes
<1> QED
  BY <1>1, <1>2, <1>4

\* A save that fails shows the text again, of the entry that is opened by then.
LEMMA AfterFailedSave ==
    ASSUME PageBounds, PageInv, Page!CanSave, Page!CrossingSave, Page!SaveFails, Around,
           reads' = reads
    PROVE  PageInv'
<1>1. /\ stack' = stack /\ opened' = opened /\ editor' = editor /\ raw' = raw
      /\ saved' = saved /\ savedExists' = savedExists /\ row' = row /\ display' = "editor"
  BY DEF Page!SaveFails, Page!shownVars
<1>2. Formed'
  BY <1>1, PageInvTypes DEF Around, Formed, Page!TypeOK, AnyName
<1>3. ShownInPlace'
  BY <1>1, SavingNotes, PageInvTypes DEF PageInv, ShownInPlace
<1>4. ReadInPlace'
  BY SavingNotes DEF PageInv, ReadInPlace
<1>5. Carried'
  BY <1>1 DEF Carried
<1> QED
  BY <1>1, <1>2, <1>3, <1>4, <1>5 DEF PageInv, Around

\* A save that ends shows the target's text, or nothing.
LEMMA AfterFinishedSave ==
    ASSUME PageBounds, PageInv, Page!CanSave, Page!CrossingSave, Page!FinishSave, Around,
           reads' = reads
    PROVE  PageInv'
<1>1. CASE Page!Rest = <<>>
  <2>1. Page!ShowList
    BY <1>1 DEF Page!FinishSave
  <2> QED
    BY <2>1, AfterShowList
<1>2. CASE Page!Rest # <<>>
  <2>1. PICK new \in Page!Texts : new = Page!Moved(Page!Current)
    BY MovedText
  <2>2. PICK value : value = [label |-> Page!Target, user |-> new.user]
    OBVIOUS
  <2>3. Page!Target \in Page!AnyLabel /\ new.user \in Page!Users
    BY TargetIsALabel, TextTypes
  <2>4. /\ value \in Page!OpenedEntries /\ value.label = Page!Target
        /\ value.user \in Page!Users
    BY <2>2, <2>3, EntryTypes
  <2>5. /\ opened' = value /\ Page!SyncEditor(new, value)
        /\ saved' = new /\ savedExists' = TRUE
    BY <1>2, <2>1, <2>2 DEF Page!FinishSave
  <2>6. ASSUME value.label \notin crossed'
        PROVE  new.of = value.label
    <3>1. display = "editor" /\ opened.label \notin crossed /\ opened # Page!NoEntry
      BY <2>4, <2>6, SavingNotes, PageInvTypes DEF Page!CanSave
    <3>2. Page!Current.of = opened.label
      BY <3>1, ShownUnlessPending
    <3> QED
      BY <2>1, <2>4, <3>2, MovedText
  <2>7. value.label \in AnyName
    BY <2>3, <2>4 DEF AnyName
  <2> QED
    BY <2>4, <2>5, <2>6, <2>7, AfterSync
<1> QED
  BY <1>1, <1>2

\* What a save writes is the entry's, under the label it is written to.
LEMMA SaveNowStep ==
    ASSUME PageBounds, PageInv, steps' \in 0..MaxSteps, Page!SaveNow, prompts' \subseteq
           prompts
    PROVE  PageInv'
<1>1. /\ Page!CanSave /\ Page!CrossingSave
      /\ backend' = backend /\ reads' = reads /\ undoing' = undoing
  BY DEF Page!SaveNow
<1>2. /\ crossed \subseteq crossed' /\ crossed' \subseteq Page!AnyLabel
      /\ (display = "loading" \/ opened.label \in crossed) =>
            (opened.label \in crossed' /\ Page!Target \in crossed')
  BY <1>1, SavingNotes
<1>3. PICK from \in Page!AnyLabel, to \in Page!AnyLabel :
       /\ from = opened.label
       /\ to = Page!Target
  BY <1>1, TargetIsALabel
<1>4. PICK now \in Page!Texts, moved \in Page!Texts :
       /\ now = Page!Current
       /\ moved = Page!Moved(Page!Current)
  BY <1>1, CurrentIsTheText, MovedText
<1>5. (from \notin crossed' \/ to \notin crossed') => (now.of = from /\ moved.of = to)
  <2>1. ASSUME from \notin crossed' \/ to \notin crossed'
        PROVE  now.of = from /\ moved.of = to
    <3>1. display = "editor" /\ from \notin crossed
      BY <1>2, <1>3, <2>1, PageInvTypes
    <3>2. Page!Current.of = from
      BY <1>1, <1>3, <3>1, ShownUnlessPending DEF Page!CanSave
    <3> QED
      BY <1>1, <1>3, <1>4, <3>2, MovedText
  <2> QED
    BY <2>1
<1>6. stack \in Page!Stacks /\ Page!Rest \in Page!Stacks /\ <<>> \in Page!Stacks
  BY RestTypes, PageInvTypes, StacksAre
\* The files, and the rest but for what is shown
<1>7. ASSUME kept' \in [Page!AnyLabel -> Page!Texts],
             \A e \in Page!AnyLabel :
                \/ kept'[e] = kept[e] \/ kept'[e] = Page!Blank
                \/ e = from /\ kept'[e] = now
                \/ e = to /\ kept'[e] = moved,
             stack' \in Page!Stacks
      PROVE  Around
  <2>1. KeptInPlace'
    <3>1. ASSUME NEW e \in Page!AnyLabel \ crossed', kept'[e] # Page!Blank
          PROVE  kept'[e].of = e
      BY <1>2, <1>5, <1>7, <3>1 DEF PageInv, KeptInPlace
    <3> QED
      BY <3>1 DEF KeptInPlace
  <2>2. /\ prompts' \subseteq Page!Prompts
        /\ \A p \in prompts' : p.for = "open" => p.value \in Page!OpenedEntries
    BY PageInvTypes DEF PageInv, Formed
  <2> QED
    BY <1>1, <1>2, <1>7, <2>1, <2>2, PageInvTypes DEF Around, PageInv, Formed
<1>8. kept \in [Page!AnyLabel -> Page!Texts] /\ Page!Blank \in Page!Texts
  BY PageInvTypes, TextTypes
<1>9. CASE Page!SaveFails /\ kept' = kept
  <2>1. stack' \in Page!Stacks
    BY <1>6, <1>9 DEF Page!SaveFails
  <2>2. Around
    BY <1>7, <1>8, <1>9, <2>1
  <2> QED
    BY <1>1, <1>9, <2>2, AfterFailedSave
<1>10. CASE Page!SaveFails /\ kept' = [kept EXCEPT ![from] = now]
  <2>1. stack' \in Page!Stacks
    BY <1>6, <1>10 DEF Page!SaveFails
  <2>2. Around
    BY <1>7, <1>8, <1>10, <2>1
  <2> QED
    BY <1>1, <1>10, <2>2, AfterFailedSave
<1>11. CASE Page!FinishSave /\ kept' = [kept EXCEPT ![from] = now]
  <2>1. stack' \in Page!Stacks
    BY <1>6, <1>11 DEF Page!FinishSave, Page!ShowList
  <2>2. Around
    BY <1>7, <1>8, <1>11, <2>1
  <2> QED
    BY <1>1, <1>11, <2>2, AfterFinishedSave
<1>12. CASE Page!FinishSave /\ kept' = [kept EXCEPT ![from] = Page!Blank, ![to] = moved]
  <2>1. stack' \in Page!Stacks
    BY <1>6, <1>12 DEF Page!FinishSave, Page!ShowList
  <2>2. Around
    BY <1>7, <1>8, <1>12, <2>1
  <2> QED
    BY <1>1, <1>12, <2>2, AfterFinishedSave
<1> QED
  BY <1>3, <1>4, <1>9, <1>10, <1>11, <1>12 DEF Page!SaveNow

LEMMA SaveStep ==
    ASSUME PageBounds, PageInv, steps' \in 1..MaxSteps, Page!Save PROVE PageInv'
<1>1. CASE Page!SaveNow /\ UNCHANGED prompts
  BY <1>1, SaveNowStep
<1>2. ASSUME prompts' =
                 prompts \cup {[id |-> steps', for |-> "save", value |-> Page!NoEntry]},
             UNCHANGED <<kept, stack, opened, display, Page!shownVars, row, backend, reads,
                         undoing, crossed>>
      PROVE  PageInv'
  <2> DEFINE asked == [id |-> steps', for |-> "save", value |-> Page!NoEntry]
  <2>1. asked \in Page!Prompts /\ asked.for = "save"
    BY DEF Page!Prompts
  <2>2. /\ kept' = kept /\ stack' = stack /\ opened' = opened /\ display' = display
        /\ row' = row /\ backend' = backend /\ reads' = reads /\ undoing' = undoing
        /\ crossed' = crossed /\ editor' = editor /\ raw' = raw /\ saved' = saved
        /\ savedExists' = savedExists
    BY <1>2 DEF Page!shownVars
  <2>3. KeptInPlace'
    BY <2>2, KeptStays
  <2>4. /\ prompts' \subseteq Page!Prompts
        /\ \A p \in prompts' : p.for = "open" => p.value \in Page!OpenedEntries
    BY <1>2, <2>1, PageInvTypes DEF PageInv, Formed
  <2>5. Around
    BY <2>2, <2>3, <2>4, PageInvTypes DEF Around, PageInv, Formed
  <2>6. reads' \subseteq Page!Reads /\ ReadInPlace' /\ Carried'
    BY <1>2, <2>2, PageInvTypes DEF PageInv, ReadInPlace, Carried
  <2> QED
    BY <2>2, <2>5, <2>6, AfterStaying, PageInvTypes DEF PageInv
<1> QED
  BY <1>1, <1>2 DEF Page!Save

LEMMA AnswerSaveStep ==
    ASSUME PageBounds, PageInv, steps' = steps, NEW p \in prompts, Page!AnswerSavePrompt(p)
    PROVE  PageInv'
<1>1. p.for = "save" /\ prompts' = prompts \ {p}
  BY DEF Page!AnswerSavePrompt
<1>2. CASE Page!SaveNow
  BY <1>1, <1>2, SaveNowStep, PageInvTypes
<1>3. CASE UNCHANGED <<kept, stack, opened, display, Page!shownVars, row, backend, reads,
                       undoing,
                       crossed>>
  <2>1. /\ kept' = kept /\ stack' = stack /\ opened' = opened /\ display' = display
        /\ row' = row /\ backend' = backend /\ reads' = reads /\ undoing' = undoing
        /\ crossed' = crossed /\ editor' = editor /\ raw' = raw /\ saved' = saved
        /\ savedExists' = savedExists
    BY <1>3 DEF Page!shownVars
  <2>2. Around
    BY <1>1, <2>1, AroundStays, PageInvTypes
  <2>3. Carried'
    BY <1>1, <2>1 DEF PageInv, Carried
  <2>4. reads' \subseteq Page!Reads /\ ReadInPlace'
    BY <2>1, PageInvTypes DEF PageInv, ReadInPlace
  <2> QED
    BY <2>1, <2>2, <2>3, <2>4, AfterStaying, PageInvTypes DEF PageInv
<1> QED
  BY <1>2, <1>3 DEF Page!AnswerSavePrompt

-----------------------------------------------------------------------------
(* Undo *)

LEMMA StartUndoStep ==
    ASSUME PageBounds, PageInv, steps' \in 1..MaxSteps, Page!StartUndo PROVE PageInv'
<1>1. /\ kept' = kept /\ stack' = stack /\ opened' = opened /\ display' = display
      /\ row' = row /\ backend' = backend /\ reads' = reads /\ prompts' = prompts
      /\ crossed' = crossed /\ editor' = editor /\ raw' = raw /\ saved' = saved
      /\ savedExists' = savedExists
      /\ undoing' = [id |-> steps', editing |-> Page!Top \in {"entry", "raw"}]
  BY DEF Page!StartUndo, Page!shownVars
<1>2. KeptInPlace'
  BY <1>1, KeptStays
<1>3. Around
  BY <1>1, <1>2, PageInvTypes DEF Around, PageInv, Formed
<1>4. reads' \subseteq Page!Reads /\ ReadInPlace' /\ Carried'
  BY <1>1, PageInvTypes DEF PageInv, ReadInPlace, Carried
<1> QED
  BY <1>1, <1>3, <1>4, AfterStaying, PageInvTypes DEF PageInv

LEMMA EndUndoStep ==
    ASSUME PageBounds, PageInv, steps' = steps, Page!EndUndo PROVE PageInv'
<1>1. /\ undoing # Page!NoUndo /\ undoing' = Page!NoUndo /\ backend' = backend
      /\ prompts' = prompts
  BY DEF Page!EndUndo
<1>2. undoing.id \in 1..MaxSteps
  BY <1>1 DEF PageInv, Formed
<1>3. Page!NoUndo \in [id : 0..MaxSteps, editing : BOOLEAN]
  BY DEF Page!NoUndo, PageBounds
<1>4. /\ kept \in [Page!AnyLabel -> Page!Texts] /\ stack \in Page!Stacks
      /\ <<>> \in Page!Stacks
  BY PageInvTypes, StacksAre
\* An undo writes an entry as it is named, or removes one.
<1>5. ASSUME NEW e \in Page!AnyLabel, NEW new \in Page!Texts, new = Page!Blank \/ new.of =
                 e,
             kept' = [kept EXCEPT ![e] = new], stack' \in Page!Stacks,
             crossed \subseteq crossed', crossed' \subseteq Page!AnyLabel
      PROVE  Around
  <2>1. kept' \in [Page!AnyLabel -> Page!Texts]
    BY <1>4, <1>5
  <2>2. KeptInPlace'
    BY <1>4, <1>5 DEF PageInv, KeptInPlace
  <2> QED
    BY <1>1, <1>3, <1>5, <2>1, <2>2, PageInvTypes DEF Around, PageInv, Formed
<1>6. \A e \in PageLabels :
         /\ e \in Page!AnyLabel /\ Page!Blank \in Page!Texts
         /\ Page!First(e, "none") \in Page!Texts /\ Page!First(e, "none").of = e
  BY TextTypes DEF Page!AnyLabel, AnyName, Page!Users
<1>7. ASSUME NEW e \in PageLabels, kept' = [kept EXCEPT ![e] = Page!First(e, "none")],
             Page!Open(undoing.id, Page!FromLabel(e), stack, reads), Page!Crossing(e)
      PROVE  PageInv'
  <2>1. stack' = stack
    BY <1>7 DEF Page!Open
  <2>2. crossed \subseteq crossed' /\ crossed' \subseteq Page!AnyLabel
    BY <1>7, CrossingNotes
  <2>3. PICK new \in Page!Texts : new = Page!First(e, "none") /\ new.of = e
    BY <1>6
  <2>4. kept' = [kept EXCEPT ![e] = new]
    BY <1>7, <2>3
  <2>5. Around
    BY <1>4, <1>5, <1>6, <2>1, <2>2, <2>3, <2>4
  <2>6. PICK id \in 1..MaxSteps, value \in Page!OpenedEntries :
           id = undoing.id /\ value = Page!FromLabel(e)
    BY <1>2, <1>6, EntryTypes
  <2>7. PICK pages, others : pages = stack /\ others = reads
    OBVIOUS
  <2>8. Page!Open(id, value, pages, others) /\ others \subseteq reads
    BY <1>7, <2>6, <2>7
  <2> QED
    BY <2>5, <2>8, AfterOpening
<1>8. ASSUME NEW e \in PageLabels, kept' = [kept EXCEPT ![e] = Page!Blank], Page!ShowList,
             UNCHANGED <<reads, crossed>>
      PROVE  PageInv'
  <2>1. stack' \in Page!Stacks /\ crossed' = crossed /\ reads' = reads
    BY <1>4, <1>8 DEF Page!ShowList
  <2>2. Around
    BY <1>5, <1>6, <1>8, <2>1, PageInvTypes
  <2> QED
    BY <1>8, <2>1, <2>2, AfterShowList
<1>9. ASSUME Around, row' \in AnyName,
             UNCHANGED <<stack, opened, display, Page!shownVars, reads, crossed>>
      PROVE  PageInv'
  <2>1. /\ stack' = stack /\ opened' = opened /\ display' = display /\ reads' = reads
        /\ crossed' = crossed /\ editor' = editor /\ raw' = raw /\ saved' = saved
        /\ savedExists' = savedExists
    BY <1>9 DEF Page!shownVars
  <2>2. reads' \subseteq Page!Reads /\ ReadInPlace' /\ Carried'
    BY <1>1, <2>1, PageInvTypes DEF PageInv, ReadInPlace, Carried
  <2> QED
    BY <1>9, <2>1, <2>2, AfterStaying, PageInvTypes DEF PageInv
<1>10. ASSUME NEW e \in PageLabels, NEW new \in {Page!Blank, Page!First(e, "none")},
              kept' = [kept EXCEPT ![e] = new],
              row' = IF Page!Top = "entry" THEN Page!NameOf(opened) ELSE row,
              UNCHANGED <<stack, opened, display, Page!shownVars, reads, crossed>>
       PROVE  PageInv'
  <2>1. stack' = stack /\ crossed' = crossed
    BY <1>10
  <2>2. new \in Page!Texts /\ (new = Page!Blank \/ new.of = e) /\ e \in Page!AnyLabel
    BY <1>6, <1>10
  <2>3. Around
    BY <1>4, <1>5, <1>10, <2>1, <2>2, PageInvTypes
  <2>4. opened.label \in AnyName /\ opened.user \in Page!Users
    BY PageInvTypes, EntryTypes DEF AnyName, Page!Users
  <2>5. row' \in AnyName
    BY <1>10, <2>4, NameTypes, PageInvTypes
  <2> QED
    BY <1>9, <1>10, <2>3, <2>5
<1>11. ASSUME UNCHANGED <<kept, stack, opened, display, Page!shownVars, row, reads,
                          crossed>>
       PROVE  PageInv'
  <2>1. /\ kept' = kept /\ stack' = stack /\ crossed' = crossed /\ row' = row
    BY <1>11
  <2>2. KeptInPlace'
    BY <2>1, KeptStays
  <2>3. Around
    BY <1>1, <1>3, <2>1, <2>2, PageInvTypes DEF Around, PageInv, Formed
  <2> QED
    BY <1>9, <1>11, <2>1, <2>3, PageInvTypes
<1> QED
  BY <1>7, <1>8, <1>10, <1>11 DEF Page!EndUndo

-----------------------------------------------------------------------------
(* The invariant *)

LEMMA WiderRange ==
    ASSUME NEW D, NEW S, NEW T, S \subseteq T, NEW f \in [D -> S] PROVE f \in [D -> T]
OBVIOUS

LEMMA PageStart == ASSUME PageBounds, Page!Init PROVE PageInv
<1>1. kept \in [Page!AnyLabel -> Page!Texts]
  <2> DEFINE Starts == {Page!First(e, u) : e \in PageLabels, u \in {"none", "field"}}
  <2>0. \A e \in PageLabels, name \in {"none", "field"} : Page!First(e, name) \in Page!Texts
    BY TextTypes DEF AnyName, Page!AnyLabel, Page!Users
  <2>1. ASSUME NEW new \in Starts PROVE new \in Page!Texts
    <3>1. PICK e \in PageLabels, name \in {"none", "field"} : new = Page!First(e, name)
      BY ONLY <2>1
    <3> HIDE DEF Starts
    <3>2. Page!First(e, name) \in Page!Texts
      BY ONLY e \in PageLabels, name \in {"none", "field"}, <2>0, Zenon
    <3> QED
      BY ONLY <3>1, <3>2, Zenon
  <2>2. {Page!Blank} \cup Starts \subseteq Page!Texts
    <3>1. Page!Blank \in Page!Texts
      BY TextTypes
    <3> HIDE DEF Starts
    <3> QED
      BY <2>1, <3>1
  <2>3. kept \in [Page!AnyLabel -> {Page!Blank} \cup Starts]
    BY DEF Page!Init
  <2> HIDE DEF Starts
  <2> QED
    BY <2>2, <2>3, WiderRange, Zenon
<1>2. /\ stack = <<>> /\ opened = Page!NoEntry /\ display = "editor"
      /\ editor = Page!Blank /\ raw = Page!Blank /\ saved = Page!Blank /\ row = NoLabel
      /\ savedExists = FALSE /\ backend \in {"integrated", "host"}
      /\ reads = {} /\ prompts = {} /\ undoing = Page!NoUndo /\ crossed = {} /\ steps = 0
  BY DEF Page!Init
<1>3. Page!NoUndo \in [id : 0..MaxSteps, editing : BOOLEAN] /\ 0 \in 0..MaxSteps
  BY DEF Page!NoUndo, PageBounds
<1>4. Formed
  BY <1>1, <1>2, <1>3, TextTypes, StacksAre DEF Formed, Page!TypeOK
<1>5. KeptInPlace
  BY DEF Page!Init, KeptInPlace
<1> QED
  BY <1>2, <1>4, <1>5 DEF PageInv, ShownInPlace, ReadInPlace, Carried

LEMMA PageStep == ASSUME PageBounds, PageInv, [Page!Next]_(Page!pageVars) PROVE PageInv'
<1>1. ASSUME Page!UserStep PROVE PageInv'
  <2>1. steps' \in 1..MaxSteps /\ steps' \in 0..MaxSteps
    <3>1. PICK n : n = steps /\ steps' = n + 1 /\ n < MaxSteps
      BY <1>1 DEF Page!UserStep
    <3>2. n \in 0..MaxSteps /\ MaxSteps \in Nat
      BY <3>1, PageInvTypes DEF PageBounds
    <3> QED
      BY <3>1, <3>2
  <2> QED
    <3>1. ASSUME NEW e \in PageLabels, Page!OpenEntry(e) \/ Page!NewEntry(e) PROVE PageInv'
      BY <2>1, <3>1, OpenEntryStep, NewEntryStep
    <3>2. CASE Page!GoHome \/ Page!Back \/ Page!ShowPage \/ Page!ShowRaw
      BY <2>1, <3>2, GoHomeStep, BackStep, ShowPageStep
    <3>3. CASE Page!Edit \/ Page!ChangeFields \/ Page!Revert
      BY <2>1, <3>3, EditStep, ChangeFieldsStep, RevertStep
    <3>4. CASE Page!Save \/ Page!StartUndo
      BY <2>1, <3>4, SaveStep, StartUndoStep
    <3> QED
      BY <1>1, <3>1, <3>2, <3>3, <3>4 DEF Page!UserStep
<1>2. ASSUME Page!Answer PROVE PageInv'
  <2>1. steps' = steps
    BY <1>2 DEF Page!Answer
  <2>2. ASSUME NEW t \in
                   reads, Page!ReadEntry(t) \/ Page!ShowProgress(t) \/ Page!HandleRead(t)
        PROVE  PageInv'
    BY <2>1, <2>2, ReadEntryStep, ShowProgressStep, HandleReadStep
  <2>3. ASSUME NEW p \in prompts, Page!AnswerOpenPrompt(p) \/ Page!AnswerSavePrompt(p)
        PROVE  PageInv'
    BY <2>1, <2>3, AnswerOpenStep, AnswerSaveStep
  <2> QED
    BY <1>2, <2>1, <2>2, <2>3, EndUndoStep DEF Page!Answer
<1>3. CASE UNCHANGED Page!pageVars
  <2>1. /\ steps' = steps /\ stack' = stack /\ row' = row /\ raw' = raw
        /\ UNCHANGED <<kept, opened, display, editor, saved, savedExists, backend, reads,
                       prompts, undoing, crossed>>
    BY <1>3 DEF Page!pageVars
  <2> QED
    BY <2>1, PageMoves, PageInvTypes
<1> QED
  BY <1>1, <1>2, <1>3 DEF Page!Next

LEMMA PageShows ==
    ASSUME PageInv
    PROVE  Page!TypeOK /\ Page!TextsStayWithTheirEntry /\ Page!ALoadingEntryHasACarrier
<1>1. Page!TypeOK /\ Page!TextsStayWithTheirEntry
  BY DEF PageInv, Formed, KeptInPlace, ShownInPlace, Page!TextsStayWithTheirEntry
<1>2. Page!ALoadingEntryHasACarrier
  BY DEF PageInv, Carried, Page!ALoadingEntryHasACarrier
<1> QED
  BY <1>1, <1>2

-----------------------------------------------------------------------------
(* The page among the others *)

\* The page takes all the steps, or none.
LEMMA ThePageStepsOrStays ==
    ASSUME [AllNext]_allVars PROVE [Page!Next]_(Page!pageVars)
<1>1. pageVars = Page!pageVars /\ pageVars' = (Page!pageVars)'
  BY DEF pageVars, Page!pageVars
<1>2. Page!Next \/ UNCHANGED pageVars
  BY DEF AllNext, allVars
<1> QED
  BY <1>1, <1>2

LEMMA PageAlways == ASSUME PageBounds PROVE AllSpec => []PageInv
<1>1. AllInit => PageInv
  BY PageStart DEF AllInit
<1>2. PageInv /\ [AllNext]_allVars => PageInv'
  BY PageStep, ThePageStepsOrStays
<1> QED
  BY <1>1, <1>2, PTL DEF AllSpec

\* A page that shows the status message of a load has a worker that reads the
\* entry, or a dialog that asks for its key: it never stays on the message with
\* nobody left to replace it, whichever entries are opened, left and undone
\* meanwhile (open_password_entry_page and the answers to it).
THEOREM ALoadingEntryIsCarried ==
    ASSUME PageBounds PROVE AllSpec => []ALoadingEntryHasACarrier
<1>1. PageInv => ALoadingEntryHasACarrier
  BY PageShows DEF ALoadingEntryHasACarrier
<1> QED
  BY <1>1, PageAlways, PTL

\* The text that the rows of the editor show and the text it compares them with are
\* the opened entry's, and what is kept under a label is that entry's text, whatever
\* answers for other entries come between: unless the page of the entry was used
\* while a load of it was under way (the editor's page and session).
THEOREM PageTextsStay ==
    ASSUME PageBounds PROVE AllSpec => [](Page!TypeOK /\ Page!TextsStayWithTheirEntry)
<1>1. PageInv => Page!TypeOK /\ Page!TextsStayWithTheirEntry
  BY PageShows
<1> QED
  BY <1>1, PageAlways, PTL
=============================================================================
