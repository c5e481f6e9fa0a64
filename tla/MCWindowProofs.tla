---------------------------- MODULE MCWindowProofs ----------------------------
(* The pages of the window, the commands it runs, the list of stores, the keys  *)
(* a store's page offers and the rows of the preferences keep their invariants; *)
(* with the proof of RecipientStore, all six that MCWindow puts side by side    *)
(* have the properties that its run checks, for every value of the constants.   *)
EXTENDS MCWindow, RecipientStoreProofs, FiniteSetTheorems, TLAPS

(* The pages of the window *)

WindowBounds ==
    /\ MaxDepth \in Nat \ {0} /\ MaxOperations \in Nat
    /\ {"root", "busy", "recipients", "storeGit", "entry"} \subseteq WindowPageNames

\* No page is twice on the stack, the root is the first; the page of an import lies
\* directly over the tools, which were not opened over the busy page.
Ordered(s) ==
    /\ s \in Seq(WindowPageNames) /\ Len(s) \in Nat \ {0} /\ s[1] = "root"
    /\ \A i, j \in 1..Len(s) : s[i] = s[j] => i = j
    /\ \A i \in 1..Len(s) : s[i] = "import" => (i > 1 /\ s[i - 1] = "tools")
    /\ \A i, j \in 1..Len(s) : (s[i] = "busy" /\ s[j] = "tools") => j < i

LEMMA Holds == ASSUME NEW s \in Seq(WindowPageNames), NEW p
               PROVE  Window!InStack(s, p) <=> \E i \in 1..Len(s) : s[i] = p
BY DEF Window!InStack, Window!ToSet

LEMMA CutIsOrdered ==
    ASSUME NEW s, Ordered(s), NEW n \in 1..Len(s)
    PROVE  /\ Ordered(SubSeq(s, 1, n)) /\ Len(SubSeq(s, 1, n)) = n
           /\ \A i \in 1..n : SubSeq(s, 1, n)[i] = s[i]
           /\ Window!Visible(SubSeq(s, 1, n)) = s[n]
           /\ \A q : Window!InStack(SubSeq(s, 1, n), q) <=> \E i \in 1..n : s[i] = q
<1>1. s \in Seq(WindowPageNames) /\ Len(s) \in Nat \ {0}
  BY DEF Ordered
<1>2. PICK r : r = SubSeq(s, 1, n)
  OBVIOUS
<1>3. r \in Seq(WindowPageNames) /\ Len(r) = n /\ \A i \in 1..n : r[i] = s[i]
  BY <1>1, <1>2
<1>4. \A i \in 1..Len(r) : r[i] = "import" => (i > 1 /\ r[i - 1] = "tools")
  BY <1>1, <1>3 DEF Ordered
<1>5. \A i, j \in 1..Len(r) : r[i] = r[j] => i = j
  BY <1>1, <1>3 DEF Ordered
<1>6. \A i, j \in 1..Len(r) : (r[i] = "busy" /\ r[j] = "tools") => j < i
  BY <1>1, <1>3 DEF Ordered
<1>7. Ordered(r)
  BY <1>1, <1>3, <1>4, <1>5, <1>6 DEF Ordered
<1>8. Window!Visible(r) = s[n]
  BY <1>1, <1>3 DEF Window!Visible, Window!Last
<1>9. \A q : Window!InStack(r, q) <=> \E i \in 1..n : s[i] = q
  BY <1>1, <1>3, Holds
<1> QED
  BY <1>2, <1>3, <1>7, <1>8, <1>9

LEMMA PopToCuts ==
    ASSUME NEW s, Ordered(s), NEW n \in 1..Len(s)
    PROVE  Window!PopToPage(s, s[n]) = SubSeq(s, 1, n)
<1>1. PICK p : p = s[n]
  OBVIOUS
<1>2. {i \in 1..Len(s) : s[i] = p} = {n}
  BY <1>1 DEF Ordered
<1>3. Window!Min({n}) = n
  BY DEF Window!Min
<1>4. Window!SelectInSeq(s, LAMBDA q : q = p) = IF {i \in 1..Len(s) : s[i] = p} # {}
                                               THEN Window!Min({i \in 1..Len(s) :
                                                                s[i] = p}) ELSE 0
  BY DEF Window!SelectInSeq
<1>5. Window!SelectInSeq(s, LAMBDA q : q = p) = n
  BY <1>2, <1>3, <1>4
<1>6. Window!PopToPage(s, p) = SubSeq(s, 1, n)
  BY <1>5 DEF Window!PopToPage
<1> QED
  BY <1>1, <1>6

LEMMA Grows ==
    ASSUME NEW s, Ordered(s), NEW p \in WindowPageNames, ~Window!InStack(s, p),
           p = "import" => Window!Visible(s) = "tools", p = "tools" =>
               ~Window!InStack(s, "busy")
    PROVE  /\ Ordered(Append(s, p)) /\ Len(Append(s, p)) = Len(s) + 1
           /\ Window!Visible(Append(s, p)) = p
           /\ \A q : Window!InStack(Append(s, p), q) <=> (q = p \/ Window!InStack(s, q))
<1>1. s \in Seq(WindowPageNames) /\ Len(s) \in Nat \ {0}
  BY DEF Ordered
<1>2. PICK r : r = Append(s, p)
  OBVIOUS
<1>3. /\ r \in Seq(WindowPageNames) /\ Len(r) = Len(s) + 1
      /\ \A i \in 1..Len(s) : r[i] = s[i]
      /\ r[Len(s) + 1] = p
  BY <1>1, <1>2
<1>4. \A i \in 1..Len(s) : s[i] # p
  BY <1>1, Holds
<1>5. \A i \in 1..Len(r) : i \in 1..Len(s) \/ i = Len(s) + 1
  BY <1>1, <1>3
<1>6. \A i \in 1..Len(r) : r[i] = "import" => (i > 1 /\ r[i - 1] = "tools")
  <2>1. ASSUME NEW i \in 1..Len(s), r[i] = "import" PROVE i > 1 /\ r[i - 1] = "tools"
    BY <1>1, <1>3, <2>1 DEF Ordered
  <2>2. p = "import" => r[Len(s)] = "tools"
    BY <1>1, <1>3 DEF Window!Visible, Window!Last
  <2> QED
    BY <1>1, <1>3, <1>5, <2>1, <2>2
<1>7. \A i, j \in 1..Len(r) : r[i] = r[j] => i = j
  <2>1. \A i, j \in 1..Len(s) : r[i] = r[j] => i = j
    BY <1>3 DEF Ordered
  <2>2. \A i \in 1..Len(s) : r[i] # p
    BY <1>3, <1>4
  <2> QED
    BY <1>3, <1>5, <2>1, <2>2
<1>8. \A i, j \in 1..Len(r) : (r[i] = "busy" /\ r[j] = "tools") => j < i
  <2>1. \A i, j \in 1..Len(s) : (r[i] = "busy" /\ r[j] = "tools") => j < i
    BY <1>3 DEF Ordered
  <2>2. p = "tools" => \A i \in 1..Len(s) : r[i] # "busy"
    BY <1>1, <1>3, Holds
  <2> QED
    BY <1>1, <1>3, <1>5, <2>1, <2>2
<1>9. Ordered(r)
  BY <1>1, <1>3, <1>6, <1>7, <1>8 DEF Ordered
<1>10. Window!Visible(r) = p
  BY <1>3 DEF Window!Visible, Window!Last
<1>11. \A q : Window!InStack(r, q) <=> (q = p \/ Window!InStack(s, q))
  BY <1>1, <1>3, <1>5, Holds
<1> QED
  BY <1>2, <1>3, <1>9, <1>10, <1>11

LEMMA PopIsOrdered ==
    ASSUME NEW s, Ordered(s)
    PROVE  /\ Ordered(Window!Pop(s)) /\ Len(Window!Pop(s)) <= Len(s)
           /\ Window!IsRoot(s) => Window!Pop(s) = s
           /\ ~Window!IsRoot(s) => (/\ Len(Window!Pop(s)) = Len(s) - 1
                                    /\ ~Window!InStack(Window!Pop(s), Window!Visible(s))
                                    /\ Window!Visible(Window!Pop(s)) = s[Len(s) - 1])
           /\ \A q : Window!InStack(Window!Pop(s), q) => Window!InStack(s, q)
<1>1. s \in Seq(WindowPageNames) /\ Len(s) \in Nat \ {0}
  BY DEF Ordered
<1>2. CASE Window!IsRoot(s)
  BY <1>1, <1>2 DEF Window!IsRoot, Window!Pop
<1>3. CASE ~Window!IsRoot(s)
  <2>a. Len(s) - 1 \in 1..Len(s)
    <3>1. PICK n : n = Len(s)
      OBVIOUS
    <3>2. n \in Nat \ {0} /\ n # 1
      BY <1>1, <1>3, <3>1 DEF Window!IsRoot
    <3>3. n - 1 \in 1..n
      BY ONLY <3>2
    <3> QED
      BY <3>1, <3>3
  <2>1. Len(s) - 1 \in 1..Len(s) /\ Window!Pop(s) = SubSeq(s, 1, Len(s) - 1)
    BY <1>3, <2>a DEF Window!Pop, Window!Front
  <2>2. /\ Ordered(Window!Pop(s)) /\ Len(Window!Pop(s)) = Len(s) - 1
        /\ Window!Visible(Window!Pop(s)) = s[Len(s) - 1]
        /\ \A q : Window!InStack(Window!Pop(s), q) <=> \E i \in 1..(Len(s) - 1) : s[i] = q
    BY <2>1, CutIsOrdered
  <2>3. \A q : Window!InStack(Window!Pop(s), q) => Window!InStack(s, q)
    BY <1>1, <2>2, Holds
  <2>4. \A i \in 1..(Len(s) - 1) : s[i] # s[Len(s)]
    BY <1>1, <1>3 DEF Ordered
  <2>5. ~Window!InStack(Window!Pop(s), Window!Visible(s))
    BY <2>2, <2>4 DEF Window!Visible, Window!Last
  <2> QED
    BY <1>1, <1>3, <2>2, <2>3, <2>5
<1> QED
  BY <1>2, <1>3

LEMMA PushIsOrdered ==
    ASSUME NEW s, Ordered(s), NEW p \in WindowPageNames,
           (p = "import" /\ ~Window!InStack(s, p)) => Window!Visible(s) = "tools",
           (p = "tools" /\ ~Window!InStack(s, p)) => ~Window!InStack(s, "busy")
    PROVE  /\ Ordered(Window!Push(s, p))
           /\ Window!InStack(s, p) => Window!Push(s, p) = s
           /\ ~Window!InStack(s, p) =>
                  (Len(Window!Push(s, p)) =
                   Len(s) + 1 /\ Window!Visible(Window!Push(s, p)) = p)
           /\ Window!InStack(Window!Push(s, p), p)
           /\ \A q : Window!InStack(Window!Push(s, p), q) => (q = p \/ Window!InStack(s, q))
BY Grows DEF Window!Push

LEMMA RevealIsOrdered ==
    ASSUME NEW s, Ordered(s), NEW p \in WindowPageNames, p # "import",
           (p = "tools" /\ ~Window!InStack(s, p)) => ~Window!InStack(s, "busy")
    PROVE  /\ Ordered(Window!RevealPage(s, p))
           /\ Window!InStack(s, p) => Len(Window!RevealPage(s, p)) <= Len(s)
           /\ ~Window!InStack(s, p) => Len(Window!RevealPage(s, p)) = Len(s) + 1
           /\ Window!Visible(Window!RevealPage(s, p)) = p
           /\ \A q : Window!InStack(Window!RevealPage(s, p), q) =>
                  (q = p \/ Window!InStack(s, q))
<1>1. s \in Seq(WindowPageNames) /\ Len(s) \in Nat \ {0}
  BY DEF Ordered
<1>2. CASE Window!InStack(s, p)
  <2>1. PICK n \in 1..Len(s) : s[n] = p
    BY <1>1, <1>2, Holds
  <2>2. Window!RevealPage(s, p) = SubSeq(s, 1, n)
    BY <1>2, <2>1, PopToCuts DEF Window!RevealPage
  <2>3. /\ Ordered(SubSeq(s, 1, n)) /\ Len(SubSeq(s, 1, n)) = n
        /\ Window!Visible(SubSeq(s, 1, n)) = s[n]
        /\ \A q : Window!InStack(SubSeq(s, 1, n), q) <=> \E i \in 1..n : s[i] = q
    BY CutIsOrdered
  <2>4. \A q : Window!InStack(SubSeq(s, 1, n), q) => Window!InStack(s, q)
    BY <1>1, <2>3, Holds
  <2> QED
    BY <1>1, <1>2, <2>1, <2>2, <2>3, <2>4
<1>3. CASE ~Window!InStack(s, p)
  BY <1>3, PushIsOrdered DEF Window!RevealPage
<1> QED
  BY <1>2, <1>3

\* The page of a Git operation is removed and nothing the user sees is.
LEMMA FinishIsOrdered ==
    ASSUME NEW s, Ordered(s)
    PROVE  /\ Ordered(Window!FinishTransientPage(s))
           /\ Len(Window!FinishTransientPage(s)) <= Len(s)
           /\ ~Window!InStack(Window!FinishTransientPage(s), "busy")
           /\ Window!Visible(s) # "busy" =>
                  Window!Visible(Window!FinishTransientPage(s)) = Window!Visible(s)
           /\ \A q : Window!InStack(Window!FinishTransientPage(s), q) =>
                  Window!InStack(s, q)
<1>1. s \in Seq(WindowPageNames) /\ Len(s) \in Nat \ {0} /\ s[1] = "root"
  BY DEF Ordered
<1>2. /\ Window!Visible(s) = s[Len(s)] /\ Window!Visible(s) \in WindowPageNames
      /\ Window!InStack(s, Window!Visible(s))
  BY <1>1, Holds DEF Window!Visible, Window!Last
<1>3. CASE Window!Visible(s) = "busy"
  <2>1. ~Window!IsRoot(s)
    BY <1>1, <1>2, <1>3 DEF Window!IsRoot
  <2> QED
    BY <1>3, <2>1, PopIsOrdered DEF Window!FinishTransientPage
<1>4. CASE Window!Visible(s) # "busy" /\ Window!InStack(s, "busy")
  <2>1. PICK n \in 1..Len(s) : s[n] = "busy"
    BY <1>1, <1>4, Holds
  <2>2. n > 1 /\ n < Len(s)
    BY <1>1, <1>2, <1>4, <2>1
  <2>3. PICK below : below = Window!PopToPage(s, "busy")
    OBVIOUS
  <2>4. below = SubSeq(s, 1, n)
    BY <2>1, <2>3, PopToCuts
  <2>5. /\ Ordered(below) /\ Len(below) = n /\ Window!Visible(below) = "busy"
        /\ \A i \in 1..n : below[i] = s[i]
        /\ \A q : Window!InStack(below, q) <=> \E i \in 1..n : s[i] = q
    BY <2>1, <2>4, CutIsOrdered
  <2>6. PICK rest : rest = Window!Pop(below)
    OBVIOUS
  <2>7. ~Window!IsRoot(below)
    BY <2>2, <2>5 DEF Window!IsRoot
  <2>8. /\ Ordered(rest) /\ Len(rest) = n - 1 /\ ~Window!InStack(rest, "busy")
        /\ \A q : Window!InStack(rest, q) => \E i \in 1..n : s[i] = q
    BY <2>5, <2>6, <2>7, PopIsOrdered
  <2>9. ~Window!InStack(rest, Window!Visible(s))
    BY <1>1, <1>2, <2>2, <2>8 DEF Ordered
  <2>10. Window!Visible(s) # "import"
    <3>1. ASSUME s[Len(s)] = "import" PROVE FALSE
      <4>1. Len(s) - 1 \in 1..Len(s) /\ s[Len(s) - 1] = "tools"
        BY <1>1, <3>1 DEF Ordered
      <4>2. Len(s) - 1 < n
        BY <1>1, <2>1, <4>1 DEF Ordered
      <4> QED
        BY <1>1, <2>2, <4>2
    <3> QED
      BY <1>2, <3>1
  <2>11. PICK v : v = Window!Visible(s)
    OBVIOUS
  <2>12. Window!FinishTransientPage(s) = Window!Push(rest, v)
    BY <1>4, <2>3, <2>6, <2>11 DEF Window!FinishTransientPage
  <2>13. /\ Ordered(Window!Push(rest, v)) /\ Len(Window!Push(rest, v)) = n
         /\ Window!Visible(Window!Push(rest, v)) = v
         /\ \A q : Window!InStack(Window!Push(rest, v), q) =>
                (q = v \/ Window!InStack(rest, q))
    BY <1>1, <1>2, <2>2, <2>8, <2>9, <2>10, <2>11, PushIsOrdered
  <2>14. \A q : Window!InStack(rest, q) => Window!InStack(s, q)
    BY <1>1, <2>8, Holds
  <2> QED
    BY <1>1, <1>2, <1>4, <2>2, <2>8, <2>11, <2>12, <2>13, <2>14
<1>5. CASE Window!Visible(s) # "busy" /\ ~Window!InStack(s, "busy")
  BY <1>1, <1>5 DEF Window!FinishTransientPage
<1> QED
  BY <1>3, <1>4, <1>5

-----------------------------------------------------------------------------
EntryStates == {"none", "editor", "reading", "locked"}
UndoStates == {"none", "list", "editor"}

WindowInv ==
    /\ Ordered(pages) /\ Len(pages) <= MaxDepth
    /\ header \in WindowPageNames
    /\ gitRuns \in [window : Window!Operations, page : Window!Operations]
    /\ entryShown \in EntryStates /\ undoRuns \in UndoStates
    /\ actionsBusy \in BOOLEAN /\ toolsEnabled \in BOOLEAN /\ reopenAfterBusy \in BOOLEAN
    /\ reopenRecipients \in BOOLEAN /\ misled \in BOOLEAN
    /\ Window!InStack(pages, "busy") => (actionsBusy /\ ~toolsEnabled)
    /\ Window!HeaderIsOfThePage /\ Window!ABusyWindowIsWorking

\* A step of no Git operation.
LEMMA QuietStep ==
    ASSUME WindowInv, UNCHANGED Window!gitVars,
           Ordered(pages'), Len(pages') <= MaxDepth,
           header' \in WindowPageNames, misled' \in BOOLEAN,
           Window!Fits(header', Window!Visible(pages')) \/ misled',
           Window!InStack(pages', "busy") =>
               (Window!InStack(pages, "busy") /\ toolsEnabled' = toolsEnabled),
           toolsEnabled' \in BOOLEAN, entryShown' \in EntryStates, undoRuns' \in UndoStates,
           reopenRecipients' \in BOOLEAN
    PROVE  WindowInv'
BY DEF WindowInv, Window!gitVars, Window!HeaderIsOfThePage, Window!ABusyWindowIsWorking,
   Window!Running, Window!Operations

LEMMA VisibleFacts ==
    ASSUME NEW s, Ordered(s)
    PROVE  /\ Window!Visible(s) \in WindowPageNames /\ Window!InStack(s, Window!Visible(s))
           /\ Len(s) \in Nat \ {0}
           /\ Window!IsRoot(s) <=> Window!Visible(s) = "root"
<1>1. s \in Seq(WindowPageNames) /\ Len(s) \in Nat \ {0} /\ s[1] = "root"
  BY DEF Ordered
<1>2. Window!Visible(s) = s[Len(s)]
  BY DEF Window!Visible, Window!Last
<1>3. s[Len(s)] = s[1] => Len(s) = 1
  <2>1. \A i, j \in 1..Len(s) : s[i] = s[j] => i = j
    BY DEF Ordered
  <2>2. 1 \in 1..Len(s) /\ Len(s) \in 1..Len(s)
    BY ONLY <1>1
  <2> QED
    BY <2>1, <2>2
<1> QED
  BY <1>1, <1>2, <1>3, Holds DEF Window!IsRoot

LEMMA RootIsOrdered ==
    ASSUME WindowBounds
    PROVE  /\ Ordered(<<"root">>) /\ Len(<<"root">>) = 1
           /\ Window!Visible(<<"root">>) = "root"
           /\ \A q : Window!InStack(<<"root">>, q) => q = "root"
<1>1. <<"root">> \in Seq(WindowPageNames) /\ Len(<<"root">>) = 1 /\ <<"root">>[1] = "root"
  BY DEF WindowBounds
<1>2. Ordered(<<"root">>)
  BY <1>1 DEF Ordered
<1>3. \A q : Window!InStack(<<"root">>, q) => q = "root"
  <2>1. DOMAIN <<"root">> = {1}
    BY <1>1
  <2> QED
    BY <1>1, <2>1 DEF Window!InStack, Window!ToSet
<1> QED
  BY <1>1, <1>2, <1>3 DEF Window!Visible, Window!Last

\* The effects of a handler on the stack and the header.
Kept(s, h, m) ==
    /\ Ordered(s) /\ Len(s) <= MaxDepth /\ h \in WindowPageNames /\ m \in BOOLEAN
    /\ Window!Fits(h, Window!Visible(s)) \/ m
    /\ Window!InStack(s, "busy") => Window!InStack(pages, "busy")

LEMMA PushesKeep ==
    ASSUME WindowBounds, WindowInv, NEW p \in
           WindowPageNames \ {"busy", "tools"}, Window!PushesUnder(p),
           (p = "import" /\ ~Window!InStack(pages, p)) => Window!Visible(pages) = "tools"
    PROVE  Kept(pages', header', misled')
<1>1. Ordered(pages) /\ Len(pages) <= MaxDepth /\ Len(pages) \in Nat /\ MaxDepth \in Nat
  BY DEF WindowInv, Ordered, WindowBounds
<1>2. /\ pages' = Window!Push(pages, p) /\ header' = p
      /\ misled' = ~Window!Fits(p, Window!Visible(pages'))
  BY DEF Window!PushesUnder, Window!ShowsBlindly
<1>3. Window!InStack(pages, p) \/ Len(pages) < MaxDepth
  BY DEF Window!PushesUnder
<1>4. /\ Ordered(pages')
      /\ Window!InStack(pages, p) => pages' = pages
      /\ ~Window!InStack(pages, p) => Len(pages') = Len(pages) + 1
      /\ \A q : Window!InStack(pages', q) => (q = p \/ Window!InStack(pages, q))
  BY <1>1, <1>2, PushIsOrdered
<1>5. Len(pages') <= MaxDepth
  BY <1>1, <1>3, <1>4
<1>6. misled' \in BOOLEAN /\ (Window!Fits(header', Window!Visible(pages')) \/ misled')
  BY <1>2
<1> QED
  BY <1>2, <1>4, <1>5, <1>6 DEF Kept

LEMMA RevealsKeep ==
    ASSUME WindowBounds, WindowInv, NEW p \in
           WindowPageNames \ {"busy", "import"}, Window!Reveals(p),
           (p = "tools" /\ ~Window!InStack(pages, p)) => ~Window!InStack(pages, "busy")
    PROVE  Kept(pages', header', misled')
<1>1. Ordered(pages) /\ Len(pages) <= MaxDepth /\ Len(pages) \in Nat /\ MaxDepth \in Nat
  BY DEF WindowInv, Ordered, WindowBounds
<1>2. pages' = Window!RevealPage(pages, p) /\ header' = p /\ misled' = FALSE
  BY DEF Window!Reveals, Window!Shows
<1>3. Window!InStack(pages, p) \/ Len(pages) < MaxDepth
  BY DEF Window!Reveals
<1>4. /\ Ordered(pages') /\ Window!Visible(pages') = p
      /\ Window!InStack(pages, p) => Len(pages') <= Len(pages)
      /\ ~Window!InStack(pages, p) => Len(pages') = Len(pages) + 1
      /\ \A q : Window!InStack(pages', q) => (q = p \/ Window!InStack(pages, q))
  BY <1>1, <1>2, RevealIsOrdered
<1>5. Len(pages') \in Nat
  BY <1>4 DEF Ordered
<1>6. Len(pages') <= MaxDepth
  BY <1>1, <1>3, <1>4, <1>5
<1> QED
  BY <1>2, <1>4, <1>6 DEF Kept, Window!Fits

LEMMA ListKeeps ==
    ASSUME WindowBounds, Window!Shows(<<"root">>, "root")
    PROVE  Kept(pages', header', misled') /\ ~Window!InStack(pages', "busy")
<1>1. pages' = <<"root">> /\ header' = "root" /\ misled' = FALSE
  BY DEF Window!Shows
<1>2. 1 <= MaxDepth /\ "root" \in WindowPageNames
  BY DEF WindowBounds
<1> QED
  BY <1>1, <1>2, RootIsOrdered DEF Kept, Window!Fits

LEMMA PopKeeps ==
    ASSUME WindowBounds, WindowInv, NEW h \in
           WindowPageNames, Window!Shows(Window!Pop(pages), h),
           Window!Fits(h, Window!Visible(Window!Pop(pages)))
    PROVE  Kept(pages', header', misled')
<1>1. Ordered(pages) /\ Len(pages) <= MaxDepth /\ Len(pages) \in Nat /\ MaxDepth \in Nat
  BY DEF WindowInv, Ordered, WindowBounds
<1>2. pages' = Window!Pop(pages) /\ header' = h /\ misled' = FALSE
  BY DEF Window!Shows
<1>3. /\ Ordered(pages') /\ Len(pages') <= Len(pages)
      /\ \A q : Window!InStack(pages', q) => Window!InStack(pages, q)
  BY <1>1, <1>2, PopIsOrdered
<1>4. Len(pages') \in Nat
  BY <1>3 DEF Ordered
<1>5. Len(pages') <= MaxDepth
  BY <1>1, <1>3, <1>4
<1> QED
  BY <1>2, <1>3, <1>5 DEF Kept

LEMMA RestoredFits ==
    ASSUME WindowInv, NEW s, Ordered(s)
    PROVE  /\ Window!Restored(s) \in WindowPageNames
           /\ Window!Fits(Window!Restored(s), Window!Visible(s))
BY VisibleFacts DEF Window!Restored, Window!Fits, WindowInv

LEMMA KeptKeeps ==
    ASSUME WindowInv, UNCHANGED Window!gitVars, Kept(pages', header', misled'),
           toolsEnabled' =
               toolsEnabled \/ (~Window!InStack(pages', "busy") /\ toolsEnabled' = TRUE),
           entryShown' \in EntryStates, undoRuns' \in UndoStates, reopenRecipients' \in
               BOOLEAN
    PROVE  WindowInv'
BY QuietStep DEF Kept, WindowInv

LEMMA OpeningsKeep ==
    ASSUME WindowBounds, WindowInv,
           \/ \E p \in Window!Shortcuts : Window!OpenByShortcut(p)
           \/ \E p \in Window!Tools : Window!OpenTool(p)
           \/ Window!OpenDocument
           \/ Window!OpenTools
           \/ Window!OpenValuesOfField
           \/ Window!OpenImport
           \/ Window!OpenRecipients
           \/ Window!OpenStoreGit
           \/ Window!OpenEntry
           \/ Window!NewEntry
           \/ Window!OpenRaw
    PROVE  WindowInv'
<1>1. /\ toolsEnabled \in BOOLEAN /\ entryShown \in EntryStates /\ undoRuns \in UndoStates
      /\ reopenRecipients \in BOOLEAN /\ (toolsEnabled => ~Window!InStack(pages, "busy"))
  BY DEF WindowInv
<1>2. "reading" \in EntryStates /\ "editor" \in EntryStates
  BY DEF EntryStates
<1>3. ASSUME NEW p \in Window!Shortcuts, Window!OpenByShortcut(p) PROVE WindowInv'
  <2>1. p \in WindowPageNames \ {"busy", "tools"} /\ p # "import"
    BY <1>3 DEF Window!OpenByShortcut, Window!PushesUnder, Window!Shortcuts
  <2>2. Kept(pages', header', misled')
    BY <1>3, <2>1, PushesKeep DEF Window!OpenByShortcut
  <2> QED
    BY <1>1, <1>3, <2>2, KeptKeeps DEF Window!OpenByShortcut
<1>4. ASSUME NEW p \in Window!Tools, Window!OpenTool(p) PROVE WindowInv'
  <2>1. p \in WindowPageNames \ {"busy", "import"} /\ p # "tools"
    BY <1>4 DEF Window!OpenTool, Window!Reveals, Window!Tools
  <2>2. Kept(pages', header', misled')
    BY <1>4, <2>1, RevealsKeep DEF Window!OpenTool
  <2> QED
    BY <1>1, <1>4, <2>2, KeptKeeps DEF Window!OpenTool
<1>5. CASE Window!OpenDocument
  <2>1. "document" \in WindowPageNames \ {"busy", "tools"}
    BY <1>5 DEF Window!OpenDocument, Window!PushesUnder
  <2>2. Kept(pages', header', misled')
    BY <1>5, <2>1, PushesKeep DEF Window!OpenDocument
  <2> QED
    BY <1>1, <1>5, <2>2, KeptKeeps DEF Window!OpenDocument
<1>6. CASE Window!OpenTools
  <2>1. "tools" \in WindowPageNames \ {"busy", "import"} /\ ~Window!InStack(pages, "busy")
    BY <1>1, <1>6 DEF Window!OpenTools, Window!Reveals
  <2>2. Kept(pages', header', misled')
    BY <1>6, <2>1, RevealsKeep DEF Window!OpenTools
  <2> QED
    BY <1>1, <1>6, <2>2, KeptKeeps DEF Window!OpenTools
<1>7. CASE Window!OpenValuesOfField
  <2>1. "exact" \in WindowPageNames \ {"busy", "import"}
    BY <1>7 DEF Window!OpenValuesOfField, Window!Reveals
  <2>2. Kept(pages', header', misled')
    BY <1>7, <2>1, RevealsKeep DEF Window!OpenValuesOfField
  <2> QED
    BY <1>1, <1>7, <2>2, KeptKeeps DEF Window!OpenValuesOfField
<1>8. CASE Window!OpenImport
  <2>1. "import" \in WindowPageNames \ {"busy", "tools"} /\ Window!Visible(pages) = "tools"
    BY <1>8 DEF Window!OpenImport, Window!PushesUnder
  <2>2. Kept(pages', header', misled')
    BY <1>8, <2>1, PushesKeep DEF Window!OpenImport
  <2> QED
    BY <1>1, <1>8, <2>2, KeptKeeps DEF Window!OpenImport
<1>9. CASE Window!OpenRecipients
  <2>1. "recipients" \in WindowPageNames \ {"busy", "import"}
    BY <1>9 DEF Window!OpenRecipients, Window!Reveals
  <2>2. Kept(pages', header', misled')
    BY <1>9, <2>1, RevealsKeep DEF Window!OpenRecipients
  <2>3. reopenRecipients' \in BOOLEAN
    BY <1>9 DEF Window!OpenRecipients
  <2> QED
    BY <1>1, <1>9, <2>2, <2>3, KeptKeeps DEF Window!OpenRecipients
<1>10. CASE Window!OpenStoreGit
  <2>1. "storeGit" \in WindowPageNames \ {"busy", "import"}
    BY <1>10 DEF Window!OpenStoreGit, Window!Reveals
  <2>2. Kept(pages', header', misled')
    BY <1>10, <2>1, RevealsKeep DEF Window!OpenStoreGit
  <2> QED
    BY <1>1, <1>10, <2>2, KeptKeeps DEF Window!OpenStoreGit
<1>11. CASE Window!OpenEntry
  <2>1. "entry" \in WindowPageNames \ {"busy", "tools"}
    BY <1>11 DEF Window!OpenEntry, Window!PushesUnder
  <2>2. Kept(pages', header', misled')
    BY <1>11, <2>1, PushesKeep DEF Window!OpenEntry
  <2> QED
    BY <1>1, <1>2, <1>11, <2>2, KeptKeeps DEF Window!OpenEntry
<1>12. CASE Window!NewEntry
  <2>1. "entry" \in WindowPageNames \ {"busy", "tools"}
    BY <1>12 DEF Window!NewEntry, Window!PushesUnder
  <2>2. Kept(pages', header', misled')
    BY <1>12, <2>1, PushesKeep DEF Window!NewEntry
  <2> QED
    BY <1>1, <1>2, <1>12, <2>2, KeptKeeps DEF Window!NewEntry
<1>13. CASE Window!OpenRaw
  <2>1. "raw" \in WindowPageNames \ {"busy", "tools"}
    BY <1>13 DEF Window!OpenRaw, Window!PushesUnder
  <2>2. Kept(pages', header', misled')
    BY <1>13, <2>1, PushesKeep DEF Window!OpenRaw
  <2> QED
    BY <1>1, <1>13, <2>2, KeptKeeps DEF Window!OpenRaw
<1> QED
  BY <1>3, <1>4, <1>5, <1>6, <1>7, <1>8, <1>9, <1>10, <1>11, <1>12, <1>13

\* The page that makes a key comes over the recipients and leads back to them.
LEMMA MakeKeyKeeps ==
    ASSUME WindowBounds, WindowInv, Window!OpenMakeKey \/ Window!CloseMakeKey
    PROVE  WindowInv'
<1>1. /\ toolsEnabled \in BOOLEAN /\ entryShown \in EntryStates /\ undoRuns \in UndoStates
      /\ Ordered(pages) /\ Len(pages) <= MaxDepth /\ header \in WindowPageNames
      /\ misled \in BOOLEAN /\ MaxDepth \in Nat /\ Len(pages) \in Nat
      /\ "recipients" \in WindowPageNames
  BY DEF WindowInv, WindowBounds, Ordered
<1>2. CASE Window!OpenMakeKey
  <2>1. /\ Window!Visible(pages) = "recipients" /\ "makeKey" \in WindowPageNames
        /\ Len(pages) < MaxDepth
        /\ pages' = Window!Push(pages, "makeKey") /\ header' = header /\ misled' = misled
    BY <1>2 DEF Window!OpenMakeKey
  <2>2. /\ Ordered(pages')
        /\ Window!InStack(pages, "makeKey") => pages' = pages
        /\ ~Window!InStack(pages, "makeKey") => (Len(pages') = Len(pages) + 1
                                                  /\ Window!Visible(pages') = "makeKey")
        /\ \A q : Window!InStack(pages', q) => (q = "makeKey" \/ Window!InStack(pages, q))
    BY <1>1, <2>1, PushIsOrdered
  <2>3. Window!Fits(header, "recipients") \/ misled
    BY <2>1 DEF WindowInv, Window!HeaderIsOfThePage
  <2>4. Window!Fits(header', Window!Visible(pages')) \/ misled'
    BY <2>1, <2>2, <2>3 DEF Window!Fits
  <2>5. Len(pages') <= MaxDepth
    BY <1>1, <2>1, <2>2
  <2>6. Kept(pages', header', misled')
    BY <1>1, <2>1, <2>2, <2>4, <2>5 DEF Kept
  <2>7. reopenRecipients' \in BOOLEAN
    BY <1>2 DEF Window!OpenMakeKey
  <2> QED
    BY <1>1, <1>2, <2>6, <2>7, KeptKeeps DEF Window!OpenMakeKey
<1>3. CASE Window!CloseMakeKey
  <2>1. ~Window!IsRoot(pages)
    BY <1>1, <1>3, VisibleFacts DEF Window!CloseMakeKey
  <2>2. PICK below : below = Window!Pop(pages)
    OBVIOUS
  <2>3. /\ Ordered(below) /\ Len(below) = Len(pages) - 1
        /\ \A q : Window!InStack(below, q) => Window!InStack(pages, q)
    BY <1>1, <2>1, <2>2, PopIsOrdered
  <2>4. /\ header' = "recipients"
        /\ \/ pages' = Window!RevealPage(below, "recipients") /\ misled' = FALSE
           \/ pages' = below /\ misled' = ~Window!Fits("recipients", Window!Visible(pages'))
    BY <1>3, <2>2 DEF Window!CloseMakeKey, Window!Shows, Window!ShowsBlindly
  <2>5. Kept(pages', header', misled')
    <3>1. CASE pages' = Window!RevealPage(below, "recipients") /\ misled' = FALSE
      <4>1. /\ Ordered(pages') /\ Window!Visible(pages') = "recipients"
            /\ Window!InStack(below, "recipients") => Len(pages') <= Len(below)
            /\ ~Window!InStack(below, "recipients") => Len(pages') = Len(below) + 1
            /\ \A q : Window!InStack(pages', q) =>
                   (q = "recipients" \/ Window!InStack(below, q))
        BY <1>1, <2>3, <3>1, RevealIsOrdered
      <4>2. Len(pages') \in Nat
        BY <4>1 DEF Ordered
      <4>3. Len(pages') <= MaxDepth
        BY <1>1, <2>3, <4>1, <4>2
      <4>4. Window!InStack(pages', "busy") => Window!InStack(pages, "busy")
        BY <2>3, <4>1
      <4> QED
        BY <1>1, <2>4, <3>1, <4>1, <4>3, <4>4 DEF Kept, Window!Fits
    <3>2. CASE /\ pages' = below
               /\ misled' = ~Window!Fits("recipients", Window!Visible(pages'))
      <4>1. Len(pages') <= MaxDepth
        BY <1>1, <2>3, <3>2
      <4>2. misled' \in BOOLEAN
        BY <3>2
      <4>3. Window!InStack(pages', "busy") => Window!InStack(pages, "busy")
        BY <2>3, <3>2
      <4> QED
        BY <1>1, <2>3, <2>4, <3>2, <4>1, <4>2, <4>3 DEF Kept
    <3> QED
      BY <2>4, <3>1, <3>2
  <2>6. reopenRecipients' \in BOOLEAN
    BY <1>3 DEF Window!CloseMakeKey
  <2> QED
    BY <1>1, <1>3, <2>5, <2>6, KeptKeeps DEF Window!CloseMakeKey
<1> QED
  BY <1>2, <1>3

LEMMA ListShownKeeps ==
    ASSUME WindowBounds, WindowInv, Window!ShowsList, UNCHANGED Window!gitVars,
           undoRuns' \in UndoStates, reopenRecipients' \in BOOLEAN
    PROVE  WindowInv'
<1>1. Kept(pages', header', misled') /\ ~Window!InStack(pages', "busy")
  BY ListKeeps DEF Window!ShowsList
<1>2. entryShown' \in EntryStates /\ toolsEnabled' = TRUE
  BY DEF Window!ShowsList, EntryStates
<1> QED
  BY <1>1, <1>2, KeptKeeps

LEMMA BacksKeep ==
    ASSUME WindowBounds, WindowInv,
           \/ Window!BackFromBusy \/ Window!Back
           \/ Window!GoHome \/ Window!ApplyRootSearch
    PROVE  WindowInv'
<1>1. /\ toolsEnabled \in BOOLEAN /\ entryShown \in EntryStates /\ undoRuns \in UndoStates
      /\ Ordered(pages) /\ reopenRecipients \in BOOLEAN
  BY DEF WindowInv
<1>2. Ordered(Window!Pop(pages))
  BY <1>1, PopIsOrdered
<1>3. ASSUME Window!Shows(Window!Pop(pages), Window!Restored(Window!Pop(pages)))
      PROVE  Kept(pages', header', misled')
  BY <1>2, <1>3, RestoredFits, PopKeeps
<1>4. CASE Window!BackFromBusy
  BY <1>1, <1>3, <1>4, KeptKeeps DEF Window!BackFromBusy
<1>5. CASE Window!Back
  <2>1. CASE Window!IsRoot(Window!Pop(pages))
    BY <1>1, <1>5, <2>1, ListShownKeeps DEF Window!Back
  <2>2. CASE ~Window!IsRoot(Window!Pop(pages))
    <3>1. entryShown' \in EntryStates
      BY <1>1, <1>5, <2>2 DEF Window!Back, EntryStates
    <3>2. /\ Window!Shows(Window!Pop(pages), Window!Restored(Window!Pop(pages)))
          /\ UNCHANGED toolsEnabled
      BY <1>5, <2>2 DEF Window!Back
    <3> QED
      BY <1>1, <1>3, <1>5, <3>1, <3>2, KeptKeeps DEF Window!Back
  <2> QED
    BY <2>1, <2>2
<1>6. CASE Window!GoHome
  BY <1>1, <1>6, ListShownKeeps DEF Window!GoHome
<1>7. CASE Window!ApplyRootSearch
  <2>1. Kept(pages', header', misled')
    BY <1>7, ListKeeps DEF Window!ApplyRootSearch
  <2>2. entryShown' \in EntryStates
    BY <1>7 DEF Window!ApplyRootSearch, EntryStates
  <2> QED
    BY <1>1, <1>7, <2>1, <2>2, KeptKeeps DEF Window!ApplyRootSearch
<1> QED
  BY <1>4, <1>5, <1>6, <1>7

LEMMA AnswersKeep ==
    ASSUME WindowBounds, WindowInv,
           \/ Window!EntryIsRead
           \/ Window!EntryCannotBeRead
           \/ Window!EntryIsUnlocked
           \/ Window!StartUndo
           \/ Window!UndoEnds
           \/ Window!ImportEnds
    PROVE  WindowInv'
<1>1. /\ toolsEnabled \in BOOLEAN /\ entryShown \in EntryStates /\ undoRuns \in UndoStates
      /\ Ordered(pages) /\ reopenRecipients \in BOOLEAN /\ Len(pages) <= MaxDepth
      /\ "entry" \in WindowPageNames
  BY DEF WindowInv, WindowBounds
<1>2. Kept(pages, header, misled)
  BY DEF WindowInv, Kept, Window!HeaderIsOfThePage
<1>3. ASSUME Window!ShowsBlindly(pages, "entry") PROVE Kept(pages', header', misled')
  <2>1. /\ pages' = pages /\ header' = "entry"
        /\ misled' = ~Window!Fits("entry", Window!Visible(pages))
    BY <1>3 DEF Window!ShowsBlindly
  <2>2. misled' \in BOOLEAN /\ (Window!Fits(header', Window!Visible(pages')) \/ misled')
    BY <2>1
  <2> QED
    BY <1>1, <2>1, <2>2 DEF Kept
<1>4. CASE Window!EntryIsRead
  <2>1. /\ pages' = pages /\ header' = header /\ misled' = misled
        /\ entryShown' \in EntryStates
    BY <1>4 DEF Window!EntryIsRead, EntryStates
  <2> QED
    BY <1>1, <1>2, <1>4, <2>1, KeptKeeps DEF Window!EntryIsRead
<1>5. CASE Window!EntryCannotBeRead
  BY <1>1, <1>5, ListShownKeeps DEF Window!EntryCannotBeRead
<1>6. CASE Window!EntryIsUnlocked
  <2>1. entryShown' \in EntryStates
    BY <1>6 DEF Window!EntryIsUnlocked, EntryStates
  <2> QED
    BY <1>1, <1>3, <1>6, <2>1, KeptKeeps DEF Window!EntryIsUnlocked
<1>7. CASE Window!StartUndo
  <2>1. /\ pages' = pages /\ header' = header /\ misled' = misled
        /\ undoRuns' \in UndoStates
    BY <1>7 DEF Window!StartUndo, UndoStates
  <2> QED
    BY <1>1, <1>2, <1>7, <2>1, KeptKeeps DEF Window!StartUndo
<1>8. CASE Window!UndoEnds
  <2>1. undoRuns' \in UndoStates /\ UNCHANGED <<Window!gitVars, reopenRecipients>>
    BY <1>8 DEF Window!UndoEnds, UndoStates
  <2>2. CASE /\ Window!Shows(pages, Window!Restored(pages))
             /\ UNCHANGED <<entryShown, toolsEnabled>>
    <3>1. Kept(pages', header', misled')
      BY <1>1, <2>2, RestoredFits DEF Window!Shows, Kept
    <3> QED
      BY <1>1, <2>1, <2>2, <3>1, KeptKeeps
  <2>3. CASE /\ Window!ShowsBlindly(pages, "entry") /\ entryShown' = "reading"
             /\ UNCHANGED toolsEnabled
    <3>1. entryShown' \in EntryStates
      BY <2>3 DEF EntryStates
    <3> QED
      BY <1>1, <1>3, <2>1, <2>3, <3>1, KeptKeeps
  <2>4. CASE Window!ShowsList
    BY <1>1, <2>1, <2>4, ListShownKeeps
  <2>5. CASE UNCHANGED <<pages, header, misled, entryShown, toolsEnabled>>
    BY <1>1, <1>2, <2>1, <2>5, KeptKeeps
  <2> QED
    BY <1>8, <2>2, <2>3, <2>4, <2>5 DEF Window!UndoEnds
<1>9. CASE Window!ImportEnds
  <2>1. Window!Visible(pages) = "import" /\ Window!Shows(Window!Pop(pages), "tools")
    BY <1>9 DEF Window!ImportEnds
  <2>2. /\ pages \in Seq(WindowPageNames) /\ Len(pages) \in Nat \ {0}
        /\ pages[Len(pages)] = "import"
    BY <1>1, <2>1 DEF Window!Visible, Window!Last, Ordered
  <2>3. Len(pages) > 1 /\ pages[Len(pages) - 1] = "tools"
    BY <1>1, <2>2 DEF Ordered
  <2>4. "tools" \in WindowPageNames
    BY <2>2, <2>3
  <2>5. ~Window!IsRoot(pages)
    BY <2>2, <2>3 DEF Window!IsRoot
  <2>6. Window!Visible(Window!Pop(pages)) = "tools"
    BY <1>1, <2>3, <2>5, PopIsOrdered
  <2>7. Kept(pages', header', misled')
    BY <2>1, <2>4, <2>6, PopKeeps DEF Window!Fits
  <2> QED
    BY <1>1, <1>9, <2>7, KeptKeeps DEF Window!ImportEnds
<1> QED
  BY <1>4, <1>5, <1>6, <1>7, <1>8, <1>9

LEMMA RunFacts ==
    ASSUME WindowBounds, WindowInv, NEW kind \in {"window", "page"}
    PROVE  /\ Window!Begins(kind) =>
                  (/\ gitRuns' \in [window : Window!Operations, page : Window!Operations]
                                      /\ Window!Running' > 0)
           /\ Window!Ends(kind) =>
                  gitRuns' \in [window : Window!Operations, page : Window!Operations]
<1>1. /\ gitRuns \in [window : Window!Operations, page : Window!Operations]
      /\ MaxOperations \in Nat
  BY DEF WindowInv, WindowBounds
<1>2. gitRuns.window \in 0..MaxOperations /\ gitRuns.page \in 0..MaxOperations
  BY <1>1 DEF Window!Operations
<1>3. ASSUME Window!Begins(kind)
      PROVE  /\ gitRuns' \in [window : Window!Operations, page : Window!Operations]
             /\ Window!Running' > 0
  <2>1. /\ gitRuns.window + gitRuns.page < MaxOperations
        /\ gitRuns' = [gitRuns EXCEPT ![kind] = @ + 1]
    BY <1>3 DEF Window!Begins, Window!Running
  <2>2. CASE kind = "window"
    <3>1. gitRuns' = [window |-> gitRuns.window + 1, page |-> gitRuns.page]
      BY <1>1, <2>1, <2>2
    <3> QED
      BY <1>1, <1>2, <2>1, <3>1 DEF Window!Operations, Window!Running
  <2>3. CASE kind = "page"
    <3>1. gitRuns' = [window |-> gitRuns.window, page |-> gitRuns.page + 1]
      BY <1>1, <2>1, <2>3
    <3> QED
      BY <1>1, <1>2, <2>1, <3>1 DEF Window!Operations, Window!Running
  <2> QED
    BY <2>2, <2>3
<1>4. ASSUME Window!Ends(kind)
      PROVE  gitRuns' \in [window : Window!Operations, page : Window!Operations]
  <2>1. gitRuns[kind] > 0 /\ gitRuns' = [gitRuns EXCEPT ![kind] = @ - 1]
    BY <1>4 DEF Window!Ends
  <2>2. CASE kind = "window"
    <3>1. /\ gitRuns' = [window |-> gitRuns.window - 1, page |-> gitRuns.page]
          /\ gitRuns.window > 0
      BY <1>1, <2>1, <2>2
    <3> QED
      BY <1>1, <1>2, <3>1 DEF Window!Operations
  <2>3. CASE kind = "page"
    <3>1. /\ gitRuns' = [window |-> gitRuns.window, page |-> gitRuns.page - 1]
          /\ gitRuns.page > 0
      BY <1>1, <2>1, <2>3
    <3> QED
      BY <1>1, <1>2, <3>1 DEF Window!Operations
  <2> QED
    BY <2>2, <2>3
<1> QED
  BY <1>3, <1>4

\* The busy page goes over the visible one, or lies on the stack already.
LEMMA BusyIsPushed ==
    ASSUME WindowBounds, WindowInv, NEW kind \in {"window", "page"}, Window!Begins(kind)
    PROVE  /\ Ordered(Window!Push(pages, "busy"))
           /\ Len(Window!Push(pages, "busy")) <= MaxDepth
           /\ ~Window!InStack(pages, "busy") =>
                  Window!Visible(Window!Push(pages, "busy")) = "busy"
           /\ Window!InStack(pages, "busy") => Window!Push(pages, "busy") = pages
<1>1. Ordered(pages) /\ Len(pages) <= MaxDepth /\ Len(pages) \in Nat /\ MaxDepth \in Nat
  BY DEF WindowInv, Ordered, WindowBounds
<1>2. "busy" \in WindowPageNames
  BY DEF WindowBounds
<1>3. /\ Ordered(Window!Push(pages, "busy"))
      /\ Window!InStack(pages, "busy") => Window!Push(pages, "busy") = pages
      /\ ~Window!InStack(pages, "busy") => (Len(Window!Push(pages, "busy")) = Len(pages) + 1
                                             /\ Window!Visible(Window!Push(pages, "busy")) =
                                                    "busy")
  BY <1>1, <1>2, PushIsOrdered
<1>4. Window!InStack(pages, "busy") \/ Len(pages) < MaxDepth
  BY DEF Window!Begins
<1> QED
  BY <1>1, <1>3, <1>4

LEMMA OperationsBegin ==
    ASSUME WindowBounds, WindowInv, Window!BeginWindowOperation \/ Window!BeginPageOperation
    PROVE  WindowInv'
<1>1. PICK kind \in {"window", "page"} : Window!Begins(kind)
  BY DEF Window!BeginWindowOperation, Window!BeginPageOperation
<1>2. /\ gitRuns' \in [window : Window!Operations, page : Window!Operations]
      /\ Window!Running' > 0
      /\ actionsBusy' = TRUE /\ toolsEnabled' = FALSE
  BY <1>1, RunFacts DEF Window!Begins, Window!SetBusy
<1>3. /\ Ordered(Window!Push(pages, "busy")) /\ Len(Window!Push(pages, "busy")) <= MaxDepth
      /\ ~Window!InStack(pages, "busy") =>
             Window!Visible(Window!Push(pages, "busy")) = "busy"
      /\ Window!InStack(pages, "busy") => Window!Push(pages, "busy") = pages
  BY <1>1, BusyIsPushed
<1>4. /\ pages' = Window!Push(pages, "busy")
      /\ UNCHANGED <<entryShown, undoRuns, reopenRecipients>>
      /\ reopenAfterBusy' \in BOOLEAN
  BY DEF Window!BeginWindowOperation, Window!BeginPageOperation, Window!Shows, WindowInv
<1>5. /\ header' \in WindowPageNames /\ misled' \in BOOLEAN
      /\ (Window!Fits(header', Window!Visible(pages')) \/ misled')
  <2>1. CASE Window!BeginWindowOperation
    <3>1. ~Window!InStack(pages, "busy")
      BY <2>1 DEF WindowInv, Window!BeginWindowOperation
    <3> QED
      BY <1>3, <1>4, <2>1, <3>1
         DEF Window!BeginWindowOperation, Window!Shows, Window!Fits, WindowBounds
  <2>2. CASE Window!BeginPageOperation
    <3>1. header' = header /\ misled' = misled
      BY <2>2 DEF Window!BeginPageOperation
    <3> QED
      BY <1>3, <1>4, <3>1 DEF WindowInv, Window!HeaderIsOfThePage, Window!Fits
  <2> QED
    BY <2>1, <2>2
<1> QED
  BY <1>2, <1>3, <1>4, <1>5
     DEF WindowInv, Window!HeaderIsOfThePage, Window!ABusyWindowIsWorking

LEMMA OperationsEnd ==
    ASSUME WindowBounds, WindowInv, Window!EndWindowOperation \/ Window!EndPageOperation
    PROVE  WindowInv'
<1>1. PICK kind \in {"window", "page"} : Window!Ends(kind)
  BY DEF Window!EndWindowOperation, Window!EndPageOperation
<1>2. /\ gitRuns' \in [window : Window!Operations, page : Window!Operations]
      /\ actionsBusy' = FALSE /\ toolsEnabled' = TRUE
  BY <1>1, RunFacts DEF Window!Ends, Window!SetBusy
<1>3. PICK s : s = Window!FinishTransientPage(pages)
  OBVIOUS
<1>4. Ordered(pages) /\ Len(pages) <= MaxDepth /\ Len(pages) \in Nat /\ MaxDepth \in Nat
  BY DEF WindowInv, Ordered, WindowBounds
<1>5. Ordered(s) /\ Len(s) <= Len(pages) /\ ~Window!InStack(s, "busy") /\ Len(s) \in Nat
  BY <1>3, <1>4, FinishIsOrdered DEF Ordered
<1>6. /\ pages' = s
      /\ UNCHANGED <<entryShown, undoRuns, reopenRecipients>>
      /\ reopenAfterBusy' \in BOOLEAN
  BY <1>3
     DEF Window!EndWindowOperation, Window!EndPageOperation, Window!Shows,
         Window!ShowsBlindly, WindowInv
<1>7. /\ header' \in WindowPageNames /\ misled' \in BOOLEAN
      /\ (Window!Fits(header', Window!Visible(pages')) \/ misled')
  <2>1. CASE Window!EndWindowOperation
    <3>1. header' = Window!Restored(s) /\ misled' = FALSE
      BY <1>3, <2>1 DEF Window!EndWindowOperation, Window!Shows
    <3> QED
      BY <1>5, <1>6, <3>1, RestoredFits
  <2>2. CASE Window!EndPageOperation
    <3>1. PICK h : h = IF reopenAfterBusy THEN "storeGit" ELSE header
      OBVIOUS
    <3>2. h \in WindowPageNames
      BY <3>1 DEF WindowInv, WindowBounds
    <3>3. header' = h /\ misled' = ~Window!Fits(h, Window!Visible(s))
      BY <1>3, <2>2, <3>1 DEF Window!EndPageOperation, Window!ShowsBlindly
    <3>4. misled' \in BOOLEAN
      BY <3>3
    <3> QED
      BY <1>6, <3>2, <3>3, <3>4
  <2> QED
    BY <2>1, <2>2
<1>8. Len(s) <= MaxDepth
  BY <1>4, <1>5
<1> QED
  BY <1>2, <1>5, <1>6, <1>7, <1>8
     DEF WindowInv, Window!HeaderIsOfThePage, Window!ABusyWindowIsWorking

LEMMA WindowStart == ASSUME WindowBounds, Window!Init PROVE WindowInv
<1>1. gitRuns \in [window : Window!Operations, page : Window!Operations]
  BY DEF Window!Init, WindowBounds, Window!Operations
<1>2. /\ Ordered(pages) /\ Len(pages) = 1 /\ Window!Visible(pages) = "root"
      /\ ~Window!InStack(pages, "busy") /\ "root" \in WindowPageNames
  BY RootIsOrdered DEF Window!Init, WindowBounds
<1>3. Len(pages) <= MaxDepth
  BY <1>2 DEF WindowBounds
<1> QED
  BY <1>1, <1>2, <1>3
     DEF Window!Init, WindowInv, EntryStates, UndoStates, Window!HeaderIsOfThePage,
                          Window!ABusyWindowIsWorking, Window!Fits

LEMMA WindowStep ==
    ASSUME WindowBounds, WindowInv, [Window!Next]_(Window!windowVars)
    PROVE  WindowInv'
<1>1. CASE UNCHANGED Window!windowVars
  BY <1>1
     DEF WindowInv, Window!windowVars, Window!HeaderIsOfThePage,
         Window!ABusyWindowIsWorking, Window!Running
<1>2. CASE Window!Next
  BY <1>2, OpeningsKeep, MakeKeyKeeps, BacksKeep, AnswersKeep, OperationsBegin,
     OperationsEnd
     DEF Window!Next, Window!UserSteps, Window!Answers
<1> QED
  BY <1>1, <1>2

\* What the invariant shows.
LEMMA WindowShows ==
    ASSUME WindowInv
    PROVE  Window!TypeOK /\ Window!HeaderIsOfThePage /\ Window!ABusyWindowIsWorking
<1>1. /\ pages \in Seq(WindowPageNames) /\ Len(pages) \in Nat \ {0}
      /\ Len(pages) <= MaxDepth
      /\ DOMAIN pages = 1..Len(pages)
      /\ \A i, j \in 1..Len(pages) : pages[i] = pages[j] => i = j
      /\ pages[1] = "root"
  BY DEF WindowInv, Ordered
<1>2. Window!IsInjective(pages)
  BY <1>1 DEF Window!IsInjective
<1>3. \A i \in 1..Len(pages) : pages[i] \in WindowPageNames /\ (pages[i] = "root" <=> i = 1)
  BY <1>1
<1>4. Len(pages) \in 1..MaxDepth
  BY <1>1
<1> QED
  BY <1>2, <1>3, <1>4 DEF WindowInv, Window!TypeOK, EntryStates, UndoStates

\* A Git operation that begins or ends keeps the page the user sees, or covers it.
LEMMA FinishStep ==
    ASSUME WindowBounds, WindowInv, [Window!Next]_(Window!windowVars), gitRuns' # gitRuns,
           Window!Visible(pages) # "busy"
    PROVE  Window!Visible(pages') \in {Window!Visible(pages), "busy"}
<1>1. \/ Window!BeginWindowOperation \/ Window!BeginPageOperation
      \/ Window!EndWindowOperation \/ Window!EndPageOperation
  BY DEF Window!windowVars, Window!Next, Window!UserSteps, Window!Answers, Window!gitVars,
     Window!OpenByShortcut, Window!OpenTool, Window!OpenDocument,
         Window!OpenTools, Window!OpenValuesOfField, Window!ApplyRootSearch,
         Window!OpenImport, Window!OpenRecipients, Window!OpenStoreGit,
         Window!OpenMakeKey, Window!OpenEntry, Window!NewEntry, Window!OpenRaw,
         Window!BackFromBusy, Window!CloseMakeKey, Window!Back, Window!GoHome,
         Window!StartUndo, Window!EntryIsRead, Window!EntryCannotBeRead,
         Window!EntryIsUnlocked, Window!UndoEnds, Window!ImportEnds
<1>2. CASE Window!BeginWindowOperation \/ Window!BeginPageOperation
  <2>1. PICK kind \in {"window", "page"} : Window!Begins(kind)
    BY <1>2 DEF Window!BeginWindowOperation, Window!BeginPageOperation
  <2>2. pages' = Window!Push(pages, "busy")
    BY <1>2 DEF Window!BeginWindowOperation, Window!BeginPageOperation, Window!Shows
  <2> QED
    BY <2>1, <2>2, BusyIsPushed
<1>3. CASE Window!EndWindowOperation \/ Window!EndPageOperation
  <2>1. pages' = Window!FinishTransientPage(pages) /\ Ordered(pages)
    BY <1>3
       DEF Window!EndWindowOperation, Window!EndPageOperation, Window!Shows,
           Window!ShowsBlindly, WindowInv
  <2> QED
    BY <2>1, FinishIsOrdered
<1> QED
  BY <1>1, <1>2, <1>3

-----------------------------------------------------------------------------
(* The commands that are run *)

CommandBounds == PipeSize \in Nat /\ MaxBytes \in Nat

ThreadStates == {"none", "works", "ok", "failed"}

\* No byte is lost between the child and the readers, a reader that ended well drained
\* its pipe and outlived all who could fill it, and what the task has joined ended well.
CommandInv ==
    /\ Command!TypeOK
    /\ \A p \in Command!Outputs :
           /\ taken[p] + pipe[p] = written[p]
           /\ (threads[p] = "ok" => (pipe[p] = 0 /\ ~Command!SomeoneHolds))
           /\ (child.doing = p => written[p] < MaxBytes)
    /\ threads["stdin"] \in {"none", "ok"} => input = 0
    /\ task.at \in {"none", "start"} => threads = Command!Working({})
    /\ task.at \in {"stderr", "stdin"} => threads["stdout"] = "ok"
    /\ task.at = "stdin" => threads["stderr"] = "ok"
    /\ task.answer = "output" => (/\ task.at = "ended"
                                  /\ \A p \in Command!Outputs : threads[p] = "ok"
                                  /\ threads["stdin"] \in {"none", "ok"})

LEMMA CommandStart == ASSUME CommandBounds, Command!Init PROVE CommandInv
BY DEF CommandBounds, Command!Init, CommandInv, Command!TypeOK, Command!Outputs,
   Command!Pipes, Command!Working, Command!SomeoneHolds

LEMMA PipeFacts ==
    /\ Command!Outputs = {"stdout", "stderr"}
    /\ Command!Pipes = {"stdout", "stderr", "stdin"}
    /\ \A some \in SUBSET Command!Pipes :
           Command!Working(some) \in [Command!Pipes -> ThreadStates]
BY DEF Command!Outputs, Command!Pipes, Command!Working, ThreadStates

\* The task goes on, and the pipes and threads are as they were.
LEMMA TaskKeeps ==
    ASSUME CommandBounds, CommandInv,
           \/ Command!SpawnResultTask \/ Command!WaitForChild \/ Command!WaitFails
           \/ Command!JoinWriter \/ Command!Poll
           \/ \E p \in Command!Outputs : Command!JoinReader(p)
    PROVE  CommandInv'
<1>1. UNCHANGED <<child, pipe, input, written, taken, threads>>
  BY DEF Command!SpawnResultTask, Command!WaitForChild, Command!WaitFails,
     Command!JoinWriter, Command!Poll, Command!JoinReader
<1>2. /\ task \in [at :
                   {"none", "start", "wait", "stdout", "stderr", "stdin", "ended", "died"},
                   answer : {"none", "output", "notStarted", "notWaited", "notRead",
                             "notFed"}]
      /\ handled \in {"none", "result", "disconnect"}
  BY DEF CommandInv, Command!TypeOK
<1>3. /\ task' \in
             [at : {"none", "start", "wait", "stdout", "stderr", "stdin", "ended", "died"},
                    answer : {"none", "output", "notStarted", "notWaited", "notRead",
                              "notFed"}]
      /\ handled' \in {"none", "result", "disconnect"}
      /\ task'.at \in {"none", "start"} => task.at \in {"none", "start"}
      /\ task'.at \in {"stderr", "stdin"} =>
             (threads["stdout"] = "ok" /\ (task'.at = "stdin" => threads["stderr"] = "ok"))
      /\ task'.answer = "output" => (/\ task'.at = "ended"
                                     /\ \A p \in Command!Outputs : threads[p] = "ok"
                                     /\ threads["stdin"] \in {"none", "ok"})
  <2>1. CASE Command!SpawnResultTask
    BY <1>2, <2>1 DEF Command!SpawnResultTask, CommandInv
  <2>2. CASE Command!WaitForChild
    BY <1>2, <2>2 DEF Command!WaitForChild, CommandInv
  <2>3. CASE Command!WaitFails
    BY <1>2, <2>3 DEF Command!WaitFails, Command!Answers
  <2>4. CASE Command!JoinWriter
    BY <1>2, <2>4, PipeFacts DEF Command!JoinWriter, Command!Answers, CommandInv
  <2>5. CASE Command!Poll
    BY <1>2, <2>5 DEF Command!Poll, CommandInv
  <2>6. ASSUME NEW p \in Command!Outputs, Command!JoinReader(p)
        PROVE  /\ task'.at \in {"stderr", "stdin", "ended"} /\ handled' = handled
               /\ task'.answer # "output"
               /\ task' \in
                      [at : {"none", "start", "wait", "stdout", "stderr", "stdin", "ended",
                             "died"},
                    answer : {"none", "output", "notStarted", "notWaited", "notRead",
                              "notFed"}]
               /\ task'.at \in {"stderr", "stdin"} =>
                   (threads["stdout"] =
                    "ok" /\ (task'.at = "stdin" => threads["stderr"] = "ok"))
    BY <1>2, <2>6, PipeFacts
       DEF Command!JoinReader, Command!Following, Command!Answers, CommandInv
  <2> QED
    BY <1>2, <2>1, <2>2, <2>3, <2>4, <2>5, <2>6 DEF CommandInv
<1> QED
  BY <1>1, <1>3 DEF CommandInv, Command!TypeOK, Command!SomeoneHolds

LEMMA StartKeeps ==
    ASSUME CommandBounds, CommandInv, Command!StartCommand \/ Command!RunAnother
    PROVE  CommandInv'
<1>1. CASE Command!RunAnother
  BY <1>1
     DEF Command!RunAnother, CommandBounds, CommandInv, Command!TypeOK, Command!Outputs,
         Command!Pipes, Command!Working, Command!SomeoneHolds
<1>2. CASE Command!StartCommand
  <2>1. /\ task.at = "start" /\ threads = Command!Working({}) /\ threads["stdin"] = "none"
        /\ input = 0
        /\ task.answer # "output"
    BY <1>2 DEF Command!StartCommand, CommandInv, Command!Working, Command!Pipes
  <2>2. /\ UNCHANGED <<pipe, written, taken, handled>>
        /\ task' \in
               [at : {"none", "start", "wait", "stdout", "stderr", "stdin", "ended",
                      "died"},
                    answer : {"none", "output", "notStarted", "notWaited", "notRead",
                              "notFed"}]
        /\ task'.at \in {"wait", "ended", "died"} /\ task'.answer # "output"
        /\ child' \in
               [at : {"none", "runs", "heir", "ended"}, doing : Command!Pipes \cup {"none"}]
        /\ child'.doing = child.doing
    BY <1>2, <2>1 DEF Command!StartCommand, Command!Answers, CommandInv, Command!TypeOK
  <2>3. /\ threads' \in [Command!Pipes -> {"none", "works"}]
        /\ input' \in 0..MaxBytes
        /\ threads'["stdin"] = "none" => input' = 0
    <3>1. CASE UNCHANGED <<input, threads>>
      BY <2>1, <3>1 DEF Command!Working, CommandBounds
    <3>2. CASE threads' = Command!Working(Command!Outputs) /\ UNCHANGED input
      BY <2>1, <3>2 DEF Command!Working, CommandBounds
    <3>3. CASE threads' = Command!Working(Command!Pipes) /\ input' \in 0..MaxBytes
      BY <3>3 DEF Command!Working, Command!Pipes
    <3>4. ASSUME NEW some \in {{}, {"stdout"}, Command!Outputs}, threads' =
                     Command!Working(some), UNCHANGED input
          PROVE  threads' \in [Command!Pipes -> {"none", "works"}] /\ input' = 0
      BY <2>1, <3>4 DEF Command!Working
    <3> QED
      BY <1>2, <3>1, <3>2, <3>3, <3>4 DEF Command!StartCommand, CommandBounds
  <2>4. /\ threads' \in [Command!Pipes -> {"none", "works", "ok", "failed"}]
        /\ threads'["stdin"] \in {"none", "ok"} => input' = 0
        /\ \A p \in Command!Outputs : threads'[p] # "ok"
    BY <2>3 DEF Command!Pipes, Command!Outputs
  <2> QED
    BY <2>2, <2>3, <2>4 DEF CommandInv, Command!TypeOK
<1> QED
  BY <1>1, <1>2

\* A thread or the child moves bytes, ends or turns; the task waits.
LEMMA MovesKeep ==
    ASSUME CommandBounds, CommandInv, UNCHANGED task, UNCHANGED handled,
           pipe' \in [Command!Pipes -> 0..PipeSize], input' \in 0..MaxBytes,
           written' \in [Command!Outputs -> 0..MaxBytes],
           taken' \in [Command!Outputs -> 0..MaxBytes],
           threads' \in [Command!Pipes -> ThreadStates],
           child' \in
               [at : {"none", "runs", "heir", "ended"}, doing :
                Command!Pipes \cup {"none"}],
           \A p \in Command!Outputs :
               /\ taken'[p] + pipe'[p] = written'[p]
               /\ (threads'[p] = "ok" => (pipe'[p] = 0 /\ ~Command!SomeoneHolds'))
               /\ (child'.doing = p => written'[p] < MaxBytes),
           threads'["stdin"] \in {"none", "ok"} => input' = 0,
           \A p \in Command!Pipes : threads[p] # "works" => threads'[p] = threads[p]
    PROVE  CommandInv'
<1>1. ~(task.at \in {"none", "start"}) \/ threads' = threads
  <2> SUFFICES ASSUME task.at \in {"none", "start"} PROVE threads' = threads
    OBVIOUS
  <2>1. threads = Command!Working({})
    BY DEF CommandInv
  <2>2. \A p \in Command!Pipes : threads[p] = "none" /\ threads'[p] = threads[p]
    BY <2>1 DEF Command!Working
  <2>3. threads \in [Command!Pipes -> ThreadStates]
    BY DEF CommandInv, Command!TypeOK, ThreadStates
  <2> QED
    BY <2>2, <2>3
<1>2. \A p \in Command!Pipes : threads[p] \in {"none", "ok"} => threads'[p] = threads[p]
  OBVIOUS
<1> QED
  BY <1>1, <1>2, PipeFacts DEF CommandInv, Command!TypeOK, ThreadStates

LEMMA MoveFacts ==
    ASSUME CommandBounds, CommandInv
    PROVE  /\ PipeSize \in Nat /\ MaxBytes \in Nat
           /\ pipe \in [Command!Pipes -> 0..PipeSize] /\ input \in 0..MaxBytes
           /\ written \in [Command!Outputs -> 0..MaxBytes]
           /\ taken \in [Command!Outputs -> 0..MaxBytes]
           /\ threads \in [Command!Pipes -> ThreadStates]
           /\ child \in
                  [at : {"none", "runs", "heir", "ended"}, doing :
                   Command!Pipes \cup {"none"}]
           /\ \A p \in Command!Outputs :
                  /\ taken[p] + pipe[p] = written[p]
                  /\ (threads[p] = "ok" => (pipe[p] = 0 /\ ~Command!SomeoneHolds))
                  /\ (child.doing = p => written[p] < MaxBytes)
           /\ threads["stdin"] \in {"none", "ok"} => input = 0
           /\ \A p \in Command!Outputs : p \in Command!Pipes /\ p # "stdin"
BY PipeFacts DEF CommandBounds, CommandInv, Command!TypeOK, ThreadStates

LEMMA ThreadsKeep ==
    ASSUME CommandBounds, CommandInv,
           Command!WriteInput \/ \E p \in Command!Outputs :
               (Command!ReadOutput(p) \/ Command!ReadFails(p))
    PROVE  CommandInv'
<1>1. /\ PipeSize \in Nat /\ MaxBytes \in Nat
      /\ pipe \in [Command!Pipes -> 0..PipeSize] /\ input \in 0..MaxBytes
      /\ written \in [Command!Outputs -> 0..MaxBytes]
      /\ taken \in [Command!Outputs -> 0..MaxBytes]
      /\ threads \in [Command!Pipes -> ThreadStates]
      /\ child \in
             [at : {"none", "runs", "heir", "ended"}, doing : Command!Pipes \cup {"none"}]
      /\ \A p \in Command!Outputs :
             /\ taken[p] + pipe[p] = written[p]
             /\ (threads[p] = "ok" => (pipe[p] = 0 /\ ~Command!SomeoneHolds))
             /\ (child.doing = p => written[p] < MaxBytes)
      /\ threads["stdin"] \in {"none", "ok"} => input = 0
      /\ \A p \in Command!Outputs : p \in Command!Pipes /\ p # "stdin"
  BY MoveFacts
<1>2. CASE Command!WriteInput
  <2>1. /\ threads["stdin"] = "works" /\ UNCHANGED <<task, child, written, taken, handled>>
        /\ "stdin" \in Command!Pipes
    BY <1>2 DEF Command!WriteInput, Command!Pipes
  <2>2. CASE /\ input > 0 /\ pipe["stdin"] < PipeSize
             /\ pipe' = [pipe EXCEPT !["stdin"] = @ + 1]
             /\ input' = input - 1 /\ UNCHANGED threads
    <3>1. pipe["stdin"] + 1 \in 0..PipeSize /\ input - 1 \in 0..MaxBytes
      BY <1>1, <2>1, <2>2
    <3>2. pipe' \in [Command!Pipes -> 0..PipeSize] /\ \A p \in Command!Outputs :
              pipe'[p] = pipe[p]
      BY <1>1, <2>2, <3>1
    <3> QED
      BY <1>1, <2>1, <2>2, <3>1, <3>2, MovesKeep DEF Command!SomeoneHolds
  <2>3. CASE /\ threads' =
                    [threads EXCEPT !["stdin"] = IF input = 0 THEN "ok" ELSE "failed"]
             /\ UNCHANGED <<pipe, input>>
    <3>1. threads' \in [Command!Pipes -> ThreadStates]
      BY <1>1, <2>3 DEF ThreadStates
    <3>2. /\ \A p \in Command!Pipes \ {"stdin"} : threads'[p] = threads[p]
          /\ threads'["stdin"] \in {"none", "ok"} => input = 0
      BY <1>1, <2>1, <2>3
    <3> QED
      BY <1>1, <2>1, <2>3, <3>1, <3>2, MovesKeep DEF Command!SomeoneHolds
  <2> QED
    BY <1>2, <2>2, <2>3 DEF Command!WriteInput
<1>3. ASSUME NEW p \in Command!Outputs, Command!ReadOutput(p) PROVE CommandInv'
  <2>1. /\ threads[p] = "works" /\ UNCHANGED <<task, child, input, written, handled>>
    BY <1>3 DEF Command!ReadOutput
  <2>2. CASE /\ taken' = [taken EXCEPT ![p] = @ + pipe[p]]
             /\ pipe' = [pipe EXCEPT ![p] = 0] /\ UNCHANGED threads
    <3>1. taken[p] + pipe[p] \in 0..MaxBytes /\ 0 \in 0..PipeSize
      BY <1>1
    <3>2. /\ taken' \in [Command!Outputs -> 0..MaxBytes]
          /\ pipe' \in [Command!Pipes -> 0..PipeSize]
          /\ taken'[p] = taken[p] + pipe[p] /\ pipe'[p] = 0
          /\ \A q \in Command!Outputs \ {p} : taken'[q] = taken[q] /\ pipe'[q] = pipe[q]
      BY <1>1, <2>2, <3>1
    <3>3. taken'[p] + pipe'[p] = written[p]
      BY <1>1, <3>2
    <3> QED
      BY <1>1, <2>1, <2>2, <3>2, <3>3, MovesKeep DEF Command!SomeoneHolds
  <2>3. CASE /\ pipe[p] = 0 /\ ~Command!SomeoneHolds
             /\ threads' = [threads EXCEPT ![p] = "ok"] /\ UNCHANGED <<pipe, taken>>
    <3>1. threads' \in [Command!Pipes -> ThreadStates] /\ \A q \in Command!Pipes \ {p} :
              threads'[q] = threads[q]
      BY <1>1, <2>3 DEF ThreadStates
    <3>2. \A q \in Command!Outputs : threads'[q] = "ok" =>
              (pipe[q] = 0 /\ ~Command!SomeoneHolds)
      BY <1>1, <2>3, <3>1
    <3>3. threads'["stdin"] = threads["stdin"]
      BY <1>1, <3>1 DEF Command!Pipes
    <3> QED
      BY <1>1, <2>1, <2>3, <3>1, <3>2, <3>3, MovesKeep DEF Command!SomeoneHolds
  <2> QED
    BY <1>3, <2>2, <2>3 DEF Command!ReadOutput
<1>4. ASSUME NEW p \in Command!Outputs, Command!ReadFails(p) PROVE CommandInv'
  <2>1. /\ threads[p] = "works" /\ threads' = [threads EXCEPT ![p] = "failed"]
        /\ UNCHANGED <<task, child, pipe, input, written, taken, handled>>
    BY <1>4 DEF Command!ReadFails
  <2>2. threads' \in [Command!Pipes -> ThreadStates] /\ \A q \in Command!Pipes \ {p} :
            threads'[q] = threads[q]
    BY <1>1, <2>1 DEF ThreadStates
  <2>3. \A q \in Command!Outputs : threads'[q] = "ok" => threads[q] = "ok"
    BY <1>1, <2>1, <2>2
  <2>4. threads'["stdin"] = threads["stdin"]
    BY <1>1, <2>2 DEF Command!Pipes
  <2> QED
    BY <1>1, <2>1, <2>2, <2>3, <2>4, MovesKeep DEF Command!SomeoneHolds
<1> QED
  BY <1>2, <1>3, <1>4

LEMMA ChildKeeps ==
    ASSUME CommandBounds, CommandInv,
           \/ \E p \in Command!Pipes : Command!ChildTurnsTo(p)
           \/ Command!ChildReads
           \/ \E p \in Command!Outputs : Command!ChildWrites(p)
           \/ Command!ChildEnds
    PROVE  CommandInv'
<1>1. /\ PipeSize \in Nat /\ MaxBytes \in Nat
      /\ pipe \in [Command!Pipes -> 0..PipeSize] /\ input \in 0..MaxBytes
      /\ written \in [Command!Outputs -> 0..MaxBytes]
      /\ taken \in [Command!Outputs -> 0..MaxBytes]
      /\ threads \in [Command!Pipes -> ThreadStates]
      /\ child \in
             [at : {"none", "runs", "heir", "ended"}, doing : Command!Pipes \cup {"none"}]
      /\ \A p \in Command!Outputs :
             /\ taken[p] + pipe[p] = written[p]
             /\ (threads[p] = "ok" => (pipe[p] = 0 /\ ~Command!SomeoneHolds))
             /\ (child.doing = p => written[p] < MaxBytes)
      /\ threads["stdin"] \in {"none", "ok"} => input = 0
      /\ \A p \in Command!Outputs : p \in Command!Pipes /\ p # "stdin"
  BY MoveFacts
<1>2. ASSUME NEW p \in Command!Pipes, Command!ChildTurnsTo(p) PROVE CommandInv'
  <2>1. /\ child.at = "runs" /\ child' = [child EXCEPT !.doing = p]
        /\ p \in Command!Outputs => written[p] < MaxBytes
        /\ UNCHANGED <<task, pipe, input, written, taken, threads, handled>>
    BY <1>2 DEF Command!ChildTurnsTo, Command!IsFree
  <2>2. /\ child'.at = child.at /\ child'.doing = p
        /\ child' \in
               [at : {"none", "runs", "heir", "ended"}, doing : Command!Pipes \cup {"none"}]
    BY <1>1, <2>1
  <2> QED
    BY <1>1, <2>1, <2>2, MovesKeep DEF Command!SomeoneHolds
<1>3. CASE Command!ChildReads
  <2>1. /\ child' = [child EXCEPT !.doing = "none"]
        /\ UNCHANGED <<task, input, written, taken, threads, handled>>
        /\ \/ pipe["stdin"] > 0 /\ pipe' = [pipe EXCEPT !["stdin"] = @ - 1]
           \/ UNCHANGED pipe
    BY <1>3 DEF Command!ChildReads
  <2>2. pipe' \in [Command!Pipes -> 0..PipeSize] /\ \A p \in Command!Outputs :
            pipe'[p] = pipe[p]
    BY <1>1, <2>1 DEF Command!Pipes
  <2>3. /\ child'.at = child.at /\ child'.doing = "none" /\ "none" \notin Command!Outputs
        /\ child' \in
               [at : {"none", "runs", "heir", "ended"}, doing : Command!Pipes \cup {"none"}]
    BY <1>1, <2>1 DEF Command!Outputs
  <2> QED
    BY <1>1, <2>1, <2>2, <2>3, MovesKeep DEF Command!SomeoneHolds
<1>4. ASSUME NEW p \in Command!Outputs, Command!ChildWrites(p) PROVE CommandInv'
  <2>1. child.doing = p /\ UNCHANGED <<task, input, taken, threads, handled>>
    BY <1>4 DEF Command!ChildWrites
  <2>2. CASE /\ threads[p] = "works" /\ pipe[p] < PipeSize
             /\ pipe' = [pipe EXCEPT ![p] = @ + 1]
             /\ written' = [written EXCEPT ![p] = @ + 1]
             /\ child' = [child EXCEPT !.doing = "none"]
    <3>1. pipe[p] + 1 \in 0..PipeSize /\ written[p] + 1 \in 0..MaxBytes
      BY <1>1, <2>1, <2>2
    <3>2. /\ written' \in [Command!Outputs -> 0..MaxBytes]
          /\ pipe' \in [Command!Pipes -> 0..PipeSize]
          /\ written'[p] = written[p] + 1 /\ pipe'[p] = pipe[p] + 1
          /\ \A q \in Command!Outputs \ {p} : written'[q] = written[q] /\ pipe'[q] = pipe[q]
      BY <1>1, <2>2, <3>1
    <3>3. taken[p] + pipe'[p] = written'[p]
      BY <1>1, <3>2
    <3>4. /\ child'.at = child.at /\ child'.doing = "none" /\ "none" \notin Command!Outputs
          /\ child' \in
                 [at : {"none", "runs", "heir", "ended"}, doing :
                  Command!Pipes \cup {"none"}]
      BY <1>1, <2>2 DEF Command!Outputs
    <3> QED
      BY <1>1, <2>1, <2>2, <3>2, <3>3, <3>4, MovesKeep DEF Command!SomeoneHolds
  <2>3. CASE child' = [at |-> "ended", doing |-> "none"] /\ UNCHANGED <<pipe, written>>
    <3>1. /\ ~Command!SomeoneHolds' /\ child'.doing = "none"
          /\ "none" \notin Command!Outputs
          /\ child' \in
                 [at : {"none", "runs", "heir", "ended"}, doing :
                  Command!Pipes \cup {"none"}]
      BY <2>3 DEF Command!SomeoneHolds, Command!Outputs
    <3> QED
      BY <1>1, <2>1, <2>3, <3>1, MovesKeep
  <2> QED
    BY <1>4, <2>2, <2>3 DEF Command!ChildWrites
<1>5. CASE Command!ChildEnds
  <2>1. /\ UNCHANGED <<task, pipe, input, written, taken, threads, handled>>
        /\ Command!SomeoneHolds
        /\ \E at \in {"heir", "ended"} : child' = [child EXCEPT !.at = at]
    BY <1>1, <1>5 DEF Command!ChildEnds, Command!IsFree, Command!SomeoneHolds
  <2>2. /\ child'.doing = child.doing
        /\ child' \in
               [at : {"none", "runs", "heir", "ended"}, doing : Command!Pipes \cup {"none"}]
    BY <1>1, <2>1
  <2> QED
    BY <1>1, <2>1, <2>2, MovesKeep
<1> QED
  BY <1>2, <1>3, <1>4, <1>5

LEMMA CommandStep ==
    ASSUME CommandBounds, CommandInv, [Command!Next]_(Command!commandVars)
    PROVE  CommandInv'
<1>1. CASE UNCHANGED Command!commandVars
  BY <1>1 DEF Command!commandVars, CommandInv, Command!TypeOK, Command!SomeoneHolds
<1>2. CASE Command!Next
  BY <1>2, TaskKeeps, StartKeeps, ThreadsKeep, ChildKeeps
     DEF Command!Next, Command!Works, Command!Faults
<1> QED
  BY <1>1, <1>2

LEMMA CommandShows == ASSUME CommandInv PROVE Command!TypeOK /\ Command!AnswersAreWhole
<1>1. Command!TypeOK
  BY DEF CommandInv
<1>2. ASSUME task.answer = "output"
      PROVE  input = 0 /\ taken = written /\ \A p \in Command!Outputs : pipe[p] = 0
  <2>1. /\ threads["stdin"] \in {"none", "ok"}
        /\ \A p \in Command!Outputs : pipe[p] = 0 /\ taken[p] + pipe[p] = written[p]
    BY <1>2 DEF CommandInv
  <2>2. /\ written \in [Command!Outputs -> 0..MaxBytes]
        /\ taken \in [Command!Outputs -> 0..MaxBytes]
    BY <1>1 DEF Command!TypeOK
  <2>3. \A p \in Command!Outputs : taken[p] = written[p]
    <3> TAKE p \in Command!Outputs
    <3>1. taken[p] \in Nat /\ pipe[p] = 0 /\ taken[p] + pipe[p] = written[p]
      BY <2>1, <2>2
    <3> QED
      BY <3>1
  <2> QED
    BY <2>1, <2>2, <2>3 DEF CommandInv
<1> QED
  BY <1>1, <1>2 DEF Command!AnswersAreWhole

-----------------------------------------------------------------------------
(* The list of stores *)

ListBounds == MaxPicks \in Nat /\ MaxImports \in Nat /\ MaxFolderChanges \in Nat

\* Of the imports there is one while the page is busy, and none otherwise.
OneImport ==
    /\ importPage.busy => \E im : imports = {im}
    /\ ~importPage.busy => imports = {}

ListInv == List!TypeOK /\ List!StoresAreKept /\ OneImport

LEMMA ListStart == ASSUME ListBounds, List!Init PROVE ListInv
<1>1. storeCount \in
          [picks : 0..MaxPicks, imports : 0..MaxImports, outside : 0..MaxFolderChanges]
  BY DEF ListBounds, List!Init
<1>2. List!TypeOK
  BY <1>1 DEF List!Init, List!TypeOK
<1> QED
  BY <1>2 DEF List!Init, ListInv, List!StoresAreKept, OneImport

LEMMA CountsKept ==
    ASSUME ListBounds, List!TypeOK, List!Pick \/ List!Outside \/ UNCHANGED storeCount
    PROVE  storeCount' \in [picks : 0..MaxPicks, imports : 0..MaxImports,
                            outside : 0..MaxFolderChanges]
BY DEF ListBounds, List!TypeOK, List!Pick, List!Outside

\* What is read is the list there is, unless that could not be read.
LEMMA ReadFacts ==
    ASSUME List!TypeOK, NEW stores \in SUBSET Stores, List!ReadStores(stores)
    PROVE  misread' \in BOOLEAN /\ (~misread' => ~misread /\ stores = configured)
BY DEF List!TypeOK, List!ReadStores

\* Steps of the list leave the import page alone.
LEMMA ListChanges ==
    ASSUME ListBounds, ListInv, folders' \in [Stores -> {"missing", "empty", "full"}],
           configured' \subseteq Stores, wanted' \subseteq Stores, misread' \in BOOLEAN,
           ~misread' => configured' = wanted',
           rows' \in [StoreWindows -> SUBSET Stores],
           creating' \in [StoreWindows -> Stores \cup {List!NoStore}],
           working' \subseteq List!Jobs, UNCHANGED <<importPage, imports>>,
           List!Pick \/ List!Outside \/ UNCHANGED storeCount
    PROVE  ListInv'
<1>1. List!TypeOK'
  BY CountsKept DEF ListInv, List!TypeOK
<1> QED
  BY <1>1 DEF ListInv, List!StoresAreKept, OneImport

LEMMA PreferencesKeep ==
    ASSUME ListBounds, ListInv, NEW w \in StoreWindows,
           \/ List!PruneMissingStores(w) \/ List!ClickDelete(w)
           \/ List!PromptAddOrCreateStore(w)
    PROVE  ListInv'
<1>1. List!TypeOK /\ (~misread => configured = wanted)
  BY DEF ListInv, List!StoresAreKept
<1>2. configured' \subseteq Stores =>
          [rows EXCEPT ![w] = configured'] \in [StoreWindows -> SUBSET Stores]
  BY <1>1 DEF List!TypeOK
<1>3. CASE List!PruneMissingStores(w)
  <2>1. PICK stores \in SUBSET Stores :
           /\ List!ReadStores(stores)
           /\ LET existing == {s \in stores : List!StoreDirExists(s)}
              IN IF existing = stores THEN UNCHANGED <<configured, wanted>>
                 ELSE \/ List!SetStores(existing) /\ List!Forget(stores \ existing)
                      \/ UNCHANGED <<configured, wanted>>
    BY <1>3 DEF List!PruneMissingStores
  <2>2. misread' \in BOOLEAN /\ (~misread' => ~misread /\ stores = configured)
    BY <1>1, <2>1, ReadFacts
  <2>3. PICK existing \in SUBSET stores :
            \/ UNCHANGED <<configured, wanted>>
            \/ configured' = existing /\ wanted' = wanted \ (stores \ existing)
    BY <2>1 DEF List!SetStores, List!Forget
  <2>4. /\ configured' \subseteq Stores /\ wanted' \subseteq Stores
        /\ ~misread' => configured' = wanted'
    BY <1>1, <2>2, <2>3 DEF List!TypeOK
  <2>5. rows' \in [StoreWindows -> SUBSET Stores]
    BY <1>2, <1>3, <2>4 DEF List!PruneMissingStores, List!RebuildStoresList
  <2> QED
    BY <1>1, <1>3, <2>2, <2>4, <2>5, ListChanges DEF List!PruneMissingStores, List!TypeOK
<1>4. CASE List!ClickDelete(w)
  <2>1. PICK s \in rows[w], stores \in SUBSET Stores :
           /\ List!ReadStores(stores)
           /\ \/ /\ s \in stores
                 /\ List!SetStores(List!UpdatedStoresAfterDelete(w, stores, s))
                 /\ List!Forget({s})
                 /\ List!RebuildStoresList(w)
              \/ UNCHANGED <<configured, wanted, rows>>
    BY <1>4 DEF List!ClickDelete
  <2>2. misread' \in BOOLEAN /\ (~misread' => ~misread /\ stores = configured)
    BY <1>1, <2>1, ReadFacts
  <2>3. /\ configured' \subseteq Stores /\ wanted' \subseteq Stores
        /\ ~misread' => configured' = wanted'
    BY <1>1, <2>1, <2>2
       DEF List!TypeOK, List!SetStores, List!UpdatedStoresAfterDelete, List!Forget
  <2>4. rows' \in [StoreWindows -> SUBSET Stores]
    BY <1>1, <1>2, <2>1, <2>3 DEF List!RebuildStoresList, List!TypeOK
  <2> QED
    BY <1>1, <1>4, <2>2, <2>3, <2>4, ListChanges DEF List!ClickDelete, List!TypeOK
<1>5. CASE List!PromptAddOrCreateStore(w)
  <2>1. PICK s \in Stores :
           \/ List!AddExisting(w, s)
           \/ List!CreateNew(w, s)
           \/ UNCHANGED <<configured, wanted, misread, rows, creating>>
    BY <1>5 DEF List!PromptAddOrCreateStore
  <2>2. /\ configured' \subseteq Stores /\ wanted' \subseteq Stores /\ misread' \in BOOLEAN
        /\ ~misread' => configured' = wanted'
    <3>1. CASE List!AddExisting(w, s)
      <4>1. PICK stores \in SUBSET Stores :
                List!ReadStores(stores) /\ List!SetStores(stores \cup {s}) /\ List!Keep({s})
        BY <3>1 DEF List!AddExisting
      <4>2. misread' \in BOOLEAN /\ (~misread' => ~misread /\ stores = configured)
        BY <1>1, <4>1, ReadFacts
      <4> QED
        BY <1>1, <4>1, <4>2 DEF List!TypeOK, List!SetStores, List!Keep
    <3> QED
      BY <1>1, <2>1, <3>1 DEF List!CreateNew, List!TypeOK
  <2>3. rows' \in [StoreWindows -> SUBSET Stores]
    BY <1>1, <1>2, <2>1, <2>2
       DEF List!AddExisting, List!CreateNew, List!RebuildStoresList, List!TypeOK
  <2>4. creating' \in [StoreWindows -> Stores \cup {List!NoStore}]
    BY <1>1, <2>1 DEF List!AddExisting, List!CreateNew, List!TypeOK
  <2> QED
    BY <1>1, <1>5, <2>2, <2>3, <2>4, ListChanges
       DEF List!PromptAddOrCreateStore, List!TypeOK
<1> QED
  BY <1>3, <1>4, <1>5

LEMMA SavesBegin ==
    ASSUME ListBounds, ListInv, NEW w \in
           StoreWindows, List!SaveCreated(w) \/ List!StartStoreClone(w)
    PROVE  ListInv'
<1>1. List!TypeOK /\ (~misread => configured = wanted)
  BY DEF ListInv, List!StoresAreKept
<1>2. /\ working' \subseteq List!Jobs
      /\ creating' \in [StoreWindows -> Stores \cup {List!NoStore}]
  <2>1. CASE List!SaveCreated(w)
    <3>1. creating[w] \in Stores
      BY <1>1, <2>1 DEF List!SaveCreated, List!TypeOK
    <3>2. working' = working \cup {[kind |-> "save", window |-> w, store |-> creating[w],
                                   menu |-> FALSE, at |-> "runs"]}
      BY <2>1 DEF List!SaveCreated
    <3>3. [kind |-> "save", window |-> w, store |-> creating[w], menu |-> FALSE,
           at |-> "runs"] \in List!Jobs
      BY <3>1 DEF List!Jobs
    <3>4. creating' = [creating EXCEPT ![w] = List!NoStore]
      BY <2>1 DEF List!SaveCreated
    <3> QED
      BY <1>1, <3>2, <3>3, <3>4 DEF List!TypeOK
  <2>2. CASE List!StartStoreClone(w)
    <3>1. PICK s \in Stores, menu \in BOOLEAN :
             working' = working \cup {[kind |-> "clone", window |-> w, store |-> s,
                                       menu |-> menu, at |-> "runs"]}
      BY <2>2 DEF List!StartStoreClone
    <3> QED
      BY <1>1, <2>2, <3>1 DEF List!StartStoreClone, List!TypeOK, List!Jobs
  <2> QED
    BY <2>1, <2>2
<1> QED
  BY <1>1, <1>2, ListChanges DEF List!SaveCreated, List!StartStoreClone, List!TypeOK

LEMMA WorkersKeep ==
    ASSUME ListBounds, ListInv, NEW j \in
           working, List!WorkerEnds(j) \/ List!WorkerAnswered(j)
    PROVE  ListInv'
<1>1. List!TypeOK /\ (~misread => configured = wanted) /\ j \in List!Jobs
  BY DEF ListInv, List!StoresAreKept, List!TypeOK
<1>2. CASE List!WorkerEnds(j)
  <2>1. /\ [j EXCEPT !.at = "ok"] \in List!Jobs /\ [j EXCEPT !.at = "failed"] \in List!Jobs
        /\ j.store \in Stores
    BY <1>1 DEF List!Jobs
  <2>2. /\ working' \subseteq List!Jobs
        /\ folders' \in [Stores -> {"missing", "empty", "full"}]
    BY <1>1, <1>2, <2>1 DEF List!WorkerEnds, List!TypeOK
  <2> QED
    BY <1>1, <1>2, <2>2, ListChanges DEF List!WorkerEnds, List!TypeOK
<1>3. CASE List!WorkerAnswered(j)
  <2>1. j.store \in Stores /\ j.window \in StoreWindows
    BY <1>1 DEF List!Jobs
  <2>2. \/ UNCHANGED <<configured, wanted, misread>>
        \/ \E stores \in SUBSET Stores :
               List!ReadStores(stores) /\ List!SetStores(stores \cup
                                                         {j.store}) /\ List!Keep({j.store})
    BY <1>3 DEF List!WorkerAnswered
  <2>3. /\ configured' \subseteq Stores /\ wanted' \subseteq Stores /\ misread' \in BOOLEAN
        /\ ~misread' => configured' = wanted'
    <3>1. ASSUME NEW stores \in SUBSET Stores, List!ReadStores(stores),
                 List!SetStores(stores \cup {j.store}), List!Keep({j.store})
          PROVE  /\ configured' \subseteq Stores /\ wanted' \subseteq Stores
                 /\ misread' \in BOOLEAN /\ (~misread' => configured' = wanted')
      <4>1. misread' \in BOOLEAN /\ (~misread' => ~misread /\ stores = configured)
        BY <1>1, <3>1, ReadFacts
      <4> QED
        BY <1>1, <2>1, <3>1, <4>1 DEF List!TypeOK, List!SetStores, List!Keep
    <3> QED
      BY <1>1, <2>2, <3>1 DEF List!TypeOK
  <2>4. rows' = rows \/ List!RebuildStoresList(j.window)
    BY <1>3 DEF List!WorkerAnswered
  <2>5. rows' \in [StoreWindows -> SUBSET Stores]
    BY <1>1, <2>1, <2>3, <2>4 DEF List!RebuildStoresList, List!TypeOK
  <2>6. /\ working' \subseteq List!Jobs
        /\ UNCHANGED <<folders, creating, importPage, imports, storeCount>>
    BY <1>1, <1>3 DEF List!WorkerAnswered, List!TypeOK
  <2> QED
    BY <1>1, <2>3, <2>5, <2>6, ListChanges DEF List!TypeOK
<1> QED
  BY <1>2, <1>3

\* Steps of the import page leave the list alone.
LEMMA ImportChanges ==
    ASSUME ListBounds, ListInv,
           UNCHANGED <<folders, configured, wanted, misread, rows, creating, working>>,
           importPage' \in [visible : BOOLEAN, busy : BOOLEAN, roots : SUBSET Stores],
           imports' \subseteq [store : Stores, at : {"runs", "ok", "failed", "lost"}],
           storeCount' \in [picks : 0..MaxPicks, imports : 0..MaxImports,
                            outside : 0..MaxFolderChanges],
           OneImport'
    PROVE  ListInv'
<1>1. List!TypeOK'
  BY DEF ListInv, List!TypeOK
<1> QED
  BY <1>1 DEF ListInv, List!StoresAreKept

LEMMA ImportsKeep ==
    ASSUME ListBounds, ListInv,
           \/ List!ShowPassImportPage \/ List!LeaveImportPage \/ List!StartPassImport
           \/ \E im \in imports : List!ImportRuns(im) \/ List!FinishPassImport(im)
    PROVE  ListInv'
<1>1. /\ importPage \in [visible : BOOLEAN, busy : BOOLEAN, roots : SUBSET Stores]
      /\ imports \subseteq [store : Stores, at : {"runs", "ok", "failed", "lost"}]
      /\ storeCount \in [picks : 0..MaxPicks, imports : 0..MaxImports,
                         outside : 0..MaxFolderChanges]
      /\ configured \subseteq Stores /\ List!TypeOK
      /\ importPage.busy => \E im : imports = {im}
      /\ ~importPage.busy => imports = {}
  BY DEF ListInv, List!TypeOK, OneImport
<1>2. CASE List!ShowPassImportPage
  <2>1. storeCount' \in
            [picks : 0..MaxPicks, imports : 0..MaxImports, outside : 0..MaxFolderChanges]
    BY <1>1, <1>2, CountsKept DEF List!ShowPassImportPage
  <2>2. /\ importPage' \in [visible : BOOLEAN, busy : BOOLEAN, roots : SUBSET Stores]
        /\ importPage'.busy = importPage.busy
    BY <1>1, <1>2 DEF List!ShowPassImportPage
  <2> QED
    BY <1>1, <1>2, <2>1, <2>2, ImportChanges DEF List!ShowPassImportPage, OneImport
<1>3. CASE List!LeaveImportPage
  <2>1. /\ importPage' \in [visible : BOOLEAN, busy : BOOLEAN, roots : SUBSET Stores]
        /\ importPage'.busy = importPage.busy
    BY <1>1, <1>3 DEF List!LeaveImportPage
  <2> QED
    BY <1>1, <1>3, <2>1, ImportChanges DEF List!LeaveImportPage, OneImport
<1>4. CASE List!StartPassImport
  <2>1. PICK s \in importPage.roots : imports' = {[store |-> s, at |-> "runs"]}
    BY <1>1, <1>4 DEF List!StartPassImport
  <2>2. /\ s \in Stores
        /\ imports' \subseteq [store : Stores, at : {"runs", "ok", "failed", "lost"}]
    BY <1>1, <2>1
  <2>3. storeCount' \in
            [picks : 0..MaxPicks, imports : 0..MaxImports, outside : 0..MaxFolderChanges]
    BY <1>1, <1>4 DEF List!StartPassImport, ListBounds
  <2>4. /\ importPage' \in [visible : BOOLEAN, busy : BOOLEAN, roots : SUBSET Stores]
        /\ importPage'.busy
    BY <1>1, <1>4 DEF List!StartPassImport
  <2>5. OneImport'
    BY <2>1, <2>4 DEF OneImport
  <2> QED
    BY <1>4, <2>2, <2>3, <2>4, <2>5, ImportChanges DEF List!StartPassImport
<1>5. ASSUME NEW im \in imports, List!ImportRuns(im) \/ List!FinishPassImport(im)
      PROVE  ListInv'
  <2>1. /\ imports = {im} /\ importPage.busy
        /\ im \in [store : Stores, at : {"runs", "ok", "failed", "lost"}]
    BY <1>1
  <2>2. CASE List!ImportRuns(im)
    <3>1. PICK outcome \in {"ok", "failed", "lost"} :
              imports' = (imports \ {im}) \cup {[im EXCEPT !.at = outcome]}
      BY <2>2 DEF List!ImportRuns
    <3>2. imports' = {[im EXCEPT !.at = outcome]}
      BY <2>1, <3>1
    <3>3. [im EXCEPT !.at = outcome] \in
              [store : Stores, at : {"runs", "ok", "failed", "lost"}]
      BY <2>1
    <3>4. OneImport'
      BY <2>1, <2>2, <3>2 DEF OneImport, List!ImportRuns
    <3> QED
      BY <1>1, <2>2, <3>2, <3>3, <3>4, ImportChanges DEF List!ImportRuns
  <2>3. CASE List!FinishPassImport(im)
    <3>1. imports' = {}
      BY <2>1, <2>3 DEF List!FinishPassImport
    <3>2. /\ importPage' \in [visible : BOOLEAN, busy : BOOLEAN, roots : SUBSET Stores]
          /\ ~importPage'.busy
      <4>1. /\ importPage.visible \in BOOLEAN
            /\ (importPage.visible /\ im.at # "ok") \in BOOLEAN
        BY <1>1
      <4>2. importPage' = [importPage EXCEPT !.busy = FALSE,
                                             !.visible = importPage.visible /\ im.at # "ok"]
        BY <1>1, <2>3 DEF List!FinishPassImport, List!LoadingEnds
      <4> QED
        BY <1>1, <4>1, <4>2
    <3>3. OneImport'
      BY <3>1, <3>2 DEF OneImport
    <3> QED
      BY <1>1, <2>3, <3>1, <3>2, <3>3, ImportChanges DEF List!FinishPassImport
  <2> QED
    BY <1>5, <2>2, <2>3
<1> QED
  BY <1>2, <1>3, <1>4, <1>5

LEMMA ListStep == ASSUME ListBounds, ListInv, [List!Next]_(List!listVars) PROVE ListInv'
<1>1. CASE UNCHANGED List!listVars
  BY <1>1 DEF List!listVars, ListInv, List!TypeOK, List!StoresAreKept, OneImport
<1>2. ASSUME NEW w \in StoreWindows,
             \/ List!PruneMissingStores(w) \/ List!ClickDelete(w)
             \/ List!PromptAddOrCreateStore(w)
             \/ List!SaveCreated(w) \/ List!StartStoreClone(w)
      PROVE  ListInv'
  BY <1>2, PreferencesKeep, SavesBegin
<1>3. ASSUME NEW j \in working, List!WorkerEnds(j) \/ List!WorkerAnswered(j) PROVE ListInv'
  BY <1>3, WorkersKeep
<1>4. CASE \/ List!ShowPassImportPage \/ List!LeaveImportPage \/ List!StartPassImport
           \/ \E im \in imports : List!ImportRuns(im) \/ List!FinishPassImport(im)
  BY <1>4, ImportsKeep
<1>5. CASE List!FolderChanges
  <2>1. folders' \in [Stores -> {"missing", "empty", "full"}]
    BY <1>5 DEF List!FolderChanges, ListInv, List!TypeOK
  <2> QED
    BY <1>5, <2>1, ListChanges
       DEF List!FolderChanges, ListInv, List!TypeOK, List!StoresAreKept
<1> QED
  BY <1>1, <1>2, <1>3, <1>4, <1>5 DEF List!Next

LEMMA ListShows == ASSUME ListInv PROVE List!StoresAreKept /\ List!ABusyImportIsRunning
<1>1. importPage.busy \in BOOLEAN
  BY DEF ListInv, List!TypeOK
<1>2. List!Cardinality(imports) = IF importPage.busy THEN 1 ELSE 0
  <2>1. List!Cardinality(imports) = Cardinality(imports)
    BY DEF Cardinality, List!Cardinality
  <2> QED
    BY <2>1, FS_EmptySet, FS_Singleton DEF ListInv, OneImport
<1>3. importPage.busy = (imports # {})
  BY <1>1 DEF ListInv, OneImport
<1> QED
  BY <1>2, <1>3 DEF ListInv, List!ABusyImportIsRunning

-----------------------------------------------------------------------------
(* The keys a store's page offers *)

RowBounds == MaxClicks \in Nat /\ MaxEvents \in Nat

Inventories ==
    [found : [Offer!Kinds -> SUBSET RowKeys], usable : SUBSET RowKeys, ok : BOOLEAN]
Contexts == [recipients : SUBSET Offer!Recipients, all : BOOLEAN]

Shown == Offer!Context(recipients, requireAll)

\* The recipients that were asked for last.
Asked == IF queued = Offer!NoContext THEN listing.for ELSE queued

\* TypeOK, with the keys that were or are listed, and for whom.
RowsTyped ==
    /\ Offer!TypeOK
    /\ inventory \in Inventories
    /\ listing \in [at : {"none", "managed", "others", "states", "listed"},
                    for : Contexts \cup {Offer!NoContext}, inv : Inventories]
    /\ queued \in Contexts \cup {Offer!NoContext}

\* While the page or its keys load the rows are hidden, and they are listed for the
\* recipients the page has once it was loaded.
ListingInv ==
    /\ pageLoad \/ listing.at # "none" \/ removed # {} => loading
    /\ queued # Offer!NoContext => listing.at # "none"
    /\ loading /\ ~pageLoad => listing.at # "none" /\ Asked = Shown

RowInv == RowsTyped /\ ListingInv /\ Offer!RowsAreOfTheRecipients /\ Offer!ASelectedKeyStays

LEMMA InventoryFacts ==
    /\ Offer!NotListed \in Inventories /\ Offer!NoKeys \in [Offer!Kinds -> SUBSET RowKeys]
    /\ ~Offer!NotListed.ok
    /\ \A inv \in Inventories : Offer!KeysOf(inv) \subseteq RowKeys
    /\ \A c \in Contexts : c # Offer!NoContext
    /\ \A rs \in SUBSET Offer!Recipients, all \in BOOLEAN :
           /\ Offer!Context(rs, all) \in Contexts
           /\ Offer!Context(rs, all).recipients = rs /\ Offer!Context(rs, all).all = all
<1>1. Offer!NoKeys \in [Offer!Kinds -> SUBSET RowKeys]
  BY DEF Offer!NoKeys
<1>2. Offer!NotListed \in Inventories /\ ~Offer!NotListed.ok
  BY <1>1 DEF Offer!NotListed, Offer!Inventory, Inventories
<1>3. ASSUME NEW inv \in Inventories PROVE Offer!KeysOf(inv) \subseteq RowKeys
  BY DEF Inventories, Offer!KeysOf
<1>4. ASSUME NEW c \in Contexts PROVE c # Offer!NoContext
  <2>1. /\ DOMAIN c = {"recipients", "all"}
        /\ DOMAIN Offer!NoContext = {"recipients", "all", "none"}
    BY DEF Contexts, Offer!NoContext
  <2> QED
    BY <2>1
<1>5. ASSUME NEW rs \in SUBSET Offer!Recipients, NEW all \in BOOLEAN
      PROVE  /\ Offer!Context(rs, all) \in Contexts
             /\ Offer!Context(rs, all).recipients = rs /\ Offer!Context(rs, all).all = all
  BY DEF Offer!Context, Contexts
<1> QED
  BY <1>1, <1>2, <1>3, <1>4, <1>5

\* What one source of keys adds.
LEMMA MergedFacts ==
    ASSUME NEW own \in SUBSET RowKeys, NEW others \in SUBSET RowKeys
    PROVE  Offer!Merged(own, others) \in [Offer!Kinds -> SUBSET RowKeys]
<1>1. \A kind \in Offer!Kinds : (CASE kind = "managed" -> own
                                [] (kind = "card") = integrated -> others \ own
                                [] OTHER -> {}) \in SUBSET RowKeys
  OBVIOUS
<1> QED
  BY <1>1 DEF Offer!Merged

LEMMA RowStart == ASSUME RowBounds, Offer!Init PROVE RowInv
<1>1. rowCount \in [clicks : 0..MaxClicks, events : 0..MaxEvents]
  BY DEF RowBounds, Offer!Init
<1>2. /\ Offer!KeysOf(Offer!NotListed) \subseteq RowKeys
      /\ Offer!NotListed.usable \subseteq RowKeys
  BY InventoryFacts DEF Offer!NotListed, Offer!Inventory
<1>3. Offer!TypeOK
  BY <1>1, <1>2 DEF Offer!Init, Offer!TypeOK
<1>4. RowsTyped
  BY <1>3, InventoryFacts DEF Offer!Init, RowsTyped
<1>5. ListingInv
  BY DEF Offer!Init, ListingInv
<1> QED
  BY <1>4, <1>5
     DEF Offer!Init, RowInv, Offer!RowsAreOfTheRecipients, Offer!ASelectedKeyStays,
         Offer!Selected, Offer!KeysOf

\* What does not touch the selection leaves a selected key.
LEMMA SelectionKept ==
    ASSUME Offer!ASelectedKeyStays, UNCHANGED <<recipients, inventory, base, removed,
                                                shared>>
    PROVE  Offer!ASelectedKeyStays'
BY DEF Offer!ASelectedKeyStays, Offer!Selected, Offer!KeysOf

LEMMA EventFacts ==
    ASSUME RowBounds, Offer!TypeOK, Offer!Event \/ Offer!Click \/ UNCHANGED rowCount
    PROVE  rowCount' \in [clicks : 0..MaxClicks, events : 0..MaxEvents]
BY DEF RowBounds, Offer!TypeOK, Offer!Event, Offer!Click

LEMMA ListsKeep == ASSUME RowBounds, RowInv, Offer!ListStep PROVE RowInv'
<1>1. /\ UNCHANGED <<managed, elsewhere, usableKeys, integrated, recipients, requireAll,
                     inventory,
                     keyRows, pageLoad, loading, queued, base, removed, shared>>
      /\ listing.at # "none" /\ listing'.at # "none" /\ listing'.for = listing.for
  <2>1. listing \in [at : {"none", "managed", "others", "states", "listed"},
                     for : Contexts \cup {Offer!NoContext}, inv : Inventories]
    BY DEF RowInv, RowsTyped
  <2> QED
    BY <2>1
       DEF Offer!ListStep, Offer!ListManaged, Offer!ListOthers, Offer!InspectStates,
           Offer!ListingFails, Offer!keyVars
<1>2. listing' \in [at : {"none", "managed", "others", "states", "listed"},
                    for : Contexts \cup {Offer!NoContext}, inv : Inventories]
  <2>1. /\ listing \in [at : {"none", "managed", "others", "states", "listed"},
                        for : Contexts \cup {Offer!NoContext}, inv : Inventories]
        /\ managed \in SUBSET RowKeys /\ elsewhere \in SUBSET RowKeys
        /\ usableKeys \in SUBSET RowKeys
    BY DEF RowInv, RowsTyped, Offer!TypeOK
  <2>2. CASE Offer!ListManaged
    <3>1. [Offer!NoKeys EXCEPT !["managed"] = managed] \in [Offer!Kinds -> SUBSET RowKeys]
      BY <2>1, InventoryFacts DEF Offer!Kinds
    <3>2. Offer!Inventory([Offer!NoKeys EXCEPT !["managed"] = managed], {}, TRUE) \in
              Inventories
      BY <3>1 DEF Offer!Inventory, Inventories
    <3> QED
      BY <2>1, <2>2, <3>2 DEF Offer!ListManaged
  <2>3. CASE Offer!ListOthers
    <3>1. listing.inv \in Inventories /\ listing.inv.found["managed"] \in SUBSET RowKeys
      BY <2>1 DEF Inventories, Offer!Kinds
    <3>2. Offer!Merged(listing.inv.found["managed"], elsewhere) \in
              [Offer!Kinds -> SUBSET RowKeys]
      BY <2>1, <3>1, MergedFacts
    <3>3. [listing.inv EXCEPT !.found =
           Offer!Merged(listing.inv.found["managed"], elsewhere)]
              \in Inventories
      BY <3>1, <3>2 DEF Inventories
    <3>4. listing' = [listing EXCEPT !.at = "states",
             !.inv = [listing.inv EXCEPT !.found =
                      Offer!Merged(listing.inv.found["managed"], elsewhere)]]
      BY <2>1, <2>3 DEF Offer!ListOthers, Inventories
    <3> QED
      BY <2>1, <3>3, <3>4
  <2>4. CASE Offer!InspectStates
    <3> DEFINE usable == (RowKeys \ Protected) \cup usableKeys \cup listing.inv.usable
                           \cup listing.inv.found["host"]
    <3>1. listing.inv \in Inventories /\ usable \in SUBSET RowKeys
      BY <2>1 DEF Inventories, Offer!Kinds
    <3>2. [listing.inv EXCEPT !.usable = usable] \in Inventories
      BY <3>1 DEF Inventories
    <3>3. listing' =
              [listing EXCEPT !.at = "listed", !.inv =
               [listing.inv EXCEPT !.usable = usable]]
      BY <2>1, <2>4 DEF Offer!InspectStates, Inventories
    <3> QED
      BY <2>1, <3>2, <3>3
  <2>5. CASE Offer!ListingFails
    BY <2>1, <2>5, InventoryFacts DEF Offer!ListingFails
  <2> QED
    BY <2>2, <2>3, <2>4, <2>5 DEF Offer!ListStep
<1>3. rowCount' \in [clicks : 0..MaxClicks, events : 0..MaxEvents]
  <2>1. Offer!Event \/ UNCHANGED rowCount
    BY DEF Offer!ListStep, Offer!ListManaged, Offer!ListOthers, Offer!InspectStates,
       Offer!ListingFails
  <2> QED
    BY <2>1, EventFacts DEF RowInv, RowsTyped
<1>4. Offer!TypeOK'
  BY <1>1, <1>2, <1>3 DEF RowInv, RowsTyped, Offer!TypeOK, Offer!KeysOf
<1>5. RowsTyped'
  BY <1>1, <1>2, <1>4 DEF RowInv, RowsTyped
<1>6. ListingInv'
  BY <1>1 DEF RowInv, ListingInv, Asked, Shown
<1>7. Offer!RowsAreOfTheRecipients'
  BY <1>1 DEF RowInv, Offer!RowsAreOfTheRecipients, Offer!Drawn, Offer!Context
<1> QED
  BY <1>1, <1>5, <1>6, <1>7, SelectionKept DEF RowInv

LEMMA DrawnAgain ==
    ASSUME UNCHANGED integrated, NEW c, NEW inv
    PROVE  Offer!Drawn(c, inv)' = Offer!Drawn(c, inv)
BY DEF Offer!Drawn

LEMMA FinishKeeps == ASSUME RowBounds, RowInv, Offer!FinishListing PROVE RowInv'
<1>1. /\ UNCHANGED <<managed, elsewhere, usableKeys, integrated, recipients, requireAll,
                     pageLoad,
                     shared, rowCount>>
      /\ listing.at = "listed" /\ loading
  BY DEF Offer!FinishListing, Offer!keyVars, RowInv, ListingInv
<1>2. /\ listing \in [at : {"none", "managed", "others", "states", "listed"},
                      for : Contexts \cup {Offer!NoContext}, inv : Inventories]
      /\ queued \in Contexts \cup {Offer!NoContext} /\ Offer!TypeOK
      /\ inventory \in Inventories
  BY DEF RowInv, RowsTyped
<1>3. CASE /\ queued # Offer!NoContext /\ listing' = Offer!Started(queued)
           /\ queued' = Offer!NoContext
           /\ UNCHANGED <<inventory, keyRows, loading, base, removed>>
  <2>1. listing' \in [at : {"none", "managed", "others", "states", "listed"},
                      for : Contexts \cup {Offer!NoContext}, inv : Inventories]
        /\ listing'.at # "none" /\ listing'.for = queued
    BY <1>2, <1>3, InventoryFacts DEF Offer!Started
  <2>2. Offer!TypeOK'
    BY <1>1, <1>2, <1>3, <2>1 DEF Offer!TypeOK, Offer!KeysOf
  <2>3. RowsTyped'
    BY <1>2, <1>3, <2>1, <2>2 DEF RowsTyped
  <2>4. ListingInv'
    BY <1>1, <1>2, <1>3, <2>1 DEF RowInv, ListingInv, Asked, Shown
  <2>5. Offer!RowsAreOfTheRecipients'
    BY <1>1, <1>3 DEF Offer!RowsAreOfTheRecipients
  <2> QED
    BY <1>1, <1>3, <2>3, <2>4, <2>5, SelectionKept DEF RowInv
<1>4. CASE /\ queued = Offer!NoContext
           /\ listing' =
                  [listing EXCEPT !.at = "none", !.for = Offer!NoContext, !.inv =
                   Offer!NotListed]
           /\ inventory' = listing.inv
           /\ keyRows' = Offer!Drawn(listing.for, listing.inv)
           /\ loading' = pageLoad /\ base' = recipients /\ removed' = {} /\ UNCHANGED queued
  <2>1. listing' \in [at : {"none", "managed", "others", "states", "listed"},
                      for : Contexts \cup {Offer!NoContext}, inv : Inventories]
        /\ listing'.at = "none"
    BY <1>2, <1>4, InventoryFacts
  <2>2. inventory' \in Inventories /\ inventory'.usable \subseteq RowKeys
        /\ Offer!KeysOf(inventory') \subseteq RowKeys
    <3>1. inventory' \in Inventories
      BY <1>2, <1>4
    <3> QED
      BY <3>1, InventoryFacts DEF Inventories
  <2>3. Offer!TypeOK'
    BY <1>1, <1>2, <1>4, <2>1, <2>2 DEF Offer!TypeOK, Offer!KeysOf
  <2>4. RowsTyped'
    BY <1>2, <1>4, <2>1, <2>2, <2>3 DEF RowsTyped
  <2>5. ListingInv'
    BY <1>1, <1>4, <2>1 DEF ListingInv
  <2>6. Offer!RowsAreOfTheRecipients'
    <3>1. ~pageLoad => listing.for = Shown
      BY <1>1, <1>4 DEF RowInv, ListingInv, Asked
    <3>2. PICK c, inv : c = listing.for /\ inv = listing.inv
      OBVIOUS
    <3>3. Offer!Drawn(c, inv)' = Offer!Drawn(c, inv)
      BY <1>1, DrawnAgain
    <3>4. ~pageLoad => Offer!Context(recipients', requireAll') = c
      BY <1>1, <3>1, <3>2 DEF Shown
    <3>5. inventory' = inv /\ keyRows' = Offer!Drawn(c, inv)'
      BY <1>4, <3>2, <3>3
    <3>6. ~pageLoad =>
              Offer!Drawn(Offer!Context(recipients, requireAll), inventory)' =
                  Offer!Drawn(c, inv)'
      BY <3>4, <3>5 DEF Offer!Drawn
    <3> QED
      BY <1>4, <3>5, <3>6 DEF Offer!RowsAreOfTheRecipients
  <2>7. Offer!ASelectedKeyStays'
    BY <1>1, <1>4 DEF Offer!ASelectedKeyStays, Offer!Selected, Offer!KeysOf
  <2> QED
    BY <2>4, <2>5, <2>6, <2>7 DEF RowInv
<1> QED
  BY <1>3, <1>4 DEF Offer!FinishListing

\* What is asked for is asked for last.
LEMMA RefreshFacts ==
    ASSUME RowsTyped, ListingInv, NEW c \in Contexts, Offer!Refresh(c)
    PROVE  /\ listing' \in [at : {"none", "managed", "others", "states", "listed"},
                            for : Contexts \cup {Offer!NoContext}, inv : Inventories]
           /\ queued' \in Contexts \cup {Offer!NoContext} /\ listing'.at # "none"
           /\ (IF queued' = Offer!NoContext THEN listing'.for ELSE queued') = c
<1>1. CASE listing.at = "none"
  <2>1. listing' = Offer!Started(c) /\ queued' = queued /\ queued = Offer!NoContext
    BY <1>1 DEF Offer!Refresh, ListingInv
  <2> QED
    BY <2>1, InventoryFacts DEF Offer!Started, RowsTyped
<1>2. CASE listing.at # "none"
  BY <1>2, InventoryFacts DEF Offer!Refresh, RowsTyped
<1> QED
  BY <1>1, <1>2

LEMMA PageKeeps == ASSUME RowBounds, RowInv, Offer!Reload \/ Offer!PageLoaded PROVE RowInv'
<1>1. RowsTyped /\ ListingInv /\ Offer!TypeOK
  BY DEF RowInv, RowsTyped
<1>2. CASE Offer!Reload
  <2>1. rowCount' \in [clicks : 0..MaxClicks, events : 0..MaxEvents]
    BY <1>1, <1>2, EventFacts DEF Offer!Reload
  <2>2. Offer!TypeOK'
    BY <1>1, <1>2, <2>1 DEF Offer!Reload, Offer!TypeOK, Offer!keyVars, Offer!KeysOf
  <2>3. RowsTyped'
    BY <1>1, <1>2, <2>2 DEF Offer!Reload, RowsTyped
  <2>4. ListingInv' /\ Offer!RowsAreOfTheRecipients'
    BY <1>1, <1>2 DEF Offer!Reload, ListingInv, Offer!RowsAreOfTheRecipients
  <2> QED
    BY <1>2, <2>3, <2>4, SelectionKept DEF Offer!Reload, RowInv
<1>3. CASE Offer!PageLoaded
  <2>1. /\ recipients' \in SUBSET Offer!Recipients /\ requireAll' \in BOOLEAN
        /\ base' = recipients' /\ removed' = {} /\ ~pageLoad' /\ pageLoad' \in BOOLEAN
        /\ UNCHANGED <<managed, elsewhere, usableKeys, integrated, inventory, keyRows,
                       loading, shared,
                       rowCount>>
    BY <1>1, <1>3 DEF Offer!PageLoaded, Offer!keyVars, Offer!TypeOK
  <2>2. Offer!Context(recipients', requireAll') \in Contexts
    BY <2>1, InventoryFacts
  <2>3. /\ listing' \in [at : {"none", "managed", "others", "states", "listed"},
                         for : Contexts \cup {Offer!NoContext}, inv : Inventories]
        /\ queued' \in Contexts \cup {Offer!NoContext} /\ listing'.at # "none"
        /\ (IF queued' = Offer!NoContext THEN listing'.for ELSE queued')
               = Offer!Context(recipients', requireAll')
    <3>1. PICK c : c = Offer!Context(recipients', requireAll')
      OBVIOUS
    <3> QED
      BY <1>1, <1>3, <2>2, <3>1, RefreshFacts DEF Offer!PageLoaded
  <2>4. Offer!TypeOK'
    BY <1>1, <2>1, <2>3 DEF Offer!TypeOK, Offer!KeysOf
  <2>5. RowsTyped'
    BY <1>1, <2>1, <2>3, <2>4 DEF RowsTyped
  <2>6. loading /\ loading'
    BY <1>1, <1>3, <2>1 DEF Offer!PageLoaded, ListingInv
  <2>7. ListingInv' /\ Offer!RowsAreOfTheRecipients'
    BY <2>1, <2>3, <2>6
       DEF ListingInv, Offer!RowsAreOfTheRecipients, Asked, Shown, Offer!Context
  <2>8. Offer!ASelectedKeyStays'
    BY <2>1 DEF Offer!ASelectedKeyStays, Offer!Selected, Offer!KeysOf
  <2> QED
    BY <2>5, <2>7, <2>8 DEF RowInv
<1> QED
  BY <1>2, <1>3

\* More than a few is more than one.
LEMMA AnotherOne == ASSUME NEW S, NEW k, ~Offer!Few(S) PROVE \E x \in S : x # k
<1>1. ASSUME \A x \in S : x = k PROVE FALSE
  <2>1. S = {} \/ S = {k}
    BY <1>1
  <2>2. Offer!Cardinality(S) = 0 \/ Offer!Cardinality(S) = 1
    <3>1. Offer!Cardinality(S) = Cardinality(S)
      BY DEF Cardinality, Offer!Cardinality
    <3> QED
      BY <2>1, <3>1, FS_EmptySet, FS_Singleton
  <2> QED
    BY <2>2 DEF Offer!Few
<1> QED
  BY <1>1

\* Rows that are shown are drawn again for what the page then has.
LEMMA RebuildFacts ==
    ASSUME RowInv, ~loading, NEW rs, NEW all, Offer!Rebuild(rs, all)
    PROVE  keyRows' = Offer!Drawn(Offer!Context(rs, all), inventory)
<1>1. CASE inventory = Offer!NotListed
  <2>1. /\ keyRows' = keyRows
        /\ keyRows = Offer!Drawn(Offer!Context(recipients, requireAll), inventory)
    BY <1>1 DEF Offer!Rebuild, RowInv, Offer!RowsAreOfTheRecipients
  <2>2. \A c : Offer!Drawn(c, inventory) = Offer!NoRows
    BY <1>1, InventoryFacts DEF Offer!Drawn
  <2> QED
    BY <2>1, <2>2
<1>2. CASE inventory # Offer!NotListed
  BY <1>2 DEF Offer!Rebuild
<1> QED
  BY <1>1, <1>2

\* A click finds nothing loading and nothing removed, and leaves all but the
\* selection as it is.
LEMMA AfterClick ==
    ASSUME RowBounds, RowInv, Offer!Click, NEW c,
           recipients' \in SUBSET Offer!Recipients, requireAll' \in BOOLEAN,
           base' \in SUBSET Offer!Recipients, removed' = {}, shared' \in BOOLEAN,
           UNCHANGED <<managed, elsewhere, usableKeys, integrated, inventory, pageLoad,
                       loading,
                       listing, queued>>,
           c = Offer!Context(recipients', requireAll'), keyRows' =
               Offer!Drawn(c, inventory),
           Offer!ASelectedKeyStays'
    PROVE  RowInv'
<1>1. /\ RowsTyped /\ ListingInv /\ Offer!TypeOK /\ ~loading
      /\ rowCount' \in [clicks : 0..MaxClicks, events : 0..MaxEvents]
  BY EventFacts DEF RowInv, RowsTyped, Offer!Click
<1>2. Offer!TypeOK'
  BY <1>1 DEF Offer!TypeOK, Offer!KeysOf
<1>3. RowsTyped'
  BY <1>1, <1>2 DEF RowsTyped
<1>4. ListingInv'
  BY <1>1 DEF ListingInv
<1>5. Offer!RowsAreOfTheRecipients'
  <2>1. PICK inv : inv = inventory
    OBVIOUS
  <2>2. inventory' = inv /\ keyRows' = Offer!Drawn(c, inv)
    BY <2>1
  <2>3. Offer!Drawn(c, inv)' = Offer!Drawn(c, inv)
    BY DrawnAgain
  <2>4. Offer!Drawn(Offer!Context(recipients, requireAll), inventory)' =
            Offer!Drawn(c, inv)'
    BY <2>2 DEF Offer!Drawn
  <2> QED
    BY <2>2, <2>3, <2>4 DEF Offer!RowsAreOfTheRecipients
<1> QED
  BY <1>3, <1>4, <1>5 DEF RowInv

\* What a row says of its key.
LEMMA RowFacts ==
    ASSUME RowInv, ~loading, NEW k, k \in keyRows.free
    PROVE  /\ k \in Offer!KeysOf(inventory) /\ k \in RowKeys
           /\ k \in keyRows.active <=>
                  k \in Offer!Selected(recipients, Offer!KeysOf(inventory))
           /\ ~Offer!ToggleBlocked(k, inventory, Shown)
<1>1. keyRows = Offer!Drawn(Shown, inventory)
  BY DEF RowInv, Offer!RowsAreOfTheRecipients, Shown
<1>2. Shown.recipients = recipients
  BY DEF Shown, Offer!Context
<1>3. inventory.ok
  BY <1>1 DEF Offer!Drawn, Offer!NoRows
<1>4. /\ keyRows.active = Offer!Selected(recipients, Offer!KeysOf(inventory))
      /\ keyRows.free =
             {x \in Offer!KeysOf(inventory) : ~Offer!ToggleBlocked(x, inventory, Shown)}
  BY <1>1, <1>2, <1>3 DEF Offer!Drawn
<1>5. Offer!KeysOf(inventory) \subseteq RowKeys
  BY InventoryFacts DEF RowInv, RowsTyped
<1> QED
  BY <1>4, <1>5

LEMMA RowToggleKeeps ==
    ASSUME RowBounds, RowInv, NEW k \in RowKeys, Offer!Toggle(k),
           UNCHANGED <<managed, elsewhere, usableKeys, integrated, inventory>>
    PROVE  RowInv'
<1> DEFINE keys == Offer!KeysOf(inventory)
           usable == keys \cap inventory.usable
           selected == Offer!Selected(recipients, keys)
<1>1. /\ ~loading /\ k \in keyRows.free /\ removed = {} /\ Offer!Click
      /\ RowsTyped /\ Offer!ASelectedKeyStays /\ recipients \in SUBSET Offer!Recipients
  BY DEF Offer!Toggle, Offer!Click, RowInv, ListingInv, RowsTyped, Offer!TypeOK
<1>2. /\ k \in keys /\ (k \in keyRows.active <=> k \in selected)
      /\ ~Offer!ToggleBlocked(k, inventory, Shown) /\ keys \subseteq RowKeys
  BY <1>1, RowFacts, InventoryFacts DEF RowInv, RowsTyped
<1>3. recipients' = {r \in recipients : ~Offer!Matches(r, k)} \cup
                        (IF k \notin keyRows.active THEN {k} ELSE {})
  BY DEF Offer!Toggle, Offer!Values
<1>4. k \in selected <=> \E r \in recipients : Offer!Matches(r, k)
  BY <1>2 DEF Offer!Selected
<1>5. recipients' # recipients
  <2>1. CASE k \in selected
    BY <1>2, <1>3, <1>4, <2>1
  <2>2. CASE k \notin selected
    BY <1>2, <1>3, <1>4, <2>2 DEF Offer!Matches
  <2> QED
    BY <2>1, <2>2
<1>6. PICK rs, c : rs = recipients' /\ c = Offer!Context(rs, requireAll)
  OBVIOUS
<1>7. Offer!Rebuild(rs, requireAll)
  BY <1>5, <1>6 DEF Offer!Toggle
<1>8. keyRows' = Offer!Drawn(c, inventory)
  <2>1. PICK all : all = requireAll
    OBVIOUS
  <2> QED
    BY <1>1, <1>6, <1>7, <2>1, RebuildFacts
<1>9. /\ shared' = (shared \/ (k \in keyRows.active /\ \E other \in RowKeys \ {k} :
                                  /\ \E r \in recipients : Offer!Matches(r, other)
                                  /\ ~\E r \in rs : Offer!Matches(r, other)))
      /\ shared' \in BOOLEAN
      /\ UNCHANGED <<requireAll, base, removed, pageLoad, loading, listing, queued>>
  BY <1>1, <1>6 DEF Offer!Toggle, RowsTyped, Offer!TypeOK
\* What was selected and is another key stays so, unless that is known.
<1>10. ASSUME ~shared', NEW x \in selected, x # k PROVE x \in Offer!Selected(rs, keys)
  <2>1. x \in RowKeys \ {k} /\ x \in keys /\ \E r \in recipients : Offer!Matches(r, x)
    BY <1>2, <1>10 DEF Offer!Selected
  <2>2. \E r \in rs : Offer!Matches(r, x)
    <3>1. CASE k \in keyRows.active
      BY <1>9, <1>10, <2>1, <3>1
    <3>2. CASE k \notin keyRows.active
      BY <1>2, <1>3, <1>4, <1>6, <2>1, <3>2
    <3> QED
      BY <3>1, <3>2
  <2> QED
    BY <2>1, <2>2 DEF Offer!Selected
<1>11. k \notin selected => k \in Offer!Selected(rs, keys)
  BY <1>2, <1>3, <1>6 DEF Offer!Selected, Offer!Matches
<1>12. ASSUME ~shared', NEW some \in {keys, usable}, Offer!Selected(base, some) # {}
       PROVE  Offer!Selected(rs, some) # {}
  <2>1. Offer!Selected(recipients, some) # {}
    <3>1. ~shared
      BY <1>9, <1>12
    <3>2. Offer!Selected(recipients, keys \ removed) = Offer!Selected(recipients, keys)
      BY <1>1 DEF Offer!Selected
    <3> QED
      BY <1>1, <1>12, <3>1, <3>2 DEF Offer!ASelectedKeyStays
  <2>2. /\ Offer!Selected(recipients, some) = selected \cap some
        /\ Offer!Selected(rs, some) = Offer!Selected(rs, keys) \cap some
    BY DEF Offer!Selected
  <2>3. PICK x \in selected \cap some : TRUE
    BY <2>1, <2>2
  <2>4. CASE x # k
    BY <1>10, <1>12, <2>2, <2>3, <2>4
  <2>5. CASE x = k
    <3>1. k \in selected /\ Shown.recipients = recipients
      BY <2>3, <2>5 DEF Shown, Offer!Context
    <3>2. /\ ~Offer!Few(selected)
          /\ (k \in inventory.usable => ~Offer!Few(selected \cap inventory.usable))
      BY <1>2, <3>1 DEF Offer!ToggleBlocked
    <3>3. \E y \in selected \cap some : y # k
      <4>1. CASE some = keys
        <5>1. \E y \in selected : y # k
          BY <3>2, AnotherOne
        <5> QED
          BY <4>1, <5>1 DEF Offer!Selected
      <4>2. CASE some = usable
        <5>1. k \in inventory.usable
          BY <2>3, <2>5, <4>2
        <5>2. \E y \in selected \cap inventory.usable : y # k
          BY <3>2, <5>1, AnotherOne
        <5> QED
          BY <4>2, <5>2 DEF Offer!Selected
      <4> QED
        BY <1>12, <4>1, <4>2
    <3> QED
      BY <1>10, <1>12, <2>2, <3>3
  <2> QED
    BY <2>4, <2>5
<1>13. Offer!ASelectedKeyStays'
  <2>1. ~shared' => /\ Offer!Selected(base, keys) # {} => Offer!Selected(rs, keys) # {}
                    /\ (removed = {} /\ Offer!Selected(base, usable) # {}) =>
                           Offer!Selected(rs, usable) # {}
    BY <1>12
  <2>2. keys \ removed = keys
    BY <1>1
  <2> QED
    BY <1>1, <1>6, <1>9, <2>1, <2>2
       DEF Offer!ASelectedKeyStays, Offer!Selected, Offer!KeysOf, Offer!Matches
<1>14. recipients' \in SUBSET Offer!Recipients
  BY <1>1, <1>3 DEF Offer!Recipients
<1>15. requireAll' \in BOOLEAN /\ base' \in SUBSET Offer!Recipients /\ removed' = {}
  BY <1>1, <1>9 DEF RowsTyped, Offer!TypeOK
<1>16. c = Offer!Context(recipients', requireAll')
  BY <1>6, <1>9
<1> QED
  BY <1>1, <1>8, <1>9, <1>13, <1>14, <1>15, <1>16, AfterClick

LEMMA EditsKeep == ASSUME RowBounds, RowInv, Offer!EditRows PROVE RowInv'
<1>1. /\ UNCHANGED <<managed, elsewhere, usableKeys, integrated, inventory>>
      /\ RowsTyped /\ Offer!TypeOK /\ Offer!ASelectedKeyStays
  BY DEF Offer!EditRows, Offer!keyVars, RowInv, RowsTyped
<1>2. Offer!Click => ~loading /\ removed = {}
  BY DEF Offer!Click, RowInv, ListingInv
<1>3. PICK rs, all, c : rs = recipients' /\ all = requireAll' /\ c = Offer!Context(rs, all)
  OBVIOUS
<1>4. ASSUME Offer!Click, Offer!Rebuild(rs, all) PROVE keyRows' = Offer!Drawn(c, inventory)
  BY <1>2, <1>3, <1>4, RebuildFacts
<1>5. CASE Offer!SelectScope
  <2>1. /\ Offer!Click /\ recipients' \in SUBSET Offer!Recipients /\ requireAll' \in BOOLEAN
        /\ base' = recipients' /\ removed' = {} /\ Offer!Rebuild(rs, all)
        /\ UNCHANGED <<shared, pageLoad, loading, listing, queued>>
    BY <1>3, <1>5 DEF Offer!SelectScope
  <2>2. Offer!ASelectedKeyStays'
    BY <2>1 DEF Offer!ASelectedKeyStays, Offer!Selected, Offer!KeysOf
  <2> QED
    BY <1>1, <1>3, <1>4, <2>1, <2>2, AfterClick DEF Offer!TypeOK
<1>6. CASE Offer!RequireAll
  <2>1. /\ Offer!Click /\ requireAll' \in BOOLEAN /\ Offer!Rebuild(rs, all)
        /\ UNCHANGED <<recipients, base, removed, shared, pageLoad, loading, listing,
                       queued>>
    BY <1>1, <1>3, <1>6 DEF Offer!RequireAll, Offer!TypeOK
  <2> QED
    BY <1>1, <1>2, <1>3, <1>4, <2>1, SelectionKept, AfterClick DEF Offer!TypeOK
<1>7. ASSUME NEW k \in RowKeys, Offer!Toggle(k) PROVE RowInv'
  BY <1>1, <1>7, RowToggleKeeps
<1>8. ASSUME NEW r \in Offer!Recipients, Offer!RemoveUnresolved(r) PROVE RowInv'
  <2>1. /\ Offer!Click /\ r \in keyRows.unresolved /\ recipients' = recipients \ {r}
        /\ Offer!Rebuild(rs, all)
        /\ UNCHANGED <<requireAll, base, removed, shared, pageLoad, loading, listing,
                       queued>>
    BY <1>3, <1>8 DEF Offer!RemoveUnresolved
  <2>2. keyRows = Offer!Drawn(Shown, inventory) /\ Shown.recipients = recipients
    BY <1>2, <2>1 DEF RowInv, Offer!RowsAreOfTheRecipients, Shown, Offer!Context
  <2>3. \A k \in Offer!KeysOf(inventory) : ~Offer!Matches(r, k)
    BY <2>1, <2>2 DEF Offer!Drawn, Offer!NoRows, Offer!Unresolved
  <2>4. \A some : some \subseteq Offer!KeysOf(inventory) =>
            Offer!Selected(rs, some) = Offer!Selected(recipients, some)
    BY <1>3, <2>1, <2>3 DEF Offer!Selected
  <2>5. Offer!ASelectedKeyStays'
    <3>1. /\ Offer!Selected(rs, Offer!KeysOf(inventory) \ removed)
                 = Offer!Selected(recipients, Offer!KeysOf(inventory) \ removed)
          /\ Offer!Selected(rs, Offer!KeysOf(inventory) \cap inventory.usable)
                 = Offer!Selected(recipients, Offer!KeysOf(inventory) \cap inventory.usable)
      BY <2>4
    <3> QED
      BY <1>1, <1>3, <2>1, <3>1
         DEF Offer!ASelectedKeyStays, Offer!Selected, Offer!KeysOf, Offer!Matches
  <2> QED
    BY <1>1, <1>2, <1>3, <1>4, <2>1, <2>5, AfterClick DEF Offer!TypeOK
<1> QED
  BY <1>5, <1>6, <1>7, <1>8 DEF Offer!EditRows

\* After a change of the keys they are listed again for what the page has.
LEMMA KeysAreListed ==
    ASSUME RowBounds, RowInv, Offer!KeysChanged, Offer!Event \/ Offer!Click,
           managed' \in SUBSET RowKeys, elsewhere' \in SUBSET RowKeys,
           usableKeys' \in SUBSET RowKeys, removed' \in
               SUBSET RowKeys, Offer!ASelectedKeyStays'
    PROVE  RowInv'
<1>1. /\ RowsTyped /\ ListingInv /\ Offer!TypeOK
      /\ rowCount' \in [clicks : 0..MaxClicks, events : 0..MaxEvents]
      /\ ~pageLoad' /\ pageLoad' \in BOOLEAN /\ loading' /\ loading' \in BOOLEAN
      /\ UNCHANGED <<integrated, recipients, requireAll, inventory, keyRows, base, shared>>
  BY EventFacts DEF RowInv, RowsTyped, Offer!KeysChanged
<1>2. PICK c : c = Shown /\ Offer!Refresh(c)
  BY DEF Offer!KeysChanged, Shown
<1>3. c \in Contexts
  BY <1>1, <1>2, InventoryFacts DEF Shown, Offer!TypeOK
<1>4. /\ listing' \in [at : {"none", "managed", "others", "states", "listed"},
                       for : Contexts \cup {Offer!NoContext}, inv : Inventories]
      /\ queued' \in Contexts \cup {Offer!NoContext} /\ listing'.at # "none"
      /\ (IF queued' = Offer!NoContext THEN listing'.for ELSE queued') = c
  BY <1>1, <1>2, <1>3, RefreshFacts
<1>5. Offer!TypeOK'
  BY <1>1, <1>4 DEF Offer!TypeOK, Offer!KeysOf
<1>6. RowsTyped'
  BY <1>1, <1>4, <1>5 DEF RowsTyped
<1>7. ListingInv' /\ Offer!RowsAreOfTheRecipients'
  BY <1>1, <1>2, <1>4
     DEF ListingInv, Offer!RowsAreOfTheRecipients, Asked, Shown, Offer!Context
<1> QED
  BY <1>6, <1>7 DEF RowInv

LEMMA RemovalsKeep ==
    ASSUME RowBounds, RowInv, NEW k \in RowKeys, Offer!RemoveKey(k)
    PROVE  RowInv'
<1> DEFINE keys == Offer!KeysOf(inventory)
           selected == Offer!Selected(recipients, keys)
<1>1. /\ ~loading /\ removed = {} /\ Offer!Click /\ Offer!KeysChanged /\ RowsTyped
      /\ Offer!TypeOK
      /\ Offer!ASelectedKeyStays /\ k \in keyRows.removable /\ removed' = {k}
      /\ UNCHANGED <<recipients, inventory, base, shared>>
  BY DEF Offer!RemoveKey, Offer!Click, Offer!KeysChanged, RowInv, ListingInv, RowsTyped
<1>2. /\ managed' \in SUBSET RowKeys /\ elsewhere' \in SUBSET RowKeys
      /\ usableKeys' \in SUBSET RowKeys /\ removed' \in SUBSET RowKeys
  BY <1>1 DEF Offer!RemoveKey, Offer!TypeOK
<1>3. keyRows = Offer!Drawn(Shown, inventory) /\ Shown.recipients = recipients
  BY <1>1 DEF RowInv, Offer!RowsAreOfTheRecipients, Shown, Offer!Context
<1>4. ~Offer!DeleteBlocked(k, inventory, Shown)
  BY <1>1, <1>3 DEF Offer!Drawn, Offer!NoRows
<1>5. k \in selected => \E x \in selected : x # k
  BY <1>3, <1>4, AnotherOne DEF Offer!DeleteBlocked
<1>6. selected # {} => Offer!Selected(recipients, keys \ {k}) # {}
  <2>1. Offer!Selected(recipients, keys \ {k}) = selected \ {k}
    BY DEF Offer!Selected
  <2> QED
    BY <1>5, <2>1
<1>7. keys \ removed = keys
  BY <1>1
<1>8. Offer!ASelectedKeyStays'
  BY <1>1, <1>6, <1>7
     DEF Offer!ASelectedKeyStays, Offer!Selected, Offer!KeysOf, Offer!Matches
<1> QED
  BY <1>1, <1>2, <1>8, KeysAreListed

LEMMA ChangesKeep ==
    ASSUME RowBounds, RowInv, NEW k \in RowKeys, Offer!UnlockKey(k) \/ Offer!KeyMade(k)
    PROVE  RowInv'
<1>1. /\ Offer!KeysChanged /\ (Offer!Event \/ Offer!Click) /\ Offer!TypeOK
      /\ removed' = removed
  BY DEF Offer!UnlockKey, Offer!KeyMade, RowInv, RowsTyped
<1>2. /\ managed' \in SUBSET RowKeys /\ elsewhere' \in SUBSET RowKeys
      /\ usableKeys' \in SUBSET RowKeys /\ removed' \in SUBSET RowKeys
  BY <1>1 DEF Offer!UnlockKey, Offer!KeyMade, Offer!TypeOK
<1>3. Offer!ASelectedKeyStays'
  BY <1>1, SelectionKept DEF Offer!KeysChanged, RowInv
<1> QED
  BY <1>1, <1>2, <1>3, KeysAreListed

LEMMA OthersKeep == ASSUME RowBounds, RowInv, Offer!OthersAct PROVE RowInv'
<1>1. /\ UNCHANGED <<integrated, recipients, requireAll, inventory, keyRows, pageLoad,
                     loading,
                     listing, queued, base, removed, shared>>
      /\ RowsTyped /\ ListingInv /\ Offer!TypeOK
      /\ rowCount' \in [clicks : 0..MaxClicks, events : 0..MaxEvents]
  BY EventFacts DEF Offer!OthersAct, RowInv, RowsTyped
<1>2. /\ managed' \subseteq RowKeys /\ elsewhere' \subseteq RowKeys
      /\ usableKeys' \subseteq RowKeys
  BY <1>1 DEF Offer!OthersAct, Offer!TypeOK
<1>3. Offer!TypeOK'
  BY <1>1, <1>2 DEF Offer!TypeOK, Offer!KeysOf
<1>4. RowsTyped'
  BY <1>1, <1>3 DEF RowsTyped
<1>5. ListingInv'
  BY <1>1 DEF ListingInv, Asked, Shown
<1>6. Offer!RowsAreOfTheRecipients'
  BY <1>1 DEF RowInv, Offer!RowsAreOfTheRecipients, Offer!Drawn, Offer!Context
<1> QED
  BY <1>1, <1>4, <1>5, <1>6, SelectionKept DEF RowInv

LEMMA RowStep == ASSUME RowBounds, RowInv, [Offer!Next]_(Offer!rowVars) PROVE RowInv'
<1>1. CASE UNCHANGED Offer!rowVars
  <2>1. UNCHANGED <<managed, elsewhere, usableKeys, integrated, recipients, requireAll,
                    inventory,
                    keyRows, pageLoad, loading, listing, queued, base, removed, shared,
                    rowCount>>
    BY <1>1 DEF Offer!rowVars
  <2>2. RowsTyped'
    BY <2>1 DEF RowInv, RowsTyped, Offer!TypeOK, Offer!KeysOf
  <2>3. ListingInv'
    BY <2>1 DEF RowInv, ListingInv, Asked, Shown
  <2>4. Offer!RowsAreOfTheRecipients'
    BY <2>1 DEF RowInv, Offer!RowsAreOfTheRecipients, Offer!Drawn, Offer!Context
  <2> QED
    BY <2>1, <2>2, <2>3, <2>4, SelectionKept DEF RowInv
<1> QED
  BY <1>1, ListsKeep, FinishKeeps, PageKeeps, EditsKeep, OthersKeep, RemovalsKeep,
     ChangesKeep
     DEF Offer!Next

-----------------------------------------------------------------------------
(* The rows of the preferences *)

SettingBounds == MaxSettingClicks \in Nat /\ MaxSettingFaults \in Nat

\* A value for every setting.
Choices ==
    {f \in [Preference!Settings -> 0..2] : \A s \in Preference!Settings :
     f[s] \in Preference!ValuesOf(s)}

SettingsTyped ==
    /\ {inFile, readable, hostAllowed, overwritten} \subseteq BOOLEAN
    /\ stored \in Choices /\ chosen \in Choices
    /\ settingRows \in [SettingsWindows -> Choices]
    /\ ~inFile => readable
    /\ shownIn \subseteq SettingsWindows /\ confirming \subseteq shownIn
    /\ commandRow \in [SettingsWindows -> BOOLEAN]
    /\ popover \in [SettingsWindows -> [Preference!Generator -> 0..2]]
    /\ stale \subseteq SettingsWindows \X Preference!Settings
    /\ settingCount \in [clicks : 0..MaxSettingClicks, faults : 0..MaxSettingFaults]

\* A window that asks whether to turn key sync on asked when it was off, unless it was
\* changed elsewhere since.
AskedWhileOff ==
    \A w \in confirming :
        (<<w, "sync">> \in stale \/ Preference!Current["sync"] = Preference!Off)

SettingsInv ==
    /\ SettingsTyped /\ AskedWhileOff
    /\ Preference!RowsShowTheSettings /\ Preference!ChoicesAreKept

LEMMA ValueFacts ==
    /\ Preference!Settings =
           {"clear", "sort", "backend", "length", "minimum", "sync", "template"}
    /\ \A s \in Preference!Settings : Preference!ValuesOf(s) \subseteq 0..2
    /\ \A s \in {"clear", "sort", "backend", "sync", "template"} : Preference!ValuesOf(s) = 0..1
    /\ Preference!ValuesOf("length") = 1..2 /\ Preference!ValuesOf("minimum") = 0..2
<1>1. Preference!Settings =
          {"clear", "sort", "backend", "length", "minimum", "sync", "template"}
  BY DEF Preference!Settings, Preference!Switches, Preference!Generator
<1>2. Preference!ValuesOf("length") = 1..2 /\ Preference!ValuesOf("minimum") = 0..2
  BY DEF Preference!ValuesOf
<1>3. \A s \in {"clear", "sort", "backend", "sync", "template"} : Preference!ValuesOf(s) = 0..1
  BY DEF Preference!ValuesOf
<1>4. \A s \in Preference!Settings :
          (Preference!ValuesOf(s) = 0..2 \/ Preference!ValuesOf(s) =
           1..2 \/ Preference!ValuesOf(s) = 0..1)
  BY DEF Preference!ValuesOf
<1> QED
  BY <1>1, <1>2, <1>3, <1>4

LEMMA ChoiceFacts ==
    /\ Preference!Defaults \in Choices
    /\ \A f \in Choices :
           f \in [Preference!Settings -> 0..2] /\ \A s \in Preference!Settings :
               f[s] \in Preference!ValuesOf(s)
    /\ \A f \in Choices, s \in Preference!Settings : \A v \in Preference!ValuesOf(s) :
           /\ [f EXCEPT ![s] = v] \in Choices
           /\ [f EXCEPT ![s] = v][s] = v
           /\ \A t \in Preference!Settings \ {s} : [f EXCEPT ![s] = v][t] = f[t]
<1>1. Preference!Defaults \in Choices
  <2>1. \A s \in Preference!Settings : Preference!Defaults[s] \in Preference!ValuesOf(s)
    <3>1. \A s \in Preference!Settings :
              Preference!Defaults[s] =
                  IF s \in {"length", "minimum", "template"} THEN 1 ELSE 0
      BY DEF Preference!Defaults, Preference!Generator
    <3>2. ASSUME NEW s \in Preference!Settings
          PROVE  Preference!Defaults[s] \in Preference!ValuesOf(s)
      BY <3>1, ValueFacts
    <3> QED
      BY <3>2
  <2> QED
    BY <2>1 DEF Choices, Preference!Defaults
<1>2. \A f \in Choices :
          f \in [Preference!Settings -> 0..2] /\ \A s \in Preference!Settings :
              f[s] \in Preference!ValuesOf(s)
  BY DEF Choices
<1>3. ASSUME NEW f \in Choices, NEW s \in Preference!Settings, NEW v \in
                 Preference!ValuesOf(s)
      PROVE  /\ [f EXCEPT ![s] = v] \in Choices
             /\ [f EXCEPT ![s] = v][s] = v
             /\ \A t \in Preference!Settings \ {s} : [f EXCEPT ![s] = v][t] = f[t]
  <2>1. v \in 0..2
    BY ValueFacts
  <2> QED
    BY <1>2, <2>1 DEF Choices
<1> QED
  BY <1>1, <1>2, <1>3

\* What is read, before and after a write.
LEMMA CurrentFacts ==
    ASSUME SettingsTyped
    PROVE  /\ Preference!Current \in Choices
           /\ (Preference!AlreadySo \/ Preference!NothingWritten) =>
                  (Preference!Current' = Preference!Current /\ stored' =
                   stored /\ readable' = readable)
           /\ \A f : Preference!WritePreference(f) =>
                  (Preference!Current' = f /\ stored' = f /\ readable' = TRUE)
<1>1. Preference!Current \in Choices
  BY ChoiceFacts DEF Preference!Current, SettingsTyped
<1> QED
  BY <1>1
     DEF Preference!AlreadySo, Preference!NothingWritten, Preference!WritePreference,
         Preference!Current, SettingsTyped

\* One row is set.
LEMMA RowSet ==
    ASSUME SettingsTyped, NEW w \in SettingsWindows, NEW s \in
           Preference!Settings, NEW v \in Preference!ValuesOf(s),
           Preference!SetRow(w, s, v)
    PROVE  /\ settingRows' \in [SettingsWindows -> Choices]
           /\ settingRows'[w][s] = v
           /\ \A t \in Preference!Settings \ {s} : settingRows'[w][t] = settingRows[w][t]
           /\ \A x \in SettingsWindows \ {w} : settingRows'[x] = settingRows[x]
<1>1. settingRows[w] \in Choices
  BY DEF SettingsTyped
<1>2. [settingRows[w] EXCEPT ![s] = v] \in Choices
  BY <1>1, ChoiceFacts
<1>3. settingRows' = [settingRows EXCEPT ![w] = [settingRows[w] EXCEPT ![s] = v]]
  BY DEF Preference!SetRow, SettingsTyped
<1>4. settingRows'[w] = [settingRows[w] EXCEPT ![s] = v]
  BY <1>3 DEF SettingsTyped
<1>5. settingRows' \in [SettingsWindows -> Choices]
  BY <1>2, <1>3 DEF SettingsTyped
<1> QED
  BY <1>1, <1>3, <1>4, <1>5, ChoiceFacts DEF SettingsTyped

LEMMA CountFacts ==
    ASSUME SettingBounds, SettingsTyped,
           \/ UNCHANGED settingCount
           \/ Preference!Fault
           \/ \E w \in SettingsWindows : (Preference!Click(w) \/ Preference!FailingClick(w))
    PROVE  settingCount' \in [clicks : 0..MaxSettingClicks, faults : 0..MaxSettingFaults]
BY DEF SettingBounds, SettingsTyped, Preference!Fault, Preference!Click,
   Preference!FailingClick

LEMMA NoTextFacts ==
    /\ "template" \in Preference!Settings
    /\ Preference!NoText \in Preference!ValuesOf("template")
BY ValueFacts DEF Preference!NoText

LEMMA SettingsStart == ASSUME SettingBounds, Preference!Init PROVE SettingsInv
<1>1. settingCount \in [clicks : 0..MaxSettingClicks, faults : 0..MaxSettingFaults]
  BY DEF SettingBounds, Preference!Init
<1>2. Preference!GeneratorOf(Preference!Defaults) \in [Preference!Generator -> 0..2]
  BY DEF Preference!GeneratorOf, Preference!Defaults, Preference!Settings,
     Preference!Generator
<1>3. [Preference!Defaults EXCEPT !["template"] = Preference!NoText] \in Choices
  BY ChoiceFacts, NoTextFacts
<1>4. SettingsTyped
  BY <1>1, <1>2, <1>3, ChoiceFacts DEF Preference!Init, SettingsTyped
<1> QED
  BY <1>4
     DEF Preference!Init, SettingsInv, AskedWhileOff, Preference!RowsShowTheSettings,
         Preference!ChoicesAreKept

\* A window sets some of its rows; the rows of the others are outdated where the
\* setting is another one now.
LEMMA RowsStayRight ==
    ASSUME SettingsInv, NEW w \in SettingsWindows, NEW ss \in SUBSET Preference!Settings,
           shownIn' = shownIn,
           \A x \in SettingsWindows \ {w} : /\ settingRows'[x] = settingRows[x]
                                            /\ commandRow'[x] = commandRow[x]
                                            /\ (x \in confirming' <=> x \in confirming),
           \A s \in Preference!Settings \ ss :
               /\ settingRows'[w][s] = settingRows[w][s]
               /\ Preference!Current'[s] = Preference!Current[s],
           "backend" \notin ss => commandRow'[w] = commandRow[w],
           "sync" \notin ss => (w \in confirming' <=> w \in confirming),
           (stale \ ({w} \X ss)) \cup Preference!OutdatedBy(w) \subseteq stale',
           \A s \in ss : (<<w, s>> \notin stale' /\ ~(s = "sync" /\ w \in confirming')) =>
               (/\ settingRows'[w][s] = Preference!Current'[s]
                /\ (s = "backend" =>
                    commandRow'[w] = Preference!ShowsCommand(Preference!Current'))),
           ("sync" \in ss /\ w \in confirming') =>
               (<<w, "sync">> \in stale' \/ Preference!Current'["sync"] = Preference!Off),
           confirming' \subseteq SettingsWindows
    PROVE  Preference!RowsShowTheSettings' /\ AskedWhileOff'
<1>1. /\ shownIn \subseteq SettingsWindows /\ confirming \subseteq SettingsWindows
      /\ "backend" \in Preference!Settings /\ "sync" \in Preference!Settings
  BY ValueFacts DEF SettingsInv, SettingsTyped
<1>2. ASSUME NEW x \in SettingsWindows, NEW s \in
                 Preference!Settings, <<x, s>> \notin stale',
             x # w \/ s \notin ss
      PROVE  <<x, s>> \notin stale /\ Preference!Current'[s] = Preference!Current[s]
  BY <1>2 DEF Preference!OutdatedBy
<1>3. ASSUME NEW x \in shownIn, NEW s \in Preference!Settings, <<x, s>> \notin stale',
             ~(s = "sync" /\ x \in confirming')
      PROVE  /\ settingRows'[x][s] = Preference!Current'[s]
             /\ (s = "backend" =>
                 commandRow'[x] = Preference!ShowsCommand(Preference!Current'))
  <2>1. CASE x = w /\ s \in ss
    BY <1>3, <2>1
  <2>2. CASE x # w \/ s \notin ss
    <3>1. <<x, s>> \notin stale /\ Preference!Current'[s] = Preference!Current[s]
      BY <1>1, <1>2, <1>3, <2>2
    <3>2. ~(s = "sync" /\ x \in confirming)
      BY <1>1, <1>3, <2>2
    <3>3. /\ settingRows[x][s] = Preference!Current[s]
          /\ (s = "backend" => commandRow[x] = Preference!ShowsCommand(Preference!Current))
      BY <3>1, <3>2 DEF SettingsInv, Preference!RowsShowTheSettings
    <3>4. /\ settingRows'[x][s] = settingRows[x][s]
          /\ (s = "backend" => commandRow'[x] = commandRow[x])
      BY <1>1, <2>2
    <3>5. s = "backend" =>
              Preference!ShowsCommand(Preference!Current') =
                  Preference!ShowsCommand(Preference!Current)
      BY <3>1 DEF Preference!ShowsCommand
    <3> QED
      BY <3>1, <3>3, <3>4, <3>5
  <2> QED
    BY <2>1, <2>2
<1>4. Preference!RowsShowTheSettings'
  BY <1>3 DEF Preference!RowsShowTheSettings, Preference!ShowsCommand
<1>5. ASSUME NEW x \in confirming', <<x, "sync">> \notin stale'
      PROVE  Preference!Current'["sync"] = Preference!Off
  <2>1. CASE x = w /\ "sync" \in ss
    BY <1>5, <2>1
  <2>2. CASE x # w \/ "sync" \notin ss
    <3>1. /\ <<x, "sync">> \notin stale
          /\ Preference!Current'["sync"] = Preference!Current["sync"]
      BY <1>1, <1>2, <1>5, <2>2
    <3>2. x \in confirming
      BY <1>5, <2>2
    <3> QED
      BY <3>1, <3>2 DEF SettingsInv, AskedWhileOff
  <2> QED
    BY <2>1, <2>2
<1> QED
  BY <1>4, <1>5 DEF AskedWhileOff

LEMMA ChoseFacts ==
    ASSUME SettingsTyped, NEW ss \in SUBSET Preference!Settings, NEW f \in
           Choices, Preference!Chose(ss, f),
           \A t \in Preference!Settings \ ss : f[t] = Preference!Current[t]
    PROVE  /\ chosen' \in Choices
           /\ (readable /\ stored = chosen) => chosen' = f
<1>1. /\ chosen' = [t \in Preference!Settings |-> IF t \in ss THEN f[t] ELSE chosen[t]]
      /\ chosen \in Choices /\ f \in Choices
  BY DEF Preference!Chose, SettingsTyped
<1>2. /\ \A t \in Preference!Settings :
             f[t] \in Preference!ValuesOf(t) /\ chosen[t] \in Preference!ValuesOf(t)
      /\ \A t \in Preference!Settings : f[t] \in 0..2 /\ chosen[t] \in 0..2
      /\ f \in [Preference!Settings -> 0..2]
  BY <1>1, ChoiceFacts
<1>3. chosen' \in Choices
  BY <1>1, <1>2 DEF Choices
<1>4. ASSUME readable, stored = chosen PROVE chosen' = f
  <2>1. \A t \in Preference!Settings \ ss : f[t] = chosen[t]
    BY <1>4 DEF Preference!Current
  <2> QED
    BY <1>1, <1>2, <2>1
<1> QED
  BY <1>3, <1>4

LEMMA StaleTyped ==
    ASSUME SettingsTyped, NEW w \in SettingsWindows, NEW ss \in
           SUBSET Preference!Settings, Preference!Fresh(w, ss)
    PROVE  stale' \subseteq SettingsWindows \X Preference!Settings
BY DEF SettingsTyped, Preference!Fresh, Preference!OutdatedBy

\* A write or none, of the settings f.
LEMMA WrittenFacts ==
    ASSUME SettingsTyped, NEW f \in Choices,
           \/ Preference!WritePreference(f)
           \/ Preference!AlreadySo /\ f = Preference!Current
           \/ Preference!NothingWritten /\ f = Preference!Current
    PROVE  /\ Preference!Current' = f /\ stored' \in Choices
           /\ readable' \in BOOLEAN /\ overwritten' \in BOOLEAN
           /\ ~inFile /\ inFile' = inFile => readable'
           /\ ~overwritten' => ~overwritten
           /\ (~overwritten' /\ ~Preference!NothingWritten) => readable /\ stored' = f
           /\ Preference!NothingWritten => stored' = stored
<1>1. /\ stored \in Choices /\ readable \in BOOLEAN /\ overwritten \in BOOLEAN
      /\ (~inFile => readable)
  BY DEF SettingsTyped
<1>2. CASE Preference!WritePreference(f)
  BY <1>1, <1>2
     DEF Preference!WritePreference, Preference!Current, Preference!NothingWritten
<1>3. CASE Preference!AlreadySo /\ f = Preference!Current
  BY <1>1, <1>3 DEF Preference!AlreadySo, Preference!Current, Preference!NothingWritten
<1>4. CASE Preference!NothingWritten /\ f = Preference!Current
  BY <1>1, <1>4 DEF Preference!Current, Preference!NothingWritten
<1> QED
  BY <1>2, <1>3, <1>4

LEMMA ToggleKeeps ==
    ASSUME SettingBounds, SettingsInv, NEW w \in SettingsWindows, NEW s \in
           Preference!Switches,
           Preference!Toggle(w, s)
    PROVE  SettingsInv'
<1>1. /\ SettingsTyped /\ s \in Preference!Settings /\ s # "sync"
      /\ Preference!Current \in Choices
  BY CurrentFacts DEF SettingsInv, Preference!Settings, Preference!Switches
<1>2. PICK v \in Preference!ValuesOf(s) :
           \/ /\ Preference!Click(w)
              /\ IF v = Preference!Current[s] THEN Preference!AlreadySo ELSE
                     Preference!WritePreference([Preference!Current EXCEPT ![s] = v])
              /\ Preference!SetRow(w, s, v)
              /\ Preference!Chose({s}, [Preference!Current EXCEPT ![s] = v])
           \/ /\ Preference!FailingClick(w)
              /\ Preference!NothingWritten
              /\ Preference!SetRow(w, s, Preference!Current[s])
              /\ UNCHANGED chosen
  BY DEF Preference!Toggle
<1>3. /\ UNCHANGED <<inFile, hostAllowed, shownIn, popover, confirming>>
      /\ Preference!Fresh(w, {s})
      /\ commandRow' = IF s =
             "backend" THEN [commandRow EXCEPT ![w] =
                             Preference!ShowsCommand(Preference!Current')]
                       ELSE commandRow
  BY DEF Preference!Toggle
<1>4. settingCount' \in [clicks : 0..MaxSettingClicks, faults : 0..MaxSettingFaults]
  BY <1>1, <1>2, CountFacts
<1>5. stale' \subseteq SettingsWindows \X Preference!Settings
  BY <1>1, <1>3, StaleTyped
<1>6. PICK f : f = [Preference!Current EXCEPT ![s] = v]
  OBVIOUS
<1>7. f \in Choices /\ f[s] = v /\ \A t \in Preference!Settings \ {s} :
          f[t] = Preference!Current[t]
  BY <1>1, <1>2, <1>6, ChoiceFacts
<1>8. v = Preference!Current[s] => f = Preference!Current
  BY <1>1, <1>6, ChoiceFacts
<1>9. Preference!Current[s] \in Preference!ValuesOf(s)
  BY <1>1, ChoiceFacts
<1>10. PICK g \in Choices, u \in Preference!ValuesOf(s) :
         /\ Preference!SetRow(w, s, u) /\ g[s] = u
         /\ \A t \in Preference!Settings \ {s} : g[t] = Preference!Current[t]
         /\ \/ Preference!WritePreference(g)
            \/ Preference!AlreadySo /\ g = Preference!Current
            \/ Preference!NothingWritten /\ g = Preference!Current
         /\ \/ /\ Preference!Chose({s}, g)
               /\ Preference!WritePreference(g) \/ Preference!AlreadySo
            \/ Preference!NothingWritten /\ UNCHANGED chosen
  <2>1. CASE /\ IF v = Preference!Current[s] THEN Preference!AlreadySo ELSE
                    Preference!WritePreference([Preference!Current EXCEPT ![s] = v])
             /\ Preference!SetRow(w, s, v)
             /\ Preference!Chose({s}, [Preference!Current EXCEPT ![s] = v])
    BY <1>2, <1>6, <1>7, <1>8, <2>1
  <2>2. CASE /\ Preference!NothingWritten /\ Preference!SetRow(w, s, Preference!Current[s])
             /\ UNCHANGED chosen
    BY <1>1, <1>9, <2>2
  <2> QED
    BY <1>2, <2>1, <2>2
<1>11. /\ Preference!Current' = g /\ stored' \in Choices /\ readable' \in BOOLEAN
       /\ overwritten' \in BOOLEAN
       /\ (~inFile' => readable') /\ (~overwritten' => ~overwritten)
       /\ (~overwritten' /\ ~Preference!NothingWritten) => (readable /\ stored' = g)
       /\ Preference!NothingWritten => stored' = stored
  BY <1>1, <1>3, <1>10, WrittenFacts
<1>12. /\ settingRows' \in [SettingsWindows -> Choices]
       /\ settingRows'[w][s] = u
       /\ \A t \in Preference!Settings \ {s} : settingRows'[w][t] = settingRows[w][t]
       /\ \A x \in SettingsWindows \ {w} : settingRows'[x] = settingRows[x]
  BY <1>1, <1>10, RowSet
<1>13. Preference!ShowsCommand(Preference!Current') \in BOOLEAN
  BY DEF Preference!ShowsCommand
<1>14. /\ commandRow' \in [SettingsWindows -> BOOLEAN]
       /\ \A x \in SettingsWindows \ {w} : commandRow'[x] = commandRow[x]
       /\ s = "backend" => commandRow'[w] = Preference!ShowsCommand(Preference!Current')
       /\ s # "backend" => commandRow' = commandRow
  BY <1>1, <1>3, <1>13 DEF SettingsTyped
<1>15. /\ chosen' \in Choices
       /\ ~Preference!NothingWritten => ((readable /\ stored = chosen) => chosen' = g)
       /\ Preference!NothingWritten =>
              (chosen' = chosen \/ ((readable /\ stored = chosen) => chosen' = g))
  BY <1>1, <1>10, ChoseFacts DEF SettingsTyped
<1>16. SettingsTyped'
  BY <1>1, <1>3, <1>4, <1>5, <1>11, <1>12, <1>14, <1>15 DEF SettingsTyped
<1>17. Preference!ChoicesAreKept'
  <2> SUFFICES ASSUME ~overwritten' PROVE stored' = chosen'
    BY DEF Preference!ChoicesAreKept
  <2>1. stored = chosen
    BY <1>11 DEF SettingsInv, Preference!ChoicesAreKept
  <2>2. CASE ~Preference!NothingWritten
    BY <1>11, <1>15, <2>1, <2>2
  <2>3. CASE Preference!NothingWritten /\ UNCHANGED chosen
    BY <1>11, <2>1, <2>3
  <2>4. CASE /\ Preference!NothingWritten /\ Preference!Chose({s}, g)
             /\ (Preference!WritePreference(g) \/ Preference!AlreadySo)
    <3>1. readable
      BY <2>4
         DEF Preference!NothingWritten, Preference!WritePreference, Preference!AlreadySo,
             SettingsInv, SettingsTyped
    <3> QED
      BY <1>1, <1>10, <1>11, <2>1, <2>4, <3>1, ChoseFacts
         DEF Preference!WritePreference, Preference!AlreadySo, Preference!Current,
             Preference!NothingWritten
  <2> QED
    BY <1>10, <2>2, <2>3, <2>4
<1>18. Preference!RowsShowTheSettings' /\ AskedWhileOff'
  <2>1. (stale \ ({w} \X {s})) \cup Preference!OutdatedBy(w) \subseteq stale'
    BY <1>3 DEF Preference!Fresh
  <2>2. confirming \subseteq SettingsWindows
    BY <1>1 DEF SettingsTyped
  <2>3. {s} \in SUBSET Preference!Settings
    BY <1>1
  <2>4. /\ shownIn' = shownIn /\ confirming' = confirming
    BY <1>3
  <2>5. \A t \in Preference!Settings \ {s} :
            settingRows'[w][t] = settingRows[w][t] /\ Preference!Current'[t] =
                Preference!Current[t]
    BY <1>10, <1>11, <1>12
  <2>6. settingRows'[w][s] = Preference!Current'[s]
    BY <1>10, <1>11, <1>12
  <2>7. \A x \in SettingsWindows \ {w} : /\ settingRows'[x] = settingRows[x]
                                         /\ commandRow'[x] = commandRow[x]
                                         /\ (x \in confirming' <=> x \in confirming)
    BY <1>12, <1>14, <2>4
  <2>8. "backend" \notin {s} => commandRow'[w] = commandRow[w]
    BY <1>14
  <2>9. \A t \in {s} : (<<w, t>> \notin stale' /\ ~(t = "sync" /\ w \in confirming')) =>
             (/\ settingRows'[w][t] = Preference!Current'[t]
              /\ (t = "backend" =>
                  commandRow'[w] = Preference!ShowsCommand(Preference!Current')))
    BY <1>14, <2>6
  <2>10. "sync" \notin {s} => (w \in confirming' <=> w \in confirming)
    BY <2>4
  <2>11. ("sync" \in {s} /\ w \in confirming') =>
             (<<w, "sync">> \in stale' \/ Preference!Current'["sync"] = Preference!Off)
    BY <1>1
  <2>12. confirming' \subseteq SettingsWindows
    BY <2>2, <2>4
  <2>13. PICK ss \in SUBSET Preference!Settings : ss = {s}
    BY <1>1
  <2> HIDE DEF SettingsInv
  <2> QED
    BY ONLY SettingsInv, w \in SettingsWindows, <2>1, <2>4, <2>5, <2>7, <2>8, <2>9, <2>10,
       <2>11, <2>12, <2>13, RowsStayRight
<1> QED
  BY <1>16, <1>17, <1>18 DEF SettingsInv

LEMMA EditTemplateKeeps ==
    ASSUME SettingBounds, SettingsInv, NEW w \in SettingsWindows, Preference!EditTemplate(w)
    PROVE  SettingsInv'
<1> DEFINE s == "template"
<1>1. SettingsTyped /\ s \in Preference!Settings /\ Preference!Current \in Choices
  BY CurrentFacts, ValueFacts DEF SettingsInv
<1>2. PICK v \in Preference!ValuesOf(s) :
           /\ Preference!SetRow(w, s, v)
           /\ \/ /\ Preference!Click(w)
                 /\ IF v = Preference!Current[s] THEN Preference!AlreadySo ELSE
                        Preference!WritePreference([Preference!Current EXCEPT ![s] = v])
                 /\ Preference!Chose({s}, [Preference!Current EXCEPT ![s] = v])
                 /\ Preference!Fresh(w, {s})
              \/ /\ Preference!FailingClick(w)
                 /\ v # Preference!Current[s]
                 /\ Preference!NothingWritten
                 /\ UNCHANGED chosen
                 /\ stale' = stale \cup {<<w, s>>}
  BY DEF Preference!EditTemplate
<1>3. UNCHANGED <<inFile, hostAllowed, shownIn, commandRow, popover, confirming>>
  BY DEF Preference!EditTemplate
<1>4. settingCount' \in [clicks : 0..MaxSettingClicks, faults : 0..MaxSettingFaults]
  BY <1>1, <1>2, CountFacts
<1>5. PICK f : f = [Preference!Current EXCEPT ![s] = v]
  OBVIOUS
<1>6. f \in Choices /\ f[s] = v /\ \A t \in Preference!Settings \ {s} :
          f[t] = Preference!Current[t]
  BY <1>1, <1>2, <1>5, ChoiceFacts
<1>7. v = Preference!Current[s] => f = Preference!Current
  BY <1>1, <1>5, ChoiceFacts
<1>8. /\ settingRows' \in [SettingsWindows -> Choices]
      /\ settingRows'[w][s] = v
      /\ \A t \in Preference!Settings \ {s} : settingRows'[w][t] = settingRows[w][t]
      /\ \A x \in SettingsWindows \ {w} : settingRows'[x] = settingRows[x]
  BY <1>1, <1>2, RowSet
<1>9. \A t \in Preference!Settings \ {s} : Preference!Current'[t] = Preference!Current[t]
  <2>1. CASE /\ Preference!Chose({s}, f)
             /\ (Preference!WritePreference(f) \/ (Preference!AlreadySo /\ f =
                                                   Preference!Current))
    BY <1>1, <1>6, <2>1, WrittenFacts
  <2>2. CASE Preference!NothingWritten
    BY <1>1, <2>2, WrittenFacts
  <2> QED
    BY <1>2, <1>5, <1>7, <2>1, <2>2
<1>10. /\ stored' \in Choices /\ readable' \in BOOLEAN /\ overwritten' \in BOOLEAN
       /\ (~inFile' => readable') /\ chosen' \in Choices
       /\ stale' \subseteq SettingsWindows \X Preference!Settings
       /\ ~overwritten' => stored' = chosen'
       /\ Preference!Current' = f \/ <<w, s>> \in stale'
       /\ (stale \ ({w} \X {s})) \cup Preference!OutdatedBy(w) \subseteq stale'
  <2>1. CASE /\ Preference!Chose({s}, f) /\ Preference!Fresh(w, {s})
             /\ (Preference!WritePreference(f) \/ (Preference!AlreadySo /\ f =
                                                   Preference!Current))
    <3>1. /\ Preference!Current' = f /\ stored' \in Choices /\ readable' \in BOOLEAN
          /\ overwritten' \in BOOLEAN
          /\ (~inFile' => readable') /\ (~overwritten' => ~overwritten)
      BY <1>1, <1>3, <1>6, <2>1, WrittenFacts
    <3>2. /\ chosen' \in Choices
          /\ (readable /\ stored = chosen) => chosen' = f
      BY <1>1, <1>6, <2>1, ChoseFacts
    <3>3. ~overwritten' => (readable /\ stored = chosen /\ stored' = f)
      BY <2>1
         DEF SettingsInv, SettingsTyped, Preference!ChoicesAreKept, Preference!AlreadySo,
             Preference!WritePreference, Preference!Current
    <3>4. (stale \ ({w} \X {s})) \cup Preference!OutdatedBy(w) \subseteq stale'
      BY <2>1 DEF Preference!Fresh
    <3>5. stale' \subseteq SettingsWindows \X Preference!Settings
      BY <1>1, <2>1, StaleTyped
    <3> QED
      BY <3>1, <3>2, <3>3, <3>4, <3>5
  <2>2. CASE Preference!NothingWritten /\ UNCHANGED chosen /\ stale' = stale \cup {<<w, s>>}
    <3>1. /\ Preference!Current' = Preference!Current /\ stored' = stored
          /\ readable' = readable /\ overwritten' = overwritten
      BY <1>1, <2>2, CurrentFacts DEF Preference!NothingWritten
    <3>2. Preference!OutdatedBy(w) = {}
      BY <3>1 DEF Preference!OutdatedBy
    <3>3. stale' \subseteq SettingsWindows \X Preference!Settings
      BY <1>1, <2>2 DEF SettingsTyped
    <3> QED
      BY <1>1, <1>3, <2>2, <3>1, <3>2, <3>3
         DEF SettingsInv, SettingsTyped, Preference!ChoicesAreKept
  <2> QED
    BY <1>2, <1>5, <1>7, <2>1, <2>2
<1>11. SettingsTyped'
  BY <1>1, <1>3, <1>4, <1>8, <1>10 DEF SettingsTyped
<1>12. Preference!RowsShowTheSettings' /\ AskedWhileOff'
  <2>2. confirming \subseteq SettingsWindows
    BY <1>1 DEF SettingsTyped
  <2>4. /\ shownIn' = shownIn /\ confirming' = confirming
    BY <1>3
  <2>5. \A t \in Preference!Settings \ {s} :
            settingRows'[w][t] = settingRows[w][t] /\ Preference!Current'[t] =
                Preference!Current[t]
    BY <1>8, <1>9
  <2>7. \A x \in SettingsWindows \ {w} : /\ settingRows'[x] = settingRows[x]
                                         /\ commandRow'[x] = commandRow[x]
                                         /\ (x \in confirming' <=> x \in confirming)
    BY <1>3, <1>8
  <2>8. "backend" \notin {s} => commandRow'[w] = commandRow[w]
    BY <1>3
  <2>9. \A t \in {s} : (<<w, t>> \notin stale' /\ ~(t = "sync" /\ w \in confirming')) =>
             (/\ settingRows'[w][t] = Preference!Current'[t]
              /\ (t = "backend" =>
                  commandRow'[w] = Preference!ShowsCommand(Preference!Current')))
    BY <1>6, <1>8, <1>10
  <2>10. "sync" \notin {s} => (w \in confirming' <=> w \in confirming)
    BY <2>4
  <2>11. ("sync" \in {s} /\ w \in confirming') =>
             (<<w, "sync">> \in stale' \/ Preference!Current'["sync"] = Preference!Off)
    OBVIOUS
  <2>12. confirming' \subseteq SettingsWindows
    BY <2>2, <2>4
  <2>13. PICK ss \in SUBSET Preference!Settings : ss = {s}
    BY <1>1
  <2> HIDE DEF s
  <2> QED
    BY ONLY SettingsInv, w \in SettingsWindows, <1>10, <2>4, <2>5, <2>7, <2>8, <2>9, <2>10,
            <2>11, <2>12, <2>13, RowsStayRight
<1> QED
  BY <1>10, <1>11, <1>12 DEF SettingsInv, Preference!ChoicesAreKept

\* A page that is opened writes nothing, writes the template anew, or leaves it empty;
\* the rows of the other windows are outdated where a setting is another one now.
LEMMA RefreshWrites ==
    ASSUME SettingBounds, SettingsInv, NEW w \in
           SettingsWindows, Preference!RefreshSettings(w)
    PROVE  /\ Preference!Current' \in Choices
           /\ \A x \in SettingsWindows, s \in Preference!Settings :
                  <<x, s>> \notin stale' =>
                      (/\ x # w => <<x, s>> \notin stale
                       /\ Preference!Current'[s] = Preference!Current[s])
           /\ \A x \in SettingsWindows :
                  x # w /\ <<x, "sync">> \in stale => <<x, "sync">> \in stale'
           /\ Preference!Current'["sync"] = Preference!Current["sync"]
           /\ stored' \in Choices /\ chosen' \in Choices
           /\ readable' \in BOOLEAN /\ overwritten' \in BOOLEAN
           /\ (~inFile => readable')
           /\ stale' \subseteq SettingsWindows \X Preference!Settings
           /\ settingCount' \in [clicks : 0..MaxSettingClicks, faults : 0..MaxSettingFaults]
           /\ Preference!ChoicesAreKept'
<1> DEFINE empty == [Preference!Current EXCEPT !["template"] = Preference!NoText]
           fresh == stale \ ({w} \X Preference!Settings)
<1>1. /\ SettingsTyped /\ Preference!Current \in Choices
      /\ stored \in Choices /\ chosen \in Choices
      /\ readable \in BOOLEAN /\ overwritten \in BOOLEAN /\ (~inFile => readable)
      /\ stale \subseteq SettingsWindows \X Preference!Settings
      /\ "sync" \in Preference!Settings
  BY CurrentFacts, ValueFacts DEF SettingsInv, SettingsTyped
<1>2. /\ empty \in Choices
      /\ \A t \in Preference!Settings \ {"template"} : empty[t] = Preference!Current[t]
      /\ [chosen EXCEPT !["template"] = Preference!NoText] \in Choices
  BY <1>1, ChoiceFacts, NoTextFacts
<1>3. ~overwritten => stored = chosen
  BY DEF SettingsInv, Preference!ChoicesAreKept
<1>4. CASE /\ Preference!WritePreference(Preference!Current) \/ Preference!NothingWritten
           /\ UNCHANGED chosen /\ stale' = fresh
           /\ UNCHANGED settingCount \/ Preference!Fault
  <2>1. /\ Preference!Current' = Preference!Current
        /\ stored' \in Choices /\ readable' \in BOOLEAN /\ overwritten' \in BOOLEAN
        /\ (~inFile => readable')
    BY <1>1, <1>4, CurrentFacts
       DEF Preference!WritePreference, Preference!NothingWritten
  <2>2. ~overwritten' => stored' = chosen'
    <3>1. CASE Preference!WritePreference(Preference!Current)
      <4>1. ~overwritten' => (~overwritten /\ readable /\ stored' = Preference!Current)
        BY <1>1, <3>1 DEF Preference!WritePreference
      <4> QED
        BY <1>3, <1>4, <4>1 DEF Preference!Current
    <3>2. CASE Preference!NothingWritten
      <4>1. overwritten' = overwritten /\ stored' = stored
        BY <3>2 DEF Preference!NothingWritten
      <4> QED
        BY <1>3, <1>4, <4>1
    <3> QED
      BY <1>4, <3>1, <3>2
  <2>3. settingCount' \in [clicks : 0..MaxSettingClicks, faults : 0..MaxSettingFaults]
    BY <1>1, <1>4, CountFacts
  <2>4. /\ stale' \subseteq stale /\ chosen' \in Choices
        /\ \A x \in SettingsWindows, s \in Preference!Settings :
               (<<x, s>> \notin stale' /\ x # w) => <<x, s>> \notin stale
        /\ \A x \in SettingsWindows :
               (x # w /\ <<x, "sync">> \in stale) => <<x, "sync">> \in stale'
    BY <1>1, <1>4
  <2> HIDE DEF empty, fresh
  <2> QED
    BY <1>1, <2>1, <2>2, <2>3, <2>4 DEF Preference!ChoicesAreKept
<1>5. CASE /\ Preference!WritePreference(empty) /\ Preference!Fault
           /\ chosen' = [chosen EXCEPT !["template"] = Preference!NoText]
           /\ stale' = fresh \cup (SettingsWindows \X {"template"})
  <2>1. /\ Preference!Current' = empty
        /\ stored' = empty /\ readable' = TRUE /\ overwritten' \in BOOLEAN
    BY <1>1, <1>5, CurrentFacts DEF Preference!WritePreference
  <2>2. ~overwritten' => stored' = chosen'
    BY <1>1, <1>3, <1>5 DEF Preference!WritePreference, Preference!Current
  <2>3. settingCount' \in [clicks : 0..MaxSettingClicks, faults : 0..MaxSettingFaults]
    BY <1>1, <1>5, CountFacts
  <2>4. stale' \subseteq SettingsWindows \X Preference!Settings
    BY <1>1, <1>5, NoTextFacts
  <2>5. \A x \in SettingsWindows, s \in Preference!Settings :
            <<x, s>> \notin stale' =>
                (/\ x # w => <<x, s>> \notin stale
                 /\ s # "template")
    BY <1>5
  <2> HIDE DEF empty, fresh
  <2> QED
    BY <1>1, <1>2, <1>5, <2>1, <2>2, <2>3, <2>4, <2>5
       DEF Preference!ChoicesAreKept, fresh
<1> QED
  BY <1>4, <1>5 DEF Preference!RefreshSettings, Preference!WriteTemplateAnew

LEMMA RefreshKeeps ==
    ASSUME SettingBounds, SettingsInv, NEW w \in
           SettingsWindows, Preference!RefreshSettings(w)
    PROVE  SettingsInv'
<1>1. /\ SettingsTyped /\ Preference!Current \in Choices
      /\ UNCHANGED <<inFile, hostAllowed, popover, confirming>>
      /\ w \notin confirming /\ shownIn' = shownIn \cup {w}
      /\ settingRows' = [settingRows EXCEPT ![w] = Preference!Current]
      /\ commandRow' =
             [commandRow EXCEPT ![w] = Preference!ShowsCommand(Preference!Current)]
  BY CurrentFacts DEF SettingsInv, Preference!RefreshSettings
<1>2. SettingsTyped'
  BY <1>1, RefreshWrites DEF SettingsTyped, Preference!ShowsCommand
<1>3. Preference!RowsShowTheSettings'
  <2> SUFFICES ASSUME NEW x \in shownIn', NEW s \in
      Preference!Settings, <<x, s>> \notin stale',
                      ~(s = "sync" /\ x \in confirming')
               PROVE  /\ settingRows'[x][s] = Preference!Current'[s]
                      /\ (s = "backend" =>
                          commandRow'[x] = Preference!ShowsCommand(Preference!Current'))
    BY DEF Preference!RowsShowTheSettings, Preference!ShowsCommand
  <2>1. /\ x \in SettingsWindows
        /\ Preference!Current'[s] = Preference!Current[s]
        /\ (x # w => <<x, s>> \notin stale)
    BY <1>1, RefreshWrites DEF SettingsTyped
  <2>2. s = "backend" => Preference!ShowsCommand(Preference!Current') =
                             Preference!ShowsCommand(Preference!Current)
    BY <2>1 DEF Preference!ShowsCommand
  <2>3. CASE x = w
    BY <1>1, <2>1, <2>2, <2>3 DEF SettingsTyped
  <2>4. CASE x # w
    <3>1. x \in shownIn /\ <<x, s>> \notin stale
      BY <1>1, <2>1, <2>4
    <3>2. /\ settingRows[x][s] = Preference!Current[s]
          /\ (s = "backend" => commandRow[x] = Preference!ShowsCommand(Preference!Current))
      BY <1>1, <3>1 DEF SettingsInv, Preference!RowsShowTheSettings
    <3>3. settingRows'[x] = settingRows[x] /\ commandRow'[x] = commandRow[x]
      BY <1>1, <2>1, <2>4 DEF SettingsTyped
    <3> QED
      BY <2>1, <2>2, <3>2, <3>3
  <2> QED
    BY <2>3, <2>4
<1>4. AskedWhileOff'
  <2>1. confirming \subseteq SettingsWindows
    BY <1>1 DEF SettingsTyped
  <2> QED
    BY <1>1, <2>1, RefreshWrites DEF SettingsInv, AskedWhileOff
<1> QED
  BY <1>2, <1>3, <1>4, RefreshWrites DEF SettingsInv

\* The file or the setting is changed by no window: every row of a setting that is
\* another one now is outdated.
LEMMA ChangesElsewhereKeep ==
    ASSUME SettingsInv,
           UNCHANGED <<shownIn, settingRows, commandRow, confirming>>,
           \A x \in SettingsWindows, s \in Preference!Settings :
               (<<x, s>> \notin stale') =>
                   (<<x, s>> \notin stale /\ Preference!Current'[s] = Preference!Current[s])
    PROVE  Preference!RowsShowTheSettings' /\ AskedWhileOff'
<1>1. shownIn \subseteq SettingsWindows /\ confirming \subseteq SettingsWindows
  BY DEF SettingsInv, SettingsTyped
<1>2. "sync" \in Preference!Settings /\ "backend" \in Preference!Settings
  BY ValueFacts
<1>3. Preference!RowsShowTheSettings'
  BY <1>1, <1>2 DEF SettingsInv, Preference!RowsShowTheSettings, Preference!ShowsCommand
<1>4. AskedWhileOff'
  BY <1>1, <1>2 DEF SettingsInv, AskedWhileOff
<1> QED
  BY <1>3, <1>4

LEMMA HandleSyncFailureKeeps ==
    ASSUME SettingBounds, SettingsInv, Preference!HandleSyncFailure PROVE SettingsInv'
<1>a. Preference!ValuesOf("sync") = 0..1 /\ "sync" \in Preference!Settings
  BY ValueFacts
<1>b. Preference!Off \in Preference!ValuesOf("sync")
  BY <1>a DEF Preference!Off
<1>c. SettingsTyped
  BY DEF SettingsInv
<1>d. chosen \in Choices
  BY <1>c DEF SettingsTyped
<1>1. /\ SettingsTyped /\ Preference!Current \in Choices /\ "sync" \in Preference!Settings
      /\ Preference!Off \in Preference!ValuesOf("sync")
      /\ chosen \in Choices
  BY <1>a, <1>b, <1>c, <1>d, CurrentFacts
<1>2. PICK f : f = [Preference!Current EXCEPT !["sync"] = Preference!Off]
  OBVIOUS
<1>3. f \in Choices /\ \A t \in Preference!Settings \ {"sync"} :
          f[t] = Preference!Current[t]
  BY <1>1, <1>2, ChoiceFacts
<1>4. /\ Preference!WritePreference(f)
      /\ chosen' = [chosen EXCEPT !["sync"] = Preference!Off] /\ Preference!Fault
      /\ stale' = stale \cup (SettingsWindows \X {"sync"})
      /\ UNCHANGED <<inFile, hostAllowed, shownIn, settingRows, commandRow, popover,
                     confirming>>
  BY <1>2 DEF Preference!HandleSyncFailure
<1>5. Preference!Current' = f
  BY <1>1, <1>4, CurrentFacts
<1>6. settingCount' \in [clicks : 0..MaxSettingClicks, faults : 0..MaxSettingFaults]
  BY <1>1, <1>4, CountFacts
<1>7. chosen' \in Choices
  BY <1>1, <1>4, ChoiceFacts
<1>8. SettingsTyped'
  BY <1>1, <1>3, <1>4, <1>6, <1>7 DEF SettingsTyped, Preference!WritePreference
<1>9. Preference!ChoicesAreKept'
  BY <1>2, <1>4
     DEF SettingsInv, SettingsTyped, Preference!ChoicesAreKept, Preference!WritePreference,
         Preference!Current
<1>10. Preference!RowsShowTheSettings' /\ AskedWhileOff'
  BY <1>1, <1>3, <1>4, <1>5, ChangesElsewhereKeep
<1> QED
  BY <1>8, <1>9, <1>10 DEF SettingsInv

LEMMA FileBreaksKeeps ==
    ASSUME SettingBounds, SettingsInv, Preference!FileBreaks PROVE SettingsInv'
<1>1. /\ SettingsTyped /\ inFile /\ readable' = ~readable /\ Preference!Fault
      /\ stale' = stale \cup
                    {row \in SettingsWindows \X Preference!Settings :
                     Preference!Current'[row[2]] # Preference!Current[row[2]]}
      /\ UNCHANGED <<inFile, stored, hostAllowed, shownIn, settingRows, commandRow, popover,
                     confirming, chosen, overwritten>>
  BY DEF Preference!FileBreaks, SettingsInv
<1>2. settingCount' \in [clicks : 0..MaxSettingClicks, faults : 0..MaxSettingFaults]
  BY <1>1, CountFacts
<1>3. SettingsTyped'
  BY <1>1, <1>2 DEF SettingsTyped
<1>4. Preference!ChoicesAreKept'
  BY <1>1 DEF SettingsInv, Preference!ChoicesAreKept
<1>5. \A x \in SettingsWindows, s \in Preference!Settings :
          (<<x, s>> \notin stale') =>
              (<<x, s>> \notin stale /\ Preference!Current'[s] = Preference!Current[s])
  BY <1>1
<1>6. Preference!RowsShowTheSettings' /\ AskedWhileOff'
  BY <1>1, <1>5, ChangesElsewhereKeep
<1> QED
  BY <1>3, <1>4, <1>6 DEF SettingsInv

LEMMA HostChangesKeeps ==
    ASSUME SettingBounds, SettingsInv, Preference!HostChanges PROVE SettingsInv'
<1>1. /\ SettingsTyped /\ hostAllowed' = ~hostAllowed /\ Preference!Fault
      /\ UNCHANGED <<inFile, stored, readable, shownIn, settingRows, commandRow, popover,
                     confirming, chosen, stale, overwritten>>
      /\ Preference!Current' = Preference!Current
  BY DEF Preference!HostChanges, SettingsInv, Preference!Current
<1>2. settingCount' \in [clicks : 0..MaxSettingClicks, faults : 0..MaxSettingFaults]
  BY <1>1, CountFacts
<1>3. SettingsTyped'
  BY <1>1, <1>2 DEF SettingsTyped
<1>4. Preference!RowsShowTheSettings' /\ AskedWhileOff'
  BY <1>1, ChangesElsewhereKeep
<1> QED
  BY <1>1, <1>3, <1>4 DEF SettingsInv, Preference!ChoicesAreKept

LEMMA SyncFacts ==
    /\ "sync" \in Preference!Settings /\ {"sync"} \in SUBSET Preference!Settings
    /\ Preference!Off \in Preference!ValuesOf("sync")
    /\ Preference!On \in Preference!ValuesOf("sync") /\ Preference!Off # Preference!On
    /\ \A v \in Preference!ValuesOf("sync") : v \in {Preference!Off, Preference!On}
<1>1. Preference!ValuesOf("sync") = 0..1 /\ "sync" \in Preference!Settings
  BY ValueFacts
<1> QED
  BY <1>1 DEF Preference!Off, Preference!On

\* What a step that touches the row of key sync in window w alone must leave.
LEMMA SyncRowStaysRight ==
    ASSUME SettingsInv, NEW w \in SettingsWindows,
           shownIn' = shownIn, commandRow' = commandRow,
           \A x \in SettingsWindows \ {w} : /\ settingRows'[x] = settingRows[x]
                                            /\ (x \in confirming' <=> x \in confirming),
           \A t \in Preference!Settings \ {"sync"} :
               /\ settingRows'[w][t] = settingRows[w][t]
               /\ Preference!Current'[t] = Preference!Current[t],
           (stale \ ({w} \X {"sync"})) \cup Preference!OutdatedBy(w) \subseteq stale',
           (<<w, "sync">> \notin stale' /\ w \notin confirming') =>
               settingRows'[w]["sync"] = Preference!Current'["sync"],
           w \in confirming' =>
               (<<w, "sync">> \in stale' \/ Preference!Current'["sync"] = Preference!Off),
           confirming' \subseteq SettingsWindows
    PROVE  Preference!RowsShowTheSettings' /\ AskedWhileOff'
<1>1. PICK ss \in SUBSET Preference!Settings : ss = {"sync"}
  BY SyncFacts
<1>2. \A t \in ss : (<<w, t>> \notin stale' /\ ~(t = "sync" /\ w \in confirming')) =>
             (/\ settingRows'[w][t] = Preference!Current'[t]
              /\ (t = "backend" =>
                  commandRow'[w] = Preference!ShowsCommand(Preference!Current')))
  BY <1>1
<1>3. \A x \in SettingsWindows \ {w} : /\ settingRows'[x] = settingRows[x]
                                       /\ commandRow'[x] = commandRow[x]
                                       /\ (x \in confirming' <=> x \in confirming)
  OBVIOUS
<1>4. "backend" \notin ss => commandRow'[w] = commandRow[w]
  OBVIOUS
<1>5. "sync" \notin ss => (w \in confirming' <=> w \in confirming)
  BY <1>1
<1>6. ("sync" \in ss /\ w \in confirming') =>
          (<<w, "sync">> \in stale' \/ Preference!Current'["sync"] = Preference!Off)
  OBVIOUS
<1>7. \A t \in Preference!Settings \ ss :
          settingRows'[w][t] = settingRows[w][t] /\ Preference!Current'[t] =
              Preference!Current[t]
  BY <1>1
<1>8. (stale \ ({w} \X ss)) \cup Preference!OutdatedBy(w) \subseteq stale'
  BY <1>1
<1> HIDE DEF SettingsInv
<1> QED
  BY ONLY SettingsInv, w \in SettingsWindows, shownIn' = shownIn, <1>1, <1>2, <1>3, <1>4,
     <1>5,
          <1>6, <1>7, <1>8, confirming' \subseteq SettingsWindows, RowsStayRight

\* What one way of clicking the row does: the settings g, the row's value v.
SyncStep(w, g, v, new) ==
    /\ settingRows' \in [SettingsWindows -> Choices]
    /\ settingRows'[w]["sync"] = v
    /\ \A t \in Preference!Settings \ {"sync"} : settingRows'[w][t] = settingRows[w][t]
    /\ \A x \in SettingsWindows \ {w} : settingRows'[x] = settingRows[x]
    /\ Preference!Current' = g
    /\ \A t \in Preference!Settings \ {"sync"} : g[t] = Preference!Current[t]
    /\ confirming' = new
    /\ stored' \in Choices /\ readable' \in BOOLEAN /\ overwritten' \in BOOLEAN
    /\ (~inFile => readable') /\ chosen' \in Choices
    /\ (~overwritten' => stored' = chosen')

\* The settings are written, or found to be so, and the user chose them.
LEMMA SyncChosen ==
    ASSUME SettingsInv, NEW w \in SettingsWindows, NEW f \in Choices, NEW v \in
           Preference!ValuesOf("sync"),
           \A t \in Preference!Settings \ {"sync"} : f[t] = Preference!Current[t],
           \/ Preference!WritePreference(f)
           \/ Preference!AlreadySo /\ f = Preference!Current,
           Preference!SetRow(w, "sync", v), Preference!Chose({"sync"}, f), inFile' = inFile
    PROVE  SyncStep(w, f, v, confirming')
<1>1. SettingsTyped
  BY DEF SettingsInv
<1>2. /\ Preference!Current' = f /\ stored' \in Choices /\ readable' \in BOOLEAN
      /\ overwritten' \in BOOLEAN
      /\ (~inFile => readable')
  BY <1>1, WrittenFacts
<1>3. /\ chosen' \in Choices
      /\ (readable /\ stored = chosen) => chosen' = f
  BY <1>1, SyncFacts, ChoseFacts
<1>4. ~overwritten' => (readable /\ stored = chosen /\ stored' = f)
  BY DEF SettingsInv, SettingsTyped, Preference!ChoicesAreKept, Preference!AlreadySo,
     Preference!WritePreference, Preference!Current
<1>5. /\ settingRows' \in [SettingsWindows -> Choices]
      /\ settingRows'[w]["sync"] = v
      /\ \A t \in Preference!Settings \ {"sync"} : settingRows'[w][t] = settingRows[w][t]
      /\ \A x \in SettingsWindows \ {w} : settingRows'[x] = settingRows[x]
  BY <1>1, SyncFacts, RowSet
<1> QED
  BY <1>2, <1>3, <1>4, <1>5 DEF SyncStep

\* Nothing is written; the row is set or stays.
LEMMA SyncUnwritten ==
    ASSUME SettingsInv, NEW w \in
           SettingsWindows, Preference!NothingWritten, UNCHANGED chosen,
           NEW v \in Preference!ValuesOf("sync"),
           \/ Preference!SetRow(w, "sync", v)
           \/ settingRows' = settingRows /\ v = settingRows[w]["sync"],
           inFile' = inFile
    PROVE  SyncStep(w, Preference!Current, v, confirming')
<1>1. SettingsTyped
  BY DEF SettingsInv
<1>2. Preference!Current' = Preference!Current
  BY <1>1, CurrentFacts
<1>3. /\ settingRows' \in [SettingsWindows -> Choices]
      /\ settingRows'[w]["sync"] = v
      /\ \A t \in Preference!Settings \ {"sync"} : settingRows'[w][t] = settingRows[w][t]
      /\ \A x \in SettingsWindows \ {w} : settingRows'[x] = settingRows[x]
  <2>1. CASE Preference!SetRow(w, "sync", v)
    BY <1>1, <2>1, SyncFacts, RowSet
  <2>2. CASE settingRows' = settingRows /\ v = settingRows[w]["sync"]
    BY <1>1, <2>2 DEF SettingsTyped
  <2> QED
    BY <2>1, <2>2
<1>4. /\ stored' \in Choices /\ readable' \in BOOLEAN /\ overwritten' \in BOOLEAN
      /\ (~inFile => readable') /\ chosen' \in Choices
  BY <1>1 DEF SettingsTyped, Preference!NothingWritten
<1>5. ~overwritten' => stored' = chosen'
  BY DEF SettingsInv, Preference!ChoicesAreKept, Preference!NothingWritten
<1> QED
  BY <1>2, <1>3, <1>4, <1>5 DEF SyncStep

LEMMA SyncStepKeeps ==
    ASSUME SettingBounds, SettingsInv, NEW w \in SettingsWindows, NEW g, NEW v, NEW new,
           SyncStep(w, g, v, new), new \subseteq shownIn,
           \A x \in SettingsWindows \ {w} : (x \in new <=> x \in confirming),
           UNCHANGED <<inFile, hostAllowed, shownIn, commandRow, popover>>,
           settingCount' \in [clicks : 0..MaxSettingClicks, faults : 0..MaxSettingFaults],
           stale' \subseteq SettingsWindows \X Preference!Settings,
           (stale \ ({w} \X {"sync"})) \cup Preference!OutdatedBy(w) \subseteq stale',
           (<<w, "sync">> \notin stale' /\ w \notin new) => v = g["sync"],
           w \in new => (<<w, "sync">> \in stale' \/ g["sync"] = Preference!Off)
    PROVE  SettingsInv'
<1>1. SettingsTyped /\ new \subseteq SettingsWindows
  BY DEF SettingsInv, SettingsTyped
<1>2. SettingsTyped'
  BY <1>1 DEF SettingsTyped, SyncStep
<1>3. /\ shownIn' = shownIn /\ commandRow' = commandRow
      /\ confirming' = new /\ Preference!Current' = g
  BY DEF SyncStep
<1>4. \A x \in SettingsWindows \ {w} : /\ settingRows'[x] = settingRows[x]
                                       /\ (x \in confirming' <=> x \in confirming)
  BY <1>3 DEF SyncStep
<1>5. \A t \in Preference!Settings \ {"sync"} :
          settingRows'[w][t] = settingRows[w][t] /\ Preference!Current'[t] =
              Preference!Current[t]
  BY <1>3 DEF SyncStep
<1>6. (<<w, "sync">> \notin stale' /\ w \notin confirming') =>
          settingRows'[w]["sync"] = Preference!Current'["sync"]
  BY <1>3 DEF SyncStep
<1>7. w \in confirming' =>
          (<<w, "sync">> \in stale' \/ Preference!Current'["sync"] = Preference!Off)
  BY <1>3
<1>8. confirming' \subseteq SettingsWindows
  BY <1>1, <1>3
<1>9. Preference!RowsShowTheSettings' /\ AskedWhileOff'
  BY ONLY SettingsInv, w \in SettingsWindows, <1>3, <1>4, <1>5, <1>6, <1>7, <1>8,
          (stale \ ({w} \X {"sync"})) \cup Preference!OutdatedBy(w) \subseteq
              stale', SyncRowStaysRight
<1> QED
  BY <1>2, <1>9 DEF SettingsInv, Preference!ChoicesAreKept, SyncStep

LEMMA ToggleSyncKeeps ==
    ASSUME SettingBounds, SettingsInv, NEW w \in SettingsWindows, Preference!ToggleSync(w)
    PROVE  SettingsInv'
<1>1. SettingsTyped /\ Preference!Current \in Choices
  BY CurrentFacts DEF SettingsInv
<1>2. /\ UNCHANGED <<inFile, hostAllowed, shownIn, commandRow, popover>>
      /\ Preference!Fresh(w, {"sync"})
  BY DEF Preference!ToggleSync
<1>3. stale' \subseteq SettingsWindows \X Preference!Settings
  BY <1>1, <1>2, SyncFacts, StaleTyped
<1>4. (stale \ ({w} \X {"sync"})) \cup Preference!OutdatedBy(w) \subseteq stale'
  BY <1>2 DEF Preference!Fresh
<1>5. /\ Preference!Current["sync"] \in {Preference!Off, Preference!On}
      /\ Preference!Current["sync"] \in Preference!ValuesOf("sync")
      /\ settingRows[w]["sync"] \in {Preference!Off, Preference!On}
      /\ settingRows[w]["sync"] \in Preference!ValuesOf("sync")
  BY <1>1, SyncFacts, ChoiceFacts DEF SettingsTyped
<1>6. confirming \subseteq shownIn
  BY <1>1 DEF SettingsTyped
<1> DEFINE want ==
    IF settingRows[w]["sync"] = Preference!On THEN Preference!Off ELSE Preference!On
<1>7. want \in {Preference!Off, Preference!On} /\ want \in Preference!ValuesOf("sync")
  BY SyncFacts
<1>8. CASE /\ Preference!Click(w) /\ want = Preference!Current["sync"]
           /\ Preference!SetRow(w, "sync", want) /\ Preference!AlreadySo
           /\ Preference!Chose({"sync"}, Preference!Current)
           /\ UNCHANGED confirming
  <2>1. SyncStep(w, Preference!Current, want, confirming')
    BY <1>1, <1>2, <1>7, <1>8, SyncChosen
  <2>2. settingCount' \in [clicks : 0..MaxSettingClicks, faults : 0..MaxSettingFaults]
    BY <1>1, <1>8, CountFacts
  <2>3. w \notin confirming
    BY <1>8 DEF Preference!Click
  <2> QED
    BY <1>2, <1>3, <1>4, <1>6, <1>8, <2>1, <2>2, <2>3, SyncStepKeeps
<1>9. CASE /\ Preference!Click(w) /\ want = Preference!On
           /\ Preference!Current["sync"] = Preference!Off
           /\ IF hostAllowed THEN /\ confirming' = confirming \cup {w}
                                  /\ Preference!SetRow(w, "sync", Preference!On)
              ELSE UNCHANGED <<confirming, settingRows>>
           /\ Preference!NothingWritten /\ UNCHANGED chosen
  <2>1. settingCount' \in [clicks : 0..MaxSettingClicks, faults : 0..MaxSettingFaults]
    BY <1>1, <1>9, CountFacts
  <2>2. w \in shownIn \ confirming
    BY <1>9 DEF Preference!Click
  <2>3. CASE hostAllowed
    <3>1. SyncStep(w, Preference!Current, Preference!On, confirming')
      BY <1>2, <1>9, <2>3, SyncFacts, SyncUnwritten
    <3>2. confirming' = confirming \cup {w} /\ w \in shownIn
      BY <1>9, <2>2, <2>3
    <3>3. confirming' \subseteq shownIn /\ w \in confirming'
      BY <1>6, <3>2
    <3>4. \A x \in SettingsWindows \ {w} : (x \in confirming' <=> x \in confirming)
      BY <3>2
    <3>5. Preference!Current["sync"] = Preference!Off
      BY <1>9
    <3> HIDE DEF want
    <3> QED
      BY <1>2, <1>3, <1>4, <2>1, <3>1, <3>3, <3>4, <3>5, SyncStepKeeps
  <2>4. CASE ~hostAllowed
    <3>1. SyncStep(w, Preference!Current, settingRows[w]["sync"], confirming')
      BY <1>2, <1>5, <1>9, <2>4, SyncUnwritten
    <3>2. settingRows[w]["sync"] = Preference!Current["sync"]
      BY <1>5, <1>9, SyncFacts
    <3>3. confirming' = confirming
      BY <1>9, <2>4
    <3> HIDE DEF want
    <3> QED
      BY <1>2, <1>3, <1>4, <1>6, <2>1, <2>2, <3>1, <3>2, <3>3, SyncStepKeeps
  <2> QED
    BY <2>3, <2>4
<1>10. CASE /\ Preference!Click(w) /\ want = Preference!Off
            /\ Preference!Current["sync"] = Preference!On
            /\ Preference!WritePreference([Preference!Current EXCEPT !["sync"] =
                                           Preference!Off])
            /\ Preference!SetRow(w, "sync", Preference!Off)
            /\ Preference!Chose({"sync"},
                                [Preference!Current EXCEPT !["sync"] = Preference!Off])
            /\ UNCHANGED confirming
  <2>1. settingCount' \in [clicks : 0..MaxSettingClicks, faults : 0..MaxSettingFaults]
    BY <1>1, <1>10, CountFacts
  <2>2. w \in shownIn \ confirming
    BY <1>10 DEF Preference!Click
  <2>3. PICK f : f = [Preference!Current EXCEPT !["sync"] = Preference!Off]
    OBVIOUS
  <2>4. f \in Choices /\ f["sync"] =
            Preference!Off /\ \A t \in Preference!Settings \ {"sync"} :
                f[t] = Preference!Current[t]
    BY <1>1, <2>3, SyncFacts, ChoiceFacts
  <2>5. SyncStep(w, f, Preference!Off, confirming')
    BY <1>2, <1>10, <2>3, <2>4, SyncFacts, SyncChosen
  <2> QED
    BY <1>2, <1>3, <1>4, <1>6, <1>10, <2>1, <2>2, <2>4, <2>5, SyncStepKeeps
<1>11. CASE /\ Preference!FailingClick(w) /\ want = Preference!Off
            /\ Preference!Current["sync"] = Preference!On
            /\ Preference!NothingWritten /\ UNCHANGED <<settingRows, chosen, confirming>>
  <2>1. settingCount' \in [clicks : 0..MaxSettingClicks, faults : 0..MaxSettingFaults]
    BY <1>1, <1>11, CountFacts
  <2>2. w \in shownIn \ confirming
    BY <1>11 DEF Preference!FailingClick
  <2>3. SyncStep(w, Preference!Current, settingRows[w]["sync"], confirming')
    BY <1>2, <1>5, <1>11, SyncUnwritten
  <2>4. settingRows[w]["sync"] = Preference!Current["sync"]
    BY <1>5, <1>11, SyncFacts
  <2> QED
    BY <1>2, <1>3, <1>4, <1>6, <1>11, <2>1, <2>2, <2>3, <2>4, SyncStepKeeps
<1> QED
  BY <1>8, <1>9, <1>10, <1>11 DEF Preference!ToggleSync

LEMMA AnswerSyncKeeps ==
    ASSUME SettingBounds, SettingsInv, NEW w \in SettingsWindows, Preference!AnswerSync(w)
    PROVE  SettingsInv'
<1>1. SettingsTyped /\ Preference!Current \in Choices
  BY CurrentFacts DEF SettingsInv
<1>2. /\ UNCHANGED <<inFile, hostAllowed, shownIn, commandRow, popover, settingCount>>
      /\ stale' = stale \cup Preference!OutdatedBy(w)
      /\ w \in confirming /\ confirming' = confirming \ {w}
  BY DEF Preference!AnswerSync
<1>3. stale' \subseteq SettingsWindows \X Preference!Settings
  BY <1>1, <1>2 DEF SettingsTyped, Preference!OutdatedBy
<1>4. (stale \ ({w} \X {"sync"})) \cup Preference!OutdatedBy(w) \subseteq stale'
  BY <1>2
<1>5. confirming \ {w} \subseteq shownIn /\ w \notin confirming \ {w}
  BY <1>1 DEF SettingsTyped
<1>6. settingCount' \in [clicks : 0..MaxSettingClicks, faults : 0..MaxSettingFaults]
  BY <1>1, <1>2, CountFacts
<1>7. CASE /\ Preference!SetRow(w, "sync", Preference!Off) /\ Preference!NothingWritten
           /\ UNCHANGED chosen
  <2>1. SyncStep(w, Preference!Current, Preference!Off, confirming')
    BY <1>2, <1>7, SyncFacts, SyncUnwritten
  <2>2. <<w, "sync">> \in stale' \/ Preference!Current["sync"] = Preference!Off
    BY <1>2 DEF SettingsInv, AskedWhileOff
  <2> QED
    BY <1>2, <1>3, <1>4, <1>5, <1>6, <2>1, <2>2, SyncStepKeeps
<1>8. CASE /\ Preference!WritePreference([Preference!Current EXCEPT !["sync"] =
                                          Preference!On])
           /\ Preference!SetRow(w, "sync", Preference!On)
           /\ Preference!Chose({"sync"},
                               [Preference!Current EXCEPT !["sync"] = Preference!On])
  <2>1. PICK f : f = [Preference!Current EXCEPT !["sync"] = Preference!On]
    OBVIOUS
  <2>2. f \in Choices /\ f["sync"] =
            Preference!On /\ \A t \in Preference!Settings \ {"sync"} :
                f[t] = Preference!Current[t]
    <3>1. "sync" \in Preference!Settings /\ Preference!On \in Preference!ValuesOf("sync")
      BY SyncFacts
    <3>2. PICK s, v : s = "sync" /\ v = Preference!On
      OBVIOUS
    <3>3. s \in Preference!Settings /\ v \in Preference!ValuesOf(s)
          /\ f = [Preference!Current EXCEPT ![s] = v]
      BY <2>1, <3>1, <3>2
    <3> QED
      BY <1>1, <3>2, <3>3, ChoiceFacts
  <2>3. SyncStep(w, f, Preference!On, confirming')
    BY <1>2, <1>8, <2>1, <2>2, SyncFacts, SyncChosen
  <2> QED
    BY <1>2, <1>3, <1>4, <1>5, <1>6, <2>2, <2>3, SyncStepKeeps
<1> QED
  BY <1>7, <1>8 DEF Preference!AnswerSync

LEMMA NormalizedFacts ==
    ASSUME NEW f \in [Preference!Generator -> 0..2], NEW s \in
           Preference!Generator, NEW v \in Preference!ValuesOf(s)
    PROVE  /\ \A t \in Preference!Generator :
                  Preference!Normalized([f EXCEPT ![s] = v])[t] \in Preference!ValuesOf(t)
           /\ \A t \in Preference!Generator :
                  Preference!Normalized([f EXCEPT ![s] = v])[t] \in 0..2
           /\ DOMAIN Preference!Normalized([f EXCEPT ![s] = v]) = Preference!Generator
<1>1. PICK g : g = [f EXCEPT ![s] = v]
  OBVIOUS
<1>2. Preference!Generator = {"length", "minimum"} /\ s \in Preference!Settings
  BY DEF Preference!Generator, Preference!Settings
<1>3. /\ v \in 0..2 /\ Preference!ValuesOf("length") = 1..2
      /\ Preference!ValuesOf("minimum") = 0..2
  BY <1>2, ValueFacts
<1>4. g \in [Preference!Generator -> 0..2]
  BY <1>1, <1>3
<1>5. Preference!Larger(g["minimum"], 1) \in 1..2
  BY <1>2, <1>4 DEF Preference!Larger
<1>6. Preference!Larger(g["length"], Preference!Larger(g["minimum"], 1)) \in 1..2
  BY <1>2, <1>4, <1>5 DEF Preference!Larger
<1>7. Preference!Normalized(g) =
          [g EXCEPT
              !["minimum"] = Preference!Larger(g["minimum"], 1),
              !["length"] = Preference!Larger(@, Preference!Larger(g["minimum"], 1))]
  BY DEF Preference!Normalized
<1>8. /\ Preference!Normalized(g)["minimum"] = Preference!Larger(g["minimum"], 1)
      /\ Preference!Normalized(g)["length"] =
             Preference!Larger(g["length"], Preference!Larger(g["minimum"], 1))
      /\ DOMAIN Preference!Normalized(g) = Preference!Generator
  BY <1>2, <1>4, <1>7
<1>9. \A t \in Preference!Generator :
          Preference!Normalized(g)[t] \in
              Preference!ValuesOf(t) /\ Preference!Normalized(g)[t] \in 0..2
  BY <1>2, <1>3, <1>5, <1>6, <1>8
<1> QED
  BY <1>1, <1>8, <1>9

LEMMA ChangeGeneratorKeeps ==
    ASSUME SettingBounds, SettingsInv, NEW w \in
           SettingsWindows, Preference!ChangeGenerator(w)
    PROVE  SettingsInv'
<1>1. /\ SettingsTyped /\ Preference!Current \in Choices
      /\ Preference!Generator \in SUBSET Preference!Settings
  BY CurrentFacts DEF SettingsInv, Preference!Settings
<1>2. PICK control \in {"page", "popover"}, s \in Preference!Generator :
          \E v \in Preference!ValuesOf(s) :
        LET shown ==
            IF control = "page" THEN Preference!GeneratorOf(settingRows[w]) ELSE popover[w]
            values == Preference!Normalized([shown EXCEPT ![s] = v])
            with == [t \in Preference!Settings |-> IF t \in
                     Preference!Generator THEN values[t] ELSE Preference!Current[t]]
            Show(settings) ==
                /\ settingRows' = [settingRows EXCEPT ![w] =
                       [t \in Preference!Settings |-> IF t \in
                        Preference!Generator THEN settings[t] ELSE @[t]]]
                /\ popover' = [popover EXCEPT ![w] = Preference!GeneratorOf(settings)]
        IN  /\ v # shown[s]
            /\ \/ /\ Preference!Click(w)
                  /\ stored' = with
                  /\ readable' = TRUE
                  /\ overwritten' = (overwritten \/ ~readable
                                       \/ \E t \in Preference!Generator \ {s} :
                                           shown[t] # Preference!Current[t])
                  /\ Show(with)
                  /\ Preference!Chose(Preference!Generator, with)
               \/ /\ Preference!FailingClick(w)
                  /\ \/ Preference!NothingWritten
                     \/ /\ ~inFile /\ values["length"] # Preference!Current["length"]
                        /\ stored' = [stored EXCEPT !["length"] = values["length"]]
                        /\ overwritten' = TRUE
                        /\ UNCHANGED readable
                  /\ Show(Preference!Current)
                  /\ UNCHANGED chosen
            /\ UNCHANGED <<inFile, hostAllowed, shownIn, commandRow, confirming>>
            /\ stale' = ((stale \ ({w} \X Preference!Generator)) \cup
                         Preference!OutdatedBy(w))
                          \cup {<<w, t>> :
                                t \in {t \in Preference!Generator :
                                       Preference!Current'[t] # settingRows'[w][t]}}
  BY DEF Preference!ChangeGenerator
<1>3. PICK shown :
          shown = IF control =
              "page" THEN Preference!GeneratorOf(settingRows[w]) ELSE popover[w]
  OBVIOUS
<1>4. PICK v \in Preference!ValuesOf(s) :
        LET values == Preference!Normalized([shown EXCEPT ![s] = v])
            with == [t \in Preference!Settings |-> IF t \in
                     Preference!Generator THEN values[t] ELSE Preference!Current[t]]
            Show(settings) ==
                /\ settingRows' = [settingRows EXCEPT ![w] =
                       [t \in Preference!Settings |-> IF t \in
                        Preference!Generator THEN settings[t] ELSE @[t]]]
                /\ popover' = [popover EXCEPT ![w] = Preference!GeneratorOf(settings)]
        IN  /\ \/ /\ Preference!Click(w)
                  /\ stored' = with
                  /\ readable' = TRUE
                  /\ overwritten' = (overwritten \/ ~readable
                                       \/ \E t \in Preference!Generator \ {s} :
                                           shown[t] # Preference!Current[t])
                  /\ Show(with)
                  /\ Preference!Chose(Preference!Generator, with)
               \/ /\ Preference!FailingClick(w)
                  /\ \/ Preference!NothingWritten
                     \/ /\ ~inFile /\ values["length"] # Preference!Current["length"]
                        /\ stored' = [stored EXCEPT !["length"] = values["length"]]
                        /\ overwritten' = TRUE
                        /\ UNCHANGED readable
                  /\ Show(Preference!Current)
                  /\ UNCHANGED chosen
            /\ UNCHANGED <<inFile, hostAllowed, shownIn, commandRow, confirming>>
            /\ stale' = ((stale \ ({w} \X Preference!Generator)) \cup
                         Preference!OutdatedBy(w))
                          \cup {<<w, t>> :
                                t \in {t \in Preference!Generator :
                                       Preference!Current'[t] # settingRows'[w][t]}}
  BY <1>2, <1>3
<1>5. PICK values : values = Preference!Normalized([shown EXCEPT ![s] = v])
  OBVIOUS
<1>6. PICK f : f =
          [t \in Preference!Settings |-> IF t \in Preference!Generator THEN values[t] ELSE
           Preference!Current[t]]
  OBVIOUS
<1>7. /\ \/ /\ Preference!Click(w)
            /\ stored' = f
            /\ readable' = TRUE
            /\ overwritten' = (overwritten \/ ~readable
                                 \/ \E t \in Preference!Generator \ {s} :
                                     shown[t] # Preference!Current[t])
            /\ Preference!Chose(Preference!Generator, f)
         \/ /\ Preference!FailingClick(w)
            /\ \/ Preference!NothingWritten
               \/ /\ ~inFile
                  /\ stored' = [stored EXCEPT !["length"] = values["length"]]
                  /\ overwritten' = TRUE
                  /\ UNCHANGED readable
            /\ UNCHANGED chosen
      /\ UNCHANGED <<inFile, hostAllowed, shownIn, commandRow, confirming>>
      /\ stale' = ((stale \ ({w} \X Preference!Generator)) \cup Preference!OutdatedBy(w))
                    \cup {<<w, t>> :
                          t \in {t \in Preference!Generator :
                                 Preference!Current'[t] # settingRows'[w][t]}}
  BY <1>4, <1>5, <1>6
<1>8. PICK g \in {f, Preference!Current} :
        /\ settingRows' = [settingRows EXCEPT ![w] =
               [t \in Preference!Settings |-> IF t \in Preference!Generator THEN g[t] ELSE
                @[t]]]
        /\ popover' = [popover EXCEPT ![w] = Preference!GeneratorOf(g)]
  BY <1>4, <1>5, <1>6
<1>9. shown \in [Preference!Generator -> 0..2]
  <2>1. settingRows[w] \in [Preference!Settings -> 0..2]
    BY <1>1, ChoiceFacts DEF SettingsTyped
  <2> QED
    BY <1>1, <1>3, <2>1 DEF Preference!GeneratorOf, SettingsTyped
<1>10. \A t \in Preference!Generator :
           values[t] \in Preference!ValuesOf(t) /\ values[t] \in 0..2
  BY <1>5, <1>9, NormalizedFacts
<1>11. f \in Choices /\ \A t \in Preference!Settings \ Preference!Generator :
           f[t] = Preference!Current[t]
  <2>1. \A t \in Preference!Settings : f[t] \in Preference!ValuesOf(t) /\ f[t] \in 0..2
    BY <1>1, <1>6, <1>10, ChoiceFacts
  <2> QED
    BY <1>6, <2>1 DEF Choices
<1>12. g \in Choices /\ \A t \in Preference!Settings \ Preference!Generator :
           g[t] = Preference!Current[t]
  BY <1>1, <1>11
<1>13. popover' \in [SettingsWindows -> [Preference!Generator -> 0..2]]
  <2>1. g \in [Preference!Settings -> 0..2]
    BY <1>12, ChoiceFacts
  <2>2. Preference!GeneratorOf(g) \in [Preference!Generator -> 0..2]
    BY <1>1, <2>1 DEF Preference!GeneratorOf
  <2> QED
    BY <1>1, <1>8, <2>2 DEF SettingsTyped
<1>14. PICK r : r =
           [t \in Preference!Settings |-> IF t \in Preference!Generator THEN g[t] ELSE
            settingRows[w][t]]
  OBVIOUS
<1>15. r \in Choices /\ \A t \in Preference!Settings \ Preference!Generator :
           r[t] = settingRows[w][t]
  <2>1. settingRows[w] \in Choices
    BY <1>1 DEF SettingsTyped
  <2>2. \A t \in Preference!Settings : r[t] \in Preference!ValuesOf(t) /\ r[t] \in 0..2
    BY <1>12, <1>14, <2>1, ChoiceFacts
  <2> QED
    BY <1>14, <2>2 DEF Choices
<1>16. settingRows' = [settingRows EXCEPT ![w] = r]
  BY <1>1, <1>8, <1>14 DEF SettingsTyped
<1>17. /\ settingRows' \in [SettingsWindows -> Choices] /\ settingRows'[w] = r
       /\ \A x \in SettingsWindows \ {w} : settingRows'[x] = settingRows[x]
  BY <1>1, <1>15, <1>16 DEF SettingsTyped
<1>18. /\ stored' \in Choices /\ readable' \in BOOLEAN /\ overwritten' \in BOOLEAN
       /\ (~inFile => readable') /\ chosen' \in Choices
       /\ (~overwritten' => stored' = chosen')
       /\ \A t \in Preference!Settings \ Preference!Generator :
              Preference!Current'[t] = Preference!Current[t]
       /\ settingCount' \in [clicks : 0..MaxSettingClicks, faults : 0..MaxSettingFaults]
  <2>1. CASE /\ Preference!Click(w) /\ stored' = f /\ readable' = TRUE
             /\ overwritten' = (overwritten \/ ~readable
                                  \/ \E t \in Preference!Generator \ {s} :
                                      shown[t] # Preference!Current[t])
             /\ Preference!Chose(Preference!Generator, f)
    <3>1. chosen' \in Choices /\ ((readable /\ stored = chosen) => chosen' = f)
      BY <1>1, <1>11, <2>1, ChoseFacts
    <3>2. ~overwritten' => (readable /\ stored = chosen)
      BY <2>1 DEF SettingsInv, Preference!ChoicesAreKept
    <3>3. Preference!Current' = f
      BY <2>1 DEF Preference!Current
    <3>4. overwritten' \in BOOLEAN
      BY <2>1
    <3>5. settingCount' \in [clicks : 0..MaxSettingClicks, faults : 0..MaxSettingFaults]
      BY <1>1, <2>1, CountFacts
    <3> QED
      BY <1>11, <2>1, <3>1, <3>2, <3>3, <3>4, <3>5
  <2>2. CASE Preference!FailingClick(w) /\ Preference!NothingWritten /\ UNCHANGED chosen
    <3>1. settingCount' \in [clicks : 0..MaxSettingClicks, faults : 0..MaxSettingFaults]
      BY <1>1, <2>2, CountFacts
    <3>2. Preference!Current' = Preference!Current
      BY <1>1, <2>2, CurrentFacts
    <3> QED
      BY <2>2, <3>1, <3>2
         DEF SettingsInv, SettingsTyped, Preference!ChoicesAreKept,
             Preference!NothingWritten
  <2>3. CASE /\ Preference!FailingClick(w) /\ ~inFile
             /\ stored' = [stored EXCEPT !["length"] = values["length"]]
             /\ overwritten' = TRUE /\ UNCHANGED readable /\ UNCHANGED chosen
    <3>1. settingCount' \in [clicks : 0..MaxSettingClicks, faults : 0..MaxSettingFaults]
      BY <1>1, <2>3, CountFacts
    <3>2. /\ stored \in Choices /\ chosen \in Choices /\ "length" \in Preference!Settings
          /\ "length" \in Preference!Generator /\ readable
      BY <1>1, <2>3 DEF SettingsTyped, Preference!Settings, Preference!Generator
    <3>3. values["length"] \in Preference!ValuesOf("length")
      BY <1>10, <3>2
    <3>4. stored' \in Choices /\ \A t \in Preference!Settings \ {"length"} :
              stored'[t] = stored[t]
      BY <2>3, <3>2, <3>3, ChoiceFacts
    <3>5. Preference!Current' = stored' /\ Preference!Current = stored
      BY <2>3, <3>2 DEF Preference!Current
    <3>6. \A t \in Preference!Settings \ Preference!Generator :
              Preference!Current'[t] = Preference!Current[t]
      BY <3>2, <3>4, <3>5
    <3> QED
      BY <2>3, <3>1, <3>2, <3>4, <3>6
  <2> QED
    BY <1>7, <2>1, <2>2, <2>3
<1>19. stale' \subseteq SettingsWindows \X Preference!Settings
  BY <1>1, <1>7 DEF SettingsTyped, Preference!OutdatedBy
<1>20. SettingsTyped'
  BY <1>1, <1>7, <1>13, <1>17, <1>18, <1>19 DEF SettingsTyped
<1>21. Preference!RowsShowTheSettings' /\ AskedWhileOff'
  <2>1. /\ shownIn' = shownIn /\ confirming' \subseteq SettingsWindows
        /\ confirming' = confirming /\ commandRow' = commandRow
    BY <1>1, <1>7 DEF SettingsTyped
  <2>2. (stale \ ({w} \X Preference!Generator)) \cup Preference!OutdatedBy(w) \subseteq
            stale'
    BY <1>7
  <2>3. \A t \in Preference!Generator :
            (<<w, t>> \notin stale' /\ ~(t = "sync" /\ w \in confirming')) =>
             (/\ settingRows'[w][t] = Preference!Current'[t]
              /\ (t = "backend" =>
                  commandRow'[w] = Preference!ShowsCommand(Preference!Current')))
    BY <1>7 DEF Preference!Generator
  <2>4. \A x \in SettingsWindows \ {w} : /\ settingRows'[x] = settingRows[x]
                                         /\ commandRow'[x] = commandRow[x]
                                         /\ (x \in confirming' <=> x \in confirming)
    BY <1>17, <2>1
  <2>5. \A t \in Preference!Settings \ Preference!Generator :
            settingRows'[w][t] = settingRows[w][t] /\ Preference!Current'[t] =
                Preference!Current[t]
    BY <1>15, <1>17, <1>18
  <2>6. "backend" \notin Preference!Generator => commandRow'[w] = commandRow[w]
    BY <2>1
  <2>7. "sync" \notin Preference!Generator => (w \in confirming' <=> w \in confirming)
    BY <2>1
  <2>8. ("sync" \in Preference!Generator /\ w \in confirming') =>
             (<<w, "sync">> \in stale' \/ Preference!Current'["sync"] = Preference!Off)
    BY DEF Preference!Generator
  <2>9. PICK ss \in SUBSET Preference!Settings : ss = Preference!Generator
    BY <1>1
  <2> QED
    BY ONLY SettingsInv, w \in SettingsWindows, <2>1, <2>2, <2>3, <2>4, <2>5, <2>6, <2>7,
       <2>8,
            <2>9, RowsStayRight
<1> QED
  BY <1>18, <1>20, <1>21 DEF SettingsInv, Preference!ChoicesAreKept

LEMMA SettingsStep ==
    ASSUME SettingBounds, SettingsInv, [Preference!Next]_(Preference!settingsVars)
    PROVE  SettingsInv'
<1>1. CASE UNCHANGED Preference!settingsVars
  BY <1>1
     DEF Preference!settingsVars, SettingsInv, SettingsTyped, AskedWhileOff,
         Preference!RowsShowTheSettings,
              Preference!ChoicesAreKept, Preference!Current, Preference!ShowsCommand
<1>2. ASSUME NEW w \in SettingsWindows,
             \/ Preference!ToggleCheck(w) \/ Preference!ToggleRadio(w)
             \/ Preference!SelectBackend(w)
      PROVE SettingsInv'
  BY <1>2, ToggleKeeps
     DEF Preference!ToggleCheck, Preference!ToggleRadio, Preference!SelectBackend,
         Preference!Switches
<1>3. CASE Preference!Next
  BY <1>2, <1>3, EditTemplateKeeps, ChangeGeneratorKeeps, ToggleSyncKeeps, AnswerSyncKeeps,
     RefreshKeeps, HandleSyncFailureKeeps, FileBreaksKeeps,
     HostChangesKeeps DEF Preference!Next
<1> QED
  BY <1>1, <1>3

LEMMA SettingsShows ==
    ASSUME SettingsInv
    PROVE  Preference!TypeOK /\ Preference!RowsShowTheSettings /\ Preference!ChoicesAreKept
<1>1. SettingsTyped
  BY DEF SettingsInv
<1>2. \A f \in {stored, chosen} \cup {settingRows[w] : w \in SettingsWindows} :
          f \in Choices
  BY <1>1 DEF SettingsTyped
<1>3. \A f \in Choices : DOMAIN f = Preference!Settings /\ \A s \in Preference!Settings :
          f[s] \in Preference!ValuesOf(s)
  BY DEF Choices
<1> QED
  BY <1>1, <1>2, <1>3 DEF SettingsInv, SettingsTyped, Preference!TypeOK

-----------------------------------------------------------------------------
(* All six *)

AllBounds ==
    WindowBounds /\ CommandBounds /\ ListBounds /\ RowBounds /\ SettingBounds

\* The invariants of the six together: the first is that of RecipientStoreProofs.
AllInv ==
    TypeOK /\ WindowInv /\ CommandInv /\ ListInv /\ RowInv /\ SettingsInv

LEMMA AllStart == ASSUME AllBounds, AllInit PROVE AllInv
<1>1. /\ Init /\ Window!Init /\ Command!Init
      /\ List!Init /\ Offer!Init /\ Preference!Init
  BY DEF AllInit
<1> QED
  BY <1>1, InitType, WindowStart, CommandStart, ListStart, RowStart, SettingsStart
     DEF AllBounds, AllInv

\* A step of one of the six leaves the variables of the others.
LEMMA EachStepsOrStays ==
    ASSUME [AllNext]_allVars
    PROVE  /\ [Next]_vars
           /\ [Window!Next]_(Window!windowVars)
           /\ [Command!Next]_(Command!commandVars)
           /\ [List!Next]_(List!listVars)
           /\ [Offer!Next]_(Offer!rowVars)
           /\ [Preference!Next]_(Preference!settingsVars)
<1>1. /\ windowVars = Window!windowVars /\ commandVars = Command!commandVars
      /\ listVars = List!listVars /\ rowVars = Offer!rowVars
      /\ settingsVars = Preference!settingsVars
  BY DEF windowVars, Window!windowVars, Window!gitVars, commandVars, Command!commandVars,
         listVars, List!listVars, rowVars, Offer!rowVars, settingsVars,
         Preference!settingsVars
<1>2. windowVars' = (Window!windowVars)' /\ commandVars' = (Command!commandVars)'
  BY DEF windowVars, Window!windowVars, commandVars, Command!commandVars
<1>3. /\ listVars' = (List!listVars)' /\ rowVars' = (Offer!rowVars)'
      /\ settingsVars' = (Preference!settingsVars)'
  BY DEF listVars, List!listVars, rowVars, Offer!rowVars, settingsVars,
         Preference!settingsVars
<1>4. /\ Next \/ UNCHANGED vars
      /\ Window!Next \/ UNCHANGED windowVars
      /\ Command!Next \/ UNCHANGED commandVars
      /\ List!Next \/ UNCHANGED listVars
      /\ Offer!Next \/ UNCHANGED rowVars
      /\ Preference!Next \/ UNCHANGED settingsVars
  BY DEF AllNext, allVars
<1> QED
  BY <1>1, <1>2, <1>3, <1>4

LEMMA AllStep == ASSUME AllBounds, AllInv, [AllNext]_allVars PROVE AllInv'
<1> USE DEF AllBounds, AllInv
<1>1. TypeOK'
  BY EachStepsOrStays, StepType
<1>2. WindowInv'
  BY EachStepsOrStays, WindowStep
<1>3. CommandInv'
  BY EachStepsOrStays, CommandStep
<1>4. ListInv'
  BY EachStepsOrStays, ListStep
<1>5. RowInv'
  BY EachStepsOrStays, RowStep
<1>6. SettingsInv'
  BY EachStepsOrStays, SettingsStep
<1> QED
  BY <1>1, <1>2, <1>3, <1>4, <1>5, <1>6

LEMMA AllInvAlways == ASSUME AllBounds PROVE AllSpec => []AllInv
<1>1. AllInit => AllInv
  BY AllStart
<1>2. AllInv /\ [AllNext]_allVars => AllInv'
  BY AllStep
<1> QED
  BY <1>1, <1>2, PTL DEF AllSpec

-----------------------------------------------------------------------------
(* The theorems, for the six under one clock of steps, whichever of them is     *)
(* looked at                                                                    *)

\* Every variable of the six keeps its type, with any number of windows, pages,
\* stores, keys, settings, bytes and failures.
THEOREM AllTypesAreKept == ASSUME AllBounds PROVE AllSpec => []TypesOK
<1>1. AllInv => TypesOK
  <2>1. ASSUME AllInv
        PROVE  /\ TypeOK /\ Window!TypeOK /\ Command!TypeOK
               /\ List!TypeOK /\ Offer!TypeOK /\ Preference!TypeOK
    <3>1. Window!TypeOK /\ Command!TypeOK /\ Preference!TypeOK
      BY <2>1, WindowShows, CommandShows, SettingsShows DEF AllInv
    <3>2. TypeOK /\ List!TypeOK /\ Offer!TypeOK
      BY <2>1 DEF AllInv, ListInv, RowInv, RowsTyped
    <3> QED
      BY <3>1, <3>2
  <2> QED
    BY <2>1 DEF TypesOK
<1> QED
  BY <1>1, AllInvAlways, PTL

\* The header bar is of the page shown, unless an answer set it without a look at
\* the page or the page was on the stack already; the rows of a store's page are
\* of its recipients, also when lists of keys arrive late; and those of the
\* preferences are of the settings, unless these were changed elsewhere since (the
\* shell's navigation; recipient_page/list.rs; the preferences' page).
THEOREM ShownIsCurrent == ASSUME AllBounds PROVE AllSpec => []WhatIsShownIsCurrent
<1>1. AllInv => WhatIsShownIsCurrent
  <2>1. ASSUME AllInv
        PROVE  /\ Window!HeaderIsOfThePage /\ Offer!RowsAreOfTheRecipients
               /\ Preference!RowsShowTheSettings
    <3>1. Window!HeaderIsOfThePage /\ Preference!RowsShowTheSettings
      BY <2>1, WindowShows, SettingsShows DEF AllInv
    <3>2. Offer!RowsAreOfTheRecipients
      BY <2>1 DEF AllInv, RowInv
    <3> QED
      BY <3>1, <3>2
  <2> QED
    BY <2>1 DEF WhatIsShownIsCurrent
<1> QED
  BY <1>1, AllInvAlways, PTL

\* A window that shows itself busy runs a Git operation, which will uncover what is
\* below; and a page that shows an import runs one, and only one.
THEOREM BusyWindowsWork == ASSUME AllBounds PROVE AllSpec => []ABusyWindowIsWorking
<1>1. AllInv => ABusyWindowIsWorking
  <2>1. ASSUME AllInv PROVE Window!ABusyWindowIsWorking /\ List!ABusyImportIsRunning
    BY <2>1, WindowShows, ListShows DEF AllInv
  <2> QED
    BY <2>1 DEF ABusyWindowIsWorking
<1> QED
  BY <1>1, AllInvAlways, PTL

\* What was chosen stays: the stores that were added and whose folders are there,
\* while the preferences could be read; a selected key on a store's page, as long as
\* no recipient stands for two; the settings, but for a broken file and the
\* generator's; although windows and events outside change the same files.
THEOREM ChoicesStay == ASSUME AllBounds PROVE AllSpec => []ChoicesAreKept
<1>1. AllInv => ChoicesAreKept
  <2>1. ASSUME AllInv
        PROVE  /\ List!StoresAreKept /\ Offer!ASelectedKeyStays
               /\ Preference!ChoicesAreKept
    <3>1. List!StoresAreKept /\ Preference!ChoicesAreKept
      BY <2>1, ListShows, SettingsShows DEF AllInv
    <3>2. Offer!ASelectedKeyStays
      BY <2>1 DEF AllInv, RowInv
    <3> QED
      BY <3>1, <3>2
  <2> QED
    BY <2>1 DEF ChoicesAreKept
<1> QED
  BY <1>1, AllInvAlways, PTL

\* A command that is answered with its output had all its input written and all its
\* output read, however its threads and its child took turns (process/command).
\* That each is answered needs ENABLED and is left to TLC.
THEOREM AnswersAreWhole ==
    ASSUME AllBounds
    PROVE  AllSpec => [](focus = "command" => Command!AnswersAreWhole)
<1>1. AllInv => (focus = "command" => Command!AnswersAreWhole)
  BY CommandShows DEF AllInv
<1> QED
  BY <1>1, AllInvAlways, PTL

\* A Git operation that ends keeps the user where they are, or leaves the busy page
\* on top: it never takes them off another page.
THEOREM FinishesKeepThePage == ASSUME AllBounds PROVE AllSpec => FinishKeepsThePage
<1>1. AllInv /\ [AllNext]_allVars =>
          [gitRuns' # gitRuns /\ Window!Visible(pages) # "busy"
               => Window!Visible(pages') \in {Window!Visible(pages), "busy"}
          ]_(Window!windowVars)
  BY EachStepsOrStays, FinishStep DEF AllBounds, AllInv
<1> QED
  BY <1>1, AllInvAlways, PTL DEF AllSpec, FinishKeepsThePage, Window!FinishKeepsThePage
=============================================================================
