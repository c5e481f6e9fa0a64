------------------------------ MODULE Workspace ------------------------------
(* The rules that the crates of the repository keep, and the build that relies  *)
(* on them.  A tool reads the manifests, the sources and the pieces of the user *)
(* interface and reports what breaks a rule (keycord-architecture); the build   *)
(* puts the pieces into their skeletons (keycord-ui-fragments) and collects the *)
(* data of the crates in one directory, which stays from one build to the next. *)
(* Here the workspace is edited in one of its parts, checked and built.         *)
EXTENDS Naturals, Integers, Sequences, FiniteSets, FiniteSetsExt, SequencesExt

CONSTANTS
    MaxEdits,      \* bound: edits of the workspace
    MaxPieces      \* bound: pieces of a source

VARIABLES
    project,       \* the workspace
    verdict,       \* whether it was checked, and what was reported of it
    built,         \* the window that was built, or NotBuilt
    merged,        \* the data directory of the workspace
    complete,      \* the last build ran to its end
    editCount      \* edits so far

workspaceVars == <<project, verdict, built, merged, complete, editCount>>

Occurs(s, part) == \E i \in 1..(Len(s) - Len(part) + 1) : SubSeq(s, i, i + Len(part) - 1) = part
Without(s, symbol) == LET Other(x) == x # symbol IN SelectSeq(s, Other)

\* What is there and is not expected, and what is expected and is not there.
Inventory(what, actual, expected) ==
    {<<what, "unexpected", a>> : a \in actual \ expected}
    \cup {<<what, "missing", e>> : e \in expected \ actual}

-----------------------------------------------------------------------------
(* Rust sources, read without a parser.  A symbol is a character, or some that  *)
(* are read together.                                                          *)

Symbols == {"(", ")", "{", "}", ";", ",", "::", "->", "=", "end", "nl", "blank"}
At(s, i) == IF i \in DOMAIN s THEN s[i] ELSE "end"
First(s, from, Stop(_)) == Min({j \in from..Len(s) : Stop(j)} \cup {Len(s) + 1})

\* A quote that an odd number of backslashes precede does not end a string.
Escaped(s, start, j) ==
    ((j - 1) - Max({k \in start..(j - 1) : s[k] # "bs"})) % 2 = 1
StringEnd(s, i) ==
    LET Stop(j) == s[j] = "quote" /\ ~Escaped(s, i, j) IN First(s, i + 1, Stop) + 1

Hashes(s, i) == LET Stop(j) == s[j] # "hash" IN First(s, i + 1, Stop) - (i + 1)
IsRawString(s, i) == s[i] = "r" /\ At(s, i + 1 + Hashes(s, i)) = "quote"
RawStringEnd(s, i) ==
    LET n == Hashes(s, i)
        Stop(j) == s[j] = "quote" /\ \A k \in (j + 1)..(j + n) : At(s, k) = "hash"
    IN  First(s, i + 2 + n, Stop) + 1 + n

RECURSIVE BlockCommentEnd(_, _, _)
BlockCommentEnd(s, i, depth) ==
    IF depth = 0 \/ i > Len(s) THEN i
    ELSE BlockCommentEnd(s, i + 1, CASE s[i] = "/*" -> depth + 1
                                     [] s[i] = "*/" -> depth - 1
                                     [] OTHER -> depth)

\* A quote that is followed by one character and a quote; else it is a lifetime.
CharEnd(s, i) ==
    LET closing == IF At(s, i + 1) = "bs" THEN i + 3 ELSE i + 2
    IN  IF At(s, closing) = "'" THEN closing + 1 ELSE i + 1

Lexeme(s, i) ==
    LET IsLineEnd(j) == s[j] = "nl"
    IN  CASE s[i] = "//" -> [kind |-> "comment", from |-> i, to |-> First(s, i, IsLineEnd)]
          [] s[i] = "/*" -> [kind |-> "comment", from |-> i, to |-> BlockCommentEnd(s, i + 1, 1)]
          [] IsRawString(s, i) -> [kind |-> "literal", from |-> i, to |-> RawStringEnd(s, i)]
          [] s[i] = "quote" -> [kind |-> "literal", from |-> i, to |-> StringEnd(s, i)]
          [] s[i] = "'" /\ CharEnd(s, i) > i + 1 -> [kind |-> "char", from |-> i, to |-> CharEnd(s, i)]
          [] OTHER -> [kind |-> "code", from |-> i, to |-> i + 1]

RECURSIVE LexemesFrom(_, _)
LexemesFrom(s, i) ==
    IF i > Len(s) THEN {} ELSE {Lexeme(s, i)} \cup LexemesFrom(s, Lexeme(s, i).to)
Lexemes(s) == LexemesFrom(s, 1)

RustCodeMask(s) ==
    LET hidden == UNION {l.from..(l.to - 1) : l \in {l \in Lexemes(s) : l.kind # "code"}}
    IN  [i \in DOMAIN s |-> IF i \in hidden /\ s[i] # "nl" THEN "blank" ELSE s[i]]

\* In a source whose comments and strings are masked.
Depth(m, from, to) ==
    Cardinality({j \in from..to : m[j] = "{"}) - Cardinality({j \in from..to : m[j] = "}"})
MatchingBrace(m, open) ==
    Min({j \in open..Len(m) : Depth(m, open, j) = 0} \cup {Len(m) + 1})
ContextStart(m, i) == Max({j \in 1..(i - 1) : m[j] \in {"}", ";"}} \cup {0}) + 1
HasTestAttribute(m, i) == \E j \in ContextStart(m, i)..(i - 1) : m[j] = "test"

\* The body of a function, which a declaration has not; that of a module is the
\* next, even if it is not its own.
FunctionOpen(m, i) ==
    LET nested(j) == Cardinality({k \in i..j : m[k] = "("}) - Cardinality({k \in i..j : m[k] = ")"})
        Stop(j) == m[j] \in {"{", ";"} /\ nested(j) = 0
        open == First(m, i, Stop)
    IN  IF At(m, open) = "{" THEN open ELSE Len(m) + 1
ModuleOpen(m, i) == LET Stop(j) == m[j] = "{" IN First(m, i, Stop)
HasBody(m, open) == open <= Len(m) /\ MatchingBrace(m, open) <= Len(m)

TestModules(m) == {i \in DOMAIN m : m[i] = "mod tests" /\ HasTestAttribute(m, i)
                                    /\ HasBody(m, ModuleOpen(m, i))}
TestFunctions(m) == {i \in DOMAIN m : m[i] = "fn" /\ HasTestAttribute(m, i)
                                      /\ HasBody(m, FunctionOpen(m, i))}
TestModuleRanges(m) ==
    UNION {ContextStart(m, i)..MatchingBrace(m, ModuleOpen(m, i)) : i \in TestModules(m)}
TestFunctionRanges(m) ==
    UNION {ContextStart(m, i)..MatchingBrace(m, FunctionOpen(m, i)) : i \in TestFunctions(m)}

\* Slip: the functions that are tests are read too.
ReadsTests(m) == TestModuleRanges(m)
TestRanges(m) == TestModuleRanges(m) \cup TestFunctionRanges(m)

LiteralText(s, l) == LET n == IF s[l.from] = "r" THEN Hashes(s, l.from) + 1 ELSE 0
                     IN  SubSeq(s, l.from + 1 + n, l.to - 2 - Max({0, n - 1}))
ProductionLiterals(s) ==
    LET tests == TestRanges(RustCodeMask(s))
    IN  {l \in Lexemes(s) : l.kind = "literal" /\ l.to <= Len(s) + 1 /\ l.from \notin tests}

MaskTests(m, tests) == [i \in DOMAIN m |-> IF i \in tests /\ m[i] # "nl" THEN "blank" ELSE m[i]]
ProductionRustCodeMask(s) == MaskTests(RustCodeMask(s), TestRanges(RustCodeMask(s)))

\* The bodies of functions, but not of those in another one that is listed.
FunctionsIn(s, m) ==
    LET found == {i \in DOMAIN m : /\ m[i] = "fn" /\ At(m, i + 1) \notin Symbols
                                   /\ i \notin TestModuleRanges(m)
                                   /\ ~HasTestAttribute(m, i) /\ HasBody(m, FunctionOpen(m, i))}
        close(i) == MatchingBrace(m, FunctionOpen(m, i))
    IN  {[at |-> i, body |-> SubSeq(s, FunctionOpen(m, i) + 1, close(i) - 1)] :
            i \in {i \in found : ~ \E o \in found : FunctionOpen(m, o) < i /\ i < close(o)}}
RustFunctions(s) == FunctionsIn(s, RustCodeMask(s))

\* The second argument of a call: what stands between the first comma that is no
\* deeper than the arguments, and the next one or the end.
SecondArgument(m, open) ==
    LET nested(j) == Cardinality({k \in open..(j - 1) : m[k] \in {"(", "{"}})
                     - Cardinality({k \in open..(j - 1) : m[k] \in {")", "}"}})
        ends == {j \in (open + 1)..Len(m) : /\ nested(j) = 1 /\ m[j] \in {",", ")"}
                                            /\ \A k \in (open + 1)..j : nested(k) >= 1}
    IN  IF Cardinality(ends) < 2 \/ m[Min(ends)] = ")" THEN {}
        ELSE (Min(ends) + 1)..(Min(ends \ {Min(ends)}) - 1)

RegisteredAt(m) ==
    UNION {SecondArgument(m, i + 1) : i \in {i \in DOMAIN m : m[i] = "register" /\ At(m, i + 1) = "("}}

\* The rows of a source, what an item that is public says after that, and the
\* names of the functions that are.
Row(m, i) == LET IsLineEnd(j) == m[j] = "nl" IN SubSeq(m, i, First(m, i, IsLineEnd) - 1)
RowStarts(m) == {1} \cup {i + 1 : i \in {i \in DOMAIN m : m[i] = "nl"}}
PublicItem(row) ==
    LET item == Without(row, "blank")
        IsClose(j) == item[j] = ")"
    IN  IF At(item, 1) # "pub" THEN <<>>
        ELSE IF At(item, 2) # "(" THEN Tail(item)
        ELSE SubSeq(item, First(item, 1, IsClose) + 1, Len(item))
Unqualified(item, qualifiers) ==
    FoldLeft(LAMBDA rest, q : IF At(rest, 1) = q THEN Tail(rest) ELSE rest, item, qualifiers)

FunctionNames(m) ==
    LET items == {Unqualified(PublicItem(Row(m, i)), <<"const", "async", "unsafe">>) : i \in RowStarts(m)}
    IN  {item[2] : item \in {item \in items : At(item, 1) = "fn" /\ At(item, 2) \notin Symbols}}
PublicRustFunctionNames(s) == FunctionNames(RustCodeMask(s))

TopLevelItems(m) ==
    LET tops == {i \in RowStarts(m) : Depth(m, 1, i - 1) = 0}
        items == {Unqualified(PublicItem(Row(m, i)), <<"unsafe", "auto">>) : i \in tops}
    IN  {SubSeq(item, 1, 2) : item \in {item \in items :
            /\ At(item, 1) \in {"struct", "enum", "union", "trait", "type", "const", "static"} /\ At(item, 2) \notin Symbols
            /\ At(item, 1) = "const" => At(item, 2) # "fn"}}
PublicTopLevelPolicyItems(s) == TopLevelItems(ProductionRustCodeMask(s))

\* What is made public of another crate: in one row, or in those up to the
\* next that holds a semicolon.
IsFacade(item) ==
    \/ At(item, 1) = "use" /\ At(item, 2) = "keycord"
    \/ At(item, 1) = "type" /\ Occurs(item, <<"=", "keycord">>)
FacadeRows(m) ==
    LET starts == SetToSortSeq(RowStarts(m), LAMBDA i, j : i < j)
        Step(state, i) ==
            LET row == Without(Row(m, i), "blank")
                statement == state.pending \o row
                item == PublicItem(row)
                begins == state.pending # <<>> \/ (At(item, 1) \in {"use", "type"} /\ Len(item) > 1)
            IN  IF ~begins THEN state
                ELSE IF ~Occurs(row, <<";">>) THEN [state EXCEPT !.pending = statement]
                ELSE [pending |-> <<>>,
                      count |-> state.count + IF IsFacade(PublicItem(statement)) THEN 1 ELSE 0]
    IN  FoldLeft(Step, [pending |-> <<>>, count |-> 0], starts).count

\* Where the root builds what a subject owns; a type that is returned is not.
OwnerUiConstructions(m, marker) ==
    LET before(i) == Without(SubSeq(m, 1, i - 1), "blank")
    IN  {i \in DOMAIN m : /\ IsPrefix(marker, SubSeq(m, i, Len(m)))
                          /\ marker[Len(marker)] = "{" => ~IsSuffix(<<"->">>, before(i))}

\* What the recipients' pages take of the keys' crate, and what they may not.
KeysUses(m) == {SubSeq(m, i + 1, Len(m)) : i \in {i \in DOMAIN m : m[i] = "keys::"}}
GroupEntries(group) ==
    LET IsClose(j) == group[j] = "}"
        inside == SubSeq(group, 1, First(group, 1, IsClose) - 1)
        cuts == {0, Len(inside) + 1} \cup {i \in DOMAIN inside : inside[i] = ","}
    IN  {SubSeq(inside, i + 1, Min({j \in cuts : j > i}) - 1) : i \in cuts \ {Len(inside) + 1}} \ {<<>>}
Named(entry) == At(entry, 1) \notin Symbols /\ (Len(entry) > 1 => entry[2] = "as")
ApiItems(used) ==
    LET uses == {Tail(u) : u \in {u \in used : At(u, 1) = "ui::"}}
        groups == {u \in uses : At(u, 1) = "{"}
        entries == UNION {GroupEntries(Tail(u)) : u \in {u \in groups : Occurs(u, <<"}">>)}}
        singles == uses \ groups
        named == {u \in singles : At(u, 1) \notin Symbols /\ At(u, 2) # "::"}
    IN  [items |-> {e[1] : e \in {e \in entries : Named(e)} \cup named},
         invalid |-> \/ \E u \in used : At(u, 1) # "ui::"
                     \/ \E u \in groups : ~Occurs(u, <<"}">>)
                     \/ \E e \in entries : ~Named(e)
                     \/ named # singles]
StoresKeysUiApiItems(s) ==
    ApiItems(KeysUses(Without(Without(ProductionRustCodeMask(s), "blank"), "nl")))

\* A body that only fills a type's fields is no duplicate of another one.
IsTrivialAdapter(body) ==
    LET m == Without(Without(RustCodeMask(body), "blank"), "nl")
    IN  /\ At(m, 1) = "Self" /\ At(m, 2) = "{" /\ m[Len(m)] = "}"
        /\ ~ \E i \in DOMAIN m : m[i] \in {";", "if", "match", "loop", "while", "for"}

-----------------------------------------------------------------------------
(* Manifests, also read without a parser.  White space is left out of a line.   *)

\* What encloses each place of a line, and whether a backslash stands before it.
Enclosed(line) ==
    LET f[i \in 0..Len(line)] ==
            IF i = 0 THEN [by |-> "none", escaped |-> FALSE]
            ELSE LET b == f[i - 1]  c == line[i]
                 IN  CASE b.escaped -> [b EXCEPT !.escaped = FALSE]
                       [] c = "bs" /\ b.by = "quote" -> [b EXCEPT !.escaped = TRUE]
                       [] c \in {"quote", "'"} /\ b.by = c -> [b EXCEPT !.by = "none"]
                       [] c \in {"quote", "'"} /\ b.by = "none" -> [b EXCEPT !.by = c]
                       [] OTHER -> b
    IN  f
Bare(line, c) == {i \in DOMAIN line : line[i] = c /\ Enclosed(line)[i - 1].by = "none"}
DelimitersBalanced(value) ==
    /\ Enclosed(value)[Len(value)].by = "none"
    /\ Cardinality(Bare(value, "{")) = Cardinality(Bare(value, "}"))
    /\ Cardinality(Bare(value, "[")) = Cardinality(Bare(value, "]"))
\* Slip: a number sign in a string begins a comment.
StripsStrings(line) ==
    LET IsSign(i) == line[i] = "#" IN SubSeq(line, 1, First(line, 1, IsSign) - 1)
StripTomlComment(line) == SubSeq(line, 1, Min(Bare(line, "#") \cup {Len(line) + 1}) - 1)
Strings(value) ==
    LET state == Enclosed(value)
        opens == {i \in DOMAIN value : state[i - 1].by = "none" /\ state[i].by # "none"}
        closes(i) == {j \in DOMAIN value : j > i /\ state[j].by = "none"}
    IN  {SubSeq(value, i + 1, Min(closes(i)) - 1) : i \in {i \in opens : closes(i) # {}}}

Manifest(lines) ==
    LET Bracket(x) == x \notin {"[", "]"}
        Take(state, a) == IF DelimitersBalanced(a.value)
                          THEN [state EXCEPT !.assignments = Append(@, a), !.pending = <<>>]
                          ELSE [state EXCEPT !.pending = <<a>>]
        Step(state, raw) ==
            LET line == StripTomlComment(raw)
                equals == Bare(line, "=")
            IN  CASE line = <<>> -> state
                  [] line # <<>> /\ state.pending # <<>> ->
                        Take(state, [state.pending[1] EXCEPT !.value = @ \o line])
                  [] line # <<>> /\ state.pending = <<>> /\ line[1] = "[" /\ line[Len(line)] = "]" ->
                        [state EXCEPT !.section = SelectSeq(line, Bracket)]
                  [] OTHER -> IF equals = {} THEN state
                              ELSE Take(state, [section |-> state.section,
                                                key |-> SubSeq(line, 1, Min(equals) - 1),
                                                value |-> SubSeq(line, Min(equals) + 1, Len(line))])
    IN  FoldLeft(Step, [assignments |-> <<>>, section |-> <<>>, pending |-> <<>>], lines).assignments

NoValue == <<"absent">>
Value(manifest, section, key) ==
    LET Is(a) == a.section = <<section>> /\ a.key = <<key>>
        found == SelectSeq(manifest, Is)
    IN  IF found = <<>> THEN NoValue ELSE found[1].value
InSection(manifest, Is(_)) == {manifest[i] : i \in {i \in DOMAIN manifest : Is(manifest[i].section)}}
IsWorkspaceSection(section) == section = <<"workspace", ".dependencies">>
IsDependencySection(section) ==
    \/ section \in {<<"dependencies">>, <<"build-dependencies">>, <<"dev-dependencies">>}
    \/ Len(section) > 1 /\ Last(section) \in {".dependencies", ".build-dependencies", ".dev-dependencies"}
IsNormalSection(section) ==
    /\ IsDependencySection(section)
    /\ Last(section) \in {"dependencies", ".dependencies"}
InlineFalse(value, key) == Occurs(value, <<key, "=", "false">>)
InlineTrue(value, key) == Occurs(value, <<key, "=", "true">>)
Keycord == {"keycord-a", "keycord-b", "keycord-passkey", "keycord-gone"}
InheritsWorkspace(a) == Last(a.key) = ".workspace" \/ InlineTrue(a.value, "workspace")

CheckWorkspaceMembers(root, directories) ==
    LET members == Value(root, "workspace", "members")
        listed == {s[1] : s \in Strings(members) \ {<<>>}}
    IN  IF members = NoValue THEN {<<"members are required">>}
        ELSE {<<"no member", d>> : d \in directories \ listed}
             \cup {<<"no manifest", d>> : d \in (listed \cap Keycord) \ directories}

CheckWorkspaceDependencyDefaults(root) ==
    {<<"workspace default features", a.key[1]>> :
        a \in {a \in InSection(root, IsWorkspaceSection) :
                  a.key[1] \in Keycord /\ ~InlineFalse(a.value, "default-features")}}

CheckInternalDependencyDefaults(manifest) ==
    {<<"default features", a.key[1]>> :
        a \in {a \in InSection(manifest, IsDependencySection) :
                  /\ a.key[1] \in Keycord
                  /\ \/ InlineTrue(a.value, "default-features")
                     \/ /\ Occurs(a.value, <<"path">>) /\ ~InheritsWorkspace(a)
                        /\ ~InlineFalse(a.value, "default-features")}}

CheckForbiddenEdges(name, manifest) ==
    IF name = <<"keycord-lifecycle">> /\ \E a \in InSection(manifest, IsNormalSection) :
                                             a.key[1] = "keycord-passkey"
    THEN {<<"forbidden edge">>} ELSE {}

CheckManifest(manifest) ==
    LET names == Strings(Value(manifest, "package", "name"))
    IN  (IF Cardinality(names) = 1 THEN {} ELSE {<<"name must be a string">>})
        \cup (IF Value(manifest, "package", "publish") = <<"false">> THEN {} ELSE {<<"publish">>})
        \cup (IF Value(manifest, "features", "default") = <<"[", "]">> THEN {} ELSE {<<"default">>})
        \cup CheckInternalDependencyDefaults(manifest)
        \cup UNION {CheckForbiddenEdges(name, manifest) : name \in names}

-----------------------------------------------------------------------------
(* The workspace.  A text of the user interface is a sequence of what it is     *)
(* about; an action's name, as everywhere, a sequence of words.                *)

NL == <<"nl">>
Marker(kind, name) == <<"marker", kind, name>>
Item(is, what) == <<is, what>>
Kinds == {"window", "shortcuts"}

\* The words of a crate's name, and the crates that own a subject.
Words(crate) == CASE crate = "ab" -> <<"a", "b">> [] OTHER -> <<crate>>
Subjects == {"a", "ab", "shell", "runtime", "stores"}

\* A file that cannot be read is reported, and what it is read for is left out.
\* Slip: it is left out only.
SkipsUnread(p, file, violations) == IF file \in p.unread THEN {} ELSE violations
Reading(p, file, violations) == IF file \in p.unread THEN {<<"unreadable", file>>} ELSE violations

\* What lies in the root's sources.
RootFiles(p) == IF "src" \in p.unread THEN {} ELSE p.rootFiles

ManifestLines(m) ==
    LET Rows(i) ==
            LET a == m.written[i]
                value == a.key \o <<"=">> \o a.value
                cuts == IF m.style = "broken" /\ a.value[1] = "["
                        THEN Bare(value, "[") \cup Bare(value, ",") ELSE {}
                ends == SetToSortSeq(cuts \cup {Len(value)}, LAMBDA x, y : x < y)
                from(k) == IF k = 1 THEN 1 ELSE ends[k - 1] + 1
            IN  <<<<"[">> \o a.section \o <<"]">>>>
                \o [k \in DOMAIN ends |-> SubSeq(value, from(k), ends[k])]
        Commented(line) == IF m.style = "commented" THEN line \o <<"#", "quote", "[">> ELSE line
        all == FlattenSeq([i \in DOMAIN m.written |-> Rows(i)])
    IN  [i \in DOMAIN all |-> Commented(all[i])]

CheckWorkspaceManifests(p) ==
    LET root == Manifest(ManifestLines(p.root))
        directories == IF "crates" \in p.unread THEN {} ELSE {"keycord-a"}
        unread == IF "crates" \in p.unread THEN {<<"unreadable", "crates">>} ELSE {}
    IN  Reading(p, "root manifest",
            unread \cup CheckWorkspaceMembers(root, directories)
            \cup CheckWorkspaceDependencyDefaults(root)
            \cup IF directories = {} THEN {}
                 ELSE Reading(p, "manifest", CheckManifest(Manifest(ManifestLines(p.manifest)))))

-----------------------------------------------------------------------------
(* Pieces of the user interface.  Where a piece is says whose it is, of which    *)
(* window, and for which marker.                                               *)

HasIdentity(path) ==
    /\ path.in = "data" /\ path.crate \notin {"shell", "ui-fragments"}
    /\ path.kind \in Kinds /\ path.rest # <<>>
Name(path) == Words(path.crate) \o path.rest

Fragments(p) == IF "crates" \in p.unread THEN {} ELSE {f \in DOMAIN p.fragments : f.kind # "no fragment"}
Expected(p, kind) == {f \in Fragments(p) : HasIdentity(f) /\ f.kind = kind}

CheckFragments(p) ==
    LET files == IF "crates" \in p.unread THEN {} ELSE DOMAIN p.fragments
        identified == {f \in files : f.kind # "no fragment" /\ HasIdentity(f)}
    IN  {<<"no fragment's path", f>> : f \in files \ identified}
        \cup {<<"declares an interface", f>> : f \in {f \in identified :
                \E i \in DOMAIN p.fragments[f] : p.fragments[f][i] = Item("interface", "")}}
        \cup {<<"marks the other window", f>> : f \in {f \in identified :
                \E i \in DOMAIN p.fragments[f] : /\ p.fragments[f][i][1] = "marker"
                                                 /\ p.fragments[f][i][2] # f.kind}}
        \cup {<<"shares its marker", f>> : f \in {f \in identified :
                \E g \in identified \ {f} : g.kind = f.kind /\ Name(g) = Name(f)}}
        \cup IF "crates" \in p.unread THEN {<<"unreadable", "crates">>} ELSE {}

RowOf(text, i) ==
    LET start == Max({j \in 1..(i - 1) : text[j] = NL} \cup {0}) + 1
        IsEnd(j) == text[j] = NL
    IN  [from |-> start, to |-> First(text, i, IsEnd) - 1]
Alone(text, i) == RowOf(text, i) = [from |-> i, to |-> i]
Spliced(text, from, to, part) == SubSeq(text, 1, from - 1) \o part \o SubSeq(text, to + 1, Len(text))
Occurrences(text, item) == {i \in DOMAIN text : text[i] = item}
Unresolved(text, kind) == \E i \in DOMAIN text : text[i][1] = "marker" /\ text[i][2] = kind

\* A skeleton that cannot be read is taken for an empty one.
Skeleton(p, kind) == IF kind \in p.unread THEN <<>> ELSE p.skeleton[kind]

\* Slip: only the markers of the skeleton are looked up in the registry.
LooksAtSkeleton(p, kind) ==
    LET text == Skeleton(p, kind)
        names == {p.registry[kind][i].name : i \in DOMAIN p.registry[kind]}
    IN  {<<"unresolved markers", kind>> :
            i \in {i \in DOMAIN text : text[i][1] = "marker" /\ text[i][3] \notin names}}

\* The checker's composition goes on after what it reports, and leaves the line
\* that a marker stood in.
CheckComposition(p, kind) ==
    LET Step(state, entry) ==
            LET places == Occurrences(state.text, Marker(kind, entry.name))
                i == Min(places)
                bad == IF Alone(state.text, i) THEN state.bad
                       ELSE state.bad \cup {<<"must be alone", entry.name>>}
            IN  IF Cardinality(places) # 1
                THEN [state EXCEPT !.bad = @ \cup {<<"must have one marker", entry.name>>}]
                ELSE IF entry.path \notin DOMAIN p.fragments
                THEN [state EXCEPT !.bad = bad \cup {<<"unreadable fragment", entry.path>>}]
                ELSE [bad |-> bad, text |-> Spliced(state.text, i, i, p.fragments[entry.path])]
        end == FoldLeft(Step, [text |-> Skeleton(p, kind), bad |-> {}], p.registry[kind])
    IN  end.bad \cup IF Unresolved(end.text, kind) THEN {<<"unresolved markers", kind>>} ELSE {}

CheckFragmentRegistry(p, kind) ==
    LET registry == p.registry[kind]
        named(name) == {i \in DOMAIN registry : registry[i].name = name}
        pathOf(name) == registry[Max(named(name))].path
    IN  {<<"duplicate names", kind>> : i \in {i \in DOMAIN registry : named(registry[i].name) # {i}}}
        \cup {<<"points elsewhere or is omitted", Name(f)>> : f \in {f \in Expected(p, kind) :
                named(Name(f)) = {} \/ pathOf(Name(f)) # f}}
        \cup {<<"unexpected fragment", registry[i].name>> : i \in {i \in DOMAIN registry :
                registry[i].name \notin {Name(f) : f \in Expected(p, kind)}}}
        \cup CheckComposition(p, kind)

\* What the skeletons hold in lines without a marker must have been reviewed.
Reviewed == [id |-> {"i"}, action |-> {<<"win.", "s">>}, text |-> {"t"}]
SkeletonItems(text) ==
    LET unmarked(row) == \A j \in row.from..row.to : text[j][1] # "marker"
    IN  {text[i] : i \in {i \in DOMAIN text :
            text[i][1] \in DOMAIN Reviewed /\ unmarked(RowOf(text, i))}}
CheckShellInventory(p, kind) ==
    UNION {Reading(p, is,
               {item \in SkeletonItems(Skeleton(p, kind)) : item[1] = is /\ item[2] \notin Reviewed[is]}) :
           is \in DOMAIN Reviewed}

\* A registry whose constant is missing, or ends in half an entry, is unreadable.
RegistryOf == [window |-> "WINDOW_UI_FRAGMENTS", shortcuts |-> "SHORTCUTS_FRAGMENTS"]
CheckUiOwnership(p) ==
    UNION {Reading(p, kind, {}) \cup Reading(p, RegistryOf[kind], CheckFragmentRegistry(p, kind))
           \cup CheckShellInventory(p, kind) : kind \in Kinds}
    \cup CheckFragments(p)
    \cup IF "ui" \in RootFiles(p) THEN {<<"declarative user interface in the root">>} ELSE {}

-----------------------------------------------------------------------------
(* Who may name an action of the window: a policy line names its owner, the     *)
(* action or the beginning of several, and those who may use them.             *)

Matches(rule, action) == IF rule.wild THEN IsPrefix(rule.stem, action) ELSE rule.stem = action
Allows(rule, subject) == subject = rule.owner \/ rule.consumers \cap {"all", subject} # {}
RulesFor(rules, action) == {rules[i] : i \in {i \in DOMAIN rules :
    Matches(rules[i], action) /\ \A j \in 1..(i - 1) : ~Matches(rules[j], action)}}

\* Slip: the beginnings of two patterns are compared one way only.
OverlapsOneWay(left, right) ==
    IF left.wild THEN IsPrefix(left.stem, right.stem) ELSE left.stem = right.stem
ActionPatternsOverlap(left, right) ==
    CASE left.wild /\ right.wild -> IsPrefix(left.stem, right.stem) \/ IsPrefix(right.stem, left.stem)
      [] left.wild /\ ~right.wild -> IsPrefix(left.stem, right.stem)
      [] ~left.wild /\ right.wild -> IsPrefix(right.stem, left.stem)
      [] OTHER -> left.stem = right.stem

\* A line has an owner, a pattern and perhaps consumers; "-" stands for a name
\* that is no crate's.
IsValidName(name) == name # "-"
IsValidPattern(stem) == stem # <<>>
IsValidLine(line) ==
    /\ line.fields \in {2, 3} /\ IsValidName(line.owner) /\ IsValidPattern(line.stem)
    /\ \A name \in line.consumers : IsValidName(name)
    /\ "all" \in line.consumers => line.consumers = {"all"}
PolicyErrors(lines) ==
    LET rules == SelectSeq(lines, IsValidLine)
    IN  {<<"policy line", i>> : i \in {i \in DOMAIN lines : ~IsValidLine(lines[i])}}
        \cup {<<"overlapping", ij>> : ij \in {ij \in (DOMAIN rules) \X (DOMAIN rules) :
                ij[1] < ij[2] /\ ActionPatternsOverlap(rules[ij[1]], rules[ij[2]])}}
CheckPolicySubjects(rules) ==
    {<<"unknown owner", r.owner>> : r \in {r \in ToSet(rules) : r.owner \notin Subjects \cup {"root"}}}
    \cup {<<"unknown consumer", r.stem>> :
            r \in {r \in ToSet(rules) : ~(r.consumers \subseteq Subjects \cup {"all"})}}

ActionWords == {"a", "b", "s"}
IsQualified(value) == Len(value) > 1 /\ value[1] = "win." /\ ToSet(Tail(value)) \subseteq ActionWords
UiMentions(text) ==
    {[action |-> Tail(text[i][2]), required |-> TRUE, registration |-> FALSE] :
        i \in {i \in DOMAIN text : text[i][1] = "action" /\ IsQualified(text[i][2])}}
Mentions(s, rules, registered) ==
    LET Mention(l) ==
            LET value == LiteralText(s, l)
            IN  [action |-> IF IsQualified(value) THEN Tail(value) ELSE value,
                 required |-> IsQualified(value) \/ l.from \in registered,
                 registration |-> l.from \in registered]
    IN  {m \in {Mention(l) : l \in ProductionLiterals(s)} :
            m.action # <<>> /\ (m.required \/ RulesFor(rules, m.action) # {})}
RustMentions(s, rules) == Mentions(s, rules, RegisteredAt(RustCodeMask(s)))
CheckMentions(subject, rules, mentions) ==
    {<<"undeclared", subject, m.action>> :
        m \in {m \in mentions : m.required /\ RulesFor(rules, m.action) = {}}}
    \cup {<<"not its action", subject, m.action>> :
        m \in {m \in mentions : \E r \in RulesFor(rules, m.action) : ~Allows(r, subject)}}

\* The sources that are tried, each in a file of the crate it is of.
CrateOf == [source |-> "a", root |-> "root", capabilities |-> "runtime", toml |-> "runtime",
            recipient |-> "stores"]
SourceFiles == DOMAIN CrateOf
Text(p, file) ==
    IF file = "root" /\ "src" \in p.unread THEN <<>>
    ELSE FlattenSeq([i \in DOMAIN p.files[file] |-> p.files[file][i].s])

CheckWindowActionOwnership(p) ==
    LET rules == p.policy
        ofFiles == UNION {Reading(p, f, CheckMentions(CrateOf[f], rules, RustMentions(Text(p, f), rules))) :
                          f \in SourceFiles \ {"root"}}
        ofFragments == UNION {CheckMentions(f.crate, rules, UiMentions(p.fragments[f])) :
                              f \in {f \in DOMAIN p.fragments : f.crate \in Subjects}}
        ofShell == UNION {Reading(p, k, CheckMentions("shell", rules, UiMentions(p.skeleton[k]))) : k \in Kinds}
        ofRoot == Reading(p, "root", {<<"undeclared", "root", m.action>> :
                      m \in {m \in RustMentions(Text(p, "root"), rules) :
                                m.registration /\ RulesFor(rules, m.action) = {}}})
    IN  Reading(p, "policy",
            IF PolicyErrors(p.policy) # {} THEN PolicyErrors(p.policy)
            ELSE Reading(p, "crates", CheckPolicySubjects(rules)
                                      \cup ofFiles \cup ofFragments \cup ofShell \cup ofRoot))

-----------------------------------------------------------------------------
(* What the root and some of the crates may hold and use.                      *)

Catchalls == {"support", "tools"}
RetiredPaths == {"logging"}
CheckRootCatchalls(p) ==
    Reading(p, "catchalls", Reading(p, "src",
        {<<"new catchall", f>> : f \in (RootFiles(p) \cap Catchalls) \ {"support"}}
        \cup {<<"retired path", f>> : f \in RootFiles(p) \cap RetiredPaths}))

RustStructFields(rows) ==
    {<<row.name, row.type>> : row \in {row \in ToSet(rows) : row.is = "field"}}
OwnedByOthers == {<<"Owner", "{">>, <<"owner_ui">>}
CheckRootSource(p) ==
    Reading(p, "root", IF FacadeRows(RustCodeMask(Text(p, "root"))) > 0 THEN {<<"facade">>} ELSE {})
    \cup Reading(p, "widgets' policy", Reading(p, "widgets",
            Inventory("widget bundle", RustStructFields(p.widgets), {<<"bundle", "T">>})))
    \cup Reading(p, "owners' policy", Reading(p, "root",
            {<<"built by the root", marker>> :
                marker \in {o \in OwnedByOthers : OwnerUiConstructions(ProductionRustCodeMask(Text(p, "root")), o) # {}}}))

CheckRuntime(p) ==
    LET Features(section) == section = <<"features">>
        features == {a.key[1] : a \in InSection(Manifest(ManifestLines(p.runtime)), Features)}
        named == UNION {Reading(p, f, IF Occurs(Text(p, f), <<"subject">>) THEN {<<"subject", f>>} ELSE {}) :
                        f \in {"capabilities", "toml"}}
    IN  Reading(p, "features' policy", Reading(p, "functions' policy", Reading(p, "items' policy",
            Reading(p, "runtime manifest",
                Inventory("feature", features, {"default"})
                \cup Reading(p, "capabilities",
                    Inventory("function", PublicRustFunctionNames(Text(p, "capabilities")), {"probe"})
                    \cup Reading(p, "toml",
                        Inventory("item", PublicTopLevelPolicyItems(Text(p, "toml")), {<<"struct", "Limits">>})
                        \cup Reading(p, "identifiers", named)))))))

CheckRecipientIds(p) ==
    LET owner(id) == p.recipientIds[Max({i \in DOMAIN p.recipientIds : p.recipientIds[i][1] = id})]
    IN  Reading(p, "ids' owners",
            {<<"duplicate id", i>> : i \in {i \in DOMAIN p.recipientIds :
                \E j \in 1..(i - 1) : p.recipientIds[j][1] = p.recipientIds[i][1]}}
            \cup Inventory("recipient id", {owner(entry[1]) : entry \in ToSet(p.recipientIds)},
                           {<<"list", "stores">>, <<"fields", "keys">>}))
CheckKeysUse(p, text, api) ==
    Reading(p, "recipient",
        (IF api.invalid THEN {<<"no controller of the keys">>} ELSE {})
        \cup IF Occurs(ProductionRustCodeMask(text), <<"export_key">>) THEN {<<"manages keys">>} ELSE {})
    \cup Inventory("controller", api.items, {"keyList"})
CheckRecipientPage(p) ==
    Reading(p, "controllers", Reading(p, "keys' identifiers",
        CheckKeysUse(p, Text(p, "recipient"),
                     IF "recipient" \in p.unread THEN [items |-> {}, invalid |-> FALSE]
                     ELSE StoresKeysUiApiItems(Text(p, "recipient")))
        \cup CheckRecipientIds(p)))

\* What is long enough to be a duplicate: a file's text, or a function's body.
Substantial(text, length) == Len(Without(text, "nl")) >= length
FileLength == 12
FunctionLength == 6
DuplicateFunctions(functions) ==
    LET counted == {fn \in functions : Substantial(fn.body, FunctionLength) /\ ~IsTrivialAdapter(fn.body)}
    IN  {<<"duplicate function", fn>> : fn \in {fn \in counted :
            \E other \in counted \ {fn} : other.body = fn.body}}
CheckDuplicates(p) ==
    LET files == {f \in SourceFiles \ p.unread : "crates" \in p.unread => f = "root"}
        large == {f \in files : Substantial(Text(p, f), FileLength)}
    IN  {<<"duplicate file", f>> : f \in {f \in large : \E g \in large \ {f} : Text(p, f) = Text(p, g)}}
        \cup DuplicateFunctions(UNION {
                {[file |-> f, at |-> fn.at, body |-> fn.body] : fn \in RustFunctions(Text(p, f))} : f \in files})

\* Branding that lies with the Shell, and what the Stores once exported keys with.
CheckMisplaced(p) == {<<"misplaced", f>> : f \in p.misplaced}

Violations(p) ==
    CheckWorkspaceManifests(p) \cup CheckUiOwnership(p) \cup CheckWindowActionOwnership(p)
    \cup CheckRootCatchalls(p) \cup CheckRootSource(p) \cup CheckRuntime(p)
    \cup CheckMisplaced(p) \cup CheckRecipientPage(p) \cup CheckDuplicates(p)

-----------------------------------------------------------------------------
(* The build.                                                                  *)

NotBuilt == <<>>

ReplacesLine(text, i, fragment) ==
    LET row == RowOf(text, i) IN Spliced(text, row.from, row.to + 1, fragment)
ComposeMarkedFragments(p, kind) ==
    LET Step(state, entry) ==
            LET places == Occurrences(state.text, Marker(kind, entry.name))
                i == Min(places)
            IN  IF \/ ~state.ok \/ entry.name \in state.names
                   \/ Cardinality(places) # 1 \/ ~Alone(state.text, i)
                THEN [state EXCEPT !.ok = FALSE]
                ELSE [state EXCEPT !.names = @ \cup {entry.name},
                                   !.text = ReplacesLine(@, i, p.fragments[entry.path])]
        registry == p.registry[kind]
        readable == p.unread \cap {kind, RegistryOf[kind]} = {}
                    /\ \A i \in DOMAIN registry : registry[i].path \in DOMAIN p.fragments
        end == FoldLeft(Step, [ok |-> TRUE, names |-> {}, text |-> p.skeleton[kind]], registry)
    IN  IF ~readable THEN [ok |-> FALSE, text |-> NotBuilt]
        ELSE [ok |-> /\ end.ok /\ ~Unresolved(end.text, kind)
                     /\ kind = "window" => end.text[1] = Item("interface", ""),
              text |-> end.text]

WriteShortcutsUi(p) == ComposeMarkedFragments(p, "shortcuts")
WriteWindowUi(p) == ComposeMarkedFragments(p, "window")

\* The entries of the crates' data in the order they are merged.  What lies in a
\* crate's "branding" lies in the root's data itself.
DataCrates == <<"a", "ab">>
Target(entry) ==
    IF entry.path[1] = "branding" /\ Len(entry.path) > 1 THEN Tail(entry.path) ELSE entry.path
DataEntries(p) == FlattenSeq([i \in DOMAIN DataCrates |-> p.data[DataCrates[i]]])
Directory == "directory"
Above(target) == {SubSeq(target, 1, n) : n \in 1..(Len(target) - 1)}

\* Slip: a file that is there is taken to be the same.
CopyIfAbsent(data, target, content) ==
    IF target \in DOMAIN data THEN data ELSE data @@ (target :> content)
CopyFileIfChanged(data, target, content) == (target :> content) @@ data

\* Merging stops at an entry that is no file, or that is in the way of another.
Mergeable(data, entry) ==
    LET target == Target(entry)
    IN  /\ entry.is = "file"
        /\ \A d \in Above(target) : d \in DOMAIN data => data[d] = Directory
        /\ target \in DOMAIN data => data[target] # Directory
MergeEntry(data, entry) ==
    CopyFileIfChanged([d \in Above(Target(entry)) |-> Directory] @@ data, Target(entry), entry.content)
\* What directories of the crates are left from the time they had their own.
IsLegacy(data, path) ==
    LET top == SubSeq(path, 1, 1) IN top[1] \in {"branding", "keycord-a"} /\ data[top] = Directory
WithoutLegacy(data) == [path \in {path \in DOMAIN data : ~IsLegacy(data, path)} |-> data[path]]
MergeSome(data, entries, count) == FoldLeft(MergeEntry, data, SubSeq(entries, 1, count))

\* The build ends, fails at an entry, or is stopped before one.
Stops(p, data) == {k \in 0..Len(DataEntries(p)) :
    /\ \A i \in 1..k : Mergeable(MergeSome(data, DataEntries(p), i - 1), DataEntries(p)[i])}

-----------------------------------------------------------------------------
(* Workspaces that are tried: a good one, and those that differ from it in one  *)
(* of its parts.                                                               *)

\* A piece of a source is an item or a statement in rows of its own; `literals`
\* are the places of those of its strings that the program uses.
Piece(is, s, literals) == [is |-> is, s |-> Append(s, "nl"), literals |-> literals]
Says(what) == Piece("says", <<"quote">> \o what \o <<"quote", ";">>, {1})
LiteralTexts == {<<"{">>, <<"//">>, <<"/*">>, <<"bs", "quote">>, <<"bs", "bs">>, <<"fn">>,
                 <<"a">>, <<"win.", "a">>, <<"win.", "b">>}
TestModule == <<"test", "mod tests", "{", "fn", "x", "{", "quote", "x", "quote", "}", "}">>
LargeBody == <<"x", ";", "x", ";", "x", ";">>
Adapter == <<"Self", "{", "x", ",", "x", ",", "x", "}">>
Pieces ==
    {Says(what) : what \in LiteralTexts}
    \cup {Piece("comment", <<"/*", "{", "/*", "x", "*/", "quote", "*/">>, {}),
          Piece("comment", <<"//", "quote", "{">>, {}), Piece("code", <<"'", "x", ";">>, {}),
          Piece("code", <<"'", "quote", "'", ";">>, {}), Piece("code", <<"'", "{", "'", ";">>, {}),
          Piece("code", <<"'", "bs", "'", "'", ";">>, {}),
          Piece("code", <<"fn", "x", "(", "x", ")", ";">>, {}),
          Piece("says", <<"r", "hash", "quote", "bs", "quote", "x", "quote", "hash", ";">>, {1}),
          Piece("code", <<"register", "(", "x", ",", "quote", "a", "quote", ",", "x", ")", ";">>, {5}),
          Piece("registers", <<"register", "(", "x", "{", ",", "}", ",", "quote", "b", "quote", ")", ";">>, {8}),
          Piece("code", <<"fn", "x", "{", "quote", "}", "quote", "}">>, {4}),
          Piece("large", <<"fn", "x", "{">> \o LargeBody \o <<"}">>, {}),
          Piece("code", <<"fn", "x", "{">> \o Adapter \o <<"}">>, {}),
          Piece("test", <<"test", "fn", "x", "{", "quote", "x", "quote", "}">>, {}),
          Piece("test", TestModule, {}),
          Piece("facade", <<"pub", "use", "keycord", "{", "nl", "x", "}", ";">>, {}),
          Piece("facade", <<"pub", "(", "x", ")", "type", "x", "=", "nl", "keycord", ";">>, {}),
          Piece("code", <<"use", "keycord", ";">>, {}), Piece("code", <<"pub", "use", "x", ";">>, {}),
          Piece("owner", <<"Owner", "{", "x", "}", ";">>, {}), Piece("owner", <<"owner_ui", ";">>, {}),
          Piece("code", <<"fn", "x", "->", "Owner", "{", "x", "}">>, {})}
RuntimePieces ==
    {Piece("public", <<"pub", "async", "fn", "other", "{", "}">>, {}),
     Piece("public", <<"pub", "enum", "Other", "{", "x", "}">>, {}),
     Piece("code", <<"pub", "const", "fn", "probe", "{", "}">>, {}),
     Piece("code", <<"x", "{", "pub", "nl", "}">>, {}), Piece("subject", <<"//", "subject">>, {}),
     Piece("test", TestModule, {})}
RecipientPieces ==
    {Piece("code", <<"keys::", "ui::", "{", "keyList", ",", "keyList", "as", "x", "}", ";">>, {}),
     Piece("keys", <<"keys::", "ui::", "{", "keyList", ",", "other", "}", ";">>, {}),
     Piece("keys", <<"keys::", "ui::", "keyList", "::", "x", ";">>, {}),
     Piece("keys", <<"keys::", "x", ";">>, {}), Piece("keys", <<"export_key", ";">>, {}),
     Piece("comment", <<"//", "export_key">>, {})}

Assign(section, key, value) == [section |-> section, key |-> key, value |-> value]
Quoted(words) == <<"quote">> \o words \o <<"quote">>
Members(names) == <<"[">> \o FlattenSeq([i \in DOMAIN names |-> Quoted(<<names[i]>>) \o <<",">>]) \o <<"]">>
RootManifest(names, defaults) ==
    <<Assign(<<"workspace">>, <<"members">>, Members(names)),
      Assign(<<"workspace", ".dependencies">>, <<"keycord-b">>,
             <<"{", "path", "=">> \o Quoted(<<"#">>) \o defaults \o <<"}">>)>>
CrateManifest(name, publish, features, dependency) ==
    <<Assign(<<"package">>, <<"name">>, Quoted(<<name>>)), Assign(<<"package">>, <<"publish">>, <<publish>>),
      Assign(<<"package">>, <<"about">>, Quoted(<<"#", "[", "bs", "quote">>)),
      Assign(<<"features">>, <<"default">>, features), dependency>>
NoDefaults == <<",", "default-features", "=", "false">>
WithDefaults == <<",", "default-features", "=", "true">>
Dependencies ==
    {Assign(section, <<"keycord-b">>, <<"{", kind, "=", "true">> \o defaults \o <<"}">>) :
        section \in {<<"dependencies">>, <<"target", ".dev-dependencies">>},
        kind \in {"workspace", "path"}, defaults \in {<<>>, NoDefaults, WithDefaults}}
    \cup {Assign(section, <<"keycord-passkey", ".workspace">>, <<"true">>) :
            section \in {<<"dependencies">>, <<"dev-dependencies">>}}
OnDependency == Assign(<<"dependencies">>, <<"keycord-b", ".workspace">>, <<"true">>)
In(style, written) == [style |-> style, written |-> written]
Styles == {"plain", "broken", "commented"}

Path(crate, in, kind, rest) == [crate |-> crate, in |-> in, kind |-> kind, rest |-> rest]
FirstPath == Path("a", "data", "window", <<"x">>)
SecondPath == Path("ab", "data", "window", <<"y">>)
ThirdPath == Path("a", "data", "shortcuts", <<"x">>)
Marks(path) == Marker(path.kind, Name(path))
Entry(path) == [name |-> Name(path), path |-> path]
Uses(action) == Item("action", <<"win.", action>>)
Start == <<Item("interface", ""), NL, Uses("s"), NL, Item("id", "i"), NL>>

Rule(owner, stem, wild, consumers) ==
    [fields |-> 3, owner |-> owner, stem |-> stem, wild |-> wild, consumers |-> consumers]
GoodPolicy == <<Rule("a", <<"a">>, FALSE, {}), Rule("shell", <<"s">>, FALSE, {"all"}), Rule("ab", <<"b", "a">>, FALSE, {})>>
Rules == {Rule(owner, stem, wild, consumers) :
    owner \in {"ab", "-"}, stem \in {<<>>, <<"a">>, <<"b">>, <<"a", "b">>}, wild \in BOOLEAN,
    consumers \in {{}, {"all"}, {"a"}, {"a", "all"}, {"gone"}}} \cup {[GoodPolicy[1] EXCEPT !.fields = 1]}

Field(name, type) == [is |-> "field", name |-> name, type |-> type]
DataFile(path, content) == [path |-> path, is |-> "file", content |-> content]
Good == [
    root |-> In("plain", RootManifest(<<"keycord-a">>, NoDefaults)),
    manifest |-> In("plain", CrateManifest("keycord-a", "false", <<"[", "]">>, OnDependency)),
    runtime |-> In("plain", <<Assign(<<"features">>, <<"default">>, <<"[", "]">>)>>),
    unread |-> {}, rootFiles |-> {"support"}, misplaced |-> {},
    fragments |-> FirstPath :> <<Uses("a"), NL>> @@ ThirdPath :> <<Item("id", "k"), NL>>,
    skeleton |-> [window |-> Start \o <<Marks(FirstPath), NL>>, shortcuts |-> Start \o <<Marks(ThirdPath), NL>>],
    registry |-> [window |-> <<Entry(FirstPath)>>, shortcuts |-> <<Entry(ThirdPath)>>],
    policy |-> GoodPolicy,
    files |-> [source |-> <<>>, root |-> <<>>,
               capabilities |-> <<Piece("code", <<"pub", "fn", "probe", "{", "}">>, {})>>,
               toml |-> <<Piece("code", <<"pub", "struct", "Limits", "{", "x", "}">>, {})>>,
               recipient |-> <<Piece("code", <<"use", "keys::", "ui::", "keyList", ";">>, {})>>],
    widgets |-> <<Field("bundle", "T")>>, recipientIds |-> <<<<"fields", "keys">>, <<"list", "stores">>>>,
    data |-> [a |-> <<DataFile(<<"x">>, "first")>>, ab |-> <<>>]]

ManifestEdits ==
    {[Good EXCEPT !.root = In(style, RootManifest(names, defaults))] : style \in Styles,
        names \in {<<>>, <<"keycord-a", "tools">>, <<"keycord-a", "keycord-gone">>}, defaults \in {<<>>, NoDefaults}}
    \cup {[Good EXCEPT !.manifest = In(style, CrateManifest(name, publish, <<"[", "]">>, dependency))] :
            style \in Styles, name \in {"keycord-a", "keycord-lifecycle"}, publish \in {"true", "false"},
            dependency \in Dependencies}
    \cup {[Good EXCEPT !.manifest.written = CrateManifest("keycord-a", "false", Members(<<"x">>), OnDependency)],
          [Good EXCEPT !.manifest.written = <<Assign(<<"package">>, <<"name">>, <<"true">>)>> \o Tail(@)],
          [Good EXCEPT !.root.written = Tail(@)],
          [Good EXCEPT !.runtime.written = @ \o <<Assign(<<"features">>, <<"passkey">>, <<"[", "]">>)>>]}
SourceEdits ==
    {[Good EXCEPT !.files.source = s] : s \in UNION {[1..n -> Pieces] : n \in 1..MaxPieces}}
    \cup {[Good EXCEPT !.files.root = <<a>>, !.files.source = s] : a \in Pieces,
            s \in {<<>>, <<Piece("large", <<"fn", "x", "{">> \o LargeBody \o <<"}">>, {})>>}}
    \cup {[Good EXCEPT !.files[f] = @ \o <<a>>] : a \in RuntimePieces, f \in {"capabilities", "toml"}}
    \cup {[Good EXCEPT !.files.recipient = s \o <<a>>] : a \in RecipientPieces,
            s \in {<<>>, Good.files.recipient}}
PolicyEdits ==
    {[Good EXCEPT !.policy = policy, !.files.source = <<s>>] : s \in {Says(what) : what \in
            {<<"b">>, <<"win.", "b">>, <<"win.", "a">>, <<"win.", "a", "b">>}},
        policy \in {Tail(GoodPolicy)} \cup {Append(GoodPolicy, r) : r \in Rules} \cup {<<r>> \o GoodPolicy : r \in Rules}}
InterfaceEdits ==
    {[Good EXCEPT !.fragments = FirstPath :> text @@ second @@ @, !.skeleton.window = Start \o rest,
                  !.registry.window = registry] :
        text \in {<<Uses("a"), NL>>, <<Uses("a")>>, <<Uses("b"), NL>>, <<Item("interface", ""), NL>>,
                  <<Marks(SecondPath), NL>>, <<Uses("a"), NL, Marks(SecondPath)>>, <<Marks(ThirdPath), NL>>},
        second \in {<<>>, SecondPath :> <<Uses("a"), NL>>, SecondPath :> <<Item("id", "k"), NL>>},
        rest \in {<<>>, <<Marks(FirstPath)>>, <<Marks(FirstPath), NL, Marks(SecondPath), NL>>,
                  <<Marks(FirstPath), NL, Item("id", "i")>>, <<Marks(FirstPath), Item("id", "i"), NL>>,
                  <<Marks(FirstPath), NL, Marks(FirstPath), NL>>, <<Marks(FirstPath), NL, Item("id", "j")>>},
        registry \in {<<>>, <<Entry(FirstPath)>>, <<Entry(FirstPath), Entry(SecondPath)>>,
                      <<Entry(SecondPath), Entry(FirstPath)>>, <<Entry(FirstPath), Entry(FirstPath)>>,
                      <<[name |-> Name(FirstPath), path |-> ThirdPath]>>}}
    \cup {[Good EXCEPT !.fragments = path :> <<Item("id", "k"), NL>> @@ @] :
            path \in {Path(crate, in, kind, rest) : crate \in {"a", "ab", "shell", "architecture"},
                      in \in {"data", "elsewhere"}, kind \in {"window", "no fragment", "other"},
                      rest \in {<<>>, <<"b", "y">>, <<"y">>}}}
    \cup {[Good EXCEPT !.fragments = SecondPath :> <<NL>> @@ Path("a", "data", "window", <<"b", "y">>) :> <<NL>> @@ @,
                       !.registry.window = Append(@, Entry(SecondPath)),
                       !.skeleton.window = @ \o <<Marks(SecondPath), NL>>]}
Unreadable == {"crates", "src", "root manifest", "manifest", "policy", "catchalls", "widgets' policy", "widgets",
               "owners' policy", "features' policy", "functions' policy", "items' policy", "runtime manifest",
               "identifiers", "controllers", "keys' identifiers", "ids' owners"}
              \cup Kinds \cup DOMAIN Reviewed \cup SourceFiles \cup {RegistryOf[k] : k \in Kinds}
OtherEdits ==
    {[Good EXCEPT !.unread = {f}] : f \in Unreadable}
    \cup {[Good EXCEPT !.rootFiles = @ \cup {f}] : f \in {"tools", "logging", "ui"}}
    \cup {[Good EXCEPT !.misplaced = {f}] : f \in {"branding in the shell", "export in the stores"}}
    \cup {[Good EXCEPT !.widgets = w] : w \in {<<>>, <<Field("bundle", "U")>>,
            <<Field("bundle", "T"), Field("label", "T")>>, <<[Field("x", "T") EXCEPT !.is = "comment"], Field("bundle", "T")>>}}
    \cup {[Good EXCEPT !.recipientIds = ids] : ids \in {<<>>, <<<<"list", "keys">>, <<"list", "stores">>>>,
            <<<<"fields", "stores">>, <<"list", "stores">>>>}}
CrateData == {<<>>, <<DataFile(<<"x">>, "second")>>, <<DataFile(<<"branding", "x">>, "third")>>, <<DataFile(<<"x", "y">>, "fourth")>>,
              <<[DataFile(<<"x">>, "fifth") EXCEPT !.is = "link"]>>}
DataEdits == {[Good EXCEPT !.data = [a |-> a, ab |-> ab]] : a, ab \in CrateData}

-----------------------------------------------------------------------------
Init ==
    /\ project = Good /\ verdict = "unchecked" /\ built = NotBuilt
    /\ merged \in {<<>>, <<"keycord-a">> :> Directory @@ <<"keycord-a", "x">> :> "old"}
    /\ complete = FALSE /\ editCount = 0

\* The data is edited again and again, and the rest once before anything is built.
Edit ==
    /\ editCount < MaxEdits
    /\ \/ [project EXCEPT !.data = Good.data] = Good /\ project' \in DataEdits
       \/ /\ editCount = 0 /\ merged = <<>>
          /\ project' \in ManifestEdits \cup SourceEdits \cup PolicyEdits \cup InterfaceEdits \cup OtherEdits
    /\ editCount' = editCount + 1
    /\ verdict' = "unchecked" /\ built' = NotBuilt /\ complete' = FALSE
    /\ UNCHANGED merged

Check ==
    /\ verdict = "unchecked"
    /\ verdict' = IF Violations(project) = {} THEN "passed" ELSE "failed"
    /\ UNCHANGED <<project, built, merged, complete, editCount>>

\* Nothing is merged when a window cannot be composed; what is merged before the
\* build fails or is stopped stays, and the file that is being copied is cut off.
Build ==
    /\ built = NotBuilt \/ ~complete
    /\ WriteShortcutsUi(project).ok /\ WriteWindowUi(project).ok
    /\ built' = WriteWindowUi(project).text
    /\ \E k \in Stops(project, WithoutLegacy(merged)) :
           LET entries == DataEntries(project)
               data == MergeSome(WithoutLegacy(merged), entries, k)
           IN  /\ complete' = (k = Len(entries))
               /\ \/ merged' = data
                  \/ /\ k < Len(entries) /\ Mergeable(data, entries[k + 1])
                     /\ merged' = MergeEntry(data, [entries[k + 1] EXCEPT !.content = "cut off"])
    /\ UNCHANGED <<project, verdict, editCount>>

Next == Edit \/ Check \/ Build

Spec == Init /\ [][Next]_workspaceVars

-----------------------------------------------------------------------------
Passed == verdict = "passed" /\ built = NotBuilt

(* What the checker reads is what is written: the strings the program uses, no  *)
(* matter what stands in comments, strings and tests around them, and what a    *)
(* manifest assigns, however it is laid out.                                   *)
ReadsWhatIsWritten ==
    verdict = "unchecked" /\ built = NotBuilt =>
        /\ \A f \in SourceFiles :
              LET pieces == project.files[f]
                  start(n) == Len(FlattenSeq([i \in 1..(n - 1) |-> pieces[i].s]))
              IN  project.unread = {} =>
                    {l.from : l \in ProductionLiterals(Text(project, f))}
                    = UNION {{start(n) + place : place \in pieces[n].literals} : n \in DOMAIN pieces}
        /\ \A m \in {project.root, project.manifest, project.runtime} :
              Manifest(ManifestLines(m)) = m.written

(* A workspace that passes can be built, if every fragment ends its last line   *)
(* (the checker looks at markers whose line the fragment before them does not   *)
(* end): every marker finds its fragment, and what the fragments hold is there. *)
WhatPassesIsBuilt ==
    Passed /\ (\A f \in DOMAIN project.fragments : Last(project.fragments[f]) = NL) =>
        \A kind \in Kinds :
            LET composed == ComposeMarkedFragments(project, kind)
            IN  /\ composed.ok
                /\ \A f \in Expected(project, kind) : \A i \in DOMAIN project.fragments[f] :
                      project.fragments[f][i][1] # "marker" => Contains(composed.text, project.fragments[f][i])

(* In a workspace that passes nobody else's actions are named: one rule speaks  *)
(* of an action, and lets the subject use it in whose source or fragment it     *)
(* stands.                                                                     *)
WhatPassesIsOwned ==
    Passed =>
        LET rules == ToSet(project.policy)
            MayUse(subject, action) == \E r \in rules : Matches(r, action) /\ Allows(r, subject)
        IN  /\ \A action \in UNION {[1..n -> ActionWords] : n \in 1..2} :
                  Cardinality({r \in rules : Matches(r, action)}) <= 1
            /\ \A f \in SourceFiles : \A i \in DOMAIN project.files[f] :
                  LET piece == project.files[f][i]
                  IN  /\ piece.is = "says" /\ piece.s[2] = "win." /\ f # "root"
                         => MayUse(CrateOf[f], SubSeq(piece.s, 3, Len(piece.s) - 3))
                      /\ piece.is = "registers" => \E r \in rules : Matches(r, <<"b">>)
            /\ \A f \in Fragments(project) : \A i \in DOMAIN project.fragments[f] :
                  LET item == project.fragments[f][i]
                  IN  item[1] = "action" /\ f.crate \in Subjects => MayUse(f.crate, Tail(item[2]))

(* A workspace that passes was read to the end, and keeps the boundaries: no    *)
(* crate gets the default features of another one, the root forwards no crate's *)
(* names and builds no owner's interface, the runtime offers what was agreed,   *)
(* and no function is there twice.                                             *)
WhatPassesKeepsBounds ==
    Passed =>
        LET p == project
            dependencies == {a \in InSection(p.manifest.written, IsDependencySection) : a.key[1] \in Keycord}
            Has(f, is) == \E i \in DOMAIN p.files[f] : p.files[f][i].is = is
        IN  /\ p.unread = {}
            /\ \A a \in dependencies :
                  /\ ~InlineTrue(a.value, "default-features")
                  /\ InlineFalse(a.value, "default-features") \/ InheritsWorkspace(a)
            /\ ~Has("root", "facade") /\ ~Has("root", "owner")
            /\ ~Has("capabilities", "subject") /\ ~Has("toml", "subject") /\ ~Has("recipient", "keys")
            /\ ~(Has("source", "large") /\ Has("root", "large"))

(* After a build that ends the data of the workspace is that of its crates, the  *)
(* last one's where several have a file, whatever builds before it left or cut   *)
(* off.                                                                        *)
DataIsCurrent ==
    complete => \A i \in DOMAIN DataEntries(project) :
        LET target == Target(DataEntries(project)[i])
            last == Max({j \in DOMAIN DataEntries(project) : Target(DataEntries(project)[j]) = target})
        IN  target \in DOMAIN merged /\ merged[target] = DataEntries(project)[last].content
=============================================================================
