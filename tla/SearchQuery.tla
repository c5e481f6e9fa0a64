----------------------------- MODULE SearchQuery -----------------------------
(* The language of structured searches: how a query is parsed, and which rows  *)
(* it matches.  A query is a sequence of words and symbols; upper case stands  *)
(* for keywords in any spelling, quoted words have their quotes and references *)
(* to another field their dollar sign.  Aliases of an operator (&&, WITH, ||,  *)
(* CONTAIN, MATCH, PASSWORDS) are left out.  The recursion is the parser's.    *)
EXTENDS Naturals, Sequences, FiniteSets

CONSTANTS
    QueryWords,  \* the words a query is made of, sets of them that go together
    MaxWords     \* bound: words of a query

VARIABLES words, query

vars == <<words, query>>

Quoted == {"'a'", "'not'"}
References == {"$a", "$store"}
Symbols == {"=", "==", "!=", "~=", "!~"}
Parens == {"(", ")"}
Reserved == {"AND", "OR", "NOT", "IS", "DOES", "MATCHES", "REGEX", "OTP", "CONTAINS"}

Bad == [op |-> "bad"]
Or(l, r) == [op |-> "or", left |-> l, right |-> r]
And(l, r) == [op |-> "and", left |-> l, right |-> r]
Not(q) == [op |-> "not", of |-> q]
Otp == [op |-> "otp"]
Weak == [op |-> "weak"]
Clause(field, compare, kind, arg) ==
    [op |-> "clause", field |-> field, compare |-> compare, kind |-> kind, arg |-> arg]

-----------------------------------------------------------------------------
(* The parser: what it read, and the words that are left. *)

Read(q, rest) == [q |-> q, rest |-> rest]
Fails == Read(Bad, <<>>)
IsNext(ts, word) == ts # <<>> /\ ts[1] = word
Drop(ts, n) == SubSeq(ts, n + 1, Len(ts))

\* canonical_search_field_key: the names of the user name are one, and a
\* one-time password is not a field.
FieldOf(word) ==
    CASE word \in {"user", "login"} -> "username"
      [] word = "'a'" -> "a" [] word = "'not'" -> "NOT"
      [] OTHER -> word
Referred(word) == CASE word = "$a" -> "a" [] word = "$store" -> "store"
IsFieldName(word) == FieldOf(word) # "otpauth"

\* The comparison a human writes, with the number of its words; none is 0.
Human(ts) ==
    LET At(i, word) == Len(ts) >= i /\ ts[i] = word
    IN  CASE At(1, "IS") /\ At(2, "NOT") -> <<"isnot", 2>>
          [] At(1, "IS") -> <<"is", 1>>
          [] At(1, "DOES") /\ At(2, "NOT") /\ At(3, "CONTAINS") -> <<"hasnot", 3>>
          [] At(1, "DOES") /\ At(2, "NOT") /\ At(3, "MATCHES") -> <<"fitsnot", 3>>
          [] At(1, "DOES") -> <<"bad", 0>>
          [] At(1, "NOT") /\ At(2, "REGEX") -> <<"fitsnot", 2>>
          [] At(1, "NOT") -> <<"bad", 0>>
          [] At(1, "MATCHES") \/ At(1, "REGEX") -> <<"fits", 1>>
          [] At(1, "CONTAINS") -> <<"has", 1>>
          [] OTHER -> <<"has", 0>>

Symbolic(word) ==
    CASE word = "==" -> "is" [] word = "!=" -> "isnot" [] word = "!~" -> "hasnot" [] OTHER -> "has"

\* Slip: a value ends before NOT, as it does before AND and OR.
StopsAtNot(word) == word \in Parens \cup {"AND", "OR", "NOT"}

\* Where a value without quotes ends.
EndsValue(word) == word \in Parens \cup {"AND", "OR"}

ValueLength(ts) ==
    Cardinality({n \in 1..Len(ts) : \A i \in 1..n : ~EndsValue(ts[i])})

ParseOperand(field, compare, ts) ==
    CASE ts = <<>> -> Fails
      [] ts[1] \in References ->
             IF compare \in {"is", "isnot"}
             THEN Read(Clause(field, compare, "field", <<Referred(ts[1])>>), Drop(ts, 1))
             ELSE Fails
      [] ts[1] \in Quoted -> Read(Clause(field, compare, "value", <<ts[1]>>), Drop(ts, 1))
      [] ValueLength(ts) = 0 -> Fails
      [] OTHER -> Read(Clause(field, compare, "value", SubSeq(ts, 1, ValueLength(ts))),
                       Drop(ts, ValueLength(ts)))

ParseClause(ts) ==
    LET field == FieldOf(ts[1])
        rest == Drop(ts, 1)
    IN  CASE ts = <<>> -> Fails
          [] ts[1] \in Symbols \cup Parens \/ ~IsFieldName(ts[1]) -> Fails
          [] rest # <<>> /\ rest[1] \in Symbols ->
                 ParseOperand(field, Symbolic(rest[1]), Drop(rest, 1))
          [] ts[1] \in Reserved -> Fails
          [] Human(rest)[1] = "bad" -> Fails
          [] OTHER -> ParseOperand(field, Human(rest)[1], Drop(rest, Human(rest)[2]))

RECURSIVE ParseOr(_), ParseAnd(_), ParseNot(_), MoreOr(_), MoreAnd(_)

ParsePrimary(ts) ==
    LET inner == ParseOr(Tail(ts))
    IN  CASE IsNext(ts, "(") ->
                 IF inner.q # Bad /\ IsNext(inner.rest, ")")
                 THEN Read(inner.q, Tail(inner.rest)) ELSE Fails
          [] IsNext(ts, "OTP") -> Read(Otp, Tail(ts))
          [] IsNext(ts, "WEAK") ->
                 Read(Weak, IF IsNext(Tail(ts), "PASSWORD") THEN Drop(ts, 2) ELSE Tail(ts))
          [] OTHER -> ParseClause(ts)

ParseNot(ts) ==
    LET inner == ParseNot(Tail(ts))
    IN  IF ~IsNext(ts, "NOT") THEN ParsePrimary(ts)
        ELSE IF inner.q = Bad THEN Fails ELSE Read(Not(inner.q), inner.rest)

\* One more operand, as long as there are some.
MoreAnd(r) ==
    LET right == ParseNot(Tail(r.rest))
    IN  IF r.q = Bad \/ ~IsNext(r.rest, "AND") THEN r
        ELSE IF right.q = Bad THEN Fails ELSE MoreAnd(Read(And(r.q, right.q), right.rest))

ParseAnd(ts) == MoreAnd(ParseNot(ts))

MoreOr(r) ==
    LET right == ParseAnd(Tail(r.rest))
    IN  IF r.q = Bad \/ ~IsNext(r.rest, "OR") THEN r
        ELSE IF right.q = Bad THEN Fails ELSE MoreOr(Read(Or(r.q, right.q), right.rest))

ParseOr(ts) == MoreOr(ParseAnd(ts))

\* The query has to be read to its end.
ParseQuery(ts) ==
    LET read == ParseOr(ts) IN IF read.rest = <<>> THEN read.q ELSE Bad

-----------------------------------------------------------------------------
(* Which rows match.  A row has the name of its store and, once its entry was  *)
(* read, fields; a value has the words of its search.                          *)

Fields == [key : {"a", "username"}, value : {<<"b">>, <<"c">>}]
Rows == [store : {<<"b">>, <<"c">>}, fields : {f \in SUBSET Fields : Cardinality(f) <= 1},
         otp : BOOLEAN, weak : BOOLEAN]
StoreFields(row) == {[key |-> "store", value |-> row.store]}

\* Slip: a field of the row that is compared with the store is not waited for.
NeedsNoIndex(q) == q.field = "store"

\* can_match_without_index
IsMetadata(q) == q.field = "store" /\ (q.kind = "field" => q.arg = <<"store">>)

RECURSIVE RequiresIndex(_), Matches(_, _, _)

RequiresIndex(q) ==
    CASE q.op = "clause" -> ~IsMetadata(q)
      [] q.op \in {"otp", "weak"} -> TRUE
      [] q.op = "not" -> RequiresIndex(q.of)
      [] OTHER -> RequiresIndex(q.left) \/ RequiresIndex(q.right)

\* Containing and fitting a pattern are equality here.
MatchesClause(q, row, indexed) ==
    LET fields == StoreFields(row) \cup IF indexed THEN row.fields ELSE {}
        Has(v) == \E f \in fields : f.key = q.field /\ f.value = v
        positive == IF q.kind = "value" THEN Has(q.arg)
                    ELSE \E f \in fields : <<f.key>> = q.arg /\ Has(f.value)
    IN  IF q.compare \in {"isnot", "hasnot", "fitsnot"} THEN ~positive ELSE positive

Matches(q, row, indexed) ==
    CASE q.op = "clause" -> MatchesClause(q, row, indexed)
      [] q.op = "otp" -> indexed /\ row.otp
      [] q.op = "weak" -> indexed /\ row.weak
      [] q.op = "not" -> ~Matches(q.of, row, indexed)
      [] q.op = "and" -> Matches(q.left, row, indexed) /\ Matches(q.right, row, indexed)
      [] OTHER -> Matches(q.left, row, indexed) \/ Matches(q.right, row, indexed)

-----------------------------------------------------------------------------
(* What the documentation says: a grammar, and all that it makes of a query.   *)

Value(ts) == ts # <<>> /\ \A i \in 1..Len(ts) : ts[i] \notin {"(", ")", "AND", "OR"}
Unquoted(ts) == Value(ts) /\ ts[1] \notin Quoted \cup References
Operand(ts) == \/ Unquoted(ts)
               \/ Len(ts) = 1 /\ ts[1] \in Quoted
Phrases ==
    [has |-> {<<"=">>, <<"~=">>, <<"CONTAINS">>, <<>>},
     hasnot |-> {<<"!~">>, <<"DOES", "NOT", "CONTAINS">>},
     is |-> {<<"==">>, <<"IS">>}, isnot |-> {<<"!=">>, <<"IS", "NOT">>},
     fits |-> {<<"MATCHES">>, <<"REGEX">>},
     fitsnot |-> {<<"DOES", "NOT", "MATCHES">>, <<"NOT", "REGEX">>}]
AllPhrases == UNION {Phrases[c] : c \in DOMAIN Phrases}

BeginsWith(ts, phrase) == Len(ts) >= Len(phrase) /\ SubSeq(ts, 1, Len(phrase)) = phrase

\* Words that begin a longer phrase, or half of one, are no value.
Longest(phrase, ts) ==
    /\ BeginsWith(ts, phrase)
    /\ \A other \in AllPhrases : BeginsWith(ts, other) => Len(other) <= Len(phrase)
    /\ phrase = <<>> => ts = <<>> \/ ts[1] \notin {"NOT", "DOES"}

Clauses(ts) ==
    LET rest == Tail(ts)
        Said(c) == {p \in Phrases[c] : Longest(p, rest)}
        Args(p) == Drop(rest, Len(p))
        field == FieldOf(ts[1])
        named == Len(ts) > 1 /\ ts[1] \notin Symbols \cup Parens \cup {"NOT", "OTP", "WEAK"}
                 /\ field # "otpauth" /\ (ts[1] \in Reserved => rest[1] \in Symbols)
    IN  IF ~named THEN {}
        ELSE UNION {{Clause(field, c, "value", Args(p)) : p \in {p \in Said(c) : Operand(Args(p))}}
                    : c \in DOMAIN Phrases}
             \cup UNION {{Clause(field, c, "field", <<Referred(Args(p)[1])>>) :
                             p \in {p \in Said(c) : Len(Args(p)) = 1 /\ Args(p)[1] \in References}}
                         : c \in {"is", "isnot"}}

RECURSIVE Ors(_), Ands(_), Nots(_)

Splits(ts, word) == {i \in 2..(Len(ts) - 1) : ts[i] = word}
Before(ts, i) == SubSeq(ts, 1, i - 1)

Nots(ts) ==
    IF ts = <<>> THEN {}
    ELSE Clauses(ts)
         \cup {q \in {Otp} : ts = <<"OTP">>}
         \cup {q \in {Weak} : ts \in {<<"WEAK">>, <<"WEAK", "PASSWORD">>}}
         \cup (IF ts[1] = "NOT" THEN {Not(q) : q \in Nots(Tail(ts))} ELSE {})
         \cup (IF ts[1] = "(" /\ ts[Len(ts)] = ")" /\ Len(ts) > 2
               THEN Ors(SubSeq(ts, 2, Len(ts) - 1)) ELSE {})
Ands(ts) ==
    Nots(ts) \cup UNION {{And(l, r) : l \in Ands(Before(ts, i)), r \in Nots(Drop(ts, i))}
                         : i \in Splits(ts, "AND")}
Ors(ts) ==
    Ands(ts) \cup UNION {{Or(l, r) : l \in Ors(Before(ts, i)), r \in Ands(Drop(ts, i))}
                         : i \in Splits(ts, "OR")}

-----------------------------------------------------------------------------
Init == words \in {<<w>> : w \in UNION QueryWords} /\ query = ParseQuery(words)

\* The user types one more word, and the query is parsed again.
Next ==
    /\ Len(words) < MaxWords
    /\ \E ws \in QueryWords, w \in UNION QueryWords :
           /\ w \in ws /\ \A i \in 1..Len(words) : words[i] \in ws
           /\ words' = Append(words, w)
    /\ query' = ParseQuery(words')

Spec == Init /\ [][Next]_vars

(* A query that the grammar of the search guide gives a meaning gets that one, *)
(* by the precedence of the guide, and one it gives none is refused.           *)
ParsesTheGrammar == Ors(words) = IF query = Bad THEN {} ELSE {query}

(* A search that does not wait for the entries to be read finds what it finds  *)
(* when they were read, for rows without a field that is named like the store. *)
IndexIsWaitedFor ==
    query # Bad /\ ~RequiresIndex(query) =>
        \A row \in Rows : Matches(query, row, TRUE) = Matches(query, row, FALSE)
=============================================================================
