--------------------------------- MODULE Rules ---------------------------------
(***************************************************************************)
(* rules.rs: a selector file is read line by line, scope blocks prefix the *)
(* patterns of the rules in them, and a pattern is matched against the     *)
(* path of a symbol.                                                       *)
(*                                                                         *)
(* A line is what is left without its comment: nothing, a closing brace,   *)
(* the start of a scope with its prefix, or a rule with its marker, its    *)
(* pattern and its kind.  A pattern is the sequence of its segments.       *)
(***************************************************************************)
EXTENDS Integers, Sequences, FiniteSets, SequencesExt

CONSTANTS
    Names,   \* identifiers
    Sources, \* the rules files to read
    Paths    \* the paths to match

Star == "*"
DoubleStar == "**"
Bad == ""    \* a segment that is no identifier and no wildcard
Segments == Names \cup {Star, DoubleStar, Bad}

Polarity == [m \in {"+", "-", "-!"} |->
                CASE m = "+" -> "Keep" [] m = "-" -> "Drop" [] m = "-!" -> "DropCascade"]
Kinds == {"message", "enum", "service", "field", "method", "value"}

Lines ==
    [is : {"blank", "close"}]
    \cup [is : {"open"}, pattern : Seq(Segments)]
    \cup [is : {"rule"}, marker : {"+", "-", "-!", "+!", "?"}, pattern : Seq(Segments),
          kind : Kinds \cup {"any", "unknown"}]

ASSUME SourcesAssumption ==
    /\ Names \cap {Star, DoubleStar, Bad} = {}
    /\ Sources \subseteq Seq(Lines)
    /\ Paths \subseteq Seq(Names)

VARIABLES
    src,     \* the lines of the file
    at,      \* the line being read
    scopes,  \* the prefixes of the open scopes, each with those around it
    rules,
    result   \* "reading", "ok", or what is wrong

vars == <<src, at, scopes, rules, result>>

Line == src[at]
Reading == result = "reading" /\ at <= Len(src)
Prefix == IF scopes = <<>> THEN <<>> ELSE Last(scopes)

\* parse_pattern.
Parses(pattern) == pattern # <<>> /\ \A i \in DOMAIN pattern : pattern[i] # Bad

Init ==
    /\ src \in Sources
    /\ at = 1 /\ scopes = <<>> /\ rules = <<>> /\ result = "reading"

Blank ==
    /\ Reading /\ Line.is = "blank"
    /\ at' = at + 1
    /\ UNCHANGED <<src, scopes, rules, result>>

\* MUTANT of Close: a brace closes all scopes.
CloseAll ==
    /\ Reading /\ Line.is = "close" /\ scopes # <<>>
    /\ scopes' = <<>>
    /\ at' = at + 1
    /\ UNCHANGED <<src, rules, result>>

Close ==
    /\ Reading /\ Line.is = "close" /\ scopes # <<>>
    /\ scopes' = Front(scopes)
    /\ at' = at + 1
    /\ UNCHANGED <<src, rules, result>>

Open ==
    /\ Reading /\ Line.is = "open" /\ Parses(Line.pattern)
    /\ scopes' = Append(scopes, Prefix \o Line.pattern)
    /\ at' = at + 1
    /\ UNCHANGED <<src, rules, result>>

RuleParses ==
    /\ Line.marker \in DOMAIN Polarity
    /\ Line.kind # "unknown"
    /\ Parses(Line.pattern)

AddRule ==
    /\ Reading /\ Line.is = "rule" /\ RuleParses
    /\ rules' = Append(rules, [polarity |-> Polarity[Line.marker],
                               pattern |-> Prefix \o Line.pattern, kind |-> Line.kind])
    /\ at' = at + 1
    /\ UNCHANGED <<src, scopes, result>>

\* A line that is an error ends the reading.
Reject ==
    /\ Reading
    /\ \/ Line.is = "close" /\ scopes = <<>> /\ result' = "unmatched"
       \/ Line.is = "open" /\ ~Parses(Line.pattern) /\ result' = "scope"
       \/ Line.is = "rule" /\ ~RuleParses /\ result' = "rule"
    /\ UNCHANGED <<src, at, scopes, rules>>

Finish ==
    /\ result = "reading" /\ at > Len(src)
    /\ result' = IF scopes # <<>> THEN "unclosed" ELSE IF rules = <<>> THEN "empty" ELSE "ok"
    /\ UNCHANGED <<src, at, scopes, rules>>

Next == Blank \/ Close \/ Open \/ AddRule \/ Reject \/ Finish

Spec == Init /\ [][Next]_vars

-----------------------------------------------------------------------------
\* MUTANT of Glob: ** stands for one segment or more everywhere.
GlobSome(pattern, path) ==
    LET glob[i \in 1..Len(pattern) + 1] ==
          [j \in 1..Len(path) + 1 |->
             \/ i > Len(pattern) /\ j > Len(path)
             \/ /\ i <= Len(pattern) /\ pattern[i] = DoubleStar
                /\ \E k \in j+1..Len(path) + 1 : glob[i+1][k]
             \/ /\ i <= Len(pattern) /\ j <= Len(path)
                /\ pattern[i] \in {Star, path[j]} /\ glob[i+1][j+1]]
    IN glob[1][1]

\* glob: what is left of the pattern from i against what is left of the path
\* from j.
Glob(pattern, path) ==
    LET glob[i \in 1..Len(pattern) + 1] ==
          [j \in 1..Len(path) + 1 |->
             \/ i > Len(pattern) /\ j > Len(path)
             \/ i = Len(pattern) /\ pattern[i] = DoubleStar /\ j <= Len(path)
             \/ /\ i < Len(pattern) /\ pattern[i] = DoubleStar
                /\ \E k \in j..Len(path) + 1 : glob[i+1][k]
             \/ /\ i <= Len(pattern) /\ j <= Len(path)
                /\ pattern[i] \in {Star, path[j]} /\ glob[i+1][j+1]]
    IN glob[1][1]

-----------------------------------------------------------------------------
(* The same, without a stack and without a search.                         *)

\* The open scopes around a line: those whose brace is not closed before it.
Count(i, j, shape) == Cardinality({k \in i..j : src[k].is = shape})
Deep(i, j) == Count(i, j, "open") - Count(i, j, "close")
Around(i) == {j \in 1..i-1 : src[j].is = "open" /\ \A k \in j..i-1 : Deep(j, k) > 0}

\* The pattern of a line under the scopes around it: that of the innermost one,
\* under the scopes around that, and then its own.
Scoped[i \in {j \in DOMAIN src : src[j].is \in {"open", "rule"}}] ==
    IF Around(i) = {} THEN src[i].pattern ELSE Scoped[Max(Around(i))] \o src[i].pattern

RuleLines(n) == {i \in 1..n : src[i].is = "rule"}

\* A path is cut into one piece for each segment of the pattern: wildcards and
\* names stand for one, ** for any number, and at the end for at least one.
Covers(pattern, path) ==
    \E cut \in [0..Len(pattern) -> 0..Len(path)] :
        /\ cut[0] = 0 /\ cut[Len(pattern)] = Len(path)
        /\ \A i \in DOMAIN pattern :
             \/ pattern[i] = DoubleStar /\ cut[i] >= cut[i-1] + (IF i = Len(pattern) THEN 1 ELSE 0)
             \/ cut[i] = cut[i-1] + 1 /\ pattern[i] \in {Star, path[cut[i]]}

-----------------------------------------------------------------------------
(* Correctness.                                                            *)

\* A line is malformed, or the braces up to it do not match.
Malformed(i) ==
    \/ src[i].is = "open" /\ ~Parses(src[i].pattern)
    \/ src[i].is = "rule" /\ ~(/\ src[i].marker \in DOMAIN Polarity
                             /\ src[i].kind # "unknown" /\ Parses(src[i].pattern))
    \/ Deep(1, i) < 0

\* "Prefix applies to nested rules": a file is read if and only if no line is
\* malformed, its braces match and it has rules, and nothing after the first
\* error can hide that; its rules then are its rule lines, in order, each under
\* the prefixes of the scopes that are open around it, however scopes nest and
\* follow each other.
ReadsWhatIsWritten ==
    /\ result # "reading" =>
         (result = "ok" <=> /\ RuleLines(Len(src)) # {} /\ Deep(1, Len(src)) = 0
                            /\ \A i \in DOMAIN src : ~Malformed(i))
    /\ result = "ok" =>
         /\ Len(rules) = Cardinality(RuleLines(Len(src)))
         /\ \A i \in RuleLines(Len(src)) :
              rules[Cardinality(RuleLines(i))] =
                  [polarity |-> Polarity[src[i].marker], pattern |-> Scoped[i], kind |-> src[i].kind]

\* "A trailing ** matches one or more segments, a ** in the middle zero or
\* more", for several of them in a row and for those a scope's prefix brings.
GlobIsCovering ==
    result = "ok" => \A i \in DOMAIN rules, path \in Paths :
        Glob(rules[i].pattern, path) <=> Covers(rules[i].pattern, path)
=============================================================================
