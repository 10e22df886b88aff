------------------------------ MODULE RulesProofs ------------------------------
(***************************************************************************)
(* What is proved about Rules: a rules file is read as it is written, for  *)
(* every file, and Glob is the covering of a path by a pattern, for every  *)
(* pattern that is read and every path.                                    *)
(***************************************************************************)
EXTENDS Rules, FiniteSetTheorems, WellFoundedInduction, TLAPS

-----------------------------------------------------------------------------
(* The inductive invariant.                                                *)

RuleRecords == [polarity : {"Keep", "Drop", "DropCascade"}, pattern : Seq(Segments),
                kind : Kinds \cup {"any"}]

TypeOK ==
    /\ src \in Sources
    /\ at \in 1..Len(src) + 1
    /\ scopes \in Seq(Seq(Segments))
    /\ rules \in Seq(RuleRecords)

\* Nothing that was read is malformed.
WellFormedSoFar == \A i \in 1..at-1 : ~Malformed(i)

\* The stack holds the open scopes around the line that is read, the innermost
\* at the end: a scope's place from the end is the number of braces it waits for.
StackAt(i, stack) ==
    /\ Len(stack) = Deep(1, i - 1)
    /\ \A j \in Around(i) :
         /\ Deep(j, i - 1) \in 1..Len(stack)
         /\ stack[Len(stack) + 1 - Deep(j, i - 1)] = Scoped[j]
    /\ \A d \in 1..Len(stack) : \E j \in Around(i) : Deep(j, i - 1) = d
    /\ \A j, k \in Around(i) : j < k => Deep(j, i - 1) > Deep(k, i - 1)

ScopesAreAround == StackAt(at, scopes)

\* What a rule line means.
Meant(i) == [polarity |-> Polarity[src[i].marker], pattern |-> Scoped[i], kind |-> src[i].kind]

ReadTo(n, list) ==
    /\ Len(list) = Cardinality(RuleLines(n))
    /\ \A i \in RuleLines(n) : list[Cardinality(RuleLines(i))] = Meant(i)

RulesAreLines == ReadTo(at - 1, rules)

\* How the reading may end.
EndsRight ==
    /\ result = "ok" => at = Len(src) + 1 /\ scopes = <<>> /\ rules # <<>>
    /\ result \notin {"reading", "ok"} =>
         \/ \E i \in DOMAIN src : Malformed(i)
         \/ Deep(1, Len(src)) # 0
         \/ RuleLines(Len(src)) = {}

IInv == TypeOK /\ WellFormedSoFar /\ ScopesAreAround /\ RulesAreLines /\ EndsRight

-----------------------------------------------------------------------------
(* Least and greatest elements, and counting.                              *)

LEMMA LeastIn ==
    ASSUME NEW S \in SUBSET Nat, S # {}
    PROVE \E x \in S : \A y \in S : x <= y
<1>1. IsWellFoundedOn(OpToRel(<, Nat), Nat)
  BY NatLessThanWellFounded
<1>2. PICK x \in S : \A y \in S : <<y, x>> \notin OpToRel(<, Nat)
  BY <1>1, WFMin
<1>3. \A y \in S : x <= y
  <2> SUFFICES ASSUME NEW y \in S, y < x PROVE FALSE
    OBVIOUS
  <2>1. <<y, x>> \in {ss \in Nat \X Nat : ss[1] < ss[2]}
    OBVIOUS
  <2> QED
    BY <1>2, <2>1 DEF OpToRel
<1> QED
  BY <1>3

LEMMA MaxIn ==
    ASSUME NEW n \in Nat, NEW S \in SUBSET (1..n), S # {}
    PROVE Max(S) \in S /\ \A y \in S : y <= Max(S)
<1> DEFINE D == {n - i : i \in S}
<1>1. D \in SUBSET Nat /\ D # {}
  <2>1. \A i \in S : n - i \in Nat
    OBVIOUS
  <2> QED
    BY <2>1
<1>2. PICK d \in D : \A e \in D : d <= e
  BY <1>1, LeastIn
<1>3. PICK x \in S : d = n - x
  OBVIOUS
<1>4. \A y \in S : x >= y
  <2> TAKE y \in S
  <2>1. n - y \in D
    OBVIOUS
  <2> QED
    BY <1>2, <1>3, <2>1
<1> HIDE DEF D
<1> QED
  BY <1>4 DEF Max

LEMMA FrontIs ==
    ASSUME NEW S, NEW s \in Seq(S), s # <<>>
    PROVE /\ Len(s) \in Nat /\ Len(s) >= 1
          /\ Front(s) \in Seq(S) /\ Len(Front(s)) = Len(s) - 1
          /\ \A k \in 1..(Len(s) - 1) : Front(s)[k] = s[k]
<1>1. Len(s) \in Nat /\ Len(s) >= 1
  OBVIOUS
<1>2. SubSeq(s, 1, Len(s) - 1) \in Seq(S)
  BY <1>1
<1>3. Len(SubSeq(s, 1, Len(s) - 1)) = Len(s) - 1
  BY <1>1, SMTT(30)
<1>4. ASSUME NEW k \in 1..(Len(s) - 1) PROVE SubSeq(s, 1, Len(s) - 1)[k] = s[k]
  BY <1>1
<1> QED
  BY <1>1, <1>2, <1>3, <1>4 DEF Front

\* The lines of one shape from i to j, with one line more.
LEMMA CountStep ==
    ASSUME NEW i \in Nat, NEW j \in Nat, i <= j + 1, NEW s
    PROVE /\ Count(i, j, s) \in Nat
          /\ Count(i, j + 1, s) = Count(i, j, s) + (IF src[j+1].is = s THEN 1 ELSE 0)
<1> DEFINE C == {k \in i..j : src[k].is = s}
           D == {k \in i..(j+1) : src[k].is = s}
<1>1. IsFiniteSet(C) /\ Cardinality(C) \in Nat
  <2>1. IsFiniteSet(i..j)
    BY FS_Interval
  <2>2. C \subseteq i..j
    OBVIOUS
  <2>3. IsFiniteSet(C)
    BY <2>1, <2>2, FS_Subset
  <2> HIDE DEF C
  <2> QED
    BY <2>3, FS_CardinalityType
<1>2. j + 1 \notin C
  OBVIOUS
<1>3. D = IF src[j+1].is = s THEN C \cup {j + 1} ELSE C
  <2>1. i..(j+1) = (i..j) \cup {j + 1}
    OBVIOUS
  <2> QED
    BY <2>1
<1>4. Cardinality(C \cup {j + 1}) = Cardinality(C) + 1
  <2> HIDE DEF C
  <2> QED
    BY <1>1, <1>2, FS_AddElement
<1>5. Cardinality(D) = Cardinality(C) + (IF src[j+1].is = s THEN 1 ELSE 0)
  <2> HIDE DEF C, D
  <2> QED
    BY <1>1, <1>3, <1>4
<1> QED
  BY <1>1, <1>5 DEF Count

LEMMA CountNone ==
    ASSUME NEW i \in Nat, NEW s
    PROVE Count(i + 1, i, s) = 0
<1>1. {k \in (i+1)..i : src[k].is = s} = {}
  OBVIOUS
<1> QED
  BY <1>1, FS_EmptySet DEF Count

-----------------------------------------------------------------------------
(* Lines and depths.                                                       *)

\* What a line of a file is.
LEMMA LineIs ==
    ASSUME src \in Sources, NEW i \in DOMAIN src
    PROVE /\ src[i].is \in {"blank", "close", "open", "rule"}
          /\ src[i].is \in {"open", "rule"} => src[i].pattern \in Seq(Segments)
          /\ src[i].is = "rule" => src[i].kind \in Kinds \cup {"any", "unknown"}
<1>1. src \in Seq(Lines)
  BY SourcesAssumption
<1>2. src[i] \in Lines
  BY <1>1
<1> QED
  BY <1>2 DEF Lines

LEMMA SrcIs ==
    ASSUME src \in Sources
    PROVE Len(src) \in Nat /\ DOMAIN src = 1..Len(src) /\ src \in Seq(Lines)
  BY SourcesAssumption

\* A depth goes by one line.
LEMMA DeepStep ==
    ASSUME NEW i \in Nat, NEW j \in Nat, i <= j + 1
    PROVE /\ Deep(i, j) \in Int
          /\ src[j+1].is = "open" => Deep(i, j + 1) = Deep(i, j) + 1
          /\ src[j+1].is = "close" => Deep(i, j + 1) = Deep(i, j) - 1
          /\ src[j+1].is \notin {"open", "close"} => Deep(i, j + 1) = Deep(i, j)
<1>2. /\ Count(i, j, "open") \in Nat
      /\ Count(i, j + 1, "open") = Count(i, j, "open") + (IF src[j+1].is = "open" THEN 1 ELSE 0)
  BY CountStep
<1>3. /\ Count(i, j, "close") \in Nat
      /\ Count(i, j + 1, "close") = Count(i, j, "close") + (IF src[j+1].is = "close" THEN 1 ELSE 0)
  BY CountStep
<1> QED
  BY <1>2, <1>3 DEF Deep

LEMMA DeepNone ==
    ASSUME NEW i \in Nat
    PROVE Deep(i + 1, i) = 0
  BY CountNone DEF Deep

\* The scopes around the next line: those around this one, and this one if it
\* opens a scope, without the one that it closes.
LEMMA AroundStep ==
    ASSUME NEW i \in Nat \ {0}
    PROVE Around(i + 1) =
            {j \in Around(i) \cup {k \in {i} : src[k].is = "open"} : Deep(j, i) > 0}
<1>1. 1..i = (1..(i-1)) \cup {i}
  OBVIOUS
<1>2. \A j \in 1..(i-1) : j..i = (j..(i-1)) \cup {i}
  OBVIOUS
<1>3. i..i = {i}
  OBVIOUS
<1>4. (i + 1) - 1 = i
  OBVIOUS
<1>5. i \notin Around(i) /\ Around(i) \subseteq 1..(i-1)
  BY DEF Around
<1>6. \A j \in 1..(i-1) : j \in Around(i + 1) <=> j \in Around(i) /\ Deep(j, i) > 0
  BY <1>1, <1>2, <1>4 DEF Around
<1>7. i \in Around(i + 1) <=> src[i].is = "open" /\ Deep(i, i) > 0
  BY <1>1, <1>3, <1>4 DEF Around
<1>8. Around(i + 1) \subseteq (1..(i-1)) \cup {i}
  BY <1>1, <1>4 DEF Around
<1> QED
  BY <1>5, <1>6, <1>7, <1>8

LEMMA AroundNone == Around(1) = {}
  BY DEF Around

LEMMA AroundIn ==
    ASSUME NEW i \in Nat, NEW j \in Around(i)
    PROVE j \in 1..(i-1) /\ j \in Nat /\ j < i /\ src[j].is = "open"
  BY DEF Around

-----------------------------------------------------------------------------
(* The patterns under scopes.                                              *)

Prefixed == {j \in DOMAIN src : src[j].is \in {"open", "rule"}}

LEMMA ScopedIs ==
    ASSUME src \in Sources
    PROVE Scoped = [i \in Prefixed |->
            IF Around(i) = {} THEN src[i].pattern ELSE Scoped[Max(Around(i))] \o src[i].pattern]
<1> DEFINE Up(f, i) == IF Around(i) = {} THEN src[i].pattern ELSE f[Max(Around(i))] \o src[i].pattern
           P(m) == {j \in Prefixed : j <= m}
           Good(f, m) == f = [i \in P(m) |-> Up(f, i)]
           N == Len(src)
           T == {m \in 0..N : ~ \E f : Good(f, m)}
<1>1. N \in Nat /\ DOMAIN src = 1..N
  BY SrcIs
<1>2. \A i \in Prefixed : i \in 1..N /\ i \in Nat
  BY <1>1 DEF Prefixed
<1>3. \A i \in Prefixed : Around(i) # {} =>
         Max(Around(i)) \in Prefixed /\ Max(Around(i)) < i
  <2>1. ASSUME NEW i \in Prefixed, Around(i) # {}
        PROVE Max(Around(i)) \in Prefixed /\ Max(Around(i)) < i
    <3>1. i \in 1..N
      BY <1>2, <2>1
    <3>2. Around(i) \in SUBSET (1..(i-1)) /\ i - 1 \in Nat
      BY <1>1, <3>1 DEF Around
    <3>3. Max(Around(i)) \in Around(i)
      BY <2>1, <3>2, MaxIn
    <3>4. Max(Around(i)) \in 1..(i-1) /\ src[Max(Around(i))].is = "open"
      BY <3>3, <3>2 DEF Around
    <3>5. Max(Around(i)) \in 1..N
      BY <1>1, <3>1, <3>4
    <3> QED
      BY <1>1, <3>1, <3>4, <3>5 DEF Prefixed
  <2> QED
    BY <2>1
<1>4. T = {}
  <2> SUFFICES ASSUME T # {} PROVE FALSE
    OBVIOUS
  <2>0. T \in SUBSET Nat
    <3> HIDE DEF Good
    <3> QED
      BY <1>1
  <2> HIDE DEF T
  <2>1. PICK m \in T : \A k \in T : m <= k
    BY <2>0, LeastIn
  <2>2. m \in 0..N /\ ~ \E f : Good(f, m)
    BY DEF T
  <2>3. m # 0
    <3>1. P(0) = {}
      BY <1>1, <1>2
    <3>2. Good([i \in P(0) |-> Up(<<>>, i)], 0)
      <4> HIDE DEF Up, P
      <4> QED
        BY <3>1
    <3> QED
      BY <2>2, <3>2
  <2>4. m - 1 \in 0..N /\ m - 1 \notin T /\ m \in Nat
    BY <1>1, <2>1, <2>2, <2>3
  <2>5. PICK f : Good(f, m - 1)
    BY <2>4 DEF T
  <2> DEFINE g == [i \in P(m) |-> Up(f, i)]
  <2>6. \A i \in P(m) : i \in Prefixed /\ (Around(i) # {} => Max(Around(i)) \in P(m - 1))
    <3>1. ASSUME NEW i \in P(m), Around(i) # {} PROVE Max(Around(i)) \in P(m - 1)
      <4>1. i \in Prefixed /\ i <= m
        OBVIOUS
      <4>2. Max(Around(i)) \in Prefixed /\ Max(Around(i)) < i
        BY <1>3, <3>1, <4>1
      <4>3. Max(Around(i)) \in Nat /\ i \in Nat
        BY <1>2, <4>1, <4>2
      <4>4. Max(Around(i)) <= m - 1
        BY <2>4, <4>1, <4>2, <4>3
      <4> QED
        BY <4>2, <4>4
    <3> QED
      BY <3>1
  <2>7. \A i \in P(m - 1) : g[i] = f[i]
    <3>1. \A i \in P(m) : g[i] = Up(f, i)
      OBVIOUS
    <3>2. \A i \in P(m - 1) : f[i] = Up(f, i)
      <4> HIDE DEF P, Up
      <4> QED
        BY <2>5
    <3>3. \A i \in P(m - 1) : i \in P(m)
      BY <1>2, <2>4
    <3> HIDE DEF g, Up, P
    <3> QED
      BY <3>1, <3>2, <3>3
  <2>8. \A i \in P(m) : Up(f, i) = Up(g, i)
    <3> HIDE DEF g, P
    <3> QED
      BY <2>6, <2>7
  <2>9. Good(g, m)
    <3> HIDE DEF P, Up
    <3> QED
      BY <2>8
  <2> HIDE DEF g, Good
  <2> QED
    BY <2>2, <2>9
<1>5. PICK f : Good(f, N)
  <2>1. \A k \in 0..N : k \notin T => \E f : Good(f, k)
    OBVIOUS
  <2>2. N \in 0..N
    BY <1>1
  <2> HIDE DEF T, Good
  <2> QED
    BY <1>4, <2>1, <2>2
<1>6. P(N) = Prefixed
  BY <1>1, <1>2
<1>7. f = [i \in Prefixed |-> Up(f, i)]
  <2> HIDE DEF Up, P
  <2> QED
    BY <1>5, <1>6
<1>8. Scoped = CHOOSE h : h = [i \in Prefixed |-> Up(h, i)]
  BY DEF Scoped, Prefixed
<1> HIDE DEF Up, P, Good, T
<1>9. Scoped = [i \in Prefixed |-> Up(Scoped, i)]
  BY <1>7, <1>8
<1> QED
  BY <1>9 DEF Up

\* The scope that is innermost around a line gives its prefix.
LEMMA ScopedOf ==
    ASSUME src \in Sources, NEW i \in Prefixed
    PROVE /\ Around(i) = {} => Scoped[i] = src[i].pattern
          /\ Around(i) # {} => Scoped[i] = Scoped[Max(Around(i))] \o src[i].pattern
<1> DEFINE Up(j) == IF Around(j) = {} THEN src[j].pattern ELSE Scoped[Max(Around(j))] \o src[j].pattern
<1>1. Scoped = [j \in Prefixed |-> Up(j)]
  BY ScopedIs
<1>2. Scoped[i] = Up(i)
  <2> HIDE DEF Up
  <2> QED
    BY <1>1
<1> QED
  BY <1>2

\* Nothing that is said of the text alone changes while it is read.
LEMMA SameText ==
    ASSUME src' = src
    PROVE /\ \A i, j : Deep(i, j)' = Deep(i, j)
          /\ \A i : Malformed(i)' <=> Malformed(i)
          /\ \A n : RuleLines(n)' = RuleLines(n)
          /\ \A i, stack : StackAt(i, stack)' <=> StackAt(i, stack)
          /\ \A n, list : ReadTo(n, list)' <=> ReadTo(n, list)
<1>1. \A i, j : Deep(i, j)' = Deep(i, j)
  BY DEF Deep, Count
<1>2. \A i : Around(i)' = Around(i)
  BY <1>1 DEF Around
<1>3. Scoped' = Scoped
  BY <1>2 DEF Scoped
<1>4. \A i : Malformed(i)' <=> Malformed(i)
  BY <1>1 DEF Malformed
<1>5. \A n : RuleLines(n)' = RuleLines(n)
  BY DEF RuleLines
<1>6. \A i, stack : StackAt(i, stack)' <=> StackAt(i, stack)
  BY <1>1, <1>2, <1>3 DEF StackAt
<1>7. \A i : Meant(i)' = Meant(i)
  BY <1>3 DEF Meant
<1>8. \A n, list : ReadTo(n, list)' <=> ReadTo(n, list)
  BY <1>5, <1>7 DEF ReadTo
<1> QED
  BY <1>1, <1>4, <1>5, <1>6, <1>8

-----------------------------------------------------------------------------
(* The stack.                                                              *)

\* The prefix on the stack is the one of the scopes around the line.
LEMMA PrefixIs ==
    ASSUME TypeOK, ScopesAreAround, Reading, Line.is \in {"open", "rule"}
    PROVE Prefix \o Line.pattern = Scoped[at] /\ Prefix \in Seq(Segments)
            /\ Line.pattern \in Seq(Segments) /\ Prefix \o Line.pattern \in Seq(Segments)
<1>1. at \in 1..Len(src) /\ Len(src) \in Nat /\ DOMAIN src = 1..Len(src)
  BY SrcIs DEF TypeOK, Reading
<1>2. at \in Prefixed
  BY <1>1 DEF Prefixed, Line
<1>3. Line.pattern \in Seq(Segments) /\ Line.pattern = src[at].pattern
  BY <1>1, LineIs DEF TypeOK, Line
<1>4. scopes \in Seq(Seq(Segments)) /\ src \in Sources
  BY DEF TypeOK
<1>5. CASE scopes = <<>>
  <2>1. Around(at) = {}
    <3>1. Len(scopes) = 0
      BY <1>5
    <3>2. \A j \in Around(at) : Deep(j, at - 1) \in 1..0
      BY <3>1 DEF ScopesAreAround, StackAt
    <3> QED
      BY <3>2
  <2>2. Prefix = <<>> /\ <<>> \o Line.pattern = Line.pattern
    BY <1>3, <1>5 DEF Prefix
  <2>3. Prefix \in Seq(Segments)
    BY <2>2
  <2>4. Scoped[at] = Line.pattern
    BY <1>2, <1>3, <1>4, <2>1, ScopedOf
  <2> QED
    BY <1>3, <2>2, <2>3, <2>4
<1>6. CASE scopes # <<>>
  <2>1. Len(scopes) \in Nat /\ Len(scopes) >= 1
    BY <1>4, <1>6
  <2>2. PICK j \in Around(at) : Deep(j, at - 1) = 1
    <3>1. 1 \in 1..Len(scopes)
      BY <2>1
    <3> QED
      BY <3>1 DEF ScopesAreAround, StackAt
  <2>3. scopes[Len(scopes)] = Scoped[j]
    <3>1. scopes[Len(scopes) + 1 - 1] = Scoped[j]
      BY <2>2 DEF ScopesAreAround, StackAt
    <3> QED
      BY <2>1, <3>1
  <2>4. j = Max(Around(at))
    <3>1. Around(at) \in SUBSET (1..(at-1)) /\ at - 1 \in Nat
      BY <1>1 DEF Around
    <3>2. Max(Around(at)) \in Around(at) /\ j <= Max(Around(at))
      BY <2>2, <3>1, MaxIn
    <3>3. Deep(Max(Around(at)), at - 1) \in 1..Len(scopes)
      BY <3>2 DEF ScopesAreAround, StackAt
    <3>4. j < Max(Around(at)) => Deep(j, at - 1) > Deep(Max(Around(at)), at - 1)
      BY <3>2 DEF ScopesAreAround, StackAt
    <3>5. j \in Nat /\ Max(Around(at)) \in Nat
      BY <3>1, <3>2
    <3> QED
      BY <2>1, <2>2, <3>2, <3>3, <3>4, <3>5
  <2>5. Prefix = Scoped[j]
    BY <1>6, <2>3 DEF Prefix, Last
  <2>6. Prefix \in Seq(Segments)
    BY <1>4, <1>6, <2>1 DEF Prefix, Last
  <2>7. Scoped[at] = Scoped[Max(Around(at))] \o src[at].pattern
    BY <1>2, <1>4, <2>2, ScopedOf
  <2> QED
    BY <1>3, <2>4, <2>5, <2>6, <2>7
<1> QED
  BY <1>5, <1>6

\* The depths and the scopes around, at the line after a line.
LEMMA DepthsNext ==
    ASSUME TypeOK, Reading
    PROVE /\ at \in Nat \ {0} /\ at - 1 \in Nat /\ (at + 1) - 1 = at
          /\ \A j \in Around(at) : j \in Nat /\ j < at /\ j >= 1
          /\ \A j \in Nat : j <= at =>
               /\ Deep(j, at - 1) \in Int
               /\ Line.is = "open" => Deep(j, at) = Deep(j, at - 1) + 1
               /\ Line.is = "close" => Deep(j, at) = Deep(j, at - 1) - 1
               /\ Line.is \notin {"open", "close"} => Deep(j, at) = Deep(j, at - 1)
<1>1. at \in 1..Len(src) /\ at \in Nat \ {0}
  BY SrcIs DEF TypeOK, Reading
<1>2. at - 1 \in Nat /\ (at - 1) + 1 = at
  BY <1>1
<1>3. \A j \in Around(at) : j \in Nat /\ j < at /\ j >= 1
  BY <1>1, AroundIn
<1> QED
  BY <1>1, <1>2, <1>3, DeepStep DEF Line

\* A line that is neither a scope nor a brace leaves the stack as it is.
LEMMA StackFlat ==
    ASSUME TypeOK, ScopesAreAround, Reading, Line.is \in {"blank", "rule"}
    PROVE StackAt(at + 1, scopes)
<1>1. Line.is \notin {"open", "close"}
  OBVIOUS
<1>2. \A j \in Nat : j <= at => Deep(j, at) = Deep(j, at - 1)
  BY <1>1, DepthsNext
<1>3. \A j \in Around(at) : Deep(j, at) = Deep(j, at - 1)
  BY <1>2, DepthsNext
<1>4. \A j \in Around(at) : Deep(j, at) > 0
  BY <1>3 DEF ScopesAreAround, StackAt
<1>5. Around(at + 1) = Around(at)
  BY <1>1, <1>4, AroundStep, DepthsNext DEF Line
<1>6. Deep(1, at) = Deep(1, at - 1) /\ (at + 1) - 1 = at
  BY <1>2, DepthsNext
<1> QED
  BY <1>3, <1>5, <1>6 DEF ScopesAreAround, StackAt

\* A scope is the innermost one for the lines in it.
LEMMA StackOpen ==
    ASSUME TypeOK, ScopesAreAround, Reading, Line.is = "open"
    PROVE StackAt(at + 1, Append(scopes, Prefix \o Line.pattern))
<1> DEFINE stack == Append(scopes, Scoped[at])
<1>1. Prefix \o Line.pattern = Scoped[at]
  BY PrefixIs
<1>2. scopes \in Seq(Seq(Segments)) /\ Scoped[at] \in Seq(Segments)
  BY <1>1, PrefixIs DEF TypeOK
<1>3. /\ Len(scopes) \in Nat /\ Len(stack) = Len(scopes) + 1
      /\ stack[Len(scopes) + 1] = Scoped[at]
      /\ \A k \in 1..Len(scopes) : stack[k] = scopes[k]
  BY <1>2
<1>4. at \in Nat \ {0} /\ at - 1 \in Nat /\ (at + 1) - 1 = at
  BY DepthsNext
<1>5. \A j \in Nat : j <= at => Deep(j, at - 1) \in Int /\ Deep(j, at) = Deep(j, at - 1) + 1
  BY DepthsNext
<1>6. Deep(at, at) = 1
  <2>1. Deep((at - 1) + 1, at - 1) = 0
    BY <1>4, DeepNone
  <2>2. (at - 1) + 1 = at /\ at <= at /\ at \in Nat
    BY <1>4
  <2> QED
    BY <1>5, <2>1, <2>2
<1>7. \A j \in Around(at) : /\ j \in Nat /\ j < at
                           /\ Deep(j, at - 1) \in 1..Len(scopes)
                           /\ Deep(j, at) = Deep(j, at - 1) + 1
                           /\ scopes[Len(scopes) + 1 - Deep(j, at - 1)] = Scoped[j]
  <2>1. \A j \in Around(at) : j \in Nat /\ j < at
    BY DepthsNext
  <2>2. \A j \in Around(at) : Deep(j, at) = Deep(j, at - 1) + 1
    BY <1>4, <1>5, <2>1
  <2> QED
    BY <2>1, <2>2 DEF ScopesAreAround, StackAt
<1>8. Around(at + 1) = Around(at) \cup {at}
  <2>1. \A j \in Around(at) \cup {at} : Deep(j, at) > 0
    BY <1>3, <1>6, <1>7
  <2> QED
    BY <1>4, <2>1, AroundStep DEF Line
<1> HIDE DEF stack
<1>9. Len(stack) = Deep(1, (at + 1) - 1)
  <2>1. Deep(1, at) = Deep(1, at - 1) + 1
    BY <1>4, <1>5
  <2> QED
    BY <1>3, <1>4, <2>1 DEF ScopesAreAround, StackAt
<1>10. \A j \in Around(at + 1) :
         /\ Deep(j, at) \in 1..Len(stack)
         /\ stack[Len(stack) + 1 - Deep(j, at)] = Scoped[j]
  <2>1. CASE at \in Around(at + 1)
    <3>1. Deep(at, at) \in 1..Len(stack) /\ stack[Len(stack) + 1 - Deep(at, at)] = Scoped[at]
      BY <1>3, <1>6
    <3>2. ASSUME NEW j \in Around(at)
          PROVE Deep(j, at) \in 1..Len(stack) /\ stack[Len(stack) + 1 - Deep(j, at)] = Scoped[j]
      <4>1. Len(stack) + 1 - Deep(j, at) = Len(scopes) + 1 - Deep(j, at - 1)
        BY <1>3, <1>7, <3>2
      <4>2. Len(scopes) + 1 - Deep(j, at - 1) \in 1..Len(scopes)
        BY <1>3, <1>7, <3>2
      <4>3. Deep(j, at) \in 1..Len(stack)
        BY <1>3, <1>7, <3>2
      <4> QED
        BY <1>3, <1>7, <3>2, <4>1, <4>2, <4>3
    <3> QED
      BY <1>8, <3>1, <3>2
  <2> QED
    BY <1>8, <2>1
<1>11. \A d \in 1..Len(stack) : \E j \in Around(at + 1) : Deep(j, at) = d
  <2> SUFFICES ASSUME NEW d \in 1..Len(stack) PROVE \E j \in Around(at + 1) : Deep(j, at) = d
    OBVIOUS
  <2>1. CASE d = 1
    BY <1>6, <1>8, <2>1
  <2>2. CASE d # 1
    <3>1. d - 1 \in 1..Len(scopes) /\ d \in Int
      BY <1>3, <2>2
    <3>2. PICK j \in Around(at) : Deep(j, at - 1) = d - 1
      BY <3>1 DEF ScopesAreAround, StackAt
    <3>3. Deep(j, at) = d
      BY <1>7, <3>1, <3>2
    <3> QED
      BY <1>8, <3>3
  <2> QED
    BY <2>1, <2>2
<1>12. \A j, k \in Around(at + 1) : j < k => Deep(j, at) > Deep(k, at)
  <2> SUFFICES ASSUME NEW j \in Around(at + 1), NEW k \in Around(at + 1), j < k
               PROVE Deep(j, at) > Deep(k, at)
    OBVIOUS
  <2>1. j \in Around(at)
    BY <1>4, <1>7, <1>8
  <2>2. CASE k = at
    BY <1>3, <1>6, <1>7, <2>1, <2>2
  <2>3. CASE k # at
    <3>1. k \in Around(at)
      BY <1>8, <2>3
    <3>2. Deep(j, at - 1) > Deep(k, at - 1)
      BY <2>1, <3>1 DEF ScopesAreAround, StackAt
    <3> QED
      BY <1>3, <1>7, <2>1, <3>1, <3>2
  <2> QED
    BY <2>2, <2>3
<1>13. StackAt(at + 1, stack)
  BY <1>4, <1>9, <1>10, <1>11, <1>12 DEF StackAt
<1> QED
  BY <1>1, <1>13 DEF stack

\* A brace closes the innermost scope and no other.
LEMMA StackClose ==
    ASSUME TypeOK, ScopesAreAround, Reading, Line.is = "close", scopes # <<>>
    PROVE StackAt(at + 1, Front(scopes)) /\ Front(scopes) \in Seq(Seq(Segments))
<1> DEFINE stack == Front(scopes)
<1>1. /\ Len(scopes) \in Nat /\ Len(scopes) >= 1
      /\ stack \in Seq(Seq(Segments)) /\ Len(stack) = Len(scopes) - 1
      /\ \A k \in 1..(Len(scopes) - 1) : stack[k] = scopes[k]
  <2> USE DEF TypeOK
  <2>1. scopes \in Seq(Seq(Segments))
    OBVIOUS
  <2> QED
    BY <2>1, FrontIs
<1>2. at \in Nat \ {0} /\ at - 1 \in Nat /\ (at + 1) - 1 = at
  BY DepthsNext
<1>3. \A j \in Nat : j <= at => Deep(j, at - 1) \in Int /\ Deep(j, at) = Deep(j, at - 1) - 1
  BY DepthsNext
<1>4. \A j \in Around(at) : /\ j \in Nat /\ j < at
                           /\ Deep(j, at - 1) \in 1..Len(scopes)
                           /\ Deep(j, at) = Deep(j, at - 1) - 1
                           /\ scopes[Len(scopes) + 1 - Deep(j, at - 1)] = Scoped[j]
  <2>1. \A j \in Around(at) : j \in Nat /\ j < at
    BY DepthsNext
  <2>2. \A j \in Around(at) : Deep(j, at) = Deep(j, at - 1) - 1
    BY <1>2, <1>3, <2>1
  <2> QED
    BY <2>1, <2>2 DEF ScopesAreAround, StackAt
<1>5. \A j : j \in Around(at + 1) <=> j \in Around(at) /\ Deep(j, at - 1) >= 2
  <2>1. Around(at + 1) = {j \in Around(at) \cup {k \in {at} : src[k].is = "open"} : Deep(j, at) > 0}
    BY <1>2, AroundStep
  <2>2. src[at].is # "open"
    BY DEF Line
  <2>3. \A j \in Around(at) : Deep(j, at) > 0 <=> Deep(j, at - 1) >= 2
    BY <1>1, <1>4
  <2> QED
    BY <2>1, <2>2, <2>3
<1> HIDE DEF stack
<1>6. Len(stack) = Deep(1, at)
  <2>1. Deep(1, at) = Deep(1, at - 1) - 1
    BY <1>2, <1>3
  <2> QED
    BY <1>1, <2>1 DEF ScopesAreAround, StackAt
<1>7. ASSUME NEW j \in Around(at + 1)
      PROVE Deep(j, at) \in 1..Len(stack) /\ stack[Len(stack) + 1 - Deep(j, at)] = Scoped[j]
  <2>1. j \in Around(at) /\ Deep(j, at - 1) >= 2
    BY <1>5, <1>7
  <2>2. Len(stack) + 1 - Deep(j, at) = Len(scopes) + 1 - Deep(j, at - 1)
    BY <1>1, <1>4, <2>1
  <2>3. Len(scopes) + 1 - Deep(j, at - 1) \in 1..(Len(scopes) - 1)
    BY <1>1, <1>4, <2>1
  <2>4. Deep(j, at) \in 1..Len(stack)
    BY <1>1, <1>4, <2>1
  <2> QED
    BY <1>1, <1>4, <2>1, <2>2, <2>3, <2>4
<1>8. ASSUME NEW d \in 1..Len(stack)
      PROVE \E j \in Around(at + 1) : Deep(j, at) = d
  <2>1. d + 1 \in 1..Len(scopes) /\ d \in Nat /\ d >= 1
    BY <1>1, <1>8
  <2>2. PICK j \in Around(at) : Deep(j, at - 1) = d + 1
    BY <2>1 DEF ScopesAreAround, StackAt
  <2>3. j \in Around(at + 1) /\ Deep(j, at) = d
    BY <1>4, <1>5, <2>1, <2>2
  <2> QED
    BY <2>3
<1>9. ASSUME NEW j \in Around(at + 1), NEW k \in Around(at + 1), j < k
      PROVE Deep(j, at) > Deep(k, at)
  <2>1. j \in Around(at) /\ k \in Around(at)
    BY <1>5, <1>9
  <2>2. Deep(j, at - 1) > Deep(k, at - 1)
    BY <1>9, <2>1 DEF ScopesAreAround, StackAt
  <2> QED
    BY <1>1, <1>4, <2>1, <2>2
<1>10. StackAt(at + 1, stack)
  BY <1>2, <1>6, <1>7, <1>8, <1>9 DEF StackAt
<1> QED
  BY <1>1, <1>10 DEF stack

-----------------------------------------------------------------------------
(* The rules.                                                              *)

LEMMA RuleLinesAre ==
    ASSUME NEW n \in Nat
    PROVE /\ IsFiniteSet(RuleLines(n)) /\ Cardinality(RuleLines(n)) \in Nat
          /\ Cardinality(RuleLines(n)) = 0 <=> RuleLines(n) = {}
          /\ \A i \in RuleLines(n) :
               /\ i \in 1..n
               /\ Cardinality(RuleLines(i)) \in 1..Cardinality(RuleLines(n))
<1>1. \A m \in Nat : IsFiniteSet(RuleLines(m)) /\ Cardinality(RuleLines(m)) \in Nat
                       /\ (Cardinality(RuleLines(m)) = 0 <=> RuleLines(m) = {})
  <2> TAKE m \in Nat
  <2>1. IsFiniteSet(1..m)
    BY FS_Interval
  <2>2. RuleLines(m) \subseteq 1..m
    BY DEF RuleLines
  <2>3. IsFiniteSet(RuleLines(m))
    BY <2>1, <2>2, FS_Subset
  <2> QED
    BY <2>3, FS_CardinalityType, FS_EmptySet
<1>2. ASSUME NEW i \in RuleLines(n)
      PROVE i \in 1..n /\ Cardinality(RuleLines(i)) \in 1..Cardinality(RuleLines(n))
  <2>1. i \in 1..n /\ i \in Nat
    BY DEF RuleLines
  <2>2. RuleLines(i) \subseteq RuleLines(n) /\ i \in RuleLines(i)
    BY <2>1 DEF RuleLines
  <2>3. Cardinality(RuleLines(i)) <= Cardinality(RuleLines(n))
    BY <1>1, <2>2, FS_Subset
  <2>4. Cardinality(RuleLines(i)) # 0
    BY <1>1, <2>1, <2>2
  <2> QED
    BY <1>1, <2>1, <2>3, <2>4
<1> QED
  BY <1>1, <1>2

LEMMA RuleLinesStep ==
    ASSUME NEW n \in Nat \ {0}
    PROVE /\ src[n].is # "rule" => RuleLines(n) = RuleLines(n - 1)
          /\ src[n].is = "rule" =>
               /\ RuleLines(n) = RuleLines(n - 1) \cup {n}
               /\ Cardinality(RuleLines(n)) = Cardinality(RuleLines(n - 1)) + 1
<1>1. 1..n = (1..(n - 1)) \cup {n} /\ n \notin 1..(n - 1) /\ n - 1 \in Nat
  OBVIOUS
<1>2. src[n].is # "rule" => RuleLines(n) = RuleLines(n - 1)
  BY <1>1 DEF RuleLines
<1>3. src[n].is = "rule" => RuleLines(n) = RuleLines(n - 1) \cup {n}
  BY <1>1 DEF RuleLines
<1>4. n \notin RuleLines(n - 1)
  BY <1>1 DEF RuleLines
<1>5. Cardinality(RuleLines(n - 1) \cup {n}) = Cardinality(RuleLines(n - 1)) + 1
  BY <1>1, <1>4, RuleLinesAre, FS_AddElement
<1> QED
  BY <1>2, <1>3, <1>5

LEMMA ReadOver ==
    ASSUME TypeOK, RulesAreLines, Reading, Line.is # "rule"
    PROVE ReadTo(at, rules)
<1>1. at \in Nat \ {0}
  BY DepthsNext
<1>2. RuleLines(at) = RuleLines(at - 1)
  BY <1>1, RuleLinesStep DEF Line
<1> QED
  BY <1>2 DEF RulesAreLines, ReadTo

LEMMA ReadOne ==
    ASSUME TypeOK, ScopesAreAround, RulesAreLines, Reading, Line.is = "rule"
    PROVE ReadTo(at, Append(rules, [polarity |-> Polarity[Line.marker],
                                    pattern |-> Prefix \o Line.pattern, kind |-> Line.kind]))
<1> DEFINE list == Append(rules, Meant(at))
<1>1. Meant(at) = [polarity |-> Polarity[Line.marker],
                   pattern |-> Prefix \o Line.pattern, kind |-> Line.kind]
  <2>1. Prefix \o Line.pattern = Scoped[at]
    BY PrefixIs
  <2> QED
    BY <2>1 DEF Meant, Line
<1>2. PICK S : rules \in Seq(S)
  BY DEF TypeOK
<1>3. /\ Len(rules) \in Nat /\ Len(list) = Len(rules) + 1
      /\ list[Len(rules) + 1] = Meant(at)
      /\ \A k \in 1..Len(rules) : list[k] = rules[k]
  <2>1. rules \in Seq(S \cup {Meant(at)})
    BY <1>2
  <2> QED
    BY <2>1
<1>4. at \in Nat \ {0} /\ at - 1 \in Nat
  BY DepthsNext
<1>5. /\ RuleLines(at) = RuleLines(at - 1) \cup {at}
      /\ Cardinality(RuleLines(at)) = Cardinality(RuleLines(at - 1)) + 1
  BY <1>4, RuleLinesStep DEF Line
<1>6. Cardinality(RuleLines(at)) = Len(rules) + 1
  BY <1>5 DEF RulesAreLines, ReadTo
<1> HIDE DEF list
<1>7. ASSUME NEW i \in RuleLines(at - 1)
      PROVE list[Cardinality(RuleLines(i))] = Meant(i)
  <2>1. Cardinality(RuleLines(i)) \in 1..Len(rules)
    BY <1>4, RuleLinesAre DEF RulesAreLines, ReadTo
  <2>2. rules[Cardinality(RuleLines(i))] = Meant(i)
    BY DEF RulesAreLines, ReadTo
  <2> QED
    BY <1>3, <2>1, <2>2
<1>8. ReadTo(at, list)
  BY <1>3, <1>5, <1>6, <1>7 DEF ReadTo
<1> QED
  BY <1>1, <1>8 DEF list

-----------------------------------------------------------------------------
(* The steps.                                                              *)

LEMMA InitIInv == Init => IInv
<1> SUFFICES ASSUME Init PROVE IInv
  OBVIOUS
<1>1. src \in Sources /\ at = 1 /\ scopes = <<>> /\ rules = <<>> /\ result = "reading"
  BY DEF Init
<1>2. Len(src) \in Nat
  BY <1>1, SrcIs
<1>3. TypeOK
  BY <1>1, <1>2 DEF TypeOK
<1>4. at - 1 = 0 /\ 1..0 = {} /\ 0 + 1 = 1 /\ 1 - 1 = 0
  BY <1>1
<1>5. WellFormedSoFar
  BY <1>4 DEF WellFormedSoFar
<1>6. Deep(1, 0) = 0
  BY <1>4, DeepNone
<1>7. ScopesAreAround
  BY <1>1, <1>4, <1>6, AroundNone DEF ScopesAreAround, StackAt
<1>8. RuleLines(0) = {}
  BY DEF RuleLines
<1>9. RulesAreLines
  BY <1>1, <1>4, <1>8, FS_EmptySet DEF RulesAreLines, ReadTo
<1>10. EndsRight
  BY <1>1 DEF EndsRight
<1> QED
  BY <1>3, <1>5, <1>7, <1>9, <1>10 DEF IInv

\* A line that is not malformed adds to what was read without error.
LEMMA FineNext ==
    ASSUME IInv, Reading, ~Malformed(at)
    PROVE \A i \in 1..at : ~Malformed(i)
<1>1. at \in Nat \ {0} /\ 1..at = (1..(at - 1)) \cup {at}
  BY DepthsNext DEF IInv
<1> QED
  BY <1>1 DEF IInv, WellFormedSoFar

\* What holds of the parts after a line holds of the state after the step that
\* reads it.
LEMMA NextLine ==
    ASSUME TypeOK, TypeOK', Reading, src' = src, at' = at + 1, result' = "reading",
           \A i \in 1..at : ~Malformed(i),
           NEW stack, scopes' = stack, StackAt(at + 1, stack),
           NEW list, rules' = list, ReadTo(at, list)
    PROVE IInv'
<1>1. PICK a : a = at
  OBVIOUS
<1>2. at' = a + 1 /\ (a + 1) - 1 = a
  BY <1>1, DepthsNext
<1>3. WellFormedSoFar'
  BY <1>1, <1>2, SameText DEF WellFormedSoFar
<1>4. ScopesAreAround'
  BY <1>1, <1>2, SameText DEF ScopesAreAround
<1>5. RulesAreLines'
  BY <1>1, <1>2, SameText DEF RulesAreLines
<1>6. EndsRight'
  BY DEF EndsRight
<1> QED
  BY <1>3, <1>4, <1>5, <1>6 DEF IInv

LEMMA StepBlank == IInv /\ Blank => IInv'
<1> SUFFICES ASSUME IInv, Blank PROVE IInv'
  OBVIOUS
<1> USE DEF IInv
<1>1. /\ Reading /\ Line.is = "blank" /\ src' = src /\ at' = at + 1
      /\ scopes' = scopes /\ rules' = rules /\ result' = "reading"
  BY DEF Blank, Reading
<1>2. ~Malformed(at)
  <2>1. Deep(1, at) = Deep(1, at - 1)
    BY <1>1, DepthsNext
  <2>2. Deep(1, at - 1) >= 0
    BY DEF ScopesAreAround, StackAt, TypeOK
  <2>3. Deep(1, at - 1) \in Int
    BY <1>1, DepthsNext
  <2> QED
    BY <1>1, <2>1, <2>2, <2>3 DEF Malformed, Line
<1>3. \A i \in 1..at : ~Malformed(i)
  BY <1>1, <1>2, FineNext
<1>4. TypeOK'
  BY <1>1 DEF TypeOK, Reading
<1>5. StackAt(at + 1, scopes)
  BY <1>1, StackFlat
<1>6. ReadTo(at, rules)
  BY <1>1, ReadOver
<1>7. PICK stack, list : stack = scopes /\ list = rules
  OBVIOUS
<1> QED
  BY <1>1, <1>3, <1>4, <1>5, <1>6, <1>7, NextLine

LEMMA StepClose == IInv /\ Close => IInv'
<1> SUFFICES ASSUME IInv, Close PROVE IInv'
  OBVIOUS
<1> USE DEF IInv
<1>1. /\ Reading /\ Line.is = "close" /\ src' = src /\ at' = at + 1 /\ scopes # <<>>
      /\ scopes' = Front(scopes) /\ rules' = rules /\ result' = "reading"
  BY DEF Close, Reading
<1>2. ~Malformed(at)
  <2>1. Deep(1, at) = Deep(1, at - 1) - 1
    BY <1>1, DepthsNext
  <2>2. Deep(1, at - 1) >= 1
    BY <1>1 DEF ScopesAreAround, StackAt, TypeOK
  <2>3. Deep(1, at - 1) \in Int
    BY <1>1, DepthsNext
  <2> QED
    BY <1>1, <2>1, <2>2, <2>3 DEF Malformed, Line
<1>3. \A i \in 1..at : ~Malformed(i)
  BY <1>1, <1>2, FineNext
<1>4. StackAt(at + 1, Front(scopes)) /\ Front(scopes) \in Seq(Seq(Segments))
  BY <1>1, StackClose
<1>5. TypeOK'
  BY <1>1, <1>4 DEF TypeOK, Reading
<1>6. ReadTo(at, rules)
  BY <1>1, ReadOver
<1>7. PICK stack, list : stack = Front(scopes) /\ list = rules
  OBVIOUS
<1> QED
  BY <1>1, <1>3, <1>4, <1>5, <1>6, <1>7, NextLine

LEMMA StepOpen == IInv /\ Open => IInv'
<1> SUFFICES ASSUME IInv, Open PROVE IInv'
  OBVIOUS
<1> USE DEF IInv
<1>1. /\ Reading /\ Line.is = "open" /\ Parses(Line.pattern) /\ src' = src /\ at' = at + 1
      /\ scopes' = Append(scopes, Prefix \o Line.pattern) /\ rules' = rules /\ result' = "reading"
  BY DEF Open, Reading
<1>2. ~Malformed(at)
  <2>1. Deep(1, at) = Deep(1, at - 1) + 1
    BY <1>1, DepthsNext
  <2>2. Deep(1, at - 1) >= 0
    BY DEF ScopesAreAround, StackAt, TypeOK
  <2>3. Deep(1, at - 1) \in Int
    BY <1>1, DepthsNext
  <2> QED
    BY <1>1, <2>1, <2>2, <2>3 DEF Malformed, Line
<1>3. \A i \in 1..at : ~Malformed(i)
  BY <1>1, <1>2, FineNext
<1>4. StackAt(at + 1, Append(scopes, Prefix \o Line.pattern))
  BY <1>1, StackOpen
<1>5. Prefix \o Line.pattern \in Seq(Segments)
  BY <1>1, PrefixIs
<1>6. TypeOK'
  <2>1. Append(scopes, Prefix \o Line.pattern) \in Seq(Seq(Segments))
    BY <1>5 DEF TypeOK
  <2> QED
    BY <1>1, <2>1 DEF TypeOK, Reading
<1>7. ReadTo(at, rules)
  BY <1>1, ReadOver
<1>8. PICK stack, list : stack = Append(scopes, Prefix \o Line.pattern) /\ list = rules
  OBVIOUS
<1> QED
  BY <1>1, <1>3, <1>4, <1>6, <1>7, <1>8, NextLine

LEMMA PolarityIs ==
    ASSUME NEW m \in DOMAIN Polarity
    PROVE Polarity[m] \in {"Keep", "Drop", "DropCascade"}
  BY DEF Polarity

LEMMA StepAddRule == IInv /\ AddRule => IInv'
<1> SUFFICES ASSUME IInv, AddRule PROVE IInv'
  OBVIOUS
<1> USE DEF IInv
<1> DEFINE new == [polarity |-> Polarity[Line.marker], pattern |-> Prefix \o Line.pattern,
                   kind |-> Line.kind]
<1>1. /\ Reading /\ Line.is = "rule" /\ RuleParses /\ src' = src /\ at' = at + 1
      /\ scopes' = scopes /\ rules' = Append(rules, new) /\ result' = "reading"
  BY DEF AddRule, Reading
<1>2. ~Malformed(at)
  <2>1. Deep(1, at) = Deep(1, at - 1)
    BY <1>1, DepthsNext
  <2>2. Deep(1, at - 1) >= 0
    BY DEF ScopesAreAround, StackAt, TypeOK
  <2>3. Deep(1, at - 1) \in Int
    BY <1>1, DepthsNext
  <2> QED
    BY <1>1, <2>1, <2>2, <2>3 DEF Malformed, Line, RuleParses
<1>3. \A i \in 1..at : ~Malformed(i)
  BY <1>1, <1>2, FineNext
<1>4. new \in RuleRecords
  <2>1. at \in DOMAIN src
    BY <1>1, SrcIs DEF Reading, TypeOK
  <2>2. Line.kind \in Kinds \cup {"any"}
    BY <1>1, <2>1, LineIs DEF Line, RuleParses, TypeOK
  <2>3. Prefix \o Line.pattern \in Seq(Segments)
    BY <1>1, PrefixIs
  <2>4. Polarity[Line.marker] \in {"Keep", "Drop", "DropCascade"}
    BY <1>1, PolarityIs DEF RuleParses
  <2> QED
    BY <2>2, <2>3, <2>4 DEF RuleRecords
<1>5. StackAt(at + 1, scopes)
  BY <1>1, StackFlat
<1>6. ReadTo(at, Append(rules, new))
  BY <1>1, ReadOne
<1> HIDE DEF new
<1>7. TypeOK'
  <2>1. Append(rules, new) \in Seq(RuleRecords)
    BY <1>4 DEF TypeOK
  <2> QED
    BY <1>1, <2>1 DEF TypeOK, Reading
<1>8. PICK stack, list : stack = scopes /\ list = Append(rules, new)
  OBVIOUS
<1> QED
  BY <1>1, <1>3, <1>5, <1>6, <1>7, <1>8, NextLine

\* A step that ends the reading leaves the parts as they are.
LEMMA LastStep ==
    ASSUME IInv, UNCHANGED <<src, at, scopes, rules>>, EndsRight'
    PROVE IInv'
<1>1. src' = src /\ at' = at /\ scopes' = scopes /\ rules' = rules
  OBVIOUS
<1>2. TypeOK'
  BY <1>1 DEF IInv, TypeOK
<1>3. WellFormedSoFar'
  BY <1>1, SameText DEF IInv, WellFormedSoFar
<1>4. ScopesAreAround'
  BY <1>1, SameText DEF IInv, ScopesAreAround
<1>5. RulesAreLines'
  BY <1>1, SameText DEF IInv, RulesAreLines
<1> QED
  BY <1>2, <1>3, <1>4, <1>5 DEF IInv

LEMMA StepReject == IInv /\ Reject => IInv'
<1> SUFFICES ASSUME IInv, Reject PROVE IInv'
  OBVIOUS
<1>1. /\ Reading /\ src' = src /\ at' = at /\ scopes' = scopes /\ rules' = rules
      /\ result' \notin {"ok", "reading"}
  BY DEF Reject
<1>2. Malformed(at)
  <2>1. CASE Line.is = "close" /\ scopes = <<>>
    <3>1. Deep(1, at) = Deep(1, at - 1) - 1
      BY <1>1, <2>1, DepthsNext DEF IInv
    <3>2. Deep(1, at - 1) = 0
      BY <2>1 DEF IInv, ScopesAreAround, StackAt
    <3> QED
      BY <3>1, <3>2 DEF Malformed
  <2>2. CASE Line.is = "open" /\ ~Parses(Line.pattern)
    BY <2>2 DEF Malformed, Line
  <2>3. CASE Line.is = "rule" /\ ~RuleParses
    BY <2>3 DEF Malformed, Line, RuleParses
  <2> QED
    BY <2>1, <2>2, <2>3 DEF Reject
<1>3. EndsRight'
  <2>1. at \in DOMAIN src
    BY <1>1, SrcIs DEF Reading, IInv, TypeOK
  <2>2. \E i \in DOMAIN src' : Malformed(i)'
    <3>1. PICK a : a = at
      OBVIOUS
    <3>2. Malformed(a)'
      BY <1>1, <1>2, <3>1, SameText
    <3> QED
      BY <1>1, <2>1, <3>1, <3>2
  <2> QED
    BY <1>1, <2>2 DEF EndsRight
<1> QED
  BY <1>1, <1>3, LastStep

LEMMA StepFinish == IInv /\ Finish => IInv'
<1> SUFFICES ASSUME IInv, Finish PROVE IInv'
  OBVIOUS
<1>1. /\ result = "reading" /\ at > Len(src)
      /\ src' = src /\ at' = at /\ scopes' = scopes /\ rules' = rules
  BY DEF Finish
<1>2. at = Len(src) + 1 /\ Len(src) \in Nat /\ at - 1 = Len(src)
  BY <1>1, SrcIs DEF IInv, TypeOK
<1>3. EndsRight'
  <2>1. CASE scopes # <<>>
    <3>1. result' \notin {"ok", "reading"}
      BY <2>1 DEF Finish
    <3>2. Len(scopes) # 0
      BY <2>1 DEF IInv, TypeOK
    <3>3. Deep(1, Len(src)) # 0
      BY <1>2, <3>2 DEF IInv, ScopesAreAround, StackAt
    <3>4. PICK n : n = Len(src)
      OBVIOUS
    <3>5. Deep(1, Len(src))' # 0
      BY <1>1, <3>3, <3>4, SameText
    <3> QED
      BY <3>1, <3>5 DEF EndsRight
  <2>2. CASE scopes = <<>> /\ rules = <<>>
    <3>1. result' \notin {"ok", "reading"}
      BY <2>2 DEF Finish
    <3>2. Len(rules) = 0
      BY <2>2
    <3>3. RuleLines(Len(src)) = {}
      BY <1>2, <3>2, RuleLinesAre DEF IInv, RulesAreLines, ReadTo
    <3>4. PICK n : n = Len(src)
      OBVIOUS
    <3>5. RuleLines(Len(src))' = {}
      BY <1>1, <3>3, <3>4, SameText
    <3> QED
      BY <3>1, <3>5 DEF EndsRight
  <2>3. CASE scopes = <<>> /\ rules # <<>>
    BY <1>1, <1>2, <2>3 DEF Finish, EndsRight
  <2> QED
    BY <2>1, <2>2, <2>3
<1> QED
  BY <1>1, <1>3, LastStep

LEMMA StepIInv == IInv /\ [Next]_vars => IInv'
<1>1. IInv /\ UNCHANGED vars => IInv'
  <2> SUFFICES ASSUME IInv, UNCHANGED vars PROVE IInv'
    OBVIOUS
  <2>1. src' = src /\ at' = at /\ scopes' = scopes /\ rules' = rules /\ result' = result
    BY DEF vars
  <2>2. PICK n : n = Len(src)
    OBVIOUS
  <2>3. EndsRight'
    BY <2>1, <2>2, SameText DEF IInv, EndsRight
  <2> QED
    BY <2>1, <2>3, LastStep
<1> QED
  BY <1>1, StepBlank, StepClose, StepOpen, StepAddRule, StepReject, StepFinish DEF Next

\* The invariant holds of every file and at every line.
THEOREM RulesInvariant == Spec => []IInv
  BY InitIInv, StepIInv, PTL DEF Spec

\* The invariant says what was read: the whole of a file without error, in order
\* and under its scopes.
LEMMA IInvReads == IInv => ReadsWhatIsWritten
<1> SUFFICES ASSUME IInv PROVE ReadsWhatIsWritten
  OBVIOUS
<1>1. Len(src) \in Nat /\ DOMAIN src = 1..Len(src)
  BY SrcIs DEF IInv, TypeOK
<1>2. CASE result = "ok"
  <2>1. at - 1 = Len(src) /\ scopes = <<>> /\ rules # <<>>
    BY <1>1, <1>2 DEF IInv, EndsRight
  <2>2. Deep(1, Len(src)) = 0
    <3>1. Len(scopes) = 0
      BY <2>1
    <3> QED
      BY <2>1, <3>1 DEF IInv, ScopesAreAround, StackAt
  <2>3. \A i \in DOMAIN src : ~Malformed(i)
    BY <1>1, <2>1 DEF IInv, WellFormedSoFar
  <2>4. ReadTo(Len(src), rules)
    BY <2>1 DEF IInv, RulesAreLines
  <2>5. RuleLines(Len(src)) # {}
    <3>1. Len(rules) # 0
      BY <2>1 DEF IInv, TypeOK
    <3> QED
      BY <1>1, <2>4, <3>1, RuleLinesAre DEF ReadTo
  <2> QED
    BY <1>2, <2>2, <2>3, <2>4, <2>5 DEF ReadsWhatIsWritten, ReadTo, Meant
<1>3. CASE result # "ok"
  BY <1>3 DEF IInv, EndsRight, ReadsWhatIsWritten
<1> QED
  BY <1>2, <1>3

\* A rules file is read as it is written, for every file.
THEOREM RulesAreRead == Spec => []ReadsWhatIsWritten
  BY RulesInvariant, IInvReads, PTL

-----------------------------------------------------------------------------
(* Patterns and paths.                                                     *)

\* The piece of a path that a cut gives to the i-th segment is one it stands for.
Piece(pattern, path, cut, i) ==
    \/ pattern[i] = DoubleStar /\ cut[i] >= cut[i-1] + (IF i = Len(pattern) THEN 1 ELSE 0)
    \/ cut[i] = cut[i-1] + 1 /\ pattern[i] \in {Star, path[cut[i]]}

\* Covers, from the i-th segment of the pattern and the j-th name of the path on.
CoversFrom(pattern, path, i, j) ==
    \E cut \in [0..Len(pattern) -> 0..Len(path)] :
        /\ cut[i-1] = j - 1 /\ cut[Len(pattern)] = Len(path)
        /\ \A k \in i..Len(pattern) : Piece(pattern, path, cut, k)

LEMMA CoversAll ==
    ASSUME NEW S, NEW pattern \in Seq(S), NEW path
    PROVE Covers(pattern, path) <=> CoversFrom(pattern, path, 1, 1)
<1>1. Len(pattern) \in Nat /\ DOMAIN pattern = 1..Len(pattern) /\ 1 - 1 = 0
  OBVIOUS
<1>2. \A cut : (\A i \in DOMAIN pattern : Piece(pattern, path, cut, i))
                 <=> (\A k \in 1..Len(pattern) : Piece(pattern, path, cut, k))
  BY <1>1
<1>3. Covers(pattern, path) <=>
        \E cut \in [0..Len(pattern) -> 0..Len(path)] :
          /\ cut[0] = 0 /\ cut[Len(pattern)] = Len(path)
          /\ \A i \in DOMAIN pattern : Piece(pattern, path, cut, i)
  BY DEF Covers, Piece
<1> QED
  BY <1>1, <1>2, <1>3 DEF CoversFrom

LEMMA CoversNothing ==
    ASSUME NEW S, NEW pattern \in Seq(S), NEW R, NEW path \in Seq(R), NEW j \in 1..Len(path) + 1
    PROVE CoversFrom(pattern, path, Len(pattern) + 1, j) <=> j > Len(path)
<1> DEFINE m == Len(pattern)
           n == Len(path)
<1>1. m \in Nat /\ n \in Nat /\ (m + 1) - 1 = m /\ (m + 1)..m = {}
  OBVIOUS
<1>2. ASSUME j > n PROVE CoversFrom(pattern, path, m + 1, j)
  <2> DEFINE cut == [k \in 0..m |-> n]
  <2>1. cut \in [0..m -> 0..n] /\ cut[m] = n
    BY <1>1
  <2>2. j - 1 = n
    BY <1>1, <1>2
  <2> HIDE DEF cut
  <2> QED
    BY <1>1, <2>1, <2>2 DEF CoversFrom
<1>3. ASSUME CoversFrom(pattern, path, m + 1, j) PROVE j > n
  <2>1. PICK cut \in [0..m -> 0..n] : cut[(m + 1) - 1] = j - 1 /\ cut[m] = n
    BY <1>3 DEF CoversFrom
  <2> QED
    BY <1>1, <2>1
<1> QED
  BY <1>2, <1>3

\* A cut of the rest and a piece for the segment before it are a cut.
LEMMA CoversMore ==
    ASSUME NEW S, NEW pattern \in Seq(S), NEW R, NEW path \in Seq(R),
           NEW i \in 1..Len(pattern), NEW j \in 1..Len(path) + 1, NEW k \in 1..Len(path) + 1,
           CoversFrom(pattern, path, i + 1, k),
           \/ pattern[i] = DoubleStar /\ k - 1 >= (j - 1) + (IF i = Len(pattern) THEN 1 ELSE 0)
           \/ k - 1 = (j - 1) + 1 /\ pattern[i] \in {Star, path[k - 1]}
    PROVE CoversFrom(pattern, path, i, j)
<1> DEFINE m == Len(pattern)
           n == Len(path)
<1>1. m \in Nat /\ n \in Nat /\ i - 1 \in 0..m /\ i \in 0..m /\ m \in 0..m /\ i - 1 # i
        /\ i - 1 # m /\ (i + 1) - 1 = i /\ j - 1 \in 0..n
  OBVIOUS
<1>2. PICK cut \in [0..m -> 0..n] :
        /\ cut[i] = k - 1 /\ cut[m] = n
        /\ \A l \in (i+1)..m : Piece(pattern, path, cut, l)
  BY <1>1 DEF CoversFrom
<1> DEFINE new == [cut EXCEPT ![i-1] = j - 1]
<1>3. /\ new \in [0..m -> 0..n] /\ new[i-1] = j - 1 /\ new[m] = n /\ new[i] = k - 1
      /\ \A l \in i..m : new[l] = cut[l]
  BY <1>1, <1>2
<1> HIDE DEF new
<1>4. Piece(pattern, path, new, i)
  BY <1>1, <1>3 DEF Piece
<1>5. ASSUME NEW l \in (i+1)..m PROVE Piece(pattern, path, new, l)
  <2>1. l \in i..m /\ l - 1 \in i..m
    OBVIOUS
  <2>2. new[l] = cut[l] /\ new[l-1] = cut[l-1]
    BY <1>3, <2>1
  <2>3. Piece(pattern, path, cut, l)
    BY <1>2
  <2> QED
    BY <2>2, <2>3 DEF Piece
<1>6. \A l \in i..m : l = i \/ l \in (i+1)..m
  OBVIOUS
<1>7. \A l \in i..m : Piece(pattern, path, new, l)
  BY <1>4, <1>5, <1>6
<1> QED
  BY <1>3, <1>7 DEF CoversFrom

\* The equation that glob solves.
LEMMA CoversNext ==
    ASSUME NEW S, NEW pattern \in Seq(S), NEW R, NEW path \in Seq(R),
           NEW i \in 1..Len(pattern), NEW j \in 1..Len(path) + 1
    PROVE CoversFrom(pattern, path, i, j) <=>
            \/ pattern[i] = DoubleStar /\ i = Len(pattern) /\ j <= Len(path)
            \/ /\ pattern[i] = DoubleStar /\ i < Len(pattern)
               /\ \E k \in j..Len(path) + 1 : CoversFrom(pattern, path, i+1, k)
            \/ j <= Len(path) /\ pattern[i] \in {Star, path[j]} /\ CoversFrom(pattern, path, i+1, j+1)
<1> DEFINE m == Len(pattern)
           n == Len(path)
           C(a, b) == CoversFrom(pattern, path, a, b)
           One == pattern[i] = DoubleStar /\ i = m /\ j <= n
           Two == pattern[i] = DoubleStar /\ i < m /\ \E k \in j..n+1 : C(i+1, k)
           Three == j <= n /\ pattern[i] \in {Star, path[j]} /\ C(i+1, j+1)
<1>1. m \in Nat /\ n \in Nat /\ i \in 0..m /\ (i + 1) - 1 = i
  OBVIOUS
<1>2. ASSUME C(i, j) PROVE One \/ Two \/ Three
  <2>1. PICK cut \in [0..m -> 0..n] :
          /\ cut[i-1] = j - 1 /\ cut[m] = n
          /\ \A k \in i..m : Piece(pattern, path, cut, k)
    BY <1>2 DEF CoversFrom
  <2>2. Piece(pattern, path, cut, i)
    <3>1. i \in i..m
      BY <1>1
    <3> QED
      BY <2>1, <3>1
  <2>3. PICK k : k = cut[i] + 1
    OBVIOUS
  <2>4. cut[i] \in 0..n /\ k \in 1..n+1 /\ k - 1 = cut[i]
    <3>1. cut[i] \in 0..n
      BY <1>1, <2>1
    <3> QED
      BY <1>1, <2>3, <3>1
  <2>5. C(i + 1, k)
    <3>1. \A l \in (i+1)..m : l \in i..m
      OBVIOUS
    <3> QED
      BY <1>1, <2>1, <2>4, <3>1 DEF CoversFrom
  <2> HIDE DEF C
  <2>6. CASE pattern[i] = DoubleStar /\ cut[i] >= cut[i-1] + (IF i = m THEN 1 ELSE 0)
    <3>1. CASE i = m
      BY <1>1, <2>1, <2>6, <3>1
    <3>2. CASE i # m
      <4>1. k \in j..n+1 /\ i < m
        BY <1>1, <2>1, <2>4, <2>6, <3>2
      <4> QED
        BY <2>5, <2>6, <4>1
    <3> QED
      BY <3>1, <3>2
  <2>7. CASE cut[i] = cut[i-1] + 1 /\ pattern[i] \in {Star, path[cut[i]]}
    <3>1. cut[i] = j /\ j <= n /\ k = j + 1
      BY <1>1, <2>1, <2>3, <2>4, <2>7
    <3> QED
      BY <2>5, <2>7, <3>1
  <2> QED
    BY <2>2, <2>6, <2>7 DEF Piece
<1>3. ASSUME One PROVE C(i, j)
  <2>1. C(i + 1, n + 1)
    BY <1>1, <1>3, CoversNothing
  <2>2. n + 1 \in 1..n+1 /\ (n + 1) - 1 >= (j - 1) + 1
    BY <1>1, <1>3
  <2> QED
    BY <1>1, <1>3, <2>1, <2>2, CoversMore
<1>4. ASSUME Two PROVE C(i, j)
  <2>1. PICK k \in j..n+1 : C(i+1, k)
    BY <1>4
  <2>2. k \in 1..n+1 /\ k - 1 >= (j - 1) + 0 /\ i # m
    BY <1>1, <1>4
  <2> QED
    BY <1>4, <2>1, <2>2, CoversMore
<1>5. ASSUME Three PROVE C(i, j)
  <2>1. j + 1 \in 1..n+1 /\ (j + 1) - 1 = (j - 1) + 1 /\ (j + 1) - 1 = j
    BY <1>1, <1>5
  <2> QED
    BY <1>5, <2>1, CoversMore
<1> QED
  BY <1>2, <1>3, <1>4, <1>5

\* One step of glob, from what it finds for the rest of the pattern.
GlobStep(pattern, path, rest, i, j) ==
    \/ i > Len(pattern) /\ j > Len(path)
    \/ i = Len(pattern) /\ pattern[i] = DoubleStar /\ j <= Len(path)
    \/ /\ i < Len(pattern) /\ pattern[i] = DoubleStar
       /\ \E k \in j..Len(path) + 1 : rest[i+1][k]
    \/ /\ i <= Len(pattern) /\ j <= Len(path)
       /\ pattern[i] \in {Star, path[j]} /\ rest[i+1][j+1]

GlobSolves(pattern, path, g) ==
    g = [i \in 1..Len(pattern) + 1 |-> [j \in 1..Len(path) + 1 |-> GlobStep(pattern, path, g, i, j)]]

LEMMA GlobExists ==
    ASSUME NEW S, NEW pattern \in Seq(S), NEW R, NEW path \in Seq(R)
    PROVE \E g : GlobSolves(pattern, path, g)
<1> DEFINE m == Len(pattern)
           n == Len(path)
           C(i, j) == CoversFrom(pattern, path, i, j)
           g == [i \in 1..m+1 |-> [j \in 1..n+1 |-> C(i, j)]]
<1>1. m \in Nat /\ n \in Nat
  OBVIOUS
<1>2. ASSUME NEW i \in 1..m+1, NEW j \in 1..n+1
      PROVE C(i, j) <=> GlobStep(pattern, path, g, i, j)
  <2>1. CASE i = m + 1
    BY <1>1, <2>1, CoversNothing DEF GlobStep
  <2>2. CASE i # m + 1
    <3>1. i \in 1..m /\ ~(i > m) /\ i + 1 \in 1..m+1
      BY <1>1, <2>2
    <3>2. \A k \in j..n+1 : k \in 1..n+1
      BY <1>1
    <3>3. j <= n => j + 1 \in 1..n+1
      BY <1>1
    <3> HIDE DEF C
    <3>4. \A k \in 1..n+1 : g[i+1][k] <=> C(i+1, k)
      BY <3>1
    <3>5. \A k \in j..n+1 : g[i+1][k] <=> C(i+1, k)
      BY <3>2, <3>4
    <3>6. j <= n => (g[i+1][j+1] <=> C(i+1, j+1))
      BY <3>3, <3>4
    <3>7. C(i, j) <=>
            \/ pattern[i] = DoubleStar /\ i = m /\ j <= n
            \/ pattern[i] = DoubleStar /\ i < m /\ \E k \in j..n + 1 : C(i+1, k)
            \/ j <= n /\ pattern[i] \in {Star, path[j]} /\ C(i+1, j+1)
      BY <3>1, CoversNext DEF C
    <3> HIDE DEF g
    <3> QED
      BY <3>1, <3>5, <3>6, <3>7 DEF GlobStep
  <2> QED
    BY <2>1, <2>2
<1>3. g = [i \in 1..m+1 |-> [j \in 1..n+1 |-> GlobStep(pattern, path, g, i, j)]]
  <2> DEFINE h == [i \in 1..m+1 |-> [j \in 1..n+1 |-> GlobStep(pattern, path, g, i, j)]]
  <2>1. ASSUME NEW i \in 1..m+1 PROVE g[i] = h[i]
    <3>1. \A j \in 1..n+1 : C(i, j) <=> GlobStep(pattern, path, g, i, j)
      BY <1>2, <2>1
    <3> HIDE DEF C
    <3>2. g[i] = [j \in 1..n+1 |-> C(i, j)]
      BY <2>1
    <3> DEFINE G == g
    <3> HIDE DEF G
    <3>3. h[i] = [j \in 1..n+1 |-> GlobStep(pattern, path, g, i, j)]
      BY <2>1
    <3> HIDE DEF g, h
    <3>4. [j \in 1..n+1 |-> C(i, j)] = [j \in 1..n+1 |-> GlobStep(pattern, path, g, i, j)]
      <4>1. \A j \in 1..n+1 : C(i, j) \in BOOLEAN
        BY DEF C, CoversFrom
      <4>2. \A j \in 1..n+1 : GlobStep(pattern, path, g, i, j) \in BOOLEAN
        BY DEF GlobStep
      <4>3. \A j \in 1..n+1 : C(i, j) = GlobStep(pattern, path, g, i, j)
        BY <3>1, <4>1, <4>2
      <4> QED
        BY <4>3
    <3> QED
      BY <3>2, <3>3, <3>4
  <2> QED
    BY <2>1
<1> QED
  BY <1>3 DEF GlobSolves

LEMMA GlobIsOne ==
    ASSUME NEW S, NEW pattern \in Seq(S), NEW R, NEW path \in Seq(R),
           NEW g, GlobSolves(pattern, path, g)
    PROVE g[1][1] <=> CoversFrom(pattern, path, 1, 1)
<1> DEFINE m == Len(pattern)
           n == Len(path)
           C(i, j) == CoversFrom(pattern, path, i, j)
           Same(i) == \A j \in 1..n+1 : g[i][j] <=> C(i, j)
           T == {l \in 0..m : ~Same(m + 1 - l)}
<1>1. m \in Nat /\ n \in Nat /\ T \in SUBSET Nat
  OBVIOUS
<1>2. ASSUME NEW i \in 1..m+1, NEW j \in 1..n+1
      PROVE g[i][j] <=> GlobStep(pattern, path, g, i, j)
  <2>1. g[i] = [k \in 1..n+1 |-> GlobStep(pattern, path, g, i, k)]
    BY DEF GlobSolves
  <2> QED
    BY <2>1
<1>3. T = {}
  <2> SUFFICES ASSUME T # {} PROVE FALSE
    OBVIOUS
  <2>1. \A l : l \in T <=> l \in 0..m /\ ~Same(m + 1 - l)
    OBVIOUS
  <2> HIDE DEF T
  <2>2. PICK l \in T : \A k \in T : l <= k
    BY <1>1, LeastIn
  <2>3. l \in 0..m /\ ~Same(m + 1 - l)
    BY <2>1
  <2>4. PICK i : i = m + 1 - l
    OBVIOUS
  <2>5. i \in 1..m+1 /\ ~Same(i)
    BY <1>1, <2>3, <2>4
  <2>6. CASE i = m + 1
    <3>1. \A j \in 1..n+1 : g[i][j] <=> C(i, j)
      BY <1>1, <1>2, <2>5, <2>6, CoversNothing DEF GlobStep
    <3> QED
      BY <2>5, <3>1
  <2>7. CASE i # m + 1
    <3>1. i \in 1..m /\ ~(i > m) /\ i + 1 \in 1..m+1
      BY <1>1, <2>5, <2>7
    <3>2. Same(i + 1)
      <4>1. l - 1 \in 0..m /\ l - 1 < l /\ m + 1 - (l - 1) = i + 1
        BY <1>1, <2>3, <2>4, <2>7
      <4>2. l - 1 \notin T
        BY <1>1, <2>2, <4>1
      <4> HIDE DEF Same
      <4>3. Same(m + 1 - (l - 1))
        BY <2>1, <4>1, <4>2
      <4> QED
        BY <4>1, <4>3
    <3>3. ASSUME NEW j \in 1..n+1 PROVE g[i][j] <=> C(i, j)
      <4>1. \A k \in j..n+1 : k \in 1..n+1
        BY <1>1
      <4>2. j <= n => j + 1 \in 1..n+1
        BY <1>1
      <4> HIDE DEF C
      <4>3. \A k \in j..n+1 : g[i+1][k] <=> C(i+1, k)
        BY <3>2, <4>1
      <4>4. j <= n => (g[i+1][j+1] <=> C(i+1, j+1))
        BY <3>2, <4>2
      <4>5. C(i, j) <=>
              \/ pattern[i] = DoubleStar /\ i = m /\ j <= n
              \/ pattern[i] = DoubleStar /\ i < m /\ \E k \in j..n + 1 : C(i+1, k)
              \/ j <= n /\ pattern[i] \in {Star, path[j]} /\ C(i+1, j+1)
        BY <3>1, CoversNext DEF C
      <4>6. g[i][j] <=> GlobStep(pattern, path, g, i, j)
        BY <1>2, <2>5
      <4> QED
        BY <3>1, <4>3, <4>4, <4>5, <4>6 DEF GlobStep
    <3> QED
      BY <2>5, <3>3
  <2> QED
    BY <2>6, <2>7
<1>4. Same(1)
  <2>1. m \in 0..m /\ m + 1 - m = 1
    BY <1>1
  <2> HIDE DEF Same
  <2> QED
    BY <1>3, <2>1
<1> QED
  BY <1>1, <1>4

\* glob finds a cut of the path if there is one, and none that is not one.
LEMMA GlobIsCovers ==
    ASSUME NEW S, NEW pattern \in Seq(S), NEW R, NEW path \in Seq(R)
    PROVE Glob(pattern, path) <=> Covers(pattern, path)
<1> DEFINE glob == CHOOSE g : GlobSolves(pattern, path, g)
<1>1. GlobSolves(pattern, path, glob)
  BY GlobExists
<1>2. Glob(pattern, path) <=> glob[1][1]
  BY DEF Glob, GlobSolves, GlobStep
<1> HIDE DEF glob
<1>3. glob[1][1] <=> CoversFrom(pattern, path, 1, 1)
  BY <1>1, GlobIsOne
<1> QED
  BY <1>2, <1>3, CoversAll

\* Every pattern that is read, with the prefixes it got, covers the paths that it
\* is said to cover, for every path.
THEOREM GlobCovers == Spec => []GlobIsCovering
<1>1. IInv => GlobIsCovering
  <2> SUFFICES ASSUME IInv, NEW i \in DOMAIN rules, NEW path \in Paths
               PROVE Glob(rules[i].pattern, path) <=> Covers(rules[i].pattern, path)
    BY DEF GlobIsCovering
  <2>1. rules[i].pattern \in Seq(Segments)
    <3>1. rules[i] \in RuleRecords
      BY DEF IInv, TypeOK
    <3> QED
      BY <3>1 DEF RuleRecords
  <2>2. path \in Seq(Names)
    BY SourcesAssumption
  <2> QED
    BY <2>1, <2>2, GlobIsCovers
<1> QED
  BY <1>1, RulesInvariant, PTL
=============================================================================
