------------------------------- MODULE Select -------------------------------
(***************************************************************************)
(* select::select: rules are evaluated over the symbol table and the keep  *)
(* set is closed over references and contents, as marks on symbols.        *)
(*                                                                         *)
(* Symbols are numbered as sema creates them: builtins first, parents      *)
(* before children, siblings in source order.  A rule is its polarity and  *)
(* the set of symbols its pattern and @kind match.                         *)
(***************************************************************************)
EXTENDS Integers, Sequences, FiniteSets

CONSTANTS
    N,         \* number of symbols
    Kind,      \* symbol -> its SymKind
    Parent,    \* symbol -> the enclosing definition, or NoSym
    Builtin,   \* the well-known types, which belong to no input file
    Refs,      \* field or method -> the types it refers to, in order
    Number,    \* enum value -> its number
    RuleSets   \* the rule sequences the selector may be given

Syms == 1..N
NoSym == 0
Def == {"message", "enum", "service"}
Polarity == {"keep", "drop", "cascade"}

ASSUME SymbolsAssumption ==
    /\ N \in Nat
    /\ Kind \in [Syms -> Def \cup {"field", "method", "value"}]
    /\ Parent \in [Syms -> Syms \cup {NoSym}]
    /\ \A s \in Syms : Parent[s] < s
    /\ \A s \in Syms : Parent[s] # NoSym => Kind[Parent[s]] \in Def
    /\ Builtin \subseteq Syms
    /\ \A s \in Builtin : Parent[s] = NoSym /\ Kind[s] \in Def
    /\ \A s \in Syms : Parent[s] \notin Builtin
    /\ Refs \in [Syms -> Seq(Syms)]
    /\ \A s \in Syms : Refs[s] # <<>> => Kind[s] \in {"field", "method"}
    /\ \A s \in Syms : \A i \in DOMAIN Refs[s] : Kind[Refs[s][i]] \in Def
    /\ Number \in [Syms -> Int]

ASSUME RulesAssumption ==
    RuleSets \subseteq Seq([pol : Polarity, hits : SUBSET Syms])

\* Marks, by keep strength.
None == 0
Container == 1
Required == 2
Explicit == 3

VARIABLES
    rules,      \* the rule set
    phase,      \* how far select has come, or how it ended
    ahead,      \* symbols the deciding or seeding loop has yet to visit
    decision,   \* symbol -> the index of its effective rule, 0 if none
    marks, cascade, introduced,  \* Closure's arrays of the same names
    queue, processed,            \* symbols whose contents are to be traversed
    current,    \* the symbol being traversed ...
    left,       \* ... and its contents, or positions of its references, to come
    climb,      \* a symbol just marked, whose parent may still be unmarked
    blame       \* on a conflict: the symbol that had the referring one kept

vars == <<rules, phase, ahead, decision, marks, cascade, introduced, queue,
          processed, current, left, climb, blame>>

closure == <<marks, cascade, introduced, queue, processed, climb, blame>>

Least(S) == CHOOSE x \in S : \A y \in S : x <= y

Children(s) == {c \in Syms : Parent[c] = s}

\* A keep rule does not address builtins.
Hits(i) == rules[i].hits \ (IF rules[i].pol = "keep" THEN Builtin ELSE {})

\* MUTANT of Direct: off by one.
DirectNext(s) ==
    LET own == {i \in DOMAIN rules : s \in Hits(i)}
    IN IF own = {} THEN 0 ELSE 1 + CHOOSE i \in own : \A j \in own : j <= i

\* The last rule that hits the symbol itself.
Direct(s) ==
    LET own == {i \in DOMAIN rules : s \in Hits(i)}
    IN IF own = {} THEN 0 ELSE CHOOSE i \in own : \A j \in own : j <= i

Pol(s) == IF decision[s] = 0 THEN "undecided" ELSE rules[decision[s]].pol
Excluded(s) == Pol(s) \in {"drop", "cascade"}

-----------------------------------------------------------------------------
Init ==
    /\ rules \in RuleSets
    /\ phase = "start"
    /\ ahead = Syms
    /\ decision = [s \in Syms |-> 0]
    /\ marks = [s \in Syms |-> None]
    /\ cascade = [s \in Syms |-> FALSE]
    /\ introduced = [s \in Syms |-> NoSym]
    /\ queue = <<>>
    /\ processed = [s \in Syms |-> FALSE]
    /\ current = NoSym
    /\ left = {}
    /\ climb = NoSym
    /\ blame = NoSym

\* No rules, or a rule that hits nothing, is an error.
EvaluateRules ==
    /\ phase = "start"
    /\ phase' = IF rules = <<>> \/ \E i \in DOMAIN rules : Hits(i) = {}
                THEN "dead rule" ELSE "decide"
    /\ UNCHANGED <<rules, ahead, decision, current, left, closure>>

\* MUTANT of Later: a rule on the symbol itself always wins.
OwnFirst(own, inherited) == IF own = 0 THEN inherited ELSE own

\* Rules override those before them, whatever their depth.
Later(own, inherited) == IF inherited > own THEN inherited ELSE own

\* The forward pass: of a symbol's own rule and the one its parent has come
\* to, the later one counts.
Decide ==
    /\ phase = "decide" /\ ahead # {}
    /\ LET s == Least(ahead)
           inherited == IF Parent[s] = NoSym THEN 0 ELSE decision[Parent[s]]
       IN /\ decision' = [decision EXCEPT ![s] = Later(Direct(s), inherited)]
          /\ ahead' = ahead \ {s}
    /\ UNCHANGED <<rules, phase, current, left, closure>>

EndDecide ==
    /\ phase = "decide" /\ ahead = {}
    /\ phase' = "seed"
    /\ ahead' = Syms \ Builtin
    /\ UNCHANGED <<rules, decision, current, left, closure>>

-----------------------------------------------------------------------------
\* No reference of s is to an excluded type.
Clean(s) == \A i \in DOMAIN Refs[s] : ~Excluded(Refs[s][i])

\* The first one that is.
Offender(s) == Refs[s][Least({i \in DOMAIN Refs[s] : Excluded(Refs[s][i])})]

\* A -! type takes the symbol that refers to it along, unless a later rule
\* keeps that symbol; a plain - type that is referred to is a conflict.
Cascades(s) ==
    /\ ~Clean(s) /\ Pol(Offender(s)) = "cascade"
    /\ ~(Pol(s) = "keep" /\ decision[s] > decision[Offender(s)])

\* MUTANT of Settled: a shell counts as kept at any level.
SettledAsShell(s, level) == cascade[s] \/ marks[s] >= Container

\* There is nothing to raise: s is deleted, or marked at the level already.
Settled(s, level) == cascade[s] \/ marks[s] >= level

\* The contents of s have yet to be queued for traversal.
Unvisited(s) == marks[s] < Required /\ ~processed[s]

\* MUTANT of Introduce: the test for an earlier introducer is inverted.
IntroduceInverted(s, by) ==
    introduced' = [introduced EXCEPT ![s] = IF @ = NoSym THEN @ ELSE by]

\* The first to introduce s is remembered.
Introduce(s, by) ==
    introduced' = [introduced EXCEPT ![s] = IF @ = NoSym THEN by ELSE @]

\* Closure::keep, up to its walk over the ancestors.
Keep(s, level, by) ==
    IF Settled(s, level) THEN UNCHANGED <<phase, closure>>
    ELSE \/ /\ Clean(s)
            /\ marks' = [marks EXCEPT ![s] = level]
            /\ Introduce(s, by)
            /\ climb' = s
            /\ IF Unvisited(s)
               THEN /\ processed' = [processed EXCEPT ![s] = TRUE]
                    /\ queue' = Append(queue, s)
               ELSE UNCHANGED <<processed, queue>>
            /\ UNCHANGED <<phase, cascade, blame>>
         \/ /\ Cascades(s)
            /\ cascade' = [cascade EXCEPT ![s] = TRUE]
            /\ marks' = [marks EXCEPT ![s] = None]
            /\ UNCHANGED <<phase, introduced, climb, processed, queue, blame>>
         \/ /\ ~Clean(s) /\ ~Cascades(s)
            /\ phase' = IF Pol(Offender(s)) = "drop" THEN "conflict" ELSE "contradiction"
            /\ blame' = by
            /\ UNCHANGED <<marks, cascade, introduced, climb, processed, queue>>

\* The walk ends at the top or at the first marked ancestor.
Covered(p) == p = NoSym \/ marks[p] >= Container

\* MUTANT of Climb: only the parent is marked, not every ancestor.
ClimbOnce ==
    /\ climb # NoSym
    /\ climb' = NoSym
    /\ LET p == Parent[climb]
       IN IF Covered(p)
          THEN UNCHANGED <<marks, introduced>>
          ELSE marks' = [marks EXCEPT ![p] = Container] /\ Introduce(p, climb)
    /\ UNCHANGED <<rules, phase, ahead, decision, cascade, queue, processed,
                   current, left, blame>>

\* The walk: an unmarked parent becomes a container and the walk goes on from it.
Climb ==
    /\ climb # NoSym
    /\ LET p == Parent[climb]
       IN IF Covered(p)
          THEN climb' = NoSym /\ UNCHANGED <<marks, introduced>>
          ELSE /\ marks' = [marks EXCEPT ![p] = Container]
               /\ Introduce(p, climb)
               /\ climb' = p
    /\ UNCHANGED <<rules, phase, ahead, decision, cascade, queue, processed,
                   current, left, blame>>

\* The seeding loop: input symbols, in order, whose decision is keep.
Seed ==
    /\ phase = "seed" /\ climb = NoSym /\ ahead # {}
    /\ ahead' = ahead \ {Least(ahead)}
    /\ IF Pol(Least(ahead)) = "keep"
       THEN Keep(Least(ahead), Explicit, NoSym)
       ELSE UNCHANGED <<phase, closure>>
    /\ UNCHANGED <<rules, decision, current, left>>

EndSeed ==
    /\ phase = "seed" /\ climb = NoSym /\ ahead = {}
    /\ phase' = "close"
    /\ UNCHANGED <<rules, ahead, decision, current, left, closure>>

\* Contents of a definition that a full keep brings along; nested definitions
\* and excluded contents stay out.
Contents(s) == {c \in Children(s) : ~Excluded(c) /\ Kind[c] \notin Def}

\* MUTANT of Process: the symbol stays in the queue.
ProcessPeek ==
    /\ phase = "close" /\ climb = NoSym /\ left = {} /\ queue # <<>>
    /\ current' = Head(queue)
    /\ left' = IF Head(queue) \in Builtin THEN {}
               ELSE IF Kind[Head(queue)] \in Def THEN Contents(Head(queue))
               ELSE DOMAIN Refs[Head(queue)]
    /\ UNCHANGED <<rules, phase, ahead, decision, closure>>

\* Closure::process takes the next symbol off the queue ...
Process ==
    /\ phase = "close" /\ climb = NoSym /\ left = {} /\ queue # <<>>
    /\ queue' = Tail(queue)
    /\ current' = Head(queue)
    /\ left' = IF Head(queue) \in Builtin THEN {}
               ELSE IF Kind[Head(queue)] \in Def THEN Contents(Head(queue))
               ELSE DOMAIN Refs[Head(queue)]
    /\ UNCHANGED <<rules, phase, ahead, decision, marks, cascade, introduced,
                   processed, climb, blame>>

\* ... and keeps its contents, or what it refers to, one after the other.
Traverse ==
    /\ phase = "close" /\ climb = NoSym /\ left # {}
    /\ left' = left \ {Least(left)}
    /\ IF Kind[current] \in Def
       THEN Keep(Least(left),
                 IF Pol(Least(left)) = "keep" THEN Explicit ELSE Required, current)
       ELSE Keep(Refs[current][Least(left)], Required, current)
    /\ UNCHANGED <<rules, ahead, decision, current>>

KeptValues(e) == {v \in Children(e) : marks[v] # None}

\* check_enum_legality for one kept enum of an input file.
Legal(e) == KeptValues(e) # {} /\ Number[Least(KeptValues(e))] = 0

CheckEnums ==
    /\ phase = "close" /\ climb = NoSym /\ left = {} /\ queue = <<>>
    /\ phase' = IF \A e \in Syms \ Builtin :
                      Kind[e] = "enum" /\ marks[e] # None => Legal(e)
                THEN "done" ELSE "illegal enum"
    /\ UNCHANGED <<rules, ahead, decision, current, left, closure>>

Next ==
    \/ EvaluateRules \/ Decide \/ EndDecide \/ Seed \/ EndSeed
    \/ Process \/ Traverse \/ Climb \/ CheckEnums

Spec == Init /\ [][Next]_vars
FairSpec == Spec /\ WF_vars(Next)

Kept(s) == marks[s] # None /\ ~cascade[s]

-----------------------------------------------------------------------------
(* What the closure computes, without an order of traversal.               *)

\* The symbols that enclose s.
Above[s \in Syms] ==
    IF Parent[s] = NoSym THEN {} ELSE {Parent[s]} \cup Above[Parent[s]]

Verdict(s) ==
    IF Clean(s) THEN "ok"
    ELSE IF Cascades(s) THEN "cascade"
    ELSE IF Pol(Offender(s)) = "drop" THEN "conflict" ELSE "contradiction"

Pulls(s) ==
    IF s \in Builtin THEN {}
    ELSE IF Kind[s] \in Def THEN Contents(s)
    ELSE {Refs[s][i] : i \in DOMAIN Refs[s]}

\* What n rounds of pulling reach from the seeds.
Reach[n \in 0..N] ==
    IF n = 0 THEN {s \in Syms \ Builtin : Pol(s) = "keep"}
    ELSE LET before == Reach[n - 1]
         IN before \cup UNION {Pulls(s) : s \in {x \in before : Verdict(x) = "ok"}}

\* The mark of s when the symbols in full are fully kept.
Strength(s, full) ==
    IF s \in full THEN IF Pol(s) = "keep" THEN Explicit ELSE Required
    ELSE IF \E d \in full : s \in Above[d] THEN Container ELSE None

-----------------------------------------------------------------------------
(* Correctness.                                                            *)

Finished == {"dead rule", "conflict", "contradiction", "illegal enum", "done"}

\* Every variable stays in its set.
TypeOK ==
    /\ rules \in RuleSets
    /\ phase \in {"start", "decide", "seed", "close"} \cup Finished
    /\ ahead \subseteq Syms
    /\ decision \in [Syms -> 0..Len(rules)]
    /\ marks \in [Syms -> {None, Container, Required, Explicit}]
    /\ cascade \in [Syms -> BOOLEAN]
    /\ introduced \in [Syms -> Syms \cup {NoSym}]
    /\ queue \in Seq(Syms)
    /\ processed \in [Syms -> BOOLEAN]
    /\ current \in Syms \cup {NoSym}
    /\ left \subseteq Nat
    /\ climb \in Syms \cup {NoSym}
    /\ blame \in Syms \cup {NoSym}

\* The effective decision of a symbol is the last rule that matches it or any
\* symbol around it, however far out (select.rs, on decision).
DecisionIsLastMatch ==
    phase \notin {"start", "dead rule", "decide"} =>
        \A s \in Syms :
            LET hit == {i \in DOMAIN rules : Hits(i) \cap ({s} \cup Above[s]) # {}}
            IN decision[s] \in hit \cup {0} /\ \A i \in hit : i <= decision[s]

\* Seeding order, the FIFO queue and early cut-offs do not matter: select ends
\* with the least set of marks closed under contents and references, deletes
\* exactly the reached symbols that refer to a -! type, and fails if and only
\* if some reached symbol is in conflict.
ClosureIsLeast ==
    LET reached == Reach[N]
        full == {s \in reached : Verdict(s) = "ok"}
    IN /\ phase \in {"done", "illegal enum"} =>
            \A s \in Syms :
                /\ marks[s] = Strength(s, full)
                /\ cascade[s] <=> s \in reached /\ Verdict(s) = "cascade"
                /\ s \in reached => Verdict(s) \in {"ok", "cascade"}
       /\ phase \in {"conflict", "contradiction"} =>
            \E s \in reached : Verdict(s) = phase

\* Nothing that is kept dangles: whatever a kept field or method refers to is
\* fully kept, and the definition around a kept symbol is kept at least as a shell.
NothingDangles ==
    phase = "done" => \A s \in Syms : Kept(s) =>
        /\ Parent[s] # NoSym => Kept(Parent[s])
        /\ \A i \in DOMAIN Refs[s] : Kept(Refs[s][i]) /\ marks[Refs[s][i]] >= Required

\* No symbol that a rule excludes is ever more than a shell.
ExcludedStaysOut ==
    \A s \in Syms : Excluded(s) => marks[s] <= Container

\* A kept definition is kept whole: each of its fields, values or methods is
\* kept, or excluded by a rule, or deleted with the -! type it refers to.
ContentComplete ==
    phase = "done" => \A s \in Syms \ Builtin :
        marks[s] >= Required /\ Kind[s] \in Def =>
            \A c \in Children(s) : Kind[c] \notin Def =>
                marks[c] >= Required \/ Excluded(c) \/ cascade[c]

\* What prune is given when select succeeds: a selection in which nothing dangles,
\* no rule that excludes is overridden, and what is kept is kept whole.
SelectionIsSound == NothingDangles /\ ExcludedStaysOut /\ ContentComplete

\* Symbols from which n steps along introduced arrive at an explicitly
\* selected one.
Explained[n \in 0..N] ==
    IF n = 0
    THEN {s \in Syms : introduced[s] = NoSym /\ marks[s] = Explicit /\ Pol(s) = "keep"}
    ELSE LET before == Explained[n - 1]
         IN before \cup {s \in Syms : introduced[s] \in before}

\* Selection always answers why: the chain of introducers of a marked symbol
\* ends, and at a symbol a rule keeps.  So does the chain a conflict reports;
\* conflict_error walks it without a bound.
EveryKeepIsExplained ==
    LET explained == Explained[N]
    IN /\ \A s \in Syms : marks[s] # None => s \in explained
       /\ blame # NoSym => blame \in explained

\* Marks are only ever raised (Mark, "raises monotonically").
MarksAreRaised == [][\A s \in Syms : marks'[s] >= marks[s]]_marks

\* Whatever the references look like - mutual recursion, self references -
\* selection comes to an end.
Terminates == <>(phase \in Finished)
=============================================================================
