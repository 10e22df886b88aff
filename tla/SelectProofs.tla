---------------------------- MODULE SelectProofs ----------------------------
(***************************************************************************)
(* What holds of Select for every symbol table and every rule set: that    *)
(* the selection is sound, and then what it is, that is the decisions, the *)
(* least closure, and why each symbol is in it.                            *)
(***************************************************************************)
EXTENDS Select, FiniteSetTheorems, WellFoundedInduction, TLAPS

-----------------------------------------------------------------------------
(* Least and last elements *)

LEMMA LeastIsIn ==
  ASSUME NEW S \in SUBSET Nat, S # {}
  PROVE  Least(S) \in S /\ \A y \in S : Least(S) <= y
<1>1. IsWellFoundedOn(OpToRel(<, Nat), Nat)
  BY NatLessThanWellFounded
<1>2. PICK x \in S : \A y \in S : <<y, x>> \notin OpToRel(<, Nat)
  BY <1>1, WFMin
<1>3. \A y \in S : x <= y
  <2> SUFFICES ASSUME NEW y \in S, y < x PROVE FALSE
    OBVIOUS
  <2>1. <<y, x>> \in {ss \in Nat \X Nat : ss[1] < ss[2]}
    OBVIOUS
  <2> QED
    BY <1>2, <2>1 DEF OpToRel
<1> QED
  BY <1>3 DEF Least

\* The last rule that hits a symbol exists, if any rule does.
LEMMA LastIsIn ==
  ASSUME NEW n \in Nat, NEW S \in SUBSET (1..n), S # {}
  PROVE  \E i \in S : \A j \in S : j <= i
<1> DEFINE D == {n - i : i \in S}
<1>1. D \in SUBSET Nat /\ D # {}
  <2>1. \A i \in S : n - i \in Nat
    OBVIOUS
  <2> QED
    BY <2>1
<1>2. PICK i \in S : n - i = Least(D)
  BY <1>1, LeastIsIn
<1>3. \A j \in S : n - i <= n - j
  BY <1>1, <1>2, LeastIsIn
<1> QED
  BY <1>3

LEMMA AppendFacts ==
  ASSUME NEW S, NEW q \in Seq(S), NEW x \in S
  PROVE  /\ Append(q, x) \in Seq(S)
         /\ Len(Append(q, x)) = Len(q) + 1 /\ Len(q) \in Nat
         /\ Append(q, x)[Len(q) + 1] = x
         /\ \A k \in 1..Len(q) : Append(q, x)[k] = q[k]
         /\ \A k \in 1..Len(Append(q, x)) :
               Append(q, x)[k] = x \/ (k \in 1..Len(q) /\ Append(q, x)[k] = q[k])
<1>1. /\ Append(q, x) \in Seq(S)
      /\ Len(Append(q, x)) = Len(q) + 1 /\ Len(q) \in Nat
      /\ Append(q, x)[Len(q) + 1] = x
      /\ \A k \in 1..Len(q) : Append(q, x)[k] = q[k]
  OBVIOUS
<1>2. \A k \in 1..Len(q) + 1 : k = Len(q) + 1 \/ k \in 1..Len(q)
  BY <1>1
<1> QED
  BY <1>1, <1>2

LEMMA DirectType ==
  ASSUME rules \in RuleSets, NEW s \in Syms
  PROVE  Direct(s) \in 0..Len(rules)
<1>1. rules \in Seq([pol : Polarity, hits : SUBSET Syms])
  BY RulesAssumption
<1> DEFINE own == {i \in DOMAIN rules : s \in Hits(i)}
<1>2. own \in SUBSET (1..Len(rules)) /\ Len(rules) \in Nat
  BY <1>1
<1>3. CASE own = {}
  BY <1>2, <1>3 DEF Direct
<1>4. CASE own # {}
  <2>1. \E i \in own : \A j \in own : j <= i
    BY <1>2, <1>4, LastIsIn
  <2>2. (CHOOSE i \in own : \A j \in own : j <= i) \in own
    BY <2>1
  <2> QED
    BY <1>2, <1>4, <2>2 DEF Direct
<1> QED
  BY <1>3, <1>4

-----------------------------------------------------------------------------
(* The invariant *)

\* Nothing is marked before the decisions are final.
EarlyInv ==
    phase \in {"start", "decide", "dead rule"} =>
        /\ \A s \in Syms : marks[s] = None /\ ~cascade[s] /\ ~processed[s]
        /\ queue = <<>> /\ left = {} /\ climb = NoSym

\* What is fully kept refers to nothing excluded, is not excluded itself, and
\* has its contents traversed or waiting in the queue; shells are definitions.
MarkInv ==
    \A s \in Syms :
        /\ marks[s] >= Required => Clean(s) /\ ~Excluded(s)
        /\ marks[s] >= Required => processed[s]
        /\ processed[s] => marks[s] >= Required
        /\ marks[s] = Container => Kind[s] \in Def
        /\ cascade[s] => ~Clean(s)

\* What is being traversed was kept, and what remains of it is its contents.
TraverseInv ==
    /\ \A k \in 1..Len(queue) : processed[queue[k]]
    /\ left # {} =>
         /\ current \in Syms \ Builtin
         /\ processed[current]
         /\ left \subseteq IF Kind[current] \in Def THEN Contents(current)
                          ELSE DOMAIN Refs[current]

ClimbInv ==
    \A s \in Syms : marks[s] # None =>
        s = climb \/ Parent[s] = NoSym \/ marks[Parent[s]] # None

Pending(s, x) == s = current /\ x \in left

\* A symbol whose traversal has begun has pulled in all that it still owes.
Pulled(s) ==
    /\ s \notin Builtin /\ Kind[s] \in Def =>
         \A c \in Contents(s) : Pending(s, c) \/ marks[c] >= Required \/ cascade[c]
    /\ Kind[s] \notin Def =>
         \A i \in DOMAIN Refs[s] : Pending(s, i) \/ marks[Refs[s][i]] >= Required

PulledInv ==
    phase \notin {"conflict", "contradiction"} =>
        \A s \in Syms : processed[s] =>
            (\E k \in 1..Len(queue) : queue[k] = s) \/ Pulled(s)

\* Nothing is left over at the end.
DoneInv == phase = "done" => queue = <<>> /\ left = {} /\ climb = NoSym

IInv ==
    TypeOK /\ EarlyInv /\ MarkInv /\ TraverseInv /\ ClimbInv /\ PulledInv /\ DoneInv

LEMMA InitIInv == Init => IInv
<1> SUFFICES ASSUME Init PROVE IInv
  OBVIOUS
<1> USE SymbolsAssumption
<1>1. rules \in Seq([pol : Polarity, hits : SUBSET Syms])
  BY RulesAssumption DEF Init
<1>2. TypeOK
  BY <1>1 DEF Init, TypeOK, Syms, None, Container, Required, Explicit, NoSym
<1>3. EarlyInv
  BY DEF Init, EarlyInv
<1>4. MarkInv /\ ClimbInv
  BY DEF Init, MarkInv, ClimbInv, None, Container, Required
<1>5. TraverseInv /\ PulledInv /\ DoneInv
  BY DEF Init, TraverseInv, PulledInv, DoneInv
<1> QED
  BY <1>2, <1>3, <1>4, <1>5 DEF IInv

-----------------------------------------------------------------------------
(* keep *)

\* A definition refers to nothing, so it never cascades.
LEMMA DefIsClean ==
  ASSUME NEW s \in Syms, Kind[s] \in Def PROVE Clean(s)
<1>1. Refs[s] = <<>>
  BY SymbolsAssumption DEF Def
<1> QED
  BY <1>1 DEF Clean

\* The three outcomes of a keep call on a symbol no rule excludes: it is kept
\* at least at the level asked for, it is deleted with its type, or select
\* fails.  No mark is lowered in any of them.
LEMMA KeepEffect ==
  ASSUME TypeOK, MarkInv, NEW s \in Syms, NEW level \in {Required, Explicit},
         NEW by \in Syms \cup {NoSym}, climb = NoSym, ~Excluded(s),
         Keep(s, level, by)
  PROVE  \/ /\ marks[s] >= level \/ cascade[s]
            /\ UNCHANGED <<phase, closure>>
         \/ /\ Clean(s) /\ marks[s] < level /\ ~cascade[s]
            /\ marks' = [marks EXCEPT ![s] = level]
            /\ climb' = s
            /\ processed' = [processed EXCEPT ![s] = TRUE]
            /\ \/ ~processed[s] /\ queue' = Append(queue, s)
               \/ processed[s] /\ queue' = queue
            /\ introduced' \in [Syms -> Syms \cup {NoSym}]
            /\ UNCHANGED <<phase, cascade, blame>>
         \/ /\ ~Clean(s) /\ Kind[s] \notin Def
            /\ cascade' = [cascade EXCEPT ![s] = TRUE]
            /\ UNCHANGED <<phase, marks, introduced, climb, processed, queue, blame>>
         \/ /\ ~Clean(s)
            /\ phase' \in {"conflict", "contradiction"}
            /\ blame' \in Syms \cup {NoSym}
            /\ UNCHANGED <<marks, cascade, introduced, climb, processed, queue>>
<1> USE DEF TypeOK, None, Container, Required, Explicit
<1>1. CASE cascade[s] \/ marks[s] >= level
  BY <1>1 DEF Keep, Settled
<1>2. CASE ~cascade[s] /\ ~(marks[s] >= level) /\ Clean(s)
  <2>1. /\ marks' = [marks EXCEPT ![s] = level] /\ climb' = s
        /\ introduced' = [introduced EXCEPT ![s] = IF @ = NoSym THEN by ELSE @]
        /\ UNCHANGED <<phase, cascade, blame>>
        /\ IF marks[s] < Required /\ ~processed[s]
           THEN /\ processed' = [processed EXCEPT ![s] = TRUE]
                /\ queue' = Append(queue, s)
           ELSE UNCHANGED <<processed, queue>>
    BY <1>2 DEF Keep, Settled, Unvisited, Introduce, Cascades
  <2>2. introduced' \in [Syms -> Syms \cup {NoSym}]
    BY <2>1
  <2>3. marks[s] \in {0, 1, 2, 3} /\ level \in {2, 3} /\ processed[s] \in BOOLEAN
    OBVIOUS
  <2>4. /\ marks[s] < Required => ~processed[s]
        /\ ~(marks[s] < Required) => processed[s]
    BY <2>3 DEF MarkInv
  <2>5. CASE processed[s]
    <3>1. processed = [processed EXCEPT ![s] = TRUE]
      BY <2>5
    <3> QED
      BY <1>2, <2>1, <2>2, <2>3, <2>4, <2>5, <3>1
  <2>6. CASE ~processed[s]
    BY <1>2, <2>1, <2>2, <2>3, <2>4, <2>6
  <2> QED
    BY <2>5, <2>6
<1>3. CASE ~cascade[s] /\ ~(marks[s] >= level) /\ ~Clean(s)
  <2>1. Kind[s] \notin Def
    BY <1>3, DefIsClean
  <2>2. marks[s] = None
    <3>1. marks[s] \in {0, 1, 2, 3}
      OBVIOUS
    <3> QED
      BY <1>3, <2>1, <3>1 DEF MarkInv
  <2>3. marks = [marks EXCEPT ![s] = None]
    BY <2>2
  <2>4. CASE Cascades(s)
    BY <1>3, <2>1, <2>3, <2>4 DEF Keep, Settled
  <2>5. CASE ~Cascades(s)
    BY <1>3, <2>5 DEF Keep, Settled
  <2> QED
    BY <2>4, <2>5
<1> QED
  BY <1>1, <1>2, <1>3

\* What a call achieves for the traversal that makes it, and takes from none.
LEMMA KeepMonotone ==
  ASSUME TypeOK, MarkInv, NEW s \in Syms, NEW level \in {Required, Explicit},
         NEW by \in Syms \cup {NoSym}, climb = NoSym, ~Excluded(s),
         Keep(s, level, by)
  PROVE  /\ \A t \in Syms : /\ marks'[t] >= marks[t]
                            /\ marks[t] >= Required => marks'[t] >= Required
                            /\ cascade[t] => cascade'[t]
                            /\ (\E k \in 1..Len(queue) : queue[k] = t) =>
                                 \E k \in 1..Len(queue') : queue'[k] = t
                            /\ processed'[t] => \/ processed[t]
                                 \/ \E k \in 1..Len(queue') : queue'[k] = t
         /\ phase' \notin {"conflict", "contradiction"} =>
               /\ marks'[s] >= Required \/ cascade'[s]
               /\ Clean(s) => marks'[s] >= Required
<1> USE DEF TypeOK, None, Container, Required, Explicit
<1>1. queue \in Seq(Syms) /\ Len(queue) \in Nat /\ s \in Syms
  OBVIOUS
<1>2. /\ Len(Append(queue, s)) = Len(queue) + 1
      /\ Append(queue, s)[Len(queue) + 1] = s
      /\ \A k \in 1..Len(queue) : Append(queue, s)[k] = queue[k]
  BY <1>1, AppendFacts
<1>3. marks[s] \in {0, 1, 2, 3} /\ level \in {2, 3}
  OBVIOUS
<1>4. CASE (marks[s] >= level \/ cascade[s]) /\ UNCHANGED <<phase, closure>>
  BY <1>3, <1>4 DEF closure, MarkInv
<1>5. CASE /\ Clean(s) /\ marks[s] < level /\ ~cascade[s]
           /\ marks' = [marks EXCEPT ![s] = level]
           /\ processed' = [processed EXCEPT ![s] = TRUE]
           /\ \/ ~processed[s] /\ queue' = Append(queue, s)
              \/ processed[s] /\ queue' = queue
           /\ UNCHANGED <<phase, cascade>>
  <2>1. ASSUME NEW t \in Syms
        PROVE  /\ marks'[t] >= marks[t]
               /\ marks[t] >= Required => marks'[t] >= Required
               /\ cascade[t] => cascade'[t]
    <3>1. marks[t] \in {0, 1, 2, 3} /\ marks'[t] = IF t = s THEN level ELSE marks[t]
      BY <1>5
    <3>2. cascade'[t] = cascade[t]
      BY <1>5
    <3> QED
      BY <1>3, <1>5, <3>1, <3>2
  <2>2. marks'[s] >= Required
    BY <1>3, <1>5
  <2>3. CASE queue' = Append(queue, s)
    <3>1. Len(queue) + 1 \in 1..Len(queue') /\ queue'[Len(queue) + 1] = s
      BY <1>1, <1>2, <2>3
    <3>2. \A k \in 1..Len(queue) : k \in 1..Len(queue') /\ queue'[k] = queue[k]
      BY <1>1, <1>2, <2>3
    <3>3. \A t \in Syms : processed'[t] => processed[t] \/ t = s
      BY <1>5
    <3> QED
      BY <2>1, <2>2, <3>1, <3>2, <3>3
  <2>4. CASE queue' = queue /\ processed[s]
    <3>1. \A t \in Syms : processed'[t] => processed[t]
      BY <1>5, <2>4
    <3> QED
      BY <2>1, <2>2, <2>4, <3>1
  <2> QED
    BY <1>5, <2>3, <2>4
<1>6. ASSUME UNCHANGED marks
      PROVE  \A t \in Syms : marks'[t] >= marks[t]
  <2> TAKE t \in Syms
  <2>1. marks[t] \in {0, 1, 2, 3} /\ marks'[t] = marks[t]
    BY <1>6
  <2> QED
    BY <2>1
<1>7. CASE /\ ~Clean(s)
           /\ cascade' = [cascade EXCEPT ![s] = TRUE]
           /\ UNCHANGED <<marks, processed, queue>>
  BY <1>6, <1>7
<1>8. CASE /\ phase' \in {"conflict", "contradiction"}
           /\ UNCHANGED <<marks, cascade, processed, queue>>
  BY <1>6, <1>8
<1> QED
  BY KeepEffect, <1>4, <1>5, <1>7, <1>8

\* A call keeps all of the invariant but the part about its own traversal.
LEMMA KeepInv ==
  ASSUME TypeOK, EarlyInv, MarkInv, TraverseInv, ClimbInv,
         phase \in {"seed", "close"},
         NEW s \in Syms, NEW level \in {Required, Explicit},
         NEW by \in Syms \cup {NoSym}, climb = NoSym, ~Excluded(s),
         Keep(s, level, by), UNCHANGED <<rules, decision, current>>,
         ahead' \subseteq Syms, left' \subseteq left
  PROVE  TypeOK' /\ EarlyInv' /\ MarkInv' /\ TraverseInv' /\ ClimbInv'
<1>0. \/ UNCHANGED <<phase, closure>>
      \/ /\ Clean(s) /\ marks[s] < level /\ ~cascade[s]
         /\ marks' = [marks EXCEPT ![s] = level]
         /\ climb' = s
         /\ processed' = [processed EXCEPT ![s] = TRUE]
         /\ \/ ~processed[s] /\ queue' = Append(queue, s)
            \/ processed[s] /\ queue' = queue
         /\ introduced' \in [Syms -> Syms \cup {NoSym}]
         /\ UNCHANGED <<phase, cascade, blame>>
      \/ /\ ~Clean(s) /\ Kind[s] \notin Def
         /\ cascade' = [cascade EXCEPT ![s] = TRUE]
         /\ UNCHANGED <<phase, marks, introduced, climb, processed, queue, blame>>
      \/ /\ phase' \in {"conflict", "contradiction"}
         /\ blame' \in Syms \cup {NoSym}
         /\ UNCHANGED <<marks, cascade, introduced, climb, processed, queue>>
  BY KeepEffect
<1> USE DEF TypeOK, None, Container, Required, Explicit
<1>1. marks[s] \in {0, 1, 2, 3} /\ level \in {2, 3} /\ queue \in Seq(Syms)
  OBVIOUS
<1>2. \A t \in Syms : (Clean(t)' <=> Clean(t)) /\ (Excluded(t)' <=> Excluded(t))
  BY DEF Clean, Excluded, Pol
<1>3. \A t \in Syms : Contents(t)' = Contents(t)
  BY DEF Contents, Children, Excluded, Pol
<1>4. \A k \in 1..Len(queue) : queue[k] \in Syms
  BY <1>1
<1>5. current \in Syms \cup {NoSym} /\ left' \subseteq Nat /\ (left' # {} => left # {})
  OBVIOUS
<1>6. CASE UNCHANGED <<phase, closure>>
  <2>1. TypeOK'
    BY <1>5, <1>6 DEF closure
  <2>2. EarlyInv'
    BY <1>6 DEF closure, EarlyInv
  <2>3. MarkInv'
    BY <1>2, <1>6 DEF closure, MarkInv
  <2>4. TraverseInv' /\ ClimbInv'
    BY <1>3, <1>5, <1>6 DEF closure, TraverseInv, ClimbInv
  <2> QED
    BY <2>1, <2>2, <2>3, <2>4
<1>7. CASE /\ Clean(s) /\ marks[s] < level /\ ~cascade[s]
           /\ marks' = [marks EXCEPT ![s] = level]
           /\ climb' = s
           /\ processed' = [processed EXCEPT ![s] = TRUE]
           /\ \/ ~processed[s] /\ queue' = Append(queue, s)
              \/ processed[s] /\ queue' = queue
           /\ introduced' \in [Syms -> Syms \cup {NoSym}]
           /\ UNCHANGED <<phase, cascade, blame>>
  <2>1. queue' \in Seq(Syms)
    <3>1. s \in Syms /\ Append(queue, s) \in Seq(Syms)
      BY <1>1, AppendFacts
    <3>2. CASE queue' = queue
      BY <1>1, <3>2
    <3>3. CASE queue' = Append(queue, s)
      BY <3>1, <3>3
    <3> QED
      BY <1>7, <3>2, <3>3
  <2>2. TypeOK'
    BY <1>1, <1>5, <1>7, <2>1
  <2>3. EarlyInv'
    BY <1>7 DEF EarlyInv
  <2>4. MarkInv'
    BY <1>1, <1>2, <1>7 DEF MarkInv
  <2>5. \A k \in 1..Len(queue') : processed'[queue'[k]]
    <3>1. CASE queue' = queue
      BY <1>4, <1>7, <3>1 DEF TraverseInv
    <3>2. CASE queue' = Append(queue, s)
      <4>1. \A k \in 1..Len(queue') :
               queue'[k] = s \/ (k \in 1..Len(queue) /\ queue'[k] = queue[k])
        BY <1>1, <3>2, AppendFacts
      <4> QED
        BY <1>4, <1>7, <4>1 DEF TraverseInv
    <3> QED
      BY <1>7, <3>1, <3>2
  <2>6. TraverseInv'
    BY <1>3, <1>5, <1>7, <2>5 DEF TraverseInv
  <2>7. ClimbInv'
    <3> SUFFICES ASSUME NEW t \in Syms, marks'[t] # None, t # s, Parent[t] # NoSym
                 PROVE  marks'[Parent[t]] # None
      BY <1>7 DEF ClimbInv
    <3>1. Parent[t] \in Syms /\ t # climb
      BY SymbolsAssumption DEF Syms, NoSym
    <3>2. marks[Parent[t]] # None
      BY <1>7, <3>1 DEF ClimbInv
    <3> QED
      BY <1>1, <1>7, <3>1, <3>2
  <2> QED
    BY <2>2, <2>3, <2>4, <2>6, <2>7
<1>8. CASE /\ ~Clean(s) /\ Kind[s] \notin Def
           /\ cascade' = [cascade EXCEPT ![s] = TRUE]
           /\ UNCHANGED <<phase, marks, introduced, climb, processed, queue, blame>>
  <2>1. TypeOK'
    BY <1>5, <1>8
  <2>2. EarlyInv' /\ ClimbInv'
    BY <1>8 DEF EarlyInv, ClimbInv
  <2>3. MarkInv'
    BY <1>2, <1>8 DEF MarkInv
  <2>4. TraverseInv'
    BY <1>3, <1>5, <1>8 DEF TraverseInv
  <2> QED
    BY <2>1, <2>2, <2>3, <2>4
<1>9. CASE /\ phase' \in {"conflict", "contradiction"}
           /\ blame' \in Syms \cup {NoSym}
           /\ UNCHANGED <<marks, cascade, introduced, climb, processed, queue>>
  <2>1. TypeOK'
    BY <1>5, <1>9 DEF Finished
  <2>2. EarlyInv' /\ ClimbInv'
    BY <1>9 DEF EarlyInv, ClimbInv
  <2>3. MarkInv'
    BY <1>2, <1>9 DEF MarkInv
  <2>4. TraverseInv'
    BY <1>3, <1>5, <1>9 DEF TraverseInv
  <2> QED
    BY <2>1, <2>2, <2>3, <2>4
<1> QED
  BY <1>0, <1>6, <1>7, <1>8, <1>9
\* Nor does it take anything from a traversal, and the symbol that the calling
\* one ticks off is pulled in.
LEMMA KeepPulled ==
  ASSUME TypeOK, MarkInv, PulledInv,
         phase \in {"seed", "close"},
         NEW s \in Syms, NEW level \in {Required, Explicit},
         NEW by \in Syms \cup {NoSym}, climb = NoSym, ~Excluded(s),
         Keep(s, level, by), UNCHANGED <<rules, decision, current>>,
         \A y \in left \ left' : IF Kind[current] \in Def THEN y = s
                                 ELSE Refs[current][y] = s /\ Clean(s)
  PROVE  PulledInv'
<1>1. \A t \in Syms : Contents(t)' = Contents(t)
  BY DEF Contents, Children, Excluded, Pol
<1>2. \A t \in Syms : /\ marks[t] >= Required => marks'[t] >= Required
                      /\ cascade[t] => cascade'[t]
                      /\ (\E k \in 1..Len(queue) : queue[k] = t) =>
                           \E k \in 1..Len(queue') : queue'[k] = t
                      /\ processed'[t] => \/ processed[t]
                           \/ \E k \in 1..Len(queue') : queue'[k] = t
  BY KeepMonotone
<1> SUFFICES ASSUME phase' \notin {"conflict", "contradiction"},
                    NEW t \in Syms, processed'[t],
                    ~ \E k \in 1..Len(queue') : queue'[k] = t
             PROVE  Pulled(t)'
  BY DEF PulledInv
<1>3. /\ marks'[s] >= Required \/ cascade'[s]
      /\ Clean(s) => marks'[s] >= Required
  BY KeepMonotone
<1>4. Pulled(t)
  BY <1>2 DEF PulledInv
<1>5. ASSUME t \notin Builtin, Kind[t] \in Def, NEW c \in Contents(t)
      PROVE  Pending(t, c)' \/ marks'[c] >= Required \/ cascade'[c]
  <2>1. c \in Syms
    BY DEF Contents, Children
  <2>2. Pending(t, c) \/ marks[c] >= Required \/ cascade[c]
    BY <1>4, <1>5 DEF Pulled
  <2>3. CASE Pending(t, c) /\ c \notin left'
    BY <1>3, <1>5, <2>3 DEF Pending
  <2> QED
    BY <1>2, <2>1, <2>2, <2>3 DEF Pending
<1>6. ASSUME Kind[t] \notin Def, NEW i \in DOMAIN Refs[t]
      PROVE  Pending(t, i)' \/ marks'[Refs[t][i]] >= Required
  <2>1. Refs[t][i] \in Syms
    BY SymbolsAssumption
  <2>2. Pending(t, i) \/ marks[Refs[t][i]] >= Required
    BY <1>4, <1>6 DEF Pulled
  <2>3. CASE Pending(t, i) /\ i \notin left'
    BY <1>3, <1>6, <2>3 DEF Pending
  <2> QED
    BY <1>2, <2>1, <2>2, <2>3 DEF Pending
<1> QED
  BY <1>1, <1>5, <1>6 DEF Pulled

-----------------------------------------------------------------------------
(* The steps *)

\* Steps that leave the closure and the decisions alone.
LEMMA QuietStep ==
  ASSUME IInv, UNCHANGED <<rules, decision, current, left, closure>>,
         ahead' \subseteq Syms,
         phase' \in {"start", "decide", "seed", "close"} \cup Finished,
         phase \notin {"conflict", "contradiction"},
         phase' \in {"start", "decide", "dead rule"} =>
            phase \in {"start", "decide", "dead rule"},
         phase' = "done" => queue = <<>> /\ left = {} /\ climb = NoSym
  PROVE  IInv'
<1> USE DEF IInv, closure
<1>1. TypeOK'
  BY DEF TypeOK
<1>2. \A t \in Syms : /\ Clean(t)' <=> Clean(t)
                      /\ Excluded(t)' <=> Excluded(t)
                      /\ Contents(t)' = Contents(t)
  BY DEF Clean, Contents, Children, Excluded, Pol
<1>3. EarlyInv' /\ DoneInv'
  BY DEF EarlyInv, DoneInv
<1>4. MarkInv' /\ ClimbInv'
  BY <1>2 DEF MarkInv, ClimbInv
<1>5. TraverseInv'
  <2>1. current \in Syms \cup {NoSym}
    BY DEF TypeOK
  <2> QED
    BY <1>2, <2>1 DEF TraverseInv
<1>6. PulledInv'
  BY <1>2 DEF PulledInv, Pulled, Pending
<1> QED
  BY <1>1, <1>3, <1>4, <1>5, <1>6

LEMMA DecideInv == IInv /\ Decide => IInv'
<1> SUFFICES ASSUME IInv, Decide PROVE IInv'
  OBVIOUS
<1> USE DEF IInv, Decide, Later, closure
<1> DEFINE s == Least(ahead)
           inherited == IF Parent[s] = NoSym THEN 0 ELSE decision[Parent[s]]
<1>1. ahead \in SUBSET Nat /\ ahead \subseteq Syms /\ ahead # {}
  BY SymbolsAssumption DEF TypeOK, Syms
<1>2. s \in Syms
  BY <1>1, LeastIsIn
<1>3. rules \in RuleSets /\ decision \in [Syms -> 0..Len(rules)]
  BY DEF TypeOK
<1>4. Len(rules) \in Nat
  BY <1>3, RulesAssumption
<1>5. inherited \in 0..Len(rules)
  <2>1. Parent[s] = NoSym \/ Parent[s] \in Syms
    BY <1>2, SymbolsAssumption
  <2> QED
    BY <1>3, <1>4, <2>1
<1>6. Direct(s) \in 0..Len(rules)
  BY <1>2, <1>3, DirectType
<1>7. TypeOK'
  BY <1>1, <1>2, <1>3, <1>5, <1>6 DEF TypeOK
<1>8. EarlyInv' /\ DoneInv'
  BY DEF EarlyInv, DoneInv
<1>9. MarkInv' /\ ClimbInv'
  BY DEF EarlyInv, MarkInv, ClimbInv, None, Container, Required
<1>10. TraverseInv' /\ PulledInv'
  BY DEF EarlyInv, TraverseInv, PulledInv
<1> QED
  BY <1>7, <1>8, <1>9, <1>10

LEMMA SeedInv == IInv /\ Seed => IInv'
<1> SUFFICES ASSUME IInv, Seed PROVE IInv'
  OBVIOUS
<1> DEFINE s == Least(ahead)
<1>1. /\ phase = "seed" /\ climb = NoSym /\ ahead' \subseteq Syms
      /\ UNCHANGED <<rules, decision, current, left>>
  BY DEF Seed, IInv, TypeOK
<1>2. s \in Syms
  <2>1. ahead \in SUBSET Nat /\ ahead \subseteq Syms /\ ahead # {}
    BY SymbolsAssumption DEF Seed, IInv, TypeOK, Syms
  <2> QED
    BY <2>1, LeastIsIn
<1>3. CASE Pol(s) = "keep"
  <2>1. Keep(s, Explicit, NoSym) /\ ~Excluded(s)
    BY <1>3 DEF Seed, Excluded
  <2>2. Explicit \in {Required, Explicit} /\ NoSym \in Syms \cup {NoSym}
    OBVIOUS
  <2>3. TypeOK' /\ EarlyInv' /\ MarkInv' /\ TraverseInv' /\ ClimbInv'
    BY <1>1, <1>2, <2>1, <2>2, KeepInv DEF IInv
  <2>4. PulledInv'
    BY <1>1, <1>2, <2>1, <2>2, KeepPulled DEF IInv
  <2>5. phase' # "done"
    BY <1>1, <1>2, <2>1, <2>2, KeepEffect DEF IInv, closure
  <2> QED
    BY <2>3, <2>4, <2>5 DEF IInv, DoneInv
<1>4. CASE Pol(s) # "keep"
  <2>1. UNCHANGED <<phase, closure>>
    BY <1>4 DEF Seed
  <2> QED
    BY <1>1, <2>1, QuietStep DEF IInv
<1> QED
  BY <1>3, <1>4

\* The symbol that a traversal step keeps, and why it may be kept.
LEMMA TraverseTarget ==
  ASSUME IInv, Traverse
  PROVE  \E s \in Syms, level \in {Required, Explicit} :
            /\ Keep(s, level, current) /\ ~Excluded(s)
            /\ \A y \in left \ left' : IF Kind[current] \in Def THEN y = s
                                       ELSE Refs[current][y] = s /\ Clean(s)
<1> DEFINE x == Least(left)
<1>1. x \in left /\ left' = left \ {x}
  <2>1. left \in SUBSET Nat /\ left # {}
    BY DEF Traverse, IInv, TypeOK
  <2> QED
    BY <2>1, LeastIsIn DEF Traverse
<1>2. /\ current \in Syms \ Builtin /\ processed[current]
      /\ left \subseteq IF Kind[current] \in Def THEN Contents(current)
                        ELSE DOMAIN Refs[current]
  BY <1>1 DEF IInv, TraverseInv
<1>3. \A y \in left \ left' : y = x
  BY <1>1
<1>4. CASE Kind[current] \in Def
  <2>1. x \in Syms /\ ~Excluded(x)
    BY <1>1, <1>2, <1>4 DEF Contents, Children
  <2>2. Keep(x, IF Pol(x) = "keep" THEN Explicit ELSE Required, current)
    BY <1>4 DEF Traverse
  <2>3. CASE Pol(x) = "keep"
    BY <1>3, <1>4, <2>1, <2>2, <2>3
  <2>4. CASE Pol(x) # "keep"
    BY <1>3, <1>4, <2>1, <2>2, <2>4
  <2> QED
    BY <2>3, <2>4
<1>5. CASE Kind[current] \notin Def
  <2>1. x \in DOMAIN Refs[current]
    BY <1>1, <1>2, <1>5
  <2>2. Clean(current)
    BY <1>2 DEF IInv, MarkInv
  <2>3. Refs[current][x] \in Syms /\ ~Excluded(Refs[current][x])
    BY <1>2, <2>1, <2>2, SymbolsAssumption DEF Clean
  <2>4. Clean(Refs[current][x])
    BY <1>2, <2>1, <2>3, SymbolsAssumption, DefIsClean
  <2>5. Keep(Refs[current][x], Required, current)
    BY <1>5 DEF Traverse
  <2> QED
    BY <1>3, <1>5, <2>3, <2>4, <2>5
<1> QED
  BY <1>4, <1>5

LEMMA TraverseStep == IInv /\ Traverse => IInv'
<1> SUFFICES ASSUME IInv, Traverse PROVE IInv'
  OBVIOUS
<1>1. /\ phase = "close" /\ climb = NoSym /\ ahead' \subseteq Syms /\ left' \subseteq left
      /\ UNCHANGED <<rules, decision, current>> /\ current \in Syms \cup {NoSym}
  BY DEF Traverse, IInv, TypeOK
<1>2. PICK s \in Syms, level \in {Required, Explicit} :
         /\ Keep(s, level, current) /\ ~Excluded(s)
         /\ \A y \in left \ left' : IF Kind[current] \in Def THEN y = s
                                    ELSE Refs[current][y] = s /\ Clean(s)
  BY TraverseTarget
<1>3. TypeOK' /\ EarlyInv' /\ MarkInv' /\ TraverseInv' /\ ClimbInv'
  BY <1>1, <1>2, KeepInv DEF IInv
<1>4. PulledInv'
  BY <1>1, <1>2, KeepPulled DEF IInv
<1>5. phase' # "done"
  BY <1>1, <1>2, KeepEffect DEF IInv, closure
<1> QED
  BY <1>3, <1>4, <1>5 DEF IInv, DoneInv
LEMMA ClimbStep == IInv /\ Climb => IInv'
<1> SUFFICES ASSUME IInv, Climb PROVE IInv'
  OBVIOUS
<1> USE DEF IInv
<1> DEFINE p == Parent[climb]
<1>1. /\ climb \in Syms
      /\ UNCHANGED <<rules, phase, ahead, decision, cascade, queue, processed,
                     current, left, blame>>
  BY DEF Climb, TypeOK
<1>2. /\ phase \notin {"start", "decide", "dead rule", "done"}
      /\ phase' = phase
  BY DEF Climb, EarlyInv, DoneInv
<1>3. EarlyInv' /\ DoneInv'
  BY <1>2 DEF EarlyInv, DoneInv
<1>4. \A t \in Syms : /\ Clean(t)' <=> Clean(t)
                      /\ Excluded(t)' <=> Excluded(t)
                      /\ Contents(t)' = Contents(t)
  BY <1>1 DEF Clean, Contents, Children, Excluded, Pol
<1>5. TraverseInv'
  <2>1. current \in Syms \cup {NoSym} /\ UNCHANGED <<queue, processed, left, current>>
    BY <1>1 DEF TypeOK
  <2> QED
    BY <1>4, <2>1 DEF TraverseInv
<1>6. CASE p = NoSym \/ marks[p] >= Container
  <2>1. UNCHANGED <<marks, introduced>> /\ climb' = NoSym
    BY <1>6 DEF Climb, Covered
  <2>2. TypeOK'
    BY <1>1, <2>1 DEF TypeOK
  <2>3. MarkInv' /\ PulledInv'
    BY <1>1, <1>4, <2>1 DEF MarkInv, PulledInv, Pulled, Pending
  <2>4. ClimbInv'
    <3>1. p = NoSym \/ marks[p] # None
      BY <1>6 DEF Container, None
    <3> QED
      BY <2>1, <3>1 DEF ClimbInv
  <2> QED
    BY <1>3, <1>5, <2>2, <2>3, <2>4
<1>7. CASE p # NoSym /\ ~(marks[p] >= Container)
  <2>1. /\ marks' = [marks EXCEPT ![p] = Container]
        /\ introduced' = [introduced EXCEPT ![p] = IF @ = NoSym THEN climb ELSE @]
        /\ climb' = p
    BY <1>7 DEF Climb, Covered, Introduce
  <2>2. p \in Syms /\ Kind[p] \in Def
    BY <1>1, <1>7, SymbolsAssumption
  <2>3. marks[p] = None /\ marks[p] # Container
    <3>1. marks[p] \in {0, 1, 2, 3}
      BY <2>2 DEF TypeOK, None, Container, Required, Explicit
    <3> QED
      BY <1>7, <3>1 DEF None, Container
  <2>4. TypeOK'
    BY <1>1, <2>1, <2>2 DEF TypeOK
  <2>5. \A t \in Syms : /\ marks'[t] >= Required <=> marks[t] >= Required
                        /\ marks[t] # None => marks'[t] # None
                        /\ marks'[t] = Container => t = p \/ marks[t] = Container
                        /\ marks'[t] # None => t = p \/ marks[t] # None
    BY <2>1, <2>2, <2>3 DEF TypeOK, None, Container, Required, Explicit
  <2>6. MarkInv'
    BY <1>1, <1>4, <2>2, <2>5 DEF MarkInv
  <2>7. ClimbInv'
    <3> SUFFICES ASSUME NEW t \in Syms, marks'[t] # None, t # p, Parent[t] # NoSym
                 PROVE  marks'[Parent[t]] # None
      BY <2>1 DEF ClimbInv
    <3>1. Parent[t] \in Syms
      BY SymbolsAssumption
    <3>2. CASE t = climb
      BY <2>1, <2>2, <3>2 DEF TypeOK, None, Container
    <3>3. CASE t # climb
      BY <2>5, <3>1, <3>3 DEF ClimbInv
    <3> QED
      BY <3>2, <3>3
  <2>8. PulledInv'
    <3>1. \A t \in Syms : \A c \in Contents(t) : c \in Syms
      BY DEF Contents, Children
    <3>2. \A t \in Syms : \A i \in DOMAIN Refs[t] : Refs[t][i] \in Syms
      BY SymbolsAssumption
    <3>3. \A t \in Syms : Pulled(t) => Pulled(t)'
      BY <1>1, <1>4, <2>5, <3>1, <3>2 DEF Pulled, Pending
    <3> QED
      BY <1>1, <3>3 DEF PulledInv
  <2> QED
    BY <1>3, <1>5, <2>4, <2>6, <2>7, <2>8
<1> QED
  BY <1>6, <1>7

LEMMA ProcessStep == IInv /\ Process => IInv'
<1> SUFFICES ASSUME IInv, Process PROVE IInv'
  OBVIOUS
<1> USE DEF IInv
<1> DEFINE h == Head(queue)
<1>1. /\ queue \in Seq(Syms) /\ queue # <<>> /\ queue' = Tail(queue)
      /\ current' = h /\ left = {} /\ phase = "close"
      /\ UNCHANGED <<rules, phase, ahead, decision, marks, cascade, introduced,
                     processed, climb, blame>>
  BY DEF Process, TypeOK
<1>2. /\ h \in Syms /\ h = queue[1] /\ Len(queue) \in Nat /\ 1 \in 1..Len(queue)
      /\ queue' \in Seq(Syms) /\ Len(queue') = Len(queue) - 1
      /\ \A k \in 1..Len(queue') : k + 1 \in 1..Len(queue) /\ queue'[k] = queue[k + 1]
  BY <1>1
<1>3. left' = IF h \in Builtin THEN {}
              ELSE IF Kind[h] \in Def THEN Contents(h) ELSE DOMAIN Refs[h]
  BY DEF Process
<1>4. left' \subseteq Nat
  <2>1. Contents(h) \subseteq Nat
    BY SymbolsAssumption DEF Contents, Children, Syms
  <2>2. DOMAIN Refs[h] \subseteq Nat
    BY <1>2, SymbolsAssumption
  <2> QED
    BY <1>3, <2>1, <2>2
<1>5. TypeOK'
  BY <1>1, <1>2, <1>4 DEF TypeOK
<1>6. \A t \in Syms : /\ Clean(t)' <=> Clean(t)
                      /\ Excluded(t)' <=> Excluded(t)
                      /\ Contents(t)' = Contents(t)
  BY <1>1 DEF Clean, Contents, Children, Excluded, Pol
<1>7. EarlyInv' /\ DoneInv' /\ MarkInv' /\ ClimbInv'
  BY <1>1, <1>6 DEF EarlyInv, DoneInv, MarkInv, ClimbInv
<1>8. TraverseInv'
  <2>1. \A k \in 1..Len(queue') : processed'[queue'[k]]
    BY <1>1, <1>2 DEF TraverseInv
  <2>2. processed[h]
    BY <1>2 DEF TraverseInv
  <2> QED
    BY <1>1, <1>2, <1>3, <1>6, <2>1, <2>2 DEF TraverseInv
<1>9. PulledInv'
  <2> SUFFICES ASSUME NEW t \in Syms, processed[t],
                      ~ \E k \in 1..Len(queue') : queue'[k] = t
               PROVE  Pulled(t)'
    BY <1>1 DEF PulledInv
  <2>1. CASE t = h
    <3>1. h \in Builtin => Kind[h] \in Def
      BY SymbolsAssumption
    <3>4. Contents(t)' = Contents(t) /\ current' = t
      BY <1>1, <1>2, <1>6, <2>1
    <3>2. h \notin Builtin /\ Kind[h] \in Def => left' = Contents(h)
      BY <1>3
    <3>3. Kind[h] \notin Def => left' = DOMAIN Refs[h]
      BY <1>3, <3>1
    <3>5. \A x : x \in left' => Pending(t, x)'
      BY <3>4 DEF Pending
    <3>6. ASSUME t \notin Builtin, Kind[t] \in Def, NEW c \in Contents(t)'
          PROVE  Pending(t, c)'
      BY <2>1, <3>2, <3>4, <3>5, <3>6
    <3>7. ASSUME Kind[t] \notin Def, NEW i \in DOMAIN Refs[t]
          PROVE  Pending(t, i)'
      BY <2>1, <3>3, <3>5, <3>7
    <3> QED
      BY <3>6, <3>7 DEF Pulled
  <2>2. CASE t # h
    <3>1. ~ \E k \in 1..Len(queue) : queue[k] = t
      <4> SUFFICES ASSUME NEW k \in 1..Len(queue), queue[k] = t PROVE FALSE
        OBVIOUS
      <4>1. k # 1 /\ k - 1 \in 1..Len(queue')
        BY <1>2, <2>2
      <4>2. queue'[k - 1] = queue[(k - 1) + 1] /\ (k - 1) + 1 = k
        BY <1>2, <4>1
      <4> QED
        BY <4>1, <4>2
    <3>2. Pulled(t)
      BY <1>1, <3>1 DEF PulledInv
    <3> QED
      BY <1>1, <1>6, <3>2 DEF Pulled, Pending
  <2> QED
    BY <2>1, <2>2
<1> QED
  BY <1>5, <1>7, <1>8, <1>9

LEMMA NextIInv == IInv /\ [Next]_vars => IInv'
<1> SUFFICES ASSUME IInv, [Next]_vars PROVE IInv'
  OBVIOUS
<1>1. ahead \subseteq Syms /\ Syms \ Builtin \subseteq Syms
  BY DEF IInv, TypeOK
<1>2. CASE EvaluateRules
  BY <1>1, <1>2, QuietStep DEF EvaluateRules, Finished
<1>3. CASE Decide
  BY <1>3, DecideInv
<1>4. CASE EndDecide
  BY <1>1, <1>4, QuietStep DEF EndDecide
<1>5. CASE Seed
  BY <1>5, SeedInv
<1>6. CASE EndSeed
  BY <1>1, <1>6, QuietStep DEF EndSeed
<1>7. CASE Process
  BY <1>7, ProcessStep
<1>8. CASE Traverse
  BY <1>8, TraverseStep
<1>9. CASE Climb
  BY <1>9, ClimbStep
<1>10. CASE CheckEnums
  BY <1>1, <1>10, QuietStep DEF CheckEnums, Finished
<1>11. CASE UNCHANGED vars
  <2> USE <1>11 DEF vars, IInv
  <2>1. TypeOK' /\ EarlyInv' /\ ClimbInv' /\ DoneInv'
    BY DEF TypeOK, EarlyInv, ClimbInv, DoneInv
  <2>2. MarkInv'
    BY DEF MarkInv, Clean, Excluded, Pol
  <2>3. TraverseInv'
    BY DEF TraverseInv, Contents, Children, Excluded, Pol
  <2>4. PulledInv'
    BY DEF PulledInv, Pulled, Pending, Contents, Children, Excluded, Pol
  <2> QED
    BY <2>1, <2>2, <2>3, <2>4
<1> QED
  BY <1>2, <1>3, <1>4, <1>5, <1>6, <1>7, <1>8, <1>9, <1>10, <1>11 DEF Next

-----------------------------------------------------------------------------
(* The results *)

LEMMA Inductive == Spec => []IInv
<1>1. Init => IInv
  BY InitIInv
<1>2. IInv /\ [Next]_vars => IInv'
  BY NextIInv
<1> QED
  BY <1>1, <1>2, PTL DEF Spec

\* Every variable of the selection stays in its set.
THEOREM TypeCorrect == Spec => []TypeOK
<1>1. IInv => TypeOK
  BY DEF IInv
<1> QED
  BY <1>1, Inductive, PTL

\* Once select has succeeded, every kept symbol has its enclosing definition
\* kept, and the types a kept field or method refers to fully kept.
THEOREM SelectionIsClosed == Spec => []NothingDangles
<1>1. IInv => NothingDangles
  <2> SUFFICES ASSUME IInv, phase = "done", NEW s \in Syms, Kept(s)
               PROVE  /\ Parent[s] # NoSym => Kept(Parent[s])
                      /\ \A i \in DOMAIN Refs[s] :
                           Kept(Refs[s][i]) /\ marks[Refs[s][i]] >= Required
    BY DEF NothingDangles
  <2>1. queue = <<>> /\ left = {} /\ climb = NoSym
    BY DEF IInv, DoneInv
  <2>2. \A t \in Syms : marks[t] \in {None, Container, Required, Explicit}
    BY DEF IInv, TypeOK
  <2>3. \A t \in Syms : Kind[t] \in Def => ~cascade[t]
    BY DefIsClean DEF IInv, MarkInv
  <2>4. ASSUME Parent[s] # NoSym PROVE Kept(Parent[s])
    <3>1. Parent[s] \in Syms /\ Kind[Parent[s]] \in Def /\ s # NoSym
      BY <2>4, SymbolsAssumption DEF Syms, NoSym
    <3>2. marks[Parent[s]] # None
      BY <2>1, <2>4, <3>1 DEF IInv, ClimbInv, Kept
    <3> QED
      BY <2>3, <3>1, <3>2 DEF Kept
  <2>5. ASSUME NEW i \in DOMAIN Refs[s]
        PROVE  Kept(Refs[s][i]) /\ marks[Refs[s][i]] >= Required
    <3>1. Kind[s] \notin Def /\ Refs[s][i] \in Syms /\ Kind[Refs[s][i]] \in Def
      <4>1. Refs[s] \in Seq(Syms) /\ Refs[s] # <<>> /\ Kind[Refs[s][i]] \in Def
        BY SymbolsAssumption
      <4>2. Kind[s] \in {"field", "method"}
        BY <4>1, SymbolsAssumption
      <4> QED
        BY <4>1, <4>2 DEF Def
    <3>2. processed[s]
      BY <2>2, <3>1 DEF IInv, MarkInv, Kept, None, Container, Required, Explicit
    <3>3. Pulled(s)
      BY <2>1, <3>2 DEF IInv, PulledInv
    <3>4. marks[Refs[s][i]] >= Required
      BY <2>1, <3>1, <3>3 DEF Pulled, Pending
    <3> QED
      BY <2>3, <3>1, <3>4 DEF Kept, None, Required
  <2> QED
    BY <2>4, <2>5
<1> QED
  BY <1>1, Inductive, PTL

\* At no point is a symbol that a rule excludes marked as more than a shell.
THEOREM ExclusionIsRespected == Spec => []ExcludedStaysOut
<1>1. IInv => ExcludedStaysOut
  <2> SUFFICES ASSUME IInv, NEW s \in Syms, Excluded(s) PROVE marks[s] <= Container
    BY DEF ExcludedStaysOut
  <2>1. marks[s] \in {None, Container, Required, Explicit} /\ ~(marks[s] >= Required)
    BY DEF IInv, TypeOK, MarkInv
  <2> QED
    BY <2>1 DEF None, Container, Required, Explicit
<1> QED
  BY <1>1, Inductive, PTL

\* Once select has succeeded, a fully kept definition has each of its fields,
\* values or methods kept, excluded, or deleted with the type it refers to.
THEOREM DefinitionsAreWhole == Spec => []ContentComplete
<1>1. IInv => ContentComplete
  <2> SUFFICES ASSUME IInv, phase = "done", NEW s \in Syms \ Builtin,
                      marks[s] >= Required, Kind[s] \in Def,
                      NEW c \in Children(s), Kind[c] \notin Def, ~Excluded(c)
               PROVE  marks[c] >= Required \/ cascade[c]
    BY DEF ContentComplete
  <2>1. queue = <<>> /\ left = {}
    BY DEF IInv, DoneInv
  <2>2. Pulled(s)
    BY <2>1 DEF IInv, MarkInv, PulledInv
  <2> QED
    BY <2>1, <2>2 DEF Pulled, Pending, Contents, Children
<1> QED
  BY <1>1, Inductive, PTL

\* The three together: what the run checks, and what the deletion starts from.
THEOREM SelectionHolds == Spec => []SelectionIsSound
<1> QED
  BY SelectionIsClosed, ExclusionIsRespected, DefinitionsAreWhole, PTL DEF SelectionIsSound

\* No step of the closure lowers a mark, so the order in which symbols are
\* reached cannot take back what was decided.
THEOREM MarksOnlyRise == Spec => MarksAreRaised
<1>1. IInv /\ [Next]_vars => [\A s \in Syms : marks'[s] >= marks[s]]_marks
  <2> SUFFICES ASSUME IInv, Next, NEW t \in Syms PROVE marks'[t] >= marks[t]
    BY DEF vars
  <2>1. marks[t] \in {0, 1, 2, 3}
    BY DEF IInv, TypeOK, None, Container, Required, Explicit
  <2>2. CASE UNCHANGED marks
    BY <2>1, <2>2
  <2>3. CASE Seed /\ ~UNCHANGED marks
    <3> DEFINE s == Least(ahead)
    <3>1. ahead \in SUBSET Nat /\ ahead \subseteq Syms /\ ahead # {} /\ climb = NoSym
      BY <2>3, SymbolsAssumption DEF Seed, IInv, TypeOK, Syms
    <3>2. s \in Syms
      BY <3>1, LeastIsIn
    <3>3. Keep(s, Explicit, NoSym) /\ ~Excluded(s)
      BY <2>3 DEF Seed, Excluded, closure
    <3> QED
      BY <3>1, <3>2, <3>3, KeepMonotone DEF IInv
  <2>4. CASE Traverse
    <3>1. PICK s \in Syms, level \in {Required, Explicit} :
             Keep(s, level, current) /\ ~Excluded(s)
      BY <2>4, TraverseTarget
    <3>2. climb = NoSym /\ current \in Syms \cup {NoSym}
      BY <2>4 DEF Traverse, IInv, TypeOK
    <3> QED
      BY <3>1, <3>2, KeepMonotone DEF IInv
  <2>5. CASE Climb /\ ~UNCHANGED marks
    <3>1. /\ marks' = [marks EXCEPT ![Parent[climb]] = Container]
          /\ ~(marks[Parent[climb]] >= Container)
      BY <2>5 DEF Climb, Covered
    <3> QED
      BY <2>1, <3>1 DEF IInv, TypeOK, None, Container, Required, Explicit
  <2> QED
    BY <2>2, <2>3, <2>4, <2>5
    DEF Next, EvaluateRules, Decide, EndDecide, EndSeed, Process, CheckEnums, closure
<1> QED
  BY <1>1, Inductive, PTL DEF Spec, MarksAreRaised

-----------------------------------------------------------------------------
(* The symbols around a symbol                                             *)

LEMMA ParentIs ==
    ASSUME NEW s \in Syms
    PROVE /\ s \in Nat /\ s # NoSym /\ Parent[s] \in Nat
          /\ Parent[s] # NoSym => Parent[s] \in Syms /\ Parent[s] < s
  BY SymbolsAssumption DEF Syms, NoSym

LEMMA AboveIs ==
    Above = [s \in Syms |-> IF Parent[s] = NoSym THEN {} ELSE {Parent[s]} \cup Above[Parent[s]]]
<1> DEFINE Up(f, s) == IF Parent[s] = NoSym THEN {} ELSE {Parent[s]} \cup f[Parent[s]]
           Good(f, m) == f = [s \in 1..m |-> Up(f, s)]
           T == {m \in 0..N : ~ \E f : Good(f, m)}
<1>1. N \in Nat /\ Syms = 1..N /\ T \in SUBSET Nat
  BY SymbolsAssumption DEF Syms
<1>2. T = {}
  <2> SUFFICES ASSUME T # {} PROVE FALSE
    OBVIOUS
  <2> HIDE DEF T
  <2>1. PICK m \in T : \A k \in T : m <= k
    BY <1>1, LeastIsIn
  <2>2. m \in 0..N /\ ~ \E f : Good(f, m)
    BY DEF T
  <2>3. m # 0
    <3>1. Good([s \in 1..0 |-> Up(<<>>, s)], 0)
      OBVIOUS
    <3> QED
      BY <2>2, <3>1
  <2>4. m - 1 \in 0..N /\ m - 1 \notin T /\ m \in Nat
    BY <1>1, <2>1, <2>2, <2>3
  <2>5. PICK f : Good(f, m - 1)
    BY <2>4 DEF T
  <2> DEFINE g == [s \in 1..m |-> Up(f, s)]
  <2>6. \A s \in 1..m : Parent[s] # NoSym => Parent[s] \in 1..(m - 1)
    <3>1. ASSUME NEW s \in 1..m, Parent[s] # NoSym PROVE Parent[s] \in 1..(m - 1)
      <4>1. s \in Syms
        BY <1>1, <2>2
      <4>2. Parent[s] \in 1..N /\ Parent[s] < s
        BY <1>1, <3>1, <4>1, ParentIs
      <4> QED
        BY <2>4, <3>1, <4>2
    <3> QED
      BY <3>1
  <2>7. \A s \in 1..(m - 1) : g[s] = f[s]
    <3>1. \A s \in 1..m : g[s] = Up(f, s)
      OBVIOUS
    <3>2. \A s \in 1..(m - 1) : f[s] = Up(f, s)
      BY <2>5
    <3>3. \A s \in 1..(m - 1) : s \in 1..m
      BY <2>4
    <3> HIDE DEF g, Up
    <3> QED
      BY <3>1, <3>2, <3>3
  <2>8. \A s \in 1..m : Up(f, s) = Up(g, s)
    <3> HIDE DEF g
    <3> QED
      BY <2>6, <2>7
  <2>9. Good(g, m)
    BY <2>8
  <2> HIDE DEF g, Good
  <2> QED
    BY <2>2, <2>9
<1>3. PICK f : Good(f, N)
  <2>1. \A k \in 0..N : k \notin T => \E f : Good(f, k)
    OBVIOUS
  <2>2. N \in 0..N
    BY <1>1
  <2> HIDE DEF T, Good
  <2> QED
    BY <1>2, <2>1, <2>2
<1>4. f = [s \in Syms |-> Up(f, s)]
  BY <1>1, <1>3
<1> QED
  BY <1>4 DEF Above

LEMMA AboveOf ==
    ASSUME NEW s \in Syms
    PROVE Above[s] = IF Parent[s] = NoSym THEN {} ELSE {Parent[s]} \cup Above[Parent[s]]
  BY AboveIs

\* With a symbol, all around it.
LEMMA AboveClosed ==
    ASSUME NEW d \in Syms, NEW s \in Above[d]
    PROVE s \in Syms /\ (Parent[s] # NoSym => Parent[s] \in Above[d])
<1> DEFINE Fine(x) == s \in Above[x] => s \in Syms /\ (Parent[s] # NoSym => Parent[s] \in Above[x])
           T == {x \in Syms : ~Fine(x)}
<1>1. T \in SUBSET Nat
  BY ParentIs
<1>2. \A x \in Syms : x \in T <=> ~Fine(x)
  OBVIOUS
<1>3. T \subseteq Syms
  OBVIOUS
<1> HIDE DEF T
<1>4. T = {}
  <2> SUFFICES ASSUME T # {} PROVE FALSE
    OBVIOUS
  <2>1. PICK x \in T : \A y \in T : x <= y
    BY <1>1, LeastIsIn
  <2>2. x \in Syms /\ ~Fine(x)
    BY <1>2, <1>3
  <2>3. s \in Above[x] /\ Parent[x] # NoSym
    BY <2>2, AboveOf
  <2>4. Parent[x] \in Syms /\ Parent[x] < x /\ x \in Nat /\ Parent[x] \in Nat
    BY <2>2, <2>3, ParentIs
  <2>5. Fine(Parent[x])
    BY <1>2, <2>1, <2>4
  <2>6. Above[x] = {Parent[x]} \cup Above[Parent[x]]
    BY <2>2, <2>3, AboveOf
  <2>7. CASE s = Parent[x]
    BY <2>2, <2>4, <2>6, <2>7, AboveOf
  <2>8. CASE s # Parent[x]
    BY <2>2, <2>3, <2>5, <2>6, <2>8
  <2> QED
    BY <2>7, <2>8
<1>5. Fine(d)
  BY <1>2, <1>4
<1> QED
  BY <1>5

\* What holds of a symbol and passes to parents holds of all around it.
LEMMA AboveAll ==
    ASSUME NEW M \in SUBSET Syms, \A x \in M : Parent[x] # NoSym => Parent[x] \in M, NEW d \in M
    PROVE Above[d] \subseteq M
<1> DEFINE T == {x \in M : ~(Above[x] \subseteq M)}
<1>1. T \in SUBSET Nat
  BY ParentIs
<1>2. \A x \in M : x \in T <=> ~(Above[x] \subseteq M)
  OBVIOUS
<1>3. T \subseteq M
  OBVIOUS
<1> HIDE DEF T
<1>4. T = {}
  <2> SUFFICES ASSUME T # {} PROVE FALSE
    OBVIOUS
  <2>1. PICK x \in T : \A y \in T : x <= y
    BY <1>1, LeastIsIn
  <2>2. x \in Syms /\ x \in M /\ ~(Above[x] \subseteq M)
    BY <1>2, <1>3
  <2>3. Parent[x] # NoSym
    BY <2>2, AboveOf
  <2>4. Parent[x] \in M /\ Parent[x] < x /\ x \in Nat /\ Parent[x] \in Nat
    BY <2>2, <2>3, ParentIs
  <2>5. Above[Parent[x]] \subseteq M
    BY <1>2, <2>1, <2>4
  <2> QED
    BY <2>2, <2>3, <2>4, <2>5, AboveOf
<1> QED
  BY <1>2, <1>4

-----------------------------------------------------------------------------
(* N rounds are enough                                                     *)

Rounds(R, A, G) == R = [n \in 0..N |-> IF n = 0 THEN A ELSE G[R[n - 1]]]

LEMMA RoundsExist ==
    ASSUME NEW A, NEW G
    PROVE \E R : Rounds(R, A, G)
<1> DEFINE Good(f, m) == f = [n \in 0..m |-> IF n = 0 THEN A ELSE G[f[n - 1]]]
           T == {m \in 0..N : ~ \E f : Good(f, m)}
<1>1. N \in Nat /\ T \in SUBSET Nat
  BY SymbolsAssumption
<1>2. T = {}
  <2> SUFFICES ASSUME T # {} PROVE FALSE
    OBVIOUS
  <2> HIDE DEF T
  <2>1. PICK m \in T : \A k \in T : m <= k
    BY <1>1, LeastIsIn
  <2>2. m \in 0..N /\ ~ \E f : Good(f, m)
    BY DEF T
  <2>3. m # 0
    <3> DEFINE h == [n \in 0..0 |-> A]
    <3>1. h = [n \in 0..0 |-> IF n = 0 THEN A ELSE G[h[n - 1]]]
      OBVIOUS
    <3> QED
      BY <2>2, <3>1
  <2>4. m - 1 \in 0..N /\ m - 1 \notin T /\ m \in Nat
    BY <1>1, <2>1, <2>2, <2>3
  <2>5. PICK f : Good(f, m - 1)
    BY <2>4 DEF T
  <2> DEFINE g == [n \in 0..m |-> IF n = 0 THEN A ELSE G[f[n - 1]]]
  <2>6. \A n \in 0..(m - 1) : g[n] = f[n]
    <3>1. \A n \in 0..m : g[n] = IF n = 0 THEN A ELSE G[f[n - 1]]
      OBVIOUS
    <3>2. \A n \in 0..(m - 1) : f[n] = IF n = 0 THEN A ELSE G[f[n - 1]]
      BY <2>5
    <3>3. \A n \in 0..(m - 1) : n \in 0..m
      BY <2>4
    <3> HIDE DEF g
    <3> QED
      BY <3>1, <3>2, <3>3
  <2>7. \A n \in 0..m : n # 0 => n - 1 \in 0..(m - 1)
    BY <2>4
  <2>8. \A n \in 0..m : n # 0 => g[n - 1] = f[n - 1]
    <3> HIDE DEF g
    <3> QED
      BY <2>6, <2>7
  <2>9. Good(g, m)
    BY <2>8
  <2> HIDE DEF g, Good
  <2> QED
    BY <2>2, <2>9
<1>3. PICK f : Good(f, N)
  <2>1. \A k \in 0..N : k \notin T => \E f : Good(f, k)
    OBVIOUS
  <2>2. N \in 0..N
    BY <1>1
  <2> HIDE DEF T, Good
  <2> QED
    BY <1>2, <2>1, <2>2
<1> QED
  BY <1>3 DEF Rounds

LEMMA RoundsGrow ==
    ASSUME NEW A \in SUBSET Syms, NEW G \in [SUBSET Syms -> SUBSET Syms],
           \A X \in SUBSET Syms : X \subseteq G[X],
           NEW R, Rounds(R, A, G)
    PROVE /\ R[0] = A
          /\ \A n \in 0..N : R[n] \in SUBSET Syms /\ A \subseteq R[n]
          /\ \A n \in 1..N : R[n] = G[R[n - 1]] /\ R[n - 1] \subseteq R[n]
<1>1. N \in Nat
  BY SymbolsAssumption
<1>2. R[0] = A /\ \A n \in 1..N : R[n] = G[R[n - 1]]
  BY <1>1 DEF Rounds
<1> DEFINE Fine(n) == R[n] \in SUBSET Syms /\ A \subseteq R[n]
           T == {n \in 0..N : ~Fine(n)}
<1>3. T \in SUBSET Nat /\ T \subseteq 0..N
  OBVIOUS
<1>4. \A n \in 0..N : n \in T <=> ~Fine(n)
  OBVIOUS
<1> HIDE DEF T
<1>5. T = {}
  <2> SUFFICES ASSUME T # {} PROVE FALSE
    OBVIOUS
  <2>1. PICK n \in T : \A k \in T : n <= k
    BY <1>3, LeastIsIn
  <2>2. n \in 0..N /\ ~Fine(n)
    BY <1>3, <1>4
  <2>3. n \in 1..N /\ n - 1 \in 0..N
    BY <1>1, <1>2, <2>2
  <2>4. n - 1 \notin T
    BY <2>1, <2>3
  <2>5. Fine(n - 1)
    BY <1>4, <2>3, <2>4
  <2>6. R[n] = G[R[n - 1]]
    BY <1>2, <2>3
  <2> QED
    BY <2>2, <2>5, <2>6
<1>6. \A n \in 0..N : Fine(n)
  BY <1>4, <1>5
<1>7. \A n \in 1..N : R[n - 1] \subseteq R[n]
  <2> SUFFICES ASSUME NEW n \in 1..N PROVE R[n - 1] \subseteq R[n]
    OBVIOUS
  <2>1. n - 1 \in 0..N
    BY <1>1
  <2>2. R[n - 1] \in SUBSET Syms
    BY <1>6, <2>1
  <2> QED
    BY <1>2, <2>2
<1>8. \A n \in 0..N : R[n] \in SUBSET Syms /\ A \subseteq R[n]
  BY <1>6
<1> HIDE DEF Fine
<1> QED
  BY <1>2, <1>7, <1>8

\* Each round adds a symbol or is the last that matters.
LEMMA RoundsClose ==
    ASSUME NEW A \in SUBSET Syms, NEW G \in [SUBSET Syms -> SUBSET Syms],
           \A X \in SUBSET Syms : X \subseteq G[X],
           \A X \in SUBSET Syms : X = {} => G[X] = X,
           NEW R, Rounds(R, A, G)
    PROVE G[R[N]] = R[N]
<1>1. N \in Nat /\ N \in 0..N
  BY SymbolsAssumption
<1>2. /\ R[0] = A
      /\ \A n \in 0..N : R[n] \in SUBSET Syms
      /\ \A n \in 1..N : R[n] = G[R[n - 1]] /\ R[n - 1] \subseteq R[n]
  <2>1. /\ R[0] = A
        /\ \A n \in 0..N : R[n] \in SUBSET Syms /\ A \subseteq R[n]
        /\ \A n \in 1..N : R[n] = G[R[n - 1]] /\ R[n - 1] \subseteq R[n]
    BY RoundsGrow, Zenon
  <2> QED
    BY <2>1
<1> DEFINE Fixed(n) == G[R[n]] = R[n]
<1>3. \A n \in 1..N : Fixed(n - 1) => Fixed(n)
  BY <1>2
<1> SUFFICES ASSUME ~Fixed(N) PROVE FALSE
  OBVIOUS
<1>4. \A n \in 0..N : ~Fixed(n)
  <2> DEFINE T == {k \in 0..N : Fixed(N - k)}
  <2>1. T \in SUBSET Nat /\ T \subseteq 0..N
    OBVIOUS
  <2>2. \A k \in 0..N : k \in T <=> Fixed(N - k)
    OBVIOUS
  <2> HIDE DEF T, Fixed
  <2>3. T = {}
    <3> SUFFICES ASSUME T # {} PROVE FALSE
      OBVIOUS
    <3>1. PICK k \in T : \A j \in T : k <= j
      BY <2>1, LeastIsIn
    <3>2. k \in 0..N /\ Fixed(N - k)
      BY <2>1, <2>2
    <3>3. k # 0
      BY <1>1, <3>2
    <3>4. k - 1 \in 0..N /\ N - (k - 1) \in 1..N /\ N - (k - 1) - 1 = N - k
      BY <1>1, <3>2, <3>3
    <3>5. Fixed(N - (k - 1))
      BY <1>3, <3>2, <3>4
    <3>6. k - 1 \in T
      BY <2>2, <3>4, <3>5
    <3> QED
      BY <3>1, <3>2, <3>6
  <2>4. ASSUME NEW n \in 0..N, Fixed(n) PROVE FALSE
    <3>1. N - n \in 0..N /\ N - (N - n) = n
      BY <1>1
    <3>2. Fixed(N - (N - n))
      BY <2>4, <3>1
    <3>3. N - n \in T
      BY <2>2, <3>1, <3>2
    <3> QED
      BY <2>3, <3>3
  <2> QED
    BY <2>4
<1>5. IsFiniteSet(Syms) /\ Cardinality(Syms) = N
  BY <1>1, FS_Interval DEF Syms
<1>6. \A n \in 0..N : IsFiniteSet(R[n]) /\ Cardinality(R[n]) \in Nat /\ Cardinality(R[n]) <= N
  BY <1>2, <1>5, FS_Subset, FS_CardinalityType
<1> DEFINE Big(n) == Cardinality(R[n]) >= n + 1
           T == {n \in 0..N : ~Big(n)}
<1>7. T \in SUBSET Nat /\ T \subseteq 0..N
  OBVIOUS
<1>8. \A n \in 0..N : n \in T <=> ~Big(n)
  OBVIOUS
<1> HIDE DEF T
<1>9. T = {}
  <2> SUFFICES ASSUME T # {} PROVE FALSE
    OBVIOUS
  <2>1. PICK n \in T : \A k \in T : n <= k
    BY <1>7, LeastIsIn
  <2>2. n \in 0..N /\ ~Big(n)
    BY <1>7, <1>8
  <2>3. CASE n = 0
    <3>0. 0 \in 0..N /\ ~Fixed(0)
      BY <1>1, <1>4
    <3>1. R[0] # {}
      BY <3>0
    <3>2. Cardinality(R[0]) # 0
      BY <1>1, <1>6, <3>1, FS_EmptySet
    <3> QED
      BY <1>6, <2>2, <2>3, <3>2
  <2>4. CASE n # 0
    <3>1. n \in 1..N /\ n - 1 \in 0..N
      BY <1>1, <2>2, <2>4
    <3>2. n - 1 \notin T
      BY <2>1, <3>1
    <3>3. Big(n - 1)
      BY <1>8, <3>1, <3>2
    <3>4. R[n - 1] \subseteq R[n] /\ R[n] # R[n - 1]
      BY <1>2, <1>4, <3>1
    <3>5. /\ Cardinality(R[n - 1]) <= Cardinality(R[n])
          /\ Cardinality(R[n]) # Cardinality(R[n - 1])
      BY <1>6, <2>2, <3>4, FS_Subset
    <3>6. Cardinality(R[n - 1]) \in Nat /\ Cardinality(R[n]) \in Nat
      BY <1>6, <3>1
    <3> QED
      BY <2>2, <3>1, <3>3, <3>5, <3>6
  <2> QED
    BY <2>3, <2>4
<1>10. Big(N)
  BY <1>1, <1>8, <1>9
<1> QED
  BY <1>1, <1>6, <1>10

\* What is closed under the rounds has all of them.
LEMMA RoundsLeast ==
    ASSUME NEW A \in SUBSET Syms, NEW G \in [SUBSET Syms -> SUBSET Syms],
           NEW R, Rounds(R, A, G),
           NEW C \in SUBSET Syms, A \subseteq C, \A X \in SUBSET C : G[X] \subseteq C
    PROVE R[N] \subseteq C
<1>1. N \in Nat
  BY SymbolsAssumption
<1>2. R[0] = A /\ \A n \in 1..N : R[n] = G[R[n - 1]]
  BY <1>1 DEF Rounds
<1> DEFINE T == {n \in 0..N : ~(R[n] \subseteq C)}
<1>3. T \in SUBSET Nat /\ T \subseteq 0..N
  OBVIOUS
<1>4. \A n \in 0..N : n \in T <=> ~(R[n] \subseteq C)
  OBVIOUS
<1> HIDE DEF T
<1>5. T = {}
  <2> SUFFICES ASSUME T # {} PROVE FALSE
    OBVIOUS
  <2>1. PICK n \in T : \A k \in T : n <= k
    BY <1>3, LeastIsIn
  <2>2. n \in 0..N /\ ~(R[n] \subseteq C)
    BY <1>3, <1>4
  <2>3. n \in 1..N /\ n - 1 \in 0..N
    BY <1>1, <1>2, <2>2
  <2>4. n - 1 \notin T
    BY <2>1, <2>3
  <2> QED
    BY <1>2, <1>4, <2>2, <2>3, <2>4
<1> QED
  BY <1>1, <1>4, <1>5

-----------------------------------------------------------------------------
(* Decisions                                                               *)

Own(s) == {i \in DOMAIN rules : s \in Hits(i)}
HitOf(s) == {i \in DOMAIN rules : Hits(i) \cap ({s} \cup Above[s]) # {}}
LastMatch(s) == decision[s] \in HitOf(s) \cup {0} /\ \A i \in HitOf(s) : i <= decision[s]

\* The symbols the forward pass is through with have their last match.
DecidedInv ==
    /\ phase = "start" => ahead = Syms
    /\ phase = "decide" => \A s \in Syms \ ahead : LastMatch(s)
    /\ phase \notin {"start", "dead rule", "decide"} => \A s \in Syms : LastMatch(s)

LEMMA DirectIsLast ==
    ASSUME TypeOK, NEW s \in Syms
    PROVE /\ Direct(s) \in Own(s) \cup {0} /\ Direct(s) \in Nat
          /\ \A i \in Own(s) : i <= Direct(s)
<1>1. Own(s) \in SUBSET (1..Len(rules)) /\ Len(rules) \in Nat
  BY RulesAssumption DEF Own, TypeOK
<1>2. Direct(s) = IF Own(s) = {} THEN 0 ELSE CHOOSE i \in Own(s) : \A j \in Own(s) : j <= i
  BY DEF Direct, Own
<1>3. CASE Own(s) = {}
  BY <1>2, <1>3
<1>4. CASE Own(s) # {}
  <2>1. \E i \in Own(s) : \A j \in Own(s) : j <= i
    BY <1>1, <1>4, LastIsIn
  <2>2. Direct(s) \in Own(s) /\ \A j \in Own(s) : j <= Direct(s)
    BY <1>2, <1>4, <2>1
  <2> QED
    BY <1>1, <2>2
<1> QED
  BY <1>3, <1>4

LEMMA HitOfIs ==
    ASSUME NEW s \in Syms
    PROVE HitOf(s) = Own(s) \cup (IF Parent[s] = NoSym THEN {} ELSE HitOf(Parent[s]))
<1>1. CASE Parent[s] = NoSym
  BY <1>1, AboveOf DEF HitOf, Own
<1>2. CASE Parent[s] # NoSym
  <2>1. Above[s] = {Parent[s]} \cup Above[Parent[s]]
    BY <1>2, AboveOf
  <2> QED
    BY <1>2, <2>1 DEF HitOf, Own
<1> QED
  BY <1>1, <1>2

LEMMA DecideLast ==
    ASSUME TypeOK, DecidedInv, Decide
    PROVE DecidedInv'
<1> DEFINE s == Least(ahead)
           inherited == IF Parent[s] = NoSym THEN 0 ELSE decision[Parent[s]]
<1>1. /\ phase = "decide" /\ phase' = "decide" /\ rules' = rules
      /\ decision' = [decision EXCEPT ![s] = Later(Direct(s), inherited)]
      /\ ahead' = ahead \ {s}
  BY DEF Decide
<1>2. s \in ahead /\ (\A t \in ahead : s <= t) /\ s \in Syms
  <2>1. ahead \in SUBSET Nat /\ ahead # {} /\ ahead \subseteq Syms
    BY ParentIs DEF Decide, TypeOK
  <2> QED
    BY <2>1, LeastIsIn
<1>3. \A t \in Syms : HitOf(t)' = HitOf(t)
  BY <1>1 DEF HitOf, Hits
<1> HIDE DEF s, inherited
<1>4. /\ \A t \in Syms : decision[t] \in Nat
      /\ decision'[s] = Later(Direct(s), inherited)
      /\ \A t \in Syms \ {s} : decision'[t] = decision[t]
  BY <1>1, <1>2, RulesAssumption DEF TypeOK
<1>5. \A i \in HitOf(s) : i \in Nat
  BY RulesAssumption DEF HitOf, TypeOK
<1>6. /\ Direct(s) \in Own(s) \cup {0} /\ Direct(s) \in Nat
      /\ \A i \in Own(s) : i <= Direct(s)
  BY <1>2, DirectIsLast
<1>7. Later(Direct(s), inherited) \in HitOf(s) \cup {0}
      /\ \A i \in HitOf(s) : i <= Later(Direct(s), inherited)
  <2>1. CASE Parent[s] = NoSym
    <3>1. inherited = 0 /\ HitOf(s) = Own(s)
      BY <1>2, <2>1, HitOfIs DEF inherited
    <3>2. Later(Direct(s), inherited) = Direct(s)
      BY <1>6, <3>1 DEF Later
    <3> QED
      BY <1>6, <3>1, <3>2
  <2>2. CASE Parent[s] # NoSym
    <3>1. /\ inherited = decision[Parent[s]]
          /\ HitOf(s) = Own(s) \cup HitOf(Parent[s])
      BY <1>2, <2>2, HitOfIs DEF inherited
    <3>2. Parent[s] \in Syms /\ Parent[s] < s /\ Parent[s] \in Nat /\ s \in Nat
      BY <1>2, <2>2, ParentIs
    <3>3. Parent[s] \in Syms \ ahead
      BY <1>2, <3>2
    <3>4. LastMatch(Parent[s])
      BY <1>1, <3>3 DEF DecidedInv
    <3>5. inherited \in Nat
      BY <1>4, <3>1, <3>2
    <3>6. inherited \in HitOf(Parent[s]) \cup {0} /\ \A i \in HitOf(Parent[s]) : i <= inherited
      BY <3>1, <3>4 DEF LastMatch
    <3>7. CASE inherited > Direct(s)
      <4>1. Later(Direct(s), inherited) = inherited
        BY <3>7 DEF Later
      <4>2. \A i \in Own(s) : i <= inherited
        BY <1>5, <1>6, <3>1, <3>5, <3>7
      <4> QED
        BY <3>1, <3>6, <4>1, <4>2
    <3>8. CASE ~(inherited > Direct(s))
      <4>1. Later(Direct(s), inherited) = Direct(s)
        BY <3>8 DEF Later
      <4>2. \A i \in HitOf(Parent[s]) : i <= Direct(s)
        <5> SUFFICES ASSUME NEW i \in HitOf(Parent[s]) PROVE i <= Direct(s)
          OBVIOUS
        <5>1. i \in Nat /\ i <= inherited
          BY <1>5, <3>1, <3>6
        <5>2. inherited <= Direct(s)
          BY <1>6, <3>5, <3>8
        <5> QED
          BY <1>6, <3>5, <5>1, <5>2
      <4> QED
        BY <1>6, <3>1, <4>1, <4>2
    <3> QED
      BY <3>7, <3>8
  <2> QED
    BY <2>1, <2>2
<1>8. \A t \in Syms \ ahead' : LastMatch(t)'
  <2> SUFFICES ASSUME NEW t \in Syms \ ahead' PROVE LastMatch(t)'
    OBVIOUS
  <2>1. CASE t = s
    BY <1>2, <1>3, <1>4, <1>7, <2>1 DEF LastMatch
  <2>2. CASE t # s
    <3>1. t \in Syms \ ahead
      BY <1>1, <2>2
    <3>2. LastMatch(t) /\ decision'[t] = decision[t] /\ HitOf(t)' = HitOf(t)
      BY <1>1, <1>3, <1>4, <2>2, <3>1 DEF DecidedInv
    <3> QED
      BY <3>2 DEF LastMatch
  <2> QED
    BY <2>1, <2>2
<1> QED
  BY <1>1, <1>8 DEF DecidedInv

LEMMA DecidedStep ==
    IInv /\ DecidedInv /\ [Next]_vars => DecidedInv'
<1> SUFFICES ASSUME IInv, DecidedInv, [Next]_vars PROVE DecidedInv'
  OBVIOUS
<1>1. CASE Decide
  BY <1>1, DecideLast DEF IInv
<1>2. CASE ~Decide
  <2>1. rules' = rules /\ decision' = decision
    BY <1>2 DEF Next, vars, EvaluateRules, EndDecide, Seed, EndSeed, Process, Traverse, Climb,
                CheckEnums
  <2>2. \A t \in Syms : HitOf(t)' = HitOf(t)
    BY <2>1 DEF HitOf, Hits
  <2>3. \A t \in Syms : LastMatch(t)' <=> LastMatch(t)
    BY <2>1, <2>2 DEF LastMatch
  <2>4. CASE EvaluateRules
    <3>1. phase = "start" /\ phase' \in {"dead rule", "decide"} /\ ahead' = ahead
      BY <2>4 DEF EvaluateRules
    <3>2. Syms \ ahead' = {}
      BY <3>1 DEF DecidedInv
    <3> QED
      BY <3>1, <3>2 DEF DecidedInv
  <2>5. CASE EndDecide
    <3>1. phase = "decide" /\ phase' = "seed" /\ ahead = {}
      BY <2>5 DEF EndDecide
    <3> QED
      BY <2>3, <3>1 DEF DecidedInv
  <2>6. CASE ~EvaluateRules /\ ~EndDecide
    <3>1. \/ phase' = phase /\ ahead' = ahead
          \/ phase \notin {"start", "dead rule", "decide"}
             /\ phase' \notin {"start", "dead rule", "decide"}
      BY <1>2, <2>6 DEF Next, vars, Seed, EndSeed, Process, Traverse, Climb, CheckEnums, Keep, closure
    <3> QED
      BY <2>3, <3>1 DEF DecidedInv
  <2> QED
    BY <2>4, <2>5, <2>6
<1> QED
  BY <1>1, <1>2

LEMMA DecidedHolds == Spec => []DecidedInv
<1>1. Init => DecidedInv
  BY DEF Init, DecidedInv
<1> QED
  BY <1>1, DecidedStep, Inductive, PTL DEF Spec

\* Once the forward pass is over, the decision on a symbol is the last rule
\* that matches it or anything around it, however far out.
THEOREM LastMatchDecides == Spec => []DecisionIsLastMatch
<1>1. DecidedInv => DecisionIsLastMatch
  <2> SUFFICES ASSUME DecidedInv, phase \notin {"start", "dead rule", "decide"}, NEW s \in Syms
               PROVE decision[s] \in HitOf(s) \cup {0} /\ \A i \in HitOf(s) : i <= decision[s]
    BY DEF DecisionIsLastMatch, HitOf
  <2> QED
    BY DEF DecidedInv, LastMatch
<1> QED
  BY <1>1, DecidedHolds, PTL

-----------------------------------------------------------------------------
(* Why a symbol is kept                                                    *)

LEMMA StaysInSyms ==
    ASSUME NEW R, R[0] \in SUBSET Syms,
           \A n \in 1..N : R[n - 1] \in SUBSET Syms => R[n] \in SUBSET Syms
    PROVE \A n \in 0..N : R[n] \in SUBSET Syms
<1>1. N \in Nat
  BY SymbolsAssumption
<1> DEFINE Fine(n) == R[n] \in SUBSET Syms
           T == {n \in 0..N : ~Fine(n)}
<1>2. T \in SUBSET Nat /\ T \subseteq 0..N
  OBVIOUS
<1>3. \A n \in 0..N : n \in T <=> ~Fine(n)
  OBVIOUS
<1>4. Fine(0) /\ \A n \in 1..N : Fine(n - 1) => Fine(n)
  OBVIOUS
<1> HIDE DEF T, Fine
<1>5. T = {}
  <2> SUFFICES ASSUME T # {} PROVE FALSE
    OBVIOUS
  <2>1. PICK n \in T : \A k \in T : n <= k
    BY <1>2, LeastIsIn
  <2>2. n \in 0..N /\ ~Fine(n)
    BY <1>2, <1>3
  <2>3. n \in 1..N /\ n - 1 \in 0..N
    BY <1>1, <1>4, <2>2
  <2>4. n - 1 \notin T
    BY <2>1, <2>3
  <2> QED
    BY <1>3, <1>4, <2>2, <2>3, <2>4
<1>6. \A n \in 0..N : Fine(n)
  BY <1>3, <1>5
<1> QED
  BY <1>6 DEF Fine

Origins == {s \in Syms : introduced[s] = NoSym /\ marks[s] = Explicit /\ Pol(s) = "keep"}
Introduced(X) == {s \in Syms : introduced[s] \in X}
Onward == [X \in SUBSET Syms |-> X \cup Introduced(X)]

LEMMA ExplainedIs ==
    Explained = [n \in 0..N |-> IF n = 0 THEN Origins
                                ELSE Explained[n - 1] \cup Introduced(Explained[n - 1])]
<1>1. N \in Nat /\ Origins \in SUBSET Syms /\ Onward \in [SUBSET Syms -> SUBSET Syms]
      /\ \A X \in SUBSET Syms : X \subseteq Onward[X]
  BY SymbolsAssumption DEF Origins, Onward, Introduced
<1>2. PICK R : Rounds(R, Origins, Onward)
  BY RoundsExist
<1>3. \A n \in 0..N : R[n] \in SUBSET Syms
  <2>1. /\ R[0] = Origins
        /\ \A n \in 0..N : R[n] \in SUBSET Syms /\ Origins \subseteq R[n]
        /\ \A n \in 1..N : R[n] = Onward[R[n - 1]] /\ R[n - 1] \subseteq R[n]
    BY <1>1, <1>2, RoundsGrow, Zenon
  <2> QED
    BY <2>1
<1>4. \A n \in 0..N : n # 0 => Onward[R[n - 1]] = R[n - 1] \cup Introduced(R[n - 1])
  <2> SUFFICES ASSUME NEW n \in 0..N, n # 0
               PROVE Onward[R[n - 1]] = R[n - 1] \cup Introduced(R[n - 1])
    OBVIOUS
  <2>1. n - 1 \in 0..N
    BY <1>1
  <2>2. R[n - 1] \in SUBSET Syms
    BY <1>3, <2>1
  <2> QED
    BY <2>2 DEF Onward
<1>5. R = [n \in 0..N |-> IF n = 0 THEN Origins ELSE R[n - 1] \cup Introduced(R[n - 1])]
  BY <1>2, <1>4 DEF Rounds
<1>6. R = [n \in 0..N |-> IF n = 0
                          THEN {s \in Syms : introduced[s] = NoSym /\ marks[s] = Explicit /\ Pol(s) = "keep"}
                          ELSE R[n - 1] \cup {s \in Syms : introduced[s] \in R[n - 1]}]
  BY <1>5 DEF Origins, Introduced
<1>7. Explained = [n \in 0..N |-> IF n = 0
                          THEN {s \in Syms : introduced[s] = NoSym /\ marks[s] = Explicit /\ Pol(s) = "keep"}
                          ELSE Explained[n - 1] \cup {s \in Syms : introduced[s] \in Explained[n - 1]}]
  BY <1>6 DEF Explained
<1> QED
  BY <1>7 DEF Origins, Introduced

\* The rounds of Explained are over after N.
LEMMA ExplainedCloses ==
    ASSUME NoSym \notin Syms
    PROVE /\ Explained[N] \in SUBSET Syms /\ Origins \subseteq Explained[N]
          /\ Introduced(Explained[N]) \subseteq Explained[N]
<1>1. N \in Nat /\ Origins \in SUBSET Syms /\ Onward \in [SUBSET Syms -> SUBSET Syms]
      /\ \A X \in SUBSET Syms : X \subseteq Onward[X]
  BY SymbolsAssumption DEF Origins, Onward, Introduced
<1>2. \A X \in SUBSET Syms : X = {} => Onward[X] = X
  <2>1. Introduced({}) = {}
    BY DEF Introduced
  <2> QED
    BY <2>1 DEF Onward
<1>3. /\ Explained[0] = Origins
      /\ \A n \in 1..N : Explained[n] = Explained[n - 1] \cup Introduced(Explained[n - 1])
  <2>1. PICK E : E = Explained
    OBVIOUS
  <2>2. E = [n \in 0..N |-> IF n = 0 THEN Origins ELSE E[n - 1] \cup Introduced(E[n - 1])]
    BY <2>1, ExplainedIs
  <2>3. E[0] = Origins /\ \A n \in 1..N : E[n] = E[n - 1] \cup Introduced(E[n - 1])
    <3>1. 0 \in 0..N /\ \A n \in 1..N : n \in 0..N /\ n # 0
      BY <1>1
    <3>2. \A n \in 0..N : E[n] = IF n = 0 THEN Origins ELSE E[n - 1] \cup Introduced(E[n - 1])
      BY <2>2, Zenon
    <3> QED
      BY <3>1, <3>2
  <2> QED
    BY <2>1, <2>3
<1>4. \A n \in 0..N : Explained[n] \in SUBSET Syms
  <2>1. \A X : Introduced(X) \in SUBSET Syms
    BY DEF Introduced
  <2>2. Explained[0] \in SUBSET Syms
    BY <1>1, <1>3
  <2>3. \A n \in 1..N : Explained[n - 1] \in SUBSET Syms => Explained[n] \in SUBSET Syms
    BY <1>3, <2>1
  <2> QED
    BY <2>2, <2>3, StaysInSyms, Zenon
<1>5. \A n \in 0..N : n # 0 =>
          Explained[n - 1] \cup Introduced(Explained[n - 1]) = Onward[Explained[n - 1]]
  <2> SUFFICES ASSUME NEW n \in 0..N, n # 0
               PROVE Explained[n - 1] \cup Introduced(Explained[n - 1]) = Onward[Explained[n - 1]]
    OBVIOUS
  <2>1. n - 1 \in 0..N
    BY <1>1
  <2>2. Explained[n - 1] \in SUBSET Syms
    BY <1>4, <2>1
  <2> HIDE DEF Explained
  <2> QED
    BY <2>2 DEF Onward
<1>6. Rounds(Explained, Origins, Onward)
  <2>1. Explained = [n \in 0..N |-> IF n = 0 THEN Origins ELSE Onward[Explained[n - 1]]]
    <3>1. [n \in 0..N |-> IF n = 0 THEN Origins
                          ELSE Explained[n - 1] \cup Introduced(Explained[n - 1])]
              = [n \in 0..N |-> IF n = 0 THEN Origins ELSE Onward[Explained[n - 1]]]
      BY <1>5
    <3> QED
      BY <3>1, ExplainedIs, Zenon
  <2> QED
    BY <2>1 DEF Rounds
<1>7. Onward[Explained[N]] = Explained[N]
  <2>1. Origins \in SUBSET Syms
    BY <1>1
  <2>2. Onward \in [SUBSET Syms -> SUBSET Syms]
    BY <1>1
  <2>3. \A X \in SUBSET Syms : X \subseteq Onward[X]
    BY <1>1
  <2> QED
    BY <1>2, <1>6, <2>1, <2>2, <2>3, RoundsClose, ZenonT(60)
<1>8. Origins \subseteq Explained[N]
  <2>1. /\ Explained[0] = Origins
        /\ \A n \in 0..N : Explained[n] \in SUBSET Syms /\ Origins \subseteq Explained[n]
        /\ \A n \in 1..N : Explained[n] = Onward[Explained[n - 1]] /\ Explained[n - 1] \subseteq Explained[n]
    BY <1>1, <1>6, RoundsGrow, Zenon
  <2> QED
    BY <1>1, <2>1
<1>9. Explained[N] \in SUBSET Syms
  BY <1>1, <1>4
<1> QED
  BY <1>7, <1>8, <1>9 DEF Onward

-----------------------------------------------------------------------------
(* The steps of the closure                                                *)

Outcome(s, level, by) ==
    \/ /\ marks[s] >= level \/ cascade[s]
       /\ UNCHANGED <<phase, marks, cascade, introduced, climb, blame>>
    \/ /\ Verdict(s) = "ok" /\ marks[s] < level /\ ~cascade[s]
       /\ marks' = [marks EXCEPT ![s] = level]
       /\ introduced' = [introduced EXCEPT ![s] = IF @ = NoSym THEN by ELSE @]
       /\ climb' = s
       /\ UNCHANGED <<phase, cascade, blame>>
    \/ /\ Verdict(s) = "cascade"
       /\ cascade' = [cascade EXCEPT ![s] = TRUE]
       /\ UNCHANGED <<phase, marks, introduced, climb, blame>>
    \/ /\ Verdict(s) \in {"conflict", "contradiction"}
       /\ phase' = Verdict(s) /\ blame' = by
       /\ UNCHANGED <<marks, cascade, introduced, climb>>

\* What a keep call comes to is decided by the verdict on its symbol.
LEMMA KeepOutcome ==
    ASSUME TypeOK, MarkInv, NEW s \in Syms, NEW level \in {Required, Explicit},
           NEW by \in Syms \cup {NoSym}, Keep(s, level, by)
    PROVE Outcome(s, level, by)
<1> USE DEF TypeOK, None, Container, Required, Explicit
<1>1. marks[s] \in {0, 1, 2, 3} /\ level \in {2, 3}
  OBVIOUS
<1>2. CASE cascade[s] \/ marks[s] >= level
  BY <1>2 DEF Keep, Settled, Outcome, closure
<1>3. CASE ~cascade[s] /\ ~(marks[s] >= level) /\ Clean(s)
  <2>1. /\ marks' = [marks EXCEPT ![s] = level]
        /\ introduced' = [introduced EXCEPT ![s] = IF @ = NoSym THEN by ELSE @]
        /\ climb' = s
        /\ UNCHANGED <<phase, cascade, blame>>
    BY <1>3 DEF Keep, Settled, Introduce, Cascades
  <2>2. marks[s] < level /\ Verdict(s) = "ok"
    BY <1>1, <1>3 DEF Verdict
  <2> QED
    BY <1>3, <2>1, <2>2 DEF Outcome
<1>4. CASE ~cascade[s] /\ ~(marks[s] >= level) /\ ~Clean(s) /\ Cascades(s)
  <2>1. Kind[s] \notin Def
    BY <1>4, DefIsClean
  <2>2. marks[s] = None
    BY <1>1, <1>4, <2>1 DEF MarkInv
  <2>3. marks = [marks EXCEPT ![s] = None]
    BY <2>2
  <2> QED
    BY <1>4, <2>3 DEF Keep, Settled, Outcome, Verdict
<1>5. CASE ~cascade[s] /\ ~(marks[s] >= level) /\ ~Clean(s) /\ ~Cascades(s)
  BY <1>5 DEF Keep, Settled, Outcome, Verdict
<1> QED
  BY <1>2, <1>3, <1>4, <1>5

Seeds == {s \in Syms \ Builtin : Pol(s) = "keep"}
PullClosed(C) == \A x \in C : Verdict(x) = "ok" => Pulls(x) \subseteq C

\* In every set that has the seeds and is closed under pulling.
Reached(s) == \A C \in SUBSET Syms : Seeds \subseteq C /\ PullClosed(C) => s \in C

\* In every set that has the origins and is closed under introduction.
Chained(s) == \A C \in SUBSET Syms : Origins \subseteq C /\ Introduced(C) \subseteq C => s \in C

\* No keep rule addresses a builtin, nor anything around it.
LEMMA KeepIsOurs ==
    ASSUME TypeOK, DecidedInv, phase \notin {"start", "dead rule", "decide"},
           NEW s \in Syms, Pol(s) = "keep"
    PROVE s \in Seeds
<1> SUFFICES ASSUME s \in Builtin PROVE FALSE
  BY DEF Seeds
<1>1. LastMatch(s)
  BY DEF DecidedInv
<1>2. decision[s] # 0 /\ rules[decision[s]].pol = "keep"
  BY DEF Pol
<1>3. decision[s] \in HitOf(s)
  BY <1>1, <1>2 DEF LastMatch
<1>4. Parent[s] = NoSym
  BY SymbolsAssumption
<1>5. decision[s] \in Own(s)
  BY <1>3, <1>4, HitOfIs
<1> QED
  BY <1>2, <1>5 DEF Own, Hits

\* The two actions that call keep: on which symbol, how, and on whose behalf.
LEMMA CallIs ==
    ASSUME IInv, DecidedInv, Seed \/ Traverse
    PROVE /\ phase \in {"seed", "close"} /\ climb = NoSym
          /\ UNCHANGED <<rules, decision>>
          /\ \/ /\ phase = "seed" /\ ahead' = ahead \ {Least(ahead)}
                /\ Pol(Least(ahead)) # "keep"
                /\ UNCHANGED <<phase, marks, cascade, introduced, climb, blame>>
             \/ \E s \in Syms, level \in {Required, Explicit}, by \in Syms \cup {NoSym} :
                  /\ Outcome(s, level, by)
                  /\ level = Explicit => Pol(s) = "keep"
                  /\ \/ /\ phase = "seed" /\ by = NoSym /\ s \in Seeds /\ level = Explicit
                        /\ ahead' = ahead \ {s}
                     \/ /\ phase = "close" /\ by \in Syms
                        /\ marks[by] >= Required /\ s \in Pulls(by)
<1>1. CASE Seed
  <2> DEFINE s == Least(ahead)
  <2>1. /\ phase = "seed" /\ climb = NoSym /\ ahead' = ahead \ {s}
        /\ UNCHANGED <<rules, decision>>
    BY <1>1 DEF Seed
  <2>2. CASE Pol(s) # "keep"
    BY <1>1, <2>1, <2>2 DEF Seed, closure
  <2>3. CASE Pol(s) = "keep"
    <3>1. s \in Syms
      <4>1. ahead \in SUBSET Nat /\ ahead \subseteq Syms /\ ahead # {}
        BY <1>1, SymbolsAssumption DEF Seed, IInv, TypeOK, Syms
      <4> QED
        BY <4>1, LeastIsIn
    <3>2. Keep(s, Explicit, NoSym)
      BY <1>1, <2>3 DEF Seed
    <3>3. Outcome(s, Explicit, NoSym)
      BY <3>1, <3>2, KeepOutcome DEF IInv
    <3>4. s \in Seeds
      BY <2>1, <2>3, <3>1, KeepIsOurs DEF IInv
    <3> HIDE DEF s
    <3> QED
      BY <2>1, <2>3, <3>1, <3>3, <3>4
  <2> QED
    BY <2>2, <2>3
<1>2. CASE Traverse
  <2> DEFINE x == Least(left)
  <2>1. /\ phase = "close" /\ climb = NoSym /\ UNCHANGED <<rules, decision>>
    BY <1>2 DEF Traverse
  <2>2. x \in left
    <3>1. left \in SUBSET Nat /\ left # {}
      BY <1>2 DEF Traverse, IInv, TypeOK
    <3> QED
      BY <3>1, LeastIsIn
  <2>3. /\ current \in Syms \ Builtin /\ processed[current]
        /\ left \subseteq IF Kind[current] \in Def THEN Contents(current) ELSE DOMAIN Refs[current]
    BY <2>2 DEF IInv, TraverseInv
  <2>4. marks[current] >= Required
    BY <2>3 DEF IInv, MarkInv
  <2>5. CASE Kind[current] \in Def
    <3> DEFINE level == IF Pol(x) = "keep" THEN Explicit ELSE Required
    <3>1. x \in Contents(current) /\ x \in Syms
      BY <2>2, <2>3, <2>5 DEF Contents, Children
    <3>2. x \in Pulls(current)
      BY <2>3, <2>5, <3>1 DEF Pulls
    <3>3. Keep(x, level, current)
      BY <1>2, <2>5 DEF Traverse
    <3>4. level \in {Required, Explicit} /\ (level = Explicit => Pol(x) = "keep")
      BY DEF Required, Explicit
    <3> HIDE DEF level, x
    <3>5. Outcome(x, level, current)
      BY <2>3, <3>1, <3>3, <3>4, KeepOutcome DEF IInv
    <3> QED
      BY <2>1, <2>3, <2>4, <3>1, <3>2, <3>4, <3>5
  <2>6. CASE Kind[current] \notin Def
    <3> DEFINE t == Refs[current][x]
    <3>1. x \in DOMAIN Refs[current] /\ t \in Syms
      BY <2>2, <2>3, <2>6, SymbolsAssumption
    <3>2. t \in Pulls(current)
      BY <2>3, <2>6, <3>1 DEF Pulls
    <3>3. Keep(t, Required, current)
      BY <1>2, <2>6 DEF Traverse
    <3> HIDE DEF t, x
    <3>4. Outcome(t, Required, current)
      BY <2>3, <3>1, <3>3, KeepOutcome DEF IInv
    <3>5. Required # Explicit
      BY DEF Required, Explicit
    <3> QED
      BY <2>1, <2>3, <2>4, <3>1, <3>2, <3>4, <3>5
  <2> QED
    BY <2>5, <2>6
<1> QED
  BY <1>1, <1>2

-----------------------------------------------------------------------------
(* The chain of introducers                                                *)

BlameChained == blame # NoSym => Chained(blame)

\* Every mark has its cause; so has the conflict that ends select.
CauseInv ==
    /\ \A s \in Syms : marks[s] # None => Chained(s)
    /\ \A s \in Syms : introduced[s] # NoSym => marks[s] # None
    /\ BlameChained
    /\ climb # NoSym => marks[climb] # None

\* A chain that is there stays: nobody's introducer is replaced, and nobody
\* stops being an origin.
LEMMA ChainsStay ==
    ASSUME \A s \in Syms : introduced[s] # NoSym => introduced'[s] = introduced[s],
           \A s \in Origins : s \in Origins',
           NEW s \in Syms \cup {NoSym}, Chained(s)
    PROVE Chained(s)'
<1> SUFFICES ASSUME NEW C \in SUBSET Syms, Origins' \subseteq C, Introduced(C)' \subseteq C
             PROVE s \in C
  BY DEF Chained
<1>1. NoSym \notin C
  BY ParentIs
<1>2. Introduced(C) \subseteq C
  BY <1>1 DEF Introduced
<1> QED
  BY <1>2 DEF Chained

LEMMA CauseStep ==
    IInv /\ DecidedInv /\ CauseInv /\ [Next]_vars => CauseInv'
<1> SUFFICES ASSUME IInv, DecidedInv, CauseInv, [Next]_vars PROVE CauseInv'
  OBVIOUS
<1>0. NoSym \notin Syms
  BY ParentIs
<1>1. /\ marks \in [Syms -> {None, Container, Required, Explicit}]
      /\ introduced \in [Syms -> Syms \cup {NoSym}]
      /\ blame \in Syms \cup {NoSym} /\ climb \in Syms \cup {NoSym}
  BY DEF IInv, TypeOK
<1>2. CASE UNCHANGED <<marks, introduced, blame, climb, rules, decision>>
  <2>1. Origins' = Origins
    BY <1>2 DEF Origins, Pol
  <2>2. \A s : Chained(s)' <=> Chained(s)
    BY <1>2, <2>1 DEF Chained, Introduced
  <2> QED
    BY <1>2, <2>2 DEF CauseInv, BlameChained
<1>3. CASE Decide
  <2>1. UNCHANGED <<marks, introduced, blame, climb>>
    BY <1>3 DEF Decide, closure
  <2>2. /\ \A s \in Syms : marks[s] = None
        /\ climb = NoSym
    BY <1>3 DEF Decide, IInv, EarlyInv
  <2>3. Origins = {}
    BY <2>2 DEF Origins, None, Explicit
  <2>4. blame = NoSym
    <3>1. Introduced({}) = {}
      BY DEF Introduced
    <3>2. \A s : ~Chained(s)
      BY <2>3, <3>1 DEF Chained
    <3> QED
      BY <3>2 DEF CauseInv, BlameChained
  <2> QED
    BY <2>1, <2>2, <2>4 DEF CauseInv, BlameChained
<1>4. CASE Climb /\ ~UNCHANGED marks
  <2>0. PICK c, p : c = climb /\ p = Parent[c]
    OBVIOUS
  <2>1. /\ c \in Syms /\ p # NoSym /\ ~(marks[p] >= Container)
        /\ marks' = [marks EXCEPT ![p] = Container]
        /\ introduced' = [introduced EXCEPT ![p] = IF @ = NoSym THEN c ELSE @]
        /\ climb' = p /\ UNCHANGED <<blame, rules, decision>>
    BY <1>1, <1>4, <2>0 DEF Climb, Covered, Introduce
  <2>2. p \in Syms
    BY <2>0, <2>1, ParentIs
  <2>3. marks[p] = None
    BY <1>1, <2>1, <2>2 DEF None, Container, Required, Explicit
  <2>4. introduced[p] = NoSym
    BY <2>2, <2>3 DEF CauseInv
  <2>5. introduced'[p] = c /\ marks'[p] = Container
    BY <1>1, <2>1, <2>2, <2>4
  <2>6. \A s \in Syms \ {p} : introduced'[s] = introduced[s] /\ marks'[s] = marks[s]
    BY <1>1, <2>1, <2>2
  <2>7. \A s \in Syms : introduced[s] # NoSym => introduced'[s] = introduced[s]
    BY <2>4, <2>6
  <2>8. \A s \in Origins : s \in Origins'
    <3>1. p \notin Origins
      BY <2>3 DEF Origins, None, Explicit
    <3>2. \A s : Pol(s)' = Pol(s)
      BY <2>1 DEF Pol
    <3> QED
      BY <2>6, <3>1, <3>2 DEF Origins
  <2>9. \A s \in Syms \cup {NoSym} : Chained(s) => Chained(s)'
    BY <2>7, <2>8, ChainsStay
  <2>10. Chained(c)'
    BY <2>0, <2>1, <2>9, ParentIs DEF CauseInv
  <2>11. Chained(p)'
    <3>1. \A C : p \in Introduced(C)' <=> introduced'[p] \in C
      BY <2>2 DEF Introduced
    <3> QED
      BY <2>5, <2>10, <3>1 DEF Chained
  <2>12. \A s \in Syms : marks'[s] # None => Chained(s)'
    <3> SUFFICES ASSUME NEW s \in Syms, marks'[s] # None PROVE Chained(s)'
      OBVIOUS
    <3>1. CASE s = p
      BY <2>11, <3>1
    <3>2. CASE s # p
      <4>1. Chained(s)
        BY <2>6, <3>2 DEF CauseInv
      <4> QED
        BY <2>9, <4>1
    <3> QED
      BY <3>1, <3>2
  <2>13. \A s \in Syms : introduced'[s] # NoSym => marks'[s] # None
    BY <2>5, <2>6 DEF CauseInv, None, Container
  <2>14. BlameChained'
    BY <1>1, <2>1, <2>9 DEF CauseInv, BlameChained
  <2>15. climb' # NoSym => marks'[climb'] # None
    BY <2>1, <2>5 DEF None, Container
  <2> QED
    BY <2>12, <2>13, <2>14, <2>15 DEF CauseInv
<1>5. CASE Climb /\ UNCHANGED marks
  <2>1. \/ UNCHANGED <<marks, introduced>> /\ climb' = NoSym
        \/ /\ ~(marks[Parent[climb]] >= Container) /\ Parent[climb] # NoSym /\ climb \in Syms
           /\ marks' = [marks EXCEPT ![Parent[climb]] = Container]
    BY <1>1, <1>5 DEF Climb, Covered
  <2>2. UNCHANGED <<marks, introduced, blame, rules, decision>> /\ climb' = NoSym
    <3>1. CASE /\ ~(marks[Parent[climb]] >= Container) /\ Parent[climb] # NoSym /\ climb \in Syms
               /\ marks' = [marks EXCEPT ![Parent[climb]] = Container]
      <4>1. Parent[climb] \in Syms
        BY <3>1, ParentIs
      <4>2. marks[Parent[climb]] = Container
        BY <1>1, <1>5, <3>1, <4>1
      <4> QED
        BY <3>1, <4>2 DEF Container
    <3> QED
      BY <1>5, <2>1, <3>1 DEF Climb
  <2>3. Origins' = Origins
    BY <2>2 DEF Origins, Pol
  <2>4. \A s : Chained(s)' <=> Chained(s)
    BY <2>2, <2>3 DEF Chained, Introduced
  <2> QED
    BY <2>2, <2>4 DEF CauseInv, BlameChained
<1>6. CASE Seed \/ Traverse
  <2>1. CASE UNCHANGED <<marks, introduced, blame, climb>>
    BY <1>2, <1>6, <2>1, CallIs
  <2>2. CASE ~UNCHANGED <<marks, introduced, blame, climb>>
    <3>1. PICK s \in Syms, level \in {Required, Explicit}, by \in Syms \cup {NoSym} :
             /\ Outcome(s, level, by)
             /\ level = Explicit => Pol(s) = "keep"
             /\ \/ /\ phase = "seed" /\ by = NoSym /\ s \in Seeds /\ level = Explicit
                   /\ ahead' = ahead \ {s}
                \/ /\ phase = "close" /\ by \in Syms
                   /\ marks[by] >= Required /\ s \in Pulls(by)
      BY <1>6, <2>2, CallIs
    <3>2. climb = NoSym /\ UNCHANGED <<rules, decision>>
      BY <1>6, CallIs
    <3>3. by # NoSym => Chained(by)
      <4> SUFFICES ASSUME by # NoSym PROVE Chained(by)
        OBVIOUS
      <4>1. by \in Syms /\ marks[by] >= Required
        BY <3>1
      <4> QED
        BY <4>1 DEF CauseInv, None, Required
    <3>4. by = NoSym => level = Explicit /\ Pol(s) = "keep"
      BY <1>0, <3>1 DEF Seeds
    <3>5. \A t : Pol(t)' = Pol(t)
      BY <3>2 DEF Pol
    <3>6. CASE /\ Verdict(s) = "ok" /\ marks[s] < level /\ ~cascade[s]
               /\ marks' = [marks EXCEPT ![s] = level]
               /\ introduced' = [introduced EXCEPT ![s] = IF @ = NoSym THEN by ELSE @]
               /\ climb' = s
               /\ UNCHANGED <<phase, cascade, blame>>
      <4>1. \A t \in Syms \ {s} : introduced'[t] = introduced[t] /\ marks'[t] = marks[t]
        BY <1>1, <3>6
      <4>2. /\ marks'[s] = level /\ level # None
            /\ introduced'[s] = IF introduced[s] = NoSym THEN by ELSE introduced[s]
        BY <1>1, <3>6 DEF None, Required, Explicit
      <4>3. \A t \in Syms : introduced[t] # NoSym => introduced'[t] = introduced[t]
        BY <4>1, <4>2
      <4>4. \A t \in Origins : t \in Origins'
        <5>1. s \notin Origins
          BY <1>1, <3>6 DEF Origins, Required, Explicit, None, Container
        <5> QED
          BY <3>5, <4>1, <5>1 DEF Origins
      <4>5. \A t \in Syms \cup {NoSym} : Chained(t) => Chained(t)'
        BY <4>3, <4>4, ChainsStay
      <4>6. Chained(s)'
        <5>1. CASE introduced[s] # NoSym
          <6>1. Chained(s)
            BY <5>1 DEF CauseInv
          <6> QED
            BY <4>5, <6>1
        <5>2. CASE introduced[s] = NoSym /\ by = NoSym
          <6>1. s \in Origins'
            BY <3>4, <3>5, <4>2, <5>2 DEF Origins
          <6> QED
            BY <6>1 DEF Chained
        <5>3. CASE introduced[s] = NoSym /\ by # NoSym
          <6>1. Chained(by)' /\ introduced'[s] = by
            BY <3>3, <4>2, <4>5, <5>3
          <6>2. \A C : s \in Introduced(C)' <=> introduced'[s] \in C
            BY DEF Introduced
          <6> QED
            BY <6>1, <6>2 DEF Chained
        <5> QED
          BY <5>1, <5>2, <5>3
      <4>7. \A t \in Syms : marks'[t] # None => Chained(t)'
        <5> SUFFICES ASSUME NEW t \in Syms, marks'[t] # None, t # s PROVE Chained(t)'
          BY <4>6
        <5>1. Chained(t)
          BY <4>1 DEF CauseInv
        <5> QED
          BY <4>5, <5>1
      <4>8. \A t \in Syms : introduced'[t] # NoSym => marks'[t] # None
        BY <4>1, <4>2 DEF CauseInv
      <4>9. BlameChained'
        BY <1>1, <3>6, <4>5 DEF CauseInv, BlameChained
      <4>10. climb' # NoSym => marks'[climb'] # None
        BY <3>6, <4>2
      <4> QED
        BY <4>7, <4>8, <4>9, <4>10 DEF CauseInv
    <3>7. CASE blame' = by /\ UNCHANGED <<marks, cascade, introduced, climb>>
      <4>1. Origins' = Origins
        BY <3>5, <3>7 DEF Origins
      <4>2. \A t : Chained(t)' <=> Chained(t)
        BY <3>7, <4>1 DEF Chained, Introduced
      <4> QED
        BY <3>3, <3>7, <4>2 DEF CauseInv, BlameChained
    <3> QED
      BY <2>2, <3>1, <3>6, <3>7 DEF Outcome
  <2> QED
    BY <2>1, <2>2
<1> QED
  BY <1>2, <1>3, <1>4, <1>5, <1>6
  DEF Next, vars, EvaluateRules, EndDecide, EndSeed, Process, CheckEnums, closure

LEMMA CauseHolds == Spec => []CauseInv
<1>1. Init => CauseInv
  BY DEF Init, CauseInv, BlameChained
<1> QED
  BY <1>1, CauseStep, DecidedHolds, Inductive, PTL DEF Spec

\* The chain of introducers of every marked symbol, and of the symbol a
\* conflict is blamed on, ends within N steps at one that a rule keeps.
THEOREM KeepsAreExplained == Spec => []EveryKeepIsExplained
<1>1. CauseInv => EveryKeepIsExplained
  <2> SUFFICES ASSUME CauseInv PROVE EveryKeepIsExplained
    OBVIOUS
  <2>1. /\ Explained[N] \in SUBSET Syms /\ Origins \subseteq Explained[N]
        /\ Introduced(Explained[N]) \subseteq Explained[N]
    BY ExplainedCloses, ParentIs
  <2>2. \A s : Chained(s) => s \in Explained[N]
    BY <2>1 DEF Chained
  <2>3. \A s \in Syms : marks[s] # None => s \in Explained[N]
    BY <2>2 DEF CauseInv
  <2>4. blame # NoSym => blame \in Explained[N]
    BY <2>2 DEF CauseInv, BlameChained
  <2> QED
    BY <2>3, <2>4 DEF EveryKeepIsExplained
<1> QED
  BY <1>1, CauseHolds, PTL

-----------------------------------------------------------------------------
(* The least closure                                                       *)

Full == {s \in Syms : marks[s] >= Required}

\* Nothing is kept in full, deleted or found in conflict that is not reached.
ReachedInv ==
    /\ \A s \in Syms : marks[s] >= Required => Reached(s)
    /\ \A s \in Syms : cascade[s] => Reached(s) /\ Verdict(s) = "cascade"
    /\ phase \in {"conflict", "contradiction"} =>
         \E s \in Syms : Reached(s) /\ Verdict(s) = phase

\* Which mark a symbol has, and that no seed is passed over.
LevelInv ==
    /\ \A s \in Syms : marks[s] = Explicit => Pol(s) = "keep"
    /\ phase \in {"seed", "close", "illegal enum", "done"} =>
         \A s \in Seeds : (phase = "seed" /\ s \in ahead) \/ marks[s] = Explicit \/ cascade[s]
    /\ \A s \in Syms : marks[s] = Container => \E d \in Full : s \in Above[d]
    /\ phase = "illegal enum" => queue = <<>> /\ left = {} /\ climb = NoSym

\* Nothing that the verdicts or the pulls depend on changes after the decisions.
LEMMA ReachedStays ==
    ASSUME UNCHANGED <<rules, decision>>
    PROVE /\ Seeds' = Seeds
          /\ \A s : /\ Pol(s)' = Pol(s) /\ (Verdict(s) = Verdict(s)')
                    /\ (Reached(s)' <=> Reached(s))
<1>1. \A s : Pol(s)' = Pol(s)
  BY DEF Pol
<1>2. \A s : Excluded(s)' <=> Excluded(s)
  BY <1>1 DEF Excluded
<1>3. \A s : Clean(s)' <=> Clean(s)
  BY <1>2 DEF Clean
<1>4. \A s : Offender(s)' = Offender(s)
  <2> SUFFICES ASSUME NEW s PROVE Offender(s)' = Offender(s)
    OBVIOUS
  <2>1. {i \in DOMAIN Refs[s] : Excluded(Refs[s][i])}'
           = {i \in DOMAIN Refs[s] : Excluded(Refs[s][i])}
    BY <1>2
  <2> QED
    BY <2>1 DEF Offender, Least
<1>5. \A s : Cascades(s)' <=> Cascades(s)
  BY <1>1, <1>3, <1>4 DEF Cascades
<1>6. \A s : Verdict(s)' = Verdict(s)
  BY <1>1, <1>3, <1>4, <1>5 DEF Verdict
<1>7. \A s : Pulls(s)' = Pulls(s)
  BY <1>2 DEF Pulls, Contents, Children
<1>8. Seeds' = Seeds
  BY <1>1 DEF Seeds
<1>9. \A C : PullClosed(C)' <=> PullClosed(C)
  BY <1>6, <1>7 DEF PullClosed
<1> QED
  BY <1>1, <1>6, <1>8, <1>9 DEF Reached

LEMMA PulledIsReached ==
    ASSUME NEW s \in Syms, NEW by \in Syms, Reached(by), Verdict(by) = "ok", s \in Pulls(by)
    PROVE Reached(s)
  BY DEF Reached, PullClosed

LEMMA FullIsOk ==
    ASSUME IInv, NEW s \in Syms, marks[s] >= Required
    PROVE Verdict(s) = "ok"
  BY DEF IInv, MarkInv, Verdict

LEMMA ReachedStep ==
    IInv /\ DecidedInv /\ ReachedInv /\ [Next]_vars => ReachedInv'
<1> SUFFICES ASSUME IInv, DecidedInv, ReachedInv, [Next]_vars PROVE ReachedInv'
  OBVIOUS
<1>1. /\ marks \in [Syms -> {None, Container, Required, Explicit}]
      /\ cascade \in [Syms -> BOOLEAN]
  BY DEF IInv, TypeOK
<1>2. CASE UNCHANGED <<marks, cascade, phase, rules, decision>>
  BY <1>2, ReachedStays DEF ReachedInv
<1>3. CASE /\ UNCHANGED <<marks, cascade, rules, decision>>
           /\ phase' \notin {"conflict", "contradiction"}
  BY <1>3, ReachedStays DEF ReachedInv
<1>4. CASE Decide
  <2>1. \A s \in Syms : marks'[s] = None /\ ~cascade'[s]
    BY <1>4 DEF Decide, IInv, EarlyInv, closure
  <2>2. phase' = "decide"
    BY <1>4 DEF Decide
  <2> QED
    BY <2>1, <2>2 DEF ReachedInv, None, Required
<1>5. CASE Climb
  <2>1. \A s \in Syms : marks'[s] >= Required => marks[s] >= Required
    BY <1>1, <1>5 DEF Climb, None, Container, Required, Explicit
  <2>2. UNCHANGED <<cascade, phase, rules, decision>>
    BY <1>5 DEF Climb
  <2> QED
    BY <2>1, <2>2, ReachedStays DEF ReachedInv
<1>6. CASE Seed \/ Traverse
  <2>1. CASE UNCHANGED <<marks, cascade, phase>>
    BY <1>2, <1>6, <2>1, CallIs
  <2>2. CASE ~UNCHANGED <<marks, cascade, phase>>
    <3>1. PICK s \in Syms, level \in {Required, Explicit}, by \in Syms \cup {NoSym} :
             /\ Outcome(s, level, by)
             /\ \/ s \in Seeds
                \/ by \in Syms /\ marks[by] >= Required /\ s \in Pulls(by)
      BY <1>6, <2>2, CallIs
    <3>2. phase \in {"seed", "close"} /\ UNCHANGED <<rules, decision>>
      BY <1>6, CallIs
    <3>3. Reached(s)
      <4>1. CASE s \in Seeds
        BY <4>1 DEF Reached
      <4>2. CASE by \in Syms /\ marks[by] >= Required /\ s \in Pulls(by)
        BY <4>2, FullIsOk, PulledIsReached DEF ReachedInv
      <4> QED
        BY <3>1, <4>1, <4>2
    <3>4. CASE /\ marks' = [marks EXCEPT ![s] = level]
               /\ UNCHANGED <<phase, cascade>>
      <4>1. \A t \in Syms \ {s} : marks'[t] = marks[t]
        BY <1>1, <3>4
      <4>2. \A t \in Syms : marks'[t] >= Required => Reached(t)
        BY <3>3, <4>1 DEF ReachedInv
      <4> QED
        BY <3>2, <3>4, <4>2, ReachedStays DEF ReachedInv
    <3>5. CASE /\ Verdict(s) = "cascade"
               /\ cascade' = [cascade EXCEPT ![s] = TRUE]
               /\ UNCHANGED <<phase, marks>>
      <4>1. \A t \in Syms \ {s} : cascade'[t] <=> cascade[t]
        BY <1>1, <3>5
      <4>2. \A t \in Syms : cascade'[t] => Reached(t) /\ Verdict(t) = "cascade"
        BY <3>3, <3>5, <4>1 DEF ReachedInv
      <4> QED
        BY <3>2, <3>5, <4>2, ReachedStays DEF ReachedInv
    <3>6. CASE /\ Verdict(s) \in {"conflict", "contradiction"}
               /\ phase' = Verdict(s)
               /\ UNCHANGED <<marks, cascade>>
      <4>1. Reached(s)' /\ Verdict(s)' = phase'
        BY <3>2, <3>3, <3>6, ReachedStays
      <4> QED
        BY <3>2, <3>6, <4>1, ReachedStays DEF ReachedInv
    <3> QED
      BY <2>2, <3>1, <3>4, <3>5, <3>6 DEF Outcome
  <2> QED
    BY <2>1, <2>2
<1> QED
  BY <1>2, <1>3, <1>4, <1>5, <1>6
  DEF Next, vars, EvaluateRules, EndDecide, EndSeed, Process, CheckEnums, closure

\* A shell's fully kept symbol stays fully kept.
LEMMA ShellsStay ==
    ASSUME LevelInv, Full \subseteq Full',
           NEW s \in Syms, marks[s] = Container
    PROVE \E d \in Full' : s \in Above[d]
  BY DEF LevelInv

LEMMA LevelStep ==
    IInv /\ DecidedInv /\ CauseInv /\ LevelInv /\ [Next]_vars => LevelInv'
<1> SUFFICES ASSUME IInv, DecidedInv, CauseInv, LevelInv, [Next]_vars PROVE LevelInv'
  OBVIOUS
<1>0. {None, Container, Required, Explicit} = {0, 1, 2, 3} /\ Required = 2 /\ Explicit = 3
      /\ Container = 1 /\ None = 0
  BY DEF None, Container, Required, Explicit
<1>1. /\ marks \in [Syms -> {None, Container, Required, Explicit}]
      /\ cascade \in [Syms -> BOOLEAN] /\ climb \in Syms \cup {NoSym}
  BY DEF IInv, TypeOK
<1>2. CASE UNCHANGED <<phase, ahead, marks, cascade, rules, decision>> /\ phase # "illegal enum"
  <2>1. Full' = Full
    BY <1>2 DEF Full
  <2> QED
    BY <1>2, <2>1, ReachedStays DEF LevelInv
<1>3. CASE EvaluateRules \/ Decide
  <2>1. phase' \notin {"seed", "close", "illegal enum", "done"}
    BY <1>3 DEF EvaluateRules, Decide
  <2>2. \A s \in Syms : marks'[s] # Explicit /\ marks'[s] # Container
    <3>1. \A s \in Syms : marks'[s] = None
      BY <1>3 DEF EvaluateRules, Decide, IInv, EarlyInv, closure
    <3> QED
      BY <1>0, <3>1
  <2> QED
    BY <2>1, <2>2 DEF LevelInv
<1>4. CASE EndDecide
  <2>1. phase' = "seed" /\ ahead' = Syms \ Builtin /\ UNCHANGED <<rules, decision>>
    BY <1>4 DEF EndDecide
  <2>2. \A s \in Syms : marks'[s] # Explicit /\ marks'[s] # Container
    BY <1>0, <1>4 DEF EndDecide, IInv, EarlyInv, closure
  <2>3. Seeds' \subseteq ahead'
    BY <2>1 DEF Seeds
  <2> QED
    BY <2>1, <2>2, <2>3 DEF LevelInv
<1>5. CASE EndSeed \/ CheckEnums
  <2>1. /\ UNCHANGED <<marks, cascade, rules, decision, queue, left, climb>>
        /\ \/ phase = "seed" /\ ahead = {} /\ phase' = "close"
           \/ /\ phase = "close" /\ phase' \in {"done", "illegal enum"}
              /\ queue = <<>> /\ left = {} /\ climb = NoSym
    BY <1>5 DEF EndSeed, CheckEnums, closure
  <2>2. Full' = Full
    BY <2>1 DEF Full
  <2>3. \A s \in Seeds : marks[s] = Explicit \/ cascade[s]
    BY <2>1 DEF LevelInv
  <2>4. Seeds' = Seeds /\ \A s : Pol(s)' = Pol(s)
    BY <2>1, ReachedStays
  <2> QED
    BY <2>1, <2>2, <2>3, <2>4 DEF LevelInv
<1>6. CASE Climb
  <2>0. PICK c, p : c = climb /\ p = Parent[c]
    OBVIOUS
  <2>1. /\ c \in Syms /\ UNCHANGED <<phase, ahead, cascade, rules, decision>>
        /\ \/ UNCHANGED marks
           \/ /\ p # NoSym /\ ~(marks[p] >= Container)
              /\ marks' = [marks EXCEPT ![p] = Container]
    BY <1>1, <1>6, <2>0 DEF Climb, Covered
  <2>2. phase # "illegal enum"
    BY <1>6 DEF Climb, LevelInv
  <2>3. CASE UNCHANGED marks
    BY <1>2, <2>1, <2>2, <2>3
  <2>4. CASE p # NoSym /\ ~(marks[p] >= Container) /\ marks' = [marks EXCEPT ![p] = Container]
    <3>1. p \in Syms
      BY <2>0, <2>1, <2>4, ParentIs
    <3>2. marks[p] = None
      BY <1>0, <1>1, <2>4, <3>1
    <3>3. marks'[p] = Container /\ \A s \in Syms \ {p} : marks'[s] = marks[s]
      BY <1>1, <2>4, <3>1
    <3>4. Full' = Full
      BY <1>0, <3>1, <3>2, <3>3 DEF Full
    <3>5. \E d \in Full : p \in Above[d]
      <4>1. marks[c] # None
        BY <2>0, <2>1, ParentIs DEF CauseInv
      <4>2. CASE marks[c] = Container
        <5>1. PICK d \in Full : c \in Above[d]
          BY <2>1, <4>2 DEF LevelInv
        <5>2. d \in Syms
          BY DEF Full
        <5> QED
          BY <2>0, <2>4, <5>1, <5>2, AboveClosed
      <4>3. CASE marks[c] # Container
        <5>1. c \in Full
          BY <1>0, <1>1, <2>1, <4>1, <4>3 DEF Full
        <5>2. p \in Above[c]
          BY <2>0, <2>1, <2>4, AboveOf
        <5> QED
          BY <5>1, <5>2
      <4> QED
        BY <4>2, <4>3
    <3>6. Seeds' = Seeds /\ \A s : Pol(s)' = Pol(s)
      BY <2>1, ReachedStays
    <3>7. \A s \in Syms : marks'[s] = Explicit <=> marks[s] = Explicit
      BY <1>0, <3>2, <3>3
    <3>8. \A s \in Syms : marks'[s] = Container => \E d \in Full' : s \in Above[d]
      BY <3>3, <3>4, <3>5 DEF LevelInv
    <3>9. Seeds \subseteq Syms
      BY DEF Seeds
    <3> QED
      BY <2>1, <2>2, <3>6, <3>7, <3>8, <3>9 DEF LevelInv
  <2> QED
    BY <2>1, <2>3, <2>4
<1>7. CASE Seed \/ Traverse
  <2>0. /\ phase \in {"seed", "close"} /\ UNCHANGED <<rules, decision>>
        /\ phase = "close" => ahead' = ahead
    BY <1>7, CallIs DEF Seed, Traverse
  <2>1. Seeds' = Seeds /\ (\A s : Pol(s)' = Pol(s)) /\ Seeds \subseteq Syms
    BY <2>0, ReachedStays DEF Seeds
  <2>2. CASE /\ phase = "seed" /\ ahead' = ahead \ {Least(ahead)}
             /\ Pol(Least(ahead)) # "keep"
             /\ UNCHANGED <<phase, marks, cascade>>
    <3>1. \A s \in Seeds : s # Least(ahead)
      BY <2>2 DEF Seeds
    <3>2. Full' = Full
      BY <2>2 DEF Full
    <3> QED
      BY <2>1, <2>2, <3>1, <3>2 DEF LevelInv
  <2>3. ASSUME NEW s \in Syms, NEW level \in {Required, Explicit}, NEW by \in Syms \cup {NoSym},
               Outcome(s, level, by),
               level = Explicit => Pol(s) = "keep",
               \/ /\ phase = "seed" /\ by = NoSym /\ s \in Seeds /\ level = Explicit
                  /\ ahead' = ahead \ {s}
               \/ phase = "close" /\ by \in Syms
        PROVE LevelInv'
    <3>1. ASSUME phase' = phase, marks'[s] = Explicit \/ cascade'[s] \/ phase = "close",
                 \A t \in Syms : (marks[t] = Explicit => marks'[t] = Explicit)
                                 /\ (cascade[t] => cascade'[t])
          PROVE \A t \in Seeds' : \/ phase' = "seed" /\ t \in ahead'
                                  \/ marks'[t] = Explicit \/ cascade'[t]
      BY <2>0, <2>1, <2>3, <3>1 DEF LevelInv
    <3>2. CASE /\ marks[s] >= level \/ cascade[s]
               /\ UNCHANGED <<phase, marks, cascade>>
      <4>1. Full' = Full
        BY <3>2 DEF Full
      <4>2. level = Explicit => marks[s] = Explicit \/ cascade[s]
        BY <1>0, <1>1, <3>2
      <4>3. \A t \in Seeds' : \/ phase' = "seed" /\ t \in ahead'
                              \/ marks'[t] = Explicit \/ cascade'[t]
        BY <2>3, <3>1, <3>2, <4>2
      <4> QED
        BY <2>0, <2>1, <3>2, <4>1, <4>3 DEF LevelInv
    <3>3. CASE /\ marks[s] < level /\ ~cascade[s]
               /\ marks' = [marks EXCEPT ![s] = level]
               /\ UNCHANGED <<phase, cascade>>
      <4>1. marks'[s] = level /\ \A t \in Syms \ {s} : marks'[t] = marks[t]
        BY <1>1, <3>3
      <4>2. Full \subseteq Full'
        BY <1>0, <4>1 DEF Full
      <4>3. \A t \in Syms : marks[t] = Explicit => marks'[t] = Explicit
        BY <1>0, <3>3, <4>1
      <4>4. \A t \in Seeds' : \/ phase' = "seed" /\ t \in ahead'
                              \/ marks'[t] = Explicit \/ cascade'[t]
        BY <2>3, <3>1, <3>3, <4>1, <4>3
      <4>5. \A t \in Syms : marks'[t] = Explicit => Pol(t)' = "keep"
        BY <2>1, <2>3, <4>1 DEF LevelInv
      <4>6. \A t \in Syms : marks'[t] = Container => \E d \in Full' : t \in Above[d]
        <5>1. level # Container
          BY <1>0
        <5> QED
          BY <4>1, <4>2, <5>1, ShellsStay
      <4> QED
        BY <2>0, <3>3, <4>4, <4>5, <4>6 DEF LevelInv
    <3>4. CASE cascade' = [cascade EXCEPT ![s] = TRUE] /\ UNCHANGED <<phase, marks>>
      <4>1. cascade'[s] /\ \A t \in Syms : cascade[t] => cascade'[t]
        BY <1>1, <3>4
      <4>2. \A t \in Seeds' : \/ phase' = "seed" /\ t \in ahead'
                              \/ marks'[t] = Explicit \/ cascade'[t]
        BY <3>1, <3>4, <4>1
      <4>3. Full' = Full
        BY <3>4 DEF Full
      <4> QED
        BY <2>0, <2>1, <3>4, <4>2, <4>3 DEF LevelInv
    <3>5. CASE phase' \in {"conflict", "contradiction"} /\ UNCHANGED <<marks, cascade>>
      <4>1. Full' = Full
        BY <3>5 DEF Full
      <4> QED
        BY <2>1, <3>5, <4>1 DEF LevelInv
    <3> QED
      BY <2>3, <3>2, <3>3, <3>4, <3>5 DEF Outcome
  <2> QED
    BY <1>7, <2>2, <2>3, CallIs
<1>8. CASE Process \/ UNCHANGED vars
  <2>1. /\ UNCHANGED <<phase, ahead, marks, cascade, rules, decision>>
        /\ phase # "illegal enum" \/ UNCHANGED <<queue, left, climb>>
    BY <1>8 DEF Process, vars
  <2>2. Full' = Full
    BY <2>1 DEF Full
  <2> QED
    BY <2>1, <2>2, ReachedStays DEF LevelInv
<1> QED
  BY <1>3, <1>4, <1>5, <1>6, <1>7, <1>8 DEF Next

LEMMA ClosureHolds == Spec => [](IInv /\ DecidedInv /\ CauseInv /\ ReachedInv /\ LevelInv)
<1>1. Init => ReachedInv /\ LevelInv
  BY DEF Init, ReachedInv, LevelInv, None, Container, Required, Explicit
<1> QED
  BY <1>1, ReachedStep, LevelStep, CauseHolds, DecidedHolds, Inductive, PTL DEF Spec

Round == [X \in SUBSET Syms |-> X \cup UNION {Pulls(s) : s \in {x \in X : Verdict(x) = "ok"}}]

LEMMA RoundFacts ==
    /\ Seeds \in SUBSET Syms
    /\ Round \in [SUBSET Syms -> SUBSET Syms]
    /\ \A X \in SUBSET Syms : X \subseteq Round[X]
    /\ \A X \in SUBSET Syms : X = {} => Round[X] = X
    /\ \A C \in SUBSET Syms : Round[C] = C <=> PullClosed(C)
<1>1. \A s \in Syms : Pulls(s) \subseteq Syms
  <2> SUFFICES ASSUME NEW s \in Syms PROVE Pulls(s) \subseteq Syms
    OBVIOUS
  <2>1. Contents(s) \subseteq Syms
    BY DEF Contents, Children
  <2>2. \A i \in DOMAIN Refs[s] : Refs[s][i] \in Syms
    BY SymbolsAssumption
  <2> QED
    BY <2>1, <2>2 DEF Pulls
<1>2. \A X \in SUBSET Syms : Round[X] = X \cup UNION {Pulls(s) : s \in {x \in X : Verdict(x) = "ok"}}
  BY DEF Round
<1>3. \A X \in SUBSET Syms : Round[X] \in SUBSET Syms
  BY <1>1, <1>2
<1>4. Round \in [SUBSET Syms -> SUBSET Syms]
  BY <1>3 DEF Round
<1>5. \A C \in SUBSET Syms : Round[C] = C <=> PullClosed(C)
  <2> SUFFICES ASSUME NEW C \in SUBSET Syms PROVE Round[C] = C <=> PullClosed(C)
    OBVIOUS
  <2>1. \A y : y \in Round[C] <=> y \in C \/ \E x \in C : Verdict(x) = "ok" /\ y \in Pulls(x)
    BY <1>2
  <2> QED
    BY <2>1 DEF PullClosed
<1>6. \A X \in SUBSET Syms : X \subseteq Round[X]
  BY <1>2
<1>7. \A X \in SUBSET Syms : X = {} => Round[X] = X
  BY <1>2
<1>8. Seeds \in SUBSET Syms
  BY DEF Seeds
<1> QED
  BY <1>4, <1>5, <1>6, <1>7, <1>8

LEMMA ReachIs ==
    Reach = [n \in 0..N |-> IF n = 0 THEN Seeds
             ELSE Reach[n - 1] \cup UNION {Pulls(s) : s \in {x \in Reach[n - 1] : Verdict(x) = "ok"}}]
<1>1. N \in Nat
  BY SymbolsAssumption
<1>2. PICK R : Rounds(R, Seeds, Round)
  BY RoundsExist
<1>3. \A n \in 0..N : R[n] \in SUBSET Syms
  <2>1. /\ R[0] = Seeds
        /\ \A n \in 0..N : R[n] \in SUBSET Syms /\ Seeds \subseteq R[n]
        /\ \A n \in 1..N : R[n] = Round[R[n - 1]] /\ R[n - 1] \subseteq R[n]
    BY <1>2, RoundFacts, RoundsGrow, Zenon
  <2> QED
    BY <2>1
<1>4. \A n \in 0..N : n # 0 => Round[R[n - 1]]
          = R[n - 1] \cup UNION {Pulls(s) : s \in {x \in R[n - 1] : Verdict(x) = "ok"}}
  <2> SUFFICES ASSUME NEW n \in 0..N, n # 0
               PROVE Round[R[n - 1]]
                       = R[n - 1] \cup UNION {Pulls(s) : s \in {x \in R[n - 1] : Verdict(x) = "ok"}}
    OBVIOUS
  <2>1. n - 1 \in 0..N
    BY <1>1
  <2>2. R[n - 1] \in SUBSET Syms
    BY <1>3, <2>1
  <2> QED
    BY <2>2 DEF Round
<1>5. R = [n \in 0..N |-> IF n = 0 THEN Seeds
           ELSE R[n - 1] \cup UNION {Pulls(s) : s \in {x \in R[n - 1] : Verdict(x) = "ok"}}]
  BY <1>2, <1>4 DEF Rounds
<1>6. R = [n \in 0..N |-> IF n = 0 THEN {s \in Syms \ Builtin : Pol(s) = "keep"}
           ELSE R[n - 1] \cup UNION {Pulls(s) : s \in {x \in R[n - 1] : Verdict(x) = "ok"}}]
  BY <1>5 DEF Seeds
<1>7. Reach = [n \in 0..N |-> IF n = 0 THEN {s \in Syms \ Builtin : Pol(s) = "keep"}
           ELSE Reach[n - 1] \cup UNION {Pulls(s) : s \in {x \in Reach[n - 1] : Verdict(x) = "ok"}}]
  BY <1>6 DEF Reach
<1> QED
  BY <1>7 DEF Seeds

\* The rounds of Reach are over after N, and reach what every closed set has.
LEMMA ReachCloses ==
    /\ Reach[N] \in SUBSET Syms /\ Seeds \subseteq Reach[N] /\ PullClosed(Reach[N])
    /\ \A C \in SUBSET Syms : Seeds \subseteq C /\ PullClosed(C) => Reach[N] \subseteq C
<1>1. N \in Nat /\ N \in 0..N
  BY SymbolsAssumption
<1> DEFINE Widened(X) == X \cup UNION {Pulls(s) : s \in {x \in X : Verdict(x) = "ok"}}
<1>2. \A X \in SUBSET Syms : Widened(X) = Round[X] /\ Widened(X) \in SUBSET Syms
  BY RoundFacts DEF Round
<1>3. Reach = [n \in 0..N |-> IF n = 0 THEN Seeds ELSE Widened(Reach[n - 1])]
  BY ReachIs
<1> HIDE DEF Widened
<1>4. Reach[0] = Seeds /\ \A n \in 1..N : Reach[n] = Widened(Reach[n - 1])
  <2>1. PICK R : R = Reach
    OBVIOUS
  <2>2. R = [n \in 0..N |-> IF n = 0 THEN Seeds ELSE Widened(R[n - 1])]
    BY <1>3, <2>1
  <2>3. \A n \in 0..N : R[n] = IF n = 0 THEN Seeds ELSE Widened(R[n - 1])
    BY <2>2, Zenon
  <2>4. 0 \in 0..N /\ \A n \in 1..N : n \in 0..N /\ n # 0
    BY <1>1
  <2> QED
    BY <2>1, <2>3, <2>4
<1>5. \A n \in 0..N : Reach[n] \in SUBSET Syms
  <2>1. Reach[0] \in SUBSET Syms
    BY <1>4, RoundFacts
  <2>2. \A n \in 1..N : Reach[n - 1] \in SUBSET Syms => Reach[n] \in SUBSET Syms
    BY <1>2, <1>4
  <2> QED
    BY <2>1, <2>2, StaysInSyms, Zenon
<1>6. Rounds(Reach, Seeds, Round)
  <2>1. \A n \in 0..N : n # 0 => Widened(Reach[n - 1]) = Round[Reach[n - 1]]
    <3> SUFFICES ASSUME NEW n \in 0..N, n # 0 PROVE Widened(Reach[n - 1]) = Round[Reach[n - 1]]
      OBVIOUS
    <3>1. n - 1 \in 0..N
      BY <1>1
    <3> QED
      BY <1>2, <1>5, <3>1
  <2>2. [n \in 0..N |-> IF n = 0 THEN Seeds ELSE Widened(Reach[n - 1])]
            = [n \in 0..N |-> IF n = 0 THEN Seeds ELSE Round[Reach[n - 1]]]
    BY <2>1
  <2>3. Reach = [n \in 0..N |-> IF n = 0 THEN Seeds ELSE Round[Reach[n - 1]]]
    BY <1>3, <2>2, Zenon
  <2> QED
    BY <2>3 DEF Rounds
<1>7. Round[Reach[N]] = Reach[N]
  <2>1. Seeds \in SUBSET Syms
    BY RoundFacts
  <2>2. Round \in [SUBSET Syms -> SUBSET Syms]
    BY RoundFacts
  <2>3. \A X \in SUBSET Syms : X \subseteq Round[X]
    BY RoundFacts
  <2>4. \A X \in SUBSET Syms : X = {} => Round[X] = X
    BY RoundFacts
  <2>5. \A R : Rounds(R, Seeds, Round) => Round[R[N]] = R[N]
    BY <2>1, <2>2, <2>3, <2>4, RoundsClose, ZenonT(60)
  <2> QED
    BY <1>6, <2>5
<1>8. Seeds \subseteq Reach[N]
  <2>1. /\ Reach[0] = Seeds
        /\ \A n \in 0..N : Reach[n] \in SUBSET Syms /\ Seeds \subseteq Reach[n]
        /\ \A n \in 1..N : Reach[n] = Round[Reach[n - 1]] /\ Reach[n - 1] \subseteq Reach[n]
    BY <1>6, RoundFacts, RoundsGrow, Zenon
  <2> QED
    BY <1>1, <2>1
<1>9. ASSUME NEW C \in SUBSET Syms, Seeds \subseteq C, PullClosed(C) PROVE Reach[N] \subseteq C
  <2>1. \A X \in SUBSET C : Round[X] \subseteq C
    BY <1>9 DEF Round, PullClosed
  <2>2. Seeds \in SUBSET Syms
    BY RoundFacts
  <2>3. Round \in [SUBSET Syms -> SUBSET Syms]
    BY RoundFacts
  <2> QED
    BY <1>6, <1>9, <2>1, <2>2, <2>3, RoundsLeast, ZenonT(60)
<1>10. Reach[N] \in SUBSET Syms
  BY <1>1, <1>5
<1>11. PullClosed(Reach[N])
  BY <1>7, <1>10, RoundFacts
<1> QED
  BY <1>8, <1>9, <1>10, <1>11

Ended == phase \in {"done", "illegal enum"}

\* At the end, the fully kept and the deleted symbols are closed under pulling.
LEMMA EndIsClosed ==
    ASSUME IInv, LevelInv, ReachedInv, Ended
    PROVE /\ queue = <<>> /\ left = {} /\ climb = NoSym
          /\ Seeds \subseteq {s \in Syms : marks[s] >= Required \/ cascade[s]}
          /\ PullClosed({s \in Syms : marks[s] >= Required \/ cascade[s]})
<1>1. queue = <<>> /\ left = {} /\ climb = NoSym
  BY DEF Ended, IInv, DoneInv, LevelInv
<1>2. Seeds \subseteq {s \in Syms : marks[s] >= Required \/ cascade[s]}
  <2>1. \A s \in Seeds : s \in Syms /\ (marks[s] = Explicit \/ cascade[s])
    BY DEF Ended, LevelInv, Seeds
  <2>2. Explicit >= Required
    BY DEF Required, Explicit
  <2> QED
    BY <2>1, <2>2
<1>3. ASSUME NEW x \in Syms, marks[x] >= Required \/ cascade[x], Verdict(x) = "ok", NEW y \in Pulls(x)
      PROVE y \in Syms /\ (marks[y] >= Required \/ cascade[y])
  <2>1. marks[x] >= Required
    BY <1>3 DEF ReachedInv
  <2>2. Pulled(x)
    <3>1. processed[x]
      BY <2>1 DEF IInv, MarkInv
    <3>2. ~ \E k \in 1..Len(queue) : queue[k] = x
      BY <1>1
    <3>3. phase \notin {"conflict", "contradiction"}
      BY DEF Ended
    <3> QED
      BY <3>1, <3>2, <3>3 DEF IInv, PulledInv
  <2>3. x \notin Builtin
    BY <1>3 DEF Pulls
  <2>4. CASE Kind[x] \in Def
    <3>1. y \in Contents(x) /\ y \in Syms
      BY <1>3, <2>3, <2>4 DEF Pulls, Contents, Children
    <3> QED
      BY <1>1, <2>2, <2>3, <2>4, <3>1 DEF Pulled, Pending
  <2>5. CASE Kind[x] \notin Def
    <3>1. PICK i \in DOMAIN Refs[x] : y = Refs[x][i]
      BY <1>3, <2>3, <2>5 DEF Pulls
    <3>2. \A j \in DOMAIN Refs[x] : Refs[x][j] \in Syms
      BY SymbolsAssumption
    <3> QED
      BY <1>1, <2>2, <2>5, <3>1, <3>2 DEF Pulled, Pending
  <2> QED
    BY <2>4, <2>5
<1> QED
  BY <1>1, <1>2, <1>3 DEF PullClosed

\* Whatever the order of the seeds and the queue, select ends with exactly the
\* least closed set of marks, and fails only over a symbol in that set.
THEOREM LeastClosure == Spec => []ClosureIsLeast
<1>1. IInv /\ DecidedInv /\ CauseInv /\ ReachedInv /\ LevelInv => ClosureIsLeast
  <2> SUFFICES ASSUME IInv, DecidedInv, CauseInv, ReachedInv, LevelInv PROVE ClosureIsLeast
    OBVIOUS
  <2> DEFINE reached == Reach[N]
             full == {s \in reached : Verdict(s) = "ok"}
  <2>1. reached \in SUBSET Syms /\ \A s : Reached(s) => s \in reached
    BY ReachCloses DEF Reached
  <2>2. ASSUME Ended
        PROVE \A s \in Syms : /\ marks[s] = Strength(s, full)
                              /\ cascade[s] <=> s \in reached /\ Verdict(s) = "cascade"
                              /\ s \in reached => Verdict(s) \in {"ok", "cascade"}
    <3>0. /\ {None, Container, Required, Explicit} = {0, 1, 2, 3}
          /\ None = 0 /\ Container = 1 /\ Required = 2 /\ Explicit = 3
      BY DEF None, Container, Required, Explicit
    <3>1. /\ climb = NoSym
          /\ Seeds \subseteq {s \in Syms : marks[s] >= Required \/ cascade[s]}
          /\ PullClosed({s \in Syms : marks[s] >= Required \/ cascade[s]})
      BY <2>2, EndIsClosed
    <3>2. reached \subseteq {s \in Syms : marks[s] >= Required \/ cascade[s]}
      BY <3>1, ReachCloses
    <3>3. \A s \in Syms : marks[s] >= Required => s \in reached /\ Verdict(s) = "ok"
      BY <2>1, FullIsOk DEF ReachedInv
    <3>4. \A s \in Syms : cascade[s] => s \in reached /\ Verdict(s) = "cascade"
      BY <2>1 DEF ReachedInv
    <3> HIDE DEF reached
    <3>5. full = Full
      BY <2>1, <3>2, <3>3, <3>4 DEF Full
    <3>6. \A s \in Syms : Parent[s] # NoSym /\ marks[s] # None =>
             Parent[s] \in Syms /\ marks[Parent[s]] # None
      BY <3>1, ParentIs DEF IInv, ClimbInv
    <3> DEFINE M == {s \in Syms : marks[s] # None}
    <3>7. \A d \in Full : Above[d] \subseteq M
      <4>1. Full \subseteq M
        BY <3>0 DEF Full
      <4>2. M \in SUBSET Syms /\ \A x \in M : Parent[x] # NoSym => Parent[x] \in M
        BY <3>6
      <4> HIDE DEF M
      <4> QED
        BY <4>1, <4>2, AboveAll
    <3>8. ASSUME NEW s \in Syms PROVE marks[s] = Strength(s, full)
      <4>1. marks[s] \in {0, 1, 2, 3}
        BY <3>0 DEF IInv, TypeOK
      <4>2. CASE s \in Full
        <5>1. marks[s] >= Required /\ ~cascade[s]
          BY <3>3, <3>4, <4>2 DEF Full
        <5>2. Pol(s) = "keep" => s \in Seeds
          BY <2>2, KeepIsOurs DEF Ended, IInv
        <5>3. Pol(s) = "keep" => marks[s] = Explicit
          BY <2>2, <5>1, <5>2 DEF Ended, LevelInv
        <5>4. Pol(s) # "keep" => marks[s] = Required
          <6>1. marks[s] = Explicit => Pol(s) = "keep"
            BY DEF LevelInv
          <6> QED
            BY <3>0, <4>1, <5>1, <6>1
        <5> QED
          BY <3>5, <4>2, <5>3, <5>4 DEF Strength
      <4>3. CASE s \notin Full
        <5>1. marks[s] = None \/ marks[s] = Container
          BY <3>0, <4>1, <4>3 DEF Full
        <5>2. marks[s] = Container <=> \E d \in Full : s \in Above[d]
          <6>1. marks[s] = Container => \E d \in Full : s \in Above[d]
            BY DEF LevelInv
          <6>2. (\E d \in Full : s \in Above[d]) => marks[s] # None
            BY <3>7
          <6> QED
            BY <5>1, <6>1, <6>2
        <5> QED
          BY <3>5, <4>3, <5>1, <5>2 DEF Strength
      <4> QED
        BY <4>2, <4>3
    <3>9. ASSUME NEW s \in Syms
          PROVE /\ cascade[s] <=> s \in reached /\ Verdict(s) = "cascade"
                /\ s \in reached => Verdict(s) \in {"ok", "cascade"}
      BY <3>2, <3>3, <3>4
    <3> QED
      BY <3>8, <3>9
  <2>3. ASSUME phase \in {"conflict", "contradiction"}
        PROVE \E s \in reached : Verdict(s) = phase
    BY <2>1, <2>3 DEF ReachedInv
  <2> HIDE DEF reached, full
  <2>4. /\ Ended =>
             \A s \in Syms : /\ marks[s] = Strength(s, full)
                             /\ cascade[s] <=> s \in reached /\ Verdict(s) = "cascade"
                             /\ s \in reached => Verdict(s) \in {"ok", "cascade"}
        /\ phase \in {"conflict", "contradiction"} => \E s \in reached : Verdict(s) = phase
    BY <2>2, <2>3
  <2> QED
    BY <2>4 DEF Ended, ClosureIsLeast, reached, full
<1> QED
  BY <1>1, ClosureHolds, PTL

=============================================================================
