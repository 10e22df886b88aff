------------------------------ MODULE LeastProofs ------------------------------
(***************************************************************************)
(* What is proved about Bridge and about Lex.  Both rest on what is least. *)
(* Bridge: no induction over paths is needed, as what can be reached is a  *)
(* least closed set and each claim names a set to close.  Lex: a scan over *)
(* words stops at the least place where a scan byte by byte would stop,    *)
(* for every text and every number of bytes in a word.                     *)
(***************************************************************************)
EXTENDS Bridge, Lex, Integers, SequenceTheorems, FiniteSetTheorems, WellFoundedInduction, TLAPS

-----------------------------------------------------------------------------
(* Bridge.                                                                 *)

\* The input of a run, as Init leaves it.
InputOK ==
    /\ provides = [f \in Files |-> ReachPub(imports, f)]
    /\ \A r \in refs : /\ r[2] \in Visible(imports, r[1])
                       /\ r[1] \in kept
                       /\ r[2] \in Files => r[2] \in kept

InQueue(f) == \E k \in 1..Len(queue) : queue[k] = f

\* Every line of a file with kept definitions has been visited, or will be.
SeedInv ==
    \A e \in imports : e.from \in kept /\ e.to \in Files =>
        \/ phase = "seed" /\ e \in ahead
        \/ Needed(e.from) \cap provides[e.to] \subseteq flow[e.to]

\* A file whose flow has not been passed on along a line is in the queue, or
\* is the one being passed on.
OnwardInv ==
    \A e \in imports : e.public /\ e.to \in Files /\ e.to # e.from =>
        \/ InQueue(e.from)
        \/ phase = "propagate" /\ e \in ahead
        \/ flow[e.from] \cap provides[e.to] \subseteq flow[e.to]

\* The lines ahead are those of the phase; in the propagation they are lines
\* of one file, and its flow is the demand.
AheadInv ==
    /\ phase = "seed" => \A e \in ahead : e.from \in kept /\ e.to \in Files
    /\ phase = "seed" => ahead \subseteq imports
    /\ phase = "propagate" => \A e \in ahead :
          /\ e.public /\ e.to \in Files /\ e.to # e.from
          /\ demand = flow[e.from]
          /\ \A x \in ahead : x.from = e.from

RequiredInv == required = kept \cup {t \in Files : flow[t] # {}}

\* Flow goes where it must only.
LeastInv ==
    \A t \in Files : \A d \in flow[t] :
        t \in Carriers(imports, d) /\ d \in {r[2] : r \in refs}

EndInv ==
    phase = "done" =>
        /\ ahead = {} /\ queue = <<>>
        /\ out = {e \in imports : e.from \in required /\ Survives(e)}

IInv == /\ TypeOK /\ InputOK /\ SeedInv /\ OnwardInv /\ AheadInv
        /\ RequiredInv /\ LeastInv /\ EndInv

-----------------------------------------------------------------------------
\* Import lines have their fields.
LEMMA LineType ==
    ASSUME TypeOK, NEW e \in imports
    PROVE  e.from \in Files /\ e.to \in Nodes /\ e.public \in BOOLEAN
BY GraphsAssumption DEF TypeOK, Imports

\* A node reaches itself.
LEMMA ReachSelf ==
    ASSUME NEW E, NEW n \in Nodes
    PROVE  n \in ReachPub(E, n)
BY DEF ReachPub

LEMMA ReachNodes ==
    ASSUME NEW E, NEW n
    PROVE  ReachPub(E, n) \in SUBSET Nodes
BY DEF ReachPub

\* Fewer lines reach less.
LEMMA ReachMono ==
    ASSUME NEW E, NEW D \in SUBSET E, NEW n
    PROVE  ReachPub(D, n) \subseteq ReachPub(E, n)
BY DEF ReachPub, Closed

\* What is reached over a public line is reached.
LEMMA ReachStep ==
    ASSUME NEW E, NEW e \in E, e.public, NEW d \in ReachPub(E, e.to)
    PROVE  d \in ReachPub(E, e.from)
BY DEF ReachPub, Closed

-----------------------------------------------------------------------------
LEMMA InitInv == Init => IInv
<1> SUFFICES ASSUME Init PROVE IInv
  OBVIOUS
<1>1. imports \in SUBSET Imports /\ refs \in SUBSET (Files \X Nodes)
  BY GraphsAssumption DEF Init
<1>2. InputOK
  BY <1>1 DEF Init, InputOK
<1>3. provides \in [Files -> SUBSET Nodes]
  BY ReachNodes DEF Init
<1>4. TypeOK
  BY <1>1, <1>3 DEF Init, TypeOK
<1>5. SeedInv
  BY DEF Init, SeedInv
<1>6. OnwardInv
  BY <1>4, LineType DEF Init, OnwardInv
<1>7. AheadInv
  BY DEF Init, AheadInv
<1>8. RequiredInv /\ LeastInv /\ EndInv
  BY DEF Init, RequiredInv, LeastInv, EndInv
<1> QED
  BY <1>2, <1>4, <1>5, <1>6, <1>7, <1>8 DEF IInv

\* What push_demand does to the stack: nothing leaves it.
LEMMA QueueGrows ==
    ASSUME TypeOK, NEW t \in Files, NEW W, PushDemand(t, W)
    PROVE  /\ queue' \in Seq(Files)
           /\ \A f \in Files : InQueue(f) => InQueue(f)'
           /\ Grows(t, W) => InQueue(t)'
<1>1. CASE Grows(t, W)
  <2>1. queue' = Append(queue, t) /\ queue \in Seq(Files)
    BY <1>1 DEF PushDemand, TypeOK
  <2>2. /\ Len(queue') = Len(queue) + 1 /\ Len(queue) \in Nat
        /\ \A k \in 1..Len(queue) : queue'[k] = queue[k]
        /\ queue'[Len(queue) + 1] = t
    BY <2>1
  <2>3. queue' \in Seq(Files)
    BY <2>1
  <2>4. \A f \in Files : InQueue(f) => InQueue(f)'
    BY <2>2 DEF InQueue
  <2>5. InQueue(t)'
    BY <2>2 DEF InQueue
  <2> QED
    BY <2>3, <2>4, <2>5
<1>2. CASE ~Grows(t, W)
  BY <1>2 DEF PushDemand, TypeOK, InQueue
<1> QED
  BY <1>1, <1>2

\* What it does to the flow: t gets its part of the demand, nobody else changes.
LEMMA FlowGrows ==
    ASSUME TypeOK, NEW t \in Files, NEW W, PushDemand(t, W)
    PROVE  /\ flow' \in [Files -> SUBSET Nodes]
           /\ flow'[t] = flow[t] \cup (W \cap provides[t])
           /\ \A f \in Files \ {t} : flow'[f] = flow[f]
           /\ ~Grows(t, W) => flow' = flow
<1>1. flow' = [flow EXCEPT ![t] = @ \cup (W \cap provides[t])]
  BY DEF PushDemand
<1>2. provides[t] \in SUBSET Nodes /\ flow \in [Files -> SUBSET Nodes]
  BY DEF TypeOK
<1>3. ~Grows(t, W) => flow[t] \cup (W \cap provides[t]) = flow[t]
  BY DEF Grows
<1> QED
  BY <1>1, <1>2, <1>3

\* push_demand keeps required in step with the flow.
LEMMA RequiredGrows ==
    ASSUME TypeOK, RequiredInv, UNCHANGED kept,
           NEW t \in Files, NEW W, PushDemand(t, W)
    PROVE  RequiredInv'
<1>1. CASE Grows(t, W)
  <2>1. flow'[t] # {}
    BY <1>1, FlowGrows DEF Grows
  <2>2. required' = required \cup {t}
    BY <1>1 DEF PushDemand
  <2> QED
    BY <2>1, <2>2, FlowGrows DEF RequiredInv
<1>2. CASE ~Grows(t, W)
  BY <1>2, FlowGrows DEF RequiredInv, PushDemand
<1> QED
  BY <1>1, <1>2

LEMMA PushTypes ==
    ASSUME TypeOK, UNCHANGED input, NEW t \in Files, NEW W, PushDemand(t, W)
    PROVE  /\ required' \subseteq Files
           /\ \A f \in Files : flow'[f] \subseteq provides'[f]
BY FlowGrows DEF TypeOK, PushDemand, input

\* Carriers: where demand for d enters, and where it goes on.
LEMMA CarrierEntry ==
    ASSUME NEW E, NEW e \in E, NEW d \in Needed(e.from),
           e.from \in kept, e.to \in Files, d \in ReachPub(E, e.to)
    PROVE  e.to \in Carriers(E, d)
BY DEF Carriers, Toward

LEMMA CarrierStep ==
    ASSUME NEW E, NEW d, NEW e \in E, e.public, e.from \in Carriers(E, d),
           e.to \in Files, d \in ReachPub(E, e.to)
    PROVE  e.to \in Carriers(E, d)
BY DEF Carriers, Toward

\* Carriers and InputOK speak of the input alone.
LEMMA InputFixed ==
    ASSUME UNCHANGED input
    PROVE  /\ InputOK => InputOK'
           /\ \A d : Carriers(imports, d)' = Carriers(imports, d)
           /\ \A f : Needed(f)' = Needed(f)
BY DEF input, InputOK, Carriers, Toward, Needed, ReachPub, Visible

\* A push along a line e of a demand that already flows, or enters, there.
LEMMA LeastKept ==
    ASSUME TypeOK, InputOK, LeastInv, UNCHANGED input,
           NEW e \in imports, e.to \in Files, NEW W, PushDemand(e.to, W),
           \/ e.from \in kept /\ W = Needed(e.from)
           \/ e.public /\ W = flow[e.from]
    PROVE  LeastInv'
<1> SUFFICES ASSUME NEW t \in Files, NEW d \in flow'[t], d \notin flow[t]
             PROVE  t \in Carriers(imports, d) /\ d \in {r[2] : r \in refs}
  BY InputFixed DEF LeastInv, input
<1>1. t = e.to /\ d \in W /\ d \in provides[t]
  BY FlowGrows
<1>2. d \in ReachPub(imports, e.to)
  BY <1>1 DEF InputOK
<1>3. CASE e.from \in kept /\ W = Needed(e.from)
  <2>1. <<e.from, d>> \in refs /\ <<e.from, d>>[2] = d
    BY <1>1, <1>3 DEF Needed
  <2> QED
    BY <1>1, <1>2, <1>3, <2>1, CarrierEntry
<1>4. CASE e.public /\ W = flow[e.from]
  <2>1. e.from \in Files
    BY LineType
  <2>2. e.from \in Carriers(imports, d) /\ d \in {r[2] : r \in refs}
    BY <1>1, <1>4, <2>1 DEF LeastInv
  <2> QED
    BY <1>1, <1>2, <1>4, <2>2, CarrierStep
<1> QED
  BY <1>3, <1>4

\* After a push into t of what e carries, e is done, and no other line becomes undone
\* but those of t, which is in the queue.
LEMMA OnwardKept ==
    ASSUME TypeOK, OnwardInv, UNCHANGED <<input, phase>>,
           NEW e \in ahead, e \in imports, e.to \in Files, NEW W, PushDemand(e.to, W),
           ahead' = ahead \ {e},
           phase = "propagate" => e.to # e.from /\ W = flow[e.from]
    PROVE  OnwardInv'
<1> SUFFICES ASSUME NEW x \in imports, x.public, x.to \in Files, x.to # x.from
             PROVE  \/ InQueue(x.from)'
                    \/ phase = "propagate" /\ x \in ahead \ {e}
                    \/ flow'[x.from] \cap provides[x.to] \subseteq flow'[x.to]
  BY DEF OnwardInv, input
<1>1. x.from \in Files
  BY LineType
<1>2. flow[x.to] \subseteq flow'[x.to]
  BY FlowGrows
<1>3. CASE x.from = e.to /\ Grows(e.to, W)
  BY <1>3, QueueGrows
<1>4. CASE ~(x.from = e.to /\ Grows(e.to, W))
  <2>1. flow'[x.from] = flow[x.from]
    BY <1>1, <1>4, FlowGrows
  <2>2. CASE InQueue(x.from)
    BY <1>1, <2>2, QueueGrows
  <2>3. CASE phase = "propagate" /\ x \in ahead
    <3>1. CASE x = e
      BY <2>1, <2>3, <3>1, FlowGrows
    <3> QED
      BY <2>3, <3>1
  <2>4. CASE flow[x.from] \cap provides[x.to] \subseteq flow[x.to]
    BY <1>2, <2>1, <2>4
  <2> QED
    BY <2>2, <2>3, <2>4 DEF OnwardInv
<1> QED
  BY <1>3, <1>4

\* The same for the lines of files with kept definitions.
LEMMA SeedKept ==
    ASSUME TypeOK, SeedInv, UNCHANGED <<input, phase>>,
           NEW e \in imports, e.to \in Files, NEW W, PushDemand(e.to, W),
           ahead' = ahead \ {e},
           phase = "seed" => W = Needed(e.from)
    PROVE  SeedInv'
<1> SUFFICES ASSUME NEW x \in imports, x.from \in kept, x.to \in Files
             PROVE  \/ phase = "seed" /\ x \in ahead \ {e}
                    \/ Needed(x.from) \cap provides[x.to] \subseteq flow'[x.to]
  BY InputFixed DEF SeedInv, input
<1>1. flow[x.to] \subseteq flow'[x.to]
  BY FlowGrows
<1>2. CASE x = e /\ phase = "seed"
  BY <1>2, FlowGrows
<1> QED
  BY <1>1, <1>2 DEF SeedInv

-----------------------------------------------------------------------------
LEMMA SeedStep ==
    ASSUME IInv, NEW e \in imports, Seed(e)
    PROVE  IInv'
<1> USE DEF IInv
<1>1. /\ phase = "seed" /\ e \in ahead /\ e.from \in kept /\ e.to \in Files
      /\ PushDemand(e.to, Needed(e.from)) /\ ahead' = ahead \ {e}
      /\ UNCHANGED input /\ UNCHANGED <<phase, demand, out>>
  BY DEF Seed, AheadInv
<1>2. TypeOK'
  BY <1>1, FlowGrows, QueueGrows, PushTypes DEF TypeOK, input
<1>3. InputOK'
  BY <1>1, InputFixed
<1>4. SeedInv'
  BY <1>1, SeedKept
<1>5. OnwardInv'
  BY <1>1, OnwardKept
<1>6. AheadInv'
  BY <1>1 DEF AheadInv, input
<1>7. RequiredInv'
  BY <1>1, RequiredGrows DEF input
<1>8. LeastInv'
  BY <1>1, LeastKept
<1>9. EndInv'
  BY <1>1 DEF EndInv
<1> QED
  BY <1>2, <1>3, <1>4, <1>5, <1>6, <1>7, <1>8, <1>9

LEMMA PropagateStep ==
    ASSUME IInv, NEW e \in imports, Propagate(e)
    PROVE  IInv'
<1> USE DEF IInv
<1>1. /\ phase = "propagate" /\ e \in ahead /\ e.public /\ e.to \in Files /\ e.to # e.from
      /\ demand = flow[e.from] /\ \A x \in ahead : x.from = e.from
      /\ PushDemand(e.to, demand) /\ ahead' = ahead \ {e}
      /\ UNCHANGED input /\ UNCHANGED <<phase, demand, out>>
  BY DEF Propagate, AheadInv
<1>2. TypeOK'
  BY <1>1, FlowGrows, QueueGrows, PushTypes DEF TypeOK, input
<1>3. InputOK'
  BY <1>1, InputFixed
<1>4. SeedInv'
  BY <1>1, SeedKept
<1>5. OnwardInv'
  BY <1>1, OnwardKept
<1>6. AheadInv'
  <2>1. e.from \in Files /\ flow'[e.from] = flow[e.from]
    BY <1>1, LineType, FlowGrows
  <2> QED
    BY <1>1, <2>1 DEF AheadInv
<1>7. RequiredInv'
  BY <1>1, RequiredGrows DEF input
<1>8. LeastInv'
  BY <1>1, LeastKept
<1>9. EndInv'
  BY <1>1 DEF EndInv
<1> QED
  BY <1>2, <1>3, <1>4, <1>5, <1>6, <1>7, <1>8, <1>9

LEMMA EndSeedStep ==
    ASSUME IInv, EndSeed
    PROVE  IInv'
<1> USE DEF IInv, EndSeed
<1>1. UNCHANGED input
  OBVIOUS
<1>2. TypeOK'
  BY DEF TypeOK, input
<1>3. InputOK'
  BY <1>1, InputFixed
<1>4. SeedInv'
  BY <1>1, InputFixed DEF SeedInv, input
<1>5. OnwardInv'
  BY DEF OnwardInv, InQueue, input
<1>6. AheadInv' /\ RequiredInv' /\ EndInv'
  BY DEF AheadInv, RequiredInv, EndInv, input
<1>7. LeastInv'
  BY <1>1, InputFixed DEF LeastInv, input
<1> QED
  BY <1>2, <1>3, <1>4, <1>5, <1>6, <1>7

\* Taking the top off the stack leaves every other file in it.
LEMMA PopQueue ==
    ASSUME TypeOK, Pop
    PROVE  /\ Top \in Files
           /\ queue' \in Seq(Files)
           /\ \A f : InQueue(f) => InQueue(f)' \/ f = Top
<1>1. queue \in Seq(Files) /\ queue # <<>> /\ Len(queue) \in Nat
  BY DEF Pop, TypeOK
<1>2. Len(queue) \in 1..Len(queue)
  BY <1>1
<1>3. queue' = SubSeq(queue, 1, Len(queue) - 1)
  BY DEF Pop
<1>4. /\ queue' \in Seq(Files) /\ Len(queue') = Len(queue) - 1
      /\ \A k \in 1..(Len(queue) - 1) : queue'[k] = queue[k]
  <2>1. PICK n \in Nat : Len(queue) - 1 = n
    BY <1>1, <1>2
  <2>2. n \in Int /\ 1 \in Int /\ \A k \in 1..n : queue[k] \in Files
    BY <1>1, <2>1
  <2>3. queue' = SubSeq(queue, 1, n)
    BY <1>3, <2>1
  <2>4. /\ queue' \in Seq(Files)
        /\ Len(queue') = IF 1 <= n THEN n - 1 + 1 ELSE 0
        /\ \A k \in 1..(n - 1 + 1) : queue'[k] = queue[1 + k - 1]
    BY <2>2, <2>3, SubSeqProperties
  <2>5. n - 1 + 1 = n /\ (IF 1 <= n THEN n ELSE 0) = n /\ \A k \in 1..n : 1 + k - 1 = k
    OBVIOUS
  <2>6. Len(queue') = n /\ \A k \in 1..n : queue'[k] = queue[k]
    BY <2>4, <2>5
  <2> QED
    BY <2>1, <2>4, <2>6
<1>5. ASSUME NEW f, InQueue(f), f # Top
      PROVE  InQueue(f)'
  <2>1. PICK k \in 1..Len(queue) : queue[k] = f
    BY <1>5 DEF InQueue
  <2>2. k # Len(queue)
    BY <1>5, <2>1 DEF Top
  <2>3. k \in 1..(Len(queue) - 1)
    BY <1>1, <2>1, <2>2
  <2> QED
    BY <1>4, <2>1, <2>3 DEF InQueue
<1> QED
  BY <1>1, <1>2, <1>4, <1>5 DEF Top

LEMMA PopStep ==
    ASSUME IInv, Pop
    PROVE  IInv'
<1> USE DEF IInv
<1>1. /\ phase = "propagate" /\ ahead = {} /\ demand' = flow[Top] /\ ahead' = Onward(Top)
      /\ UNCHANGED input /\ UNCHANGED <<phase, required, flow, out>>
  BY DEF Pop
<1>2. TypeOK'
  BY <1>1, PopQueue DEF TypeOK, input, Onward
<1>3. InputOK'
  BY <1>1, InputFixed
<1>4. SeedInv'
  BY <1>1, InputFixed DEF SeedInv, input
<1>5. OnwardInv'
  <2> SUFFICES ASSUME NEW x \in imports, x.public, x.to \in Files, x.to # x.from
               PROVE  \/ InQueue(x.from)'
                      \/ x \in ahead'
                      \/ flow[x.from] \cap provides[x.to] \subseteq flow[x.to]
    BY <1>1 DEF OnwardInv, input
  <2>1. CASE x.from = Top
    BY <1>1, <2>1 DEF Onward
  <2>2. CASE x.from # Top
    BY <1>1, <2>2, PopQueue DEF OnwardInv
  <2> QED
    BY <2>1, <2>2
<1>6. AheadInv'
  BY <1>1 DEF AheadInv, Onward
<1>7. RequiredInv' /\ EndInv'
  BY <1>1 DEF RequiredInv, EndInv, input
<1>8. LeastInv'
  BY <1>1, InputFixed DEF LeastInv, input
<1> QED
  BY <1>2, <1>3, <1>4, <1>5, <1>6, <1>7, <1>8

LEMMA MaterializeStep ==
    ASSUME IInv, Materialize
    PROVE  IInv'
<1> USE DEF IInv, Materialize
<1>1. UNCHANGED input
  OBVIOUS
<1>2. TypeOK'
  BY DEF TypeOK, input
<1>3. InputOK'
  BY <1>1, InputFixed
<1>4. SeedInv'
  BY <1>1, InputFixed DEF SeedInv, input
<1>5. OnwardInv'
  BY DEF OnwardInv, InQueue, input
<1>6. AheadInv' /\ RequiredInv'
  BY DEF AheadInv, RequiredInv, input
<1>7. EndInv'
  BY DEF EndInv, Survives, Provides, Needed, input
<1>8. LeastInv'
  BY <1>1, InputFixed DEF LeastInv, input
<1> QED
  BY <1>2, <1>3, <1>4, <1>5, <1>6, <1>7, <1>8

LEMMA StutterStep ==
    ASSUME IInv, UNCHANGED vars
    PROVE  IInv'
<1> USE DEF IInv, vars
<1>1. UNCHANGED input
  BY DEF input
<1>2. TypeOK' /\ OnwardInv' /\ AheadInv' /\ RequiredInv'
  BY DEF TypeOK, OnwardInv, InQueue, AheadInv, RequiredInv
<1>3. InputOK' /\ SeedInv' /\ LeastInv'
  BY <1>1, InputFixed DEF SeedInv, LeastInv
<1>4. EndInv'
  BY DEF EndInv, Survives, Provides, Needed
<1> QED
  BY <1>2, <1>3, <1>4

LEMMA Invariance == Spec => []IInv
<1>1. Init => IInv
  BY InitInv
<1>2. IInv /\ [Next]_vars => IInv'
  BY SeedStep, PropagateStep, EndSeedStep, PopStep, MaterializeStep, StutterStep DEF Next
<1> QED
  BY <1>1, <1>2, PTL DEF Spec

-----------------------------------------------------------------------------
(* What the invariant gives once the output is there.                      *)

\* Demand that enters a surviving file is there to the end of its line.
LEMMA EntryFlows ==
    ASSUME IInv, phase = "done", NEW e \in imports, e.from \in kept, e.to \in Files,
           NEW d \in Needed(e.from), d \in ReachPub(imports, e.to)
    PROVE  d \in flow[e.to]
BY DEF IInv, SeedInv, InputOK

LEMMA OnwardFlows ==
    ASSUME IInv, phase = "done", NEW e \in imports, e.public, e.to \in Files,
           NEW d \in flow[e.from], d \in ReachPub(imports, e.to)
    PROVE  d \in flow[e.to]
<1>1. ~InQueue(e.from)
  BY DEF IInv, EndInv, InQueue
<1> QED
  BY <1>1 DEF IInv, OnwardInv, InputOK

\* Files that demand flows through survive, and so do their public lines to
\* others of them and to well-known paths.
LEMMA FlowSurvives ==
    ASSUME IInv, phase = "done", NEW t \in Files, flow[t] # {}
    PROVE  /\ t \in required
           /\ \A e \in imports : e.public /\ e.from = t /\ (e.to \in Files => flow[e.to] # {})
                => e \in out
BY DEF IInv, RequiredInv, EndInv, Survives

\* A well-known path has no import lines.
LEMMA WktReach ==
    ASSUME TypeOK, NEW w \in Wkts
    PROVE  ReachPub(imports, w) = {w}
<1>1. w \in Nodes
  BY DEF Nodes
<1>2. \A e \in imports : e.from # w
  BY LineType, GraphsAssumption
<1>3. Closed(imports, {w})
  BY <1>2 DEF Closed
<1> QED
  BY <1>1, <1>3, ReachSelf DEF ReachPub

\* The provider is reached from there through the output.  The set to close
\* holds what does not reach d, and what does and is reached in the output.
LEMMA FlowReaches ==
    ASSUME IInv, phase = "done", NEW t \in Files, NEW d \in flow[t]
    PROVE  d \in ReachPub(out, t)
<1>1. d \in Nodes /\ t \in Nodes /\ d \in ReachPub(imports, t) /\ TypeOK
  BY DEF IInv, TypeOK, InputOK, Nodes
<1> SUFFICES ASSUME NEW S \in SUBSET Nodes, t \in S, Closed(out, S)
             PROVE  d \in S
  BY <1>1 DEF ReachPub
<1> DEFINE Reaches(u) == d \in ReachPub(imports, u)
           Carries(u) == u \in Files => d \in flow[u]
           W == {u \in Nodes : Reaches(u) => u \in S /\ Carries(u)}
<1>2. t \in W
  BY <1>1
<1>3. ASSUME NEW e \in imports, e.public, e.from \in W, Reaches(e.to)
      PROVE  e.to \in S /\ Carries(e.to)
  <2>1. e.to \in Nodes /\ e.from \in Files
    BY <1>1, LineType
  <2>2. Reaches(e.from)
    BY <1>3, ReachStep
  <2>3. e.from \in S /\ d \in flow[e.from]
    BY <1>3, <2>1, <2>2
  <2>4. Carries(e.to)
    BY <1>3, <2>3, OnwardFlows
  <2>5. e \in out
    BY <1>3, <2>1, <2>3, <2>4, FlowSurvives
  <2> QED
    BY <1>3, <2>3, <2>4, <2>5 DEF Closed
<1>4. Closed(imports, W)
  <2> SUFFICES ASSUME NEW e \in imports, e.public, e.from \in W PROVE e.to \in W
    BY DEF Closed
  <2> QED
    BY <1>1, <1>3, LineType
<1>5. d \in W
  <2>1. W \in SUBSET Nodes
    OBVIOUS
  <2> HIDE DEF W
  <2> QED
    BY <1>1, <1>2, <1>4, <2>1 DEF ReachPub
<1> QED
  BY <1>1, <1>5, ReachSelf

-----------------------------------------------------------------------------
\* Type correctness, for any set of files and import lines.
THEOREM TypeCorrect == Spec => []TypeOK
<1>1. IInv => TypeOK
  BY DEF IInv
<1> QED
  BY <1>1, Invariance, PTL

\* Whatever the import lines, cyclic or not: each reference that is kept leads
\* to a provider that is visible through the lines that survive.
THEOREM BridgesHold == Spec => []RefsStayVisible
<1>1. ASSUME IInv, phase = "done", NEW r \in refs
      PROVE  /\ r[1] \in required
             /\ r[2] \in Files => r[2] \in required
             /\ r[2] \in Visible(out, r[1])
  <2> DEFINE f == r[1]  d == r[2]
  <2>1. f \in Files /\ d \in Nodes /\ r = <<f, d>> /\ TypeOK
    BY <1>1 DEF IInv, TypeOK
  <2>2. d \in Visible(imports, f) /\ f \in kept /\ (d \in Files => d \in kept)
    BY <1>1 DEF IInv, InputOK
  <2>3. kept \subseteq required
    BY <1>1 DEF IInv, RequiredInv
  <2>4. d \in Visible(out, f)
    <3>1. CASE d = f
      BY <3>1 DEF Visible
    <3>2. CASE d # f
      <4>1. d \in Needed(f)
        BY <1>1, <2>1, <3>2 DEF Needed
      <4>2. PICK e \in imports : e.from = f /\ d \in ReachPub(imports, e.to)
        BY <2>2, <3>2 DEF Visible
      <4>3. e.to \in Nodes
        BY <2>1, LineType
      <4>4. CASE e.to \in Files
        <5>1. d \in flow[e.to]
          BY <1>1, <2>2, <4>1, <4>2, <4>4, EntryFlows
        <5>2. e.to \in required /\ d \in ReachPub(out, e.to)
          BY <1>1, <4>4, <5>1, FlowSurvives, FlowReaches
        <5>3. Provides(e.to) = ReachPub(imports, e.to)
          BY <1>1, <4>4 DEF IInv, InputOK, Provides
        <5>4. e \in out
          BY <1>1, <2>2, <2>3, <4>1, <4>2, <5>2, <5>3 DEF IInv, EndInv, Survives
        <5> QED
          BY <4>2, <5>2, <5>4 DEF Visible
      <4>5. CASE e.to \in Wkts
        <5>1. d = e.to /\ e.to \notin Files
          BY <2>1, <4>2, <4>5, WktReach, GraphsAssumption
        <5>2. e \in out
          BY <1>1, <2>2, <2>3, <4>1, <4>2, <5>1 DEF IInv, EndInv, Survives, Provides
        <5>3. d \in ReachPub(out, e.to)
          BY <4>3, <5>1, ReachSelf
        <5> QED
          BY <4>2, <5>2, <5>3 DEF Visible
      <4> QED
        BY <4>3, <4>4, <4>5 DEF Nodes
    <3> QED
      BY <3>1, <3>2
  <2> QED
    BY <2>2, <2>3, <2>4
<1>2. IInv => RefsStayVisible
  BY <1>1 DEF RefsStayVisible
<1> QED
  BY <1>2, Invariance, PTL

-----------------------------------------------------------------------------
Wanted == {r[2] : r \in refs}

\* In the end flow is exactly where it must be.
LEMMA FlowIsCarried ==
    ASSUME IInv, phase = "done", NEW d \in Wanted, NEW t \in Files
    PROVE  d \in flow[t] <=> t \in Carriers(imports, d)
<1>1. ASSUME d \in flow[t] PROVE t \in Carriers(imports, d)
  BY <1>1 DEF IInv, LeastInv
<1>2. ASSUME t \in Carriers(imports, d) PROVE d \in flow[t]
  <2> DEFINE S == {u \in Toward(imports, d) : d \in flow[u]}
  <2>1. ASSUME NEW e \in imports, e.from \in kept, d \in Needed(e.from),
               e.to \in Toward(imports, d)
        PROVE  e.to \in S
    BY <2>1, EntryFlows DEF Toward
  <2>2. ASSUME NEW e \in imports, e.public, e.from \in S, e.to \in Toward(imports, d)
        PROVE  e.to \in S
    BY <2>2, OnwardFlows DEF Toward
  <2>3. t \in S
    <3>1. S \in SUBSET Toward(imports, d)
      OBVIOUS
    <3> HIDE DEF S
    <3> QED
      BY <1>2, <2>1, <2>2, <3>1 DEF Carriers
  <2> QED
    BY <2>3
<1> QED
  BY <1>1, <1>2

LEMMA RequiredCarry ==
    ASSUME IInv, phase = "done"
    PROVE  required = RequiredIn(imports)
<1>1. \A t \in Files : flow[t] \subseteq Wanted
  BY DEF IInv, LeastInv, Wanted
<1>2. \A t \in Files : flow[t] # {} <=> \E d \in Wanted : t \in Carriers(imports, d)
  BY <1>1, FlowIsCarried
<1>3. \A d : Carriers(imports, d) \subseteq Files
  BY DEF Carriers, Toward
<1> QED
  BY <1>2, <1>3 DEF IInv, RequiredInv, RequiredIn, Wanted

\* The fixpoint computes the least set of files, whatever the order of the
\* stack: the files that survive are those with kept definitions and the carriers.
THEOREM OnlyCarriersSurvive == Spec => []RequiredIsLeast
<1>1. IInv => RequiredIsLeast
  BY RequiredCarry DEF RequiredIsLeast
<1> QED
  BY <1>1, Invariance, PTL

\* What carries d in the output carries it in the input.
LEMMA CarriersShrink ==
    ASSUME NEW E, NEW D \in SUBSET E, NEW d, NEW t \in Carriers(D, d)
    PROVE  t \in Carriers(E, d)
<1>1. Toward(D, d) \subseteq Toward(E, d)
  BY ReachMono DEF Toward
<1>2. t \in Toward(D, d)
  BY DEF Carriers
<1> SUFFICES ASSUME NEW S \in SUBSET Toward(E, d),
                    \A e \in E : e.from \in kept /\ d \in Needed(e.from) /\ e.to \in Toward(E, d)
                                => e.to \in S,
                    \A e \in E : e.public /\ e.from \in S /\ e.to \in Toward(E, d) => e.to \in S
             PROVE  t \in S
  BY <1>1, <1>2 DEF Carriers
<1> DEFINE R == S \cap Toward(D, d)
<1>3. R \in SUBSET Toward(D, d)
  OBVIOUS
<1>4. \A e \in D : e.from \in kept /\ d \in Needed(e.from) /\ e.to \in Toward(D, d) => e.to \in R
  BY <1>1
<1>5. \A e \in D : e.public /\ e.from \in R /\ e.to \in Toward(D, d) => e.to \in R
  BY <1>1
<1>6. t \in R
  <2> HIDE DEF R
  <2> QED
    BY <1>3, <1>4, <1>5 DEF Carriers
<1> QED
  BY <1>6

\* What carries d in the input still does in the output.
LEMMA CarriersStay ==
    ASSUME IInv, phase = "done", NEW d \in Wanted, NEW t \in Carriers(imports, d)
    PROVE  t \in Carriers(out, d)
<1>1. \A u \in Files : d \in flow[u] => u \in Toward(out, d)
  BY FlowReaches DEF Toward
<1>2. t \in Files /\ d \in flow[t]
  BY FlowIsCarried DEF Carriers, Toward
<1> SUFFICES ASSUME NEW S \in SUBSET Toward(out, d),
                    \A e \in out : e.from \in kept /\ d \in Needed(e.from) /\ e.to \in Toward(out, d)
                                => e.to \in S,
                    \A e \in out : e.public /\ e.from \in S /\ e.to \in Toward(out, d) => e.to \in S
             PROVE  t \in S
  BY <1>1, <1>2 DEF Carriers
<1> DEFINE R == {u \in Toward(imports, d) : d \in flow[u] /\ u \in S}
<1>3. R \in SUBSET Toward(imports, d)
  OBVIOUS
<1>4. ASSUME NEW e \in imports, e.from \in kept, d \in Needed(e.from), e.to \in Toward(imports, d)
      PROVE  e.to \in R
  <2>1. e.to \in Files /\ d \in ReachPub(imports, e.to)
    BY <1>4 DEF Toward
  <2>2. d \in flow[e.to]
    BY <1>4, <2>1, EntryFlows
  <2>3. e.to \in required
    BY <2>1, <2>2, FlowSurvives
  <2>4. e.from \in required /\ Provides(e.to) = ReachPub(imports, e.to)
    BY <1>4, <2>1 DEF IInv, RequiredInv, InputOK, Provides
  <2>5. e \in out
    BY <1>4, <2>1, <2>3, <2>4 DEF IInv, EndInv, Survives
  <2> QED
    BY <1>1, <1>4, <2>1, <2>2, <2>5
<1>5. ASSUME NEW e \in imports, e.public, e.from \in R, e.to \in Toward(imports, d)
      PROVE  e.to \in R
  <2>1. e.to \in Files /\ e.from \in Files /\ d \in ReachPub(imports, e.to)
    BY <1>5 DEF Toward
  <2>2. d \in flow[e.to]
    BY <1>5, <2>1, OnwardFlows
  <2>3. e \in out
    BY <1>5, <2>1, <2>2, FlowSurvives
  <2> QED
    BY <1>1, <1>5, <2>1, <2>2, <2>3
<1>6. t \in R
  <2> HIDE DEF R
  <2> QED
    BY <1>3, <1>4, <1>5 DEF Carriers
<1> QED
  BY <1>6

\* Pruning is idempotent on files and import lines: what survives once
\* survives again, although less is provided by then.
THEOREM PruningSettles == Spec => []PruningIsStable
<1>1. ASSUME IInv, phase = "done" PROVE RequiredIn(out) = required
  <2>1. out \in SUBSET imports
    BY <1>1 DEF IInv, TypeOK
  <2>2. \A d \in Wanted : Carriers(out, d) = Carriers(imports, d)
    BY <1>1, <2>1, CarriersShrink, CarriersStay
  <2>3. RequiredIn(out) = RequiredIn(imports)
    BY <2>2 DEF RequiredIn, Wanted
  <2> QED
    BY <1>1, <2>3, RequiredCarry
<1>2. ASSUME IInv, phase = "done", NEW e \in out
      PROVE  e.public \/ ReachPub(out, e.to) \cap Needed(e.from) # {}
  <2>1. e \in imports /\ e.from \in required /\ Survives(e) /\ TypeOK
    BY <1>2 DEF IInv, EndInv
  <2>2. e.from \in Files /\ e.to \in Nodes
    BY <2>1, LineType
  <2> SUFFICES ASSUME ~e.public PROVE ReachPub(out, e.to) \cap Needed(e.from) # {}
    OBVIOUS
  <2>3. PICK d \in Needed(e.from) : d \in Provides(e.to)
    BY <2>1 DEF Survives
  <2>4. e.from \in kept
    <3>1. <<e.from, d>> \in refs /\ <<e.from, d>>[1] = e.from
      BY <2>3 DEF Needed
    <3> QED
      BY <1>2, <3>1 DEF IInv, InputOK
  <2>5. CASE e.to \in Files
    <3>1. Provides(e.to) = ReachPub(imports, e.to)
      BY <1>2, <2>5 DEF IInv, InputOK, Provides
    <3>2. d \in flow[e.to]
      BY <1>2, <2>1, <2>3, <2>4, <2>5, <3>1, EntryFlows
    <3> QED
      BY <1>2, <2>3, <2>5, <3>2, FlowReaches
  <2>6. CASE e.to \notin Files
    BY <2>2, <2>3, <2>6, ReachSelf DEF Provides
  <2> QED
    BY <2>5, <2>6
<1>3. IInv => PruningIsStable
  BY <1>1, <1>2 DEF PruningIsStable
<1> QED
  BY <1>3, Invariance, PTL

-----------------------------------------------------------------------------
(* Lex.  First least elements, induction on a set of counterexamples, and  *)
(* recursion.                                                              *)

\* A set of numbers that is not empty has a least element.
LEMMA LeastIn ==
    ASSUME NEW S \in SUBSET Nat, S # {}
    PROVE Least(S) \in S /\ \A y \in S : Least(S) <= y
<1>1. IsWellFoundedOn(OpToRel(<, Nat), Nat)
  BY NatLessThanWellFounded
<1>2. PICK x \in S : \A y \in S : <<y, x>> \notin OpToRel(<, Nat)
  BY <1>1, WFMin
<1>3. \A y \in S : x <= y
  <2> SUFFICES ASSUME NEW y \in S, y < x PROVE FALSE
    OBVIOUS
  <2>1. <<y, x>> \in {ss \in Nat \X Nat : ss[1] < ss[2]}
    OBVIOUS
  <2> QED
    BY <1>2, <2>1 DEF OpToRel
<1> QED
  BY <1>3 DEF Least

LEMMA LeastIs ==
    ASSUME NEW S \in SUBSET Nat, NEW x \in S, \A y \in S : x <= y
    PROVE Least(S) = x
<1>1. Least(S) \in S /\ Least(S) <= x
  BY LeastIn
<1>2. x <= Least(S) /\ x \in Nat /\ Least(S) \in Nat
  BY <1>1
<1> QED
  BY <1>1, <1>2

\* A set of counterexamples that has no first one is empty.
LEMMA NoneFrom ==
    ASSUME NEW N \in Nat, NEW T \in SUBSET (0..N), 0 \notin T, \A k \in 1..N : k \in T => k - 1 \in T
    PROVE T = {}
<1> SUFFICES ASSUME T # {} PROVE FALSE
  OBVIOUS
<1>1. Least(T) \in T /\ \A y \in T : Least(T) <= y
  BY LeastIn
<1>2. Least(T) \in 1..N
  <2>1. Least(T) \in 0..N /\ Least(T) # 0
    BY <1>1
  <2> QED
    BY <2>1
<1>3. Least(T) - 1 \in T
  BY <1>1, <1>2
<1> QED
  BY <1>1, <1>2, <1>3

Maps(h, N) == \A k \in 1..N, v \in Nat : h[k][v] \in Nat

Recurs(f, N, a, h) == f \in [0..N -> Nat] /\ f[0] = a /\ \A k \in 1..N : f[k] = h[k][f[k-1]]

\* A recursion on the numbers up to N has a solution.
LEMMA RecursionIs ==
    ASSUME NEW N \in Nat, NEW a \in Nat, NEW h, Maps(h, N)
    PROVE \E f : Recurs(f, N, a, h)
<1> DEFINE Good(f, m) == Recurs(f, m, a, h)
           T == {m \in 0..N : ~ \E f : Good(f, m)}
<1>1. 0 \notin T
  <2>1. Good([k \in 0..0 |-> a], 0)
    BY DEF Recurs
  <2> HIDE DEF Good
  <2> QED
    BY <2>1
<1>2. ASSUME NEW m \in 1..N, m - 1 \notin T PROVE m \notin T
  <2>1. m - 1 \in 0..N /\ 0..m = (0..(m-1)) \cup {m} /\ m \notin 0..(m-1) /\ m \in Nat
    OBVIOUS
  <2>2. PICK f : Good(f, m - 1)
    <3> HIDE DEF Good
    <3> QED
      BY <1>2, <2>1
  <2> DEFINE g == [k \in 0..m |-> IF k = m THEN h[m][f[m-1]] ELSE f[k]]
  <2>3. h[m][f[m-1]] \in Nat
    <3>1. f[m-1] \in Nat
      BY <2>1, <2>2 DEF Recurs
    <3> QED
      BY <3>1 DEF Maps
  <2>4. g \in [0..m -> Nat]
    BY <2>1, <2>2, <2>3 DEF Recurs
  <2>5. \A k \in 0..(m-1) : g[k] = f[k]
    BY <2>1
  <2>6. g[m] = h[m][f[m-1]] /\ 0 \in 0..(m-1) /\ m - 1 \in 0..(m-1)
    BY <2>1
  <2> HIDE DEF g
  <2>7. ASSUME NEW k \in 1..m PROVE g[k] = h[k][g[k-1]]
    <3>1. CASE k = m
      BY <2>5, <2>6, <3>1
    <3>2. CASE k # m
      <4>1. k \in 1..(m-1) /\ k \in 0..(m-1) /\ k - 1 \in 0..(m-1)
        BY <2>1, <3>2
      <4> QED
        BY <2>2, <2>5, <4>1 DEF Recurs
    <3> QED
      BY <3>1, <3>2
  <2>8. Good(g, m)
    BY <2>2, <2>4, <2>5, <2>6, <2>7 DEF Recurs
  <2> HIDE DEF Good
  <2> QED
    BY <2>8
<1>3. T = {}
  <2>1. T \in SUBSET (0..N)
    OBVIOUS
  <2>2. \A m \in 1..N : m \in T => m - 1 \in T
    BY <1>2
  <2> HIDE DEF T
  <2> QED
    BY <1>1, <2>1, <2>2, NoneFrom
<1>4. PICK f : Good(f, N)
  <2> HIDE DEF Good
  <2>1. N \in 0..N
    OBVIOUS
  <2> QED
    BY <1>3, <2>1
<1> QED
  BY <1>4

-----------------------------------------------------------------------------
(* Words.                                                                  *)

LEMMA LanesAre == Lanes \in Nat /\ Lanes >= 1 /\ Lane = 0..(Lanes - 1)
  BY LanesAssumption DEF Lane

LEMMA PlaceIs ==
    /\ Place[0] = 1
    /\ \A k \in 0..Lanes : Place[k] \in Nat /\ Place[k] >= 1
    /\ \A k \in 1..Lanes : Place[k] = 256 * Place[k-1]
<1> DEFINE h == [k \in 1..Lanes |-> [v \in Nat |-> 256 * v]]
           Solves(f) == f = [k \in 0..Lanes |-> IF k = 0 THEN 1 ELSE 256 * f[k-1]]
<1>1. \A k \in 1..Lanes, v \in Nat : h[k][v] \in Nat /\ h[k][v] = 256 * v
  OBVIOUS
<1>2. PICK f : Recurs(f, Lanes, 1, h)
  <2>1. Maps(h, Lanes)
    BY <1>1 DEF Maps
  <2> HIDE DEF h
  <2> QED
    BY <2>1, LanesAre, RecursionIs
<1>3. \A k \in 1..Lanes : k - 1 \in 0..Lanes /\ k # 0
  BY LanesAre
<1>4. \A k \in 1..Lanes : f[k] = 256 * f[k-1]
  <2> TAKE k \in 1..Lanes
  <2>1. f[k-1] \in Nat /\ f[k] = h[k][f[k-1]]
    BY <1>2, <1>3 DEF Recurs
  <2> HIDE DEF h
  <2> QED
    BY <1>1, <2>1
<1>5. \A k \in 0..Lanes : k = 0 \/ k \in 1..Lanes
  BY LanesAre
<1>0. f \in [0..Lanes -> Nat] /\ f[0] = 1
  BY <1>2 DEF Recurs
<1>6. Solves(f)
  BY <1>0, <1>3, <1>4, <1>5
<1>7. Place = CHOOSE g : Solves(g)
  BY DEF Place
<1> HIDE DEF Solves
<1>8. Solves(Place)
  BY <1>6, <1>7
<1>9. Place[0] = 1 /\ \A k \in 1..Lanes : Place[k] = 256 * Place[k-1]
  BY <1>3, <1>5, <1>8, LanesAre DEF Solves
<1>10. \A k \in 0..Lanes : Place[k] = f[k]
  <2> DEFINE T == {k \in 0..Lanes : Place[k] # f[k]}
  <2>1. 0 \notin T
    BY <1>0, <1>9
  <2>2. \A k \in 1..Lanes : k \in T => k - 1 \in T
    BY <1>3, <1>4, <1>9
  <2>3. T \in SUBSET (0..Lanes) /\ \A k \in 0..Lanes : k \notin T => Place[k] = f[k]
    OBVIOUS
  <2> HIDE DEF T
  <2>4. T = {}
    BY <2>1, <2>2, <2>3, LanesAre, NoneFrom
  <2> QED
    BY <2>3, <2>4
<1>11. \A k \in 0..Lanes : Place[k] >= 1
  <2> DEFINE T == {k \in 0..Lanes : ~(Place[k] >= 1)}
  <2>1. 0 \notin T
    BY <1>9
  <2>2. \A k \in 1..Lanes : k \in T => k - 1 \in T
    BY <1>0, <1>3, <1>9, <1>10
  <2>3. T \in SUBSET (0..Lanes) /\ \A k \in 0..Lanes : k \notin T => Place[k] >= 1
    OBVIOUS
  <2> HIDE DEF T
  <2>4. T = {}
    BY <2>1, <2>2, <2>3, LanesAre, NoneFrom
  <2> QED
    BY <2>3, <2>4
<1> QED
  BY <1>0, <1>9, <1>10, <1>11

\* The sums that make up a word.
PackTo(f) == CHOOSE g : g = [k \in 0..Lanes |-> IF k = 0 THEN 0 ELSE g[k-1] + f[k-1] * Place[k-1]]

LEMMA PackIs ==
    ASSUME NEW f \in [Lane -> Nat]
    PROVE /\ Pack(f) = PackTo(f)[Lanes]
          /\ \A k \in 0..Lanes : PackTo(f)[k] \in Nat
          /\ PackTo(f)[0] = 0
          /\ \A k \in Lane : k \in 0..Lanes /\ k + 1 \in 0..Lanes
                               /\ PackTo(f)[k+1] = PackTo(f)[k] + f[k] * Place[k]
<1> DEFINE h == [k \in 1..Lanes |-> [v \in Nat |-> v + f[k-1] * Place[k-1]]]
           Solves(g) == g = [k \in 0..Lanes |-> IF k = 0 THEN 0 ELSE g[k-1] + f[k-1] * Place[k-1]]
<1>1. \A k \in 1..Lanes : k - 1 \in Lane /\ k - 1 \in 0..Lanes /\ k # 0 /\ f[k-1] * Place[k-1] \in Nat
  <2>1. \A k \in 1..Lanes : k - 1 \in Lane /\ k - 1 \in 0..Lanes /\ k # 0
    BY LanesAre
  <2>2. \A k \in 1..Lanes : f[k-1] \in Nat /\ Place[k-1] \in Nat
    BY <2>1, PlaceIs
  <2>3. \A x, y \in Nat : x * y \in Nat
    OBVIOUS
  <2> QED
    BY <2>1, <2>2, <2>3
<1>2. \A k \in 1..Lanes, v \in Nat : h[k][v] \in Nat /\ h[k][v] = v + f[k-1] * Place[k-1]
  BY <1>1
<1>3. PICK u : Recurs(u, Lanes, 0, h)
  <2>1. Maps(h, Lanes)
    BY <1>2 DEF Maps
  <2> HIDE DEF h
  <2> QED
    BY <2>1, LanesAre, RecursionIs
<1>4. \A k \in 1..Lanes : u[k] = u[k-1] + f[k-1] * Place[k-1]
  <2> TAKE k \in 1..Lanes
  <2>1. u[k-1] \in Nat /\ u[k] = h[k][u[k-1]]
    BY <1>1, <1>3 DEF Recurs
  <2> HIDE DEF h
  <2> QED
    BY <1>2, <2>1
<1>5. \A k \in 0..Lanes : k = 0 \/ k \in 1..Lanes
  BY LanesAre
<1>0. u \in [0..Lanes -> Nat] /\ u[0] = 0
  BY <1>3 DEF Recurs
<1>6. Solves(u)
  BY <1>1, <1>0, <1>4, <1>5
<1>7. PackTo(f) = CHOOSE g : Solves(g)
  BY DEF PackTo
<1>8. Pack(f) = (CHOOSE g : Solves(g))[Lanes]
  BY DEF Pack
<1> HIDE DEF Solves, h
<1>9. Solves(PackTo(f))
  BY <1>6, <1>7
<1>10. PackTo(f)[0] = 0 /\ \A k \in 1..Lanes : PackTo(f)[k] = PackTo(f)[k-1] + f[k-1] * Place[k-1]
  BY <1>1, <1>5, <1>9, LanesAre DEF Solves
<1>11. \A k \in 0..Lanes : PackTo(f)[k] = u[k]
  <2> DEFINE T == {k \in 0..Lanes : PackTo(f)[k] # u[k]}
  <2>1. 0 \notin T
    BY <1>0, <1>10
  <2>2. \A k \in 1..Lanes : k \in T => k - 1 \in T
    BY <1>1, <1>4, <1>10
  <2>3. T \in SUBSET (0..Lanes) /\ \A k \in 0..Lanes : k \notin T => PackTo(f)[k] = u[k]
    OBVIOUS
  <2> HIDE DEF T
  <2>4. T = {}
    BY <2>1, <2>2, <2>3, LanesAre, NoneFrom
  <2> QED
    BY <2>3, <2>4
<1>12. \A k \in Lane : k \in 0..Lanes /\ k + 1 \in 1..Lanes /\ k + 1 \in 0..Lanes /\ (k + 1) - 1 = k
  BY LanesAre
<1> QED
  BY <1>0, <1>7, <1>8, <1>10, <1>11, <1>12

\* Words add up byte by byte.
LEMMA PackSum ==
    ASSUME NEW f \in [Lane -> Nat], NEW g \in [Lane -> Nat], NEW h \in [Lane -> Nat],
           \A k \in Lane : h[k] = f[k] + g[k]
    PROVE Pack(h) = Pack(f) + Pack(g)
<1> DEFINE T == {k \in 0..Lanes : PackTo(h)[k] # PackTo(f)[k] + PackTo(g)[k]}
<1>1. 0 \notin T
  BY PackIs
<1>2. \A k \in Lane : k \notin T => k + 1 \notin T
  <2> SUFFICES ASSUME NEW k \in Lane, k \notin T PROVE k + 1 \notin T
    OBVIOUS
  <2>1. /\ k \in 0..Lanes /\ k + 1 \in 0..Lanes
        /\ PackTo(h)[k+1] = PackTo(h)[k] + h[k] * Place[k]
        /\ PackTo(f)[k+1] = PackTo(f)[k] + f[k] * Place[k]
        /\ PackTo(g)[k+1] = PackTo(g)[k] + g[k] * Place[k]
    BY PackIs
  <2>2. PackTo(h)[k] = PackTo(f)[k] + PackTo(g)[k]
    BY <2>1
  <2>3. PackTo(f)[k] \in Nat /\ PackTo(g)[k] \in Nat /\ Place[k] \in Nat /\ f[k] \in Nat /\ g[k] \in Nat
    BY <2>1, PackIs, PlaceIs
  <2>4. \A p, q, x \in Nat : (p + q) * x = p * x + q * x /\ p * x \in Nat /\ q * x \in Nat
    OBVIOUS
  <2>5. h[k] * Place[k] = f[k] * Place[k] + g[k] * Place[k] /\ f[k] * Place[k] \in Nat /\ g[k] * Place[k] \in Nat
    BY <2>3, <2>4
  <2>6. PackTo(h)[k+1] = PackTo(f)[k+1] + PackTo(g)[k+1]
    BY <2>1, <2>2, <2>3, <2>5
  <2> QED
    BY <2>6
<1>3. \A k \in 1..Lanes : k - 1 \in Lane /\ (k - 1) + 1 = k
  BY LanesAre
<1>4. T \in SUBSET (0..Lanes) /\ \A k \in 0..Lanes : k \notin T => PackTo(h)[k] = PackTo(f)[k] + PackTo(g)[k]
  OBVIOUS
<1> HIDE DEF T
<1>5. \A k \in 1..Lanes : k \in T => k - 1 \in T
  BY <1>2, <1>3
<1>6. T = {}
  BY <1>1, <1>4, <1>5, LanesAre, NoneFrom
<1>7. Lanes \in 0..Lanes
  BY LanesAre
<1> QED
  BY <1>4, <1>6, <1>7, PackIs

\* The word with the same number in each byte.
LEMMA PackSame ==
    ASSUME NEW c \in Nat
    PROVE Pack([k \in Lane |-> c]) = Ones * c /\ Ones \in Nat
<1> DEFINE f == [k \in Lane |-> c]
           g == [k \in Lane |-> 1]
           T == {k \in 0..Lanes : PackTo(f)[k] # PackTo(g)[k] * c}
<1>1. f \in [Lane -> Nat] /\ g \in [Lane -> Nat] /\ \A k \in Lane : f[k] = c /\ g[k] = 1
  OBVIOUS
<1> HIDE DEF f, g
<1>2. 0 \notin T
  BY <1>1, PackIs
<1>3. \A k \in Lane : k \notin T => k + 1 \notin T
  <2> SUFFICES ASSUME NEW k \in Lane, k \notin T PROVE k + 1 \notin T
    OBVIOUS
  <2>1. /\ k \in 0..Lanes /\ k + 1 \in 0..Lanes
        /\ PackTo(f)[k+1] = PackTo(f)[k] + c * Place[k]
        /\ PackTo(g)[k+1] = PackTo(g)[k] + 1 * Place[k]
    BY <1>1, PackIs
  <2>2. PackTo(f)[k] = PackTo(g)[k] * c
    BY <2>1
  <2>3. PackTo(g)[k] \in Nat /\ Place[k] \in Nat
    BY <1>1, <2>1, PackIs, PlaceIs
  <2>4. \A p, x \in Nat : (p + 1 * x) * c = p * c + c * x
    OBVIOUS
  <2>5. PackTo(f)[k+1] = PackTo(g)[k+1] * c
    BY <2>1, <2>2, <2>3, <2>4
  <2> QED
    BY <2>5
<1>4. \A k \in 1..Lanes : k - 1 \in Lane /\ (k - 1) + 1 = k
  BY LanesAre
<1>5. T \in SUBSET (0..Lanes) /\ \A k \in 0..Lanes : k \notin T => PackTo(f)[k] = PackTo(g)[k] * c
  OBVIOUS
<1> HIDE DEF T
<1>6. \A k \in 1..Lanes : k \in T => k - 1 \in T
  BY <1>3, <1>4
<1>7. T = {}
  BY <1>2, <1>5, <1>6, LanesAre, NoneFrom
<1>8. Lanes \in 0..Lanes
  BY LanesAre
<1>9. Pack(f) = Pack(g) * c /\ Pack(g) \in Nat
  BY <1>1, <1>5, <1>7, <1>8, PackIs
<1> QED
  BY <1>9 DEF f, g, Ones

LEMMA DivIs ==
    ASSUME NEW p \in Nat, p >= 1, NEW q \in Int, NEW l \in Int, 0 <= l, l < p
    PROVE (l + p * q) \div p = q
  OBVIOUS

\* What is next to a byte of a word.
LEMMA PackNext ==
    ASSUME NEW f \in [Lane -> Nat], NEW k \in Lane
    PROVE /\ k \in Nat /\ k \in 0..Lanes /\ k + 1 \in 0..Lanes /\ k + 1 \in 1..Lanes /\ (k + 1) - 1 = k
          /\ PackTo(f)[k+1] = PackTo(f)[k] + f[k] * Place[k]
          /\ PackTo(f)[k] \in Nat /\ PackTo(f)[k+1] \in Nat
          /\ Place[k] \in Nat /\ Place[k] >= 1 /\ Place[k+1] \in Nat
          /\ Place[k+1] = 256 * Place[k]
<1>1. k \in Nat /\ k \in 0..Lanes /\ k + 1 \in 0..Lanes /\ k + 1 \in 1..Lanes /\ (k + 1) - 1 = k
  BY LanesAre
<1>2. PackTo(f)[k+1] = PackTo(f)[k] + f[k] * Place[k]
  BY PackIs
<1>3. PackTo(f)[k] \in Nat /\ PackTo(f)[k+1] \in Nat
  BY <1>1, PackIs
<1>4. Place[k] \in Nat /\ Place[k] >= 1 /\ Place[k+1] \in Nat
  BY <1>1, PlaceIs
<1>5. Place[k+1] = 256 * Place[k]
  BY <1>1, PlaceIs
<1> QED
  BY <1>1, <1>2, <1>3, <1>4, <1>5

\* The bytes of a word are those it was made of, and no more.
LEMMA BytesOfPack ==
    ASSUME NEW f \in [Lane -> Bytes]
    PROVE /\ Pack(f) \in Nat /\ Pack(f) < Place[Lanes]
          /\ \A k \in Lane : ByteOf(Pack(f), k) = f[k]
<1>1. f \in [Lane -> Nat] /\ \A k \in Lane : f[k] \in 0..255
  BY DEF Bytes
<1>2. \A k \in 1..Lanes : k - 1 \in Lane /\ (k - 1) + 1 = k
  BY LanesAre
<1>3. \A k \in 0..Lanes : PackTo(f)[k] < Place[k]
  <2> DEFINE T == {k \in 0..Lanes : ~(PackTo(f)[k] < Place[k])}
  <2>1. 0 \notin T
    BY <1>1, PackIs, PlaceIs
  <2>2. \A k \in Lane : k \notin T => k + 1 \notin T
    <3> SUFFICES ASSUME NEW k \in Lane, k \notin T PROVE k + 1 \notin T
      OBVIOUS
    <3>1. /\ k \in 0..Lanes /\ k + 1 \in 0..Lanes
          /\ PackTo(f)[k+1] = PackTo(f)[k] + f[k] * Place[k]
          /\ PackTo(f)[k] \in Nat /\ Place[k] \in Nat /\ PackTo(f)[k] < Place[k]
      BY <1>1, PackIs, PlaceIs
    <3>2. Place[k+1] = 256 * Place[k]
      <4>1. k + 1 \in 1..Lanes /\ (k + 1) - 1 = k
        BY LanesAre
      <4> QED
        BY <4>1, PlaceIs
    <3>3. \A p \in 0..255, x \in Nat : p * x <= 255 * x /\ p * x \in Nat
      OBVIOUS
    <3>4. f[k] * Place[k] <= 255 * Place[k] /\ f[k] * Place[k] \in Nat
      BY <1>1, <3>1, <3>3
    <3>5. PackTo(f)[k+1] < Place[k+1]
      BY <3>1, <3>2, <3>4
    <3> QED
      BY <3>5
  <2>3. T \in SUBSET (0..Lanes) /\ \A k \in 0..Lanes : k \notin T => PackTo(f)[k] < Place[k]
    OBVIOUS
  <2> HIDE DEF T
  <2>4. \A k \in 1..Lanes : k \in T => k - 1 \in T
    BY <1>2, <2>2
  <2>5. T = {}
    BY <2>1, <2>3, <2>4, LanesAre, NoneFrom
  <2> QED
    BY <2>3, <2>5
<1>4. ASSUME NEW k \in Lane PROVE ByteOf(Pack(f), k) = f[k]
  <2> DEFINE Rest(m) == \E h, c \in Nat : /\ Place[m] = Place[k+1] * c
                                         /\ PackTo(f)[m] = PackTo(f)[k+1] + Place[k+1] * h
             T == {m \in 0..Lanes : m >= k + 1 /\ ~Rest(m)}
  <2>1. /\ k \in 0..Lanes /\ k + 1 \in 0..Lanes /\ k \in Nat /\ k + 1 \in 1..Lanes /\ (k + 1) - 1 = k
        /\ PackTo(f)[k+1] = PackTo(f)[k] + f[k] * Place[k]
        /\ PackTo(f)[k] \in Nat /\ PackTo(f)[k+1] \in Nat
        /\ Place[k] \in Nat /\ Place[k] >= 1 /\ Place[k+1] \in Nat
        /\ Place[k+1] = 256 * Place[k] /\ PackTo(f)[k] < Place[k] /\ f[k] \in 0..255
    BY <1>1, <1>3, PackNext
  <2>2. Rest(k + 1)
    <3>1. Place[k+1] = Place[k+1] * 1 /\ PackTo(f)[k+1] = PackTo(f)[k+1] + Place[k+1] * 0
      BY <2>1
    <3> QED
      BY <3>1
  <2>3. ASSUME NEW m \in Lane, m >= k + 1, Rest(m) PROVE Rest(m + 1)
    <3>1. PICK h, c \in Nat : /\ Place[m] = Place[k+1] * c
                              /\ PackTo(f)[m] = PackTo(f)[k+1] + Place[k+1] * h
      BY <2>3
    <3>2. /\ m \in 0..Lanes /\ m + 1 \in 1..Lanes /\ (m + 1) - 1 = m
          /\ PackTo(f)[m+1] = PackTo(f)[m] + f[m] * Place[m]
          /\ Place[m+1] = 256 * Place[m] /\ f[m] \in Nat
      BY <1>1, PackNext
    <3>3. \A x, y, z \in Nat : 256 * (x * y) = x * (256 * y) /\ z * (x * y) = x * (z * y)
                                 /\ x * y + x * z = x * (y + z) /\ x * y \in Nat
      OBVIOUS
    <3>4. Place[m+1] = Place[k+1] * (256 * c)
      BY <2>1, <3>1, <3>2, <3>3
    <3>5. f[m] * Place[m] = Place[k+1] * (f[m] * c) /\ f[m] * c \in Nat
      BY <2>1, <3>1, <3>2, <3>3
    <3>6. Place[k+1] * h + Place[k+1] * (f[m] * c) = Place[k+1] * (h + f[m] * c)
            /\ Place[k+1] * h \in Nat /\ Place[k+1] * (f[m] * c) \in Nat
      BY <2>1, <3>3, <3>5
    <3>7. PackTo(f)[m+1] = PackTo(f)[k+1] + Place[k+1] * (h + f[m] * c)
      BY <2>1, <3>1, <3>2, <3>5, <3>6
    <3>8. 256 * c \in Nat /\ h + f[m] * c \in Nat
      BY <3>5
    <3> QED
      BY <3>4, <3>7, <3>8
  <2>4. T \in SUBSET (0..Lanes) /\ \A m : m \in T <=> m \in 0..Lanes /\ m >= k + 1 /\ ~Rest(m)
    OBVIOUS
  <2> HIDE DEF T, Rest
  <2>5. 0 \notin T
    BY <2>1, <2>4
  <2>6. ASSUME NEW m \in 1..Lanes, m \in T PROVE m - 1 \in T
    <3>1. m >= k + 1 /\ ~Rest(m)
      BY <2>4, <2>6
    <3>2. m # k + 1
      BY <2>2, <3>1
    <3>3. m - 1 \in Lane /\ m - 1 \in 0..Lanes /\ m - 1 >= k + 1 /\ (m - 1) + 1 = m
      BY <2>1, <3>1, <3>2, LanesAre
    <3>4. ~Rest(m - 1)
      BY <2>3, <3>1, <3>3
    <3> QED
      BY <2>4, <3>3, <3>4
  <2>7. T = {}
    BY <2>4, <2>5, <2>6, LanesAre, NoneFrom
  <2>8. Rest(Lanes)
    <3>1. Lanes \in 0..Lanes /\ Lanes >= k + 1
      BY <2>1, LanesAre
    <3> QED
      BY <2>4, <2>7, <3>1
  <2>9. PICK h \in Nat : PackTo(f)[Lanes] = PackTo(f)[k+1] + Place[k+1] * h
    BY <2>8 DEF Rest
  <2>10. PICK P, l, d : P = Place[k] /\ l = PackTo(f)[k] /\ d = f[k]
    OBVIOUS
  <2>11. P \in Nat /\ P >= 1 /\ l \in Nat /\ l < P /\ d \in 0..255
    BY <2>1, <2>10
  <2>12. Pack(f) = (l + d * P) + (256 * P) * h
    BY <1>1, <2>1, <2>9, <2>10, PackIs
  <2>13. Pack(f) = l + P * (d + 256 * h)
    <3>1. \A x \in Nat, y \in 0..255 : (l + y * x) + (256 * x) * h = l + x * (y + 256 * h)
      BY <2>11
    <3> QED
      BY <2>11, <2>12, <3>1
  <2>14. Pack(f) \div P = d + 256 * h
    <3>1. d + 256 * h \in Int
      BY <2>11
    <3> QED
      BY <2>11, <2>13, <3>1, DivIs
  <2>15. (d + 256 * h) % 256 = d
    BY <2>11
  <2> QED
    BY <2>10, <2>14, <2>15 DEF ByteOf
<1>5. Pack(f) \in Nat /\ Pack(f) < Place[Lanes]
  <2>1. Lanes \in 0..Lanes
    BY LanesAre
  <2> QED
    BY <1>1, <1>3, <2>1, PackIs
<1> QED
  BY <1>4, <1>5

-----------------------------------------------------------------------------
(* Masks.                                                                  *)

\* A byte is the sum of its bits.
LEMMA BitsOf ==
    ASSUME NEW x \in Bytes
    PROVE x = (x % 2) + 2 * ((x \div 2) % 2) + 4 * ((x \div 4) % 2) + 8 * ((x \div 8) % 2)
                + 16 * ((x \div 16) % 2) + 32 * ((x \div 32) % 2) + 64 * ((x \div 64) % 2)
                + 128 * ((x \div 128) % 2)
  BY DEF Bytes

LEMMA SameParity ==
    ASSUME NEW p \in Nat, NEW q \in Nat
    PROVE /\ (p + q) % 2 \in {0, 1}
          /\ (p + q) % 2 = 0 <=> p % 2 = q % 2
  OBVIOUS

\* Two bytes are equal if no bit tells them apart.
LEMMA XorIs ==
    ASSUME NEW x \in Bytes, NEW y \in Bytes
    PROVE Xor(x, y) \in Bytes /\ (Xor(x, y) = 0 <=> x = y)
<1> DEFINE d(b) == ((x \div b) + (y \div b)) % 2
<1>1. x \in Nat /\ y \in Nat
  BY DEF Bytes
<1>2. \A b \in {1, 2, 4, 8, 16, 32, 64, 128} :
        d(b) \in {0, 1} /\ (d(b) = 0 <=> (x \div b) % 2 = (y \div b) % 2)
  <2> TAKE b \in {1, 2, 4, 8, 16, 32, 64, 128}
  <2>1. x \div b \in Nat /\ y \div b \in Nat
    BY <1>1
  <2> QED
    BY <2>1, SameParity
<1>3. Xor(x, y) = 1 * d(1) + 2 * d(2) + 4 * d(4) + 8 * d(8) + 16 * d(16) + 32 * d(32)
                    + 64 * d(64) + 128 * d(128)
  BY DEF Xor
<1>4. x \div 1 = x /\ y \div 1 = y
  BY <1>1
<1> HIDE DEF d
<1>5. Xor(x, y) \in 0..255
  BY <1>2, <1>3
<1>6. Xor(x, y) = 0 <=> \A b \in {1, 2, 4, 8, 16, 32, 64, 128} : d(b) = 0
  BY <1>2, <1>3
<1>7. (\A b \in {1, 2, 4, 8, 16, 32, 64, 128} : (x \div b) % 2 = (y \div b) % 2) => x = y
  <2> SUFFICES ASSUME \A b \in {1, 2, 4, 8, 16, 32, 64, 128} : (x \div b) % 2 = (y \div b) % 2
               PROVE x = y
    OBVIOUS
  <2>1. /\ x % 2 = y % 2 /\ (x \div 2) % 2 = (y \div 2) % 2 /\ (x \div 4) % 2 = (y \div 4) % 2
        /\ (x \div 8) % 2 = (y \div 8) % 2 /\ (x \div 16) % 2 = (y \div 16) % 2
        /\ (x \div 32) % 2 = (y \div 32) % 2 /\ (x \div 64) % 2 = (y \div 64) % 2
        /\ (x \div 128) % 2 = (y \div 128) % 2
    BY <1>4
  <2> QED
    BY <2>1, BitsOf
<1>8. Xor(x, y) = 0 => x = y
  BY <1>2, <1>6, <1>7
<1>9. x = y => Xor(x, y) = 0
  BY <1>2, <1>6
<1> QED
  BY <1>5, <1>8, <1>9 DEF Bytes

LEMMA HighIs == High = 128 /\ High \in Nat
  BY DEF High

\* swar_eq is exact: the subtraction borrows nothing of a neighbour.
LEMMA SwarEqIs ==
    ASSUME NEW f \in [Lane -> Bytes], NEW n \in Bytes
    PROVE swar_eq(Pack(f), n) = {k \in Lane : f[k] = n}
<1> DEFINE X == [k \in Lane |-> Xor(ByteOf(Pack(f), k), n)]
           G == [k \in Lane |-> IF ByteOf(Pack(X), k) < High THEN ByteOf(Pack(X), k) + High
                                ELSE ByteOf(Pack(X), k)]
           H == [k \in Lane |-> IF X[k] < 128 THEN X[k] + 127 ELSE X[k] - 1]
           One == [k \in Lane |-> 1]
<1>1. swar_eq(Pack(f), n) =
        {k \in Lane : ByteOf(Pack(X), k) < High /\ ByteOf(Pack(G) - Ones, k) < High}
  BY DEF swar_eq
<1>2. X \in [Lane -> Bytes] /\ \A k \in Lane : X[k] = 0 <=> f[k] = n
  <2>1. \A k \in Lane : X[k] = Xor(f[k], n)
    BY BytesOfPack
  <2>2. \A k \in Lane : Xor(f[k], n) \in Bytes /\ (Xor(f[k], n) = 0 <=> f[k] = n)
    BY XorIs
  <2>3. X = [k \in Lane |-> X[k]]
    OBVIOUS
  <2> HIDE DEF X
  <2> QED
    BY <2>1, <2>2, <2>3
<1> HIDE DEF X
<1>3. \A k \in Lane : ByteOf(Pack(X), k) = X[k] /\ X[k] \in 0..255
  BY <1>2, BytesOfPack DEF Bytes
<1>4. G \in [Lane -> Nat] /\ \A k \in Lane : G[k] = IF X[k] < 128 THEN X[k] + 128 ELSE X[k]
  <2>1. \A k \in Lane : G[k] = IF X[k] < 128 THEN X[k] + 128 ELSE X[k]
    BY <1>3, HighIs
  <2>2. \A k \in Lane : G[k] \in Nat
    BY <1>3, <2>1
  <2>3. G = [k \in Lane |-> G[k]]
    OBVIOUS
  <2> HIDE DEF G
  <2> QED
    BY <2>1, <2>2, <2>3
<1> HIDE DEF G
<1>5. H \in [Lane -> Bytes] /\ \A k \in Lane : H[k] = IF X[k] < 128 THEN X[k] + 127 ELSE X[k] - 1
  BY <1>3 DEF Bytes
<1> HIDE DEF H
<1>6. One \in [Lane -> Nat] /\ (\A k \in Lane : One[k] = 1) /\ Pack(One) = Ones
  BY DEF Ones
<1> HIDE DEF One
<1>7. \A k \in Lane : G[k] = H[k] + One[k]
  BY <1>3, <1>4, <1>5, <1>6
<1>8. H \in [Lane -> Nat]
  BY <1>5 DEF Bytes
<1>9. Pack(G) = Pack(H) + Pack(One)
  BY <1>4, <1>6, <1>7, <1>8, PackSum
<1>10. Pack(G) - Ones = Pack(H)
  <2>1. Pack(H) \in Nat
    BY <1>5, BytesOfPack
  <2>2. Ones \in Nat
    BY PackSame
  <2> QED
    BY <1>6, <1>9, <2>1, <2>2
<1>11. \A k \in Lane : ByteOf(Pack(H), k) = H[k]
  BY <1>5, BytesOfPack
<1>12. \A k \in Lane : (X[k] < 128 /\ H[k] < 128) <=> X[k] = 0
  BY <1>3, <1>5
<1>13. \A k \in Lane : (ByteOf(Pack(X), k) < High /\ ByteOf(Pack(G) - Ones, k) < High) <=> f[k] = n
  BY <1>2, <1>3, <1>10, <1>11, <1>12, HighIs
<1> QED
  BY <1>1, <1>13

\* swar_ge7 is exact for bytes below High: the addition carries nothing over.
LEMMA SwarGeIs ==
    ASSUME NEW f \in [Lane -> 0..127], NEW n \in 1..127
    PROVE swar_ge7(Pack(f), n) = {k \in Lane : f[k] >= n}
<1> DEFINE C == [k \in Lane |-> 128 - n]
           H == [k \in Lane |-> f[k] + (128 - n)]
<1>1. 128 - n \in Nat /\ f \in [Lane -> Nat] /\ C \in [Lane -> Nat]
  OBVIOUS
<1>2. H \in [Lane -> Bytes] /\ H \in [Lane -> Nat] /\ \A k \in Lane : H[k] = f[k] + (128 - n)
  <2>1. \A k \in Lane : H[k] = f[k] + (128 - n)
    OBVIOUS
  <2>2. \A k \in Lane : f[k] \in 0..127
    OBVIOUS
  <2>3. \A k \in Lane : H[k] \in Bytes /\ H[k] \in Nat
    BY <2>1, <2>2 DEF Bytes
  <2>4. H = [k \in Lane |-> H[k]]
    OBVIOUS
  <2> HIDE DEF H
  <2> QED
    BY <2>1, <2>3, <2>4
<1>3. \A k \in Lane : H[k] = f[k] + C[k]
  BY <1>2
<1>4. Pack(C) = Ones * (128 - n)
  BY <1>1, PackSame
<1> HIDE DEF C, H
<1>5. Pack(H) = Pack(f) + Ones * (High - n)
  BY <1>1, <1>2, <1>3, <1>4, PackSum, HighIs
<1>6. Pack(H) \in Nat /\ Pack(H) < Place[Lanes] /\ \A k \in Lane : ByteOf(Pack(H), k) = H[k]
  BY <1>2, BytesOfPack
<1>7. Pack(H) % Place[Lanes] = Pack(H)
  <2>1. \A x, p \in Nat : x < p => x % p = x
    OBVIOUS
  <2>2. Place[Lanes] \in Nat
    BY LanesAre, PlaceIs
  <2> QED
    BY <1>6, <2>1, <2>2
<1>8. \A k \in Lane : H[k] >= 128 <=> f[k] >= n
  BY <1>2
<1>9. \A k \in Lane : ByteOf((Pack(f) + Ones * (High - n)) % Place[Lanes], k) >= High <=> f[k] >= n
  BY <1>5, <1>6, <1>7, <1>8, HighIs
<1> QED
  BY <1>9 DEF swar_ge7

\* Between takes the bytes of a range, whatever their high bits are.
LEMMA BetweenIs ==
    ASSUME NEW f \in [Lane -> Bytes], NEW from \in 1..126, NEW to \in 1..126
    PROVE \A k : k \in Between(Low7(Pack(f)), from, to) <=> k \in Lane /\ f[k] % 128 \in from..to
<1> DEFINE L == [k \in Lane |-> f[k] % 128]
<1>1. Low7(Pack(f)) = Pack(L)
  <2>1. \A k \in Lane : ByteOf(Pack(f), k) = f[k]
    BY BytesOfPack
  <2>2. [k \in Lane |-> ByteOf(Pack(f), k) % High] = L
    BY <2>1, HighIs
  <2> QED
    BY <2>2 DEF Low7
<1>2. L \in [Lane -> 0..127] /\ \A k \in Lane : L[k] = f[k] % 128
  BY DEF Bytes
<1> HIDE DEF L
<1>3. from \in 1..127 /\ to + 1 \in 1..127
  OBVIOUS
<1>4. swar_ge7(Pack(L), from) = {k \in Lane : L[k] >= from}
  BY <1>2, <1>3, SwarGeIs
<1>5. swar_ge7(Pack(L), to + 1) = {k \in Lane : L[k] >= to + 1}
  BY <1>2, <1>3, SwarGeIs
<1>6. \A k \in Lane : (L[k] >= from /\ ~(L[k] >= to + 1)) <=> L[k] \in from..to
  BY <1>2
<1> QED
  BY <1>1, <1>2, <1>4, <1>5, <1>6 DEF Between

\* The flags of an identifier and of white space say of each byte what is_ident_continue
\* and is_ws say of it, or that it is a newline.
LEMMA FlagsAre ==
    ASSUME NEW f \in [Lane -> Bytes]
    PROVE /\ IdentFlags(Pack(f)) = {k \in Lane : is_ident_continue(f[k])}
          /\ WsFlags(Pack(f)) = {k \in Lane : is_ws(f[k]) \/ f[k] = NL}
<1>1. \A k \in Lane : f[k] \in 0..255
  BY DEF Bytes
<1>2. NonAscii(Pack(f)) = {k \in Lane : f[k] >= 128}
  BY BytesOfPack, HighIs DEF NonAscii
<1>3. /\ \A k : k \in Between(Low7(Pack(f)), 48, 57) <=> k \in Lane /\ f[k] % 128 \in 48..57
      /\ \A k : k \in Between(Low7(Pack(f)), 65, 90) <=> k \in Lane /\ f[k] % 128 \in 65..90
      /\ \A k : k \in Between(Low7(Pack(f)), 97, 122) <=> k \in Lane /\ f[k] % 128 \in 97..122
      /\ \A k : k \in Between(Low7(Pack(f)), 9, 13) <=> k \in Lane /\ f[k] % 128 \in 9..13
  <2>0. /\ 48 \in 1..126 /\ 57 \in 1..126 /\ 65 \in 1..126 /\ 90 \in 1..126
        /\ 97 \in 1..126 /\ 122 \in 1..126 /\ 9 \in 1..126 /\ 13 \in 1..126
    OBVIOUS
  <2>1. \A k : k \in Between(Low7(Pack(f)), 48, 57) <=> k \in Lane /\ f[k] % 128 \in 48..57
    BY <2>0, BetweenIs, Zenon
  <2>2. \A k : k \in Between(Low7(Pack(f)), 65, 90) <=> k \in Lane /\ f[k] % 128 \in 65..90
    BY <2>0, BetweenIs, Zenon
  <2>3. \A k : k \in Between(Low7(Pack(f)), 97, 122) <=> k \in Lane /\ f[k] % 128 \in 97..122
    BY <2>0, BetweenIs, Zenon
  <2>4. \A k : k \in Between(Low7(Pack(f)), 9, 13) <=> k \in Lane /\ f[k] % 128 \in 9..13
    BY <2>0, BetweenIs, Zenon
  <2> QED
    BY <2>1, <2>2, <2>3, <2>4
<1>4. /\ swar_eq(Pack(f), Underscore) = {k \in Lane : f[k] = 95}
      /\ swar_eq(Pack(f), Space) = {k \in Lane : f[k] = 32}
  BY SwarEqIs DEF Underscore, Space, Bytes
<1>5. \A k \in Lane :
        (~(f[k] >= 128) /\ (\/ f[k] % 128 \in 48..57 \/ f[k] % 128 \in 65..90
                            \/ f[k] % 128 \in 97..122 \/ f[k] = 95))
          <=> is_ident_continue(f[k])
  BY <1>1 DEF is_ident_continue, Letters, Digits, Underscore
<1>6. \A k \in Lane :
        (~(f[k] >= 128) /\ (f[k] % 128 \in 9..13 \/ f[k] = 32)) <=> is_ws(f[k]) \/ f[k] = NL
  BY <1>1 DEF is_ws, OtherSpace, NL
<1>7. IdentFlags(Pack(f)) = {k \in Lane : is_ident_continue(f[k])}
  BY <1>2, <1>3, <1>4, <1>5 DEF IdentFlags
<1>8. WsFlags(Pack(f)) = {k \in Lane : is_ws(f[k]) \/ f[k] = NL}
  BY <1>2, <1>3, <1>4, <1>6 DEF WsFlags
<1> QED
  BY <1>7, <1>8

WordAt(b, j) == [k \in Lane |-> b[j + k + 1]]

\* load8 is the word of the bytes of the text from j on.
LEMMA WordIs ==
    ASSUME NEW b \in Seq(Bytes), NEW j \in 0..Len(b), j + Lanes <= Len(b)
    PROVE /\ load8(b, j) = Pack(WordAt(b, j))
          /\ WordAt(b, j) \in [Lane -> Bytes]
          /\ \A k \in Lane : k \in Nat /\ k < Lanes /\ WordAt(b, j)[k] = b[j + k + 1]
<1>1. \A k \in Lane : k \in Nat /\ k < Lanes /\ j + k + 1 \in 1..Len(b)
  BY LanesAre
<1>2. \A m \in 1..Len(b) : b[m] \in Bytes
  OBVIOUS
<1>3. \A k \in Lane : b[j + k + 1] \in Bytes
  BY <1>1, <1>2
<1> QED
  BY <1>1, <1>3 DEF load8, WordAt

\* A test of the word at j for a byte finds the places of the byte in the text.
LEMMA EqAtWord ==
    ASSUME NEW b \in Seq(Bytes), NEW j \in 0..Len(b), j + Lanes <= Len(b), NEW n \in Bytes
    PROVE swar_eq(load8(b, j), n) = {k \in Lane : b[j + k + 1] = n}
<1> DEFINE w == WordAt(b, j)
<1>1. /\ load8(b, j) = Pack(w) /\ w \in [Lane -> Bytes]
      /\ \A k \in Lane : w[k] = b[j + k + 1]
  BY WordIs
<1> HIDE DEF w
<1>2. swar_eq(Pack(w), n) = {k \in Lane : w[k] = n}
  BY <1>1, SwarEqIs
<1>3. {k \in Lane : w[k] = n} = {k \in Lane : b[j + k + 1] = n}
  BY <1>1
<1> QED
  BY <1>1, <1>2, <1>3

-----------------------------------------------------------------------------
(* Scans.  D is the set of the bytes that stop one.                        *)

StopsFrom(b, j, D) == {m \in j..Len(b) : m = Len(b) \/ b[m+1] \in D}
NextIn(b, j, D) == Least(StopsFrom(b, j, D))
StopsOf(b, j, D) == {k \in Lane : b[j + k + 1] \in D}

\* What a step of a scan gives at j, from what the scan f gives further on.
StepOf(b, D, f, j) ==
    IF j + Lanes <= Len(b)
    THEN IF StopsOf(b, j, D) = {} THEN f[j + Lanes] ELSE j + Least(StopsOf(b, j, D))
    ELSE IF j < Len(b) /\ b[j+1] \notin D THEN f[j+1] ELSE j

LEMMA NextIs ==
    ASSUME NEW b \in Seq(Bytes), NEW j \in 0..Len(b), NEW D
    PROVE NextIn(b, j, D) \in StopsFrom(b, j, D) /\ \A m \in StopsFrom(b, j, D) : NextIn(b, j, D) <= m
<1>1. StopsFrom(b, j, D) \in SUBSET Nat /\ Len(b) \in StopsFrom(b, j, D)
  BY DEF StopsFrom
<1> QED
  BY <1>1, LeastIn DEF NextIn

\* Where no byte before m stops the scan, it gives what it gives at m.
LEMMA NextSkips ==
    ASSUME NEW b \in Seq(Bytes), NEW j \in 0..Len(b), NEW m \in j..Len(b), NEW D,
           \A k \in j..(m - 1) : b[k+1] \notin D
    PROVE NextIn(b, j, D) = NextIn(b, m, D)
<1>1. \A k \in StopsFrom(b, j, D) : k \in StopsFrom(b, m, D)
  <2> TAKE k \in StopsFrom(b, j, D)
  <2>1. k \in j..Len(b) /\ (k = Len(b) \/ b[k+1] \in D)
    BY DEF StopsFrom
  <2>2. k >= m
    BY <2>1
  <2> QED
    BY <2>1, <2>2 DEF StopsFrom
<1>2. \A k \in StopsFrom(b, m, D) : k \in StopsFrom(b, j, D)
  BY DEF StopsFrom
<1>3. StopsFrom(b, j, D) = StopsFrom(b, m, D)
  BY <1>1, <1>2
<1> QED
  BY <1>3 DEF NextIn

LEMMA NextStops ==
    ASSUME NEW b \in Seq(Bytes), NEW j \in 0..Len(b), NEW D, j = Len(b) \/ b[j+1] \in D
    PROVE NextIn(b, j, D) = j
<1>1. StopsFrom(b, j, D) \in SUBSET Nat /\ j \in StopsFrom(b, j, D)
        /\ \A m \in StopsFrom(b, j, D) : j <= m
  BY DEF StopsFrom
<1> QED
  BY <1>1, LeastIs DEF NextIn

\* The first stop of a word is where the scan byte by byte ends.
LEMMA NextOfWord ==
    ASSUME NEW b \in Seq(Bytes), NEW j \in 0..Len(b), NEW D, j + Lanes <= Len(b)
    PROVE /\ StopsOf(b, j, D) = {} => NextIn(b, j, D) = NextIn(b, j + Lanes, D)
          /\ StopsOf(b, j, D) # {} =>
               /\ Least(StopsOf(b, j, D)) \in Lane
               /\ NextIn(b, j, D) = j + Least(StopsOf(b, j, D))
<1>1. \A k \in j..((j + Lanes) - 1) : k - j \in Lane /\ j + (k - j) + 1 = k + 1
  BY LanesAre
<1>2. j + Lanes \in 0..Len(b) /\ j + Lanes \in j..Len(b)
  BY LanesAre
<1>3. CASE StopsOf(b, j, D) = {}
  <2>1. \A k \in j..((j + Lanes) - 1) : b[k+1] \notin D
    BY <1>1, <1>3 DEF StopsOf
  <2>2. NextIn(b, j, D) = NextIn(b, j + Lanes, D)
    BY <1>2, <2>1, NextSkips
  <2> QED
    BY <1>3, <2>2
<1>4. CASE StopsOf(b, j, D) # {}
  <2>1. StopsOf(b, j, D) \in SUBSET Nat
    BY LanesAre DEF StopsOf
  <2>2. PICK l : l = Least(StopsOf(b, j, D))
    OBVIOUS
  <2>3. l \in StopsOf(b, j, D) /\ \A y \in StopsOf(b, j, D) : l <= y
    BY <1>4, <2>1, <2>2, LeastIn
  <2>4. l \in Lane /\ b[j + l + 1] \in D /\ l \in Nat /\ l < Lanes
    BY <2>3, LanesAre DEF StopsOf
  <2>5. \A k \in j..((j + l) - 1) : b[k+1] \notin D
    <3> SUFFICES ASSUME NEW k \in j..((j + l) - 1), b[k+1] \in D PROVE FALSE
      OBVIOUS
    <3>1. k \in j..((j + Lanes) - 1) /\ k - j < l
      BY <2>4, LanesAre
    <3>2. k - j \in StopsOf(b, j, D)
      BY <1>1, <3>1 DEF StopsOf
    <3> QED
      BY <2>3, <2>4, <3>1, <3>2
  <2>6. j + l \in 0..Len(b) /\ j + l \in j..Len(b)
    BY <2>4, LanesAre
  <2>7. NextIn(b, j, D) = NextIn(b, j + l, D)
    BY <2>5, <2>6, NextSkips
  <2>8. NextIn(b, j + l, D) = j + l
    BY <2>4, <2>6, NextStops
  <2> QED
    BY <1>4, <2>2, <2>4, <2>7, <2>8
<1> QED
  BY <1>3, <1>4

LEMMA NextOfByte ==
    ASSUME NEW b \in Seq(Bytes), NEW j \in 0..Len(b), NEW D
    PROVE NextIn(b, j, D) = IF j < Len(b) /\ b[j+1] \notin D THEN NextIn(b, j + 1, D) ELSE j
<1>1. CASE j < Len(b) /\ b[j+1] \notin D
  <2>1. j + 1 \in j..Len(b) /\ \A k \in j..((j + 1) - 1) : k = j
    BY <1>1
  <2>2. \A k \in j..((j + 1) - 1) : b[k+1] \notin D
    BY <1>1, <2>1
  <2>3. NextIn(b, j, D) = NextIn(b, j + 1, D)
    BY <2>1, <2>2, NextSkips
  <2> QED
    BY <1>1, <2>3
<1>2. CASE ~(j < Len(b) /\ b[j+1] \notin D)
  <2>1. j = Len(b) \/ b[j+1] \in D
    BY <1>2
  <2>2. NextIn(b, j, D) = j
    BY <2>1, NextStops
  <2> QED
    BY <1>2, <2>2
<1> QED
  BY <1>1, <1>2

\* A step gives what the scan byte by byte gives, if further on it is that.
LEMMA StepIsNext ==
    ASSUME NEW b \in Seq(Bytes), NEW D, NEW f, NEW j \in 0..Len(b),
           \A k \in 0..Len(b) : k > j => f[k] = NextIn(b, k, D)
    PROVE StepOf(b, D, f, j) = NextIn(b, j, D)
<1>1. CASE j + Lanes <= Len(b)
  <2>1. j + Lanes \in 0..Len(b) /\ j + Lanes > j
    BY <1>1, LanesAre
  <2>2. f[j + Lanes] = NextIn(b, j + Lanes, D)
    BY <2>1
  <2>3. /\ StopsOf(b, j, D) = {} => NextIn(b, j, D) = NextIn(b, j + Lanes, D)
        /\ StopsOf(b, j, D) # {} => NextIn(b, j, D) = j + Least(StopsOf(b, j, D))
    BY <1>1, NextOfWord
  <2> QED
    BY <1>1, <2>2, <2>3 DEF StepOf
<1>2. CASE ~(j + Lanes <= Len(b))
  <2>1. j < Len(b) => j + 1 \in 0..Len(b) /\ j + 1 > j
    OBVIOUS
  <2>2. NextIn(b, j, D) = IF j < Len(b) /\ b[j+1] \notin D THEN NextIn(b, j + 1, D) ELSE j
    BY NextOfByte
  <2> QED
    BY <1>2, <2>1, <2>2 DEF StepOf
<1> QED
  BY <1>1, <1>2

\* What holds of a position if it holds of all further on holds of each.
LEMMA FromTheEnd ==
    ASSUME NEW n \in Nat, NEW P \in SUBSET (0..n),
           \A j \in 0..n : (\A k \in 0..n : k > j => k \in P) => j \in P
    PROVE P = 0..n
<1> DEFINE T == {m \in 0..n : n - m \notin P}
<1>1. \A j \in 0..n : n - j \in 0..n /\ n - (n - j) = j
  OBVIOUS
<1>2. ASSUME NEW m \in T, \A k \in T : m <= k PROVE FALSE
  <2>1. m \in 0..n /\ n - m \in 0..n /\ n - m \notin P
    BY <1>1
  <2>2. ASSUME NEW k \in 0..n, k > n - m PROVE k \in P
    <3>1. n - k \in 0..n /\ n - (n - k) = k /\ n - k < m
      BY <1>1, <2>1, <2>2
    <3>2. n - k \notin T
      BY <1>2, <2>1, <3>1
    <3> QED
      BY <3>1, <3>2
  <2> QED
    BY <2>1, <2>2
<1>3. T = {}
  <2>1. T \in SUBSET Nat
    OBVIOUS
  <2> HIDE DEF T
  <2> QED
    BY <1>2, <2>1, LeastIn
<1>4. \A m \in 0..n : n - m \in P
  BY <1>3
<1>5. \A j \in 0..n : j \in P
  <2> HIDE DEF T
  <2> QED
    BY <1>1, <1>4
<1> QED
  BY <1>5

\* A solution of the equations of a scan's loop is the scan byte by byte.
Scans(f, b, D) == \A j \in 0..Len(b) : f[j] = StepOf(b, D, f, j)

LEMMA ScansNext ==
    ASSUME NEW b \in Seq(Bytes), NEW D, NEW f, Scans(f, b, D)
    PROVE \A j \in 0..Len(b) : f[j] = NextIn(b, j, D)
<1> DEFINE P == {j \in 0..Len(b) : f[j] = NextIn(b, j, D)}
<1>1. ASSUME NEW j \in 0..Len(b), \A k \in 0..Len(b) : k > j => k \in P
      PROVE j \in P
  BY <1>1, StepIsNext DEF Scans
<1>2. Len(b) \in Nat /\ P \in SUBSET (0..Len(b))
  OBVIOUS
<1>3. P = 0..Len(b)
  <2> HIDE DEF P
  <2> QED
    BY <1>1, <1>2, FromTheEnd
<1> QED
  BY <1>3

-----------------------------------------------------------------------------
(* The scans of the code.                                                  *)

\* scan_ident ends where the bytes of an identifier do.
LEMMA ScanIdentIs ==
    ASSUME NEW b \in Seq(Bytes), NEW s \in 0..Len(b)
    PROVE scan_ident(b, s) = NextAt(b, s, LAMBDA c : ~is_ident_continue(c))
<1> DEFINE D == {c \in Bytes : ~is_ident_continue(c)}
           Loop(f, j) ==
             IF j + Lanes <= Len(b)
             THEN IF Lane \ IdentFlags(load8(b, j)) = {} THEN f[j + Lanes]
                  ELSE j + Least(Lane \ IdentFlags(load8(b, j)))
             ELSE IF j < Len(b) /\ ~~is_ident_continue(b[j+1]) THEN f[j+1] ELSE j
           Solves(f) == f = [j \in 0..Len(b) |-> Loop(f, j)]
           g == [j \in 0..Len(b) |-> NextIn(b, j, D)]
<1>1. scan_ident(b, s) = (CHOOSE f : Solves(f))[s]
  BY DEF scan_ident, Scan
<1>2. NextAt(b, s, LAMBDA c : ~is_ident_continue(c)) = NextIn(b, s, D)
  <2>1. \A m \in s..Len(b) : m = Len(b) \/ b[m+1] \in Bytes
    OBVIOUS
  <2>2. {m \in s..Len(b) : m = Len(b) \/ ~is_ident_continue(b[m+1])} = StopsFrom(b, s, D)
    BY <2>1 DEF StopsFrom
  <2> QED
    BY <2>2 DEF NextAt, NextIn
<1>3. \A f : \A j \in 0..Len(b) : Loop(f, j) = StepOf(b, D, f, j)
  <2> TAKE f
  <2> TAKE j \in 0..Len(b)
  <2>1. CASE j + Lanes <= Len(b)
    <3>1. IdentFlags(load8(b, j)) = {k \in Lane : is_ident_continue(b[j + k + 1])}
      BY <2>1, WordIs, FlagsAre
    <3>2. \A k \in Lane : b[j + k + 1] \in Bytes
      BY <2>1, WordIs
    <3>3. Lane \ IdentFlags(load8(b, j)) = StopsOf(b, j, D)
      BY <3>1, <3>2 DEF StopsOf
    <3> QED
      BY <2>1, <3>3 DEF StepOf
  <2>2. CASE ~(j + Lanes <= Len(b))
    <3>1. j < Len(b) => b[j+1] \in Bytes
      OBVIOUS
    <3> QED
      BY <2>2, <3>1 DEF StepOf
  <2> QED
    BY <2>1, <2>2
<1> HIDE DEF Loop
<1>4. Solves(g)
  <2>1. \A j \in 0..Len(b) : g[j] = NextIn(b, j, D)
    OBVIOUS
  <2>2. g = [j \in 0..Len(b) |-> g[j]]
    OBVIOUS
  <2> HIDE DEF g, D
  <2>3. \A j \in 0..Len(b) : g[j] = Loop(g, j)
    BY <1>3, <2>1, StepIsNext
  <2> QED
    BY <2>2, <2>3
<1>5. \A f : Solves(f) => Scans(f, b, D)
  <2> HIDE DEF D
  <2> QED
    BY <1>3 DEF Scans
<1> HIDE DEF Solves, g, D
<1>6. Solves(CHOOSE f : Solves(f))
  BY <1>4
<1>7. (CHOOSE f : Solves(f))[s] = NextIn(b, s, D)
  BY <1>5, <1>6, ScansNext
<1> QED
  BY <1>1, <1>2, <1>7

\* scan_to_newline ends at the next newline.
LEMMA ScanToNewlineIs ==
    ASSUME NEW b \in Seq(Bytes), NEW s \in 0..Len(b)
    PROVE scan_to_newline(b, s) = NextAt(b, s, LAMBDA c : c = NL)
<1> DEFINE D == {NL}
           Loop(f, j) ==
             IF j + Lanes <= Len(b)
             THEN IF swar_eq(load8(b, j), NL) = {} THEN f[j + Lanes]
                  ELSE j + Least(swar_eq(load8(b, j), NL))
             ELSE IF j < Len(b) /\ ~(b[j+1] = NL) THEN f[j+1] ELSE j
           Solves(f) == f = [j \in 0..Len(b) |-> Loop(f, j)]
           g == [j \in 0..Len(b) |-> NextIn(b, j, D)]
<1>1. scan_to_newline(b, s) = (CHOOSE f : Solves(f))[s]
  BY DEF scan_to_newline, Scan
<1>2. NextAt(b, s, LAMBDA c : c = NL) = NextIn(b, s, D)
  BY DEF NextAt, NextIn, StopsFrom
<1>3. \A f : \A j \in 0..Len(b) : Loop(f, j) = StepOf(b, D, f, j)
  <2> TAKE f
  <2> TAKE j \in 0..Len(b)
  <2>1. CASE j + Lanes <= Len(b)
    <3>1. NL \in Bytes
      BY DEF NL, Bytes
    <3>2. swar_eq(load8(b, j), NL) = {k \in Lane : b[j + k + 1] = NL}
      BY <2>1, <3>1, EqAtWord
    <3>3. swar_eq(load8(b, j), NL) = StopsOf(b, j, D)
      BY <3>2 DEF StopsOf
    <3> QED
      BY <2>1, <3>3 DEF StepOf
  <2>2. CASE ~(j + Lanes <= Len(b))
    BY <2>2 DEF StepOf
  <2> QED
    BY <2>1, <2>2
<1> HIDE DEF Loop
<1>4. Solves(g)
  <2>1. \A j \in 0..Len(b) : g[j] = NextIn(b, j, D)
    OBVIOUS
  <2>2. g = [j \in 0..Len(b) |-> g[j]]
    OBVIOUS
  <2> HIDE DEF g, D
  <2>3. \A j \in 0..Len(b) : g[j] = Loop(g, j)
    BY <1>3, <2>1, StepIsNext
  <2> QED
    BY <2>2, <2>3
<1>5. \A f : Solves(f) => Scans(f, b, D)
  <2> HIDE DEF D
  <2> QED
    BY <1>3 DEF Scans
<1> HIDE DEF Solves, g, D
<1>6. Solves(CHOOSE f : Solves(f))
  BY <1>4
<1>7. (CHOOSE f : Solves(f))[s] = NextIn(b, s, D)
  BY <1>5, <1>6, ScansNext
<1> QED
  BY <1>1, <1>2, <1>7

\* scan_str_body ends at the next quote, backslash or newline.
LEMMA ScanStrBodyIs ==
    ASSUME NEW b \in Seq(Bytes), NEW s \in 0..Len(b), NEW q \in {34, 39}
    PROVE scan_str_body(b, q, s) = NextAt(b, s, LAMBDA c : c \in {q, Backslash, NL})
<1> DEFINE D == {q, Backslash, NL}
           Flags(x) == swar_eq(x, q) \cup swar_eq(x, Backslash) \cup swar_eq(x, NL)
           Loop(f, j) ==
             IF j + Lanes <= Len(b)
             THEN IF Flags(load8(b, j)) = {} THEN f[j + Lanes] ELSE j + Least(Flags(load8(b, j)))
             ELSE IF j < Len(b) /\ ~(b[j+1] \in {q, Backslash, NL}) THEN f[j+1] ELSE j
           Solves(f) == f = [j \in 0..Len(b) |-> Loop(f, j)]
           g == [j \in 0..Len(b) |-> NextIn(b, j, D)]
<1>1. scan_str_body(b, q, s) = (CHOOSE f : Solves(f))[s]
  BY DEF scan_str_body, Scan
<1>2. NextAt(b, s, LAMBDA c : c \in {q, Backslash, NL}) = NextIn(b, s, D)
  BY DEF NextAt, NextIn, StopsFrom
<1>3. \A f : \A j \in 0..Len(b) : Loop(f, j) = StepOf(b, D, f, j)
  <2> TAKE f
  <2> TAKE j \in 0..Len(b)
  <2>1. CASE j + Lanes <= Len(b)
    <3>1. q \in Bytes /\ Backslash \in Bytes /\ NL \in Bytes
      BY DEF Backslash, NL, Bytes
    <3>2. \A n \in Bytes : swar_eq(load8(b, j), n) = {k \in Lane : b[j + k + 1] = n}
      BY <2>1, EqAtWord
    <3>3. Flags(load8(b, j)) = StopsOf(b, j, D)
      BY <3>1, <3>2 DEF StopsOf
    <3> HIDE DEF Flags
    <3> QED
      BY <2>1, <3>3 DEF StepOf
  <2>2. CASE ~(j + Lanes <= Len(b))
    BY <2>2 DEF StepOf
  <2> QED
    BY <2>1, <2>2
<1> HIDE DEF Loop
<1>4. Solves(g)
  <2>1. \A j \in 0..Len(b) : g[j] = NextIn(b, j, D)
    OBVIOUS
  <2>2. g = [j \in 0..Len(b) |-> g[j]]
    OBVIOUS
  <2> HIDE DEF g, D
  <2>3. \A j \in 0..Len(b) : g[j] = Loop(g, j)
    BY <1>3, <2>1, StepIsNext
  <2> QED
    BY <2>2, <2>3
<1>5. \A f : Solves(f) => Scans(f, b, D)
  <2> HIDE DEF D
  <2> QED
    BY <1>3 DEF Scans
<1> HIDE DEF Solves, g, D
<1>6. Solves(CHOOSE f : Solves(f))
  BY <1>4
<1>7. (CHOOSE f : Solves(f))[s] = NextIn(b, s, D)
  BY <1>5, <1>6, ScansNext
<1> QED
  BY <1>1, <1>2, <1>7

-----------------------------------------------------------------------------
(* White space, and the newlines in it.                                    *)

LinesIn(b, j, e) == {m \in (j+1)..e : b[m] = NL}
NotSpace == {c \in Bytes : ~is_ws(c) /\ c # NL}
RunAt(b, j) == [end |-> NextIn(b, j, NotSpace),
                lines |-> Cardinality(LinesIn(b, j, NextIn(b, j, NotSpace)))]

WsStepOf(b, f, j) ==
    IF j + Lanes <= Len(b)
    THEN IF StopsOf(b, j, NotSpace) = {}
         THEN [f[j + Lanes] EXCEPT !.lines = @ + Cardinality({k \in Lane : b[j + k + 1] = NL})]
         ELSE [end |-> j + Least(StopsOf(b, j, NotSpace)),
               lines |-> Cardinality({k \in {m \in Lane : b[j + m + 1] = NL} :
                                        k < Least(StopsOf(b, j, NotSpace))})]
    ELSE IF j < Len(b) /\ b[j+1] = NL THEN [f[j+1] EXCEPT !.lines = @ + 1]
    ELSE IF j < Len(b) /\ is_ws(b[j+1]) THEN f[j+1]
    ELSE [end |-> j, lines |-> 0]

LEMMA LinesAre ==
    ASSUME NEW b, NEW j \in Nat, NEW e \in Nat
    PROVE IsFiniteSet(LinesIn(b, j, e)) /\ Cardinality(LinesIn(b, j, e)) \in Nat
<1>1. LinesIn(b, j, e) \in SUBSET Nat /\ \A m \in LinesIn(b, j, e) : m <= e
  BY DEF LinesIn
<1> QED
  BY <1>1, FS_BoundedSetOfNaturals, FS_CardinalityType

LEMMA LinesAdd ==
    ASSUME NEW b, NEW j \in Nat, NEW m \in Nat, NEW e \in Nat, j <= m, m <= e
    PROVE Cardinality(LinesIn(b, j, e))
            = Cardinality(LinesIn(b, j, m)) + Cardinality(LinesIn(b, m, e))
<1>1. LinesIn(b, j, e) = LinesIn(b, j, m) \cup LinesIn(b, m, e)
  BY DEF LinesIn
<1>2. LinesIn(b, j, m) \cap LinesIn(b, m, e) = {}
  BY DEF LinesIn
<1>3. /\ IsFiniteSet(LinesIn(b, j, m)) /\ Cardinality(LinesIn(b, j, m)) \in Nat
      /\ IsFiniteSet(LinesIn(b, m, e)) /\ Cardinality(LinesIn(b, m, e)) \in Nat
  BY LinesAre
<1> QED
  BY <1>1, <1>2, <1>3, FS_Union, FS_EmptySet

\* The newlines among the first l bytes of a word are those of the text there.
LEMMA LinesOfWord ==
    ASSUME NEW b, NEW j \in Nat, NEW l \in 0..Lanes
    PROVE Cardinality({k \in Lane : b[j + k + 1] = NL /\ k < l})
            = Cardinality(LinesIn(b, j, j + l))
<1> DEFINE S == {k \in Lane : b[j + k + 1] = NL /\ k < l}
           f == [k \in S |-> j + k + 1]
<1>1. S \in SUBSET Nat /\ \A k \in S : k <= Lanes
  BY LanesAre
<1>2. IsFiniteSet(S)
  <2> HIDE DEF S
  <2> QED
    BY <1>1, LanesAre, FS_BoundedSetOfNaturals
<1>3. \A k \in S : f[k] = j + k + 1 /\ f[k] \in LinesIn(b, j, j + l)
  BY <1>1, LanesAre DEF LinesIn
<1>4. \A m \in LinesIn(b, j, j + l) : m - (j + 1) \in S /\ f[m - (j + 1)] = m
  <2> TAKE m \in LinesIn(b, j, j + l)
  <2>1. m \in (j+1)..(j+l) /\ b[m] = NL
    BY DEF LinesIn
  <2>2. m - (j + 1) \in Lane /\ j + (m - (j + 1)) + 1 = m /\ m - (j + 1) < l
    BY <2>1, LanesAre
  <2> QED
    BY <2>1, <2>2
<1>5. f \in Bijection(S, LinesIn(b, j, j + l))
  <2>1. f \in [S -> LinesIn(b, j, j + l)]
    BY <1>3
  <2>2. \A x, y \in S : f[x] = f[y] => x = y
    BY <1>1, <1>3
  <2>3. DOMAIN f = S
    OBVIOUS
  <2>4. \A m \in LinesIn(b, j, j + l) : \E x \in S : f[x] = m
    BY <1>4
  <2> HIDE DEF f, S
  <2> QED
    BY <2>1, <2>2, <2>3, <2>4 DEF Bijection, Injection, Surjection, IsInjective
<1>6. ExistsBijection(S, LinesIn(b, j, j + l))
  BY <1>5 DEF ExistsBijection
<1> HIDE DEF S
<1>7. Cardinality(LinesIn(b, j, j + l)) = Cardinality(S)
  BY <1>2, <1>6, FS_Bijection
<1> QED
  BY <1>7 DEF S

LEMMA SetLines ==
    ASSUME NEW e, NEW l, NEW m
    PROVE [[end |-> e, lines |-> l] EXCEPT !.lines = @ + m] = [end |-> e, lines |-> l + m]
  OBVIOUS

\* A step over white space gives what the scan byte by byte gives, if further on it is that.
LEMMA WsStepIsRun ==
    ASSUME NEW b \in Seq(Bytes), NEW f, NEW j \in 0..Len(b),
           \A k \in 0..Len(b) : k > j => f[k] = RunAt(b, k)
    PROVE WsStepOf(b, f, j) = RunAt(b, j)
<1> DEFINE D == NotSpace
           L == Least(StopsOf(b, j, D))
<1>1. \A k \in 0..Len(b) : NextIn(b, k, D) \in k..Len(b)
  BY NextIs DEF StopsFrom
<1>2. ASSUME NEW m \in j..Len(b), NextIn(b, j, D) = NextIn(b, m, D)
      PROVE RunAt(b, j) = [RunAt(b, m) EXCEPT !.lines = @ + Cardinality(LinesIn(b, j, m))]
  <2>1. PICK e : e = NextIn(b, m, D)
    OBVIOUS
  <2>2. e \in m..Len(b) /\ m \in Nat /\ j \in Nat /\ e \in Nat /\ j <= m /\ m <= e
    BY <1>1, <2>1
  <2>3. Cardinality(LinesIn(b, j, e))
          = Cardinality(LinesIn(b, j, m)) + Cardinality(LinesIn(b, m, e))
    BY <2>2, LinesAdd
  <2>4. Cardinality(LinesIn(b, j, m)) \in Nat /\ Cardinality(LinesIn(b, m, e)) \in Nat
    BY <2>2, LinesAre
  <2>5. RunAt(b, j) = [end |-> e,
                       lines |-> Cardinality(LinesIn(b, m, e)) + Cardinality(LinesIn(b, j, m))]
    BY <1>2, <2>1, <2>3, <2>4 DEF RunAt
  <2>6. RunAt(b, m) = [end |-> e, lines |-> Cardinality(LinesIn(b, m, e))]
    BY <2>1 DEF RunAt
  <2> QED
    BY <2>5, <2>6, SetLines
<1>3. CASE j + Lanes <= Len(b) /\ StopsOf(b, j, D) = {}
  <2>1. j + Lanes \in 0..Len(b) /\ j + Lanes \in j..Len(b) /\ j + Lanes > j
    BY <1>3, LanesAre
  <2>2. NextIn(b, j, D) = NextIn(b, j + Lanes, D)
    BY <1>3, NextOfWord
  <2>3. f[j + Lanes] = RunAt(b, j + Lanes)
    BY <2>1
  <2>4. {k \in Lane : b[j + k + 1] = NL} = {k \in Lane : b[j + k + 1] = NL /\ k < Lanes}
    BY LanesAre
  <2>5. Cardinality({k \in Lane : b[j + k + 1] = NL}) = Cardinality(LinesIn(b, j, j + Lanes))
    <3>1. j \in Nat /\ Lanes \in 0..Lanes
      BY LanesAre
    <3>2. Cardinality({k \in Lane : b[j + k + 1] = NL /\ k < Lanes})
            = Cardinality(LinesIn(b, j, j + Lanes))
      BY <3>1, LinesOfWord
    <3> QED
      BY <2>4, <3>2
  <2> QED
    BY <1>2, <1>3, <2>1, <2>2, <2>3, <2>5 DEF WsStepOf
<1>4. CASE j + Lanes <= Len(b) /\ StopsOf(b, j, D) # {}
  <2>1. L \in Lane /\ NextIn(b, j, D) = j + L
    BY <1>4, NextOfWord
  <2>2. {k \in {m \in Lane : b[j + m + 1] = NL} : k < L}
          = {k \in Lane : b[j + k + 1] = NL /\ k < L}
    OBVIOUS
  <2>3. L \in 0..Lanes
    BY <2>1, LanesAre
  <2> HIDE DEF L
  <2>4. Cardinality({k \in {m \in Lane : b[j + m + 1] = NL} : k < L})
          = Cardinality(LinesIn(b, j, j + L))
    BY <2>2, <2>3, LinesOfWord
  <2>5. WsStepOf(b, f, j) = [end |-> j + L,
          lines |-> Cardinality({k \in {m \in Lane : b[j + m + 1] = NL} : k < L})]
    BY <1>4 DEF WsStepOf, L
  <2> QED
    BY <2>1, <2>4, <2>5 DEF RunAt
<1>5. CASE ~(j + Lanes <= Len(b))
  <2>1. NextIn(b, j, D) = IF j < Len(b) /\ b[j+1] \notin D THEN NextIn(b, j + 1, D) ELSE j
    BY NextOfByte
  <2>2. j < Len(b) => /\ b[j+1] \in Bytes /\ j + 1 \in 0..Len(b) /\ j + 1 \in j..Len(b)
                      /\ f[j+1] = RunAt(b, j + 1)
    OBVIOUS
  <2>3. LinesIn(b, j, j + 1) = {m \in {j + 1} : b[m] = NL} /\ LinesIn(b, j, j) = {}
    BY DEF LinesIn
  <2>4. CASE j < Len(b) /\ b[j+1] = NL
    <3>1. LinesIn(b, j, j + 1) = {j + 1}
      BY <2>3, <2>4
    <3>2. Cardinality(LinesIn(b, j, j + 1)) = 1
      BY <3>1, FS_Singleton
    <3>3. NextIn(b, j, D) = NextIn(b, j + 1, D)
      BY <2>1, <2>4 DEF NotSpace
    <3>4. RunAt(b, j) = [f[j+1] EXCEPT !.lines = @ + 1]
      BY <1>2, <2>2, <2>4, <3>2, <3>3
    <3> QED
      BY <1>5, <2>4, <3>4 DEF WsStepOf
  <2>5. CASE j < Len(b) /\ b[j+1] # NL /\ is_ws(b[j+1])
    <3>1. LinesIn(b, j, j + 1) = {}
      BY <2>3, <2>5
    <3>2. Cardinality(LinesIn(b, j, j + 1)) = 0
      BY <3>1, FS_EmptySet
    <3>3. NextIn(b, j, D) = NextIn(b, j + 1, D)
      BY <2>1, <2>5 DEF NotSpace
    <3>4. RunAt(b, j) = [RunAt(b, j + 1) EXCEPT !.lines = @ + 0]
      BY <1>2, <2>2, <2>5, <3>2, <3>3
    <3>5. Cardinality(LinesIn(b, j + 1, NextIn(b, j + 1, D))) \in Nat
      BY <1>1, <2>2, <2>5, LinesAre
    <3>6. RunAt(b, j) = RunAt(b, j + 1)
      BY <3>4, <3>5, SetLines DEF RunAt
    <3> QED
      BY <1>5, <2>2, <2>5, <3>6 DEF WsStepOf
  <2>6. CASE ~(j < Len(b) /\ (b[j+1] = NL \/ is_ws(b[j+1])))
    <3>1. NextIn(b, j, D) = j
      BY <2>1, <2>2, <2>6 DEF NotSpace
    <3>2. Cardinality(LinesIn(b, j, j)) = 0
      BY <2>3, FS_EmptySet
    <3> QED
      BY <1>5, <2>6, <3>1, <3>2 DEF WsStepOf, RunAt
  <2> QED
    BY <2>4, <2>5, <2>6
<1> QED
  BY <1>3, <1>4, <1>5

\* scan_ws ends where the white space does, and counts the newlines in it.
LEMMA ScanWsIs ==
    ASSUME NEW b \in Seq(Bytes), NEW s \in 0..Len(b)
    PROVE scan_ws(b, s) = RunAt(b, s)
<1> DEFINE n == Len(b)
           Loop(f, j) ==
             IF j + Lanes <= n
             THEN IF Lane \ WsFlags(load8(b, j)) = {}
                  THEN [f[j + Lanes] EXCEPT !.lines = @ + Cardinality(swar_eq(load8(b, j), NL))]
                  ELSE [end |-> j + Least(Lane \ WsFlags(load8(b, j))),
                        lines |-> Cardinality({k \in swar_eq(load8(b, j), NL) :
                                                 k < Least(Lane \ WsFlags(load8(b, j)))})]
             ELSE IF j < n /\ b[j+1] = NL THEN [f[j+1] EXCEPT !.lines = @ + 1]
             ELSE IF j < n /\ is_ws(b[j+1]) THEN f[j+1]
             ELSE [end |-> j, lines |-> 0]
           Solves(f) == f = [j \in 0..n |-> Loop(f, j)]
           g == [j \in 0..n |-> RunAt(b, j)]
<1>1. scan_ws(b, s) = (CHOOSE f : Solves(f))[s]
  BY DEF scan_ws
<1>2. \A f : \A j \in 0..n : Loop(f, j) = WsStepOf(b, f, j)
  <2> TAKE f
  <2> TAKE j \in 0..n
  <2>1. CASE j + Lanes <= n
    <3>1. WsFlags(load8(b, j)) = {k \in Lane : is_ws(b[j + k + 1]) \/ b[j + k + 1] = NL}
      BY <2>1, WordIs, FlagsAre
    <3>2. \A k \in Lane : b[j + k + 1] \in Bytes
      BY <2>1, WordIs
    <3>3. Lane \ WsFlags(load8(b, j)) = StopsOf(b, j, NotSpace)
      BY <3>1, <3>2 DEF StopsOf, NotSpace
    <3>4. NL \in Bytes
      BY DEF NL, Bytes
    <3>5. swar_eq(load8(b, j), NL) = {k \in Lane : b[j + k + 1] = NL}
      BY <2>1, <3>4, EqAtWord
    <3> QED
      BY <2>1, <3>3, <3>5 DEF WsStepOf
  <2>2. CASE ~(j + Lanes <= n)
    BY <2>2 DEF WsStepOf
  <2> QED
    BY <2>1, <2>2
<1> HIDE DEF Loop
<1>3. Solves(g)
  <2>1. \A j \in 0..n : g[j] = RunAt(b, j)
    OBVIOUS
  <2>2. g = [j \in 0..n |-> g[j]]
    OBVIOUS
  <2> HIDE DEF g
  <2>3. \A j \in 0..n : g[j] = Loop(g, j)
    BY <1>2, <2>1, WsStepIsRun
  <2> QED
    BY <2>2, <2>3
<1>4. ASSUME NEW f, Solves(f) PROVE \A j \in 0..n : f[j] = RunAt(b, j)
  <2> DEFINE P == {j \in 0..n : f[j] = RunAt(b, j)}
  <2>1. \A j \in 0..n : f[j] = WsStepOf(b, f, j)
    BY <1>2, <1>4
  <2> HIDE DEF Solves
  <2>2. ASSUME NEW j \in 0..n, \A k \in 0..n : k > j => k \in P
        PROVE j \in P
    BY <2>1, <2>2, WsStepIsRun
  <2>3. n \in Nat /\ P \in SUBSET (0..n)
    OBVIOUS
  <2>4. P = 0..n
    <3> HIDE DEF P, n
    <3> QED
      BY <2>2, <2>3, FromTheEnd
  <2> QED
    BY <2>4
<1> HIDE DEF Solves, g
<1>5. Solves(CHOOSE f : Solves(f))
  BY <1>3
<1> QED
  BY <1>1, <1>4, <1>5

-----------------------------------------------------------------------------
LEMMA ScansOfBytes == text \in Seq(Bytes) => ScansSeeEveryByte
<1> SUFFICES ASSUME text \in Seq(Bytes), NEW s \in Lane, s <= Len(text)
             PROVE /\ scan_ident(text, s) = NextAt(text, s, LAMBDA c : ~is_ident_continue(c))
                   /\ LET end == NextAt(text, s, LAMBDA c : ~is_ws(c) /\ c # NL)
                      IN scan_ws(text, s) =
                           [end |-> end, lines |-> Cardinality({j \in s+1..end : text[j] = NL})]
                   /\ scan_to_newline(text, s) = NextAt(text, s, LAMBDA c : c = NL)
                   /\ \A q \in {34, 39} :
                        scan_str_body(text, q, s)
                          = NextAt(text, s, LAMBDA c : c \in {q, Backslash, NL})
  BY DEF ScansSeeEveryByte, ScansAgree
<1>1. s \in 0..Len(text)
  BY LanesAre
<1>2. NextAt(text, s, LAMBDA c : ~is_ws(c) /\ c # NL) = NextIn(text, s, NotSpace)
  <2>1. \A m \in s..Len(text) : m = Len(text) \/ text[m+1] \in Bytes
    BY <1>1
  <2>2. {m \in s..Len(text) : m = Len(text) \/ (~is_ws(text[m+1]) /\ text[m+1] # NL)}
          = StopsFrom(text, s, NotSpace)
    BY <2>1 DEF StopsFrom, NotSpace
  <2> QED
    BY <2>2 DEF NextAt, NextIn
<1> QED
  BY <1>1, <1>2, ScanIdentIs, ScanWsIs, ScanToNewlineIs, ScanStrBodyIs DEF RunAt, LinesIn

\* Every scan of lex.rs that takes a word at a time stops where a scan that looks at one
\* byte after the other stops, and scan_ws counts every newline once: in every text, of
\* whatever bytes, and for every number of bytes in a word.
THEOREM ScansAreExact == [](text \in Seq(Bytes)) => []ScansSeeEveryByte
  BY ScansOfBytes, PTL
================================================================================
