-------------------------------- MODULE Bridge --------------------------------
(***************************************************************************)
(* prune::required_files and prune::import_survives: which files and which *)
(* import lines outlive a prune.  A file without kept definitions survives *)
(* if it is a bridge: by `import public` it carries some provider to a     *)
(* file that refers to it.  Demand for providers is pushed from the kept   *)
(* files into their imports and on along `import public`, with a stack of  *)
(* the files whose demand has grown.                                       *)
(*                                                                         *)
(* A well-known path is a node without imports that is no input file.      *)
(* Import lines form a set: no order among them is assumed.                *)
(***************************************************************************)
EXTENDS Naturals, Sequences

CONSTANTS
    Files,   \* the input files
    Wkts,    \* the well-known paths
    Graphs,  \* the sets of import lines the input may have
    RefSets  \* the sets of references its kept symbols may have

Nodes == Files \cup Wkts
Imports == [from : Files, to : Nodes, public : BOOLEAN]

ASSUME GraphsAssumption ==
    /\ Files \cap Wkts = {}
    /\ Graphs \subseteq SUBSET Imports
    /\ RefSets \subseteq SUBSET (Files \X Nodes)

VARIABLES
    imports,   \* the import lines of the input
    refs,      \* <<f, d>>: a kept symbol of f refers to one that d defines
    provides,  \* file -> what importing it makes visible
    kept,      \* the files with kept definitions
    phase,
    ahead,     \* import lines the running loop has yet to visit
    required,  \* the files that must survive
    flow,      \* file -> providers that must stay reachable through it
    queue,     \* files whose flow has grown
    demand,    \* the flow of the file taken off the queue
    out        \* the import lines of the output

vars == <<imports, refs, provides, kept, phase, ahead, required, flow, queue,
          demand, out>>
input == <<imports, refs, provides, kept>>

\* What can be reached from n along the public lines of edges, n included.
Closed(edges, S) == \A e \in edges : e.public /\ e.from \in S => e.to \in S
ReachPub(edges, n) ==
    LET closed == {S \in SUBSET Nodes : n \in S /\ Closed(edges, S)}
    IN {d \in Nodes : \A S \in closed : d \in S}

\* Visibility: the file itself and what each of its imports provides.
Visible(edges, f) ==
    {f} \cup UNION {ReachPub(edges, e.to) : e \in {x \in edges : x.from = f}}

\* A well-known path provides itself.
Provides(n) == IF n \in Files THEN provides[n] ELSE {n}

\* The providers still referenced from kept symbols of f.
Needed(f) == {d \in Nodes \ {f} : <<f, d>> \in refs}

-----------------------------------------------------------------------------
\* sema resolved every reference to something visible; references of kept
\* symbols lead from kept definitions to kept definitions (select).
Init ==
    /\ imports \in Graphs
    /\ provides = [f \in Files |-> ReachPub(imports, f)]
    /\ refs \in RefSets
    /\ \A r \in refs : r[2] \in Visible(imports, r[1])
    /\ kept \in SUBSET Files
    /\ \A r \in refs : r[1] \in kept /\ (r[2] \in Files => r[2] \in kept)
    /\ phase = "seed"
    /\ ahead = {e \in imports : e.from \in kept /\ e.to \in Files}
    /\ required = kept
    /\ flow = [f \in Files |-> {}]
    /\ queue = <<>>
    /\ demand = {}
    /\ out = {}

\* MUTANT of Grows: a file is queued on its first demand only.
GrowsOnce(t, wanted) == flow[t] = {} /\ wanted \cap provides[t] # {}

\* Some of the demand can be met through t and is new to it.
Grows(t, wanted) == ~(wanted \cap provides[t] \subseteq flow[t])

\* MUTANT of PushDemand: all of the demand, though the test is on a part.
PushDemandWhole(t, wanted) ==
    /\ flow' = [flow EXCEPT ![t] = @ \cup wanted]
    /\ IF Grows(t, wanted)
       THEN required' = required \cup {t} /\ queue' = Append(queue, t)
       ELSE UNCHANGED <<required, queue>>

\* push_demand: the part of the demand that t can provide.
PushDemand(t, wanted) ==
    /\ flow' = [flow EXCEPT ![t] = @ \cup (wanted \cap provides[t])]
    /\ IF Grows(t, wanted)
       THEN required' = required \cup {t} /\ queue' = Append(queue, t)
       ELSE UNCHANGED <<required, queue>>

\* The import lines written in files with kept definitions.
Seed(e) ==
    /\ phase = "seed"
    /\ e \in ahead
    /\ PushDemand(e.to, Needed(e.from))
    /\ ahead' = ahead \ {e}
    /\ UNCHANGED <<input, phase, demand, out>>

EndSeed ==
    /\ phase = "seed" /\ ahead = {}
    /\ phase' = "propagate"
    /\ UNCHANGED <<input, ahead, required, flow, queue, demand, out>>

Top == queue[Len(queue)]

\* MUTANT of Onward: plain imports pass demand on as well.
OnwardAll(f) == {e \in imports : e.from = f /\ e.to \in Files \ {f}}

\* The lines demand is passed on along.
Onward(f) == {e \in imports : e.from = f /\ e.public /\ e.to \in Files \ {f}}

\* MUTANT of Pop: the file stays on the stack.
PopNone ==
    /\ phase = "propagate" /\ ahead = {} /\ queue # <<>>
    /\ demand' = flow[Top]
    /\ ahead' = Onward(Top)
    /\ UNCHANGED <<input, phase, required, flow, queue, out>>

\* The file on top of the stack is taken off, its demand cloned.
Pop ==
    /\ phase = "propagate" /\ ahead = {} /\ queue # <<>>
    /\ queue' = SubSeq(queue, 1, Len(queue) - 1)
    /\ demand' = flow[Top]
    /\ ahead' = Onward(Top)
    /\ UNCHANGED <<input, phase, required, flow, out>>

Propagate(e) ==
    /\ phase = "propagate"
    /\ e \in ahead
    /\ PushDemand(e.to, demand)
    /\ ahead' = ahead \ {e}
    /\ UNCHANGED <<input, phase, demand, out>>

\* MUTANT of Survives: public lines are kept for what they provide as well.
SurvivesIfNeeded(e) ==
    /\ e.to \in Files => e.to \in required
    /\ Provides(e.to) \cap Needed(e.from) # {}

\* import_survives: the target does, and it is public or provides something
\* the file still refers to.
Survives(e) ==
    /\ e.to \in Files => e.to \in required
    /\ e.public \/ Provides(e.to) \cap Needed(e.from) # {}

\* The import lines of the surviving files are decided.
Materialize ==
    /\ phase = "propagate" /\ ahead = {} /\ queue = <<>>
    /\ phase' = "done"
    /\ out' = {e \in imports : e.from \in required /\ Survives(e)}
    /\ UNCHANGED <<input, ahead, required, flow, queue, demand>>

Next ==
    \/ EndSeed \/ Pop \/ Materialize
    \/ \E e \in imports : Seed(e) \/ Propagate(e)

Spec == Init /\ [][Next]_vars
FairSpec == Spec /\ WF_vars(Next)

-----------------------------------------------------------------------------
(* What the fixpoint computes, for a given set of import lines.            *)

\* Files through which d can be reached along public lines.
Toward(edges, d) == {t \in Files : d \in ReachPub(edges, t)}

\* The files among them that carry d: those a file that refers to d imports, and
\* on along public lines.
Carriers(edges, d) ==
    LET toward == Toward(edges, d)
        entry == {e \in edges : e.from \in kept /\ d \in Needed(e.from)}
        onward == {e \in edges : e.public}
        closed == {S \in SUBSET toward :
                      /\ \A e \in entry : e.to \in toward => e.to \in S
                      /\ \A e \in onward : e.from \in S /\ e.to \in toward => e.to \in S}
    IN {t \in toward : \A S \in closed : t \in S}

RequiredIn(edges) ==
    kept \cup UNION {Carriers(edges, d) : d \in {r[2] : r \in refs}}

-----------------------------------------------------------------------------
(* Correctness.                                                            *)

\* Every variable stays in its set; a file's flow is among what it provides.
TypeOK ==
    /\ imports \in Graphs
    /\ refs \subseteq Files \X Nodes
    /\ provides \in [Files -> SUBSET Nodes]
    /\ kept \subseteq Files
    /\ phase \in {"seed", "propagate", "done"}
    /\ ahead \subseteq imports
    /\ required \subseteq Files
    /\ flow \in [Files -> SUBSET Nodes]
    /\ \A f \in Files : flow[f] \subseteq provides[f]
    /\ queue \in Seq(Files)
    /\ demand \subseteq Nodes
    /\ out \subseteq imports

\* The output resolves again: the file of every kept reference survives with
\* its provider, and through the surviving lines alone - cycles, bridges of
\* bridges, self imports - the provider is still visible from it.
RefsStayVisible ==
    phase = "done" => \A r \in refs :
        /\ r[1] \in required
        /\ r[2] \in Files => r[2] \in required
        /\ r[2] \in Visible(out, r[1])

\* Neither the order of the stack nor a file queued twice matters: what
\* survives is what has kept definitions or carries a needed provider, and
\* no more than that.
RequiredIsLeast ==
    phase = "done" => required = RequiredIn(imports)

\* "Re-runs are idempotent": pruned with the same selection the output keeps
\* all its files and all its import lines, though what they provide has shrunk.
PruningIsStable ==
    phase = "done" =>
        /\ RequiredIn(out) = required
        /\ \A e \in out : e.public \/ ReachPub(out, e.to) \cap Needed(e.from) # {}

\* Cyclic public imports do not keep the fixpoint from ending.
Terminates == <>(phase = "done")
=============================================================================
