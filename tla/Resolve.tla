-------------------------------- MODULE Resolve --------------------------------
(***************************************************************************)
(* sema.rs: the namespace tree and the resolution of references, once for  *)
(* the input and once more for what a prune leaves of it.                  *)
(*                                                                         *)
(* A node of the tree is named by its path, a symbol by its node; tree     *)
(* says what kind of symbol a node has, or that it is a package only.      *)
(* Whether the file of a target is visible is the subject of Bridge.       *)
(***************************************************************************)
EXTENDS Integers, Sequences, FiniteSets, SequencesExt

CONSTANTS
    Names,
    Inputs,    \* the inputs to analyze
    Builtins,  \* the paths of well-known types
    BuiltinEnums  \* those that are enums; the others are messages

Defs == {"message", "enum", "service"}
Kinds == Defs \cup {"field", "value", "method"}

\* A declaration, in the order of the walk over the files: parent is the
\* enclosing declaration or 0.
Paths == [dot : BOOLEAN, segs : Seq(Names)]
Decls == [file : Nat, name : Names, kind : Kinds, parent : Nat, refs : Seq(Paths)]

ASSUME InputsAssumption ==
    /\ Builtins \subseteq Seq(Names) /\ BuiltinEnums \subseteq Builtins
    /\ \A input \in Inputs :
        /\ input.pkgs \in Seq(Seq(Names)) /\ input.decls \in Seq(Decls)
        /\ \A d \in DOMAIN input.decls :
            LET x == input.decls[d]
            IN /\ x.file \in DOMAIN input.pkgs
               /\ x.parent \in 0..d-1
               /\ x.parent # 0 => input.decls[x.parent].file = x.file
               /\ d > 1 => input.decls[d-1].file <= x.file
               /\ x.refs # <<>> => x.parent # 0
               /\ \A r \in DOMAIN x.refs : x.refs[r].segs # <<>>

VARIABLES
    pkgs, decls,
    round,    \* 1 for the input, 2 for the pruned output
    kept,     \* the declarations in it
    present,  \* its files
    stage,    \* "collect", "resolve", "done" or "error"
    file,     \* the file being collected
    tree,
    ns,       \* declaration -> its node
    todo,     \* the references not resolved yet
    base,     \* the scope the current reference is looked up in, <<>> or below
    target,   \* reference -> the node of its target
    before    \* the targets of the first round

input == <<pkgs, decls, round, kept, present>>
vars == <<input, stage, file, tree, ns, todo, base, target, before>>

Intern(t, nodes) == [p \in DOMAIN t \cup nodes |-> IF p \in DOMAIN t THEN t[p] ELSE "package"]

BuiltinKind(b) == IF b \in BuiltinEnums THEN "enum" ELSE "message"

\* The tree with the well-known types.
Seeded == [p \in {<<>>} \cup UNION {Prefixes(b) : b \in Builtins} |->
              IF p \in Builtins THEN BuiltinKind(p) ELSE "package"]

Refs == UNION {{<<d, r>> : r \in DOMAIN decls[d].refs} : d \in kept}

Analyze ==
    /\ stage' = "collect" /\ file' = 0 /\ tree' = Seeded
    /\ ns' = <<>> /\ todo' = {} /\ base' = <<>> /\ target' = <<>>

Init ==
    /\ \E i \in Inputs : pkgs = i.pkgs /\ decls = i.decls
    /\ round = 1
    /\ kept = DOMAIN decls
    /\ present = DOMAIN pkgs
    /\ stage = "collect" /\ file = 0 /\ tree = Seeded
    /\ ns = <<>> /\ todo = {} /\ base = <<>> /\ target = <<>> /\ before = <<>>

-----------------------------------------------------------------------------
(* collect_symbols.                                                        *)

Waiting == {d \in kept : decls[d].file = file /\ d \notin DOMAIN ns}

\* The package of the next file.
OpenFile ==
    /\ stage = "collect" /\ Waiting = {} /\ file < Len(pkgs)
    /\ file' = file + 1
    /\ tree' = IF file + 1 \in present THEN Intern(tree, Prefixes(pkgs[file + 1])) ELSE tree
    /\ UNCHANGED <<input, stage, ns, todo, base, target, before>>

NextDecl == CHOOSE d \in Waiting : \A e \in Waiting : d <= e
Scope(d) == IF decls[d].parent = 0 THEN pkgs[decls[d].file] ELSE ns[decls[d].parent]

Duplicate(p) == p \in DOMAIN tree /\ tree[p] # "package"

\* add_symbol.
AddSymbol ==
    /\ stage = "collect" /\ Waiting # {}
    /\ LET p == Append(Scope(NextDecl), decls[NextDecl].name)
       IN IF Duplicate(p) THEN stage' = "error" /\ UNCHANGED <<tree, ns>>
          ELSE /\ tree' = [Intern(tree, {p}) EXCEPT ![p] = decls[NextDecl].kind]
               /\ ns' = [d \in DOMAIN ns \cup {NextDecl} |-> IF d = NextDecl THEN p ELSE ns[d]]
               /\ UNCHANGED stage
    /\ UNCHANGED <<input, file, todo, base, target, before>>

Least(S) == CHOOSE x \in S : \A y \in S : x[1] < y[1] \/ (x[1] = y[1] /\ x[2] <= y[2])
StartNs(x) == ns[decls[x[1]].parent]

EndCollect ==
    /\ stage = "collect" /\ Waiting = {} /\ file = Len(pkgs)
    /\ stage' = "resolve"
    /\ todo' = Refs
    /\ base' = IF Refs = {} THEN <<>> ELSE StartNs(Least(Refs))
    /\ UNCHANGED <<input, file, tree, ns, target, before>>

-----------------------------------------------------------------------------
(* resolve_path, one scope at a time, for the references in their order.   *)

Resolving == stage = "resolve" /\ todo # {}
Ref == Least(todo)
Path == decls[Ref[1]].refs[Ref[2]]
MessageOnly == decls[Ref[1]].kind = "method"
IsType(kind) == kind = "message" \/ (kind = "enum" /\ ~MessageOnly)

\* The reference leads to p, if there is a symbol of the right kind.
Lead(p) ==
    /\ IF p \in DOMAIN tree /\ IsType(tree[p])
       THEN /\ target' = [x \in DOMAIN target \cup {Ref} |-> IF x = Ref THEN p ELSE target[x]]
            /\ todo' = todo \ {Ref}
            /\ base' = IF todo' = {} THEN <<>> ELSE StartNs(Least(todo'))
            /\ UNCHANGED stage
       ELSE stage' = "error" /\ UNCHANGED <<target, todo, base>>
    /\ UNCHANGED <<input, file, tree, ns, before>>

First == Append(base, Path.segs[1])
Found == ~Path.dot /\ First \in DOMAIN tree
Compound == Len(Path.segs) > 1

Absolute == Resolving /\ Path.dot /\ Lead(Path.segs)

\* A compound path whose first segment is a package or a definition resolves
\* there or not at all.
Anchors == Found /\ Compound /\ tree[First] \in Defs \cup {"package"}
Anchor == Resolving /\ Anchors /\ Lead(base \o Path.segs)

\* A name by itself: a field takes the nearest type, an rpc the nearest symbol
\* or package.
Takes == Found /\ ~Compound /\ (MessageOnly \/ tree[First] \in {"message", "enum"})
Take == Resolving /\ Takes /\ Lead(First)

\* MUTANT of Outward: the outermost scope is not searched.
OutwardShort ==
    /\ Resolving /\ ~Path.dot /\ ~Anchors /\ ~Takes
    /\ IF Len(base) <= 1 THEN stage' = "error" /\ UNCHANGED base
       ELSE base' = Front(base) /\ UNCHANGED stage
    /\ UNCHANGED <<input, file, tree, ns, todo, target, before>>

Outward ==
    /\ Resolving /\ ~Path.dot /\ ~Anchors /\ ~Takes
    /\ IF base = <<>> THEN stage' = "error" /\ UNCHANGED base
       ELSE base' = Front(base) /\ UNCHANGED stage
    /\ UNCHANGED <<input, file, tree, ns, todo, target, before>>

EndResolve ==
    /\ stage = "resolve" /\ todo = {}
    /\ stage' = "done"
    /\ UNCHANGED <<input, file, tree, ns, todo, base, target, before>>

-----------------------------------------------------------------------------
\* MUTANT of Selected: what is referred to need not be kept.
SelectedShells(K) == \A d \in K : decls[d].parent \in K \cup {0}

\* A selection: the parents of what is kept, and what it refers to.
Selected(K) ==
    /\ \A d \in K : decls[d].parent \in K \cup {0}
    /\ \A x \in Refs : x[1] \in K => \A d \in DOMAIN decls : ns[d] = target[x] => d \in K

\* The input is pruned, files without definitions or not, and analyzed again.
Prune ==
    /\ stage = "done" /\ round = 1
    /\ \E K \in SUBSET kept, F \in SUBSET present :
          /\ Selected(K) /\ kept' = K
          /\ {decls[d].file : d \in K} \subseteq F /\ present' = F
    /\ round' = 2
    /\ before' = target
    /\ Analyze
    /\ UNCHANGED <<pkgs, decls>>

Next ==
    \/ OpenFile \/ AddSymbol \/ EndCollect
    \/ Absolute \/ Anchor \/ Take \/ Outward \/ EndResolve
    \/ Prune

Spec == Init /\ [][Next]_vars

-----------------------------------------------------------------------------
(* What analysis should find, read off the declarations in any order: in   *)
(* the whole input, or in what there is now.                               *)

Whole == [decls |-> DOMAIN decls, files |-> DOMAIN pkgs]
Now == [decls |-> kept, files |-> present]

fq[d \in DOMAIN decls] ==
    Append(IF decls[d].parent = 0 THEN pkgs[decls[d].file] ELSE fq[decls[d].parent], decls[d].name)

Defined(w) ==
    {<<fq[d], decls[d].kind>> : d \in w.decls} \cup {<<b, BuiltinKind(b)>> : b \in Builtins}
Scopes(w) == (UNION {Prefixes(pkgs[f]) : f \in w.files}) \cup (UNION {Prefixes(b) : b \in Builtins})
Has(w, p, kinds) == \E k \in kinds : <<p, k>> \in Defined(w)
IsPackage(w, p) == p \in Scopes(w) /\ ~Has(w, p, Kinds)

Colliding(w) ==
    \/ \E d, e \in w.decls : d # e /\ fq[d] = fq[e]
    \/ \E d \in w.decls : fq[d] \in Builtins

\* The scope that decides a reference, if any: the innermost around its owner in
\* which its first segment means something to it.
PathOf(x) == decls[x[1]].refs[x[2]]
IsRpc(x) == decls[x[1]].kind = "method"
Decides(w, x, s) ==
    LET p == Append(s, PathOf(x).segs[1])
    IN IF Len(PathOf(x).segs) > 1 THEN Has(w, p, Defs) \/ IsPackage(w, p)
       ELSE Has(w, p, IF IsRpc(x) THEN Kinds ELSE {"message", "enum"})
            \/ (IsRpc(x) /\ IsPackage(w, p))
Deciding(w, x) == {s \in Prefixes(Front(fq[x[1]])) : Decides(w, x, s)}
Means(w, x) ==
    IF PathOf(x).dot THEN {PathOf(x).segs}
    ELSE {s \o PathOf(x).segs :
             s \in {t \in Deciding(w, x) : \A u \in Deciding(w, x) : Len(u) <= Len(t)}}
Resolvable(w, x) ==
    \E p \in Means(w, x) : Has(w, p, IF IsRpc(x) THEN {"message"} ELSE {"message", "enum"})

\* No package, those of the well-known types included, has the path of a field,
\* a value or a method.
PackagesApart == \A d \in DOMAIN decls : decls[d].kind \notin Defs => fq[d] \notin Scopes(Whole)

-----------------------------------------------------------------------------
(* Correctness.                                                            *)

\* "The innermost scope is searched first": whatever the order of files and
\* definitions, a reference means what the innermost deciding scope makes of it,
\* and analysis fails only for a reference that means nothing or a path that is
\* defined twice.
ResolvesToNearest ==
    /\ stage = "done" => /\ ~Colliding(Now)
                         /\ \A x \in Refs : Resolvable(Now, x) /\ Means(Now, x) = {target[x]}
    /\ stage = "error" => Colliding(Now) \/ \E x \in Refs : ~Resolvable(Now, x)

\* "Re-analyzing the pruned set succeeds, so there are no dangling references":
\* and each leads where it led before, though what might have shadowed it is
\* gone, and packages with it.
PrunedMeansTheSame ==
    round = 2 =>
        /\ stage # "error"
        /\ \A x \in DOMAIN target : target[x] = before[x]

\* The same where no package is called like a field, a value or a method.
ApartMeansTheSame == PackagesApart => PrunedMeansTheSame
=============================================================================
