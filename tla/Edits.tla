--------------------------------- MODULE Edits ---------------------------------
(***************************************************************************)
(* prune's deletions and insertions in one surviving file: the visitors    *)
(* that walk the parsed items, delete what is not kept with its comments   *)
(* and collect the numbers to reserve on a scratch stack that all scopes   *)
(* share; and apply_edits, which turns the edits into the pruned text.     *)
(* The items and their comments come from Attach, so that a deleted span   *)
(* is what the parser made of comments wherever they stand.                *)
(*                                                                         *)
(* Spans are in lexemes, from the first to the last; an insertion is the   *)
(* list of numbers of a reserved statement.                                *)
(***************************************************************************)
EXTENDS Attach

VARIABLES
    phase,
    kept,      \* the items that stay: select for symbols, Bridge for imports
    scopes,    \* the scopes being visited, outermost first
    reserved,  \* the scratch stack of numbers
    edits,
    todo,      \* the edits not applied yet
    pos,       \* the first lexeme not copied or deleted yet
    out        \* the pruned text

ASSUME EditsAssumption == TextsAreLexed

visiting == <<scopes, reserved, edits>>
applying == <<todo, pos, out>>
pruning == <<phase, kept, visiting, applying>>

Num(h) == text[h].num
\* The elements of s that are in S, in order.
Those(s, S) ==
    LET upTo[n \in 0..Len(s)] ==
          IF n = 0 THEN <<>> ELSE IF s[n] \in S THEN Append(upTo[n-1], s[n]) ELSE upTo[n-1]
    IN upTo[Len(s)]
OfKind(o, kind) == Those(Items(o), {h \in Heads : Kind(h) = kind})
Keeps(e, K) == Those(OfKind(e, "value"), K)

-----------------------------------------------------------------------------
(* What a selection may keep.                                              *)

\* What the functions of parse.rs for a body read as its items; the values of
\* options hold fields of aggregates.
ReadIn(o) ==
    IF o = Root THEN {"syntax", "package", "import", "option", "message", "enum", "service"}
    ELSE CASE Kind(o) = "message" -> {"field", "oneof", "message", "enum", "option", "reserved"}
           [] Kind(o) = "oneof" -> {"field", "option"}
           [] Kind(o) = "enum" -> {"value", "option", "alias", "reserved"}
           [] Kind(o) = "service" -> {"rpc", "option"}
           [] Kind(o) = "rpc" -> {"option"}
           [] OTHER -> {"text"}
IsIn(h, o) == h \in Range(Items(o))
Grammatical ==
    /\ \A o \in Heads \cup {Root}, h \in Heads : IsIn(h, o) => Kind(h) \in ReadIn(o)
    /\ \A h \in Heads : Kind(h) # "text" => \E o \in Heads \cup {Root} : IsIn(h, o)

Symbols == {h \in Heads : Kind(h) \in {"message", "field", "enum", "value", "service", "rpc"}}
Parent(h) == CHOOSE o \in Heads \cup {Root} : IsIn(h, o)
\* Oneofs are no symbols: their fields belong to the message.
SymParent(h) == IF Parent(h) # Root /\ Kind(Parent(h)) = "oneof" THEN Parent(Parent(h)) ELSE Parent(h)

\* NothingDangles of Select, and its check of enums.
Selectable(K) ==
    /\ \A h \in K \cap Symbols : SymParent(h) \in K \cup {Root}
    /\ \A e \in K : Kind(e) = "enum" => Keeps(e, K) # <<>> /\ Num(Keeps(e, K)[1]) = 0

EditInit ==
    /\ Init
    /\ phase = "parse" /\ kept = {}
    /\ scopes = <<>> /\ reserved = <<>> /\ edits = <<>>
    /\ todo = {} /\ pos = 1 /\ out = <<>>

ParseFile == phase = "parse" /\ Next /\ UNCHANGED pruning

Scope(o) == [owner |-> o, base |-> Len(reserved), i |-> 1]

BeginVisit ==
    /\ phase = "parse" /\ at = "done" /\ Grammatical
    /\ \E K \in SUBSET (Symbols \cup {h \in Heads : Kind(h) = "import"}) :
          Selectable(K) /\ kept' = K
    /\ phase' = "visit"
    /\ scopes' = <<Scope(Root)>>
    /\ UNCHANGED <<vars, reserved, edits, applying>>

-----------------------------------------------------------------------------
(* The visitors.                                                           *)

Del(from, to) == [at |-> from, rank |-> 0, to |-> to, nums |-> <<>>]
Ins(place, nums) == [at |-> place, rank |-> 1, to |-> place, nums |-> nums]

At(k) == comments[k]
Least(S) == CHOOSE k \in S : \A j \in S : k <= j
Greatest(S) == CHOOSE k \in S : \A j \in S : k >= j

\* MUTANT of Deletion: what is detached is left.
DeletionNear(h) ==
    <<Del(IF meta[h].leading = {} THEN h ELSE At(Least(meta[h].leading)), meta[h].end)>>

\* delete_meta: the item with what leads and trails it, and what is detached.
From(h) == IF meta[h].leading = {} THEN h ELSE Least({h, At(Least(meta[h].leading))})
To(h) == IF meta[h].trailing = {} THEN meta[h].end
         ELSE Greatest({meta[h].end, At(Greatest(meta[h].trailing))})
Deletion(h) ==
    LET apart == meta[h].detached
    IN <<Del(From(h), To(h))>>
         \o [i \in 1..Cardinality(apart) |-> LET k == Least(apart) + i - 1 IN Del(At(k), At(k))]
Deletions(s) ==
    LET upTo[n \in 0..Len(s)] == IF n = 0 THEN <<>> ELSE upTo[n-1] \o Deletion(s[n])
    IN upTo[Len(s)]
Nums(s) == [i \in 1..Len(s) |-> Num(s[i])]

\* sort_unstable: each number goes behind those that are not greater.
Inserted(s, x) ==
    LET k == CHOOSE k \in 0..Len(s) : /\ \A i \in 1..k : s[i] <= x
                                      /\ \A i \in k+1..Len(s) : x < s[i]
    IN SubSeq(s, 1, k) \o <<x>> \o SubSeq(s, k + 1, Len(s))
Sorted(s) ==
    LET upTo[n \in 0..Len(s)] == IF n = 0 THEN <<>> ELSE Inserted(upTo[n-1], s[n])
    IN upTo[Len(s)]

Inner == scopes[Len(scopes)]
Here == Items(Inner.owner)[Inner.i]
Visiting(kinds) == phase = "visit" /\ Inner.i <= Len(Items(Inner.owner)) /\ Kind(Here) \in kinds
Visited == phase = "visit" /\ Inner.i > Len(Items(Inner.owner))
Stepped == [scopes EXCEPT ![Len(scopes)].i = @ + 1]

Definitions == {"message", "enum", "service", "field", "rpc", "import"}

\* A definition that is not kept: the numbers of fields are to be reserved.
Drop ==
    /\ Visiting(Definitions)
    /\ Here \notin kept
    /\ edits' = edits \o Deletion(Here)
    /\ reserved' = IF Kind(Here) = "field" THEN Append(reserved, Num(Here)) ELSE reserved
    /\ scopes' = Stepped
    /\ UNCHANGED <<vars, phase, kept, applying>>

\* A message or a service that is kept is gone through.
EnterScope ==
    /\ Visiting({"message", "service"})
    /\ Here \in kept
    /\ scopes' = Append(Stepped, Scope(Here))
    /\ UNCHANGED <<vars, phase, kept, reserved, edits, applying>>

\* Kept fields, rpcs and imports, and what has no symbol.
Pass ==
    /\ Visiting(Leaves \cup {"rpc"})
    /\ Kind(Here) \in Definitions => Here \in kept
    /\ scopes' = Stepped
    /\ UNCHANGED <<vars, phase, kept, reserved, edits, applying>>

\* visit_oneof: a oneof goes as a whole when all of its fields do.
VisitOneof ==
    /\ Visiting({"oneof"})
    /\ LET fields == OfKind(Here, "field")
           dropped == Those(fields, Heads \ kept)
       IN /\ edits' = edits \o (IF fields # <<>> /\ Len(dropped) = Len(fields)
                                THEN Deletion(Here) ELSE Deletions(dropped))
          /\ reserved' = reserved \o Nums(dropped)
    /\ scopes' = Stepped
    /\ UNCHANGED <<vars, phase, kept, applying>>

\* MUTANT of Pushed: the numbers of the scopes around count as well.
PushedBelow(stack, base) == stack

\* What a scope has pushed.
Pushed(stack, base) == SubSeq(stack, base + 1, Len(stack))

\* It becomes a reserved statement before the closing brace.
Insertion(o, nums) == IF nums = <<>> THEN <<>> ELSE <<Ins(meta[o].end, Sorted(nums))>>

\* MUTANT of StillAliased: dropped values count as well.
StillAliasedIn(e) ==
    \E i, j \in 1..Len(OfKind(e, "value")) :
        i < j /\ Num(OfKind(e, "value")[i]) = Num(OfKind(e, "value")[j])

\* kept_values_alias.
StillAliased(e) ==
    LET k == Keeps(e, kept) IN \E i, j \in 1..Len(k) : i < j /\ Num(k[i]) = Num(k[j])

Alive(e, n) == \E v \in Range(OfKind(e, "value")) : Num(v) = n /\ v \in kept

\* A dropped number is kept on the stack once, unless a kept value has it.
Squeezed(e, nums) ==
    LET s == Sorted(nums)
        upTo[n \in 0..Len(s)] ==
          IF n = 0 THEN <<>>
          ELSE LET w == upTo[n-1]
               IN IF (w # <<>> /\ w[Len(w)] = s[n]) \/ Alive(e, s[n]) THEN w ELSE Append(w, s[n])
    IN upTo[Len(s)]

\* visit_enum: allow_alias goes with the last pair of aliases.  The numbers are
\* pushed on the stack of the scopes around, and popped.
VisitEnum ==
    /\ Visiting({"enum"})
    /\ Here \in kept
    /\ LET dropped == Those(OfKind(Here, "value"), Heads \ kept)
           options == IF dropped = <<>> \/ StillAliased(Here) THEN <<>> ELSE OfKind(Here, "alias")
           nums == Pushed(reserved \o Nums(dropped), Len(reserved))
       IN edits' = edits \o Deletions(dropped) \o Deletions(options)
                         \o Insertion(Here, Squeezed(Here, nums))
    /\ scopes' = Stepped
    /\ UNCHANGED <<vars, phase, kept, reserved, applying>>

\* insert_reserved at the end of a scope.
LeaveScope ==
    /\ Visited /\ Inner.owner # Root
    /\ edits' = edits \o Insertion(Inner.owner, Pushed(reserved, Inner.base))
    /\ reserved' = SubSeq(reserved, 1, Inner.base)
    /\ scopes' = Front(scopes)
    /\ UNCHANGED <<vars, phase, kept, applying>>

EndVisit ==
    /\ Visited /\ Inner.owner = Root
    /\ phase' = "apply"
    /\ scopes' = <<>>
    /\ todo' = 1..Len(edits)
    /\ UNCHANGED <<vars, kept, reserved, edits, pos, out>>

-----------------------------------------------------------------------------
(* apply_edits: in the order of their places, deletions before insertions. *)

Precedes(i, j) ==
    \/ edits[i].at < edits[j].at
    \/ edits[i].at = edits[j].at /\ edits[i].rank < edits[j].rank
    \/ edits[i].at = edits[j].at /\ edits[i].rank = edits[j].rank /\ i <= j
First == CHOOSE i \in todo : \A j \in todo : Precedes(i, j)

Copied(from, to) == [i \in 1..(IF to < from THEN 0 ELSE to - from + 1) |->
                        [pos |-> from + i - 1, nums |-> <<>>]]
Statement(nums) == <<[pos |-> 0, nums |-> nums]>>

ApplyDel ==
    /\ phase = "apply" /\ todo # {} /\ edits[First].rank = 0
    /\ out' = out \o Copied(pos, edits[First].at - 1)
    /\ pos' = IF edits[First].at >= pos THEN edits[First].to + 1
              ELSE Greatest({pos, edits[First].to + 1})
    /\ todo' = todo \ {First}
    /\ UNCHANGED <<vars, phase, kept, visiting>>

ApplyIns ==
    /\ phase = "apply" /\ todo # {} /\ edits[First].rank = 1
    /\ out' = out \o Copied(pos, edits[First].at - 1) \o Statement(edits[First].nums)
    /\ pos' = Greatest({pos, edits[First].at})
    /\ todo' = todo \ {First}
    /\ UNCHANGED <<vars, phase, kept, visiting>>

CopyRest ==
    /\ phase = "apply" /\ todo = {}
    /\ out' = out \o Copied(pos, Len(text))
    /\ phase' = "done"
    /\ UNCHANGED <<vars, kept, visiting, todo, pos>>

EditNext ==
    \/ ParseFile \/ BeginVisit
    \/ Drop \/ EnterScope \/ Pass \/ VisitOneof \/ VisitEnum \/ LeaveScope \/ EndVisit
    \/ ApplyDel \/ ApplyIns \/ CopyRest

EditSpec == EditInit /\ [][EditNext]_<<vars, pruning>>

-----------------------------------------------------------------------------
(* What a prune should do, read off the text and the selection.            *)

Fields(m) == {f \in Heads : Kind(f) = "field" /\ SymParent(f) = m}
Values(e) == Range(OfKind(e, "value"))
Aliases(V) == \E v, w \in V : v # w /\ Num(v) = Num(w)

\* What is to go, and the lexemes that go with it.
Goes(h) ==
    \/ Kind(h) \in Definitions \cup {"value"} /\ h \notin kept
    \/ Kind(h) = "oneof" /\ Range(OfKind(h, "field")) \cap kept = {} /\ OfKind(h, "field") # <<>>
    \/ Kind(h) = "alias" /\ Values(Parent(h)) \ kept # {} /\ ~Aliases(Values(Parent(h)) \cap kept)
Notes(h) == {At(k) : k \in meta[h].leading \cup meta[h].trailing \cup meta[h].detached}
Own(h) == (h .. meta[h].end) \cup Notes(h)
Going == UNION {Own(h) : h \in {x \in Heads : Goes(x)}}

\* The numbers a kept scope loses.
Lost(o) ==
    IF Kind(o) = "message" THEN {Num(f) : f \in Fields(o) \ kept}
    ELSE {Num(v) : v \in Values(o) \ kept} \ {Num(v) : v \in Values(o) \cap kept}
Losing == {o \in kept : Kind(o) \in {"message", "enum"} /\ Lost(o) # {}}

-----------------------------------------------------------------------------
(* Correctness.                                                            *)

\* "Everything unaddressed is preserved": the pruned text is the source without
\* the lexemes of deleted items and of the comments attached to them, in order,
\* whatever nests, touches or overlaps.
OnlyDeletedGoes ==
    phase = "done" =>
        /\ {out[i].pos : i \in DOMAIN out} \ {0} = 1..Len(text) \ Going
        /\ \A i, j \in DOMAIN out :
              i < j /\ out[i].pos > 0 /\ out[j].pos > 0 => out[i].pos < out[j].pos

\* "Numbers are never reused": each kept message and enum gets one statement, as
\* its last one, of exactly the numbers it has lost - through oneofs, but not
\* those of nested scopes, nor those a kept alias still has - and no other
\* place gets one.
ReservedOnce ==
    phase = "done" =>
        LET places == {i \in DOMAIN out : out[i].pos = 0}
        IN /\ \A i \in places : \E o \in Losing : i < Len(out) /\ out[i+1].pos = meta[o].end
           /\ \A o \in Losing : \E i \in places :
                /\ out[i+1].pos = meta[o].end
                /\ Range(out[i].nums) = Lost(o)
                /\ \A j, k \in DOMAIN out[i].nums : j < k => out[i].nums[j] < out[i].nums[k]

\* What is left is legal again: an enum that allows aliases has some, one with
\* aliases allows them, and a oneof is not emptied.
OutputIsLegal ==
    phase = "done" =>
        LET left == {out[i].pos : i \in DOMAIN out}
        IN \A h \in Heads \cap left :
             /\ Kind(h) = "enum" =>
                  (Aliases(Values(h) \cap left)
                     <=> \E a \in Range(OfKind(h, "alias")) : a \in left)
             /\ Kind(h) = "oneof" /\ OfKind(h, "field") # <<>> =>
                  Range(OfKind(h, "field")) \cap left # {}
=============================================================================
