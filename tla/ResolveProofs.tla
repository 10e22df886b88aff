----------------------------- MODULE ResolveProofs -----------------------------
(***************************************************************************)
(* What holds of Resolve for any input: an analysis finds for each         *)
(* reference what the scoping rule says, and finds it again after a prune. *)
(***************************************************************************)
EXTENDS Resolve, SequenceTheorems, WellFoundedInduction, TLAPS

LEMMA NatMin ==
    ASSUME NEW T \in SUBSET Nat, T # {}
    PROVE \E m \in T : \A n \in T : m <= n
<1>1. IsWellFoundedOn(OpToRel(<, Nat), Nat)
  BY NatLessThanWellFounded
<1>2. PICK m \in T : \A n \in T : <<n, m>> \notin OpToRel(<, Nat)
  BY <1>1, WFMin
<1>3. \A n \in T : m <= n
  <2> SUFFICES ASSUME NEW n \in T, n < m PROVE FALSE
    OBVIOUS
  <2>1. <<n, m>> \in {ss \in Nat \X Nat : ss[1] < ss[2]}
    OBVIOUS
  <2> QED
    BY <1>2, <2>1 DEF OpToRel
<1> QED
  BY <1>3

-----------------------------------------------------------------------------
(* The input, and the full paths of its declarations                       *)

Input ==
    /\ pkgs \in Seq(Seq(Names)) /\ decls \in Seq(Decls)
    /\ \A d \in DOMAIN decls :
          /\ decls[d].file \in DOMAIN pkgs
          /\ decls[d].parent \in 0..d-1
          /\ decls[d].parent # 0 => decls[decls[d].parent].file = decls[d].file
          /\ decls[d].refs # <<>> => decls[d].parent # 0
          /\ \A r \in DOMAIN decls[d].refs : decls[d].refs[r].segs # <<>>

LEMMA DeclTypes ==
    ASSUME Input, NEW d \in DOMAIN decls
    PROVE /\ d \in Nat \ {0} /\ decls[d] \in Decls
          /\ decls[d].name \in Names /\ decls[d].kind \in Kinds
          /\ decls[d].file \in Nat /\ decls[d].parent \in Nat
          /\ pkgs[decls[d].file] \in Seq(Names)
          /\ decls[d].parent # 0 => decls[d].parent \in DOMAIN decls /\ decls[d].parent < d
<1>1. d \in Nat \ {0} /\ decls[d] \in Decls /\ DOMAIN decls = 1..Len(decls)
  BY DEF Input
<1>2. decls[d].name \in Names /\ decls[d].kind \in Kinds /\ decls[d].file \in Nat
      /\ decls[d].parent \in Nat
  BY <1>1 DEF Decls
<1>3. pkgs[decls[d].file] \in Seq(Names)
  BY DEF Input
<1>4. decls[d].parent \in 0..d-1
  BY DEF Input
<1> QED
  BY <1>1, <1>2, <1>3, <1>4

\* The definition of fq has a solution.
LEMMA FqExists ==
    ASSUME Input
    PROVE fq = [d \in DOMAIN decls |->
                  Append(IF decls[d].parent = 0 THEN pkgs[decls[d].file] ELSE fq[decls[d].parent],
                         decls[d].name)]
<1> DEFINE n == Len(decls)
           Up(f, d) == IF decls[d].parent = 0 THEN pkgs[decls[d].file] ELSE f[decls[d].parent]
           Good(f, m) == f = [d \in 1..m |-> Append(Up(f, d), decls[d].name)]
           T == {m \in 0..n : ~ \E f : Good(f, m)}
<1>1. n \in Nat /\ DOMAIN decls = 1..n /\ T \in SUBSET Nat
  BY DEF Input
<1>2. T = {}
  <2> SUFFICES ASSUME T # {} PROVE FALSE
    OBVIOUS
  <2> HIDE DEF T
  <2>1. PICK m \in T : \A k \in T : m <= k
    BY <1>1, NatMin
  <2>2. m \in 0..n /\ ~ \E f : Good(f, m)
    BY DEF T
  <2>3. m # 0
    <3>1. Good([d \in 1..0 |-> Append(Up(<<>>, d), decls[d].name)], 0)
      OBVIOUS
    <3> QED
      BY <2>2, <3>1
  <2>4. m - 1 \in 0..n /\ m - 1 \notin T /\ m \in Nat
    BY <1>1, <2>1, <2>2, <2>3
  <2>5. PICK f : Good(f, m - 1)
    BY <2>4 DEF T
  <2> DEFINE g == [d \in 1..m |-> Append(Up(f, d), decls[d].name)]
  <2>6. \A d \in 1..m : decls[d].parent # 0 => decls[d].parent \in 1..(m - 1)
    <3>1. ASSUME NEW d \in 1..m, decls[d].parent # 0 PROVE decls[d].parent \in 1..(m - 1)
      <4>1. d \in DOMAIN decls
        BY <1>1, <2>2
      <4>2. decls[d].parent \in Nat /\ decls[d].parent < d
        BY <3>1, <4>1, DeclTypes
      <4> QED
        BY <2>4, <3>1, <4>2
    <3> QED
      BY <3>1
  <2>7. \A d \in 1..(m - 1) : f[d] = Append(Up(f, d), decls[d].name)
    BY <2>5
  <2>8. \A d \in 1..(m - 1) : g[d] = f[d]
    <3>1. \A d \in 1..m : g[d] = Append(Up(f, d), decls[d].name)
      OBVIOUS
    <3>2. \A d \in 1..(m - 1) : d \in 1..m
      BY <2>4
    <3> HIDE DEF g, Up
    <3> QED
      BY <2>7, <3>1, <3>2
  <2>9. \A d \in 1..m : Up(f, d) = Up(g, d)
    <3> HIDE DEF g
    <3> QED
      BY <2>6, <2>8
  <2>10. Good(g, m)
    BY <2>9
  <2> HIDE DEF g, Good
  <2> QED
    BY <2>2, <2>10
<1>3. PICK f : Good(f, n)
  <2>1. \A k \in 0..n : k \notin T => \E f : Good(f, k)
    OBVIOUS
  <2>2. n \in 0..n
    BY <1>1
  <2> HIDE DEF T, Good, n
  <2> QED
    BY <1>2, <2>1, <2>2
<1>4. f = [d \in DOMAIN decls |-> Append(Up(f, d), decls[d].name)]
  BY <1>1, <1>3
<1> QED
  BY <1>4 DEF fq

\* Where a declaration stands.
Around(d) == IF decls[d].parent = 0 THEN pkgs[decls[d].file] ELSE fq[decls[d].parent]

LEMMA FqIs ==
    ASSUME Input, NEW d \in DOMAIN decls
    PROVE fq[d] = Append(Around(d), decls[d].name)
  BY FqExists DEF Around

LEMMA FqType ==
    ASSUME Input, NEW d \in DOMAIN decls
    PROVE fq[d] \in Seq(Names) /\ Around(d) \in Seq(Names)
<1> DEFINE T == {e \in DOMAIN decls : fq[e] \notin Seq(Names)}
<1>1. T \in SUBSET Nat
  BY DeclTypes
<1>2. \A e \in DOMAIN decls \ T : fq[e] \in Seq(Names)
  OBVIOUS
<1>3. \A e \in T : e \in DOMAIN decls /\ fq[e] \notin Seq(Names)
  OBVIOUS
<1> HIDE DEF T
<1>4. ASSUME NEW e \in DOMAIN decls, \A k \in T : e <= k PROVE Around(e) \in Seq(Names)
  <2>1. CASE decls[e].parent = 0
    BY <2>1, DeclTypes DEF Around
  <2>2. CASE decls[e].parent # 0
    <3>1. decls[e].parent \in DOMAIN decls /\ decls[e].parent < e
          /\ decls[e].parent \in Nat /\ e \in Nat
      BY <2>2, DeclTypes
    <3>2. decls[e].parent \notin T
      BY <1>4, <3>1
    <3> QED
      BY <1>2, <2>2, <3>1, <3>2 DEF Around
  <2> QED
    BY <2>1, <2>2
<1>5. T = {}
  <2> SUFFICES ASSUME T # {} PROVE FALSE
    OBVIOUS
  <2>1. PICK e \in T : \A k \in T : e <= k
    BY <1>1, NatMin
  <2>2. e \in DOMAIN decls /\ fq[e] \notin Seq(Names)
    BY <1>3
  <2>3. Around(e) \in Seq(Names) /\ decls[e].name \in Names
    BY <1>4, <2>1, <2>2, DeclTypes
  <2>4. fq[e] = Append(Around(e), decls[e].name)
    BY <2>2, FqIs
  <2> QED
    BY <2>2, <2>3, <2>4
<1> QED
  BY <1>2, <1>4, <1>5

-----------------------------------------------------------------------------
(* Prefixes                                                                *)

LEMMA PrefixIs ==
    ASSUME NEW t \in Seq(Names), NEW s \in Prefixes(t)
    PROVE /\ s \in Seq(Names) /\ Len(s) \in 0..Len(t)
          /\ s = SubSeq(t, 1, Len(s))
          /\ \A i \in 1..Len(s) : s[i] = t[i]
<1>1. PICK l \in 0..Len(t) : s = SubSeq(t, 1, l)
  BY DEF Prefixes
<1>2. \A i \in 1..l : t[i] \in Names
  BY <1>1
<1>3. /\ SubSeq(t, 1, l) \in Seq(Names) /\ Len(SubSeq(t, 1, l)) = IF 1 <= l THEN l ELSE 0
      /\ \A i \in 1..l : SubSeq(t, 1, l)[i] = t[i]
  BY <1>1, <1>2, SubSeqProperties
<1>4. Len(s) = l
  BY <1>1, <1>3
<1> QED
  BY <1>1, <1>3, <1>4

LEMMA IsAPrefix ==
    ASSUME NEW t \in Seq(Names), NEW s \in Seq(Names), Len(s) <= Len(t),
           \A i \in 1..Len(s) : s[i] = t[i]
    PROVE s \in Prefixes(t)
<1>1. Len(s) \in 0..Len(t) /\ \A i \in 1..Len(s) : t[i] \in Names
  OBVIOUS
<1>2. /\ SubSeq(t, 1, Len(s)) \in Seq(Names) /\ Len(SubSeq(t, 1, Len(s))) = Len(s)
      /\ \A i \in 1..Len(s) : SubSeq(t, 1, Len(s))[i] = t[i]
  BY <1>1, SubSeqProperties
<1>3. s = SubSeq(t, 1, Len(s))
  BY <1>2, SeqEqual
<1> QED
  BY <1>1, <1>3 DEF Prefixes

\* Of one length there is one prefix.
LEMMA OnePrefix ==
    ASSUME NEW t \in Seq(Names), NEW s \in Prefixes(t), NEW u \in Prefixes(t), Len(s) = Len(u)
    PROVE s = u
<1>1. s = SubSeq(t, 1, Len(s))
  BY PrefixIs
<1>2. u = SubSeq(t, 1, Len(u))
  BY PrefixIs
<1> QED
  BY <1>1, <1>2

LEMMA PrefixTrans ==
    ASSUME NEW t \in Seq(Names), NEW s \in Prefixes(t), NEW u \in Prefixes(s)
    PROVE u \in Prefixes(t)
<1>1. s \in Seq(Names) /\ Len(s) <= Len(t) /\ \A i \in 1..Len(s) : s[i] = t[i]
  BY PrefixIs
<1>2. u \in Seq(Names) /\ Len(u) \in 0..Len(s) /\ \A i \in 1..Len(u) : u[i] = s[i]
  BY <1>1, PrefixIs
<1> QED
  BY <1>1, <1>2, IsAPrefix

LEMMA PrefixSelf ==
    ASSUME NEW t \in Seq(Names)
    PROVE t \in Prefixes(t) /\ <<>> \in Prefixes(t)
<1>1. <<>> \in Seq(Names) /\ Len(<<>>) = 0 /\ Len(t) \in Nat
  OBVIOUS
<1>3. <<>> \in Prefixes(t)
  <2>1. ASSUME NEW e \in Seq(Names), Len(e) = 0 PROVE e \in Prefixes(t)
    <3>1. Len(e) <= Len(t) /\ \A i \in 1..Len(e) : e[i] = t[i]
      BY <1>1, <2>1
    <3> QED
      BY <3>1, IsAPrefix
  <2> QED
    BY <1>1, <2>1
<1>4. \A i \in 1..Len(t) : t[i] = t[i]
  OBVIOUS
<1>5. Len(t) <= Len(t)
  BY <1>1
<1>6. t \in Prefixes(t)
  BY <1>4, <1>5, IsAPrefix
<1> QED
  BY <1>3, <1>6

LEMMA FrontOfAppend ==
    ASSUME NEW s \in Seq(Names), NEW n \in Names
    PROVE Front(Append(s, n)) = s
<1>1. /\ Append(s, n) \in Seq(Names) /\ Len(Append(s, n)) = Len(s) + 1
      /\ \A i \in 1..Len(s) : Append(s, n)[i] = s[i]
  BY AppendProperties
<1>2. Front(Append(s, n)) = SubSeq(Append(s, n), 1, Len(s))
  BY <1>1 DEF Front
<1>3. s \in Prefixes(Append(s, n))
  <2>1. Len(s) <= Len(Append(s, n)) /\ \A i \in 1..Len(s) : s[i] = Append(s, n)[i]
    BY <1>1
  <2> QED
    BY <1>1, <2>1, IsAPrefix
<1>4. s = SubSeq(Append(s, n), 1, Len(s))
  BY <1>1, <1>3, PrefixIs
<1> QED
  BY <1>2, <1>4

\* What stands outwards of a scope.
LEMMA FrontIsPrefix ==
    ASSUME NEW t \in Seq(Names), NEW s \in Prefixes(t), s # <<>>
    PROVE Front(s) \in Prefixes(t) /\ Len(Front(s)) = Len(s) - 1
<1>1. s \in Seq(Names) /\ Len(s) <= Len(t) /\ \A i \in 1..Len(s) : s[i] = t[i]
  BY PrefixIs
<1>2. Len(s) \in Nat /\ Len(s) # 0
  BY <1>1
<1>3. \A i \in 1..(Len(s) - 1) : s[i] \in Names
  BY <1>1
<1>4. /\ Front(s) \in Seq(Names) /\ Len(Front(s)) = Len(s) - 1
      /\ \A i \in 1..(Len(s) - 1) : Front(s)[i] = s[i]
  <2>1. Front(s) = SubSeq(s, 1, Len(s) - 1) /\ Len(s) - 1 \in Nat
    BY <1>2 DEF Front
  <2>2. ASSUME NEW l \in Nat, \A i \in 1..l : s[i] \in Names
        PROVE /\ SubSeq(s, 1, l) \in Seq(Names) /\ Len(SubSeq(s, 1, l)) = l
              /\ \A i \in 1..l : SubSeq(s, 1, l)[i] = s[i]
    <3>1. /\ SubSeq(s, 1, l) \in Seq(Names)
          /\ Len(SubSeq(s, 1, l)) = IF 1 <= l THEN l - 1 + 1 ELSE 0
          /\ \A i \in 1..(l - 1 + 1) : SubSeq(s, 1, l)[i] = s[1 + i - 1]
      BY <2>2, SubSeqProperties
    <3> QED
      BY <3>1
  <2> QED
    BY <1>3, <2>1, <2>2
<1> QED
  BY <1>1, <1>2, <1>4, IsAPrefix

LEMMA PrefixOfAppend ==
    ASSUME NEW s \in Seq(Names), NEW n \in Names, NEW p \in Prefixes(Append(s, n))
    PROVE p = Append(s, n) \/ p \in Prefixes(s)
<1>1. /\ Append(s, n) \in Seq(Names) /\ Len(Append(s, n)) = Len(s) + 1
      /\ \A i \in 1..Len(s) : Append(s, n)[i] = s[i]
  BY AppendProperties
<1>2. /\ p \in Seq(Names) /\ Len(p) \in 0..(Len(s) + 1)
      /\ \A i \in 1..Len(p) : p[i] = Append(s, n)[i]
  BY <1>1, PrefixIs
<1>3. CASE Len(p) = Len(s) + 1
  BY <1>1, <1>3, PrefixSelf, OnePrefix
<1>4. CASE Len(p) <= Len(s)
  BY <1>1, <1>2, <1>4, IsAPrefix
<1> QED
  BY <1>2, <1>3, <1>4

\* The first step from a scope towards what a path leads to there.
LEMMA FirstStep ==
    ASSUME NEW s \in Seq(Names), NEW u \in Seq(Names), u # <<>>
    PROVE /\ Append(s, u[1]) \in Prefixes(s \o u) /\ u[1] \in Names
          /\ Append(s, u[1]) \in Seq(Names) /\ s \o u \in Seq(Names)
          /\ Append(s, u[1]) # <<>>
          /\ Len(u) = 1 => s \o u = Append(s, u[1])
<1>1. Len(u) \in Nat /\ Len(u) # 0 /\ u[1] \in Names
  OBVIOUS
<1>2. /\ s \o u \in Seq(Names) /\ Len(s \o u) = Len(s) + Len(u)
      /\ \A i \in 1..(Len(s) + Len(u)) : (s \o u)[i] = IF i <= Len(s) THEN s[i] ELSE u[i - Len(s)]
  BY ConcatProperties
<1>3. /\ Append(s, u[1]) \in Seq(Names) /\ Len(Append(s, u[1])) = Len(s) + 1
      /\ \A i \in 1..Len(s) : Append(s, u[1])[i] = s[i]
      /\ Append(s, u[1])[Len(s) + 1] = u[1]
  BY <1>1, AppendProperties
<1>4. \A i \in 1..(Len(s) + 1) : Append(s, u[1])[i] = (s \o u)[i]
  <2>0. Len(s) \in Nat
    OBVIOUS
  <2> SUFFICES ASSUME NEW i \in 1..(Len(s) + 1) PROVE Append(s, u[1])[i] = (s \o u)[i]
    OBVIOUS
  <2>1. i \in 1..(Len(s) + Len(u))
    BY <1>1, <2>0
  <2>2. CASE i = Len(s) + 1
    <3>1. ~(i <= Len(s)) /\ i - Len(s) = 1
      BY <2>0, <2>2
    <3> QED
      BY <1>2, <1>3, <2>1, <2>2, <3>1
  <2>3. CASE i # Len(s) + 1
    <3>1. i \in 1..Len(s) /\ i <= Len(s)
      BY <2>0, <2>3
    <3> QED
      BY <1>2, <1>3, <2>1, <3>1
  <2> QED
    BY <2>2, <2>3
<1>5. Append(s, u[1]) \in Prefixes(s \o u)
  <2>1. Len(s) \in Nat /\ Len(s) + 1 <= Len(s) + Len(u)
    BY <1>1
  <2> QED
    BY <1>1, <1>2, <1>3, <1>4, <2>1, IsAPrefix
<1>6. Len(u) = 1 => s \o u = Append(s, u[1])
  BY <1>2, <1>3, <1>5, PrefixSelf, OnePrefix
<1> QED
  BY <1>1, <1>2, <1>3, <1>5, <1>6

\* Each prefix of a full path is a part of the package or a declaration around.
LEMMA PrefixesAround ==
    ASSUME Input, NEW K \in SUBSET DOMAIN decls, \A d \in K : decls[d].parent \in K \cup {0},
           NEW d \in K, NEW p \in Prefixes(fq[d])
    PROVE p \in Prefixes(pkgs[decls[d].file]) \/ \E e \in K : p = fq[e]
<1> DEFINE Fine(k) == p \in Prefixes(fq[k]) =>
                          p \in Prefixes(pkgs[decls[k].file]) \/ \E e \in K : p = fq[e]
           T == {k \in K : ~Fine(k)}
<1>1. T \in SUBSET Nat
  BY DeclTypes
<1>2. \A k \in K : k \in T <=> ~Fine(k)
  OBVIOUS
<1>3. T \subseteq K
  OBVIOUS
<1> HIDE DEF T
<1>4. T = {}
  <2> SUFFICES ASSUME T # {} PROVE FALSE
    OBVIOUS
  <2>1. PICK k \in T : \A j \in T : k <= j
    BY <1>1, NatMin
  <2>2. k \in K /\ k \in DOMAIN decls
    BY <1>3
  <2>3. /\ fq[k] = Append(Around(k), decls[k].name)
        /\ Around(k) \in Seq(Names) /\ decls[k].name \in Names
    BY <2>2, FqIs, FqType, DeclTypes
  <2>4. p \in Prefixes(fq[k]) => p = fq[k] \/ p \in Prefixes(Around(k))
    BY <2>3, PrefixOfAppend
  <2>5. CASE decls[k].parent = 0
    <3>1. Fine(k)
      BY <2>2, <2>4, <2>5 DEF Around
    <3> HIDE DEF Fine
    <3> QED
      BY <1>2, <2>1, <2>2, <3>1
  <2>6. CASE decls[k].parent # 0
    <3>1. decls[k].parent \in K /\ decls[k].parent < k /\ decls[k].parent \in Nat /\ k \in Nat
      BY <2>2, <2>6, DeclTypes
    <3>2. decls[k].parent \notin T
      BY <2>1, <3>1
    <3>3. Fine(decls[k].parent)
      BY <1>2, <3>1, <3>2
    <3>4. decls[decls[k].parent].file = decls[k].file
      BY <2>2, <2>6 DEF Input
    <3>5. Fine(k)
      BY <2>2, <2>4, <2>6, <3>3, <3>4 DEF Around
    <3> HIDE DEF Fine
    <3> QED
      BY <1>2, <2>1, <2>2, <3>5
  <2> QED
    BY <2>5, <2>6
<1>5. Fine(d)
  BY <1>2, <1>4
<1> QED
  BY <1>5

-----------------------------------------------------------------------------
(* The inductive invariant.                                                *)

\* What a round analyzes.
Standing ==
    /\ Input
    /\ kept \subseteq DOMAIN decls /\ present \subseteq DOMAIN pkgs
    /\ \A d \in kept : decls[d].parent \in kept \cup {0} /\ decls[d].file \in present
    /\ round \in {1, 2}
    /\ round = 1 => kept = DOMAIN decls /\ present = DOMAIN pkgs
    /\ stage \in {"collect", "resolve", "done", "error"}
    /\ file \in 0..Len(pkgs)

Nodes ==
    {<<>>} \cup (UNION {Prefixes(b) : b \in Builtins})
    \cup (UNION {Prefixes(pkgs[f]) : f \in {g \in present : g <= file}})
    \cup {fq[d] : d \in DOMAIN ns}

\* The files before the current one are collected, and the tree has the
\* packages and the declarations seen so far, each where it belongs.
Collected ==
    /\ DOMAIN ns \subseteq kept
    /\ \A d \in DOMAIN ns : ns[d] = fq[d] /\ decls[d].file <= file
    /\ \A d \in kept : decls[d].file < file => d \in DOMAIN ns
    /\ stage \in {"resolve", "done"} => DOMAIN ns = kept /\ file = Len(pkgs)
    /\ \A d \in DOMAIN ns : fq[d] \notin Builtins
    /\ \A d, e \in DOMAIN ns : fq[d] = fq[e] => d = e
    /\ DOMAIN tree = Nodes
    /\ \A d \in DOMAIN ns : tree[fq[d]] = decls[d].kind
    /\ \A b \in Builtins : tree[b] = BuiltinKind(b)
    /\ \A p \in DOMAIN tree : p \in Builtins \/ tree[p] = "package" \/ \E d \in DOMAIN ns : p = fq[d]

\* No scope inside s decides x.
Reaches(s, x) ==
    s \in Prefixes(Front(fq[x[1]])) /\ \A t \in Deciding(Now, x) : Len(t) <= Len(s)

\* The references resolved so far mean what they lead to; for the current one
\* the scopes inside base decide nothing.
Resolved ==
    /\ stage = "collect" => target = <<>>
    /\ stage \in {"resolve", "done"} =>
          /\ todo \subseteq Refs /\ DOMAIN target = Refs \ todo
          /\ \A x \in Refs \ todo : Resolvable(Now, x) /\ Means(Now, x) = {target[x]}
    /\ stage = "resolve" => \A x \in todo : x = Ref => Reaches(base, x)
    /\ stage = "done" => todo = {}

Failing == stage = "error" => Colliding(Now) \/ \E x \in Refs : ~Resolvable(Now, x)

\* What a pruned output comes from: an analyzed input, of which it has all that
\* it refers to.
WholeRefs == UNION {{<<d, r>> : r \in DOMAIN decls[d].refs} : d \in DOMAIN decls}

Sound ==
    /\ ~Colliding(Whole)
    /\ \A x \in WholeRefs : Resolvable(Whole, x) /\ Means(Whole, x) = {before[x]}
    /\ \A x \in Refs : \A d \in DOMAIN decls : fq[d] = before[x] => d \in kept

PrunedFromSound == round = 2 => Sound

IInv == Standing /\ Collected /\ Resolved /\ Failing /\ PrunedFromSound

LEMMA FqStays ==
    ASSUME pkgs' = pkgs, decls' = decls
    PROVE fq' = fq
  BY DEF fq

LEMMA WorldStays ==
    ASSUME pkgs' = pkgs, decls' = decls, kept' = kept, present' = present
    PROVE /\ Refs' = Refs /\ (Input' <=> Input)
          /\ Colliding(Now)' <=> Colliding(Now)
          /\ \A x : (Resolvable(Now, x)' <=> Resolvable(Now, x)) /\ Means(Now, x)' = Means(Now, x)
                    /\ Deciding(Now, x)' = Deciding(Now, x)
<1>1. fq' = fq
  BY FqStays
<1>2. Refs' = Refs /\ (Input' <=> Input)
  BY DEF Refs, Input
<1>3. Colliding(Now)' <=> Colliding(Now)
  BY <1>1 DEF Colliding, Now
<1>4. \A x : Deciding(Now, x)' = Deciding(Now, x)
  BY <1>1 DEF Deciding, Decides, PathOf, IsRpc, Has, IsPackage, Scopes, Defined, Now
<1>5. \A x : Means(Now, x)' = Means(Now, x)
  BY <1>1 DEF Means, Deciding, Decides, PathOf, IsRpc, Has, IsPackage, Scopes, Defined, Now
<1>6. \A x : Resolvable(Now, x)' <=> Resolvable(Now, x)
  <2>1. \A p, k : Has(Now, p, k)' <=> Has(Now, p, k)
    BY <1>1 DEF Has, Defined, Now
  <2>2. \A x : IsRpc(x)' <=> IsRpc(x)
    BY DEF IsRpc
  <2> QED
    BY <1>5, <2>1, <2>2 DEF Resolvable
<1> QED
  BY <1>2, <1>3, <1>4, <1>5, <1>6

LEMMA StandingInit ==
    Init => Standing
<1> SUFFICES ASSUME Init PROVE Standing
  OBVIOUS
<1>1. Input
  <2>1. PICK i \in Inputs : pkgs = i.pkgs /\ decls = i.decls
    BY DEF Init
  <2>2. pkgs \in Seq(Seq(Names)) /\ decls \in Seq(Decls)
    BY <2>1, InputsAssumption
  <2>3. \A d \in DOMAIN decls :
          /\ decls[d].file \in DOMAIN pkgs
          /\ decls[d].parent \in 0..d-1
          /\ decls[d].parent # 0 => decls[decls[d].parent].file = decls[d].file
          /\ decls[d].refs # <<>> => decls[d].parent # 0
          /\ \A r \in DOMAIN decls[d].refs : decls[d].refs[r].segs # <<>>
    BY <2>1, InputsAssumption
  <2> QED
    BY <2>2, <2>3 DEF Input
<1>2. \A d \in DOMAIN decls : decls[d].parent \in DOMAIN decls \cup {0}
  BY <1>1, DeclTypes
<1>3. Len(pkgs) \in Nat
  BY <1>1 DEF Input
<1>4. \A d \in DOMAIN decls : decls[d].file \in DOMAIN pkgs
  BY <1>1 DEF Input
<1> QED
  BY <1>1, <1>2, <1>3, <1>4 DEF Init, Standing

LEMMA StandingStep ==
    Standing /\ [Next]_vars => Standing'
<1> SUFFICES ASSUME Standing, [Next]_vars PROVE Standing'
  OBVIOUS
<1>0. pkgs' = pkgs /\ decls' = decls
  BY DEF Next, vars, input, OpenFile, AddSymbol, EndCollect, Absolute, Anchor, Take, Lead,
         Outward, EndResolve, Prune
<1>1. Input'
  BY <1>0 DEF Standing, Input
<1>2. CASE Prune
  <2>1. PICK K \in SUBSET kept, F \in SUBSET present :
            /\ \A d \in K : decls[d].parent \in K \cup {0}
            /\ {decls[d].file : d \in K} \subseteq F
            /\ kept' = K /\ present' = F
    BY <1>2 DEF Prune, Selected
  <2>2. Len(pkgs) \in Nat
    BY DEF Standing, Input
  <2> QED
    BY <1>0, <1>1, <1>2, <2>1, <2>2 DEF Standing, Prune, Analyze
<1>3. CASE OpenFile
  <2>1. file + 1 \in 0..Len(pkgs)
    BY <1>3 DEF Standing, Input, OpenFile
  <2> QED
    BY <1>0, <1>1, <1>3, <2>1 DEF Standing, OpenFile, input
<1>4. CASE ~Prune /\ ~OpenFile
  <2>1. /\ kept' = kept /\ present' = present /\ round' = round /\ file' = file
        /\ stage' \in {stage, "resolve", "done", "error"}
    BY <1>4 DEF Next, vars, input, AddSymbol, EndCollect, Absolute, Anchor, Take, Lead,
                Outward, EndResolve
  <2> QED
    BY <1>0, <1>1, <2>1 DEF Standing
<1> QED
  BY <1>2, <1>3, <1>4

-----------------------------------------------------------------------------
(* What a reference means                                                  *)

LEMMA RefType ==
    ASSUME Input, NEW x \in WholeRefs
    PROVE /\ x = <<x[1], x[2]>> /\ x[1] \in Nat /\ x[2] \in Nat
          /\ x[1] \in DOMAIN decls /\ x[2] \in DOMAIN decls[x[1]].refs
          /\ PathOf(x).segs \in Seq(Names) /\ PathOf(x).segs # <<>> /\ PathOf(x).dot \in BOOLEAN
          /\ decls[x[1]].parent # 0 /\ decls[x[1]].parent \in DOMAIN decls
          /\ Front(fq[x[1]]) = fq[decls[x[1]].parent]
          /\ fq[decls[x[1]].parent] \in Seq(Names)
<1>1. PICK d \in DOMAIN decls : \E r \in DOMAIN decls[d].refs : x = <<d, r>>
  BY DEF WholeRefs
<1>2. PICK r \in DOMAIN decls[d].refs : x = <<d, r>>
  BY <1>1
<1>3. x[1] = d /\ x[2] = r
  BY <1>2
<1>4. decls[d] \in Decls /\ d \in Nat
  BY DeclTypes
<1>5. decls[d].refs \in Seq(Paths)
  BY <1>4 DEF Decls
<1>6. decls[d].refs[r] \in Paths /\ r \in Nat /\ decls[d].refs # <<>>
  BY <1>2, <1>5
<1>7. decls[d].refs[r].segs \in Seq(Names) /\ decls[d].refs[r].dot \in BOOLEAN
  BY <1>6 DEF Paths
<1>8. decls[d].refs[r].segs # <<>> /\ decls[d].parent # 0
  BY <1>2, <1>6 DEF Input
<1>9. decls[d].parent \in DOMAIN decls
  BY <1>8, DeclTypes
<1>10. fq[decls[d].parent] \in Seq(Names) /\ decls[d].name \in Names
  BY <1>9, FqType, DeclTypes
<1>11. fq[d] = Append(fq[decls[d].parent], decls[d].name)
  BY <1>8, FqIs DEF Around
<1>12. Front(fq[d]) = fq[decls[d].parent]
  BY <1>10, <1>11, FrontOfAppend
<1> QED
  BY <1>2, <1>3, <1>4, <1>6, <1>7, <1>8, <1>9, <1>10, <1>12 DEF PathOf

LEMMA RefsAre ==
    ASSUME Standing
    PROVE Refs \subseteq WholeRefs /\ \A x \in Refs : x[1] \in kept
  BY DEF Standing, Refs, WholeRefs

\* From a scope around a reference to what its path leads to there.
LEMMA FromScope ==
    ASSUME Input, NEW x \in WholeRefs, NEW s \in Prefixes(Front(fq[x[1]]))
    PROVE LET u == PathOf(x).segs
          IN /\ s \in Seq(Names) /\ Append(s, u[1]) \in Prefixes(s \o u)
             /\ Append(s, u[1]) \in Seq(Names) /\ s \o u \in Seq(Names)
             /\ Append(s, u[1]) # <<>>
             /\ Len(u) \in Nat \ {0}
             /\ Len(u) = 1 => s \o u = Append(s, u[1])
<1>1. PathOf(x).segs \in Seq(Names) /\ PathOf(x).segs # <<>> /\ Front(fq[x[1]]) \in Seq(Names)
  BY RefType
<1>2. s \in Seq(Names)
  BY <1>1, PrefixIs
<1> QED
  BY <1>1, <1>2, FirstStep

LEMMA OneMeaning ==
    ASSUME Input, NEW x \in WholeRefs, ~PathOf(x).dot, NEW w,
           NEW s \in Deciding(w, x), \A u \in Deciding(w, x) : Len(u) <= Len(s)
    PROVE Means(w, x) = {s \o PathOf(x).segs}
<1>1. Front(fq[x[1]]) \in Seq(Names)
  BY RefType
<1>2. \A u \in Deciding(w, x) : u \in Prefixes(Front(fq[x[1]]))
  BY DEF Deciding
<1>3. \A u \in Deciding(w, x) : Len(u) \in Nat
  BY <1>1, <1>2, PrefixIs
<1>4. \A t \in Deciding(w, x) : (\A u \in Deciding(w, x) : Len(u) <= Len(t)) <=> t = s
  <2> SUFFICES ASSUME NEW t \in Deciding(w, x), \A u \in Deciding(w, x) : Len(u) <= Len(t)
               PROVE t = s
    OBVIOUS
  <2>1. Len(t) = Len(s)
    BY <1>3
  <2> QED
    BY <1>1, <1>2, <2>1, OnePrefix
<1> QED
  BY <1>4 DEF Means

LEMMA HasIs ==
    ASSUME NEW w, NEW p, NEW kinds
    PROVE Has(w, p, kinds) <=>
              \/ \E d \in w.decls : p = fq[d] /\ decls[d].kind \in kinds
              \/ p \in Builtins /\ BuiltinKind(p) \in kinds
  BY DEF Has, Defined

LEMMA NowInWhole ==
    ASSUME Standing, NEW p
    PROVE /\ \A kinds : Has(Now, p, kinds) => Has(Whole, p, kinds)
          /\ p \in Scopes(Now) => p \in Scopes(Whole)
<1>1. \A kinds : Has(Now, p, kinds) => Has(Whole, p, kinds)
  BY HasIs DEF Standing, Now, Whole
<1>2. p \in Scopes(Now) => p \in Scopes(Whole)
  BY DEF Scopes, Standing, Now, Whole
<1> QED
  BY <1>1, <1>2

LEMMA KindsOfDefs ==
    /\ Defs \subseteq Kinds /\ {"message", "enum"} \subseteq Defs /\ {"message"} \subseteq Defs
    /\ \A b : BuiltinKind(b) \in Defs /\ BuiltinKind(b) \in Kinds
    /\ "package" \notin Kinds
  BY DEF Defs, Kinds, BuiltinKind

LEMMA HasMore ==
    ASSUME NEW w, NEW p, NEW k, NEW l, k \subseteq l, Has(w, p, k)
    PROVE Has(w, p, l)
  BY DEF Has

-----------------------------------------------------------------------------
(* The output of a prune means what the input meant                        *)

\* What a reference of the output means is in the output.
LEMMA TargetKept ==
    ASSUME Standing, Sound, NEW x \in Refs
    PROVE /\ Has(Now, before[x], IF IsRpc(x) THEN {"message"} ELSE {"message", "enum"})
          /\ before[x] \in Builtins \/ \E d \in kept : before[x] = fq[d]
<1> DEFINE K == IF IsRpc(x) THEN {"message"} ELSE {"message", "enum"}
<1>1. x \in WholeRefs
  BY RefsAre
<1>2. Has(Whole, before[x], K)
  BY <1>1 DEF Sound, Resolvable
<1> HIDE DEF K
<1>3. CASE before[x] \in Builtins /\ BuiltinKind(before[x]) \in K
  <2>1. Has(Now, before[x], K)
    BY <1>3, HasIs
  <2> QED
    BY <1>3, <2>1 DEF K
<1>4. CASE \E d \in Whole.decls : before[x] = fq[d] /\ decls[d].kind \in K
  <2>1. PICK d \in DOMAIN decls : before[x] = fq[d] /\ decls[d].kind \in K
    BY <1>4 DEF Whole
  <2>2. d \in kept
    BY <2>1 DEF Sound
  <2>3. Has(Now, before[x], K)
    BY <2>1, <2>2, HasIs DEF Now
  <2> QED
    BY <2>1, <2>2, <2>3 DEF K
<1> QED
  BY <1>2, <1>3, <1>4, HasIs

\* A node on the way to it that is a definition or a package still is one.
LEMMA WayKept ==
    ASSUME Standing, Sound, NEW x \in Refs, NEW p \in Prefixes(before[x]), before[x] \in Seq(Names),
           Has(Whole, p, Defs) \/ IsPackage(Whole, p)
    PROVE Has(Now, p, Defs) \/ IsPackage(Now, p)
<1>1. p \in Scopes(Now) \/ \E e \in kept : p = fq[e]
  <2>1. CASE before[x] \in Builtins
    BY <2>1 DEF Scopes
  <2>2. ASSUME NEW d \in kept, before[x] = fq[d] PROVE p \in Scopes(Now) \/ \E e \in kept : p = fq[e]
    <3>0. Input /\ kept \in SUBSET DOMAIN decls /\ \A e \in kept : decls[e].parent \in kept \cup {0}
      BY DEF Standing
    <3>1. p \in Prefixes(fq[d])
      BY <2>2
    <3>2. p \in Prefixes(pkgs[decls[d].file]) \/ \E e \in kept : p = fq[e]
      BY <3>0, <3>1, PrefixesAround
    <3>3. decls[d].file \in present
      BY DEF Standing
    <3> QED
      BY <3>2, <3>3 DEF Scopes, Now
  <2> QED
    BY <2>1, <2>2, TargetKept
<1>2. ASSUME NEW e \in kept, p = fq[e] PROVE Has(Now, p, Defs)
  <2>1. e \in DOMAIN decls /\ decls[e].kind \in Kinds
    BY DeclTypes DEF Standing
  <2>2. Has(Whole, p, Kinds)
    BY <1>2, <2>1, HasIs DEF Whole
  <2>3. Has(Whole, p, Defs)
    BY <2>2 DEF IsPackage
  <2>4. p \notin Builtins
    BY <1>2, <2>1 DEF Sound, Colliding, Whole
  <2>5. PICK d \in DOMAIN decls : p = fq[d] /\ decls[d].kind \in Defs
    BY <2>3, <2>4, HasIs DEF Whole
  <2>6. d = e
    BY <1>2, <2>1, <2>5 DEF Sound, Colliding, Whole
  <2> QED
    BY <1>2, <2>5, <2>6, HasIs DEF Now
<1>3. CASE p \in Scopes(Now) /\ ~ \E e \in kept : p = fq[e]
  <2>1. CASE p \in Builtins
    BY <2>1, HasIs, KindsOfDefs
  <2>2. CASE p \notin Builtins
    <3>1. ~Has(Now, p, Kinds)
      BY <1>3, <2>2, HasIs DEF Now
    <3> QED
      BY <1>3, <3>1 DEF IsPackage
  <2> QED
    BY <2>1, <2>2
<1> QED
  BY <1>1, <1>2, <1>3

\* What decides a reference in the output did so in the input.
LEMMA DecidedBefore ==
    ASSUME Standing, PackagesApart, NEW x \in Refs, NEW s, Decides(Now, x, s)
    PROVE Decides(Whole, x, s)
<1> DEFINE p == Append(s, PathOf(x).segs[1])
<1>1. \A kinds : Has(Now, p, kinds) => Has(Whole, p, kinds)
  BY NowInWhole
<1>2. IsPackage(Now, p) => Has(Whole, p, Defs) \/ IsPackage(Whole, p)
  <2> SUFFICES ASSUME IsPackage(Now, p), Has(Whole, p, Kinds) PROVE Has(Whole, p, Defs)
    BY NowInWhole DEF IsPackage
  <2>1. p \in Scopes(Whole)
    BY NowInWhole DEF IsPackage
  <2>2. CASE p \in Builtins
    BY <2>2, HasIs, KindsOfDefs
  <2>3. ASSUME NEW d \in Whole.decls, p = fq[d] PROVE Has(Whole, p, Defs)
    <3>1. d \in DOMAIN decls
      BY DEF Whole
    <3>2. decls[d].kind \in Defs
      BY <2>1, <2>3, <3>1 DEF PackagesApart
    <3> HIDE DEF p
    <3> QED
      BY <2>3, <3>2, HasIs
  <2> HIDE DEF p
  <2> QED
    BY <2>2, <2>3, HasIs
<1>3. Has(Whole, p, Defs) => Has(Whole, p, Kinds)
  BY HasMore, KindsOfDefs
<1> QED
  BY <1>1, <1>2, <1>3 DEF Decides

LEMMA SameMeaning ==
    ASSUME Standing, Sound, PackagesApart, NEW x \in Refs
    PROVE Resolvable(Now, x) /\ Means(Now, x) = {before[x]}
<1>1. x \in WholeRefs /\ Input
  BY RefsAre DEF Standing
<1>2. Means(Whole, x) = {before[x]}
  BY <1>1 DEF Sound
<1>3. Means(Now, x) = {before[x]}
  <2>1. CASE PathOf(x).dot
    BY <1>2, <2>1 DEF Means
  <2>2. CASE ~PathOf(x).dot
    <3>1. PICK s \in Deciding(Whole, x) :
              before[x] = s \o PathOf(x).segs /\ \A u \in Deciding(Whole, x) : Len(u) <= Len(s)
      BY <1>2, <2>2 DEF Means
    <3>2. s \in Prefixes(Front(fq[x[1]])) /\ Decides(Whole, x, s)
      BY <3>1 DEF Deciding
    <3> DEFINE p == Append(s, PathOf(x).segs[1])
    <3>3. /\ p \in Prefixes(before[x]) /\ before[x] \in Seq(Names)
          /\ Len(PathOf(x).segs) \in Nat \ {0}
          /\ Len(PathOf(x).segs) = 1 => before[x] = p
      BY <1>1, <3>1, <3>2, FromScope
    <3>4. Decides(Now, x, s)
      <4>1. CASE Len(PathOf(x).segs) > 1
        <5>1. Has(Whole, p, Defs) \/ IsPackage(Whole, p)
          BY <3>2, <4>1 DEF Decides
        <5>2. Has(Now, p, Defs) \/ IsPackage(Now, p)
          <6> HIDE DEF p
          <6> QED
            BY <3>3, <5>1, WayKept
        <5> QED
          BY <4>1, <5>2 DEF Decides
      <4>2. CASE ~(Len(PathOf(x).segs) > 1)
        <5>0. Len(PathOf(x).segs) = 1
          <6>1. \A n \in Nat \ {0} : ~(n > 1) => n = 1
            OBVIOUS
          <6> QED
            BY <3>3, <4>2, <6>1
        <5>1. before[x] = p
          BY <3>3, <5>0
        <5>2. Has(Now, p, IF IsRpc(x) THEN {"message"} ELSE {"message", "enum"})
          BY <5>1, TargetKept
        <5>3. Has(Now, p, IF IsRpc(x) THEN Kinds ELSE {"message", "enum"})
          <6> HIDE DEF p
          <6>1. CASE IsRpc(x)
            <7>1. {"message"} \subseteq Kinds /\ Has(Now, p, {"message"})
              BY <5>2, <6>1, KindsOfDefs
            <7> QED
              BY <6>1, <7>1, HasMore
          <6>2. CASE ~IsRpc(x)
            BY <5>2, <6>2
          <6> QED
            BY <6>1, <6>2
        <5> QED
          BY <4>2, <5>3 DEF Decides
      <4> QED
        BY <4>1, <4>2
    <3>5. s \in Deciding(Now, x)
      BY <3>2, <3>4 DEF Deciding
    <3>6. Deciding(Now, x) \subseteq Deciding(Whole, x)
      BY DecidedBefore DEF Deciding
    <3> QED
      BY <1>1, <2>2, <3>1, <3>5, <3>6, OneMeaning
  <2> QED
    BY <2>1, <2>2
<1>4. Resolvable(Now, x)
  BY <1>3, TargetKept DEF Resolvable
<1> QED
  BY <1>3, <1>4

LEMMA StillApart ==
    ASSUME Standing, ~Colliding(Whole)
    PROVE ~Colliding(Now)
  BY DEF Standing, Colliding, Now, Whole

-----------------------------------------------------------------------------
(* The collection of symbols                                               *)

LEMMA SpineIs ==
    Standing => /\ pkgs \in Seq(Seq(Names)) /\ DOMAIN pkgs = 1..Len(pkgs) /\ Len(pkgs) \in Nat
                /\ file \in Nat /\ \A d \in kept : decls[d].file \in 1..Len(pkgs)
  BY DEF Standing, Input

Fresh == stage = "collect" /\ file = 0 /\ tree = Seeded /\ ns = <<>>

LEMMA FreshCollected ==
    Standing /\ Fresh => Collected
<1> SUFFICES ASSUME Standing, Fresh PROVE Collected
  OBVIOUS
<1>1. DOMAIN ns = {}
  BY DEF Fresh
<1>2. {g \in present : g <= file} = {}
  BY SpineIs DEF Standing, Fresh
<1>3. DOMAIN tree = Nodes
  BY <1>1, <1>2 DEF Fresh, Seeded, Nodes
<1>4. \A p \in DOMAIN tree : tree[p] = IF p \in Builtins THEN BuiltinKind(p) ELSE "package"
  BY DEF Fresh, Seeded
<1>5. \A b \in Builtins : b \in DOMAIN tree
  <2> SUFFICES ASSUME NEW b \in Builtins PROVE b \in DOMAIN tree
    OBVIOUS
  <2>1. b \in Prefixes(b)
    BY InputsAssumption, PrefixSelf
  <2> QED
    BY <2>1 DEF Fresh, Seeded
<1>6. \A d \in kept : ~(decls[d].file < file)
  BY SpineIs DEF Fresh
<1> QED
  BY <1>1, <1>3, <1>4, <1>5, <1>6 DEF Collected, Fresh

LEMMA OpenFileCollected ==
    ASSUME Standing, Collected, OpenFile
    PROVE Collected'
<1>1. /\ ns' = ns /\ file' = file + 1 /\ stage' = "collect" /\ fq' = fq
      /\ pkgs' = pkgs /\ decls' = decls /\ kept' = kept /\ present' = present
  BY FqStays DEF OpenFile, input
<1>2. \A d \in kept : decls[d].file < file + 1 => d \in DOMAIN ns
  <2> SUFFICES ASSUME NEW d \in kept, decls[d].file < file + 1, d \notin DOMAIN ns PROVE FALSE
    OBVIOUS
  <2>1. decls[d].file = file \/ decls[d].file < file
    BY SpineIs
  <2> QED
    BY <2>1 DEF Collected, OpenFile, Waiting
<1>3. \A d \in DOMAIN ns : decls[d].file <= file + 1
  BY SpineIs DEF Collected
<1> DEFINE S == IF file + 1 \in present THEN Prefixes(pkgs[file + 1]) ELSE {}
<1>4. /\ DOMAIN tree' = DOMAIN tree \cup S
      /\ \A p \in DOMAIN tree : tree'[p] = tree[p]
      /\ \A p \in DOMAIN tree' : p \notin DOMAIN tree => tree'[p] = "package"
  BY DEF OpenFile, Intern
<1>5. DOMAIN tree' = Nodes'
  <2> DEFINE A == {<<>>} \cup (UNION {Prefixes(b) : b \in Builtins})
             Seen(n) == {g \in present : g <= n}
             C == {fq[d] : d \in DOMAIN ns}
  <2>1. Nodes = A \cup (UNION {Prefixes(pkgs[f]) : f \in Seen(file)}) \cup C
    BY DEF Nodes
  <2>2. Nodes' = A \cup (UNION {Prefixes(pkgs[f]) : f \in Seen(file + 1)}) \cup C
    BY <1>1 DEF Nodes
  <2>3. Seen(file + 1) = Seen(file) \cup (IF file + 1 \in present THEN {file + 1} ELSE {})
    <3>1. \A g \in present : g \in Nat
      BY SpineIs DEF Standing
    <3> QED
      BY <3>1, SpineIs
  <2>4. DOMAIN tree = Nodes
    BY DEF Collected
  <2> HIDE DEF A, Seen, C
  <2>5. UNION {Prefixes(pkgs[f]) : f \in Seen(file + 1)}
            = (UNION {Prefixes(pkgs[f]) : f \in Seen(file)}) \cup S
    BY <2>3
  <2> QED
    BY <1>4, <2>1, <2>2, <2>4, <2>5
<1>6. \A d \in DOMAIN ns : fq[d] \in DOMAIN tree
  BY DEF Collected, Nodes
<1>7. \A b \in Builtins : b \in DOMAIN tree
  BY InputsAssumption, PrefixSelf DEF Collected, Nodes
<1>8. \A d \in DOMAIN ns : tree'[fq[d]] = decls[d].kind
  BY <1>4, <1>6 DEF Collected
<1>9. \A b \in Builtins : tree'[b] = BuiltinKind(b)
  BY <1>4, <1>7 DEF Collected
<1>10. \A p \in DOMAIN tree' : p \in Builtins \/ tree'[p] = "package" \/ \E d \in DOMAIN ns : p = fq[d]
  <2> HIDE DEF S
  <2> QED
    BY <1>4 DEF Collected
<1>11. /\ DOMAIN ns \subseteq kept
       /\ \A d \in DOMAIN ns : ns[d] = fq[d] /\ fq[d] \notin Builtins
       /\ \A d, e \in DOMAIN ns : fq[d] = fq[e] => d = e
  BY DEF Collected
<1> QED
  BY <1>1, <1>2, <1>3, <1>5, <1>8, <1>9, <1>10, <1>11 DEF Collected

\* The next declaration stands where it belongs.
LEMMA NextDeclIs ==
    ASSUME Standing, Collected, Waiting # {}
    PROVE /\ NextDecl \in kept /\ NextDecl \in DOMAIN decls /\ NextDecl \notin DOMAIN ns
          /\ decls[NextDecl].file = file
          /\ Append(Scope(NextDecl), decls[NextDecl].name) = fq[NextDecl]
<1>1. Waiting \in SUBSET Nat /\ Waiting \subseteq kept /\ kept \subseteq DOMAIN decls
  BY DeclTypes DEF Waiting, Standing
<1>2. \E d \in Waiting : \A e \in Waiting : d <= e
  BY <1>1, NatMin
<1> DEFINE n == NextDecl
<1>3. n \in Waiting /\ \A e \in Waiting : n <= e
  BY <1>2 DEF NextDecl
<1> HIDE DEF n
<1>4. n \in kept /\ n \in DOMAIN decls /\ n \notin DOMAIN ns /\ decls[n].file = file
  BY <1>1, <1>3 DEF Waiting
<1>5. Scope(n) = Around(n)
  <2>1. CASE decls[n].parent = 0
    BY <2>1 DEF Scope, Around
  <2>2. CASE decls[n].parent # 0
    <3>1. decls[n].parent \in kept /\ decls[decls[n].parent].file = file
      BY <1>4, <2>2 DEF Standing, Input
    <3>2. decls[n].parent < n /\ decls[n].parent \in Nat /\ n \in Nat
      BY <1>4, <2>2, DeclTypes DEF Standing
    <3>3. decls[n].parent \notin Waiting
      BY <1>3, <3>2
    <3>4. decls[n].parent \in DOMAIN ns
      BY <3>1, <3>3 DEF Waiting
    <3>5. ns[decls[n].parent] = fq[decls[n].parent]
      BY <3>4 DEF Collected
    <3> QED
      BY <2>2, <3>5 DEF Scope, Around
  <2> QED
    BY <2>1, <2>2
<1>6. fq[n] = Append(Around(n), decls[n].name)
  BY <1>4, FqIs DEF Standing
<1>7. Append(Scope(n), decls[n].name) = fq[n]
  BY <1>5, <1>6
<1> QED
  BY <1>4, <1>7 DEF n

\* A path that is taken is taken by something else.
LEMMA DuplicateCollides ==
    ASSUME Standing, Collected, Waiting # {}, Duplicate(fq[NextDecl])
    PROVE Colliding(Now)
<1> DEFINE n == NextDecl
<1>1. n \in kept /\ n \notin DOMAIN ns
  BY NextDeclIs
<1>2. Duplicate(fq[n])
  OBVIOUS
<1> HIDE DEF n
<1>3. fq[n] \in Builtins \/ \E d \in DOMAIN ns : fq[n] = fq[d]
  BY <1>2 DEF Duplicate, Collected
<1>4. DOMAIN ns \subseteq kept
  BY DEF Collected
<1> QED
  BY <1>1, <1>3, <1>4 DEF Colliding, Now

LEMMA AddSymbolCollected ==
    ASSUME Standing, Collected, AddSymbol, ~Duplicate(fq[NextDecl])
    PROVE Collected'
<1> DEFINE n == NextDecl
           p == fq[n]
<1>1. /\ n \in kept /\ n \in DOMAIN decls /\ n \notin DOMAIN ns /\ decls[n].file = file
      /\ Append(Scope(n), decls[n].name) = p
  BY NextDeclIs DEF AddSymbol
<1>2. /\ tree' = [Intern(tree, {p}) EXCEPT ![p] = decls[n].kind]
      /\ ns' = [d \in DOMAIN ns \cup {n} |-> IF d = n THEN p ELSE ns[d]]
      /\ stage' = stage /\ stage = "collect" /\ ~Duplicate(p)
  BY <1>1 DEF AddSymbol
<1>3. /\ file' = file /\ fq' = fq /\ pkgs' = pkgs /\ decls' = decls /\ kept' = kept
      /\ present' = present
  BY FqStays DEF AddSymbol, input
<1> HIDE DEF n, p
<1>4. /\ DOMAIN tree' = DOMAIN tree \cup {p}
      /\ tree'[p] = decls[n].kind
      /\ \A q \in DOMAIN tree : q # p => tree'[q] = tree[q]
  BY <1>2 DEF Intern
<1>5. DOMAIN ns' = DOMAIN ns \cup {n} /\ ns'[n] = p /\ \A d \in DOMAIN ns : ns'[d] = ns[d]
  BY <1>1, <1>2
<1>6. p = fq[n]
  BY DEF p
<1>7. /\ \A d \in DOMAIN ns : fq[d] \in DOMAIN tree
      /\ \A b \in Builtins : b \in DOMAIN tree
  BY InputsAssumption, PrefixSelf DEF Collected, Nodes
<1>8. p \notin Builtins
  <2> SUFFICES ASSUME p \in Builtins PROVE FALSE
    OBVIOUS
  <2>1. p \in DOMAIN tree /\ tree[p] = BuiltinKind(p)
    BY <1>7 DEF Collected
  <2>2. BuiltinKind(p) # "package"
    BY KindsOfDefs
  <2> QED
    BY <1>2, <2>1, <2>2 DEF Duplicate
<1>9. \A d \in DOMAIN ns : fq[d] # p
  <2> SUFFICES ASSUME NEW d \in DOMAIN ns, fq[d] = p PROVE FALSE
    OBVIOUS
  <2>1. p \in DOMAIN tree /\ tree[p] = decls[d].kind
    BY <1>7 DEF Collected
  <2>2. d \in DOMAIN decls
    BY DEF Collected, Standing
  <2>3. decls[d].kind # "package"
    BY <2>2, DeclTypes, KindsOfDefs DEF Standing
  <2> QED
    BY <1>2, <2>1, <2>3 DEF Duplicate
<1>10. DOMAIN ns' \subseteq kept
  BY <1>1, <1>5 DEF Collected
<1>11. \A d \in DOMAIN ns' : ns'[d] = fq[d] /\ decls[d].file <= file
  BY <1>1, <1>5, <1>6, SpineIs DEF Collected
<1>12. \A d \in kept : decls[d].file < file => d \in DOMAIN ns'
  BY <1>5 DEF Collected
<1>13. \A d \in DOMAIN ns' : fq[d] \notin Builtins
  BY <1>5, <1>6, <1>8 DEF Collected
<1>14. \A d, e \in DOMAIN ns' : fq[d] = fq[e] => d = e
  BY <1>5, <1>6, <1>9 DEF Collected
<1>15. DOMAIN tree' = Nodes'
  <2> DEFINE A == {<<>>} \cup (UNION {Prefixes(b) : b \in Builtins})
                  \cup (UNION {Prefixes(pkgs[f]) : f \in {g \in present : g <= file}})
  <2>1. Nodes = A \cup {fq[d] : d \in DOMAIN ns}
    BY DEF Nodes
  <2>2. Nodes' = A \cup {fq[d] : d \in DOMAIN ns'}
    BY <1>3 DEF Nodes
  <2>3. DOMAIN tree = Nodes
    BY DEF Collected
  <2> HIDE DEF A
  <2> QED
    BY <1>4, <1>5, <1>6, <2>1, <2>2, <2>3
<1>16. \A d \in DOMAIN ns' : tree'[fq[d]] = decls[d].kind
  BY <1>4, <1>5, <1>6, <1>7, <1>9 DEF Collected
<1>17. \A b \in Builtins : tree'[b] = BuiltinKind(b)
  BY <1>4, <1>7, <1>8 DEF Collected
<1>18. \A q \in DOMAIN tree' : q \in Builtins \/ tree'[q] = "package" \/ \E d \in DOMAIN ns' : q = fq[d]
  BY <1>4, <1>5, <1>6 DEF Collected
<1>19. stage' = "collect"
  BY <1>2
<1> QED
  BY <1>3, <1>10, <1>11, <1>12, <1>13, <1>14, <1>15, <1>16, <1>17, <1>18, <1>19 DEF Collected

\* What is collected stays while its round lasts.
LEMMA CollectedStays ==
    ASSUME Collected, UNCHANGED <<input, file, tree, ns>>,
           stage' \in {"resolve", "done"} => stage \in {"resolve", "done"}
    PROVE Collected'
<1>1. /\ fq' = fq /\ pkgs' = pkgs /\ decls' = decls /\ kept' = kept /\ present' = present
      /\ file' = file /\ tree' = tree /\ ns' = ns
  BY FqStays DEF input
<1>2. Nodes' = Nodes
  BY <1>1 DEF Nodes
<1> QED
  BY <1>1, <1>2 DEF Collected

LEMMA EndCollectCollected ==
    ASSUME Standing, Collected, EndCollect
    PROVE Collected'
<1>1. /\ fq' = fq /\ pkgs' = pkgs /\ decls' = decls /\ kept' = kept /\ present' = present
      /\ file' = file /\ tree' = tree /\ ns' = ns
  BY FqStays DEF EndCollect, input
<1>2. Nodes' = Nodes
  BY <1>1 DEF Nodes
<1>3. kept \subseteq DOMAIN ns
  <2> SUFFICES ASSUME NEW d \in kept, d \notin DOMAIN ns PROVE FALSE
    OBVIOUS
  <2>1. decls[d].file = file \/ decls[d].file < file
    BY SpineIs DEF EndCollect
  <2> QED
    BY <2>1 DEF Collected, EndCollect, Waiting
<1>4. DOMAIN ns = kept /\ file = Len(pkgs)
  BY <1>3 DEF Collected, EndCollect
<1> QED
  BY <1>1, <1>2, <1>4 DEF Collected

LEMMA CollectedStep ==
    Standing /\ Standing' /\ Collected /\ [Next]_vars => Collected'
<1> SUFFICES ASSUME Standing, Standing', Collected, [Next]_vars PROVE Collected'
  OBVIOUS
<1>1. CASE OpenFile
  BY <1>1, OpenFileCollected
<1>2. CASE AddSymbol
  <2>1. CASE ~Duplicate(fq[NextDecl])
    BY <1>2, <2>1, AddSymbolCollected
  <2>2. CASE Duplicate(fq[NextDecl])
    <3>1. Append(Scope(NextDecl), decls[NextDecl].name) = fq[NextDecl]
      BY <1>2, NextDeclIs DEF AddSymbol
    <3>2. stage' = "error" /\ UNCHANGED <<input, file, tree, ns>>
      BY <1>2, <2>2, <3>1 DEF AddSymbol
    <3> QED
      BY <3>2, CollectedStays
  <2> QED
    BY <2>1, <2>2
<1>3. CASE EndCollect
  BY <1>3, EndCollectCollected
<1>4. CASE Absolute \/ Anchor \/ Take \/ Outward \/ EndResolve
  <2>1. stage = "resolve" /\ UNCHANGED <<input, file, tree, ns>>
    BY <1>4 DEF Absolute, Anchor, Take, Lead, Outward, EndResolve, Resolving
  <2> QED
    BY <2>1, CollectedStays
<1>5. CASE Prune
  <2>1. Fresh'
    BY <1>5 DEF Prune, Analyze, Fresh, Seeded
  <2>2. (Standing /\ Fresh => Collected)'
    BY FreshCollected, PTL
  <2> QED
    BY <2>1, <2>2
<1>6. CASE UNCHANGED vars
  BY <1>6, CollectedStays DEF vars
<1> QED
  BY <1>1, <1>2, <1>3, <1>4, <1>5, <1>6 DEF Next

-----------------------------------------------------------------------------
(* The resolution of references                                            *)

\* The finished tree is what there is.
LEMMA TreeIs ==
    ASSUME Standing, Collected, stage \in {"resolve", "done"}, NEW p, p # <<>>
    PROVE /\ \A k \in SUBSET Kinds : Has(Now, p, k) <=> p \in DOMAIN tree /\ tree[p] \in k
          /\ IsPackage(Now, p) <=> p \in DOMAIN tree /\ tree[p] = "package"
          /\ p \in DOMAIN tree => tree[p] \in Kinds \cup {"package"}
<1>1. DOMAIN ns = kept /\ file = Len(pkgs) /\ DOMAIN tree = Nodes
  BY DEF Collected
<1>2. \A d \in kept : fq[d] \in DOMAIN tree /\ tree[fq[d]] = decls[d].kind
  BY <1>1 DEF Collected, Nodes
<1>3. \A b \in Builtins : b \in DOMAIN tree /\ tree[b] = BuiltinKind(b)
  BY <1>1, InputsAssumption, PrefixSelf DEF Collected, Nodes
<1>4. \A k \in SUBSET Kinds : Has(Now, p, k) <=> p \in DOMAIN tree /\ tree[p] \in k
  <2> SUFFICES ASSUME NEW k \in SUBSET Kinds PROVE Has(Now, p, k) <=> p \in DOMAIN tree /\ tree[p] \in k
    OBVIOUS
  <2>1. Has(Now, p, k) <=> (\E d \in kept : p = fq[d] /\ decls[d].kind \in k)
                           \/ (p \in Builtins /\ BuiltinKind(p) \in k)
    BY HasIs DEF Now
  <2>2. p \in DOMAIN tree => p \in Builtins \/ tree[p] = "package" \/ \E d \in kept : p = fq[d]
    BY <1>1 DEF Collected
  <2>3. "package" \notin k
    BY KindsOfDefs
  <2> QED
    BY <1>2, <1>3, <2>1, <2>2, <2>3
<1>5. p \in Scopes(Now) \/ (\E d \in kept : p = fq[d]) <=> p \in DOMAIN tree
  <2>1. \A g \in present : g \in Nat /\ g <= file
    BY <1>1, SpineIs DEF Standing
  <2>2. {g \in present : g <= file} = present
    BY <2>1
  <2>3. Nodes = {<<>>} \cup Scopes(Now) \cup {fq[d] : d \in kept}
    BY <1>1, <2>2 DEF Nodes, Scopes, Now
  <2> QED
    BY <1>1, <2>3
<1>6. Has(Now, p, Kinds) <=> p \in DOMAIN tree /\ tree[p] \in Kinds
  BY <1>4
<1>7. p \in DOMAIN tree => tree[p] \in Kinds \cup {"package"}
  <2>1. \A d \in kept : decls[d].kind \in Kinds
    BY DeclTypes DEF Standing
  <2> QED
    BY <1>1, <1>2, <1>3, <2>1, KindsOfDefs DEF Collected
<1>8. (\E d \in kept : p = fq[d]) => Has(Now, p, Kinds)
  <2>1. \A d \in kept : decls[d].kind \in Kinds
    BY DeclTypes DEF Standing
  <2> QED
    BY <2>1, HasIs DEF Now
<1> QED
  BY <1>4, <1>5, <1>6, <1>7, <1>8, KindsOfDefs DEF IsPackage

LEMMA DoneApart ==
    ASSUME Collected, stage \in {"resolve", "done"}
    PROVE ~Colliding(Now)
  BY DEF Collected, Colliding, Now

LEMMA LeastIn ==
    ASSUME Input, NEW S \in SUBSET WholeRefs, S # {}
    PROVE Least(S) \in S
<1>1. \A x \in S : x = <<x[1], x[2]>> /\ x[1] \in Nat /\ x[2] \in Nat
  BY RefType
<1> DEFINE A == {x[1] : x \in S}
<1>2. A \in SUBSET Nat /\ A # {}
  BY <1>1
<1>3. PICK a \in A : \A n \in A : a <= n
  <2> HIDE DEF A
  <2> QED
    BY <1>2, NatMin
<1> DEFINE B == {x[2] : x \in {y \in S : y[1] = a}}
<1>4. B \in SUBSET Nat /\ B # {}
  BY <1>1
<1>5. PICK b \in B : \A n \in B : b <= n
  <2> HIDE DEF A, B
  <2> QED
    BY <1>4, NatMin
<1>6. PICK x \in S : x[1] = a /\ x[2] = b
  OBVIOUS
<1>7. \A y \in S : x[1] < y[1] \/ (x[1] = y[1] /\ x[2] <= y[2])
  <2> SUFFICES ASSUME NEW y \in S PROVE x[1] < y[1] \/ (x[1] = y[1] /\ x[2] <= y[2])
    OBVIOUS
  <2>1. a <= y[1] /\ a \in Nat /\ y[1] \in Nat
    BY <1>1, <1>2, <1>3
  <2>2. y[1] = a => b <= y[2]
    BY <1>5
  <2> QED
    BY <1>6, <2>1, <2>2
<1> QED
  BY <1>7 DEF Least

\* The search for a reference starts around its owner.
LEMMA StartReaches ==
    ASSUME Standing, DOMAIN ns = kept, \A d \in kept : ns[d] = fq[d], NEW x \in Refs
    PROVE Reaches(StartNs(x), x)
<1>1. x \in WholeRefs /\ x[1] \in kept /\ Input
  BY RefsAre DEF Standing
<1>2. /\ decls[x[1]].parent # 0 /\ Front(fq[x[1]]) = fq[decls[x[1]].parent]
      /\ fq[decls[x[1]].parent] \in Seq(Names)
  BY <1>1, RefType
<1>3. decls[x[1]].parent \in kept
  BY <1>1, <1>2 DEF Standing
<1>4. StartNs(x) = Front(fq[x[1]]) /\ Front(fq[x[1]]) \in Seq(Names)
  BY <1>2, <1>3 DEF StartNs
<1>5. StartNs(x) \in Prefixes(Front(fq[x[1]]))
  BY <1>4, PrefixSelf
<1>6. \A s \in Deciding(Now, x) : Len(s) <= Len(StartNs(x))
  <2> SUFFICES ASSUME NEW s \in Deciding(Now, x) PROVE Len(s) <= Len(Front(fq[x[1]]))
    BY <1>4
  <2>1. s \in Prefixes(Front(fq[x[1]]))
    BY DEF Deciding
  <2>2. Len(s) \in 0..Len(Front(fq[x[1]])) /\ Len(Front(fq[x[1]])) \in Nat
    BY <1>4, <2>1, PrefixIs
  <2> QED
    BY <2>2
<1> QED
  BY <1>5, <1>6 DEF Reaches

\* A step of the search, in the terms of the rule.
LEMMA DecidesHere ==
    ASSUME Standing, Collected, stage = "resolve", NEW x \in Refs, x = Ref, ~PathOf(x).dot,
           base \in Prefixes(Front(fq[x[1]]))
    PROVE /\ Anchors \/ Takes <=> Decides(Now, x, base)
          /\ Takes => First = base \o PathOf(x).segs
<1>1. Path = PathOf(x) /\ (MessageOnly <=> IsRpc(x)) /\ x \in WholeRefs /\ Input
  BY RefsAre DEF Path, PathOf, MessageOnly, IsRpc, Standing
<1>2. /\ First = Append(base, PathOf(x).segs[1]) /\ First # <<>>
      /\ Len(PathOf(x).segs) \in Nat \ {0}
      /\ Len(PathOf(x).segs) = 1 => base \o PathOf(x).segs = First
  BY <1>1, FromScope DEF First
<1>3. /\ \A k \in SUBSET Kinds : Has(Now, First, k) <=> First \in DOMAIN tree /\ tree[First] \in k
      /\ IsPackage(Now, First) <=> First \in DOMAIN tree /\ tree[First] = "package"
      /\ First \in DOMAIN tree => tree[First] \in Kinds \cup {"package"}
  BY <1>2, TreeIs
<1>4. Compound <=> Len(PathOf(x).segs) > 1
  BY <1>1 DEF Compound
<1>5. Found <=> First \in DOMAIN tree
  BY <1>1 DEF Found
<1> DEFINE p == First
<1> HIDE DEF p
<1>6. Anchors <=> Len(PathOf(x).segs) > 1 /\ (Has(Now, First, Defs) \/ IsPackage(Now, First))
  BY <1>3, <1>4, <1>5, KindsOfDefs DEF Anchors
<1>7. /\ Has(Now, First, Kinds) <=> First \in DOMAIN tree /\ tree[First] \in Kinds
      /\ Has(Now, First, {"message", "enum"}) <=>
             First \in DOMAIN tree /\ tree[First] \in {"message", "enum"}
  BY <1>3, KindsOfDefs
<1>8. Takes <=> /\ ~(Len(PathOf(x).segs) > 1)
                /\ Has(Now, First, IF IsRpc(x) THEN Kinds ELSE {"message", "enum"})
                   \/ (IsRpc(x) /\ IsPackage(Now, First))
  <2>1. CASE IsRpc(x)
    BY <1>1, <1>3, <1>4, <1>5, <1>7, <2>1, KindsOfDefs DEF Takes
  <2>2. CASE ~IsRpc(x)
    BY <1>1, <1>4, <1>5, <1>7, <2>2 DEF Takes
  <2> QED
    BY <2>1, <2>2
<1>9. Decides(Now, x, base) <=>
          IF Len(PathOf(x).segs) > 1 THEN Has(Now, First, Defs) \/ IsPackage(Now, First)
          ELSE Has(Now, First, IF IsRpc(x) THEN Kinds ELSE {"message", "enum"})
               \/ (IsRpc(x) /\ IsPackage(Now, First))
  BY <1>2 DEF Decides
<1>10. Takes => First = base \o PathOf(x).segs
  <2>1. \A n \in Nat \ {0} : ~(n > 1) => n = 1
    OBVIOUS
  <2> QED
    BY <1>2, <1>8, <2>1
<1> QED
  BY <1>6, <1>8, <1>9, <1>10

\* The right symbol at what a reference means is what makes it resolvable.
LEMMA LeadIs ==
    ASSUME Standing, Collected, stage = "resolve", NEW x \in Refs, x = Ref,
           NEW p, p # <<>>, Means(Now, x) = {p}
    PROVE p \in DOMAIN tree /\ IsType(tree[p]) <=> Resolvable(Now, x)
<1>1. MessageOnly <=> IsRpc(x)
  BY DEF MessageOnly, IsRpc
<1>2. Resolvable(Now, x) <=> Has(Now, p, IF IsRpc(x) THEN {"message"} ELSE {"message", "enum"})
  BY DEF Resolvable
<1>3. \A k \in SUBSET Kinds : Has(Now, p, k) <=> p \in DOMAIN tree /\ tree[p] \in k
  BY TreeIs
<1>4. /\ Has(Now, p, {"message"}) <=> p \in DOMAIN tree /\ tree[p] \in {"message"}
      /\ Has(Now, p, {"message", "enum"}) <=> p \in DOMAIN tree /\ tree[p] \in {"message", "enum"}
  BY <1>3, KindsOfDefs
<1> QED
  BY <1>1, <1>2, <1>4 DEF IsType

LEMMA LeadResolves ==
    ASSUME Standing, Collected, Resolved, Resolving, NEW x \in Refs, x = Ref,
           NEW p, p # <<>>, Means(Now, x) = {p}, Lead(p)
    PROVE Resolved' /\ Failing'
<1>1. stage = "resolve" /\ todo # {} /\ todo \subseteq Refs /\ DOMAIN target = Refs \ todo
  BY DEF Resolving, Resolved
<1>2. /\ pkgs' = pkgs /\ decls' = decls /\ kept' = kept /\ present' = present
      /\ input' = input /\ ns' = ns
  BY DEF Lead, input
<1>3. /\ Refs' = Refs
      /\ Colliding(Now)' <=> Colliding(Now)
      /\ \A y : (Resolvable(Now, y)' <=> Resolvable(Now, y)) /\ Means(Now, y)' = Means(Now, y)
                /\ Deciding(Now, y)' = Deciding(Now, y)
  BY <1>2, WorldStays
<1>4. CASE ~(p \in DOMAIN tree /\ IsType(tree[p]))
  <2>1. stage' = "error"
    BY <1>4 DEF Lead
  <2>2. ~Resolvable(Now, x)
    BY <1>1, <1>4, LeadIs
  <2> QED
    BY <1>3, <2>1, <2>2 DEF Resolved, Failing
<1>5. CASE p \in DOMAIN tree /\ IsType(tree[p])
  <2>1. /\ target' = [y \in DOMAIN target \cup {x} |-> IF y = x THEN p ELSE target[y]]
        /\ todo' = todo \ {x}
        /\ base' = IF todo' = {} THEN <<>> ELSE StartNs(Least(todo'))
        /\ stage' = "resolve"
    BY <1>1, <1>5 DEF Lead
  <2>2. Resolvable(Now, x)
    BY <1>1, <1>5, LeadIs
  <2>3. x \in todo
    <3>1. todo \in SUBSET WholeRefs /\ Input
      BY <1>1, RefsAre DEF Standing
    <3>2. Least(todo) \in todo
      BY <1>1, <3>1, LeastIn
    <3> QED
      BY <3>2 DEF Ref
  <2>4. todo' \subseteq Refs' /\ DOMAIN target' = Refs' \ todo'
    BY <1>1, <1>3, <2>1, <2>3
  <2>5. \A y \in Refs' \ todo' : Resolvable(Now, y)' /\ Means(Now, y)' = {target'[y]}
    <3> SUFFICES ASSUME NEW y \in Refs \ todo'
                 PROVE Resolvable(Now, y) /\ Means(Now, y) = {target'[y]}
      BY <1>3
    <3>1. CASE y = x
      BY <2>1, <2>2, <3>1
    <3>2. CASE y # x
      <4>1. y \in Refs \ todo
        BY <2>1, <3>2
      <4>2. target'[y] = target[y]
        BY <1>1, <2>1, <3>2, <4>1
      <4> QED
        BY <1>1, <4>1, <4>2 DEF Resolved
    <3> QED
      BY <3>1, <3>2
  <2>6. \A y \in todo' : y = Ref' => Reaches(base, y)'
    <3> SUFFICES ASSUME NEW y \in todo', y = Least(todo') PROVE Reaches(base, y)'
      BY DEF Ref
    <3>1. base' = StartNs(y) /\ y \in Refs
      BY <1>1, <2>1
    <3>2. Reaches(StartNs(y), y)
      BY <1>1, <3>1, StartReaches DEF Collected
    <3>3. fq' = fq
      BY <1>2, FqStays
    <3> QED
      BY <1>3, <3>1, <3>2, <3>3 DEF Reaches
  <2> QED
    BY <2>1, <2>4, <2>5, <2>6 DEF Resolved, Failing
<1> QED
  BY <1>4, <1>5

LEMMA OutwardResolves ==
    ASSUME Standing, Collected, Resolved, Outward, NEW x \in Refs, x = Ref, x \in todo
    PROVE Resolved' /\ Failing'
<1>1. /\ stage = "resolve" /\ ~PathOf(x).dot /\ ~Anchors /\ ~Takes
      /\ todo \subseteq Refs /\ DOMAIN target = Refs \ todo
      /\ Reaches(base, x)
  BY DEF Outward, Resolving, Resolved, Path, PathOf
<1>2. /\ pkgs' = pkgs /\ decls' = decls /\ kept' = kept /\ present' = present
      /\ todo' = todo /\ target' = target
  BY DEF Outward, input
<1>3. /\ Refs' = Refs
      /\ Colliding(Now)' <=> Colliding(Now)
      /\ \A y : (Resolvable(Now, y)' <=> Resolvable(Now, y)) /\ Means(Now, y)' = Means(Now, y)
                /\ Deciding(Now, y)' = Deciding(Now, y)
      /\ fq' = fq
  BY <1>2, WorldStays, FqStays
<1>4. base \in Prefixes(Front(fq[x[1]])) /\ \A s \in Deciding(Now, x) : Len(s) <= Len(base)
  BY <1>1 DEF Reaches
<1>5. base \notin Deciding(Now, x)
  BY <1>1, <1>4, DecidesHere DEF Deciding
<1>6. Front(fq[x[1]]) \in Seq(Names)
  BY RefsAre, RefType DEF Standing
<1>7. base \in Seq(Names) /\ Len(base) \in Nat
  BY <1>4, <1>6, PrefixIs
<1>8. \A s \in Deciding(Now, x) : Len(s) \in Nat /\ Len(s) < Len(base)
  <2> SUFFICES ASSUME NEW s \in Deciding(Now, x) PROVE Len(s) \in Nat /\ Len(s) < Len(base)
    OBVIOUS
  <2>1. s \in Prefixes(Front(fq[x[1]]))
    BY DEF Deciding
  <2>2. Len(s) \in Nat
    BY <1>6, <2>1, PrefixIs
  <2>3. Len(s) # Len(base)
    BY <1>4, <1>5, <1>6, <2>1, OnePrefix
  <2> QED
    BY <1>4, <1>7, <2>2, <2>3
<1>9. CASE base = <<>>
  <2>1. stage' = "error"
    BY <1>9 DEF Outward
  <2>2. Len(base) = 0
    BY <1>9
  <2>3. Deciding(Now, x) = {}
    BY <1>8, <2>2
  <2>4. ~Resolvable(Now, x)
    BY <1>1, <2>3 DEF Resolvable, Means
  <2> QED
    BY <1>3, <2>1, <2>4 DEF Resolved, Failing
<1>10. CASE base # <<>>
  <2>1. base' = Front(base) /\ stage' = "resolve"
    BY <1>1, <1>10 DEF Outward
  <2>2. Front(base) \in Prefixes(Front(fq[x[1]])) /\ Len(Front(base)) = Len(base) - 1
    BY <1>4, <1>6, <1>10, FrontIsPrefix
  <2>3. \A s \in Deciding(Now, x) : Len(s) <= Len(Front(base))
    BY <1>7, <1>8, <2>2
  <2>4. Reaches(base, x)'
    BY <1>3, <2>1, <2>2, <2>3 DEF Reaches
  <2>5. \A y \in todo' : y = Ref' => Reaches(base, y)'
    BY <1>2, <2>4 DEF Ref
  <2>6. \A y \in Refs' \ todo' : Resolvable(Now, y)' /\ Means(Now, y)' = {target'[y]}
    BY <1>1, <1>2, <1>3 DEF Resolved
  <2> QED
    BY <1>1, <1>2, <1>3, <2>1, <2>5, <2>6 DEF Resolved, Failing
<1> QED
  BY <1>9, <1>10

\* The stand of the search when it begins, and at each of its steps.
LEMMA SearchStep ==
    ASSUME Standing, Collected, Collected', Resolved, Failing, [Next]_vars, ~Prune
    PROVE Resolved' /\ Failing'
<1>1. CASE OpenFile \/ UNCHANGED vars \/ EndResolve
  <2>1. /\ pkgs' = pkgs /\ decls' = decls /\ kept' = kept /\ present' = present
        /\ todo' = todo /\ target' = target /\ base' = base
        /\ stage' = stage \/ (stage = "resolve" /\ todo = {} /\ stage' = "done")
    BY <1>1 DEF OpenFile, EndResolve, vars, input
  <2>2. /\ Refs' = Refs
        /\ Colliding(Now)' <=> Colliding(Now)
        /\ \A y : (Resolvable(Now, y)' <=> Resolvable(Now, y)) /\ Means(Now, y)' = Means(Now, y)
                  /\ Deciding(Now, y)' = Deciding(Now, y)
        /\ fq' = fq
    BY <2>1, WorldStays, FqStays
  <2>3. \A y : Reaches(base, y)' <=> Reaches(base, y)
    BY <2>1, <2>2 DEF Reaches
  <2>4. Ref' = Ref
    BY <2>1 DEF Ref
  <2>5. Failing'
    BY <2>1, <2>2 DEF Failing
  <2>6. stage' = "collect" => target' = <<>>
    BY <2>1 DEF Resolved
  <2>7. stage' \in {"resolve", "done"} =>
          /\ todo' \subseteq Refs' /\ DOMAIN target' = Refs' \ todo'
          /\ \A x \in Refs' \ todo' : Resolvable(Now, x)' /\ Means(Now, x)' = {target'[x]}
    BY <2>1, <2>2 DEF Resolved
  <2>8. stage' = "resolve" => \A x \in todo' : x = Ref' => Reaches(base, x)'
    BY <2>1, <2>3, <2>4 DEF Resolved
  <2>9. stage' = "done" => todo' = {}
    BY <2>1 DEF Resolved
  <2> QED
    BY <2>5, <2>6, <2>7, <2>8, <2>9 DEF Resolved
<1>2. CASE AddSymbol
  <2>1. Append(Scope(NextDecl), decls[NextDecl].name) = fq[NextDecl]
    BY <1>2, NextDeclIs DEF AddSymbol
  <2>2. /\ pkgs' = pkgs /\ decls' = decls /\ kept' = kept /\ present' = present
        /\ target' = target /\ target = <<>>
    BY <1>2 DEF AddSymbol, input, Resolved
  <2>3. CASE Duplicate(fq[NextDecl])
    <3>1. Colliding(Now) /\ stage' = "error"
      BY <1>2, <2>1, <2>3, DuplicateCollides DEF AddSymbol
    <3> QED
      BY <2>2, <3>1, WorldStays DEF Resolved, Failing
  <2>4. CASE ~Duplicate(fq[NextDecl])
    <3>1. stage' = "collect"
      BY <1>2, <2>1, <2>4 DEF AddSymbol
    <3> QED
      BY <2>2, <3>1 DEF Resolved, Failing
  <2> QED
    BY <2>3, <2>4
<1>3. CASE EndCollect
  <2>1. /\ pkgs' = pkgs /\ decls' = decls /\ kept' = kept /\ present' = present /\ ns' = ns
        /\ target' = target /\ target = <<>> /\ stage' = "resolve" /\ todo' = Refs
        /\ base' = IF Refs = {} THEN <<>> ELSE StartNs(Least(Refs))
    BY <1>3 DEF EndCollect, input, Resolved
  <2>2. /\ Refs' = Refs /\ fq' = fq
        /\ \A y : Deciding(Now, y)' = Deciding(Now, y)
    BY <2>1, WorldStays, FqStays
  <2>3. DOMAIN ns = kept /\ \A d \in kept : ns[d] = fq[d]
    <3>1. DOMAIN ns' = kept'
      BY <2>1 DEF Collected
    <3> QED
      BY <2>1, <3>1 DEF Collected
  <2>4. \A y \in todo' : y = Ref' => Reaches(base, y)'
    <3> SUFFICES ASSUME NEW y \in Refs, y = Least(Refs) PROVE Reaches(base, y)'
      BY <2>1 DEF Ref
    <3>1. base' = StartNs(y)
      BY <2>1
    <3>2. Reaches(StartNs(y), y)
      BY <2>3, StartReaches
    <3> QED
      BY <2>2, <3>1, <3>2 DEF Reaches
  <2>5. DOMAIN target' = {}
    BY <2>1
  <2> QED
    BY <2>1, <2>2, <2>4, <2>5 DEF Resolved, Failing
<1>4. CASE Absolute \/ Anchor \/ Take \/ Outward
  <2>1. Resolving
    BY <1>4 DEF Absolute, Anchor, Take, Outward
  <2>2. PICK x \in todo : x = Ref
    <3>1. todo \in SUBSET WholeRefs /\ Input /\ todo # {}
      BY <2>1, RefsAre DEF Standing, Resolved, Resolving
    <3> QED
      BY <3>1, LeastIn DEF Ref
  <2>3. /\ x \in Refs /\ x \in WholeRefs /\ Reaches(base, x) /\ stage = "resolve"
        /\ Path = PathOf(x) /\ Input
    BY <2>1, <2>2, RefsAre DEF Resolved, Resolving, Path, PathOf, Standing
  <2>4. base \in Prefixes(Front(fq[x[1]])) /\ \A s \in Deciding(Now, x) : Len(s) <= Len(base)
    BY <2>3 DEF Reaches
  <2>5. PathOf(x).segs # <<>> /\ base \o PathOf(x).segs # <<>>
    <3>1. PathOf(x).segs \in Seq(Names) /\ PathOf(x).segs # <<>> /\ Front(fq[x[1]]) \in Seq(Names)
      BY <2>3, RefType
    <3>2. base \in Seq(Names)
      BY <2>4, <3>1, PrefixIs
    <3> QED
      BY <3>1, <3>2
  <2>6. CASE Absolute
    <3>1. Means(Now, x) = {PathOf(x).segs} /\ Lead(PathOf(x).segs)
      BY <2>3, <2>6 DEF Absolute, Means
    <3> QED
      BY <2>1, <2>2, <2>3, <2>5, <3>1, LeadResolves
  <2>7. CASE (Anchor \/ Take) /\ ~Absolute
    <3>1. ~PathOf(x).dot /\ (Anchors \/ Takes)
      BY <2>3, <2>7 DEF Anchor, Take, Anchors, Takes, Found
    <3>2. Decides(Now, x, base) /\ (Takes => First = base \o PathOf(x).segs)
      BY <2>2, <2>3, <2>4, <3>1, DecidesHere
    <3>3. base \in Deciding(Now, x)
      BY <2>4, <3>2 DEF Deciding
    <3>4. Means(Now, x) = {base \o PathOf(x).segs}
      BY <2>3, <2>4, <3>1, <3>3, OneMeaning
    <3>5. Lead(base \o PathOf(x).segs)
      BY <2>3, <2>7, <3>2 DEF Anchor, Take
    <3> QED
      BY <2>1, <2>2, <2>3, <2>5, <3>4, <3>5, LeadResolves
  <2>8. CASE Outward
    BY <2>2, <2>3, <2>8, OutwardResolves
  <2> QED
    BY <1>4, <2>6, <2>7, <2>8
<1> QED
  BY <1>1, <1>2, <1>3, <1>4 DEF Next

LEMMA WholeStays ==
    ASSUME pkgs' = pkgs, decls' = decls
    PROVE /\ WholeRefs' = WholeRefs
          /\ Colliding(Whole)' <=> Colliding(Whole)
          /\ \A x : (Resolvable(Whole, x)' <=> Resolvable(Whole, x))
                    /\ Means(Whole, x)' = Means(Whole, x)
<1>1. fq' = fq
  BY FqStays
<1>2. WholeRefs' = WholeRefs
  BY DEF WholeRefs
<1>3. Colliding(Whole)' <=> Colliding(Whole)
  BY <1>1 DEF Colliding, Whole
<1>4. \A x : Means(Whole, x)' = Means(Whole, x)
  BY <1>1 DEF Means, Deciding, Decides, PathOf, IsRpc, Has, IsPackage, Scopes, Defined, Whole
<1>5. \A x : Resolvable(Whole, x)' <=> Resolvable(Whole, x)
  <2>1. \A p, k : Has(Whole, p, k)' <=> Has(Whole, p, k)
    BY <1>1 DEF Has, Defined, Whole
  <2>2. \A x : IsRpc(x)' <=> IsRpc(x)
    BY DEF IsRpc
  <2> QED
    BY <1>4, <2>1, <2>2 DEF Resolvable
<1> QED
  BY <1>2, <1>3, <1>4, <1>5

LEMMA PruneFromSound ==
    ASSUME Standing, Collected, Resolved, Prune
    PROVE Sound'
<1>1. /\ stage = "done" /\ round = 1 /\ before' = target /\ kept' \subseteq kept
      /\ pkgs' = pkgs /\ decls' = decls /\ Selected(kept')
  BY DEF Prune, Analyze
<1>2. kept = DOMAIN decls /\ Whole = Now /\ WholeRefs = Refs
  BY <1>1 DEF Standing, Whole, Now, WholeRefs, Refs
<1>3. ~Colliding(Whole)'
  BY <1>1, <1>2, DoneApart, WholeStays
<1>4. \A x \in WholeRefs' : Resolvable(Whole, x)' /\ Means(Whole, x)' = {before'[x]}
  <2>1. \A x \in Refs : Resolvable(Now, x) /\ Means(Now, x) = {target[x]}
    BY <1>1 DEF Resolved
  <2> QED
    BY <1>1, <1>2, <2>1, WholeStays
<1>5. \A x \in Refs' : \A d \in DOMAIN decls' : fq'[d] = before'[x] => d \in kept'
  <2> SUFFICES ASSUME NEW x \in Refs', NEW d \in DOMAIN decls, fq[d] = target[x] PROVE d \in kept'
    BY <1>1, FqStays
  <2>1. x \in Refs /\ x[1] \in kept'
    BY <1>1 DEF Refs
  <2>2. ns[d] = fq[d]
    BY <1>1, <1>2 DEF Collected
  <2> QED
    BY <1>1, <2>1, <2>2 DEF Selected
<1> QED
  BY <1>3, <1>4, <1>5 DEF Sound

LEMMA InvariantInit ==
    Init => IInv
<1> SUFFICES ASSUME Init PROVE IInv
  OBVIOUS
<1>1. Standing
  BY StandingInit
<1>2. Collected
  BY <1>1, FreshCollected DEF Fresh, Init
<1> QED
  BY <1>1, <1>2 DEF Init, IInv, Resolved, Failing, PrunedFromSound

LEMMA InvariantStep ==
    IInv /\ [Next]_vars => IInv'
<1> SUFFICES ASSUME IInv, [Next]_vars PROVE IInv'
  OBVIOUS
<1>1. Standing'
  BY StandingStep DEF IInv
<1>2. Collected'
  BY <1>1, CollectedStep DEF IInv
<1>3. CASE Prune
  <2>1. stage' = "collect" /\ target' = <<>>
    BY <1>3 DEF Prune, Analyze
  <2>2. Sound'
    BY <1>3, PruneFromSound DEF IInv
  <2> QED
    BY <1>1, <1>2, <2>1, <2>2 DEF IInv, Resolved, Failing, PrunedFromSound
<1>4. CASE ~Prune
  <2>1. Resolved' /\ Failing'
    BY <1>2, <1>4, SearchStep DEF IInv
  <2>2. /\ round' = round /\ before' = before /\ kept' = kept /\ pkgs' = pkgs /\ decls' = decls
    BY <1>4 DEF Next, vars, input, OpenFile, AddSymbol, EndCollect, Absolute, Anchor, Take, Lead,
                Outward, EndResolve
  <2>3. Refs' = Refs /\ fq' = fq
    BY <2>2, FqStays DEF Refs
  <2>4. PrunedFromSound'
    BY <2>2, <2>3, WholeStays DEF IInv, PrunedFromSound, Sound
  <2> QED
    BY <1>1, <1>2, <2>1, <2>4 DEF IInv
<1> QED
  BY <1>3, <1>4

LEMMA InvariantHolds ==
    Spec => []IInv
<1>1. Init => IInv
  BY InvariantInit
<1>2. IInv /\ [Next]_vars => IInv'
  BY InvariantStep
<1> QED
  BY <1>1, <1>2, PTL DEF Spec

-----------------------------------------------------------------------------
(* What analysis finds (sema.rs, collect_symbols and resolve_path).        *)

\* For any input: each reference resolves to what the innermost deciding scope
\* makes of it, and an analysis that fails was right to.
THEOREM NearestIsFound ==
    Spec => []ResolvesToNearest
<1>1. IInv => ResolvesToNearest
  <2> SUFFICES ASSUME IInv PROVE ResolvesToNearest
    OBVIOUS
  <2>1. stage = "done" => ~Colliding(Now)
    BY DoneApart DEF IInv
  <2>2. stage = "done" => \A x \in Refs : Resolvable(Now, x) /\ Means(Now, x) = {target[x]}
    BY DEF IInv, Resolved
  <2>3. stage = "error" => Colliding(Now) \/ \E x \in Refs : ~Resolvable(Now, x)
    BY DEF IInv, Failing
  <2> QED
    BY <2>1, <2>2, <2>3 DEF ResolvesToNearest
<1> QED
  BY <1>1, InvariantHolds, PTL

\* For any input whose packages are not called like a field, a value or a method,
\* and any selection of it: the output analyzes, and means what the input meant.
THEOREM PruneKeepsMeaning ==
    Spec => []ApartMeansTheSame
<1>1. IInv => ApartMeansTheSame
  <2> SUFFICES ASSUME IInv, PackagesApart, round = 2
               PROVE stage # "error" /\ \A x \in DOMAIN target : target[x] = before[x]
    BY DEF ApartMeansTheSame, PrunedMeansTheSame
  <2>1. Standing /\ Sound
    BY DEF IInv, PrunedFromSound
  <2>2. \A x \in Refs : Resolvable(Now, x) /\ Means(Now, x) = {before[x]}
    BY <2>1, SameMeaning
  <2>3. stage # "error"
    BY <2>1, <2>2, StillApart DEF IInv, Failing, Sound
  <2>4. \A x \in DOMAIN target : target[x] = before[x]
    <3>1. CASE stage = "collect"
      BY <3>1 DEF IInv, Resolved
    <3>2. CASE stage \in {"resolve", "done"}
      <4>1. \A x \in DOMAIN target : x \in Refs /\ Means(Now, x) = {target[x]}
        BY <3>2 DEF IInv, Resolved
      <4> QED
        BY <2>2, <4>1
    <3> QED
      BY <2>1, <2>3, <3>1, <3>2 DEF Standing
  <2> QED
    BY <2>3, <2>4
<1> QED
  BY <1>1, InvariantHolds, PTL

=============================================================================
