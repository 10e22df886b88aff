------------------------------ MODULE AttachProofs ------------------------------
(***************************************************************************)
(* What is proved about Attach and, from "What is attached" on, about      *)
(* Printer: for every text, however its comments lie and its blocks nest,  *)
(* each comment is attached once, in the order of the source and inside    *)
(* the braces it stands in; and what is printed is a text of which the     *)
(* same holds.  Last, what EditsProofs needs: how the items of a text that *)
(* is parsed and the comments attached to them lie.                        *)
(***************************************************************************)
EXTENDS Printer, FiniteSetTheorems, WellFoundedInduction, TLAPS

-----------------------------------------------------------------------------
(* The inductive invariant, from the start of a text to its end.  A text   *)
(* given up at an error is not looked at.                                  *)

\* s lists the places of the lexemes of these sorts.
Lists(s, t, sorts) ==
    /\ s \in Seq(1..Len(t))
    /\ \A i, j \in 1..Len(s) : i < j => s[i] < s[j]
    /\ \A p \in 1..Len(t) : t[p].tok \in sorts <=> \E i \in 1..Len(s) : s[i] = p

TwoStreams == IsText(text) /\ Lists(toks, text, Tokens) /\ Lists(comments, text, {"comment"})

InItem == at \in {"item", "finish"}

TypeOK ==
    /\ at \in {"items", "item", "finish", "done", "error"}
    /\ ti \in 1..Len(toks) /\ ci \in 0..Len(comments) /\ last \in 0..Len(text)
    /\ open \in Seq(1..Len(text)) /\ depth \in Nat
    /\ meta \in [Heads -> [end : Nat, leading : SUBSET Nat, trailing : SUBSET Nat,
                           detached : SUBSET Nat]]
    /\ block \in [Blocks \cup {Root} ->
                    [intro : SUBSET Nat, items : Seq(Nat), dangling : SUBSET Nat]]

\* Comments only stand between two tokens.
Remarks(p, q) == \A r \in p+1..q-1 : text[r].tok = "comment"

\* The cursors: the current token follows the one consumed last, and the comments
\* handed out stand before it.
Cursors ==
    /\ IF at = "done" THEN last = Len(text) /\ ci = Len(comments)
       ELSE last < Peek /\ Remarks(last, Peek)
    /\ \A k \in 1..ci : comments[k] < Peek
    /\ at = "item" => last # 0 /\ text[last].tok \in {"head", "rb"}

\* What is open: items and blocks by turns, each in the one before.
Alternate ==
    /\ Len(open) = IF InItem THEN 2 * depth + 1 ELSE 2 * depth
    /\ \A j \in 1..depth : open[2 * j - 1] \in Heads /\ open[2 * j] \in Blocks
    /\ InItem => open[2 * depth + 1] \in Heads
    /\ \A i, j \in 1..Len(open) : i < j => open[i] < open[j]
    /\ \A i \in 1..Len(open) : open[i] <= last
    /\ at = "done" => depth = 0

\* Braces match: the depth is that of the text, and a block that is not open any
\* more was closed by its own brace.
Matched ==
    /\ at # "done" => Nesting(last + 1) = depth
    /\ \A j \in 1..depth :
         /\ Nesting(open[2 * j]) = j - 1
         /\ \A q \in open[2 * j] + 1 .. last : text[q].tok = "rb" => Nesting(q) # j
    /\ \A b \in Blocks : b <= last =>
         \/ \E j \in 1..depth : open[2 * j] = b
         \/ \E p \in b+1..last : IsClosing(b, p)

\* A brace opens after the first token of an item, or after another block.
Introduced ==
    \A b \in Blocks : b <= last =>
        \E q \in 1..b-1 : text[q].tok \in {"head", "rb"} /\ Remarks(q, b)

\* What has not been attached to yet: the items and blocks to come, the end of
\* those that are open, and the end of the last item where the next one begins.
Untouched ==
    /\ \A h \in Heads : h > last => meta[h] = EmptyMeta
    /\ \A b \in Blocks : b > last => block[b] = EmptyBlock
    /\ \A j \in 1..depth : /\ meta[open[2 * j - 1]].trailing = {}
                           /\ meta[open[2 * j - 1]].detached = {}
                           /\ block[open[2 * j]].dangling = {}
    /\ InItem => /\ meta[open[2 * depth + 1]].trailing = {}
                 /\ meta[open[2 * depth + 1]].detached = {}
    /\ at # "done" => block[Root].dangling = {}

\* The items parsed before, of the same block.
Earlier == block[Owner].items
\* Where the item before ends, or the block begins.
Edge == IF at # "items" THEN last ELSE IF Earlier = <<>> THEN Owner ELSE meta[Last(Earlier)].end

\* Between items, only empty statements follow the edge.
Resting ==
    at = "items" =>
        /\ Edge <= last
        /\ \A q \in Edge + 1 .. last : text[q].tok \in {"comment", "semi"}
        /\ IF Earlier = <<>> THEN block[Owner].intro = {}
           ELSE /\ Last(Earlier) \in Heads
                /\ Owner < Last(Earlier) /\ Last(Earlier) <= last
                /\ meta[Last(Earlier)].detached = {}

\* How far the comments handed out can have been placed.
Reach == IF at = "items" /\ Earlier # <<>> THEN 4 * Edge + 2 ELSE 4 * Edge

\* Each comment handed out has one place, in order, on its side of the braces and
\* heads consumed.
Placed ==
    /\ \A k \in 1..ci : \E p \in Places(k) : p \in Nat /\ Places(k) = {p}
    /\ \A k \in Streams : k > ci => Places(k) = {}
    /\ \A j, k \in 1..ci : j < k => \A p \in Places(j), q \in Places(k) : p <= q
    /\ \A k \in 1..ci : \A p \in Places(k) : p <= Reach
    /\ \A q \in 1..last : text[q].tok \in {"lb", "rb"} =>
         \A k \in 1..ci : comments[k] > q => \A p \in Places(k) : p > 4 * q
    /\ \A q \in 1..last : text[q].tok \in {"head", "rb"} =>
         \A k \in Streams : comments[k] < q => k <= ci /\ \A p \in Places(k) : p <= 4 * q

Core ==
    TypeOK /\ Cursors /\ Alternate /\ Matched /\ Introduced /\ Untouched /\ Resting /\ Placed

Invariant == TwoStreams /\ (at # "error" => Core)

-----------------------------------------------------------------------------
(* Induction and recursion on the numbers up to N.                         *)

LeastOf(S) == CHOOSE x \in S : \A y \in S : x <= y

\* A set of numbers that is not empty has a least element.
LEMMA LeastIn ==
    ASSUME NEW S \in SUBSET Nat, S # {}
    PROVE LeastOf(S) \in S /\ \A y \in S : LeastOf(S) <= y
<1>1. IsWellFoundedOn(OpToRel(<, Nat), Nat)
  BY NatLessThanWellFounded
<1>2. PICK x \in S : \A y \in S : <<y, x>> \notin OpToRel(<, Nat)
  BY <1>1, WFMin
<1>3. \A y \in S : x <= y
  <2> SUFFICES ASSUME NEW y \in S, y < x PROVE FALSE
    OBVIOUS
  <2>1. <<y, x>> \in {ss \in Nat \X Nat : ss[1] < ss[2]}
    OBVIOUS
  <2> QED
    BY <1>2, <2>1 DEF OpToRel
<1> QED
  BY <1>3 DEF LeastOf

\* A set of counterexamples that has no first one is empty.
LEMMA NoneFrom ==
    ASSUME NEW N \in Nat, NEW T \in SUBSET (0..N), 0 \notin T, \A k \in 1..N : k \in T => k - 1 \in T
    PROVE T = {}
<1> SUFFICES ASSUME T # {} PROVE FALSE
  OBVIOUS
<1>1. LeastOf(T) \in T /\ \A y \in T : LeastOf(T) <= y
  BY LeastIn
<1>2. LeastOf(T) \in 1..N
  <2>1. LeastOf(T) \in 0..N /\ LeastOf(T) # 0
    BY <1>1
  <2> QED
    BY <2>1
<1>3. LeastOf(T) - 1 \in T
  BY <1>1, <1>2
<1> QED
  BY <1>1, <1>2, <1>3

Recurs(f, N, V, a, h) == f \in [0..N -> V] /\ f[0] = a /\ \A k \in 1..N : f[k] = h[k][f[k-1]]

\* A recursion on the numbers up to N has a solution.
LEMMA RecursionIs ==
    ASSUME NEW N \in Nat, NEW V, NEW a \in V, NEW h, \A k \in 1..N, v \in V : h[k][v] \in V
    PROVE \E f : Recurs(f, N, V, a, h)
<1> DEFINE Good(f, m) == Recurs(f, m, V, a, h)
           T == {m \in 0..N : ~ \E f : Good(f, m)}
<1>1. 0 \notin T
  <2>1. Good([k \in 0..0 |-> a], 0)
    BY DEF Recurs
  <2> HIDE DEF Good
  <2> QED
    BY <2>1
<1>2. ASSUME NEW m \in 1..N, m - 1 \notin T PROVE m \notin T
  <2>1. m - 1 \in 0..N /\ 0..m = (0..(m-1)) \cup {m} /\ m \notin 0..(m-1) /\ m \in Nat
    OBVIOUS
  <2>2. PICK f : Good(f, m - 1)
    <3> HIDE DEF Good
    <3> QED
      BY <1>2, <2>1
  <2> DEFINE g == [k \in 0..m |-> IF k = m THEN h[m][f[m-1]] ELSE f[k]]
  <2>3. h[m][f[m-1]] \in V
    <3>1. f[m-1] \in V
      BY <2>1, <2>2 DEF Recurs
    <3> QED
      BY <3>1
  <2>4. g \in [0..m -> V]
    BY <2>1, <2>2, <2>3 DEF Recurs
  <2>5. \A k \in 0..(m-1) : g[k] = f[k]
    BY <2>1
  <2>6. g[m] = h[m][f[m-1]] /\ 0 \in 0..(m-1) /\ m - 1 \in 0..(m-1)
    BY <2>1
  <2> HIDE DEF g
  <2>7. ASSUME NEW k \in 1..m PROVE g[k] = h[k][g[k-1]]
    <3>1. CASE k = m
      BY <2>5, <2>6, <3>1
    <3>2. CASE k # m
      <4>1. k \in 1..(m-1) /\ k \in 0..(m-1) /\ k - 1 \in 0..(m-1)
        BY <2>1, <3>2
      <4> QED
        BY <2>2, <2>5, <4>1 DEF Recurs
    <3> QED
      BY <3>1, <3>2
  <2>8. Good(g, m)
    BY <2>2, <2>4, <2>5, <2>6, <2>7 DEF Recurs
  <2> HIDE DEF Good
  <2> QED
    BY <2>8
<1>3. T = {}
  <2>1. T \in SUBSET (0..N)
    OBVIOUS
  <2>2. \A m \in 1..N : m \in T => m - 1 \in T
    BY <1>2
  <2> HIDE DEF T
  <2> QED
    BY <1>1, <2>1, <2>2, NoneFrom
<1>4. PICK f : Good(f, N)
  <2> HIDE DEF Good
  <2>1. N \in 0..N
    OBVIOUS
  <2> QED
    BY <1>3, <2>1
<1> QED
  BY <1>4

-----------------------------------------------------------------------------
(* The two streams.                                                        *)

\* Appending to a sequence.
LEMMA AppendIs ==
    ASSUME NEW S, NEW s \in Seq(S), NEW x \in S
    PROVE /\ Append(s, x) \in Seq(S) /\ Len(Append(s, x)) = Len(s) + 1 /\ Len(s) \in Nat
          /\ \A i \in 1..Len(s) : Append(s, x)[i] = s[i]
          /\ Append(s, x)[Len(s) + 1] = x
  OBVIOUS

\* s lists the numbers up to n that are in S.
ListsUpTo(s, S, n) ==
    /\ s \in Seq(1..n)
    /\ \A i, j \in 1..Len(s) : i < j => s[i] < s[j]
    /\ \A p \in 1..n : p \in S <=> \E i \in 1..Len(s) : s[i] = p

LEMMA ListsOneMore ==
    ASSUME NEW S, NEW n \in Nat, n >= 1, NEW s, ListsUpTo(s, S, n - 1)
    PROVE ListsUpTo(IF n \in S THEN Append(s, n) ELSE s, S, n)
<1>1. /\ s \in Seq(1..(n-1)) /\ s \in Seq(1..n) /\ Len(s) \in Nat
      /\ \A i, j \in 1..Len(s) : i < j => s[i] < s[j]
      /\ \A p \in 1..(n-1) : p \in S <=> \E i \in 1..Len(s) : s[i] = p
      /\ \A i \in 1..Len(s) : s[i] \in 1..(n-1)
  <2>1. s \in Seq(1..(n-1))
    BY DEF ListsUpTo
  <2>2. s \in Seq(1..n)
    <3>1. Len(s) \in Nat /\ s \in [1..Len(s) -> 1..(n-1)]
      BY <2>1
    <3>2. s \in [1..Len(s) -> 1..n]
      BY <3>1
    <3> QED
      BY <3>1, <3>2
  <2> QED
    BY <2>1, <2>2 DEF ListsUpTo
<1>2. CASE n \in S
  <2> DEFINE a == Append(s, n)
  <2>1. /\ a \in Seq(1..n) /\ Len(a) = Len(s) + 1
        /\ \A i \in 1..Len(s) : a[i] = s[i]
        /\ a[Len(s) + 1] = n
    BY <1>1, AppendIs
  <2> HIDE DEF a
  <2>2. ASSUME NEW i \in 1..Len(a), NEW j \in 1..Len(a), i < j PROVE a[i] < a[j]
    <3>1. i \in 1..Len(s) /\ a[i] = s[i] /\ s[i] < n
      BY <1>1, <2>1, <2>2, SMTT(20)
    <3>2. CASE j \in 1..Len(s)
      BY <1>1, <2>1, <2>2, <3>1, <3>2
    <3>3. CASE j = Len(s) + 1
      BY <2>1, <3>1, <3>3
    <3> QED
      BY <1>1, <2>1, <3>2, <3>3
  <2>3. ASSUME NEW p \in 1..n PROVE p \in S <=> \E i \in 1..Len(a) : a[i] = p
    <3>1. CASE p = n
      <4>1. Len(s) + 1 \in 1..Len(a)
        BY <1>1, <2>1
      <4> QED
        BY <1>2, <2>1, <3>1, <4>1
    <3>2. CASE p # n
      <4>1. p \in 1..(n-1)
        BY <3>2
      <4>2. (\E i \in 1..Len(s) : s[i] = p) <=> \E i \in 1..Len(a) : a[i] = p
        <5>1. ASSUME NEW i \in 1..Len(a), a[i] = p PROVE i \in 1..Len(s) /\ s[i] = p
          <6>1. i # Len(s) + 1
            BY <2>1, <3>2, <5>1
          <6> QED
            BY <1>1, <2>1, <5>1, <6>1
        <5>2. ASSUME NEW i \in 1..Len(s), s[i] = p PROVE i \in 1..Len(a) /\ a[i] = p
          BY <1>1, <2>1, <5>2
        <5> QED
          BY <5>1, <5>2
      <4> QED
        BY <1>1, <4>1, <4>2
    <3> QED
      BY <3>1, <3>2
  <2>4. ListsUpTo(a, S, n)
    BY <2>1, <2>2, <2>3 DEF ListsUpTo
  <2> QED
    BY <1>2, <2>4 DEF a
<1>3. CASE n \notin S
  <2>1. ASSUME NEW p \in 1..n PROVE p \in S <=> \E i \in 1..Len(s) : s[i] = p
    <3>1. CASE p = n
      BY <1>1, <1>3, <3>1
    <3>2. CASE p # n
      <4>1. p \in 1..(n-1)
        BY <3>2
      <4> QED
        BY <1>1, <4>1
    <3> QED
      BY <3>1, <3>2
  <2> QED
    BY <1>1, <1>3, <2>1 DEF ListsUpTo
<1> QED
  BY <1>2, <1>3

\* InOrder lists the numbers of a set, in order.
LEMMA InOrderIs == ASSUME NEW N \in Nat, NEW S PROVE ListsUpTo(InOrder(S, N), S, N)
<1> DEFINE V == Seq(1..N)
           h == [n \in 1..N |-> [v \in V |-> IF n \in S THEN Append(v, n) ELSE v]]
           Solves(f) == f = [n \in 0..N |-> IF n = 0 THEN <<>>
                                            ELSE IF n \in S THEN Append(f[n-1], n) ELSE f[n-1]]
<1>1. InOrder(S, N) = (CHOOSE f : Solves(f))[N]
  BY DEF InOrder
<1>2. <<>> \in V
  OBVIOUS
<1>3. \A n \in 1..N, v \in V : h[n][v] = IF n \in S THEN Append(v, n) ELSE v
  OBVIOUS
<1>4. \A n \in 1..N, v \in V : h[n][v] \in V
  <2> SUFFICES ASSUME NEW n \in 1..N, NEW v \in V PROVE h[n][v] \in V
    OBVIOUS
  <2>1. Append(v, n) \in V
    BY AppendIs
  <2> HIDE DEF h, V
  <2> QED
    BY <1>3, <2>1
<1>5. \E f : Solves(f)
  <2>1. PICK f : Recurs(f, N, V, <<>>, h)
    <3> HIDE DEF V, h
    <3> QED
      BY <1>2, <1>4, RecursionIs
  <2>2. f \in [0..N -> V] /\ f[0] = <<>> /\ \A n \in 1..N : f[n] = h[n][f[n-1]]
    BY <2>1 DEF Recurs
  <2> HIDE DEF h, V
  <2>3. ASSUME NEW n \in 1..N
        PROVE f[n] = IF n \in S THEN Append(f[n-1], n) ELSE f[n-1]
    <3>1. f[n-1] \in V
      BY <1>2, <2>2
    <3> QED
      BY <1>3, <2>2, <3>1
  <2>4. ASSUME NEW n \in 0..N
        PROVE f[n] = IF n = 0 THEN <<>>
                     ELSE IF n \in S THEN Append(f[n-1], n) ELSE f[n-1]
    <3>1. CASE n = 0
      BY <2>2, <3>1
    <3>2. CASE n # 0
      <4>1. n \in 1..N
        BY <1>2, <3>2
      <4> QED
        BY <2>3, <3>2, <4>1
    <3> QED
      BY <3>1, <3>2
  <2> QED
    BY <2>2, <2>4
<1>6. PICK f : f = CHOOSE g : Solves(g)
  OBVIOUS
<1>7. Solves(f)
  BY <1>5, <1>6
<1> DEFINE T == {n \in 0..N : ~ ListsUpTo(f[n], S, n)}
<1>8. 0 \notin T
  <2>1. f[0] = <<>>
    BY <1>2, <1>7
  <2>2. Len(<<>>) = 0 /\ <<>> \in Seq(1..0) /\ \A p : p \notin 1..0
    OBVIOUS
  <2>3. ListsUpTo(<<>>, S, 0)
    BY <2>2 DEF ListsUpTo
  <2> QED
    BY <2>1, <2>3
<1>9. ASSUME NEW n \in 1..N, n - 1 \notin T PROVE n \notin T
  <2>1. n - 1 \in 0..N /\ n \in 0..N /\ n \in Nat /\ n >= 1 /\ n # 0
    BY <1>2
  <2>2. ListsUpTo(f[n-1], S, n - 1)
    BY <1>9, <2>1
  <2>3. f[n] = IF n \in S THEN Append(f[n-1], n) ELSE f[n-1]
    BY <1>7, <2>1
  <2>4. ListsUpTo(IF n \in S THEN Append(f[n-1], n) ELSE f[n-1], S, n)
    BY <2>1, <2>2, ListsOneMore
  <2> QED
    BY <2>3, <2>4
<1>10. T = {}
  <2>1. T \in SUBSET (0..N) /\ \A n \in 1..N : n \in T => n - 1 \in T
    BY <1>9
  <2> HIDE DEF T
  <2> QED
    BY <1>2, <1>8, <2>1, NoneFrom
<1>11. N \in 0..N
  BY <1>2
<1>12. ListsUpTo(f[N], S, N)
  BY <1>10, <1>11
<1> QED
  BY <1>1, <1>6, <1>12

\* The streams list the places of their lexemes, in order and without a gap.
LEMMA StreamLists ==
    ASSUME NEW t \in Seq(Lexemes), NEW sorts
    PROVE Lists(Stream(t, sorts), t, sorts)
<1> DEFINE S == {p \in 1..Len(t) : t[p].tok \in sorts}
<1>1. Len(t) \in Nat
  OBVIOUS
<1>2. ListsUpTo(Stream(t, sorts), S, Len(t))
  <2> HIDE DEF S
  <2>1. Stream(t, sorts) = InOrder(S, Len(t))
    BY DEF Stream, S
  <2> QED
    BY <1>1, <2>1, InOrderIs
<1> QED
  BY <1>2 DEF ListsUpTo, Lists

-----------------------------------------------------------------------------
(* The cursors.                                                            *)

LEMMA TextIs ==
    ASSUME TwoStreams
    PROVE /\ Len(text) \in Nat /\ Len(text) >= 1 /\ Len(toks) \in Nat /\ Len(comments) \in Nat
          /\ \A p \in 1..Len(text) : text[p].tok \in Tokens \cup {"comment"}
          /\ \A p \in 1..Len(text) : text[p].tok = "eof" <=> p = Len(text)
          /\ \A i \in 1..Len(toks) : toks[i] \in 1..Len(text) /\ text[toks[i]].tok \in Tokens
          /\ \A i, j \in 1..Len(toks) : i < j => toks[i] < toks[j]
          /\ \A p \in 1..Len(text) : text[p].tok \in Tokens => \E i \in 1..Len(toks) : toks[i] = p
          /\ \A k \in Streams : comments[k] \in 1..Len(text) /\ text[comments[k]].tok = "comment"
          /\ \A j, k \in Streams : j < k => comments[j] < comments[k]
          /\ \A p \in 1..Len(text) : text[p].tok = "comment" => \E k \in Streams : comments[k] = p
<1>1. /\ text \in Seq(Lexemes) /\ text # <<>> /\ toks \in Seq(1..Len(text))
      /\ comments \in Seq(1..Len(text))
      /\ \A p \in 1..Len(text) : text[p].tok = "eof" <=> p = Len(text)
  BY DEF TwoStreams, IsText, Lists
<1>2. Len(text) \in Nat /\ Len(text) >= 1 /\ Len(toks) \in Nat /\ Len(comments) \in Nat
  BY <1>1
<1>3. \A p \in 1..Len(text) : text[p].tok \in Tokens \cup {"comment"}
  <2> TAKE p \in 1..Len(text)
  <2>1. text[p] \in Lexemes
    BY <1>1
  <2> QED
    BY <2>1 DEF Lexemes
<1>4. /\ \A i \in 1..Len(toks) : toks[i] \in 1..Len(text)
      /\ \A k \in 1..Len(comments) : comments[k] \in 1..Len(text)
  BY <1>1
<1>5. /\ \A i, j \in 1..Len(toks) : i < j => toks[i] < toks[j]
      /\ \A p \in 1..Len(text) : text[p].tok \in Tokens <=> \E i \in 1..Len(toks) : toks[i] = p
      /\ \A j, k \in 1..Len(comments) : j < k => comments[j] < comments[k]
      /\ \A p \in 1..Len(text) : text[p].tok \in {"comment"} <=> \E k \in 1..Len(comments) : comments[k] = p
  BY DEF TwoStreams, Lists
<1>6. \A i \in 1..Len(toks) : text[toks[i]].tok \in Tokens
  BY <1>4, <1>5
<1>7. \A k \in 1..Len(comments) : text[comments[k]].tok = "comment"
  BY <1>4, <1>5
<1> QED
  BY <1>1, <1>2, <1>3, <1>4, <1>5, <1>6, <1>7 DEF Streams

\* The token that is current.
LEMMA PeekIsToken ==
    ASSUME TwoStreams, ti \in 1..Len(toks)
    PROVE /\ Peek \in 1..Len(text) /\ text[Peek].tok \in Tokens
          /\ PeekIs("eof") <=> Peek = Len(text)
  BY TextIs DEF Peek, PeekIs

\* From one token to the next.
LEMMA NextToken ==
    ASSUME TwoStreams, NEW i \in 1..Len(toks), toks[i] # Len(text)
    PROVE /\ i + 1 \in 1..Len(toks) /\ toks[i] < toks[i + 1]
          /\ Remarks(toks[i], toks[i + 1])
<1>1. /\ Len(text) \in Nat /\ Len(text) >= 1 /\ Len(toks) \in Nat
      /\ \A p \in 1..Len(text) : text[p].tok \in Tokens \cup {"comment"}
      /\ \A p \in 1..Len(text) : text[p].tok = "eof" <=> p = Len(text)
      /\ \A j \in 1..Len(toks) : toks[j] \in 1..Len(text)
      /\ \A j, k \in 1..Len(toks) : j < k => toks[j] < toks[k]
      /\ \A p \in 1..Len(text) : text[p].tok \in Tokens => \E j \in 1..Len(toks) : toks[j] = p
  BY TextIs
<1>2. i + 1 \in 1..Len(toks)
  <2>1. Len(text) \in 1..Len(text) /\ "eof" \in Tokens
    BY <1>1 DEF Tokens
  <2>2. PICK j \in 1..Len(toks) : toks[j] = Len(text)
    BY <1>1, <2>1
  <2>3. ~ (j < i)
    BY <1>1, <2>2
  <2>4. j # i
    BY <2>2
  <2> QED
    BY <1>1, <2>3, <2>4
<1>3. toks[i] < toks[i + 1]
  BY <1>1, <1>2
<1>4. ASSUME NEW r \in toks[i] + 1 .. toks[i + 1] - 1 PROVE text[r].tok = "comment"
  <2>1. r \in 1..Len(text) /\ toks[i] < r /\ r < toks[i + 1]
    BY <1>1, <1>2
  <2>2. ASSUME text[r].tok \in Tokens PROVE FALSE
    <3>1. PICK j \in 1..Len(toks) : toks[j] = r
      BY <1>1, <2>1, <2>2
    <3>2. ~ (j < i) /\ j # i
      BY <1>1, <2>1, <3>1
    <3>3. ~ (j > i + 1) /\ j # i + 1
      BY <1>1, <1>2, <2>1, <3>1
    <3> QED
      BY <1>1, <3>2, <3>3
  <2> QED
    BY <1>1, <2>1, <2>2
<1> QED
  BY <1>2, <1>3, <1>4 DEF Remarks

\* A step of the cursor.
LEMMA AdvanceIs ==
    ASSUME TwoStreams, TypeOK, Cursors, at # "done", Advance, ~ PeekIs("eof"),
           UNCHANGED <<text, toks, comments>>
    PROVE /\ Peek \in 1..Len(text) /\ Peek < Len(text) /\ text[Peek].tok \in Tokens
          /\ last \in 0..Len(text) /\ last < Peek /\ Remarks(last, Peek)
          /\ ti' \in 1..Len(toks') /\ last' = Peek /\ Peek' \in 1..Len(text)
          /\ last' < Peek' /\ Remarks(last, Peek)' /\ Peek < Peek'
<1>1. ti \in 1..Len(toks) /\ last \in 0..Len(text) /\ last < Peek /\ Remarks(last, Peek)
  BY DEF TypeOK, Cursors
<1>2. Peek \in 1..Len(text) /\ text[Peek].tok \in Tokens /\ Peek # Len(text)
  BY <1>1, PeekIsToken
<1>3. ti + 1 \in 1..Len(toks) /\ toks[ti] < toks[ti + 1] /\ Remarks(toks[ti], toks[ti + 1])
  BY <1>1, <1>2, NextToken DEF Peek
<1>4. ti' = ti + 1 /\ last' = toks[ti] /\ Peek = toks[ti] /\ Peek' = toks[ti + 1]
  BY DEF Advance, Peek
<1>5. toks[ti + 1] \in 1..Len(text)
  BY <1>3, TextIs
<1>6. Remarks(last, Peek)'
  BY <1>3, <1>4 DEF Remarks
<1>7. Peek < Len(text)
  BY <1>2, TextIs
<1> QED
  BY <1>1, <1>2, <1>3, <1>4, <1>5, <1>6, <1>7

\* The comments pending are the next ones up to the current token.
LEMMA PendingIs ==
    ASSUME TwoStreams, ti \in 1..Len(toks), ci \in 0..Len(comments),
           \A k \in 1..ci : comments[k] < Peek
    PROVE \E m \in ci..Len(comments) :
            /\ Pending = ci + 1 .. m /\ Cardinality(Pending) = m - ci
            /\ \A k \in Streams : comments[k] < Peek <=> k <= m
<1> DEFINE N == Len(comments)
           S == {k \in ci + 1 .. N + 1 : k = N + 1 \/ ~ (comments[k] < Peek)}
<1>1. /\ N \in Nat /\ \A k \in 1..N : comments[k] \in Nat
      /\ \A j, k \in 1..N : j < k => comments[j] < comments[k]
  <2>1. /\ Len(text) \in Nat /\ N \in Nat
        /\ \A k \in 1..N : comments[k] \in 1..Len(text)
        /\ \A j, k \in 1..N : j < k => comments[j] < comments[k]
    BY TextIs DEF Streams
  <2> QED
    BY <2>1
<1>2. Peek \in Nat
  <2>1. Peek \in 1..Len(text)
    BY PeekIsToken
  <2> QED
    BY <2>1
<1> HIDE DEF N
<1>3. ci \in 0..N
  BY DEF N
<1>4. S \in SUBSET Nat /\ N + 1 \in S
  BY <1>1, <1>3
<1> DEFINE l == LeastOf(S)
<1>5. l \in S /\ \A y \in S : l <= y
  BY <1>4, LeastIn
<1> HIDE DEF l
<1>6. PICK m : m = l - 1
  OBVIOUS
<1>7. m \in ci..N /\ l \in ci + 1 .. N + 1 /\ l = m + 1
  BY <1>1, <1>3, <1>5, <1>6
<1>8. ASSUME NEW k \in ci + 1 .. m PROVE comments[k] < Peek
  <2>1. k \in ci + 1 .. N + 1 /\ k \notin S
    BY <1>1, <1>3, <1>5, <1>7
  <2> QED
    BY <2>1
<1>9. ASSUME NEW k \in 1..N, k > m PROVE ~ (comments[k] < Peek)
  <2>1. l \in 1..N /\ ~ (comments[l] < Peek)
    BY <1>1, <1>3, <1>5, <1>7, <1>9
  <2>2. comments[l] <= comments[k]
    BY <1>1, <1>7, <1>9, <2>1
  <2> QED
    BY <1>1, <1>2, <2>1, <2>2
<1> HIDE DEF S
<1>10. \A k \in 1..N : comments[k] < Peek <=> k <= m
  <2> TAKE k \in 1..N
  <2>1. CASE k <= ci
    BY <1>3, <1>7, <2>1
  <2>2. CASE k \in ci + 1 .. m
    BY <1>8, <2>2
  <2>3. CASE k > m
    BY <1>9, <1>7, <1>3, <2>3
  <2> QED
    BY <1>3, <1>7, <2>1, <2>2, <2>3
<1>11. Pending = ci + 1 .. m
  <2>1. \A k : k \in Pending <=> k \in ci + 1 .. N /\ comments[k] < Peek
    BY DEF Pending, N
  <2>2. \A k : k \in Pending <=> k \in ci + 1 .. m
    BY <1>1, <1>3, <1>7, <1>10, <2>1
  <2> QED
    BY <2>2
<1>12. Cardinality(Pending) = m - ci
  <2>1. ci + 1 \in Int /\ m \in Int
    BY <1>1, <1>3, <1>7
  <2>2. Cardinality(ci + 1 .. m) = IF ci + 1 > m THEN 0 ELSE m - (ci + 1) + 1
    BY <2>1, FS_Interval
  <2> QED
    BY <1>1, <1>3, <1>7, <1>11, <2>2
<1> QED
  BY <1>7, <1>10, <1>11, <1>12 DEF N, Streams

\* A set of numbers above a that has every one below its own is a run.
LEMMA RunIs ==
    ASSUME NEW a \in Nat, NEW b \in Nat, a <= b, NEW S \in SUBSET (a + 1 .. b),
           \A k \in S : \A j \in a + 1 .. k : j \in S
    PROVE \E n \in a..b : S = a + 1 .. n /\ Cardinality(S) = n - a
<1> DEFINE T == {k \in a + 1 .. b + 1 : k \notin S}
           l == LeastOf(T)
<1>1. T \in SUBSET Nat /\ b + 1 \in T
  OBVIOUS
<1>2. l \in T /\ \A y \in T : l <= y
  BY <1>1, LeastIn
<1> HIDE DEF l
<1>3. PICK n : n = l - 1
  OBVIOUS
<1>4. n \in a..b /\ l = n + 1 /\ l \notin S
  BY <1>2, <1>3
<1>5. \A k : k \in a + 1 .. n => k \in S
  BY <1>2, <1>4
<1>6. \A k : k \in S => k \in a + 1 .. n
  <2> SUFFICES ASSUME NEW k \in S, ~ (k <= n) PROVE FALSE
    OBVIOUS
  <2>1. l \in a + 1 .. k
    BY <1>4
  <2> QED
    BY <1>4, <2>1
<1>7. S = a + 1 .. n
  BY <1>5, <1>6
<1>8. Cardinality(a + 1 .. n) = n - a
  <2>1. a + 1 \in Int /\ n \in Int
    BY <1>4
  <2>2. Cardinality(a + 1 .. n) = IF a + 1 > n THEN 0 ELSE n - (a + 1) + 1
    BY <2>1, FS_Interval
  <2> QED
    BY <1>4, <2>2
<1> QED
  BY <1>4, <1>7, <1>8

-----------------------------------------------------------------------------
(* Braces.                                                                 *)

LEMMA BracesNext ==
    ASSUME NEW p \in Nat, p >= 1, NEW tok
    PROVE /\ Braces(p, tok) \in Nat
          /\ Braces(p + 1, tok) = IF text[p].tok = tok THEN Braces(p, tok) + 1 ELSE Braces(p, tok)
<1> DEFINE S == {q \in 1..p-1 : text[q].tok = tok}
           T == {q \in 1..(p+1)-1 : text[q].tok = tok}
<1>1. Braces(p, tok) = Cardinality(S) /\ Braces(p + 1, tok) = Cardinality(T)
  BY DEF Braces
<1>2. IsFiniteSet(S)
  <2>1. IsFiniteSet(1..p-1)
    BY FS_Interval
  <2> QED
    BY <2>1, FS_Subset
<1>3. p \notin S
  OBVIOUS
<1>4. T = IF text[p].tok = tok THEN S \cup {p} ELSE S
  <2>1. \A q : q \in 1..(p+1)-1 <=> q \in 1..p-1 \/ q = p
    OBVIOUS
  <2> QED
    BY <2>1
<1> HIDE DEF S, T
<1>5. Cardinality(S) \in Nat
  BY <1>2, FS_CardinalityType
<1>6. Cardinality(S \cup {p}) = Cardinality(S) + 1
  BY <1>2, <1>3, FS_AddElement
<1> QED
  BY <1>1, <1>4, <1>5, <1>6

LEMMA NestingNext ==
    ASSUME NEW p \in Nat, p >= 1
    PROVE /\ Nesting(p) \in Int
          /\ Nesting(p + 1) = IF text[p].tok = "lb" THEN Nesting(p) + 1
                              ELSE IF text[p].tok = "rb" THEN Nesting(p) - 1 ELSE Nesting(p)
<1>1. /\ Braces(p, "lb") \in Nat /\ Braces(p, "rb") \in Nat
      /\ Braces(p + 1, "lb") = IF text[p].tok = "lb" THEN Braces(p, "lb") + 1 ELSE Braces(p, "lb")
      /\ Braces(p + 1, "rb") = IF text[p].tok = "rb" THEN Braces(p, "rb") + 1 ELSE Braces(p, "rb")
  BY BracesNext
<1>2. ~ (text[p].tok = "lb" /\ text[p].tok = "rb")
  OBVIOUS
<1> QED
  BY <1>1, <1>2 DEF Nesting

\* Comments do not change how deep a text is nested.
LEMMA NestingSkips ==
    ASSUME NEW p \in Nat, NEW q \in Nat, p < q, Remarks(p, q)
    PROVE Nesting(q) = Nesting(p + 1)
<1>1. ASSUME NEW tok \in {"lb", "rb"} PROVE Braces(q, tok) = Braces(p + 1, tok)
  <2>1. \A r : r \in 1..q-1 /\ text[r].tok = tok <=> r \in 1..(p+1)-1 /\ text[r].tok = tok
    <3> SUFFICES ASSUME NEW r \in 1..q-1, text[r].tok = tok, r \notin 1..(p+1)-1 PROVE FALSE
      OBVIOUS
    <3>1. r \in p+1..q-1
      OBVIOUS
    <3> QED
      BY <3>1, <1>1 DEF Remarks
  <2>2. {r \in 1..q-1 : text[r].tok = tok} = {r \in 1..(p+1)-1 : text[r].tok = tok}
    BY <2>1
  <2> QED
    BY <2>2 DEF Braces
<1> QED
  BY <1>1 DEF Nesting

\* A block has one closing brace.
LEMMA ClosingIs ==
    ASSUME Len(text) \in Nat, NEW b \in Nat, NEW p \in b+1..Len(text), IsClosing(b, p)
    PROVE Closing(b) = p
<1>1. ASSUME NEW q \in b+1..Len(text), NEW r \in b+1..Len(text), IsClosing(b, q), IsClosing(b, r), q < r
      PROVE FALSE
  <2>1. q \in b+1..r-1
    BY <1>1
  <2> QED
    BY <1>1, <2>1 DEF IsClosing
<1> DEFINE c == Closing(b)
<1>2. c \in b+1..Len(text) /\ IsClosing(b, c)
  BY DEF Closing
<1> HIDE DEF c
<1>3. c = p
  <2>1. ~ (c < p) /\ ~ (p < c)
    BY <1>1, <1>2
  <2> QED
    BY <1>2, <2>1
<1> QED
  BY <1>3 DEF c

\* A text that does not change has the braces it had.
LEMMA SameText ==
    ASSUME text' = text
    PROVE /\ Heads' = Heads /\ Blocks' = Blocks
          /\ \A p : Nesting(p)' = Nesting(p)
          /\ \A b, p : IsClosing(b, p)' <=> IsClosing(b, p)
          /\ \A b : Closing(b)' = Closing(b)
          /\ \A p, q : Remarks(p, q)' <=> Remarks(p, q)
<1>1. Heads' = Heads /\ Blocks' = Blocks
  BY DEF Heads, Blocks
<1>2. ASSUME NEW p PROVE Nesting(p)' = Nesting(p)
  BY DEF Nesting, Braces
<1>3. ASSUME NEW b, NEW p PROVE IsClosing(b, p)' <=> IsClosing(b, p)
  BY DEF IsClosing, Nesting, Braces
<1>4. ASSUME NEW b PROVE Closing(b)' = Closing(b)
  BY DEF Closing, IsClosing, Nesting, Braces
<1>5. ASSUME NEW p, NEW q PROVE Remarks(p, q)' <=> Remarks(p, q)
  BY DEF Remarks
<1> QED
  BY <1>1, <1>2, <1>3, <1>4, <1>5

-----------------------------------------------------------------------------
(* Places.                                                                 *)

\* The ways to have a place.
Leads(k, h) == h \in Heads /\ k \in meta[h].leading
Trails(k, h) == h \in Heads /\ k \in meta[h].trailing
Follows(k, h) == h \in Heads /\ k \in meta[h].detached
Introduces(k, b) == b \in Blocks \cup {Root} /\ k \in block[b].intro
Dangles(k, b) == b \in Blocks \cup {Root} /\ k \in block[b].dangling
Closes(b) == IF b = Root THEN Len(text) ELSE Closing(b)

Has(k, p) ==
    \/ \E h : Leads(k, h) /\ p = 4 * h
    \/ \E b : Introduces(k, b) /\ p = 4 * b + 1
    \/ \E h : Trails(k, h) /\ p = 4 * meta[h].end + 2
    \/ \E h : Follows(k, h) /\ p = 4 * meta[h].end + 3
    \/ \E b : Dangles(k, b) /\ p = 4 * Closes(b)

LEMMA RootIsNoBlock == Root \notin Blocks /\ Root = 0
  BY DEF Root, Blocks

LEMMA PlacesAre == \A k, p : p \in Places(k) <=> Has(k, p)
<1> SUFFICES ASSUME NEW k, NEW p PROVE p \in Places(k) <=> Has(k, p)
  OBVIOUS
<1>1. p \in {4 * h : h \in {x \in Heads : k \in meta[x].leading}} <=> \E h : Leads(k, h) /\ p = 4 * h
  BY DEF Leads
<1>2. p \in {4 * b + 1 : b \in {x \in Blocks \cup {Root} : k \in block[x].intro}}
        <=> \E b : Introduces(k, b) /\ p = 4 * b + 1
  BY DEF Introduces
<1>3. p \in {4 * meta[h].end + 2 : h \in {x \in Heads : k \in meta[x].trailing}}
        <=> \E h : Trails(k, h) /\ p = 4 * meta[h].end + 2
  BY DEF Trails
<1>4. p \in {4 * meta[h].end + 3 : h \in {x \in Heads : k \in meta[x].detached}}
        <=> \E h : Follows(k, h) /\ p = 4 * meta[h].end + 3
  BY DEF Follows
<1>5. p \in {4 * Closing(b) : b \in {x \in Blocks : k \in block[x].dangling}}
           \cup {4 * Len(text) : d \in block[Root].dangling \cap {k}}
        <=> \E b : Dangles(k, b) /\ p = 4 * Closes(b)
  <2>1. p \in {4 * Closing(b) : b \in {x \in Blocks : k \in block[x].dangling}}
          <=> \E b \in Blocks : Dangles(k, b) /\ p = 4 * Closes(b)
    BY RootIsNoBlock DEF Dangles, Closes
  <2>2. p \in {4 * Len(text) : d \in block[Root].dangling \cap {k}}
          <=> Dangles(k, Root) /\ p = 4 * Closes(Root)
    BY DEF Dangles, Closes
  <2> QED
    BY <2>1, <2>2 DEF Dangles
<1> QED
  BY <1>1, <1>2, <1>3, <1>4, <1>5, Zenon DEF Places, Has

LEMMA PlacesAreNext == \A k, p : (p \in Places(k))' <=> Has(k, p)'
<1>1. (\A k, p : p \in Places(k) <=> Has(k, p))'
  BY PlacesAre, PTL
<1> QED
  BY <1>1

\* A comment without a place is attached nowhere.
LEMMA Nowhere ==
    ASSUME NEW k, Places(k) = {}
    PROVE /\ \A h : ~ Leads(k, h) /\ ~ Trails(k, h) /\ ~ Follows(k, h)
          /\ \A b : ~ Introduces(k, b) /\ ~ Dangles(k, b)
<1>1. \A p : ~ Has(k, p)
  BY PlacesAre
<1> QED
  BY <1>1 DEF Has

\* A comment that stays attached where it was keeps its place.
LEMMA PlacesKept ==
    ASSUME NEW k, text' = text,
           \A h : /\ Leads(k, h)' <=> Leads(k, h)
                  /\ Trails(k, h)' <=> Trails(k, h)
                  /\ Follows(k, h)' <=> Follows(k, h)
                  /\ Trails(k, h) \/ Follows(k, h) => meta'[h].end = meta[h].end,
           \A b : (Introduces(k, b)' <=> Introduces(k, b)) /\ (Dangles(k, b)' <=> Dangles(k, b))
    PROVE Places(k)' = Places(k)
<1>1. ASSUME NEW b PROVE Closes(b)' = Closes(b)
  BY SameText DEF Closes, Root
<1>2. ASSUME NEW p PROVE Has(k, p)' <=> Has(k, p)
  <2>1. (\E h : Leads(k, h)' /\ p = 4 * h) <=> \E h : Leads(k, h) /\ p = 4 * h
    OBVIOUS
  <2>2. (\E b : Introduces(k, b)' /\ p = 4 * b + 1) <=> \E b : Introduces(k, b) /\ p = 4 * b + 1
    OBVIOUS
  <2>3. (\E h : Trails(k, h)' /\ p = 4 * meta'[h].end + 2) <=> \E h : Trails(k, h) /\ p = 4 * meta[h].end + 2
    OBVIOUS
  <2>4. (\E h : Follows(k, h)' /\ p = 4 * meta'[h].end + 3) <=> \E h : Follows(k, h) /\ p = 4 * meta[h].end + 3
    OBVIOUS
  <2>5. (\E b : Dangles(k, b)' /\ p = 4 * Closes(b)') <=> \E b : Dangles(k, b) /\ p = 4 * Closes(b)
    BY <1>1
  <2> QED
    BY <2>1, <2>2, <2>3, <2>4, <2>5, Zenon DEF Has
<1>3. \A p : (p \in Places(k))' <=> p \in Places(k)
  BY <1>2, PlacesAre, PlacesAreNext
<1> QED
  BY <1>3

\* Placing the next comments, if any, from where the last one is on.
LEMMA Placing ==
    ASSUME TwoStreams, Placed, ci \in 0..Len(comments), ci' \in ci..Len(comments),
           UNCHANGED <<text, comments>>, last \in Nat, last' \in Nat, last <= last',
           Reach \in Nat, Reach' \in Nat, Reach <= Reach',
           \A k \in 1..ci : Places(k)' = Places(k),
           \A k \in ci+1..ci' : \E p \in Nat : Places(k)' = {p} /\ Reach <= p /\ p <= Reach',
           \A j, k \in ci+1..ci' : j < k => \A p \in Places(j)', q \in Places(k)' : p <= q,
           \A k \in Streams : k > ci' => Places(k)' = {},
           \A q \in 1..last : text[q].tok \in {"lb", "rb"} =>
              \A k \in ci+1..ci' : \A p \in Places(k)' : p > 4 * q,
           \A q \in last+1..last' : text[q].tok \in {"lb", "rb"} =>
              \A k \in 1..ci' : comments[k] < q,
           \A q \in last+1..last' : text[q].tok \in {"head", "rb"} =>
              /\ \A k \in Streams : comments[k] < q => k <= ci'
              /\ Reach' <= 4 * q
    PROVE Placed'
<1> USE DEF Streams
<1>0. /\ Len(comments) \in Nat /\ ci \in Nat /\ ci' \in Nat
      /\ \A k \in 1..Len(comments) : comments[k] \in Nat
  <2>1. /\ Len(comments) \in Nat /\ Len(text) \in Nat
        /\ \A k \in 1..Len(comments) : comments[k] \in 1..Len(text)
    BY TextIs
  <2> QED
    BY <2>1
<1>1. /\ \A k \in 1..ci : \E p \in Places(k) : p \in Nat /\ Places(k) = {p}
      /\ \A j, k \in 1..ci : j < k => \A p \in Places(j), q \in Places(k) : p <= q
      /\ \A k \in 1..ci : \A p \in Places(k) : p <= Reach
  BY DEF Placed
<1>2. \A k : k \in 1..ci' <=> k \in 1..ci \/ k \in ci+1..ci'
  BY <1>0
<1>3. ASSUME NEW k \in 1..ci' PROVE \E p \in Nat : Places(k)' = {p}
  BY <1>1, <1>2
<1>4. ASSUME NEW k \in 1..ci', NEW p \in Places(k)' PROVE p \in Nat /\ p <= Reach'
  <2>1. CASE k \in 1..ci
    <3>1. p \in Places(k) /\ p \in Nat /\ p <= Reach
      BY <1>1, <2>1
    <3> QED
      BY <3>1
  <2>2. CASE k \in ci+1..ci'
    BY <2>2
  <2> QED
    BY <1>2, <2>1, <2>2
<1>5. ASSUME NEW j \in 1..ci', NEW k \in 1..ci', j < k, NEW p \in Places(j)', NEW q \in Places(k)'
      PROVE p <= q
  <2>1. CASE k \in 1..ci
    <3>1. j \in 1..ci
      BY <1>0, <1>5, <2>1
    <3> QED
      BY <1>1, <1>5, <2>1, <3>1
  <2>2. CASE k \in ci+1..ci' /\ j \in 1..ci
    <3>1. p \in Nat /\ p <= Reach
      BY <1>1, <2>2
    <3>2. q \in Nat /\ Reach <= q
      BY <2>2
    <3> QED
      BY <3>1, <3>2
  <2>3. CASE k \in ci+1..ci' /\ j \in ci+1..ci'
    BY <1>5, <2>3
  <2> QED
    BY <1>2, <2>1, <2>2, <2>3
<1>6. \A q : q \in 1..last' <=> q \in 1..last \/ q \in last+1..last'
  OBVIOUS
<1>7. ASSUME NEW q \in 1..last', text[q].tok \in {"lb", "rb"},
             NEW k \in 1..ci', comments[k] > q, NEW p \in Places(k)'
      PROVE p > 4 * q
  <2>1. CASE q \in 1..last
    <3>1. CASE k \in 1..ci
      BY <1>7, <2>1, <3>1 DEF Placed
    <3>2. CASE k \in ci+1..ci'
      BY <1>7, <2>1, <3>2
    <3> QED
      BY <1>2, <3>1, <3>2
  <2>2. CASE q \in last+1..last'
    <3>1. comments[k] < q /\ comments[k] \in Nat
      BY <1>0, <1>7, <2>2
    <3> QED
      BY <1>7, <3>1
  <2> QED
    BY <1>6, <2>1, <2>2
<1>8. ASSUME NEW q \in 1..last', text[q].tok \in {"head", "rb"},
             NEW k \in 1..Len(comments), comments[k] < q
      PROVE k <= ci' /\ \A p \in Places(k)' : p <= 4 * q
  <2>1. CASE q \in 1..last
    <3>1. k <= ci /\ \A p \in Places(k) : p <= 4 * q
      BY <1>8, <2>1 DEF Placed
    <3>2. k \in 1..ci
      BY <1>0, <3>1
    <3> QED
      BY <1>0, <3>1, <3>2
  <2>2. CASE q \in last+1..last'
    <3>1. k <= ci' /\ Reach' <= 4 * q /\ q \in Nat
      BY <1>8, <2>2
    <3>2. k \in 1..ci'
      BY <1>0, <3>1
    <3>3. ASSUME NEW p \in Places(k)' PROVE p <= 4 * q
      <4>1. p \in Nat /\ p <= Reach'
        BY <1>4, <3>2
      <4> QED
        BY <3>1, <4>1
    <3> QED
      BY <3>1, <3>3
  <2> QED
    BY <1>6, <2>1, <2>2
<1>9. text' = text /\ comments' = comments
  OBVIOUS
<1> QED
  BY <1>3, <1>4, <1>5, <1>7, <1>8, <1>9 DEF Placed

-----------------------------------------------------------------------------
(* Steps.                                                                  *)

LEMMA TypeFacts ==
    ASSUME TwoStreams, TypeOK
    PROVE /\ Len(text) \in Nat /\ last \in Nat /\ Len(open) \in Nat
          /\ \A h \in Heads : h \in 1..Len(text) /\ h \in Nat /\ h >= 1
          /\ \A b \in Blocks : b \in 1..Len(text) /\ b \in Nat /\ b >= 1
          /\ \A i \in 1..Len(open) : open[i] \in 1..Len(text) /\ open[i] \in Nat /\ open[i] >= 1
          /\ \A h \in Heads : meta[h].end \in Nat
          /\ \A b \in Blocks \cup {Root} : block[b].items \in Seq(Nat)
          /\ DOMAIN meta = Heads /\ DOMAIN block = Blocks \cup {Root}
<1>1. Len(text) \in Nat
  BY TextIs
<1>2. /\ last \in 0..Len(text) /\ open \in Seq(1..Len(text))
      /\ meta \in [Heads -> [end : Nat, leading : SUBSET Nat, trailing : SUBSET Nat,
                             detached : SUBSET Nat]]
      /\ block \in [Blocks \cup {Root} ->
                      [intro : SUBSET Nat, items : Seq(Nat), dangling : SUBSET Nat]]
  BY DEF TypeOK
<1>3. last \in Nat /\ Len(open) \in Nat /\ \A i \in 1..Len(open) : open[i] \in 1..Len(text)
  BY <1>1, <1>2
<1>4. \A h \in Heads : meta[h].end \in Nat
  BY <1>2
<1>5. \A b \in Blocks \cup {Root} : block[b].items \in Seq(Nat)
  BY <1>2
<1>6. (\A h \in Heads : h \in 1..Len(text)) /\ \A b \in Blocks : b \in 1..Len(text)
  BY DEF Heads, Blocks
<1> QED
  BY <1>1, <1>2, <1>3, <1>4, <1>5, <1>6

\* Where parsing stands.
LEMMA OwnerIs ==
    ASSUME TwoStreams, TypeOK, Alternate
    PROVE /\ InItem => /\ Owner = open[2 * depth + 1] /\ Owner \in Heads /\ Len(open) = 2 * depth + 1
                       /\ Outer = IF depth = 0 THEN Root ELSE open[2 * depth]
                       /\ Outer \in Blocks \cup {Root} /\ Outer < Owner /\ Owner <= last
          /\ ~ InItem => /\ Owner = IF depth = 0 THEN Root ELSE open[2 * depth]
                         /\ Owner \in Blocks \cup {Root} /\ Len(open) = 2 * depth /\ Owner <= last
                         /\ depth # 0 => /\ Owner \in Blocks /\ Outer = open[2 * depth - 1]
                                         /\ Outer \in Heads /\ Outer < Owner
          /\ open = <<>> <=> depth = 0 /\ ~ InItem
<1>1. /\ Len(open) \in Nat /\ depth \in Nat /\ last \in Nat
      /\ \A i \in 1..Len(open) : open[i] \in Nat /\ open[i] >= 1
      /\ open = <<>> <=> Len(open) = 0
  <2>1. open \in Seq(1..Len(text)) /\ depth \in Nat
    BY DEF TypeOK
  <2> QED
    BY <2>1, TypeFacts
<1>2. /\ Len(open) = IF InItem THEN 2 * depth + 1 ELSE 2 * depth
      /\ \A j \in 1..depth : open[2 * j - 1] \in Heads /\ open[2 * j] \in Blocks
      /\ InItem => open[2 * depth + 1] \in Heads
      /\ \A i, j \in 1..Len(open) : i < j => open[i] < open[j]
      /\ \A i \in 1..Len(open) : open[i] <= last
  BY DEF Alternate
<1>3. CASE InItem
  <2>1. Len(open) = 2 * depth + 1 /\ 2 * depth + 1 \in 1..Len(open) /\ open # <<>>
    BY <1>1, <1>2, <1>3
  <2>2. Owner = open[2 * depth + 1] /\ Owner \in Heads /\ Owner <= last /\ Owner >= 1
    BY <1>1, <1>2, <1>3, <2>1 DEF Owner
  <2>3. CASE depth = 0
    BY <1>1, <1>3, <2>1, <2>2, <2>3, RootIsNoBlock DEF Outer
  <2>4. CASE depth # 0
    <3>1. depth \in 1..depth /\ 2 * depth \in 1..Len(open)
      BY <1>1, <2>1, <2>4
    <3>2. Outer = open[2 * depth]
      BY <1>1, <2>1, <2>4 DEF Outer
    <3>3. open[2 * depth] < open[2 * depth + 1]
      BY <1>1, <1>2, <2>1, <3>1
    <3> QED
      BY <1>2, <1>3, <2>1, <2>2, <2>4, <3>1, <3>2, <3>3
  <2> QED
    BY <2>3, <2>4
<1>4. CASE ~ InItem
  <2>1. Len(open) = 2 * depth
    BY <1>2, <1>4
  <2>2. CASE depth = 0
    BY <1>1, <1>4, <2>1, <2>2, RootIsNoBlock DEF Owner
  <2>3. CASE depth # 0
    <3>1. depth \in 1..depth /\ 2 * depth \in 1..Len(open) /\ 2 * depth - 1 \in 1..Len(open) /\ open # <<>>
      BY <1>1, <2>1, <2>3
    <3>2. Owner = open[2 * depth] /\ Outer = open[2 * depth - 1]
      BY <1>1, <2>1, <2>3, <3>1 DEF Owner, Outer
    <3>3. open[2 * depth - 1] < open[2 * depth]
      BY <1>1, <1>2, <3>1
    <3> QED
      BY <1>2, <1>4, <2>1, <2>3, <3>1, <3>2, <3>3
  <2> QED
    BY <2>2, <2>3
<1> QED
  BY <1>3, <1>4

\* The edge, and how far comments have been placed.
LEMMA EdgeIs ==
    ASSUME TwoStreams, TypeOK, Alternate, Resting
    PROVE /\ Edge \in Nat /\ Edge <= last /\ Reach \in Nat
          /\ Reach = IF at = "items" /\ Earlier # <<>> THEN 4 * Edge + 2 ELSE 4 * Edge
          /\ \A q \in 1..last : text[q].tok \in {"lb", "rb"} => q <= Edge
<1>1. last \in Nat
  BY TypeFacts
<1>2. CASE at # "items"
  BY <1>1, <1>2 DEF Edge, Reach
<1>3. CASE at = "items"
  <2>1. ~ InItem
    BY <1>3 DEF InItem
  <2>2. Owner \in Blocks \cup {Root} /\ Owner \in Nat
    BY <2>1, OwnerIs, TypeFacts DEF Root
  <2>3. Edge \in Nat
    <3>1. CASE Earlier = <<>>
      BY <1>3, <2>2, <3>1 DEF Edge
    <3>2. CASE Earlier # <<>>
      <4>1. Last(Earlier) \in Heads
        BY <1>3, <3>2 DEF Resting
      <4>2. meta[Last(Earlier)].end \in Nat
        BY <4>1, TypeFacts
      <4> QED
        BY <1>3, <3>2, <4>2 DEF Edge
    <3> QED
      BY <3>1, <3>2
  <2>4. Edge <= last /\ \A q \in Edge + 1 .. last : text[q].tok \in {"comment", "semi"}
    BY <1>3 DEF Resting
  <2>5. ASSUME NEW q \in 1..last, text[q].tok \in {"lb", "rb"} PROVE q <= Edge
    <3> SUFFICES ASSUME ~ (q <= Edge) PROVE FALSE
      OBVIOUS
    <3>1. q \in Edge + 1 .. last
      BY <1>1, <2>3
    <3> QED
      BY <2>4, <2>5, <3>1
  <2> QED
    BY <2>3, <2>4, <2>5 DEF Reach
<1> QED
  BY <1>2, <1>3

\* A token is consumed.
LEMMA TokenIs ==
    ASSUME TwoStreams, TypeOK, Cursors, Matched, at # "done", Advance, ~ PeekIs("eof"),
           UNCHANGED <<text, toks, comments>>
    PROVE /\ \A q \in last + 1 .. last' : q = Peek \/ text[q].tok = "comment"
          /\ Nesting(Peek) = depth
          /\ Nesting(last + 1)' = IF text[Peek].tok = "lb" THEN depth + 1
                                  ELSE IF text[Peek].tok = "rb" THEN depth - 1 ELSE depth
          /\ \A k \in 1..ci : comments[k] < Peek /\ comments[k] < Peek'
<1>1. /\ Peek \in 1..Len(text) /\ last \in 0..Len(text) /\ last < Peek /\ Remarks(last, Peek)
      /\ last' = Peek /\ Peek' \in 1..Len(text) /\ Peek < Peek'
  BY AdvanceIs
<1>2. Len(text) \in Nat
  BY TextIs
<1>3. ASSUME NEW q \in last + 1 .. last' PROVE q = Peek \/ text[q].tok = "comment"
  <2>1. q = Peek \/ q \in last + 1 .. Peek - 1
    BY <1>1, <1>2
  <2> QED
    BY <1>1, <2>1 DEF Remarks
<1>4. Nesting(Peek) = depth
  BY <1>1, <1>2, NestingSkips DEF Matched
<1>5. Nesting(Peek + 1) = IF text[Peek].tok = "lb" THEN Nesting(Peek) + 1
                          ELSE IF text[Peek].tok = "rb" THEN Nesting(Peek) - 1 ELSE Nesting(Peek)
  BY <1>1, <1>2, NestingNext
<1>6. Nesting(last + 1)' = Nesting(Peek + 1)
  BY <1>1, SameText DEF Nesting, Braces
<1>7. \A k \in 1..ci : comments[k] < Peek /\ comments[k] < Peek'
  <2> TAKE k \in 1..ci
  <2>1. k \in Streams
    BY TextIs DEF TypeOK, Streams
  <2>2. comments[k] \in 1..Len(text) /\ comments[k] < Peek
    BY <2>1, TextIs DEF Cursors
  <2> QED
    BY <1>1, <1>2, <2>2
<1> QED
  BY <1>3, <1>4, <1>5, <1>6, <1>7

\* Nothing is placed where nothing is handed out.
LEMMA PlacedStill ==
    ASSUME TwoStreams, TypeOK, Placed, ci' = ci, UNCHANGED <<text, comments, meta, block>>,
           last' \in Nat, last <= last', Reach \in Nat, Reach' \in Nat, Reach <= Reach',
           \A q \in last+1..last' : text[q].tok \in {"lb", "rb"} =>
              \A k \in 1..ci : comments[k] < q,
           \A q \in last+1..last' : text[q].tok \notin {"head", "rb"}
    PROVE Placed'
<1>1. ci \in 0..Len(comments) /\ Len(comments) \in Nat /\ last \in Nat
  BY TextIs, TypeFacts DEF TypeOK
<1>2. \A k : Places(k)' = Places(k)
  <2> TAKE k
  <2>1. \A h : /\ Leads(k, h)' <=> Leads(k, h)
               /\ Trails(k, h)' <=> Trails(k, h)
               /\ Follows(k, h)' <=> Follows(k, h)
    BY SameText DEF Leads, Trails, Follows
  <2>2. \A b : (Introduces(k, b)' <=> Introduces(k, b)) /\ (Dangles(k, b)' <=> Dangles(k, b))
    BY SameText DEF Introduces, Dangles, Root
  <2> QED
    BY <2>1, <2>2, PlacesKept
<1>3. ci' \in ci..Len(comments) /\ \A k : k \notin ci+1..ci'
  BY <1>1
<1>4. \A k \in Streams : k > ci' => Places(k)' = {}
  BY <1>2 DEF Placed
<1> QED
  BY <1>1, <1>2, <1>3, <1>4, Placing

LEMMA FourTimes ==
    \A a, b \in Nat : /\ 4 * a \in Nat
                      /\ a <= b <=> 4 * a <= 4 * b
                      /\ a < b => 4 * a + 3 < 4 * b
  OBVIOUS

\* An empty statement, or the end of an item: nothing is attached.
LEMMA PassToken ==
    ASSUME TwoStreams, Core, Advance, text[Peek].tok \in {"semi", "end"},
           UNCHANGED <<text, toks, comments, ci, open, depth, meta, block>>,
           \/ at = "items" /\ at' = "items" /\ text[Peek].tok = "semi"
           \/ at = "item" /\ at' = "finish"
    PROVE TwoStreams' /\ Core'
<1> USE DEF Core
<1>0. /\ ~ PeekIs("eof") /\ at # "done" /\ at' # "done" /\ at' # "item"
      /\ InItem' <=> InItem
  BY DEF PeekIs, InItem
<1>1. /\ Peek \in 1..Len(text) /\ Peek < Len(text)
      /\ last \in 0..Len(text) /\ last < Peek
      /\ ti' \in 1..Len(toks') /\ last' = Peek /\ Peek' \in 1..Len(text)
      /\ last' < Peek' /\ Remarks(last, Peek)'
  BY <1>0, AdvanceIs
<1>2. /\ \A q \in last + 1 .. last' : q = Peek \/ text[q].tok = "comment"
      /\ Nesting(last + 1)' = depth
      /\ \A k \in 1..ci : comments[k] < Peek /\ comments[k] < Peek'
  BY <1>0, TokenIs
<1>3. Len(text) \in Nat /\ last \in Nat /\ last' \in Nat /\ last <= last'
  BY <1>1, TypeFacts
<1>4. /\ Heads' = Heads /\ Blocks' = Blocks
      /\ \A p : Nesting(p)' = Nesting(p)
      /\ \A b, p : IsClosing(b, p)' <=> IsClosing(b, p)
      /\ \A p, q : Remarks(p, q)' <=> Remarks(p, q)
  BY SameText
<1>5. \A q \in last + 1 .. last' : text[q].tok \in {"comment", "semi", "end"}
  BY <1>2
<1>6. \A b \in Blocks : b \in Nat /\ text[b].tok = "lb" /\ (b <= last' => b <= last)
  <2> TAKE b \in Blocks
  <2>1. b \in Nat /\ text[b].tok = "lb"
    BY TypeFacts DEF Blocks
  <2>2. b \notin last + 1 .. last'
    BY <1>5, <2>1
  <2> QED
    BY <1>3, <2>1, <2>2
<1>7. TwoStreams'
  BY DEF TwoStreams
<1>8. TypeOK'
  BY <1>1, <1>4 DEF TypeOK, Root
<1>9. Cursors'
  BY <1>0, <1>1, <1>2 DEF Cursors
<1>10. Alternate'
  <2>1. \A i \in 1..Len(open) : open[i] <= last /\ open[i] \in Nat
    BY TypeFacts DEF Alternate
  <2>2. \A i \in 1..Len(open) : open[i] <= last'
    BY <1>3, <2>1
  <2> QED
    BY <1>0, <1>4, <2>2 DEF Alternate
<1>11. Matched'
  <2>1. ASSUME NEW j \in 1..depth, NEW q \in open[2 * j] + 1 .. last', text[q].tok = "rb"
        PROVE Nesting(q) # j
    <3>1. open[2 * j] \in Nat
      BY <1>6 DEF Alternate
    <3>2. q \notin last + 1 .. last'
      BY <1>5, <2>1
    <3>3. q \in open[2 * j] + 1 .. last
      BY <1>3, <3>1, <3>2
    <3> QED
      BY <2>1, <3>3 DEF Matched
  <2>2. ASSUME NEW b \in Blocks, b <= last'
        PROVE (\E j \in 1..depth : open[2 * j] = b) \/ \E p \in b+1..last' : IsClosing(b, p)
    <3>1. (\E j \in 1..depth : open[2 * j] = b) \/ \E p \in b+1..last : IsClosing(b, p)
      BY <1>6, <2>2 DEF Matched
    <3>2. b+1..last \subseteq b+1..last'
      BY <1>3, <1>6
    <3> QED
      BY <3>1, <3>2
  <2> QED
    BY <1>2, <1>4, <2>1, <2>2 DEF Matched
<1>12. Introduced'
  BY <1>4, <1>6 DEF Introduced
<1>13. Untouched'
  <2>1. \A h \in Heads : h \in Nat /\ (h > last' => h > last)
    BY <1>3, TypeFacts
  <2>2. \A b \in Blocks : b > last' => b > last
    BY <1>3, <1>6
  <2> QED
    BY <1>0, <1>4, <2>1, <2>2 DEF Untouched, Root
<1>14. Edge \in Nat /\ Edge <= last /\ Reach \in Nat
  BY EdgeIs
<1>15. Resting' /\ Reach' \in Nat /\ Reach <= Reach'
  <2>1. CASE at = "items"
    <3>1. Earlier' = Earlier /\ Owner' = Owner /\ Edge' = Edge /\ Reach' = Reach
      BY <2>1 DEF Earlier, Owner, Edge, Reach, Root
    <3>2. text[Peek].tok = "semi"
      BY <2>1
    <3>3. ASSUME NEW q \in Edge + 1 .. last' PROVE text[q].tok \in {"comment", "semi"}
      <4>1. CASE q \in Edge + 1 .. last
        BY <2>1, <4>1 DEF Resting
      <4>2. CASE q \in last + 1 .. last'
        BY <1>2, <3>2, <4>2
      <4> QED
        BY <1>3, <1>14, <4>1, <4>2
    <3>4. Edge <= last'
      BY <1>3, <1>14
    <3>5. Earlier # <<>> => Last(Earlier) \in Heads /\ Last(Earlier) <= last'
      <4>1. Earlier # <<>> => Last(Earlier) \in Heads /\ Last(Earlier) <= last
        BY <2>1 DEF Resting
      <4> QED
        BY <4>1, <1>3, TypeFacts
    <3> QED
      BY <1>4, <1>14, <2>1, <3>1, <3>3, <3>4, <3>5 DEF Resting
  <2>2. CASE at = "item" /\ at' = "finish"
    <3>1. Reach = 4 * last /\ Reach' = 4 * last'
      BY <2>2 DEF Reach, Edge
    <3>2. Reach' \in Nat /\ Reach <= Reach'
      BY <1>3, <3>1, FourTimes
    <3>3. Resting'
      BY <2>2 DEF Resting
    <3> QED
      BY <3>2, <3>3
  <2> QED
    BY <2>1, <2>2
<1>16. Placed'
  BY <1>3, <1>5, <1>14, <1>15, PlacedStill
<1> QED
  BY <1>7, <1>8, <1>9, <1>10, <1>11, <1>12, <1>13, <1>15, <1>16

\* A block opens.
LEMMA EnterBlockStep ==
    ASSUME TwoStreams, Core, EnterBlock, at' # "error"
    PROVE TwoStreams' /\ Core'
<1> USE DEF Core
<1>0. /\ at = "item" /\ at' = "items" /\ text[Peek].tok = "lb" /\ Advance
      /\ depth' = depth + 1 /\ open' = Append(open, Peek)
      /\ UNCHANGED <<text, toks, comments, ci, meta, block>>
      /\ ~ PeekIs("eof") /\ InItem /\ ~ InItem'
  BY DEF EnterBlock, PeekIs, InItem
<1>1. /\ Peek \in 1..Len(text) /\ Peek < Len(text)
      /\ last \in 0..Len(text) /\ last < Peek /\ Remarks(last, Peek)
      /\ ti' \in 1..Len(toks') /\ last' = Peek /\ Peek' \in 1..Len(text)
      /\ last' < Peek' /\ Remarks(last, Peek)'
  BY <1>0, AdvanceIs
<1>2. /\ \A q \in last + 1 .. last' : q = Peek \/ text[q].tok = "comment"
      /\ Nesting(Peek) = depth /\ Nesting(last + 1)' = depth + 1
      /\ \A k \in 1..ci : comments[k] < Peek /\ comments[k] < Peek'
  BY <1>0, TokenIs
<1>3. Len(text) \in Nat /\ last \in Nat /\ last' \in Nat /\ last <= last' /\ Peek \in Nat
  BY <1>1, TypeFacts
<1>4. /\ Heads' = Heads /\ Blocks' = Blocks
      /\ \A p : Nesting(p)' = Nesting(p)
      /\ \A b, p : IsClosing(b, p)' <=> IsClosing(b, p)
      /\ \A p, q : Remarks(p, q)' <=> Remarks(p, q)
  BY <1>0, SameText
<1>5. Peek \in Blocks
  BY <1>0, <1>1 DEF Blocks
<1>6. ASSUME NEW q \in Nat, q <= last' PROVE q <= last \/ q = Peek \/ text[q].tok = "comment"
  BY <1>2, <1>3, <1>6
<1>7. depth \in Nat /\ depth' \in Nat /\ Len(open) = 2 * depth + 1
  BY <1>0 DEF TypeOK, Alternate
<1>8. /\ open' \in Seq(1..Len(text)) /\ Len(open') = 2 * depth'
      /\ \A i \in 1..2 * depth + 1 : open'[i] = open[i]
      /\ open'[2 * depth + 2] = Peek
  <2>1. open \in Seq(1..Len(text))
    BY DEF TypeOK
  <2>2. /\ open' \in Seq(1..Len(text)) /\ Len(open') = Len(open) + 1
        /\ \A i \in 1..Len(open) : open'[i] = open[i]
        /\ open'[Len(open) + 1] = Peek
    BY <1>0, <1>1, <2>1, AppendIs
  <2>3. Len(open) + 1 = 2 * depth + 2 /\ 2 * depth' = 2 * depth + 2
    BY <1>0, <1>7
  <2> QED
    BY <1>7, <2>2, <2>3
<1>9. \A j \in 1..depth : /\ open'[2 * j] = open[2 * j] /\ open'[2 * j - 1] = open[2 * j - 1]
                          /\ 2 * j \in 1..2 * depth + 1 /\ 2 * j - 1 \in 1..2 * depth + 1
  <2> TAKE j \in 1..depth
  <2>1. 2 * j \in 1..2 * depth + 1 /\ 2 * j - 1 \in 1..2 * depth + 1
    BY <1>7
  <2> QED
    BY <1>8, <2>1
<1>10. /\ open'[2 * depth'] = Peek /\ open'[2 * depth' - 1] = open[2 * depth + 1]
       /\ \A j : j \in 1..depth' <=> j \in 1..depth \/ j = depth'
  <2>1. 2 * depth' = 2 * depth + 2 /\ 2 * depth' - 1 = 2 * depth + 1 /\ 2 * depth + 1 \in 1..2 * depth + 1
    BY <1>0, <1>7
  <2> QED
    BY <1>0, <1>7, <1>8, <2>1
<1>11. \A i \in 1..2 * depth + 1 : open[i] <= last /\ open[i] \in Nat
  BY <1>7, TypeFacts DEF Alternate
<1>12. block[Peek] = EmptyBlock
  BY <1>1, <1>3, <1>5 DEF Untouched
<1>13. TwoStreams'
  BY <1>0 DEF TwoStreams
<1>14. TypeOK'
  <2>1. /\ ci \in 0..Len(comments)
        /\ meta \in [Heads -> [end : Nat, leading : SUBSET Nat, trailing : SUBSET Nat,
                               detached : SUBSET Nat]]
        /\ block \in [Blocks \cup {Root} ->
                        [intro : SUBSET Nat, items : Seq(Nat), dangling : SUBSET Nat]]
    BY DEF TypeOK
  <2>2. last' \in 0..Len(text) /\ Root' = Root
    BY <1>1, <1>3 DEF Root
  <2> QED
    BY <1>0, <1>1, <1>4, <1>7, <1>8, <2>1, <2>2 DEF TypeOK
<1>15. Cursors'
  BY <1>0, <1>1, <1>2 DEF Cursors
<1>16. Alternate'
  <2>1. ASSUME NEW j \in 1..depth' PROVE open'[2 * j - 1] \in Heads /\ open'[2 * j] \in Blocks
    <3>1. CASE j \in 1..depth
      BY <1>9, <3>1 DEF Alternate
    <3>2. CASE j = depth'
      BY <1>0, <1>5, <1>10, <3>2 DEF Alternate
    <3> QED
      BY <1>10, <3>1, <3>2
  <2>2. \A i : i \in 1..Len(open') <=> i \in 1..2 * depth + 1 \/ i = 2 * depth + 2
    BY <1>0, <1>7, <1>8, SMTT(20)
  <2>3. ASSUME NEW i \in 1..Len(open'), NEW j \in 1..Len(open'), i < j PROVE open'[i] < open'[j]
    <3>1. i \in 1..2 * depth + 1
      BY <1>7, <2>2, <2>3
    <3>2. CASE j \in 1..2 * depth + 1
      BY <1>7, <1>8, <2>3, <3>1, <3>2 DEF Alternate
    <3>3. CASE j = 2 * depth + 2
      <4>1. open'[i] = open[i] /\ open[i] <= last /\ open[i] \in Nat /\ open'[j] = Peek
        BY <1>8, <1>11, <3>1, <3>3
      <4> QED
        BY <1>1, <1>3, <4>1
    <3> QED
      BY <2>2, <3>2, <3>3
  <2>4. ASSUME NEW i \in 1..Len(open') PROVE open'[i] <= last'
    <3>1. CASE i \in 1..2 * depth + 1
      BY <1>3, <1>8, <1>11, <3>1
    <3>2. CASE i = 2 * depth + 2
      BY <1>1, <1>3, <1>8, <3>2
    <3> QED
      BY <2>2, <3>1, <3>2
  <2> QED
    BY <1>0, <1>4, <1>8, <2>1, <2>3, <2>4 DEF Alternate
<1>17. Matched'
  <2>1. ASSUME NEW j \in 1..depth'
        PROVE /\ Nesting(open'[2 * j]) = j - 1
              /\ \A q \in open'[2 * j] + 1 .. last' : text[q].tok = "rb" => Nesting(q) # j
    <3>1. CASE j \in 1..depth
      <4>1. /\ Nesting(open[2 * j]) = j - 1
            /\ \A q \in open[2 * j] + 1 .. last : text[q].tok = "rb" => Nesting(q) # j
        BY <3>1 DEF Matched
      <4>2. open'[2 * j] = open[2 * j] /\ open[2 * j] \in Nat
        BY <1>9, <1>11, <3>1
      <4>3. ASSUME NEW q \in open[2 * j] + 1 .. last', text[q].tok = "rb" PROVE q \in open[2 * j] + 1 .. last
        <5>1. q \in Nat /\ q <= last'
          BY <1>3, <4>2
        <5>2. q <= last
          BY <1>0, <1>6, <4>3, <5>1
        <5> QED
          BY <1>3, <4>2, <5>2
      <4> QED
        BY <4>1, <4>2, <4>3
    <3>2. CASE j = depth'
      <4>1. open'[2 * j] = Peek /\ j - 1 = depth
        BY <1>0, <1>7, <1>10, <3>2
      <4>2. \A q : q \notin Peek + 1 .. last'
        BY <1>1, <1>3
      <4> QED
        BY <1>2, <4>1, <4>2
    <3> QED
      BY <1>10, <2>1, <3>1, <3>2
  <2>2. ASSUME NEW b \in Blocks, b <= last'
        PROVE (\E j \in 1..depth' : open'[2 * j] = b) \/ \E p \in b+1..last' : IsClosing(b, p)
    <3>1. b \in Nat /\ text[b].tok = "lb"
      BY TypeFacts DEF Blocks
    <3>2. CASE b = Peek
      BY <1>10, <3>2
    <3>3. CASE b <= last
      <4>1. (\E j \in 1..depth : open[2 * j] = b) \/ \E p \in b+1..last : IsClosing(b, p)
        BY <3>3 DEF Matched
      <4>2. b+1..last \subseteq b+1..last'
        BY <1>3, <3>1
      <4>3. \A j \in 1..depth : j \in 1..depth' /\ open'[2 * j] = open[2 * j]
        BY <1>9, <1>10
      <4> QED
        BY <4>1, <4>2, <4>3
    <3> QED
      BY <1>6, <2>2, <3>1, <3>2, <3>3
  <2>3. Nesting(last + 1)' = depth'
    BY <1>0, <1>2
  <2> QED
    BY <1>0, <1>4, <2>1, <2>2, <2>3 DEF Matched
<1>18. Introduced'
  <2>1. ASSUME NEW b \in Blocks, b <= last'
        PROVE \E q \in 1..b-1 : text[q].tok \in {"head", "rb"} /\ Remarks(q, b)
    <3>1. b \in Nat /\ text[b].tok = "lb"
      BY TypeFacts DEF Blocks
    <3>2. CASE b = Peek
      <4>1. last # 0 /\ text[last].tok \in {"head", "rb"}
        BY <1>0 DEF Cursors
      <4>2. last \in 1..b-1
        BY <1>1, <1>3, <3>2, <4>1
      <4> QED
        BY <1>1, <3>2, <4>1, <4>2
    <3>3. CASE b <= last
      BY <3>3 DEF Introduced
    <3> QED
      BY <1>6, <2>1, <3>1, <3>2, <3>3
  <2> QED
    BY <1>0, <1>4, <2>1 DEF Introduced
<1>19. Untouched'
  <2>1. \A h \in Heads : h > last' => meta[h] = EmptyMeta
    BY <1>3, TypeFacts DEF Untouched
  <2>2. \A b \in Blocks : b > last' => block[b] = EmptyBlock
    BY <1>3, TypeFacts DEF Untouched
  <2>3. ASSUME NEW j \in 1..depth'
        PROVE /\ meta[open'[2 * j - 1]].trailing = {} /\ meta[open'[2 * j - 1]].detached = {}
              /\ block[open'[2 * j]].dangling = {}
    <3>1. CASE j \in 1..depth
      BY <1>9, <3>1 DEF Untouched
    <3>2. CASE j = depth'
      <4>1. meta[open[2 * depth + 1]].trailing = {} /\ meta[open[2 * depth + 1]].detached = {}
        BY <1>0 DEF Untouched
      <4>2. block[Peek].dangling = {}
        BY <1>12 DEF EmptyBlock
      <4> QED
        BY <1>10, <3>2, <4>1, <4>2
    <3> QED
      BY <1>10, <3>1, <3>2
  <2>4. block[Root].dangling = {}
    BY <1>0 DEF Untouched
  <2>5. EmptyMeta' = EmptyMeta /\ EmptyBlock' = EmptyBlock /\ Root' = Root
    BY DEF EmptyMeta, EmptyBlock, Root
  <2> QED
    BY <1>0, <1>4, <2>1, <2>2, <2>3, <2>4, <2>5 DEF Untouched
<1>20. /\ Owner' = Peek /\ Earlier' = <<>> /\ Edge' = Peek /\ Reach' = 4 * Peek
  <2>1. open' # <<>> /\ open'[Len(open')] = Peek
    BY <1>0, <1>7, <1>8, <1>10
  <2>2. Owner' = Peek
    BY <2>1 DEF Owner
  <2>3. block'[Peek].items = <<>>
    BY <1>0, <1>12 DEF EmptyBlock
  <2>4. Earlier' = <<>>
    BY <2>2, <2>3 DEF Earlier
  <2>5. Edge' = Peek
    BY <1>0, <2>2, <2>4 DEF Edge
  <2> QED
    BY <2>2, <2>4, <2>5 DEF Reach
<1>21. Resting'
  <2>1. \A q : q \notin Peek + 1 .. last'
    BY <1>1, <1>3
  <2>2. block'[Peek].intro = {}
    BY <1>0, <1>12 DEF EmptyBlock
  <2>3. Peek <= last'
    BY <1>1, <1>3
  <2> QED
    BY <1>20, <2>1, <2>2, <2>3 DEF Resting
<1>22. Placed'
  <2>1. Reach = 4 * last
    BY <1>0 DEF Reach, Edge
  <2>2. Reach \in Nat /\ Reach' \in Nat /\ Reach <= Reach'
    BY <1>1, <1>3, <1>20, <2>1, FourTimes
  <2>3. \A q \in last + 1 .. last' : text[q].tok \in {"lb", "rb"} => \A k \in 1..ci : comments[k] < q
    BY <1>2
  <2>4. \A q \in last + 1 .. last' : text[q].tok \notin {"head", "rb"}
    BY <1>0, <1>2
  <2> QED
    BY <1>0, <1>3, <2>2, <2>3, <2>4, PlacedStill
<1> QED
  BY <1>13, <1>14, <1>15, <1>16, <1>17, <1>18, <1>19, <1>21, <1>22

LEMMA FrontIs ==
    ASSUME NEW S, NEW s \in Seq(S), Len(s) >= 1
    PROVE /\ Front(s) \in Seq(S) /\ Len(Front(s)) = Len(s) - 1
          /\ \A i \in 1..(Len(s) - 1) : Front(s)[i] = s[i]
<1>1. ASSUME NEW n \in Nat, n <= Len(s)
      PROVE /\ SubSeq(s, 1, n) \in Seq(S) /\ Len(SubSeq(s, 1, n)) = n
            /\ \A i \in 1..n : SubSeq(s, 1, n)[i] = s[i]
  BY <1>1
<1>2. Len(s) \in Nat /\ Len(s) - 1 \in Nat /\ Len(s) - 1 <= Len(s)
  OBVIOUS
<1> QED
  BY <1>1, <1>2 DEF Front

\* The comments that trail an item are the next ones.
LEMMA TrailingIs ==
    ASSUME TwoStreams, TypeOK, Cursors
    PROVE \E n \in ci..Len(comments) :
            /\ Trailing = ci + 1 .. n /\ Cardinality(Trailing) = n - ci
            /\ \A k \in 1..n : comments[k] < Peek
<1>1. /\ ti \in 1..Len(toks) /\ ci \in 0..Len(comments) /\ Len(comments) \in Nat
      /\ \A k \in 1..ci : comments[k] < Peek
  BY TextIs DEF TypeOK, Cursors
<1>2. PICK m \in ci..Len(comments) :
        /\ Pending = ci + 1 .. m
        /\ \A k \in Streams : comments[k] < Peek <=> k <= m
  BY <1>1, PendingIs
<1>3. Trailing \in SUBSET (ci + 1 .. m)
  BY <1>2 DEF Trailing
<1>4. \A k \in Trailing : \A j \in ci + 1 .. k : j \in Trailing
  <2> SUFFICES ASSUME NEW k \in Trailing, NEW j \in ci + 1 .. k PROVE j \in Trailing
    OBVIOUS
  <2>1. k \in Pending /\ \A i \in Pending : i <= k => text[comments[i]].first = text[last].first
    BY DEF Trailing
  <2>2. k \in ci + 1 .. m /\ j \in Pending
    BY <1>1, <1>2, <2>1
  <2>3. \A i \in Pending : i <= j => i <= k
    BY <1>1, <1>2, <2>2
  <2> QED
    BY <2>1, <2>2, <2>3 DEF Trailing
<1>5. PICK n \in ci..m : Trailing = ci + 1 .. n /\ Cardinality(Trailing) = n - ci
  <2>1. ci \in Nat /\ m \in Nat /\ ci <= m
    BY <1>1
  <2> QED
    BY <1>3, <1>4, <2>1, RunIs
<1>6. \A k \in 1..n : k \in Streams /\ k <= m
  BY <1>1 DEF Streams
<1> QED
  BY <1>1, <1>2, <1>5, <1>6

\* An item ends, with the comments on the line it ends on.
LEMMA FinishItemStep ==
    ASSUME TwoStreams, Core, FinishItem
    PROVE TwoStreams' /\ Core'
<1> USE DEF Core
<1> DEFINE H == Owner
           O == Outer
<1>0. /\ InItem /\ at # "items" /\ at # "done" /\ at' = "items" /\ ~ InItem'
      /\ ci' = ci + Cardinality(Trailing)
      /\ meta' = [meta EXCEPT ![H].end = last, ![H].trailing = Trailing]
      /\ open' = Front(open)
      /\ block' = [block EXCEPT ![O].items = Append(@, H)]
      /\ UNCHANGED <<text, toks, comments, ti, last, depth>>
  BY DEF FinishItem, WithoutSeparator, InItem, Take
<1>1. /\ H = open[2 * depth + 1] /\ H \in Heads /\ Len(open) = 2 * depth + 1
      /\ O = IF depth = 0 THEN Root ELSE open[2 * depth]
      /\ O \in Blocks \cup {Root} /\ O < H /\ H <= last
  BY <1>0, OwnerIs
<1> HIDE DEF H, O
<1>2. PICK n \in ci..Len(comments) :
        /\ Trailing = ci + 1 .. n /\ Cardinality(Trailing) = n - ci
        /\ \A k \in 1..n : comments[k] < Peek
  BY TrailingIs
<1>3. /\ Len(text) \in Nat /\ last \in Nat /\ depth \in Nat
      /\ Len(comments) \in Nat /\ ci \in Nat /\ n \in Nat /\ ci <= n
  BY TypeFacts, TextIs DEF TypeOK
<1>4. ci' = n
  BY <1>0, <1>2, <1>3
<1>5. /\ Heads' = Heads /\ Blocks' = Blocks
      /\ \A p : Nesting(p)' = Nesting(p)
      /\ \A b, p : IsClosing(b, p)' <=> IsClosing(b, p)
      /\ \A p, q : Remarks(p, q)' <=> Remarks(p, q)
      /\ Root' = Root /\ EmptyMeta' = EmptyMeta /\ EmptyBlock' = EmptyBlock
      /\ Peek' = Peek /\ Streams' = Streams
  BY <1>0, SameText DEF Root, EmptyMeta, EmptyBlock, Peek, Streams
<1>6. /\ meta' \in [Heads -> [end : Nat, leading : SUBSET Nat, trailing : SUBSET Nat,
                              detached : SUBSET Nat]]
      /\ \A h \in Heads : h # H => meta'[h] = meta[h]
      /\ meta'[H].end = last /\ meta'[H].trailing = Trailing
      /\ meta'[H].leading = meta[H].leading /\ meta'[H].detached = meta[H].detached
  <2>1. meta \in [Heads -> [end : Nat, leading : SUBSET Nat, trailing : SUBSET Nat,
                            detached : SUBSET Nat]]
    BY DEF TypeOK
  <2>2. Trailing \in SUBSET Nat
    BY <1>2, <1>3
  <2> DEFINE R == [end : Nat, leading : SUBSET Nat, trailing : SUBSET Nat, detached : SUBSET Nat]
             new == [meta[H] EXCEPT !.end = last, !.trailing = Trailing]
  <2>3. last \in Nat /\ H \in Heads
    BY <1>1, <1>3
  <2>4. /\ new \in R /\ new.end = last /\ new.trailing = Trailing
        /\ new.leading = meta[H].leading /\ new.detached = meta[H].detached
    BY <2>1, <2>2, <2>3
  <2>5. meta' = [meta EXCEPT ![H] = new]
    BY <1>0, <2>1, <2>3
  <2> HIDE DEF new, R
  <2>6. meta' \in [Heads -> R] /\ meta'[H] = new /\ \A h \in Heads : h # H => meta'[h] = meta[h]
    BY <2>1, <2>3, <2>4, <2>5 DEF R
  <2> QED
    BY <2>4, <2>6 DEF R
<1>7. /\ block' \in [Blocks \cup {Root} ->
                       [intro : SUBSET Nat, items : Seq(Nat), dangling : SUBSET Nat]]
      /\ \A b \in Blocks \cup {Root} : /\ b # O => block'[b] = block[b]
                                       /\ block'[b].intro = block[b].intro
                                       /\ block'[b].dangling = block[b].dangling
      /\ block'[O].items = Append(block[O].items, H)
  <2>1. block \in [Blocks \cup {Root} ->
                     [intro : SUBSET Nat, items : Seq(Nat), dangling : SUBSET Nat]]
    BY DEF TypeOK
  <2>2. H \in Nat /\ block[O].items \in Seq(Nat)
    BY <1>1, TypeFacts
  <2>3. Append(block[O].items, H) \in Seq(Nat)
    BY <2>2, AppendIs
  <2>4. /\ block' = [block EXCEPT ![O] = [block[O] EXCEPT !.items = Append(block[O].items, H)]]
        /\ block[O] \in [intro : SUBSET Nat, items : Seq(Nat), dangling : SUBSET Nat]
    BY <1>0, <1>1, <2>1
  <2> DEFINE with == [block[O] EXCEPT !.items = Append(block[O].items, H)]
  <2>5. /\ with \in [intro : SUBSET Nat, items : Seq(Nat), dangling : SUBSET Nat]
        /\ with.intro = block[O].intro /\ with.dangling = block[O].dangling
        /\ with.items = Append(block[O].items, H)
    BY <2>3, <2>4
  <2>6. block' = [block EXCEPT ![O] = with]
    BY <2>4
  <2> HIDE DEF with
  <2>7. block'[O] = with /\ \A b \in Blocks \cup {Root} : b # O => block'[b] = block[b]
    BY <1>1, <2>1, <2>6
  <2>8. block' \in [Blocks \cup {Root} ->
                       [intro : SUBSET Nat, items : Seq(Nat), dangling : SUBSET Nat]]
    BY <1>1, <2>1, <2>5, <2>6
  <2> QED
    BY <2>5, <2>7, <2>8
<1>8. /\ open' \in Seq(1..Len(text)) /\ Len(open') = 2 * depth
      /\ \A i \in 1..2 * depth : open'[i] = open[i]
  <2>1. open \in Seq(1..Len(text)) /\ Len(open) >= 1 /\ Len(open) - 1 = 2 * depth
    BY <1>1, <1>3 DEF TypeOK
  <2> QED
    BY <1>0, <2>1, FrontIs
<1>9. \A j \in 1..depth : /\ open'[2 * j] = open[2 * j] /\ open'[2 * j - 1] = open[2 * j - 1]
                          /\ open[2 * j] \in Blocks /\ open[2 * j - 1] \in Heads
                          /\ open[2 * j - 1] # H
  <2> TAKE j \in 1..depth
  <2>1. 2 * j \in 1..2 * depth /\ 2 * j - 1 \in 1..2 * depth
    BY <1>3
  <2>2. open[2 * j] \in Blocks /\ open[2 * j - 1] \in Heads
    BY DEF Alternate
  <2>3. 2 * j - 1 \in 1..Len(open) /\ 2 * depth + 1 \in 1..Len(open) /\ 2 * j - 1 < 2 * depth + 1
    BY <1>1, <1>3
  <2>4. open[2 * j - 1] < H /\ H \in Nat
    BY <1>1, <2>3, TypeFacts DEF Alternate
  <2>5. open[2 * j - 1] # H
    BY <2>4
  <2> QED
    BY <1>8, <2>1, <2>2, <2>5
<1>10. meta[H].trailing = {} /\ meta[H].detached = {}
  BY <1>0, <1>1 DEF Untouched
<1>11. TwoStreams'
  BY <1>0 DEF TwoStreams
<1>12. TypeOK'
  <2>1. n \in 0..Len(comments)
    BY <1>3
  <2>2. ti \in 1..Len(toks) /\ last \in 0..Len(text)
    BY DEF TypeOK
  <2> QED
    BY <1>0, <1>3, <1>4, <1>5, <1>6, <1>7, <1>8, <2>1, <2>2 DEF TypeOK
<1>13. Cursors'
  BY <1>0, <1>2, <1>4, <1>5 DEF Cursors
<1>14. Alternate'
  <2>1. \A i : i \in 1..2 * depth => i \in 1..Len(open)
    BY <1>1, <1>3
  <2> QED
    BY <1>0, <1>5, <1>8, <1>9, <2>1 DEF Alternate
<1>15. Matched'
  BY <1>0, <1>5, <1>9 DEF Matched
<1>16. Introduced'
  BY <1>0, <1>5 DEF Introduced
<1>17. Untouched'
  <2>1. ASSUME NEW h \in Heads, h > last PROVE meta'[h] = EmptyMeta
    <3>1. h # H
      BY <1>1, <2>1, TypeFacts
    <3> QED
      BY <1>6, <2>1, <3>1 DEF Untouched
  <2>2. ASSUME NEW b \in Blocks, b > last PROVE block'[b] = EmptyBlock
    <3>1. b # O
      <4>1. O <= last
        <5>1. O \in Nat /\ H \in Nat
          BY <1>1, TypeFacts DEF Root
        <5> QED
          BY <1>1, <1>3, <5>1
      <4>2. O \in Nat /\ b \in Nat
        BY <1>1, TypeFacts DEF Root
      <4> QED
        BY <1>3, <2>2, <4>1, <4>2
    <3> QED
      BY <1>7, <2>2, <3>1 DEF Untouched
  <2>3. \A j \in 1..depth : /\ meta'[open'[2 * j - 1]].trailing = {}
                            /\ meta'[open'[2 * j - 1]].detached = {}
                            /\ block'[open'[2 * j]].dangling = {}
    <3> SUFFICES ASSUME NEW j \in 1..depth
                 PROVE /\ meta'[open[2 * j - 1]].trailing = {} /\ meta'[open[2 * j - 1]].detached = {}
                       /\ block'[open[2 * j]].dangling = {}
      BY <1>9
    <3>1. /\ meta[open[2 * j - 1]].trailing = {} /\ meta[open[2 * j - 1]].detached = {}
          /\ block[open[2 * j]].dangling = {}
      BY DEF Untouched
    <3>2. meta'[open[2 * j - 1]] = meta[open[2 * j - 1]]
      BY <1>6, <1>9
    <3>3. block'[open[2 * j]].dangling = block[open[2 * j]].dangling
      BY <1>7, <1>9
    <3> QED
      BY <3>1, <3>2, <3>3
  <2>4. block'[Root].dangling = {}
    BY <1>0, <1>7 DEF Untouched
  <2> QED
    BY <1>0, <1>5, <2>1, <2>2, <2>3, <2>4 DEF Untouched
<1>18. Owner' = O
  <2>1. CASE depth = 0
    BY <1>0, <1>1, <1>8, <2>1 DEF Owner, Root
  <2>2. CASE depth # 0
    <3>1. open' # <<>> /\ Len(open') = 2 * depth /\ 2 * depth \in 1..2 * depth
      BY <1>3, <1>8, <2>2
    <3>2. Owner' = open'[2 * depth]
      BY <3>1 DEF Owner
    <3> QED
      BY <1>1, <1>8, <2>2, <3>1, <3>2
  <2> QED
    BY <2>1, <2>2
<1>19. /\ Earlier' # <<>> /\ Last(Earlier)' = H
       /\ Edge' = last /\ Reach' = 4 * last + 2 /\ Reach = 4 * last
  <2>1. Earlier' = Append(block[O].items, H)
    BY <1>7, <1>18 DEF Earlier
  <2>2. block[O].items \in Seq(Nat) /\ H \in Nat
    BY <1>1, TypeFacts
  <2>3. Earlier' # <<>> /\ Last(Earlier)' = H
    <3>1. /\ Len(Append(block[O].items, H)) = Len(block[O].items) + 1 /\ Len(block[O].items) \in Nat
          /\ Append(block[O].items, H)[Len(block[O].items) + 1] = H
      BY <2>2, AppendIs
    <3>2. Append(block[O].items, H) # <<>>
      <4>1. Len(<<>>) = 0 /\ Len(block[O].items) + 1 # 0
        BY <3>1
      <4> QED
        BY <3>1, <4>1
    <3> QED
      BY <2>1, <3>1, <3>2 DEF Last
  <2>4. Edge' = last
    BY <1>0, <1>6, <2>3 DEF Edge
  <2>5. Reach' = 4 * last + 2 /\ Reach = 4 * last
    BY <1>0, <2>3, <2>4 DEF Reach, Edge
  <2> QED
    BY <2>3, <2>4, <2>5
<1>20. Resting'
  <2>1. \A q : q \notin last + 1 .. last
    BY <1>3
  <2>2. last <= last
    BY <1>3
  <2> QED
    BY <1>0, <1>1, <1>5, <1>6, <1>10, <1>18, <1>19, <2>1, <2>2 DEF Resting
<1>21. Placed'
  <2>1. \A k : k \notin Trailing <=> k \notin ci + 1 .. n
    BY <1>2
  <2>2. ASSUME NEW k, k \notin Trailing PROVE Places(k)' = Places(k)
    <3>1. ASSUME NEW h
          PROVE /\ Leads(k, h)' <=> Leads(k, h)
                /\ Trails(k, h)' <=> Trails(k, h)
                /\ Follows(k, h)' <=> Follows(k, h)
                /\ Trails(k, h) \/ Follows(k, h) => meta'[h].end = meta[h].end
      <4>1. CASE h = H
        BY <1>1, <1>5, <1>6, <1>10, <2>2, <4>1 DEF Leads, Trails, Follows
      <4>2. CASE h # H
        BY <1>5, <1>6, <4>2 DEF Leads, Trails, Follows
      <4> QED
        BY <4>1, <4>2
    <3>2. \A b : (Introduces(k, b)' <=> Introduces(k, b)) /\ (Dangles(k, b)' <=> Dangles(k, b))
      BY <1>5, <1>7 DEF Introduces, Dangles
    <3> QED
      BY <1>0, <3>1, <3>2, PlacesKept
  <2>3. ASSUME NEW k \in ci + 1 .. n PROVE Places(k)' = {4 * last + 2}
    <3>1. k \in Streams /\ k > ci
      BY <1>3 DEF Streams
    <3>2. Places(k) = {}
      BY <3>1 DEF Placed
    <3>3. /\ \A h : ~ Leads(k, h) /\ ~ Trails(k, h) /\ ~ Follows(k, h)
          /\ \A b : ~ Introduces(k, b) /\ ~ Dangles(k, b)
      BY <3>2, Nowhere
    <3>4. ASSUME NEW h PROVE ~ Leads(k, h)' /\ ~ Follows(k, h)' /\ (Trails(k, h)' <=> h = H)
      <4>1. CASE h = H
        BY <1>1, <1>2, <1>5, <1>6, <3>3, <4>1 DEF Leads, Trails, Follows
      <4>2. CASE h # H
        BY <1>5, <1>6, <3>3, <4>2 DEF Leads, Trails, Follows
      <4> QED
        BY <4>1, <4>2
    <3>5. \A b : ~ Introduces(k, b)' /\ ~ Dangles(k, b)'
      BY <1>5, <1>7, <3>3 DEF Introduces, Dangles
    <3>6. \A p : Has(k, p)' <=> p = 4 * last + 2
      BY <1>6, <3>4, <3>5 DEF Has
    <3>7. \A p : (p \in Places(k))' <=> p = 4 * last + 2
      BY <3>6, PlacesAreNext
    <3> QED
      BY <3>7
  <2>4. \A k \in 1..ci : Places(k)' = Places(k)
    <3> SUFFICES ASSUME NEW k \in 1..ci PROVE k \notin ci + 1 .. n
      BY <2>1, <2>2
    <3> QED
      BY <1>3
  <2>5. \A k \in Streams : k > ci' => Places(k)' = {}
    <3> SUFFICES ASSUME NEW k \in Streams, k > ci' PROVE Places(k)' = {}
      OBVIOUS
    <3>1. k \notin ci + 1 .. n /\ k > ci
      BY <1>3, <1>4 DEF Streams
    <3> QED
      BY <2>1, <2>2, <3>1 DEF Placed
  <2>6. 4 * last \in Nat /\ 4 * last + 2 \in Nat /\ 4 * last <= 4 * last + 2
    BY <1>3
  <2>7. \A k \in ci+1..ci' : Places(k)' = {4 * last + 2}
    BY <1>4, <2>3
  <2>8. \A k \in ci+1..ci' : \E p \in Nat : Places(k)' = {p} /\ Reach <= p /\ p <= Reach'
    BY <1>19, <2>6, <2>7
  <2>9. \A j, k \in ci+1..ci' : j < k => \A p \in Places(j)', q \in Places(k)' : p <= q
    BY <2>6, <2>7
  <2>10. \A q \in 1..last : \A k \in ci+1..ci' : \A p \in Places(k)' : p > 4 * q
    <3> SUFFICES ASSUME NEW q \in 1..last PROVE 4 * last + 2 > 4 * q
      BY <2>7
    <3> QED
      BY <1>3
  <2>11. \A q : q \notin last + 1 .. last'
    BY <1>0, <1>3
  <2>12. ci \in 0..Len(comments) /\ ci' \in ci..Len(comments) /\ last' \in Nat /\ last <= last'
    BY <1>0, <1>3, <1>4
  <2> QED
    BY <1>0, <1>3, <1>19, <2>4, <2>5, <2>6, <2>8, <2>9, <2>10, <2>11, <2>12, Placing
<1> QED
  BY <1>11, <1>12, <1>13, <1>14, <1>15, <1>16, <1>17, <1>20, <1>21

\* What is pending at the end of a block, or of the file, dangles there.
LEMMA DanglingIs ==
    ASSUME TwoStreams, Core, at = "items", Advance, Take(Pending),
           UNCHANGED <<text, toks, comments, meta>>,
           NEW B \in Blocks \cup {Root}, block' = [block EXCEPT ![B].dangling = Pending],
           block[B].dangling = {}, Closes(B) = Peek, Reach' = 4 * Peek
    PROVE /\ Placed'
          /\ ci' \in 0..Len(comments) /\ \A k \in Streams : comments[k] < Peek <=> k <= ci'
          /\ block' \in [Blocks \cup {Root} ->
                           [intro : SUBSET Nat, items : Seq(Nat), dangling : SUBSET Nat]]
          /\ \A b \in Blocks \cup {Root} : b # B => block'[b] = block[b]
<1> USE DEF Core
<1>1. /\ ti \in 1..Len(toks) /\ ci \in 0..Len(comments) /\ Len(comments) \in Nat
      /\ \A k \in 1..ci : comments[k] < Peek
      /\ last < Peek /\ Remarks(last, Peek) /\ last \in Nat /\ Len(text) \in Nat
      /\ last' = Peek
  BY TextIs, TypeFacts DEF TypeOK, Cursors, Advance
<1>2. PICK m \in ci..Len(comments) :
        /\ Pending = ci + 1 .. m /\ Cardinality(Pending) = m - ci
        /\ \A k \in Streams : comments[k] < Peek <=> k <= m
  BY <1>1, PendingIs
<1>3. m \in Nat /\ ci \in Nat /\ ci <= m /\ ci' = m /\ m \in 0..Len(comments)
  BY <1>1, <1>2 DEF Take
<1>4. Peek \in 1..Len(text) /\ Peek \in Nat
  BY <1>1, PeekIsToken
<1>5. /\ Heads' = Heads /\ Blocks' = Blocks /\ Root' = Root /\ Streams' = Streams
      /\ \A b : Closes(b)' = Closes(b)
  BY SameText DEF Root, Streams, Closes
<1>6. /\ block' \in [Blocks \cup {Root} ->
                       [intro : SUBSET Nat, items : Seq(Nat), dangling : SUBSET Nat]]
      /\ \A b \in Blocks \cup {Root} : b # B => block'[b] = block[b]
      /\ block'[B].intro = block[B].intro /\ block'[B].dangling = Pending
  <2>1. block \in [Blocks \cup {Root} ->
                     [intro : SUBSET Nat, items : Seq(Nat), dangling : SUBSET Nat]]
    BY DEF TypeOK
  <2>2. Pending \in SUBSET Nat
    BY <1>2, <1>3
  <2> QED
    BY <2>1, <2>2
<1>7. ASSUME NEW k, k \notin Pending PROVE Places(k)' = Places(k)
  <2>1. \A h : /\ Leads(k, h)' <=> Leads(k, h)
               /\ Trails(k, h)' <=> Trails(k, h)
               /\ Follows(k, h)' <=> Follows(k, h)
    BY <1>5 DEF Leads, Trails, Follows
  <2>2. ASSUME NEW b PROVE (Introduces(k, b)' <=> Introduces(k, b)) /\ (Dangles(k, b)' <=> Dangles(k, b))
    <3>1. CASE b = B
      BY <1>5, <1>6, <1>7, <3>1 DEF Introduces, Dangles
    <3>2. CASE b # B
      BY <1>5, <1>6, <3>2 DEF Introduces, Dangles
    <3> QED
      BY <3>1, <3>2
  <2> QED
    BY <2>1, <2>2, PlacesKept
<1>8. ASSUME NEW k \in ci + 1 .. m PROVE Places(k)' = {4 * Peek}
  <2>1. k \in Streams /\ k > ci
    BY <1>1, <1>3 DEF Streams
  <2>2. Places(k) = {}
    BY <2>1 DEF Placed
  <2>3. /\ \A h : ~ Leads(k, h) /\ ~ Trails(k, h) /\ ~ Follows(k, h)
        /\ \A b : ~ Introduces(k, b) /\ ~ Dangles(k, b)
    BY <2>2, Nowhere
  <2>4. \A h : ~ Leads(k, h)' /\ ~ Follows(k, h)' /\ ~ Trails(k, h)'
    BY <1>5, <2>3 DEF Leads, Trails, Follows
  <2>5. ASSUME NEW b PROVE ~ Introduces(k, b)' /\ (Dangles(k, b)' <=> b = B)
    <3>1. CASE b = B
      BY <1>2, <1>5, <1>6, <2>3, <3>1 DEF Introduces, Dangles
    <3>2. CASE b # B
      BY <1>5, <1>6, <2>3, <3>2 DEF Introduces, Dangles
    <3> QED
      BY <3>1, <3>2
  <2>6. Closes(B)' = Peek
    BY <1>5
  <2>7. \A p : Has(k, p)' <=> p = 4 * Peek
    BY <2>4, <2>5, <2>6 DEF Has
  <2>8. \A p : (p \in Places(k))' <=> p = 4 * Peek
    BY <2>7, PlacesAreNext
  <2> QED
    BY <2>8
<1>9. Edge \in Nat /\ Edge <= last /\ Reach \in Nat /\ (Reach = 4 * Edge \/ Reach = 4 * Edge + 2)
  BY EdgeIs
<1>10. Reach' \in Nat /\ Reach <= Reach' /\ 4 * Peek \in Nat /\ last' \in Nat /\ last <= last'
  <2>1. Edge < Peek
    BY <1>1, <1>4, <1>9
  <2>2. 4 * Edge + 3 < 4 * Peek /\ 4 * Peek \in Nat /\ 4 * Edge \in Nat
    BY <1>4, <1>9, <2>1, FourTimes
  <2>3. last' \in Nat /\ last <= last'
    BY <1>1, <1>4
  <2>4. Reach <= 4 * Peek
    BY <1>9, <2>2
  <2> QED
    BY <2>2, <2>3, <2>4
<1>11. \A k \in 1..ci : Places(k)' = Places(k)
  <2> SUFFICES ASSUME NEW k \in 1..ci PROVE k \notin ci + 1 .. m
    BY <1>2, <1>7
  <2> QED
    BY <1>3
<1>12. \A k \in Streams : k > ci' => Places(k)' = {}
  <2> SUFFICES ASSUME NEW k \in Streams, k > ci' PROVE Places(k)' = {}
    OBVIOUS
  <2>1. k \notin ci + 1 .. m /\ k > ci
    BY <1>1, <1>3 DEF Streams
  <2> QED
    BY <1>2, <1>7, <2>1 DEF Placed
<1>13. \A k \in ci+1..ci' : Places(k)' = {4 * Peek}
  BY <1>3, <1>8
<1>14. \A k \in ci+1..ci' : \E p \in Nat : Places(k)' = {p} /\ Reach <= p /\ p <= Reach'
  BY <1>10, <1>13
<1>15. \A j, k \in ci+1..ci' : j < k => \A p \in Places(j)', q \in Places(k)' : p <= q
  BY <1>10, <1>13
<1>16. \A q \in 1..last : \A k \in ci+1..ci' : \A p \in Places(k)' : p > 4 * q
  <2> SUFFICES ASSUME NEW q \in 1..last PROVE 4 * Peek > 4 * q
    BY <1>13
  <2> QED
    BY <1>1, <1>4
<1>17. \A q \in last + 1 .. last' : q = Peek \/ text[q].tok = "comment"
  <2> SUFFICES ASSUME NEW q \in last + 1 .. last', q # Peek PROVE text[q].tok = "comment"
    OBVIOUS
  <2>1. q \in last + 1 .. Peek - 1
    BY <1>1, <1>4
  <2> QED
    BY <1>1, <2>1 DEF Remarks
<1>18. \A k \in 1..ci' : comments[k] < Peek
  <2> SUFFICES ASSUME NEW k \in 1..ci' PROVE k \in Streams /\ k <= m
    BY <1>2
  <2> QED
    BY <1>1, <1>3 DEF Streams
<1>19. \A q \in last+1..last' : text[q].tok \in {"lb", "rb"} => \A k \in 1..ci' : comments[k] < q
  BY <1>17, <1>18
<1>20. \A q \in last+1..last' : text[q].tok \in {"head", "rb"} =>
              /\ \A k \in Streams : comments[k] < q => k <= ci'
              /\ Reach' <= 4 * q
  BY <1>2, <1>3, <1>10, <1>17
<1>21. ci' \in ci..Len(comments)
  BY <1>3
<1>22. Placed'
  BY <1>1, <1>9, <1>10, <1>11, <1>12, <1>14, <1>15, <1>16, <1>19, <1>20, <1>21, Placing
<1> QED
  BY <1>2, <1>3, <1>6, <1>22

\* The end of the file.
LEMMA EndFileStep ==
    ASSUME TwoStreams, Core, EndBlock, open = <<>>
    PROVE TwoStreams' /\ Core'
<1> USE DEF Core
<1>0. /\ at = "items" /\ at' = "done" /\ PeekIs("eof") /\ Advance /\ Take(Pending)
      /\ block' = [block EXCEPT ![Root].dangling = Pending]
      /\ UNCHANGED <<text, toks, comments, meta, open, depth>>
      /\ ~ InItem /\ ~ InItem'
  BY DEF EndBlock, Closer, InItem, Owner
<1>1. /\ depth = 0 /\ Len(open) = 0 /\ ti' = ti /\ last' = Peek /\ Peek' = Peek
  <2>1. depth = 0 /\ Len(open) = 0
    BY <1>0, OwnerIs
  <2> QED
    BY <1>0, <2>1 DEF Advance, Peek
<1>2. /\ Len(text) \in Nat /\ last \in Nat /\ last < Peek /\ Remarks(last, Peek)
      /\ ti \in 1..Len(toks) /\ Len(comments) \in Nat
  BY <1>0, TypeFacts, TextIs DEF TypeOK, Cursors
<1>3. Peek = Len(text) /\ text[Peek].tok = "eof" /\ Peek \in 1..Len(text)
  BY <1>0, <1>2, PeekIsToken DEF PeekIs
<1>4. /\ Heads' = Heads /\ Blocks' = Blocks
      /\ \A p : Nesting(p)' = Nesting(p)
      /\ \A b, p : IsClosing(b, p)' <=> IsClosing(b, p)
      /\ \A p, q : Remarks(p, q)' <=> Remarks(p, q)
      /\ Root' = Root /\ EmptyMeta' = EmptyMeta /\ EmptyBlock' = EmptyBlock
  BY <1>0, SameText DEF Root, EmptyMeta, EmptyBlock
<1>5. Closes(Root) = Peek
  BY <1>3 DEF Closes
<1>6. Reach' = 4 * Peek
  BY <1>0, <1>1 DEF Reach, Edge
<1>7. block[Root].dangling = {}
  BY <1>0 DEF Untouched
<1>8. /\ Placed'
      /\ ci' \in 0..Len(comments) /\ \A k \in Streams : comments[k] < Peek <=> k <= ci'
      /\ block' \in [Blocks \cup {Root} ->
                       [intro : SUBSET Nat, items : Seq(Nat), dangling : SUBSET Nat]]
      /\ \A b \in Blocks \cup {Root} : b # Root => block'[b] = block[b]
  BY <1>0, <1>5, <1>6, <1>7, DanglingIs
<1>9. ci' = Len(comments)
  <2>1. ASSUME NEW k \in Streams PROVE comments[k] < Peek
    <3>1. comments[k] \in 1..Len(text) /\ text[comments[k]].tok = "comment"
      BY TextIs
    <3>2. comments[k] # Peek
      BY <1>3, <3>1
    <3> QED
      BY <1>2, <1>3, <3>1, <3>2
  <2>2. CASE Len(comments) = 0
    BY <1>8, <2>2
  <2>3. CASE Len(comments) # 0
    <3>1. Len(comments) \in Streams
      BY <1>2, <2>3 DEF Streams
    <3> QED
      BY <1>2, <1>8, <2>1, <3>1
  <2> QED
    BY <2>2, <2>3
<1>10. \A b \in Blocks : b \in Nat /\ (b <= last' => b <= last) /\ block'[b] = block[b]
  <2> TAKE b \in Blocks
  <2>1. b \in Nat /\ text[b].tok = "lb" /\ b # Root
    BY RootIsNoBlock, TypeFacts DEF Blocks
  <2>2. b # Peek
    BY <1>3, <2>1
  <2>3. b \notin last + 1 .. Peek - 1
    BY <1>2, <2>1 DEF Remarks
  <2> QED
    BY <1>1, <1>2, <1>3, <1>8, <2>1, <2>2, <2>3
<1>11. TwoStreams'
  BY <1>0 DEF TwoStreams
<1>12. TypeOK'
  <2>1. last' \in 0..Len(text)
    BY <1>1, <1>2, <1>3
  <2> QED
    BY <1>0, <1>1, <1>4, <1>8, <2>1 DEF TypeOK
<1>13. Cursors'
  <2>1. \A k \in 1..ci' : comments[k] < Peek
    <3> SUFFICES ASSUME NEW k \in 1..ci' PROVE k \in Streams /\ k <= ci'
      BY <1>8
    <3> QED
      BY <1>2, <1>9 DEF Streams
  <2> QED
    BY <1>0, <1>1, <1>3, <1>9, <2>1 DEF Cursors
<1>14. Alternate'
  <2>1. \A i : i \notin 1..0
    OBVIOUS
  <2> QED
    BY <1>0, <1>1, <1>4, <2>1 DEF Alternate
<1>15. Matched'
  <2>1. \A j : j \notin 1..depth
    BY <1>1
  <2>2. ASSUME NEW b \in Blocks, b <= last' PROVE \E p \in b+1..last' : IsClosing(b, p)
    <3>1. \E p \in b+1..last : IsClosing(b, p)
      BY <1>10, <2>1, <2>2 DEF Matched
    <3>2. b+1..last \subseteq b+1..last'
      BY <1>1, <1>2, <1>3, <1>10
    <3> QED
      BY <3>1, <3>2
  <2> QED
    BY <1>0, <1>4, <2>1, <2>2 DEF Matched
<1>16. Introduced'
  BY <1>0, <1>4, <1>10 DEF Introduced
<1>17. Untouched'
  <2>1. ASSUME NEW h \in Heads, h > last' PROVE meta[h] = EmptyMeta
    <3>1. h > last
      BY <1>1, <1>2, <1>3, <2>1, TypeFacts
    <3> QED
      BY <3>1 DEF Untouched
  <2>2. ASSUME NEW b \in Blocks, b > last' PROVE block'[b] = EmptyBlock
    <3>1. b > last
      BY <1>1, <1>2, <1>3, <1>10, <2>2
    <3> QED
      BY <1>10, <3>1 DEF Untouched
  <2>3. \A j : j \notin 1..depth
    BY <1>1
  <2> QED
    BY <1>0, <1>4, <2>1, <2>2, <2>3 DEF Untouched
<1>18. Resting'
  BY <1>0 DEF Resting
<1> QED
  BY <1>8, <1>11, <1>12, <1>13, <1>14, <1>15, <1>16, <1>17, <1>18

\* A block is closed, by the brace that matches its own.
LEMMA EndBlockStep ==
    ASSUME TwoStreams, Core, EndBlock, open # <<>>
    PROVE TwoStreams' /\ Core'
<1> USE DEF Core
<1> DEFINE B == Owner
<1>0. /\ at = "items" /\ at' \in {"finish", "item"} /\ text[Peek].tok = "rb" /\ Advance /\ Take(Pending)
      /\ block' = [block EXCEPT ![B].dangling = Pending]
      /\ open' = Front(open) /\ depth' = depth - 1
      /\ UNCHANGED <<text, toks, comments, meta>>
      /\ ~ InItem /\ InItem' /\ ~ PeekIs("eof")
  BY DEF EndBlock, Closer, InItem, PeekIs
<1>1. /\ depth \in Nat /\ depth # 0 /\ depth' \in Nat /\ depth \in 1..depth
      /\ B = open[2 * depth] /\ B \in Blocks /\ B # Root /\ B <= last
      /\ Len(open) = 2 * depth
      /\ B \in Nat /\ B >= 1
  <2>1. depth \in Nat /\ depth # 0
    BY <1>0, OwnerIs DEF TypeOK
  <2>2. /\ B = open[2 * depth] /\ B \in Blocks /\ B <= last /\ Len(open) = 2 * depth
    BY <1>0, <2>1, OwnerIs
  <2> HIDE DEF B
  <2> QED
    BY <1>0, <2>1, <2>2, RootIsNoBlock, TypeFacts
<1> HIDE DEF B
<1>2. /\ Peek \in 1..Len(text) /\ Peek < Len(text)
      /\ last \in 0..Len(text) /\ last < Peek
      /\ ti' \in 1..Len(toks') /\ last' = Peek /\ Peek' \in 1..Len(text)
      /\ last' < Peek' /\ Remarks(last, Peek)'
  BY <1>0, AdvanceIs
<1>3. /\ \A q \in last + 1 .. last' : q = Peek \/ text[q].tok = "comment"
      /\ Nesting(Peek) = depth /\ Nesting(last + 1)' = depth - 1
  BY <1>0, TokenIs
<1>4. /\ Len(text) \in Nat /\ last \in Nat /\ last' \in Nat /\ last <= last' /\ Peek \in Nat
      /\ Len(comments) \in Nat
  BY <1>2, TypeFacts, TextIs
<1>5. /\ Heads' = Heads /\ Blocks' = Blocks
      /\ \A p : Nesting(p)' = Nesting(p)
      /\ \A b, p : IsClosing(b, p)' <=> IsClosing(b, p)
      /\ \A p, q : Remarks(p, q)' <=> Remarks(p, q)
      /\ Root' = Root /\ EmptyMeta' = EmptyMeta /\ EmptyBlock' = EmptyBlock
  BY <1>0, SameText DEF Root, EmptyMeta, EmptyBlock
<1>6. ASSUME NEW q \in Nat, q <= last' PROVE q <= last \/ q = Peek \/ text[q].tok = "comment"
  BY <1>3, <1>4, <1>6
<1>7. IsClosing(B, Peek) /\ Peek \in B+1..Len(text)
  <2>1. Nesting(B) = depth - 1
    BY <1>1 DEF Matched
  <2>2. ASSUME NEW q \in B+1..Peek-1, text[q].tok = "rb" PROVE Nesting(q) # depth
    <3>1. q \in Nat /\ q <= last' /\ q # Peek
      BY <1>1, <1>2, <1>4
    <3>2. q <= last
      BY <1>6, <2>2, <3>1
    <3>3. q \in B+1..last
      BY <1>1, <1>4, <3>2
    <3> QED
      BY <1>1, <2>2, <3>3 DEF Matched
  <2>3. Nesting(B) + 1 = depth
    BY <1>1, <2>1
  <2>4. Peek \in B+1..Len(text)
    BY <1>1, <1>2, <1>4
  <2> QED
    BY <1>0, <1>3, <2>2, <2>3, <2>4 DEF IsClosing
<1>8. Closes(B) = Peek
  BY <1>1, <1>4, <1>7, ClosingIs DEF Closes
<1>9. Reach' = 4 * Peek
  BY <1>0, <1>2 DEF Reach, Edge
<1>10. block[B].dangling = {}
  BY <1>1 DEF Untouched
<1>11. /\ Placed'
       /\ ci' \in 0..Len(comments) /\ \A k \in Streams : comments[k] < Peek <=> k <= ci'
       /\ block' \in [Blocks \cup {Root} ->
                        [intro : SUBSET Nat, items : Seq(Nat), dangling : SUBSET Nat]]
       /\ \A b \in Blocks \cup {Root} : b # B => block'[b] = block[b]
  <2>1. B \in Blocks \cup {Root}
    BY <1>1
  <2> QED
    BY <1>0, <1>8, <1>9, <1>10, <2>1, DanglingIs
<1>12. /\ open' \in Seq(1..Len(text)) /\ Len(open') = 2 * depth' + 1 /\ 2 * depth' + 1 = 2 * depth - 1
       /\ \A i \in 1..2 * depth - 1 : open'[i] = open[i]
  <2>1. open \in Seq(1..Len(text)) /\ Len(open) >= 1
    BY <1>1 DEF TypeOK
  <2>2. /\ open' \in Seq(1..Len(text)) /\ Len(open') = Len(open) - 1
        /\ \A i \in 1..(Len(open) - 1) : open'[i] = open[i]
    BY <1>0, <2>1, FrontIs
  <2> QED
    BY <1>0, <1>1, <2>2
<1>13. \A j \in 1..depth' : /\ open'[2 * j] = open[2 * j] /\ open'[2 * j - 1] = open[2 * j - 1]
                            /\ open[2 * j] \in Blocks /\ open[2 * j - 1] \in Heads
                            /\ open[2 * j] # B /\ j \in 1..depth /\ j # depth
  <2> TAKE j \in 1..depth'
  <2>1. /\ j \in 1..depth /\ j # depth
        /\ 2 * j \in 1..2 * depth - 1 /\ 2 * j - 1 \in 1..2 * depth - 1
        /\ 2 * j \in 1..Len(open) /\ 2 * depth \in 1..Len(open) /\ 2 * j < 2 * depth
    BY <1>0, <1>1
  <2>2. open[2 * j] \in Blocks /\ open[2 * j - 1] \in Heads
    BY <2>1 DEF Alternate
  <2>3. open[2 * j] < B
    BY <1>1, <2>1 DEF Alternate
  <2>4. open[2 * j] # B
    BY <1>1, <2>3
  <2> QED
    BY <1>12, <2>1, <2>2, <2>4
<1>14. open'[2 * depth' + 1] = open[2 * depth - 1] /\ open[2 * depth - 1] \in Heads
  <2>1. 2 * depth - 1 \in 1..2 * depth - 1
    BY <1>1
  <2> QED
    BY <1>1, <1>12, <2>1 DEF Alternate
<1>15. \A b \in Blocks : b \in Nat /\ (b <= last' => b <= last)
  <2> TAKE b \in Blocks
  <2>1. b \in Nat /\ text[b].tok = "lb"
    BY TypeFacts DEF Blocks
  <2>2. b # Peek
    BY <1>0, <2>1
  <2> QED
    BY <1>6, <2>1, <2>2
<1>16. TwoStreams'
  BY <1>0 DEF TwoStreams
<1>17. TypeOK'
  <2>1. last' \in 0..Len(text)
    BY <1>2, <1>4
  <2> QED
    BY <1>0, <1>1, <1>2, <1>5, <1>11, <1>12, <2>1 DEF TypeOK
<1>18. Cursors'
  <2>1. \A k \in 1..ci' : comments'[k] < Peek'
    <3> SUFFICES ASSUME NEW k \in 1..ci' PROVE comments[k] < Peek'
      BY <1>0
    <3>1. k \in Streams /\ k <= ci'
      BY <1>4, <1>11 DEF Streams
    <3>2. comments[k] < Peek /\ comments[k] \in 1..Len(text)
      BY <1>11, <3>1, TextIs
    <3> QED
      BY <1>2, <1>4, <3>2
  <2>2. last' # 0 /\ text[last'].tok = "rb"
    BY <1>0, <1>2, <1>4
  <2> QED
    BY <1>0, <1>2, <2>1, <2>2 DEF Cursors
<1>19. Alternate'
  <2>0. Len(open') = 2 * depth - 1 /\ \A i \in 1..2 * depth - 1 : i \in 1..2 * depth
    <3>1. Len(open') = 2 * depth - 1
      BY <1>12
    <3>2. \A i \in 1..2 * depth - 1 : i \in 1..2 * depth
      BY <1>1
    <3> QED
      BY <3>1, <3>2
  <2>1. \A i : i \in 1..Len(open') => i \in 1..Len(open) /\ open'[i] = open[i]
    BY <1>1, <1>12, <2>0
  <2>2. \A i \in 1..Len(open) : open[i] <= last /\ open[i] \in Nat
    BY TypeFacts DEF Alternate
  <2>3. \A i \in 1..Len(open) : open[i] <= last'
    BY <1>4, <2>2
  <2>4. \A i, j \in 1..Len(open') : i < j => open'[i] < open'[j]
    BY <2>1 DEF Alternate
  <2>5. \A i \in 1..Len(open') : open'[i] <= last'
    BY <2>1, <2>3
  <2> QED
    BY <1>0, <1>5, <1>12, <1>13, <1>14, <2>4, <2>5 DEF Alternate
<1>20. Matched'
  <2>1. ASSUME NEW j \in 1..depth'
        PROVE /\ Nesting(open'[2 * j]) = j - 1
              /\ \A q \in open'[2 * j] + 1 .. last' : text[q].tok = "rb" => Nesting(q) # j
    <3>1. /\ Nesting(open[2 * j]) = j - 1
          /\ \A q \in open[2 * j] + 1 .. last : text[q].tok = "rb" => Nesting(q) # j
      BY <1>13 DEF Matched
    <3>2. open[2 * j] \in Nat
      BY <1>13, <1>15
    <3>3. ASSUME NEW q \in open[2 * j] + 1 .. last', text[q].tok = "rb" PROVE Nesting(q) # j
      <4>1. q \in Nat /\ q <= last'
        BY <1>4, <3>2
      <4>2. CASE q = Peek
        BY <1>3, <1>13, <4>2
      <4>3. CASE q <= last
        <5>1. q \in open[2 * j] + 1 .. last
          BY <1>4, <3>2, <4>3
        <5> QED
          BY <3>1, <3>3, <5>1
      <4> QED
        BY <1>6, <3>3, <4>1, <4>2, <4>3
    <3> QED
      BY <1>13, <3>1, <3>3
  <2>2. ASSUME NEW b \in Blocks, b <= last'
        PROVE (\E j \in 1..depth' : open'[2 * j] = b) \/ \E p \in b+1..last' : IsClosing(b, p)
    <3>1. (\E j \in 1..depth : open[2 * j] = b) \/ \E p \in b+1..last : IsClosing(b, p)
      BY <1>15, <2>2 DEF Matched
    <3>2. b+1..last \subseteq b+1..last'
      BY <1>4, <1>15
    <3>3. CASE \E j \in 1..depth : open[2 * j] = b
      <4>1. PICK j \in 1..depth : open[2 * j] = b
        BY <3>3
      <4>2. CASE j = depth
        <5>1. b = B /\ Peek \in b+1..last'
          BY <1>1, <1>2, <1>4, <4>1, <4>2
        <5> QED
          BY <1>7, <5>1
      <4>3. CASE j # depth
        <5>1. j \in 1..depth'
          BY <1>0, <1>1, <4>3
        <5> QED
          BY <1>13, <4>1, <5>1
      <4> QED
        BY <4>2, <4>3
    <3> QED
      BY <3>1, <3>2, <3>3
  <2>3. Nesting(last + 1)' = depth'
    BY <1>0, <1>3
  <2> QED
    BY <1>0, <1>5, <2>1, <2>2, <2>3 DEF Matched
<1>21. Introduced'
  BY <1>0, <1>5, <1>15 DEF Introduced
<1>22. Untouched'
  <2>1. ASSUME NEW h \in Heads, h > last' PROVE meta[h] = EmptyMeta
    <3>1. h > last
      BY <1>2, <1>4, <2>1, TypeFacts
    <3> QED
      BY <3>1 DEF Untouched
  <2>2. ASSUME NEW b \in Blocks, b > last' PROVE block'[b] = EmptyBlock
    <3>1. b > last /\ b # B
      BY <1>1, <1>4, <1>15, <2>2
    <3> QED
      BY <1>11, <3>1 DEF Untouched
  <2>3. ASSUME NEW j \in 1..depth'
        PROVE /\ meta[open'[2 * j - 1]].trailing = {} /\ meta[open'[2 * j - 1]].detached = {}
              /\ block'[open'[2 * j]].dangling = {}
    <3>1. /\ meta[open[2 * j - 1]].trailing = {} /\ meta[open[2 * j - 1]].detached = {}
          /\ block[open[2 * j]].dangling = {}
      BY <1>13 DEF Untouched
    <3>2. block'[open[2 * j]] = block[open[2 * j]]
      BY <1>11, <1>13
    <3> QED
      BY <1>13, <3>1, <3>2
  <2>4. meta[open'[2 * depth' + 1]].trailing = {} /\ meta[open'[2 * depth' + 1]].detached = {}
    BY <1>1, <1>14 DEF Untouched
  <2>5. block'[Root].dangling = {}
    BY <1>0, <1>1, <1>11 DEF Untouched
  <2> QED
    BY <1>0, <1>5, <2>1, <2>2, <2>3, <2>4, <2>5 DEF Untouched
<1>23. Resting'
  BY <1>0 DEF Resting
<1> QED
  BY <1>11, <1>16, <1>17, <1>18, <1>19, <1>20, <1>21, <1>22, <1>23

\* What is pending before an item splits in two: first what belongs to what is
\* before the item, then what leads it.
LEMMA LeadingIs ==
    ASSUME TwoStreams, ti \in 1..Len(toks), ci \in 0..Len(comments),
           \A k \in 1..ci : comments[k] < Peek
    PROVE \E m \in ci..Len(comments) : \E n \in ci..m :
            /\ Cardinality(Pending) = m - ci
            /\ \A k : k \in Pending <=> k \in ci + 1 .. m
            /\ \A k : k \in Pending \ Leading <=> k \in ci + 1 .. n
            /\ \A k : k \in Leading <=> k \in n + 1 .. m
            /\ \A k \in Streams : comments[k] < Peek <=> k <= m
<1>1. PICK m \in ci..Len(comments) :
        /\ Pending = ci + 1 .. m /\ Cardinality(Pending) = m - ci
        /\ \A k \in Streams : comments[k] < Peek <=> k <= m
  BY PendingIs
<1>2. ci \in Nat /\ m \in Nat /\ ci <= m
  BY <1>1, TextIs
<1> DEFINE S == Pending \ Leading
           Near == text[Peek].first <= text[comments[ci + Cardinality(Pending)]].last + 1
<1>3. \A k : k \in Leading <=> k \in Pending /\ Near /\ \A j \in Pending : j > k => ~ Blank(comments[j])
  BY DEF Leading
<1>4. S \in SUBSET (ci + 1 .. m)
  BY <1>1
<1>5. \A k \in S : \A j \in ci + 1 .. k : j \in S
  <2> SUFFICES ASSUME NEW k \in S, NEW j \in ci + 1 .. k, j \in Leading PROVE FALSE
    <3>1. \A k \in S : \A j \in ci + 1 .. k : j \in Pending
      BY <1>1, <1>2
    <3> QED
      BY <3>1
  <2>1. k \in Pending /\ k \notin Leading
    OBVIOUS
  <2>2. \A i \in Pending : i > k => i > j
    BY <1>1, <1>2, <2>1
  <2> HIDE DEF Near
  <2> QED
    BY <1>3, <2>1, <2>2
<1> HIDE DEF S
<1>6. PICK n \in ci..m : S = ci + 1 .. n
  <2>1. \E n \in ci..m : S = ci + 1 .. n /\ Cardinality(S) = n - ci
    BY <1>2, <1>4, <1>5, RunIs
  <2> QED
    BY <2>1
<1>7. n \in Nat /\ ci <= n /\ n <= m
  BY <1>2, <1>6
<1>8. \A k : k \in Leading <=> k \in Pending /\ k \notin S
  BY DEF S, Leading
<1>9. \A k : k \in Leading <=> k \in n + 1 .. m
  BY <1>1, <1>2, <1>6, <1>7, <1>8
<1> QED
  BY <1>1, <1>6, <1>9 DEF S

\* An item begins.
LEMMA BeginItemStep ==
    ASSUME TwoStreams, Core, BeginItem
    PROVE TwoStreams' /\ Core'
<1> USE DEF Core
<1> DEFINE B == Owner
           e == Last(Earlier)
           toPrev == Pending \ Leading
           none == Earlier = <<>>
           with == [meta EXCEPT ![Peek].leading = Leading]
<1>0. /\ at = "items" /\ at' = "item" /\ text[Peek].tok = "head" /\ Advance /\ Take(Pending)
      /\ meta' = IF toPrev # {} /\ ~ none THEN [with EXCEPT ![e].detached = toPrev] ELSE with
      /\ block' = IF toPrev # {} /\ none THEN [block EXCEPT ![B].intro = toPrev] ELSE block
      /\ open' = Append(open, Peek)
      /\ UNCHANGED <<text, toks, comments, depth>>
      /\ ~ InItem /\ InItem' /\ ~ PeekIs("eof")
  BY DEF BeginItem, PeekIs, InItem, Earlier
<1>1. /\ depth \in Nat /\ Len(open) = 2 * depth
      /\ B = IF depth = 0 THEN Root ELSE open[2 * depth]
      /\ B \in Blocks \cup {Root} /\ B <= last /\ B \in Nat
  <2>1. /\ depth \in Nat /\ Len(open) = 2 * depth
        /\ B = IF depth = 0 THEN Root ELSE open[2 * depth]
        /\ B \in Blocks \cup {Root} /\ B <= last
    BY <1>0, OwnerIs DEF TypeOK
  <2> HIDE DEF B
  <2> QED
    BY <2>1, TypeFacts DEF Root
<1>2. /\ Peek \in 1..Len(text) /\ Peek < Len(text)
      /\ last \in 0..Len(text) /\ last < Peek
      /\ ti' \in 1..Len(toks') /\ last' = Peek /\ Peek' \in 1..Len(text)
      /\ last' < Peek' /\ Remarks(last, Peek)'
  BY <1>0, AdvanceIs
<1>3. /\ \A q \in last + 1 .. last' : q = Peek \/ text[q].tok = "comment"
      /\ Nesting(last + 1)' = depth
  BY <1>0, TokenIs
<1>4. /\ Len(text) \in Nat /\ last \in Nat /\ last' \in Nat /\ last <= last' /\ Peek \in Nat
      /\ Len(comments) \in Nat /\ Peek \in Heads
  BY <1>0, <1>2, TypeFacts, TextIs DEF Heads
<1>5. /\ Heads' = Heads /\ Blocks' = Blocks
      /\ \A p : Nesting(p)' = Nesting(p)
      /\ \A b, p : IsClosing(b, p)' <=> IsClosing(b, p)
      /\ \A p, q : Remarks(p, q)' <=> Remarks(p, q)
      /\ Root' = Root /\ EmptyMeta' = EmptyMeta /\ EmptyBlock' = EmptyBlock /\ Streams' = Streams
  BY <1>0, SameText DEF Root, EmptyMeta, EmptyBlock, Streams
<1>6. ~ none => e \in Heads /\ B < e /\ e <= last /\ e # Peek /\ meta[e].detached = {}
  <2>1. ~ none => e \in Heads /\ B < e /\ e <= last /\ meta[e].detached = {}
    BY <1>0 DEF Resting
  <2> HIDE DEF e, none, B
  <2>2. ~ none => e # Peek
    BY <1>2, <1>4, <2>1, TypeFacts
  <2> QED
    BY <2>1, <2>2
<1>7. none => block[B].intro = {}
  BY <1>0 DEF Resting
<1>8. /\ ti \in 1..Len(toks) /\ ci \in 0..Len(comments) /\ \A k \in 1..ci : comments[k] < Peek
  BY DEF TypeOK, Cursors
<1>9. PICK m \in ci..Len(comments) : \E n \in ci..m :
        /\ Cardinality(Pending) = m - ci
        /\ \A k : k \in Pending <=> k \in ci + 1 .. m
        /\ \A k : k \in toPrev <=> k \in ci + 1 .. n
        /\ \A k : k \in Leading <=> k \in n + 1 .. m
        /\ \A k \in Streams : comments[k] < Peek <=> k <= m
  BY <1>8, LeadingIs
<1>10. PICK n \in ci..m :
        /\ Cardinality(Pending) = m - ci
        /\ \A k : k \in Pending <=> k \in ci + 1 .. m
        /\ \A k : k \in toPrev <=> k \in ci + 1 .. n
        /\ \A k : k \in Leading <=> k \in n + 1 .. m
        /\ \A k \in Streams : comments[k] < Peek <=> k <= m
  BY <1>9
<1>11. /\ ci \in Nat /\ n \in Nat /\ m \in Nat /\ ci <= n /\ n <= m /\ m <= Len(comments)
       /\ ci' = m
  <2>1. ci \in Nat /\ n \in Nat /\ m \in Nat /\ ci <= n /\ n <= m /\ m <= Len(comments)
    BY <1>4, <1>8, <1>9, <1>10
  <2>2. ci' = ci + Cardinality(Pending)
    BY <1>0 DEF Take
  <2> QED
    BY <1>10, <2>1, <2>2
<1> HIDE DEF B, none, e, toPrev
<1>12. toPrev \in SUBSET Nat /\ Leading \in SUBSET Nat
  BY <1>10, <1>11
<1>13. /\ meta' \in [Heads -> [end : Nat, leading : SUBSET Nat, trailing : SUBSET Nat,
                               detached : SUBSET Nat]]
       /\ \A h \in Heads : /\ meta'[h].end = meta[h].end /\ meta'[h].trailing = meta[h].trailing
                           /\ h # Peek => meta'[h].leading = meta[h].leading
                           /\ none \/ h # e => meta'[h].detached = meta[h].detached
                           /\ h # Peek /\ (none \/ h # e) => meta'[h] = meta[h]
       /\ meta'[Peek].leading = Leading
       /\ ~ none => meta'[e].detached = toPrev
  <2> DEFINE R == [end : Nat, leading : SUBSET Nat, trailing : SUBSET Nat, detached : SUBSET Nat]
             new == [meta[Peek] EXCEPT !.leading = Leading]
  <2>1. meta \in [Heads -> R]
    BY DEF TypeOK
  <2>2. /\ new \in R /\ new.end = meta[Peek].end /\ new.trailing = meta[Peek].trailing
        /\ new.detached = meta[Peek].detached /\ new.leading = Leading
    BY <1>4, <1>12, <2>1
  <2>3. with = [meta EXCEPT ![Peek] = new]
    BY <1>4, <2>1
  <2> HIDE DEF new, with, R
  <2>4. with \in [Heads -> R] /\ with[Peek] = new /\ \A h \in Heads : h # Peek => with[h] = meta[h]
    BY <1>4, <2>1, <2>2, <2>3
  <2>5. CASE toPrev # {} /\ ~ none
    <3> DEFINE old == [with[e] EXCEPT !.detached = toPrev]
    <3>1. with[e] \in R /\ with[e] = meta[e]
      BY <1>6, <2>4, <2>5
    <3>2. /\ old \in R /\ old.end = meta[e].end /\ old.trailing = meta[e].trailing
          /\ old.detached = toPrev /\ old.leading = meta[e].leading
      BY <1>12, <3>1 DEF R
    <3>3. meta' = [with EXCEPT ![e] = old]
      BY <1>0, <1>6, <2>4, <2>5
    <3> HIDE DEF old
    <3>4. meta' \in [Heads -> R] /\ meta'[e] = old /\ \A h \in Heads : h # e => meta'[h] = with[h]
      BY <1>6, <2>4, <2>5, <3>2, <3>3
    <3> QED
      BY <1>4, <1>6, <2>2, <2>4, <2>5, <3>2, <3>4 DEF R
  <2>6. CASE ~ (toPrev # {} /\ ~ none)
    <3>1. meta' = with
      BY <1>0, <2>6
    <3> QED
      BY <1>4, <1>6, <2>2, <2>4, <2>6, <3>1 DEF R
  <2> QED
    BY <2>5, <2>6
<1>14. /\ block' \in [Blocks \cup {Root} ->
                        [intro : SUBSET Nat, items : Seq(Nat), dangling : SUBSET Nat]]
       /\ \A b \in Blocks \cup {Root} : /\ b # B => block'[b] = block[b]
                                        /\ block'[b].dangling = block[b].dangling
       /\ IF none THEN block'[B].intro = toPrev ELSE block'[B].intro = block[B].intro
  <2> DEFINE R == [intro : SUBSET Nat, items : Seq(Nat), dangling : SUBSET Nat]
             new == [block[B] EXCEPT !.intro = toPrev]
  <2>1. block \in [Blocks \cup {Root} -> R]
    BY DEF TypeOK
  <2>2. new \in R /\ new.intro = toPrev /\ new.dangling = block[B].dangling
    BY <1>1, <1>12, <2>1
  <2>3. CASE toPrev # {} /\ none
    <3>1. block' = [block EXCEPT ![B] = new]
      BY <1>0, <1>1, <2>1, <2>3
    <3> HIDE DEF new, R
    <3> QED
      BY <1>1, <2>1, <2>2, <2>3, <3>1 DEF R
  <2>4. CASE ~ (toPrev # {} /\ none)
    <3>1. block' = block
      BY <1>0, <2>4
    <3> HIDE DEF new
    <3> QED
      BY <1>7, <2>1, <2>4, <3>1
  <2> QED
    BY <2>3, <2>4
<1>15. /\ open' \in Seq(1..Len(text)) /\ Len(open') = 2 * depth + 1
       /\ \A i \in 1..2 * depth : open'[i] = open[i]
       /\ open'[2 * depth + 1] = Peek
  <2>1. open \in Seq(1..Len(text))
    BY DEF TypeOK
  <2>2. /\ open' \in Seq(1..Len(text)) /\ Len(open') = Len(open) + 1
        /\ \A i \in 1..Len(open) : open'[i] = open[i]
        /\ open'[Len(open) + 1] = Peek
    BY <1>0, <1>2, <2>1, AppendIs
  <2> QED
    BY <1>1, <2>2
<1>16. \A j \in 1..depth : /\ open'[2 * j] = open[2 * j] /\ open'[2 * j - 1] = open[2 * j - 1]
                           /\ open[2 * j] \in Blocks /\ open[2 * j - 1] \in Heads
                           /\ open[2 * j - 1] # Peek /\ (none \/ open[2 * j - 1] # e)
  <2> TAKE j \in 1..depth
  <2>1. /\ 2 * j \in 1..2 * depth /\ 2 * j - 1 \in 1..2 * depth /\ 2 * depth \in 1..2 * depth
        /\ 2 * j - 1 < 2 * depth /\ depth # 0
    BY <1>1
  <2>2. open[2 * j] \in Blocks /\ open[2 * j - 1] \in Heads
    BY DEF Alternate
  <2>3. open[2 * j - 1] < B /\ open[2 * j - 1] \in Nat
    BY <1>1, <2>1, <2>2, TypeFacts DEF Alternate
  <2>4. open[2 * j - 1] # Peek
    BY <1>1, <1>2, <1>4, <2>3
  <2>5. none \/ open[2 * j - 1] # e
    <3> SUFFICES ASSUME ~ none PROVE open[2 * j - 1] # e
      OBVIOUS
    <3>1. B < e /\ e \in Nat
      BY <1>6, TypeFacts
    <3> QED
      BY <1>1, <2>3, <3>1
  <2> QED
    BY <1>15, <2>1, <2>2, <2>4, <2>5
<1>17. \A b \in Blocks : b \in Nat /\ (b <= last' => b <= last)
  <2> TAKE b \in Blocks
  <2>1. b \in Nat /\ text[b].tok = "lb"
    BY TypeFacts DEF Blocks
  <2>2. b \notin last + 1 .. last'
    BY <1>0, <1>3, <2>1
  <2> QED
    BY <1>4, <2>1, <2>2
<1>18. meta[Peek] = EmptyMeta
  BY <1>2, <1>4 DEF Untouched
<1>19. TwoStreams'
  BY <1>0 DEF TwoStreams
<1>20. TypeOK'
  <2>1. last' \in 0..Len(text) /\ m \in 0..Len(comments)
    BY <1>2, <1>4, <1>11
  <2> QED
    BY <1>0, <1>1, <1>2, <1>5, <1>11, <1>13, <1>14, <1>15, <2>1 DEF TypeOK
<1>21. Cursors'
  <2>1. \A k \in 1..ci' : comments'[k] < Peek'
    <3> SUFFICES ASSUME NEW k \in 1..ci' PROVE comments[k] < Peek'
      BY <1>0
    <3>1. k \in Streams /\ k <= m
      BY <1>4, <1>11 DEF Streams
    <3>2. comments[k] < Peek /\ comments[k] \in 1..Len(text)
      BY <1>10, <3>1, TextIs
    <3> QED
      BY <1>2, <1>4, <3>2
  <2>2. last' # 0 /\ text[last'].tok = "head"
    BY <1>0, <1>2, <1>4
  <2> QED
    BY <1>0, <1>2, <2>1, <2>2 DEF Cursors
<1>22. Alternate'
  <2>1. \A i : i \in 1..Len(open') <=> i \in 1..2 * depth \/ i = 2 * depth + 1
    <3>1. Len(open') = 2 * depth + 1 /\ depth \in Nat
      BY <1>1, <1>15
    <3> QED
      BY <3>1
  <2>2. \A i \in 1..2 * depth : open[i] <= last /\ open[i] \in Nat
    BY <1>1, TypeFacts DEF Alternate
  <2>3. ASSUME NEW i \in 1..Len(open'), NEW j \in 1..Len(open'), i < j PROVE open'[i] < open'[j]
    <3>1. i \in 1..2 * depth
      BY <1>1, <2>1, <2>3
    <3>2. CASE j \in 1..2 * depth
      BY <1>1, <1>15, <2>3, <3>1, <3>2 DEF Alternate
    <3>3. CASE j = 2 * depth + 1
      <4>1. open'[i] = open[i] /\ open[i] <= last /\ open[i] \in Nat /\ open'[j] = Peek
        BY <1>15, <2>2, <3>1, <3>3
      <4> QED
        BY <1>2, <1>4, <4>1
    <3> QED
      BY <2>1, <3>2, <3>3
  <2>4. ASSUME NEW i \in 1..Len(open') PROVE open'[i] <= last'
    <3>1. CASE i \in 1..2 * depth
      BY <1>4, <1>15, <2>2, <3>1, SMTT(20)
    <3>2. CASE i = 2 * depth + 1
      BY <1>2, <1>4, <1>15, <3>2
    <3> QED
      BY <2>1, <3>1, <3>2
  <2> QED
    BY <1>0, <1>4, <1>5, <1>15, <1>16, <2>3, <2>4 DEF Alternate
<1>23. Matched'
  <2>1. ASSUME NEW j \in 1..depth, NEW q \in open[2 * j] + 1 .. last', text[q].tok = "rb"
        PROVE Nesting(q) # j
    <3>1. open[2 * j] \in Nat
      BY <1>16, <1>17
    <3>2. q \notin last + 1 .. last'
      BY <1>0, <1>3, <2>1
    <3>3. q \in open[2 * j] + 1 .. last
      BY <1>4, <3>1, <3>2
    <3> QED
      BY <2>1, <3>3 DEF Matched
  <2>2. ASSUME NEW b \in Blocks, b <= last'
        PROVE (\E j \in 1..depth : open'[2 * j] = b) \/ \E p \in b+1..last' : IsClosing(b, p)
    <3>1. (\E j \in 1..depth : open[2 * j] = b) \/ \E p \in b+1..last : IsClosing(b, p)
      BY <1>17, <2>2 DEF Matched
    <3>2. b+1..last \subseteq b+1..last'
      BY <1>4, <1>17
    <3> QED
      BY <1>16, <3>1, <3>2
  <2>3. \A j \in 1..depth : Nesting(open'[2 * j]) = j - 1
    BY <1>16 DEF Matched
  <2> QED
    BY <1>0, <1>3, <1>5, <1>16, <2>1, <2>2, <2>3 DEF Matched
<1>24. Introduced'
  BY <1>0, <1>5, <1>17 DEF Introduced
<1>25. Untouched'
  <2>1. ASSUME NEW h \in Heads, h > last' PROVE meta'[h] = EmptyMeta
    <3>0. h \in Nat
      BY TypeFacts
    <3>1. h > last /\ h # Peek
      BY <1>2, <1>4, <2>1, <3>0
    <3>2. none \/ h # e
      BY <1>6, <1>4, <3>0, <3>1
    <3> QED
      BY <1>13, <3>1, <3>2 DEF Untouched
  <2>2. ASSUME NEW b \in Blocks, b > last' PROVE block'[b] = EmptyBlock
    <3>1. b > last /\ b # B
      BY <1>1, <1>4, <1>17, <2>2
    <3> QED
      BY <1>14, <3>1 DEF Untouched
  <2>3. ASSUME NEW j \in 1..depth
        PROVE /\ meta'[open'[2 * j - 1]].trailing = {} /\ meta'[open'[2 * j - 1]].detached = {}
              /\ block'[open'[2 * j]].dangling = {}
    <3>1. /\ meta[open[2 * j - 1]].trailing = {} /\ meta[open[2 * j - 1]].detached = {}
          /\ block[open[2 * j]].dangling = {}
      BY DEF Untouched
    <3>2. meta'[open[2 * j - 1]] = meta[open[2 * j - 1]]
      BY <1>13, <1>16
    <3>3. block'[open[2 * j]].dangling = block[open[2 * j]].dangling
      BY <1>14, <1>16
    <3> QED
      BY <1>16, <3>1, <3>2, <3>3
  <2>4. meta'[Peek].trailing = {} /\ meta'[Peek].detached = {}
    BY <1>4, <1>6, <1>13, <1>18 DEF EmptyMeta
  <2>5. block'[Root].dangling = {}
    BY <1>0, <1>14 DEF Untouched
  <2> QED
    BY <1>0, <1>5, <1>15, <2>1, <2>2, <2>3, <2>4, <2>5 DEF Untouched
<1>26. Resting'
  BY <1>0 DEF Resting
<1> DEFINE P1 == IF none THEN 4 * B + 1 ELSE 4 * meta[e].end + 3
           P2 == 4 * Peek
<1>27. /\ Edge \in Nat /\ Edge <= last /\ Reach \in Nat
       /\ P1 = (IF none THEN 4 * Edge + 1 ELSE 4 * Edge + 3)
       /\ Reach = (IF none THEN 4 * Edge ELSE 4 * Edge + 2)
       /\ \A q \in 1..last : text[q].tok \in {"lb", "rb"} => q <= Edge
  <2>1. Edge = IF none THEN B ELSE meta[e].end
    BY <1>0 DEF Edge, none, B, e
  <2>2. Reach = IF none THEN 4 * Edge ELSE 4 * Edge + 2
    BY <1>0 DEF Reach, none
  <2>3. /\ Edge \in Nat /\ Edge <= last /\ Reach \in Nat
        /\ \A q \in 1..last : text[q].tok \in {"lb", "rb"} => q <= Edge
    BY EdgeIs
  <2>4. P1 = IF none THEN 4 * Edge + 1 ELSE 4 * Edge + 3
    BY <2>1
  <2> QED
    BY <2>2, <2>3, <2>4
<1>28. ASSUME NEW k, k \notin Pending PROVE Places(k)' = Places(k)
  <2>0. k \notin toPrev /\ k \notin Leading
    BY <1>10, <1>11, <1>28
  <2>1. ASSUME NEW h
        PROVE /\ Leads(k, h)' <=> Leads(k, h)
              /\ Trails(k, h)' <=> Trails(k, h)
              /\ Follows(k, h)' <=> Follows(k, h)
              /\ Trails(k, h) \/ Follows(k, h) => meta'[h].end = meta[h].end
    <3>1. Leads(k, h)' <=> Leads(k, h)
      <4>1. CASE h = Peek
        BY <1>5, <1>13, <1>18, <2>0, <4>1 DEF Leads, EmptyMeta
      <4>2. CASE h # Peek
        BY <1>5, <1>13, <4>2 DEF Leads
      <4> QED
        BY <4>1, <4>2
    <3>2. Trails(k, h)' <=> Trails(k, h)
      BY <1>5, <1>13 DEF Trails
    <3>3. Follows(k, h)' <=> Follows(k, h)
      <4>1. CASE ~ none /\ h = e
        BY <1>5, <1>6, <1>13, <2>0, <4>1 DEF Follows
      <4>2. CASE none \/ h # e
        BY <1>5, <1>13, <4>2 DEF Follows
      <4> QED
        BY <4>1, <4>2
    <3>4. Trails(k, h) \/ Follows(k, h) => meta'[h].end = meta[h].end
      BY <1>13 DEF Trails, Follows
    <3> QED
      BY <3>1, <3>2, <3>3, <3>4
  <2>2. ASSUME NEW b PROVE (Introduces(k, b)' <=> Introduces(k, b)) /\ (Dangles(k, b)' <=> Dangles(k, b))
    <3>1. Dangles(k, b)' <=> Dangles(k, b)
      BY <1>5, <1>14 DEF Dangles
    <3>2. CASE b = B
      BY <1>5, <1>7, <1>14, <2>0, <3>1, <3>2 DEF Introduces
    <3>3. CASE b # B
      BY <1>5, <1>14, <3>1, <3>3 DEF Introduces
    <3> QED
      BY <3>2, <3>3
  <2> QED
    BY <1>0, <2>1, <2>2, PlacesKept
<1>29. ASSUME NEW k \in Pending
       PROVE /\ \A h : ~ Trails(k, h)' /\ (Leads(k, h)' <=> h = Peek /\ k \in Leading)
             /\ \A h : Follows(k, h)' <=> ~ none /\ h = e /\ k \in toPrev
             /\ \A b : ~ Dangles(k, b)' /\ (Introduces(k, b)' <=> none /\ b = B /\ k \in toPrev)
  <2>1. k \in Streams /\ k > ci
    BY <1>4, <1>10, <1>11 DEF Streams
  <2>2. Places(k) = {}
    BY <2>1 DEF Placed
  <2>3. /\ \A h : ~ Leads(k, h) /\ ~ Trails(k, h) /\ ~ Follows(k, h)
        /\ \A b : ~ Introduces(k, b) /\ ~ Dangles(k, b)
    BY <2>2, Nowhere
  <2>4. ASSUME NEW h PROVE ~ Trails(k, h)' /\ (Leads(k, h)' <=> h = Peek /\ k \in Leading)
    <3>1. ~ Trails(k, h)'
      BY <1>5, <1>13, <2>3 DEF Trails
    <3>2. CASE h = Peek
      BY <1>4, <1>5, <1>13, <3>1, <3>2 DEF Leads
    <3>3. CASE h # Peek
      BY <1>5, <1>13, <2>3, <3>1, <3>3 DEF Leads
    <3> QED
      BY <3>2, <3>3
  <2>5. ASSUME NEW h PROVE Follows(k, h)' <=> ~ none /\ h = e /\ k \in toPrev
    <3>1. CASE ~ none /\ h = e
      BY <1>5, <1>6, <1>13, <3>1 DEF Follows
    <3>2. CASE none \/ h # e
      BY <1>5, <1>13, <2>3, <3>2 DEF Follows
    <3> QED
      BY <3>1, <3>2
  <2>6. ASSUME NEW b PROVE ~ Dangles(k, b)' /\ (Introduces(k, b)' <=> none /\ b = B /\ k \in toPrev)
    <3>1. ~ Dangles(k, b)'
      BY <1>5, <1>14, <2>3 DEF Dangles
    <3>2. CASE b = B
      BY <1>1, <1>5, <1>14, <2>3, <3>1, <3>2 DEF Introduces
    <3>3. CASE b # B
      BY <1>5, <1>14, <2>3, <3>1, <3>3 DEF Introduces
    <3> QED
      BY <3>2, <3>3
  <2> QED
    BY <2>4, <2>5, <2>6
<1>30. ASSUME NEW k \in ci + 1 .. n PROVE Places(k)' = {P1}
  <2>1. k \in Pending /\ k \in toPrev /\ k \notin Leading
    BY <1>10, <1>11
  <2>2. \A p : Has(k, p)' <=> p = P1
    <3>1. CASE none
      BY <1>29, <2>1, <3>1 DEF Has
    <3>2. CASE ~ none
      BY <1>6, <1>13, <1>29, <2>1, <3>2 DEF Has
    <3> QED
      BY <3>1, <3>2
  <2> HIDE DEF P1
  <2>3. \A p : (p \in Places(k))' <=> p = P1
    BY <2>2, PlacesAreNext
  <2> QED
    BY <2>3
<1>31. ASSUME NEW k \in n + 1 .. m PROVE Places(k)' = {P2}
  <2>1. k \in Pending /\ k \notin toPrev /\ k \in Leading
    BY <1>10, <1>11
  <2>2. \A p : Has(k, p)' <=> p = P2
    BY <1>29, <2>1 DEF Has
  <2> HIDE DEF P2
  <2>3. \A p : (p \in Places(k))' <=> p = P2
    BY <2>2, PlacesAreNext
  <2> QED
    BY <2>3
<1>32. Reach' = P2
  BY <1>0, <1>2 DEF Reach, Edge
<1>33. P1 \in Nat /\ P2 \in Nat /\ Reach <= P1 /\ P1 <= P2 /\ Reach <= P2
  <2>1. 4 * Edge + 3 < 4 * Peek
    <3>1. Edge < Peek
      BY <1>2, <1>4, <1>27
    <3> QED
      BY <1>4, <1>27, <3>1, FourTimes
  <2> HIDE DEF P1
  <2> QED
    BY <1>4, <1>27, <2>1
<1> HIDE DEF P1, P2
<1>34. Placed'
  <2>1. \A k \in 1..ci : Places(k)' = Places(k)
    <3> SUFFICES ASSUME NEW k \in 1..ci PROVE k \notin Pending
      BY <1>28
    <3> QED
      BY <1>10, <1>11
  <2>2. \A k \in Streams : k > ci' => Places(k)' = {}
    <3> SUFFICES ASSUME NEW k \in Streams, k > ci' PROVE Places(k)' = {}
      OBVIOUS
    <3>1. k \notin Pending /\ k > ci
      BY <1>4, <1>10, <1>11 DEF Streams
    <3> QED
      BY <1>28, <3>1 DEF Placed
  <2>3. \A k : k \in ci+1..ci' <=> k \in ci+1..n \/ k \in n+1..m
    BY <1>11
  <2>4. \A k \in ci+1..ci' : \E p \in Nat : Places(k)' = {p} /\ Reach <= p /\ p <= Reach'
    <3>1. P2 <= P2
      BY <1>33
    <3> QED
      BY <1>30, <1>31, <1>32, <1>33, <2>3, <3>1
  <2>5. \A j, k \in ci+1..ci' : j < k => \A p \in Places(j)', q \in Places(k)' : p <= q
    <3> SUFFICES ASSUME NEW j \in ci+1..ci', NEW k \in ci+1..ci', j < k,
                        NEW p \in Places(j)', NEW q \in Places(k)'
                 PROVE p <= q
      OBVIOUS
    <3>1. CASE k \in ci+1..n
      <4>1. j \in ci+1..n
        BY <1>11, <3>1
      <4>2. p = P1 /\ q = P1
        BY <1>30, <3>1, <4>1
      <4> QED
        BY <1>33, <4>2
    <3>2. CASE k \in n+1..m
      <4>1. q = P2 /\ (p = P1 \/ p = P2)
        BY <1>30, <1>31, <2>3, <3>2
      <4> QED
        BY <1>33, <4>1
    <3> QED
      BY <2>3, <3>1, <3>2
  <2>6. \A q \in 1..last : text[q].tok \in {"lb", "rb"} =>
           \A k \in ci+1..ci' : \A p \in Places(k)' : p > 4 * q
    <3> SUFFICES ASSUME NEW q \in 1..last, text[q].tok \in {"lb", "rb"},
                        NEW k \in ci+1..ci', NEW p \in Places(k)'
                 PROVE p > 4 * q
      OBVIOUS
    <3>1. q <= Edge /\ q \in Nat
      BY <1>4, <1>27
    <3>2. 4 * q < P1
      <4>1. 4 * q <= 4 * Edge
        BY <1>27, <3>1, FourTimes
      <4> QED
        BY <1>27, <3>1, <4>1
    <3>3. p = P1 \/ p = P2
      BY <1>30, <1>31, <2>3
    <3> QED
      BY <1>33, <3>1, <3>2, <3>3
  <2>7. \A k \in 1..ci' : comments[k] < Peek
    <3> SUFFICES ASSUME NEW k \in 1..ci' PROVE k \in Streams /\ k <= m
      BY <1>10
    <3> QED
      BY <1>4, <1>11 DEF Streams
  <2>8. \A q \in last+1..last' : text[q].tok \in {"lb", "rb"} => \A k \in 1..ci' : comments[k] < q
    BY <1>3, <2>7
  <2>9. \A q \in last+1..last' : text[q].tok \in {"head", "rb"} =>
              /\ \A k \in Streams : comments[k] < q => k <= ci'
              /\ Reach' <= 4 * q
    <3> SUFFICES ASSUME NEW q \in last+1..last', text[q].tok \in {"head", "rb"}
                 PROVE (\A k \in Streams : comments[k] < q => k <= ci') /\ Reach' <= 4 * q
      OBVIOUS
    <3>1. q = Peek
      BY <1>3
    <3>2. Reach' = 4 * q /\ P2 <= P2
      BY <1>32, <1>33, <3>1 DEF P2
    <3> QED
      BY <1>10, <1>11, <1>32, <3>1, <3>2
  <2>10. ci' \in ci..Len(comments) /\ Reach' \in Nat /\ Reach <= Reach'
    BY <1>4, <1>11, <1>32, <1>33
  <2> QED
    BY <1>0, <1>4, <1>8, <1>27, <2>1, <2>2, <2>4, <2>5, <2>6, <2>8, <2>9, <2>10, Placing
<1> QED
  BY <1>19, <1>20, <1>21, <1>22, <1>23, <1>24, <1>25, <1>26, <1>34

-----------------------------------------------------------------------------
(* The invariant, and what it says of a text parsed to its end.            *)

\* A text no step of the parser has touched.
Fresh ==
    /\ IsText(text)
    /\ toks = Stream(text, Tokens) /\ comments = Stream(text, {"comment"})
    /\ ti = 1 /\ ci = 0 /\ last = 0 /\ at = "items" /\ open = <<>> /\ depth = 0
    /\ meta = [h \in Heads |-> EmptyMeta]
    /\ block = [b \in Blocks \cup {Root} |-> EmptyBlock]

LEMMA InitIsFresh == TextsAreLexed /\ Init => Fresh
  BY DEF TextsAreLexed, Init, Fresh

\* A text begins with nothing parsed and nothing attached.
LEMMA InvariantBegins == Fresh => Invariant
<1> SUFFICES ASSUME Fresh PROVE Invariant
  OBVIOUS
<1>1. /\ toks = Stream(text, Tokens) /\ comments = Stream(text, {"comment"})
      /\ ti = 1 /\ ci = 0 /\ last = 0 /\ at = "items" /\ open = <<>> /\ depth = 0
      /\ meta = [h \in Heads |-> EmptyMeta]
      /\ block = [b \in Blocks \cup {Root} |-> EmptyBlock]
  BY DEF Fresh
<1>2. IsText(text) /\ text \in Seq(Lexemes)
  BY DEF Fresh, IsText
<1>3. TwoStreams
  BY <1>1, <1>2, StreamLists DEF TwoStreams
<1>4. /\ Len(text) \in Nat /\ Len(text) >= 1 /\ Len(toks) \in Nat /\ Len(comments) \in Nat
      /\ \A p \in 1..Len(text) : text[p].tok \in Tokens \cup {"comment"}
      /\ \A p \in 1..Len(text) : text[p].tok = "eof" <=> p = Len(text)
      /\ \A i \in 1..Len(toks) : toks[i] \in 1..Len(text)
      /\ \A i, j \in 1..Len(toks) : i < j => toks[i] < toks[j]
      /\ \A p \in 1..Len(text) : text[p].tok \in Tokens => \E i \in 1..Len(toks) : toks[i] = p
  BY <1>3, TextIs
<1>5. 1 \in 1..Len(toks)
  <2>1. Len(text) \in 1..Len(text) /\ text[Len(text)].tok \in Tokens
    BY <1>4 DEF Tokens
  <2>2. PICK i \in 1..Len(toks) : toks[i] = Len(text)
    BY <1>4, <2>1
  <2> QED
    BY <1>4, <2>2
<1>6. Peek = toks[1] /\ Peek \in 1..Len(text)
  BY <1>1, <1>4, <1>5 DEF Peek
<1>7. Remarks(0, toks[1])
  <2> SUFFICES ASSUME NEW r \in 1..toks[1] - 1 PROVE text[r].tok = "comment"
    BY DEF Remarks
  <2>1. r \in 1..Len(text) /\ r < toks[1]
    BY <1>4, <1>6
  <2>2. text[r].tok \notin Tokens
    <3> SUFFICES ASSUME text[r].tok \in Tokens PROVE FALSE
      OBVIOUS
    <3>1. PICK i \in 1..Len(toks) : toks[i] = r
      BY <1>4, <2>1
    <3>2. i # 1 => toks[1] < toks[i]
      BY <1>4, <1>5
    <3> QED
      BY <1>4, <1>6, <2>1, <3>1, <3>2
  <2> QED
    BY <1>4, <2>1, <2>2
<1>8. Owner = Root /\ Earlier = <<>> /\ Edge = 0 /\ block[Root] = EmptyBlock /\ ~ InItem
  <2>1. Owner = Root /\ block[Root] = EmptyBlock
    BY <1>1 DEF Owner
  <2>2. Earlier = <<>>
    BY <2>1 DEF Earlier, EmptyBlock
  <2> QED
    BY <1>1, <2>1, <2>2 DEF Edge, Root, InItem
<1>9. TypeOK
  <2>1. /\ EmptyMeta \in [end : Nat, leading : SUBSET Nat, trailing : SUBSET Nat,
                          detached : SUBSET Nat]
        /\ EmptyBlock \in [intro : SUBSET Nat, items : Seq(Nat), dangling : SUBSET Nat]
    BY DEF EmptyMeta, EmptyBlock
  <2>2. 0 \in 0..Len(comments) /\ 0 \in 0..Len(text) /\ <<>> \in Seq(1..Len(text))
    BY <1>4
  <2> QED
    BY <1>1, <1>5, <2>1, <2>2 DEF TypeOK
<1>10. Cursors
  BY <1>1, <1>4, <1>6, <1>7 DEF Cursors
<1>11. Alternate
  BY <1>1, <1>8 DEF Alternate
<1>12. Matched
  <2>1. Nesting(1) = 0
    <3>1. \A tok : {q \in 1..1-1 : text[q].tok = tok} = {}
      OBVIOUS
    <3>2. \A tok : Braces(1, tok) = 0
      BY <3>1, FS_EmptySet DEF Braces
    <3> QED
      BY <3>2 DEF Nesting
  <2>2. \A b \in Blocks : ~ (b <= last)
    BY <1>1, <1>4 DEF Blocks
  <2> QED
    BY <1>1, <2>1, <2>2 DEF Matched
<1>13. Introduced
  BY <1>1, <1>4 DEF Introduced, Blocks
<1>14. Untouched
  <2>1. block[Root].dangling = {}
    BY <1>8 DEF EmptyBlock
  <2> QED
    BY <1>1, <1>8, <2>1 DEF Untouched
<1>15. Resting
  BY <1>1, <1>8 DEF Resting, EmptyBlock
<1>16. Placed
  <2>1. ASSUME NEW k PROVE Places(k) = {}
    <3>1. \A h : ~ Leads(k, h) /\ ~ Trails(k, h) /\ ~ Follows(k, h)
      BY <1>1 DEF Leads, Trails, Follows, EmptyMeta
    <3>2. \A b : ~ Introduces(k, b) /\ ~ Dangles(k, b)
      BY <1>1 DEF Introduces, Dangles, EmptyBlock
    <3>3. \A p : ~ Has(k, p)
      BY <3>1, <3>2 DEF Has
    <3> QED
      BY <3>3, PlacesAre
  <2> QED
    BY <1>1, <2>1 DEF Placed
<1> QED
  BY <1>3, <1>9, <1>10, <1>11, <1>12, <1>13, <1>14, <1>15, <1>16 DEF Invariant, Core

\* Every step of the parser keeps the invariant.
LEMMA InvariantHolds == Invariant /\ [Next]_vars => Invariant'
<1> SUFFICES ASSUME Invariant, [Next]_vars PROVE Invariant'
  OBVIOUS
<1>1. TwoStreams /\ (at # "error" => Core)
  BY DEF Invariant
<1>2. ASSUME UNCHANGED <<text, toks, comments>>, at' = "error" PROVE Invariant'
  <2>1. TwoStreams'
    BY <1>1, <1>2 DEF TwoStreams
  <2> QED
    BY <1>2, <2>1 DEF Invariant
<1>3. CASE Skip
  <2>1. TwoStreams' /\ Core'
    <3>1. /\ at = "items" /\ at' = "items" /\ text[Peek].tok = "semi" /\ Advance
          /\ UNCHANGED <<text, toks, comments, ci, open, depth, meta, block>>
      BY <1>3 DEF Skip, PeekIs
    <3> QED
      BY <1>1, <3>1, PassToken
  <2> QED
    BY <2>1 DEF Invariant
<1>4. CASE BeginItem
  <2>1. TwoStreams' /\ Core'
    <3>1. at = "items"
      BY <1>4 DEF BeginItem
    <3> QED
      BY <1>1, <1>4, <3>1, BeginItemStep
  <2> QED
    BY <2>1 DEF Invariant
<1>5. CASE EnterBlock
  <2>1. at = "item" /\ UNCHANGED <<text, toks, comments>>
    BY <1>5 DEF EnterBlock
  <2>2. CASE at' = "error"
    BY <1>2, <2>1, <2>2
  <2>3. CASE at' # "error"
    <3>1. TwoStreams' /\ Core'
      BY <1>1, <1>5, <2>1, <2>3, EnterBlockStep
    <3> QED
      BY <3>1 DEF Invariant
  <2> QED
    BY <2>2, <2>3
<1>6. CASE EndBlock
  <2>1. at = "items"
    BY <1>6 DEF EndBlock
  <2>2. TwoStreams' /\ Core'
    BY <1>1, <1>6, <2>1, EndFileStep, EndBlockStep
  <2> QED
    BY <2>2 DEF Invariant
<1>7. CASE EndItem
  <2>1. TwoStreams' /\ Core'
    <3>1. /\ at = "item" /\ at' = "finish" /\ text[Peek].tok = "end" /\ Advance
          /\ UNCHANGED <<text, toks, comments, ci, open, depth, meta, block>>
      BY <1>7 DEF EndItem, PeekIs
    <3> QED
      BY <1>1, <3>1, PassToken
  <2> QED
    BY <2>1 DEF Invariant
<1>8. CASE FinishItem
  <2>1. at # "error"
    BY <1>8 DEF FinishItem, WithoutSeparator
  <2>2. TwoStreams' /\ Core'
    BY <1>1, <1>8, <2>1, FinishItemStep
  <2> QED
    BY <2>2 DEF Invariant
<1>9. CASE Unclosed
  BY <1>2, <1>9 DEF Unclosed
<1>10. CASE UNCHANGED vars
  <2>1. UNCHANGED <<text, toks, comments, ti, ci, last, at, open, depth, meta, block>>
    BY <1>10 DEF vars, parsed
  <2>2. TwoStreams' <=> TwoStreams
    BY <2>1 DEF TwoStreams
  <2>3. Core' <=> Core
    BY <2>1 DEF Core, TypeOK, Cursors, Alternate, Matched, Introduced, Untouched, Resting, Placed,
                InItem, Peek, Remarks, Heads, Blocks, Nesting, Braces, IsClosing, Earlier, Owner,
                Edge, Reach, Places, Closing, Streams
  <2> QED
    BY <1>1, <2>1, <2>2, <2>3 DEF Invariant
<1> QED
  BY <1>3, <1>4, <1>5, <1>6, <1>7, <1>8, <1>9, <1>10 DEF Next

\* The token before the brace that opens a block.
LEMMA BeforeIs ==
    ASSUME NEW b \in Nat, NEW q \in 1..b-1, text[q].tok # "comment", Remarks(q, b)
    PROVE Before(b) = q
<1> DEFINE Is(r) == text[r].tok # "comment" /\ \A x \in r+1..b-1 : text[x].tok = "comment"
           c == Before(b)
<1>1. Is(q)
  BY DEF Remarks
<1>2. c \in 1..b-1 /\ Is(c)
  BY <1>1 DEF Before
<1> HIDE DEF c
<1>3. ~ (c < q) /\ ~ (q < c)
  <2>1. c < q => q \in c+1..b-1
    BY <1>2
  <2>2. q < c => c \in q+1..b-1
    BY <1>2
  <2> QED
    BY <1>1, <1>2, <2>1, <2>2
<1> QED
  BY <1>2, <1>3 DEF c

\* Where the comments are at the end is where they were.
LEMMA InvariantSuffices == Invariant => CommentsKeepTheirPlace
<1> SUFFICES ASSUME Invariant, at = "done" PROVE CommentsKeepTheirPlace
  BY DEF CommentsKeepTheirPlace, CommentsKeepOrder, CommentsKeepScope
<1> USE DEF Core
<1>1. TwoStreams /\ Core /\ TypeOK /\ Matched /\ Introduced /\ Placed
  BY DEF Invariant
<1>2. last = Len(text) /\ ci = Len(comments) /\ depth = 0 /\ Len(text) \in Nat
  BY <1>1, TextIs DEF Cursors, Alternate
<1>3. CommentsKeepOrder
  <2>1. ASSUME NEW k \in Streams PROVE Cardinality(Places(k)) = 1
    <3>1. PICK p \in Places(k) : Places(k) = {p}
      BY <1>1, <1>2 DEF Placed, Streams
    <3> QED
      BY <3>1, FS_Singleton
  <2>2. \A j, k \in Streams : j < k => \A p \in Places(j), q \in Places(k) : p <= q
    BY <1>1, <1>2 DEF Placed, Streams
  <2> QED
    BY <2>1, <2>2 DEF CommentsKeepOrder
<1>4. CommentsKeepScope
  <2> SUFFICES ASSUME NEW b \in Blocks, NEW k \in Streams, NEW p \in Places(k)
               PROVE LET inside == 4 * b < p /\ p <= 4 * Closing(b)
                     IN /\ b < comments[k] /\ comments[k] < Closing(b) => inside
                        /\ comments[k] < Before(b) \/ comments[k] > Closing(b) => ~inside
    BY DEF CommentsKeepScope
  <2>1. b \in Nat /\ b \in 1..last /\ text[b].tok = "lb"
    BY <1>2 DEF Blocks
  <2>2. PICK c \in b+1..Len(text) : IsClosing(b, c)
    BY <1>1, <1>2, <2>1 DEF Matched
  <2>3. Closing(b) = c /\ text[c].tok = "rb" /\ c \in 1..last /\ c \in Nat /\ b < c
    BY <1>2, <2>1, <2>2, ClosingIs DEF IsClosing
  <2>4. PICK q \in 1..b-1 : text[q].tok \in {"head", "rb"} /\ Remarks(q, b)
    BY <1>1, <2>1 DEF Introduced
  <2>5. Before(b) = q /\ q \in 1..last /\ q \in Nat /\ q < b
    BY <1>2, <2>1, <2>4, BeforeIs
  <2>6. k \in 1..ci /\ p \in Nat
    <3>1. k \in 1..ci
      BY <1>2 DEF Streams
    <3> QED
      BY <1>1, <3>1 DEF Placed
  <2>7. /\ comments[k] > b => p > 4 * b
        /\ comments[k] > c => p > 4 * c
        /\ comments[k] < c => p <= 4 * c
        /\ comments[k] < q => p <= 4 * q
    BY <1>1, <2>1, <2>3, <2>4, <2>5, <2>6 DEF Placed
  <2>8. 4 * b \in Nat /\ 4 * c \in Nat /\ 4 * q \in Nat /\ 4 * q <= 4 * b
    BY <2>1, <2>3, <2>5, FourTimes
  <2>9. comments[k] \in Int
    BY <1>1, <1>2, TextIs
  <2> QED
    BY <2>1, <2>3, <2>5, <2>6, <2>7, <2>8, <2>9
<1> QED
  BY <1>3, <1>4 DEF CommentsKeepTheirPlace

\* However comments lie in a text and however its blocks nest, the parser, at
\* every step until it gives the text up, has attached each comment it has handed
\* out once, in the order of the source and on its own side of every brace and
\* item passed, and has closed every block it has left with the brace that
\* matches: the cursors, block_items, begin_item and finish_trailing of parse.rs.
THEOREM AttachInvariant == ASSUME TextsAreLexed PROVE Spec => []Invariant
<1> QED
  BY InitIsFresh, InvariantBegins, InvariantHolds, PTL DEF Spec

\* What begin_item is about to attach to the item before, or to the block, is not
\* attached on top of other comments.
NothingIsOverwritten ==
    at = "items" => IF Earlier = <<>> THEN block[Owner].intro = {}
                    ELSE meta[Last(Earlier)].detached = {}

\* The two debug assertions of block_items_inner hold, for every text.
THEOREM AssertionsHold == ASSUME TextsAreLexed PROVE Spec => []NothingIsOverwritten
<1>1. Invariant => NothingIsOverwritten
  BY DEF Invariant, Core, Resting, NothingIsOverwritten
<1> QED
  BY <1>1, InitIsFresh, InvariantBegins, InvariantHolds, PTL DEF Spec

\* No comment of a text that parses is lost, written twice or written before one
\* that stood above it, and none moves into a block or out of it: what parse.rs
\* attaches is where the comment stood, for every text and every nesting.
THEOREM CommentsStay == ASSUME TextsAreLexed PROVE Spec => []CommentsKeepTheirPlace
<1> QED
  BY InitIsFresh, InvariantBegins, InvariantHolds, InvariantSuffices, PTL DEF Spec

-----------------------------------------------------------------------------
(* What is attached, and to what.                                          *)

\* An item that has been parsed to its end.
Ended(h) == h \in Heads /\ meta[h].end # 0

\* Comments are attached, to items that end in the text; the items of a block have
\* ended.
Tied ==
    /\ \A h \in Heads : /\ meta[h].leading \in SUBSET Streams
                        /\ meta[h].trailing \in SUBSET Streams
                        /\ meta[h].detached \in SUBSET Streams
                        /\ meta[h].end < Len(text)
    /\ \A b \in Blocks \cup {Root} :
         /\ block[b].intro \in SUBSET Streams /\ block[b].dangling \in SUBSET Streams
         /\ \A i \in 1..Len(block[b].items) : Ended(block[b].items[i])

LEMMA TiedBegins == Fresh => Tied
<1> SUFFICES ASSUME Fresh PROVE Tied
  OBVIOUS
<1>1. /\ meta = [h \in Heads |-> EmptyMeta] /\ block = [b \in Blocks \cup {Root} |-> EmptyBlock]
      /\ Len(text) > 0
  <2>1. text # <<>> /\ text \in Seq(Lexemes)
    BY DEF Fresh, IsText
  <2> QED
    BY <2>1 DEF Fresh
<1> QED
  BY <1>1 DEF Tied, EmptyMeta, EmptyBlock

\* Other comments are attached to the same items and blocks.
LEMMA TiedStill ==
    ASSUME TwoStreams, TypeOK, Tied, UNCHANGED <<text, comments>>,
           DOMAIN meta' = Heads, DOMAIN block' = Blocks \cup {Root},
           \A h \in Heads : /\ meta'[h].leading \in SUBSET Streams
                            /\ meta'[h].trailing \in SUBSET Streams
                            /\ meta'[h].detached \in SUBSET Streams
                            /\ meta'[h].end = meta[h].end,
           \A b \in Blocks \cup {Root} :
               /\ block'[b].intro \in SUBSET Streams /\ block'[b].dangling \in SUBSET Streams
               /\ block'[b].items = block[b].items
    PROVE Tied'
<1>1. Heads' = Heads /\ Blocks' = Blocks /\ Streams' = Streams /\ Len(text)' = Len(text)
  BY SameText DEF Streams
<1>2. \A h : Ended(h)' <=> Ended(h)
  BY <1>1 DEF Ended
<1> QED
  BY <1>1, <1>2 DEF Tied, Root

LEMMA TiedHolds == Invariant /\ Tied /\ [Next]_vars => Tied'
<1> SUFFICES ASSUME Invariant, Tied, [Next]_vars PROVE Tied'
  OBVIOUS
<1> USE DEF Core
<1>1. TwoStreams /\ (at # "error" => Core)
  BY DEF Invariant
<1>2. ASSUME UNCHANGED <<text, comments, meta, block>> PROVE Tied'
  <2>1. Heads' = Heads /\ Blocks' = Blocks /\ Streams' = Streams /\ Len(text)' = Len(text)
    BY <1>2, SameText DEF Streams
  <2>2. \A h : Ended(h)' <=> Ended(h)
    BY <1>2, <2>1 DEF Ended
  <2> QED
    BY <1>2, <2>1, <2>2 DEF Tied, Root
<1>3. ASSUME Core PROVE Pending \in SUBSET Streams
  <2>1. ci \in 0..Len(comments) /\ Len(comments) \in Nat
    BY <1>1, <1>3, TextIs DEF TypeOK
  <2> QED
    BY <2>1 DEF Pending, Streams
<1>4. CASE BeginItem
  <2> DEFINE prev == Last(block[Owner].items)
             toPrev == Pending \ Leading
             led == [meta EXCEPT ![Peek].leading = Leading]
  <2>1. /\ Core /\ Leading \in SUBSET Streams /\ toPrev \in SUBSET Streams
        /\ UNCHANGED <<text, comments>>
        /\ meta' \in {led, [led EXCEPT ![prev].detached = toPrev]}
        /\ block' \in {block, [block EXCEPT ![Owner].intro = toPrev]}
    <3>1. Core /\ UNCHANGED <<text, comments>>
      BY <1>1, <1>4 DEF BeginItem
    <3>2. Leading \in SUBSET Pending
      BY DEF Leading
    <3>3. /\ meta' \in {led, [led EXCEPT ![prev].detached = toPrev]}
          /\ block' \in {block, [block EXCEPT ![Owner].intro = toPrev]}
      BY <1>4 DEF BeginItem
    <3> HIDE DEF led, prev
    <3> QED
      BY <1>3, <3>1, <3>2, <3>3
  <2>2. /\ meta \in [Heads -> [end : Nat, leading : SUBSET Nat, trailing : SUBSET Nat,
                               detached : SUBSET Nat]]
        /\ block \in [Blocks \cup {Root} ->
                        [intro : SUBSET Nat, items : Seq(Nat), dangling : SUBSET Nat]]
    BY <2>1 DEF TypeOK
  <2>3. /\ DOMAIN led = Heads
        /\ \A h \in Heads : led[h] \in {meta[h], [meta[h] EXCEPT !.leading = Leading]}
    BY <2>2
  <2> HIDE DEF led, prev, toPrev
  <2>4. /\ DOMAIN meta' = Heads
        /\ \A h \in Heads : meta'[h] \in {led[h], [led[h] EXCEPT !.detached = toPrev]}
    BY <2>1, <2>3
  <2>5. /\ DOMAIN block' = Blocks \cup {Root}
        /\ \A b \in Blocks \cup {Root} : block'[b] \in {block[b], [block[b] EXCEPT !.intro = toPrev]}
    BY <2>1, <2>2
  <2>6. ASSUME NEW h \in Heads
        PROVE /\ meta'[h].leading \in SUBSET Streams
              /\ meta'[h].trailing \in SUBSET Streams
              /\ meta'[h].detached \in SUBSET Streams
              /\ meta'[h].end = meta[h].end
    <3>1. /\ meta[h] \in [end : Nat, leading : SUBSET Nat, trailing : SUBSET Nat,
                          detached : SUBSET Nat]
          /\ meta[h].leading \in SUBSET Streams /\ meta[h].trailing \in SUBSET Streams
          /\ meta[h].detached \in SUBSET Streams
      BY <2>2 DEF Tied
    <3>2. led[h] \in {meta[h], [meta[h] EXCEPT !.leading = Leading]}
      BY <2>3
    <3>3. /\ led[h] \in [end : Nat, leading : SUBSET Nat, trailing : SUBSET Nat,
                         detached : SUBSET Nat]
          /\ led[h].leading \in SUBSET Streams /\ led[h].trailing \in SUBSET Streams
          /\ led[h].detached \in SUBSET Streams /\ led[h].end = meta[h].end
      <4>1. Leading \in SUBSET Nat
        BY <1>1, <2>1, TextIs DEF Streams
      <4> QED
        BY <2>1, <3>1, <3>2, <4>1
    <3>4. meta'[h] \in {led[h], [led[h] EXCEPT !.detached = toPrev]}
      BY <2>4
    <3> QED
      BY <2>1, <3>3, <3>4
  <2>7. ASSUME NEW b \in Blocks \cup {Root}
        PROVE /\ block'[b].intro \in SUBSET Streams /\ block'[b].dangling \in SUBSET Streams
              /\ block'[b].items = block[b].items
    <3>1. /\ block[b] \in [intro : SUBSET Nat, items : Seq(Nat), dangling : SUBSET Nat]
          /\ block[b].intro \in SUBSET Streams /\ block[b].dangling \in SUBSET Streams
      BY <2>2 DEF Tied
    <3>2. block'[b] \in {block[b], [block[b] EXCEPT !.intro = toPrev]}
      BY <2>5
    <3> QED
      BY <2>1, <3>1, <3>2
  <2> QED
    BY <1>1, <2>1, <2>4, <2>5, <2>6, <2>7, TiedStill
<1>5. CASE EndBlock
  <2>1. /\ Core /\ Pending \in SUBSET Streams /\ UNCHANGED <<text, comments, meta>>
        /\ block' = [block EXCEPT ![Owner].dangling = Pending]
    BY <1>1, <1>3, <1>5 DEF EndBlock
  <2>2. /\ DOMAIN meta = Heads
        /\ block \in [Blocks \cup {Root} ->
                        [intro : SUBSET Nat, items : Seq(Nat), dangling : SUBSET Nat]]
    BY <2>1 DEF TypeOK
  <2>3. /\ DOMAIN block' = Blocks \cup {Root}
        /\ \A b \in Blocks \cup {Root} :
              block'[b] \in {block[b], [block[b] EXCEPT !.dangling = Pending]}
    BY <2>1, <2>2
  <2>4. ASSUME NEW b \in Blocks \cup {Root}
        PROVE /\ block'[b].intro \in SUBSET Streams /\ block'[b].dangling \in SUBSET Streams
              /\ block'[b].items = block[b].items
    <3>1. /\ block[b] \in [intro : SUBSET Nat, items : Seq(Nat), dangling : SUBSET Nat]
          /\ block[b].intro \in SUBSET Streams /\ block[b].dangling \in SUBSET Streams
      BY <2>2 DEF Tied
    <3>2. block'[b] \in {block[b], [block[b] EXCEPT !.dangling = Pending]}
      BY <2>3
    <3> QED
      BY <2>1, <3>1, <3>2
  <2>5. \A h \in Heads : /\ meta'[h].leading \in SUBSET Streams
                         /\ meta'[h].trailing \in SUBSET Streams
                         /\ meta'[h].detached \in SUBSET Streams
                         /\ meta'[h].end = meta[h].end
    BY <2>1 DEF Tied
  <2> QED
    BY <1>1, <2>1, <2>2, <2>3, <2>4, <2>5, TiedStill
<1>6. CASE FinishItem
  <2> DEFINE H == Owner
             O == Outer
  <2>1. /\ Core /\ InItem /\ at # "done" /\ UNCHANGED <<text, comments>>
        /\ meta' = [meta EXCEPT ![H].end = last, ![H].trailing = Trailing]
        /\ block' = [block EXCEPT ![O].items = Append(@, H)]
    BY <1>1, <1>6 DEF FinishItem, WithoutSeparator, InItem
  <2>2. /\ H \in Heads /\ H <= last /\ O \in Blocks \cup {Root}
        /\ Len(text) \in Nat /\ last \in Nat /\ H \in Nat /\ H >= 1
    BY <1>1, <2>1, OwnerIs, TypeFacts
  <2>3. last < Len(text) /\ last # 0
    <3>1. last < Peek /\ Peek \in 1..Len(text)
      BY <1>1, <2>1, PeekIsToken DEF Cursors, TypeOK
    <3> QED
      BY <2>2, <3>1
  <2>4. Trailing \in SUBSET Streams
    BY <1>3, <2>1 DEF Trailing
  <2> HIDE DEF H, O
  <2>5. /\ meta \in [Heads -> [end : Nat, leading : SUBSET Nat, trailing : SUBSET Nat,
                               detached : SUBSET Nat]]
        /\ block \in [Blocks \cup {Root} ->
                        [intro : SUBSET Nat, items : Seq(Nat), dangling : SUBSET Nat]]
    BY <2>1 DEF TypeOK
  <2> DEFINE new == [meta[H] EXCEPT !.end = last, !.trailing = Trailing]
             longer == [block[O] EXCEPT !.items = Append(block[O].items, H)]
  <2>6. /\ meta[H] \in [end : Nat, leading : SUBSET Nat, trailing : SUBSET Nat,
                        detached : SUBSET Nat]
        /\ new.end = last /\ new.trailing = Trailing
        /\ new.leading = meta[H].leading /\ new.detached = meta[H].detached
    BY <2>2, <2>5
  <2>7. /\ block[O] \in [intro : SUBSET Nat, items : Seq(Nat), dangling : SUBSET Nat]
        /\ longer.items = Append(block[O].items, H)
        /\ longer.intro = block[O].intro /\ longer.dangling = block[O].dangling
    BY <2>2, <2>5
  <2>8. meta' = [meta EXCEPT ![H] = new] /\ block' = [block EXCEPT ![O] = longer]
    BY <2>1, <2>2, <2>5
  <2> HIDE DEF new, longer
  <2>9. /\ meta'[H] = new /\ \A h \in Heads : h # H => meta'[h] = meta[h]
        /\ block'[O] = longer /\ \A b \in Blocks \cup {Root} : b # O => block'[b] = block[b]
    BY <2>2, <2>5, <2>8
  <2>10. Heads' = Heads /\ Blocks' = Blocks /\ Streams' = Streams /\ Len(text)' = Len(text)
    BY <2>1, SameText DEF Streams
  <2>11. ASSUME NEW h \in Heads
         PROVE /\ meta'[h].leading \in SUBSET Streams /\ meta'[h].trailing \in SUBSET Streams
               /\ meta'[h].detached \in SUBSET Streams /\ meta'[h].end < Len(text)
               /\ Ended(h) => Ended(h)'
    <3>1. CASE h = H
      <4>1. meta[H].leading \in SUBSET Streams /\ meta[H].detached \in SUBSET Streams
        BY <2>2 DEF Tied
      <4> QED
        BY <2>2, <2>3, <2>4, <2>6, <2>9, <2>10, <3>1, <4>1 DEF Ended
    <3>2. CASE h # H
      BY <2>9, <2>10, <3>2 DEF Tied, Ended
    <3> QED
      BY <3>1, <3>2
  <2>12. H \in Heads' /\ meta'[H].end # 0
    BY <2>2, <2>3, <2>6, <2>9, <2>10 DEF Ended
  <2>13. ASSUME NEW b \in Blocks \cup {Root}
         PROVE /\ block'[b].intro \in SUBSET Streams /\ block'[b].dangling \in SUBSET Streams
               /\ \A i \in 1..Len(block'[b].items) : block'[b].items[i] \in Heads' /\ meta'[block'[b].items[i]].end # 0
    <3>1. /\ block[b].intro \in SUBSET Streams /\ block[b].dangling \in SUBSET Streams
          /\ \A i \in 1..Len(block[b].items) : Ended(block[b].items[i])
      BY DEF Tied
    <3>2. \A h : Ended(h) => Ended(h)'
      BY <2>11 DEF Ended
    <3>3. CASE b = O
      <4> DEFINE s == block[O].items
      <4>1. /\ Len(Append(s, H)) = Len(s) + 1 /\ Len(s) \in Nat
            /\ \A i \in 1..Len(s) : Append(s, H)[i] = s[i]
            /\ Append(s, H)[Len(s) + 1] = H
        <5>1. s \in Seq(Nat) /\ H \in Nat
          BY <2>2, <2>7
        <5> HIDE DEF s
        <5> QED
          BY <5>1, AppendIs
      <4>2. ASSUME NEW i \in 1..Len(block'[b].items) PROVE block'[b].items[i] \in Heads' /\ meta'[block'[b].items[i]].end # 0
        <5>1. block'[b].items = Append(s, H)
          BY <2>7, <2>9, <3>3
        <5>2. \A j \in 1..Len(s) : Ended(s[j])
          BY <3>1, <3>3
        <5> HIDE DEF s
        <5>3. i \in 1..Len(s) \/ i = Len(s) + 1
          BY <4>1, <5>1
        <5>4. CASE i \in 1..Len(s)
          <6>1. block'[b].items[i] = s[i] /\ Ended(s[i])
            BY <4>1, <5>1, <5>2, <5>4
          <6> QED
            BY <3>2, <6>1 DEF Ended
        <5>5. CASE i = Len(s) + 1
          <6>1. block'[b].items[i] = H
            BY <4>1, <5>1, <5>5
          <6> QED
            BY <2>12, <6>1
        <5> QED
          BY <5>3, <5>4, <5>5
      <4> QED
        BY <2>7, <2>9, <3>1, <3>3, <4>2
    <3>4. CASE b # O
      BY <2>9, <3>1, <3>2, <3>4 DEF Ended
    <3> QED
      BY <3>3, <3>4
  <2> QED
    BY <2>10, <2>11, <2>13 DEF Tied, Ended, Root
<1>7. CASE Skip \/ EnterBlock \/ EndItem \/ Unclosed \/ UNCHANGED vars
  BY <1>2, <1>7 DEF Skip, EnterBlock, EndItem, Unclosed, vars, parsed
<1> QED
  BY <1>4, <1>5, <1>6, <1>7 DEF Next

-----------------------------------------------------------------------------
(* Pages.                                                                  *)

\* The lexemes the printer copies.
Solids == {q \in 1..Len(text) : text[q].tok # "eof"}

LineStates == {"start", "closed", "blank"}

\* A page holds lexemes in the order of their lines, none below the line that comes
\* next.
Pages ==
    {p \in [out : Seq(Lexemes), n : Nat, line : LineStates] :
        /\ \A i \in 1..Len(p.out) : /\ p.out[i].tok # "eof"
                                    /\ p.out[i].first <= p.out[i].last /\ p.out[i].last <= p.n
        /\ \A i \in 2..Len(p.out) : p.out[i-1].last <= p.out[i].first}

\* Nothing stands on the line that comes next.
ClosedPages == {p \in Pages : p.n >= 1 /\ \A i \in 1..Len(p.out) : p.out[i].last < p.n}

\* What a page is.
LEMMA PageIs ==
    ASSUME NEW p \in Pages
    PROVE /\ p \in [out : Seq(Lexemes), n : Nat, line : LineStates]
          /\ p.out \in Seq(Lexemes) /\ Len(p.out) \in Nat /\ p.n \in Nat
          /\ \A i \in 1..Len(p.out) :
                /\ p.out[i] \in Lexemes /\ p.out[i].first \in Nat /\ p.out[i].last \in Nat
                /\ p.out[i].tok # "eof"
                /\ p.out[i].first <= p.out[i].last /\ p.out[i].last <= p.n
          /\ \A i \in 2..Len(p.out) : p.out[i-1].last <= p.out[i].first
<1>1. /\ p \in [out : Seq(Lexemes), n : Nat, line : LineStates]
      /\ \A i \in 1..Len(p.out) : /\ p.out[i].tok # "eof"
                                  /\ p.out[i].first <= p.out[i].last /\ p.out[i].last <= p.n
      /\ \A i \in 2..Len(p.out) : p.out[i-1].last <= p.out[i].first
  BY DEF Pages
<1>2. p.out \in Seq(Lexemes) /\ Len(p.out) \in Nat /\ p.n \in Nat
  BY <1>1
<1>3. \A i \in 1..Len(p.out) : p.out[i] \in Lexemes
  BY <1>2
<1>4. \A x \in Lexemes : x.first \in Nat /\ x.last \in Nat
  BY DEF Lexemes
<1> QED
  BY <1>1, <1>2, <1>3, <1>4

\* A lexeme is written on the line that comes next.
LEMMA WriteIs ==
    ASSUME NEW p \in Pages, NEW x \in Lexemes, x.first <= x.last
    PROVE LET w == Write(p, x)
          IN /\ w \in [out : Seq(Lexemes), n : Nat, line : LineStates]
             /\ Len(w.out) = Len(p.out) + 1
             /\ \A i \in 1..Len(p.out) : w.out[i] = p.out[i]
             /\ w.out[Len(p.out) + 1].tok = x.tok
             /\ w.out[Len(p.out) + 1].first = p.n /\ w.out[Len(p.out) + 1].last = w.n
             /\ p.n <= w.n
<1> DEFINE y == [x EXCEPT !.first = p.n, !.last = p.n + x.last - x.first]
           o == Append(p.out, y)
           m == p.n + x.last - x.first
<1>1. /\ p \in [out : Seq(Lexemes), n : Nat, line : LineStates]
      /\ p.out \in Seq(Lexemes) /\ Len(p.out) \in Nat /\ p.n \in Nat
  BY PageIs
<1>2. m \in Nat /\ p.n <= m
  <2>1. x.first \in Nat /\ x.last \in Nat
    BY DEF Lexemes
  <2> QED
    BY <1>1, <2>1
<1> HIDE DEF m
<1>3. y \in Lexemes /\ y.tok = x.tok /\ y.first = p.n /\ y.last = m
  BY <1>1, <1>2 DEF Lexemes, m
<1> HIDE DEF y
<1>4. /\ o \in Seq(Lexemes) /\ Len(o) = Len(p.out) + 1
      /\ \A i \in 1..Len(p.out) : o[i] = p.out[i]
      /\ o[Len(p.out) + 1] = y
  BY <1>1, <1>3, AppendIs
<1>5. Write(p, x) = [p EXCEPT !.out = o, !.n = m]
  BY <1>1 DEF Write, y, m
<1> HIDE DEF o
<1>6. /\ Write(p, x) \in [out : Seq(Lexemes), n : Nat, line : LineStates]
      /\ Write(p, x).out = o /\ Write(p, x).n = m
  BY <1>1, <1>2, <1>4, <1>5
<1> QED
  BY <1>2, <1>3, <1>4, <1>6

LEMMA WriteKeeps ==
    ASSUME NEW p \in Pages, NEW x \in Lexemes, x.tok # "eof", x.first <= x.last
    PROVE Write(p, x) \in Pages
<1> DEFINE w == Write(p, x)
<1>1. /\ w \in [out : Seq(Lexemes), n : Nat, line : LineStates]
      /\ Len(w.out) = Len(p.out) + 1
      /\ \A i \in 1..Len(p.out) : w.out[i] = p.out[i]
      /\ w.out[Len(p.out) + 1].tok = x.tok
      /\ w.out[Len(p.out) + 1].first = p.n /\ w.out[Len(p.out) + 1].last = w.n
      /\ p.n <= w.n
  BY WriteIs
<1> HIDE DEF w
<1>2. /\ Len(p.out) \in Nat /\ p.n \in Nat
      /\ \A i \in 1..Len(p.out) :
            /\ p.out[i].first \in Nat /\ p.out[i].last \in Nat /\ p.out[i].tok # "eof"
            /\ p.out[i].first <= p.out[i].last /\ p.out[i].last <= p.n
      /\ \A i \in 2..Len(p.out) : p.out[i-1].last <= p.out[i].first
  BY PageIs
<1>3. w.n \in Nat
  BY <1>1
<1>4. ASSUME NEW i \in 1..Len(w.out)
      PROVE /\ w.out[i].tok # "eof"
            /\ w.out[i].first <= w.out[i].last /\ w.out[i].last <= w.n
  <2>1. CASE i \in 1..Len(p.out)
    BY <1>1, <1>2, <1>3, <2>1
  <2>2. CASE i = Len(p.out) + 1
    BY <1>1, <1>2, <1>3, <2>2
  <2> QED
    BY <1>1, <1>2, <2>1, <2>2
<1>5. ASSUME NEW i \in 2..Len(w.out) PROVE w.out[i-1].last <= w.out[i].first
  <2>1. i - 1 \in 1..Len(p.out)
    BY <1>1, <1>2
  <2>2. CASE i \in 2..Len(p.out)
    <3>1. i \in 1..Len(p.out) /\ p.out[i-1].last <= p.out[i].first
      BY <1>2, <2>2
    <3>2. w.out[i] = p.out[i] /\ w.out[i-1] = p.out[i-1]
      BY <1>1, <2>1, <3>1
    <3> QED
      BY <3>1, <3>2
  <2>3. CASE i = Len(p.out) + 1
    BY <1>1, <1>2, <2>1, <2>3
  <2> QED
    BY <1>1, <1>2, <2>2, <2>3
<1> QED
  BY <1>1, <1>4, <1>5 DEF Pages, w

\* A page with another line to come.
LEMMA NextLine ==
    ASSUME NEW p \in Pages, NEW n \in Nat, NEW l \in LineStates,
           \A i \in 1..Len(p.out) : p.out[i].last <= n
    PROVE [p EXCEPT !.n = n, !.line = l] \in Pages
<1> DEFINE w == [p EXCEPT !.n = n, !.line = l]
<1>1. /\ w \in [out : Seq(Lexemes), n : Nat, line : LineStates]
      /\ w.out = p.out /\ w.n = n
  BY PageIs
<1> HIDE DEF w
<1>2. w \in Pages
  BY <1>1, PageIs DEF Pages
<1> QED
  BY <1>2 DEF w

LEMMA NlCloses == ASSUME NEW p \in Pages PROVE Nl(p) \in ClosedPages
<1> DEFINE w == [p EXCEPT !.n = p.n + 1, !.line = "closed"]
<1>1. /\ p.n \in Nat /\ p.n + 1 \in Nat /\ "closed" \in LineStates
      /\ \A i \in 1..Len(p.out) : p.out[i].last \in Nat /\ p.out[i].last <= p.n
  BY PageIs DEF LineStates
<1>2. \A i \in 1..Len(p.out) : p.out[i].last < p.n + 1 /\ p.out[i].last <= p.n + 1
  BY <1>1
<1>3. w \in Pages
  BY <1>1, <1>2, NextLine
<1>4. w.out = p.out /\ w.n = p.n + 1 /\ Nl(p) = w
  <2>1. p \in [out : Seq(Lexemes), n : Nat, line : LineStates]
    BY PageIs
  <2> QED
    BY <2>1 DEF Nl
<1> HIDE DEF w
<1> QED
  BY <1>1, <1>2, <1>3, <1>4 DEF ClosedPages

LEMMA BlankLineKeeps ==
    ASSUME NEW p \in Pages
    PROVE BlankLine(p) \in Pages /\ (p \in ClosedPages => BlankLine(p) \in ClosedPages)
<1> DEFINE w == [p EXCEPT !.n = p.n + 1, !.line = "blank"]
<1>1. /\ p.n \in Nat /\ p.n + 1 \in Nat /\ "blank" \in LineStates
      /\ \A i \in 1..Len(p.out) : p.out[i].last \in Nat /\ p.out[i].last <= p.n
  BY PageIs DEF LineStates
<1>2. \A i \in 1..Len(p.out) : p.out[i].last < p.n + 1 /\ p.out[i].last <= p.n + 1
  BY <1>1
<1>3. w \in Pages
  BY <1>1, <1>2, NextLine
<1>4. w.out = p.out /\ w.n = p.n + 1 /\ BlankLine(p) \in {p, w}
  <2>1. p \in [out : Seq(Lexemes), n : Nat, line : LineStates]
    BY PageIs
  <2> QED
    BY <2>1 DEF BlankLine
<1> HIDE DEF w
<1> QED
  BY <1>1, <1>2, <1>3, <1>4 DEF ClosedPages

\* A lexeme of the text is one that can be written.
LEMMA SolidIs ==
    ASSUME IsText(text), NEW q \in Solids
    PROVE text[q] \in Lexemes /\ text[q].tok # "eof" /\ text[q].first <= text[q].last
  BY DEF IsText, Solids

LEMMA WriteAtKeeps ==
    ASSUME IsText(text), NEW p \in Pages, NEW q \in Solids, NEW how
    PROVE WriteAt(p, q, how) \in Pages /\ (how # "inline" => WriteAt(p, q, how) \in ClosedPages)
<1> DEFINE begun == IF how = "spaced" /\ Blank(q) THEN BlankLine(p) ELSE p
           written == Write(begun, text[q])
<1>1. begun \in Pages
  BY BlankLineKeeps
<1>2. written \in Pages
  <2> HIDE DEF begun
  <2> QED
    BY <1>1, SolidIs, WriteKeeps
<1>3. WriteAt(p, q, how) = IF how = "inline" THEN written ELSE Nl(written)
  BY DEF WriteAt
<1> HIDE DEF written
<1>4. Nl(written) \in ClosedPages /\ ClosedPages \in SUBSET Pages
  BY <1>2, NlCloses DEF ClosedPages
<1> QED
  BY <1>2, <1>3, <1>4

\* What each lexeme keeps, a sequence of them keeps.
LEMMA WriteAllKeeps ==
    ASSUME NEW V, NEW how, \A v \in V, q \in Solids : WriteAt(v, q, how) \in V,
           NEW p \in V, NEW s \in Seq(Solids)
    PROVE WriteAll(p, s, how) \in V
<1> DEFINE N == Len(s)
           h == [n \in 1..N |-> [v \in V |-> WriteAt(v, s[n], how)]]
           Solves(f) == f = [n \in 0..N |-> IF n = 0 THEN p ELSE WriteAt(f[n-1], s[n], how)]
<1>1. WriteAll(p, s, how) = (CHOOSE f : Solves(f))[N]
  BY DEF WriteAll
<1>2. N \in Nat /\ \A n \in 1..N : s[n] \in Solids
  OBVIOUS
<1>3. \A n \in 1..N, v \in V : h[n][v] = WriteAt(v, s[n], how) /\ h[n][v] \in V
  BY <1>2
<1>4. \E f : Solves(f)
  <2>1. PICK f : Recurs(f, N, V, p, h)
    <3> HIDE DEF N, h
    <3> QED
      BY <1>2, <1>3, RecursionIs
  <2>2. f \in [0..N -> V] /\ f[0] = p /\ \A n \in 1..N : f[n] = h[n][f[n-1]]
    BY <2>1 DEF Recurs
  <2> HIDE DEF h
  <2>3. ASSUME NEW n \in 1..N PROVE f[n] = WriteAt(f[n-1], s[n], how)
    <3>1. f[n-1] \in V
      <4>1. n - 1 \in 0..N
        BY <1>2
      <4> HIDE DEF N
      <4> QED
        BY <2>2, <4>1
    <3> QED
      BY <1>3, <2>2, <3>1
  <2>4. ASSUME NEW n \in 0..N
        PROVE f[n] = IF n = 0 THEN p ELSE WriteAt(f[n-1], s[n], how)
    <3>1. CASE n = 0
      BY <2>2, <3>1
    <3>2. CASE n # 0
      <4>1. n \in 1..N
        BY <1>2, <3>2
      <4> QED
        BY <2>3, <3>2, <4>1
    <3> QED
      BY <3>1, <3>2
  <2> QED
    BY <2>2, <2>4
<1>5. PICK f : f = CHOOSE g : Solves(g)
  OBVIOUS
<1>6. Solves(f)
  BY <1>4, <1>5
<1> DEFINE T == {n \in 0..N : f[n] \notin V}
<1>7. 0 \notin T
  <2>1. f[0] = p
    BY <1>2, <1>6
  <2> QED
    BY <2>1
<1>8. ASSUME NEW n \in 1..N, n - 1 \notin T PROVE n \notin T
  <2>1. n - 1 \in 0..N /\ n \in 0..N /\ n # 0
    BY <1>2
  <2>2. f[n-1] \in V
    BY <1>8, <2>1
  <2>3. f[n] = WriteAt(f[n-1], s[n], how)
    BY <1>6, <2>1
  <2>4. f[n] \in V
    BY <1>2, <2>2, <2>3
  <2> QED
    BY <2>4
<1>9. T = {}
  <2>1. T \in SUBSET (0..N) /\ \A n \in 1..N : n \in T => n - 1 \in T
    BY <1>8
  <2> HIDE DEF T
  <2> QED
    BY <1>2, <1>7, <2>1, NoneFrom
<1>10. N \in 0..N
  BY <1>2
<1>11. f[N] \in V
  BY <1>9, <1>10
<1> QED
  BY <1>1, <1>5, <1>11

\* Comments stand where something can be written.
LEMMA StandingIs ==
    ASSUME TwoStreams, NEW S \in SUBSET Streams
    PROVE Standing(S) \in Seq(Solids) /\ (S # {} => Len(Standing(S)) >= 1)
<1> DEFINE P == {comments[k] : k \in S}
           s == Standing(S)
<1>1. /\ Len(text) \in Nat
      /\ \A k \in Streams : comments[k] \in 1..Len(text) /\ text[comments[k]].tok = "comment"
  BY TextIs
<1>2. \A p \in P : p \in Solids
  BY <1>1 DEF Solids
<1>3. ListsUpTo(s, P, Len(text))
  <2> HIDE DEF P
  <2> QED
    BY <1>1, InOrderIs DEF Standing, P
<1>4. /\ s \in Seq(1..Len(text))
      /\ \A p \in 1..Len(text) : p \in P <=> \E i \in 1..Len(s) : s[i] = p
  BY <1>3 DEF ListsUpTo
<1>5. S # {} => P # {}
  OBVIOUS
<1> HIDE DEF P, s
<1>6. Len(s) \in Nat /\ s \in [1..Len(s) -> 1..Len(text)]
  BY <1>4
<1>7. \A i \in 1..Len(s) : s[i] \in Solids
  BY <1>2, <1>4, <1>6
<1>8. s \in Seq(Solids)
  BY <1>6, <1>7
<1>9. S # {} => Len(s) >= 1
  <2> SUFFICES ASSUME S # {} PROVE Len(s) >= 1
    OBVIOUS
  <2>1. PICK p \in P : p \in 1..Len(text)
    BY <1>2, <1>5 DEF Solids
  <2> QED
    BY <1>4, <1>6, <2>1
<1> QED
  BY <1>8, <1>9 DEF s

\* Comments on lines of their own leave the page closed.
LEMMA LinesKeep ==
    ASSUME TwoStreams, NEW p \in ClosedPages, NEW s \in Seq(Solids), NEW how, how # "inline"
    PROVE WriteAll(p, s, how) \in ClosedPages
<1>1. IsText(text) /\ ClosedPages \in SUBSET Pages
  BY DEF TwoStreams, ClosedPages
<1>2. \A v \in ClosedPages, q \in Solids : WriteAt(v, q, how) \in ClosedPages
  BY <1>1, WriteAtKeeps
<1> QED
  BY <1>2, WriteAllKeeps

LEMMA InlineKeeps ==
    ASSUME TwoStreams, NEW p \in Pages, NEW s \in Seq(Solids)
    PROVE WriteAll(p, s, "inline") \in Pages
<1>1. IsText(text)
  BY DEF TwoStreams
<1>2. \A v \in Pages, q \in Solids : WriteAt(v, q, "inline") \in Pages
  BY <1>1, WriteAtKeeps
<1> QED
  BY <1>2, WriteAllKeeps

\* The line closed last is the one opened again.
LEMMA AppendTrailingKeeps ==
    ASSUME TwoStreams, NEW p \in ClosedPages, NEW S \in SUBSET Streams
    PROVE AppendTrailing(p, S) \in ClosedPages
<1> DEFINE back == [p EXCEPT !.n = p.n - 1]
<1>1. p \in Pages /\ p.n >= 1 /\ \A i \in 1..Len(p.out) : p.out[i].last < p.n
  BY DEF ClosedPages
<1>2. /\ p \in [out : Seq(Lexemes), n : Nat, line : LineStates] /\ p.n \in Nat
      /\ \A i \in 1..Len(p.out) : p.out[i].last \in Nat
  BY <1>1, PageIs
<1>3. p.n - 1 \in Nat /\ p.line \in LineStates /\ \A i \in 1..Len(p.out) : p.out[i].last <= p.n - 1
  BY <1>1, <1>2
<1>4. back = [p EXCEPT !.n = p.n - 1, !.line = p.line]
  BY <1>2
<1>5. back \in Pages
  BY <1>1, <1>3, <1>4, NextLine
<1> HIDE DEF back
<1>6. Nl(WriteAll(back, Standing(S), "inline")) \in ClosedPages
  <2>1. Standing(S) \in Seq(Solids)
    BY StandingIs
  <2>2. WriteAll(back, Standing(S), "inline") \in Pages
    BY <1>5, <2>1, InlineKeeps
  <2> QED
    BY <2>2, NlCloses
<1>7. AppendTrailing(p, S) = IF S = {} THEN p ELSE Nl(WriteAll(back, Standing(S), "inline"))
  BY DEF AppendTrailing, back
<1> QED
  BY <1>6, <1>7

LEMMA IntroKeeps ==
    ASSUME TwoStreams, NEW p \in ClosedPages, NEW S \in SUBSET Streams
    PROVE Intro(p, S) \in ClosedPages
<1>1. CASE S = {}
  BY <1>1 DEF Intro
<1>2. CASE S # {}
  <2> DEFINE s == Standing(S)
  <2>1. s \in Seq(Solids) /\ Len(s) >= 1
    BY <1>2, StandingIs
  <2> HIDE DEF s
  <2>2. s[1] \in Solids /\ Tail(s) \in Seq(Solids)
    <3>1. s # <<>> /\ Len(s) \in Nat
      BY <2>1
    <3> QED
      BY <2>1, <3>1
  <2>3. WriteAt(p, s[1], "line") \in ClosedPages
    BY <2>2, WriteAtKeeps DEF TwoStreams, ClosedPages
  <2>4. WriteAll(WriteAt(p, s[1], "line"), Tail(s), "spaced") \in ClosedPages
    BY <2>2, <2>3, LinesKeep
  <2> QED
    BY <1>2, <2>4 DEF Intro, s
<1> QED
  BY <1>1, <1>2

-----------------------------------------------------------------------------
(* Printing a text that is parsed.                                         *)

ParsedText == TwoStreams /\ Core /\ Tied /\ at = "done"

\* The scopes an item can be written in.
Scopes == {Root} \cup {h \in WithBlock : meta[h].end # 0}

\* After the head of an item comes a token.
LEMMA OpeningIs ==
    ASSUME TwoStreams, NEW h \in Heads
    PROVE Opening(h) \in h+1..Len(text) /\ Opening(h) \in 1..Len(text)
<1>1. /\ Len(text) \in Nat /\ Len(text) >= 1
      /\ \A p \in 1..Len(text) : text[p].tok \in Tokens \cup {"comment"}
      /\ \A p \in 1..Len(text) : text[p].tok = "eof" <=> p = Len(text)
      /\ \A i \in 1..Len(toks) : toks[i] \in 1..Len(text) /\ text[toks[i]].tok \in Tokens
      /\ \A p \in 1..Len(text) : text[p].tok \in Tokens => \E i \in 1..Len(toks) : toks[i] = p
  BY TextIs
<1>2. h \in 1..Len(text) /\ text[h].tok \in Tokens /\ h # Len(text)
  BY <1>1 DEF Heads, Tokens
<1>3. PICK i \in 1..Len(toks) : toks[i] = h
  BY <1>1, <1>2
<1>4. i + 1 \in 1..Len(toks) /\ toks[i] < toks[i + 1] /\ Remarks(toks[i], toks[i + 1])
  BY <1>2, <1>3, NextToken
<1>5. \E p \in h+1..Len(text) :
         text[p].tok # "comment" /\ \A q \in h+1..p-1 : text[q].tok = "comment"
  <2>1. toks[i + 1] \in h+1..Len(text) /\ text[toks[i + 1]].tok # "comment"
    <3>1. h < toks[i + 1] /\ toks[i + 1] \in 1..Len(text) /\ text[toks[i + 1]].tok \in Tokens
      BY <1>1, <1>3, <1>4
    <3> QED
      BY <1>1, <1>2, <3>1 DEF Tokens
  <2>2. \A q \in h+1..toks[i + 1]-1 : text[q].tok = "comment"
    BY <1>3, <1>4 DEF Remarks
  <2> QED
    BY <2>1, <2>2
<1>6. Opening(h) \in h+1..Len(text)
  BY <1>5 DEF Opening
<1> QED
  BY <1>1, <1>2, <1>6

\* The block of a scope.
LEMMA BlockIs ==
    ASSUME TwoStreams, TypeOK, Tied, NEW o \in Scopes
    PROVE /\ Block(o).intro \in SUBSET Streams /\ Block(o).dangling \in SUBSET Streams
          /\ Items(o) \in Seq(Nat) /\ \A i \in 1..Len(Items(o)) : Ended(Items(o)[i])
          /\ o # Root => o \in Heads /\ Opening(o) \in Blocks /\ Opening(o) \in Solids
<1>1. CASE o = Root
  <2>1. Block(o) = block[Root] /\ Items(o) = block[Root].items
    BY <1>1 DEF Block, Items
  <2>2. block[Root].items \in Seq(Nat)
    BY TypeFacts
  <2> QED
    BY <1>1, <2>1, <2>2 DEF Tied
<1>2. CASE o # Root
  <2>1. o \in WithBlock /\ o \in Heads /\ text[Opening(o)].tok = "lb"
    BY <1>2 DEF Scopes, WithBlock
  <2>2. Opening(o) \in Blocks /\ Opening(o) \in Solids
    <3>1. Opening(o) \in 1..Len(text)
      BY <2>1, OpeningIs
    <3> QED
      BY <2>1, <3>1 DEF Blocks, Solids
  <2>3. Block(o) = block[Opening(o)] /\ Items(o) = block[Opening(o)].items
    BY <1>2, <2>1 DEF Block, Items
  <2>4. block[Opening(o)].items \in Seq(Nat)
    BY <2>2, TypeFacts
  <2> QED
    BY <1>2, <2>1, <2>2, <2>3, <2>4 DEF Tied
<1> QED
  BY <1>1, <1>2

LEMMA LeadingLinesKeep ==
    ASSUME ParsedText, NEW o \in Scopes, NEW i \in 1..Len(Items(o)), NEW p \in ClosedPages
    PROVE LeadingLines(p, o, i) \in ClosedPages
<1>1. TwoStreams /\ TypeOK /\ Tied
  BY DEF ParsedText, Core
<1>2. meta[Items(o)[i]].leading \in SUBSET Streams
  <2>1. Ended(Items(o)[i])
    BY <1>1, BlockIs
  <2> QED
    BY <1>1, <2>1 DEF Tied, Ended
<1> DEFINE begun == IF WantBlank(o, i) THEN BlankLine(p) ELSE p
           s == Standing(meta[Items(o)[i]].leading)
<1>3. begun \in ClosedPages
  BY BlankLineKeeps DEF ClosedPages
<1>4. s \in Seq(Solids)
  BY <1>1, <1>2, StandingIs
<1>5. LeadingLines(p, o, i) = WriteAll(begun, s, "line")
  BY DEF LeadingLines
<1> HIDE DEF begun, s
<1> QED
  BY <1>1, <1>3, <1>4, <1>5, LinesKeep

LEMMA RestKeeps ==
    ASSUME ParsedText, NEW h \in Heads, NEW p \in ClosedPages
    PROVE Rest(p, h) \in ClosedPages
<1>1. /\ TwoStreams
      /\ meta[h].trailing \in SUBSET Streams /\ meta[h].detached \in SUBSET Streams
  BY DEF ParsedText, Tied
<1> DEFINE ended == AppendTrailing(p, meta[h].trailing)
           s == Standing(meta[h].detached)
<1>2. ended \in ClosedPages
  BY <1>1, AppendTrailingKeeps
<1>3. s \in Seq(Solids)
  BY <1>1, StandingIs
<1>4. Rest(p, h) = WriteAll(ended, s, "spaced")
  BY DEF Rest
<1> HIDE DEF ended, s
<1> QED
  BY <1>1, <1>2, <1>3, <1>4, LinesKeep

LEMMA DanglingKeeps ==
    ASSUME ParsedText, NEW o \in Scopes, NEW p \in ClosedPages
    PROVE Dangling(p, o) \in ClosedPages
<1>1. TwoStreams /\ Block(o).dangling \in SUBSET Streams
  BY BlockIs DEF ParsedText, Core
<1>2. Standing(Block(o).dangling) \in Seq(Solids)
  BY <1>1, StandingIs
<1> QED
  BY <1>1, <1>2, LinesKeep DEF Dangling

\* The tokens of an item can be written.
LEMMA ItemTokensAre ==
    ASSUME TwoStreams, NEW h PROVE ItemTokens(h) \in Seq(Solids)
<1> DEFINE P == {q \in h..meta[h].end : text[q].tok \in {"head", "lb", "rb", "end"}}
           s == ItemTokens(h)
<1>1. Len(text) \in Nat
  BY TextIs
<1>2. ListsUpTo(s, P, Len(text))
  <2> HIDE DEF P
  <2> QED
    BY <1>1, InOrderIs DEF ItemTokens, P
<1> HIDE DEF s
<1>3. /\ s \in Seq(1..Len(text)) /\ Len(s) \in Nat
      /\ \A p \in 1..Len(text) : p \in P <=> \E i \in 1..Len(s) : s[i] = p
  BY <1>2 DEF ListsUpTo
<1>4. \A i \in 1..Len(s) : s[i] \in Solids
  <2> TAKE i \in 1..Len(s)
  <2>1. s[i] \in 1..Len(text)
    BY <1>3
  <2>2. s[i] \in P
    <3> HIDE DEF P
    <3> QED
      BY <1>3, <2>1
  <2> QED
    BY <2>1, <2>2 DEF Solids
<1>5. s \in Seq(Solids)
  <2>1. s \in [1..Len(s) -> 1..Len(text)]
    BY <1>3
  <2> QED
    BY <1>3, <1>4, <2>1
<1> QED
  BY <1>5 DEF s

\* What is put around an item and its block can be written.
LEMMA EndsAreSolid ==
    ASSUME ParsedText, NEW h \in Scopes, h # Root
    PROVE /\ h \in Solids /\ Opening(h) \in Solids
          /\ Closing(Opening(h)) \in Solids /\ meta[h].end \in Solids
<1>1. TwoStreams /\ TypeOK /\ Alternate /\ Matched /\ Cursors /\ Tied /\ at = "done"
  BY DEF ParsedText, Core
<1>2. /\ Len(text) \in Nat
      /\ \A p \in 1..Len(text) : text[p].tok = "eof" <=> p = Len(text)
  BY <1>1, TextIs
<1>3. h \in Heads /\ meta[h].end # 0 /\ Opening(h) \in Blocks /\ Opening(h) \in Solids
  BY <1>1, BlockIs DEF Scopes
<1>4. h \in Solids
  BY <1>3 DEF Heads, Solids
<1>5. meta[h].end \in Solids
  <2>1. meta[h].end \in Nat /\ meta[h].end < Len(text)
    BY <1>1, <1>3, TypeFacts DEF Tied
  <2> QED
    BY <1>2, <1>3, <2>1 DEF Solids
<1>6. Closing(Opening(h)) \in Solids
  <2> DEFINE b == Opening(h)
  <2>1. b \in Nat /\ b \in Blocks /\ b <= last /\ last = Len(text) /\ depth = 0
    BY <1>1, <1>2, <1>3 DEF Blocks, Cursors, Alternate
  <2> HIDE DEF b
  <2>2. PICK c \in b+1..Len(text) : IsClosing(b, c)
    BY <1>1, <2>1 DEF Matched
  <2>3. Closing(b) = c /\ text[c].tok = "rb" /\ c \in 1..Len(text)
    BY <1>2, <2>1, <2>2, ClosingIs DEF IsClosing
  <2> QED
    BY <2>3 DEF Solids, b
<1> QED
  BY <1>3, <1>4, <1>5, <1>6

-----------------------------------------------------------------------------
(* The steps of the printer.                                               *)

Frames == [owner : Scopes, i : Nat \ {0}]

\* While it prints, the text is parsed, the page ends with a line, and what is
\* written are scopes, from the file inwards.
FormatInvariant ==
    /\ Invariant /\ Tied
    /\ stage \in {"parse", "print", "done"}
    /\ stage = "print" =>
         /\ at = "done"
         /\ page \in ClosedPages
         /\ frames \in Seq(Frames) /\ frames # <<>> /\ frames[1].owner = Root

LEMMA PrintingIs ==
    ASSUME FormatInvariant, stage = "print"
    PROVE ParsedText /\ page \in ClosedPages
  BY DEF FormatInvariant, Invariant, ParsedText

\* Printing leaves the text and its parse alone.
LEMMA SameParse ==
    ASSUME Invariant, Tied, UNCHANGED vars
    PROVE Invariant' /\ Tied' /\ at' = at /\ Scopes' = Scopes /\ Frames' = Frames
<1>1. Invariant'
  BY InvariantHolds
<1>2. Tied'
  BY TiedHolds
<1>3. text' = text /\ at' = at /\ meta' = meta
  BY DEF vars, parsed
<1>4. Scopes' = Scopes
  BY <1>3 DEF Scopes, Root, WithBlock, Opening, Heads
<1>5. Frames' = Frames
  BY <1>4 DEF Frames
<1> QED
  BY <1>1, <1>2, <1>3, <1>4, <1>5

\* The scope being written, and the item that is next in it.
LEMMA TopIs ==
    ASSUME FormatInvariant, stage = "print"
    PROVE /\ Top.owner \in Scopes /\ Top.i \in Nat \ {0}
          /\ Len(frames) \in Nat /\ Len(frames) >= 1 /\ Top = frames[Len(frames)]
          /\ Ahead => Top.i \in 1..Len(Items(Top.owner)) /\ Ended(Item)
<1>1. frames \in Seq(Frames) /\ frames # <<>>
  BY DEF FormatInvariant
<1>2. Len(frames) \in Nat /\ Len(frames) >= 1 /\ Top = frames[Len(frames)] /\ Top \in Frames
  BY <1>1 DEF Top, Last
<1>3. Top.owner \in Scopes /\ Top.i \in Nat \ {0}
  BY <1>2 DEF Frames
<1>4. ASSUME Ahead PROVE Top.i \in 1..Len(Items(Top.owner)) /\ Ended(Item)
  <2>1. /\ Items(Top.owner) \in Seq(Nat)
        /\ \A i \in 1..Len(Items(Top.owner)) : Ended(Items(Top.owner)[i])
    BY <1>3, PrintingIs, BlockIs DEF ParsedText, Core
  <2>2. Top.i \in 1..Len(Items(Top.owner))
    <3>1. Top.i <= Len(Items(Top.owner)) /\ Len(Items(Top.owner)) \in Nat
      BY <1>4, <2>1 DEF Ahead
    <3> QED
      BY <1>3, <3>1
  <2> QED
    BY <2>1, <2>2 DEF Item
<1> QED
  BY <1>2, <1>3, <1>4

\* To the next item of a scope.
Counted(s, n) == [s EXCEPT ![n].i = @ + 1]

LEMMA CountedIs ==
    ASSUME NEW S, NEW s \in Seq([owner : S, i : Nat \ {0}]), NEW n \in 1..Len(s)
    PROVE /\ Counted(s, n) \in Seq([owner : S, i : Nat \ {0}])
          /\ Counted(s, n) # <<>> /\ Counted(s, n)[1].owner = s[1].owner
<1> DEFINE F == [owner : S, i : Nat \ {0}]
           new == [s[n] EXCEPT !.i = s[n].i + 1]
           t == [s EXCEPT ![n] = new]
<1>1. Len(s) \in Nat /\ s[n] \in F /\ s[1] \in F /\ s \in [1..Len(s) -> F] /\ 1 \in 1..Len(s)
  <2>1. s \in Seq(F)
    OBVIOUS
  <2> HIDE DEF F, new
  <2> QED
    BY <2>1
<1>2. new \in F /\ new.owner = s[n].owner
  <2>1. s[n].i + 1 \in Nat \ {0}
    <3>1. s[n].i \in Nat
      BY <1>1
    <3> QED
      BY <3>1
  <2> QED
    BY <1>1, <2>1
<1>3. Counted(s, n) = t
  BY <1>1 DEF Counted
<1> HIDE DEF F, new
<1>4. t \in [1..Len(s) -> F] /\ t[1].owner = s[1].owner
  BY <1>1, <1>2
<1>5. t \in Seq(F) /\ t # <<>>
  BY <1>1, <1>4
<1> QED
  BY <1>3, <1>4, <1>5 DEF F

LEMMA StartStep == ASSUME FormatInvariant, Start PROVE FormatInvariant'
<1>1. /\ at = "done" /\ stage' = "print" /\ page' = Intro(EmptyPage, block[Root].intro)
      /\ frames' = <<[owner |-> Root, i |-> 1]>> /\ UNCHANGED vars
  BY DEF Start
<1>2. Invariant /\ Tied /\ TwoStreams
  BY DEF FormatInvariant, Invariant
<1>3. Invariant' /\ Tied' /\ at' = at /\ Frames' = Frames
  BY <1>1, <1>2, SameParse
<1>4. page' \in ClosedPages
  <2>1. EmptyPage \in ClosedPages
    BY DEF EmptyPage, ClosedPages, Pages, LineStates
  <2>2. block[Root].intro \in SUBSET Streams
    BY <1>2 DEF Tied
  <2> QED
    BY <1>1, <1>2, <2>1, <2>2, IntroKeeps
<1>5. frames' \in Seq(Frames) /\ frames' # <<>> /\ frames'[1].owner = Root
  <2>1. [owner |-> Root, i |-> 1] \in Frames
    BY DEF Frames, Scopes
  <2> QED
    BY <1>1, <2>1
<1>6. ClosedPages' = ClosedPages /\ Root' = Root
  BY DEF ClosedPages, Pages, LineStates, Lexemes, Tokens, Braced, Leaves, Root
<1> QED
  BY <1>1, <1>3, <1>4, <1>5, <1>6 DEF FormatInvariant

\* What a step of the printer has to show.
LEMMA PrintStep ==
    ASSUME FormatInvariant, stage = "print", stage' = "print", UNCHANGED vars,
           page' \in ClosedPages, frames' \in Seq(Frames), frames' # <<>>,
           frames'[1].owner = Root
    PROVE FormatInvariant'
<1>1. Invariant /\ Tied /\ at = "done"
  BY DEF FormatInvariant
<1>2. Invariant' /\ Tied' /\ at' = at /\ Frames' = Frames
  BY <1>1, SameParse
<1>3. ClosedPages' = ClosedPages /\ Root' = Root
  BY DEF ClosedPages, Pages, LineStates, Lexemes, Tokens, Braced, Leaves, Root
<1> QED
  BY <1>1, <1>2, <1>3 DEF FormatInvariant

LEMMA WriteItemStep == ASSUME FormatInvariant, WriteItem PROVE FormatInvariant'
<1> DEFINE led == LeadingLines(page, Top.owner, Top.i)
           written == WriteAll(led, ItemTokens(Item), "inline")
<1>1. /\ Ahead /\ stage = "print" /\ stage' = stage /\ UNCHANGED vars
      /\ page' = Rest(Nl(written), Item) /\ frames' = Passed
  BY DEF WriteItem, Ahead
<1>2. ParsedText /\ page \in ClosedPages /\ TwoStreams
  BY <1>1, PrintingIs DEF ParsedText
<1>3. /\ Top.owner \in Scopes /\ Top.i \in 1..Len(Items(Top.owner)) /\ Ended(Item)
      /\ Len(frames) \in 1..Len(frames)
  BY <1>1, TopIs
<1>4. led \in ClosedPages
  BY <1>2, <1>3, LeadingLinesKeep
<1> HIDE DEF led
<1>5. written \in Pages
  BY <1>2, <1>4, ItemTokensAre, InlineKeeps DEF ClosedPages
<1> HIDE DEF written
<1>6. page' \in ClosedPages
  <2>1. Nl(written) \in ClosedPages /\ Item \in Heads
    BY <1>3, <1>5, NlCloses DEF Ended
  <2> QED
    BY <1>1, <1>2, <2>1, RestKeeps
<1>7. frames' \in Seq(Frames) /\ frames' # <<>> /\ frames'[1].owner = Root
  <2>1. frames \in Seq([owner : Scopes, i : Nat \ {0}]) /\ frames[1].owner = Root
    BY <1>1 DEF FormatInvariant, Frames
  <2>2. frames' = Counted(frames, Len(frames))
    BY <1>1 DEF Passed, Counted
  <2> QED
    BY <1>3, <2>1, <2>2, CountedIs DEF Frames
<1> QED
  BY <1>1, <1>6, <1>7, PrintStep

LEMMA OpenBlockStep == ASSUME FormatInvariant, OpenBlock PROVE FormatInvariant'
<1> DEFINE name == Write(LeadingLines(page, Top.owner, Top.i), text[Item])
           headed == IF InOptions(Item) THEN Nl(name) ELSE name
           brace == Write(headed, text[Opening(Item)])
<1>1. /\ Ahead /\ ManyLines(Item) /\ stage = "print" /\ stage' = stage /\ UNCHANGED vars
      /\ page' = Intro(Nl(brace), Block(Item).intro)
      /\ frames' = Append(frames, [owner |-> Item, i |-> 1])
  BY DEF OpenBlock, Ahead
<1>2. ParsedText /\ page \in ClosedPages /\ TwoStreams /\ TypeOK /\ Tied /\ IsText(text)
  BY <1>1, PrintingIs DEF ParsedText, Core, TwoStreams
<1>3. /\ Top.owner \in Scopes /\ Top.i \in 1..Len(Items(Top.owner)) /\ Ended(Item)
      /\ Len(frames) \in Nat /\ Len(frames) >= 1
  BY <1>1, TopIs
<1>4. Item \in Scopes /\ Item # Root
  <2>1. Item \in WithBlock /\ Item \in Heads /\ meta[Item].end # 0
    BY <1>1, <1>3 DEF ManyLines, Ended
  <2> QED
    BY <2>1 DEF Scopes, Heads, Root
<1>5. Item \in Solids /\ Opening(Item) \in Solids /\ Block(Item).intro \in SUBSET Streams
  BY <1>2, <1>4, EndsAreSolid, BlockIs
<1>6. name \in Pages
  <2>1. LeadingLines(page, Top.owner, Top.i) \in Pages
    BY <1>2, <1>3, LeadingLinesKeep DEF ClosedPages
  <2> QED
    BY <1>2, <1>5, <2>1, SolidIs, WriteKeeps
<1> HIDE DEF name
<1>7. headed \in Pages
  BY <1>6, NlCloses DEF ClosedPages
<1> HIDE DEF headed
<1>8. brace \in Pages
  BY <1>2, <1>5, <1>7, SolidIs, WriteKeeps
<1> HIDE DEF brace
<1>9. page' \in ClosedPages
  BY <1>1, <1>2, <1>5, <1>8, NlCloses, IntroKeeps
<1>10. frames' \in Seq(Frames) /\ frames' # <<>> /\ frames'[1].owner = Root
  <2>1. frames \in Seq(Frames) /\ frames[1].owner = Root
    BY <1>1 DEF FormatInvariant
  <2>2. [owner |-> Item, i |-> 1] \in Frames
    BY <1>4 DEF Frames
  <2> DEFINE f == [owner |-> Item, i |-> 1]
  <2> HIDE DEF f
  <2>3. /\ Append(frames, f) \in Seq(Frames) /\ Len(Append(frames, f)) = Len(frames) + 1
        /\ \A i \in 1..Len(frames) : Append(frames, f)[i] = frames[i]
    BY <2>1, <2>2, AppendIs DEF f
  <2>4. frames' = Append(frames, f)
    BY <1>1 DEF f
  <2> QED
    BY <1>3, <2>1, <2>3, <2>4
<1> QED
  BY <1>1, <1>9, <1>10, PrintStep

LEMMA CloseBlockStep == ASSUME FormatInvariant, CloseBlock PROVE FormatInvariant'
<1> DEFINE h == Top.owner
           brace == Write(Dangling(page, h), text[Closing(Opening(h))])
           tail == IF InOptions(h) THEN Nl(brace) ELSE brace
           ended == IF Kind(h) \in Braced THEN brace ELSE Write(tail, text[meta[h].end])
<1>1. /\ h # Root /\ stage = "print" /\ stage' = stage /\ UNCHANGED vars
      /\ page' = Rest(Nl(ended), h)
      /\ frames' = [Front(frames) EXCEPT ![Len(frames) - 1].i = @ + 1]
  BY DEF CloseBlock, Behind
<1>2. ParsedText /\ page \in ClosedPages /\ IsText(text)
  BY <1>1, PrintingIs DEF ParsedText, TwoStreams
<1>3. /\ h \in Scopes /\ Len(frames) \in Nat /\ Len(frames) >= 1 /\ h = frames[Len(frames)].owner
  BY <1>1, TopIs
<1> HIDE DEF h
<1>4. /\ h \in Heads /\ Closing(Opening(h)) \in Solids /\ meta[h].end \in Solids
  BY <1>1, <1>2, <1>3, EndsAreSolid, BlockIs DEF ParsedText, Core
<1>5. brace \in Pages
  <2>1. Dangling(page, h) \in Pages
    BY <1>2, <1>3, DanglingKeeps DEF ClosedPages
  <2> QED
    BY <1>2, <1>4, <2>1, SolidIs, WriteKeeps
<1> HIDE DEF brace
<1>6. tail \in Pages
  BY <1>5, NlCloses DEF ClosedPages
<1> HIDE DEF tail
<1>7. ended \in Pages
  BY <1>2, <1>4, <1>5, <1>6, SolidIs, WriteKeeps
<1> HIDE DEF ended
<1>8. page' \in ClosedPages
  BY <1>1, <1>2, <1>4, <1>7, NlCloses, RestKeeps
<1>9. frames' \in Seq(Frames) /\ frames' # <<>> /\ frames'[1].owner = Root
  <2>1. frames \in Seq(Frames) /\ frames[1].owner = Root /\ frames # <<>>
    BY <1>1 DEF FormatInvariant
  <2>2. Len(frames) # 1
    BY <1>1, <1>3, <2>1
  <2>3. /\ Front(frames) \in Seq(Frames) /\ Len(Front(frames)) = Len(frames) - 1
        /\ \A i \in 1..Len(frames) - 1 : Front(frames)[i] = frames[i]
    BY <2>1, FrontIs
  <2>4. Len(frames) - 1 \in 1..Len(Front(frames)) /\ 1 \in 1..Len(frames) - 1
    BY <1>3, <2>2, <2>3
  <2>5. Front(frames) \in Seq([owner : Scopes, i : Nat \ {0}])
    BY <2>3 DEF Frames
  <2>6. frames' = Counted(Front(frames), Len(frames) - 1)
    BY <1>1 DEF Counted
  <2>7. Front(frames)[1].owner = Root
    BY <2>1, <2>3, <2>4
  <2> QED
    BY <2>4, <2>5, <2>6, <2>7, CountedIs DEF Frames
<1> QED
  BY <1>1, <1>8, <1>9, PrintStep

\* What is printed is a text again.
LEMMA PrintedIs == ASSUME FormatInvariant, stage = "print" PROVE IsText(Printed)
<1> DEFINE d == Dangling(page, Root)
           x == text[Len(text)]
           o == Printed
<1>1. ParsedText /\ page \in ClosedPages /\ IsText(text) /\ Root \in Scopes
  BY PrintingIs DEF ParsedText, TwoStreams, Scopes
<1>2. d \in Pages
  BY <1>1, DanglingKeeps DEF ClosedPages
<1>3. x \in Lexemes /\ x.tok = "eof" /\ x.first <= x.last
  <2>1. Len(text) \in 1..Len(text) /\ text \in Seq(Lexemes)
    BY <1>1 DEF IsText
  <2> QED
    BY <1>1, <2>1 DEF IsText
<1> HIDE DEF d, x
<1>4. /\ Write(d, x) \in [out : Seq(Lexemes), n : Nat, line : LineStates]
      /\ Len(Write(d, x).out) = Len(d.out) + 1
      /\ \A i \in 1..Len(d.out) : Write(d, x).out[i] = d.out[i]
      /\ Write(d, x).out[Len(d.out) + 1].tok = x.tok
      /\ Write(d, x).out[Len(d.out) + 1].first = d.n
      /\ Write(d, x).out[Len(d.out) + 1].last = Write(d, x).n
      /\ d.n <= Write(d, x).n
  BY <1>2, <1>3, WriteIs
<1>5. o = Write(d, x).out
  BY DEF Printed, d, x
<1>6. /\ Len(d.out) \in Nat /\ d.n \in Nat
      /\ \A i \in 1..Len(d.out) :
            /\ d.out[i].tok # "eof" /\ d.out[i].last \in Nat
            /\ d.out[i].first <= d.out[i].last /\ d.out[i].last <= d.n
      /\ \A i \in 2..Len(d.out) : d.out[i-1].last <= d.out[i].first
  BY <1>2, PageIs
<1> HIDE DEF o
<1>7. o \in Seq(Lexemes) /\ o # <<>>
  <2>1. o \in Seq(Lexemes)
    BY <1>4, <1>5
  <2> QED
    BY <1>4, <1>5, <1>6, <2>1
<1>8. ASSUME NEW i \in 1..Len(o) PROVE (o[i].tok = "eof" <=> i = Len(o)) /\ o[i].first <= o[i].last
  <2>1. CASE i \in 1..Len(d.out)
    BY <1>4, <1>5, <1>6, <2>1
  <2>2. CASE i = Len(d.out) + 1
    BY <1>3, <1>4, <1>5, <1>6, <2>2
  <2> QED
    BY <1>4, <1>5, <1>6, <2>1, <2>2
<1>9. ASSUME NEW i \in 2..Len(o) PROVE o[i-1].last <= o[i].first
  <2>1. i - 1 \in 1..Len(d.out) /\ o[i-1] = d.out[i-1]
    BY <1>4, <1>5, <1>6
  <2>2. CASE i \in 2..Len(d.out)
    <3>1. i \in 1..Len(d.out) /\ d.out[i-1].last <= d.out[i].first
      BY <1>6, <2>2
    <3>2. o[i] = d.out[i]
      BY <1>4, <1>5, <3>1
    <3> QED
      BY <2>1, <3>1, <3>2
  <2>3. CASE i = Len(d.out) + 1
    BY <1>4, <1>5, <1>6, <2>1, <2>3
  <2> QED
    BY <1>4, <1>5, <1>6, <2>2, <2>3
<1>10. IsText(o)
  BY <1>7, <1>8, <1>9 DEF IsText
<1> QED
  BY <1>10 DEF o

LEMMA AgainStep == ASSUME FormatInvariant, Again PROVE FormatInvariant'
<1>1. /\ text' = Printed /\ stage = "print" /\ stage' = "parse"
      /\ toks' = Stream(text', Tokens) /\ comments' = Stream(text', {"comment"})
      /\ ti' = 1 /\ ci' = 0 /\ last' = 0 /\ at' = "items" /\ open' = <<>> /\ depth' = 0
      /\ meta' = [h \in Heads' |-> EmptyMeta]
      /\ block' = [b \in Blocks' \cup {Root} |-> EmptyBlock]
  BY DEF Again, Behind
<1>2. IsText(text)'
  <2>1. IsText(text')
    BY <1>1, PrintedIs
  <2> QED
    BY <2>1 DEF IsText, Lexemes, Tokens, Braced, Leaves
<1>3. Fresh'
  <2>1. /\ Stream(text, Tokens)' = Stream(text', Tokens)
        /\ Stream(text, {"comment"})' = Stream(text', {"comment"})
    BY DEF Stream, InOrder, Tokens
  <2> QED
    BY <1>1, <1>2, <2>1 DEF Fresh, EmptyMeta, EmptyBlock, Root
<1>4. Invariant' /\ Tied'
  <2>1. (Fresh => Invariant)' /\ (Fresh => Tied)'
    BY InvariantBegins, TiedBegins, PTL
  <2> QED
    BY <1>3, <2>1
<1> QED
  BY <1>1, <1>4 DEF FormatInvariant

LEMMA FormatInvariantHolds ==
    FormatInvariant /\ [FormatNext]_<<vars, printing>> => FormatInvariant'
<1> SUFFICES ASSUME FormatInvariant, [FormatNext]_<<vars, printing>> PROVE FormatInvariant'
  OBVIOUS
<1>1. Invariant /\ Tied
  BY DEF FormatInvariant
<1>2. CASE Parse
  <2>1. Invariant' /\ Tied' /\ stage = "parse" /\ stage' = "parse"
    BY <1>1, <1>2, InvariantHolds, TiedHolds DEF Parse, printing
  <2> QED
    BY <2>1 DEF FormatInvariant
<1>3. CASE Finish
  <2>1. Invariant' /\ Tied' /\ stage' = "done"
    BY <1>1, <1>3, SameParse DEF Finish
  <2> QED
    BY <2>1 DEF FormatInvariant
<1>4. CASE UNCHANGED <<vars, printing>>
  <2>1. UNCHANGED vars /\ UNCHANGED <<stage, page, frames>>
    BY <1>4 DEF printing
  <2>2. Invariant' /\ Tied' /\ at' = at /\ Frames' = Frames
    BY <1>1, <2>1, SameParse
  <2>3. ClosedPages' = ClosedPages /\ Root' = Root
    BY DEF ClosedPages, Pages, LineStates, Lexemes, Tokens, Braced, Leaves, Root
  <2> QED
    BY <2>1, <2>2, <2>3 DEF FormatInvariant
<1> QED
  BY <1>2, <1>3, <1>4, StartStep, WriteItemStep, OpenBlockStep, CloseBlockStep, AgainStep
     DEF FormatNext

LEMMA FormatInvariantBegins == FormatInit => FormatInvariant
<1> SUFFICES ASSUME FormatInit PROVE FormatInvariant
  OBVIOUS
<1>1. Fresh /\ stage = "parse"
  BY TextsAssumption, InitIsFresh DEF FormatInit
<1> QED
  BY <1>1, InvariantBegins, TiedBegins DEF FormatInvariant

PrintsTexts == IsText(text) /\ (stage = "print" => IsText(Printed))

\* What the printer makes of a text that parses, wherever its comments stand, is a
\* text again: its lexemes are those of a file, in the order of their lines, with
\* its end where it ends.  So is what is made of that.
THEOREM TextsStayTexts == FormatSpec => []PrintsTexts
<1>1. FormatInvariant => PrintsTexts
  BY PrintedIs DEF FormatInvariant, Invariant, TwoStreams, PrintsTexts
<1> QED
  BY <1>1, FormatInvariantBegins, FormatInvariantHolds, PTL DEF FormatSpec

\* The comments of the text and those of its output, parsed in their turn, are all
\* attached where they stand.
THEOREM CommentsStayTwice == FormatSpec => []CommentsKeepTheirPlace
<1>1. FormatInvariant => CommentsKeepTheirPlace
  BY InvariantSuffices DEF FormatInvariant
<1> QED
  BY <1>1, FormatInvariantBegins, FormatInvariantHolds, PTL DEF FormatSpec

-----------------------------------------------------------------------------
(* What else the parse makes of a text: how the spans of items lie, and    *)
(* where the comments attached to them are.                                *)

Marks(h) == meta[h].leading \cup meta[h].trailing \cup meta[h].detached
EndOf(h) == meta[h].end
Around(j) == IF j = 1 THEN Root ELSE open[j - 1]

\* The comments to be handed out come after every head consumed, and while an item
\* is parsed, what has been handed out and what has ended lies behind.
Cut ==
    /\ \A k \in ci + 1 .. Len(comments), h \in Heads : h <= last => h < comments[k]
    /\ InItem => /\ \A k \in 1..ci : comments[k] < last
                 /\ \A g \in Heads : Ended(g) => EndOf(g) < last

\* Spans nest.
Spans ==
    /\ \A g \in Heads : Ended(g) => g <= EndOf(g) /\ EndOf(g) <= last
    /\ \A g, h \in Heads : Ended(g) /\ Ended(h) /\ g < h => EndOf(g) < h \/ EndOf(h) < EndOf(g)
    /\ \A j \in 1..Len(open) : open[j] \in Heads =>
          /\ ~Ended(open[j])
          /\ \A g \in Heads : Ended(g) /\ g < open[j] => EndOf(g) < open[j]

\* The items of a block stand in it, in order, and in no other block.
Rows ==
    /\ \A b \in Blocks \cup {Root}, i \in Nat :
          i \in 1..Len(block[b].items) => b < block[b].items[i]
    /\ \A b \in Blocks \cup {Root}, i, j \in Nat :
          i \in 1..Len(block[b].items) /\ j \in 1..Len(block[b].items) /\ i < j =>
             EndOf(block[b].items[i]) < block[b].items[j]
    /\ \A b, c \in Blocks \cup {Root}, i, j \in Nat :
          i \in 1..Len(block[b].items) /\ j \in 1..Len(block[c].items)
            /\ block[b].items[i] = block[c].items[j] => b = c
    /\ \A j \in 1..Len(open), i \in Nat :
          open[j] \in Heads /\ i \in 1..Len(block[Around(j)].items) =>
             block[Around(j)].items[i] < open[j]

\* The block that is open at open[2j] belongs to the item before it on the stack,
\* if to any.
Openers ==
    /\ \A j \in 1..depth, o \in Heads : Opening(o) = open[2 * j] => o = open[2 * j - 1]
    /\ at = "item" /\ text[last].tok = "head" => last = Owner

\* What is attached to the items of a block stands in the item that has the block.
Inside ==
    /\ \A o \in WithBlock, i \in Nat : i \in 1..Len(block[Opening(o)].items) =>
          LET h == block[Opening(o)].items[i]
          IN /\ \A k \in Marks(h) : o < comments[k]
             /\ Ended(o) => h < EndOf(o) /\ \A k \in Marks(h) : comments[k] < EndOf(o)
    /\ \A i, j \in 1..Len(open) : i < j /\ open[i] \in Heads /\ open[j] \in Heads =>
          \A k \in Marks(open[j]) : open[i] < comments[k]

\* The comments attached to an item are runs of comments: up to it, from its end
\* on, and after it.
Runs ==
    \A h \in Heads :
       /\ \A j \in meta[h].leading :
             /\ comments[j] < h
             /\ \A k \in Streams : j < k /\ comments[k] < h => k \in meta[h].leading
       /\ \A j \in meta[h].trailing :
             /\ h < comments[j]
             /\ \A p \in EndOf(h) + 1 .. comments[j] : text[p].tok = "comment"
             /\ \A k \in Streams : EndOf(h) < comments[k] /\ k <= j => k \in meta[h].trailing
       /\ \A i, j \in meta[h].detached : \A k \in i..j : k \in meta[h].detached

Row(b) == block[b].items

Nested == Cut /\ Spans /\ Rows /\ Openers /\ Inside /\ Runs
Grown == at # "error" => Nested

\* The step that begins an item.
LEMMA ItemBegins ==
    ASSUME TwoStreams, Core, BeginItem
    PROVE \E m \in ci..Len(comments) : \E n \in ci..m :
            /\ UNCHANGED <<text, toks, comments, depth>>
            /\ at = "items" /\ at' = "item" /\ open' = Append(open, Peek)
            /\ Peek \in Heads /\ last \in Nat /\ Peek \in Nat /\ last < Peek /\ last' = Peek
            /\ Remarks(last, Peek) /\ meta[Peek] = EmptyMeta
            /\ ci' = m /\ \A k \in Streams : comments[k] < Peek <=> k <= m
            /\ \A h \in Heads :
                 /\ meta'[h].end = meta[h].end /\ meta'[h].trailing = meta[h].trailing
                 /\ h # Peek => meta'[h].leading = meta[h].leading
                 /\ \/ meta'[h].detached = meta[h].detached
                    \/ Earlier # <<>> /\ h = Last(Earlier)
                       /\ \A k : k \in meta'[h].detached <=> k \in ci + 1 .. n
            /\ \A k : k \in meta'[Peek].leading <=> k \in n + 1 .. m
            /\ \A b \in Blocks \cup {Root} : block'[b].items = block[b].items
<1> USE DEF Core
<1> DEFINE B == Owner
           e == Last(Earlier)
           toPrev == Pending \ Leading
           none == Earlier = <<>>
           with == [meta EXCEPT ![Peek].leading = Leading]
<1>0. /\ at = "items" /\ at' = "item" /\ text[Peek].tok = "head" /\ Advance /\ Take(Pending)
      /\ meta' = IF toPrev # {} /\ ~ none THEN [with EXCEPT ![e].detached = toPrev] ELSE with
      /\ block' = IF toPrev # {} /\ none THEN [block EXCEPT ![B].intro = toPrev] ELSE block
      /\ open' = Append(open, Peek)
      /\ UNCHANGED <<text, toks, comments, depth>>
      /\ ~ InItem /\ InItem' /\ ~ PeekIs("eof")
  BY DEF BeginItem, PeekIs, InItem, Earlier
<1>1. B \in Blocks \cup {Root}
  BY <1>0, OwnerIs DEF TypeOK
<1>2. /\ Peek \in 1..Len(text) /\ Peek < Len(text)
      /\ last \in 0..Len(text) /\ last < Peek /\ Remarks(last, Peek) /\ last' = Peek
  BY <1>0, AdvanceIs
<1>4. /\ Len(text) \in Nat /\ last \in Nat /\ Peek \in Nat /\ Len(comments) \in Nat /\ Peek \in Heads
  BY <1>0, <1>2, TypeFacts, TextIs DEF Heads
<1>6. ~ none => e \in Heads /\ e # Peek
  <2>1. ~ none => e \in Heads /\ e <= last
    BY <1>0 DEF Resting
  <2> HIDE DEF e, none, B
  <2>2. ~ none => e # Peek
    BY <1>2, <1>4, <2>1, TypeFacts
  <2> QED
    BY <2>1, <2>2
<1>8. /\ ti \in 1..Len(toks) /\ ci \in 0..Len(comments) /\ \A k \in 1..ci : comments[k] < Peek
  BY DEF TypeOK, Cursors
<1>9. PICK m \in ci..Len(comments) : \E n \in ci..m :
        /\ Cardinality(Pending) = m - ci
        /\ \A k : k \in Pending <=> k \in ci + 1 .. m
        /\ \A k : k \in toPrev <=> k \in ci + 1 .. n
        /\ \A k : k \in Leading <=> k \in n + 1 .. m
        /\ \A k \in Streams : comments[k] < Peek <=> k <= m
  BY <1>8, LeadingIs
<1>10. PICK n \in ci..m :
        /\ Cardinality(Pending) = m - ci
        /\ \A k : k \in Pending <=> k \in ci + 1 .. m
        /\ \A k : k \in toPrev <=> k \in ci + 1 .. n
        /\ \A k : k \in Leading <=> k \in n + 1 .. m
        /\ \A k \in Streams : comments[k] < Peek <=> k <= m
  BY <1>9
<1>11. /\ ci \in Nat /\ n \in Nat /\ m \in Nat /\ ci <= n /\ n <= m /\ m <= Len(comments)
       /\ ci' = m
  <2>1. ci \in Nat /\ n \in Nat /\ m \in Nat /\ ci <= n /\ n <= m /\ m <= Len(comments)
    BY <1>4, <1>8, <1>9, <1>10
  <2>2. ci' = ci + Cardinality(Pending)
    BY <1>0 DEF Take
  <2> QED
    BY <1>10, <2>1, <2>2
<1> HIDE DEF B, none, e, toPrev
<1>13. /\ \A h \in Heads : /\ meta'[h].end = meta[h].end /\ meta'[h].trailing = meta[h].trailing
                           /\ h # Peek => meta'[h].leading = meta[h].leading
                           /\ \/ meta'[h].detached = meta[h].detached
                              \/ ~ none /\ h = e /\ meta'[h].detached = toPrev
       /\ meta'[Peek].leading = Leading
  <2> DEFINE R == [end : Nat, leading : SUBSET Nat, trailing : SUBSET Nat, detached : SUBSET Nat]
             new == [meta[Peek] EXCEPT !.leading = Leading]
  <2>1. meta \in [Heads -> R]
    BY DEF TypeOK
  <2>2. /\ new.end = meta[Peek].end /\ new.trailing = meta[Peek].trailing
        /\ new.detached = meta[Peek].detached /\ new.leading = Leading
    BY <1>4, <2>1
  <2>3. with = [meta EXCEPT ![Peek] = new]
    BY <1>4, <2>1
  <2> HIDE DEF new, with
  <2>4. DOMAIN with = Heads /\ with[Peek] = new /\ \A h \in Heads : h # Peek => with[h] = meta[h]
    BY <1>4, <2>1, <2>2, <2>3
  <2>5. CASE toPrev # {} /\ ~ none
    <3> DEFINE old == [with[e] EXCEPT !.detached = toPrev]
    <3>1. with[e] \in R /\ with[e] = meta[e]
      BY <1>6, <2>1, <2>4, <2>5
    <3>2. /\ old.end = meta[e].end /\ old.trailing = meta[e].trailing
          /\ old.detached = toPrev /\ old.leading = meta[e].leading
      BY <3>1 DEF R
    <3>3. meta' = [with EXCEPT ![e] = old]
      BY <1>0, <1>6, <2>4, <2>5
    <3> HIDE DEF old
    <3>4. meta'[e] = old /\ \A h \in Heads : h # e => meta'[h] = with[h]
      BY <1>6, <2>4, <2>5, <3>2, <3>3
    <3> QED
      BY <1>4, <1>6, <2>2, <2>4, <2>5, <3>2, <3>4
  <2>6. CASE ~ (toPrev # {} /\ ~ none)
    <3>1. meta' = with
      BY <1>0, <2>6
    <3> QED
      BY <1>4, <1>6, <2>2, <2>4, <2>6, <3>1
  <2> QED
    BY <2>5, <2>6
<1>14. \A b \in Blocks \cup {Root} : block'[b].items = block[b].items
  <2>1. block \in [Blocks \cup {Root} ->
                     [intro : SUBSET Nat, items : Seq(Nat), dangling : SUBSET Nat]]
    BY DEF TypeOK
  <2>2. CASE toPrev # {} /\ none
    <3> DEFINE new == [block[B] EXCEPT !.intro = toPrev]
    <3>1. block' = [block EXCEPT ![B] = new]
      BY <1>0, <1>1, <2>1, <2>2
    <3>2. new.items = block[B].items
      BY <1>1, <2>1
    <3> HIDE DEF new
    <3>3. block'[B] = new /\ \A b \in Blocks \cup {Root} : b # B => block'[b] = block[b]
      BY <1>1, <2>1, <3>1
    <3> QED
      BY <3>2, <3>3
  <2>3. CASE ~ (toPrev # {} /\ none)
    BY <1>0, <2>3
  <2> QED
    BY <2>2, <2>3
<1>15. meta[Peek] = EmptyMeta
  BY <1>2, <1>4 DEF Untouched
<1> HIDE DEF with
<1>16. \A h \in Heads :
         /\ meta'[h].end = meta[h].end /\ meta'[h].trailing = meta[h].trailing
         /\ h # Peek => meta'[h].leading = meta[h].leading
         /\ \/ meta'[h].detached = meta[h].detached
            \/ Earlier # <<>> /\ h = Last(Earlier)
               /\ \A k : k \in meta'[h].detached <=> k \in ci + 1 .. n
  BY <1>10, <1>13 DEF none, e
<1>17. \A k : k \in meta'[Peek].leading <=> k \in n + 1 .. m
  BY <1>10, <1>13
<1> QED
  BY <1>0, <1>2, <1>4, <1>9, <1>10, <1>11, <1>14, <1>15, <1>16, <1>17

\* The step that ends an item.
LEMMA ItemEnds ==
    ASSUME TwoStreams, Core, FinishItem
    PROVE \E n \in ci..Len(comments) :
            /\ UNCHANGED <<text, toks, comments, ti, last, depth>>
            /\ InItem /\ at' = "items" /\ open' = Front(open)
            /\ Owner \in Heads /\ Outer \in Blocks \cup {Root} /\ Outer < Owner /\ Owner <= last
            /\ Len(open) = 2 * depth + 1 /\ Owner = open[2 * depth + 1]
            /\ Outer = (IF depth = 0 THEN Root ELSE open[2 * depth])
            /\ last < Peek /\ Remarks(last, Peek)
            /\ ci' = n /\ \A k \in 1..n : comments[k] < Peek
            /\ \A h \in Heads : h # Owner => meta'[h] = meta[h]
            /\ meta'[Owner].end = last /\ meta'[Owner].leading = meta[Owner].leading
            /\ meta'[Owner].detached = {}
            /\ \A k : k \in meta'[Owner].trailing <=> k \in ci + 1 .. n
            /\ \A b \in Blocks \cup {Root} : b # Outer => block'[b].items = block[b].items
            /\ block'[Outer].items = Append(block[Outer].items, Owner)
<1> USE DEF Core
<1> DEFINE H == Owner
           O == Outer
<1>0. /\ InItem /\ at # "items" /\ at # "done" /\ at' = "items" /\ ~ InItem'
      /\ ci' = ci + Cardinality(Trailing)
      /\ meta' = [meta EXCEPT ![H].end = last, ![H].trailing = Trailing]
      /\ open' = Front(open)
      /\ block' = [block EXCEPT ![O].items = Append(@, H)]
      /\ UNCHANGED <<text, toks, comments, ti, last, depth>>
  BY DEF FinishItem, WithoutSeparator, InItem, Take
<1>1. /\ H = open[2 * depth + 1] /\ H \in Heads /\ Len(open) = 2 * depth + 1
      /\ O = (IF depth = 0 THEN Root ELSE open[2 * depth])
      /\ O \in Blocks \cup {Root} /\ O < H /\ H <= last
  BY <1>0, OwnerIs
<1> HIDE DEF H, O
<1>2. PICK n \in ci..Len(comments) :
        /\ Trailing = ci + 1 .. n /\ Cardinality(Trailing) = n - ci
        /\ \A k \in 1..n : comments[k] < Peek
  BY TrailingIs
<1>3. /\ Len(text) \in Nat /\ last \in Nat /\ depth \in Nat
      /\ Len(comments) \in Nat /\ ci \in Nat /\ n \in Nat /\ ci <= n
  BY TypeFacts, TextIs DEF TypeOK
<1>4. ci' = n
  BY <1>0, <1>2, <1>3
<1>5. last < Peek /\ Remarks(last, Peek)
  BY <1>0 DEF Cursors
<1>6. /\ \A h \in Heads : h # H => meta'[h] = meta[h]
      /\ meta'[H].end = last /\ meta'[H].trailing = Trailing
      /\ meta'[H].leading = meta[H].leading /\ meta'[H].detached = meta[H].detached
  <2>1. meta \in [Heads -> [end : Nat, leading : SUBSET Nat, trailing : SUBSET Nat,
                            detached : SUBSET Nat]]
    BY DEF TypeOK
  <2> DEFINE new == [meta[H] EXCEPT !.end = last, !.trailing = Trailing]
  <2>3. last \in Nat /\ H \in Heads
    BY <1>1, <1>3
  <2>4. /\ new.end = last /\ new.trailing = Trailing
        /\ new.leading = meta[H].leading /\ new.detached = meta[H].detached
    BY <2>1, <2>3
  <2>5. meta' = [meta EXCEPT ![H] = new]
    BY <1>0, <2>1, <2>3
  <2> HIDE DEF new
  <2>6. meta'[H] = new /\ \A h \in Heads : h # H => meta'[h] = meta[h]
    BY <2>1, <2>3, <2>5
  <2> QED
    BY <2>4, <2>6
<1>7. /\ \A b \in Blocks \cup {Root} : b # O => block'[b].items = block[b].items
      /\ block'[O].items = Append(block[O].items, H)
  <2>1. block \in [Blocks \cup {Root} ->
                     [intro : SUBSET Nat, items : Seq(Nat), dangling : SUBSET Nat]]
    BY DEF TypeOK
  <2> DEFINE with == [block[O] EXCEPT !.items = Append(block[O].items, H)]
  <2>4. with.items = Append(block[O].items, H)
    BY <1>1, <2>1
  <2>6. block' = [block EXCEPT ![O] = with]
    BY <1>0, <1>1, <2>1
  <2> HIDE DEF with
  <2>7. block'[O] = with /\ \A b \in Blocks \cup {Root} : b # O => block'[b] = block[b]
    BY <1>1, <2>1, <2>6
  <2> QED
    BY <2>4, <2>7
<1>8. meta[H].detached = {}
  BY <1>0, <1>1 DEF Untouched
<1>9. \A k : k \in meta'[H].trailing <=> k \in ci + 1 .. n
  BY <1>2, <1>6
<1> QED
  BY <1>0, <1>1, <1>2, <1>3, <1>4, <1>5, <1>6, <1>7, <1>8, <1>9 DEF H, O

\* The steps that pass a token and begin no item.
Passes ==
    \/ open' = open /\ depth' = depth /\ (InItem' => InItem)
       /\ (at' = "item" => at = "item" /\ last' = last)
    \/ open' = Append(open, Peek) /\ depth' = depth + 1 /\ ~ InItem' /\ at = "item"
       /\ text[Peek].tok = "lb" /\ Len(open) = 2 * depth + 1
    \/ open' = Front(open) /\ depth' = depth - 1 /\ depth >= 1 /\ ~ InItem /\ Len(open) = 2 * depth
LEMMA TokenPasses ==
    ASSUME TwoStreams, Core, Skip \/ EnterBlock \/ EndItem \/ EndBlock
    PROVE /\ UNCHANGED <<text, toks, comments, meta>>
          /\ \A b \in Blocks \cup {Root} : block'[b].items = block[b].items
          /\ Peek \in Nat /\ last \in Nat /\ last < Peek /\ last' = Peek /\ Remarks(last, Peek)
          /\ Peek \in 1..Len(text) /\ text[Peek].tok \notin {"head", "comment"}
          /\ ci \in Nat /\ ci' \in Nat /\ ci <= ci' /\ ci' <= Len(comments)
          /\ \A k \in 1..ci' : comments[k] < Peek
          /\ Passes
<1> USE DEF Core
<1>1. at # "done" /\ UNCHANGED <<text, toks, comments, meta>> /\ last' = Peek
  BY DEF Skip, EnterBlock, EndItem, EndBlock, Advance
<1>2. /\ ti \in 1..Len(toks) /\ ci \in 0..Len(comments) /\ Len(comments) \in Nat
      /\ \A k \in 1..ci : comments[k] < Peek
      /\ last < Peek /\ Remarks(last, Peek) /\ last \in 0..Len(text) /\ Len(text) \in Nat
      /\ Len(open) \in Nat /\ depth \in Nat
  BY <1>1, TextIs, TypeFacts DEF TypeOK, Cursors
<1>3. Peek \in 1..Len(text) /\ text[Peek].tok \in Tokens
  BY <1>2, PeekIsToken
<1>4. text[Peek].tok \notin {"head", "comment"}
  BY <1>3 DEF Skip, EnterBlock, EndItem, EndBlock, PeekIs, Closer, Tokens
<1>5. CASE EndBlock
  <2>1. PICK m \in ci..Len(comments) :
          /\ Pending = ci + 1 .. m /\ Cardinality(Pending) = m - ci
          /\ \A k \in Streams : comments[k] < Peek <=> k <= m
    BY <1>2, PendingIs
  <2>2. ci' = ci + Cardinality(Pending) /\ block' = [block EXCEPT ![Owner].dangling = Pending]
        /\ at = "items" /\ ~ InItem
    BY <1>5 DEF EndBlock, Take, InItem
  <2>3. ci' = m /\ m \in Nat /\ ci <= m /\ m <= Len(comments)
    BY <1>2, <2>1, <2>2
  <2>4. \A k \in 1..m : comments[k] < Peek
    BY <1>2, <2>1, <2>3 DEF Streams
  <2>5. \A b \in Blocks \cup {Root} : block'[b].items = block[b].items
    <3>1. block \in [Blocks \cup {Root} ->
                       [intro : SUBSET Nat, items : Seq(Nat), dangling : SUBSET Nat]]
      BY DEF TypeOK
    <3> DEFINE new == [block[Owner] EXCEPT !.dangling = Pending]
    <3>2. Owner \in Blocks \cup {Root}
      BY <2>2, OwnerIs
    <3>3. block' = [block EXCEPT ![Owner] = new] /\ new.items = block[Owner].items
      BY <2>2, <3>1, <3>2
    <3> HIDE DEF new
    <3>4. block'[Owner] = new /\ \A b \in Blocks \cup {Root} : b # Owner => block'[b] = block[b]
      BY <3>1, <3>2, <3>3
    <3> QED
      BY <3>3, <3>4
  <2>6. Passes
    <3>1. CASE open = <<>>
      BY <1>5, <3>1 DEF EndBlock, Passes, InItem
    <3>2. CASE open # <<>>
      <4>1. Len(open) = 2 * depth /\ depth # 0
        BY <2>2, <3>2, OwnerIs
      <4> QED
        BY <1>2, <1>5, <2>2, <3>2, <4>1 DEF EndBlock, Passes
    <3> QED
      BY <3>1, <3>2
  <2> QED
    BY <1>1, <1>2, <1>3, <1>4, <2>2, <2>3, <2>4, <2>5, <2>6
<1>6. CASE Skip \/ EnterBlock \/ EndItem
  <2>1. ci' = ci /\ block' = block
    BY <1>6 DEF Skip, EnterBlock, EndItem
  <2>2. Passes
    <3>1. CASE EnterBlock
      <4>1. Len(open) = 2 * depth + 1
        BY <3>1, OwnerIs DEF EnterBlock, InItem
      <4> QED
        BY <3>1, <4>1 DEF EnterBlock, Passes, InItem, PeekIs
    <3>2. CASE Skip \/ EndItem
      BY <3>2 DEF Skip, EndItem, Passes, InItem
    <3> QED
      BY <1>6, <3>1, <3>2
  <2> QED
    BY <1>1, <1>2, <1>3, <1>4, <2>1, <2>2
<1> QED
  BY <1>5, <1>6

\* After the head of an item come comments, up to its opening brace if it has one.
LEMMA OpeningFollows ==
    ASSUME TwoStreams, NEW h \in Heads
    PROVE h < Opening(h) /\ \A q \in h + 1 .. Opening(h) - 1 : text[q].tok = "comment"
<1>1. Len(text) \in Nat /\ h \in Nat /\ Opening(h) \in h + 1 .. Len(text)
  BY OpeningIs, TextIs DEF Heads
<1>2. h \in 1..Len(text) /\ text[h].tok \in Tokens /\ h # Len(text)
  BY TextIs DEF Heads, Tokens
<1>3. PICK i \in 1..Len(toks) : toks[i] = h
  BY <1>2, TextIs
<1>4. i + 1 \in 1..Len(toks) /\ toks[i] < toks[i + 1] /\ Remarks(toks[i], toks[i + 1])
  BY <1>2, <1>3, NextToken
<1>5. \E p \in h+1..Len(text) :
         text[p].tok # "comment" /\ \A q \in h+1..p-1 : text[q].tok = "comment"
  <2>1. toks[i + 1] \in h+1..Len(text) /\ text[toks[i + 1]].tok # "comment"
    <3>1. h < toks[i + 1] /\ toks[i + 1] \in 1..Len(text) /\ text[toks[i + 1]].tok \in Tokens
      BY <1>3, <1>4, TextIs
    <3> QED
      BY <1>1, <3>1 DEF Tokens
  <2>2. \A q \in h+1..toks[i + 1]-1 : text[q].tok = "comment"
    BY <1>3, <1>4 DEF Remarks
  <2> QED
    BY <2>1, <2>2
<1>6. \A q \in h + 1 .. Opening(h) - 1 : text[q].tok = "comment"
  BY <1>5 DEF Opening
<1> QED
  BY <1>1, <1>6

\* Items and blocks are open by turns: before an open item, the block around it.
LEMMA ByTurns ==
    ASSUME TwoStreams, TypeOK, Alternate, NEW j \in 1..Len(open), open[j] \in Heads, j > 1
    PROVE open[j - 1] \in Blocks
<1>1. Len(open) \in Nat /\ depth \in Nat /\ Len(open) \in {2 * depth, 2 * depth + 1}
  BY TypeFacts DEF TypeOK, Alternate
<1>2. \A b \in Blocks : b \notin Heads
  BY DEF Blocks, Heads
<1>3. \A m \in 1..depth : open[2 * m] \in Blocks
  BY DEF Alternate
<1>4. CASE \E m \in 1..depth : j = 2 * m
  BY <1>2, <1>3, <1>4
<1>5. CASE \E m \in 1..depth : j = 2 * m + 1
  <2>1. PICK m \in 1..depth : j = 2 * m + 1
    BY <1>5
  <2>2. j - 1 = 2 * m
    BY <1>1, <2>1
  <2> QED
    BY <1>3, <2>1, <2>2
<1>6. (\E m \in 1..depth : j = 2 * m) \/ (\E m \in 1..depth : j = 2 * m + 1)
  <2>1. j \in Nat /\ j >= 2 /\ j <= 2 * depth + 1
    BY <1>1
  <2>2. PICK m \in Nat : j = 2 * m \/ j = 2 * m + 1
    <3>1. (j \div 2) \in Nat /\ (j = 2 * (j \div 2) \/ j = 2 * (j \div 2) + 1)
      BY <2>1
    <3> QED
      BY <3>1
  <2>3. m \in 1..depth
    BY <1>1, <2>1, <2>2
  <2> QED
    BY <2>2, <2>3
<1> QED
  BY <1>4, <1>5, <1>6

-----------------------------------------------------------------------------
(* How spans lie.                                                          *)

LEMMA SameTree ==
    ASSUME text' = text
    PROVE WithBlock' = WithBlock /\ \A o : Opening(o)' = Opening(o)
<1>1. \A o : Opening(o)' = Opening(o)
  BY DEF Opening
<1>2. Heads' = Heads
  BY SameText
<1>3. WithBlock = {h \in Heads : text[Opening(h)].tok = "lb"}
  BY DEF WithBlock
<1>4. WithBlock' = {h \in Heads' : text'[Opening(h)'].tok = "lb"}
  BY DEF WithBlock
<1> QED
  BY <1>1, <1>2, <1>3, <1>4

\* What is attached has been handed out.
LEMMA HandedOut ==
    ASSUME TwoStreams, Core, Tied, NEW h \in Heads, NEW k \in Marks(h)
    PROVE k \in 1..ci /\ k \in Streams
<1>1. k \in Streams
  BY DEF Marks, Tied
<1>2. \E p : Has(k, p)
  BY DEF Has, Leads, Trails, Follows, Marks
<1>3. ~ k > ci
  BY <1>1, <1>2, PlacesAre DEF Core, Placed
<1> QED
  BY <1>1, <1>3, TextIs DEF Streams, Core, TypeOK

LEMMA NestedBegins == Fresh => Nested
<1> SUFFICES ASSUME Fresh PROVE Nested
  OBVIOUS
<1>1. /\ ci = 0 /\ last = 0 /\ at = "items" /\ open = <<>> /\ depth = 0
      /\ meta = [h \in Heads |-> EmptyMeta] /\ block = [b \in Blocks \cup {Root} |-> EmptyBlock]
  BY DEF Fresh
<1>2. Invariant /\ Tied
  BY InvariantBegins, TiedBegins
<1>3. TwoStreams /\ Core /\ ~ InItem
  BY <1>1, <1>2 DEF Invariant, InItem
<1>4. /\ \A h \in Heads : /\ ~ Ended(h) /\ h \in Nat /\ h >= 1
                          /\ Marks(h) = {} /\ meta[h].leading = {} /\ meta[h].trailing = {}
                          /\ meta[h].detached = {}
      /\ \A b \in Blocks \cup {Root} : block[b].items = <<>>
      /\ Len(open) = 0
  BY <1>1, <1>3, TypeFacts DEF Ended, EmptyMeta, EmptyBlock, Marks, Core
<1>5. Cut
  BY <1>1, <1>3, <1>4 DEF Cut
<1>6. Spans
  BY <1>1, <1>4 DEF Spans, Ended
<1>7. Rows
  BY <1>1, <1>4 DEF Rows
<1>8. Openers
  BY <1>1, <1>3, <1>4 DEF Openers
<1>9. Inside
  <2>1. \A o \in WithBlock : o \in Heads /\ Opening(o) \in Blocks
    BY <1>3, OpeningIs DEF WithBlock, Blocks
  <2> QED
    BY <1>1, <1>4, <2>1 DEF Inside
<1>10. Runs
  BY <1>4 DEF Runs
<1> QED
  BY <1>5, <1>6, <1>7, <1>8, <1>9, <1>10 DEF Nested

LEMMA NestedPasses ==
    ASSUME TwoStreams, Core, Tied, Nested, Skip \/ EnterBlock \/ EndItem \/ EndBlock
    PROVE Nested'
<1> USE DEF Core
<1>1. /\ UNCHANGED <<text, toks, comments, meta>>
      /\ \A b \in Blocks \cup {Root} : block'[b].items = block[b].items
      /\ Peek \in Nat /\ last \in Nat /\ last < Peek /\ last' = Peek /\ Remarks(last, Peek)
      /\ Peek \in 1..Len(text) /\ text[Peek].tok \notin {"head", "comment"}
      /\ ci \in Nat /\ ci' \in Nat /\ ci <= ci' /\ ci' <= Len(comments)
      /\ \A k \in 1..ci' : comments[k] < Peek
      /\ Passes
  BY TokenPasses
<1>2. /\ Heads' = Heads /\ Blocks' = Blocks /\ Root' = Root /\ Streams' = Streams
      /\ WithBlock' = WithBlock /\ \A o : Opening(o)' = Opening(o)
      /\ \A h : (Ended(h)' <=> Ended(h)) /\ EndOf(h)' = EndOf(h) /\ Marks(h)' = Marks(h)
  BY <1>1, SameText, SameTree DEF Ended, Root, Streams, EndOf, Marks
<1>3. /\ Len(text) \in Nat /\ Len(open) \in Nat /\ depth \in Nat /\ Len(comments) \in Nat
      /\ \A h \in Heads : h \in Nat /\ meta[h].end \in Nat
      /\ \A k \in Streams : comments[k] \in Nat
      /\ open \in Seq(1..Len(text))
  BY TypeFacts, TextIs DEF TypeOK
<1>4. Cut /\ Spans /\ Rows /\ Openers /\ Inside /\ Runs
  BY DEF Nested
<1>5. \A h \in Heads : h <= Peek => h <= last
  BY <1>1, <1>3 DEF Heads, Remarks
<1>6. /\ Len(open') \in Nat /\ depth' \in Nat
      /\ \A j \in 1..Len(open') :
            \/ j \in 1..Len(open) /\ open'[j] = open[j] /\ (j > 1 => open'[j-1] = open[j-1])
            \/ j = Len(open) + 1 /\ open'[j] \notin Heads
      /\ \A j \in 1..depth' :
            \/ j \in 1..depth /\ open'[2 * j] = open[2 * j] /\ open'[2 * j - 1] = open[2 * j - 1]
            \/ /\ open'[2 * j] = Peek /\ text[Peek].tok = "lb" /\ at = "item"
               /\ open'[2 * j - 1] = Owner
  <2>1. CASE open' = open /\ depth' = depth
    BY <1>3, <2>1
  <2>2. CASE /\ open' = Append(open, Peek) /\ depth' = depth + 1 /\ at = "item"
             /\ text[Peek].tok = "lb" /\ Len(open) = 2 * depth + 1
    <3>1. /\ Len(open') = Len(open) + 1 /\ open'[Len(open) + 1] = Peek
          /\ \A i \in 1..Len(open) : open'[i] = open[i]
      <4>1. open \in Seq(1..Len(text)) /\ Peek \in 1..Len(text) /\ open' = Append(open, Peek)
        BY <1>1, <1>3, <2>2
      <4> QED
        BY <4>1, AppendIs
    <3>a. depth' = depth + 1 /\ Len(open) = 2 * depth + 1 /\ depth \in Nat
      BY <1>3, <2>2
    <3>2. Owner = open[Len(open)]
      BY <1>3, <2>2 DEF Owner
    <3>3. Peek \notin Heads
      BY <2>2 DEF Heads
    <3>4. ASSUME NEW j \in 1..Len(open')
          PROVE \/ j \in 1..Len(open) /\ open'[j] = open[j] /\ (j > 1 => open'[j-1] = open[j-1])
                \/ j = Len(open) + 1 /\ open'[j] \notin Heads
      BY <3>a, <3>1, <3>3
    <3>5. ASSUME NEW j \in 1..depth'
          PROVE \/ j \in 1..depth /\ open'[2 * j] = open[2 * j] /\ open'[2 * j - 1] = open[2 * j - 1]
                \/ /\ open'[2 * j] = Peek /\ text[Peek].tok = "lb" /\ at = "item"
                   /\ open'[2 * j - 1] = Owner
      <4>1. CASE j \in 1..depth
        <5>1. 2 * j \in 1..Len(open) /\ 2 * j - 1 \in 1..Len(open)
          BY <3>a, <4>1
        <5> QED
          BY <3>1, <4>1, <5>1
      <4>2. CASE j = depth + 1
        <5>1. 2 * j = Len(open) + 1 /\ 2 * j - 1 = Len(open) /\ Len(open) \in 1..Len(open)
          BY <3>a, <4>2
        <5> QED
          BY <2>2, <3>1, <3>2, <5>1
      <4> QED
        BY <3>a, <4>1, <4>2
    <3> QED
      BY <3>a, <3>1, <3>4, <3>5
  <2>3. CASE open' = Front(open) /\ depth' = depth - 1 /\ depth >= 1 /\ Len(open) = 2 * depth
    <3>1. /\ Len(open') = Len(open) - 1 /\ \A i \in 1..Len(open) - 1 : open'[i] = open[i]
      <4>1. open \in Seq(1..Len(text)) /\ Len(open) >= 1 /\ open' = Front(open)
        BY <1>3, <2>3
      <4> QED
        BY <4>1, FrontIs
    <3>a. depth' = depth - 1 /\ Len(open) = 2 * depth /\ depth \in Nat /\ depth >= 1
      BY <1>3, <2>3
    <3>2. ASSUME NEW j \in 1..depth'
          PROVE j \in 1..depth /\ open'[2 * j] = open[2 * j] /\ open'[2 * j - 1] = open[2 * j - 1]
      <4>1. 2 * j \in 1..Len(open) - 1 /\ 2 * j - 1 \in 1..Len(open) - 1
        BY <3>a
      <4> QED
        BY <3>a, <3>1, <4>1
    <3>3. ASSUME NEW j \in 1..Len(open')
          PROVE j \in 1..Len(open) /\ open'[j] = open[j] /\ (j > 1 => open'[j-1] = open[j-1])
      BY <3>a, <3>1
    <3> QED
      BY <3>a, <3>1, <3>2, <3>3
  <2> QED
    BY <1>1, <2>1, <2>2, <2>3 DEF Passes
<1>7. Cut'
  <2>1. \A k \in ci' + 1 .. Len(comments'), h \in Heads' : h <= last' => h < comments'[k]
    BY <1>1, <1>2, <1>3, <1>4, <1>5, SMTT(20) DEF Cut
  <2>2. \A g \in Heads : Ended(g) => EndOf(g) < Peek
    BY <1>1, <1>3, <1>4 DEF Spans, EndOf
  <2> QED
    BY <1>1, <1>2, <2>1, <2>2 DEF Cut
<1>8. Spans'
  <2>1. \A g \in Heads : Ended(g) => g <= EndOf(g) /\ EndOf(g) <= last'
    BY <1>1, <1>3, <1>4 DEF Spans, EndOf
  <2>2. \A j \in 1..Len(open') : open'[j] \in Heads =>
          /\ ~Ended(open'[j])
          /\ \A g \in Heads : Ended(g) /\ g < open'[j] => EndOf(g) < open'[j]
    BY <1>4, <1>6 DEF Spans
  <2>3. \A g, h \in Heads : Ended(g) /\ Ended(h) /\ g < h => EndOf(g) < h \/ EndOf(h) < EndOf(g)
    BY <1>4 DEF Spans
  <2> QED
    BY <1>2, <2>1, <2>2, <2>3 DEF Spans
<1>9. Rows'
  <2>1. \A j \in 1..Len(open'), i \in Nat :
          open'[j] \in Heads /\ i \in 1..Len(block[IF j = 1 THEN Root ELSE open'[j - 1]].items) =>
             block[IF j = 1 THEN Root ELSE open'[j - 1]].items[i] < open'[j]
    <3> TAKE j \in 1..Len(open'), i \in Nat
    <3> HAVE open'[j] \in Heads /\ i \in 1..Len(block[IF j = 1 THEN Root ELSE open'[j - 1]].items)
    <3>1. j \in 1..Len(open) /\ open'[j] = open[j] /\ (j > 1 => open'[j-1] = open[j-1])
      BY <1>6
    <3>2. (IF j = 1 THEN Root ELSE open'[j - 1]) = Around(j)
      BY <1>3, <3>1 DEF Around
    <3> QED
      BY <1>4, <3>1, <3>2 DEF Rows
  <2>2. \A j \in 1..Len(open') : open'[j] \in Heads =>
           (IF j = 1 THEN Root ELSE open'[j - 1]) \in Blocks \cup {Root}
    <3> TAKE j \in 1..Len(open')
    <3> HAVE open'[j] \in Heads
    <3>1. j \in 1..Len(open) /\ open'[j] = open[j] /\ (j > 1 => open'[j-1] = open[j-1])
      BY <1>6
    <3>2. CASE j > 1
      <4>1. open[j - 1] \in Blocks
        BY <1>1, <1>3, <3>1, <3>2, ByTurns
      <4> QED
        BY <3>1, <3>2, <4>1
    <3> QED
      BY <3>1, <3>2
  <2>3. \A j \in 1..Len(open'), i \in Nat :
          open'[j] \in Heads /\ i \in 1..Len(block'[IF j = 1 THEN Root ELSE open'[j - 1]].items) =>
             block'[IF j = 1 THEN Root ELSE open'[j - 1]].items[i] < open'[j]
    BY <1>1, <2>1, <2>2
  <2>4. \A b \in Blocks \cup {Root}, i \in Nat :
          i \in 1..Len(block'[b].items) => b < block'[b].items[i]
    BY <1>1, <1>4 DEF Rows
  <2>5. \A b \in Blocks \cup {Root}, i, j \in Nat :
          i \in 1..Len(block'[b].items) /\ j \in 1..Len(block'[b].items) /\ i < j =>
             EndOf(block'[b].items[i]) < block'[b].items[j]
    BY <1>1, <1>4 DEF Rows
  <2>6. \A b, c \in Blocks \cup {Root}, i, j \in Nat :
          i \in 1..Len(block'[b].items) /\ j \in 1..Len(block'[c].items)
            /\ block'[b].items[i] = block'[c].items[j] => b = c
    BY <1>1, <1>4 DEF Rows
  <2> QED
    BY <1>1, <1>2, <2>3, <2>4, <2>5, <2>6 DEF Rows, Around, EndOf
<1>10. Openers'
  <2>1. \A j \in 1..depth', o \in Heads : Opening(o) = open'[2 * j] => o = open'[2 * j - 1]
    <3> TAKE j \in 1..depth', o \in Heads
    <3> HAVE Opening(o) = open'[2 * j]
    <3>1. CASE j \in 1..depth /\ open'[2 * j] = open[2 * j] /\ open'[2 * j - 1] = open[2 * j - 1]
      BY <1>4, <3>1 DEF Openers
    <3>2. CASE open'[2 * j] = Peek /\ at = "item" /\ open'[2 * j - 1] = Owner
      <4>1. Opening(o) = Peek /\ o < Peek /\ \A q \in o + 1 .. Peek - 1 : text[q].tok = "comment"
        BY <3>2, OpeningFollows
      <4>2. o <= last /\ ~ o < last
        <5>1. text[last].tok \in {"head", "rb"}
          BY <3>2 DEF Cursors
        <5> QED
          BY <1>1, <1>3, <1>5, <4>1, <5>1
      <4>3. o = last
        BY <1>1, <1>3, <4>2
      <4> QED
        BY <1>4, <3>2, <4>3 DEF Openers, Heads
    <3> QED
      BY <1>6, <3>1, <3>2
  <2> QED
    BY <1>1, <1>2, <2>1 DEF Openers
<1>11. Inside'
  <2>1. \A o \in WithBlock : o \in Heads /\ Opening(o) \in Blocks
    BY OpeningIs DEF WithBlock, Blocks
  <2>2. \A o \in WithBlock, i \in Nat : i \in 1..Len(block'[Opening(o)].items) =>
          LET h == block'[Opening(o)].items[i]
          IN /\ \A k \in Marks(h) : o < comments[k]
             /\ Ended(o) => h < EndOf(o) /\ \A k \in Marks(h) : comments[k] < EndOf(o)
    BY <1>1, <1>4, <2>1 DEF Inside
  <2>3. \A i, j \in 1..Len(open') : i < j /\ open'[i] \in Heads /\ open'[j] \in Heads =>
          \A k \in Marks(open'[j]) : open'[i] < comments[k]
    BY <1>4, <1>6 DEF Inside
  <2> QED
    BY <1>1, <1>2, <2>2, <2>3 DEF Inside
<1>12. Runs'
  BY <1>1, <1>2, <1>4 DEF Runs
<1> QED
  BY <1>7, <1>8, <1>9, <1>10, <1>11, <1>12 DEF Nested

LEMMA NestedGrows ==
    ASSUME TwoStreams, Core, Tied, Nested, BeginItem
    PROVE Nested'
<1> USE DEF Core
<1>1. PICK m \in ci..Len(comments) : \E n \in ci..m :
        /\ UNCHANGED <<text, toks, comments, depth>>
        /\ at = "items" /\ at' = "item" /\ open' = Append(open, Peek)
        /\ Peek \in Heads /\ last \in Nat /\ Peek \in Nat /\ last < Peek /\ last' = Peek
        /\ Remarks(last, Peek) /\ meta[Peek] = EmptyMeta
        /\ ci' = m /\ \A k \in Streams : comments[k] < Peek <=> k <= m
        /\ \A h \in Heads :
             /\ meta'[h].end = meta[h].end /\ meta'[h].trailing = meta[h].trailing
             /\ h # Peek => meta'[h].leading = meta[h].leading
             /\ \/ meta'[h].detached = meta[h].detached
                \/ Earlier # <<>> /\ h = Last(Earlier)
                   /\ \A k : k \in meta'[h].detached <=> k \in ci + 1 .. n
        /\ \A k : k \in meta'[Peek].leading <=> k \in n + 1 .. m
        /\ \A b \in Blocks \cup {Root} : block'[b].items = block[b].items
  BY ItemBegins
<1>2. PICK n \in ci..m :
        /\ UNCHANGED <<text, toks, comments, depth>>
        /\ at = "items" /\ at' = "item" /\ open' = Append(open, Peek)
        /\ Peek \in Heads /\ last \in Nat /\ Peek \in Nat /\ last < Peek /\ last' = Peek
        /\ Remarks(last, Peek) /\ meta[Peek] = EmptyMeta
        /\ ci' = m /\ \A k \in Streams : comments[k] < Peek <=> k <= m
        /\ \A h \in Heads :
             /\ meta'[h].end = meta[h].end /\ meta'[h].trailing = meta[h].trailing
             /\ h # Peek => meta'[h].leading = meta[h].leading
             /\ \/ meta'[h].detached = meta[h].detached
                \/ Earlier # <<>> /\ h = Last(Earlier)
                   /\ \A k : k \in meta'[h].detached <=> k \in ci + 1 .. n
        /\ \A k : k \in meta'[Peek].leading <=> k \in n + 1 .. m
        /\ \A b \in Blocks \cup {Root} : block'[b].items = block[b].items
  BY <1>1
<1>3. /\ Len(text) \in Nat /\ Len(open) \in Nat /\ depth \in Nat /\ Len(comments) \in Nat
      /\ \A h \in Heads : h \in Nat /\ meta[h].end \in Nat
      /\ \A k \in Streams : comments[k] \in Nat
      /\ \A j, k \in Streams : j < k => comments[j] < comments[k]
      /\ ci \in Nat /\ n \in Nat /\ m \in Nat /\ ci <= n /\ n <= m /\ m <= Len(comments)
  <2>a. TypeOK
    BY DEF Core
  <2>1. /\ Len(text) \in Nat /\ Len(comments) \in Nat
        /\ \A k \in Streams : comments[k] \in 1..Len(text)
        /\ \A j, k \in Streams : j < k => comments[j] < comments[k]
    BY TextIs
  <2>2. Len(open) \in Nat /\ \A h \in Heads : h \in Nat /\ meta[h].end \in Nat
    BY <2>a, TypeFacts
  <2>3. depth \in Nat /\ ci \in 0..Len(comments)
    BY <2>a DEF TypeOK
  <2> QED
    BY <2>1, <2>2, <2>3
<1>4. Cut /\ Spans /\ Rows /\ Openers /\ Inside /\ Runs
  BY DEF Nested
<1>5. /\ Heads' = Heads /\ Blocks' = Blocks /\ Root' = Root /\ Streams' = Streams
      /\ WithBlock' = WithBlock /\ \A o : Opening(o)' = Opening(o)
      /\ \A h : (Ended(h)' <=> Ended(h))
      /\ \A h \in Heads : EndOf(h)' = EndOf(h)
  BY <1>2, SameText, SameTree DEF Ended, Root, Streams, EndOf
<1>6. /\ \A h \in Heads : h <= Peek => h <= last \/ h = Peek
      /\ ~ Ended(Peek) /\ Marks(Peek) = {}
      /\ meta[Peek].leading = {} /\ meta[Peek].trailing = {} /\ meta[Peek].detached = {}
  <2>1. \A h \in Heads : h <= Peek => h <= last \/ h = Peek
    <3>1. /\ last \in Nat /\ Peek \in Nat /\ last < Peek /\ Remarks(last, Peek)
          /\ Len(text) \in Nat
      BY <1>2, <1>3
    <3> QED
      BY <3>1 DEF Heads, Remarks
  <2>2. meta[Peek] = EmptyMeta
    BY <1>2
  <2> QED
    BY <2>1, <2>2 DEF EmptyMeta, Ended, Marks
\* The comments handed out now: behind all heads consumed.
<1>7. \A k \in Streams : k > ci => \A h \in Heads : h <= last => h < comments[k]
  BY <1>3, <1>4 DEF Cut, Streams
\* What is detached now follows an item of the block that is open.
<1>8. ASSUME Earlier # <<>>
      PROVE /\ Ended(Last(Earlier)) /\ Owner \in Blocks \cup {Root} /\ Len(Earlier) \in Nat
            /\ Len(Earlier) \in 1..Len(Earlier) /\ Last(Earlier) = Earlier[Len(Earlier)]
  <2>1. Owner \in Blocks \cup {Root}
    BY <1>2, OwnerIs DEF InItem
  <2>2. Earlier \in Seq(Nat)
    BY <2>1, TypeFacts DEF Earlier
  <2>3. Len(Earlier) \in Nat /\ Len(Earlier) \in 1..Len(Earlier)
    BY <1>8, <2>2
  <2>4. Last(Earlier) = Earlier[Len(Earlier)]
    BY DEF Last
  <2>5. Ended(Earlier[Len(Earlier)])
    BY <2>1, <2>3 DEF Tied, Earlier
  <2> QED
    BY <2>1, <2>3, <2>4, <2>5
<1>9. \A h \in Heads : h # Peek /\ ~ Ended(h) => Marks(h)' = Marks(h)
  <2> TAKE h \in Heads
  <2> HAVE h # Peek /\ ~ Ended(h)
  <2>1. meta'[h].detached = meta[h].detached
    BY <1>2, <1>8
  <2> QED
    BY <1>2, <2>1 DEF Marks
<1>10. /\ Len(open') = Len(open) + 1 /\ open'[Len(open) + 1] = Peek
       /\ \A i \in 1..Len(open) : open'[i] = open[i]
  <2>1. open \in Seq(Nat) /\ Peek \in Nat /\ open' = Append(open, Peek)
    BY <1>2, <1>3 DEF TypeOK
  <2> QED
    BY <2>1, AppendIs
<1>11. \A j \in 1..Len(open') : j \in 1..Len(open) \/ j = Len(open) + 1
  BY <1>3, <1>10
<1>12. \A h : Ended(h) => h \in Heads /\ h <= EndOf(h) /\ EndOf(h) <= last /\ h <= last
  BY <1>2, <1>3, <1>4 DEF Ended, Spans, EndOf
<1>13. Cut'
  <2>1. ASSUME NEW k \in ci' + 1 .. Len(comments'), NEW h \in Heads', h <= last'
        PROVE h < comments'[k]
    <3>1. k \in Streams /\ k > m /\ k > ci /\ h \in Heads /\ h <= Peek
      BY <1>2, <1>3, <1>5, <2>1 DEF Streams
    <3>2. Peek <= comments[k] /\ comments[k] # Peek
      <4>1. text[comments[k]].tok = "comment" /\ text[Peek].tok = "head"
        BY <1>2, <3>1, TextIs DEF Heads
      <4> QED
        BY <1>2, <1>3, <3>1, <4>1, SMTT(20)
    <3>3. comments' = comments /\ comments[k] \in Nat /\ h \in Nat /\ Peek \in Nat
      BY <1>2, <1>3, <3>1
    <3> QED
      BY <3>1, <3>2, <3>3
  <2>2. \A k \in 1..ci' : comments'[k] < last'
    BY <1>2, <1>3 DEF Streams
  <2>3. \A g \in Heads' : Ended(g)' => EndOf(g)' < last'
    BY <1>2, <1>3, <1>5, <1>12 DEF EndOf
  <2> QED
    BY <2>1, <2>2, <2>3 DEF Cut
<1>14. Spans'
  <2>1. \A g \in Heads : Ended(g) => g <= EndOf(g) /\ EndOf(g) <= last'
    BY <1>2, <1>3, <1>12 DEF EndOf
  <2>2. \A g, h \in Heads : Ended(g) /\ Ended(h) /\ g < h => EndOf(g) < h \/ EndOf(h) < EndOf(g)
    BY <1>4 DEF Spans
  <2>3. ASSUME NEW j \in 1..Len(open'), open'[j] \in Heads
        PROVE /\ ~Ended(open'[j])
              /\ \A g \in Heads : Ended(g) /\ g < open'[j] => EndOf(g) < open'[j]
    <3>1. CASE j \in 1..Len(open)
      BY <1>4, <1>10, <2>3, <3>1 DEF Spans
    <3>2. CASE j = Len(open) + 1
      BY <1>2, <1>3, <1>6, <1>10, <1>12, <3>2 DEF EndOf
    <3> QED
      BY <1>11, <3>1, <3>2
  <2> QED
    BY <1>5, <2>1, <2>2, <2>3 DEF Spans
<1>15. Rows'
  <2>1. \A b \in Blocks \cup {Root}, i \in Nat :
          i \in 1..Len(block'[b].items) => b < block'[b].items[i]
    BY <1>2, <1>4 DEF Rows
  <2>2. \A b \in Blocks \cup {Root}, i, j \in Nat :
          i \in 1..Len(block'[b].items) /\ j \in 1..Len(block'[b].items) /\ i < j =>
             meta'[block'[b].items[i]].end < block'[b].items[j]
    <3> TAKE b \in Blocks \cup {Root}, i, j \in Nat
    <3> HAVE i \in 1..Len(block'[b].items) /\ j \in 1..Len(block'[b].items) /\ i < j
    <3>1. i \in 1..Len(block[b].items) /\ j \in 1..Len(block[b].items) /\ block'[b].items = block[b].items
      BY <1>2
    <3>2. Ended(block[b].items[i]) /\ EndOf(block[b].items[i]) < block[b].items[j]
      BY <1>4, <3>1 DEF Tied, Rows
    <3> QED
      BY <1>2, <3>1, <3>2 DEF Ended, EndOf
  <2>3. \A b, c \in Blocks \cup {Root}, i, j \in Nat :
          i \in 1..Len(block'[b].items) /\ j \in 1..Len(block'[c].items)
            /\ block'[b].items[i] = block'[c].items[j] => b = c
    BY <1>2, <1>4 DEF Rows
  <2>4. ASSUME NEW j \in 1..Len(open'), NEW i \in Nat, open'[j] \in Heads,
               i \in 1..Len(block'[Around(j)'].items)
        PROVE block'[Around(j)'].items[i] < open'[j]
    <3>1. CASE j \in 1..Len(open)
      <4>1. open'[j] = open[j] /\ Around(j)' = Around(j)
        BY <1>3, <1>5, <1>10, <3>1 DEF Around
      <4>2. Around(j) \in Blocks \cup {Root}
        BY <1>3, <2>4, <3>1, <4>1, ByTurns DEF Around
      <4>3. block'[Around(j)'].items = block[Around(j)].items
        BY <1>2, <4>1, <4>2
      <4> QED
        BY <1>4, <2>4, <3>1, <4>1, <4>3 DEF Rows
    <3>2. CASE j = Len(open) + 1
      <4>1. Around(j)' = Owner
        <5>1. CASE open = <<>>
          <6>1. Len(open) = 0
            BY <5>1
          <6> QED
            BY <1>5, <3>2, <5>1, <6>1 DEF Around, Owner
        <5>2. CASE open # <<>>
          <6>1. Len(open) >= 1
            BY <5>2 DEF TypeOK
          <6> QED
            BY <1>3, <1>10, <3>2, <5>2, <6>1 DEF Around, Owner
        <5> QED
          BY <5>1, <5>2
      <4>2. Owner \in Blocks \cup {Root}
        BY <1>2, OwnerIs DEF InItem
      <4>3. block'[Around(j)'].items = block[Owner].items
        BY <1>2, <4>1, <4>2
      <4>4. Ended(block[Owner].items[i])
        BY <2>4, <4>2, <4>3 DEF Tied
      <4>5. block[Owner].items[i] <= last /\ block[Owner].items[i] \in Nat
        BY <1>3, <1>12, <4>4
      <4>6. open'[j] = Peek /\ last < Peek /\ last \in Nat /\ Peek \in Nat
        BY <1>2, <1>10, <3>2
      <4> QED
        BY <4>3, <4>5, <4>6
    <3> QED
      BY <1>11, <3>1, <3>2
  <2> QED
    BY <1>5, <2>1, <2>2, <2>3, <2>4 DEF Rows, EndOf
<1>16. Openers'
  <2>1. \A j \in 1..depth : open'[2 * j] = open[2 * j] /\ open'[2 * j - 1] = open[2 * j - 1]
    <3> TAKE j \in 1..depth
    <3>1. Len(open) = 2 * depth
      BY <1>2, OwnerIs DEF InItem
    <3>2. 2 * j \in 1..Len(open) /\ 2 * j - 1 \in 1..Len(open)
      BY <1>3, <3>1
    <3> QED
      BY <1>10, <3>2
  <2>2. last' = Owner'
    <3>1. open' # <<>> /\ open'[Len(open')] = Peek
      BY <1>3, <1>10
    <3> QED
      BY <1>2, <3>1 DEF Owner
  <2> QED
    BY <1>2, <1>4, <1>5, <2>1, <2>2 DEF Openers
<1>17. Inside'
  <2>1. ASSUME NEW o \in WithBlock, NEW i \in Nat, i \in 1..Len(block[Opening(o)].items),
               NEW h, h = block[Opening(o)].items[i]
        PROVE /\ \A k \in Marks(h)' : o < comments[k]
              /\ Ended(o) => h < EndOf(o) /\ \A k \in Marks(h)' : comments[k] < EndOf(o)
    <3>1. o \in Heads /\ Opening(o) \in Blocks
      BY OpeningIs DEF WithBlock, Blocks
    <3>2. Ended(h) /\ h \in Heads /\ h # Peek
      BY <1>6, <2>1, <3>1 DEF Tied, Ended
    <3>3. /\ \A k \in Marks(h) : o < comments[k]
          /\ Ended(o) => h < EndOf(o) /\ \A k \in Marks(h) : comments[k] < EndOf(o)
      BY <1>4, <2>1 DEF Inside
    <3>4. CASE meta'[h].detached = meta[h].detached
      <4>1. Marks(h)' = Marks(h)
        BY <1>2, <3>2, <3>4 DEF Marks
      <4> QED
        BY <3>3, <4>1
    <3>5. CASE /\ Earlier # <<>> /\ h = Last(Earlier)
               /\ \A k : k \in meta'[h].detached <=> k \in ci + 1 .. n
      <4>1. Opening(o) = Owner
        <5>1. /\ Owner \in Blocks \cup {Root} /\ Len(Earlier) \in Nat
              /\ Len(Earlier) \in 1..Len(Earlier) /\ h = Earlier[Len(Earlier)]
          BY <1>8, <3>5
        <5>2. Opening(o) \in Blocks \cup {Root}
          BY <3>1
        <5> QED
          BY <1>4, <2>1, <5>1, <5>2 DEF Rows, Earlier
      <4>2. depth # 0 /\ Owner = open[2 * depth]
        BY <1>2, <3>1, <4>1, OwnerIs, RootIsNoBlock DEF InItem
      <4>3. depth \in 1..depth /\ 2 * depth - 1 \in 1..Len(open)
        BY <1>2, <1>3, <4>2, OwnerIs DEF InItem
      <4>4. o = open[2 * depth - 1]
        BY <1>4, <3>1, <4>1, <4>2, <4>3 DEF Openers
      <4>5. ~ Ended(o) /\ o <= last
        BY <1>4, <3>1, <4>3, <4>4 DEF Spans, Alternate
      <4>6. \A k \in Marks(h)' : k \in Marks(h) \/ k \in ci + 1 .. n
        BY <1>2, <3>2, <3>5 DEF Marks
      <4>7. \A k \in ci + 1 .. n : o < comments[k]
        BY <1>3, <1>7, <3>1, <4>5, SMTT(20) DEF Streams
      <4> QED
        BY <3>3, <4>5, <4>6, <4>7
    <3> QED
      BY <1>2, <3>2, <3>4, <3>5
  <2>2. \A o \in WithBlock : Opening(o) \in Blocks /\ block'[Opening(o)].items = block[Opening(o)].items
    BY <1>2, OpeningIs DEF WithBlock, Blocks
  <2>3. \A o \in WithBlock' : o \in WithBlock /\ o \in Heads /\ EndOf(o)' = EndOf(o) /\ (Ended(o)' <=> Ended(o))
    BY <1>5 DEF WithBlock
  <2>4. ASSUME NEW i \in 1..Len(open'), NEW j \in 1..Len(open'), i < j,
               open'[i] \in Heads, open'[j] \in Heads,
               NEW k \in meta'[open'[j]].leading \cup meta'[open'[j]].trailing
                           \cup meta'[open'[j]].detached
        PROVE open'[i] < comments[k]
    <3>1. i \in 1..Len(open) /\ open'[i] = open[i]
      BY <1>3, <1>10, <2>4
    <3>2. CASE j \in 1..Len(open)
      <4>1. open'[j] = open[j] /\ open[j] # Peek /\ ~ Ended(open[j])
        <5>1. open'[j] = open[j] /\ open[j] <= last
          BY <1>10, <3>2 DEF Alternate
        <5> QED
          BY <1>2, <1>3, <1>4, <2>4, <3>2, <5>1 DEF Spans
      <4>2. k \in Marks(open[j])
        <5>1. \A h : h = open[j] => Marks(h)' = Marks(h)
          BY <1>9, <2>4, <4>1
        <5>2. \A h : h = open[j] => k \in Marks(h)'
          BY <2>4, <4>1 DEF Marks
        <5> QED
          BY <5>1, <5>2
      <4> QED
        BY <1>4, <2>4, <3>1, <3>2, <4>1, <4>2 DEF Inside
    <3>3. CASE j = Len(open) + 1
      <4>1. open'[j] = Peek
        BY <1>10, <3>3
      <4>2. meta'[Peek].trailing = {} /\ \A x : x \in meta'[Peek].detached => x \in ci + 1 .. n
        BY <1>2, <1>6
      <4>3. k \in ci + 1 .. m
        BY <1>2, <1>3, <2>4, <4>1, <4>2, SMTT(20)
      <4>4. k \in Streams /\ k > ci
        BY <1>3, <4>3 DEF Streams
      <4>5. open[i] <= last
        BY <3>1 DEF Alternate
      <4> QED
        BY <1>7, <2>4, <3>1, <4>4, <4>5
    <3> QED
      BY <1>11, <3>2, <3>3
  <2>5. \A o \in WithBlock', i \in Nat : i \in 1..Len(block'[Opening(o)'].items) =>
          LET h == block'[Opening(o)'].items[i]
          IN /\ \A k \in meta'[h].leading \cup meta'[h].trailing \cup meta'[h].detached : o < comments'[k]
             /\ Ended(o)' => h < EndOf(o)' /\ \A k \in meta'[h].leading \cup meta'[h].trailing \cup meta'[h].detached : comments'[k] < EndOf(o)'
    <3> TAKE o \in WithBlock', i \in Nat
    <3> HAVE i \in 1..Len(block'[Opening(o)'].items)
    <3>1. /\ o \in WithBlock /\ o \in Heads /\ EndOf(o)' = EndOf(o) /\ (Ended(o)' <=> Ended(o))
          /\ Opening(o)' = Opening(o) /\ block'[Opening(o)].items = block[Opening(o)].items
          /\ comments' = comments
      BY <1>2, <1>5, <2>2, <2>3
    <3> DEFINE h == block[Opening(o)].items[i]
    <3>2. i \in 1..Len(block[Opening(o)].items) /\ block'[Opening(o)'].items[i] = h
      BY <3>1
    <3>3. /\ \A k \in Marks(h)' : o < comments[k]
          /\ Ended(o) => h < EndOf(o) /\ \A k \in Marks(h)' : comments[k] < EndOf(o)
      BY <2>1, <3>1, <3>2
    <3>4. \A x : Marks(x)' = meta'[x].leading \cup meta'[x].trailing \cup meta'[x].detached
      BY DEF Marks
    <3> QED
      BY <3>1, <3>2, <3>3, <3>4
  <2>6. comments' = comments /\ Heads' = Heads
    BY <1>2, <1>5
  <2> QED
    BY <2>4, <2>5, <2>6 DEF Inside, Marks
<1>18. Runs'
  <2>1. ASSUME NEW h \in Heads
        PROVE /\ \A j \in meta'[h].leading :
                   /\ comments[j] < h
                   /\ \A k \in Streams : j < k /\ comments[k] < h => k \in meta'[h].leading
              /\ \A i, j \in meta'[h].detached : \A k \in i..j : k \in meta'[h].detached
    <3>1. /\ \A j \in meta'[h].leading :
               /\ comments[j] < h
               /\ \A k \in Streams : j < k /\ comments[k] < h => k \in meta'[h].leading
      <4>1. CASE h = Peek
        <5>1. /\ \A k : k \in meta'[h].leading <=> k \in n + 1 .. m
              /\ \A k \in Streams : comments[k] < h <=> k <= m
          BY <1>2, <4>1
        <5>2. \A k \in n + 1 .. m : k \in Streams
          BY <1>3 DEF Streams
        <5>3. ASSUME NEW j \in meta'[h].leading
              PROVE /\ comments[j] < h
                    /\ \A k \in Streams : j < k /\ comments[k] < h => k \in meta'[h].leading
          <6>1. j \in n + 1 .. m /\ j \in Streams
            BY <5>1, <5>2, <5>3
          <6>2. comments[j] < h
            BY <1>3, <5>1, <6>1
          <6>3. ASSUME NEW k \in Streams, j < k, comments[k] < h PROVE k \in meta'[h].leading
            <7>1. k <= m /\ k \in Nat /\ k > n
              BY <1>3, <5>1, <6>1, <6>3 DEF Streams
            <7> QED
              BY <1>3, <5>1, <7>1
          <6> QED
            BY <6>2, <6>3
        <5> QED
          BY <5>3
      <4>2. CASE h # Peek
        BY <1>2, <1>4, <4>2 DEF Runs
      <4> QED
        BY <4>1, <4>2
    <3>2. \A i, j \in meta'[h].detached : \A k \in i..j : k \in meta'[h].detached
      <4>1. CASE meta'[h].detached = meta[h].detached
        BY <1>4, <4>1 DEF Runs
      <4>2. CASE \A k : k \in meta'[h].detached <=> k \in ci + 1 .. n
        BY <1>3, <4>2
      <4> QED
        BY <1>2, <4>1, <4>2
    <3> QED
      BY <3>1, <3>2
  <2>2. \A h \in Heads : \A j \in meta'[h].trailing :
             /\ h < comments[j]
             /\ \A p \in meta'[h].end + 1 .. comments[j] : text[p].tok = "comment"
             /\ \A k \in Streams : meta'[h].end < comments[k] /\ k <= j => k \in meta'[h].trailing
    <3>1. \A h \in Heads : meta'[h].end = meta[h].end /\ meta'[h].trailing = meta[h].trailing
      BY <1>2
    <3>2. \A h \in Heads : \A j \in meta[h].trailing :
             /\ h < comments[j]
             /\ \A p \in meta[h].end + 1 .. comments[j] : text[p].tok = "comment"
             /\ \A k \in Streams : meta[h].end < comments[k] /\ k <= j => k \in meta[h].trailing
      BY <1>4 DEF Runs, EndOf
    <3> QED
      BY <3>1, <3>2
  <2> QED
    BY <1>2, <1>5, <2>1, <2>2 DEF Runs, EndOf
<1> QED
  BY <1>13, <1>14, <1>15, <1>16, <1>17, <1>18 DEF Nested

LEMMA NestedEnds ==
    ASSUME TwoStreams, Core, Tied, Nested, FinishItem
    PROVE Nested'
<1> USE DEF Core
<1>a. PICK H : H = Owner
  OBVIOUS
<1>b. PICK O : O = Outer
  OBVIOUS
<1>1. PICK n \in ci..Len(comments) :
        /\ UNCHANGED <<text, toks, comments, ti, last, depth>>
        /\ InItem /\ at' = "items" /\ open' = Front(open)
        /\ H \in Heads /\ O \in Blocks \cup {Root} /\ O < H /\ H <= last
        /\ Len(open) = 2 * depth + 1 /\ H = open[2 * depth + 1]
        /\ O = (IF depth = 0 THEN Root ELSE open[2 * depth])
        /\ last < Peek /\ Remarks(last, Peek)
        /\ ci' = n /\ \A k \in 1..n : comments[k] < Peek
        /\ \A h \in Heads : h # H => meta'[h] = meta[h]
        /\ meta'[H].end = last /\ meta'[H].leading = meta[H].leading
        /\ meta'[H].detached = {}
        /\ \A k : k \in meta'[H].trailing <=> k \in ci + 1 .. n
        /\ \A b \in Blocks \cup {Root} : b # O => block'[b].items = block[b].items
        /\ block'[O].items = Append(block[O].items, H)
  BY <1>a, <1>b, ItemEnds
<1>2. /\ UNCHANGED <<text, toks, comments, ti, last, depth>>
      /\ InItem /\ at' = "items" /\ open' = Front(open)
      /\ Len(open) = 2 * depth + 1 /\ H = open[2 * depth + 1]
      /\ O = (IF depth = 0 THEN Root ELSE open[2 * depth]) /\ ci' = n
  BY <1>1
<1>3. /\ Len(text) \in Nat /\ Len(open) \in Nat /\ depth \in Nat /\ Len(comments) \in Nat
      /\ last \in Nat /\ Peek \in Nat /\ last < Peek
      /\ H \in Heads /\ H \in Nat /\ O \in Blocks \cup {Root} /\ O < H /\ H <= last /\ H >= 1
      /\ ci \in Nat /\ n \in Nat /\ ci <= n /\ n <= Len(comments)
  <2>1. ci \in 0..Len(comments) /\ ti \in 1..Len(toks)
    BY DEF TypeOK
  <2> QED
    <3>1. Peek \in 1..Len(text)
      BY <2>1, PeekIsToken
    <3>2. H \in Heads /\ O < H /\ H <= last /\ O \in Blocks \cup {Root} /\ last < Peek /\ n \in ci..Len(comments)
      BY <1>1
    <3> QED
      BY <2>1, <3>1, <3>2, TypeFacts, TextIs DEF TypeOK
<1>4. /\ \A h \in Heads : h \in Nat /\ meta[h].end \in Nat
      /\ \A k \in Streams : comments[k] \in Nat
      /\ \A b \in Blocks \cup {Root} : block[b].items \in Seq(Nat)
  BY TypeFacts, TextIs
<1>5. Cut /\ Spans /\ Rows /\ Openers /\ Inside /\ Runs
  BY DEF Nested
<1>6. /\ ~ Ended(H) /\ Ended(H)' /\ EndOf(H)' = last
      /\ \A h \in Heads : h # H => /\ meta'[h] = meta[h] /\ (Ended(h)' <=> Ended(h))
                                   /\ EndOf(h)' = EndOf(h) /\ Marks(h)' = Marks(h)
      /\ \A h : Ended(h) => h \in Heads /\ h # H
  <2>1. ~ Ended(H)
    <3>1. 2 * depth + 1 \in 1..Len(open)
      BY <1>2, <1>3
    <3> QED
      BY <1>2, <1>3, <1>5, <3>1 DEF Spans
  <2>2. Heads' = Heads
    BY <1>2, SameText
  <2>3. \A h \in Heads : h # H => meta'[h] = meta[h]
    BY <1>1
  <2>4. meta'[H].end = last /\ last # 0
    BY <1>1, <1>3
  <2> QED
    BY <1>3, <2>1, <2>2, <2>3, <2>4 DEF Ended, EndOf, Marks
<1>7. /\ Heads' = Heads /\ Blocks' = Blocks /\ Root' = Root /\ Streams' = Streams
      /\ WithBlock' = WithBlock /\ \A o : Opening(o)' = Opening(o)
  BY <1>2, SameText, SameTree DEF Root, Streams
<1>8. \A h : Ended(h) => /\ h \in Heads /\ h \in Nat /\ EndOf(h) \in Nat
                         /\ h <= EndOf(h) /\ EndOf(h) <= last /\ EndOf(h) < last
  BY <1>2, <1>4, <1>5 DEF Ended, Spans, Cut, EndOf
<1>9. /\ open' \in Seq(1..Len(text)) /\ Len(open') = Len(open) - 1
      /\ \A i \in 1..Len(open) - 1 : open'[i] = open[i]
  <2>1. open \in Seq(1..Len(text)) /\ Len(open) >= 1 /\ open' = Front(open)
    BY <1>2, <1>3 DEF TypeOK
  <2> QED
    BY <2>1, FrontIs
<1>10. \A i \in 1..Len(open) - 1 : open[i] < H /\ open[i] # H
  <2> TAKE i \in 1..Len(open) - 1
  <2>1. i \in 1..Len(open) /\ 2 * depth + 1 \in 1..Len(open) /\ i < 2 * depth + 1
    BY <1>2, <1>3
  <2>2. open[i] < H /\ open[i] \in Nat
    BY <1>2, <2>1, TypeFacts DEF Alternate
  <2> QED
    BY <1>3, <2>2
\* The items of a block, with the one that ends.
<1>11. ASSUME NEW b \in Blocks \cup {Root}, NEW i \in Nat, i \in 1..Len(block'[b].items)
       PROVE \/ i \in 1..Len(block[b].items) /\ block'[b].items[i] = block[b].items[i]
             \/ b = O /\ i = Len(block[b].items) + 1 /\ block'[b].items[i] = H
  <2>1. CASE b # O
    BY <1>1, <1>11, <2>1
  <2>2. CASE b = O
    <3>1. block[O].items \in Seq(Nat) /\ H \in Nat /\ block'[O].items = Append(block[O].items, H)
      BY <1>1, <1>3, <1>4
    <3>2. /\ Len(block'[O].items) = Len(block[O].items) + 1 /\ Len(block[O].items) \in Nat
          /\ \A j \in 1..Len(block[O].items) : block'[O].items[j] = block[O].items[j]
          /\ block'[O].items[Len(block[O].items) + 1] = H
      BY <3>1, AppendIs
    <3> QED
      BY <1>11, <2>2, <3>2
  <2> QED
    BY <2>1, <2>2
<1>12. \A b \in Blocks \cup {Root}, i \in Nat : i \in 1..Len(block[b].items) =>
          Ended(block[b].items[i]) /\ Len(block[b].items) \in Nat
  BY <1>4 DEF Tied
<1>13. Cut'
  <2>1. ~ InItem'
    BY <1>2 DEF InItem
  <2>2. ASSUME NEW k \in n + 1 .. Len(comments), NEW h \in Heads, h <= last PROVE h < comments[k]
    <3>1. k \in ci + 1 .. Len(comments)
      BY <1>3
    <3> QED
      BY <1>5, <2>2, <3>1 DEF Cut
  <2> QED
    BY <1>2, <1>7, <2>1, <2>2 DEF Cut
<1>14. Spans'
  <2>1. \A g \in Heads : Ended(g)' => g <= EndOf(g)' /\ EndOf(g)' <= last
    BY <1>3, <1>6, <1>8
  <2>2. ASSUME NEW g \in Heads, NEW h \in Heads, Ended(g)', Ended(h)', g < h
        PROVE EndOf(g)' < h \/ EndOf(h)' < EndOf(g)'
    <3>1. CASE g # H /\ h # H
      BY <1>5, <1>6, <2>2, <3>1 DEF Spans
    <3>2. CASE g = H
      BY <1>3, <1>6, <1>8, <2>2, <3>2
    <3>3. CASE h = H
      <4>1. 2 * depth + 1 \in 1..Len(open) /\ open[2 * depth + 1] = H
        BY <1>2, <1>3
      <4> QED
        BY <1>3, <1>4, <1>5, <1>6, <2>2, <3>3, <4>1 DEF Spans
    <3> QED
      BY <3>1, <3>2, <3>3
  <2>3. ASSUME NEW j \in 1..Len(open'), open'[j] \in Heads
        PROVE /\ ~ (open'[j] \in Heads' /\ meta'[open'[j]].end # 0)
              /\ \A g \in Heads : Ended(g)' /\ g < open'[j] => EndOf(g)' < open'[j]
    <3>1. j \in 1..Len(open) /\ open'[j] = open[j] /\ open[j] < H /\ open[j] # H /\ open[j] \in Nat
      BY <1>3, <1>4, <1>9, <1>10, <2>3
    <3>2. \A x : x = open[j] => ~ Ended(x)'
      BY <1>5, <1>6, <2>3, <3>1 DEF Spans
    <3>3. \A g \in Heads : Ended(g)' /\ g < open[j] => EndOf(g)' < open[j]
      <4> TAKE g \in Heads
      <4> HAVE Ended(g)' /\ g < open[j]
      <4>1. g # H
        BY <1>3, <3>1
      <4> QED
        BY <1>5, <1>6, <2>3, <3>1, <4>1 DEF Spans
    <3>4. ~ (open'[j] \in Heads' /\ meta'[open'[j]].end # 0)
      BY <3>1, <3>2 DEF Ended
    <3> QED
      BY <3>1, <3>3, <3>4 DEF Ended
  <2> QED
    BY <1>2, <1>7, <2>1, <2>2, <2>3 DEF Spans, Ended
<1>15. Rows'
  <2>1. \A b \in Blocks \cup {Root}, i \in Nat :
          i \in 1..Len(block'[b].items) => b < block'[b].items[i]
    <3> TAKE b \in Blocks \cup {Root}, i \in Nat
    <3> HAVE i \in 1..Len(block'[b].items)
    <3>1. CASE i \in 1..Len(block[b].items) /\ block'[b].items[i] = block[b].items[i]
      BY <1>5, <3>1 DEF Rows
    <3> QED
      BY <1>3, <1>11, <3>1
  <2>2. ASSUME NEW b \in Blocks \cup {Root}, NEW i \in Nat, NEW j \in Nat,
               i \in 1..Len(block'[b].items), j \in 1..Len(block'[b].items), i < j
        PROVE meta'[block'[b].items[i]].end < block'[b].items[j]
    <3>1. i \in 1..Len(block[b].items) /\ block'[b].items[i] = block[b].items[i]
      <4>1. CASE i = Len(block[b].items) + 1 /\ b = O
        <5>1. \/ j \in 1..Len(block[b].items)
              \/ b = O /\ j = Len(block[b].items) + 1 /\ block'[b].items[j] = H
          BY <1>11, <2>2
        <5>2. Len(block[b].items) \in Nat
          BY <1>4
        <5> QED
          BY <2>2, <4>1, <5>1, <5>2
      <4> QED
        BY <1>11, <2>2, <4>1
    <3> DEFINE x == block[b].items[i]
    <3>2. Ended(x) /\ x \in Heads /\ meta'[x].end = EndOf(x)
      BY <1>6, <1>12, <3>1 DEF EndOf
    <3>3. CASE j \in 1..Len(block[b].items) /\ block'[b].items[j] = block[b].items[j]
      <4>1. EndOf(x) < block[b].items[j]
        BY <1>5, <2>2, <3>1, <3>3 DEF Rows
      <4> HIDE DEF x
      <4>2. block'[b].items[i] = x
        BY <3>1 DEF x
      <4> QED
        BY <3>2, <3>3, <4>1, <4>2
    <3>4. CASE b = O /\ block'[b].items[j] = H
      <4>1. 2 * depth + 1 \in 1..Len(open) /\ open[2 * depth + 1] = H
        BY <1>2, <1>3
      <4>2. Around(2 * depth + 1) = O
        BY <1>2, <1>3 DEF Around
      <4>3. x < H
        BY <1>3, <1>5, <3>1, <3>4, <4>1, <4>2 DEF Rows
      <4>4. EndOf(x) < H
        BY <1>3, <1>5, <3>2, <4>1, <4>3 DEF Spans
      <4> QED
        BY <3>1, <3>2, <3>4, <4>4
    <3> QED
      BY <1>11, <2>2, <3>3, <3>4
  <2>3. ASSUME NEW b \in Blocks \cup {Root}, NEW c \in Blocks \cup {Root}, NEW i \in Nat, NEW j \in Nat,
               i \in 1..Len(block'[b].items), j \in 1..Len(block'[c].items),
               block'[b].items[i] = block'[c].items[j]
        PROVE b = c
    <3>1. \/ i \in 1..Len(block[b].items) /\ block'[b].items[i] = block[b].items[i]
          \/ b = O /\ block'[b].items[i] = H
      BY <1>11, <2>3
    <3>2. \/ j \in 1..Len(block[c].items) /\ block'[c].items[j] = block[c].items[j]
          \/ c = O /\ block'[c].items[j] = H
      BY <1>11, <2>3
    <3>3. CASE i \in 1..Len(block[b].items) /\ block'[b].items[i] = block[b].items[i]
      <4>1. block[b].items[i] # H
        BY <1>6, <1>12, <3>3
      <4> QED
        BY <1>5, <2>3, <3>2, <3>3, <4>1 DEF Rows
    <3>4. CASE b = O /\ block'[b].items[i] = H
      <4>1. j \in 1..Len(block[c].items) => block[c].items[j] # H
        BY <1>6, <1>12
      <4> QED
        BY <2>3, <3>2, <3>4, <4>1
    <3> QED
      BY <3>1, <3>3, <3>4
  <2>4. ASSUME NEW j \in 1..Len(open'), NEW i \in Nat, open'[j] \in Heads,
               i \in 1..Len(block'[Around(j)'].items)
        PROVE block'[Around(j)'].items[i] < open'[j]
    <3>1. j \in 1..Len(open) /\ j \in 1..Len(open) - 1 /\ open'[j] = open[j]
      BY <1>3, <1>9, <2>4
    <3>2. Around(j)' = Around(j)
      BY <1>3, <1>7, <1>9, <2>4, <3>1 DEF Around
    <3>3. Around(j) \in Blocks \cup {Root}
      BY <1>3, <2>4, <3>1, ByTurns DEF Around
    <3>4. Around(j) # O
      <4>1. CASE j = 1
        <5>1. Around(j) = Root /\ depth # 0
          BY <1>2, <1>3, <3>1, <4>1 DEF Around
        <5>2. O = open[2 * depth] /\ depth \in 1..depth
          BY <1>2, <1>3, <5>1
        <5> QED
          BY <5>1, <5>2, RootIsNoBlock DEF Alternate
      <4>2. CASE j > 1
        <5>1. Around(j) = open[j - 1] /\ depth # 0 /\ O = open[2 * depth]
          BY <1>2, <1>3, <3>1, <4>2 DEF Around
        <5>2. j - 1 \in 1..Len(open) /\ 2 * depth \in 1..Len(open) /\ j - 1 < 2 * depth
          BY <1>2, <1>3, <3>1, <4>2, <5>1
        <5>3. open[j - 1] < open[2 * depth] /\ open[j - 1] \in Nat /\ open[2 * depth] \in Nat
          BY <5>2, TypeFacts DEF Alternate
        <5> QED
          BY <5>1, <5>3
      <4> QED
        BY <1>3, <3>1, <4>1, <4>2
    <3>5. block'[Around(j)'].items = block[Around(j)].items
      BY <1>1, <3>2, <3>3, <3>4
    <3> QED
      BY <1>5, <2>4, <3>1, <3>5 DEF Rows
  <2> QED
    BY <1>7, <2>1, <2>2, <2>3, <2>4 DEF Rows, EndOf
<1>16. Openers'
  <2>1. \A j \in 1..depth : open'[2 * j] = open[2 * j] /\ open'[2 * j - 1] = open[2 * j - 1]
    <3> TAKE j \in 1..depth
    <3>1. 2 * j \in 1..Len(open) - 1 /\ 2 * j - 1 \in 1..Len(open) - 1
      BY <1>2, <1>3
    <3> QED
      BY <1>9, <3>1
  <2> QED
    BY <1>2, <1>5, <1>7, <2>1 DEF Openers
<1>17. Inside'
  <2>1. ASSUME NEW o \in WithBlock, NEW i \in Nat, i \in 1..Len(block'[Opening(o)].items),
               NEW h, h = block'[Opening(o)].items[i]
        PROVE /\ \A k \in Marks(h)' : o < comments[k]
              /\ Ended(o)' => h < EndOf(o)' /\ \A k \in Marks(h)' : comments[k] < EndOf(o)'
    <3>1. o \in Heads /\ Opening(o) \in Blocks
      BY OpeningIs DEF WithBlock, Blocks
    <3>2. CASE i \in 1..Len(block[Opening(o)].items) /\ h = block[Opening(o)].items[i]
      <4>1. Ended(h) /\ h \in Heads /\ h # H /\ Marks(h)' = Marks(h) /\ EndOf(h) < last /\ h <= EndOf(h)
        BY <1>6, <1>8, <1>12, <3>1, <3>2
      <4>2. /\ \A k \in Marks(h) : o < comments[k]
            /\ Ended(o) => h < EndOf(o) /\ \A k \in Marks(h) : comments[k] < EndOf(o)
        BY <1>5, <3>2 DEF Inside
      <4>3. CASE o # H
        BY <1>6, <3>1, <4>1, <4>2, <4>3
      <4>4. CASE o = H
        <5>1. \A k \in Marks(h) : comments[k] < last
          <6> TAKE k \in Marks(h)
          <6>1. k \in 1..ci
            BY <4>1, HandedOut
          <6> QED
            BY <1>2, <1>5, <6>1 DEF Cut
        <5>2. h < last
          BY <1>3, <1>8, <4>1
        <5> QED
          BY <1>6, <4>1, <4>2, <4>4, <5>1, <5>2
      <4> QED
        BY <4>3, <4>4
    <3>3. CASE Opening(o) = O /\ h = H
      <4>1. depth # 0 /\ O = open[2 * depth] /\ depth \in 1..depth
        BY <1>2, <1>3, <3>1, <3>3, RootIsNoBlock
      <4>2. o = open[2 * depth - 1]
        BY <1>5, <3>1, <3>3, <4>1 DEF Openers
      <4>3. 2 * depth - 1 \in 1..Len(open) - 1 /\ 2 * depth - 1 \in 1..Len(open)
            /\ 2 * depth + 1 \in 1..Len(open) /\ 2 * depth - 1 < 2 * depth + 1
        BY <1>2, <1>3, <4>1
      <4>4. o # H /\ ~ Ended(o) /\ ~ Ended(o)' /\ o <= last
        <5>1. o # H
          BY <1>10, <4>2, <4>3
        <5>2. ~ Ended(o)
          BY <1>5, <3>1, <4>2, <4>3 DEF Spans
        <5>3. o <= last
          BY <4>2, <4>3 DEF Alternate
        <5> QED
          BY <1>6, <3>1, <5>1, <5>2, <5>3
      <4>5. \A k \in Marks(H) : o < comments[k]
        BY <1>2, <1>3, <1>5, <3>1, <4>2, <4>3 DEF Inside
      <4>6. \A k \in Marks(H)' : k \in Marks(H) \/ k \in ci + 1 .. n
        BY <1>1 DEF Marks
      <4>7. ASSUME NEW k \in ci + 1 .. n PROVE o < comments[k]
        <5>1. k \in ci + 1 .. Len(comments)
          BY <1>3
        <5> QED
          BY <1>5, <3>1, <4>4, <5>1 DEF Cut
      <4> QED
        BY <3>3, <4>4, <4>5, <4>6, <4>7
    <3> QED
      BY <1>11, <2>1, <3>1, <3>2, <3>3
  <2>2. \A o \in WithBlock', i \in Nat : i \in 1..Len(block'[Opening(o)'].items) =>
          LET h == block'[Opening(o)'].items[i]
          IN /\ \A k \in meta'[h].leading \cup meta'[h].trailing \cup meta'[h].detached : o < comments'[k]
             /\ Ended(o)' => h < EndOf(o)' /\ \A k \in meta'[h].leading \cup meta'[h].trailing \cup meta'[h].detached : comments'[k] < EndOf(o)'
    <3> TAKE o \in WithBlock', i \in Nat
    <3> HAVE i \in 1..Len(block'[Opening(o)'].items)
    <3>1. o \in WithBlock /\ Opening(o)' = Opening(o) /\ comments' = comments
      BY <1>2, <1>7
    <3>0. PICK h : h = block'[Opening(o)'].items[i]
      OBVIOUS
    <3>2. i \in 1..Len(block'[Opening(o)].items) /\ h = block'[Opening(o)].items[i]
      BY <3>0, <3>1
    <3>3. /\ \A k \in Marks(h)' : o < comments[k]
          /\ Ended(o)' => h < EndOf(o)' /\ \A k \in Marks(h)' : comments[k] < EndOf(o)'
      BY <2>1, <3>1, <3>2
    <3>4. \A x : Marks(x)' = meta'[x].leading \cup meta'[x].trailing \cup meta'[x].detached
      BY DEF Marks
    <3> QED
      BY <3>0, <3>1, <3>2, <3>3, <3>4
  <2>3. ASSUME NEW i \in 1..Len(open'), NEW j \in 1..Len(open'), i < j,
               open'[i] \in Heads, open'[j] \in Heads,
               NEW k \in meta'[open'[j]].leading \cup meta'[open'[j]].trailing
                           \cup meta'[open'[j]].detached
        PROVE open'[i] < comments[k]
    <3>0. /\ i \in 1..Len(open) - 1 /\ j \in 1..Len(open) - 1
          /\ i \in 1..Len(open) /\ j \in 1..Len(open)
      <4>1. Len(open) \in Nat /\ Len(open') = Len(open) - 1
        BY <1>3, <1>9
      <4> QED
        BY <2>3, <4>1
    <3>1. /\ i \in 1..Len(open) /\ open'[i] = open[i]
          /\ j \in 1..Len(open) /\ open'[j] = open[j] /\ open[j] # H
      BY <1>9, <1>10, <3>0
    <3>2. meta'[open[j]] = meta[open[j]]
      BY <1>6, <1>7, <2>3, <3>1
    <3>3. k \in Marks(open[j])
      BY <2>3, <3>1, <3>2 DEF Marks
    <3> QED
      BY <1>5, <2>3, <3>1, <3>3 DEF Inside
  <2> QED
    BY <1>2, <1>7, <2>2, <2>3 DEF Inside, Marks
<1>18. Runs'
  <2>1. ASSUME NEW h \in Heads, h # H
        PROVE /\ \A j \in meta'[h].leading :
                    /\ comments[j] < h
                    /\ \A k \in Streams : j < k /\ comments[k] < h => k \in meta'[h].leading
              /\ \A j \in meta'[h].trailing :
                    /\ h < comments[j]
                    /\ \A p \in meta'[h].end + 1 .. comments[j] : text[p].tok = "comment"
                    /\ \A k \in Streams : meta'[h].end < comments[k] /\ k <= j => k \in meta'[h].trailing
              /\ \A i, j \in meta'[h].detached : \A k \in i..j : k \in meta'[h].detached
    BY <1>5, <1>6, <2>1 DEF Runs, EndOf
  <2>2. /\ \A j \in meta'[H].leading :
              /\ comments[j] < H
              /\ \A k \in Streams : j < k /\ comments[k] < H => k \in meta'[H].leading
        /\ \A i, j \in meta'[H].detached : \A k \in i..j : k \in meta'[H].detached
    <3>1. meta'[H].leading = meta[H].leading /\ meta'[H].detached = {}
      BY <1>1
    <3> QED
      BY <1>3, <1>5, <3>1 DEF Runs
  <2>3. ASSUME NEW j \in meta'[H].trailing
        PROVE /\ H < comments[j]
              /\ \A p \in last + 1 .. comments[j] : text[p].tok = "comment"
              /\ \A k \in Streams : last < comments[k] /\ k <= j => k \in meta'[H].trailing
    <3>1. /\ \A k : k \in meta'[H].trailing <=> k \in ci + 1 .. n
          /\ \A k \in 1..n : comments[k] < Peek
          /\ Remarks(last, Peek)
      BY <1>1
    <3>2. j \in ci + 1 .. n /\ j \in ci + 1 .. Len(comments) /\ j \in 1..n /\ j \in Streams /\ j \in Nat
      BY <1>3, <2>3, <3>1 DEF Streams
    <3>3. H < comments[j]
      BY <1>3, <1>5, <3>2 DEF Cut
    <3>4. \A p \in last + 1 .. comments[j] : text[p].tok = "comment"
      <4>1. comments[j] < Peek /\ comments[j] \in Nat
        BY <1>4, <3>1, <3>2
      <4>2. \A p \in last + 1 .. comments[j] : p \in last + 1 .. Peek - 1
        BY <1>3, <4>1
      <4> QED
        BY <3>1, <4>2 DEF Remarks
    <3>5. ASSUME NEW k \in Streams, last < comments[k], k <= j PROVE k \in meta'[H].trailing
      <4>1. k \in Nat /\ k >= 1 /\ k <= n
        BY <1>3, <3>2, <3>5 DEF Streams
      <4>2. ~ (k <= ci)
        <5>1. k \in 1..ci => comments[k] < last
          BY <1>2, <1>5 DEF Cut
        <5> QED
          BY <1>3, <1>4, <3>5, <4>1, <5>1
      <4> QED
        BY <1>3, <3>1, <4>1, <4>2
    <3> QED
      BY <3>3, <3>4, <3>5
  <2>4. meta'[H].end = last
    BY <1>1
  <2> QED
    BY <1>2, <1>7, <2>1, <2>2, <2>3, <2>4 DEF Runs, EndOf
<1> QED
  BY <1>13, <1>14, <1>15, <1>16, <1>17, <1>18 DEF Nested

LEMMA GrownBegins == Fresh => Grown
  BY NestedBegins DEF Grown

LEMMA GrownHolds == Invariant /\ Tied /\ Grown /\ [Next]_vars => Grown'
<1> SUFFICES ASSUME Invariant, Tied, Grown, [Next]_vars, at' # "error" PROVE Nested'
  BY DEF Grown
<1>1. TwoStreams /\ (at # "error" => Core /\ Nested)
  BY DEF Invariant, Grown
<1>2. CASE BeginItem
  BY <1>1, <1>2, NestedGrows DEF BeginItem
<1>3. CASE FinishItem
  BY <1>1, <1>3, NestedEnds DEF FinishItem, WithoutSeparator
<1>4. CASE Skip \/ EnterBlock \/ EndItem \/ EndBlock
  BY <1>1, <1>4, NestedPasses DEF Skip, EnterBlock, EndItem, EndBlock
<1>5. CASE Unclosed
  BY <1>5 DEF Unclosed
<1>6. CASE UNCHANGED vars
  <2>1. at # "error" /\ Nested /\ UNCHANGED <<text, comments, ci, last, at, open, depth, meta, block>>
    BY <1>1, <1>6 DEF vars, parsed
  <2>2. /\ Heads' = Heads /\ Blocks' = Blocks /\ Root' = Root /\ Streams' = Streams
        /\ WithBlock' = WithBlock /\ \A o : Opening(o)' = Opening(o)
        /\ \A h : (Ended(h)' <=> Ended(h)) /\ EndOf(h)' = EndOf(h) /\ Marks(h)' = Marks(h)
        /\ \A j : Around(j)' = Around(j)
        /\ (InItem' <=> InItem) /\ Owner' = Owner
    BY <2>1, SameText, SameTree DEF Ended, Root, Streams, EndOf, Marks, Around, InItem, Owner
  <2>3. Cut' /\ Spans'
    BY <2>1, <2>2 DEF Nested, Cut, Spans, EndOf, Ended
  <2>4. Rows' /\ Openers'
    BY <2>1, <2>2 DEF Nested, Rows, Openers, EndOf, Around
  <2>5. Inside'
    BY <2>1, <2>2 DEF Nested, Inside, Marks, Ended, EndOf
  <2>6. Runs'
    BY <2>1, <2>2 DEF Nested, Runs, EndOf
  <2> QED
    BY <2>3, <2>4, <2>5, <2>6 DEF Nested
<1> QED
  BY <1>2, <1>3, <1>4, <1>5, <1>6 DEF Next

\* An item ends with a token.
EndsWithTokens ==
    /\ \A g \in Heads : Ended(g) => text[EndOf(g)].tok \notin {"comment", "head"}
    /\ InItem => text[last].tok # "comment"
    /\ at = "finish" => text[last].tok # "head"
Closed == at # "error" => EndsWithTokens

LEMMA ClosedBegins == Fresh => Closed
<1> SUFFICES ASSUME Fresh PROVE EndsWithTokens
  BY DEF Closed
<1>1. at = "items" /\ meta = [h \in Heads |-> EmptyMeta]
  BY DEF Fresh
<1>2. \A g \in Heads : ~ Ended(g)
  BY <1>1 DEF Ended, EmptyMeta
<1> QED
  BY <1>1, <1>2 DEF EndsWithTokens, InItem

LEMMA ClosedHolds == Invariant /\ Closed /\ [Next]_vars => Closed'
<1> SUFFICES ASSUME Invariant, Closed, [Next]_vars, at' # "error" PROVE EndsWithTokens'
  BY DEF Closed
<1>1. TwoStreams /\ (at # "error" => Core /\ EndsWithTokens)
  BY DEF Invariant, Closed
<1>2. CASE BeginItem
  <2>1. TwoStreams /\ Core /\ EndsWithTokens
    BY <1>1, <1>2 DEF BeginItem
  <2>2. /\ text' = text /\ at' = "item" /\ Peek \in Heads /\ last' = Peek
        /\ \A h \in Heads : meta'[h].end = meta[h].end
    BY <1>2, <2>1, ItemBegins
  <2>3. Heads' = Heads /\ text'[last'].tok = "head"
    BY <2>2, SameText DEF Heads
  <2> QED
    BY <2>1, <2>2, <2>3 DEF EndsWithTokens, Ended, EndOf
<1>3. CASE FinishItem
  <2>1. TwoStreams /\ Core /\ EndsWithTokens
    BY <1>1, <1>3 DEF FinishItem, WithoutSeparator
  <2>2. /\ text' = text /\ at' = "items" /\ Owner \in Heads /\ InItem
        /\ \A h \in Heads : h # Owner => meta'[h] = meta[h]
        /\ meta'[Owner].end = last
    BY <1>3, <2>1, ItemEnds
  <2>3. Heads' = Heads /\ ~ InItem'
    BY <2>2, SameText DEF InItem
  <2>4. PICK H : H = Owner
    OBVIOUS
  <2>5. text[last].tok \notin {"comment", "head"}
    BY <1>3, <2>1, <2>2 DEF EndsWithTokens, FinishItem, WithoutSeparator
  <2> QED
    BY <2>1, <2>2, <2>3, <2>4, <2>5 DEF EndsWithTokens, Ended, EndOf
<1>4. CASE Skip \/ EnterBlock \/ EndItem \/ EndBlock
  <2>1. TwoStreams /\ Core /\ EndsWithTokens
    BY <1>1, <1>4 DEF Skip, EnterBlock, EndItem, EndBlock
  <2>2. text' = text /\ meta' = meta /\ last' = Peek /\ text[Peek].tok # "comment"
    BY <1>4, <2>1, TokenPasses
  <2>3. Heads' = Heads
    BY <2>2, SameText
  <2>4. at' = "finish" => text[Peek].tok # "head"
    BY <1>4 DEF Skip, EnterBlock, EndItem, EndBlock, PeekIs, Closer
  <2> QED
    BY <2>1, <2>2, <2>3, <2>4 DEF EndsWithTokens, Ended, EndOf
<1>5. CASE Unclosed
  BY <1>5 DEF Unclosed
<1>6. CASE UNCHANGED vars
  <2>1. EndsWithTokens /\ UNCHANGED <<text, meta, at, last>>
    BY <1>1, <1>6 DEF vars, parsed
  <2>2. Heads' = Heads
    BY <2>1, SameText
  <2> QED
    BY <2>1, <2>2 DEF EndsWithTokens, Ended, EndOf, InItem
<1> QED
  BY <1>2, <1>3, <1>4, <1>5, <1>6 DEF Next

\* An item has a block of its own.
LEMMA OwnOpening ==
    ASSUME TwoStreams, NEW o \in Heads, NEW h \in Heads, Opening(o) = Opening(h)
    PROVE o = h
<1>1. /\ o \in Nat /\ h \in Nat /\ text[o].tok = "head" /\ text[h].tok = "head"
      /\ Len(text) \in Nat
  BY TextIs DEF Heads
<1>2. ASSUME NEW a \in {o, h}, NEW b \in {o, h}, a < b PROVE FALSE
  <2>1. /\ a < Opening(a) /\ \A q \in a + 1 .. Opening(a) - 1 : text[q].tok = "comment"
        /\ b < Opening(b)
    BY OpeningFollows
  <2>2. Opening(a) = Opening(b) /\ Opening(a) \in Nat
    BY <1>1, OpeningIs
  <2>3. b \in a + 1 .. Opening(a) - 1
    BY <1>1, <1>2, <2>1, <2>2
  <2> QED
    BY <1>1, <2>1, <2>3
<1> QED
  BY <1>1, <1>2
=============================================================================
