------------------------------ MODULE EditsProofs ------------------------------
(***************************************************************************)
(* What is proved about Edits, for every text and selection.  Nothing that *)
(* is to go is left.  Where nothing but comments stands between an item    *)
(* and the comments that lead it (LedClosely), nothing else goes; and of a *)
(* legal file (Legal) the numbers are reserved and what is left is legal.  *)
(*                                                                         *)
(* What the parse makes of a text is shown in AttachProofs.  Here comes    *)
(* first what the edits are to be, then what apply_edits makes of them,    *)
(* and last the visit that makes them.                                     *)
(***************************************************************************)
EXTENDS Edits, AttachProofs

-----------------------------------------------------------------------------
(* The operators of the visitors.                                          *)

Ascends(s) == \A i, j \in 1..Len(s) : i < j => s[i] < s[j]
Rises(s) == \A i, j \in 1..Len(s) : i < j => s[i] <= s[j]
Occurs(x, s, n) == \E i \in 1..n : s[i] = x

LEMMA RangeIs ==
    ASSUME NEW T, NEW s \in Seq(T)
    PROVE \A x : x \in Range(s) <=> \E i \in 1..Len(s) : s[i] = x
  BY DEF Range

\* t has those of the first n elements of s that are in S, in order.
Picks(t, s, S, n) ==
    /\ t \in Seq(Nat)
    /\ \A x : (\E i \in 1..Len(t) : t[i] = x) <=> x \in S /\ Occurs(x, s, n)
    /\ Len(t) <= n /\ (Len(t) = n <=> \A i \in 1..n : s[i] \in S)
    /\ Ascends(s) => Ascends(t)

LEMMA PicksOneMore ==
    ASSUME NEW s \in Seq(Nat), NEW S, NEW n \in 1..Len(s), NEW t, Picks(t, s, S, n - 1)
    PROVE Picks(IF s[n] \in S THEN Append(t, s[n]) ELSE t, s, S, n)
<1>1. /\ n \in Nat /\ n >= 1 /\ n - 1 \in Nat /\ Len(s) \in Nat /\ s[n] \in Nat
      /\ 1..n = (1..n-1) \cup {n} /\ n \notin 1..n-1
  OBVIOUS
<1>2. /\ t \in Seq(Nat) /\ Len(t) \in Nat /\ Len(t) <= n - 1
      /\ \A x : (\E i \in 1..Len(t) : t[i] = x) <=> x \in S /\ Occurs(x, s, n - 1)
      /\ Len(t) = n - 1 <=> \A i \in 1..n-1 : s[i] \in S
      /\ Ascends(s) => Ascends(t)
  BY DEF Picks
<1>3. \A x : Occurs(x, s, n) <=> Occurs(x, s, n - 1) \/ x = s[n]
  BY <1>1 DEF Occurs
<1>4. CASE s[n] \in S
  <2> DEFINE a == Append(t, s[n])
  <2>1. /\ a \in Seq(Nat) /\ Len(a) = Len(t) + 1
        /\ \A i \in 1..Len(t) : a[i] = t[i]
        /\ a[Len(t) + 1] = s[n]
    BY <1>1, <1>2, AppendIs
  <2> HIDE DEF a
  <2>2. \A x : (\E i \in 1..Len(a) : a[i] = x) <=> (\E i \in 1..Len(t) : t[i] = x) \/ x = s[n]
    <3>1. \A i : i \in 1..Len(a) <=> i \in 1..Len(t) \/ i = Len(t) + 1
      BY <1>2, <2>1
    <3> QED
      BY <2>1, <3>1
  <2>3. \A x : (\E i \in 1..Len(a) : a[i] = x) <=> x \in S /\ Occurs(x, s, n)
    BY <1>2, <1>3, <1>4, <2>2
  <2>4. Len(a) <= n /\ (Len(a) = n <=> \A i \in 1..n : s[i] \in S)
    <3>1. (\A i \in 1..n : s[i] \in S) <=> (\A i \in 1..n-1 : s[i] \in S)
      BY <1>1, <1>4
    <3>2. Len(a) <= n /\ (Len(a) = n <=> Len(t) = n - 1)
      BY <1>1, <1>2, <2>1
    <3> QED
      BY <1>2, <3>1, <3>2
  <2>5. ASSUME Ascends(s) PROVE Ascends(a)
    <3> SUFFICES ASSUME NEW i \in 1..Len(a), NEW j \in 1..Len(a), i < j PROVE a[i] < a[j]
      BY DEF Ascends
    <3>a. Len(t) \in Nat /\ Len(a) = Len(t) + 1
      BY <1>2, <2>1
    <3>b. i \in 1..Len(t) /\ (j \in 1..Len(t) \/ j = Len(t) + 1)
      BY <3>a
    <3>1. i \in 1..Len(t) /\ a[i] = t[i]
      BY <2>1, <3>b
    <3>2. CASE j \in 1..Len(t)
      BY <1>2, <2>1, <2>5, <3>1, <3>2 DEF Ascends
    <3>3. CASE j = Len(t) + 1
      <4>1. Occurs(t[i], s, n - 1)
        BY <1>2, <3>1
      <4>2. PICK m \in 1..n-1 : s[m] = t[i]
        BY <4>1 DEF Occurs
      <4>3. m \in 1..Len(s) /\ m < n
        BY <1>1
      <4>4. s[m] < s[n]
        BY <2>5, <4>3 DEF Ascends
      <4> QED
        BY <2>1, <3>1, <3>3, <4>2, <4>4
    <3> QED
      BY <3>b, <3>2, <3>3
  <2>6. Picks(a, s, S, n)
    BY <2>1, <2>3, <2>4, <2>5 DEF Picks
  <2> QED
    BY <1>4, <2>6 DEF a
<1>5. CASE s[n] \notin S
  <2>1. \A x : (\E i \in 1..Len(t) : t[i] = x) <=> x \in S /\ Occurs(x, s, n)
    BY <1>2, <1>3, <1>5
  <2>2. Len(t) <= n /\ (Len(t) = n <=> \A i \in 1..n : s[i] \in S)
    <3>1. ~ \A i \in 1..n : s[i] \in S
      BY <1>1, <1>5
    <3>2. Len(t) <= n /\ Len(t) # n
      BY <1>1, <1>2
    <3> QED
      BY <3>1, <3>2
  <2> QED
    BY <1>2, <1>5, <2>1, <2>2 DEF Picks
<1> QED
  BY <1>4, <1>5

LEMMA ThoseIs == ASSUME NEW s \in Seq(Nat), NEW S PROVE Picks(Those(s, S), s, S, Len(s))
<1> DEFINE N == Len(s)
           V == Seq(Nat)
           h == [n \in 1..N |-> [v \in V |-> IF s[n] \in S THEN Append(v, s[n]) ELSE v]]
           Solves(f) == f = [n \in 0..N |-> IF n = 0 THEN <<>>
                                            ELSE IF s[n] \in S THEN Append(f[n-1], s[n]) ELSE f[n-1]]
<1>1. Those(s, S) = (CHOOSE f : Solves(f))[N]
  BY DEF Those
<1>2. <<>> \in V /\ N \in Nat /\ \A n \in 1..N : s[n] \in Nat
  OBVIOUS
<1>3. \A n \in 1..N, v \in V : h[n][v] = IF s[n] \in S THEN Append(v, s[n]) ELSE v
  OBVIOUS
<1>4. \A n \in 1..N, v \in V : h[n][v] \in V
  <2> SUFFICES ASSUME NEW n \in 1..N, NEW v \in V PROVE h[n][v] \in V
    OBVIOUS
  <2>1. Append(v, s[n]) \in V
    BY <1>2, AppendIs
  <2> HIDE DEF h, V
  <2> QED
    BY <1>3, <2>1
<1>5. \E f : Solves(f)
  <2>1. PICK f : Recurs(f, N, V, <<>>, h)
    <3> HIDE DEF V, h, N
    <3> QED
      BY <1>2, <1>4, RecursionIs
  <2>2. f \in [0..N -> V] /\ f[0] = <<>> /\ \A n \in 1..N : f[n] = h[n][f[n-1]]
    BY <2>1 DEF Recurs
  <2> HIDE DEF h, V, N
  <2>3. ASSUME NEW n \in 1..N
        PROVE f[n] = IF s[n] \in S THEN Append(f[n-1], s[n]) ELSE f[n-1]
    <3>0. n - 1 \in 0..N
      BY <1>2
    <3>1. f[n-1] \in V
      BY <2>2, <3>0
    <3> QED
      BY <1>3, <2>2, <3>1
  <2>4. ASSUME NEW n \in 0..N
        PROVE f[n] = IF n = 0 THEN <<>>
                     ELSE IF s[n] \in S THEN Append(f[n-1], s[n]) ELSE f[n-1]
    <3>1. CASE n = 0
      BY <2>2, <3>1
    <3>2. CASE n # 0
      <4>1. n \in 1..N
        BY <1>2, <3>2
      <4> QED
        BY <2>3, <3>2, <4>1
    <3> QED
      BY <3>1, <3>2
  <2> QED
    BY <2>2, <2>4
<1>6. PICK f : f = CHOOSE g : Solves(g)
  OBVIOUS
<1>7. Solves(f)
  BY <1>5, <1>6
<1> DEFINE T == {n \in 0..N : ~ Picks(f[n], s, S, n)}
<1>8. 0 \notin T
  <2>1. f[0] = <<>>
    BY <1>2, <1>7
  <2>2. Len(<<>>) = 0 /\ <<>> \in Seq(Nat)
    OBVIOUS
  <2>3. Picks(<<>>, s, S, 0)
    BY <2>2 DEF Picks, Occurs, Ascends
  <2> QED
    BY <2>1, <2>3
<1>9. ASSUME NEW n \in 1..N, n - 1 \notin T PROVE n \notin T
  <2>1. n - 1 \in 0..N /\ n \in 0..N /\ n \in Nat /\ n >= 1 /\ n # 0
    BY <1>2
  <2>2. Picks(f[n-1], s, S, n - 1)
    BY <1>9, <2>1
  <2>3. f[n] = IF s[n] \in S THEN Append(f[n-1], s[n]) ELSE f[n-1]
    BY <1>7, <2>1
  <2>4. Picks(IF s[n] \in S THEN Append(f[n-1], s[n]) ELSE f[n-1], s, S, n)
    BY <2>1, <2>2, PicksOneMore
  <2> QED
    BY <2>3, <2>4
<1>10. T = {}
  <2>1. T \in SUBSET (0..N) /\ \A n \in 1..N : n \in T => n - 1 \in T
    BY <1>9
  <2> HIDE DEF T, N
  <2> QED
    BY <1>2, <1>8, <2>1, NoneFrom
<1>11. N \in 0..N
  BY <1>2
<1>12. Picks(f[N], s, S, N)
  BY <1>10, <1>11
<1> QED
  BY <1>1, <1>6, <1>12

LEMMA LeastIs ==
    ASSUME NEW S \in SUBSET Nat, S # {}
    PROVE Least(S) \in S /\ \A y \in S : Least(S) <= y
<1>1. \E x \in S : \A y \in S : x <= y
  BY LeastIn
<1> QED
  BY <1>1 DEF Least

LEMMA GreatestIs ==
    ASSUME NEW N \in Nat, NEW S \in SUBSET (0..N), S # {}
    PROVE Greatest(S) \in S /\ \A y \in S : y <= Greatest(S)
<1> DEFINE T == {N - x : x \in S}
<1>0. \A x \in S : x \in Nat /\ x <= N /\ N - x \in Nat
  OBVIOUS
<1>1. T \in SUBSET Nat /\ T # {}
  BY <1>0
<1>2. PICK m \in T : \A y \in T : m <= y
  <2> HIDE DEF T
  <2> QED
    BY <1>1, LeastIn
<1>3. PICK x \in S : m = N - x
  BY <1>2
<1>4. \A y \in S : N - x <= N - y
  BY <1>2, <1>3
<1>5. \A y \in S : y <= x
  BY <1>0, <1>4
<1>6. \E k \in S : \A j \in S : k >= j
  BY <1>5
<1> QED
  BY <1>6 DEF Greatest

\* A set of numbers without a gap.
LEMMA IntervalIs ==
    ASSUME NEW N \in Nat, NEW S \in SUBSET (0..N), S # {}, \A i, j \in S : \A k \in i..j : k \in S
    PROVE Cardinality(S) \in Nat /\ S = Least(S) .. Least(S) + Cardinality(S) - 1
<1>1. Least(S) \in S /\ \A y \in S : Least(S) <= y
  <2>1. S \in SUBSET Nat
    OBVIOUS
  <2> QED
    BY <2>1, LeastIs
<1>2. Greatest(S) \in S /\ \A y \in S : y <= Greatest(S)
  BY GreatestIs
<1> DEFINE a == Least(S)
           b == Greatest(S)
<1>3. a \in Nat /\ b \in Nat /\ a <= b
  <2>1. \A x \in S : x \in Nat
    OBVIOUS
  <2> QED
    BY <1>1, <1>2, <2>1
<1> HIDE DEF a, b
<1>4. S = a..b
  <2>1. \A k : k \in S <=> k \in a..b
    <3>1. ASSUME NEW k \in S PROVE k \in a..b
      BY <1>1, <1>2, <1>3 DEF a, b
    <3>2. ASSUME NEW k \in a..b PROVE k \in S
      BY <1>1, <1>2 DEF a, b
    <3> QED
      BY <3>1, <3>2
  <2> QED
    BY <2>1
<1>5. Cardinality(S) = b - a + 1
  BY <1>3, <1>4, FS_Interval
<1> QED
  BY <1>3, <1>4, <1>5 DEF a

-----------------------------------------------------------------------------
(* What a deletion deletes.                                                *)

EditRecords == [at : Nat, rank : {0, 1}, to : Nat, nums : Seq(Int)]
Reaches(d, p) == d.rank = 0 /\ d.at <= p /\ p <= d.to

LEMMA FromIs ==
    ASSUME TwoStreams, TypeOK, Tied, Runs, NEW h \in Heads
    PROVE /\ From(h) \in 1..h
          /\ \A k \in meta[h].leading : From(h) <= comments[k]
          /\ From(h) = h \/ \E k \in meta[h].leading : From(h) = comments[k] /\ comments[k] < h
<1>1. h \in Nat /\ h >= 1
  BY TypeFacts
<1>2. CASE meta[h].leading = {}
  BY <1>1, <1>2 DEF From
<1>3. CASE meta[h].leading # {}
  <2> DEFINE S == meta[h].leading
             k == Least(S)
  <2>1. S \in SUBSET Streams /\ S \in SUBSET Nat
    BY DEF Tied, Streams
  <2>2. k \in S /\ \A y \in S : k <= y
    BY <1>3, <2>1, LeastIs
  <2> HIDE DEF k
  <2>3. /\ comments[k] < h /\ comments[k] \in Nat /\ comments[k] >= 1
        /\ \A y \in S : comments[k] <= comments[y]
    <3>1. comments[k] < h
      BY <2>2 DEF Runs
    <3>2. comments[k] \in Nat /\ comments[k] >= 1
      BY <2>1, <2>2, TextIs
    <3>3. ASSUME NEW y \in S PROVE comments[k] <= comments[y]
      <4>1. k = y \/ k < y
        BY <2>1, <2>2
      <4> QED
        BY <2>1, <2>2, <4>1, <3>2, TextIs
    <3> QED
      BY <3>1, <3>2, <3>3
  <2>4. From(h) = Least({h, comments[k]})
    BY <1>3 DEF From, At, k
  <2>5. From(h) \in {h, comments[k]} /\ \A y \in {h, comments[k]} : From(h) <= y
    <3>1. {h, comments[k]} \in SUBSET Nat /\ {h, comments[k]} # {}
      BY <1>1, <2>3
    <3> QED
      BY <2>4, <3>1, LeastIs
  <2>6. From(h) = comments[k]
    BY <1>1, <2>3, <2>5
  <2> QED
    BY <1>1, <2>2, <2>3, <2>6
<1> QED
  BY <1>2, <1>3

LEMMA ToIs ==
    ASSUME TwoStreams, TypeOK, Tied, Runs, NEW h \in Heads, h <= EndOf(h)
    PROVE /\ To(h) \in EndOf(h)..Len(text)
          /\ \A k \in meta[h].trailing : comments[k] <= To(h)
          /\ \/ To(h) = EndOf(h)
             \/ \E k \in meta[h].trailing : To(h) = comments[k] /\ EndOf(h) < comments[k]
<1>1. /\ h \in Nat /\ h >= 1 /\ EndOf(h) \in Nat /\ Len(text) \in Nat /\ EndOf(h) < Len(text)
      /\ Len(comments) \in Nat
  BY TypeFacts, TextIs DEF EndOf, Tied
<1>2. CASE meta[h].trailing = {}
  BY <1>1, <1>2 DEF To, EndOf
<1>3. CASE meta[h].trailing # {}
  <2> DEFINE S == meta[h].trailing
             k == Greatest(S)
  <2>1. S \in SUBSET Streams /\ S \in SUBSET (0..Len(comments))
    BY DEF Tied, Streams
  <2>2. k \in S /\ \A y \in S : y <= k
    BY <1>1, <1>3, <2>1, GreatestIs
  <2> HIDE DEF k
  <2>3. /\ comments[k] \in 1..Len(text) /\ comments[k] \in Nat
        /\ \A y \in S : comments[y] <= comments[k]
    <3>2. comments[k] \in 1..Len(text) /\ comments[k] \in Nat
      BY <2>1, <2>2, TextIs
    <3>3. ASSUME NEW y \in S PROVE comments[y] <= comments[k]
      <4>1. k = y \/ y < k
        BY <2>1, <2>2 DEF Streams
      <4> QED
        BY <2>1, <2>2, <4>1, <3>2, TextIs
    <3> QED
      BY <3>2, <3>3
  <2>4. To(h) = Greatest({EndOf(h), comments[k]})
    BY <1>3 DEF To, At, k, EndOf
  <2>5. To(h) \in {EndOf(h), comments[k]} /\ \A y \in {EndOf(h), comments[k]} : y <= To(h)
    <3>1. {EndOf(h), comments[k]} \in SUBSET (0..Len(text)) /\ {EndOf(h), comments[k]} # {}
      BY <1>1, <2>3
    <3> QED
      BY <1>1, <2>4, <3>1, GreatestIs
  <2>6. EndOf(h) <= To(h) /\ comments[k] <= To(h) /\ (To(h) = EndOf(h) \/ To(h) = comments[k])
    BY <2>5
  <2>7. To(h) \in EndOf(h)..Len(text)
    BY <1>1, <2>3, <2>6
  <2>8. \A y \in S : comments[y] <= To(h)
    <3> TAKE y \in S
    <3>1. comments[y] <= comments[k] /\ comments[y] \in Nat
      BY <2>1, <2>3, TextIs
    <3> QED
      BY <1>1, <2>3, <2>6, <2>7, <3>1
  <2>9. To(h) = EndOf(h) \/ (To(h) = comments[k] /\ EndOf(h) < comments[k])
    BY <1>1, <2>3, <2>6
  <2> QED
    BY <2>2, <2>7, <2>8, <2>9
<1> QED
  BY <1>2, <1>3

\* No blank line and no token parts an item from the comments that lead it.
LedClosely ==
    \A h \in Heads, k \in Streams :
       k \in meta[h].leading => \A p \in comments[k] .. h - 1 : text[p].tok = "comment"

\* A deletion reaches the item's own lexemes; and no others, where comments stand close.
LEMMA DeletionIs ==
    ASSUME TwoStreams, TypeOK, Tied, Runs, NEW h \in Heads, h <= EndOf(h)
    PROVE /\ Deletion(h) \in Seq(EditRecords)
          /\ \A d \in Range(Deletion(h)) : /\ d.rank = 0 /\ d.at \in 1..Len(text)
                                           /\ d.to \in 1..Len(text) /\ d.at <= d.to
          /\ \A p \in Own(h) : \E d \in Range(Deletion(h)) : Reaches(d, p)
          /\ LedClosely => \A d \in Range(Deletion(h)), p \in Nat : Reaches(d, p) => p \in Own(h)
<1> DEFINE S == meta[h].detached
           a == Least(S)
           c == Cardinality(S)
           first == Del(From(h), To(h))
           apart == [i \in 1..c |-> LET k == a + i - 1 IN Del(At(k), At(k))]
<1>1. /\ h \in Nat /\ h >= 1 /\ EndOf(h) \in Nat /\ Len(text) \in Nat /\ EndOf(h) < Len(text)
      /\ Len(comments) \in Nat
  BY TypeFacts, TextIs DEF EndOf, Tied
<1>2. /\ From(h) \in 1..h
      /\ \A k \in meta[h].leading : From(h) <= comments[k]
      /\ From(h) = h \/ \E k \in meta[h].leading : From(h) = comments[k] /\ comments[k] < h
  BY FromIs
<1>3. /\ To(h) \in EndOf(h)..Len(text)
      /\ \A k \in meta[h].trailing : comments[k] <= To(h)
      /\ \/ To(h) = EndOf(h)
         \/ \E k \in meta[h].trailing : To(h) = comments[k] /\ EndOf(h) < comments[k]
  BY ToIs
<1>4. c \in Nat /\ \A k : k \in S <=> \E i \in 1..c : k = a + i - 1
  <2>1. S \in SUBSET (0..Len(comments)) /\ \A i, j \in S : \A k \in i..j : k \in S
    BY DEF Tied, Streams, Runs
  <2>2. CASE S = {}
    BY <2>2, FS_EmptySet
  <2>3. CASE S # {}
    <3>1. c \in Nat /\ S = a .. a + c - 1
      BY <1>1, <2>1, <2>3, IntervalIs
    <3>2. a \in Nat
      <4>1. S \in SUBSET Nat
        BY <2>1
      <4> QED
        BY <2>3, <4>1, LeastIs
    <3> HIDE DEF a, c, S
    <3>3. ASSUME NEW k \in S PROVE \E i \in 1..c : k = a + i - 1
      <4>1. k \in a .. a + c - 1 /\ k \in Int
        BY <3>1, <3>3
      <4>2. k - a + 1 \in 1..c /\ k = a + (k - a + 1) - 1
        BY <3>1, <3>2, <4>1
      <4> QED
        BY <4>2
    <3>4. ASSUME NEW i \in 1..c PROVE a + i - 1 \in S
      <4>1. a + i - 1 \in a .. a + c - 1
        BY <3>1, <3>2
      <4> QED
        BY <3>1, <4>1
    <3> QED
      BY <3>1, <3>3, <3>4
  <2> QED
    BY <2>2, <2>3
<1>5. \A k \in S : k \in Streams /\ comments[k] \in 1..Len(text) /\ text[comments[k]].tok = "comment"
  BY TextIs DEF Tied
<1>6. /\ S \in SUBSET Streams /\ meta[h].leading \in SUBSET Streams
      /\ meta[h].trailing \in SUBSET Streams
  BY DEF Tied
<1>7. Deletion(h) = <<first>> \o apart
  BY DEF Deletion
<1>8. /\ first \in EditRecords /\ first.rank = 0 /\ first.at = From(h) /\ first.to = To(h)
      /\ \A k \in S : /\ Del(At(k), At(k)) \in EditRecords /\ Del(At(k), At(k)).rank = 0
                      /\ Del(At(k), At(k)).at = comments[k] /\ Del(At(k), At(k)).to = comments[k]
  <2>1. From(h) \in Nat /\ To(h) \in Nat /\ \A k \in S : At(k) \in Nat /\ At(k) = comments[k]
    BY <1>1, <1>2, <1>3, <1>5 DEF At
  <2> QED
    BY <2>1 DEF Del, EditRecords
<1> HIDE DEF S, a, c, first
<1>9. /\ Len(apart) = c /\ apart \in Seq(EditRecords)
      /\ \A i \in 1..c : a + i - 1 \in S /\ apart[i] = Del(At(a + i - 1), At(a + i - 1))
  BY <1>4, <1>8
<1> HIDE DEF apart
<1>10. /\ Deletion(h) \in Seq(EditRecords) /\ Len(Deletion(h)) = c + 1
       /\ Deletion(h)[1] = first
       /\ \A i \in 2..c + 1 : Deletion(h)[i] = apart[i - 1]
  BY <1>4, <1>7, <1>8, <1>9
<1>11. \A d : d \in Range(Deletion(h)) <=> d = first \/ \E k \in S : d = Del(At(k), At(k))
  <2>1. \A d : d \in Range(Deletion(h)) <=> \E i \in 1..c + 1 : Deletion(h)[i] = d
    BY <1>10, RangeIs
  <2>2. ASSUME NEW i \in 1..c + 1, NEW d, Deletion(h)[i] = d
        PROVE d = first \/ \E k \in S : d = Del(At(k), At(k))
    <3>1. CASE i = 1
      BY <1>10, <2>2, <3>1
    <3>2. CASE i # 1
      <4>1. i \in 2..c + 1 /\ i - 1 \in 1..c
        BY <1>4, <3>2
      <4> QED
        BY <1>9, <1>10, <2>2, <4>1
    <3> QED
      BY <3>1, <3>2
  <2>3. \E i \in 1..c + 1 : Deletion(h)[i] = first
    <3>1. 1 \in 1..c + 1
      BY <1>4
    <3> QED
      BY <1>10, <3>1
  <2>4. ASSUME NEW k \in S PROVE \E i \in 1..c + 1 : Deletion(h)[i] = Del(At(k), At(k))
    <3>1. PICK j \in 1..c : k = a + j - 1
      BY <1>4
    <3>2. apart[j] = Del(At(k), At(k))
      BY <1>9, <3>1
    <3>3. j + 1 \in 2..c + 1 /\ j + 1 \in 1..c + 1 /\ (j + 1) - 1 = j
      BY <1>4
    <3> QED
      BY <1>10, <3>2, <3>3
  <2> QED
    BY <2>1, <2>2, <2>3, <2>4
<1>12. \A d \in Range(Deletion(h)) : /\ d.rank = 0 /\ d.at \in 1..Len(text)
                                     /\ d.to \in 1..Len(text) /\ d.at <= d.to
  <2>1. /\ From(h) \in 1..Len(text) /\ To(h) \in 1..Len(text) /\ From(h) <= To(h)
    BY <1>1, <1>2, <1>3
  <2>2. \A k \in S : comments[k] \in 1..Len(text) /\ comments[k] <= comments[k]
    BY <1>5
  <2> QED
    BY <1>8, <1>11, <2>1, <2>2
\* An item's own lexemes.
<1>13. \A p : p \in Own(h) <=> \/ p \in h .. EndOf(h)
                               \/ \E k \in meta[h].leading \cup meta[h].trailing \cup S : p = comments[k]
  BY DEF Own, Notes, At, EndOf, S
<1>14. ASSUME NEW p \in Own(h) PROVE \E d \in Range(Deletion(h)) : Reaches(d, p)
  <2>1. CASE \E k \in S : p = comments[k]
    <3>1. PICK k \in S : p = comments[k]
      BY <2>1
    <3>2. Reaches(Del(At(k), At(k)), p)
      BY <1>5, <1>8, <3>1 DEF Reaches
    <3> QED
      BY <1>11, <3>2
  <2>2. CASE p \in h .. EndOf(h)
    <3>1. From(h) <= p /\ p <= To(h)
      BY <1>1, <1>2, <1>3, <2>2
    <3> QED
      BY <1>8, <1>11, <3>1 DEF Reaches
  <2>3. CASE \E k \in meta[h].leading : p = comments[k]
    <3>1. PICK k \in meta[h].leading : p = comments[k]
      BY <2>3
    <3>2. comments[k] < h /\ comments[k] \in Nat
      BY <1>6, <3>1, TextIs DEF Runs
    <3>3. From(h) <= p /\ p <= To(h)
      BY <1>1, <1>2, <1>3, <3>1, <3>2
    <3> QED
      BY <1>8, <1>11, <3>3 DEF Reaches
  <2>4. CASE \E k \in meta[h].trailing : p = comments[k]
    <3>1. PICK k \in meta[h].trailing : p = comments[k]
      BY <2>4
    <3>2. h < comments[k] /\ comments[k] \in Nat
      BY <1>6, <3>1, TextIs DEF Runs
    <3>3. From(h) <= p /\ p <= To(h)
      BY <1>1, <1>2, <1>3, <3>1, <3>2
    <3> QED
      BY <1>8, <1>11, <3>3 DEF Reaches
  <2> QED
    BY <1>13, <2>1, <2>2, <2>3, <2>4
<1>15. ASSUME LedClosely, NEW d \in Range(Deletion(h)), NEW p \in Nat, Reaches(d, p) PROVE p \in Own(h)
  <2>1. CASE \E k \in S : d = Del(At(k), At(k))
    <3>1. PICK k \in S : d = Del(At(k), At(k))
      BY <2>1
    <3>2. comments[k] <= p /\ p <= comments[k] /\ comments[k] \in Nat
      BY <1>5, <1>8, <1>15, <3>1 DEF Reaches
    <3>3. p = comments[k]
      BY <3>2
    <3> QED
      BY <1>13, <3>3
  <2>2. CASE d = first
    <3>1. From(h) <= p /\ p <= To(h)
      BY <1>8, <1>15, <2>2 DEF Reaches
    <3>2. CASE p < h
      <4>1. PICK k \in meta[h].leading : From(h) = comments[k] /\ comments[k] < h
        BY <1>1, <1>2, <3>1, <3>2
      <4>2. k \in Streams /\ p \in comments[k] .. h - 1 /\ p \in 1..Len(text)
        BY <1>1, <1>2, <1>6, <3>1, <3>2, <4>1
      <4>3. text[p].tok = "comment"
        BY <1>15, <4>2 DEF LedClosely
      <4>4. PICK j \in Streams : comments[j] = p
        BY <4>2, <4>3, TextIs
      <4>5. j = k \/ k < j
        <5>1. ~ j < k
          <6>1. j < k => comments[j] < comments[k]
            BY <4>2, <4>4, TextIs
          <6> QED
            BY <1>1, <1>2, <3>1, <4>1, <4>4, <6>1
        <5> QED
          BY <4>2, <4>4, <5>1 DEF Streams
      <4>6. j \in meta[h].leading
        BY <3>2, <4>1, <4>4, <4>5 DEF Runs
      <4> QED
        BY <1>13, <4>4, <4>6
    <3>3. CASE p > EndOf(h)
      <4>1. PICK k \in meta[h].trailing : To(h) = comments[k] /\ EndOf(h) < comments[k]
        BY <1>1, <1>3, <3>1, <3>3
      <4>2. k \in Streams /\ p \in EndOf(h) + 1 .. comments[k] /\ p \in 1..Len(text)
        BY <1>1, <1>3, <1>6, <3>1, <3>3, <4>1
      <4>3. text[p].tok = "comment"
        BY <4>1, <4>2 DEF Runs
      <4>4. PICK j \in Streams : comments[j] = p
        BY <4>2, <4>3, TextIs
      <4>5. j <= k
        <5>1. ~ k < j
          <6>1. k < j => comments[k] < comments[j]
            BY <4>2, <4>4, TextIs
          <6> QED
            BY <1>1, <1>3, <3>1, <4>1, <4>4, <6>1
        <5> QED
          BY <4>2, <4>4, <5>1 DEF Streams
      <4>6. j \in meta[h].trailing
        BY <3>3, <4>1, <4>4, <4>5 DEF Runs
      <4> QED
        BY <1>13, <4>4, <4>6
    <3>4. CASE h <= p /\ p <= EndOf(h)
      BY <1>1, <1>13, <3>4
    <3> QED
      BY <1>1, <3>2, <3>3, <3>4
  <2> QED
    BY <1>11, <1>15, <2>1, <2>2
<1> QED
  BY <1>10, <1>12, <1>14, <1>15

LEMMA ConcatIs ==
    ASSUME NEW S, NEW s \in Seq(S), NEW t \in Seq(S)
    PROVE /\ s \o t \in Seq(S) /\ Len(s \o t) = Len(s) + Len(t) /\ Len(s) \in Nat /\ Len(t) \in Nat
          /\ \A i \in 1..Len(s) : (s \o t)[i] = s[i]
          /\ \A i \in Len(s) + 1 .. Len(s) + Len(t) : (s \o t)[i] = t[i - Len(s)]
          /\ \A x : x \in Range(s \o t) <=> x \in Range(s) \/ x \in Range(t)
<1> DEFINE u == s \o t
<1>1. /\ u \in Seq(S) /\ Len(u) = Len(s) + Len(t) /\ Len(s) \in Nat /\ Len(t) \in Nat
      /\ \A i \in 1..Len(s) : u[i] = s[i]
      /\ \A i \in Len(s) + 1 .. Len(s) + Len(t) : u[i] = t[i - Len(s)]
  OBVIOUS
<1> HIDE DEF u
<1>2. /\ \A x : x \in Range(u) <=> \E i \in 1..Len(u) : u[i] = x
      /\ \A x : x \in Range(s) <=> \E i \in 1..Len(s) : s[i] = x
      /\ \A x : x \in Range(t) <=> \E i \in 1..Len(t) : t[i] = x
  BY <1>1, RangeIs
<1>3. ASSUME NEW x \in Range(u) PROVE x \in Range(s) \/ x \in Range(t)
  <2>1. PICK i \in 1..Len(u) : u[i] = x
    BY <1>2, <1>3
  <2>2. i \in 1..Len(s) \/ (i \in Len(s) + 1 .. Len(s) + Len(t) /\ i - Len(s) \in 1..Len(t))
    BY <1>1
  <2> QED
    BY <1>1, <1>2, <2>1, <2>2
<1>4. ASSUME NEW x \in Range(s) PROVE x \in Range(u)
  <2>1. PICK i \in 1..Len(s) : s[i] = x
    BY <1>2, <1>4
  <2>2. i \in 1..Len(u)
    BY <1>1
  <2> QED
    BY <1>1, <1>2, <2>1, <2>2
<1>5. ASSUME NEW x \in Range(t) PROVE x \in Range(u)
  <2>1. PICK i \in 1..Len(t) : t[i] = x
    BY <1>2, <1>5
  <2>2. /\ i + Len(s) \in 1..Len(u) /\ i + Len(s) \in Len(s) + 1 .. Len(s) + Len(t)
        /\ (i + Len(s)) - Len(s) = i
    BY <1>1
  <2> QED
    BY <1>1, <1>2, <2>1, <2>2
<1> QED
  BY <1>1, <1>3, <1>4, <1>5 DEF u

\* e has the deletions of the first n of s.
Joins(e, s, n) ==
    /\ e \in Seq(EditRecords)
    /\ \A d : d \in Range(e) <=> \E i \in 1..n : d \in Range(Deletion(s[i]))

LEMMA DeletionsAre ==
    ASSUME TwoStreams, TypeOK, Tied, Runs, NEW s \in Seq(Nat),
           \A i \in 1..Len(s) : s[i] \in Heads /\ s[i] <= EndOf(s[i])
    PROVE Joins(Deletions(s), s, Len(s))
<1> DEFINE N == Len(s)
           V == Seq(EditRecords)
           h == [n \in 1..N |-> [v \in V |-> v \o Deletion(s[n])]]
           Solves(f) == f = [n \in 0..N |-> IF n = 0 THEN <<>> ELSE f[n-1] \o Deletion(s[n])]
<1>1. Deletions(s) = (CHOOSE f : Solves(f))[N]
  BY DEF Deletions
<1>2. <<>> \in V /\ N \in Nat
  OBVIOUS
<1>a. \A n \in 1..N : Deletion(s[n]) \in V
  BY DeletionIs
<1>3. \A n \in 1..N, v \in V : h[n][v] = v \o Deletion(s[n])
  OBVIOUS
<1>4. \A n \in 1..N, v \in V : h[n][v] \in V
  <2> SUFFICES ASSUME NEW n \in 1..N, NEW v \in V PROVE h[n][v] \in V
    OBVIOUS
  <2>1. v \o Deletion(s[n]) \in V
    BY <1>a, ConcatIs
  <2> HIDE DEF h, V
  <2> QED
    BY <1>3, <2>1
<1>5. \E f : Solves(f)
  <2>1. PICK f : Recurs(f, N, V, <<>>, h)
    <3> HIDE DEF V, h, N
    <3> QED
      BY <1>2, <1>4, RecursionIs
  <2>2. f \in [0..N -> V] /\ f[0] = <<>> /\ \A n \in 1..N : f[n] = h[n][f[n-1]]
    BY <2>1 DEF Recurs
  <2> HIDE DEF h, V, N
  <2>3. ASSUME NEW n \in 1..N
        PROVE f[n] = f[n-1] \o Deletion(s[n])
    <3>0. n - 1 \in 0..N
      BY <1>2
    <3>1. f[n-1] \in V
      BY <2>2, <3>0
    <3> QED
      BY <1>3, <2>2, <3>1
  <2>4. ASSUME NEW n \in 0..N
        PROVE f[n] = IF n = 0 THEN <<>> ELSE f[n-1] \o Deletion(s[n])
    <3>1. CASE n = 0
      BY <2>2, <3>1
    <3>2. CASE n # 0
      <4>1. n \in 1..N
        BY <1>2, <3>2
      <4> QED
        BY <2>3, <3>2, <4>1
    <3> QED
      BY <3>1, <3>2
  <2> QED
    BY <2>2, <2>4
<1>6. PICK f : f = CHOOSE g : Solves(g)
  OBVIOUS
<1>7. Solves(f)
  BY <1>5, <1>6
<1> DEFINE T == {n \in 0..N : ~ Joins(f[n], s, n)}
<1>8. 0 \notin T
  <2>1. f[0] = <<>>
    BY <1>2, <1>7
  <2>2. Joins(<<>>, s, 0)
    <3>1. <<>> \in Seq(EditRecords) /\ Range(<<>>) = {}
      BY DEF Range
    <3> QED
      BY <3>1 DEF Joins
  <2> QED
    BY <2>1, <2>2
<1>9. ASSUME NEW n \in 1..N, n - 1 \notin T PROVE n \notin T
  <2>1. n - 1 \in 0..N /\ n \in 0..N /\ n \in Nat /\ n >= 1 /\ n # 0
        /\ \A i : i \in 1..n <=> i \in 1..n-1 \/ i = n
    BY <1>2
  <2>2. Joins(f[n-1], s, n - 1)
    BY <1>9, <2>1
  <2>3. f[n] = f[n-1] \o Deletion(s[n])
    BY <1>7, <2>1
  <2>4. f[n-1] \in Seq(EditRecords) /\ Deletion(s[n]) \in Seq(EditRecords)
    BY <1>a, <2>2 DEF Joins
  <2>5. /\ f[n] \in Seq(EditRecords)
        /\ \A d : d \in Range(f[n]) <=> d \in Range(f[n-1]) \/ d \in Range(Deletion(s[n]))
    BY <2>3, <2>4, ConcatIs
  <2>6. Joins(f[n], s, n)
    BY <2>1, <2>2, <2>5 DEF Joins
  <2> QED
    BY <2>6
<1>10. T = {}
  <2>1. T \in SUBSET (0..N) /\ \A n \in 1..N : n \in T => n - 1 \in T
    BY <1>9
  <2> HIDE DEF T, N
  <2> QED
    BY <1>2, <1>8, <2>1, NoneFrom
<1>11. N \in 0..N
  BY <1>2
<1>12. Joins(f[N], s, N)
  BY <1>10, <1>11
<1> QED
  BY <1>1, <1>6, <1>12

LEMMA ConcatOfNumbers ==
    ASSUME NEW s \in Seq(Int), NEW t \in Seq(Int)
    PROVE /\ s \o t \in Seq(Int) /\ Len(s \o t) = Len(s) + Len(t) /\ Len(s) \in Nat /\ Len(t) \in Nat
          /\ \A i \in 1..Len(s) : (s \o t)[i] = s[i]
          /\ \A i \in Len(s) + 1 .. Len(s) + Len(t) : (s \o t)[i] = t[i - Len(s)]
  OBVIOUS

LEMMA InsertedIs ==
    ASSUME NEW s \in Seq(Int), Rises(s), NEW x \in Int
    PROVE \E k \in 0..Len(s) :
            /\ Inserted(s, x) \in Seq(Int) /\ Len(Inserted(s, x)) = Len(s) + 1 /\ Len(s) \in Nat
            /\ \A i \in 1..k : Inserted(s, x)[i] = s[i] /\ s[i] <= x
            /\ Inserted(s, x)[k + 1] = x
            /\ \A i \in k + 2 .. Len(s) + 1 : Inserted(s, x)[i] = s[i - 1] /\ x < s[i - 1]
<1> DEFINE N == Len(s)
           Fits(k) == /\ \A i \in 1..k : s[i] <= x
                      /\ \A i \in k+1..Len(s) : x < s[i]
           T == {k \in 0..N : \A i \in k+1..N : x < s[i]}
<1>1. N \in Nat /\ \A i \in 1..N : s[i] \in Int
  OBVIOUS
<1>2. \E k \in 0..N : Fits(k)
  <2>1. T \in SUBSET Nat /\ N \in T
    BY <1>1
  <2>2. PICK k \in T : \A y \in T : k <= y
    <3> HIDE DEF T
    <3> QED
      BY <2>1, LeastIn
  <2>3. ASSUME NEW i \in 1..k PROVE s[i] <= x
    <3>1. k \in 1..N /\ i \in 1..N /\ k - 1 \in 0..N
      BY <1>1
    <3>2. k - 1 \notin T
      BY <2>2, <3>1, SMTT(20)
    <3>3. PICK j \in k..N : ~ x < s[j]
      BY <3>1, <3>2
    <3>4. j = k
      <4>1. j \in k+1..N => x < s[j]
        OBVIOUS
      <4> QED
        BY <3>3, <4>1
    <3>5. s[i] <= s[k]
      <4>1. i = k \/ i < k
        BY <3>1
      <4> QED
        BY <1>1, <3>1, <4>1 DEF Rises
    <3> QED
      BY <1>1, <3>1, <3>3, <3>4, <3>5
  <2> QED
    BY <2>2, <2>3
<1>3. PICK k : k = CHOOSE m \in 0..N : Fits(m)
  OBVIOUS
<1>4. k \in 0..N /\ Fits(k)
  <2> HIDE DEF Fits, N
  <2> QED
    BY <1>2, <1>3
<1>5. Inserted(s, x) = SubSeq(s, 1, k) \o <<x>> \o SubSeq(s, k + 1, Len(s))
  BY <1>3, Zenon DEF Inserted
<1> DEFINE a == SubSeq(s, 1, k)
           b == SubSeq(s, k + 1, Len(s))
<1>6. /\ a \in Seq(Int) /\ Len(a) = k /\ \A i \in 1..k : a[i] = s[i]
  BY <1>1, <1>4
<1>7. /\ b \in Seq(Int) /\ Len(b) = N - k /\ \A i \in 1..N - k : b[i] = s[k + i]
  BY <1>1, <1>4
<1> DEFINE t == (a \o <<x>>) \o b
<1> HIDE DEF a, b
<1>8. /\ a \o <<x>> \in Seq(Int) /\ Len(a \o <<x>>) = k + 1
      /\ \A i \in 1..k : (a \o <<x>>)[i] = s[i]
      /\ (a \o <<x>>)[k + 1] = x
  BY <1>4, <1>6
<1>9. /\ t \in Seq(Int) /\ Len(t) = N + 1
      /\ \A i \in 1..k + 1 : t[i] = (a \o <<x>>)[i]
      /\ \A i \in k + 2 .. N + 1 : t[i] = b[i - (k + 1)]
  <2> DEFINE c == a \o <<x>>
  <2>1. /\ c \in Seq(Int) /\ Len(c) = k + 1 /\ k + 1 \in Nat
        /\ b \in Seq(Int) /\ Len(b) = N - k /\ N - k \in Nat
    BY <1>1, <1>4, <1>7, <1>8
  <2> HIDE DEF c, b, a, N
  <2>2. /\ c \o b \in Seq(Int) /\ Len(c \o b) = Len(c) + Len(b)
        /\ \A i \in 1..Len(c) : (c \o b)[i] = c[i]
        /\ \A i \in Len(c) + 1 .. Len(c) + Len(b) : (c \o b)[i] = b[i - Len(c)]
    <3>1. c \in Seq(Int) /\ b \in Seq(Int)
      BY <2>1
    <3> QED
      BY <3>1, ConcatOfNumbers
  <2>3. Len(c) + Len(b) = N + 1 /\ Len(c) = k + 1
    BY <1>1, <1>4, <2>1
  <2>4. k + 1 + 1 = k + 2 /\ k \in Nat
    BY <1>4
  <2>5. \A i \in k + 2 .. N + 1 : (c \o b)[i] = b[i - (k + 1)]
    BY <2>2, <2>3, <2>4
  <2> QED
    BY <2>2, <2>3, <2>5 DEF t, c
<1>10. \A i \in k + 2 .. N + 1 : t[i] = s[i - 1] /\ x < s[i - 1]
  <2> TAKE i \in k + 2 .. N + 1
  <2>1. i - (k + 1) \in 1..N - k /\ k + (i - (k + 1)) = i - 1 /\ i - 1 \in k + 1 .. N
    BY <1>1, <1>4
  <2> HIDE DEF t
  <2> QED
    BY <1>4, <1>7, <1>9, <2>1
<1>11. t[k + 1] = x /\ \A i \in 1..k : t[i] = s[i] /\ s[i] <= x
  <2>1. k + 1 \in 1..k + 1 /\ \A i \in 1..k : i \in 1..k + 1
    BY <1>1, <1>4
  <2> HIDE DEF t
  <2> QED
    BY <1>4, <1>8, <1>9, <2>1
<1>12. Inserted(s, x) = t
  BY <1>5 DEF a, b
<1> HIDE DEF t
<1> QED
  BY <1>1, <1>4, <1>9, <1>10, <1>11, <1>12

\* t is the first n numbers of s, sorted.
Distinct(s, n) == \A i, j \in 1..n : i # j => s[i] # s[j]
Sorts(t, s, n) ==
    /\ t \in Seq(Int) /\ Len(t) = n
    /\ \A x : (\E i \in 1..n : t[i] = x) <=> Occurs(x, s, n)
    /\ Rises(t)
    /\ Distinct(s, n) => Ascends(t)

LEMMA SortsOneMore ==
    ASSUME NEW s \in Seq(Int), NEW n \in 1..Len(s), NEW t, Sorts(t, s, n - 1)
    PROVE Sorts(Inserted(t, s[n]), s, n)
<1> DEFINE u == Inserted(t, s[n])
<1>1. /\ n \in Nat /\ n - 1 \in Nat /\ s[n] \in Int
      /\ \A i : i \in 1..n <=> i \in 1..n-1 \/ i = n
  OBVIOUS
<1>2. t \in Seq(Int) /\ Len(t) = n - 1 /\ Rises(t) /\ \A i \in 1..n-1 : t[i] \in Int
  BY DEF Sorts
<1>3. PICK k \in 0..n-1 :
        /\ u \in Seq(Int) /\ Len(u) = n
        /\ \A i \in 1..k : u[i] = t[i] /\ t[i] <= s[n]
        /\ u[k + 1] = s[n]
        /\ \A i \in k + 2 .. n : u[i] = t[i - 1] /\ s[n] < t[i - 1]
  <2>1. PICK k \in 0..Len(t) :
            /\ u \in Seq(Int) /\ Len(u) = Len(t) + 1 /\ Len(t) \in Nat
            /\ \A i \in 1..k : u[i] = t[i] /\ t[i] <= s[n]
            /\ u[k + 1] = s[n]
            /\ \A i \in k + 2 .. Len(t) + 1 : u[i] = t[i - 1] /\ s[n] < t[i - 1]
    BY <1>1, <1>2, InsertedIs
  <2>2. Len(t) + 1 = n
    BY <1>1, <1>2
  <2> QED
    BY <1>2, <2>1, <2>2
<1> HIDE DEF u
<1>4. \A i \in 1..n : i \in 1..k \/ i = k + 1 \/ (i \in k + 2 .. n /\ i - 1 \in 1..n-1 /\ i - 1 > k)
  BY <1>1
<1>5. Rises(u)
  <2> SUFFICES ASSUME NEW i \in 1..n, NEW j \in 1..n, i < j PROVE u[i] <= u[j]
    BY <1>3 DEF Rises
  <2>0. \A l, m \in 1..n-1 : l < m => t[l] <= t[m]
    BY <1>2 DEF Rises
  <2>1. CASE i \in 1..k
    <3>1. i \in 1..n-1 /\ u[i] = t[i] /\ t[i] <= s[n]
      BY <1>1, <1>3, <2>1
    <3>2. CASE j \in 1..k
      <4>1. j \in 1..n-1
        BY <1>1, <3>2
      <4> QED
        BY <1>3, <2>0, <3>1, <3>2, <4>1
    <3>3. CASE j = k + 1
      BY <1>3, <3>1, <3>3
    <3>4. CASE j \in k + 2 .. n /\ j - 1 \in 1..n-1 /\ j - 1 > k
      <4>1. i < j - 1
        BY <1>1, <2>1, <3>4
      <4> QED
        BY <1>3, <2>0, <3>1, <3>4, <4>1
    <3> QED
      BY <1>4, <3>2, <3>3, <3>4
  <2>2. CASE i = k + 1
    <3>1. j \in k + 2 .. n
      BY <1>1, <2>2
    <3>2. j - 1 \in 1..n-1
      BY <1>1, <3>1
    <3>3. t[j - 1] \in Int /\ s[n] \in Int
      BY <1>1, <1>2, <3>2
    <3>4. u[j] = t[j - 1] /\ s[n] < t[j - 1] /\ u[i] = s[n]
      BY <1>3, <2>2, <3>1
    <3> QED
      BY <3>3, <3>4
  <2>3. CASE i \in k + 2 .. n /\ i - 1 \in 1..n-1 /\ i - 1 > k
    <3>1. j \in k + 2 .. n /\ j - 1 \in 1..n-1 /\ i - 1 < j - 1
      BY <1>1, <2>3
    <3> QED
      BY <1>3, <2>0, <2>3, <3>1
  <2> QED
    BY <1>4, <2>1, <2>2, <2>3
<1>6. \A x : (\E i \in 1..n : u[i] = x) <=> Occurs(x, s, n)
  <2>0. \A x : Occurs(x, s, n) <=> Occurs(x, s, n - 1) \/ x = s[n]
    BY <1>1 DEF Occurs
  <2>a. \A x : (\E i \in 1..n-1 : t[i] = x) <=> Occurs(x, s, n - 1)
    BY DEF Sorts
  <2>1. ASSUME NEW i \in 1..n PROVE u[i] = s[n] \/ \E j \in 1..n-1 : t[j] = u[i]
    <3>1. CASE i \in 1..k
      <4>1. i \in 1..n-1
        BY <1>1, <3>1
      <4> QED
        BY <1>3, <3>1, <4>1
    <3> QED
      BY <1>3, <1>4, <3>1
  <2>2. \E i \in 1..n : u[i] = s[n]
    <3>1. k + 1 \in 1..n
      BY <1>1
    <3> QED
      BY <1>3, <3>1
  <2>3. ASSUME NEW j \in 1..n-1 PROVE \E i \in 1..n : u[i] = t[j]
    <3>1. CASE j <= k
      <4>1. j \in 1..k /\ j \in 1..n
        BY <1>1, <3>1
      <4> QED
        BY <1>3, <4>1
    <3>2. CASE j > k
      <4>1. j + 1 \in k + 2 .. n /\ j + 1 \in 1..n /\ (j + 1) - 1 = j
        BY <1>1, <3>2
      <4> QED
        BY <1>3, <4>1
    <3> QED
      BY <1>1, <3>1, <3>2
  <2>4. ASSUME NEW x, Occurs(x, s, n) PROVE \E i \in 1..n : u[i] = x
    <3>1. CASE x = s[n]
      BY <2>2, <3>1
    <3>2. CASE Occurs(x, s, n - 1)
      <4>1. PICK j \in 1..n-1 : t[j] = x
        BY <2>a, <3>2
      <4> QED
        BY <2>3, <4>1
    <3> QED
      BY <2>0, <2>4, <3>1, <3>2
  <2>5. ASSUME NEW x, NEW i \in 1..n, u[i] = x PROVE Occurs(x, s, n)
    <3>1. CASE x = s[n]
      BY <2>0, <3>1
    <3>2. CASE x # s[n]
      <4>1. \E j \in 1..n-1 : t[j] = x
        BY <2>1, <2>5, <3>2
      <4> QED
        BY <2>0, <2>a, <4>1
    <3> QED
      BY <3>1, <3>2
  <2> QED
    BY <2>4, <2>5
<1>7. ASSUME Distinct(s, n) PROVE Ascends(u)
  <2> SUFFICES ASSUME NEW i \in 1..n, NEW j \in 1..n, i < j PROVE u[i] < u[j]
    BY <1>3 DEF Ascends
  <2>a. \A m \in 1..n-1 : t[m] # s[n]
    <3> TAKE m \in 1..n-1
    <3>1. Occurs(t[m], s, n - 1)
      BY DEF Sorts
    <3>2. PICK l \in 1..n-1 : s[l] = t[m]
      BY <3>1 DEF Occurs
    <3>3. l \in 1..n /\ n \in 1..n /\ l # n
      BY <1>1
    <3> QED
      BY <1>7, <3>2, <3>3 DEF Distinct
  <2>0. \A l, m \in 1..n-1 : l < m => t[l] < t[m]
    <3>1. Distinct(s, n - 1)
      BY <1>1, <1>7 DEF Distinct
    <3> QED
      BY <1>2, <3>1 DEF Sorts, Ascends
  <2>1. CASE i \in 1..k
    <3>0. i \in 1..n-1
      BY <1>1, <2>1
    <3>1. i \in 1..n-1 /\ u[i] = t[i] /\ t[i] <= s[n] /\ t[i] # s[n] /\ t[i] \in Int
      <4>1. u[i] = t[i] /\ t[i] <= s[n]
        BY <1>3, <2>1
      <4>2. t[i] # s[n] /\ t[i] \in Int
        BY <1>2, <2>a, <3>0
      <4> QED
        BY <3>0, <4>1, <4>2
    <3>2. CASE j \in 1..k
      <4>1. j \in 1..n-1
        BY <1>1, <3>2
      <4> QED
        BY <1>3, <2>0, <3>1, <3>2, <4>1
    <3>3. CASE j = k + 1
      BY <1>1, <1>3, <3>1, <3>3
    <3>4. CASE j \in k + 2 .. n /\ j - 1 \in 1..n-1 /\ j - 1 > k
      <4>1. i < j - 1
        BY <1>1, <2>1, <3>4
      <4> QED
        BY <1>3, <2>0, <3>1, <3>4, <4>1
    <3> QED
      BY <1>4, <3>2, <3>3, <3>4
  <2>2. CASE i = k + 1
    <3>1. j \in k + 2 .. n
      BY <1>1, <2>2
    <3> QED
      BY <1>3, <2>2, <3>1
  <2>3. CASE i \in k + 2 .. n /\ i - 1 \in 1..n-1 /\ i - 1 > k
    <3>1. j \in k + 2 .. n /\ j - 1 \in 1..n-1 /\ i - 1 < j - 1
      BY <1>1, <2>3
    <3> QED
      BY <1>3, <2>0, <2>3, <3>1
  <2> QED
    BY <1>4, <2>1, <2>2, <2>3
<1> QED
  BY <1>3, <1>5, <1>6, <1>7 DEF Sorts, u

LEMMA SortedIs == ASSUME NEW s \in Seq(Int) PROVE Sorts(Sorted(s), s, Len(s))
<1> DEFINE N == Len(s)
           V == {v \in Seq(Int) : Rises(v)}
           h == [n \in 1..N |-> [v \in V |-> Inserted(v, s[n])]]
           Solves(f) == f = [n \in 0..N |-> IF n = 0 THEN <<>> ELSE Inserted(f[n-1], s[n])]
<1>1. Sorted(s) = (CHOOSE f : Solves(f))[N]
  BY DEF Sorted
<1>2. <<>> \in V /\ N \in Nat /\ \A n \in 1..N : s[n] \in Int
  BY DEF Rises
<1>3. \A n \in 1..N, v \in V : h[n][v] = Inserted(v, s[n])
  OBVIOUS
<1>4. \A n \in 1..N, v \in V : h[n][v] \in V
  <2> SUFFICES ASSUME NEW n \in 1..N, NEW v \in V PROVE Inserted(v, s[n]) \in V
    BY <1>3
  <2> DEFINE one == [i \in 1..Len(v) + 1 |-> IF i = Len(v) + 1 THEN s[n] ELSE v[i]]
  <2>1. /\ one \in Seq(Int) /\ Len(one) = Len(v) + 1 /\ Len(v) \in Nat
        /\ one[Len(v) + 1] = s[n] /\ \A i \in 1..Len(v) : one[i] = v[i]
    BY <1>2
  <2> HIDE DEF one, N
  <2>2. Len(v) + 1 \in 1..Len(one) /\ (Len(v) + 1) - 1 = Len(v)
    BY <2>1
  <2>a. v \in Seq(Int) /\ Rises(v)
    OBVIOUS
  <2> HIDE DEF V
  <2>3. PICK k \in 0..Len(v) :
            /\ Inserted(v, s[n]) \in Seq(Int) /\ Len(Inserted(v, s[n])) = Len(v) + 1
            /\ \A i \in 1..k : Inserted(v, s[n])[i] = v[i] /\ v[i] <= s[n]
            /\ Inserted(v, s[n])[k + 1] = s[n]
            /\ \A i \in k + 2 .. Len(v) + 1 : Inserted(v, s[n])[i] = v[i - 1] /\ s[n] < v[i - 1]
    BY <1>2, <2>a, InsertedIs
  <2>4. Rises(Inserted(v, s[n]))
    <3> DEFINE u == Inserted(v, s[n])
    <3> HIDE DEF u
    <3>1. ASSUME NEW i \in 1..Len(v) + 1, NEW j \in 1..Len(v) + 1, i < j PROVE u[i] <= u[j]
      <4>1. Len(v) \in Nat /\ \A m \in 1..Len(v) : v[m] \in Int
        BY <2>a
      <4>2. \A l, m \in 1..Len(v) : l < m => v[l] <= v[m]
        BY <2>a DEF Rises
      <4>3. CASE j <= k
        <5>1. i \in 1..k /\ j \in 1..k /\ i \in 1..Len(v) /\ j \in 1..Len(v)
          BY <3>1, <4>1, <4>3
        <5> QED
          BY <2>3, <3>1, <4>2, <5>1 DEF u
      <4>4. CASE i <= k /\ j = k + 1
        <5>1. i \in 1..k
          BY <4>1, <4>4
        <5> QED
          BY <2>3, <4>4, <5>1 DEF u
      <4>5. CASE i <= k /\ j > k + 1
        <5>1. i \in 1..k /\ j \in k + 2 .. Len(v) + 1 /\ i \in 1..Len(v) /\ j - 1 \in 1..Len(v) /\ i < j - 1
          BY <4>1, <4>5
        <5> QED
          BY <2>3, <4>2, <5>1 DEF u
      <4>6. CASE i = k + 1
        <5>1. j \in k + 2 .. Len(v) + 1 /\ j - 1 \in 1..Len(v)
          BY <3>1, <4>1, <4>6
        <5>2. v[j - 1] \in Int /\ s[n] \in Int
          BY <1>2, <4>1, <5>1
        <5>3. u[j] = v[j - 1] /\ s[n] < v[j - 1] /\ u[i] = s[n]
          BY <2>3, <4>6, <5>1 DEF u
        <5> QED
          BY <5>2, <5>3
      <4>7. CASE i > k + 1
        <5>1. /\ i \in k + 2 .. Len(v) + 1 /\ j \in k + 2 .. Len(v) + 1
              /\ i - 1 \in 1..Len(v) /\ j - 1 \in 1..Len(v) /\ i - 1 < j - 1
          BY <3>1, <4>1, <4>7
        <5> QED
          BY <2>3, <4>2, <5>1 DEF u
      <4> QED
        BY <3>1, <4>1, <4>3, <4>4, <4>5, <4>6, <4>7
    <3> QED
      BY <2>3, <3>1 DEF u, Rises
  <2> QED
    BY <2>3, <2>4 DEF V
<1>5. \E f : Solves(f)
  <2>1. PICK f : Recurs(f, N, V, <<>>, h)
    <3> HIDE DEF V, h, N
    <3> QED
      BY <1>2, <1>4, RecursionIs
  <2>2. f \in [0..N -> V] /\ f[0] = <<>> /\ \A n \in 1..N : f[n] = h[n][f[n-1]]
    BY <2>1 DEF Recurs
  <2> HIDE DEF h, V, N
  <2>3. ASSUME NEW n \in 1..N
        PROVE f[n] = Inserted(f[n-1], s[n])
    <3>0. n - 1 \in 0..N
      BY <1>2
    <3>1. f[n-1] \in V
      BY <2>2, <3>0
    <3> QED
      BY <1>3, <2>2, <3>1
  <2>4. ASSUME NEW n \in 0..N
        PROVE f[n] = IF n = 0 THEN <<>> ELSE Inserted(f[n-1], s[n])
    <3>1. CASE n = 0
      BY <2>2, <3>1
    <3>2. CASE n # 0
      <4>1. n \in 1..N
        BY <1>2, <3>2
      <4> QED
        BY <2>3, <3>2, <4>1
    <3> QED
      BY <3>1, <3>2
  <2> QED
    BY <2>2, <2>4
<1>6. PICK f : f = CHOOSE g : Solves(g)
  OBVIOUS
<1>7. Solves(f)
  BY <1>5, <1>6
<1> DEFINE T == {n \in 0..N : ~ Sorts(f[n], s, n)}
<1>8. 0 \notin T
  <2>1. f[0] = <<>>
    BY <1>2, <1>7
  <2>2. Sorts(<<>>, s, 0)
    BY DEF Sorts, Occurs, Rises, Ascends
  <2> QED
    BY <2>1, <2>2
<1>9. ASSUME NEW n \in 1..N, n - 1 \notin T PROVE n \notin T
  <2>1. n - 1 \in 0..N /\ n \in 0..N /\ n \in Nat /\ n >= 1 /\ n # 0
    BY <1>2
  <2>2. Sorts(f[n-1], s, n - 1)
    BY <1>9, <2>1
  <2>3. f[n] = Inserted(f[n-1], s[n])
    BY <1>7, <2>1
  <2> QED
    BY <2>2, <2>3, SortsOneMore
<1>10. T = {}
  <2>1. T \in SUBSET (0..N) /\ \A n \in 1..N : n \in T => n - 1 \in T
    BY <1>9
  <2> HIDE DEF T, N
  <2> QED
    BY <1>2, <1>8, <2>1, NoneFrom
<1>11. N \in 0..N
  BY <1>2
<1>12. Sorts(f[N], s, N)
  BY <1>10, <1>11
<1> QED
  BY <1>1, <1>6, <1>12

-----------------------------------------------------------------------------
(* The tree of a parsed text.                                              *)

\* The items that are definitions or parts of one, not of the value of an option.
Things == {h \in Heads : Kind(h) # "text"}
Holders == Things \cup {Root}

\* What lists items are blocks; where the items of one stand in it.
LEMMA ItemsAre ==
    ASSUME TwoStreams, Core, Tied, Nested, NEW o \in Heads \cup {Root}
    PROVE /\ Items(o) \in Seq(Nat)
          /\ \A i \in 1..Len(Items(o)) :
                /\ Items(o)[i] \in Heads /\ Ended(Items(o)[i]) /\ o < Items(o)[i]
                /\ o \in Heads /\ Ended(o) =>
                     /\ Items(o)[i] < EndOf(o)
                     /\ \A k \in Marks(Items(o)[i]) : o < comments[k] /\ comments[k] < EndOf(o)
          /\ \A i, j \in 1..Len(Items(o)) : i < j => EndOf(Items(o)[i]) < Items(o)[j]
          /\ Items(o) # <<>> => \E b \in Blocks \cup {Root} :
                /\ Items(o) = block[b].items
                /\ b = (IF o = Root THEN Root ELSE Opening(o))
<1>0. Root \notin Heads /\ o \in Nat /\ Root = 0
  BY TypeFacts DEF Root, Heads, Core
<1>1. CASE Items(o) = <<>>
  BY <1>1
<1>2. ASSUME NEW b \in Blocks \cup {Root}, Items(o) = block[b].items,
             b = (IF o = Root THEN Root ELSE Opening(o)), o # Root => o \in WithBlock,
             o <= b, b \in Nat
      PROVE /\ Items(o) \in Seq(Nat)
            /\ \A i \in 1..Len(Items(o)) :
                  /\ Items(o)[i] \in Heads /\ Ended(Items(o)[i]) /\ o < Items(o)[i]
                  /\ o \in Heads /\ Ended(o) =>
                       /\ Items(o)[i] < EndOf(o)
                       /\ \A k \in Marks(Items(o)[i]) : o < comments[k] /\ comments[k] < EndOf(o)
            /\ \A i, j \in 1..Len(Items(o)) : i < j => EndOf(Items(o)[i]) < Items(o)[j]
  <2>1. block[b].items \in Seq(Nat)
    BY TypeFacts DEF Core
  <2> DEFINE s == block[b].items
  <2>2. Len(s) \in Nat /\ \A i \in 1..Len(s) : i \in Nat /\ s[i] \in Nat /\ Ended(s[i]) /\ s[i] \in Heads
    BY <2>1 DEF Tied, Ended
  <2>3. \A i \in 1..Len(s) : o < s[i]
    <3>1. \A i \in 1..Len(s) : b < s[i]
      BY <2>2 DEF Nested, Rows
    <3> HIDE DEF s
    <3> QED
      BY <1>0, <1>2, <2>2, <3>1
  <2>4. \A i, j \in 1..Len(s) : i < j => EndOf(s[i]) < s[j]
    BY <2>2 DEF Nested, Rows
  <2>5. ASSUME o \in Heads, Ended(o), NEW i \in 1..Len(s)
        PROVE /\ s[i] < EndOf(o)
              /\ \A k \in Marks(s[i]) : o < comments[k] /\ comments[k] < EndOf(o)
    <3>1. o \in WithBlock /\ b = Opening(o) /\ i \in Nat
      BY <1>0, <1>2, <2>2, <2>5
    <3> QED
      BY <2>5, <3>1 DEF Nested, Inside
  <2> QED
    BY <1>2, <2>1, <2>2, <2>3, <2>4, <2>5
<1>3. CASE o = Root
  <2>1. Items(o) = block[Root].items
    BY <1>3 DEF Items, Block
  <2> QED
    BY <1>0, <1>2, <1>3, <2>1
<1>4. CASE o # Root /\ o \in WithBlock
  <2>1. Opening(o) \in Blocks /\ o < Opening(o) /\ Opening(o) \in Nat
    BY <1>4, OpeningIs, OpeningFollows, TextIs DEF WithBlock, Blocks
  <2>2. Items(o) = block[Opening(o)].items
    BY <1>4 DEF Items, Block
  <2> QED
    BY <1>0, <1>2, <1>4, <2>1, <2>2
<1>5. CASE o # Root /\ o \notin WithBlock
  <2>1. Items(o) = <<>>
    BY <1>5 DEF Items, Block, EmptyBlock
  <2> QED
    BY <1>1, <2>1
<1> QED
  BY <1>3, <1>4, <1>5

\* What there is to know of a parsed text: items have one place, in order, and with
\* the comments attached to them they stand in the item that has them.
Tree ==
    /\ Len(text) \in Nat /\ Root \notin Heads
    /\ \A h \in Things : /\ h \in Nat /\ h >= 1 /\ EndOf(h) \in Nat
                         /\ h < EndOf(h) /\ EndOf(h) < Len(text)
                         /\ text[h].tok # "comment" /\ text[EndOf(h)].tok \notin {"comment", "head"}
    /\ \A h \in Things : \A p \in Notes(h) : text[p].tok = "comment"
    /\ \A h \in Things : \E o \in Holders : IsIn(h, o)
    /\ \A h \in Things : \A o, p \in Holders : IsIn(h, o) /\ IsIn(h, p) => o = p
    /\ \A h \in Things : \A o \in Heads \cup {Root} :
          IsIn(h, o) => o \in Holders /\ o \in Nat /\ o < h /\ Kind(h) \in ReadIn(o)
    /\ \A h \in Things : \A o \in Things :
          IsIn(h, o) => EndOf(h) < EndOf(o) /\ \A p \in Own(h) : p \in o .. EndOf(o)
    /\ \A g, h \in Things : g < h => EndOf(g) < h \/ EndOf(h) < EndOf(g)
    /\ \A o \in Holders :
          /\ Items(o) \in Seq(Nat)
          /\ \A i \in 1..Len(Items(o)) : Items(o)[i] \in Heads
          /\ \A h : IsIn(h, o) <=> \E i \in 1..Len(Items(o)) : Items(o)[i] = h
          /\ \A i, j \in 1..Len(Items(o)) : i < j => EndOf(Items(o)[i]) < Items(o)[j]

LEMMA TreeIs ==
    ASSUME TwoStreams, Core, Tied, Nested, EndsWithTokens, Grammatical PROVE Tree
<1>1. /\ Len(text) \in Nat /\ Root \notin Heads
      /\ \A h \in Heads : /\ h \in Nat /\ h >= 1 /\ EndOf(h) \in Nat /\ EndOf(h) < Len(text)
                          /\ text[h].tok = "head"
  BY TypeFacts DEF Core, Heads, Root, Tied, EndOf
<1>2. \A o \in Heads \cup {Root} :
        /\ Items(o) \in Seq(Nat)
        /\ \A i \in 1..Len(Items(o)) :
              /\ Items(o)[i] \in Heads /\ Ended(Items(o)[i]) /\ o < Items(o)[i]
              /\ o \in Heads /\ Ended(o) =>
                   /\ Items(o)[i] < EndOf(o)
                   /\ \A k \in Marks(Items(o)[i]) : o < comments[k] /\ comments[k] < EndOf(o)
        /\ \A i, j \in 1..Len(Items(o)) : i < j => EndOf(Items(o)[i]) < Items(o)[j]
        /\ Items(o) # <<>> => \E b \in Blocks \cup {Root} :
              /\ Items(o) = block[b].items
              /\ b = (IF o = Root THEN Root ELSE Opening(o))
  BY ItemsAre
<1>3. \A o \in Heads \cup {Root} : \A h :
        IsIn(h, o) <=> \E i \in 1..Len(Items(o)) : Items(o)[i] = h
  <2> TAKE o \in Heads \cup {Root}
  <2> TAKE h
  <2>1. Items(o) \in Seq(Nat)
    BY <1>2
  <2> QED
    BY <2>1, RangeIs DEF IsIn
<1>4. \A h \in Things : h \in Heads /\ Kind(h) # "text"
  BY DEF Things
<1>5. \A h \in Things, o \in Heads \cup {Root} :
        IsIn(h, o) => o \in Holders /\ o \in Nat /\ o < h /\ Kind(h) \in ReadIn(o)
  <2> SUFFICES ASSUME NEW h \in Things, NEW o \in Heads \cup {Root}, IsIn(h, o)
      PROVE o \in Holders /\ o \in Nat /\ o < h /\ Kind(h) \in ReadIn(o)
    OBVIOUS
  <2>1. Kind(h) \in ReadIn(o)
    BY <1>4 DEF Grammatical
  <2>2. o \in Heads => Kind(o) # "text"
    BY <1>1, <1>4, <2>1 DEF ReadIn
  <2>3. o \in Nat
    BY <1>1 DEF Root
  <2> QED
    BY <1>2, <1>3, <2>1, <2>2, <2>3 DEF Holders, Things
<1>6. \A h \in Things : \E o \in Holders : IsIn(h, o)
  BY <1>4, <1>5 DEF Grammatical
<1>7. \A h \in Things : Ended(h) /\ h <= EndOf(h) /\ text[EndOf(h)].tok \notin {"comment", "head"}
  <2> SUFFICES ASSUME NEW h \in Things
      PROVE Ended(h) /\ h <= EndOf(h) /\ text[EndOf(h)].tok \notin {"comment", "head"}
    OBVIOUS
  <2>1. PICK o \in Holders : IsIn(h, o)
    BY <1>6
  <2>a. o \in Heads \cup {Root}
    BY DEF Holders, Things
  <2>b. PICK i \in 1..Len(Items(o)) : Items(o)[i] = h
    BY <1>3, <2>1, <2>a
  <2>2. Ended(h)
    BY <1>2, <2>a, <2>b
  <2> QED
    BY <1>4, <2>2 DEF Nested, Spans, EndsWithTokens
<1>8. \A g, h \in Things : g < h => EndOf(g) < h \/ EndOf(h) < EndOf(g)
  BY <1>4, <1>7 DEF Nested, Spans
<1>9. \A h \in Things : \A o, p \in Holders : IsIn(h, o) /\ IsIn(h, p) => o = p
  <2> SUFFICES ASSUME NEW h \in Things, NEW o \in Holders, NEW p \in Holders,
                      IsIn(h, o), IsIn(h, p) PROVE o = p
    OBVIOUS
  <2>0. o \in Heads \cup {Root} /\ p \in Heads \cup {Root}
    BY DEF Holders, Things
  <2>1. PICK i \in 1..Len(Items(o)) : Items(o)[i] = h
    BY <1>3, <2>0
  <2>2. PICK j \in 1..Len(Items(p)) : Items(p)[j] = h
    BY <1>3, <2>0
  <2>3. Items(o) \in Seq(Nat) /\ Items(p) \in Seq(Nat)
    BY <1>2, <2>0
  <2>4. Items(o) # <<>> /\ Items(p) # <<>> /\ i \in Nat /\ j \in Nat
    BY <2>1, <2>2, <2>3
  <2>5. PICK b \in Blocks \cup {Root} :
            /\ Items(o) = block[b].items /\ b = (IF o = Root THEN Root ELSE Opening(o))
    BY <1>2, <2>0, <2>4
  <2>6. PICK c \in Blocks \cup {Root} :
            /\ Items(p) = block[c].items /\ c = (IF p = Root THEN Root ELSE Opening(p))
    BY <1>2, <2>0, <2>4
  <2>7. b = c
    BY <2>1, <2>2, <2>4, <2>5, <2>6 DEF Nested, Rows
  <2>8. \A q \in Heads : Opening(q) # Root
    BY OpeningIs, <1>1 DEF Root
  <2> QED
    BY <2>0, <2>5, <2>6, <2>7, <2>8, OwnOpening
<1>10. \A h \in Things, o \in Things :
          IsIn(h, o) => EndOf(h) < EndOf(o) /\ \A p \in Own(h) : p \in o .. EndOf(o)
  <2> SUFFICES ASSUME NEW h \in Things, NEW o \in Things, IsIn(h, o)
      PROVE EndOf(h) < EndOf(o) /\ \A p \in Own(h) : p \in o .. EndOf(o)
    OBVIOUS
  <2>1. o \in Heads /\ Ended(o) /\ o < h
    BY <1>4, <1>5, <1>7
  <2>2. h < EndOf(o) /\ \A k \in Marks(h) : o < comments[k] /\ comments[k] < EndOf(o)
    BY <1>2, <1>3, <2>1
  <2>3. EndOf(h) < EndOf(o)
    <3>1. h \in Nat /\ EndOf(o) \in Nat
      BY <1>1, <1>4
    <3> QED
      BY <1>8, <2>1, <2>2, <3>1
  <2>4. ASSUME NEW p \in Own(h) PROVE p \in o .. EndOf(o)
    <3>1. h \in Nat /\ o \in Nat /\ EndOf(h) \in Nat /\ EndOf(o) \in Nat
      BY <1>1, <1>4
    <3>2. CASE p \in h .. EndOf(h)
      BY <2>1, <2>3, <3>1, <3>2
    <3>3. CASE p \in Notes(h)
      <4>1. PICK k \in Marks(h) : p = comments[k]
        BY <3>3 DEF Notes, Marks, At
      <4>2. k \in Streams
        BY <1>4, <4>1 DEF Tied, Marks
      <4>3. comments[k] \in Nat
        BY <4>2, TextIs DEF Streams
      <4> QED
        BY <2>2, <3>1, <4>1, <4>3
    <3> QED
      BY <3>2, <3>3 DEF Own, EndOf
  <2> QED
    BY <2>3, <2>4
<1>11. \A h \in Things : \A p \in Notes(h) : text[p].tok = "comment"
  <2> TAKE h \in Things
  <2> TAKE p \in Notes(h)
  <2>1. PICK k \in Marks(h) : p = comments[k]
    BY DEF Notes, Marks, At
  <2>2. k \in Streams
    BY <1>4, <2>1 DEF Tied, Marks
  <2> QED
    BY <2>1, <2>2, TextIs DEF Streams
<1>12. \A o \in Holders :
          /\ Items(o) \in Seq(Nat)
          /\ \A i \in 1..Len(Items(o)) : Items(o)[i] \in Heads
          /\ \A h : IsIn(h, o) <=> \E i \in 1..Len(Items(o)) : Items(o)[i] = h
          /\ \A i, j \in 1..Len(Items(o)) : i < j => EndOf(Items(o)[i]) < Items(o)[j]
  BY <1>2, <1>3 DEF Holders, Things
<1>13. \A h \in Things : /\ h \in Nat /\ h >= 1 /\ EndOf(h) \in Nat
                         /\ h < EndOf(h) /\ EndOf(h) < Len(text)
                         /\ text[h].tok # "comment" /\ text[EndOf(h)].tok \notin {"comment", "head"}
  BY <1>1, <1>4, <1>7
<1> QED
  BY <1>1, <1>5, <1>6, <1>8, <1>9, <1>10, <1>11, <1>12, <1>13 DEF Tree

Span(h) == h .. EndOf(h)
Within(o, x) == x = Root \/ o \in Span(x)

\* What is in a span ends in it.
LEMMA SpanInSpan ==
    ASSUME Tree, NEW x \in Things, NEW y \in Things, x \in Span(y)
    PROVE EndOf(x) <= EndOf(y) /\ y <= x /\ x <= EndOf(y)
<1>1. /\ x \in Nat /\ y \in Nat /\ EndOf(x) \in Nat /\ EndOf(y) \in Nat
      /\ y < x => EndOf(y) < x \/ EndOf(x) < EndOf(y)
  BY DEF Tree
<1>2. y <= x /\ x <= EndOf(y)
  BY <1>1 DEF Span
<1>3. y = x \/ y < x
  BY <1>1, <1>2
<1> QED
  BY <1>1, <1>2, <1>3

\* Items of one holder stand apart.
LEMMA Apart ==
    ASSUME Tree, NEW o \in Holders, NEW g \in Things, NEW h \in Things, IsIn(g, o), IsIn(h, o), g < h
    PROVE EndOf(g) < h
<1>1. /\ g \in Nat /\ h \in Nat /\ EndOf(h) \in Nat /\ h <= EndOf(h)
      /\ Len(Items(o)) \in Nat
      /\ \A i, j \in 1..Len(Items(o)) : i < j => EndOf(Items(o)[i]) < Items(o)[j]
  BY DEF Tree
<1>2. PICK i \in 1..Len(Items(o)) : Items(o)[i] = g
  BY DEF Tree
<1>3. PICK j \in 1..Len(Items(o)) : Items(o)[j] = h
  BY DEF Tree
<1>4. CASE i < j
  BY <1>1, <1>2, <1>3, <1>4
<1>5. CASE j < i
  <2>1. EndOf(h) < g
    BY <1>1, <1>2, <1>3, <1>5
  <2> QED
    BY <1>1, <2>1
<1>6. CASE i = j
  BY <1>1, <1>2, <1>3, <1>6
<1> QED
  BY <1>1, <1>4, <1>5, <1>6

\* What stands in x stands in an item of x, and so does what it is an item of.
StandsIn(o, x) ==
    x < o /\ Within(o, x) =>
       /\ \E y \in Things : IsIn(y, x) /\ o \in Span(y)
       /\ \A p \in Holders : IsIn(o, p) => x <= p

LEMMA StandsOne ==
    ASSUME Tree, NEW o \in Things,
           \A q \in Things : q < o => \A x \in Holders : StandsIn(q, x),
           NEW x \in Holders, x < o, Within(o, x)
    PROVE /\ \E y \in Things : IsIn(y, x) /\ o \in Span(y)
          /\ \A p \in Holders : IsIn(o, p) => x <= p
<1>1. PICK p \in Holders : IsIn(o, p)
  BY DEF Tree
<1>2. p \in Nat /\ p < o
  BY <1>1 DEF Tree, Holders, Things
<1>3. /\ o \in Nat /\ o >= 1 /\ EndOf(o) \in Nat /\ o <= EndOf(o) /\ x \in Nat
      /\ x # Root => x \in Things /\ EndOf(x) \in Nat
      /\ p # Root => p \in Things /\ EndOf(p) \in Nat /\ EndOf(o) < EndOf(p)
      /\ Root = 0
  BY <1>1 DEF Tree, Holders, Root
<1>4. \A r \in Holders : IsIn(o, r) => r = p
  BY <1>1 DEF Tree
<1>5. ~ (p < x)
  <2> SUFFICES ASSUME p < x PROVE FALSE
    OBVIOUS
  <2>1. x # Root /\ x \in Things /\ EndOf(x) \in Nat
    BY <1>2, <1>3
  <2>2. o \in Span(x) /\ o <= EndOf(x)
    BY <1>3, <2>1 DEF Within, Span
  <2>3. Within(x, p)
    BY <1>2, <1>3, <2>1, <2>2 DEF Within, Span
  <2>4. PICK y \in Things : IsIn(y, p) /\ x \in Span(y)
    BY <2>1, <2>3 DEF StandsIn
  <2>5. EndOf(x) <= EndOf(y) /\ y <= x
    BY <2>1, <2>4, SpanInSpan
  <2>6. y \in Nat /\ EndOf(y) \in Nat
    BY DEF Tree
  <2>7. y < o
    BY <1>3, <2>5, <2>6
  <2>8. EndOf(y) < o
    BY <1>1, <2>4, <2>7, Apart
  <2> QED
    BY <1>3, <2>1, <2>2, <2>5, <2>6, <2>8
<1>6. x = p \/ x < p
  BY <1>2, <1>3, <1>5
<1>7. \A r \in Holders : IsIn(o, r) => x <= r
  BY <1>2, <1>3, <1>4, <1>6
<1>8. CASE x = p
  <2>1. o \in Span(o)
    BY <1>3 DEF Span
  <2> QED
    BY <1>1, <1>7, <1>8, <2>1
<1>9. CASE x < p
  <2>1. p # Root /\ p \in Things /\ EndOf(p) \in Nat /\ EndOf(o) < EndOf(p)
    BY <1>3, <1>9
  <2>2. Within(p, x)
    BY <1>2, <1>3, <1>9, <2>1 DEF Within, Span
  <2>3. PICK y \in Things : IsIn(y, x) /\ p \in Span(y)
    BY <1>2, <1>9, <2>1, <2>2 DEF StandsIn
  <2>4. EndOf(p) <= EndOf(y) /\ y <= p /\ y \in Nat /\ EndOf(y) \in Nat
    BY <2>1, <2>3, SpanInSpan DEF Tree
  <2>5. o \in Span(y)
    BY <1>2, <1>3, <2>1, <2>4 DEF Span
  <2> QED
    BY <1>7, <2>3, <2>5
<1> QED
  BY <1>6, <1>8, <1>9

LEMMA Stands ==
    ASSUME Tree PROVE \A o \in Things, x \in Holders : StandsIn(o, x)
<1> DEFINE T == {o \in Things : ~ \A x \in Holders : StandsIn(o, x)}
<1> SUFFICES ASSUME T # {} PROVE FALSE
  OBVIOUS
<1>1. T \in SUBSET Nat
  BY DEF Tree
<1>2. PICK o \in T : \A q \in T : o <= q
  BY <1>1, LeastIn
<1>3. o \in Things /\ o \in Nat
  BY <1>1
<1>4. \A q \in Things : q < o => q \notin T
  <2> TAKE q \in Things
  <2>1. q \in Nat
    BY DEF Tree
  <2> HIDE DEF T
  <2> QED
    BY <1>2, <1>3, <2>1
<1>5. \A q \in Things : q < o => \A x \in Holders : StandsIn(q, x)
  BY <1>4
<1>6. \A x \in Holders : StandsIn(o, x)
  <2> TAKE x \in Holders
  <2>1. CASE x < o /\ Within(o, x)
    BY <1>3, <1>5, <2>1, StandsOne DEF StandsIn
  <2>2. CASE ~ (x < o /\ Within(o, x))
    BY <2>2 DEF StandsIn
  <2> QED
    BY <2>1, <2>2
<1> QED
  BY <1>6

LEMMA ParentIs ==
    ASSUME Tree, NEW h \in Things, NEW o \in Holders, IsIn(h, o)
    PROVE Parent(h) = o
<1>1. \A p \in Heads \cup {Root} : IsIn(h, p) => p = o
  BY DEF Tree
<1>2. o \in Heads \cup {Root}
  BY DEF Holders, Things
<1> QED
  BY <1>1, <1>2 DEF Parent

-----------------------------------------------------------------------------
(* What is kept is kept from the file down.                                *)

Reached(o) == o = Root \/ (o \in kept /\ Kind(o) \in {"message", "service"})
Picked ==
    /\ Selectable(kept)
    /\ kept \subseteq Symbols \cup {h \in Heads : Kind(h) = "import"}

\* What an item can be in.
LEMMA AboveIs ==
    ASSUME Tree, NEW h \in Things, NEW o \in Holders, IsIn(h, o)
    PROVE /\ Kind(h) \in {"message", "enum"} => o = Root \/ Kind(o) = "message"
          /\ Kind(h) \in {"service", "import"} => o = Root
          /\ Kind(h) = "field" => o # Root /\ Kind(o) \in {"message", "oneof"}
          /\ Kind(h) = "oneof" => o # Root /\ Kind(o) = "message"
          /\ Kind(h) \in {"value", "alias"} => o # Root /\ Kind(o) = "enum"
          /\ Kind(h) = "rpc" => o # Root /\ Kind(o) = "service"
<1>1. Kind(h) \in ReadIn(o)
  BY DEF Tree, Holders, Things
<1>2. CASE o = Root
  BY <1>1, <1>2 DEF ReadIn
<1>3. CASE o # Root
  <2>1. Kind(o) \in {"message", "oneof", "enum", "service", "rpc"} \/ Kind(h) = "text"
    BY <1>1, <1>3 DEF ReadIn
  <2>2. Kind(h) # "text"
    BY DEF Things
  <2>3. CASE Kind(o) = "message"
    BY <1>1, <1>3, <2>3 DEF ReadIn
  <2>4. CASE Kind(o) = "oneof"
    BY <1>1, <1>3, <2>4 DEF ReadIn
  <2>5. CASE Kind(o) = "enum"
    BY <1>1, <1>3, <2>5 DEF ReadIn
  <2>6. CASE Kind(o) = "service"
    BY <1>1, <1>3, <2>6 DEF ReadIn
  <2>7. CASE Kind(o) = "rpc"
    BY <1>1, <1>3, <2>7 DEF ReadIn
  <2> QED
    BY <2>1, <2>2, <2>3, <2>4, <2>5, <2>6, <2>7
<1> QED
  BY <1>2, <1>3

LEMMA KeptIsThing ==
    ASSUME Picked, NEW h \in kept
    PROVE h \in Things /\ Kind(h) \in {"message", "field", "enum", "value", "service", "rpc", "import"}
  BY DEF Picked, Symbols, Things

LEMMA KeptUp ==
    ASSUME Tree, Picked, NEW h \in kept, Kind(h) \in {"message", "enum", "service"},
           NEW o \in Holders, IsIn(h, o)
    PROVE Reached(o)
<1>1. h \in Things /\ h \in Symbols
  BY KeptIsThing DEF Symbols, Things
<1>2. Parent(h) = o
  BY <1>1, ParentIs
<1>3. o = Root \/ Kind(o) = "message"
  BY <1>1, AboveIs
<1>4. SymParent(h) = o
  BY <1>2, <1>3 DEF SymParent
<1>5. o \in kept \cup {Root}
  BY <1>1, <1>4 DEF Picked, Selectable
<1> QED
  BY <1>3, <1>5 DEF Reached

\* All that a kept definition stands in is kept.
LEMMA ReachedAround ==
    ASSUME Tree, Picked
    PROVE \A o \in kept, x \in Things :
            Kind(o) \in {"message", "enum", "service"} /\ o \in Span(x) /\ o # x => Reached(x)
<1> DEFINE Bad(o, x) == /\ Kind(o) \in {"message", "enum", "service"}
                        /\ o \in Span(x) /\ o # x /\ ~ Reached(x)
           T == {o \in kept : \E x \in Things : Bad(o, x)}
<1> SUFFICES ASSUME T # {} PROVE FALSE
  OBVIOUS
<1>1. T \in SUBSET Nat
  <2>1. \A o \in kept : o \in Nat
    BY KeptIsThing DEF Tree
  <2> QED
    BY <2>1
<1>2. PICK o \in T : \A q \in T : o <= q
  BY <1>1, LeastIn
<1>3. PICK x \in Things : Bad(o, x)
  BY <1>2
<1>4. o \in kept /\ o \in Things /\ o \in Nat /\ x \in Nat /\ EndOf(x) \in Nat
  BY <1>2, KeptIsThing DEF Tree
<1>5. x < o /\ o <= EndOf(x)
  BY <1>3, <1>4, SpanInSpan
<1>6. PICK p \in Holders : IsIn(o, p)
  BY <1>4 DEF Tree
<1>7. Reached(p)
  BY <1>3, <1>4, <1>6, KeptUp
<1>8. x <= p
  <2>1. StandsIn(o, x)
    BY <1>4, Stands DEF Holders
  <2>2. Within(o, x)
    BY <1>3 DEF Within
  <2> QED
    BY <1>5, <1>6, <2>1, <2>2 DEF StandsIn
<1>9. p \in Nat /\ p < o /\ x >= 1 /\ Root = 0
  BY <1>4, <1>6 DEF Tree, Holders, Things, Root
<1>10. CASE p = x
  BY <1>3, <1>7, <1>10
<1>11. CASE p # x
  <2>1. p # Root /\ p \in kept /\ Kind(p) \in {"message", "service"}
    BY <1>4, <1>7, <1>8, <1>9, <1>11 DEF Reached
  <2>2. p \in Span(x)
    BY <1>4, <1>5, <1>8, <1>9 DEF Span
  <2>3. p \in T
    BY <1>3, <1>11, <2>1, <2>2
  <2> HIDE DEF T
  <2> QED
    BY <1>2, <1>4, <1>9, <2>3
<1> QED
  BY <1>10, <1>11

\* A scope stands, down from the file, in the items of scopes.
LEMMA ReachedDown ==
    ASSUME Tree, Picked, NEW o \in kept, Reached(o), NEW x \in Holders, x # o, Within(o, x)
    PROVE \E y \in Things : IsIn(y, x) /\ o \in Span(y)
<1>1. o \in Things /\ o \in Nat /\ o >= 1
  BY KeptIsThing DEF Tree
<1>2. x < o
  <2>1. CASE x = Root
    BY <1>1, <2>1 DEF Root
  <2>2. CASE x # Root
    <3>1. x \in Things /\ x \in Nat /\ o \in Span(x)
      BY <2>2 DEF Holders, Within, Tree
    <3> QED
      BY <1>1, <3>1, SpanInSpan
  <2> QED
    BY <2>1, <2>2
<1>3. StandsIn(o, x)
  BY <1>1, Stands
<1> QED
  BY <1>2, <1>3 DEF StandsIn

-----------------------------------------------------------------------------
(* What goes, and what stays.                                              *)

\* A text that is parsed, and a selection.
Settled == TwoStreams /\ Core /\ Tied /\ Nested /\ EndsWithTokens /\ Grammatical /\ Picked

LEMMA SettledTree == Settled => Tree
  BY TreeIs DEF Settled

LEMMA GoesIs ==
    ASSUME NEW h \in Heads, Goes(h)
    PROVE /\ h \in Things /\ Kind(h) \in Definitions \cup {"value", "oneof", "alias"}
          /\ Kind(h) \in Definitions \cup {"value"} => h \notin kept
  BY DEF Goes, Things, Definitions

\* A deletion, for the items of a text that is parsed.
LEMMA DeletionOf ==
    ASSUME Settled, NEW h \in Things
    PROVE /\ Deletion(h) \in Seq(EditRecords)
          /\ \A d \in Range(Deletion(h)) : /\ d.rank = 0 /\ d.at \in 1..Len(text)
                                           /\ d.to \in 1..Len(text) /\ d.at <= d.to
          /\ \A p \in Own(h) : \E d \in Range(Deletion(h)) : Reaches(d, p)
          /\ LedClosely => \A d \in Range(Deletion(h)), p \in Nat : Reaches(d, p) => p \in Own(h)
<1>1. TwoStreams /\ TypeOK /\ Tied /\ Runs /\ h \in Heads
  BY DEF Settled, Core, Nested, Things
<1>2. h <= EndOf(h)
  BY SettledTree DEF Tree
<1> QED
  BY <1>1, <1>2, DeletionIs

\* The lexemes of an item.
LEMMA OwnIs ==
    ASSUME Tree, NEW h \in Things, NEW p, p \in Own(h), text[p].tok # "comment"
    PROVE p \in Span(h)
  BY DEF Tree, Own, Span, EndOf

\* An item that does not go stays if what it is an item of stays.
LEMMA StaysWithin ==
    ASSUME Tree, Picked, NEW h \in Things, NEW o \in Things, IsIn(h, o), o \notin Going, ~ Goes(h)
    PROVE h \notin Going
<1> SUFFICES ASSUME NEW g \in Heads, Goes(g), h \in Own(g) PROVE FALSE
  BY DEF Going
<1>1. g \in Things
  BY GoesIs
<1>2. /\ h \in Nat /\ g \in Nat /\ o \in Nat /\ EndOf(g) \in Nat /\ g <= EndOf(g)
      /\ text[h].tok # "comment" /\ o < h /\ g >= 1
  BY <1>1 DEF Tree, Things
<1>3. h \in Span(g)
  BY <1>1, <1>2, OwnIs
<1>4. g # h
  OBVIOUS
<1>5. g < h /\ h <= EndOf(g)
  BY <1>2, <1>3, <1>4 DEF Span
<1>6. g <= o
  <2>1. StandsIn(h, g) /\ Within(h, g) /\ o \in Holders
    BY <1>1, <1>3, Stands DEF Holders, Within
  <2> QED
    BY <1>5, <2>1 DEF StandsIn
<1>7. o \in Own(g)
  BY <1>2, <1>5, <1>6 DEF Own, EndOf
<1> QED
  BY <1>7 DEF Going

\* What goes takes no end of a scope along that stays.
LEMMA EndStays ==
    ASSUME Tree, Picked, NEW o \in kept, Kind(o) \in {"message", "enum"},
           NEW g \in Heads, Goes(g)
    PROVE EndOf(o) \notin Own(g)
<1> SUFFICES ASSUME EndOf(o) \in Own(g) PROVE FALSE
  OBVIOUS
<1>1. g \in Things /\ o \in Things
  BY GoesIs, KeptIsThing
<1>2. /\ o \in Nat /\ g \in Nat /\ EndOf(o) \in Nat /\ EndOf(g) \in Nat /\ o <= EndOf(o)
      /\ g <= EndOf(g) /\ text[EndOf(o)].tok # "comment"
      /\ g < o => EndOf(g) < o \/ EndOf(o) < EndOf(g)
      /\ o < g => EndOf(o) < g \/ EndOf(g) < EndOf(o)
  BY <1>1, SMTT(20) DEF Tree
<1>3. EndOf(o) \in Span(g)
  BY <1>1, <1>2, OwnIs
<1>4. g <= EndOf(o) /\ EndOf(o) <= EndOf(g)
  BY <1>2, <1>3 DEF Span
<1>5. g # o
  BY GoesIs DEF Definitions
<1>6. g < o /\ o <= EndOf(g)
  BY <1>2, <1>4, <1>5
<1>7. o \in Span(g)
  BY <1>2, <1>6 DEF Span
<1>8. Reached(g)
  BY <1>1, <1>5, <1>7, ReachedAround
<1>9. g # Root
  BY <1>1 DEF Tree, Things
<1> QED
  BY <1>8, <1>9, GoesIs DEF Reached, Definitions

-----------------------------------------------------------------------------
(* What the edits are to be.                                               *)

\* Field numbers are unique in a message, and an enum has aliases if it allows them.
Legal ==
    /\ \A m \in Heads : \A f, g \in Fields(m) : f # g => Num(f) # Num(g)
    /\ \A e \in Heads : Kind(e) = "enum" =>
          (Aliases(Values(e)) <=> OfKind(e, "alias") # <<>>)

\* The edits that item x calls for have been made: those of its own visitor.
Deleted(h) == Range(Deletion(h)) \subseteq Range(edits)
IsInsertion(e, o) ==
    /\ e.rank = 1 /\ e.at = EndOf(o) /\ Range(e.nums) = Lost(o)
    /\ Legal => \A i, j \in DOMAIN e.nums : i < j => e.nums[i] < e.nums[j]
Answered(o) == o \in Losing => \E n \in 1..Len(edits) : IsInsertion(edits[n], o)
Handled(x) ==
    /\ Goes(x) => Deleted(x)
    /\ Kind(x) \in {"oneof", "enum"} /\ ~ Goes(x) =>
          \A y \in Heads : IsIn(y, x) /\ Goes(y) => Deleted(y)
    /\ Kind(x) = "enum" => Answered(x)

\* An edit deletes what goes, or inserts what is lost.
IsCalledFor(e) ==
    \/ e.rank = 0 /\ \E h \in Heads : Goes(h) /\ e \in Range(Deletion(h))
    \/ \E o \in Losing : IsInsertion(e, o)
Written ==
    /\ edits \in Seq(EditRecords)
    /\ \A n \in 1..Len(edits) : IsCalledFor(edits[n])
    /\ \A m, n \in 1..Len(edits) :
          edits[m].rank = 1 /\ edits[n].rank = 1 /\ edits[m].at = edits[n].at => m = n

AllHandled ==
    /\ \A o \in Holders, y \in Heads : Reached(o) /\ IsIn(y, o) => Handled(y)
    /\ \A o \in Losing : Answered(o)

Covers(n, p) == edits[n].rank = 0 /\ edits[n].at <= p /\ p <= edits[n].to
IsCovered(h) == \A p \in Own(h) : \E n \in 1..Len(edits) : Covers(n, p)

LEMMA DeletedIsCovered ==
    ASSUME Settled, Written, NEW h \in Things, Deleted(h) PROVE IsCovered(h)
<1> SUFFICES ASSUME NEW p \in Own(h) PROVE \E n \in 1..Len(edits) : Covers(n, p)
  BY DEF IsCovered
<1>1. PICK d \in Range(Deletion(h)) : Reaches(d, p)
  BY DeletionOf
<1>2. d \in Range(edits)
  BY DEF Deleted
<1>3. PICK n \in 1..Len(edits) : edits[n] = d
  BY <1>2, RangeIs DEF Written
<1> QED
  BY <1>1, <1>3 DEF Reaches, Covers

LEMMA CoveredOne ==
    ASSUME Settled, Written, AllHandled, NEW h \in Things, Goes(h),
           \A g \in Things : g < h /\ Goes(g) => IsCovered(g)
    PROVE IsCovered(h)
<1>0. Tree /\ Picked
  BY SettledTree DEF Settled
<1>1. PICK o \in Holders : IsIn(h, o)
  BY <1>0 DEF Tree
<1>2. /\ o \in Nat /\ o < h /\ h \in Nat /\ EndOf(h) \in Nat /\ h \in Heads
      /\ o # Root => o \in Things /\ o \in Heads
  BY <1>0, <1>1 DEF Tree, Holders, Things
<1>3. Deleted(h) => IsCovered(h)
  BY DeletedIsCovered
<1>4. Reached(o) => IsCovered(h)
  BY <1>1, <1>2, <1>3 DEF AllHandled, Handled
<1>5. ASSUME NEW g \in Things, Goes(g), g < h, Own(h) \subseteq Span(g) PROVE IsCovered(h)
  <2>1. IsCovered(g)
    BY <1>5
  <2>2. \A p \in Span(g) : p \in Own(g)
    BY DEF Own, Span, EndOf
  <2> QED
    BY <1>5, <2>1, <2>2 DEF IsCovered
<1>6. ASSUME o # Root, Goes(o) PROVE IsCovered(h)
  <2>1. o \in Things
    BY <1>2, <1>6
  <2>2. Own(h) \subseteq Span(o)
    BY <1>0, <1>1, <2>1 DEF Tree, Span
  <2> QED
    BY <1>2, <1>5, <1>6, <2>1, <2>2
<1>7. ASSUME o # Root, NEW q \in Things, IsIn(o, q), Goes(q) PROVE IsCovered(h)
  <2>1. o \in Things /\ q \in Nat /\ q < o
    BY <1>0, <1>2, <1>7 DEF Tree, Things
  <2>2. Own(h) \subseteq Span(o) /\ Own(o) \subseteq Span(q)
    BY <1>0, <1>1, <1>7, <2>1 DEF Tree, Span
  <2>3. Span(o) \subseteq Own(o)
    BY DEF Own, Span, EndOf
  <2>4. q < h
    BY <1>2, <2>1
  <2> QED
    BY <1>5, <1>7, <2>2, <2>3, <2>4
<1>8. CASE o = Root
  BY <1>4, <1>8 DEF Reached
<1>9. CASE o # Root /\ Kind(o) \in {"message", "service"}
  <2>1. CASE o \in kept
    BY <1>4, <1>9, <2>1 DEF Reached
  <2>2. CASE o \notin kept
    BY <1>6, <1>9, <2>2 DEF Goes, Definitions
  <2> QED
    BY <2>1, <2>2
<1>10. CASE o # Root /\ Kind(o) = "oneof"
  <2>1. o \in Things /\ o \in Heads
    BY <1>2, <1>10
  <2>2. PICK q \in Holders : IsIn(o, q)
    BY <1>0, <2>1 DEF Tree
  <2>3. q # Root /\ Kind(q) = "message" /\ q \in Things
    BY <1>0, <1>10, <2>1, <2>2, AboveIs DEF Holders
  <2>4. CASE q \in kept
    <3>1. Handled(o)
      BY <2>1, <2>2, <2>3, <2>4 DEF AllHandled, Reached
    <3> QED
      BY <1>1, <1>2, <1>3, <1>6, <1>10, <3>1 DEF Handled
  <2>5. CASE q \notin kept
    <3>1. Goes(q)
      BY <2>3, <2>5 DEF Goes, Definitions
    <3> QED
      BY <1>7, <1>10, <2>2, <2>3, <3>1
  <2> QED
    BY <2>4, <2>5
<1>11. CASE o # Root /\ Kind(o) = "enum"
  <2>1. o \in Things /\ o \in Heads
    BY <1>2, <1>11
  <2>2. CASE o \notin kept
    BY <1>6, <1>11, <2>2 DEF Goes, Definitions
  <2>3. CASE o \in kept
    <3>1. PICK q \in Holders : IsIn(o, q)
      BY <1>0, <2>1 DEF Tree
    <3>2. Reached(q)
      BY <1>0, <1>11, <2>3, <3>1, KeptUp
    <3>3. Handled(o)
      BY <2>1, <3>1, <3>2 DEF AllHandled
    <3>4. ~ Goes(o)
      BY <1>11, <2>3 DEF Goes, Definitions
    <3> QED
      BY <1>1, <1>2, <1>3, <1>11, <3>3, <3>4 DEF Handled
  <2> QED
    BY <2>2, <2>3
<1>12. o = Root \/ Kind(o) \in {"message", "service", "oneof", "enum"}
  <2>1. Kind(h) \in {"message", "enum", "service", "field", "rpc", "import", "value", "oneof", "alias"}
    BY <1>2, GoesIs DEF Definitions
  <2> QED
    BY <1>0, <1>1, <2>1, AboveIs
<1> QED
  BY <1>8, <1>9, <1>10, <1>11, <1>12

\* All that goes is deleted: what is not visited, with what it stands in.
LEMMA AllCovered ==
    ASSUME Settled, Written, AllHandled
    PROVE \A h \in Heads : Goes(h) => IsCovered(h)
<1> DEFINE T == {h \in Things : Goes(h) /\ ~ IsCovered(h)}
<1>1. T = {}
  <2> SUFFICES ASSUME T # {} PROVE FALSE
    OBVIOUS
  <2>1. T \in SUBSET Nat
    BY SettledTree DEF Tree
  <2>2. PICK h \in T : \A q \in T : h <= q
    BY <2>1, LeastIn
  <2>3. h \in Things /\ h \in Nat /\ Goes(h) /\ ~ IsCovered(h)
    BY <2>1
  <2>4. \A g \in Things : g < h => g \notin T
    <3> TAKE g \in Things
    <3>1. g \in Nat
      BY SettledTree DEF Tree
    <3> HIDE DEF T
    <3> QED
      BY <2>2, <2>3, <3>1
  <2>5. \A g \in Things : g < h /\ Goes(g) => IsCovered(g)
    BY <2>4
  <2> QED
    BY <2>3, <2>5, CoveredOne
<1> QED
  BY <1>1, GoesIs

\* Where comments stand close to what they lead, nothing else is deleted.
LEMMA CoversGoing ==
    ASSUME Settled, Written, AllHandled, LedClosely, NEW p \in Nat
    PROVE p \in Going <=> \E n \in 1..Len(edits) : Covers(n, p)
<1>1. ASSUME NEW n \in 1..Len(edits), Covers(n, p) PROVE p \in Going
  <2>1. IsCalledFor(edits[n]) /\ edits[n].rank = 0
    BY <1>1 DEF Written, Covers
  <2>2. PICK h \in Heads : Goes(h) /\ edits[n] \in Range(Deletion(h))
    BY <2>1 DEF IsCalledFor, IsInsertion
  <2>3. Reaches(edits[n], p) /\ h \in Things
    BY <1>1, <2>2, GoesIs DEF Reaches, Covers
  <2>4. p \in Own(h)
    BY <2>2, <2>3, DeletionOf
  <2> QED
    BY <2>2, <2>4 DEF Going
<1>2. ASSUME p \in Going PROVE \E n \in 1..Len(edits) : Covers(n, p)
  <2>1. PICK h \in Heads : Goes(h) /\ p \in Own(h)
    BY <1>2 DEF Going
  <2> QED
    BY <2>1, AllCovered DEF IsCovered
<1> QED
  BY <1>1, <1>2

-----------------------------------------------------------------------------
(* apply_edits.                                                            *)

Copies == [pos : Nat, nums : Seq(Int)]
Above(a, b) == IF a >= b THEN a ELSE b

\* The statement at i of s is that of insertion n, if what follows begins at q.
StandsFor(i, n, s, q) ==
    /\ s[i].pos = 0 /\ s[i].nums = edits[n].nums
    /\ edits[n].at = IF i = Len(s) THEN q ELSE s[i + 1].pos
Shows(p, s) == \E i \in 1..Len(s) : s[i].pos = p

\* With the edits but T applied, s is what has come of the text before q.
Prunes(T, q, s) ==
    /\ T \subseteq 1..Len(edits) /\ q \in 1..Len(text) + 1 /\ s \in Seq(Copies)
    /\ \A m \in 1..Len(edits) \ T, n \in T : Precedes(m, n)
    /\ \A m \in 1..Len(edits) \ T : edits[m].rank = 0 => edits[m].to < q
    /\ \A p \in Nat \ {0} : Shows(p, s) <=> p < q /\ \A n \in 1..Len(edits) \ T : ~ Covers(n, p)
    /\ \A i, j \in 1..Len(s) : i < j /\ s[i].pos # 0 /\ s[j].pos # 0 => s[i].pos < s[j].pos
    /\ \A i \in 1..Len(s), n \in T : s[i].pos < edits[n].at
    /\ LedClosely =>
         /\ \A n \in T : edits[n].rank = 1 => q <= edits[n].at
         /\ \A i \in 1..Len(s) : s[i].pos = 0 =>
               \E n \in 1..Len(edits) \ T : edits[n].rank = 1 /\ StandsFor(i, n, s, q)
         /\ \A n \in 1..Len(edits) \ T : edits[n].rank = 1 => \E i \in 1..Len(s) : StandsFor(i, n, s, q)

\* What edits are.
LEMMA EditIs ==
    ASSUME Settled, Written, NEW n \in 1..Len(edits)
    PROVE /\ edits[n].at \in Nat /\ edits[n].to \in Nat /\ edits[n].rank \in {0, 1}
          /\ edits[n].nums \in Seq(Int) /\ Len(text) \in Nat
          /\ edits[n].at >= 1 /\ edits[n].at <= Len(text)
          /\ edits[n].rank = 0 => edits[n].at <= edits[n].to /\ edits[n].to <= Len(text)
          /\ edits[n].rank = 1 => /\ edits[n].at < Len(text)
                                  /\ LedClosely => \A m \in 1..Len(edits) : ~ Covers(m, edits[n].at)
<1>0. Tree /\ Picked /\ Len(text) \in Nat
  BY SettledTree DEF Settled, Tree
<1>1. /\ edits[n].at \in Nat /\ edits[n].to \in Nat /\ edits[n].rank \in {0, 1}
      /\ edits[n].nums \in Seq(Int)
  <2>1. edits[n] \in EditRecords
    BY DEF Written
  <2> QED
    BY <2>1 DEF EditRecords
<1>2. IsCalledFor(edits[n])
  BY DEF Written
<1>3. ASSUME edits[n].rank = 0
      PROVE /\ edits[n].at >= 1 /\ edits[n].at <= Len(text)
            /\ edits[n].at <= edits[n].to /\ edits[n].to <= Len(text)
  <2>1. PICK h \in Heads : Goes(h) /\ edits[n] \in Range(Deletion(h))
    BY <1>2, <1>3 DEF IsCalledFor, IsInsertion
  <2>2. h \in Things
    BY <2>1, GoesIs
  <2>3. /\ edits[n].at \in 1..Len(text) /\ edits[n].to \in 1..Len(text)
        /\ edits[n].at <= edits[n].to
    BY <2>1, <2>2, DeletionOf
  <2> QED
    BY <1>0, <2>3
<1>4. ASSUME edits[n].rank = 1
      PROVE /\ edits[n].at >= 1 /\ edits[n].at < Len(text)
            /\ LedClosely => \A m \in 1..Len(edits) : ~ Covers(m, edits[n].at)
  <2>1. PICK o \in Losing : IsInsertion(edits[n], o)
    BY <1>2, <1>4 DEF IsCalledFor
  <2>2. o \in kept /\ Kind(o) \in {"message", "enum"} /\ edits[n].at = EndOf(o)
    BY <2>1 DEF Losing, IsInsertion
  <2>3. o \in Things
    BY <1>0, <2>2, KeptIsThing
  <2>4. o \in Nat /\ o >= 1 /\ EndOf(o) \in Nat /\ o <= EndOf(o) /\ EndOf(o) < Len(text)
    BY <1>0, <2>3 DEF Tree
  <2>5. ASSUME LedClosely, NEW m \in 1..Len(edits), Covers(m, EndOf(o)) PROVE FALSE
    <3>1. IsCalledFor(edits[m]) /\ edits[m].rank = 0
      BY <2>5 DEF Written, Covers
    <3>2. PICK h \in Heads : Goes(h) /\ edits[m] \in Range(Deletion(h))
      BY <3>1 DEF IsCalledFor, IsInsertion
    <3>3. h \in Things /\ Reaches(edits[m], EndOf(o))
      BY <2>5, <3>2, GoesIs DEF Reaches, Covers
    <3>4. EndOf(o) \in Own(h)
      BY <2>4, <2>5, <3>2, <3>3, DeletionOf
    <3> QED
      BY <1>0, <2>2, <3>2, <3>4, EndStays
  <2> QED
    BY <1>0, <2>2, <2>4, <2>5
<1> QED
  BY <1>0, <1>1, <1>3, <1>4

LEMMA CopiedIs ==
    ASSUME NEW a \in Nat, NEW b \in Nat, a >= 1, b >= 1
    PROVE /\ Copied(a, b - 1) \in Seq(Copies)
          /\ Len(Copied(a, b - 1)) = (IF a < b THEN b - a ELSE 0)
          /\ \A i \in 1..Len(Copied(a, b - 1)) : Copied(a, b - 1)[i].pos = a + i - 1
<1> DEFINE n == IF b - 1 < a THEN 0 ELSE (b - 1) - a + 1
           x(i) == [pos |-> a + i - 1, nums |-> <<>>]
           c == [i \in 1..n |-> x(i)]
<1>1. n \in Nat /\ n = (IF a < b THEN b - a ELSE 0)
  OBVIOUS
<1>2. Copied(a, b - 1) = c
  BY DEF Copied
<1> HIDE DEF n
<1>3. \A i \in 1..n : x(i) \in Copies /\ x(i).pos = a + i - 1
  <2> TAKE i \in 1..n
  <2>1. a + i - 1 \in Nat /\ <<>> \in Seq(Int)
    BY <1>1
  <2> QED
    BY <2>1 DEF Copies
<1> HIDE DEF x
<1>4. c \in Seq(Copies) /\ Len(c) = n
  BY <1>1, <1>3
<1>5. \A i \in 1..n : c[i].pos = a + i - 1
  BY <1>3
<1> QED
  BY <1>1, <1>2, <1>4, <1>5

\* The text is copied up to the next edit.
LEMMA CopyUp ==
    ASSUME Settled, Written, NEW T, NEW q, NEW s, Prunes(T, q, s),
           NEW a \in 1..Len(text) + 1, \A n \in T : a <= edits[n].at
    PROVE Prunes(T, Above(q, a), s \o Copied(q, a - 1))
<1> DEFINE c == Copied(q, a - 1)
           u == s \o c
           r == Above(q, a)
           L == Len(s)
<1>0. /\ Len(text) \in Nat /\ q \in Nat /\ q >= 1 /\ q <= Len(text) + 1 /\ a \in Nat /\ a >= 1
      /\ a <= Len(text) + 1
      /\ T \subseteq 1..Len(edits) /\ s \in Seq(Copies) /\ L \in Nat
  <2>1. Len(text) \in Nat
    BY SettledTree DEF Tree
  <2> QED
    BY <2>1 DEF Prunes
<1>1. r \in Nat /\ r >= 1 /\ r <= Len(text) + 1 /\ q <= r /\ a <= r /\ (a <= q => r = q) /\ (q < a => r = a)
  BY <1>0 DEF Above
<1>2. /\ c \in Seq(Copies) /\ Len(c) = r - q /\ Len(c) \in Nat
      /\ \A i \in 1..r - q : c[i].pos = q + i - 1
  <2>1. /\ c \in Seq(Copies) /\ Len(c) = (IF q < a THEN a - q ELSE 0)
        /\ \A i \in 1..Len(c) : c[i].pos = q + i - 1
    BY <1>0, CopiedIs
  <2>2. Len(c) = r - q
    BY <1>0, <1>1, <2>1
  <2> HIDE DEF c, r
  <2> QED
    BY <1>0, <1>1, <2>1, <2>2
<1> HIDE DEF c, r
<1>3. /\ u \in Seq(Copies) /\ Len(u) = L + (r - q)
      /\ \A i \in 1..L : u[i] = s[i]
      /\ \A i \in L + 1 .. L + (r - q) : u[i].pos = q + (i - L) - 1
  <2>1. /\ s \o c \in Seq(Copies) /\ Len(s \o c) = Len(s) + Len(c)
        /\ \A i \in 1..Len(s) : (s \o c)[i] = s[i]
        /\ \A i \in Len(s) + 1 .. Len(s) + Len(c) : (s \o c)[i] = c[i - Len(s)]
    BY <1>0, <1>2, ConcatIs
  <2>2. \A i \in L + 1 .. L + (r - q) : i - L \in 1..r - q
    BY <1>0, <1>1
  <2>3. \A i \in L + 1 .. L + (r - q) : u[i] = c[i - L]
    BY <1>2, <2>1
  <2> HIDE DEF u, L
  <2>4. \A i \in L + 1 .. L + (r - q) : u[i].pos = q + (i - L) - 1
    BY <1>2, <2>2, <2>3
  <2> QED
    BY <1>2, <2>1, <2>4 DEF u, L
<1> HIDE DEF u
<1>4. \A i \in 1..L : s[i].pos \in Nat
  <2>1. \A i \in 1..L : s[i] \in Copies
    BY <1>0
  <2> HIDE DEF L
  <2> QED
    BY <2>1 DEF Copies
<1>5. /\ \A m \in 1..Len(edits) \ T, n \in T : Precedes(m, n)
      /\ \A m \in 1..Len(edits) \ T : edits[m].rank = 0 => edits[m].to < q
      /\ \A p \in Nat \ {0} : Shows(p, s) <=> p < q /\ \A n \in 1..Len(edits) \ T : ~ Covers(n, p)
      /\ \A i, j \in 1..L : i < j /\ s[i].pos # 0 /\ s[j].pos # 0 => s[i].pos < s[j].pos
      /\ \A i \in 1..L, n \in T : s[i].pos < edits[n].at
  BY DEF Prunes
<1> HIDE DEF L
<1>6. \A i \in 1..Len(u) : i \in 1..L \/ (i \in L + 1 .. L + (r - q) /\ u[i].pos \in q .. r - 1)
  <2> TAKE i \in 1..Len(u)
  <2>1. i \in 1..L \/ i \in L + 1 .. L + (r - q)
    BY <1>0, <1>1, <1>3
  <2>2. i \in L + 1 .. L + (r - q) => q + (i - L) - 1 \in q .. r - 1
    BY <1>0, <1>1
  <2> QED
    BY <1>3, <2>1, <2>2
<1>7. \A i \in 1..L : s[i].pos < q
  <2> TAKE i \in 1..L
  <2>1. CASE s[i].pos = 0
    BY <1>0, <2>1
  <2>2. CASE s[i].pos # 0
    <3>1. Shows(s[i].pos, s) /\ s[i].pos \in Nat \ {0}
      BY <1>4, <2>2 DEF Shows, L
    <3> QED
      BY <1>5, <3>1
  <2> QED
    BY <2>1, <2>2
<1>8. \A m \in 1..Len(edits) \ T : edits[m].rank = 0 => edits[m].to < r
  <2> TAKE m \in 1..Len(edits) \ T
  <2>1. edits[m].to \in Nat
    BY EditIs
  <2> QED
    BY <1>0, <1>1, <1>5, <2>1
<1>9. ASSUME NEW p \in Nat \ {0}
      PROVE Shows(p, u) <=> p < r /\ \A n \in 1..Len(edits) \ T : ~ Covers(n, p)
  <2>1. Shows(p, s) <=> p < q /\ \A n \in 1..Len(edits) \ T : ~ Covers(n, p)
    BY <1>5
  <2>2. p >= q => \A n \in 1..Len(edits) \ T : ~ Covers(n, p)
    <3> SUFFICES ASSUME p >= q, NEW n \in 1..Len(edits) \ T, Covers(n, p) PROVE FALSE
      OBVIOUS
    <3>1. edits[n].to < q /\ p <= edits[n].to
      BY <1>5 DEF Covers
    <3>2. edits[n].to \in Nat
      BY EditIs
    <3> QED
      BY <1>0, <3>1, <3>2
  <2>3. CASE p < q
    <3>1. Shows(p, u) <=> Shows(p, s)
      <4>1. ASSUME NEW i \in 1..Len(u), u[i].pos = p PROVE Shows(p, s)
        <5>1. i \in 1..L
          BY <1>0, <1>1, <1>6, <2>3, <4>1
        <5> QED
          BY <1>3, <4>1, <5>1 DEF Shows, L
      <4>2. ASSUME NEW i \in 1..L, s[i].pos = p PROVE Shows(p, u)
        <5>1. i \in 1..Len(u)
          BY <1>0, <1>1, <1>3
        <5> QED
          BY <1>3, <4>2, <5>1 DEF Shows
      <4> QED
        BY <4>1, <4>2 DEF Shows, L
    <3>2. p < r
      BY <1>0, <1>1, <2>3
    <3> QED
      BY <2>1, <2>3, <3>1, <3>2
  <2>4. CASE p >= q
    <3>1. ASSUME p < r PROVE Shows(p, u)
      <4>1. L + (p - q) + 1 \in L + 1 .. L + (r - q) /\ L + (p - q) + 1 \in 1..Len(u)
        BY <1>0, <1>1, <1>3, <2>4, <3>1
      <4>2. q + ((L + (p - q) + 1) - L) - 1 = p
        BY <1>0
      <4>3. u[L + (p - q) + 1].pos = p
        BY <1>3, <4>1, <4>2
      <4> QED
        BY <4>1, <4>3 DEF Shows
    <3>2. ASSUME Shows(p, u) PROVE p < r
      <4>1. PICK i \in 1..Len(u) : u[i].pos = p
        BY <3>2 DEF Shows
      <4>2. CASE i \in 1..L
        BY <1>0, <1>3, <1>7, <2>4, <4>1, <4>2
      <4>3. CASE u[i].pos \in q .. r - 1
        BY <1>0, <1>1, <4>1, <4>3
      <4> QED
        BY <1>6, <4>2, <4>3
    <3> QED
      BY <2>2, <2>4, <3>1, <3>2
  <2> QED
    BY <1>0, <2>3, <2>4
<1>10. ASSUME NEW i \in 1..Len(u), NEW j \in 1..Len(u), i < j, u[i].pos # 0, u[j].pos # 0
       PROVE u[i].pos < u[j].pos
  <2>1. CASE i \in 1..L /\ j \in 1..L
    BY <1>3, <1>5, <1>10, <2>1
  <2>2. CASE i \in 1..L /\ j \in L + 1 .. L + (r - q) /\ u[j].pos \in q .. r - 1
    <3>1. u[i].pos < q /\ u[i].pos \in Nat
      BY <1>3, <1>4, <1>7, <2>2
    <3>2. u[j].pos \in Int /\ q <= u[j].pos
      BY <1>0, <1>1, <2>2
    <3> QED
      BY <1>0, <3>1, <3>2
  <2>3. CASE i \in L + 1 .. L + (r - q) /\ j \in L + 1 .. L + (r - q)
    <3>1. u[i].pos = q + (i - L) - 1 /\ u[j].pos = q + (j - L) - 1
      BY <1>3, <2>3
    <3> QED
      BY <1>0, <1>1, <1>10, <2>3, <3>1
  <2>4. CASE i \in L + 1 .. L + (r - q) /\ j \in 1..L
    BY <1>0, <1>1, <1>10, <2>4
  <2> QED
    BY <1>6, <2>1, <2>2, <2>3, <2>4
<1>11. ASSUME NEW i \in 1..Len(u), NEW n \in T PROVE u[i].pos < edits[n].at
  <2>1. a <= edits[n].at /\ edits[n].at \in Nat
    BY <1>0, EditIs
  <2>2. CASE i \in 1..L
    BY <1>3, <1>5, <2>2
  <2>3. CASE i \in L + 1 .. L + (r - q) /\ u[i].pos \in q .. r - 1
    <3>1. q < r
      BY <1>0, <1>1, <2>3
    <3>2. r = a
      BY <1>0, <1>1, <3>1
    <3>3. u[i].pos \in Int /\ u[i].pos <= a - 1
      BY <1>0, <2>3, <3>2
    <3> QED
      BY <1>0, <2>1, <3>3, SMTT(20)
  <2> QED
    BY <1>6, <2>2, <2>3
<1>12. ASSUME NEW i \in 1..L, NEW n \in 1..Len(edits), StandsFor(i, n, s, q)
       PROVE StandsFor(i, n, u, r) /\ i \in 1..Len(u)
  <2>1. u[i] = s[i] /\ i \in 1..Len(u)
    BY <1>0, <1>1, <1>3
  <2>2. CASE i < L
    <3>1. i + 1 \in 1..L /\ i # L /\ i # Len(u)
      BY <1>0, <1>1, <1>3, <2>2
    <3>2. u[i + 1] = s[i + 1]
      BY <1>3, <3>1
    <3> QED
      BY <1>12, <2>1, <3>1, <3>2 DEF StandsFor, L
  <2>3. CASE i = L /\ q < r
    <3>1. i + 1 \in L + 1 .. L + (r - q) /\ q + ((i + 1) - L) - 1 = q /\ i # Len(u)
      BY <1>0, <1>1, <1>3, <2>3
    <3>2. u[i + 1].pos = q
      BY <1>3, <3>1
    <3> QED
      BY <1>12, <2>1, <2>3, <3>1, <3>2 DEF StandsFor, L
  <2>4. CASE i = L /\ q = r
    <3>1. Len(u) = L
      BY <1>0, <1>3, <2>4
    <3> QED
      BY <1>12, <2>1, <2>4, <3>1 DEF StandsFor, L
  <2> QED
    BY <1>0, <1>1, <2>2, <2>3, <2>4
<1>13. ASSUME LedClosely
       PROVE /\ \A n \in T : edits[n].rank = 1 => r <= edits[n].at
             /\ \A i \in 1..Len(u) : u[i].pos = 0 =>
                   \E n \in 1..Len(edits) \ T : edits[n].rank = 1 /\ StandsFor(i, n, u, r)
             /\ \A n \in 1..Len(edits) \ T : edits[n].rank = 1 => \E i \in 1..Len(u) : StandsFor(i, n, u, r)
  <2>0. /\ \A n \in T : edits[n].rank = 1 => q <= edits[n].at
        /\ \A i \in 1..L : s[i].pos = 0 =>
              \E n \in 1..Len(edits) \ T : edits[n].rank = 1 /\ StandsFor(i, n, s, q)
        /\ \A n \in 1..Len(edits) \ T : edits[n].rank = 1 => \E i \in 1..L : StandsFor(i, n, s, q)
    BY <1>13 DEF Prunes, L
  <2>1. \A n \in T : edits[n].rank = 1 => r <= edits[n].at
    BY <1>0, <1>1, <2>0
  <2>2. ASSUME NEW i \in 1..Len(u), u[i].pos = 0
        PROVE \E n \in 1..Len(edits) \ T : edits[n].rank = 1 /\ StandsFor(i, n, u, r)
    <3>1. i \in 1..L
      BY <1>0, <1>1, <1>6, <2>2
    <3>2. PICK n \in 1..Len(edits) \ T : edits[n].rank = 1 /\ StandsFor(i, n, s, q)
      BY <1>3, <2>0, <2>2, <3>1
    <3> QED
      BY <1>12, <3>1, <3>2
  <2>3. ASSUME NEW n \in 1..Len(edits) \ T, edits[n].rank = 1
        PROVE \E i \in 1..Len(u) : StandsFor(i, n, u, r)
    BY <1>12, <2>0, <2>3
  <2> QED
    BY <2>1, <2>2, <2>3
<1>14. Prunes(T, r, u)
  <2>1. r \in 1..Len(text) + 1
    BY <1>0, <1>1
  <2> QED
    BY <1>0, <1>3, <1>5, <1>8, <1>9, <1>10, <1>11, <1>13, <2>1 DEF Prunes
<1> QED
  BY <1>14 DEF u, r, c

IsFirst(f, T) == f \in T /\ \A j \in T : Precedes(f, j)

\* There is an edit to apply next.
LEMMA FirstIs ==
    ASSUME Settled, Written, NEW T \in SUBSET (1..Len(edits)), T # {}
    PROVE \E f \in T : IsFirst(f, T)
<1> DEFINE A == {edits[n].at : n \in T}
<1>1. \A n \in T : n \in Nat /\ edits[n].at \in Nat /\ edits[n].rank \in Nat
  BY EditIs
<1>2. PICK a \in A : \A x \in A : a <= x
  <2>1. A \in SUBSET Nat /\ A # {}
    BY <1>1
  <2> HIDE DEF A
  <2> QED
    BY <2>1, LeastIn
<1> DEFINE R == {edits[n].rank : n \in {m \in T : edits[m].at = a}}
<1>3. PICK r \in R : \A x \in R : r <= x
  <2>1. R \in SUBSET Nat /\ R # {}
    BY <1>1, <1>2
  <2> HIDE DEF R
  <2> QED
    BY <2>1, LeastIn
<1> DEFINE I == {n \in T : edits[n].at = a /\ edits[n].rank = r}
<1>4. PICK f \in I : \A x \in I : f <= x
  <2>1. I \in SUBSET Nat /\ I # {}
    BY <1>1, <1>3
  <2> HIDE DEF I
  <2> QED
    BY <2>1, LeastIn
<1>5. f \in T /\ edits[f].at = a /\ edits[f].rank = r
  BY <1>4
<1>6. ASSUME NEW j \in T PROVE Precedes(f, j)
  <2>1. a <= edits[j].at
    BY <1>2
  <2>2. edits[j].at = a => r <= edits[j].rank
    BY <1>3
  <2>3. edits[j].at = a /\ edits[j].rank = r => f <= j
    BY <1>4
  <2>4. edits[j].at \in Nat /\ a \in Nat /\ edits[j].rank \in Nat /\ r \in Nat
    BY <1>1, <1>5
  <2> HIDE DEF A, R, I
  <2> QED
    BY <1>5, <2>1, <2>2, <2>3, <2>4 DEF Precedes
<1> QED
  BY <1>5, <1>6 DEF IsFirst

LEMMA FirstComes ==
    ASSUME Settled, Written, NEW T \in SUBSET (1..Len(edits)), NEW f, IsFirst(f, T)
    PROVE \A n \in T : edits[f].at <= edits[n].at
<1> TAKE n \in T
<1>1. f \in 1..Len(edits) /\ Precedes(f, n)
  BY DEF IsFirst
<1>2. edits[f].at \in Nat /\ edits[n].at \in Nat
  BY <1>1, EditIs
<1> QED
  BY <1>1, <1>2 DEF Precedes

\* A deletion is passed over.
LEMMA SkipOver ==
    ASSUME Settled, Written, NEW T, NEW q, NEW s, Prunes(T, q, s),
           NEW f, IsFirst(f, T), edits[f].rank = 0, edits[f].at <= q
    PROVE Prunes(T \ {f}, Above(q, edits[f].to + 1), s)
<1> DEFINE a == edits[f].at
           b == edits[f].to
           r == Above(q, b + 1)
           D == 1..Len(edits) \ T
           E == 1..Len(edits) \ (T \ {f})
<1>0. /\ T \subseteq 1..Len(edits) /\ f \in T /\ f \in 1..Len(edits) /\ s \in Seq(Copies)
      /\ q \in Nat /\ q >= 1 /\ q <= Len(text) + 1 /\ Len(text) \in Nat
  <2>1. Len(text) \in Nat
    BY SettledTree DEF Tree
  <2> QED
    BY <2>1 DEF Prunes, IsFirst
<1>1. a \in Nat /\ b \in Nat /\ a >= 1 /\ a <= b /\ b <= Len(text)
  BY <1>0, EditIs
<1>2. r \in Nat /\ r >= 1 /\ r <= Len(text) + 1 /\ q <= r /\ b < r /\ (q > b => r = q) /\ (q <= b => r = b + 1)
  BY <1>0, <1>1 DEF Above
<1>3. /\ \A m \in D, n \in T : Precedes(m, n)
      /\ \A m \in D : edits[m].rank = 0 => edits[m].to < q
      /\ \A p \in Nat \ {0} : Shows(p, s) <=> p < q /\ \A n \in D : ~ Covers(n, p)
      /\ \A i, j \in 1..Len(s) : i < j /\ s[i].pos # 0 /\ s[j].pos # 0 => s[i].pos < s[j].pos
      /\ \A i \in 1..Len(s), n \in T : s[i].pos < edits[n].at
  BY DEF Prunes
<1>4. \A m : m \in E <=> m \in D \/ m = f
  BY <1>0
<1> HIDE DEF r, D, E
<1>5. \A m \in E, n \in T \ {f} : Precedes(m, n)
  BY <1>3, <1>4 DEF IsFirst
<1>6. \A m \in E : edits[m].rank = 0 => edits[m].to < r
  <2> TAKE m \in E
  <2>1. CASE m = f
    BY <1>2, <2>1
  <2>2. CASE m \in D
    <3>1. edits[m].to \in Nat
      BY <2>2, EditIs DEF D
    <3> QED
      BY <1>0, <1>2, <1>3, <2>2, <3>1
  <2> QED
    BY <1>4, <2>1, <2>2
<1>7. ASSUME NEW p \in Nat \ {0}
      PROVE Shows(p, s) <=> p < r /\ \A n \in E : ~ Covers(n, p)
  <2>1. Shows(p, s) <=> p < q /\ \A n \in D : ~ Covers(n, p)
    BY <1>3
  <2>2. Covers(f, p) <=> a <= p /\ p <= b
    BY DEF Covers
  <2>3. ASSUME Shows(p, s) PROVE p < r /\ \A n \in E : ~ Covers(n, p)
    <3>1. PICK i \in 1..Len(s) : s[i].pos = p
      BY <2>3 DEF Shows
    <3>2. p < a
      BY <1>0, <1>3, <3>1
    <3>3. p < r
      BY <1>0, <1>2, <2>1, <2>3
    <3>4. ~ Covers(f, p)
      BY <1>1, <2>2, <3>2
    <3> QED
      BY <1>4, <2>1, <2>3, <3>3, <3>4
  <2>4. ASSUME p < r, \A n \in E : ~ Covers(n, p) PROVE Shows(p, s)
    <3>1. ~ Covers(f, p) /\ \A n \in D : ~ Covers(n, p)
      BY <1>4, <2>4
    <3>2. p < q
      BY <1>0, <1>1, <1>2, <2>2, <2>4, <3>1
    <3> QED
      BY <2>1, <3>1, <3>2
  <2> QED
    BY <2>3, <2>4
<1>8. ASSUME LedClosely
       PROVE /\ \A n \in T \ {f} : edits[n].rank = 1 => r <= edits[n].at
             /\ \A i \in 1..Len(s) : s[i].pos = 0 =>
                   \E n \in E : edits[n].rank = 1 /\ StandsFor(i, n, s, r)
             /\ \A n \in E : edits[n].rank = 1 => \E i \in 1..Len(s) : StandsFor(i, n, s, r)
  <2>0. /\ \A n \in T : edits[n].rank = 1 => q <= edits[n].at
        /\ \A i \in 1..Len(s) : s[i].pos = 0 =>
              \E n \in D : edits[n].rank = 1 /\ StandsFor(i, n, s, q)
        /\ \A n \in D : edits[n].rank = 1 => \E i \in 1..Len(s) : StandsFor(i, n, s, q)
    BY <1>8 DEF Prunes, D
  <2>a. \A n \in 1..Len(edits) : edits[n].rank = 1 => edits[n].at \in Nat /\ ~ (a <= edits[n].at /\ edits[n].at <= b)
    <3> SUFFICES ASSUME NEW n \in 1..Len(edits), edits[n].rank = 1
                 PROVE edits[n].at \in Nat /\ ~ (a <= edits[n].at /\ edits[n].at <= b)
      OBVIOUS
    <3>1. edits[n].at \in Nat /\ ~ Covers(f, edits[n].at)
      BY <1>0, <1>8, EditIs
    <3> QED
      BY <3>1 DEF Covers
  <2>1. \A n \in T \ {f} : edits[n].rank = 1 => r <= edits[n].at
    <3> SUFFICES ASSUME NEW n \in T \ {f}, edits[n].rank = 1 PROVE r <= edits[n].at
      OBVIOUS
    <3>1. n \in 1..Len(edits) /\ q <= edits[n].at
      BY <1>0, <2>0
    <3>2. a <= edits[n].at
      BY <1>0, FirstComes
    <3>3. edits[n].at \in Nat /\ ~ (edits[n].at <= b)
      BY <2>a, <3>1, <3>2
    <3> QED
      BY <1>0, <1>1, <1>2, <3>1, <3>3
  <2>2. ASSUME NEW i \in 1..Len(s), NEW n \in 1..Len(edits), edits[n].rank = 1, StandsFor(i, n, s, q)
        PROVE StandsFor(i, n, s, r)
    <3>1. CASE i # Len(s)
      BY <2>2, <3>1 DEF StandsFor
    <3>2. CASE i = Len(s)
      <4>1. edits[n].at = q
        BY <2>2, <3>2 DEF StandsFor
      <4>2. ~ (q <= b)
        BY <2>2, <2>a, <4>1
      <4>3. r = q
        BY <1>0, <1>1, <1>2, <4>2
      <4> QED
        BY <2>2, <4>3
    <3> QED
      BY <3>1, <3>2
  <2>3. \A m \in D : m \in 1..Len(edits)
    BY DEF D
  <2>4. ASSUME NEW i \in 1..Len(s), s[i].pos = 0
        PROVE \E n \in E : edits[n].rank = 1 /\ StandsFor(i, n, s, r)
    <3>1. PICK n \in D : edits[n].rank = 1 /\ StandsFor(i, n, s, q)
      BY <2>0, <2>4
    <3> QED
      BY <1>4, <2>2, <2>3, <3>1
  <2>5. ASSUME NEW n \in E, edits[n].rank = 1 PROVE \E i \in 1..Len(s) : StandsFor(i, n, s, r)
    <3>1. n \in D
      BY <1>4, <2>5
    <3>2. PICK i \in 1..Len(s) : StandsFor(i, n, s, q)
      BY <2>0, <2>5, <3>1
    <3> QED
      BY <2>2, <2>3, <2>5, <3>1, <3>2
  <2> QED
    BY <2>1, <2>4, <2>5
<1>9. Prunes(T \ {f}, r, s)
  <2>1. T \ {f} \subseteq 1..Len(edits) /\ r \in 1..Len(text) + 1
    BY <1>0, <1>2
  <2>2. \A i \in 1..Len(s), n \in T \ {f} : s[i].pos < edits[n].at
    BY <1>3
  <2> QED
    BY <1>0, <1>3, <1>5, <1>6, <1>7, <1>8, <2>1, <2>2 DEF Prunes, E
<1> QED
  BY <1>9 DEF r

\* A statement is inserted.
LEMMA PutIn ==
    ASSUME Settled, Written, NEW T, NEW q, NEW s, Prunes(T, q, s),
           NEW f, IsFirst(f, T), edits[f].rank = 1, edits[f].at <= q
    PROVE Prunes(T \ {f}, q, s \o Statement(edits[f].nums))
<1> DEFINE a == edits[f].at
           x == [pos |-> 0, nums |-> edits[f].nums]
           u == s \o Statement(edits[f].nums)
           D == 1..Len(edits) \ T
           E == 1..Len(edits) \ (T \ {f})
           L == Len(s)
<1>0. /\ T \subseteq 1..Len(edits) /\ f \in T /\ f \in 1..Len(edits) /\ s \in Seq(Copies) /\ L \in Nat
      /\ q \in 1..Len(text) + 1 /\ q \in Nat
  <2>1. Len(text) \in Nat
    BY SettledTree DEF Tree
  <2> QED
    BY <2>1 DEF Prunes, IsFirst
<1>1. a \in Nat /\ edits[f].nums \in Seq(Int)
  BY <1>0, EditIs
<1>2. x \in Copies /\ x.pos = 0 /\ x.nums = edits[f].nums
  BY <1>1 DEF Copies
<1>3. /\ u \in Seq(Copies) /\ Len(u) = L + 1 /\ u[L + 1] = x
      /\ \A i \in 1..L : u[i] = s[i]
  <2>1. u = s \o <<x>>
    BY DEF Statement
  <2> HIDE DEF x
  <2>2. <<x>> \in Seq(Copies) /\ Len(<<x>>) = 1 /\ <<x>>[1] = x
    BY <1>2
  <2> QED
    BY <1>0, <2>1, <2>2
<1>4. /\ \A m \in D, n \in T : Precedes(m, n)
      /\ \A m \in D : edits[m].rank = 0 => edits[m].to < q
      /\ \A p \in Nat \ {0} : Shows(p, s) <=> p < q /\ \A n \in D : ~ Covers(n, p)
      /\ \A i, j \in 1..L : i < j /\ s[i].pos # 0 /\ s[j].pos # 0 => s[i].pos < s[j].pos
      /\ \A i \in 1..L, n \in T : s[i].pos < edits[n].at
  BY DEF Prunes
<1>5. \A m : m \in E <=> m \in D \/ m = f
  BY <1>0
<1> HIDE DEF u, x, D, E, L
<1>6. \A i \in 1..Len(u) : i \in 1..L \/ (i = L + 1 /\ u[i].pos = 0)
  BY <1>0, <1>2, <1>3
<1>7. \A m \in E, n \in T \ {f} : Precedes(m, n)
  BY <1>4, <1>5 DEF IsFirst
<1>8. \A m \in E : edits[m].rank = 0 => edits[m].to < q
  BY <1>4, <1>5
<1>9. ASSUME NEW p \in Nat \ {0} PROVE Shows(p, u) <=> p < q /\ \A n \in E : ~ Covers(n, p)
  <2>1. Shows(p, u) <=> Shows(p, s)
    <3>1. ASSUME NEW i \in 1..Len(u), u[i].pos = p PROVE Shows(p, s)
      BY <1>3, <1>6, <3>1 DEF Shows, L
    <3>2. ASSUME NEW i \in 1..L, s[i].pos = p PROVE Shows(p, u)
      <4>1. i \in 1..Len(u)
        BY <1>0, <1>3
      <4> QED
        BY <1>3, <3>2, <4>1 DEF Shows
    <3> QED
      BY <3>1, <3>2 DEF Shows, L
  <2>2. ~ Covers(f, p)
    BY DEF Covers
  <2> QED
    BY <1>4, <1>5, <2>1, <2>2
<1>10. \A i, j \in 1..Len(u) : i < j /\ u[i].pos # 0 /\ u[j].pos # 0 => u[i].pos < u[j].pos
  BY <1>3, <1>4, <1>6
<1>11. ASSUME NEW i \in 1..Len(u), NEW n \in T \ {f} PROVE u[i].pos < edits[n].at
  <2>1. n \in 1..Len(edits)
    BY <1>0
  <2>2. edits[n].at \in Nat /\ edits[n].at >= 1
    BY <2>1, EditIs
  <2> QED
    BY <1>3, <1>4, <1>6, <2>2
<1>12. ASSUME LedClosely
       PROVE /\ \A n \in T \ {f} : edits[n].rank = 1 => q <= edits[n].at
             /\ \A i \in 1..Len(u) : u[i].pos = 0 =>
                   \E n \in E : edits[n].rank = 1 /\ StandsFor(i, n, u, q)
             /\ \A n \in E : edits[n].rank = 1 => \E i \in 1..Len(u) : StandsFor(i, n, u, q)
  <2>0. /\ \A n \in T : edits[n].rank = 1 => q <= edits[n].at
        /\ \A i \in 1..L : s[i].pos = 0 =>
              \E n \in D : edits[n].rank = 1 /\ StandsFor(i, n, s, q)
        /\ \A n \in D : edits[n].rank = 1 => \E i \in 1..L : StandsFor(i, n, s, q)
    BY <1>12 DEF Prunes, D, L
  <2>1. a = q
    BY <1>0, <1>1, <2>0
  <2>2. StandsFor(L + 1, f, u, q) /\ L + 1 \in 1..Len(u)
    BY <1>0, <1>2, <1>3, <2>1 DEF StandsFor
  <2>3. ASSUME NEW i \in 1..L, NEW n \in D, edits[n].rank = 1, StandsFor(i, n, s, q)
        PROVE StandsFor(i, n, u, q) /\ i \in 1..Len(u)
    <3>1. u[i] = s[i] /\ i \in 1..Len(u) /\ i # Len(u)
      BY <1>0, <1>3
    <3>2. CASE i < L
      <4>1. i + 1 \in 1..L /\ i # L
        BY <1>0, <3>2
      <4> QED
        BY <1>3, <2>3, <3>1, <4>1 DEF StandsFor, L
    <3>3. CASE i = L
      <4>1. edits[n].at = edits[f].at
        BY <2>1, <2>3, <3>3 DEF StandsFor, L
      <4>2. n \in 1..Len(edits) /\ n # f
        BY <1>0 DEF D
      <4> QED
        BY <1>0, <2>3, <4>1, <4>2 DEF Written
    <3> QED
      BY <1>0, <3>2, <3>3
  <2>4. ASSUME NEW i \in 1..Len(u), u[i].pos = 0
        PROVE \E n \in E : edits[n].rank = 1 /\ StandsFor(i, n, u, q)
    <3>1. CASE i \in 1..L
      BY <1>3, <1>5, <2>0, <2>3, <2>4, <3>1
    <3>2. CASE i = L + 1
      BY <1>5, <2>2, <3>2
    <3> QED
      BY <1>6, <3>1, <3>2
  <2>5. ASSUME NEW n \in E, edits[n].rank = 1 PROVE \E i \in 1..Len(u) : StandsFor(i, n, u, q)
    BY <1>5, <2>0, <2>2, <2>3, <2>5
  <2> QED
    BY <2>0, <2>4, <2>5
<1>13. Prunes(T \ {f}, q, u)
  <2>1. T \ {f} \subseteq 1..Len(edits)
    BY <1>0
  <2> QED
    BY <1>0, <1>3, <1>7, <1>8, <1>9, <1>10, <1>11, <1>12, <2>1 DEF Prunes, E
<1> QED
  BY <1>13 DEF u

\* Nothing is applied yet.
LEMMA PrunesNothing ==
    ASSUME Settled, Written PROVE Prunes(1..Len(edits), 1, <<>>)
<1>1. Len(text) \in Nat
  BY SettledTree DEF Tree
<1>2. \A p \in Nat \ {0} : ~ Shows(p, <<>>) /\ ~ (p < 1)
  BY DEF Shows
<1>3. \A n \in 1..Len(edits) : 1 <= edits[n].at
  BY EditIs
<1>4. 1..Len(edits) \ 1..Len(edits) = {} /\ 1 \in 1..Len(text) + 1 /\ <<>> \in Seq(Copies)
      /\ Len(<<>>) = 0 /\ 1..0 = {}
  BY <1>1
<1> QED
  BY <1>1, <1>2, <1>3, <1>4 DEF Prunes

-----------------------------------------------------------------------------
(* What has come of the text in the end.                                   *)

Pruned == Prunes({}, Len(text) + 1, out)

LEMMA PrunedIs ==
    ASSUME Settled, Written, Pruned
    PROVE /\ Len(text) \in Nat /\ out \in Seq(Copies) /\ DOMAIN out = 1..Len(out) /\ Len(out) \in Nat
          /\ \A i \in 1..Len(out) : out[i].pos \in Nat
          /\ \A p \in Nat \ {0} : Shows(p, out) <=>
                p <= Len(text) /\ \A n \in 1..Len(edits) : ~ Covers(n, p)
<1>1. Len(text) \in Nat /\ out \in Seq(Copies)
  BY SettledTree DEF Tree, Pruned, Prunes
<1>2. \A i \in 1..Len(out) : out[i] \in Copies
  BY <1>1
<1>3. \A i \in 1..Len(out) : out[i].pos \in Nat
  BY <1>2 DEF Copies
<1>4. \A p \in Nat \ {0} : Shows(p, out) <=>
          p < Len(text) + 1 /\ \A n \in 1..Len(edits) \ {} : ~ Covers(n, p)
  BY DEF Pruned, Prunes
<1>5. \A p \in Nat \ {0} : p < Len(text) + 1 <=> p <= Len(text)
  BY <1>1
<1> QED
  BY <1>1, <1>3, <1>4, <1>5

LEMMA LeftIs ==
    ASSUME Settled, Written, AllHandled, LedClosely, Pruned
    PROVE \A p \in Nat \ {0} : Shows(p, out) <=> p <= Len(text) /\ p \notin Going
<1> TAKE p \in Nat \ {0}
<1>1. p \in Going <=> \E n \in 1..Len(edits) : Covers(n, p)
  BY CoversGoing
<1> QED
  BY <1>1, PrunedIs

LEMMA OnlyDeletedHasGone ==
    ASSUME Settled, Written, AllHandled, LedClosely, Pruned PROVE OnlyDeletedGoes
<1> DEFINE S == {out[i].pos : i \in DOMAIN out} \ {0}
<1>1. ASSUME NEW p PROVE p \in S <=> p \in 1..Len(text) \ Going
  <2>0. /\ Len(text) \in Nat /\ DOMAIN out = 1..Len(out)
        /\ \A i \in 1..Len(out) : out[i].pos \in Nat
    BY PrunedIs
  <2>1. p \in S <=> p \in Nat \ {0} /\ Shows(p, out)
    BY <2>0 DEF Shows
  <2>2. p \in Nat \ {0} => (Shows(p, out) <=> p <= Len(text) /\ p \notin Going)
    BY LeftIs
  <2>3. p \in 1..Len(text) <=> p \in Nat \ {0} /\ p <= Len(text)
    BY <2>0
  <2> HIDE DEF S
  <2> QED
    BY <2>1, <2>2, <2>3
<1>2. \A i, j \in DOMAIN out :
        i < j /\ out[i].pos > 0 /\ out[j].pos > 0 => out[i].pos < out[j].pos
  <2>1. DOMAIN out = 1..Len(out) /\ \A i \in 1..Len(out) : out[i].pos \in Nat
    BY PrunedIs
  <2>2. \A i, j \in 1..Len(out) :
            i < j /\ out[i].pos # 0 /\ out[j].pos # 0 => out[i].pos < out[j].pos
    BY DEF Pruned, Prunes
  <2> QED
    BY <2>1, <2>2
<1>3. S = 1..Len(text) \ Going
  <2> HIDE DEF S
  <2> QED
    BY <1>1
<1> QED
  BY <1>2, <1>3 DEF OnlyDeletedGoes

LEMMA NumbersAreReserved ==
    ASSUME Settled, Written, AllHandled, LedClosely, Legal, Pruned PROVE ReservedOnce
<1>0. Len(text) \in Nat /\ DOMAIN out = 1..Len(out) /\ Len(out) \in Nat
  BY PrunedIs
<1>1. ASSUME NEW i \in 1..Len(out), NEW n \in 1..Len(edits), edits[n].rank = 1,
             StandsFor(i, n, out, Len(text) + 1)
      PROVE i < Len(out) /\ out[i+1].pos = edits[n].at /\ out[i].nums = edits[n].nums /\ out[i].pos = 0
  <2>1. edits[n].at < Len(text) /\ edits[n].at \in Nat
    BY <1>1, EditIs
  <2>2. i # Len(out)
    <3> SUFFICES ASSUME i = Len(out) PROVE FALSE
      OBVIOUS
    <3>1. edits[n].at = Len(text) + 1
      BY <1>1, Zenon DEF StandsFor
    <3> QED
      BY <1>0, <2>1, <3>1
  <2> QED
    BY <1>0, <1>1, <2>2 DEF StandsFor
<1>2. /\ \A i \in 1..Len(out) : out[i].pos = 0 =>
            \E n \in 1..Len(edits) : edits[n].rank = 1 /\ StandsFor(i, n, out, Len(text) + 1)
      /\ \A n \in 1..Len(edits) : edits[n].rank = 1 =>
            \E i \in 1..Len(out) : StandsFor(i, n, out, Len(text) + 1)
  BY DEF Pruned, Prunes
<1> DEFINE places == {i \in DOMAIN out : out[i].pos = 0}
<1>3. ASSUME NEW i \in places
      PROVE \E o \in Losing : i < Len(out) /\ out[i+1].pos = meta[o].end
  <2>1. i \in 1..Len(out) /\ out[i].pos = 0
    BY <1>0
  <2>2. PICK n \in 1..Len(edits) : edits[n].rank = 1 /\ StandsFor(i, n, out, Len(text) + 1)
    BY <1>2, <2>1
  <2>3. PICK o \in Losing : IsInsertion(edits[n], o)
    BY <2>2 DEF Written, IsCalledFor
  <2> QED
    BY <1>1, <2>1, <2>2, <2>3 DEF IsInsertion, EndOf
<1>4. ASSUME NEW o \in Losing
      PROVE \E i \in places :
                /\ out[i+1].pos = meta[o].end
                /\ Range(out[i].nums) = Lost(o)
                /\ \A j, k \in DOMAIN out[i].nums : j < k => out[i].nums[j] < out[i].nums[k]
  <2>1. PICK n \in 1..Len(edits) : IsInsertion(edits[n], o)
    BY DEF AllHandled, Answered
  <2>2. PICK i \in 1..Len(out) : StandsFor(i, n, out, Len(text) + 1)
    BY <1>2, <2>1 DEF IsInsertion
  <2>3. out[i+1].pos = edits[n].at /\ out[i].nums = edits[n].nums /\ i \in places
    BY <1>0, <1>1, <2>1, <2>2 DEF IsInsertion
  <2> QED
    BY <2>1, <2>3 DEF IsInsertion, EndOf
<1> QED
  BY <1>3, <1>4 DEF ReservedOnce

\* The items of an enum or of a oneof, as its visitor sees them.
LEMMA OfKindIs ==
    ASSUME Tree, NEW o \in Holders, NEW kind
    PROVE /\ OfKind(o, kind) \in Seq(Nat)
          /\ \A h : h \in Range(OfKind(o, kind)) <=> h \in Heads /\ IsIn(h, o) /\ Kind(h) = kind
          /\ OfKind(o, kind) # <<>> <=> \E h \in Heads : IsIn(h, o) /\ Kind(h) = kind
<1> DEFINE s == Items(o)
           S == {h \in Heads : Kind(h) = kind}
           t == OfKind(o, kind)
<1>1. s \in Seq(Nat) /\ \A h : IsIn(h, o) <=> \E i \in 1..Len(s) : s[i] = h
  BY DEF Tree
<1>2. Picks(t, s, S, Len(s))
  BY <1>1, ThoseIs DEF OfKind
<1>3. /\ t \in Seq(Nat)
      /\ \A h : (\E i \in 1..Len(t) : t[i] = h) <=> h \in S /\ \E i \in 1..Len(s) : s[i] = h
  BY <1>2 DEF Picks, Occurs
<1> HIDE DEF t, s
<1>4. \A h : h \in Range(t) <=> \E i \in 1..Len(t) : t[i] = h
  BY <1>3, RangeIs
<1>5. \A h : h \in Range(t) <=> h \in Heads /\ IsIn(h, o) /\ Kind(h) = kind
  BY <1>1, <1>3, <1>4
<1>6. t # <<>> <=> \E h : h \in Range(t)
  <2>1. t # <<>> => 1 \in 1..Len(t)
    BY <1>3
  <2>2. t = <<>> => 1..Len(t) = {}
    OBVIOUS
  <2> QED
    BY <1>4, <2>1, <2>2
<1> QED
  BY <1>3, <1>5, <1>6 DEF t

LEMMA WhatIsLeftIsLegal ==
    ASSUME Settled, Written, AllHandled, LedClosely, Legal, Pruned PROVE OutputIsLegal
<1> DEFINE left == {out[i].pos : i \in DOMAIN out}
<1>0. Tree /\ Picked /\ Len(text) \in Nat /\ DOMAIN out = 1..Len(out)
  BY SettledTree, PrunedIs DEF Settled
<1>1. \A h \in Heads : h \in left <=> h \notin Going
  <2> TAKE h \in Heads
  <2>1. h \in Nat \ {0} /\ h <= Len(text)
    BY <1>0 DEF Heads
  <2>2. h \in left <=> Shows(h, out)
    BY <1>0 DEF Shows
  <2> HIDE DEF left
  <2> QED
    BY <2>1, <2>2, LeftIs
<1> HIDE DEF left
<1>2. ASSUME NEW h \in Heads, Goes(h) PROVE h \in Going
  <2>1. h \in Own(h)
    <3>1. h \in Nat /\ EndOf(h) \in Nat /\ h <= EndOf(h)
      BY <1>0, <1>2, GoesIs DEF Tree
    <3> QED
      BY <3>1 DEF Own, EndOf
  <2> QED
    BY <1>2, <2>1 DEF Going
<1>3. ASSUME NEW o \in Things, o \notin Going, NEW h \in Heads, IsIn(h, o), Kind(h) # "text"
      PROVE h \in left <=> ~ Goes(h)
  <2>1. h \in Things
    BY <1>3 DEF Things
  <2>2. ~ Goes(h) => h \notin Going
    BY <1>0, <1>3, <2>1, StaysWithin
  <2> QED
    BY <1>1, <1>2, <2>2
<1>4. ASSUME NEW e \in Heads, e \in left, Kind(e) = "enum"
      PROVE Aliases(Values(e) \cap left) <=> \E a \in Range(OfKind(e, "alias")) : a \in left
  <2>0. e \in Things /\ e \in Holders /\ e \notin Going
    BY <1>1, <1>4 DEF Things, Holders
  <2>1. \A v : v \in Values(e) <=> v \in Heads /\ IsIn(v, e) /\ Kind(v) = "value"
    BY <1>0, <2>0, OfKindIs DEF Values
  <2>2. \A a : a \in Range(OfKind(e, "alias")) <=> a \in Heads /\ IsIn(a, e) /\ Kind(a) = "alias"
    BY <1>0, <2>0, OfKindIs
  <2>3. Values(e) \cap left = Values(e) \cap kept
    <3>1. \A v \in Values(e) : v \in left <=> v \in kept
      <4> TAKE v \in Values(e)
      <4>1. v \in Heads /\ IsIn(v, e) /\ Kind(v) = "value"
        BY <2>1
      <4>2. Goes(v) <=> v \notin kept
        BY <4>1 DEF Goes, Definitions
      <4> QED
        BY <1>3, <2>0, <4>1, <4>2
    <3> QED
      BY <3>1
  <2>4. ASSUME NEW a \in Range(OfKind(e, "alias"))
        PROVE a \in left <=> Values(e) \ kept = {} \/ Aliases(Values(e) \cap kept)
    <3>1. a \in Heads /\ IsIn(a, e) /\ Kind(a) = "alias"
      BY <2>2
    <3>2. a \in Things
      BY <3>1 DEF Things
    <3>3. Parent(a) = e
      BY <1>0, <2>0, <3>1, <3>2, ParentIs
    <3>4. Goes(a) <=> Values(e) \ kept # {} /\ ~ Aliases(Values(e) \cap kept)
      BY <3>1, <3>3 DEF Goes, Definitions
    <3>5. a \in left <=> ~ Goes(a)
      BY <1>3, <2>0, <3>1
    <3> QED
      BY <3>4, <3>5
  <2>5. Aliases(Values(e)) <=> \E a : a \in Range(OfKind(e, "alias"))
    <3>1. Aliases(Values(e)) <=> OfKind(e, "alias") # <<>>
      BY <1>4 DEF Legal
    <3>2. OfKind(e, "alias") # <<>> <=> \E h \in Heads : IsIn(h, e) /\ Kind(h) = "alias"
      BY <1>0, <2>0, OfKindIs
    <3> QED
      BY <2>2, <3>1, <3>2
  <2>6. Aliases(Values(e) \cap kept) => Aliases(Values(e))
    BY DEF Aliases
  <2>7. Values(e) \ kept = {} => Values(e) \cap kept = Values(e)
    OBVIOUS
  <2>8. CASE Values(e) \ kept = {}
    BY <2>3, <2>4, <2>5, <2>7, <2>8
  <2>9. CASE Values(e) \ kept # {}
    BY <2>3, <2>4, <2>5, <2>6, <2>9
  <2> QED
    BY <2>8, <2>9
<1>5. ASSUME NEW h \in Heads, h \in left, Kind(h) = "oneof", OfKind(h, "field") # <<>>
      PROVE Range(OfKind(h, "field")) \cap left # {}
  <2>1. h \in Things /\ h \in Holders /\ h \notin Going
    BY <1>1, <1>5 DEF Things, Holders
  <2>2. ~ Goes(h)
    BY <1>2, <2>1
  <2>3. PICK f \in Range(OfKind(h, "field")) : f \in kept
    BY <1>5, <2>2 DEF Goes
  <2>4. f \in Heads /\ IsIn(f, h) /\ Kind(f) = "field"
    BY <1>0, <2>1, OfKindIs
  <2>5. ~ Goes(f)
    BY <2>3, <2>4 DEF Goes, Definitions
  <2>6. f \in left
    BY <1>3, <2>1, <2>4, <2>5
  <2> QED
    BY <2>6
<1> QED
  BY <1>4, <1>5 DEF OutputIsLegal, left

-----------------------------------------------------------------------------
(* What the visit and apply_edits leave alone.                             *)

LEMMA SameLayout ==
    ASSUME UNCHANGED vars
    PROVE /\ Heads' = Heads /\ Things' = Things /\ Holders' = Holders /\ Root' = Root
          /\ Streams' = Streams /\ Symbols' = Symbols
          /\ \A h : EndOf(h)' = EndOf(h) /\ Kind(h)' = Kind(h) /\ Num(h)' = Num(h)
          /\ \A h : Notes(h)' = Notes(h) /\ Own(h)' = Own(h) /\ Span(h)' = Span(h)
          /\ \A o : Items(o)' = Items(o)
          /\ \A h, o : IsIn(h, o)' <=> IsIn(h, o)
          /\ \A h : Deletion(h)' = Deletion(h)
<1>1. text' = text /\ meta' = meta /\ block' = block /\ comments' = comments
  BY DEF vars, parsed
<1>2. /\ Heads' = Heads /\ Root' = Root /\ Streams' = Streams /\ WithBlock' = WithBlock
      /\ \A o : Opening(o)' = Opening(o)
  BY <1>1, SameText, SameTree DEF Root, Streams
<1>3. \A h : EndOf(h)' = EndOf(h) /\ Kind(h)' = Kind(h) /\ Num(h)' = Num(h)
  BY <1>1 DEF EndOf, Kind, Num
<1>4. Things' = Things /\ Holders' = Holders /\ Symbols' = Symbols
  BY <1>2, <1>3 DEF Things, Holders, Symbols
<1>5. \A h : Notes(h)' = Notes(h) /\ Own(h)' = Own(h) /\ Span(h)' = Span(h)
  BY <1>1 DEF Notes, Own, Span, At, EndOf
<1>6. \A o : Items(o)' = Items(o)
  BY <1>1, <1>2 DEF Items, Block, EmptyBlock
<1>7. \A h, o : IsIn(h, o)' <=> IsIn(h, o)
  BY <1>6 DEF IsIn
<1>8. \A h : Deletion(h)' = Deletion(h)
  BY <1>1 DEF Deletion, From, To, At, Del, Least, Greatest
<1> QED
  BY <1>1, <1>2, <1>3, <1>4, <1>5, <1>6, <1>7, <1>8

LEMMA SamePlaces ==
    ASSUME UNCHANGED <<vars, kept>>
    PROVE /\ Heads' = Heads /\ Things' = Things /\ Holders' = Holders /\ Root' = Root
          /\ Streams' = Streams /\ Symbols' = Symbols
          /\ \A h : EndOf(h)' = EndOf(h) /\ Kind(h)' = Kind(h) /\ Num(h)' = Num(h)
          /\ \A h : Notes(h)' = Notes(h) /\ Own(h)' = Own(h) /\ Span(h)' = Span(h)
          /\ \A o : Items(o)' = Items(o)
          /\ \A h, o : IsIn(h, o)' <=> IsIn(h, o)
          /\ \A h : Deletion(h)' = Deletion(h)
<1>1. UNCHANGED vars
  OBVIOUS
<1> QED
  BY <1>1, SameLayout

LEMMA SamePlan ==
    ASSUME UNCHANGED <<vars, kept>>
    PROVE /\ \A h : Goes(h)' <=> Goes(h)
          /\ Going' = Going
          /\ \A o : Fields(o)' = Fields(o) /\ Lost(o)' = Lost(o) /\ (Reached(o)' <=> Reached(o))
          /\ Losing' = Losing
          /\ Legal' <=> Legal
          /\ LedClosely' <=> LedClosely
<1>1. text' = text /\ kept' = kept /\ meta' = meta /\ comments' = comments
  BY DEF vars, parsed
<1>2. /\ Heads' = Heads /\ Root' = Root /\ Streams' = Streams
      /\ \A h : EndOf(h)' = EndOf(h) /\ Kind(h)' = Kind(h) /\ Num(h)' = Num(h)
      /\ \A h : Own(h)' = Own(h)
      /\ \A o : Items(o)' = Items(o)
      /\ \A h, o : IsIn(h, o)' <=> IsIn(h, o)
  BY SamePlaces
<1>3. \A o, kind : OfKind(o, kind)' = OfKind(o, kind)
  BY <1>2, ZenonT(40) DEF OfKind, Those
<1>4. /\ \A h : Parent(h)' = Parent(h)
      /\ \A o : Values(o)' = Values(o)
      /\ \A V : Aliases(V)' <=> Aliases(V)
  BY <1>2, <1>3 DEF Parent, Values, Aliases
<1>5. \A h : SymParent(h)' = SymParent(h)
  BY <1>2, <1>4 DEF SymParent
<1>6. \A h : Goes(h)' <=> Goes(h)
  <2> TAKE h
  <2>1. PICK V : V = Values(Parent(h)) \cap kept
    OBVIOUS
  <2>2. (Values(Parent(h)) \cap kept)' = V
    <3>1. PICK p : p = Parent(h)
      OBVIOUS
    <3>2. Parent(h)' = p
      BY <1>4, <3>1
    <3>3. Values(p)' = Values(p)
      BY <1>4
    <3> QED
      BY <1>1, <2>1, <3>1, <3>2, <3>3
  <2> QED
    BY <1>1, <1>2, <1>3, <1>4, <2>1, <2>2 DEF Goes, Definitions
<1>7. Going' = Going
  BY <1>2, <1>6 DEF Going
<1>8. \A o : Fields(o)' = Fields(o)
  BY <1>2, <1>5 DEF Fields
<1>9. \A o : Lost(o)' = Lost(o)
  BY <1>1, <1>2, <1>4, <1>8 DEF Lost
<1>10. Losing' = Losing
  BY <1>1, <1>2, <1>9 DEF Losing
<1>11. \A o : Reached(o)' <=> Reached(o)
  BY <1>1, <1>2 DEF Reached
<1>12. Legal' <=> Legal
  BY <1>2, <1>3, <1>4, <1>8 DEF Legal
<1>13. LedClosely' <=> LedClosely
  BY <1>1, <1>2 DEF LedClosely
<1> QED
  BY <1>6, <1>7, <1>8, <1>9, <1>10, <1>11, <1>12, <1>13

-----------------------------------------------------------------------------
(* Where the visit stands: at the start of the next item, or at the end of *)
(* the scope.                                                              *)

Limit(o, i) ==
    IF i <= Len(Items(o)) THEN Items(o)[i] ELSE IF o = Root THEN Len(text) + 1 ELSE EndOf(o)

\* The items of what the visit enters.
LEMMA ItemIs ==
    ASSUME Settled, NEW o \in Holders, Reached(o), NEW i \in 1..Len(Items(o))
    PROVE /\ Items(o)[i] \in Things /\ IsIn(Items(o)[i], o) /\ o < Items(o)[i]
          /\ Kind(Items(o)[i]) \in ReadIn(o) /\ o \in Heads \cup {Root}
<1>1. Tree /\ Grammatical /\ o \in Heads \cup {Root}
  BY SettledTree DEF Settled, Holders, Things
<1>2. Items(o)[i] \in Heads /\ IsIn(Items(o)[i], o)
  BY <1>1 DEF Tree
<1>3. Kind(Items(o)[i]) \in ReadIn(o)
  BY <1>1, <1>2 DEF Grammatical
<1>4. "text" \notin ReadIn(o)
  BY DEF ReadIn, Reached
<1>5. Items(o)[i] \in Things
  BY <1>2, <1>3, <1>4 DEF Things
<1> QED
  BY <1>1, <1>2, <1>3, <1>5 DEF Tree

LEMMA LimitIs ==
    ASSUME Settled, NEW o \in Holders, Reached(o), NEW i \in 1..Len(Items(o)) + 1
    PROVE /\ Limit(o, i) \in Nat /\ o < Limit(o, i)
          /\ o # Root => Limit(o, i) <= EndOf(o)
          /\ \A j \in 1..Len(Items(o)) : i <= j => Limit(o, i) <= Items(o)[j]
          /\ \A j \in 1..Len(Items(o)) : j < i => EndOf(Items(o)[j]) < Limit(o, i)
<1>1. /\ Len(text) \in Nat /\ Len(Items(o)) \in Nat
      /\ o # Root => o \in Things /\ o \in Nat /\ EndOf(o) \in Nat /\ o <= EndOf(o)
      /\ \A j, k \in 1..Len(Items(o)) : j < k => EndOf(Items(o)[j]) < Items(o)[k]
  BY SettledTree DEF Tree, Holders
<1>2. \A j \in 1..Len(Items(o)) :
        /\ Items(o)[j] \in Nat /\ EndOf(Items(o)[j]) \in Nat /\ o < Items(o)[j]
        /\ Items(o)[j] <= EndOf(Items(o)[j]) /\ EndOf(Items(o)[j]) < Len(text)
        /\ o # Root => EndOf(Items(o)[j]) < EndOf(o)
  <2> TAKE j \in 1..Len(Items(o))
  <2> DEFINE x == Items(o)[j]
  <2>1. x \in Things /\ IsIn(x, o)
    BY ItemIs
  <2>2. Tree
    BY SettledTree
  <2> HIDE DEF x
  <2>3. x \in Nat /\ EndOf(x) \in Nat /\ x < EndOf(x) /\ EndOf(x) < Len(text)
    BY <2>1, <2>2 DEF Tree
  <2>4. o < x
    <3>1. o \in Heads \cup {Root}
      BY DEF Holders, Things
    <3> QED
      BY <2>1, <2>2, <3>1 DEF Tree
  <2>5. o # Root => EndOf(x) < EndOf(o)
    BY <1>1, <2>1, <2>2 DEF Tree
  <2>6. x <= EndOf(x)
    BY <2>3
  <2> QED
    BY <2>3, <2>4, <2>5, <2>6 DEF x
<1>3. o # Root => o < EndOf(o)
  BY <1>1, SettledTree DEF Tree
<1>4. i \in Nat /\ i >= 1 /\ i <= Len(Items(o)) + 1
  BY <1>1
<1>5. CASE i <= Len(Items(o))
  <2>1. i \in 1..Len(Items(o)) /\ Limit(o, i) = Items(o)[i]
    BY <1>1, <1>4, <1>5 DEF Limit
  <2>2. \A j \in 1..Len(Items(o)) : i <= j => Items(o)[i] <= Items(o)[j]
    <3> TAKE j \in 1..Len(Items(o))
    <3>1. CASE i = j
      BY <1>2, <2>1, <3>1
    <3>2. CASE i < j
      <4>1. EndOf(Items(o)[i]) < Items(o)[j]
        BY <1>1, <2>1, <3>2
      <4> QED
        BY <1>2, <2>1, <4>1
    <3> QED
      BY <1>4, <3>1, <3>2
  <2>3. \A j \in 1..Len(Items(o)) : j < i => EndOf(Items(o)[j]) < Items(o)[i]
    BY <1>1, <2>1
  <2>4. o # Root => Items(o)[i] <= EndOf(o)
    BY <1>1, <1>2, <2>1
  <2> QED
    BY <1>2, <2>1, <2>2, <2>3, <2>4
<1>6. CASE ~(i <= Len(Items(o))) /\ o = Root
  <2>1. Limit(o, i) = Len(text) + 1
    BY <1>6 DEF Limit
  <2>2. \A j \in 1..Len(Items(o)) : ~(i <= j)
    BY <1>1, <1>4, <1>6
  <2>3. \A j \in 1..Len(Items(o)) : EndOf(Items(o)[j]) < Len(text) + 1
    <3> TAKE j \in 1..Len(Items(o))
    <3>1. EndOf(Items(o)[j]) \in Nat /\ EndOf(Items(o)[j]) < Len(text)
      BY <1>2
    <3> QED
      BY <1>1, <3>1
  <2> QED
    BY <1>1, <1>6, <2>1, <2>2, <2>3 DEF Root
<1>7. CASE ~(i <= Len(Items(o))) /\ o # Root
  <2>1. Limit(o, i) = EndOf(o)
    BY <1>7 DEF Limit
  <2>2. \A j \in 1..Len(Items(o)) : ~(i <= j)
    BY <1>1, <1>4, <1>7
  <2> QED
    BY <1>1, <1>2, <1>3, <1>7, <2>1, <2>2
<1> QED
  BY <1>5, <1>6, <1>7

\* What stands before that in the scope stands in an item before it.
LEMMA InPassed ==
    ASSUME Settled, NEW o \in Holders, Reached(o), NEW i \in 1..Len(Items(o)) + 1,
           NEW y \in Things, o < y, y < Limit(o, i)
    PROVE \E j \in 1..Len(Items(o)) : j < i /\ y \in Span(Items(o)[j])
<1>0. Tree /\ y \in Nat /\ Limit(o, i) \in Nat /\ Len(Items(o)) \in Nat
  BY LimitIs, SettledTree DEF Tree
<1>1. Within(y, o)
  <2> SUFFICES ASSUME o # Root PROVE y \in Span(o)
    BY DEF Within
  <2>1. o \in Nat /\ EndOf(o) \in Nat /\ Limit(o, i) <= EndOf(o)
    BY <1>0, LimitIs DEF Tree, Holders
  <2> QED
    BY <1>0, <2>1 DEF Span
<1>2. PICK z \in Things : IsIn(z, o) /\ y \in Span(z)
  BY <1>0, <1>1, Stands DEF StandsIn
<1>3. PICK j \in 1..Len(Items(o)) : Items(o)[j] = z
  BY <1>0, <1>2 DEF Tree
<1>4. z \in Nat /\ EndOf(z) \in Nat /\ z <= y
  BY <1>0, <1>2, SpanInSpan DEF Tree
<1>5. i <= j => Limit(o, i) <= z
  BY <1>3, LimitIs
<1>6. j < i
  BY <1>0, <1>4, <1>5
<1> QED
  BY <1>2, <1>3, <1>6

\* Between an item and the next there is only what stands in it, ...
LEMMA InNext ==
    ASSUME Settled, NEW o \in Holders, Reached(o), NEW i \in 1..Len(Items(o)),
           NEW y \in Things, Items(o)[i] <= y, y < Limit(o, i + 1)
    PROVE y \in Span(Items(o)[i])
<1>0. /\ Tree /\ y \in Nat /\ Len(Items(o)) \in Nat /\ i + 1 \in 1..Len(Items(o)) + 1
      /\ Items(o)[i] \in Nat /\ o < Items(o)[i]
  <2>1. Tree /\ Len(Items(o)) \in Nat
    BY SettledTree DEF Tree
  <2>2. Items(o)[i] \in Things /\ o < Items(o)[i]
    BY ItemIs
  <2>3. i + 1 \in 1..Len(Items(o)) + 1
    BY <2>1
  <2>4. y \in Nat /\ Items(o)[i] \in Nat
    BY <2>1, <2>2 DEF Tree
  <2> QED
    BY <2>1, <2>2, <2>3, <2>4
<1>a. o < y
  <2>1. o \in Nat
    BY <1>0 DEF Tree, Holders, Root
  <2> QED
    BY <1>0, <2>1
<1>1. PICK j \in 1..Len(Items(o)) : j < i + 1 /\ y \in Span(Items(o)[j])
  BY <1>0, <1>a, InPassed
<1>2. /\ Items(o)[j] \in Nat /\ EndOf(Items(o)[j]) \in Nat /\ y <= EndOf(Items(o)[j])
      /\ j < i => EndOf(Items(o)[j]) < Items(o)[i]
  BY <1>0, <1>1, ItemIs, SpanInSpan DEF Tree
<1>3. ~(j < i)
  BY <1>0, <1>2
<1>4. j = i
  BY <1>0, <1>1, <1>3
<1> QED
  BY <1>1, <1>4

\* ... and what ends between them.
LEMMA EndsInNext ==
    ASSUME Settled, NEW o \in Holders, Reached(o), NEW i \in 1..Len(Items(o)),
           NEW y \in Things, Items(o)[i] <= EndOf(y), EndOf(y) < Limit(o, i + 1)
    PROVE y \in Span(Items(o)[i])
<1> DEFINE x == Items(o)[i]
           q == Limit(o, i + 1)
<1>0. /\ Tree /\ y \in Nat /\ EndOf(y) \in Nat /\ y <= EndOf(y) /\ x \in Things /\ IsIn(x, o)
      /\ x \in Nat /\ EndOf(x) \in Nat /\ x <= EndOf(x) /\ o < x /\ o \in Nat /\ q \in Nat
      /\ o # Root => q <= EndOf(o) /\ o \in Things /\ EndOf(o) \in Nat
      /\ EndOf(x) < q
  <2>1. Tree /\ i + 1 \in 1..Len(Items(o)) + 1 /\ i < i + 1
    BY SettledTree DEF Tree
  <2>2. x \in Things /\ IsIn(x, o) /\ o < x
    BY ItemIs
  <2>3. \A h \in Things : h \in Nat /\ EndOf(h) \in Nat /\ h <= EndOf(h)
    <3> TAKE h \in Things
    <3>1. h \in Nat /\ EndOf(h) \in Nat /\ h < EndOf(h)
      BY <2>1 DEF Tree
    <3> QED
      BY <3>1
  <2>4. o \in Nat /\ (o # Root => o \in Things /\ EndOf(o) \in Nat)
    BY <2>1 DEF Tree, Holders, Root
  <2>5. /\ q \in Nat /\ (o # Root => q <= EndOf(o))
        /\ \A j \in 1..Len(Items(o)) : j < i + 1 => EndOf(Items(o)[j]) < q
    BY <2>1, LimitIs
  <2>6. EndOf(x) < q
    BY <2>1, <2>5
  <2> QED
    BY <2>1, <2>2, <2>3, <2>4, <2>5, <2>6
<1>i. x <= EndOf(y) /\ EndOf(y) < q
  OBVIOUS
<1>1. CASE x <= y
  <2>1. y < q
    BY <1>0, <1>i
  <2> QED
    BY <1>1, <2>1, InNext
<1>2. CASE y < x
  <2> HIDE DEF x, q
  <2>1. EndOf(x) < EndOf(y)
    <3>1. EndOf(y) < x \/ EndOf(x) < EndOf(y)
      BY <1>0, <1>2 DEF Tree
    <3> QED
      BY <1>0, <3>1, <1>i
  <2>2. x \in Span(y) /\ Within(x, y) /\ y \in Holders
    BY <1>0, <1>2, <2>1 DEF Span, Within, Holders
  <2>3. y <= o
    BY <1>0, <1>2, <2>2, Stands DEF StandsIn, Holders
  <2>4. o # Root
    BY <1>0, <2>3 DEF Root, Tree
  <2>5. o \in Span(y)
    BY <1>0, <2>1, <2>3 DEF Span
  <2>6. EndOf(o) <= EndOf(y)
    BY <1>0, <2>4, <2>5, SpanInSpan
  <2> QED
    BY <1>0, <1>i, <2>4, <2>6
<1> QED
  BY <1>0, <1>1, <1>2

-----------------------------------------------------------------------------
(* The visit.                                                              *)

Levels == [owner : Nat, base : Nat, i : Nat]
Frontier == Limit(Inner.owner, Inner.i)

\* The scopes S being visited, each an item of the one before, and the scratch stack R.
Stacked(S, R) ==
    /\ S \in Seq(Levels) /\ S # <<>> /\ S[1].owner = Root /\ R \in Seq(Int)
    /\ \A n \in 1..Len(S) : /\ S[n].owner \in Holders /\ Reached(S[n].owner)
                            /\ S[n].i \in 1..Len(Items(S[n].owner)) + 1
                            /\ S[n].base <= Len(R)
    /\ \A n \in 2..Len(S) : /\ S[n - 1].i > 1
                            /\ S[n].owner = Items(S[n - 1].owner)[S[n - 1].i - 1]
    /\ \A m, n \in 1..Len(S) : m < n => S[m].owner < S[n].owner /\ S[m].base <= S[n].base

\* Before place p, every visitor has made its edits, and every scope its insertion; ...
Seen(p) ==
    /\ \A o \in Holders, y \in Things : Reached(o) /\ IsIn(y, o) /\ y < p => Handled(y)
    /\ \A o \in Losing : EndOf(o) < p => Answered(o)
\* ... and no insertion is made from there on.
Unseen(p) == \A n \in 1..Len(edits) : edits[n].rank = 1 => edits[n].at < p

\* The fields that scope o has lost before place p are those whose numbers r holds
\* from a on up to b.
Gone(o, p) == {f \in Fields(o) \ kept : f < p}
Tallies(r, a, b, o, p) ==
    /\ {r[m] : m \in a + 1 .. b} = {Num(f) : f \in Gone(o, p)}
    /\ Legal => \A l, m \in a + 1 .. b : l # m => r[l] # r[m]
Upper(S, R, n) == IF n = Len(S) THEN Len(R) ELSE S[n + 1].base
Tallied(S, R, p) ==
    \A n \in 2..Len(S) : Tallies(R, S[n].base, Upper(S, R, n), S[n].owner, p)

Visit ==
    /\ Stacked(scopes, reserved) /\ Tallied(scopes, reserved, Frontier)
    /\ Seen(Frontier) /\ Unseen(Frontier)

-----------------------------------------------------------------------------
(* What all of the steps after the parse leave alone.                      *)

\* What has been shown of the parse, and what a selection may keep.
Ground == Invariant /\ Tied /\ Grown /\ Closed
Chosen == at = "done" /\ Grammatical /\ Picked

LEMMA GroundHolds == Ground /\ [Next]_vars => Ground'
  BY InvariantHolds, TiedHolds, GrownHolds, ClosedHolds DEF Ground

LEMMA SettledIs == Ground /\ Chosen => Settled
  BY DEF Ground, Chosen, Settled, Invariant, Grown, Closed

LEMMA SameGrammar ==
    ASSUME UNCHANGED vars
    PROVE /\ Grammatical' <=> Grammatical
          /\ \A K : Selectable(K)' <=> Selectable(K)
<1>1. /\ Heads' = Heads /\ Root' = Root /\ Symbols' = Symbols
      /\ \A h : Kind(h)' = Kind(h) /\ Num(h)' = Num(h)
      /\ \A o : Items(o)' = Items(o)
      /\ \A h, o : IsIn(h, o)' <=> IsIn(h, o)
  BY SameLayout
<1>2. \A o : ReadIn(o)' = ReadIn(o)
  BY <1>1 DEF ReadIn
<1>3. Grammatical' <=> Grammatical
  BY <1>1, <1>2 DEF Grammatical
<1>4. /\ \A h : Parent(h)' = Parent(h)
      /\ \A o, kind : OfKind(o, kind)' = OfKind(o, kind)
  BY <1>1, ZenonT(40) DEF Parent, OfKind, Those
<1>5. \A h : SymParent(h)' = SymParent(h)
  BY <1>1, <1>4 DEF SymParent
<1>6. \A e, K : Keeps(e, K)' = Keeps(e, K)
  BY <1>4, ZenonT(40) DEF Keeps, Those
<1>7. \A e, K : Num(Keeps(e, K)[1])' = Num(Keeps(e, K)[1])
  BY <1>1, <1>6
<1>8. \A K : Selectable(K)' <=> Selectable(K)
  BY <1>1, <1>5, <1>6, <1>7 DEF Selectable
<1> QED
  BY <1>3, <1>8

LEMMA ChosenHolds == ASSUME Chosen, UNCHANGED <<vars, kept>> PROVE Chosen'
<1>1. PICK K : K = kept
  OBVIOUS
<1>2. UNCHANGED vars /\ at' = at /\ kept' = K
  BY <1>1 DEF vars, parsed
<1>3. Grammatical' /\ Selectable(K)'
  BY <1>1, <1>2, SameGrammar DEF Chosen, Picked
<1>4. Symbols' = Symbols /\ Heads' = Heads /\ \A h : Kind(h)' = Kind(h)
  BY <1>2, SameLayout
<1> QED
  BY <1>1, <1>2, <1>3, <1>4 DEF Chosen, Picked

\* An edit that is made stays made.
LEMMA StaysHandled ==
    ASSUME UNCHANGED <<vars, kept>>, edits \in Seq(EditRecords), edits' \in Seq(EditRecords),
           Len(edits) <= Len(edits'), \A n \in 1..Len(edits) : edits'[n] = edits[n]
    PROVE /\ \A h : Deleted(h) => Deleted(h)'
          /\ \A o : Answered(o) => Answered(o)'
          /\ \A y : Handled(y) => Handled(y)'
<1>1. \A e, o : IsInsertion(e, o)' <=> IsInsertion(e, o)
  BY SamePlaces, SamePlan DEF IsInsertion
<1>2. \A d : d \in Range(edits) => d \in Range(edits')
  BY RangeIs
<1>3. \A h : Deleted(h) => Deleted(h)'
  BY <1>2, SamePlaces DEF Deleted
<1>4. \A o : Answered(o) => Answered(o)'
  BY <1>1, SamePlan DEF Answered
<1>5. \A y : Handled(y) => Handled(y)'
  BY <1>3, <1>4, SamePlaces, SamePlan DEF Handled
<1> QED
  BY <1>3, <1>4, <1>5

\* Nothing kept stands in an item that is not gone through.
LEMMA Alone ==
    ASSUME Settled, NEW x \in Things, ~ Reached(x)
    PROVE /\ \A o \in Holders, y \in Things : Reached(o) /\ IsIn(y, o) /\ y \in Span(x) => y = x
          /\ \A o \in Losing : o \in Span(x) => o = x
<1>0. Tree /\ Picked
  BY SettledTree DEF Settled
<1>1. \A o \in kept : Kind(o) \in {"message", "enum", "service"} /\ o \in Span(x) => o = x
  BY <1>0, ReachedAround
<1>2. \A o \in Losing : o \in Span(x) => o = x
  BY <1>1 DEF Losing
<1>3. ASSUME NEW o \in Holders, NEW y \in Things, Reached(o), IsIn(y, o), y \in Span(x), y # x
      PROVE FALSE
  <2>1. /\ x \in Nat /\ y \in Nat /\ o \in Nat /\ o < y /\ x >= 1 /\ EndOf(x) \in Nat
        /\ x <= y /\ y <= EndOf(x)
    <3>1. x \in Nat /\ y \in Nat /\ x >= 1 /\ EndOf(x) \in Nat
      BY <1>0 DEF Tree
    <3>2. o \in Nat /\ o < y
      BY <1>0, <1>3 DEF Tree, Holders, Things
    <3> QED
      BY <1>3, <3>1, <3>2 DEF Span
  <2>2. x <= o
    <3>1. x < y /\ Within(y, x) /\ x \in Holders
      BY <1>3, <2>1 DEF Within, Holders
    <3> QED
      BY <1>0, <1>3, <3>1, Stands DEF StandsIn
  <2>3. o # Root /\ o # x
    BY <1>3, <2>1, <2>2 DEF Root
  <2>4. o \in kept /\ Kind(o) \in {"message", "service"}
    BY <1>3, <2>3 DEF Reached
  <2>5. o \in Span(x)
    BY <2>1, <2>2 DEF Span
  <2> QED
    BY <1>1, <2>3, <2>4, <2>5
<1> QED
  BY <1>2, <1>3

\* The fields of a message.
LEMMA FieldIs ==
    ASSUME Tree, NEW o \in Holders, NEW f \in Fields(o)
    PROVE /\ f \in Things /\ Kind(f) = "field" /\ o \in Things /\ Kind(o) = "message"
          /\ f \in Nat /\ o < f /\ f < EndOf(o)
          /\ IsIn(f, o) \/ \E p \in Things : Kind(p) = "oneof" /\ IsIn(f, p) /\ IsIn(p, o)
<1>1. f \in Things /\ Kind(f) = "field" /\ SymParent(f) = o
  BY DEF Fields, Things
<1>2. PICK p \in Holders : IsIn(f, p)
  BY <1>1 DEF Tree
<1>3. Parent(f) = p /\ p # Root /\ Kind(p) \in {"message", "oneof"} /\ p \in Things
  BY <1>1, <1>2, ParentIs, AboveIs DEF Holders
<1>4. \A g, q \in Things : IsIn(g, q) => /\ g \in Nat /\ q \in Nat /\ q < g /\ g < EndOf(g)
                                         /\ EndOf(g) < EndOf(q)
                                         /\ EndOf(g) \in Nat /\ EndOf(q) \in Nat
  BY DEF Tree, Things
<1>5. CASE Kind(p) = "message"
  <2>1. p = o
    BY <1>1, <1>3, <1>5 DEF SymParent
  <2> QED
    BY <1>1, <1>2, <1>3, <1>4, <1>5, <2>1
<1>6. CASE Kind(p) = "oneof"
  <2>1. PICK q \in Holders : IsIn(p, q)
    BY <1>3 DEF Tree
  <2>2. Parent(p) = q /\ q # Root /\ Kind(q) = "message" /\ q \in Things
    BY <1>3, <1>6, <2>1, ParentIs, AboveIs DEF Holders
  <2>3. q = o
    BY <1>1, <1>3, <1>6, <2>2 DEF SymParent
  <2>4. /\ f \in Nat /\ o \in Nat /\ p \in Nat /\ EndOf(p) \in Nat /\ EndOf(f) \in Nat /\ EndOf(o) \in Nat
        /\ o < p /\ p < f /\ f < EndOf(f) /\ EndOf(f) < EndOf(p) /\ EndOf(p) < EndOf(o)
    BY <1>1, <1>2, <1>3, <1>4, <2>1, <2>2, <2>3
  <2>5. o < f /\ f < EndOf(o)
    BY <2>4
  <2> QED
    BY <1>1, <1>2, <1>3, <1>6, <2>1, <2>2, <2>3, <2>4, <2>5
<1> QED
  BY <1>3, <1>5, <1>6

LEMMA FieldsAre ==
    ASSUME Tree, NEW o \in Things, Kind(o) = "message", NEW f \in Things, Kind(f) = "field"
    PROVE /\ IsIn(f, o) => f \in Fields(o)
          /\ \A p \in Things : Kind(p) = "oneof" /\ IsIn(f, p) /\ IsIn(p, o) => f \in Fields(o)
<1>1. f \in Heads /\ o \in Holders /\ o # Root
  BY DEF Things, Holders, Tree
<1>2. IsIn(f, o) => f \in Fields(o)
  <2> SUFFICES ASSUME IsIn(f, o) PROVE f \in Fields(o)
    OBVIOUS
  <2>1. Parent(f) = o
    BY <1>1, ParentIs
  <2> QED
    BY <1>1, <2>1 DEF Fields, SymParent
<1>3. ASSUME NEW p \in Things, Kind(p) = "oneof", IsIn(f, p), IsIn(p, o) PROVE f \in Fields(o)
  <2>1. p \in Holders /\ p # Root
    BY DEF Things, Holders, Tree
  <2>2. Parent(f) = p /\ Parent(p) = o
    BY <1>1, <1>3, <2>1, ParentIs
  <2> QED
    BY <1>1, <1>3, <2>1, <2>2 DEF Fields, SymParent
<1> QED
  BY <1>2, <1>3

\* A field of o that stands in an item of a scope is that item, or an item of it.
LEMMA FieldIn ==
    ASSUME Tree, NEW q \in Holders, q = Root \/ Kind(q) # "oneof", NEW x \in Things, IsIn(x, q),
           NEW o \in Holders, o < x, NEW f \in Fields(o), f \in Span(x)
    PROVE o = q /\ (f = x \/ (Kind(x) = "oneof" /\ IsIn(f, x)))
<1>1. /\ f \in Things /\ o \in Things
      /\ IsIn(f, o) \/ \E p \in Things : Kind(p) = "oneof" /\ IsIn(f, p) /\ IsIn(p, o)
  BY FieldIs
<1>2. /\ x \in Nat /\ f \in Nat /\ o \in Nat /\ EndOf(x) \in Nat /\ x <= f /\ f <= EndOf(x)
      /\ x \in Holders
  <2>1. x \in Nat /\ f \in Nat /\ o \in Nat /\ EndOf(x) \in Nat
    BY <1>1 DEF Tree
  <2> QED
    BY <2>1 DEF Span, Holders
<1>3. \A h \in Things : \A a, b \in Holders : IsIn(h, a) /\ IsIn(h, b) => a = b
  BY DEF Tree
<1>4. CASE f = x
  <2>1. ~ \E p \in Things : Kind(p) = "oneof" /\ IsIn(f, p)
    <3> SUFFICES ASSUME NEW p \in Things, Kind(p) = "oneof", IsIn(f, p) PROVE FALSE
      OBVIOUS
    <3>1. p = q
      BY <1>3, <1>4 DEF Holders
    <3>2. p # Root
      BY DEF Things, Tree
    <3> QED
      BY <3>1, <3>2
  <2>2. IsIn(x, o)
    BY <1>1, <1>4, <2>1
  <2> QED
    BY <1>3, <1>4, <2>2
<1>5. CASE f # x
  <2>1. x < f /\ Within(f, x)
    BY <1>2, <1>5 DEF Within
  <2>2. \A p \in Holders : IsIn(f, p) => x <= p
    BY <1>1, <1>2, <2>1, Stands DEF StandsIn
  <2>3. ~ IsIn(f, o)
    BY <1>2, <2>2
  <2>4. PICK p \in Things : Kind(p) = "oneof" /\ IsIn(f, p) /\ IsIn(p, o)
    BY <1>1, <2>3
  <2>5. p \in Nat /\ x <= p /\ p < f /\ p \in Holders
    <3>1. p \in Holders
      BY DEF Holders
    <3>2. p \in Nat /\ p < f
      BY <1>1, <2>4 DEF Tree, Things
    <3> QED
      BY <2>2, <2>4, <3>1, <3>2
  <2>6. p = x
    <3> SUFFICES ASSUME p # x PROVE FALSE
      OBVIOUS
    <3>1. x < p /\ p \in Span(x)
      BY <1>2, <2>5 DEF Span
    <3>2. x <= o
      BY <1>2, <2>4, <3>1, Stands DEF StandsIn, Within
    <3> QED
      BY <1>2, <3>2
  <2> QED
    BY <1>3, <2>4, <2>6
<1> QED
  BY <1>4, <1>5

\* A step of the visit that goes on from place p to place q and makes edits t.
LEMMA Onward ==
    ASSUME Settled, Written, UNCHANGED <<vars, kept>>,
           NEW p \in Nat, Seen(p), Unseen(p), NEW q \in Nat, p <= q,
           NEW t \in Seq(EditRecords), edits' = edits \o t,
           \A d \in Range(t) : IsCalledFor(d) /\ (d.rank = 1 => p <= d.at /\ d.at < q),
           \A i, j \in 1..Len(t) : t[i].rank = 1 /\ t[j].rank = 1 => i = j,
           \A o \in Holders, y \in Things :
              Reached(o) /\ IsIn(y, o) /\ p <= y /\ y < q => Handled(y)',
           \A o \in Losing : p <= EndOf(o) /\ EndOf(o) < q => Answered(o)'
    PROVE Written' /\ Seen(q)' /\ Unseen(q)'
<1>1. /\ edits \in Seq(EditRecords) /\ edits' \in Seq(EditRecords)
      /\ Len(edits') = Len(edits) + Len(t) /\ Len(edits) \in Nat /\ Len(t) \in Nat
      /\ \A n \in 1..Len(edits) : edits'[n] = edits[n]
      /\ \A n \in Len(edits) + 1 .. Len(edits) + Len(t) : edits'[n] = t[n - Len(edits)]
  BY ConcatIs DEF Written
<1>2. \A n \in 1..Len(edits') :
        \/ n \in 1..Len(edits) /\ edits'[n] = edits[n]
        \/ n - Len(edits) \in 1..Len(t) /\ edits'[n] = t[n - Len(edits)]
  BY <1>1
<1>3. /\ \A y : Handled(y) => Handled(y)'
      /\ \A o : Answered(o) => Answered(o)'
  <2>1. Len(edits) <= Len(edits')
    BY <1>1
  <2> QED
    BY <1>1, <2>1, StaysHandled
<1>4. /\ Holders' = Holders /\ Things' = Things /\ Losing' = Losing
      /\ \A o : Reached(o)' <=> Reached(o)
      /\ \A h : EndOf(h)' = EndOf(h)
      /\ \A h, o : IsIn(h, o)' <=> IsIn(h, o)
  BY SamePlaces, SamePlan
<1>5. \A y \in Things : y \in Nat /\ EndOf(y) \in Nat
  BY SettledTree DEF Tree
<1>6. \A d : IsCalledFor(d)' <=> IsCalledFor(d)
  <2>1. \A d, o : IsInsertion(d, o)' <=> IsInsertion(d, o)
    BY SamePlaces, SamePlan DEF IsInsertion
  <2> QED
    BY <2>1, SamePlaces, SamePlan DEF IsCalledFor
<1>7. \A i \in 1..Len(t) : t[i] \in Range(t) /\ t[i] \in EditRecords
  BY RangeIs
<1>8. \A n \in 1..Len(edits') : IsCalledFor(edits'[n])
  <2> TAKE n \in 1..Len(edits')
  <2>1. CASE n \in 1..Len(edits) /\ edits'[n] = edits[n]
    BY <2>1 DEF Written
  <2>2. CASE n - Len(edits) \in 1..Len(t) /\ edits'[n] = t[n - Len(edits)]
    BY <1>7, <2>2
  <2> QED
    BY <1>2, <2>1, <2>2
<1>9. \A n \in 1..Len(edits') : edits'[n].rank = 1 => edits'[n].at < q
  <2> TAKE n \in 1..Len(edits')
  <2>1. CASE n \in 1..Len(edits) /\ edits'[n] = edits[n]
    <3>1. edits[n].at \in Nat
      BY <2>1, EditIs
    <3>2. edits[n].rank = 1 => edits[n].at < p
      BY <2>1 DEF Unseen
    <3> QED
      BY <2>1, <3>1, <3>2
  <2>2. CASE n - Len(edits) \in 1..Len(t) /\ edits'[n] = t[n - Len(edits)]
    BY <1>7, <2>2
  <2> QED
    BY <1>2, <2>1, <2>2
<1>10. ASSUME NEW m \in 1..Len(edits'), NEW n \in 1..Len(edits'), m < n,
              edits'[m].rank = 1, edits'[n].rank = 1
       PROVE edits'[m].at # edits'[n].at
  <2>0. m \in Nat /\ n \in Nat
    OBVIOUS
  <2>1. CASE n \in 1..Len(edits)
    <3>1. m \in 1..Len(edits) /\ edits'[m] = edits[m] /\ edits'[n] = edits[n]
      BY <1>1, <1>10, <2>0, <2>1
    <3> QED
      BY <1>10, <2>0, <2>1, <3>1 DEF Written
  <2>2. CASE n - Len(edits) \in 1..Len(t) /\ edits'[n] = t[n - Len(edits)]
    <3>0. p <= edits'[n].at /\ edits'[n].at \in Nat
      BY <1>7, <1>10, <2>2 DEF EditRecords
    <3>1. CASE m \in 1..Len(edits) /\ edits'[m] = edits[m]
      <4>1. edits[m].at < p /\ edits[m].at \in Nat
        BY <1>10, <3>1, EditIs DEF Unseen
      <4> QED
        BY <3>0, <3>1, <4>1, SMTT(20)
    <3>2. CASE m - Len(edits) \in 1..Len(t) /\ edits'[m] = t[m - Len(edits)]
      <4>1. m - Len(edits) = n - Len(edits)
        BY <1>10, <2>2, <3>2
      <4> QED
        BY <1>1, <1>10, <2>0, <4>1
    <3> QED
      BY <1>2, <3>1, <3>2
  <2> QED
    BY <1>2, <2>1, <2>2
<1>11. \A m, n \in 1..Len(edits') :
         edits'[m].rank = 1 /\ edits'[n].rank = 1 /\ edits'[m].at = edits'[n].at => m = n
  <2> SUFFICES ASSUME NEW m \in 1..Len(edits'), NEW n \in 1..Len(edits'),
                      edits'[m].rank = 1, edits'[n].rank = 1, edits'[m].at = edits'[n].at, m # n
      PROVE FALSE
    OBVIOUS
  <2>1. m < n \/ n < m
    OBVIOUS
  <2> QED
    BY <1>10, <2>1
<1>12. \A o \in Holders, y \in Things : Reached(o) /\ IsIn(y, o) /\ y < q => Handled(y)'
  <2> TAKE o \in Holders, y \in Things
  <2>1. y < p => (Reached(o) /\ IsIn(y, o) => Handled(y)')
    BY <1>3 DEF Seen
  <2> QED
    BY <1>5, <2>1
<1>13. \A o \in Losing : EndOf(o) < q => Answered(o)'
  <2> TAKE o \in Losing
  <2>1. EndOf(o) \in Nat
    BY <1>5, KeptIsThing DEF Losing, Settled
  <2>2. EndOf(o) < p => Answered(o)'
    BY <1>3 DEF Seen
  <2> QED
    BY <2>1, <2>2
<1>14. Written'
  <2>1. \A n \in 1..Len(edits)' : IsCalledFor(edits[n])'
    BY <1>6, <1>8
  <2> QED
    BY <1>1, <1>11, <2>1 DEF Written
<1>15. Seen(q)'
  BY <1>4, <1>12, <1>13 DEF Seen
<1>16. Unseen(q)'
  BY <1>9 DEF Unseen
<1> QED
  BY <1>14, <1>15, <1>16

-----------------------------------------------------------------------------
(* The scratch stack.                                                      *)

\* What is below is left alone.
LEMMA TalliesStay ==
    ASSUME NEW r, NEW s, NEW a, NEW b, NEW o, NEW p, NEW q,
           Tallies(r, a, b, o, p), \A m \in a + 1 .. b : s[m] = r[m], Gone(o, q) = Gone(o, p)
    PROVE Tallies(s, a, b, o, q)
  BY DEF Tallies

\* The numbers t of the fields F are put on top.
LEMMA TalliesGrow ==
    ASSUME NEW r \in Seq(Int), NEW t \in Seq(Int), NEW a \in Nat, a <= Len(r), NEW o, NEW p, NEW q,
           Tallies(r, a, Len(r), o, p), NEW F, Gone(o, q) = Gone(o, p) \cup F,
           \A x : (\E i \in 1..Len(t) : t[i] = x) <=> \E f \in F : Num(f) = x,
           Legal => /\ \A i, j \in 1..Len(t) : i # j => t[i] # t[j]
                    /\ \A f \in F, g \in Gone(o, p) : Num(f) # Num(g)
    PROVE Tallies(r \o t, a, Len(r \o t), o, q)
<1> DEFINE s == r \o t
<1>1. /\ s \in Seq(Int) /\ Len(s) = Len(r) + Len(t) /\ Len(r) \in Nat /\ Len(t) \in Nat
      /\ \A i \in 1..Len(r) : s[i] = r[i]
      /\ \A i \in Len(r) + 1 .. Len(r) + Len(t) : s[i] = t[i - Len(r)]
  BY ConcatOfNumbers
<1> HIDE DEF s
<1>2. \A m \in a + 1 .. Len(s) :
        \/ m \in a + 1 .. Len(r) /\ s[m] = r[m]
        \/ m - Len(r) \in 1..Len(t) /\ s[m] = t[m - Len(r)]
  <2> TAKE m \in a + 1 .. Len(s)
  <2>1. m \in Int /\ a + 1 <= m /\ m <= Len(r) + Len(t)
    BY <1>1
  <2>2. CASE m <= Len(r)
    <3>1. m \in a + 1 .. Len(r) /\ m \in 1..Len(r)
      BY <1>1, <2>1, <2>2
    <3> QED
      BY <1>1, <3>1
  <2>3. CASE ~ (m <= Len(r))
    <3>1. m \in Len(r) + 1 .. Len(r) + Len(t) /\ m - Len(r) \in 1..Len(t)
      BY <1>1, <2>1, <2>3, SMTT(20)
    <3> QED
      BY <1>1, <3>1
  <2> QED
    BY <2>2, <2>3
<1>3. \A m \in a + 1 .. Len(r) : m \in a + 1 .. Len(s) /\ s[m] = r[m]
  BY <1>1
<1>4. \A i \in 1..Len(t) : Len(r) + i \in a + 1 .. Len(s) /\ s[Len(r) + i] = t[i]
  <2> TAKE i \in 1..Len(t)
  <2>1. Len(r) + i \in Len(r) + 1 .. Len(r) + Len(t) /\ (Len(r) + i) - Len(r) = i
    BY <1>1
  <2>2. Len(r) + i \in a + 1 .. Len(s)
    BY <1>1
  <2> QED
    BY <1>1, <2>1, <2>2
<1>5. /\ {r[m] : m \in a + 1 .. Len(r)} = {Num(f) : f \in Gone(o, p)}
      /\ Legal => \A l, m \in a + 1 .. Len(r) : l # m => r[l] # r[m]
  BY DEF Tallies
<1>6. \A m \in a + 1 .. Len(r) : \E g \in Gone(o, p) : Num(g) = r[m]
  <2> TAKE m \in a + 1 .. Len(r)
  <2>1. r[m] \in {Num(f) : f \in Gone(o, p)}
    BY <1>5
  <2> QED
    BY <2>1
<1>7. \A g \in Gone(o, p) : \E m \in a + 1 .. Len(r) : Num(g) = r[m]
  <2> TAKE g \in Gone(o, p)
  <2>1. Num(g) \in {r[m] : m \in a + 1 .. Len(r)}
    BY <1>5
  <2> QED
    BY <2>1
<1>8. \A m \in a + 1 .. Len(s) : \E g \in Gone(o, q) : Num(g) = s[m]
  <2> TAKE m \in a + 1 .. Len(s)
  <2>1. CASE m \in a + 1 .. Len(r) /\ s[m] = r[m]
    BY <1>6, <2>1
  <2>2. CASE m - Len(r) \in 1..Len(t) /\ s[m] = t[m - Len(r)]
    BY <2>2
  <2> QED
    BY <1>2, <2>1, <2>2
<1>9. \A g \in Gone(o, q) : \E m \in a + 1 .. Len(s) : Num(g) = s[m]
  <2> TAKE g \in Gone(o, q)
  <2>1. CASE g \in Gone(o, p)
    BY <1>3, <1>7, <2>1
  <2>2. CASE g \in F
    <3>1. PICK i \in 1..Len(t) : t[i] = Num(g)
      BY <2>2
    <3> QED
      BY <1>4, <3>1
  <2> QED
    BY <2>1, <2>2
<1>10. ASSUME Legal, NEW l \in a + 1 .. Len(s), NEW m \in a + 1 .. Len(s), l < m
       PROVE s[l] # s[m]
  <2>1. CASE m \in a + 1 .. Len(r) /\ s[m] = r[m]
    <3>1. l \in a + 1 .. Len(r)
      BY <1>1, <1>10, <2>1
    <3> QED
      BY <1>3, <1>5, <1>10, <2>1, <3>1
  <2>2. CASE m - Len(r) \in 1..Len(t) /\ s[m] = t[m - Len(r)]
    <3>1. PICK f \in F : Num(f) = s[m]
      BY <2>2
    <3>2. CASE l \in a + 1 .. Len(r) /\ s[l] = r[l]
      <4>1. PICK g \in Gone(o, p) : Num(g) = s[l]
        BY <1>6, <3>2
      <4> QED
        BY <1>10, <3>1, <4>1
    <3>3. CASE l - Len(r) \in 1..Len(t) /\ s[l] = t[l - Len(r)]
      <4>1. l - Len(r) # m - Len(r)
        BY <1>1, <1>10
      <4> QED
        BY <1>10, <2>2, <3>3, <4>1
    <3> QED
      BY <1>2, <3>2, <3>3
  <2> QED
    BY <1>2, <2>1, <2>2
<1>11. Legal => \A l, m \in a + 1 .. Len(s) : l # m => s[l] # s[m]
  <2> SUFFICES ASSUME Legal, NEW l \in a + 1 .. Len(s), NEW m \in a + 1 .. Len(s), l # m, s[l] = s[m]
      PROVE FALSE
    OBVIOUS
  <2>1. l < m \/ m < l
    BY <1>1
  <2> QED
    BY <1>10, <2>1
<1>12. {s[m] : m \in a + 1 .. Len(s)} = {Num(f) : f \in Gone(o, q)}
  BY <1>8, <1>9, SMTT(20)
<1> QED
  BY <1>11, <1>12 DEF Tallies, s

\* The fields of a scope that go with item x of it.
Dropped(o, x) == {f \in Fields(o) \ kept : f = x \/ (Kind(x) = "oneof" /\ IsIn(f, x))}

LEMMA SameTallies ==
    ASSUME UNCHANGED <<vars, kept>>
    PROVE \A r, a, b, o, p : Tallies(r, a, b, o, p)' <=> Tallies(r, a, b, o, p)
<1>1. \A o, p : Gone(o, p)' = Gone(o, p)
  BY SamePlan DEF Gone
<1>2. \A o, p : {Num(f) : f \in Gone(o, p)}' = {Num(f) : f \in Gone(o, p)}
  BY <1>1, SamePlaces
<1>3. Legal' <=> Legal
  BY SamePlan
<1> QED
  BY <1>2, <1>3 DEF Tallies

\* What a scope loses as the visit passes item x of scope o.
LEMMA GoneNext ==
    ASSUME Settled, NEW o \in Holders, Reached(o), NEW i \in 1..Len(Items(o)), NEW x, x = Items(o)[i],
           NEW q, q = Limit(o, i + 1)
    PROVE /\ Gone(o, q) = Gone(o, x) \cup Dropped(o, x)
          /\ \A w \in Holders : w < o => Gone(w, q) = Gone(w, x)
<1>0. Tree /\ x \in Things /\ IsIn(x, o) /\ o < x /\ (o = Root \/ Kind(o) # "oneof")
  BY ItemIs, SettledTree DEF Reached
<1>1. /\ x \in Nat /\ EndOf(x) \in Nat /\ q \in Nat /\ o \in Nat /\ x < EndOf(x) /\ EndOf(x) < q
  <2>1. Len(Items(o)) \in Nat
    BY <1>0 DEF Tree
  <2>2. i + 1 \in 1..Len(Items(o)) + 1 /\ i < i + 1
    BY <2>1
  <2>3. q \in Nat /\ EndOf(x) < q
    BY <2>2, LimitIs
  <2>4. x \in Nat /\ EndOf(x) \in Nat /\ x < EndOf(x)
    BY <1>0 DEF Tree
  <2>5. o \in Nat
    BY <1>0 DEF Tree, Holders, Root
  <2> QED
    BY <2>3, <2>4, <2>5
<1>2. ASSUME NEW w \in Holders, w < x, NEW f \in Fields(w), ~(f < x), f < q
      PROVE w = o /\ (f = x \/ (Kind(x) = "oneof" /\ IsIn(f, x)))
  <2>1. f \in Things /\ f \in Nat
    BY <1>0, <1>2, FieldIs
  <2>2. x <= f
    BY <1>1, <1>2, <2>1
  <2>3. f \in Span(x)
    BY <1>2, <2>1, <2>2, InNext
  <2> QED
    BY <1>0, <1>2, <2>3, FieldIn
<1>3. \A f \in Dropped(o, x) : f < q
  <2> TAKE f \in Dropped(o, x)
  <2>1. f \in Things /\ f \in Nat
    BY <1>0, FieldIs DEF Dropped
  <2>2. CASE f = x
    BY <1>1, <2>2
  <2>3. CASE IsIn(f, x)
    <3>1. f < EndOf(f) /\ EndOf(f) < EndOf(x) /\ EndOf(f) \in Nat
      BY <1>0, <2>1, <2>3 DEF Tree
    <3> QED
      BY <1>1, <2>1, <3>1
  <2> QED
    BY <2>2, <2>3 DEF Dropped
<1>4. \A w \in Holders : \A f \in Fields(w) : f \in Nat
  BY <1>0, FieldIs
<1>5. Gone(o, q) = Gone(o, x) \cup Dropped(o, x)
  <2>1. \A f \in Gone(o, q) : f \in Gone(o, x) \/ f \in Dropped(o, x)
    BY <1>0, <1>2 DEF Gone, Dropped
  <2>2. \A f \in Gone(o, x) : f \in Gone(o, q)
    BY <1>1, <1>4 DEF Gone
  <2>3. \A f \in Dropped(o, x) : f \in Gone(o, q)
    BY <1>3 DEF Gone, Dropped
  <2> QED
    BY <2>1, <2>2, <2>3
<1>6. ASSUME NEW w \in Holders, w < o PROVE Gone(w, q) = Gone(w, x)
  <2>1. w < x /\ w # o
    <3>1. w \in Nat
      BY <1>0 DEF Tree, Holders, Root
    <3> QED
      BY <1>0, <1>1, <1>6, <3>1
  <2>2. \A f \in Gone(w, q) : f \in Gone(w, x)
    BY <1>2, <2>1 DEF Gone
  <2>3. \A f \in Gone(w, x) : f \in Gone(w, q)
    BY <1>1, <1>4 DEF Gone
  <2> QED
    BY <2>2, <2>3
<1> QED
  BY <1>5, <1>6

\* The visit, at its item.
LEMMA StackIs ==
    ASSUME Settled, Stacked(scopes, reserved)
    PROVE /\ Len(scopes) \in Nat /\ Len(scopes) >= 1 /\ Len(scopes) \in 1..Len(scopes)
          /\ Inner \in Levels /\ Inner.owner \in Holders /\ Reached(Inner.owner)
          /\ Inner.i \in 1..Len(Items(Inner.owner)) + 1 /\ Len(Items(Inner.owner)) \in Nat
          /\ Frontier \in Nat
          /\ Inner.i <= Len(Items(Inner.owner)) =>
               /\ Inner.i \in 1..Len(Items(Inner.owner))
               /\ Here \in Things /\ IsIn(Here, Inner.owner) /\ Frontier = Here
<1>1. Len(scopes) \in Nat /\ Len(scopes) >= 1 /\ Len(scopes) \in 1..Len(scopes)
  BY DEF Stacked
<1>2. /\ Inner \in Levels /\ Inner.owner \in Holders /\ Reached(Inner.owner)
      /\ Inner.i \in 1..Len(Items(Inner.owner)) + 1
  BY <1>1 DEF Stacked, Inner
<1>3. Len(Items(Inner.owner)) \in Nat
  BY <1>2, SettledTree DEF Tree
<1>4. Frontier \in Nat
  BY <1>2, LimitIs DEF Frontier
<1>5. Inner.i <= Len(Items(Inner.owner)) =>
        /\ Inner.i \in 1..Len(Items(Inner.owner))
        /\ Here \in Things /\ IsIn(Here, Inner.owner) /\ Frontier = Here
  <2> SUFFICES ASSUME Inner.i <= Len(Items(Inner.owner))
      PROVE /\ Inner.i \in 1..Len(Items(Inner.owner))
            /\ Here \in Things /\ IsIn(Here, Inner.owner) /\ Frontier = Here
    OBVIOUS
  <2>1. Inner.i \in 1..Len(Items(Inner.owner))
    BY <1>2, <1>3
  <2>2. Here \in Things /\ IsIn(Here, Inner.owner)
    BY <1>2, <2>1, ItemIs DEF Here
  <2> QED
    BY <2>1, <2>2 DEF Frontier, Limit, Here
<1> QED
  BY <1>1, <1>2, <1>3, <1>4, <1>5

LEMMA SameVisit ==
    ASSUME UNCHANGED <<vars, kept>>
    PROVE /\ \A S, R : Stacked(S, R)' <=> Stacked(S, R)
          /\ \A S, R, p : Tallied(S, R, p)' <=> Tallied(S, R, p)
          /\ \A o, i : Limit(o, i)' = Limit(o, i)
<1>1. \A S, R : Stacked(S, R)' <=> Stacked(S, R)
  <2>1. /\ Holders' = Holders /\ Root' = Root
        /\ \A o : Items(o)' = Items(o)
        /\ \A o : Reached(o)' <=> Reached(o)
    BY SamePlaces, SamePlan
  <2> TAKE S, R
  <2>2. ASSUME Stacked(S, R) PROVE Stacked(S, R)'
    <3>1. \A n \in 1..Len(S) : /\ S[n].owner \in Holders' /\ Reached(S[n].owner)'
                               /\ S[n].i \in 1..Len(Items(S[n].owner)') + 1
      BY <2>1, <2>2 DEF Stacked
    <3>2. \A n \in 2..Len(S) : S[n].owner = Items(S[n - 1].owner)'[S[n - 1].i - 1]
      BY <2>1, <2>2 DEF Stacked
    <3>3. S[1].owner = Root'
      BY <2>1, <2>2 DEF Stacked
    <3> QED
      BY <2>2, <3>1, <3>2, <3>3 DEF Stacked
  <2>3. ASSUME Stacked(S, R)' PROVE Stacked(S, R)
    <3>1. \A n \in 1..Len(S) : /\ S[n].owner \in Holders /\ Reached(S[n].owner)
                               /\ S[n].i \in 1..Len(Items(S[n].owner)) + 1
      BY <2>1, <2>3 DEF Stacked
    <3>2. \A n \in 2..Len(S) : S[n].owner = Items(S[n - 1].owner)[S[n - 1].i - 1]
      BY <2>1, <2>3 DEF Stacked
    <3>3. S[1].owner = Root
      BY <2>1, <2>3 DEF Stacked
    <3> QED
      BY <2>3, <3>1, <3>2, <3>3 DEF Stacked
  <2> QED
    BY <2>2, <2>3
<1>2. \A S, R, p : Tallied(S, R, p)' <=> Tallied(S, R, p)
  BY SameTallies DEF Tallied, Upper
<1>3. \A o, i : Limit(o, i)' = Limit(o, i)
  BY SamePlaces DEF Limit, vars
<1> QED
  BY <1>1, <1>2, <1>3

\* The scopes, past an item.
LEMMA SteppedIs ==
    ASSUME Settled, Stacked(scopes, reserved), Inner.i <= Len(Items(Inner.owner)),
           NEW R \in Seq(Int), Len(reserved) <= Len(R)
    PROVE /\ Stacked(Stepped, R) /\ Len(Stepped) = Len(scopes)
          /\ \A n \in 1..Len(scopes) : /\ Stepped[n].owner = scopes[n].owner
                                       /\ Stepped[n].base = scopes[n].base
          /\ Stepped[Len(scopes)].i = Inner.i + 1
<1> DEFINE N == Len(scopes)
<1>1. /\ N \in 1..N /\ Inner \in Levels /\ Inner.i \in 1..Len(Items(Inner.owner))
      /\ scopes \in Seq(Levels) /\ Inner = scopes[N] /\ Len(Items(Inner.owner)) \in Nat /\ N \in Nat
  BY StackIs DEF Stacked, Inner
<1> DEFINE v == [owner |-> Inner.owner, base |-> Inner.base, i |-> Inner.i + 1]
<1>2. [Inner EXCEPT !.i = @ + 1] = v /\ v \in Levels
  <2>1. Inner.owner \in Nat /\ Inner.base \in Nat /\ Inner.i \in Nat
    BY <1>1 DEF Levels
  <2>2. v \in Levels
    BY <2>1 DEF Levels
  <2>3. [Inner EXCEPT !.i = @ + 1] = v
    <3>1. PICK l \in Levels : l = Inner
      BY <1>1
    <3>2. [l EXCEPT !.i = @ + 1] = [owner |-> l.owner, base |-> l.base, i |-> l.i + 1]
      BY DEF Levels
    <3> QED
      BY <3>1, <3>2
  <2> QED
    BY <2>2, <2>3
<1> HIDE DEF v
<1>3. Stepped = [scopes EXCEPT ![N] = v]
  BY <1>1, <1>2 DEF Stepped
<1>4. /\ Stepped \in Seq(Levels) /\ Len(Stepped) = N
      /\ \A n \in 1..N : n # N => Stepped[n] = scopes[n]
      /\ Stepped[N] = v
  BY <1>1, <1>2, <1>3
<1>5. v.owner = Inner.owner /\ v.base = Inner.base /\ v.i = Inner.i + 1
  BY DEF v
<1>6. \A n \in 1..N : Stepped[n].owner = scopes[n].owner /\ Stepped[n].base = scopes[n].base
  BY <1>1, <1>4, <1>5
<1>7. \A n \in 1..N : Stepped[n].i \in 1..Len(Items(scopes[n].owner)) + 1
  <2> TAKE n \in 1..N
  <2>1. CASE n = N
    BY <1>1, <1>4, <1>5, <2>1
  <2>2. CASE n # N
    BY <1>4, <2>2 DEF Stacked
  <2> QED
    BY <2>1, <2>2
<1>8. \A n \in 1..N : Stepped[n].base <= Len(R)
  <2> TAKE n \in 1..N
  <2>1. scopes[n].base <= Len(reserved)
    BY <1>1 DEF Stacked
  <2>2. scopes[n] \in Levels /\ Len(reserved) \in Nat /\ Len(R) \in Nat
    BY <1>1 DEF Stacked
  <2>3. scopes[n].base \in Nat
    BY <2>2 DEF Levels
  <2> QED
    BY <1>6, <2>1, <2>2, <2>3
<1>9. \A n \in 2..N : Stepped[n - 1] = scopes[n - 1] /\ n \in 1..N
  <2> TAKE n \in 2..N
  <2>1. n - 1 \in 1..N /\ n - 1 # N /\ n \in 1..N
    BY <1>1
  <2> QED
    BY <1>4, <2>1
<1>10. /\ Stepped # <<>> /\ Stepped[1].owner = Root
       /\ \A n \in 1..N : Stepped[n].owner \in Holders /\ Reached(Stepped[n].owner)
  <2>1. 1 \in 1..N
    BY <1>1
  <2>2. Stepped # <<>>
    BY <1>4, <2>1
  <2>3. Stepped[1].owner = Root
    BY <1>6, <2>1 DEF Stacked
  <2> QED
    BY <1>6, <2>2, <2>3 DEF Stacked
<1>11. \A n \in 2..N : /\ Stepped[n - 1].i > 1
                       /\ Stepped[n].owner = Items(Stepped[n - 1].owner)[Stepped[n - 1].i - 1]
  BY <1>6, <1>9 DEF Stacked
<1>12. \A m, n \in 1..N : m < n =>
         Stepped[m].owner < Stepped[n].owner /\ Stepped[m].base <= Stepped[n].base
  BY <1>6 DEF Stacked
<1>13. \A n \in 1..N : Stepped[n].i \in 1..Len(Items(Stepped[n].owner)) + 1
  BY <1>6, <1>7
<1>14. Stacked(Stepped, R)
  <2> HIDE DEF N
  <2> QED
    BY <1>4, <1>8, <1>10, <1>11, <1>12, <1>13 DEF Stacked
<1> QED
  BY <1>1, <1>4, <1>5, <1>6, <1>14

\* The scratch stack, as the visit passes item x and puts the numbers r on it.
LEMMA TalliedOver ==
    ASSUME Settled, Stacked(scopes, reserved), Tallied(scopes, reserved, Frontier),
           Inner.i <= Len(Items(Inner.owner)), NEW x, x = Here,
           NEW r \in Seq(Int),
           \A v : (\E i \in 1..Len(r) : r[i] = v) <=> \E f \in Dropped(Inner.owner, x) : Num(f) = v,
           Legal => \A i, j \in 1..Len(r) : i # j => r[i] # r[j]
    PROVE Tallied(Stepped, reserved \o r, Limit(Inner.owner, Inner.i + 1))
<1> DEFINE N == Len(scopes)
           o == Inner.owner
           q == Limit(o, Inner.i + 1)
           R == reserved \o r
<1>1. /\ N \in Nat /\ N \in 1..N /\ Inner = scopes[N] /\ o \in Holders /\ Reached(o)
      /\ Inner.i \in 1..Len(Items(o)) /\ x = Items(o)[Inner.i] /\ Frontier = x /\ x \in Things
  BY StackIs DEF Inner, Here
<1>2. /\ Gone(o, q) = Gone(o, x) \cup Dropped(o, x)
      /\ \A w \in Holders : w < o => Gone(w, q) = Gone(w, x)
  BY <1>1, GoneNext
<1>3. /\ R \in Seq(Int) /\ Len(R) = Len(reserved) + Len(r) /\ Len(reserved) \in Nat /\ Len(r) \in Nat
      /\ \A i \in 1..Len(reserved) : R[i] = reserved[i]
  BY ConcatOfNumbers DEF Stacked
<1>4. /\ Len(Stepped) = N
      /\ \A n \in 1..N : Stepped[n].owner = scopes[n].owner /\ Stepped[n].base = scopes[n].base
  <2>1. Len(reserved) <= Len(R)
    BY <1>3
  <2> QED
    BY <1>1, <1>3, <2>1, SteppedIs
<1>5. \A n \in 1..N : scopes[n].base \in Nat /\ scopes[n].base <= Len(reserved)
  <2> TAKE n \in 1..N
  <2>1. scopes[n] \in Levels /\ scopes[n].base <= Len(reserved)
    BY DEF Stacked
  <2> QED
    BY <2>1 DEF Levels
<1>6. Legal => \A f \in Dropped(o, x), g \in Gone(o, x) : Num(f) # Num(g)
  <2> SUFFICES ASSUME Legal, NEW f \in Dropped(o, x), NEW g \in Gone(o, x) PROVE Num(f) # Num(g)
    OBVIOUS
  <2>0. Tree
    BY SettledTree
  <2>1. f \in Fields(o) /\ g \in Fields(o) /\ g < x
    BY DEF Dropped, Gone
  <2>2. o \in Heads
    BY <1>1, <2>0, <2>1, FieldIs DEF Things
  <2>3. f # g
    <3>1. x \in Nat
      BY <1>1, <2>0 DEF Tree
    <3>2. f = x \/ IsIn(f, x)
      BY DEF Dropped
    <3>3. f \in Things /\ f \in Nat
      BY <1>1, <2>0, <2>1, FieldIs
    <3>4. IsIn(f, x) => x < f
      BY <1>1, <2>0, <3>3 DEF Tree, Things
    <3> QED
      BY <2>1, <3>1, <3>2, <3>3, <3>4
  <2> QED
    BY <2>1, <2>2, <2>3 DEF Legal
<1> SUFFICES ASSUME NEW n \in 2..N
             PROVE Tallies(R, Stepped[n].base, Upper(Stepped, R, n), Stepped[n].owner, q)
  BY <1>4 DEF Tallied
<1>7. n \in 1..N /\ n \in Nat /\ n <= N
  OBVIOUS
<1>8. Tallies(reserved, scopes[n].base, Upper(scopes, reserved, n), scopes[n].owner, x)
  BY <1>1 DEF Tallied
<1> HIDE DEF N, q, R
<1>9. CASE n = N
  <2>1. Tallies(reserved, Inner.base, Len(reserved), o, x)
    BY <1>1, <1>8, <1>9 DEF Upper, N
  <2>2. Inner.base \in Nat /\ Inner.base <= Len(reserved)
    BY <1>1, <1>5
  <2>3. reserved \in Seq(Int)
    BY DEF Stacked
  <2>4. Tallies(R, Inner.base, Len(R), o, q)
    <3>1. PICK w : w = o
      OBVIOUS
    <3>2. PICK a : a = Inner.base
      OBVIOUS
    <3>3. PICK F : F = Dropped(o, x)
      OBVIOUS
    <3>4. Tallies(reserved, a, Len(reserved), w, x) /\ a \in Nat /\ a <= Len(reserved)
      BY <2>1, <2>2, <3>1, <3>2
    <3>5. Gone(w, q) = Gone(w, x) \cup F
      BY <1>2, <3>1, <3>3
    <3>6. \A v : (\E i \in 1..Len(r) : r[i] = v) <=> \E f \in F : Num(f) = v
      BY <3>3
    <3>7. Legal => /\ \A i, j \in 1..Len(r) : i # j => r[i] # r[j]
                   /\ \A f \in F, g \in Gone(w, x) : Num(f) # Num(g)
      BY <1>6, <3>1, <3>3
    <3>8. Tallies(reserved \o r, a, Len(reserved \o r), w, q)
      <4> HIDE DEF o
      <4> QED
        BY <2>3, <3>4, <3>5, <3>6, <3>7, TalliesGrow
    <3> QED
      BY <3>1, <3>2, <3>8 DEF R
  <2>5. Upper(Stepped, R, n) = Len(R)
    BY <1>4, <1>9 DEF Upper
  <2> QED
    BY <1>1, <1>4, <1>7, <1>9, <2>4, <2>5
<1>10. CASE n < N
  <2>1. n + 1 \in 1..N /\ n # N
    BY <1>1, <1>7, <1>10
  <2>2. Upper(scopes, reserved, n) = scopes[n + 1].base /\ Upper(Stepped, R, n) = scopes[n + 1].base
    BY <1>4, <2>1 DEF Upper, N
  <2>3. scopes[n].owner < o /\ scopes[n].owner \in Holders
    BY <1>1, <1>7, <1>10 DEF Stacked, N
  <2>4. Gone(scopes[n].owner, q) = Gone(scopes[n].owner, x)
    BY <1>2, <2>3
  <2>5. \A m \in scopes[n].base + 1 .. scopes[n + 1].base : R[m] = reserved[m]
    <3>1. scopes[n].base \in Nat /\ scopes[n + 1].base \in Nat /\ scopes[n + 1].base <= Len(reserved)
      BY <1>5, <1>7, <2>1
    <3>2. \A m \in scopes[n].base + 1 .. scopes[n + 1].base : m \in 1..Len(reserved)
      <4>1. \A a, b \in Nat : b <= Len(reserved) => \A m \in a + 1 .. b : m \in 1..Len(reserved)
        BY <1>3
      <4> QED
        BY <3>1, <4>1
    <3> QED
      BY <1>3, <3>2
  <2>6. Tallies(R, scopes[n].base, scopes[n + 1].base, scopes[n].owner, q)
    BY <1>8, <2>2, <2>4, <2>5, TalliesStay
  <2> QED
    BY <1>4, <1>7, <2>2, <2>6
<1> QED
  BY <1>1, <1>7, <1>9, <1>10

\* A step past an item that is not gone through, which makes edits t and puts
\* numbers r on the scratch stack.
StepsOver(x, t, r) ==
    /\ UNCHANGED <<vars, kept>>
    /\ Inner.i <= Len(Items(Inner.owner)) /\ x = Here /\ ~ Reached(x)
    /\ t \in Seq(EditRecords) /\ edits' = edits \o t
    /\ r \in Seq(Int) /\ reserved' = reserved \o r /\ scopes' = Stepped
    /\ \A d \in Range(t) : IsCalledFor(d) /\ (d.rank = 1 => d.at = EndOf(x))
    /\ \A i, j \in 1..Len(t) : t[i].rank = 1 /\ t[j].rank = 1 => i = j
    /\ Handled(x)'
    /\ \A v : (\E i \in 1..Len(r) : r[i] = v) <=> \E f \in Dropped(Inner.owner, x) : Num(f) = v
    /\ Legal => \A i, j \in 1..Len(r) : i # j => r[i] # r[j]

LEMMA StepOver ==
    ASSUME Settled, Written, Visit, NEW x, NEW t, NEW r, StepsOver(x, t, r)
    PROVE Written' /\ Visit'
<1>0. /\ UNCHANGED <<vars, kept>>
      /\ Inner.i <= Len(Items(Inner.owner)) /\ x = Here /\ ~ Reached(x)
      /\ t \in Seq(EditRecords) /\ edits' = edits \o t
      /\ r \in Seq(Int) /\ reserved' = reserved \o r /\ scopes' = Stepped
      /\ \A d \in Range(t) : IsCalledFor(d) /\ (d.rank = 1 => d.at = EndOf(x))
      /\ \A i, j \in 1..Len(t) : t[i].rank = 1 /\ t[j].rank = 1 => i = j
      /\ Handled(x)'
  BY DEF StepsOver
<1>n. /\ \A v : (\E i \in 1..Len(r) : r[i] = v) <=> \E f \in Dropped(Inner.owner, x) : Num(f) = v
      /\ Legal => \A i, j \in 1..Len(r) : i # j => r[i] # r[j]
  BY DEF StepsOver
<1> PICK o : o = Inner.owner
  OBVIOUS
<1> PICK i : i = Inner.i
  OBVIOUS
<1> PICK q : q = Limit(o, i + 1)
  OBVIOUS
<1> PICK S : S = Stepped
  OBVIOUS
<1> PICK R : R = reserved \o r
  OBVIOUS
<1>1. /\ Stacked(scopes, reserved) /\ Tallied(scopes, reserved, Frontier)
      /\ Seen(Frontier) /\ Unseen(Frontier)
  BY DEF Visit
<1>2. /\ o \in Holders /\ Reached(o) /\ i \in 1..Len(Items(o)) /\ x \in Things /\ IsIn(x, o)
      /\ x = Items(o)[i] /\ Frontier = x /\ Frontier \in Nat
      /\ Len(scopes) \in Nat /\ Len(scopes) \in 1..Len(scopes)
  BY <1>0, <1>1, StackIs DEF Here
<1>3. x \in Nat /\ EndOf(x) \in Nat /\ x < EndOf(x) /\ EndOf(x) < q /\ q \in Nat
  <2>1. Tree /\ Len(Items(o)) \in Nat
    BY SettledTree, <1>2 DEF Tree
  <2>2. i + 1 \in 1..Len(Items(o)) + 1 /\ i < i + 1
    BY <1>2, <2>1
  <2>3. q \in Nat /\ EndOf(x) < q
    BY <1>2, <2>2, LimitIs
  <2> QED
    BY <1>2, <2>1, <2>3 DEF Tree
<1>4. /\ Stacked(S, R) /\ Len(S) = Len(scopes) /\ S[Len(S)].owner = o /\ S[Len(S)].i = i + 1
  <2>1. R \in Seq(Int) /\ Len(reserved) <= Len(R)
    <3>1. R \in Seq(Int) /\ Len(R) = Len(reserved) + Len(r) /\ Len(reserved) \in Nat /\ Len(r) \in Nat
      BY <1>0, <1>1, ConcatOfNumbers DEF Stacked
    <3> QED
      BY <3>1
  <2> QED
    BY <1>0, <1>1, <1>2, <2>1, SteppedIs DEF Inner
<1>5. Tallied(S, R, q)
  <2>a. Inner.i <= Len(Items(Inner.owner)) /\ x = Here /\ r \in Seq(Int)
    BY <1>0
  <2>b. Stacked(scopes, reserved) /\ Tallied(scopes, reserved, Frontier)
    BY <1>1
  <2>1. Tallied(Stepped, reserved \o r, Limit(Inner.owner, Inner.i + 1))
    BY <1>n, <2>a, <2>b, TalliedOver
  <2> QED
    BY <2>1
<1>6. \A h \in Holders, y \in Things :
        Reached(h) /\ IsIn(y, h) /\ x <= y /\ y < q => Handled(y)'
  <2> SUFFICES ASSUME NEW h \in Holders, NEW y \in Things,
                      Reached(h), IsIn(y, h), x <= y, y < q
      PROVE Handled(y)'
    OBVIOUS
  <2>1. y \in Span(x)
    BY <1>2, InNext
  <2>2. y = x
    BY <1>0, <1>2, <2>1, Alone
  <2> QED
    BY <1>0, <2>2
<1>7. \A h \in Losing : x <= EndOf(h) /\ EndOf(h) < q => Answered(h)'
  <2> SUFFICES ASSUME NEW h \in Losing, x <= EndOf(h), EndOf(h) < q PROVE Answered(h)'
    OBVIOUS
  <2>1. h \in Things /\ h \in kept /\ Kind(h) \in {"message", "enum"}
    BY KeptIsThing DEF Losing, Settled
  <2>2. h \in Span(x)
    BY <1>2, <2>1, EndsInNext
  <2>3. h = x
    BY <1>0, <1>2, <2>2, Alone
  <2>4. Kind(x) = "enum"
    BY <1>0, <2>1, <2>3 DEF Reached
  <2>5. Kind(x)' = "enum"
    BY <1>0, <2>4, SamePlaces
  <2> QED
    BY <1>0, <2>3, <2>5 DEF Handled
<1>8. \A d \in Range(t) : IsCalledFor(d) /\ (d.rank = 1 => x <= d.at /\ d.at < q)
  BY <1>0, <1>3
<1>9. Written' /\ Seen(q)' /\ Unseen(q)'
  <2>1. x <= q
    BY <1>3
  <2>2. Seen(x) /\ Unseen(x)
    BY <1>1, <1>2
  <2> QED
    BY <1>0, <1>3, <1>6, <1>7, <1>8, <2>1, <2>2, Onward
<1>10. scopes' = S /\ reserved' = R /\ Frontier' = q
  <2>1. scopes' = S /\ reserved' = R
    BY <1>0
  <2>2. Inner' = S[Len(S)]
    BY <2>1 DEF Inner
  <2>3. Limit(o, i + 1)' = q
    BY <1>0, SameVisit
  <2>4. Frontier' = Limit(o, i + 1)'
    BY <1>4, <2>2 DEF Frontier
  <2> QED
    BY <2>1, <2>3, <2>4
<1>11. Stacked(S, R)' /\ Tallied(S, R, q)'
  BY <1>0, <1>4, <1>5, SameVisit
<1>12. Visit'
  BY <1>9, <1>10, <1>11 DEF Visit
<1> QED
  BY <1>9, <1>12

-----------------------------------------------------------------------------
(* The numbers of dropped values, each once and none that is still in use. *)

Extended(w, e, x) == IF (w # <<>> /\ w[Len(w)] = x) \/ Alive(e, x) THEN w ELSE Append(w, x)
Squeezes(w, e, s, n) ==
    /\ w \in Seq(Int)
    /\ \A x : (\E i \in 1..Len(w) : w[i] = x) <=> Occurs(x, s, n) /\ ~ Alive(e, x)
    /\ Ascends(w)

LEMMA SqueezesOneMore ==
    ASSUME NEW s \in Seq(Int), Rises(s), NEW e, NEW n \in 1..Len(s), NEW w, Squeezes(w, e, s, n - 1)
    PROVE Squeezes(Extended(w, e, s[n]), e, s, n)
<1>1. /\ n \in Nat /\ n - 1 \in Nat /\ s[n] \in Int
      /\ \A i : i \in 1..n <=> i \in 1..n-1 \/ i = n
      /\ \A i \in 1..n-1 : s[i] <= s[n] /\ s[i] \in Int
  <2>1. \A i \in 1..n-1 : i \in 1..Len(s) /\ i < n
    OBVIOUS
  <2> QED
    BY <2>1 DEF Rises
<1>2. \A x : Occurs(x, s, n) <=> Occurs(x, s, n - 1) \/ x = s[n]
  BY <1>1 DEF Occurs
<1>3. /\ w \in Seq(Int) /\ Ascends(w) /\ Len(w) \in Nat
      /\ \A x : (\E i \in 1..Len(w) : w[i] = x) <=> Occurs(x, s, n - 1) /\ ~ Alive(e, x)
  BY DEF Squeezes
<1>4. CASE Alive(e, s[n])
  BY <1>2, <1>3, <1>4 DEF Extended, Squeezes
<1>5. CASE w # <<>> /\ w[Len(w)] = s[n]
  <2>1. \E i \in 1..Len(w) : w[i] = s[n]
    BY <1>3, <1>5
  <2>2. Occurs(s[n], s, n - 1)
    BY <1>3, <2>1
  <2> QED
    BY <1>2, <1>3, <1>5, <2>2 DEF Extended, Squeezes
<1>6. CASE ~ Alive(e, s[n]) /\ ~(w # <<>> /\ w[Len(w)] = s[n])
  <2> DEFINE u == Append(w, s[n])
  <2>1. /\ u \in Seq(Int) /\ Len(u) = Len(w) + 1
        /\ \A i \in 1..Len(w) : u[i] = w[i]
        /\ u[Len(w) + 1] = s[n]
    BY <1>1, <1>3, AppendIs
  <2> HIDE DEF u
  <2>2. \A i \in 1..Len(w) : w[i] < s[n]
    <3> TAKE i \in 1..Len(w)
    <3>1. w # <<>> /\ Len(w) \in 1..Len(w) /\ w[Len(w)] \in Int /\ w[i] \in Int
      BY <1>3
    <3>2. PICK j \in 1..n-1 : s[j] = w[Len(w)]
      BY <1>3, <3>1 DEF Occurs
    <3>3. w[Len(w)] < s[n]
      BY <1>1, <1>6, <3>1, <3>2
    <3>4. i = Len(w) \/ i < Len(w)
      BY <1>3
    <3>5. i < Len(w) => w[i] < w[Len(w)]
      BY <1>3, <3>1 DEF Ascends
    <3> QED
      BY <1>1, <3>1, <3>3, <3>4, <3>5
  <2>3. Ascends(u)
    <3> SUFFICES ASSUME NEW i \in 1..Len(w) + 1, NEW j \in 1..Len(w) + 1, i < j PROVE u[i] < u[j]
      BY <2>1 DEF Ascends
    <3>1. i \in 1..Len(w)
      BY <1>3
    <3>2. CASE j = Len(w) + 1
      BY <2>1, <2>2, <3>1, <3>2
    <3>3. CASE j # Len(w) + 1
      <4>0. Len(w) \in Nat
        BY <1>3
      <4>1. j \in 1..Len(w)
        BY <3>3, <4>0
      <4> QED
        BY <1>3, <2>1, <3>1, <4>1 DEF Ascends
    <3> QED
      BY <3>2, <3>3
  <2>4. \A x : (\E i \in 1..Len(u) : u[i] = x) <=> (\E i \in 1..Len(w) : w[i] = x) \/ x = s[n]
    <3>1. \A i \in 1..Len(u) : i \in 1..Len(w) \/ i = Len(w) + 1
      BY <1>3, <2>1
    <3>2. \A i \in 1..Len(w) : i \in 1..Len(u)
      BY <1>3, <2>1
    <3>3. Len(w) + 1 \in 1..Len(u)
      BY <1>3, <2>1
    <3> QED
      BY <2>1, <3>1, <3>2, <3>3
  <2>5. Squeezes(u, e, s, n)
    BY <1>2, <1>3, <1>6, <2>1, <2>3, <2>4 DEF Squeezes
  <2> QED
    BY <1>6, <2>5 DEF Extended, u
<1> QED
  BY <1>4, <1>5, <1>6

LEMMA SqueezedIs ==
    ASSUME NEW nums \in Seq(Int), NEW e
    PROVE Squeezes(Squeezed(e, nums), e, Sorted(nums), Len(Sorted(nums)))
<1> DEFINE s == Sorted(nums)
<1>0. s \in Seq(Int) /\ Rises(s)
  BY SortedIs DEF Sorts
<1> DEFINE N == Len(s)
           V == Seq(Int)
           h == [n \in 1..N |-> [v \in V |-> Extended(v, e, s[n])]]
           Solves(f) == f = [n \in 0..N |-> IF n = 0 THEN <<>>
                                            ELSE Extended(f[n-1], e, s[n])]
<1>1. Squeezed(e, nums) = (CHOOSE f : Solves(f))[N]
  BY DEF Squeezed, Extended
<1> HIDE DEF s
<1>2. <<>> \in V /\ N \in Nat /\ \A n \in 1..N : s[n] \in Int
  BY <1>0
<1>3. \A n \in 1..N, v \in V : h[n][v] = Extended(v, e, s[n])
  OBVIOUS
<1>4. \A n \in 1..N, v \in V : h[n][v] \in V
  <2> SUFFICES ASSUME NEW n \in 1..N, NEW v \in V PROVE h[n][v] \in V
    OBVIOUS
  <2>1. Append(v, s[n]) \in V
    BY <1>2, AppendIs
  <2> HIDE DEF h, V
  <2> QED
    BY <1>3, <2>1 DEF Extended
<1>5. \E f : Solves(f)
  <2>1. PICK f : Recurs(f, N, V, <<>>, h)
    <3> HIDE DEF V, h, N
    <3> QED
      BY <1>2, <1>4, RecursionIs
  <2>2. f \in [0..N -> V] /\ f[0] = <<>> /\ \A n \in 1..N : f[n] = h[n][f[n-1]]
    BY <2>1 DEF Recurs
  <2> HIDE DEF h, V, N
  <2>3. ASSUME NEW n \in 1..N
        PROVE f[n] = Extended(f[n-1], e, s[n])
    <3>0. n - 1 \in 0..N
      BY <1>2
    <3>1. f[n-1] \in V
      BY <2>2, <3>0
    <3> QED
      BY <1>3, <2>2, <3>1
  <2>4. ASSUME NEW n \in 0..N
        PROVE f[n] = IF n = 0 THEN <<>>
                     ELSE Extended(f[n-1], e, s[n])
    <3>1. CASE n = 0
      BY <2>2, <3>1
    <3>2. CASE n # 0
      <4>1. n \in 1..N
        BY <1>2, <3>2
      <4> QED
        BY <2>3, <3>2, <4>1
    <3> QED
      BY <3>1, <3>2
  <2> QED
    BY <2>2, <2>4
<1>6. PICK f : f = CHOOSE g : Solves(g)
  OBVIOUS
<1>7. Solves(f)
  BY <1>5, <1>6
<1> DEFINE T == {n \in 0..N : ~ Squeezes(f[n], e, s, n)}
<1>8. 0 \notin T
  <2>1. f[0] = <<>>
    BY <1>2, <1>7
  <2>2. Len(<<>>) = 0 /\ <<>> \in Seq(Int)
    OBVIOUS
  <2>3. Squeezes(<<>>, e, s, 0)
    BY <2>2 DEF Squeezes, Occurs, Ascends
  <2> QED
    BY <2>1, <2>3
<1>9. ASSUME NEW n \in 1..N, n - 1 \notin T PROVE n \notin T
  <2>1. n - 1 \in 0..N /\ n \in 0..N /\ n \in Nat /\ n >= 1 /\ n # 0
    BY <1>2
  <2>2. Squeezes(f[n-1], e, s, n - 1)
    BY <1>9, <2>1
  <2>3. f[n] = Extended(f[n-1], e, s[n])
    BY <1>7, <2>1
  <2>4. Squeezes(Extended(f[n-1], e, s[n]), e, s, n)
    BY <1>0, <2>1, <2>2, SqueezesOneMore
  <2> QED
    BY <2>3, <2>4
<1>10. T = {}
  <2>1. T \in SUBSET (0..N) /\ \A n \in 1..N : n \in T => n - 1 \in T
    BY <1>9
  <2> HIDE DEF T, N
  <2> QED
    BY <1>2, <1>8, <2>1, NoneFrom
<1>11. N \in 0..N
  BY <1>2
<1>12. Squeezes(f[N], e, s, N)
  BY <1>10, <1>11
<1> QED
  BY <1>1, <1>6, <1>12 DEF s

LEMMA NumIs == ASSUME Settled, NEW h \in Heads PROVE Num(h) \in Int
<1>1. IsText(text)
  BY DEF Settled, TwoStreams
<1>2. h \in 1..Len(text) /\ text \in Seq(Lexemes)
  BY <1>1 DEF Heads, IsText
<1>3. text[h] \in Lexemes
  BY <1>2
<1> QED
  BY <1>3 DEF Lexemes, Num

\* The numbers of the items s.
LEMMA NumsAre ==
    ASSUME Settled, NEW s \in Seq(Nat), \A i \in 1..Len(s) : s[i] \in Heads
    PROVE /\ Nums(s) \in Seq(Int) /\ Len(Nums(s)) = Len(s)
          /\ \A i \in 1..Len(s) : Nums(s)[i] = Num(s[i])
<1>1. \A i \in 1..Len(s) : Num(s[i]) \in Int
  BY NumIs
<1> QED
  BY <1>1 DEF Nums

\* The items of a kind in a message, a oneof or an enum, in order.
LEMMA InOrderOf ==
    ASSUME Settled, NEW o \in Things, Kind(o) \in {"message", "oneof", "enum"}, NEW kind, NEW S
    PROVE LET t == Those(OfKind(o, kind), S)
          IN /\ t \in Seq(Nat) /\ Ascends(t)
             /\ \A x : (\E i \in 1..Len(t) : t[i] = x) <=>
                          x \in S /\ x \in Heads /\ IsIn(x, o) /\ Kind(x) = kind
             /\ Len(t) = Len(OfKind(o, kind)) <=>
                  \A x \in Heads : IsIn(x, o) /\ Kind(x) = kind => x \in S
             /\ t # <<>> <=> \E x \in S : x \in Heads /\ IsIn(x, o) /\ Kind(x) = kind
<1> DEFINE s == Items(o)
           H == {h \in Heads : Kind(h) = kind}
           k == OfKind(o, kind)
           t == Those(k, S)
<1>0. Tree /\ Grammatical /\ o \in Holders /\ o # Root /\ o \in Heads
  BY SettledTree DEF Settled, Holders, Things, Tree
<1>1. /\ s \in Seq(Nat) /\ (\A h : IsIn(h, o) <=> \E i \in 1..Len(s) : s[i] = h)
      /\ \A i \in 1..Len(s) : s[i] \in Heads
      /\ \A i, j \in 1..Len(s) : i < j => EndOf(s[i]) < s[j]
  BY <1>0 DEF Tree
<1>2. \A i \in 1..Len(s) : s[i] \in Things
  <2> TAKE i \in 1..Len(s)
  <2>1. s[i] \in Heads /\ IsIn(s[i], o)
    BY <1>1
  <2>2. Kind(s[i]) \in ReadIn(o)
    BY <1>0, <2>1 DEF Grammatical
  <2>3. "text" \notin ReadIn(o)
    BY <1>0 DEF ReadIn
  <2> QED
    BY <2>1, <2>2, <2>3 DEF Things
<1>3. \A i \in 1..Len(s) : s[i] \in Nat /\ EndOf(s[i]) \in Nat /\ s[i] < EndOf(s[i])
  BY <1>0, <1>2 DEF Tree
<1> HIDE DEF s, k, t, H
<1>4. Ascends(s)
  BY <1>1, <1>3 DEF Ascends
<1>5. Picks(k, s, H, Len(s))
  BY <1>1, ThoseIs DEF k, s, H, OfKind
<1>6. k \in Seq(Nat) /\ Ascends(k) /\ \A x : (\E i \in 1..Len(k) : k[i] = x) <=> x \in H /\ IsIn(x, o)
  BY <1>1, <1>4, <1>5 DEF Picks, Occurs
<1>7. Picks(t, k, S, Len(k))
  BY <1>6, ThoseIs DEF t
<1>8. /\ t \in Seq(Nat) /\ Ascends(t)
      /\ \A x : (\E i \in 1..Len(t) : t[i] = x) <=> x \in S /\ x \in H /\ IsIn(x, o)
      /\ Len(t) = Len(k) <=> \A i \in 1..Len(k) : k[i] \in S
  BY <1>6, <1>7 DEF Picks, Occurs
<1>9. \A x : (\E i \in 1..Len(t) : t[i] = x) <=>
                x \in S /\ x \in Heads /\ IsIn(x, o) /\ Kind(x) = kind
  BY <1>8 DEF H
<1>10. Len(t) = Len(k) <=> \A x \in Heads : IsIn(x, o) /\ Kind(x) = kind => x \in S
  <2>1. \A x : x \in H <=> x \in Heads /\ Kind(x) = kind
    BY DEF H
  <2>2. (\A i \in 1..Len(k) : k[i] \in S) <=> \A x \in H : IsIn(x, o) => x \in S
    BY <1>6
  <2> QED
    BY <1>8, <2>1, <2>2
<1>11. t # <<>> <=> \E i \in 1..Len(t) : TRUE
  <2>1. t # <<>> => 1 \in 1..Len(t)
    BY <1>8
  <2>2. t = <<>> => 1..Len(t) = {}
    OBVIOUS
  <2> QED
    BY <2>1, <2>2
<1>12. t # <<>> <=> \E x \in S : x \in Heads /\ IsIn(x, o) /\ Kind(x) = kind
  BY <1>9, <1>11
<1> QED
  BY <1>8, <1>9, <1>10, <1>12 DEF t, k

\* A list that ascends has no element twice.
LEMMA AscendsOnce ==
    ASSUME NEW s \in Seq(Nat), Ascends(s)
    PROVE \A i, j \in 1..Len(s) : i # j => s[i] # s[j]
<1> SUFFICES ASSUME NEW i \in 1..Len(s), NEW j \in 1..Len(s), i # j PROVE s[i] # s[j]
  OBVIOUS
<1>1. i < j \/ j < i
  OBVIOUS
<1>2. s[i] < s[j] \/ s[j] < s[i]
  BY <1>1 DEF Ascends
<1>3. s[i] \in Nat /\ s[j] \in Nat
  OBVIOUS
<1> QED
  BY <1>2, <1>3

\* kept_values_alias finds what the reference definition says.
LEMMA StillAliasedIs ==
    ASSUME Settled, NEW e \in Things, Kind(e) = "enum"
    PROVE StillAliased(e) <=> Aliases(Values(e) \cap kept)
<1> DEFINE k == Keeps(e, kept)
           V == Values(e) \cap kept
<1>0. /\ k \in Seq(Nat) /\ Ascends(k)
      /\ \A x : (\E i \in 1..Len(k) : k[i] = x) <=>
                   x \in kept /\ x \in Heads /\ IsIn(x, e) /\ Kind(x) = "value"
  BY InOrderOf DEF Keeps
<1>1. \A v : v \in Values(e) <=> v \in Heads /\ IsIn(v, e) /\ Kind(v) = "value"
  BY SettledTree, OfKindIs DEF Values, Holders
<1>2. \A x : (\E i \in 1..Len(k) : k[i] = x) <=> x \in V
  BY <1>0, <1>1
<1>3. \A i, j \in 1..Len(k) : i # j => k[i] # k[j]
  BY <1>0, AscendsOnce
<1>4. StillAliased(e) <=> \E i, j \in 1..Len(k) : i < j /\ Num(k[i]) = Num(k[j])
  BY DEF StillAliased
<1> HIDE DEF k, V
<1>5. ASSUME NEW i \in 1..Len(k), NEW j \in 1..Len(k), i < j, Num(k[i]) = Num(k[j])
      PROVE \E v, w \in V : v # w /\ Num(v) = Num(w)
  <2>1. k[i] \in V /\ k[j] \in V
    BY <1>2
  <2>2. i # j
    BY <1>5
  <2> QED
    BY <1>3, <1>5, <2>1, <2>2
<1>6. ASSUME NEW v \in V, NEW w \in V, v # w, Num(v) = Num(w)
      PROVE \E i, j \in 1..Len(k) : i < j /\ Num(k[i]) = Num(k[j])
  <2>1. PICK i \in 1..Len(k) : k[i] = v
    BY <1>2
  <2>2. PICK j \in 1..Len(k) : k[j] = w
    BY <1>2
  <2>3. i < j \/ j < i
    BY <1>6, <2>1, <2>2
  <2> QED
    BY <1>6, <2>1, <2>2, <2>3
<1> QED
  BY <1>4, <1>5, <1>6 DEF Aliases, V

\* A reserved statement, for the numbers that a scope has lost.
LEMMA InsertionIs ==
    ASSUME Settled, NEW o \in kept, Kind(o) \in {"message", "enum"}, NEW nums \in Seq(Int),
           \A x : (\E i \in 1..Len(nums) : nums[i] = x) <=> x \in Lost(o),
           Legal => \A i, j \in 1..Len(nums) : i # j => nums[i] # nums[j]
    PROVE LET t == Insertion(o, nums)
          IN /\ t \in Seq(EditRecords) /\ Len(t) <= 1
             /\ \A d \in Range(t) : d.rank = 1 /\ d.at = EndOf(o) /\ IsInsertion(d, o) /\ o \in Losing
             /\ o \in Losing => \E d \in Range(t) : IsInsertion(d, o)
<1> DEFINE t == Insertion(o, nums)
           e == Ins(meta[o].end, Sorted(nums))
<1>0. Tree /\ o \in Things /\ o \in Heads
  BY SettledTree, KeptIsThing DEF Settled, Things
<1>1. CASE nums = <<>>
  <2>1. t = <<>> /\ Lost(o) = {}
    BY <1>1 DEF Insertion
  <2>2. o \notin Losing
    BY <2>1 DEF Losing
  <2>3. t \in Seq(EditRecords) /\ Len(t) <= 1 /\ \A d : d \notin Range(t)
    BY <2>1 DEF Range
  <2> QED
    BY <2>2, <2>3
<1>2. CASE nums # <<>>
  <2>1. t = <<e>>
    BY <1>2 DEF Insertion
  <2>2. /\ Sorted(nums) \in Seq(Int)
        /\ \A x : (\E i \in 1..Len(Sorted(nums)) : Sorted(nums)[i] = x) <=> x \in Lost(o)
        /\ Legal => Ascends(Sorted(nums))
    <3>1. Sorts(Sorted(nums), nums, Len(nums))
      BY SortedIs
    <3> QED
      BY <3>1 DEF Sorts, Occurs, Distinct
  <2>3. meta[o].end \in Nat /\ EndOf(o) = meta[o].end
    BY <1>0 DEF Tree, EndOf
  <2>4. e \in EditRecords /\ e.rank = 1 /\ e.at = EndOf(o) /\ e.nums = Sorted(nums)
    BY <2>2, <2>3 DEF Ins, EditRecords
  <2>5. Range(Sorted(nums)) = Lost(o)
    <3>1. \A x : x \in Range(Sorted(nums)) <=> \E i \in 1..Len(Sorted(nums)) : Sorted(nums)[i] = x
      BY <2>2, RangeIs
    <3> QED
      BY <2>2, <3>1
  <2>6. DOMAIN Sorted(nums) = 1..Len(Sorted(nums))
    BY <2>2
  <2>7. IsInsertion(e, o)
    BY <2>2, <2>4, <2>5, <2>6 DEF IsInsertion, Ascends
  <2>8. o \in Losing
    <3>1. 1 \in 1..Len(nums)
      BY <1>2
    <3>2. Lost(o) # {}
      BY <3>1
    <3> QED
      BY <3>2 DEF Losing
  <2> HIDE DEF e, t
  <2>9. t \in Seq(EditRecords) /\ Len(t) <= 1 /\ \A d : d \in Range(t) <=> d = e
    <3>1. t \in Seq(EditRecords) /\ Len(t) = 1 /\ t[1] = e
      BY <2>1, <2>4
    <3>2. \A d : d \in Range(t) <=> \E i \in 1..Len(t) : t[i] = d
      BY <3>1, RangeIs
    <3> QED
      BY <3>1, <3>2
  <2> QED
    BY <2>4, <2>7, <2>8, <2>9 DEF t
<1> QED
  BY <1>1, <1>2

\* The visit comes to an item.
LEMMA VisitIs ==
    ASSUME Settled, Visit, NEW kinds, Visiting(kinds)
    PROVE /\ Inner.i <= Len(Items(Inner.owner)) /\ Kind(Here) \in kinds
          /\ Here \in Things /\ Here \in Heads /\ Here # Root /\ IsIn(Here, Inner.owner)
          /\ Inner.owner \in Holders /\ Reached(Inner.owner)
          /\ Kind(Here) \in ReadIn(Inner.owner)
          /\ Kind(Here) \in {"field", "oneof"} => Inner.owner \in Things /\ Kind(Inner.owner) = "message"
<1>1. Stacked(scopes, reserved) /\ Inner.i <= Len(Items(Inner.owner)) /\ Kind(Here) \in kinds
  BY DEF Visit, Visiting
<1>2. /\ Here \in Things /\ IsIn(Here, Inner.owner)
      /\ Inner.owner \in Holders /\ Reached(Inner.owner) /\ Inner.i \in 1..Len(Items(Inner.owner))
  BY <1>1, StackIs
<1>3. Tree /\ Here \in Heads /\ Here # Root
  BY <1>2, SettledTree DEF Things, Tree
<1>4. Kind(Here) \in ReadIn(Inner.owner)
  BY <1>2, <1>3 DEF Tree, Holders, Things
<1>5. Kind(Here) \in {"field", "oneof"} => Inner.owner \in Things /\ Kind(Inner.owner) = "message"
  BY <1>2, <1>3, AboveIs DEF Reached, Holders
<1> QED
  BY <1>1, <1>2, <1>3, <1>4, <1>5

\* Without edits and numbers.
LEMMA NothingIs ==
    /\ <<>> \in Seq(EditRecords) /\ <<>> \in Seq(Int) /\ Len(<<>>) = 0
    /\ \A d : d \notin Range(<<>>)
  BY DEF Range

LEMMA PassHolds == ASSUME Settled, Written, Visit, Pass PROVE Written' /\ Visit'
<1> PICK x : x = Here
  OBVIOUS
<1>1. /\ Inner.i <= Len(Items(Inner.owner)) /\ Kind(x) \in Leaves \cup {"rpc"}
      /\ x \in Things /\ x \in Heads /\ x # Root
      /\ Kind(x) \in Definitions => x \in kept
      /\ Kind(x) \in ReadIn(Inner.owner) /\ Reached(Inner.owner)
      /\ scopes' = Stepped /\ reserved' = reserved /\ edits' = edits
      /\ UNCHANGED <<vars, kept>>
  BY VisitIs DEF Pass
<1>2. ~ Reached(x)
  BY <1>1 DEF Reached, Leaves
<1>3. Kind(x) \notin {"value", "alias", "oneof", "enum"}
  BY <1>1 DEF Reached, ReadIn, Leaves
<1>4. Handled(x)'
  <2>1. ~ Goes(x)
    BY <1>1, <1>3 DEF Goes
  <2>2. Handled(x)
    BY <1>3, <2>1 DEF Handled
  <2> QED
    BY <1>1, <2>2, StaysHandled DEF Written
<1>5. Dropped(Inner.owner, x) = {}
  BY <1>1, <1>3 DEF Dropped, Fields, Definitions
<1>6. edits' = edits \o <<>> /\ reserved' = reserved \o <<>>
  BY <1>1 DEF Written, Visit, Stacked
<1>7. StepsOver(x, <<>>, <<>>)
  BY <1>1, <1>2, <1>4, <1>5, <1>6, NothingIs DEF StepsOver
<1> QED
  BY <1>7, StepOver

LEMMA DropHolds == ASSUME Settled, Written, Visit, Drop PROVE Written' /\ Visit'
<1> PICK x : x = Here
  OBVIOUS
<1> PICK r : r = IF Kind(x) = "field" THEN <<Num(x)>> ELSE <<>>
  OBVIOUS
<1> PICK t : t = Deletion(x)
  OBVIOUS
<1>1. /\ Inner.i <= Len(Items(Inner.owner)) /\ Kind(x) \in Definitions /\ x \notin kept
      /\ x \in Things /\ x \in Heads /\ x # Root /\ IsIn(x, Inner.owner)
      /\ Kind(x) = "field" => Inner.owner \in Things /\ Kind(Inner.owner) = "message"
      /\ scopes' = Stepped /\ edits' = edits \o t
      /\ reserved' = IF Kind(x) = "field" THEN Append(reserved, Num(x)) ELSE reserved
      /\ UNCHANGED <<vars, kept>>
  BY VisitIs DEF Drop
<1>2. ~ Reached(x) /\ Goes(x)
  BY <1>1 DEF Reached, Goes
<1>3. t \in Seq(EditRecords) /\ \A d \in Range(t) : d.rank = 0
  BY <1>1, DeletionOf
<1>4. \A d \in Range(t) : IsCalledFor(d) /\ d.rank # 1
  BY <1>1, <1>2, <1>3 DEF IsCalledFor
<1>5. \A i, j \in 1..Len(t) : t[i].rank = 1 /\ t[j].rank = 1 => i = j
  BY <1>3, <1>4, RangeIs
<1>6. Num(x) \in Int
  BY <1>1, NumIs
<1>7. r \in Seq(Int) /\ reserved' = reserved \o r
  <2>1. reserved \in Seq(Int)
    BY DEF Visit, Stacked
  <2> QED
    BY <1>1, <1>6, <2>1
<1>8. \A i, j \in 1..Len(r) : i # j => r[i] # r[j]
  BY <1>7
<1>9. Handled(x)'
  <2>1. Deleted(x)'
    <3>1. edits' \in Seq(EditRecords) /\ \A d : d \in Range(t) => d \in Range(edits')
      BY <1>1, <1>3, ConcatIs DEF Written
    <3>2. Deletion(x)' = t
      BY <1>1, SamePlaces
    <3> QED
      BY <3>1, <3>2 DEF Deleted
  <2>2. Goes(x)' /\ x \notin Losing' /\ Kind(x)' = Kind(x)
    BY <1>1, <1>2, SamePlaces, SamePlan DEF Losing
  <2> QED
    BY <2>1, <2>2 DEF Handled, Answered
<1>10. \A v : (\E i \in 1..Len(r) : r[i] = v) <=> \E f \in Dropped(Inner.owner, x) : Num(f) = v
  <2>1. Kind(x) # "oneof"
    BY <1>1 DEF Definitions
  <2>2. CASE Kind(x) = "field"
    <3>1. x \in Fields(Inner.owner)
      BY <1>1, <2>2, FieldsAre, SettledTree
    <3>2. Dropped(Inner.owner, x) = {x}
      BY <1>1, <2>1, <3>1 DEF Dropped
    <3>3. r = <<Num(x)>>
      BY <2>2
    <3> HIDE DEF Dropped
    <3> QED
      BY <1>6, <3>2, <3>3
  <2>3. CASE Kind(x) # "field"
    <3>1. Dropped(Inner.owner, x) = {}
      BY <2>1, <2>3 DEF Dropped, Fields
    <3> QED
      BY <2>3, <3>1
  <2> QED
    BY <2>2, <2>3
<1>11. \A d \in Range(t) : IsCalledFor(d) /\ (d.rank = 1 => d.at = EndOf(x))
  BY <1>4
<1>12. StepsOver(x, t, r)
  BY <1>1, <1>2, <1>3, <1>5, <1>7, <1>8, <1>9, <1>10, <1>11 DEF StepsOver
<1> QED
  BY <1>12, StepOver

\* Deletions of items that go.
LEMMA DeletionsOf ==
    ASSUME Settled, NEW s \in Seq(Nat), \A i \in 1..Len(s) : s[i] \in Things /\ Goes(s[i])
    PROVE /\ Deletions(s) \in Seq(EditRecords)
          /\ \A d \in Range(Deletions(s)) : d.rank = 0 /\ IsCalledFor(d)
          /\ \A i \in 1..Len(s) : \A d \in Range(Deletion(s[i])) : d \in Range(Deletions(s))
<1>1. TwoStreams /\ TypeOK /\ Tied /\ Runs /\ Tree
  BY SettledTree DEF Settled, Core, Nested
<1>2. \A i \in 1..Len(s) : s[i] \in Heads /\ s[i] <= EndOf(s[i])
  <2> TAKE i \in 1..Len(s)
  <2>1. s[i] \in Nat /\ EndOf(s[i]) \in Nat /\ s[i] < EndOf(s[i])
    BY <1>1 DEF Tree
  <2> QED
    BY <2>1 DEF Things
<1>3. Joins(Deletions(s), s, Len(s))
  BY <1>1, <1>2, DeletionsAre
<1>4. \A i \in 1..Len(s) : \A d \in Range(Deletion(s[i])) : d.rank = 0 /\ IsCalledFor(d)
  BY <1>2, DeletionOf DEF IsCalledFor
<1> QED
  BY <1>3, <1>4 DEF Joins

\* Edits made now.
LEMMA MadeIs ==
    ASSUME Written, UNCHANGED <<vars, kept>>, NEW t \in Seq(EditRecords), edits' = edits \o t
    PROVE /\ \A h : (\A d \in Range(Deletion(h)) : d \in Range(t)) => Deleted(h)'
          /\ \A o : (\E d \in Range(t) : IsInsertion(d, o)) => Answered(o)'
<1>1. /\ edits' \in Seq(EditRecords) /\ \A d : d \in Range(t) => d \in Range(edits')
  BY ConcatIs DEF Written
<1>2. \A h : Deletion(h)' = Deletion(h)
  BY SamePlaces
<1>3. \A d, o : IsInsertion(d, o)' <=> IsInsertion(d, o)
  BY SamePlaces, SamePlan DEF IsInsertion
<1>4. \A d : d \in Range(edits') => \E n \in 1..Len(edits') : edits'[n] = d
  BY <1>1, RangeIs
<1>5. \A o : (\E d \in Range(t) : IsInsertion(d, o)) => Answered(o)'
  BY <1>1, <1>3, <1>4 DEF Answered
<1> QED
  BY <1>1, <1>2, <1>5 DEF Deleted

LEMMA OneofHolds == ASSUME Settled, Written, Visit, VisitOneof PROVE Written' /\ Visit'
<1>a. PICK x : x = Here
  OBVIOUS
<1>b. PICK o : o = Inner.owner
  OBVIOUS
<1>c. PICK s : s = Those(OfKind(x, "field"), Heads \ kept)
  OBVIOUS
<1>d. PICK r : r = Nums(s)
  OBVIOUS
<1>e. PICK t : t = IF OfKind(x, "field") # <<>> /\ Len(s) = Len(OfKind(x, "field"))
                 THEN Deletion(x) ELSE Deletions(s)
  OBVIOUS
<1>1. /\ Inner.i <= Len(Items(Inner.owner)) /\ Kind(x) = "oneof"
      /\ x \in Things /\ x \in Heads /\ x # Root /\ IsIn(x, o)
      /\ o \in Things /\ Kind(o) = "message"
      /\ scopes' = Stepped /\ edits' = edits \o t /\ reserved' = reserved \o r
      /\ UNCHANGED <<vars, kept>>
  BY <1>a, <1>b, <1>c, <1>d, <1>e, VisitIs DEF VisitOneof
<1>2. /\ s \in Seq(Nat) /\ Ascends(s)
      /\ \A f : (\E i \in 1..Len(s) : s[i] = f) <=>
                   f \in Heads \ kept /\ f \in Heads /\ IsIn(f, x) /\ Kind(f) = "field"
      /\ Len(s) = Len(OfKind(x, "field")) <=>
           \A f \in Heads : IsIn(f, x) /\ Kind(f) = "field" => f \in Heads \ kept
  <2>1. x \in Things /\ Kind(x) \in {"message", "oneof", "enum"}
    BY <1>1
  <2>2. \A S : LET w == Those(OfKind(x, "field"), S)
               IN /\ w \in Seq(Nat) /\ Ascends(w)
                  /\ \A f : (\E i \in 1..Len(w) : w[i] = f) <=>
                               f \in S /\ f \in Heads /\ IsIn(f, x) /\ Kind(f) = "field"
                  /\ Len(w) = Len(OfKind(x, "field")) <=>
                       \A f \in Heads : IsIn(f, x) /\ Kind(f) = "field" => f \in S
    BY <2>1, InOrderOf
  <2> QED
    BY <1>c, <2>2
<1>3. \A f : (\E i \in 1..Len(s) : s[i] = f) <=>
                f \notin kept /\ f \in Heads /\ IsIn(f, x) /\ Kind(f) = "field"
  BY <1>2
<1>4. ~ Reached(x) /\ Tree
  BY <1>1, SettledTree DEF Reached
<1>5. \A i \in 1..Len(s) : s[i] \in Things /\ s[i] \in Heads /\ Goes(s[i]) /\ Kind(s[i]) = "field"
  BY <1>3 DEF Things, Goes, Definitions
<1>6. Goes(x) <=> OfKind(x, "field") # <<>> /\ Len(s) = Len(OfKind(x, "field"))
  <2>1. \A f : f \in Range(OfKind(x, "field")) <=> f \in Heads /\ IsIn(f, x) /\ Kind(f) = "field"
    BY <1>1, <1>4, OfKindIs DEF Holders
  <2>2. Range(OfKind(x, "field")) \cap kept = {} <=> Len(s) = Len(OfKind(x, "field"))
    BY <1>2, <2>1
  <2> QED
    BY <1>1, <2>2 DEF Goes, Definitions
<1>7. t \in Seq(EditRecords) /\ \A d \in Range(t) : IsCalledFor(d) /\ d.rank = 0
  <2>1. CASE Goes(x)
    <3>1. t = Deletion(x)
      BY <1>6, <1>e, <2>1
    <3> QED
      BY <1>1, <2>1, <3>1, DeletionOf DEF IsCalledFor
  <2>2. CASE ~ Goes(x)
    <3>1. t = Deletions(s)
      BY <1>6, <1>e, <2>2
    <3> QED
      BY <1>2, <1>5, <3>1, DeletionsOf
  <2> QED
    BY <2>1, <2>2
<1>8. \A i, j \in 1..Len(t) : t[i].rank = 1 /\ t[j].rank = 1 => i = j
  <2>1. \A i \in 1..Len(t) : t[i].rank = 0
    BY <1>7, RangeIs
  <2> QED
    BY <2>1
<1>9. Handled(x)'
  <2>1. \A h : (\A d \in Range(Deletion(h)) : d \in Range(t)) => Deleted(h)'
    BY <1>1, <1>7, MadeIs
  <2>2. Goes(x) => Deleted(x)'
    BY <1>6, <1>e, <2>1
  <2>3. ASSUME ~ Goes(x), NEW y \in Heads, IsIn(y, x), Goes(y) PROVE Deleted(y)'
    <3>1. Kind(y) \in {"field", "option"}
      BY <1>1, <2>3 DEF Settled, Grammatical, ReadIn, Root
    <3>2. Kind(y) = "field" /\ y \notin kept
      BY <2>3, <3>1, GoesIs DEF Definitions
    <3>3. PICK i \in 1..Len(s) : s[i] = y
      BY <1>3, <2>3, <3>2
    <3>4. \A d \in Range(Deletion(y)) : d \in Range(t)
      BY <1>2, <1>5, <1>6, <1>e, <2>3, <3>3, DeletionsOf
    <3> QED
      BY <2>1, <3>4
  <2>4. /\ Goes(x)' <=> Goes(x)
        /\ Kind(x)' = "oneof" /\ Heads' = Heads
        /\ \A y : (IsIn(y, x)' <=> IsIn(y, x)) /\ (Goes(y)' <=> Goes(y))
    BY <1>1, SamePlaces, SamePlan
  <2> QED
    BY <2>2, <2>3, <2>4 DEF Handled
<1>10. r \in Seq(Int) /\ Len(r) = Len(s) /\ \A i \in 1..Len(s) : r[i] = Num(s[i])
  BY <1>2, <1>5, <1>d, NumsAre
<1>11. \A f : f \in Dropped(o, x) <=> \E i \in 1..Len(s) : s[i] = f
  <2> TAKE f
  <2>1. ASSUME f \in Dropped(o, x) PROVE \E i \in 1..Len(s) : s[i] = f
    <3>1. f \in Heads /\ f \notin kept /\ Kind(f) = "field"
      BY <2>1 DEF Dropped, Fields
    <3>2. f = x \/ IsIn(f, x)
      BY <2>1 DEF Dropped
    <3> QED
      BY <1>1, <1>3, <3>1, <3>2
  <2>2. ASSUME NEW i \in 1..Len(s), s[i] = f PROVE f \in Dropped(o, x)
    <3>1. f \in Things /\ f \notin kept /\ IsIn(f, x) /\ Kind(f) = "field"
      BY <1>3, <1>5, <2>2
    <3>2. f \in Fields(o)
      BY <1>1, <1>4, <3>1, FieldsAre
    <3> QED
      BY <1>1, <3>1, <3>2 DEF Dropped
  <2> QED
    BY <2>1, <2>2
<1>12. \A v : (\E i \in 1..Len(r) : r[i] = v) <=> \E f \in Dropped(o, x) : Num(f) = v
  BY <1>10, <1>11
<1>13. Legal => \A i, j \in 1..Len(r) : i # j => r[i] # r[j]
  <2> SUFFICES ASSUME Legal, NEW i \in 1..Len(s), NEW j \in 1..Len(s), i # j
      PROVE Num(s[i]) # Num(s[j])
    BY <1>10
  <2>1. s[i] # s[j]
    BY <1>2, AscendsOnce
  <2>2. s[i] \in Fields(o) /\ s[j] \in Fields(o)
    BY <1>11 DEF Dropped
  <2>3. o \in Heads
    BY <1>1 DEF Things
  <2> QED
    BY <2>1, <2>2, <2>3 DEF Legal
<1>14. StepsOver(x, t, r)
  BY <1>1, <1>4, <1>7, <1>8, <1>9, <1>10, <1>12, <1>13, <1>a, <1>b DEF StepsOver
<1> QED
  BY <1>14, StepOver

\* The numbers an enum loses.
LEMMA LostValues ==
    ASSUME Settled, NEW e \in Things, Kind(e) = "enum",
           NEW s \in Seq(Nat),
           \A v : (\E i \in 1..Len(s) : s[i] = v) <=>
                     v \notin kept /\ v \in Heads /\ IsIn(v, e) /\ Kind(v) = "value"
    PROVE LET n == Squeezed(e, Nums(s))
          IN /\ n \in Seq(Int)
             /\ \A x : (\E i \in 1..Len(n) : n[i] = x) <=> x \in Lost(e)
             /\ \A i, j \in 1..Len(n) : i # j => n[i] # n[j]
<1> DEFINE m == Nums(s)
           n == Squeezed(e, m)
<1>1. m \in Seq(Int) /\ Len(m) = Len(s) /\ \A i \in 1..Len(s) : m[i] = Num(s[i])
  BY NumsAre
<1>2. \A v : v \in Values(e) <=> v \in Heads /\ IsIn(v, e) /\ Kind(v) = "value"
  BY SettledTree, OfKindIs DEF Values, Holders
<1>3. \A x : Alive(e, x) <=> \E v \in Values(e) \cap kept : Num(v) = x
  BY DEF Alive, Values
<1>4. \A x : Occurs(x, m, Len(m)) <=> \E v \in Values(e) \ kept : Num(v) = x
  <2>1. \A v : (\E i \in 1..Len(s) : s[i] = v) <=> v \in Values(e) \ kept
    BY <1>2
  <2> HIDE DEF m
  <2> QED
    BY <1>1, <2>1 DEF Occurs
<1>5. \A x : x \in Lost(e) <=>
        (\E v \in Values(e) \ kept : Num(v) = x) /\ ~ \E v \in Values(e) \cap kept : Num(v) = x
  BY DEF Lost
<1> HIDE DEF m, n
<1>6. /\ Sorted(m) \in Seq(Int)
      /\ \A x : Occurs(x, Sorted(m), Len(Sorted(m))) <=> Occurs(x, m, Len(m))
  <2>1. Sorts(Sorted(m), m, Len(m))
    BY <1>1, SortedIs
  <2> QED
    BY <2>1 DEF Sorts, Occurs
<1>7. /\ n \in Seq(Int) /\ Ascends(n)
      /\ \A x : (\E i \in 1..Len(n) : n[i] = x) <=>
                   Occurs(x, Sorted(m), Len(Sorted(m))) /\ ~ Alive(e, x)
  <2>1. Squeezes(n, e, Sorted(m), Len(Sorted(m)))
    BY <1>1, SqueezedIs DEF n
  <2> QED
    BY <2>1 DEF Squeezes
<1>8. \A x : (\E i \in 1..Len(n) : n[i] = x) <=> x \in Lost(e)
  BY <1>3, <1>4, <1>5, <1>6, <1>7
<1>9. \A i, j \in 1..Len(n) : i # j => n[i] # n[j]
  <2> TAKE i, j \in 1..Len(n)
  <2>1. n[i] \in Int /\ n[j] \in Int /\ (i < j \/ j < i \/ i = j)
    BY <1>7
  <2>2. (i < j => n[i] < n[j]) /\ (j < i => n[j] < n[i])
    BY <1>7 DEF Ascends
  <2> QED
    BY <2>1, <2>2
<1> QED
  BY <1>7, <1>8, <1>9 DEF n, m

\* What is pushed on a stack is above what was there.
LEMMA PushedIs ==
    ASSUME NEW r \in Seq(Int), NEW m \in Seq(Int)
    PROVE Pushed(r \o m, Len(r)) = m
<1> DEFINE c == r \o m
           p == Pushed(c, Len(r))
<1>1. /\ c \in Seq(Int) /\ Len(c) = Len(r) + Len(m) /\ Len(r) \in Nat /\ Len(m) \in Nat
      /\ \A i \in Len(r) + 1 .. Len(r) + Len(m) : c[i] = m[i - Len(r)]
  BY ConcatOfNumbers
<1> HIDE DEF c
<1>2. /\ p \in Seq(Int) /\ Len(p) = Len(m)
      /\ \A i \in 1..Len(m) : p[i] = c[Len(r) + i]
  BY <1>1 DEF Pushed
<1>3. \A i \in 1..Len(m) : p[i] = m[i]
  <2> SUFFICES ASSUME NEW i \in 1..Len(m) PROVE p[i] = m[i]
    OBVIOUS
  <2>1. Len(r) + i \in Len(r) + 1 .. Len(r) + Len(m) /\ (Len(r) + i) - Len(r) = i
    BY <1>1
  <2> QED
    BY <1>1, <1>2, <2>1
<1> HIDE DEF p
<1>4. p = [i \in 1..Len(m) |-> p[i]] /\ m = [i \in 1..Len(m) |-> m[i]]
  <2>1. p = [i \in 1..Len(p) |-> p[i]]
    BY <1>2
  <2>2. m = [i \in 1..Len(m) |-> m[i]]
    OBVIOUS
  <2> QED
    BY <1>2, <2>1, <2>2
<1>5. [i \in 1..Len(m) |-> p[i]] = [i \in 1..Len(m) |-> m[i]]
  BY <1>3
<1>6. p = m
  BY <1>4, <1>5
<1> QED
  BY <1>6 DEF p, c

LEMMA EnumHolds == ASSUME Settled, Written, Visit, VisitEnum PROVE Written' /\ Visit'
<1>a. PICK x : x = Here
  OBVIOUS
<1>b. PICK o : o = Inner.owner
  OBVIOUS
<1>c. PICK s : s = Those(OfKind(x, "value"), Heads \ kept)
  OBVIOUS
<1>d. PICK a : a = IF s = <<>> \/ StillAliased(x) THEN <<>> ELSE OfKind(x, "alias")
  OBVIOUS
<1>e. PICK n : n = Squeezed(x, Nums(s))
  OBVIOUS
<1>f. PICK u : u = Insertion(x, n)
  OBVIOUS
<1>g. PICK t : t = Deletions(s) \o Deletions(a) \o u
  OBVIOUS
<1>1. /\ Inner.i <= Len(Items(o)) /\ Kind(x) = "enum" /\ x \in kept
      /\ x \in Things /\ x \in Heads /\ x # Root /\ IsIn(x, o)
      /\ scopes' = Stepped /\ reserved' = reserved
      /\ UNCHANGED <<vars, kept>>
  BY <1>a, <1>b, VisitIs DEF VisitEnum
<1>2. /\ s \in Seq(Nat)
      /\ \A v : (\E i \in 1..Len(s) : s[i] = v) <=>
                   v \notin kept /\ v \in Heads /\ IsIn(v, x) /\ Kind(v) = "value"
      /\ s # <<>> <=> \E v \in Heads : v \notin kept /\ IsIn(v, x) /\ Kind(v) = "value"
  <2>1. x \in Things /\ Kind(x) \in {"message", "oneof", "enum"}
    BY <1>1
  <2>2. \A S : LET w == Those(OfKind(x, "value"), S)
               IN /\ w \in Seq(Nat)
                  /\ \A f : (\E i \in 1..Len(w) : w[i] = f) <=>
                               f \in S /\ f \in Heads /\ IsIn(f, x) /\ Kind(f) = "value"
                  /\ w # <<>> <=> \E f \in S : f \in Heads /\ IsIn(f, x) /\ Kind(f) = "value"
    BY <2>1, InOrderOf
  <2>3. /\ s \in Seq(Nat)
        /\ \A f : (\E i \in 1..Len(s) : s[i] = f) <=>
                     f \in Heads \ kept /\ f \in Heads /\ IsIn(f, x) /\ Kind(f) = "value"
        /\ s # <<>> <=> \E f \in Heads \ kept : f \in Heads /\ IsIn(f, x) /\ Kind(f) = "value"
    BY <1>c, <2>2
  <2> QED
    BY <2>3
<1>3. edits' = edits \o t
  <2>1. edits' = edits \o Deletions(s) \o Deletions(a) \o u
    <3>1. reserved \in Seq(Int)
      BY DEF Visit, Stacked
    <3>2. Nums(s) \in Seq(Int)
      BY <1>2, NumsAre
    <3>3. Pushed(reserved \o Nums(s), Len(reserved)) = Nums(s)
      BY <3>1, <3>2, PushedIs
    <3> QED
      BY <1>a, <1>c, <1>d, <1>e, <1>f, <3>3 DEF VisitEnum
  <2>2. edits \in Seq(EditRecords)
    BY DEF Written
  <2> QED
    BY <1>g, <2>1
<1>4. ~ Reached(x) /\ Tree /\ ~ Goes(x)
  BY <1>1, SettledTree DEF Reached, Goes, Definitions
<1>5. \A i \in 1..Len(s) : s[i] \in Things /\ s[i] \in Heads /\ Goes(s[i])
  BY <1>2 DEF Things, Goes
<1>6. \A v : v \in Values(x) <=> v \in Heads /\ IsIn(v, x) /\ Kind(v) = "value"
  BY <1>1, <1>4, OfKindIs DEF Values, Holders
<1>7. s # <<>> <=> Values(x) \ kept # {}
  BY <1>2, <1>6
<1>8. \A y \in Heads : IsIn(y, x) /\ Kind(y) = "alias" =>
         (Goes(y) <=> s # <<>> /\ ~ StillAliased(x))
  <2> SUFFICES ASSUME NEW y \in Heads, IsIn(y, x), Kind(y) = "alias"
      PROVE Goes(y) <=> s # <<>> /\ ~ StillAliased(x)
    OBVIOUS
  <2>1. Parent(y) = x
    BY <1>1, <1>4, ParentIs DEF Things, Holders
  <2>2. Goes(y) <=> Values(x) \ kept # {} /\ ~ Aliases(Values(x) \cap kept)
    BY <2>1 DEF Goes, Definitions
  <2> QED
    BY <1>1, <1>7, <2>2, StillAliasedIs
<1>9. /\ a \in Seq(Nat)
      /\ \A i \in 1..Len(a) : a[i] \in Things /\ Goes(a[i])
      /\ \A y \in Heads : IsIn(y, x) /\ Kind(y) = "alias" /\ Goes(y) => \E i \in 1..Len(a) : a[i] = y
  <2>1. CASE s = <<>> \/ StillAliased(x)
    <3>1. a = <<>>
      BY <1>d, <2>1
    <3> QED
      BY <1>8, <2>1, <3>1
  <2>2. CASE ~(s = <<>> \/ StillAliased(x))
    <3>1. a = OfKind(x, "alias")
      BY <1>d, <2>2
    <3>2. a \in Seq(Nat) /\ \A y : y \in Range(a) <=> y \in Heads /\ IsIn(y, x) /\ Kind(y) = "alias"
      BY <1>1, <1>4, <3>1, OfKindIs DEF Holders
    <3>3. \A y : y \in Range(a) <=> \E i \in 1..Len(a) : a[i] = y
      BY <3>2, RangeIs
    <3> QED
      BY <1>8, <2>2, <3>2, <3>3 DEF Things
  <2> QED
    BY <2>1, <2>2
<1>10. /\ Deletions(s) \in Seq(EditRecords) /\ Deletions(a) \in Seq(EditRecords)
       /\ \A d \in Range(Deletions(s)) : d.rank = 0 /\ IsCalledFor(d)
       /\ \A d \in Range(Deletions(a)) : d.rank = 0 /\ IsCalledFor(d)
       /\ \A i \in 1..Len(s) : \A d \in Range(Deletion(s[i])) : d \in Range(Deletions(s))
       /\ \A i \in 1..Len(a) : \A d \in Range(Deletion(a[i])) : d \in Range(Deletions(a))
  BY <1>2, <1>5, <1>9, DeletionsOf
<1>11. /\ n \in Seq(Int) /\ (\A v : (\E i \in 1..Len(n) : n[i] = v) <=> v \in Lost(x))
       /\ \A i, j \in 1..Len(n) : i # j => n[i] # n[j]
  <2>1. LET w == Squeezed(x, Nums(s))
        IN /\ w \in Seq(Int)
           /\ \A v : (\E i \in 1..Len(w) : w[i] = v) <=> v \in Lost(x)
           /\ \A i, j \in 1..Len(w) : i # j => w[i] # w[j]
    BY <1>1, <1>2, LostValues
  <2> QED
    BY <1>e, <2>1
<1>12. /\ u \in Seq(EditRecords) /\ Len(u) <= 1
       /\ \A d \in Range(u) : d.rank = 1 /\ d.at = EndOf(x) /\ IsInsertion(d, x) /\ x \in Losing
       /\ x \in Losing => \E d \in Range(u) : IsInsertion(d, x)
  <2>1. LET w == Insertion(x, n)
        IN /\ w \in Seq(EditRecords) /\ Len(w) <= 1
           /\ \A d \in Range(w) : d.rank = 1 /\ d.at = EndOf(x) /\ IsInsertion(d, x) /\ x \in Losing
           /\ x \in Losing => \E d \in Range(w) : IsInsertion(d, x)
    <3>1. Kind(x) \in {"message", "enum"} /\ x \in kept
      BY <1>1
    <3> QED
      BY <1>11, <3>1, InsertionIs
  <2> QED
    BY <1>f, <2>1
<1>h. PICK v : v = Deletions(s) \o Deletions(a)
  OBVIOUS
<1>13. /\ v \in Seq(EditRecords)
       /\ \A d : d \in Range(v) <=> d \in Range(Deletions(s)) \/ d \in Range(Deletions(a))
  BY <1>10, <1>h, ConcatIs
<1>14. /\ t \in Seq(EditRecords) /\ Len(t) = Len(v) + Len(u) /\ Len(v) \in Nat /\ Len(u) \in Nat
       /\ \A i \in 1..Len(v) : t[i] = v[i]
       /\ \A d : d \in Range(t) <=> d \in Range(v) \/ d \in Range(u)
  <2>1. t = v \o u
    BY <1>g, <1>h
  <2>2. u \in Seq(EditRecords) /\ v \in Seq(EditRecords)
    BY <1>12, <1>13
  <2> QED
    BY <2>1, <2>2, ConcatIs
<1>15. \A d \in Range(t) : IsCalledFor(d) /\ (d.rank = 1 => d.at = EndOf(x))
  <2> TAKE d \in Range(t)
  <2>1. CASE d \in Range(v)
    BY <1>10, <1>13, <2>1
  <2>2. CASE d \in Range(u)
    BY <1>12, <2>2 DEF IsCalledFor
  <2> QED
    BY <1>14, <2>1, <2>2
<1>16. \A i, j \in 1..Len(t) : t[i].rank = 1 /\ t[j].rank = 1 => i = j
  <2>1. \A i \in 1..Len(t) : t[i].rank = 1 => i = Len(v) + 1
    <3> SUFFICES ASSUME NEW i \in 1..Len(t), i # Len(v) + 1 PROVE t[i].rank # 1
      OBVIOUS
    <3>1. i \in 1..Len(v)
      BY <1>12, <1>14
    <3>2. v[i] \in Range(v)
      BY <1>13, <3>1, RangeIs
    <3>3. v[i].rank = 0
      BY <1>10, <1>13, <3>2
    <3> QED
      BY <1>14, <3>1, <3>3
  <2> QED
    BY <2>1
<1>17. Handled(x)'
  <2>1. /\ \A h : (\A d \in Range(Deletion(h)) : d \in Range(t)) => Deleted(h)'
        /\ \A h : (\E d \in Range(t) : IsInsertion(d, h)) => Answered(h)'
    BY <1>1, <1>3, <1>14, MadeIs
  <2>2. ASSUME NEW y \in Heads, IsIn(y, x), Goes(y) PROVE Deleted(y)'
    <3>1. Kind(y) \in {"value", "option", "alias", "reserved"}
      BY <1>1, <2>2 DEF Settled, Grammatical, ReadIn, Root
    <3>2. CASE Kind(y) = "value"
      <4>1. y \notin kept
        BY <2>2, <3>2, GoesIs
      <4>2. PICK i \in 1..Len(s) : s[i] = y
        BY <1>2, <2>2, <3>2, <4>1
      <4> QED
        BY <1>10, <1>13, <1>14, <2>1, <4>2
    <3>3. CASE Kind(y) = "alias"
      <4>1. PICK i \in 1..Len(a) : a[i] = y
        BY <1>9, <2>2, <3>3
      <4> QED
        BY <1>10, <1>13, <1>14, <2>1, <4>1
    <3> QED
      BY <2>2, <3>1, <3>2, <3>3, GoesIs DEF Definitions
  <2>3. x \in Losing => Answered(x)'
    BY <1>12, <1>14, <2>1
  <2>4. x \notin Losing => Answered(x)'
    BY <1>1, SamePlan DEF Answered
  <2>5. /\ Goes(x)' <=> Goes(x)
        /\ Heads' = Heads
        /\ \A y : (IsIn(y, x)' <=> IsIn(y, x)) /\ (Goes(y)' <=> Goes(y))
    BY <1>1, SamePlaces, SamePlan
  <2> QED
    BY <1>4, <2>2, <2>3, <2>4, <2>5 DEF Handled
<1>18. Dropped(o, x) = {}
  BY <1>1 DEF Dropped, Fields
<1>19. reserved' = reserved \o <<>>
  BY <1>1 DEF Visit, Stacked
<1>30. StepsOver(x, t, <<>>)
  BY <1>1, <1>3, <1>4, <1>14, <1>15, <1>16, <1>17, <1>18, <1>19, <1>a, <1>b, NothingIs DEF StepsOver
<1> QED
  BY <1>30, StepOver

\* The visit begins.
LEMMA BeginHolds ==
    ASSUME Ground, kept = {}, edits = <<>>, reserved = <<>>, BeginVisit
    PROVE Chosen' /\ Written' /\ Visit'
<1>a. PICK K : K = kept'
  OBVIOUS
<1>b. PICK p : p = Limit(Root, 1)
  OBVIOUS
<1>c. PICK s : s = [owner |-> Root, base |-> 0, i |-> 1]
  OBVIOUS
<1>1. /\ at = "done" /\ Grammatical /\ Selectable(K)
      /\ K \subseteq Symbols \cup {h \in Heads : Kind(h) = "import"}
      /\ scopes' = <<s>> /\ reserved' = <<>> /\ edits' = <<>> /\ UNCHANGED vars /\ kept' = K
  <2>1. Scope(Root) = s
    BY <1>c DEF Scope
  <2> QED
    BY <1>a, <2>1 DEF BeginVisit
<1>2. Settled
  <2>1. Selectable({})
    BY DEF Selectable
  <2>2. Chosen
    BY <1>1, <2>1 DEF Chosen, Picked
  <2> QED
    BY <2>2, SettledIs
<1>3. /\ Root \in Holders /\ Reached(Root) /\ Len(Items(Root)) \in Nat /\ Tree
      /\ 1 \in 1..Len(Items(Root)) + 1
  BY <1>2, SettledTree DEF Holders, Reached, Tree
<1>4. p \in Nat /\ \A y \in Things : ~ (y < p)
  <2>1. p \in Nat
    BY <1>b, <1>2, <1>3, LimitIs
  <2>2. ASSUME NEW y \in Things, y < p PROVE FALSE
    <3>1. Root < y
      BY <1>3 DEF Tree, Root
    <3>2. \E j \in 1..Len(Items(Root)) : j < 1 /\ y \in Span(Items(Root)[j])
      BY <1>b, <1>2, <1>3, <2>2, <3>1, InPassed
    <3> QED
      BY <3>2
  <2> QED
    BY <2>1, <2>2
<1>5. /\ Heads' = Heads /\ Things' = Things /\ Holders' = Holders /\ Root' = Root
      /\ Symbols' = Symbols /\ text' = text
      /\ \A h : EndOf(h)' = EndOf(h) /\ Kind(h)' = Kind(h)
      /\ \A o : Items(o)' = Items(o)
  BY <1>1, SameLayout DEF vars
<1>6. Chosen'
  <2>1. Grammatical' /\ Selectable(K)'
    BY <1>1, SameGrammar
  <2>2. at' = at
    BY <1>1 DEF vars, parsed
  <2> QED
    BY <1>1, <1>5, <2>1, <2>2 DEF Chosen, Picked
<1>7. Written'
  BY <1>1 DEF Written
<1>8. s \in Levels /\ s.owner = Root /\ s.base = 0 /\ s.i = 1
  BY <1>c DEF Levels, Root
<1>9. Stacked(scopes, reserved)'
  <2>1. /\ scopes' \in Seq(Levels) /\ scopes' # <<>> /\ Len(scopes') = 1 /\ scopes'[1] = s
        /\ reserved' \in Seq(Int) /\ Len(reserved') = 0
    BY <1>1, <1>8
  <2>2. Reached(Root)'
    BY <1>5 DEF Reached
  <2>3. \A n \in 1..1 : n = 1
    OBVIOUS
  <2>4. \A n \in 2..1 : FALSE
    OBVIOUS
  <2>5. Levels' = Levels
    BY DEF Levels
  <2> QED
    BY <1>3, <1>5, <1>8, <2>1, <2>2, <2>3, <2>4, <2>5 DEF Stacked
<1>10. Frontier' = p
  <2>1. Inner' = s
    BY <1>1, <1>8 DEF Inner
  <2>2. Frontier' = Limit(Root, 1)'
    BY <1>5, <1>8, <2>1 DEF Frontier, Limit
  <2>3. Limit(Root, 1)' = Limit(Root, 1)
    BY <1>5 DEF Limit
  <2> QED
    BY <1>b, <2>2, <2>3
<1>11. Tallied(scopes, reserved, Frontier)'
  <2>1. Len(scopes') = 1
    BY <1>1
  <2> QED
    BY <2>1 DEF Tallied
<1>12. Seen(p)'
  <2>1. \A o \in Losing' : ~ (EndOf(o)' < p)
    <3> SUFFICES ASSUME NEW o \in Losing', EndOf(o)' < p PROVE FALSE
      OBVIOUS
    <3>1. o \in K /\ Kind(o)' \in {"message", "enum"}
      BY <1>1 DEF Losing
    <3>2. o \in Things
      BY <1>1, <1>5, <3>1 DEF Things, Symbols
    <3>3. o \in Nat /\ EndOf(o) \in Nat /\ o < EndOf(o) /\ EndOf(o) < p
      BY <1>3, <1>5, <3>2 DEF Tree
    <3> QED
      BY <1>4, <3>2, <3>3
  <2> QED
    BY <1>4, <1>5, <2>1 DEF Seen
<1>13. Unseen(p)'
  BY <1>1 DEF Unseen
<1> QED
  BY <1>6, <1>7, <1>9, <1>10, <1>11, <1>12, <1>13 DEF Visit

\* A scope on top of the others.
LEMMA OnTop ==
    ASSUME NEW S, NEW R, Stacked(S, R), NEW o \in Holders, Reached(o), o \in Nat,
           S[Len(S)].i > 1, o = Items(S[Len(S)].owner)[S[Len(S)].i - 1],
           S[Len(S)].owner < o, Len(Items(o)) \in Nat,
           NEW v \in Levels, v.owner = o, v.base = Len(R), v.i = 1
    PROVE Stacked(Append(S, v), R)
<1> DEFINE N == Len(S)
           T == Append(S, v)
<1>1. /\ S \in Seq(Levels) /\ N \in Nat /\ N \in 1..N /\ N >= 1 /\ R \in Seq(Int) /\ Len(R) \in Nat
      /\ S[1].owner = Root
  BY DEF Stacked
<1>2. /\ T \in Seq(Levels) /\ Len(T) = N + 1 /\ T # <<>> /\ T[N + 1] = v
      /\ \A n \in 1..N : T[n] = S[n]
  BY <1>1
<1> HIDE DEF T
<1>3. \A n \in 1..N + 1 : n \in 1..N \/ n = N + 1
  BY <1>1
<1>4. \A n \in 1..N : S[n].owner \in Nat /\ S[n].base \in Nat
  <2>1. \A n \in 1..N : S[n] \in Levels
    BY <1>1
  <2> QED
    BY <2>1 DEF Levels
<1> HIDE DEF N
<1>5. \A n \in 1..N : /\ S[n].owner \in Holders /\ Reached(S[n].owner)
                      /\ S[n].i \in 1..Len(Items(S[n].owner)) + 1
                      /\ S[n].base <= Len(R)
  BY DEF Stacked, N
<1>6. 1 \in 1..Len(Items(o)) + 1
  OBVIOUS
<1>7. \A n \in 1..N + 1 : /\ T[n].owner \in Holders /\ Reached(T[n].owner)
                          /\ T[n].i \in 1..Len(Items(T[n].owner)) + 1
                          /\ T[n].base <= Len(R)
  <2> TAKE n \in 1..N + 1
  <2>1. CASE n \in 1..N
    BY <1>2, <1>5, <2>1
  <2>2. CASE n = N + 1
    <3>1. T[n] = v
      BY <1>2, <2>2
    <3> QED
      BY <1>1, <1>6, <3>1
  <2> QED
    BY <1>3, <2>1, <2>2
<1>8. \A n \in 2..N + 1 : /\ T[n - 1].i > 1
                          /\ T[n].owner = Items(T[n - 1].owner)[T[n - 1].i - 1]
  <2> TAKE n \in 2..N + 1
  <2>1. n - 1 \in 1..N /\ T[n - 1] = S[n - 1]
    BY <1>1, <1>2
  <2>2. CASE n \in 1..N
    <3>1. n \in 2..N /\ T[n] = S[n]
      BY <1>2, <2>2
    <3> QED
      BY <2>1, <3>1 DEF Stacked, N
  <2>3. CASE n = N + 1
    <3>1. n - 1 = N /\ T[n] = v
      BY <1>1, <1>2, <2>3
    <3> QED
      BY <2>1, <3>1 DEF N
  <2> QED
    BY <1>3, <2>2, <2>3
<1>9. \A m, n \in 1..N : m < n => S[m].owner < S[n].owner /\ S[m].base <= S[n].base
  BY DEF Stacked, N
<1>10. \A n \in 1..N : S[n].owner < o
  <2> TAKE n \in 1..N
  <2>1. S[N].owner < o
    BY DEF N
  <2>2. S[N].owner \in Nat /\ S[n].owner \in Nat
    BY <1>1, <1>4
  <2>3. n < N => S[n].owner < S[N].owner
    BY <1>1, <1>9
  <2>4. n < N \/ n = N
    BY <1>1
  <2> QED
    BY <2>1, <2>2, <2>3, <2>4
<1>11. \A m, n \in 1..N + 1 : m < n => T[m].owner < T[n].owner /\ T[m].base <= T[n].base
  <2> SUFFICES ASSUME NEW m \in 1..N + 1, NEW n \in 1..N + 1, m < n
      PROVE T[m].owner < T[n].owner /\ T[m].base <= T[n].base
    OBVIOUS
  <2>1. m \in 1..N /\ T[m] = S[m]
    BY <1>1, <1>2
  <2>2. CASE n \in 1..N
    BY <1>2, <1>9, <2>1, <2>2
  <2>3. CASE n = N + 1
    <3>1. T[n] = v
      BY <1>2, <2>3
    <3> QED
      BY <1>5, <1>10, <2>1, <3>1
  <2> QED
    BY <1>3, <2>2, <2>3
<1>12. T[1].owner = Root
  <2>1. T[1] = S[1]
    BY <1>1, <1>2
  <2> QED
    BY <1>1, <2>1
<1>13. Stacked(T, R)
  BY <1>1, <1>2, <1>7, <1>8, <1>11, <1>12 DEF Stacked
<1> QED
  BY <1>13 DEF T

LEMMA EnterHolds == ASSUME Settled, Written, Visit, EnterScope PROVE Written' /\ Visit'
<1>a. PICK x : x = Here
  OBVIOUS
<1>b. PICK o : o = Inner.owner
  OBVIOUS
<1>c. PICK i : i = Inner.i
  OBVIOUS
<1>d. PICK q : q = Limit(x, 1)
  OBVIOUS
<1>e. PICK v : v = Scope(x)
  OBVIOUS
<1>f. PICK T : T = Append(Stepped, v)
  OBVIOUS
<1>1. /\ Stacked(scopes, reserved) /\ Tallied(scopes, reserved, x)
      /\ Seen(x) /\ Unseen(x)
      /\ Inner.i <= Len(Items(Inner.owner)) /\ Kind(x) \in {"message", "service"} /\ x \in kept
      /\ scopes' = T /\ reserved' = reserved /\ edits' = edits /\ UNCHANGED <<vars, kept>>
  <2>1. Stacked(scopes, reserved) /\ Inner.i <= Len(Items(Inner.owner)) /\ Kind(x) \in {"message", "service"}
    BY <1>a, VisitIs DEF EnterScope, Visit
  <2>2. Frontier = x
    BY <1>a, <2>1, StackIs
  <2> QED
    BY <1>a, <1>e, <1>f, <2>1, <2>2 DEF EnterScope, Visit
<1>2. /\ o \in Holders /\ Reached(o) /\ i \in 1..Len(Items(o)) /\ x \in Things /\ IsIn(x, o)
      /\ x = Items(o)[i] /\ Len(scopes) \in Nat /\ Len(scopes) \in 1..Len(scopes)
  BY <1>1, <1>a, <1>b, <1>c, StackIs DEF Here
<1>3. x \in Holders /\ Reached(x) /\ Tree /\ 1 \in 1..Len(Items(x)) + 1 /\ Len(Items(x)) \in Nat
  <2>1. x \in Holders /\ Reached(x) /\ Tree
    BY <1>1, <1>2, SettledTree DEF Reached, Holders
  <2>2. Len(Items(x)) \in Nat
    BY <2>1 DEF Tree
  <2> QED
    BY <2>1, <2>2
<1>4. /\ x \in Nat /\ EndOf(x) \in Nat /\ o < x /\ x # Root
      /\ q \in Nat /\ x < q /\ q <= EndOf(x) /\ EndOf(x) < Limit(o, i + 1) /\ Limit(o, i + 1) \in Nat
  <2>1. x \in Nat /\ EndOf(x) \in Nat /\ x # Root
    BY <1>2, <1>3 DEF Tree, Root
  <2>2. q \in Nat /\ x < q /\ q <= EndOf(x)
    BY <1>d, <1>3, <2>1, LimitIs
  <2>3. o < x
    BY <1>2, ItemIs
  <2>4. i + 1 \in 1..Len(Items(o)) + 1 /\ i < i + 1
    BY <1>2, <1>3 DEF Tree
  <2>5. EndOf(x) < Limit(o, i + 1) /\ Limit(o, i + 1) \in Nat
    BY <1>2, <2>4, LimitIs
  <2> QED
    BY <2>1, <2>2, <2>3, <2>5
<1>5. \A y \in Things : ~ (x < y /\ y < q)
  <2> SUFFICES ASSUME NEW y \in Things, x < y, y < q PROVE FALSE
    OBVIOUS
  <2>1. \E j \in 1..Len(Items(x)) : j < 1 /\ y \in Span(Items(x)[j])
    BY <1>d, <1>3, InPassed
  <2> QED
    BY <2>1
<1>6. \A h \in Losing : ~ (x <= EndOf(h) /\ EndOf(h) < q)
  <2> SUFFICES ASSUME NEW h \in Losing, x <= EndOf(h), EndOf(h) < q PROVE FALSE
    OBVIOUS
  <2>1. h \in Things /\ h \in Nat /\ EndOf(h) \in Nat /\ h < EndOf(h)
    BY <1>3, KeptIsThing DEF Losing, Settled, Tree
  <2>2. EndOf(h) < Limit(o, i + 1)
    BY <1>4, <2>1
  <2>3. h \in Span(x)
    BY <1>2, <2>1, <2>2, EndsInNext
  <2>4. x <= h /\ h # x
    BY <1>4, <2>1, <2>3 DEF Span
  <2> QED
    BY <1>4, <1>5, <2>1, <2>4
<1>7. Handled(x)'
  <2>1. Handled(x)
    BY <1>1 DEF Handled, Goes, Definitions
  <2> QED
    BY <1>1, <2>1, StaysHandled DEF Written
<1>8. \A h \in Holders, y \in Things :
        Reached(h) /\ IsIn(y, h) /\ x <= y /\ y < q => Handled(y)'
  <2> SUFFICES ASSUME NEW y \in Things, x <= y, y < q PROVE Handled(y)'
    OBVIOUS
  <2>1. y \in Nat
    BY <1>3 DEF Tree
  <2>2. y = x
    BY <1>4, <1>5, <2>1
  <2> QED
    BY <1>7, <2>2
<1>9. Written' /\ Seen(q)' /\ Unseen(q)'
  <2>1. edits' = edits \o <<>>
    BY <1>1 DEF Written
  <2>2. x <= q
    BY <1>4
  <2>3. \A d \in Range(<<>>) : IsCalledFor(d) /\ (d.rank = 1 => x <= d.at /\ d.at < q)
    BY NothingIs
  <2>4. \A j, k \in 1..Len(<<>>) : <<>>[j].rank = 1 /\ <<>>[k].rank = 1 => j = k
    BY NothingIs
  <2>5. \A h \in Losing : x <= EndOf(h) /\ EndOf(h) < q => Answered(h)'
    BY <1>6
  <2>6. <<>> \in Seq(EditRecords) /\ Seen(x) /\ Unseen(x) /\ UNCHANGED <<vars, kept>>
    BY <1>1, NothingIs
  <2> QED
    BY <1>4, <1>8, <2>1, <2>2, <2>3, <2>4, <2>5, <2>6, Onward
<1>10. /\ Stacked(Stepped, reserved) /\ Len(Stepped) = Len(scopes)
       /\ \A n \in 1..Len(scopes) : /\ Stepped[n].owner = scopes[n].owner
                                    /\ Stepped[n].base = scopes[n].base
       /\ Stepped[Len(scopes)].owner = o /\ Stepped[Len(scopes)].i = i + 1
       /\ reserved \in Seq(Int) /\ Len(reserved) \in Nat /\ Stepped \in Seq(Levels)
  <2>1. reserved \in Seq(Int) /\ Len(reserved) \in Nat /\ Len(reserved) <= Len(reserved)
    BY <1>1 DEF Stacked
  <2>2. /\ Stacked(Stepped, reserved) /\ Len(Stepped) = Len(scopes)
        /\ \A n \in 1..Len(scopes) : /\ Stepped[n].owner = scopes[n].owner
                                     /\ Stepped[n].base = scopes[n].base
        /\ Stepped[Len(scopes)].i = i + 1
    BY <1>1, <1>c, <2>1, SteppedIs
  <2>3. Stepped[Len(scopes)].owner = o
    BY <1>b, <1>2, <2>2 DEF Inner
  <2> QED
    BY <2>1, <2>2, <2>3 DEF Stacked
<1>11. v \in Levels /\ v.owner = x /\ v.base = Len(reserved) /\ v.i = 1
  BY <1>e, <1>4, <1>10 DEF Scope, Levels
<1>12. Stacked(T, reserved)
  <2>a. PICK S : S = Stepped
    OBVIOUS
  <2>1. i + 1 > 1 /\ i + 1 - 1 = i
    BY <1>2
  <2>2. S[Len(S)].i > 1 /\ x = Items(S[Len(S)].owner)[S[Len(S)].i - 1] /\ S[Len(S)].owner < x
    BY <1>2, <1>4, <1>10, <2>a, <2>1
  <2>3. Stacked(S, reserved)
    BY <1>10, <2>a
  <2>4. Stacked(Append(S, v), reserved)
    BY <1>3, <1>4, <1>11, <2>2, <2>3, OnTop
  <2> QED
    BY <1>f, <2>a, <2>4
<1>13. /\ Len(T) = Len(scopes) + 1 /\ T[Len(scopes) + 1] = v
       /\ \A n \in 1..Len(scopes) : T[n].owner = scopes[n].owner /\ T[n].base = scopes[n].base
  <2> PICK S : S = Stepped
    OBVIOUS
  <2>1. S \in Seq(Levels) /\ Len(S) = Len(scopes) /\ T = Append(S, v)
    BY <1>f, <1>10
  <2>2. Len(T) = Len(scopes) + 1 /\ T[Len(scopes) + 1] = v /\ \A n \in 1..Len(scopes) : T[n] = S[n]
    BY <1>2, <2>1
  <2> QED
    BY <1>10, <2>2
<1>14. Tallied(T, reserved, q)
  <2> SUFFICES ASSUME NEW n \in 2..Len(scopes) + 1
      PROVE Tallies(reserved, T[n].base, Upper(T, reserved, n), T[n].owner, q)
    BY <1>13 DEF Tallied
  <2>1. CASE n = Len(scopes) + 1
    <3>1. T[n].base = Len(reserved) /\ Upper(T, reserved, n) = Len(reserved) /\ T[n].owner = x
      BY <1>11, <1>13, <2>1 DEF Upper
    <3>2. Gone(x, q) = {}
      <4> SUFFICES ASSUME NEW f \in Gone(x, q) PROVE FALSE
        OBVIOUS
      <4>1. f \in Fields(x) /\ f < q
        BY DEF Gone
      <4>2. f \in Things /\ x < f
        BY <1>3, <4>1, FieldIs
      <4> QED
        BY <1>5, <4>1, <4>2
    <3>3. \A m \in Len(reserved) + 1 .. Len(reserved) : FALSE
      BY <1>10
    <3>4. Tallies(reserved, Len(reserved), Len(reserved), x, q)
      BY <3>2, <3>3 DEF Tallies
    <3> QED
      BY <3>1, <3>4
  <2>2. CASE n # Len(scopes) + 1
    <3>1. n \in 1..Len(scopes) /\ n \in 2..Len(scopes)
      BY <1>2, <2>2
    <3>2. T[n].base = scopes[n].base /\ T[n].owner = scopes[n].owner
      BY <1>13, <3>1
    <3>3. Upper(T, reserved, n) = Upper(scopes, reserved, n)
      <4>1. n # Len(T) /\ Upper(T, reserved, n) = T[n + 1].base
        BY <1>13, <2>2 DEF Upper
      <4>2. CASE n = Len(scopes)
        BY <1>11, <1>13, <4>1, <4>2 DEF Upper
      <4>3. CASE n # Len(scopes)
        <5>1. n + 1 \in 1..Len(scopes)
          BY <1>2, <3>1, <4>3
        <5> QED
          BY <1>13, <4>1, <4>3, <5>1 DEF Upper
      <4> QED
        BY <4>2, <4>3
    <3>4. PICK w : w = scopes[n].owner
      OBVIOUS
    <3>5. w \in Holders
      BY <1>1, <3>1, <3>4 DEF Stacked
    <3>6. Gone(w, q) = Gone(w, x)
      <4>1. \A f \in Fields(w) : f < q <=> f < x
        <5> TAKE f \in Fields(w)
        <5>1. f \in Things /\ f \in Nat /\ Kind(f) = "field"
          BY <1>3, <3>5, FieldIs
        <5>2. f # x
          BY <1>1, <5>1
        <5> QED
          BY <1>4, <1>5, <5>1, <5>2
      <4> QED
        BY <4>1 DEF Gone
    <3>7. Tallies(reserved, scopes[n].base, Upper(scopes, reserved, n), w, x)
      BY <1>1, <3>1, <3>4 DEF Tallied
    <3>8. Tallies(reserved, scopes[n].base, Upper(scopes, reserved, n), w, q)
      BY <3>6, <3>7, TalliesStay
    <3> QED
      BY <3>2, <3>3, <3>4, <3>8
  <2> QED
    BY <2>1, <2>2
<1>15. Frontier' = q
  <2>1. Inner' = v
    BY <1>1, <1>13 DEF Inner
  <2>2. Frontier' = Limit(x, 1)'
    BY <1>11, <2>1 DEF Frontier
  <2> QED
    BY <1>1, <1>d, <2>2, SameVisit
<1>16. Stacked(T, reserved)' /\ Tallied(T, reserved, q)'
  <2>1. PICK R : R = reserved
    OBVIOUS
  <2>2. Stacked(T, R)' /\ Tallied(T, R, q)'
    BY <1>1, <1>12, <1>14, <2>1, SameVisit
  <2> QED
    BY <1>1, <2>1, <2>2
<1> QED
  BY <1>1, <1>9, <1>15, <1>16 DEF Visit

\* The end of a sequence, and its beginning.
Ends(s, r, b) ==
    /\ s \in Seq(Int)
    /\ \A v : (\E i \in 1..Len(s) : s[i] = v) <=> \E m \in b + 1 .. Len(r) : r[m] = v
    /\ (\A l, m \in b + 1 .. Len(r) : l # m => r[l] # r[m]) =>
          \A i, j \in 1..Len(s) : i # j => s[i] # s[j]

LEMMA EndIs ==
    ASSUME NEW r \in Seq(Int), NEW b \in Nat, b <= Len(r), NEW s, s = SubSeq(r, b + 1, Len(r))
    PROVE Ends(s, r, b)
<1>1. Len(r) \in Nat
  OBVIOUS
<1>2. s \in Seq(Int) /\ Len(s) = Len(r) - b /\ \A i \in 1..Len(s) : s[i] = r[b + i]
  BY SMTT(20)
<1>3. \A i \in 1..Len(s) : b + i \in b + 1 .. Len(r)
  BY <1>1, <1>2
<1>4. \A m \in b + 1 .. Len(r) : m - b \in 1..Len(s) /\ s[m - b] = r[m]
  <2> TAKE m \in b + 1 .. Len(r)
  <2>1. m - b \in 1..Len(s) /\ b + (m - b) = m
    BY <1>1, <1>2
  <2> QED
    BY <1>2, <2>1
<1>5. ASSUME NEW v PROVE (\E i \in 1..Len(s) : s[i] = v) <=> \E m \in b + 1 .. Len(r) : r[m] = v
  <2>1. ASSUME NEW i \in 1..Len(s), s[i] = v PROVE \E m \in b + 1 .. Len(r) : r[m] = v
    BY <1>2, <1>3, <2>1
  <2>2. ASSUME NEW m \in b + 1 .. Len(r), r[m] = v PROVE \E i \in 1..Len(s) : s[i] = v
    BY <1>4, <2>2
  <2> QED
    BY <2>1, <2>2
<1>6. ASSUME \A l, m \in b + 1 .. Len(r) : l # m => r[l] # r[m],
             NEW i \in 1..Len(s), NEW j \in 1..Len(s), i # j
      PROVE s[i] # s[j]
  <2>1. b + i # b + j
    BY <1>2, <1>6
  <2> QED
    BY <1>2, <1>3, <1>6, <2>1
<1> QED
  BY <1>2, <1>5, <1>6 DEF Ends

LEMMA BeginningIs ==
    ASSUME NEW r \in Seq(Int), NEW b \in Nat, b <= Len(r)
    PROVE /\ SubSeq(r, 1, b) \in Seq(Int) /\ Len(SubSeq(r, 1, b)) = b
          /\ \A m \in 1..b : SubSeq(r, 1, b)[m] = r[m]
  OBVIOUS

\* The scopes below the innermost.
LEMMA BelowIs ==
    ASSUME Stacked(scopes, reserved), Len(scopes) >= 2
    PROVE /\ Stacked(Front(scopes), SubSeq(reserved, 1, Inner.base))
          /\ Len(Front(scopes)) = Len(scopes) - 1
          /\ \A n \in 1..Len(scopes) - 1 : Front(scopes)[n] = scopes[n]
<1> DEFINE N == Len(scopes)
<1>a. PICK F : F = Front(scopes)
  OBVIOUS
<1>b. PICK R : R = SubSeq(reserved, 1, Inner.base)
  OBVIOUS
<1>1. /\ scopes \in Seq(Levels) /\ N \in Nat /\ N >= 2 /\ Inner = scopes[N] /\ N \in 1..N
      /\ reserved \in Seq(Int)
  BY DEF Stacked, Inner
<1>2. F \in Seq(Levels) /\ Len(F) = N - 1 /\ \A n \in 1..N - 1 : F[n] = scopes[n]
  BY <1>1, <1>a, FrontIs
<1>3. /\ \A n \in 1..N : /\ scopes[n].owner \in Holders /\ Reached(scopes[n].owner)
                         /\ scopes[n].i \in 1..Len(Items(scopes[n].owner)) + 1
                         /\ scopes[n].base <= Len(reserved)
      /\ \A n \in 2..N : /\ scopes[n - 1].i > 1
                         /\ scopes[n].owner = Items(scopes[n - 1].owner)[scopes[n - 1].i - 1]
      /\ \A m, n \in 1..N : m < n =>
            scopes[m].owner < scopes[n].owner /\ scopes[m].base <= scopes[n].base
      /\ scopes[1].owner = Root
  BY DEF Stacked
<1>4. Inner.base \in Nat /\ Inner.base <= Len(reserved)
  <2>1. scopes[N] \in Levels
    BY <1>1
  <2>2. Inner.base \in Nat
    BY <1>1, <2>1 DEF Levels
  <2> QED
    BY <1>1, <1>3, <2>2
<1>5. R \in Seq(Int) /\ Len(R) = Inner.base
  BY <1>1, <1>4, <1>b, BeginningIs
<1> HIDE DEF N
<1>6. \A n \in 1..N - 1 : n \in 1..N /\ n < N /\ scopes[n].base <= Len(R)
  BY <1>1, <1>3, <1>5
<1>7. \A n \in 2..N - 1 : n - 1 \in 1..N - 1 /\ n \in 1..N - 1 /\ n \in 2..N
  BY <1>1
<1>8. 1 \in 1..N - 1 /\ F # <<>>
  BY <1>1, <1>2
<1>9. Stacked(F, R)
  <2>1. \A n \in 1..N - 1 : /\ F[n].owner \in Holders /\ Reached(F[n].owner)
                            /\ F[n].i \in 1..Len(Items(F[n].owner)) + 1
                            /\ F[n].base <= Len(R)
    BY <1>2, <1>3, <1>6
  <2>2. \A n \in 2..N - 1 : /\ F[n - 1].i > 1
                            /\ F[n].owner = Items(F[n - 1].owner)[F[n - 1].i - 1]
    BY <1>2, <1>3, <1>7
  <2>3. \A m, n \in 1..N - 1 : m < n => F[m].owner < F[n].owner /\ F[m].base <= F[n].base
    BY <1>2, <1>3, <1>6
  <2>4. F[1].owner = Root
    BY <1>2, <1>3, <1>8
  <2> QED
    BY <1>2, <1>5, <1>8, <2>1, <2>2, <2>3, <2>4 DEF Stacked
<1> QED
  BY <1>2, <1>9, <1>a, <1>b DEF N

\* The numbers that the innermost scope has lost.
Unreserved == Pushed(reserved, Inner.base)
AreLost(o, nums) ==
    /\ nums \in Seq(Int)
    /\ \A v : (\E i \in 1..Len(nums) : nums[i] = v) <=> \E f \in Fields(o) \ kept : Num(f) = v
    /\ Legal => \A i, j \in 1..Len(nums) : i # j => nums[i] # nums[j]

LEMMA NumbersAbove ==
    ASSUME Settled, Visit, Visited, Inner.owner # Root, NEW o, o = Inner.owner
    PROVE /\ AreLost(o, Unreserved)
          /\ o \in Things /\ Reached(o) /\ Frontier = EndOf(o) /\ Inner.i = Len(Items(o)) + 1
          /\ Len(scopes) >= 2 /\ Inner.base \in Nat /\ Inner.base <= Len(reserved)
<1> DEFINE N == Len(scopes)
<1>1. Stacked(scopes, reserved) /\ Tallied(scopes, reserved, Frontier) /\ Inner.i > Len(Items(o))
  BY DEF Visit, Visited
<1>2. /\ N \in Nat /\ N >= 1 /\ N \in 1..N /\ Inner \in Levels /\ o \in Holders /\ Reached(o)
      /\ Inner.i \in 1..Len(Items(o)) + 1 /\ Len(Items(o)) \in Nat
  BY <1>1, StackIs
<1>3. N >= 2
  <2>1. ASSUME N = 1 PROVE FALSE
    <3>1. scopes[1].owner = Root
      BY <1>1 DEF Stacked
    <3> QED
      BY <2>1, <3>1 DEF Inner
  <2> HIDE DEF N
  <2> QED
    BY <1>2, <2>1
<1>4. o \in Things /\ Tree
  BY <1>2, SettledTree DEF Holders
<1>5. Inner.i = Len(Items(o)) + 1
  BY <1>1, <1>2
<1>6. Frontier = EndOf(o)
  BY <1>1, <1>2 DEF Frontier, Limit
<1>7. reserved \in Seq(Int) /\ Inner.base \in Nat /\ Inner.base <= Len(reserved)
  <2>1. reserved \in Seq(Int) /\ scopes[N].base <= Len(reserved)
    BY <1>1, <1>2 DEF Stacked
  <2> QED
    BY <1>2, <2>1 DEF Levels, Inner
<1>8. Tallies(reserved, Inner.base, Len(reserved), o, EndOf(o))
  <2>1. N \in 2..N /\ Upper(scopes, reserved, N) = Len(reserved)
    BY <1>2, <1>3 DEF Upper
  <2> QED
    BY <1>1, <1>6, <2>1 DEF Tallied, Inner
<1>9. Gone(o, EndOf(o)) = Fields(o) \ kept
  <2>1. \A f \in Fields(o) : f < EndOf(o)
    BY <1>2, <1>4, FieldIs
  <2> QED
    BY <2>1 DEF Gone
<1>a. PICK nums : nums = Unreserved
  OBVIOUS
<1>10. /\ nums \in Seq(Int)
       /\ \A v : (\E i \in 1..Len(nums) : nums[i] = v)
                   <=> \E m \in Inner.base + 1 .. Len(reserved) : reserved[m] = v
       /\ (\A l, m \in Inner.base + 1 .. Len(reserved) : l # m => reserved[l] # reserved[m]) =>
             \A i, j \in 1..Len(nums) : i # j => nums[i] # nums[j]
  <2>a. PICK r : r = reserved
    OBVIOUS
  <2>b. PICK b : b = Inner.base
    OBVIOUS
  <2>1. r \in Seq(Int) /\ b \in Nat /\ b <= Len(r) /\ nums = SubSeq(r, b + 1, Len(r))
    BY <1>7, <1>a, <2>a, <2>b DEF Unreserved, Pushed
  <2>2. Ends(nums, r, b)
    BY <2>1, EndIs
  <2> QED
    BY <2>2, <2>a, <2>b DEF Ends
<1>11. \A v : (\E m \in Inner.base + 1 .. Len(reserved) : reserved[m] = v)
                <=> \E f \in Fields(o) \ kept : Num(f) = v
  BY <1>8, <1>9 DEF Tallies
<1>12. Legal => \A l, m \in Inner.base + 1 .. Len(reserved) : l # m => reserved[l] # reserved[m]
  BY <1>8 DEF Tallies
<1>13. AreLost(o, nums)
  BY <1>10, <1>11, <1>12 DEF AreLost
<1> QED
  BY <1>2, <1>3, <1>4, <1>5, <1>6, <1>7, <1>13, <1>a

\* The statement for it.
LEMMA StatementIs ==
    ASSUME Settled, NEW o \in Things, Reached(o), NEW nums, AreLost(o, nums), NEW t, t = Insertion(o, nums)
    PROVE /\ t \in Seq(EditRecords) /\ Len(t) <= 1
          /\ \A d \in Range(t) : d.rank = 1 /\ d.at = EndOf(o) /\ IsCalledFor(d)
          /\ o \in Losing => \E d \in Range(t) : IsInsertion(d, o)
<1>1. Tree /\ o \in Holders /\ o # Root /\ o \in kept /\ Kind(o) \in {"message", "service"}
  BY SettledTree DEF Tree, Holders, Things, Reached
<1>a. /\ nums \in Seq(Int)
      /\ \A v : (\E i \in 1..Len(nums) : nums[i] = v) <=> \E f \in Fields(o) \ kept : Num(f) = v
      /\ Legal => \A i, j \in 1..Len(nums) : i # j => nums[i] # nums[j]
  BY DEF AreLost
<1>2. CASE Kind(o) = "message"
  <2>1. \A x : (\E i \in 1..Len(nums) : nums[i] = x) <=> x \in Lost(o)
    BY <1>2, <1>a DEF Lost
  <2>2. /\ t \in Seq(EditRecords) /\ Len(t) <= 1
        /\ \A d \in Range(t) : d.rank = 1 /\ d.at = EndOf(o) /\ IsInsertion(d, o) /\ o \in Losing
        /\ o \in Losing => \E d \in Range(t) : IsInsertion(d, o)
    BY <1>1, <1>2, <1>a, <2>1, InsertionIs
  <2> QED
    BY <2>2 DEF IsCalledFor
<1>3. CASE Kind(o) = "service"
  <2>1. Fields(o) = {}
    BY <1>1, <1>3, FieldIs
  <2>2. Len(nums) = 0
    <3>1. \A i \in 1..Len(nums) : FALSE
      BY <1>a, <2>1
    <3>2. Len(nums) \in Nat
      BY <1>a
    <3>3. Len(nums) >= 1 => 1 \in 1..Len(nums)
      BY <3>2
    <3> QED
      BY <3>1, <3>2, <3>3
  <2>3. nums = <<>>
    BY <1>a, <2>2
  <2>4. t = <<>>
    BY <2>3 DEF Insertion
  <2>5. o \notin Losing
    BY <1>3 DEF Losing
  <2> QED
    BY <2>4, <2>5, NothingIs
<1> QED
  BY <1>1, <1>2, <1>3

\* The fields that a scope has lost on the stack below.
LEMMA TalliedBelow ==
    ASSUME Settled, Stacked(scopes, reserved), Len(scopes) >= 2,
           NEW p, Tallied(scopes, reserved, p),
           NEW q, \A n \in 1..Len(scopes) - 1 : Gone(scopes[n].owner, q) = Gone(scopes[n].owner, p)
    PROVE Tallied(Front(scopes), SubSeq(reserved, 1, Inner.base), q)
<1>a. PICK N : N = Len(scopes)
  OBVIOUS
<1>b. PICK R : R = SubSeq(reserved, 1, Inner.base)
  OBVIOUS
<1>c. PICK F : F = Front(scopes)
  OBVIOUS
<1>1. Len(F) = N - 1 /\ \A n \in 1..N - 1 : F[n] = scopes[n]
  BY <1>a, <1>c, BelowIs
<1>2. N \in Nat /\ N >= 2 /\ N \in 1..N /\ Inner = scopes[N] /\ scopes \in Seq(Levels)
  BY <1>a DEF Stacked, Inner
<1>3. \A n \in 1..N : scopes[n].base \in Nat
  <2>1. \A n \in 1..N : scopes[n] \in Levels
    BY <1>2, <1>a
  <2> QED
    BY <2>1 DEF Levels
<1>4. \A m, n \in 1..N : m < n => scopes[m].base <= scopes[n].base
  BY <1>a DEF Stacked
<1>5. Len(R) = Inner.base /\ \A m \in 1..Inner.base : R[m] = reserved[m]
  <2>1. Inner.base \in Nat /\ Inner.base <= Len(reserved) /\ reserved \in Seq(Int)
    BY <1>2, <1>3, <1>a DEF Stacked
  <2> QED
    BY <2>1, <1>b, BeginningIs
<1>6. ASSUME NEW n \in 2..N - 1
      PROVE Tallies(R, F[n].base, Upper(F, R, n), F[n].owner, q)
  <2>a. PICK a : a = scopes[n].base
    OBVIOUS
  <2>b. PICK b : b = Upper(scopes, reserved, n)
    OBVIOUS
  <2>1. n \in 1..N /\ n \in 2..N /\ n # N /\ n + 1 \in 1..N /\ n \in 1..N - 1
    BY <1>2
  <2>2. b = scopes[n + 1].base
    BY <1>a, <2>1, <2>b DEF Upper
  <2>3. Upper(F, R, n) = b
    <3>1. CASE n = N - 1
      <4>1. n + 1 = N
        BY <1>2, <3>1
      <4>2. b = Inner.base
        BY <1>2, <2>2, <4>1
      <4> QED
        BY <1>1, <1>5, <3>1, <4>2 DEF Upper
    <3>2. CASE n # N - 1
      <4>1. n + 1 \in 1..N - 1
        BY <1>2, <3>2
      <4> QED
        BY <1>1, <2>2, <3>2, <4>1 DEF Upper
    <3> QED
      BY <3>1, <3>2
  <2>4. F[n] = scopes[n] /\ Gone(scopes[n].owner, q) = Gone(scopes[n].owner, p)
    BY <1>1, <1>a, <2>1
  <2>5. \A m \in a + 1 .. b : R[m] = reserved[m]
    <3>1. a \in Nat /\ b \in Nat /\ Inner.base \in Nat /\ b <= Inner.base
      <4>1. n + 1 < N => b <= Inner.base
        BY <1>2, <1>4, <2>1, <2>2
      <4>2. n + 1 = N => b = Inner.base
        BY <1>2, <2>2
      <4>3. a \in Nat /\ b \in Nat /\ Inner.base \in Nat
        BY <1>2, <1>3, <2>1, <2>2, <2>a
      <4>4. n + 1 < N \/ n + 1 = N
        BY <1>2, <2>1
      <4> QED
        BY <4>1, <4>2, <4>3, <4>4
    <3>2. \A m \in a + 1 .. b : m \in 1..Inner.base
      BY <3>1
    <3> QED
      BY <1>5, <3>2
  <2>6. Tallies(reserved, a, b, scopes[n].owner, p)
    BY <1>a, <2>1, <2>a, <2>b DEF Tallied
  <2>7. Tallies(R, a, b, scopes[n].owner, q)
    BY <2>4, <2>5, <2>6, TalliesStay
  <2> QED
    BY <2>3, <2>4, <2>7, <2>a
<1>7. Tallied(F, R, q)
  BY <1>1, <1>6 DEF Tallied
<1> QED
  BY <1>7, <1>b, <1>c

\* Nothing but the end of the scope stands before what is visited next.
LEMMA NothingAfter ==
    ASSUME Settled, NEW w \in Holders, Reached(w), NEW k \in 1..Len(Items(w)),
           NEW o, o = Items(w)[k], Reached(o), NEW q, q = Limit(w, k + 1)
    PROVE /\ o \in Nat /\ EndOf(o) \in Nat /\ o < EndOf(o) /\ q \in Nat /\ EndOf(o) < q
          /\ \A y \in Things : ~ (EndOf(o) <= y /\ y < q)
          /\ \A h \in Losing : EndOf(o) <= EndOf(h) /\ EndOf(h) < q => h = o
<1>1. Tree /\ o \in Things /\ o \in Holders /\ Len(Items(w)) \in Nat /\ Len(Items(o)) \in Nat
  <2>1. Tree /\ o \in Things
    BY SettledTree, ItemIs
  <2> QED
    BY <2>1 DEF Tree, Holders
<1>2. o \in Nat /\ EndOf(o) \in Nat /\ o < EndOf(o) /\ o # Root /\ text[EndOf(o)].tok # "head"
  BY <1>1, SMTT(20) DEF Tree, Root
<1>3. q \in Nat /\ EndOf(o) < q
  <2>1. k + 1 \in 1..Len(Items(w)) + 1 /\ k < k + 1
    BY <1>1
  <2> QED
    BY <2>1, LimitIs
<1>4. ASSUME NEW y \in Things, EndOf(o) <= y, y < q PROVE FALSE
  <2>1. y \in Nat /\ text[y].tok = "head"
    BY <1>1 DEF Tree, Things, Heads
  <2>2. o <= y
    BY <1>2, <1>4, <2>1
  <2>3. y \in Span(o)
    BY <1>4, <2>2, InNext
  <2>4. y = EndOf(o)
    BY <1>2, <1>4, <2>1, <2>3 DEF Span
  <2> QED
    BY <1>2, <2>1, <2>4
<1>5. ASSUME NEW h \in Losing, EndOf(o) <= EndOf(h), EndOf(h) < q PROVE h = o
  <2>1. h \in Things /\ h \in Nat /\ EndOf(h) \in Nat /\ h < EndOf(h)
    BY <1>1, KeptIsThing DEF Losing, Settled, Tree
  <2>2. o <= EndOf(h)
    BY <1>2, <1>5, <2>1
  <2>3. h \in Span(o)
    BY <1>5, <2>1, <2>2, EndsInNext
  <2>4. ASSUME h # o PROVE FALSE
    <3>1. EndOf(h) <= EndOf(o)
      BY <1>1, <2>1, <2>3, SpanInSpan
    <3>2. o < h /\ h < EndOf(o)
      BY <1>2, <2>1, <2>3, <2>4, <3>1 DEF Span
    <3>3. Limit(o, Len(Items(o)) + 1) = EndOf(o) /\ Len(Items(o)) + 1 \in 1..Len(Items(o)) + 1
      BY <1>1, <1>2 DEF Limit
    <3>4. PICK j \in 1..Len(Items(o)) : j < Len(Items(o)) + 1 /\ h \in Span(Items(o)[j])
      BY <1>1, <2>1, <3>2, <3>3, InPassed
    <3>5. Items(o)[j] \in Things /\ EndOf(Items(o)[j]) < EndOf(o)
      BY <1>1, <3>3, <3>4, ItemIs, LimitIs
    <3>6. EndOf(h) <= EndOf(Items(o)[j])
      BY <1>1, <2>1, <3>4, <3>5, SpanInSpan
    <3>7. EndOf(Items(o)[j]) \in Nat
      BY <1>1, <3>5 DEF Tree
    <3> QED
      BY <1>2, <1>5, <2>1, <3>5, <3>6, <3>7
  <2> QED
    BY <2>4
<1> QED
  BY <1>2, <1>3, <1>4, <1>5

LEMMA LeaveHolds == ASSUME Settled, Written, Visit, LeaveScope PROVE Written' /\ Visit'
<1>a. PICK o : o = Inner.owner
  OBVIOUS
<1>b. PICK nums : nums = Unreserved
  OBVIOUS
<1>c. PICK t : t = Insertion(o, nums)
  OBVIOUS
<1>d. PICK N : N = Len(scopes)
  OBVIOUS
<1>e. PICK w : w = scopes[N - 1].owner
  OBVIOUS
<1>f. PICK k : k = scopes[N - 1].i - 1
  OBVIOUS
<1>g. PICK q : q = Limit(w, k + 1)
  OBVIOUS
<1>h. PICK F : F = Front(scopes)
  OBVIOUS
<1>i. PICK R : R = SubSeq(reserved, 1, Inner.base)
  OBVIOUS
<1>1. /\ Visited /\ Inner.owner # Root /\ edits' = edits \o t /\ scopes' = F /\ reserved' = R
      /\ UNCHANGED <<vars, kept>>
  BY <1>a, <1>b, <1>c, <1>h, <1>i DEF LeaveScope, Unreserved
<1>2. Stacked(scopes, reserved) /\ Tallied(scopes, reserved, Frontier) /\ Seen(Frontier) /\ Unseen(Frontier)
  BY DEF Visit
<1>3. AreLost(o, nums) /\ o \in Things /\ Reached(o) /\ Frontier = EndOf(o) /\ N >= 2
  BY <1>1, <1>a, <1>b, <1>d, NumbersAbove
<1>4. /\ t \in Seq(EditRecords) /\ Len(t) <= 1
      /\ \A d \in Range(t) : d.rank = 1 /\ d.at = EndOf(o) /\ IsCalledFor(d)
      /\ o \in Losing => \E d \in Range(t) : IsInsertion(d, o)
  BY <1>3, <1>c, StatementIs
<1>5. /\ N \in Nat /\ N - 1 \in 1..N /\ N \in 2..N /\ N \in 1..N /\ scopes \in Seq(Levels)
      /\ Inner = scopes[N] /\ Len(F) = N - 1 /\ N - 1 \in 1..N - 1
      /\ \A n \in 1..N - 1 : F[n] = scopes[n]
  <2>1. N \in Nat /\ scopes \in Seq(Levels) /\ Inner = scopes[N]
    BY <1>2, <1>d DEF Stacked, Inner
  <2>2. Len(F) = N - 1 /\ \A n \in 1..N - 1 : F[n] = scopes[n]
    BY <1>2, <1>3, <1>d, <1>h, BelowIs
  <2> QED
    BY <1>3, <2>1, <2>2
<1>6. /\ w \in Holders /\ Reached(w) /\ k \in 1..Len(Items(w)) /\ o = Items(w)[k]
      /\ scopes[N - 1].i = k + 1 /\ k \in Nat
  <2>1. /\ w \in Holders /\ Reached(w) /\ scopes[N - 1].i \in 1..Len(Items(w)) + 1
        /\ scopes[N - 1].i > 1 /\ scopes[N].owner = Items(w)[scopes[N - 1].i - 1]
    BY <1>2, <1>5, <1>d, <1>e DEF Stacked
  <2>2. Len(Items(w)) \in Nat
    BY <2>1, SettledTree DEF Tree
  <2>3. k \in 1..Len(Items(w)) /\ scopes[N - 1].i = k + 1 /\ k \in Nat
    BY <1>f, <2>1, <2>2
  <2> QED
    BY <1>5, <1>a, <1>f, <2>1, <2>3
<1>7. /\ o \in Nat /\ EndOf(o) \in Nat /\ q \in Nat /\ EndOf(o) < q
      /\ \A y \in Things : ~ (EndOf(o) <= y /\ y < q)
      /\ \A h \in Losing : EndOf(o) <= EndOf(h) /\ EndOf(h) < q => h = o
  <2>1. w \in Holders /\ Reached(w) /\ k \in 1..Len(Items(w)) /\ o = Items(w)[k] /\ Reached(o)
    BY <1>3, <1>6
  <2> QED
    BY <1>g, <2>1, NothingAfter
<1>8. Written' /\ Seen(q)' /\ Unseen(q)'
  <2>1. EndOf(o) <= q /\ Seen(EndOf(o)) /\ Unseen(EndOf(o))
    BY <1>2, <1>3, <1>7
  <2>2. \A d \in Range(t) : IsCalledFor(d) /\ (d.rank = 1 => EndOf(o) <= d.at /\ d.at < q)
    BY <1>4, <1>7
  <2>3. \A i, j \in 1..Len(t) : t[i].rank = 1 /\ t[j].rank = 1 => i = j
    <3>1. Len(t) \in Nat
      BY <1>4
    <3> QED
      BY <1>4, <3>1
  <2>4. \A h \in Holders, y \in Things :
          Reached(h) /\ IsIn(y, h) /\ EndOf(o) <= y /\ y < q => Handled(y)'
    BY <1>7
  <2>5. \A h \in Losing : EndOf(o) <= EndOf(h) /\ EndOf(h) < q => Answered(h)'
    <3> SUFFICES ASSUME NEW h \in Losing, EndOf(o) <= EndOf(h), EndOf(h) < q PROVE Answered(h)'
      OBVIOUS
    <3>1. h = o
      BY <1>7
    <3>2. \E d \in Range(t) : IsInsertion(d, h)
      BY <1>4, <3>1
    <3> QED
      BY <1>1, <1>4, <3>2, MadeIs
  <2>6. UNCHANGED <<vars, kept>> /\ edits' = edits \o t
    BY <1>1
  <2> QED
    BY <1>4, <1>7, <2>1, <2>2, <2>3, <2>4, <2>5, <2>6, Onward
<1>9. Stacked(F, R)
  BY <1>2, <1>3, <1>d, <1>h, <1>i, BelowIs
<1>10. Tallied(F, R, q)
  <2>1. ASSUME NEW n \in 1..N - 1 PROVE Gone(scopes[n].owner, q) = Gone(scopes[n].owner, EndOf(o))
    <3>1. PICK v : v = scopes[n].owner
      OBVIOUS
    <3>2. n \in 1..N
      BY <1>5
    <3>3. v \in Holders
      BY <1>2, <1>d, <3>1, <3>2 DEF Stacked
    <3>4. \A f \in Fields(v) : f < q <=> f < EndOf(o)
      <4> TAKE f \in Fields(v)
      <4>1. f \in Things /\ f \in Nat
        BY <3>3, FieldIs, SettledTree
      <4> QED
        BY <1>7, <4>1
    <3>5. Gone(v, q) = Gone(v, EndOf(o))
      BY <3>4 DEF Gone
    <3> QED
      BY <3>1, <3>5
  <2>2. Tallied(scopes, reserved, EndOf(o))
    BY <1>2, <1>3
  <2> QED
    BY <1>2, <1>3, <1>d, <1>h, <1>i, <2>1, <2>2, TalliedBelow
<1>11. Frontier' = q
  <2>1. Inner' = scopes[N - 1]
    BY <1>1, <1>5 DEF Inner
  <2>2. Frontier' = Limit(w, k + 1)'
    BY <1>6, <1>e, <2>1 DEF Frontier
  <2> QED
    BY <1>1, <1>g, <2>2, SameVisit
<1>12. Stacked(F, R)' /\ Tallied(F, R, q)'
  BY <1>1, <1>9, <1>10, SameVisit
<1> QED
  BY <1>1, <1>8, <1>11, <1>12 DEF Visit

-----------------------------------------------------------------------------
(* From the visit to apply_edits.                                          *)

\* What is said of the edits holds as long as they are the same.
LEMMA SameEdits ==
    ASSUME UNCHANGED <<vars, kept, edits>>
    PROVE /\ Written => Written'
          /\ AllHandled => AllHandled'
          /\ \A T, q, s : Prunes(T, q, s) => Prunes(T, q, s)'
<1>1. UNCHANGED <<vars, kept>> /\ edits' = edits /\ text' = text
  BY DEF vars, parsed
<1>2. /\ Heads' = Heads /\ Holders' = Holders /\ Streams' = Streams /\ Losing' = Losing
      /\ \A h : Deletion(h)' = Deletion(h) /\ EndOf(h)' = EndOf(h) /\ Kind(h)' = Kind(h)
      /\ \A h : (Goes(h)' <=> Goes(h)) /\ (Reached(h)' <=> Reached(h)) /\ Lost(h)' = Lost(h)
      /\ \A h, o : IsIn(h, o)' <=> IsIn(h, o)
      /\ (Legal' <=> Legal) /\ (LedClosely' <=> LedClosely)
  BY <1>1, SamePlaces, SamePlan
<1>3. \A e, o : IsInsertion(e, o)' <=> IsInsertion(e, o)
  BY <1>2 DEF IsInsertion
<1>4. \A h : (Deleted(h)' <=> Deleted(h)) /\ (Answered(h)' <=> Answered(h))
  BY <1>1, <1>2, <1>3 DEF Deleted, Answered
<1>5. \A h : Handled(h)' <=> Handled(h)
  BY <1>2, <1>4 DEF Handled
<1>6. AllHandled => AllHandled'
  BY <1>2, <1>4, <1>5 DEF AllHandled
<1>7. \A e : IsCalledFor(e)' <=> IsCalledFor(e)
  BY <1>2, <1>3 DEF IsCalledFor
<1>8. Written => Written'
  BY <1>1, <1>7 DEF Written
<1>9. \A T, q, s : Prunes(T, q, s) => Prunes(T, q, s)'
  <2>1. \A m, n : (Precedes(m, n)' <=> Precedes(m, n)) /\ (Covers(m, n)' <=> Covers(m, n))
    BY <1>1 DEF Precedes, Covers
  <2>2. \A i, n, s, q : StandsFor(i, n, s, q)' <=> StandsFor(i, n, s, q)
    BY <1>1 DEF StandsFor
  <2> QED
    BY <1>1, <1>2, <2>1, <2>2 DEF Prunes
<1> QED
  BY <1>6, <1>8, <1>9

LEMMA EndHolds ==
    ASSUME Settled, Written, Visit, EndVisit, pos = 1, out = <<>>
    PROVE Written' /\ AllHandled' /\ Prunes(todo, pos, out)'
<1>1. /\ Visited /\ Inner.owner = Root /\ UNCHANGED <<vars, kept, edits>>
      /\ todo' = 1..Len(edits) /\ pos' = 1 /\ out' = <<>>
  BY DEF EndVisit
<1>2. Tree /\ Stacked(scopes, reserved) /\ Seen(Frontier)
  BY SettledTree DEF Visit
<1>3. Frontier = Len(text) + 1
  <2>1. Inner.i > Len(Items(Root)) /\ Inner.i \in Nat /\ Len(Items(Root)) \in Nat
    BY <1>1, <1>2, StackIs DEF Visited
  <2> QED
    BY <1>1, <2>1 DEF Frontier, Limit
<1>4. AllHandled
  <2>1. ASSUME NEW o \in Holders, NEW y \in Heads, Reached(o), IsIn(y, o) PROVE Handled(y)
    <3>1. PICK i \in 1..Len(Items(o)) : Items(o)[i] = y
      <4>1. Items(o) \in Seq(Nat)
        BY <1>2, <2>1, SettledTree DEF Tree
      <4> QED
        BY <2>1, <4>1, RangeIs DEF IsIn
    <3>2. y \in Things
      BY <2>1, <3>1, ItemIs
    <3>3. y < Len(text) + 1
      BY <1>2, <3>2 DEF Tree
    <3> QED
      BY <1>2, <1>3, <2>1, <3>2, <3>3 DEF Seen
  <2>2. ASSUME NEW o \in Losing PROVE Answered(o)
    <3>1. o \in Things
      BY KeptIsThing DEF Losing, Settled
    <3>2. EndOf(o) < Len(text) + 1
      BY <1>2, <3>1 DEF Tree
    <3> QED
      BY <1>2, <1>3, <3>2 DEF Seen
  <2> QED
    BY <2>1, <2>2 DEF AllHandled
<1>5. Prunes(1..Len(edits), 1, <<>>)
  BY PrunesNothing
<1>6. PICK T : T = 1..Len(edits)
  OBVIOUS
<1>7. Prunes(T, 1, <<>>)'
  BY <1>1, <1>5, <1>6, SameEdits
<1> QED
  BY <1>1, <1>4, <1>6, <1>7, SameEdits

-----------------------------------------------------------------------------
(* The steps of apply_edits.                                               *)

LEMMA GreatestOfTwo == ASSUME NEW a \in Nat, NEW b \in Nat PROVE Greatest({a, b}) = Above(a, b)
<1>1. PICK g : g = Greatest({a, b})
  OBVIOUS
<1>2. {a, b} \in SUBSET (0..a + b) /\ a + b \in Nat /\ {a, b} # {}
  OBVIOUS
<1>3. g \in {a, b} /\ a <= g /\ b <= g
  BY <1>1, <1>2, GreatestIs
<1> QED
  BY <1>1, <1>3 DEF Above

\* The edit that is applied, and the text up to it.
LEMMA UpToFirst ==
    ASSUME Settled, Written, Prunes(todo, pos, out), todo # {}
    PROVE /\ IsFirst(First, todo) /\ First \in 1..Len(edits) /\ todo \in SUBSET (1..Len(edits))
          /\ edits[First].at \in Nat /\ pos \in Nat /\ out \in Seq(Copies)
          /\ Prunes(todo, Above(pos, edits[First].at), out \o Copied(pos, edits[First].at - 1))
<1>1. todo \in SUBSET (1..Len(edits)) /\ pos \in 1..Len(text) + 1 /\ out \in Seq(Copies)
  BY DEF Prunes
<1>2. IsFirst(First, todo)
  <2>1. \E f \in todo : \A j \in todo : Precedes(f, j)
    BY <1>1, FirstIs DEF IsFirst
  <2> QED
    BY <2>1 DEF First, IsFirst
<1>3. PICK f : f = First
  OBVIOUS
<1>4. f \in 1..Len(edits)
  BY <1>1, <1>2, <1>3 DEF IsFirst
<1>5. edits[f].at \in Nat /\ edits[f].at >= 1 /\ edits[f].at <= Len(text) /\ Len(text) \in Nat
  BY <1>4, EditIs
<1>6. \A n \in todo : edits[f].at <= edits[n].at
  BY <1>1, <1>2, <1>3, FirstComes
<1>7. Prunes(todo, Above(pos, edits[f].at), out \o Copied(pos, edits[f].at - 1))
  <2>1. edits[f].at \in 1..Len(text) + 1
    BY <1>5
  <2> QED
    BY <1>6, <2>1, CopyUp
<1> QED
  BY <1>1, <1>2, <1>3, <1>4, <1>5, <1>7

\* What is deleted is skipped.
LEMMA DelHolds ==
    ASSUME Settled, Written, AllHandled, Prunes(todo, pos, out), ApplyDel
    PROVE Written' /\ AllHandled' /\ Prunes(todo, pos, out)'
<1>a. PICK f : f = First
  OBVIOUS
<1>b. PICK s : s = out \o Copied(pos, edits[f].at - 1)
  OBVIOUS
<1>c. PICK T : T = todo \ {f}
  OBVIOUS
<1>1. /\ todo # {} /\ edits[f].rank = 0 /\ UNCHANGED <<vars, kept, edits>>
      /\ out' = s /\ todo' = T
      /\ pos' = IF edits[f].at >= pos THEN edits[f].to + 1 ELSE Greatest({pos, edits[f].to + 1})
  BY <1>a, <1>b, <1>c DEF ApplyDel, visiting
<1>2. /\ IsFirst(f, todo) /\ f \in 1..Len(edits) /\ pos \in Nat
      /\ Prunes(todo, Above(pos, edits[f].at), s)
  BY <1>1, <1>a, <1>b, UpToFirst
<1>3. /\ edits[f].at \in Nat /\ edits[f].to \in Nat /\ edits[f].at <= edits[f].to
  BY <1>1, <1>2, EditIs
<1>4. edits[f].at <= Above(pos, edits[f].at)
  BY <1>2, <1>3 DEF Above
<1>5. Prunes(T, Above(Above(pos, edits[f].at), edits[f].to + 1), s)
  BY <1>1, <1>2, <1>4, <1>c, SkipOver
<1>6. pos' = Above(Above(pos, edits[f].at), edits[f].to + 1)
  <2>1. Greatest({pos, edits[f].to + 1}) = Above(pos, edits[f].to + 1)
    BY <1>2, <1>3, GreatestOfTwo
  <2> QED
    BY <1>1, <1>2, <1>3, <2>1 DEF Above
<1>7. PICK q : q = Above(Above(pos, edits[f].at), edits[f].to + 1)
  OBVIOUS
<1>8. Prunes(T, q, s)'
  BY <1>1, <1>5, <1>7, SameEdits
<1> QED
  BY <1>1, <1>6, <1>7, <1>8, SameEdits

\* What is inserted comes where it belongs.
LEMMA InsHolds ==
    ASSUME Settled, Written, AllHandled, Prunes(todo, pos, out), ApplyIns
    PROVE Written' /\ AllHandled' /\ Prunes(todo, pos, out)'
<1>a. PICK f : f = First
  OBVIOUS
<1>b. PICK s : s = out \o Copied(pos, edits[f].at - 1)
  OBVIOUS
<1>c. PICK T : T = todo \ {f}
  OBVIOUS
<1>d. PICK u : u = s \o Statement(edits[f].nums)
  OBVIOUS
<1>1. /\ todo # {} /\ edits[f].rank = 1 /\ UNCHANGED <<vars, kept, edits>>
      /\ out' = u /\ todo' = T /\ pos' = Greatest({pos, edits[f].at})
  BY <1>a, <1>b, <1>c, <1>d DEF ApplyIns, visiting
<1>2. /\ IsFirst(f, todo) /\ f \in 1..Len(edits) /\ pos \in Nat /\ edits[f].at \in Nat
      /\ Prunes(todo, Above(pos, edits[f].at), s)
  BY <1>1, <1>a, <1>b, UpToFirst
<1>3. PICK q : q = Above(pos, edits[f].at)
  OBVIOUS
<1>4. edits[f].at <= q
  BY <1>2, <1>3 DEF Above
<1>5. Prunes(T, q, u)
  BY <1>1, <1>2, <1>3, <1>4, <1>c, <1>d, PutIn
<1>6. pos' = q
  BY <1>1, <1>2, <1>3, GreatestOfTwo
<1>7. Prunes(T, q, u)'
  BY <1>1, <1>5, SameEdits
<1> QED
  BY <1>1, <1>6, <1>7, SameEdits

\* The rest of the text follows.
LEMMA RestHolds ==
    ASSUME Settled, Written, AllHandled, Prunes(todo, pos, out), CopyRest
    PROVE Written' /\ AllHandled' /\ Pruned'
<1>a. PICK s : s = out \o Copied(pos, Len(text))
  OBVIOUS
<1>b. PICK q : q = Len(text) + 1
  OBVIOUS
<1>1. todo = {} /\ out' = s /\ UNCHANGED <<vars, kept, edits>> /\ text' = text
  BY <1>a DEF CopyRest, visiting, vars, parsed
<1>2. Len(text) \in Nat /\ pos \in 1..q /\ q \in 1..Len(text) + 1 /\ q - 1 = Len(text)
  <2>1. Len(text) \in Nat /\ pos \in 1..Len(text) + 1
    BY SettledTree DEF Tree, Prunes
  <2> QED
    BY <1>b, <2>1
<1>3. Prunes({}, Above(pos, q), out \o Copied(pos, q - 1))
  BY <1>1, <1>2, CopyUp
<1>4. Above(pos, q) = q
  BY <1>2 DEF Above
<1>5. Prunes({}, q, s)'
  BY <1>1, <1>2, <1>3, <1>4, <1>a, SameEdits
<1>6. Pruned'
  BY <1>1, <1>5, <1>b DEF Pruned
<1> QED
  BY <1>1, <1>6, SameEdits

-----------------------------------------------------------------------------
(* The invariant of the whole.                                             *)

Stages ==
    /\ phase \in {"parse", "visit", "apply", "done"}
    /\ phase = "parse" => kept = {} /\ scopes = <<>> /\ edits = <<>> /\ reserved = <<>>
    /\ phase \in {"parse", "visit"} => pos = 1 /\ out = <<>>
    /\ phase # "parse" => Chosen /\ Written
    /\ phase = "visit" => Visit
    /\ phase \in {"apply", "done"} => AllHandled
    /\ phase = "apply" => Prunes(todo, pos, out)
    /\ phase = "done" => Pruned
EditsInvariant == Ground /\ Stages

LEMMA EditsBegin == EditInit => EditsInvariant
<1> SUFFICES ASSUME EditInit PROVE EditsInvariant
  OBVIOUS
<1>1. Init /\ Stages
  BY DEF EditInit, Stages
<1>2. Ground
  BY <1>1, EditsAssumption, InitIsFresh, InvariantBegins, TiedBegins, GrownBegins, ClosedBegins DEF Ground
<1> QED
  BY <1>1, <1>2 DEF EditsInvariant

\* After the parse, what it has made stays.
LEMMA AfterParse ==
    ASSUME EditsInvariant, phase # "parse", UNCHANGED <<vars, kept>>
    PROVE Settled /\ Written /\ Ground' /\ Chosen'
<1>1. Ground /\ Chosen /\ Written
  BY DEF EditsInvariant, Stages
<1>2. Ground'
  <2>1. UNCHANGED vars
    OBVIOUS
  <2> QED
    BY <1>1, <2>1, GroundHolds
<1> QED
  BY <1>1, <1>2, SettledIs, ChosenHolds

VisitStep == Drop \/ EnterScope \/ Pass \/ VisitOneof \/ VisitEnum \/ LeaveScope

LEMMA EditsStep == EditsInvariant /\ [EditNext]_<<vars, pruning>> => EditsInvariant'
<1> SUFFICES ASSUME EditsInvariant, [EditNext]_<<vars, pruning>> PROVE EditsInvariant'
  OBVIOUS
<1>1. Ground /\ Stages
  BY DEF EditsInvariant
<1>2. CASE ParseFile
  <2>1. phase = "parse" /\ Next /\ UNCHANGED pruning
    BY <1>2 DEF ParseFile
  <2>2. Ground'
    BY <1>1, <2>1, GroundHolds
  <2>3. Stages'
    BY <1>1, <2>1 DEF Stages, pruning, visiting, applying
  <2> QED
    BY <2>2, <2>3 DEF EditsInvariant
<1>3. CASE BeginVisit
  <2>1. /\ phase = "parse" /\ phase' = "visit" /\ UNCHANGED vars /\ pos' = pos /\ out' = out
    BY <1>3 DEF BeginVisit, applying
  <2>2. kept = {} /\ edits = <<>> /\ reserved = <<>> /\ pos = 1 /\ out = <<>>
    BY <1>1, <2>1 DEF Stages
  <2>3. Ground'
    BY <1>1, <2>1, GroundHolds
  <2>4. Chosen' /\ Written' /\ Visit'
    BY <1>1, <1>3, <2>2, BeginHolds
  <2> QED
    BY <2>1, <2>2, <2>3, <2>4 DEF EditsInvariant, Stages
<1>4. CASE VisitStep
  <2>1. phase = "visit" /\ phase' = "visit" /\ UNCHANGED <<vars, kept>> /\ pos' = pos /\ out' = out
    BY <1>4 DEF VisitStep, Drop, EnterScope, Pass, VisitOneof, VisitEnum, LeaveScope,
                Visiting, Visited, applying
  <2>2. Settled /\ Written /\ Ground' /\ Chosen'
    BY <2>1, AfterParse
  <2>3. Visit /\ pos = 1 /\ out = <<>>
    BY <1>1, <2>1 DEF Stages
  <2>4. Written' /\ Visit'
    BY <1>4, <2>2, <2>3, DropHolds, EnterHolds, PassHolds, OneofHolds, EnumHolds, LeaveHolds DEF VisitStep
  <2> QED
    BY <2>1, <2>2, <2>3, <2>4 DEF EditsInvariant, Stages
<1>5. CASE EndVisit
  <2>1. phase = "visit" /\ phase' = "apply" /\ UNCHANGED <<vars, kept>>
    BY <1>5 DEF EndVisit, Visited
  <2>2. Settled /\ Written /\ Ground' /\ Chosen'
    BY <2>1, AfterParse
  <2>3. Visit /\ pos = 1 /\ out = <<>>
    BY <1>1, <2>1 DEF Stages
  <2>4. Written' /\ AllHandled' /\ Prunes(todo, pos, out)'
    BY <1>5, <2>2, <2>3, EndHolds
  <2> QED
    BY <2>1, <2>2, <2>4 DEF EditsInvariant, Stages
<1>6. CASE ApplyDel \/ ApplyIns
  <2>1. phase = "apply" /\ phase' = "apply" /\ UNCHANGED <<vars, kept>>
    BY <1>6 DEF ApplyDel, ApplyIns
  <2>2. Settled /\ Written /\ Ground' /\ Chosen'
    BY <2>1, AfterParse
  <2>3. AllHandled /\ Prunes(todo, pos, out)
    BY <1>1, <2>1 DEF Stages
  <2>4. Written' /\ AllHandled' /\ Prunes(todo, pos, out)'
    BY <1>6, <2>2, <2>3, DelHolds, InsHolds
  <2> QED
    BY <2>1, <2>2, <2>4 DEF EditsInvariant, Stages
<1>7. CASE CopyRest
  <2>1. phase = "apply" /\ phase' = "done" /\ UNCHANGED <<vars, kept>>
    BY <1>7 DEF CopyRest
  <2>2. Settled /\ Written /\ Ground' /\ Chosen'
    BY <2>1, AfterParse
  <2>3. AllHandled /\ Prunes(todo, pos, out)
    BY <1>1, <2>1 DEF Stages
  <2>4. Written' /\ AllHandled' /\ Pruned'
    BY <1>7, <2>2, <2>3, RestHolds
  <2> QED
    BY <2>1, <2>2, <2>4 DEF EditsInvariant, Stages
<1>8. CASE UNCHANGED <<vars, pruning>>
  <2>1. /\ UNCHANGED vars /\ UNCHANGED <<vars, kept>> /\ UNCHANGED <<vars, kept, edits>>
        /\ phase' = phase /\ scopes' = scopes /\ edits' = edits /\ reserved' = reserved /\ kept' = kept
        /\ todo' = todo /\ pos' = pos /\ out' = out /\ text' = text
    BY <1>8 DEF pruning, visiting, applying, vars, parsed
  <2>2. Ground'
    BY <1>1, <2>1, GroundHolds
  <2>3. /\ phase # "parse" => Chosen' /\ Written'
        /\ phase \in {"apply", "done"} => AllHandled'
    BY <1>1, <2>1, ChosenHolds, SameEdits DEF Stages
  <2>4. phase = "visit" => Visit'
    <3> SUFFICES ASSUME phase = "visit" PROVE Visit'
      OBVIOUS
    <3>1. Visit /\ Settled /\ Written
      BY <1>1, <2>1, AfterParse DEF Stages
    <3>2. PICK S : S = scopes
      OBVIOUS
    <3>3. PICK R : R = reserved
      OBVIOUS
    <3>4. PICK p : p = Frontier
      OBVIOUS
    <3>5. Stacked(S, R)' /\ Tallied(S, R, p)'
      BY <2>1, <3>1, <3>2, <3>3, <3>4, SameVisit DEF Visit
    <3>6. Frontier' = p
      BY <2>1, <3>4, SameVisit DEF Frontier, Inner
    <3>7. Seen(p)' /\ Unseen(p)'
      <4>1. \A h : (Answered(h) => Answered(h)') /\ (Handled(h) => Handled(h)')
        BY <2>1, <3>1, StaysHandled DEF Written
      <4>2. Seen(p) /\ Unseen(p)
        BY <3>1, <3>4 DEF Visit
      <4>3. Seen(p)'
        BY <2>1, <4>1, <4>2, SamePlaces, SamePlan DEF Seen
      <4> QED
        BY <2>1, <4>2, <4>3 DEF Unseen
    <3> QED
      BY <2>1, <3>2, <3>3, <3>5, <3>6, <3>7 DEF Visit
  <2>5. phase = "apply" => Prunes(todo, pos, out)'
    <3> PICK T : T = todo
      OBVIOUS
    <3> PICK q : q = pos
      OBVIOUS
    <3> PICK s : s = out
      OBVIOUS
    <3>1. Prunes(T, q, s) => Prunes(T, q, s)'
      BY <2>1, SameEdits
    <3> QED
      BY <1>1, <2>1, <3>1 DEF Stages
  <2>6. phase = "done" => Pruned'
    <3> PICK q : q = Len(text) + 1
      OBVIOUS
    <3> PICK s : s = out
      OBVIOUS
    <3>1. Prunes({}, q, s) => Prunes({}, q, s)'
      BY <2>1, SameEdits
    <3> QED
      BY <1>1, <2>1, <3>1 DEF Stages, Pruned
  <2>7. Stages'
    BY <1>1, <2>1, <2>3, <2>4, <2>5, <2>6 DEF Stages
  <2> QED
    BY <2>2, <2>7 DEF EditsInvariant
<1> QED
  BY <1>2, <1>3, <1>4, <1>5, <1>6, <1>7, <1>8 DEF EditNext, VisitStep

\* The invariant holds.
LEMMA EditsInvariantHolds == EditSpec => []EditsInvariant
<1>1. EditInit => EditsInvariant
  BY EditsBegin
<1>2. EditsInvariant /\ [EditNext]_<<vars, pruning>> => EditsInvariant'
  BY EditsStep
<1> QED
  BY <1>1, <1>2, PTL DEF EditSpec

LEMMA WhenDone ==
    ASSUME EditsInvariant, phase = "done" PROVE Settled /\ Written /\ AllHandled /\ Pruned
  BY SettledIs DEF EditsInvariant, Stages

-----------------------------------------------------------------------------
(* The theorems.                                                           *)

\* No lexeme of a deleted item or of a comment attached to one is left, and what is
\* left keeps its order.
NothingDroppedStays ==
    phase = "done" =>
        /\ \A i \in DOMAIN out : out[i].pos \notin Going
        /\ \A i, j \in DOMAIN out :
              i < j /\ out[i].pos > 0 /\ out[j].pos > 0 => out[i].pos < out[j].pos

LEMMA NothingDroppedIsLeft ==
    ASSUME Settled, Written, AllHandled, Pruned PROVE NothingDroppedStays
<1>1. /\ DOMAIN out = 1..Len(out)
      /\ \A i \in 1..Len(out) : out[i].pos \in Nat
      /\ \A p \in Nat \ {0} : Shows(p, out) => \A n \in 1..Len(edits) : ~ Covers(n, p)
  BY PrunedIs
<1>2. \A i, j \in 1..Len(out) :
         i < j /\ out[i].pos # 0 /\ out[j].pos # 0 => out[i].pos < out[j].pos
  BY DEF Pruned, Prunes
<1>3. ASSUME NEW i \in 1..Len(out) PROVE out[i].pos \notin Going
  <2>1. SUFFICES ASSUME out[i].pos \in Going PROVE FALSE
    OBVIOUS
  <2>2. PICK p : p = out[i].pos
    OBVIOUS
  <2>3. PICK h \in Heads : Goes(h) /\ p \in Own(h)
    BY <2>1, <2>2 DEF Going
  <2>4. PICK n \in 1..Len(edits) : Covers(n, p)
    BY <2>3, AllCovered DEF IsCovered
  <2>5. p \in Nat /\ p >= 1
    BY <1>1, <2>2, <2>4, EditIs DEF Covers
  <2>6. Shows(p, out)
    BY <2>2 DEF Shows
  <2> QED
    BY <1>1, <2>4, <2>5, <2>6
<1>4. \A i, j \in DOMAIN out :
         i < j /\ out[i].pos > 0 /\ out[j].pos > 0 => out[i].pos < out[j].pos
  BY <1>1, <1>2
<1> QED
  BY <1>1, <1>3, <1>4 DEF NothingDroppedStays

\* Whatever the comments, a prune leaves nothing of what it is to delete, and what it
\* leaves is in the order of the source.
THEOREM NothingDroppedStaysHolds == EditSpec => []NothingDroppedStays
<1>1. EditsInvariant => NothingDroppedStays
  <2> SUFFICES ASSUME EditsInvariant PROVE NothingDroppedStays
    OBVIOUS
  <2>1. CASE phase = "done"
    BY <2>1, WhenDone, NothingDroppedIsLeft
  <2>2. CASE phase # "done"
    BY <2>2 DEF NothingDroppedStays
  <2> QED
    BY <2>1, <2>2
<1> QED
  BY <1>1, EditsInvariantHolds, PTL

\* "Everything unaddressed is preserved": where leading comments stand next to their
\* items, a pruned file is the source without the deleted items and their comments.
THEOREM OnlyDeletedGoesHolds == EditSpec => [](LedClosely => OnlyDeletedGoes)
<1>1. EditsInvariant => (LedClosely => OnlyDeletedGoes)
  <2> SUFFICES ASSUME EditsInvariant, LedClosely PROVE OnlyDeletedGoes
    OBVIOUS
  <2>1. CASE phase = "done"
    BY <2>1, WhenDone, OnlyDeletedHasGone
  <2>2. CASE phase # "done"
    BY <2>2 DEF OnlyDeletedGoes
  <2> QED
    BY <2>1, <2>2
<1> QED
  BY <1>1, EditsInvariantHolds, PTL

\* "Numbers are never reused": in a legal file each kept message and enum gets one
\* statement, at its end, of exactly the numbers it has lost, and no other place gets one.
THEOREM ReservedOnceHolds == EditSpec => [](LedClosely /\ Legal => ReservedOnce)
<1>1. EditsInvariant => (LedClosely /\ Legal => ReservedOnce)
  <2> SUFFICES ASSUME EditsInvariant, LedClosely, Legal PROVE ReservedOnce
    OBVIOUS
  <2>1. CASE phase = "done"
    BY <2>1, WhenDone, NumbersAreReserved
  <2>2. CASE phase # "done"
    BY <2>2 DEF ReservedOnce
  <2> QED
    BY <2>1, <2>2
<1> QED
  BY <1>1, EditsInvariantHolds, PTL

\* A legal file stays legal: allow_alias goes with the last aliases and not before, and
\* no oneof is left empty.
THEOREM OutputIsLegalHolds == EditSpec => [](LedClosely /\ Legal => OutputIsLegal)
<1>1. EditsInvariant => (LedClosely /\ Legal => OutputIsLegal)
  <2> SUFFICES ASSUME EditsInvariant, LedClosely, Legal PROVE OutputIsLegal
    OBVIOUS
  <2>1. CASE phase = "done"
    BY <2>1, WhenDone, WhatIsLeftIsLegal
  <2>2. CASE phase # "done"
    BY <2>2 DEF OutputIsLegal
  <2> QED
    BY <2>1, <2>2
<1> QED
  BY <1>1, EditsInvariantHolds, PTL

=============================================================================
