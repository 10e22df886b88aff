---------------------------------- MODULE Swar ----------------------------------
(***************************************************************************)
(* The scans of lex.rs that take Lanes bytes (eight in the code) at a time *)
(* out of one machine word: masks with a flag per byte, made by arithmetic *)
(* on the whole word, and a loop over single bytes for the rest.           *)
(*                                                                         *)
(* Words are numbers.  What the code does bit by bit stays within a byte   *)
(* and is done per byte here; what may carry or borrow from one byte to    *)
(* the next, + and -, is done on the word.  A mask is the set of the bytes *)
(* it flags.  Texts are sequences of bytes, positions count from 0.        *)
(***************************************************************************)
EXTENDS Naturals, Sequences, FiniteSets

CONSTANT Lanes

ASSUME LanesAssumption == Lanes \in 1..8

NL == 10
Space == 32
Backslash == 92
Underscore == 95
Digits == 48..57
Letters == (65..90) \cup (97..122)
OtherSpace == {9, 11, 12, 13, 32}  \* the class CLS_WS

Bytes == 0..255
High == 128
Lane == 0..Lanes-1
Least(S) == CHOOSE x \in S : \A y \in S : x <= y

\* What a one in byte k counts in a word.
Place[k \in 0..Lanes] == IF k = 0 THEN 1 ELSE 256 * Place[k-1]
\* Pack(f): the word of the bytes f[0], f[1], ..., the first one lowest.
Pack(f) == LET upTo[k \in 0..Lanes] == IF k = 0 THEN 0 ELSE upTo[k-1] + f[k-1] * Place[k-1]
           IN upTo[Lanes]
ByteOf(x, k) == (x \div Place[k]) % 256
Ones == Pack([k \in Lane |-> 1])
load8(b, i) == Pack([k \in Lane |-> b[i + k + 1]])

Xor(x, y) ==
    LET bit(b) == b * (((x \div b) + (y \div b)) % 2)
    IN bit(1) + bit(2) + bit(4) + bit(8) + bit(16) + bit(32) + bit(64) + bit(128)

\* MUTANT of swar_eq: the high bits are not set first, and a byte borrows of the next.
swar_eq_borrowing(x, n) ==
    LET v == Pack([k \in Lane |-> Xor(ByteOf(x, k), n)])
        w == IF v >= Ones THEN v - Ones ELSE v + Place[Lanes] - Ones
    IN {k \in Lane : ByteOf(v, k) < High /\ ByteOf(w, k) >= High}

\* The bytes equal to n.
swar_eq(x, n) ==
    LET v == Pack([k \in Lane |-> Xor(ByteOf(x, k), n)])
        w == Pack([k \in Lane |-> IF ByteOf(v, k) < High THEN ByteOf(v, k) + High ELSE ByteOf(v, k)]) - Ones
    IN {k \in Lane : ByteOf(v, k) < High /\ ByteOf(w, k) < High}

\* Of bytes below High, those that are n or more.
swar_ge7(x7, n) == {k \in Lane : ByteOf((x7 + Ones * (High - n)) % Place[Lanes], k) >= High}

Low7(x) == Pack([k \in Lane |-> ByteOf(x, k) % High])
NonAscii(x) == {k \in Lane : ByteOf(x, k) >= High}
Between(x7, from, to) == swar_ge7(x7, from) \ swar_ge7(x7, to + 1)

IdentFlags(x) ==
    (Between(Low7(x), 48, 57) \cup Between(Low7(x), 65, 90) \cup Between(Low7(x), 97, 122)
        \cup swar_eq(x, Underscore)) \ NonAscii(x)

WsFlags(x) == (Between(Low7(x), 9, 13) \cup swar_eq(x, Space)) \ NonAscii(x)

\* The loop of a scan: words while they are whole, then bytes.
Scan(b, i, Stops(_), StopsAt(_)) ==
    LET n == Len(b)
        from[j \in 0..n] ==
          IF j + Lanes <= n
          THEN LET stops == Stops(load8(b, j))
               IN IF stops = {} THEN from[j + Lanes] ELSE j + Least(stops)
          ELSE IF j < n /\ ~StopsAt(b[j+1]) THEN from[j+1] ELSE j
    IN from[i]

is_ident_start(c) == c \in Letters \cup {Underscore}
is_ident_continue(c) == c \in Letters \cup Digits \cup {Underscore}
is_ws(c) == c \in OtherSpace

scan_ident(b, i) ==
    Scan(b, i, LAMBDA x : Lane \ IdentFlags(x), LAMBDA c : ~is_ident_continue(c))

\* The end of a run of white space, and how many newlines are in it.
scan_ws(b, i) ==
    LET n == Len(b)
        Count(r, m) == [r EXCEPT !.lines = @ + m]
        from[j \in 0..n] ==
          IF j + Lanes <= n
          THEN LET x == load8(b, j)
                   stops == Lane \ WsFlags(x)
                   nl == swar_eq(x, NL)
               IN IF stops = {} THEN Count(from[j + Lanes], Cardinality(nl))
                  ELSE [end |-> j + Least(stops),
                        lines |-> Cardinality({k \in nl : k < Least(stops)})]
          ELSE IF j < n /\ b[j+1] = NL THEN Count(from[j+1], 1)
          ELSE IF j < n /\ is_ws(b[j+1]) THEN from[j+1]
          ELSE [end |-> j, lines |-> 0]
    IN from[i]

scan_to_newline(b, i) == Scan(b, i, LAMBDA x : swar_eq(x, NL), LAMBDA c : c = NL)

scan_str_body(b, quote, i) ==
    Scan(b, i, LAMBDA x : swar_eq(x, quote) \cup swar_eq(x, Backslash) \cup swar_eq(x, NL),
         LAMBDA c : c \in {quote, Backslash, NL})

\* What the scans are for: the next position in b from i on, where a byte stops it.
NextAt(b, i, StopsAt(_)) ==
    Least({j \in i..Len(b) : j = Len(b) \/ StopsAt(b[j+1])})

\* The scans over words stop where single bytes say, and count every newline once,
\* whatever a byte's neighbours in its word are.  A start a word further on is that of
\* a shorter text.
ScansAgree(b) ==
    \A i \in Lane : i <= Len(b) =>
        /\ scan_ident(b, i) = NextAt(b, i, LAMBDA c : ~is_ident_continue(c))
        /\ LET end == NextAt(b, i, LAMBDA c : ~is_ws(c) /\ c # NL)
           IN scan_ws(b, i) =
                [end |-> end, lines |-> Cardinality({j \in i+1..end : b[j] = NL})]
        /\ scan_to_newline(b, i) = NextAt(b, i, LAMBDA c : c = NL)
        /\ \A q \in {34, 39} :
              scan_str_body(b, q, i) = NextAt(b, i, LAMBDA c : c \in {q, Backslash, NL})
=============================================================================
