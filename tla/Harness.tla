------------------------------- MODULE Harness -------------------------------
(***************************************************************************)
(* The pure functions that every program shares: common/src/lib.rs, and    *)
(* its "line-for-line counterpart" go/harness.go.                          *)
(***************************************************************************)
EXTENDS Integers, Functions

CONSTANT Word   \* how many values a machine word has (2^64)

ASSUME WordAssumption == Word \in Nat \ {0}

Lesser(a, b) == IF a < b THEN a ELSE b

\* A mistake (NothingLost): a remainder that no chunk covers.
chunk_bounds_rounded_down(n, chunks, c) ==
    LET each == n \div chunks
        lo   == Lesser(c * each, n)
    IN  lo .. Lesser(lo + each, n) - 1

\* The c-th of `chunks` ranges that split 0 .. n - 1, as a set.
chunk_bounds(n, chunks, c) ==
    LET each == (n + chunks - 1) \div chunks
        lo   == Lesser(c * each, n)
    IN  lo .. Lesser(lo + each, n) - 1

\* The kernel of cpu, on a small word: xor and the constants are left out, it
\* only matters that the values of an item and of its neighbours differ.
mix(z) == ((z + 7) * 5) % Word

\* The hash of an item.
mixed(i, rounds) ==
    LET x[r \in 0 .. rounds] == IF r = 0 THEN i % Word ELSE mix(x[r - 1])
    IN  x[rounds]

\* A wrapping sum of hashes.
cpu_range(items, rounds) == SumFunction([i \in items |-> mixed(i, rounds)]) % Word
=============================================================================
