------------------------------- MODULE Strings -------------------------------
(***************************************************************************)
(* The functions of libc/string.c that the kernel calls, on a memory that  *)
(* is a function from addresses to bytes: tty_scroll and the keyboard      *)
(* queue rely on memmove with overlapping arguments, tmpfs on strlen,      *)
(* strcpy and strcmp for the names of entries.                             *)
(***************************************************************************)
EXTENDS Integers, Sequences, FiniteSets

CONSTANTS
    MemSize,        \* bytes of memory that the copies are checked on
    Letters         \* bytes that names are made of

ASSUME MemSizeAssumption == MemSize \in Nat \ {0}
ASSUME LettersAssumption == Letters \subseteq 1..127

\* n iterations of a copying loop from the first byte up.
CopyUp(mem, dest, src, n) ==
    LET after[k \in 0..n] ==
            IF k = 0 THEN mem
            ELSE [after[k - 1] EXCEPT ![dest + k - 1] = after[k - 1][src + k - 1]]
    IN  after[n]

\* And from the last byte down.
CopyDown(mem, dest, src, n) ==
    LET after[k \in 0..n] ==
            IF k = 0 THEN mem
            ELSE [after[k - 1] EXCEPT ![dest + n - k] = after[k - 1][src + n - k]]
    IN  after[n]

memcpy(mem, dest, src, n) == CopyUp(mem, dest, src, n)

\* Mutant: always copies upwards.
memmoveUp(mem, dest, src, n) == CopyUp(mem, dest, src, n)

memmove(mem, dest, src, n) ==
    IF dest < src THEN CopyUp(mem, dest, src, n)
    ELSE IF dest > src THEN CopyDown(mem, dest, src, n) ELSE mem

memset(mem, dest, ch, n) ==
    LET after[k \in 0..n] ==
            IF k = 0 THEN mem ELSE [after[k - 1] EXCEPT ![dest + k - 1] = ch % 256]
    IN  after[n]

\* Where a loop over a string ends: at the first of the places that end it.
First(places) == CHOOSE k \in places : \A j \in places : k <= j

strlen(mem, s) == First({a \in DOMAIN mem : a >= s /\ mem[a] = 0}) - s

\* The arguments do not overlap; the terminating zero is copied too.
strcpy(mem, dest, src) == CopyUp(mem, dest, src, strlen(mem, src) + 1)

\* How many bytes the loop of strcmp passes: those before the end of a string
\* or the first difference.
Alike(mem, lhs, rhs) ==
    First({k \in 0..Cardinality(DOMAIN mem) :
              /\ {lhs + k, rhs + k} \subseteq DOMAIN mem
              /\ mem[lhs + k] = 0 \/ mem[rhs + k] = 0 \/ mem[lhs + k] # mem[rhs + k]})

\* Mutant: the loop ends before the bytes that end it are compared.
strcmpPrefix(mem, lhs, rhs) ==
    LET k == Alike(mem, lhs, rhs)
    IN  IF mem[lhs + k] = 0 \/ mem[rhs + k] = 0 THEN 0 ELSE mem[rhs + k] - mem[lhs + k]

\* Negative if lhs is greater: the reverse of the C library's.
strcmp(mem, lhs, rhs) ==
    LET k == Alike(mem, lhs, rhs)
    IN  mem[rhs + k] - mem[lhs + k]
-----------------------------------------------------------------------------
Spaces == 0..(MemSize - 1)

\* What a copy is for: the bytes at src before it are those at dest after it.
Copied(mem, dest, src, n) ==
    [a \in DOMAIN mem |-> IF a >= dest /\ a < dest + n THEN mem[src + a - dest] ELSE mem[a]]

Names == {<<>>} \cup {<<a>> : a \in Letters} \cup (Letters \X Letters)

\* Two names in memory, and a last byte.
Holding(l, r) ==
    LET bytes == l \o <<0>> \o r \o <<0, 77>>
    IN  [a \in 0..(Len(bytes) - 1) |-> bytes[a + 1]]

\* Whatever the overlap of its arguments, memmove stores the bytes that src
\* held before the call, and nothing outside dest; so do memcpy, if dest is
\* not inside what it copies, and memset its one byte.
CopiesExact ==
    \A n \in 0..MemSize : \A dest, src \in 0..(MemSize - n) :
        LET mem == [a \in Spaces |-> a]
        IN  /\ memmove(mem, dest, src, n) = Copied(mem, dest, src, n)
            /\ dest <= src \/ dest >= src + n =>
                   memcpy(mem, dest, src, n) = Copied(mem, dest, src, n)
            /\ memset(mem, dest, 77, n) =
                   [a \in Spaces |-> IF a >= dest /\ a < dest + n THEN 77 ELSE a]

\* strcmp is zero for equal names only, a prefix included, and a copy made by
\* strcpy, which stores one byte more than strlen counts, compares as equal.
NamesCompareWith(l, r) ==
    LET mem    == Holding(l, r)
        twice  == Holding(l, l)
        second == Len(l) + 1
        copy   == strcpy(twice, second, 0)
    IN  /\ strlen(mem, 0) = Len(l) /\ strlen(mem, second) = Len(r)
        /\ (strcmp(mem, 0, second) = 0) <=> (l = r)
        /\ copy = twice /\ strcmp(copy, 0, second) = 0
        /\ strcpy([twice EXCEPT ![second + Len(l)] = 99], second, 0) = twice

NamesCompare == \A l, r \in Names : NamesCompareWith(l, r)
=============================================================================
