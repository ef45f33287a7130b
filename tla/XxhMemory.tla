----------------------------- MODULE XxhMemory ----------------------------
(***************************************************************************)
(* How xxHash reads and writes words on machines of either byte order, how *)
(* hashes are compared, and how its state is allocated.                    *)
(* A word is the sequence of its bytes, the lowest first, whatever the     *)
(* machine; be: the machine has the highest first in memory.               *)
(***************************************************************************)
EXTENDS Integers, Sequences, SequencesExt

\* x << 8 k and x >> 8 k.
ShiftUp(x, k)   == [j \in DOMAIN x |-> IF j > k THEN x[j - k] ELSE 0]
ShiftDown(x, k) == [j \in DOMAIN x |-> IF j + k <= Len(x) THEN x[j + k] ELSE 0]

\* XXH_swap32() and XXH_swap64(): one term, masked, for each byte of the result.
swap(x) == LET n == Len(x)
               term(j) == LET up == 2 * j - n - 1
                          IN  IF up > 0 THEN ShiftUp(x, up) ELSE ShiftDown(x, -up)
           IN  [j \in 1..n |-> term(j)[j]]

\* XXH_read32(), XXH_read64(), and memcpy() of a word to memory.
MemoryRead(be, mem) == IF be THEN Reverse(mem) ELSE mem
Store(be, x) == IF be THEN Reverse(x) ELSE x

readLE(be, mem) == IF be THEN swap(MemoryRead(be, mem)) ELSE MemoryRead(be, mem)
readBE(be, mem) == IF be THEN MemoryRead(be, mem) ELSE swap(MemoryRead(be, mem))
writeLE(be, x)  == Store(be, IF be THEN swap(x) ELSE x)

\* XXH_FORCE_MEMORY_ACCESS==3: byte by byte, shifted.
Byte1(b, n) == [k \in 1..n |-> IF k = 1 THEN b ELSE 0]
OredLE(mem) == [k \in DOMAIN mem |-> ShiftUp(Byte1(mem[k], Len(mem)), k - 1)[k]]
OredBE(mem) == [k \in DOMAIN mem |-> ShiftUp(Byte1(mem[Len(mem) + 1 - k], Len(mem)), k - 1)[k]]

\* XXH32_, XXH64_canonicalFromHash() and back; of the two halves for 128 bits.
canonicalFromHash(be, x) == Store(be, IF be THEN x ELSE swap(x))
canonical128(be, h) == canonicalFromHash(be, h.high64) \o canonicalFromHash(be, h.low64)
hashFromCanonical(be, mem) == readBE(be, mem)
hash128FromCanonical(be, mem) ==
  LET n == Len(mem) \div 2
  IN  [high64 |-> readBE(be, SubSeq(mem, 1, n)), low64 |-> readBE(be, SubSeq(mem, n + 1, 2 * n))]

\* What a word is worth, with bytes of four bits; the result of a comparison.
Value(x) == FoldRight(LAMBDA b, v : b + 16 * v, x, 0)
Above(x, y) == IF Value(x) > Value(y) THEN 1 ELSE 0

\* XXH128_cmp() and XXH128_isEqual(), which looks at the memory.
cmp(h1, h2) == LET hcmp == Above(h1.high64, h2.high64) - Above(h2.high64, h1.high64)
               IN  IF hcmp # 0 THEN hcmp ELSE Above(h1.low64, h2.low64) - Above(h2.low64, h1.low64)
isEqual(be, h1, h2) == Store(be, h1.low64) \o Store(be, h1.high64)
                         = Store(be, h2.low64) \o Store(be, h2.high64)

\* XXH_alignedMalloc() with what malloc() returned, and what XXH_alignedFree() gives
\* back of the byte before the pointer.
alignedMalloc(base, align) == LET offset == align - (base % align)
                              IN  [ptr |-> base + offset, byte |-> offset % 256]
alignedFree(p) == p.ptr - p.byte

---------------------------------------------------------------------------
\* All ways to read a word agree, and what was written is read again.
ReadsAgree(mems) ==
  \A mem \in mems : \A be \in BOOLEAN :
    /\ readLE(be, mem) = mem /\ OredLE(mem) = mem
    /\ readBE(be, mem) = OredBE(mem)
    /\ writeLE(be, readLE(be, mem)) = mem
    /\ hashFromCanonical(be, canonicalFromHash(be, mem)) = mem

\* Canonical hashes are the same on every machine, come back as they were, and the
\* first byte in which they differ decides like XXH128_cmp() does.
CanonicalOrder(words) ==
  LET hashes == [high64 : words, low64 : words] IN
  \A g, h \in hashes :
    LET c == canonical128(FALSE, g)
        d == canonical128(FALSE, h)
        first == {k \in DOMAIN c : c[k] # d[k] /\ \A j \in 1..k-1 : c[j] = d[j]}
    IN  /\ canonical128(TRUE, g) = c
        /\ \A be \in BOOLEAN : hash128FromCanonical(be, c) = g /\ (isEqual(be, g, h) <=> cmp(g, h) = 0)
        /\ cmp(g, h) = IF first = {} THEN 0
                       ELSE IF \E k \in first : c[k] > d[k] THEN 1 ELSE -1

\* Memory is aligned, has room for s bytes and for the byte before them, and is given
\* back to free() as malloc() returned it.
AlignedFits(bases, aligns, s) ==
  \A base \in bases, align \in aligns :
    LET p == alignedMalloc(base, align)
    IN  /\ p.ptr % align = 0 /\ p.ptr > base /\ p.ptr + s <= base + s + align
        /\ alignedFree(p) = base

===========================================================================
