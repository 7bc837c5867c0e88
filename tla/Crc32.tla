------------------------------- MODULE Crc32 -------------------------------
(***************************************************************************)
(* common/cf_crc32.c: the checksum of a datagram.  A 32-bit word is the    *)
(* set of its bits, so that xor is the symmetric difference.  The table of *)
(* the code is the usual one of the reflected polynomial 0xedb88320; it is *)
(* computed here instead of listed.                                        *)
(***************************************************************************)
EXTENDS Integers, Sequences, FiniteSets

LOCAL SO == INSTANCE SequencesExt

Word     == 0 .. 31
Xor(a, b) == (a \ b) \union (b \ a)
Shift(w, n) == {i - n : i \in {j \in w : j >= n}}
BitsOf(n)  == {i \in 0 .. 7 : (n \div 2 ^ i) % 2 = 1}

\* The eight bits of w from bit low on, as a number.
ByteAt(w, low) ==
    SO!FoldLeft(LAMBDA n, i : 2 * n + (IF low + i \in w THEN 1 ELSE 0), 0, <<7, 6, 5, 4, 3, 2, 1, 0>>)

\* 0xedb88320
Polynomial == {5, 8, 9, 15, 19, 20, 21, 23, 24, 26, 27, 29, 30, 31}

crc32_tab ==
    [n \in 0 .. 255 |->
        SO!FoldLeft(LAMBDA w, i : IF 0 \in w THEN Xor(Shift(w, 1), Polynomial) ELSE Shift(w, 1),
                    BitsOf(n), [i \in 1 .. 8 |-> i])]

\* The register of crc32 after the first count bytes.
Register(crc, bytes, count) ==
    LET next[w \in SUBSET Word, byte \in 0 .. 255] ==
            Xor(crc32_tab[ByteAt(Xor(w, BitsOf(byte)), 0)], Shift(w, 8))
        register[n \in 0 .. count] ==
            IF n = 0 THEN Word \ crc ELSE next[register[n - 1], bytes[n]]
    IN  register[count]

\* crc32
crc32OneShort(crc, bytes) == Word \ Register(crc, bytes, Len(bytes) - 1)
crc32(crc, bytes)         == Word \ Register(crc, bytes, Len(bytes))
=============================================================================
