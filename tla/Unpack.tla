------------------------------- MODULE Unpack --------------------------------
(***************************************************************************)
(* unpack of unpack.c: the format of pack, one Huffman code for a file.      *)
(* The input gives the number of leaves of each length and the literals in   *)
(* order; read_tree checks the numbers, build_tree fills the tables that the *)
(* loop decodes with, short codes from prefix_len and long ones by parents.  *)
(* Bytes and codes are smaller here.                                        *)
(***************************************************************************)
EXTENDS OldFormats, Integers, SequencesExt

CONSTANTS
    MaxBitLen,     \* MAX_BITLEN
    MaxPeek,       \* MAX_PEEK
    Literals,      \* LITERALS
    PackFiles      \* sequences of bytes: the length of the text, as one, the
                   \* largest code length, numbers of leaves, literals, codes

PackParameters ==
    /\ {ByteBits, MaxBitLen, MaxPeek, Literals} \subseteq Nat \ {0}
    /\ PackFiles \subseteq Seq(Nat)

VARIABLES
    packed,                        \* the bytes of the file
    stage,
    pos,                           \* bytes read, by read_byte
    origLen, maxLen,               \* orig_len, max_len
    leaves, maxLeaves,
    literal, litBase, parents,
    prefixLen,                     \* prefix_len, from 0
    bitbuf,                        \* the valid bits: read and not skipped
    unpacked                       \* what is put out
headVars == <<origLen, maxLen>>
treeVars == <<leaves, maxLeaves, literal, litBase, parents, prefixLen>>
valid == Len(bitbuf)
packVars == <<packed, stage, pos, headVars, treeVars, bitbuf, unpacked>>

Total(numbers) ==
    LET sum[n \in 0 .. Len(numbers)] == IF n = 0 THEN 0 ELSE sum[n - 1] + numbers[n]
    IN  sum[Len(numbers)]
Byte(i) == packed[i]
BitsOf(byte) == [i \in 1 .. ByteBits |-> (byte \div 2 ^ (ByteBits - i)) % 2]
CodeValue(bits) ==
    LET value[n \in 0 .. Len(bits)] == IF n = 0 THEN 0 ELSE 2 * value[n - 1] + bits[n]
    IN  value[Len(bits)]

PackInit ==
    /\ packed \in PackFiles
    /\ stage = "length"
    /\ pos = 0
    /\ origLen = 0 /\ maxLen = 0
    /\ leaves = <<>> /\ maxLeaves = 1
    /\ literal = <<>> /\ litBase = <<>> /\ parents = <<>> /\ prefixLen = <<>>
    /\ bitbuf = <<>>
    /\ unpacked = <<>>

\* read_byte: an error at the end of the file.
EndOfFile ==
    /\ stage \in {"length", "leaves", "literals"}
    /\ stage = "literals" => Len(literal) < Total(leaves)
    /\ pos + (IF stage = "length" THEN 2 ELSE 1) > Len(packed)
    /\ stage' = "error"
    /\ UNCHANGED <<packed, pos, headVars, treeVars, bitbuf, unpacked>>

ReadLengths ==
    /\ stage = "length"
    /\ pos + 2 <= Len(packed)
    /\ pos' = pos + 2
    /\ origLen' = Byte(1)
    /\ maxLen' = Byte(2)
    /\ stage' = IF maxLen' \in 1 .. MaxBitLen THEN "leaves" ELSE "error"
    /\ UNCHANGED <<packed, treeVars, bitbuf, unpacked>>

\* Mutant: more leaves than there is room for.
ReadLeavesUnchecked ==
    /\ stage = "leaves"
    /\ pos < Len(packed)
    /\ pos' = pos + 1
    /\ LET n    == Byte(pos + 1)
           len  == Len(leaves) + 1
           last == len = maxLen
           all  == Append(leaves, n)
       IN  /\ maxLeaves' = (maxLeaves - n + 1) * 2 - 1
           /\ leaves' = IF last THEN [all EXCEPT ![len] = n + 1] ELSE all
           /\ stage' = IF last /\ Literals <= Total(all)
                       THEN "error"
                       ELSE IF last THEN "literals" ELSE "leaves"
    /\ UNCHANGED <<packed, headVars, literal, litBase, parents, prefixLen, bitbuf,
                   unpacked>>

\* The number of leaves of the next length.  The last number is one less than
\* the literals, and two less than the leaves, of which one is EOB.
ReadLeaves ==
    /\ stage = "leaves"
    /\ pos < Len(packed)
    /\ pos' = pos + 1
    /\ LET n    == Byte(pos + 1)
           len  == Len(leaves) + 1
           last == len = maxLen
           all  == Append(leaves, n)
       IN  /\ maxLeaves' = (maxLeaves - n + 1) * 2 - 1
           /\ leaves' = IF last THEN [all EXCEPT ![len] = n + 1] ELSE all
           /\ stage' = IF \/ maxLeaves - (IF last THEN 1 ELSE 0) < n
                          \/ last /\ Literals <= Total(all)
                       THEN "error"
                       ELSE IF last THEN "literals" ELSE "leaves"
    /\ UNCHANGED <<packed, headVars, literal, litBase, parents, prefixLen, bitbuf,
                   unpacked>>

ReadLiteral ==
    /\ stage = "literals"
    /\ Len(literal) < Total(leaves)
    /\ pos < Len(packed)
    /\ literal' = Append(literal, Byte(pos + 1))
    /\ pos' = pos + 1
    /\ UNCHANGED <<packed, stage, headVars, leaves, maxLeaves, litBase, parents,
                   prefixLen, bitbuf, unpacked>>

\* The end of read_tree, and build_tree: from the longest codes up, and the table
\* from the shortest codes, which are all ones, down.
BuildTree ==
    /\ stage = "literals"
    /\ Len(literal) = Total(leaves)
    /\ LET all == [leaves EXCEPT ![maxLen] = @ + 1]
           up[len \in 1 .. maxLen + 1] ==
               IF len > maxLen THEN 0 ELSE (up[len + 1] \div 2) + all[len]
           peek == Least(maxLen, MaxPeek)
           from[len \in 0 .. peek] ==
               IF len = 0 THEN 2 ^ peek ELSE from[len - 1] - all[len] * 2 ^ (peek - len)
       IN  /\ leaves' = all
           /\ parents' = [len \in 1 .. maxLen |-> up[len + 1] \div 2]
           /\ litBase' = [len \in 1 .. maxLen |->
                             Total(SubSeq(leaves, 1, len - 1)) - parents'[len]]
           /\ prefixLen' = [b \in 0 .. 2 ^ peek - 1 |->
                  LET lens == {len \in 1 .. peek : from[len] <= b /\ b < from[len - 1]}
                  IN  IF lens = {} THEN 0 ELSE CHOOSE len \in lens : TRUE]
           /\ stage' = IF up[1] \div 2 = 1 THEN "decode" ELSE "error"
    /\ UNCHANGED <<packed, pos, headVars, maxLeaves, literal, bitbuf, unpacked>>

\* look_bits for codes of up to len bits: the bytes that have to be read.
Needed(len) == IF valid >= len THEN 0 ELSE (len - valid + ByteBits - 1) \div ByteBits
Looked(len) ==
    bitbuf \o FlattenSeq([i \in 1 .. Needed(len) |-> BitsOf(Byte(pos + i))])
Peek(len) == CodeValue(SubSeq(Looked(len), 1, len))

\* The length of the next code: from the table, or the least that is no parent.
CodeLen ==
    LET peek == Least(maxLen, MaxPeek)
        short == prefixLen[Peek(peek)]
    IN  IF short > 0 THEN short
        ELSE CHOOSE len \in peek .. maxLen :
                /\ Peek(len) >= parents[len]
                /\ \A shorter \in peek .. len - 1 : Peek(shorter) < parents[shorter]

Enough(len) == pos + Needed(len) <= Len(packed)

\* Not all bits of a code are there.
CodeIsCut ==
    LET peek == Least(maxLen, MaxPeek) IN
    Enough(peek) =>
       /\ prefixLen[Peek(peek)] = 0
       /\ \E len \in peek .. maxLen :
            /\ ~Enough(len)
            /\ \A shorter \in peek .. len - 1 :
                    Enough(shorter) /\ Peek(shorter) < parents[shorter]

DecodeFails ==
    /\ stage = "decode"
    /\ CodeIsCut
    /\ stage' = "error"
    /\ UNCHANGED <<packed, pos, headVars, treeVars, bitbuf, unpacked>>

Decode ==
    /\ stage = "decode"
    /\ ~CodeIsCut
    /\ LET len  == CodeLen
           look == IF len > MaxPeek THEN len ELSE Least(maxLen, MaxPeek)
           code == Peek(len)
       IN  /\ pos' = pos + Needed(look)
           /\ IF code = leaves[maxLen] - 1 /\ len = maxLen
              THEN /\ stage' = IF origLen = Len(unpacked) THEN "done" ELSE "error"
                   /\ UNCHANGED <<bitbuf, unpacked>>
              ELSE /\ unpacked' = Append(unpacked, literal[code + litBase[len] + 1])
                   /\ bitbuf' = SubSeq(Looked(look), len + 1, Len(Looked(look)))
                   /\ UNCHANGED stage
    /\ UNCHANGED <<packed, headVars, treeVars>>

PackNext ==
    \/ EndOfFile \/ ReadLengths \/ ReadLeaves \/ ReadLiteral \/ BuildTree
    \/ DecodeFails \/ Decode

PackSpec == PackInit /\ [][PackNext]_packVars

PackFinal == stage \in {"done", "error"}

-----------------------------------------------------------------------------
(* The format: the header says how many leaves of each length there are, the  *)
(* last of which is EOB; the tree is complete, and has its longer codes first. *)

Counts(input) ==
    [len \in 1 .. input[2] |-> input[2 + len] + (IF len = input[2] THEN 2 ELSE 0)]
LiteralsOf(input) ==
    SubSeq(input, 3 + input[2], 1 + input[2] + Total(Counts(input)))
Body(input) ==
    FlattenSeq([i \in 1 .. Len(input) - (1 + input[2] + Total(Counts(input))) |->
                   BitsOf(input[1 + input[2] + Total(Counts(input)) + i])])

\* The part of all codes that leaves of these lengths take, by Kraft's sum.
Weight(counts, lens) ==
    Total([len \in 1 .. Len(counts) |->
              IF len \in lens THEN counts[len] * 2 ^ (Len(counts) - len) ELSE 0])

\* The codes of the leaves, in the order of the literals.
Codes(counts) ==
    LET OfLength(len) ==
            LET first == Weight(counts, len + 1 .. Len(counts)) \div 2 ^ (Len(counts) - len)
            IN  [no \in 1 .. counts[len] |->
                    [i \in 1 .. len |-> ((first + no - 1) \div 2 ^ (len - i)) % 2]]
    IN  FlattenSeq([len \in 1 .. Len(counts) |-> OfLength(len)])

\* The leaves whose codes are in the bits, up to EOB.
Decoded(codes, bits) ==
    LET from[i \in 1 .. Len(bits) + 1] ==
            LET hits == {k \in 1 .. Len(codes) : IsPrefix(codes[k], SubSeq(bits, i, Len(bits)))}
            IN  IF hits = {} THEN <<>>
                ELSE LET k == CHOOSE k \in hits : TRUE IN
                     IF k = Len(codes) THEN <<k>> ELSE <<k>> \o from[i + Len(codes[k])]
    IN  from[1]

\* The header is whole, and that of a complete tree; there is room in literal[].
GoodHeader(input) ==
    /\ Len(input) >= 2
    /\ input[2] \in 1 .. MaxBitLen
    /\ Len(input) >= 2 + input[2]
    /\ Weight(Counts(input), 1 .. input[2]) = 2 ^ input[2]
    /\ Total(Counts(input)) - 1 <= Literals
    /\ Len(input) >= 1 + input[2] + Total(Counts(input))

DecodedFile(input) == Decoded(Codes(Counts(input)), Body(input))

Good(input) ==
    /\ GoodHeader(input)
    /\ LET read == DecodedFile(input) IN
       /\ Len(read) = input[1] + 1
       /\ read[Len(read)] = Total(Counts(input))

\* A file is accepted exactly when its tree is complete and fits, and its codes and
\* length are as they should be: the checks of read_tree and build_tree let
\* nothing else through and nothing out (unpack.c:135, 189).  What comes out is
\* what the leaves stand for, though short codes, long codes and EOB are found
\* on three ways, over the ends of bytes (unpack.c:240, 249).
PackIsInverted ==
    /\ stage = "error" => ~Good(packed)
    /\ stage = "done" => Good(packed)
    /\ stage \in {"decode", "done"} =>
        /\ GoodHeader(packed)
        /\ \A i \in 1 .. Len(unpacked) :
                unpacked[i] = LiteralsOf(packed)[DecodedFile(packed)[i]]
=============================================================================
