----------------------------- MODULE MCDecoders ------------------------------
(* Inputs for Decoders: files that compress(1) could have made, or that are  *)
(* damaged, and files that say what they like in the formats of pack and lzh. *)
EXTENDS Decoders

-----------------------------------------------------------------------------
(* compress(1).                                                              *)

LowBitsFirst(code, n) == [k \in 1 .. n |-> (code \div 2 ^ (k - 1)) % 2]
Pad(bits, n) == bits \o [k \in 1 .. (n - (Len(bits) % n)) % n |-> 0]

\* The bits of a sequence of codes: wider ones when the table has grown, narrow ones
\* again after it is cleared, and each change at the end of a group.
Emit(codes, maxbits, blockMode) ==
    LET Fresh == [groups |-> <<>>, bits |-> <<>>, n |-> InitBits,
                  free |-> FirstFree([block |-> blockMode]), max |-> 2 ^ InitBits - 1, count |-> 0]
        Step(acc, code) ==
            LET bits == acc.bits \o LowBitsFirst(code, acc.n)
                padded == acc.groups \o Pad(bits, acc.n * ByteBits)
                next == [acc EXCEPT !.bits = bits, !.count = @ + 1,
                             !.free = IF @ < 2 ^ maxbits THEN @ + 1 ELSE @]
            IN  IF blockMode /\ code = Lit /\ acc.count > 0
                THEN [Fresh EXCEPT !.groups = padded, !.count = acc.count + 1]
                ELSE IF acc.free <= acc.max THEN next
                ELSE [next EXCEPT !.groups = padded, !.bits = <<>>, !.n = acc.n + 1,
                          !.max = IF acc.n + 1 = maxbits THEN 2 ^ maxbits
                                                         ELSE 2 ^ (acc.n + 1) - 1]
        all == FoldLeft(Step, Fresh, codes)
    IN  all.groups \o Pad(all.bits, ByteBits)

\* The codes of a text, and their strings: each is that of the longest string in the table.
Encode(chars, maxbits, blockMode, clears) ==
    LET first == FirstFree([block |-> blockMode])
        CodeOf(dict, str) ==
            IF Len(str) = 1 THEN str[1]
            ELSE first - 1 + (CHOOSE k \in 1 .. Len(dict) : dict[k] = str)
        Step(acc, char) ==
            LET str  == Append(acc.str, char)
                code == CodeOf(acc.dict, acc.str)
                full == first + Len(acc.dict) >= 2 ^ maxbits
            IN  IF Len(str) = 1 \/ \E k \in 1 .. Len(acc.dict) : acc.dict[k] = str
                THEN [acc EXCEPT !.str = str]
                ELSE [str |-> <<char>>,
                      dict |-> IF ~full THEN Append(acc.dict, str)
                               ELSE IF clears THEN <<>> ELSE acc.dict,
                      codes |-> acc.codes \o
                                    IF full /\ clears THEN <<code, Lit>> ELSE <<code>>,
                      strings |-> acc.strings \o
                                    IF full /\ clears THEN <<acc.str, <<>> >> ELSE <<acc.str>>]
        all == FoldLeft(Step, [str |-> <<>>, dict |-> <<>>, codes |-> <<>>, strings |-> <<>>],
                        chars)
    IN  IF chars = <<>> THEN all
        ELSE [codes |-> Append(all.codes, CodeOf(all.dict, all.str)),
              strings |-> Append(all.strings, all.str)]

CompressedText(chars, maxbits, blockMode, clears) ==
    LET encoded == Encode(chars, maxbits, blockMode, clears) IN
    [maxbits |-> maxbits, block |-> blockMode, state |-> "whole",
     codes |-> encoded.codes, strings |-> encoded.strings,
     bits |-> Emit(encoded.codes, maxbits, blockMode)]
Cut(whole, bytes) ==
    [whole EXCEPT !.bits = SubSeq(@, 1, ByteBits * bytes), !.state = "cut"]
Damaged(codes, maxbits, blockMode) ==
    [maxbits |-> maxbits, block |-> blockMode, state |-> "damaged",
     codes |-> codes, strings |-> <<>>,
     bits |-> Emit(codes, maxbits, blockMode)]

Periodic(n, k) == [m \in 1 .. n |-> (m \div k) % 2]
LzwTexts == UNION {[1 .. n -> {0, 1}] : n \in 0 .. 6}
            \cup {Periodic(n, k) : n \in {14, 24}, k \in {1, 3, 30}}
Wholes == {CompressedText(t, mb, TRUE, clears) : t \in LzwTexts, mb \in 2 .. 4, clears \in BOOLEAN}
          \cup {CompressedText(t, mb, FALSE, FALSE) : t \in LzwTexts, mb \in 2 .. 4}
MCLzwFiles ==
    {w \in Wholes : LET length == Len(FlattenSeq(w.strings))
                    IN  length < 7 => length = 6 \/ w.maxbits = 3}
    \cup {Cut(CompressedText(Periodic(14, k), 4, b, FALSE), n) :
            n \in {2, 5, 8}, k \in {1, 3}, b \in BOOLEAN}
    \cup {Damaged(codes, mb, b) : codes \in UNION {[1 .. n -> 0 .. 6] : n \in 0 .. 3},
                                mb \in {3, 5}, b \in BOOLEAN}

-----------------------------------------------------------------------------
(* pack: headers that are right or wrong in every way, with literals that are *)
(* all different, and every short sequence of bytes for the codes.           *)

Sum(numbers) == FoldLeft(LAMBDA a, b : a + b, 0, numbers)
Tree(numbers) == numbers \o [k \in 1 .. Sum(numbers) + 1 |-> 10 + k]
MCPackFiles ==
    {<<len, Len(numbers)>> \o Tree(numbers) \o codes :
        len \in {0, 2, 3}, numbers \in UNION {[1 .. n -> 0 .. 2] : n \in 1 .. 3},
        codes \in UNION {[1 .. n -> 0 .. 3] : n \in {0, 2}}}
    \cup {<<2, 3>> \o Tree(<<0, 1, 2>>) \o codes : codes \in [1 .. 3 -> 0 .. 3]}
    \cup {<<>>, <<1>>, <<1, 0>>, <<1, 4, 0>>, <<1, 2, 1>>, <<1, 2, 0, 2>>, <<1, 2, 0, 2, 10, 11>>}

-----------------------------------------------------------------------------
(* lzh: codes that are complete or not, with codes longer than the index of   *)
(* their table, and with one symbol; and every sequence of bytes.            *)

Lens(s) == [lens |-> [sym \in 0 .. Len(s) - 1 |-> s[sym + 1]], only |-> 0]
Only(n, sym) == [lens |-> [s \in 0 .. n - 1 |-> 0], only |-> sym]
Block(size, c, p) == [size |-> size, c |-> c, p |-> p]
CCodes == {<<1, 2, 3, 4, 4, 0>>, <<4, 4, 3, 2, 1, 0>>, <<2, 2, 2, 3, 4, 4>>, <<3, 0, 3, 2, 2, 2>>,
           <<1, 1, 2, 2, 2, 2>>, <<1, 2, 3, 4, 0, 0>>, <<1, 1, 1, 0, 0, 0>>,
           <<1, 1, 1, 1, 0, 0>>}
PCodes == {<<1, 2, 2>>, <<2, 2, 1>>, <<0, 1, 1>>}
MCLzhFiles ==
    {[blocks |-> <<Block(4, Lens(c), Lens(p))>>, bytes |-> b] :
        c \in CCodes, p \in PCodes, b \in [1 .. 3 -> 0 .. 3]}
    \cup {[blocks |-> <<Block(1, Lens(<<1, 2, 3, 4, 4, 0>>), Lens(<<1, 2, 2>>)), Block(3, c, p)>>,
           bytes |-> b] :
            c \in {Only(6, 1), Only(6, 4), Only(6, 7), Lens(<<2, 2, 2, 3, 4, 4>>)},
            p \in {Only(3, 0), Only(3, 2), Only(3, 3)}, b \in [1 .. 3 -> 0 .. 3]}
=============================================================================
