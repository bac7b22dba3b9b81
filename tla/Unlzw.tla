-------------------------------- MODULE Unlzw --------------------------------
(***************************************************************************)
(* unlzw of unlzw.c: the format of compress.  Codes grow by a bit when the  *)
(* table has grown so far; codes of one width come in groups that fill their *)
(* bytes, and a change of the width skips what is left of a group.  The      *)
(* buffer is shifted and filled between groups, by reads that may be short. *)
(*                                                                          *)
(* Bytes, characters, codes and buffers are smaller here.                   *)
(***************************************************************************)
EXTENDS OldFormats, Integers, SequencesExt

CONSTANTS
    Lit,           \* 256: the characters are 0 .. Lit-1
    InitBits,      \* INIT_BITS
    Bits,          \* BITS: the widest code
    InBuf,         \* INBUFSIZ, in bytes
    Extra,         \* INBUF_EXTRA, in bytes
    OutBuf,        \* OUTBUFSIZ
    Files          \* the inputs, see File

(***************************************************************************)
(* maxbits and block: the third byte of the header; bits: what follows it.   *)
(* Of a file that is not damaged, codes are those that compress(1) has put   *)
(* out, strings what each of them stands for; state says whether all is there. *)
(***************************************************************************)
File == [maxbits : Nat, block : BOOLEAN, bits : Seq({0, 1}), codes : Seq(Nat),
         strings : Seq(Seq(0 .. Lit - 1)), state : {"whole", "cut", "damaged"}]

CLEAR == Lit
FIRST == CLEAR + 1
MAXCODE(n) == 2 ^ n
FirstFree(f) == IF f.block THEN FIRST ELSE Lit

\* The next multiple of n groups of ByteBits bits.
Aligned(bit, n) == ((bit + ByteBits * n - 1) \div (ByteBits * n)) * (ByteBits * n)

Value(bits) ==
    LET value[i \in 0 .. Len(bits)] ==
            IF i = 0 THEN 0 ELSE value[i - 1] + bits[i] * 2 ^ (i - 1)
    IN  value[Len(bits)]

-----------------------------------------------------------------------------
(* The format.                                                               *)

\* The next entry when the k-th code is read, from being the first for this table.
NextEntry(f, from, k) == Least(FirstFree(f) + k - 1 - from, MAXCODE(f.maxbits))

\* The last entry for which there are codes of a width.
LastEntry(f, width) ==
    IF width > InitBits /\ width = f.maxbits THEN MAXCODE(width) ELSE MAXCODE(width) - 1

IsClear(f, k) == k > 1 /\ f.block /\ f.codes[k] = CLEAR

\* Where each code is: its first bit, its width, where the groups of this width
\* begin, and the first code for the same table.  A group is filled up when the
\* width changes or the table is cleared.
Places(f) ==
    LET place[k \in 1 .. Len(f.codes) + 1] ==
            IF k = 1 THEN [bit |-> 0, width |-> InitBits, base |-> 0, from |-> 1]
            ELSE LET p     == place[k - 1]
                     clear == IsClear(f, k - 1)
                     wider == ~clear /\ NextEntry(f, p.from, k) > LastEntry(f, p.width)
                     end   == p.bit + p.width
                     next  == IF clear \/ wider THEN p.base + Aligned(end - p.base, p.width)
                                                ELSE end
                 IN  [bit   |-> next,
                      width |-> IF clear THEN InitBits
                                ELSE IF wider THEN p.width + 1 ELSE p.width,
                      base  |-> IF clear \/ wider THEN next ELSE p.base,
                      from  |-> IF clear THEN k ELSE p.from]
    IN  place

\* The string of the k-th code: a character, or a string before it with the first character of
\* the one that followed, which may be the k-th itself.
StringIsRight(f, from, k) ==
    LET code == f.codes[k]
        j    == from + code - FirstFree(f)
    IN  \/ IsClear(f, k) /\ f.strings[k] = <<>>
        \/ code < Lit /\ f.strings[k] = <<code>>
        \/ /\ code \in FirstFree(f) .. MAXCODE(f.maxbits) - 1
           /\ j < k
           /\ f.strings[k] = Append(f.strings[j], f.strings[j + 1][1])

\* What compress(1) makes, or a piece from its beginning.
Compressed(f) ==
    LET places == Places(f)
        codes  == 1 .. Len(f.codes)
        end    == places[Len(f.codes) + 1].bit
    IN  /\ f.maxbits \in InitBits .. Bits
        /\ DOMAIN f.strings = codes
        /\ \A k \in codes :
             LET bit == places[k].bit
                 to  == bit + places[k].width
             IN  /\ StringIsRight(f, places[k].from, k)
                 /\ to <= Len(f.bits) => Value(SubSeq(f.bits, bit + 1, to)) = f.codes[k]
        /\ Len(f.bits) % ByteBits = 0 /\ Len(f.bits) < end + ByteBits
        /\ f.state = "whole" => end <= Len(f.bits)

\* The strings one behind the other, up to the k-th.
Joined(strings) ==
    LET joined[k \in 0 .. Len(strings)] ==
            IF k = 0 THEN <<>> ELSE joined[k - 1] \o strings[k]
    IN  joined

Parameters ==
    /\ {ByteBits, Lit, InitBits, Bits, InBuf, Extra, OutBuf} \subseteq Nat \ {0}
    /\ Lit = 2 ^ (InitBits - 1) /\ 1 < InitBits /\ InitBits < Bits
    /\ ByteBits <= InitBits      \* what fills the last byte is no code
    /\ Bits + 1 <= Extra         \* a group fits what inbuf has besides INBUFSIZ
    /\ Files \subseteq File
    /\ \A f \in Files : f.state # "damaged" => Compressed(f)

VARIABLES
    file,
    pc,
    fpos,                     \* bytes read
    inbuf, posbits, inbits,   \* the buffer as bits; the next bit; the last
    more,                     \* rsize # 0
    nbits, maxcode, freeEnt,  \* n_bits, maxcode, free_ent
    table,                    \* tab_prefix and tab_suffix, from Lit
    oldcode, finchar,
    outbuf, out
inVars == <<fpos, inbuf, posbits, inbits, more>>
widthVars == <<nbits, maxcode>>
tableVars == <<freeEnt, table, oldcode, finchar>>
vars == <<file, pc, inVars, widthVars, tableVars, outbuf, out>>

First == FirstFree(file)
Bytes == Len(file.bits) \div ByteBits

-----------------------------------------------------------------------------
\* get_method has read the header, here one byte, and perhaps more.
Init ==
    /\ file \in Files
    /\ pc = "start"
    /\ \E n \in 0 .. Least(InBuf - 1, Bytes) :
        /\ fpos = n
        /\ inbuf = [i \in 1 .. ByteBits |-> 1] \o SubSeq(file.bits, 1, ByteBits * n)
    /\ posbits = ByteBits
    /\ inbits = 0 /\ more = TRUE
    /\ nbits = InitBits /\ maxcode = MAXCODE(InitBits) - 1
    /\ freeEnt = First
    /\ table = [e \in Lit .. MAXCODE(Bits) - 1 |-> [prefix |-> 0, suffix |-> 0]]
    /\ oldcode = -1 /\ finchar = 0
    /\ outbuf = <<>> /\ out = <<>>

Start ==
    /\ pc = "start"
    /\ pc' = IF file.maxbits > Bits THEN "error" ELSE "reset"
    /\ UNCHANGED <<file, inVars, widthVars, tableVars, outbuf, out>>

\* resetbuf: what is left goes to the beginning of inbuf, and more is read.
ResetBuf ==
    /\ pc = "reset"
    /\ LET rest == SubSeq(inbuf, ByteBits * (posbits \div ByteBits) + 1, Len(inbuf)) IN
       \/ /\ Len(rest) >= ByteBits * Extra
          /\ inbuf' = rest
          /\ UNCHANGED <<fpos, more>>
       \/ /\ Len(rest) < ByteBits * Extra
          /\ \E n \in 0 .. Least(InBuf, Bytes - fpos) :
                /\ n = 0 <=> fpos = Bytes
                /\ inbuf' = rest \o SubSeq(file.bits, ByteBits * fpos + 1, ByteBits * (fpos + n))
                /\ fpos' = fpos + n
                /\ more' = (n > 0)
    /\ posbits' = 0
    /\ inbits' = IF more' THEN Len(inbuf') - (Len(inbuf') % (ByteBits * nbits))
                          ELSE Len(inbuf') - (nbits - 1)
    /\ pc' = "code"
    /\ UNCHANGED <<file, widthVars, tableVars, outbuf, out>>

Exhausted ==
    /\ pc = "code"
    /\ inbits <= posbits
    /\ IF more THEN pc' = "reset" /\ UNCHANGED <<outbuf, out>>
               ELSE pc' = "done" /\ out' = out \o outbuf /\ outbuf' = <<>>
    /\ UNCHANGED <<file, inVars, widthVars, tableVars>>

\* Mutant: what is left of a group is not skipped.
WidenUnaligned ==
    /\ pc = "code"
    /\ inbits > posbits
    /\ freeEnt > maxcode
    /\ posbits' = posbits
    /\ nbits' = nbits + 1
    /\ maxcode' = IF nbits' = file.maxbits THEN MAXCODE(file.maxbits)
                                           ELSE MAXCODE(nbits') - 1
    /\ pc' = "reset"
    /\ UNCHANGED <<file, fpos, inbuf, inbits, more, tableVars, outbuf, out>>

Widen ==
    /\ pc = "code"
    /\ inbits > posbits
    /\ freeEnt > maxcode
    /\ posbits' = Aligned(posbits, nbits)
    /\ nbits' = nbits + 1
    /\ maxcode' = IF nbits' = file.maxbits THEN MAXCODE(file.maxbits)
                                           ELSE MAXCODE(nbits') - 1
    /\ pc' = "reset"
    /\ UNCHANGED <<file, fpos, inbuf, inbits, more, tableVars, outbuf, out>>

\* input: there is a code, and which one.
Ready == pc = "code" /\ inbits > posbits /\ freeEnt <= maxcode
Code == Value(SubSeq(inbuf, posbits + 1, posbits + nbits))

FirstCode ==
    /\ Ready /\ oldcode = -1
    /\ posbits' = posbits + nbits
    /\ IF Code >= Lit
       THEN pc' = "corrupt" /\ UNCHANGED <<oldcode, finchar, outbuf>>
       ELSE oldcode' = Code /\ finchar' = Code /\ outbuf' = <<Code>> /\ UNCHANGED pc
    /\ UNCHANGED <<file, fpos, inbuf, inbits, more, widthVars, freeEnt, table, out>>

Clear ==
    /\ Ready /\ oldcode # -1
    /\ Code = CLEAR /\ file.block
    /\ freeEnt' = FIRST - 1
    /\ posbits' = Aligned(posbits + nbits, nbits)
    /\ nbits' = InitBits
    /\ maxcode' = MAXCODE(InitBits) - 1
    /\ pc' = "reset"
    /\ UNCHANGED <<file, fpos, inbuf, inbits, more, table, oldcode, finchar, outbuf, out>>

\* The codes of strings: all but CLEAR.
Strings == 0 .. Lit - 1 \cup First .. MAXCODE(Bits) - 1

\* The characters of a code, by its chain of prefixes.
String(code) ==
    LET string[e \in Strings] ==
            IF e < Lit THEN <<e>> ELSE Append(string[table[e].prefix], table[e].suffix)
    IN  string[code]

\* Mutant: oldcode is set before it is used for the entry.
EntryOfThisCode ==
    /\ Ready /\ oldcode # -1
    /\ Code # CLEAR \/ ~file.block
    /\ Code <= freeEnt
    /\ posbits' = posbits + nbits
    /\ LET string == IF Code = freeEnt THEN Append(String(oldcode), finchar)
                                       ELSE String(Code)
           all    == outbuf \o string
           full   == Len(all) - (Len(all) % OutBuf)
       IN  /\ finchar' = string[1]
           /\ out' = out \o SubSeq(all, 1, full)
           /\ outbuf' = SubSeq(all, full + 1, Len(all))
    /\ IF freeEnt < MAXCODE(file.maxbits)
       THEN /\ table' = [table EXCEPT ![freeEnt] = [prefix |-> Code, suffix |-> finchar']]
            /\ freeEnt' = freeEnt + 1
       ELSE UNCHANGED <<table, freeEnt>>
    /\ oldcode' = Code
    /\ UNCHANGED <<file, pc, fpos, inbuf, inbits, more, widthVars>>

\* All but Clear.  A code that is about to get its entry is the string before
\* with its first character again (KwKwK).
Entry ==
    /\ Ready /\ oldcode # -1
    /\ Code # CLEAR \/ ~file.block
    /\ Code <= freeEnt
    /\ posbits' = posbits + nbits
    /\ LET string == IF Code = freeEnt THEN Append(String(oldcode), finchar)
                                       ELSE String(Code)
           all    == outbuf \o string
           full   == Len(all) - (Len(all) % OutBuf)
       IN  /\ finchar' = string[1]
           /\ out' = out \o SubSeq(all, 1, full)
           /\ outbuf' = SubSeq(all, full + 1, Len(all))
    /\ IF freeEnt < MAXCODE(file.maxbits)
       THEN /\ table' = [table EXCEPT ![freeEnt] = [prefix |-> oldcode, suffix |-> finchar']]
            /\ freeEnt' = freeEnt + 1
       ELSE UNCHANGED <<table, freeEnt>>
    /\ oldcode' = Code
    /\ UNCHANGED <<file, pc, fpos, inbuf, inbits, more, widthVars>>

Corrupt ==
    /\ Ready /\ oldcode # -1
    /\ Code # CLEAR \/ ~file.block
    /\ Code > freeEnt
    /\ posbits' = posbits + nbits
    /\ out' = out \o outbuf
    /\ outbuf' = <<>>
    /\ pc' = "corrupt"
    /\ UNCHANGED <<file, fpos, inbuf, inbits, more, widthVars, tableVars>>

Next ==
    \/ Start \/ ResetBuf \/ Exhausted \/ Widen
    \/ FirstCode \/ Clear \/ Entry \/ Corrupt

Spec == Init /\ [][Next]_vars

Final == pc \in {"done", "corrupt", "error"}

-----------------------------------------------------------------------------
Text == Joined(file.strings)[Len(file.strings)]

\* What comes out is what was compressed, however it is read, for every change
\* of the width and every clearing of the table; all of it if nothing of
\* the input is missing, and nothing else if something is (unlzw.c:181).
OutputIsText ==
    /\ file.state # "damaged" => IsPrefix(out \o outbuf, Text) /\ pc # "corrupt"
    /\ file.state = "whole" /\ pc = "done" => out = Text

\* Whatever the codes are, the chain of each entry ends, and is never longer than
\* the stack it is put on, which has as many places as there are codes (unlzw.c:239).
ChainsEnd ==
    /\ freeEnt <= MAXCODE(Bits)
    /\ \A e \in First .. freeEnt - 1 : table[e].prefix < e
    /\ \A e \in First .. freeEnt - 1 : Len(String(e)) <= e - First + 2
=============================================================================
