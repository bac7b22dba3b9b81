-------------------------------- MODULE Unlzh --------------------------------
(***************************************************************************)
(* unlzh of unlzh.c: blocks of Huffman codes for characters, lengths and     *)
(* distances in a window that is put out when it is full.  The tables decode *)
(* as many bits as they have an index for; longer codes go on in a tree,     *)
(* in two arrays that both tables share.                                    *)
(*                                                                          *)
(* The header of a block, which has codes of its own, is abstracted to what  *)
(* it says: the number of codes and the lengths of each code.  Widths and     *)
(* alphabets are smaller here.                                              *)
(***************************************************************************)
EXTENDS Integers, SequencesExt, FiniteSets, Bitwise

CONSTANTS
    ByteBits,      \* CHAR_BIT
    Width,         \* BITBUFSIZ, 16: the bits of a ush and of the longest code
    CBits, PBits,  \* 12 and 8: index bits of c_table and pt_table
    Lit,           \* UCHAR_MAX + 1
    NC, NP,        \* sizes of the alphabets
    Threshold,     \* THRESHOLD
    Window,        \* DICSIZ
    Inputs         \* see Input

\* lens: c_len or pt_len; only: the one symbol of a code that has no bits, as the header
\* has it: any number of as many bits (CBIT, PBIT) as n takes.
HuffmanCode(n) ==
    [lens : [0 .. n - 1 -> 0 .. Width],
     only : {sym \in 0 .. 2 * n - 1 :
                \E bits \in 1 .. n : 2 ^ (bits - 1) <= n /\ sym < 2 ^ bits}]
Input == [blocks : Seq([size : Nat \ {0}, c : HuffmanCode(NC), p : HuffmanCode(NP)]),
          bytes : Seq(0 .. 2 ^ ByteBits - 1)]

Parameters ==
    /\ {ByteBits, Width, CBits, PBits, Lit, NC, NP, Threshold, Window} \subseteq Nat \ {0}
    /\ CBits < Width /\ PBits < Width
    /\ 2 * NP - 1 <= NC            \* the nodes of the trees are not the same
    /\ NC < 2 ^ (CBits + 1) /\ NP < 2 ^ (PBits + 1)
    /\ \E dicbit \in 0 .. NP : Window = 2 ^ dicbit /\ NP = dicbit + 1

VARIABLES
    file,
    pc,
    pos,                            \* bytes taken; those behind the end are 0
    bitbuf, subbitbuf, bitcount,
    block, blocksize,               \* blocks begun; codes left of this one
    cells,                          \* c_table, pt_table, left and right
    making, ch, start, avail,       \* make_table: of which code; its variables
    window, r, i, j,                \* buffer, r, i and j of decode
    out,
    text                            \* history: what the codes so far mean
bitVars == <<pos, bitbuf, subbitbuf, bitcount>>
blockVars == <<block, blocksize>>
tableVars == <<cells, making, ch, start, avail>>
windowVars == <<window, r, i, j>>
vars == <<file, pc, bitVars, blockVars, tableVars, windowVars, out, text>>

Byte(n) == IF n <= Len(file.bytes) THEN file.bytes[n] ELSE 0
Bit(number, k) == (number \div 2 ^ k) % 2

-----------------------------------------------------------------------------
\* The loop of fillbuf: n bits are still to be read.
Filling[bits \in Nat, sub \in Nat, at \in Nat, count \in Nat, n \in Nat] ==
    IF n > count
    THEN Filling[bits | ((sub * 2 ^ (n - count)) % 2 ^ Width), Byte(at + 1), at + 1,
                 ByteBits, n - count]
    ELSE [bits |-> bits | (sub \div 2 ^ (count - n)), sub |-> sub, pos |-> at,
          count |-> count - n]

\* fillbuf: shifts bitbuf by n bits, and reads n bits.
Fill(b, n) == Filling[(b.bits * 2 ^ n) % 2 ^ Width, b.sub, b.pos, b.count, n]

Buffer == [bits |-> bitbuf, sub |-> subbitbuf, pos |-> pos, count |-> bitcount]
SetBuffer(b) ==
    bitbuf' = b.bits /\ subbitbuf' = b.sub /\ pos' = b.pos /\ bitcount' = b.count

-----------------------------------------------------------------------------
\* make_table.  A cell is an entry of a table, or left or right of a node.
Cells ==
    ({"c"} \X (0 .. 2 ^ CBits - 1)) \cup ({"p"} \X (0 .. 2 ^ PBits - 1))
    \cup ({"left", "right"} \X (0 .. 2 * NC - 1))
Side(number, k) == IF Bit(number, k) = 1 THEN "right" ELSE "left"

\* Where the codes of each length start, as ush.
Starts(lens) ==
    LET Count(len) == Cardinality({sym \in DOMAIN lens : lens[sym] = len})
        More(starts, len) ==
            Append(starts, (starts[len] + Count(len) * 2 ^ (Width - len)) % 2 ^ Width)
    IN  FoldLeft(More, <<0>>, [len \in 1 .. Width |-> len])

\* Entries first .. last - 1 of a table become sym.
SetEntries(before, name, first, last, sym) ==
    FoldLeft(LAMBDA acc, k : [acc EXCEPT ![<<name, first + k - 1>>] = sym],
             before, [k \in 1 .. last - first |-> k])

\* A long code: its bits behind those of the index lead through the tree.
Plant(name, bits, len) ==
    LET Down(acc, k) ==
            LET new == acc.cells[acc.at] = 0
                to  == IF new THEN acc.avail ELSE acc.cells[acc.at]
            IN  [cells |-> IF new THEN [acc.cells EXCEPT ![<<"left", to>>] = 0,
                                             ![<<"right", to>>] = 0, ![acc.at] = to]
                                  ELSE acc.cells,
                 avail |-> IF new THEN to + 1 ELSE acc.avail,
                 at |-> <<Side(start[len], Width - bits - k), to>>]
    IN  FoldLeft(Down, [cells |-> cells, avail |-> avail,
                        at |-> <<name, start[len] \div 2 ^ (Width - bits)>>],
                 [k \in 1 .. len - bits |-> k])

NoBits(code) == \A sym \in DOMAIN code.lens : code.lens[sym] = 0

\* decode_c and decode_p: a symbol, from the bits in bitbuf.
Symbol(name, bits, nchar, buf) ==
    LET walk[depth \in bits .. Width] ==
            IF depth = bits THEN cells[<<name, buf \div 2 ^ (Width - bits)>>]
            ELSE IF walk[depth - 1] < nchar THEN walk[depth - 1]
            ELSE cells[<<Side(buf, Width - depth), walk[depth - 1]>>]
    IN  walk[Width]

\* What that can be.  A code's only symbol need not be in the alphabet: then it is taken
\* for a node of the tree, of which it is not known what earlier tables (or another
\* member's, in the same arrays) left there.  A walk that does not end takes no step.
Symbols(name, bits, code) ==
    IF NoBits(code) /\ code.only \notin DOMAIN code.lens THEN DOMAIN code.lens
    ELSE {Symbol(name, bits, Cardinality(DOMAIN code.lens), bitbuf)}

-----------------------------------------------------------------------------
Init ==
    /\ file \in Inputs
    /\ pc = "code"
    /\ LET b == Fill([bits |-> 0, sub |-> 0, pos |-> 0, count |-> 0], Width)
       IN  bitbuf = b.bits /\ subbitbuf = b.sub /\ pos = b.pos /\ bitcount = b.count
    /\ block = 0 /\ blocksize = 0
    /\ cells = [c \in Cells |-> 0]
    /\ making = "p" /\ ch = 0 /\ start = <<>> /\ avail = 0
    /\ window = [k \in 0 .. Window - 1 |-> -1]
    /\ r = 0 /\ i = 0 /\ j = 0
    /\ out = <<>>
    /\ text = <<>>

\* decode_c: the next block, for which the tables are made.
ReadBlock ==
    /\ pc = "code" /\ blocksize = 0
    /\ block < Len(file.blocks)
    /\ block' = block + 1
    /\ blocksize' = file.blocks[block + 1].size
    /\ making' = "c"
    /\ pc' = "lens"
    /\ UNCHANGED <<file, bitVars, cells, ch, start, avail, windowVars, out, text>>

IndexBits == IF making = "c" THEN CBits ELSE PBits
Code == IF making = "c" THEN file.blocks[block].c ELSE file.blocks[block].p

\* First the table of characters and lengths, then that of distances.
TableIsMade ==
    /\ making' = "p"
    /\ pc' = IF making = "c" THEN "lens" ELSE "code"

\* read_c_len, read_pt_len, and the beginning of make_table.  A code without bits fills
\* its table; the entries that long codes share are emptied.
ReadLens ==
    /\ pc = "lens"
    /\ \/ /\ NoBits(Code)
          /\ cells' = SetEntries(cells, making, 0, 2 ^ IndexBits, Code.only)
          /\ TableIsMade
          /\ UNCHANGED <<ch, start, avail>>
       \/ /\ ~NoBits(Code)
          /\ LET starts == Starts(Code.lens)
                 jut    == Width - IndexBits
                 used   == starts[IndexBits + 1] \div 2 ^ jut
             IN  /\ start' = [len \in 1 .. Width |->
                                 IF len <= IndexBits THEN starts[len] \div 2 ^ jut
                                                     ELSE starts[len]]
                 /\ cells' = IF used = 0 THEN cells
                             ELSE SetEntries(cells, making, used, 2 ^ IndexBits, 0)
                 /\ pc' = IF starts[Width + 1] = 0 THEN "table" ELSE "bad table"
          /\ ch' = 0
          /\ avail' = Cardinality(DOMAIN Code.lens)
          /\ UNCHANGED making
    /\ UNCHANGED <<file, bitVars, blockVars, windowVars, out, text>>

\* Mutant: all long codes of one length are put in the same place.
PutSymbolAgain ==
    /\ pc = "table"
    /\ ch \in DOMAIN Code.lens
    /\ ch' = ch + 1
    /\ LET len  == Code.lens[ch]
           next == start[len] + 2 ^ (IF len <= IndexBits THEN IndexBits - len ELSE Width - len)
       IN  \/ /\ len = 0
              /\ UNCHANGED <<pc, cells, start, avail>>
           \/ /\ len \in 1 .. IndexBits /\ next > 2 ^ IndexBits
              /\ pc' = "bad table"
              /\ UNCHANGED <<cells, start, avail>>
           \/ /\ len \in 1 .. IndexBits /\ next <= 2 ^ IndexBits
              /\ cells' = SetEntries(cells, making, start[len], next, ch)
              /\ start' = [start EXCEPT ![len] = next % 2 ^ Width]
              /\ UNCHANGED <<pc, avail>>
           \/ /\ len > IndexBits
              /\ \E leaf \in {Plant(making, IndexBits, len)} :
                    /\ cells' = [leaf.cells EXCEPT ![leaf.at] = ch]
                    /\ avail' = leaf.avail
              /\ UNCHANGED <<pc, start>>
    /\ UNCHANGED <<file, bitVars, blockVars, making, windowVars, out, text>>

\* make_table: a symbol, in the entries of its code or as a leaf of the tree.
PutSymbol ==
    /\ pc = "table"
    /\ ch \in DOMAIN Code.lens
    /\ ch' = ch + 1
    /\ LET len  == Code.lens[ch]
           next == start[len] + 2 ^ (IF len <= IndexBits THEN IndexBits - len ELSE Width - len)
       IN  \/ /\ len = 0
              /\ UNCHANGED <<pc, cells, start, avail>>
           \/ /\ len \in 1 .. IndexBits /\ next > 2 ^ IndexBits
              /\ pc' = "bad table"
              /\ UNCHANGED <<cells, start, avail>>
           \/ /\ len \in 1 .. IndexBits /\ next <= 2 ^ IndexBits
              /\ cells' = SetEntries(cells, making, start[len], next, ch)
              /\ start' = [start EXCEPT ![len] = next % 2 ^ Width]
              /\ UNCHANGED <<pc, avail>>
           \/ /\ len > IndexBits
              /\ \E leaf \in {Plant(making, IndexBits, len)} :
                    /\ cells' = [leaf.cells EXCEPT ![leaf.at] = ch]
                    /\ avail' = leaf.avail
              /\ start' = [start EXCEPT ![len] = next % 2 ^ Width]
              /\ UNCHANGED pc
    /\ UNCHANGED <<file, bitVars, blockVars, making, windowVars, out, text>>

MadeTable ==
    /\ pc = "table"
    /\ ch \notin DOMAIN Code.lens
    /\ TableIsMade
    /\ UNCHANGED <<file, bitVars, blockVars, cells, ch, start, avail, windowVars, out, text>>

Characters(n) == [k \in 1 .. n |-> window[k - 1]]

\* A block of no codes is the end: what is in the window is put out.
EndOfBlocks ==
    /\ pc = "code" /\ blocksize = 0
    /\ block = Len(file.blocks)
    /\ pc' = "done"
    /\ out' = out \o Characters(r)
    /\ r' = 0
    /\ UNCHANGED <<file, bitVars, blockVars, tableVars, window, i, j, text>>

\* A character goes to the window; when that is full, decode returns to unlzh.
Put(char) ==
    /\ window' = [window EXCEPT ![r] = char]
    /\ r' = (r + 1) % Window
    /\ out' = IF r' = 0 THEN out \o Append(Characters(r), char) ELSE out

\* decode_c: a character, or a length.
DecodeC ==
    /\ pc = "code" /\ blocksize > 0
    /\ blocksize' = blocksize - 1
    /\ \E c \in Symbols("c", CBits, file.blocks[block].c) :
       \E b \in {Fill(Buffer, file.blocks[block].c.lens[c])} :
        /\ SetBuffer(b)
        /\ \/ /\ c < Lit
              /\ Put(c)
              /\ text' = Append(text, c)
              /\ UNCHANGED <<pc, i, j>>
           \/ /\ c >= Lit
              /\ j' = c - (Lit - Threshold)
              /\ pc' = "distance"
              /\ UNCHANGED <<window, r, i, out, text>>
    /\ UNCHANGED <<file, block, tableVars>>

\* A text with so many characters more, each of which is that so far back.
Extended[chars \in Seq(Int), n \in Nat, back \in Nat] ==
    IF n = 0 THEN chars
    ELSE Extended[Append(chars, IF back > Len(chars) THEN -1 ELSE chars[Len(chars) + 1 - back]),
                  n - 1, back]

\* Mutant: distances begin with 0.
DecodePOneOff ==
    /\ pc = "distance"
    /\ \E p \in Symbols("p", PBits, file.blocks[block].p) :
       \E b \in {Fill(Buffer, file.blocks[block].p.lens[p])} :
       \E b1 \in {IF p = 0 THEN b ELSE Fill(b, p - 1)} :
        LET dist == IF p = 0 THEN 0 ELSE 2 ^ (p - 1) + (b.bits \div 2 ^ (Width - (p - 1)))
        IN  /\ SetBuffer(b1)
            /\ i' = (r - dist) % Window
            /\ text' = Extended[text, j, dist + 1]
    /\ pc' = "copy"
    /\ UNCHANGED <<file, blockVars, tableVars, window, r, j, out>>

\* decode_p: a distance, with the bits behind its symbol.
DecodeP ==
    /\ pc = "distance"
    /\ \E p \in Symbols("p", PBits, file.blocks[block].p) :
       \E b \in {Fill(Buffer, file.blocks[block].p.lens[p])} :
       \E b1 \in {IF p = 0 THEN b ELSE Fill(b, p - 1)} :
        LET dist == IF p = 0 THEN 0 ELSE 2 ^ (p - 1) + (b.bits \div 2 ^ (Width - (p - 1)))
        IN  /\ SetBuffer(b1)
            /\ i' = (r - dist - 1) % Window
            /\ text' = Extended[text, j, dist + 1]
    /\ pc' = "copy"
    /\ UNCHANGED <<file, blockVars, tableVars, window, r, j, out>>

\* One character of a match, perhaps after decode has returned and was called again.
Copy ==
    /\ pc = "copy"
    /\ \/ /\ j = 0
          /\ pc' = "code"
          /\ UNCHANGED <<windowVars, out>>
       \/ /\ j > 0
          /\ Put(window[i])
          /\ i' = (i + 1) % Window
          /\ j' = j - 1
          /\ UNCHANGED pc
    /\ UNCHANGED <<file, bitVars, blockVars, tableVars, text>>

Next ==
    \/ ReadBlock \/ ReadLens \/ PutSymbol \/ MadeTable
    \/ EndOfBlocks \/ DecodeC \/ DecodeP \/ Copy

Spec == Init /\ [][Next]_vars

Final == pc \in {"done", "bad table"}

-----------------------------------------------------------------------------
(* The format: canonical codes, and matches in the text so far.              *)

\* The bits of the file, with zeros behind.
BitAt(n) == Bit(Byte((n - 1) \div ByteBits + 1), ByteBits - 1 - ((n - 1) % ByteBits))
ValueAt(at, n) == FoldLeft(LAMBDA v, k : 2 * v + BitAt(at + k - 1), 0, [k \in 1 .. n |-> k])

\* How many numbers of Width bits begin with codes of these symbols, by Kraft's sum.
Kraft(lens, syms) ==
    Cardinality({n \in syms \X (1 .. 2 ^ Width) : n[2] <= 2 ^ (Width - lens[n[1]])})
Coded(lens) == {sym \in DOMAIN lens : lens[sym] > 0}
Complete(code) ==
    IF NoBits(code) THEN code.only \in DOMAIN code.lens
    ELSE Kraft(code.lens, Coded(code.lens)) = 2 ^ Width
Full(code) == NoBits(code) \/ Kraft(code.lens, Coded(code.lens)) % 2 ^ Width = 0

\* The symbol whose canonical code is in the bits from a place on.
SymbolAt(code, at) ==
    IF NoBits(code) THEN code.only
    ELSE CHOOSE sym \in Coded(code.lens) :
            ValueAt(at, code.lens[sym]) * 2 ^ (Width - code.lens[sym])
                = Kraft(code.lens, {c \in Coded(code.lens) :
                             \/ code.lens[c] < code.lens[sym]
                             \/ code.lens[c] = code.lens[sym] /\ c < sym})

\* What has been taken from bitbuf so far.
Taken == ByteBits * pos - bitcount - Width

\* The tables say what the canonical code says, for every code that is complete,
\* short or long, in the entries of the table or in the tree, with both trees in
\* the same arrays; no complete code is refused, and none is taken whose codes do
\* not fill the table a whole number of times (unlzh.c:149, 181).
\* bitbuf always holds the bits behind those that were taken, although
\* subbitbuf keeps old ones (unlzh.c:107).
TablesDecode ==
    /\ bitbuf = ValueAt(Taken + 1, Width)
    /\ pc = "bad table" => ~Complete(Code)
    /\ pc = "code" /\ blocksize > 0 =>
        LET c == file.blocks[block].c
            p == file.blocks[block].p
        IN  /\ Full(c) /\ Full(p)
            /\ Complete(c) => Symbol("c", CBits, NC, bitbuf) = SymbolAt(c, Taken + 1)
    /\ pc = "distance" /\ Complete(file.blocks[block].p) =>
        Symbol("p", PBits, NP, bitbuf) = SymbolAt(file.blocks[block].p, Taken + 1)

\* What comes out is what the codes mean: matches that overlap themselves, that reach over
\* the end of the window, or go on when it was put out and decode is called
\* again (unlzh.c:352, 369).
WindowIsText ==
    /\ IsPrefix(out \o Characters(r), text)
    /\ pc \in {"code", "done"} => out \o Characters(r) = text
=============================================================================
