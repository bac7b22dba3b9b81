------------------------------ MODULE Decoders -------------------------------
(***************************************************************************)
(* The decoders of the formats before gzip.  get_method (gzip.c) finds one   *)
(* of them by its magic number, and treat_stdin or treat_file calls it once. *)
(* They share the input and output buffers, and nothing else; the others     *)
(* stay as they are.                                                        *)
(***************************************************************************)
EXTENDS Unlzw, Unpack

CONSTANTS
    Width, CBits, PBits, NC, NP, Threshold, Window,     \* of unlzh
    LzhFiles                                            \* its inputs

VARIABLES
    format,
    input, place, lzhPos, lzhBits, output                   \* of unlzh
VARIABLES
    subbitbuf, bitcount, block, blocksize, cells, making, ch, start, avail,
    window, r, i, j, text

lzhVars == <<input, place, lzhPos, lzhBits, output, subbitbuf, bitcount, block, blocksize,
             cells, making, ch, start, avail, window, r, i, j, text>>
decoderVars == <<format, vars, packVars, lzhVars>>

Lzh == INSTANCE Unlzh WITH
    Inputs <- LzhFiles, file <- input, pc <- place, pos <- lzhPos, bitbuf <- lzhBits,
    out <- output

ASSUME DecodersAssumption == Parameters /\ PackParameters /\ Lzh!Parameters

\* Variables of the decoders that are not called.
NoLzw == file = (CHOOSE f \in Files : TRUE) /\ fpos = 0 /\ Init
NoPack ==
    /\ packed = <<>> /\ stage = "unused" /\ pos = 0
    /\ origLen = 0 /\ maxLen = 0 /\ leaves = <<>> /\ maxLeaves = 0
    /\ literal = <<>> /\ litBase = <<>> /\ parents = <<>> /\ prefixLen = <<>>
    /\ bitbuf = <<>> /\ unpacked = <<>>
NoLzh ==
    /\ input = <<>> /\ place = "unused" /\ lzhPos = 0 /\ lzhBits = <<>> /\ output = <<>>
    /\ subbitbuf = 0 /\ bitcount = 0 /\ block = 0 /\ blocksize = 0
    /\ cells = <<>> /\ making = "p" /\ ch = 0 /\ start = <<>> /\ avail = 0
    /\ window = <<>> /\ r = 0 /\ i = 0 /\ j = 0 /\ text = <<>>

\* get_method: the file says what it is.
DecodersInit ==
    \/ format = "lzw" /\ Init /\ NoPack /\ NoLzh
    \/ format = "pack" /\ NoLzw /\ PackInit /\ NoLzh
    \/ format = "lzh" /\ NoLzw /\ NoPack /\ Lzh!Init

unlzw == format = "lzw" /\ Next /\ UNCHANGED <<format, packVars, lzhVars>>
unpack == format = "pack" /\ PackNext /\ UNCHANGED <<format, vars, lzhVars>>
unlzh == format = "lzh" /\ Lzh!Next /\ UNCHANGED <<format, vars, packVars>>

Ended ==
    /\ format = "lzw" => Final
    /\ format = "pack" => PackFinal
    /\ format = "lzh" => Lzh!Final
    /\ UNCHANGED decoderVars

DecodersNext == unlzw \/ unpack \/ unlzh \/ Ended

DecodersSpec == DecodersInit /\ [][DecodersNext]_decoderVars

-----------------------------------------------------------------------------
\* lzh: the tables say what the codes are, see Unlzh.
TablesDecode == format = "lzh" => Lzh!TablesDecode

\* lzh: the window and what is put out, see Unlzh.
WindowIsText == format = "lzh" => Lzh!WindowIsText
=============================================================================
