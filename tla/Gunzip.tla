------------------------------- MODULE Gunzip --------------------------------
(***************************************************************************)
(* Decompression, from the descriptor of the input to that of the output:   *)
(* get_method, input_eof and the loops over members of treat_stdin and      *)
(* treat_file (gzip.c), fill_inbuf and write_buf (util.c), unzip (unzip.c)  *)
(* and inflate_file (inflate.c).  zlib's inflate is external.               *)
(*                                                                          *)
(* What comes from standard input is copied to "tempfd" while it is read,   *)
(* because unzip reads its input again from the beginning.  The other end   *)
(* of standard input is a Writen; a file is one that has been written.      *)
(***************************************************************************)
EXTENDS Writen, SequencesExt

CONSTANTS
    InBuf,         \* INBUFSIZ, in units
    Buf,           \* BUFFER_SIZE_INFLATE, in units
    Grow,          \* a unit of compressed data becomes so many
    Calls          \* the inputs, see Call

(***************************************************************************)
(* stdin: treat_stdin or treat_file; force: with --force and --stdout; stream: *)
(* the kinds of the units that are sent; old: those of a "tempfd" that an    *)
(* earlier run has left.                                                    *)
(***************************************************************************)
Call == [stdin : BOOLEAN, force : BOOLEAN, stream : Seq(Kinds), old : Seq(Kinds)]

ASSUME GunzipAssumption ==
    /\ InBuf \in Nat /\ InBuf >= 2
    /\ Buf \in Nat \ {0}
    /\ Grow \in Nat \ {0}
    /\ Calls \subseteq Call

VARIABLES
    call,
    first,         \* part_nb: it looks at the first member
    pc,            \* the place in the program
    back,          \* where fill_inbuf returns to
    pos,           \* units read from the input descriptor
    temp,          \* the file "tempfd"
    tpos,          \* the offset of temp_fd
    inbuf, inptr,  \* the input buffer inbuf[0 .. insize-1]
    work,          \* unzip, unpack, unlzw or copy
    lastMember,    \* last_member
    zlib,          \* strm: what zlib expects, and what it has yet to put out
    in,            \* strm.next_in and avail_in
    chunk,         \* out, or window: decompressed and not written
    out,           \* the output file: positions of the data units
    lost           \* history: a short write() was not repeated
pipeVars == <<writenVars, call>>
fileVars == <<pos, temp, tpos>>
bufVars == <<inbuf, inptr>>
formatVars == <<first, work, lastMember>>
zlibVars == <<zlib, in>>
outVars == <<chunk, out, lost>>
gunzipVars == <<call, pc, back, fileVars, bufVars, formatVars, zlibVars, outVars>>
vars == <<writenVars, gunzipVars>>

insize == Len(inbuf)
Least(a, b) == IF a < b THEN a ELSE b
FreshStream == [mode |-> "head", id |-> 0, rest |-> 0]
Gzip == {"h", "H"}
Magic == Gzip \cup {"p", "z", "k"}
Works == {"none", "unzip", "unpack", "unlzw", "copy"}
Places == {"magic", "name", "fill", "spool", "method", "rewind", "read", "inflate", "write",
           "unpack", "flush", "next", "end", "done", "failed"}
Backs == {"magic", "name", "spool loop", "spool eof", "input_eof", "unpack", "next", "failed"}

\* write() to a descriptor that can be read again: it replaces what is there.
Overwrite(file, offset, units) ==
    [i \in 1 .. (IF Len(file) > offset + Len(units) THEN Len(file)
                                                    ELSE offset + Len(units)) |->
        IF i \in offset + 1 .. offset + Len(units) THEN units[i - offset] ELSE file[i]]

\* A file has all its units before it is opened; "tempfd" is opened without O_TRUNC.
Init ==
    /\ call \in Calls
    /\ IF call.stdin
       THEN WritenInit(call.stream)
       ELSE /\ source = call.stream
            /\ buffer = Len(call.stream) + 1 /\ next = Len(call.stream) + 1
            /\ left = 0 /\ failures = 0
            /\ sent = [i \in 1 .. Len(call.stream) |-> Unit(call.stream[i], i)]
    /\ first = TRUE
    /\ pc = "magic" /\ back = "magic"
    /\ pos = 0
    /\ temp = [i \in 1 .. Len(call.old) |-> Unit(call.old[i], -i)]
    /\ tpos = 0
    /\ inbuf = <<>> /\ inptr = 0
    /\ work = "none" /\ lastMember = FALSE
    /\ zlib = FreshStream
    /\ in = <<>> /\ chunk = <<>> /\ out = <<>>
    /\ lost = FALSE

-----------------------------------------------------------------------------
(* fill_inbuf.  back is the place that gets its result.                      *)

FillInbuf(place) ==
    /\ pc' = "fill"
    /\ back' = place
    /\ inbuf' = <<>>

\* unlzw and copy call read_buffer themselves, once, without copying to temp_fd.
ReadsItself == work \in {"unlzw", "copy"}
FillOver ==
    \/ insize = InBuf
    \/ Closed /\ pos = Len(sent)
    \/ ReadsItself /\ inbuf # <<>>

\* One read(), and one write() of the same to temp_fd, whose count is only
\* compared with 0.
FillPiece ==
    /\ pc = "fill"
    /\ ~FillOver
    /\ \E n \in 1 .. Least(Len(sent) - pos, InBuf - insize) :
        LET piece == SubSeq(sent, pos + 1, pos + n) IN
        /\ inbuf' = inbuf \o piece
        /\ pos' = pos + n
        /\ \/ /\ call.stdin /\ ~ReadsItself
              /\ \E k \in 1 .. n :
                    /\ temp' = Overwrite(temp, tpos, SubSeq(piece, 1, k))
                    /\ tpos' = tpos + k
                    /\ lost' = (lost \/ k < n)
           \/ /\ ~call.stdin \/ ReadsItself
              /\ UNCHANGED <<temp, tpos, lost>>
    /\ UNCHANGED <<pipeVars, formatVars, zlibVars, pc, back, inptr, chunk, out>>

\* read() fails, or write() to temp_fd, or the lseek() of unzip: read_error, exit,
\* or the assertion of inflate_file.
InputFails ==
    /\ pc \in {"fill", "rewind", "read"}
    /\ pc' = "failed"
    /\ UNCHANGED <<pipeVars, fileVars, bufVars, formatVars, zlibVars, outVars,
                   back>>

StartWork == IF work = "unzip" THEN "rewind" ELSE "unpack"

\* It returns a unit.  The caller takes it, but for input_eof, which puts it
\* back: the loop of treat_stdin then fills the buffer again.
FillReturns ==
    /\ pc = "fill" /\ FillOver /\ inbuf # <<>>
    /\ \/ /\ back = "spool loop"
          /\ pc' = "spool" /\ inptr' = 1
          /\ UNCHANGED <<back, inbuf>>
       \/ /\ back = "spool eof"
          /\ FillInbuf("spool loop")
          /\ UNCHANGED inptr
       \/ /\ back = "input_eof"
          /\ pc' = "magic" /\ inptr' = 0
          /\ UNCHANGED <<back, inbuf>>
       \/ /\ back \in {"magic", "name", "unpack"}
          /\ pc' = back /\ inptr' = 0
          /\ UNCHANGED <<back, inbuf>>
    /\ UNCHANGED <<pipeVars, fileVars, formatVars, zlibVars, outVars>>

\* It returns EOF, or, for get_byte, flushes the window and calls read_error.
FillAtEnd ==
    /\ pc = "fill" /\ FillOver /\ inbuf = <<>>
    /\ \/ /\ back = "spool loop"
          /\ pc' = "spool" /\ inptr' = 0
          /\ UNCHANGED back
       \/ /\ back = "unpack"
          /\ pc' = "flush" /\ back' = IF ReadsItself THEN "next" ELSE "failed"
          /\ UNCHANGED inptr
       \/ /\ back \in {"spool eof", "input_eof", "magic", "name"}
          /\ pc' = CASE back = "spool eof"            -> StartWork
                     [] back = "input_eof"            -> "end"
                     [] back = "magic" /\ call.force  -> "end"
                     [] OTHER                         -> "failed"
          /\ UNCHANGED <<back, inptr>>
    /\ UNCHANGED <<pipeVars, fileVars, formatVars, zlibVars, outVars, inbuf>>

-----------------------------------------------------------------------------
(* treat_stdin and treat_file.                                               *)

\* get_method: which of the formats it is.  That of zip counts at the beginning of
\* inbuf, stays there, and is an error from standard input, with --force too.  So is
\* a header of gzip or zip that says what gzip does not do, also after a member;
\* but with -ff some of these are reported and go to unzip all the same (-f and -ff,
\* and what is wrong with the header, are not told apart).  Anything else
\* is copied with --force, or is an error, or is trailing garbage after the first
\* member.
GetMethod ==
    /\ pc = "magic"
    /\ \/ /\ inptr >= insize
          /\ FillInbuf("magic")
          /\ UNCHANGED <<inptr, work, lastMember>>
       \/ /\ inptr < insize
          /\ LET kind  == inbuf[inptr + 1].kind
                 zip   == kind = "k" /\ inptr = 0
                 bad   == kind = "r"
                 known == kind \in Magic \ {"k"} \/ (zip /\ ~call.stdin)
             IN
             \/ /\ known
                /\ work' = CASE kind \in Gzip \cup {"k"} -> "unzip"
                             [] kind = "p"               -> "unpack"
                             [] kind = "z"               -> "unlzw"
                /\ lastMember' = (kind \in {"z", "k"})
                /\ inptr' = IF kind = "k" THEN inptr ELSE inptr + 1
                /\ pc' = IF kind = "H" THEN "name" ELSE "method"
             \/ /\ ~known /\ ~zip /\ ~bad /\ call.force
                /\ work' = "copy" /\ lastMember' = TRUE
                /\ pc' = "method"
                /\ UNCHANGED inptr
             \/ /\ ~known /\ (zip \/ bad \/ ~call.force)
                /\ pc' = IF first \/ bad THEN "failed" ELSE "done"
                /\ inptr' = inptr + 1
                /\ UNCHANGED <<work, lastMember>>
             \/ /\ bad /\ call.force
                /\ work' = "unzip" /\ lastMember' = FALSE
                /\ inptr' = inptr + 1
                /\ pc' = "method"
          /\ UNCHANGED <<back, inbuf>>
    /\ UNCHANGED <<pipeVars, fileVars, zlibVars, outVars, first>>

\* get_method, discard_input_bytes: the name in the header, up to its NUL.
SkipName ==
    /\ pc = "name"
    /\ \/ /\ inptr >= insize
          /\ FillInbuf("name")
          /\ UNCHANGED inptr
       \/ /\ inptr < insize
          /\ inptr' = inptr + 1
          /\ pc' = IF inbuf[inptr + 1].kind = "0" THEN "method" ELSE "name"
          /\ UNCHANGED <<back, inbuf>>
    /\ UNCHANGED <<pipeVars, fileVars, formatVars, zlibVars, outVars>>

\* get_method has returned: to the spooling of treat_stdin, or to the loop.
MethodKnown ==
    /\ pc = "method"
    /\ first' = FALSE
    /\ pc' = IF call.stdin /\ first THEN "spool" ELSE StartWork
    /\ UNCHANGED <<pipeVars, fileVars, bufVars, zlibVars, outVars, back, work,
                   lastMember>>

\* Mutant: the rest of a full buffer is not read.
SpoolOneBuffer ==
    /\ pc = "spool"
    /\ \/ /\ lastMember \/ inptr = insize
          /\ pc' = StartWork
          /\ UNCHANGED <<back, inbuf>>
       \/ /\ ~lastMember /\ inptr # insize
          /\ FillInbuf("spool loop")
    /\ UNCHANGED <<pipeVars, fileVars, formatVars, zlibVars, outVars, inptr>>

\* The loop of treat_stdin before the work, with input_eof: it reads all of
\* standard input, for what fill_inbuf does to "tempfd" on the way.
Spool ==
    /\ pc = "spool"
    /\ \/ /\ lastMember \/ (inptr = insize /\ insize # InBuf)
          /\ pc' = StartWork
          /\ UNCHANGED <<back, inbuf>>
       \/ /\ ~lastMember /\ inptr # insize
          /\ FillInbuf("spool loop")
       \/ /\ ~lastMember /\ inptr = insize /\ insize = InBuf
          /\ FillInbuf("spool eof")
    /\ UNCHANGED <<pipeVars, fileVars, formatVars, zlibVars, outVars, inptr>>

\* After a member: input_eof, and get_method again.
NextMember ==
    /\ pc = "next"
    /\ \/ /\ lastMember \/ (inptr = insize /\ insize # InBuf)
          /\ pc' = "end"
          /\ UNCHANGED <<back, inbuf>>
       \/ /\ ~lastMember /\ inptr # insize
          /\ pc' = "magic"
          /\ UNCHANGED <<back, inbuf>>
       \/ /\ ~lastMember /\ inptr = insize /\ insize = InBuf
          /\ FillInbuf("input_eof")
    /\ UNCHANGED <<pipeVars, fileVars, formatVars, zlibVars, outVars, inptr>>

\* treat_stdin removes "tempfd".
Finish ==
    /\ pc = "end"
    /\ pc' = "done"
    /\ temp' = IF call.stdin THEN <<>> ELSE temp
    /\ UNCHANGED <<pipeVars, bufVars, formatVars, zlibVars, outVars, back, pos,
                   tpos>>

-----------------------------------------------------------------------------
(* unzip and inflate_file.                                                   *)

Rewind ==
    /\ pc = "rewind"
    /\ IF call.stdin THEN tpos' = 0 /\ UNCHANGED pos
                     ELSE pos' = 0 /\ UNCHANGED tpos
    /\ zlib' = FreshStream
    /\ pc' = "read"
    /\ UNCHANGED <<pipeVars, bufVars, formatVars, outVars, back, temp, in>>

\* read() of a regular file.  At its end unzip forgets what is in inbuf.
InflateRead ==
    /\ pc = "read"
    /\ LET file == IF call.stdin THEN temp ELSE sent
           at   == IF call.stdin THEN tpos ELSE pos
           n    == Least(Buf, Len(file) - at)
       IN  /\ in' = SubSeq(file, at + 1, at + n)
           /\ IF call.stdin THEN tpos' = tpos + n /\ UNCHANGED pos
                            ELSE pos' = pos + n /\ UNCHANGED tpos
           /\ pc' = IF n = 0 THEN "next" ELSE "inflate"
           /\ inptr' = IF n = 0 THEN insize ELSE inptr
    /\ UNCHANGED <<pipeVars, formatVars, outVars, back, temp, inbuf, zlib>>

\* inflate(), external: it takes a unit of input, or puts out one of output.
ZlibTakes ==
    /\ pc = "inflate"
    /\ zlib.mode \in {"head", "name", "body"} /\ zlib.rest = 0 /\ in # <<>>
    /\ LET kind == Head(in).kind IN
       zlib' = CASE \/ zlib.mode = "head" /\ kind = "h"
                    \/ zlib.mode = "name" /\ kind = "0" -> [zlib EXCEPT !.mode = "body"]
                 [] \/ zlib.mode = "head" /\ kind = "H"
                    \/ zlib.mode = "name" /\ kind # "0" -> [zlib EXCEPT !.mode = "name"]
                 [] zlib.mode = "body" /\ kind = "d" ->
                        [zlib EXCEPT !.id = Head(in).id, !.rest = Grow]
                 [] zlib.mode = "body" /\ kind = "e" -> [zlib EXCEPT !.mode = "end"]
                 [] OTHER                            -> [zlib EXCEPT !.mode = "bad"]
    /\ in' = Tail(in)
    /\ UNCHANGED <<pipeVars, fileVars, bufVars, formatVars, outVars, pc, back>>

ZlibPuts ==
    /\ pc = "inflate"
    /\ zlib.rest > 0 /\ Len(chunk) < Buf
    /\ chunk' = Append(chunk, zlib.id)
    /\ zlib' = [zlib EXCEPT !.rest = zlib.rest - 1]
    /\ UNCHANGED <<pipeVars, fileVars, bufVars, formatVars, pc, back, in, out,
                   lost>>

ZlibReturns ==
    /\ pc = "inflate"
    /\ \/ zlib.mode \in {"end", "bad"}
       \/ zlib.rest = 0 /\ in = <<>>
       \/ zlib.rest > 0 /\ Len(chunk) = Buf
    /\ pc' = "write"
    /\ UNCHANGED <<pipeVars, fileVars, bufVars, formatVars, zlibVars, outVars,
                   back>>

\* Mutant: no pretending that the output is full: what is left of the
\* input is dropped.
InflateWriteDropsRest ==
    /\ pc = "write"
    /\ \E k \in 0 .. Len(chunk) :
        /\ k = 0 => chunk = <<>>
        /\ out' = out \o SubSeq(chunk, 1, k)
        /\ lost' = (lost \/ k < Len(chunk))
    /\ LET again == zlib.mode = "end" /\ in # <<>> IN
       /\ zlib' = IF again THEN FreshStream ELSE zlib
       /\ pc' = IF Len(chunk) = Buf THEN "inflate" ELSE "read"
    /\ chunk' = <<>>
    /\ UNCHANGED <<pipeVars, fileVars, bufVars, formatVars, back, in>>

\* Mutant: the stream that has ended is used again.
InflateWriteSameStream ==
    /\ pc = "write"
    /\ \E k \in 0 .. Len(chunk) :
        /\ k = 0 => chunk = <<>>
        /\ out' = out \o SubSeq(chunk, 1, k)
        /\ lost' = (lost \/ k < Len(chunk))
    /\ LET again == zlib.mode = "end" /\ in # <<>> IN
       /\ zlib' = zlib
       /\ pc' = IF again \/ Len(chunk) = Buf THEN "inflate" ELSE "read"
    /\ chunk' = <<>>
    /\ UNCHANGED <<pipeVars, fileVars, bufVars, formatVars, back, in>>

\* One write(), whose count is only compared with -1.  Then a new stream, if
\* this one has ended before the input; the same again, if the output was full.
InflateWrite ==
    /\ pc = "write"
    /\ \E k \in 0 .. Len(chunk) :
        /\ k = 0 => chunk = <<>>
        /\ out' = out \o SubSeq(chunk, 1, k)
        /\ lost' = (lost \/ k < Len(chunk))
    /\ LET again == zlib.mode = "end" /\ in # <<>> IN
       /\ zlib' = IF again THEN FreshStream ELSE zlib
       /\ pc' = IF again \/ Len(chunk) = Buf THEN "inflate" ELSE "read"
    /\ chunk' = <<>>
    /\ UNCHANGED <<pipeVars, fileVars, bufVars, formatVars, back, in>>

-----------------------------------------------------------------------------
(* unpack, unlzw and copy, and the window that they put their output in.           *)

Flush(place) ==
    /\ pc' = "flush"
    /\ back' = place

\* get_byte, and what becomes of the byte.
Unpack ==
    /\ pc = "unpack"
    /\ \/ /\ inptr >= insize
          /\ FillInbuf("unpack")
          /\ UNCHANGED <<inptr, chunk>>
       \/ /\ inptr < insize /\ Len(chunk) = Buf
          /\ Flush("unpack")
          /\ UNCHANGED <<bufVars, chunk>>
       \/ /\ inptr < insize /\ Len(chunk) < Buf
          /\ inptr' = inptr + 1
          /\ LET unit == inbuf[inptr + 1] IN
             \/ /\ unit.kind = "d" \/ work = "copy"
                /\ chunk' = Append(chunk, unit.id)
                /\ UNCHANGED <<pc, back>>
             \/ /\ unit.kind # "d" /\ work # "copy"
                /\ Flush(IF unit.kind = "e" /\ work = "unpack" THEN "next" ELSE "failed")
                /\ UNCHANGED chunk
          /\ UNCHANGED inbuf
    /\ UNCHANGED <<pipeVars, fileVars, formatVars, zlibVars, out, lost>>

\* flush_window with write_buf, which writes again what was not written.
FlushWindow ==
    /\ pc = "flush"
    /\ \/ /\ chunk = <<>>
          /\ pc' = back
          /\ UNCHANGED <<chunk, out>>
       \/ \E n \in 1 .. Len(chunk) :
            /\ out' = out \o SubSeq(chunk, 1, n)
            /\ chunk' = SubSeq(chunk, n + 1, Len(chunk))
            /\ UNCHANGED pc
    /\ UNCHANGED <<pipeVars, fileVars, bufVars, formatVars, zlibVars, back, lost>>

\* write() returns -1: write_error, or the assertion of inflate_file.
OutputFails ==
    /\ pc \in {"write", "flush"} /\ chunk # <<>>
    /\ pc' = "failed"
    /\ UNCHANGED <<pipeVars, fileVars, bufVars, formatVars, zlibVars, outVars,
                   back>>

-----------------------------------------------------------------------------
Sender == WritenNext /\ UNCHANGED gunzipVars

Receiver ==
    \/ FillPiece \/ InputFails \/ FillReturns \/ FillAtEnd
    \/ GetMethod \/ SkipName \/ MethodKnown \/ Spool \/ NextMember \/ Finish
    \/ Rewind \/ InflateRead \/ ZlibTakes \/ ZlibPuts \/ ZlibReturns \/ InflateWrite
    \/ Unpack \/ FlushWindow \/ OutputFails

\* The program has ended; whoever writes to the pipe goes on or gets a signal.
Ended == pc \in {"done", "failed"} /\ UNCHANGED vars

Next == Sender \/ Receiver \/ Ended

Spec == Init /\ [][Next]_vars /\ WF_vars(Sender) /\ WF_vars(Receiver)

-----------------------------------------------------------------------------
(* What the input contains: members of one format, one behind the other.  The *)
(* definition is the format's, not the program's.                            *)

\* Where a reader of the format is behind a unit of this kind.  Behind a member of
\* pack comes one of pack or compress; one of gzip is not found there, because unzip
\* goes back to the beginning of the file (unzip.c:118).
Behind(mode, kind, force) ==
    CASE mode \in {"start", "end"} /\ kind = "H"        -> "name"
      [] mode = "name" /\ kind # "0"                    -> "name"
      [] mode \in {"start", "end"} /\ kind = "h"        -> "data"
      [] mode = "name" /\ kind = "0"                    -> "data"
      [] mode = "data" /\ kind = "d"                    -> "data"
      [] mode = "data" /\ kind = "e"                    -> "end"
      [] mode \in {"start", "packed end"} /\ kind = "p" -> "packed"
      [] mode = "packed" /\ kind = "d"                  -> "packed"
      [] mode = "packed" /\ kind = "e"                  -> "packed end"
      [] mode \in {"start", "packed end"} /\ kind = "z" -> "lzw"
      [] mode = "lzw" /\ kind = "d"                     -> "lzw"
      [] mode = "copied"                                -> "copied"
      [] /\ mode \in {"start", "packed end"} /\ force
         /\ kind \notin Gzip \cup {"p", "z", "r"}        -> "copied"
      [] OTHER                                          -> "garbage"

\* The same with what has come out so far: the positions of the data, each as often
\* as it is put out.
Beyond(before, unit, times, force) ==
    LET mode == Behind(before.mode, unit.kind, force)
        data == mode = "copied" \/ (unit.kind = "d" /\ mode \in {"data", "packed", "lzw"})
    IN  [mode    |-> mode,
         content |-> IF data THEN before.content \o [k \in 1 .. times |-> unit.id]
                             ELSE before.content]

Times(units) == IF units # <<>> /\ units[1].kind \in Gzip THEN Grow ELSE 1

\* Where the reader is behind each of the units.
Reading(units, force) ==
    LET reading[i \in 0 .. Len(units)] ==
            IF i = 0 THEN [mode |-> "start", content |-> <<>>]
                     ELSE Beyond(reading[i - 1], units[i], Times(units), force)
    IN  reading

Content(units) == Reading(units, call.force)[Len(units)].content

\* A file is whole, perhaps with something behind it.
Whole(units) == \E i \in 1 .. Len(units) : Reading(units, call.force)[i].mode \in {"end", "packed end"}

ZlibStates == [mode : {"head", "name", "body", "end", "bad"}, id : Int, rest : 0 .. Grow]
ZlibOK ==
    /\ zlib \in ZlibStates
    /\ in \in Seq(Units) /\ Len(in) <= Buf
    /\ chunk \in Seq(Int) /\ Len(chunk) <= Buf

\* What the variables hold; the buffers of the decoder are never over-full.
TypeOK ==
    /\ source = call.stream /\ first \in BOOLEAN
    /\ pc \in Places /\ back \in Backs
    /\ pos \in 0 .. Len(sent) /\ tpos \in Nat
    /\ temp \in Seq(Units)
    /\ inbuf \in Seq(Units) /\ insize <= InBuf /\ inptr \in 0 .. InBuf
    /\ work \in Works /\ lastMember \in BOOLEAN
    /\ lost \in BOOLEAN
    /\ ZlibOK

\* "tempfd" had more in it than this run writes to it.
Leftover == call.stdin /\ Len(call.old) > Len(call.stream)

\* When unzip goes back to the beginning of "tempfd", all of standard input
\* has been read and is there, however it came, for every length against that
\* of inbuf (gzip.c:812, util.c:175): only what an earlier run has left in a longer
\* file follows.
SpoolIsInput ==
    pc = "rewind" /\ call.stdin /\ ~lastMember /\ ~lost =>
        /\ Closed /\ pos = Len(sent)
        /\ IsPrefix(sent, temp)
        /\ \A i \in Len(sent) + 1 .. Len(temp) : temp[i].id = -i

\* The output is what the members contain, one behind the other, nothing twice
\* and nothing left out, wherever buffers and members end; and all of it when
\* the program ends without an error and the input is whole (inflate.c:79, unzip.c:112).
\* Excepted are: a short write that is not repeated, bytes left in "tempfd", and
\* zip files, of which nothing comes out.
OutputIsContent ==
    ~lost /\ ~Leftover /\ (\A i \in 1 .. Len(sent) : sent[i].kind # "k") =>
        /\ IsPrefix(out, Content(sent))
        /\ pc = "done" => out = Content(sent)

\* Neither a reader nor a writer goes round for ever (inflate.c:80, gzip.c:812).
EveryRunEnds == <>(pc \in {"done", "failed"})

\* When the exit status is 0, there was a member of a gzip file to its end, with its
\* check value (gzip.1:105, gzip.1:420).  Not so: nothing looks at what inflate
\* returns but for the end of a stream.  (With -ff a defect that get_method has
\* reported is in the exit status, which is not followed here.)
DamageIsReported == pc = "done" /\ work = "unzip" /\ ~call.force => Whole(sent)
=============================================================================
