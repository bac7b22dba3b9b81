---------------------------- MODULE GunzipProofs -----------------------------
(***************************************************************************)
(* Theorems about Gunzip, for any inputs, any sizes of the buffers and any   *)
(* number of errors: writen leaves nothing out, "tempfd" holds all of        *)
(* standard input when unzip begins to read it, and what gunzip puts out is  *)
(* what the input contains.                                                  *)
(***************************************************************************)
EXTENDS Gunzip, WellFoundedInduction, TLAPS

-----------------------------------------------------------------------------
(* writen.                                                                   *)

LastId == IF sent = <<>> THEN 0 ELSE sent[Len(sent)].id

\* Ids go up by at most one from each unit sent to the next.
Ascending ==
    \A i \in 1 .. Len(sent) : sent[i].id <= IF i = 1 THEN 1 ELSE sent[i - 1].id + 1

\* next is never more than one ahead of what was sent last, and exactly one
\* when a call of writen has returned.
WritenInv ==
    /\ source \in Seq(Kinds) /\ sent \in Seq(Units)
    /\ buffer \in Nat \ {0} /\ next \in Int /\ left \in Nat
    /\ failures \in Nat /\ LastId \in Int
    /\ next + left <= Len(source) + 1 /\ buffer <= next + left
    /\ next <= LastId + 1
    /\ left = 0 => next = LastId + 1
    /\ Ascending

\* What At finds among the units still to be sent is a unit with its own place as id.
LEMMA AtIsUnit ==
    ASSUME WritenInv, NEW i \in Int, i < next + left
    PROVE  At(i) \in Units /\ At(i).id = i
<1>1. IF i < buffer THEN TRUE ELSE source[i] \in Kinds
    BY DEF WritenInv
<1> QED BY <1>1 DEF At, Unit, Units, Kinds

\* Sending some units that follow each other, from next on.
LEMMA WriteSteps ==
    ASSUME WritenInv, Write
    PROVE  WritenInv'
<1>1. PICK n \in 1 .. left : /\ sent' = sent \o [i \in 1 .. n |-> At(next + i - 1)]
                            /\ next' = next + n /\ left' = left - n
    BY DEF Write
<1> DEFINE piece == [i \in 1 .. n |-> At(next + i - 1)]
<1>2. /\ n \in Nat /\ n >= 1 /\ n <= left
      /\ source' = source /\ buffer' = buffer /\ failures' = failures
    BY DEF Write, WritenInv
<1>3. piece \in Seq(Units) /\ Len(piece) = n
      /\ \A i \in 1 .. n : piece[i].id = next + i - 1
  <2>1. \A i \in 1 .. n : At(next + i - 1) \in Units /\ At(next + i - 1).id = next + i - 1
    <3> TAKE i \in 1 .. n
    <3>1. next + i - 1 \in Int /\ next + i - 1 < next + left  BY <1>2 DEF WritenInv
    <3> QED BY <3>1, AtIsUnit
  <2> QED BY <2>1, <1>2
<1> HIDE DEF piece
<1>4. /\ sent' = sent \o piece /\ sent' \in Seq(Units)
      /\ Len(sent') = Len(sent) + n
      /\ \A i \in 1 .. Len(sent) : sent'[i] = sent[i]
      /\ \A i \in Len(sent) + 1 .. Len(sent) + n : sent'[i] = piece[i - Len(sent)]
    BY <1>1, <1>2, <1>3 DEF WritenInv, piece
<1>5. LastId' = next + n - 1
    BY <1>2, <1>3, <1>4 DEF LastId, WritenInv
<1>6. Ascending'
  <2> SUFFICES ASSUME NEW i \in 1 .. Len(sent')
               PROVE  sent'[i].id <= IF i = 1 THEN 1 ELSE sent'[i - 1].id + 1
      BY DEF Ascending
  <2>1. CASE i <= Len(sent)
    <3>1. sent'[i] = sent[i] /\ (i # 1 => sent'[i - 1] = sent[i - 1])
        BY <2>1, <1>4 DEF WritenInv
    <3> QED BY <3>1, <2>1 DEF WritenInv, Ascending
  <2>2. CASE i = Len(sent) + 1
    <3>1. sent'[i].id = next  BY <2>2, <1>2, <1>3, <1>4 DEF WritenInv
    <3>2. i = 1 => LastId = 0  BY <2>2 DEF LastId, WritenInv
    <3>3. i # 1 => LastId = sent'[i - 1].id  BY <2>2, <1>4 DEF LastId, WritenInv
    <3> QED BY <3>1, <3>2, <3>3 DEF WritenInv
  <2>3. CASE i > Len(sent) + 1
    <3>1. sent'[i].id = next + (i - Len(sent)) - 1
          /\ sent'[i - 1].id = next + (i - 1 - Len(sent)) - 1
        BY <2>3, <1>2, <1>3, <1>4 DEF WritenInv
    <3> QED BY <3>1, <2>3 DEF WritenInv
  <2> QED BY <2>1, <2>2, <2>3, <1>4 DEF WritenInv
<1> QED BY <1>1, <1>2, <1>4, <1>5, <1>6 DEF WritenInv

\* No step of the sender breaks WritenInv.
LEMMA WritenKeeps == WritenInv /\ WritenNext => WritenInv'
<1> SUFFICES ASSUME WritenInv, WritenNext PROVE WritenInv'  OBVIOUS
<1>1. CASE Put
  <2>1. PICK last \in next .. Len(source) : left' = last - next + 1
      BY <1>1 DEF Put
  <2> QED BY <1>1, <2>1 DEF Put, WritenInv, LastId, Ascending
<1>2. CASE Write  BY <1>2, WriteSteps
<1>3. CASE WriteFails
  <2>1. /\ next' = next - 1 /\ left' = left + 1 /\ failures' = failures + 1
        /\ UNCHANGED <<source, buffer, sent>>
      BY <1>3 DEF WriteFails
  <2>2. LastId' = LastId
      BY <2>1 DEF LastId
  <2>3. Ascending'
      BY <2>1 DEF Ascending, WritenInv
  <2> QED BY <2>1, <2>2, <2>3 DEF WritenInv
<1> QED BY <1>1, <1>2, <1>3 DEF WritenNext

\* WritenInv holds when writen is first called.
LEMMA WritenStarts == Init => WritenInv
<1> SUFFICES ASSUME Init PROVE WritenInv  OBVIOUS
<1>1. call \in Call /\ call.stream \in Seq(Kinds)
    BY GunzipAssumption DEF Init, Call
<1>2. CASE call.stdin
    BY <1>1, <1>2 DEF Init, WritenInit, WritenInv, LastId, Ascending
<1>3. CASE ~call.stdin
  <2>1. /\ source = call.stream /\ buffer = Len(call.stream) + 1
        /\ next = Len(call.stream) + 1 /\ left = 0 /\ failures = 0
        /\ sent = [i \in 1 .. Len(call.stream) |-> Unit(call.stream[i], i)]
      BY <1>3 DEF Init
  <2>2. \A i \in 1 .. Len(call.stream) : Unit(call.stream[i], i) \in Units
      BY <1>1 DEF Unit, Units
  <2>3. sent \in Seq(Units) /\ Len(sent) = Len(call.stream)
      BY <1>1, <2>1, <2>2
  <2>4. \A i \in 1 .. Len(sent) : sent[i].id = i
      BY <2>1, <2>3 DEF Unit
  <2>5. LastId = Len(call.stream)
      BY <1>1, <2>3, <2>4 DEF LastId
  <2>6. Ascending
      BY <1>1, <2>3, <2>4 DEF Ascending
  <2> QED BY <1>1, <2>1, <2>3, <2>5, <2>6 DEF WritenInv
<1> QED BY <1>2, <1>3

\* WritenInv holds forever.
LEMMA WritenInvariant == Spec => []WritenInv
<1>1. WritenInv /\ [Next]_vars => WritenInv'
  <2> SUFFICES ASSUME WritenInv, [Next]_vars PROVE WritenInv'  OBVIOUS
  <2>1. CASE Sender  BY <2>1, WritenKeeps DEF Sender
  <2>2. CASE UNCHANGED writenVars
      BY <2>2 DEF writenVars, WritenInv, LastId, Ascending
  <2>3. Receiver => UNCHANGED writenVars
      BY DEF Receiver, FillPiece, InputFails, FillReturns, FillAtEnd, GetMethod, SkipName,
             MethodKnown, Spool, NextMember, Finish, Rewind, InflateRead, ZlibTakes,
             ZlibPuts, ZlibReturns, InflateWrite, Unpack, FlushWindow, OutputFails, pipeVars
  <2> QED BY <2>1, <2>2, <2>3 DEF Next, Ended, vars
<1> QED BY <1>1, WritenStarts, PTL DEF Spec

\* Whatever write() returns, nothing is left out of the stream (parallel.c:653).
THEOREM NothingIsSkipped == Spec => []NeverSkips
<1>1. WritenInv => NeverSkips
  <2> SUFFICES ASSUME WritenInv PROVE NeverSkips  OBVIOUS
  <2>1. left = 0 /\ next > 1 => sent # <<>> /\ sent[Len(sent)].id = next - 1
      BY DEF WritenInv, LastId
  <2>2. Closed => next = Len(source) + 1
      BY DEF WritenInv, Closed
  <2>3. Ascending  BY DEF WritenInv
  <2> QED BY <2>1, <2>2, <2>3 DEF NeverSkips, Ascending
<1> QED BY <1>1, WritenInvariant, PTL

-----------------------------------------------------------------------------
(* Types.                                                                    *)

\* What is assumed of the sizes of the buffers.
LEMMA Constants ==
    /\ InBuf \in Nat /\ InBuf >= 2 /\ Buf \in Nat \ {0} /\ Grow \in Nat \ {0}
    /\ MaxErrors \in Nat /\ Calls \subseteq Call
BY GunzipAssumption, WritenAssumption

\* What overwrites a file starts in it or at its end.
LEMMA OverwriteFile ==
    ASSUME NEW file \in Seq(Units), NEW units \in Seq(Units), NEW offset \in Nat,
           offset <= Len(file)
    PROVE  LET new == Overwrite(file, offset, units) IN
           /\ new \in Seq(Units)
           /\ Len(new) >= offset + Len(units) /\ Len(new) >= Len(file)
           /\ Len(new) = Len(file) \/ Len(new) = offset + Len(units)
           /\ \A i \in 1 .. Len(new) :
                 new[i] = IF i \in offset + 1 .. offset + Len(units)
                          THEN units[i - offset] ELSE file[i]
<1> DEFINE length == IF Len(file) > offset + Len(units) THEN Len(file)
                                                        ELSE offset + Len(units)
           new == Overwrite(file, offset, units)
<1>1. /\ length \in Nat /\ length >= offset + Len(units) /\ length >= Len(file)
      /\ length = Len(file) \/ length = offset + Len(units)
    OBVIOUS
<1> HIDE DEF length
<1>2. new = [i \in 1 .. length |->
                IF i \in offset + 1 .. offset + Len(units) THEN units[i - offset] ELSE file[i]]
    BY DEF Overwrite, length
<1>3. \A i \in 1 .. length : (IF i \in offset + 1 .. offset + Len(units)
                             THEN units[i - offset] ELSE file[i]) \in Units
    BY <1>1
<1>4. new \in Seq(Units) /\ Len(new) = length
    BY <1>1, <1>2, <1>3
<1> QED BY <1>1, <1>2, <1>4

\* What was sent stays, and nothing is sent after the end.
LEMMA SentGrows ==
    ASSUME WritenInv, WritenNext
    PROVE  /\ ~Closed
           /\ source' = source
           /\ Len(sent') \in Nat /\ Len(sent') >= Len(sent)
           /\ \A i \in 1 .. Len(sent) : sent'[i] = sent[i]
<1>1. CASE Put \/ WriteFails
    BY <1>1 DEF Put, WriteFails, Closed, WritenInv
<1>2. CASE Write
  <2>1. PICK n \in 1 .. left : sent' = sent \o [i \in 1 .. n |-> At(next + i - 1)]
      BY <1>2 DEF Write
  <2>2. \A i \in 1 .. n : At(next + i - 1) \in Units
      BY AtIsUnit DEF WritenInv
  <2>3. [i \in 1 .. n |-> At(next + i - 1)] \in Seq(Units)
      BY <2>2 DEF WritenInv
  <2> QED BY <1>2, <2>1, <2>3 DEF Write, Closed, WritenInv
<1> QED BY <1>1, <1>2 DEF WritenNext

AfterFlush == {"unpack", "next", "failed"}

TypeInv ==
    /\ TypeOK
    /\ call \in Call
    /\ pc # "done" => tpos <= Len(temp)
    /\ pc = "flush" => back \in AfterFlush

\* At the start every variable has its type.
LEMMA TypeStarts == Init => TypeInv
<1> SUFFICES ASSUME Init PROVE TypeInv  OBVIOUS
<1>1. call \in Call /\ call.stream \in Seq(Kinds) /\ call.old \in Seq(Kinds)
    BY Constants DEF Init, Call
<1>2. temp \in Seq(Units)
  <2>1. \A i \in 1 .. Len(call.old) : Unit(call.old[i], -i) \in Units
      BY <1>1 DEF Unit, Units
  <2> QED BY <1>1, <2>1 DEF Init
<1>3. source = call.stream
    BY DEF Init, WritenInit
<1>4. Len(sent) \in Nat
    BY WritenStarts DEF WritenInv
<1>5. ZlibOK
  <2>1. zlib \in ZlibStates
      BY Constants DEF Init, FreshStream, ZlibStates
  <2> QED BY <2>1, Constants DEF Init, ZlibOK
<1>6. inbuf \in Seq(Units) /\ insize <= InBuf /\ inptr \in 0 .. InBuf
    BY Constants DEF Init, insize
<1>7. /\ first \in BOOLEAN /\ pc \in Places /\ back \in Backs /\ work \in Works
      /\ lastMember \in BOOLEAN /\ lost \in BOOLEAN /\ pos = 0 /\ tpos = 0 /\ pc # "flush"
    BY DEF Init, Places, Backs, Works
<1> QED BY <1>1, <1>2, <1>3, <1>4, <1>5, <1>6, <1>7 DEF TypeInv, TypeOK

\* The sender keeps the types.
LEMMA SenderType == TypeInv /\ WritenInv /\ Sender => TypeInv'
<1> SUFFICES ASSUME TypeInv, WritenInv, Sender PROVE TypeInv'  OBVIOUS
<1>1. UNCHANGED <<call, pc, back, pos, temp, tpos, inbuf, inptr, first, work, lastMember,
                  zlib, in, chunk, out, lost>>
    BY DEF Sender, gunzipVars, fileVars, bufVars, formatVars, zlibVars, outVars
<1>2. source' = source /\ Len(sent') \in Nat /\ Len(sent') >= Len(sent)
    BY SentGrows DEF Sender
<1>3. ZlibOK' /\ (insize <= InBuf)'
    BY <1>1 DEF TypeInv, TypeOK, ZlibOK, insize
<1>4. pos' \in 0 .. Len(sent')
    BY <1>1, <1>2 DEF TypeInv, TypeOK, WritenInv
<1> QED BY <1>1, <1>2, <1>3, <1>4 DEF TypeInv, TypeOK

\* A piece that fill_inbuf reads leaves the types as they are.
LEMMA FillPieceType == TypeInv /\ WritenInv /\ FillPiece => TypeInv'
<1> SUFFICES ASSUME TypeInv, WritenInv, FillPiece PROVE TypeInv'  OBVIOUS
<1>1. PICK n \in 1 .. Least(Len(sent) - pos, InBuf - insize) :
        /\ inbuf' = inbuf \o SubSeq(sent, pos + 1, pos + n)
        /\ pos' = pos + n
        /\ \/ \E k \in 1 .. n :
                /\ temp' = Overwrite(temp, tpos, SubSeq(SubSeq(sent, pos + 1, pos + n), 1, k))
                /\ tpos' = tpos + k
                /\ lost' = (lost \/ k < n)
           \/ UNCHANGED <<temp, tpos, lost>>
    BY DEF FillPiece
<1>0. /\ pos \in Nat /\ Len(sent) \in Nat /\ sent \in Seq(Units)
      /\ inbuf \in Seq(Units) /\ insize \in Nat /\ insize = Len(inbuf)
    BY DEF TypeInv, TypeOK, insize, WritenInv
<1>2. n \in Nat /\ n <= Len(sent) - pos /\ n <= InBuf - insize
    BY <1>0, Constants DEF Least
<1> DEFINE piece == SubSeq(sent, pos + 1, pos + n)
<1>3. piece \in Seq(Units) /\ Len(piece) = n
    BY <1>0, <1>2
<1> HIDE DEF piece
<1>4. inbuf' \in Seq(Units) /\ (insize <= InBuf)'
  <2>1. inbuf' = inbuf \o piece  BY <1>1 DEF piece
  <2> QED BY <2>1, <1>0, <1>2, <1>3, Constants DEF insize
<1>5. temp' \in Seq(Units) /\ tpos' \in Nat /\ tpos' <= Len(temp') /\ lost' \in BOOLEAN
  <2>0. temp \in Seq(Units) /\ tpos \in Nat /\ tpos <= Len(temp) /\ lost \in BOOLEAN
      BY DEF TypeInv, TypeOK, insize, FillPiece
  <2>1. CASE UNCHANGED <<temp, tpos, lost>>
      BY <2>0, <2>1
  <2>2. ASSUME NEW k \in 1 .. n,
               temp' = Overwrite(temp, tpos, SubSeq(piece, 1, k)),
               tpos' = tpos + k, lost' = (lost \/ k < n)
        PROVE  temp' \in Seq(Units) /\ tpos' \in Nat /\ tpos' <= Len(temp') /\ lost' \in BOOLEAN
    <3>1. SubSeq(piece, 1, k) \in Seq(Units) /\ Len(SubSeq(piece, 1, k)) = k
        BY <1>2, <1>3
    <3>2. temp' \in Seq(Units) /\ Len(temp') >= tpos + k
        BY <2>0, <2>2, <3>1, OverwriteFile
    <3> QED BY <2>0, <2>2, <3>2, <1>2
  <2> QED BY <1>1, <2>1, <2>2 DEF piece
<1>6. UNCHANGED <<source, sent, call, first, work, lastMember, zlib, in, pc, back, inptr, chunk, out>>
    BY DEF FillPiece, pipeVars, writenVars, formatVars, zlibVars
<1>7. pos' \in 0 .. Len(sent)
    BY <1>0, <1>1, <1>2
<1>8. ZlibOK'
    BY <1>6 DEF TypeInv, TypeOK, ZlibOK
<1> QED BY <1>4, <1>5, <1>6, <1>7, <1>8 DEF TypeInv, TypeOK

\* The input buffer stays as it is or is emptied.
LEMMA BufferType ==
    ASSUME inbuf \in Seq(Units), insize <= InBuf, inbuf' = inbuf \/ inbuf' = <<>>
    PROVE  inbuf' \in Seq(Units) /\ insize' <= InBuf
<1>1. CASE inbuf' = inbuf  BY <1>1 DEF insize
<1>2. CASE inbuf' = <<>>
  <2>1. inbuf' \in Seq(Units) /\ Len(inbuf') = 0  BY <1>2
  <2> QED BY <2>1, Constants DEF insize
<1> QED BY <1>1, <1>2

\* So does what else fill_inbuf does.
LEMMA FillType ==
    TypeInv /\ (InputFails \/ FillReturns \/ FillAtEnd) => TypeInv'
<1> SUFFICES ASSUME TypeInv, InputFails \/ FillReturns \/ FillAtEnd PROVE TypeInv'
    OBVIOUS
<1>1. /\ UNCHANGED <<source, sent, call, first, work, lastMember, zlib, in, chunk, out, lost,
                     pos, temp, tpos>>
      /\ (FillReturns \/ FillAtEnd => pc = "fill") /\ pc # "done"
    BY DEF InputFails, FillReturns, FillAtEnd, pipeVars, writenVars, fileVars, formatVars,
           zlibVars, outVars
<1>2. pc' \in Places /\ back' \in Backs /\ inptr' \in 0 .. InBuf
      /\ (inbuf' = inbuf \/ inbuf' = <<>>)
  <2>0. back \in Backs /\ inptr \in 0 .. InBuf /\ InBuf >= 2 /\ InBuf \in Nat
      BY Constants DEF TypeInv, TypeOK
  <2>1. CASE InputFails
      BY <2>0, <2>1 DEF InputFails, Places, bufVars
  <2>2. CASE FillReturns
    <3>1. /\ pc' \in {"spool", "fill"} \/ (pc' = back /\ back \in {"magic", "name", "unpack"})
             \/ pc' = "magic"
          /\ back' = back \/ back' = "spool loop"
          /\ inbuf' = inbuf \/ inbuf' = <<>>
        BY <2>2 DEF FillReturns, FillInbuf
    <3>2. inptr' = inptr \/ inptr' = 0 \/ inptr' = 1
        BY <2>2 DEF FillReturns
    <3>4. inptr' \in 0 .. InBuf
        BY <2>0, <3>2
    <3>3. pc' \in Places /\ back' \in Backs
        BY <2>0, <3>1 DEF Places, Backs
    <3> QED BY <3>1, <3>3, <3>4
  <2>3. CASE FillAtEnd
    <3>1. /\ pc' \in {"spool", "flush", "rewind", "unpack", "end", "failed"}
          /\ back' = back \/ back' = "next" \/ back' = "failed"
          /\ inbuf' = inbuf
        BY <2>3 DEF FillAtEnd, StartWork
    <3>2. inptr' = inptr \/ inptr' = 0
        BY <2>3 DEF FillAtEnd
    <3>3. pc' \in Places /\ back' \in Backs
        BY <2>0, <3>1 DEF Places, Backs
    <3> QED BY <2>0, <3>1, <3>2, <3>3
  <2> QED BY <2>1, <2>2, <2>3
<1>3. inbuf' \in Seq(Units) /\ (insize <= InBuf)'
    BY <1>2, BufferType DEF TypeInv, TypeOK
<1>4. ZlibOK'
    BY <1>1 DEF TypeInv, TypeOK, ZlibOK
<1>5. pc' = "flush" => back' \in AfterFlush
  <2>1. FillReturns => pc' # "flush"
      BY DEF FillReturns, FillInbuf
  <2>2. FillAtEnd /\ pc' = "flush" => back' \in AfterFlush
      BY DEF FillAtEnd, StartWork, AfterFlush
  <2> QED BY <2>1, <2>2 DEF InputFails
<1> QED BY <1>1, <1>2, <1>3, <1>4, <1>5 DEF TypeInv, TypeOK

\* get_method, the skipping of a name and what follows keep the types.
LEMMA MethodType ==
    TypeInv /\ (GetMethod \/ SkipName \/ MethodKnown) => TypeInv'
<1> SUFFICES ASSUME TypeInv, GetMethod \/ SkipName \/ MethodKnown PROVE TypeInv'
    OBVIOUS
<1>1. /\ UNCHANGED <<source, sent, call, zlib, in, chunk, out, lost, pos, temp, tpos>>
      /\ pc # "done"
    BY DEF GetMethod, SkipName, MethodKnown, pipeVars, writenVars, fileVars,
           zlibVars, outVars
<1>5. pc' # "flush"
    BY DEF GetMethod, SkipName, MethodKnown, FillInbuf, StartWork
<1>2. /\ pc' \in Places /\ back' \in Backs /\ inptr' \in 0 .. InBuf
      /\ (inbuf' = inbuf \/ inbuf' = <<>>) /\ first' \in BOOLEAN
      /\ work' \in Works /\ lastMember' \in BOOLEAN
  <2>0. /\ back \in Backs /\ inptr \in 0 .. InBuf /\ InBuf >= 2 /\ InBuf \in Nat
        /\ insize \in Nat /\ insize <= InBuf
        /\ first \in BOOLEAN /\ work \in Works /\ lastMember \in BOOLEAN
      BY Constants DEF TypeInv, TypeOK, insize
  <2>1. CASE GetMethod /\ inptr >= insize
    <3>1. /\ pc' = "fill" /\ back' = "magic" /\ inbuf' = <<>>
          /\ inptr' = inptr /\ work' = work /\ lastMember' = lastMember /\ first' = first
        BY <2>0, <2>1 DEF GetMethod, FillInbuf
    <3> QED BY <2>0, <3>1 DEF Places, Backs
  <2>2. CASE GetMethod /\ inptr < insize
    <3>1. UNCHANGED <<first, back, inbuf>>
        BY <2>0, <2>2 DEF GetMethod
    <3>2. pc' \in Places /\ lastMember' \in BOOLEAN /\ inptr' \in {inptr, inptr + 1}
      <4>1. /\ pc' \in {"name", "method", "failed", "done"}
            /\ inptr' = inptr \/ inptr' = inptr + 1
          BY <2>0, <2>2 DEF GetMethod
      <4>2. lastMember' \in BOOLEAN
        <5>1. \/ lastMember' = (inbuf[inptr + 1].kind \in {"z", "k"})
              \/ lastMember' \in {TRUE, FALSE}
              \/ lastMember' = lastMember
            BY <2>0, <2>2 DEF GetMethod
        <5>2. (inbuf[inptr + 1].kind \in {"z", "k"}) \in BOOLEAN  OBVIOUS
        <5> QED BY <2>0, <5>1, <5>2
      <4> QED BY <2>0, <4>1, <4>2 DEF Places
    <3>3. work' \in Works
        BY <2>0, <2>2 DEF GetMethod, Works, Magic, Gzip
    <3> QED BY <2>0, <2>2, <3>1, <3>2, <3>3
  <2>3. CASE SkipName
    <3>1. /\ pc' \in {"fill", "method", "name"}
          /\ back' = back \/ back' = "name"
          /\ inbuf' = inbuf \/ inbuf' = <<>>
          /\ UNCHANGED <<first, work, lastMember>>
        BY <2>3 DEF SkipName, FillInbuf, formatVars
    <3>2. inptr' = inptr \/ (inptr < insize /\ inptr' = inptr + 1)
        BY <2>3 DEF SkipName
    <3>3. pc' \in Places /\ back' \in Backs
        BY <2>0, <3>1 DEF Places, Backs
    <3> QED BY <2>0, <3>1, <3>2, <3>3
  <2>4. CASE MethodKnown
      BY <2>0, <2>4 DEF MethodKnown, StartWork, Places, bufVars
  <2> QED BY <2>0, <2>1, <2>2, <2>3, <2>4
<1>3. inbuf' \in Seq(Units) /\ (insize <= InBuf)'
    BY <1>2, BufferType DEF TypeInv, TypeOK
<1>4. ZlibOK'
    BY <1>1 DEF TypeInv, TypeOK, ZlibOK
<1> QED BY <1>1, <1>2, <1>3, <1>4, <1>5 DEF TypeInv, TypeOK

\* treat_stdin's loop and the temporary file keep the types.
LEMMA LoopType ==
    TypeInv /\ WritenInv /\ (Spool \/ NextMember \/ Finish \/ Rewind) => TypeInv'
<1> SUFFICES ASSUME TypeInv, WritenInv, Spool \/ NextMember \/ Finish \/ Rewind PROVE TypeInv'
    OBVIOUS
<1>1. UNCHANGED <<source, sent, call, first, work, lastMember, in, chunk, out, lost, inptr>>
    BY DEF Spool, NextMember, Finish, Rewind, pipeVars, writenVars, formatVars, zlibVars,
           outVars, bufVars
<1>2. pc' \in Places /\ back' \in Backs /\ (inbuf' = inbuf \/ inbuf' = <<>>)
      /\ zlib' \in {zlib, FreshStream}
  <2>0. back \in Backs  BY DEF TypeInv, TypeOK
  <2> QED BY <2>0 DEF Spool, NextMember, Finish, Rewind, FillInbuf, StartWork, Places, Backs,
                      zlibVars, bufVars
<1>3. inbuf' \in Seq(Units) /\ (insize <= InBuf)'
    BY <1>2, BufferType DEF TypeInv, TypeOK
<1>4. ZlibOK'
  <2>1. FreshStream \in ZlibStates
      BY Constants DEF FreshStream, ZlibStates
  <2> QED BY <1>1, <1>2, <2>1 DEF TypeInv, TypeOK, ZlibOK
<1>5. /\ pos' \in 0 .. Len(sent) /\ tpos' \in Nat /\ temp' \in Seq(Units)
      /\ pc' # "done" => tpos' <= Len(temp')
  <2>0. /\ pos \in 0 .. Len(sent) /\ tpos \in Nat /\ temp \in Seq(Units)
        /\ pc # "done" => tpos <= Len(temp)
      BY DEF TypeInv, TypeOK
  <2>1. CASE Spool \/ NextMember
      BY <2>0, <2>1 DEF Spool, NextMember, fileVars
  <2>2. CASE Finish
    <3>1. /\ pc' = "done" /\ pos' = pos /\ tpos' = tpos
          /\ temp' = temp \/ temp' = <<>>
        BY <2>2 DEF Finish
    <3>2. <<>> \in Seq(Units)  OBVIOUS
    <3>3. temp' \in Seq(Units)  BY <2>0, <3>1, <3>2
    <3> QED BY <2>0, <3>1, <3>3
  <2>3. CASE Rewind
    <3>1. pc # "done" /\ temp' = temp /\ pos' \in {0, pos} /\ tpos' \in {0, tpos}
        BY <2>3 DEF Rewind
    <3>2. Len(sent) \in Nat /\ Len(temp) \in Nat
        BY <2>0 DEF WritenInv
    <3> QED BY <2>0, <3>1, <3>2
  <2> QED BY <2>1, <2>2, <2>3
<1>6. pc' # "flush"
    BY DEF Spool, NextMember, Finish, Rewind, FillInbuf, StartWork
<1> QED BY <1>1, <1>2, <1>3, <1>4, <1>5, <1>6 DEF TypeInv, TypeOK

\* What zlib's state can become.
LEMMA ZlibUpdates ==
    ASSUME NEW z \in ZlibStates
    PROVE  /\ z.id \in Int /\ z.rest \in 0 .. Grow
           /\ \A m \in {"head", "name", "body", "end", "bad"} : [z EXCEPT !.mode = m] \in ZlibStates
           /\ \A i \in Int : [z EXCEPT !.id = i, !.rest = Grow] \in ZlibStates
           /\ \A r \in 0 .. Grow : [z EXCEPT !.rest = r] \in ZlibStates
<1>1. Grow \in 0 .. Grow  BY Constants
<1> QED BY <1>1 DEF ZlibStates

\* inflateGZIP keeps the types.
LEMMA InflateType ==
    TypeInv /\ WritenInv
        /\ (InflateRead \/ ZlibTakes \/ ZlibPuts \/ ZlibReturns \/ InflateWrite) => TypeInv'
<1> SUFFICES ASSUME TypeInv, WritenInv,
                    InflateRead \/ ZlibTakes \/ ZlibPuts \/ ZlibReturns \/ InflateWrite
             PROVE  TypeInv'
    OBVIOUS
<1>1. UNCHANGED <<source, sent, call, first, work, lastMember, back, temp, inbuf>>
    BY DEF InflateRead, ZlibTakes, ZlibPuts, ZlibReturns, InflateWrite, pipeVars, writenVars,
           formatVars, fileVars, bufVars
<1>0. /\ pos \in Nat /\ pos <= Len(sent) /\ Len(sent) \in Nat /\ sent \in Seq(Units)
      /\ tpos \in Nat /\ temp \in Seq(Units) /\ (pc # "done" => tpos <= Len(temp))
      /\ inbuf \in Seq(Units) /\ insize <= InBuf /\ inptr \in 0 .. InBuf
      /\ zlib \in ZlibStates
      /\ in \in Seq(Units) /\ Len(in) <= Buf /\ chunk \in Seq(Int) /\ Len(chunk) <= Buf
      /\ lost \in BOOLEAN /\ Buf \in Nat /\ Grow \in Nat
    BY Constants DEF TypeInv, TypeOK, ZlibOK, WritenInv
<1>2. CASE InflateRead
  <2> DEFINE file == IF call.stdin THEN temp ELSE sent
             at   == IF call.stdin THEN tpos ELSE pos
             n    == Least(Buf, Len(file) - at)
  <2>1. file \in Seq(Units) /\ at \in Nat /\ at <= Len(file)
      BY <1>0, <1>2 DEF InflateRead
  <2>2. /\ in' = SubSeq(file, at + 1, at + n)
        /\ IF call.stdin THEN tpos' = tpos + n /\ UNCHANGED pos
                         ELSE pos' = pos + n /\ UNCHANGED tpos
        /\ pc' \in {"next", "inflate"}
        /\ inptr' \in {insize, inptr}
        /\ UNCHANGED <<zlib, chunk, lost>>
      BY <1>2 DEF InflateRead, outVars
  <2>3. n \in Nat /\ n <= Buf /\ at + n <= Len(file)
    <3> HIDE DEF file, at
    <3> QED BY <2>1, <1>0 DEF Least
  <2>4. in' \in Seq(Units) /\ Len(in') = n
    <3> HIDE DEF file, at, n
    <3> QED BY <2>1, <2>2, <2>3
  <2>5. ZlibOK'
    <3> HIDE DEF n
    <3> QED BY <1>0, <2>2, <2>3, <2>4 DEF ZlibOK
  <2>6. pos' \in 0 .. Len(sent) /\ tpos' \in Nat /\ tpos' <= Len(temp)
    <3>1. CASE call.stdin
      <4>1. at = tpos /\ file = temp  BY <3>1
      <4> HIDE DEF n, file, at
      <4> QED BY <3>1, <4>1, <1>0, <2>2, <2>3
    <3>2. CASE ~call.stdin
      <4>1. at = pos /\ file = sent /\ tpos <= Len(temp)  BY <3>2, <1>0, <1>2 DEF InflateRead
      <4> HIDE DEF n, file, at
      <4> QED BY <3>2, <4>1, <1>0, <2>2, <2>3
    <3> QED BY <3>1, <3>2
  <2>7. inptr' \in 0 .. InBuf /\ (insize <= InBuf)' /\ insize' = insize
      BY <1>0, <1>1, <2>2, Constants DEF insize
  <2>8. pc' \in Places /\ pc' # "flush"  BY <2>2 DEF Places
  <2> HIDE DEF n, file, at
  <2> QED BY <1>1, <2>2, <2>5, <2>6, <2>7, <2>8 DEF TypeInv, TypeOK
<1>3. CASE ZlibTakes \/ ZlibPuts \/ ZlibReturns \/ InflateWrite
  <2>1. /\ UNCHANGED <<pos, tpos, inptr>> /\ pc # "done"
        /\ pc' \in {pc, "write", "inflate", "read"}
      BY <1>3 DEF ZlibTakes, ZlibPuts, ZlibReturns, InflateWrite, fileVars, bufVars
  <2>0. pc' # "flush"
      BY <1>3 DEF ZlibTakes, ZlibPuts, ZlibReturns, InflateWrite
  <2>2. ZlibOK' /\ lost' \in BOOLEAN
    <3>1. CASE ZlibTakes
      <4>1. in # <<>> /\ in' = Tail(in) /\ UNCHANGED <<chunk, lost>>
          BY <3>1 DEF ZlibTakes, outVars
      <4>2. Head(in).id \in Int /\ in' \in Seq(Units) /\ Len(in') <= Buf
        <5>1. Head(in) \in Units  BY <1>0, <4>1
        <5>2. in' \in Seq(Units) /\ Len(in') = Len(in) - 1  BY <1>0, <4>1
        <5> QED BY <1>0, <5>1, <5>2 DEF Units
      <4>3. zlib' \in ZlibStates
        <5>1. \/ \E mode \in {"head", "name", "body", "end", "bad"} : zlib' = [zlib EXCEPT !.mode = mode]
              \/ zlib' = [zlib EXCEPT !.id = Head(in).id, !.rest = Grow]
            BY <3>1 DEF ZlibTakes
        <5> QED BY <1>0, <4>2, <5>1, ZlibUpdates
      <4> QED BY <1>0, <4>1, <4>2, <4>3 DEF ZlibOK
    <3>2. CASE ZlibPuts
      <4>1. /\ zlib.rest > 0 /\ Len(chunk) < Buf /\ chunk' = Append(chunk, zlib.id)
            /\ zlib' = [zlib EXCEPT !.rest = zlib.rest - 1] /\ UNCHANGED <<in, lost>>
          BY <3>2 DEF ZlibPuts
      <4>2. chunk' \in Seq(Int) /\ Len(chunk') <= Buf
        <5>1. zlib.id \in Int  BY <1>0, ZlibUpdates
        <5> QED BY <1>0, <4>1, <5>1
      <4>3. zlib' \in ZlibStates
        <5>1. zlib.rest \in 0 .. Grow  BY <1>0, ZlibUpdates
        <5>2. zlib.rest - 1 \in 0 .. Grow  BY <4>1, <5>1, Constants
        <5> QED BY <1>0, <4>1, <5>2, ZlibUpdates
      <4> QED BY <1>0, <4>1, <4>2, <4>3 DEF ZlibOK
    <3>3. CASE ZlibReturns
        BY <1>0, <3>3 DEF ZlibReturns, ZlibOK, zlibVars, outVars
    <3>4. CASE InflateWrite
      <4>1. lost' \in BOOLEAN /\ chunk' = <<>> /\ in' = in /\ zlib' \in {zlib, FreshStream}
          BY <1>0, <3>4 DEF InflateWrite
      <4>2. FreshStream \in ZlibStates
          BY <1>0 DEF FreshStream, ZlibStates
      <4> QED BY <1>0, <4>1, <4>2 DEF ZlibOK
    <3> QED BY <1>3, <3>1, <3>2, <3>3, <3>4
  <2>3. pc' \in Places  BY <2>1 DEF Places, TypeInv, TypeOK
  <2>4. insize' = insize  BY <1>1 DEF insize
  <2> QED BY <1>1, <2>0, <2>1, <2>2, <2>3, <2>4 DEF TypeInv, TypeOK
<1> QED BY <1>2, <1>3

\* unpack, unlzw and copy keep the types.
LEMMA UnpackType ==
    TypeInv /\ (Unpack \/ FlushWindow \/ OutputFails) => TypeInv'
<1> SUFFICES ASSUME TypeInv, Unpack \/ FlushWindow \/ OutputFails PROVE TypeInv'
    OBVIOUS
<1>0. /\ inbuf \in Seq(Units) /\ insize \in Nat /\ insize = Len(inbuf) /\ insize <= InBuf
      /\ inptr \in 0 .. InBuf /\ chunk \in Seq(Int) /\ Len(chunk) <= Buf
      /\ Buf \in Nat /\ InBuf \in Nat /\ back \in Backs
    BY Constants DEF TypeInv, TypeOK, ZlibOK, insize
<1>1. /\ UNCHANGED <<source, sent, call, first, work, lastMember, pos, temp, tpos, zlib, in,
                     lost>>
      /\ pc # "done"
    BY DEF Unpack, FlushWindow, OutputFails, pipeVars, writenVars, formatVars, fileVars,
           zlibVars, outVars
<1>5. pc = "flush" => back \in AfterFlush
    BY DEF TypeInv
<1>6. pc' = "flush" => back' \in AfterFlush
    BY <1>5 DEF Unpack, FlushWindow, OutputFails, FillInbuf, Flush, AfterFlush
<1>2. /\ pc' \in Places /\ back' \in Backs
      /\ (inbuf' = inbuf \/ inbuf' = <<>>) /\ inptr' \in 0 .. InBuf
  <2>1. /\ pc' \in {"fill", "flush", "unpack", "failed"} \/ (pc = "flush" /\ pc' = back)
        /\ back' \in AfterFlush \/ back' = back
        /\ inbuf' = inbuf \/ inbuf' = <<>>
      BY DEF Unpack, FlushWindow, OutputFails, FillInbuf, Flush, bufVars, AfterFlush
  <2>2. inptr' = inptr \/ (inptr < insize /\ inptr' = inptr + 1)
      BY DEF Unpack, FlushWindow, OutputFails, FillInbuf, Flush, bufVars
  <2>3. pc' \in Places /\ back' \in Backs
      BY <1>0, <1>5, <2>1 DEF Places, Backs, AfterFlush
  <2> QED BY <1>0, <2>1, <2>2, <2>3
<1>3. chunk' \in Seq(Int) /\ Len(chunk') <= Buf
  <2>1. CASE Unpack
    <3>1. \/ chunk' = chunk
          \/ /\ inptr < insize /\ Len(chunk) < Buf
             /\ chunk' = Append(chunk, inbuf[inptr + 1].id)
        BY <2>1 DEF Unpack
    <3>2. inptr < insize => inbuf[inptr + 1].id \in Int
      <4> SUFFICES ASSUME inptr < insize PROVE inbuf[inptr + 1].id \in Int  OBVIOUS
      <4>1. inbuf[inptr + 1] \in Units  BY <1>0
      <4> QED BY <4>1 DEF Units
    <3>3. CASE inptr < insize /\ Len(chunk) < Buf /\ chunk' = Append(chunk, inbuf[inptr + 1].id)
      <4> DEFINE id == inbuf[inptr + 1].id
      <4>1. id \in Int /\ chunk' = Append(chunk, id)  BY <3>2, <3>3
      <4> HIDE DEF id
      <4> QED BY <1>0, <3>3, <4>1
    <3> QED BY <1>0, <3>1, <3>3
  <2>2. CASE FlushWindow
    <3>1. CASE chunk' = chunk  BY <1>0, <3>1
    <3>2. CASE \E n \in 1 .. Len(chunk) : chunk' = SubSeq(chunk, n + 1, Len(chunk))
        BY <1>0, <3>2
    <3> QED BY <2>2, <3>1, <3>2 DEF FlushWindow
  <2>3. CASE OutputFails
      BY <1>0, <2>3 DEF OutputFails, outVars
  <2> QED BY <2>1, <2>2, <2>3
<1>4. inbuf' \in Seq(Units) /\ (insize <= InBuf)'
    BY <1>0, <1>2, BufferType
<1>7. ZlibOK'
    BY <1>1, <1>3 DEF TypeInv, TypeOK, ZlibOK
<1> QED BY <1>1, <1>2, <1>4, <1>6, <1>7 DEF TypeInv, TypeOK

\* A step that changes nothing keeps the types.
LEMMA StutterType == TypeInv /\ UNCHANGED vars => TypeInv'
<1> SUFFICES ASSUME TypeInv, UNCHANGED vars PROVE TypeInv'  OBVIOUS
<1>1. UNCHANGED <<source, sent, call, first, pc, back, pos, temp, tpos, inbuf, inptr, work,
                  lastMember, zlib, in, chunk, out, lost>>
    BY DEF vars, writenVars, gunzipVars, fileVars, bufVars, formatVars, zlibVars, outVars
<1>2. ZlibOK' /\ (insize <= InBuf)'
    BY <1>1 DEF TypeInv, TypeOK, ZlibOK, insize
<1> QED BY <1>1, <1>2 DEF TypeInv, TypeOK

\* The types hold forever.
LEMMA TypeInvariant == Spec => []TypeInv
<1>1. TypeInv /\ WritenInv /\ [Next]_vars => TypeInv'
    BY SenderType, FillPieceType, FillType, MethodType, LoopType, InflateType, UnpackType,
       StutterType DEF Next, Receiver, Ended
<1> QED BY <1>1, TypeStarts, WritenInvariant, PTL DEF Spec

\* Every variable has its type: the buffers do not get longer than they are,
\* and no offset is behind the end of its file.
THEOREM TypeCorrect == Spec => []TypeOK
<1>1. TypeInv => TypeOK  BY DEF TypeInv
<1> QED BY <1>1, TypeInvariant, PTL

-----------------------------------------------------------------------------
(* "tempfd".                                                                 *)

\* Where the program is, or will be when fill_inbuf returns.
Place == IF pc = "fill" THEN back ELSE pc
SpoolPlaces == {"spool", "spool loop", "spool eof"}
Inflating == {"rewind", "read", "inflate", "write"}

\* All that the other process sends has been read.
Drained == Closed /\ pos = Len(sent)

\* Which formats are worked on at which places.
Control ==
    /\ ReadsItself => lastMember
    /\ work = "unpack" => ~lastMember
    /\ lastMember => Place \notin {"magic", "input_eof"}
    /\ call.stdin /\ work = "unzip" => ~lastMember
    /\ Place \in SpoolPlaces => ~first /\ call.stdin
    /\ Place = "name" \/ pc \in Inflating => work = "unzip"
    /\ Place \in {"unpack", "flush"} => work # "unzip"
    /\ Place \in {"unpack", "next", "flush"} \/ pc \in Inflating => ~first

\* What is read is copied to "tempfd", and all of it is there.
Copying == call.stdin /\ ~lost /\ ~ReadsItself /\ pc \notin {"done", "failed"}

\* "tempfd" begins with what has been read; what an earlier run left follows.
CopyInv ==
    Copying =>
        /\ pos <= Len(temp)
        /\ \A i \in 1 .. pos : temp[i] = sent[i]
        /\ \A i \in pos + 1 .. Len(temp) : temp[i].id = -i

\* Its offset is that of the input until nothing more comes.
OffsetInv == Copying => tpos = pos \/ Drained

\* Only the end of the input leaves inbuf without being full; treat_stdin takes
\* it for that.
BufferInv ==
    Copying /\ pc # "fill" /\ insize < InBuf =>
        Drained \/ (pc = "magic" /\ first /\ inbuf = <<>>)

\* Behind the loop of treat_stdin nothing more comes.
PassedInv ==
    Copying /\ ~first /\ ~lastMember => Drained \/ Place \in SpoolPlaces

SpoolInv == Control /\ CopyInv /\ OffsetInv /\ BufferInv /\ PassedInv

\* SpoolInv holds at the start.
LEMMA SpoolStarts == Init => SpoolInv
<1> SUFFICES ASSUME Init PROVE SpoolInv  OBVIOUS
<1>1. /\ pc = "magic" /\ first = TRUE /\ work = "none" /\ lastMember = FALSE /\ pos = 0 /\ tpos = 0
      /\ inbuf = <<>>
    BY DEF Init
<1>2. Control
    BY <1>1 DEF Control, Place, SpoolPlaces, Inflating, ReadsItself
<1>3. CopyInv
  <2>1. call.old \in Seq(Kinds)
      BY Constants DEF Init, Call
  <2>2. Len(temp) \in Nat /\ \A i \in 1 .. Len(temp) : temp[i].id = -i
      BY <2>1 DEF Init, Unit
  <2> QED BY <1>1, <2>2 DEF CopyInv
<1> QED BY <1>1, <1>2, <1>3 DEF SpoolInv, OffsetInv, BufferInv, PassedInv

\* What get_method says that the next member is.
Recognised ==
    \/ pc' = "name" /\ work' = "unzip" /\ ~lastMember'
    \/ /\ pc' = "method"
       /\ \/ work' = "unzip" /\ (call.stdin => ~lastMember')
          \/ work' = "unpack" /\ ~lastMember'
          \/ work' \in {"unlzw", "copy"} /\ lastMember'

\* Where get_method can go, and what it leaves alone.
LEMMA MethodSteps ==
    ASSUME TypeInv, GetMethod
    PROVE  \/ pc' = "fill" /\ back' = "magic" /\ UNCHANGED <<work, lastMember>>
           \/ Recognised
           \/ pc' \in {"failed", "done"} /\ UNCHANGED <<work, lastMember>>
<1> DEFINE kind == inbuf[inptr + 1].kind
           zip  == kind = "k" /\ inptr = 0
           known == kind \in Magic \ {"k"} \/ (zip /\ ~call.stdin)
<1>0. inptr \in Nat /\ insize \in Nat
    BY DEF TypeInv, TypeOK, insize
<1>1. CASE inptr >= insize
    BY <1>0, <1>1 DEF GetMethod, FillInbuf
<1>2. CASE inptr < insize
  <2>1. ASSUME known,
               work' = CASE kind \in Gzip \cup {"k"} -> "unzip"
                         [] kind = "p"               -> "unpack"
                         [] kind = "z"               -> "unlzw",
               lastMember' = (kind \in {"z", "k"}),
               pc' = IF kind = "H" THEN "name" ELSE "method"
        PROVE  Recognised
    <3> USE DEF Magic, Gzip, Recognised
    <3> HIDE DEF kind
    <3>1. CASE kind = "H"
      <4>1. work' = "unzip" /\ pc' = "name"  BY <2>1, <3>1
      <4>2. ~lastMember'  BY <2>1, <3>1
      <4> QED BY <4>1, <4>2
    <3>2. CASE kind = "h"
      <4>1. work' = "unzip" /\ pc' = "method"  BY <2>1, <3>2
      <4>2. ~lastMember'  BY <2>1, <3>2
      <4> QED BY <4>1, <4>2
    <3>3. CASE kind = "p"
      <4>1. work' = "unpack" /\ pc' = "method"  BY <2>1, <3>3
      <4>2. ~lastMember'  BY <2>1, <3>3
      <4> QED BY <4>1, <4>2
    <3>4. CASE kind = "z"
      <4>1. work' = "unlzw" /\ pc' = "method"  BY <2>1, <3>4
      <4>2. lastMember'  BY <2>1, <3>4
      <4> QED BY <4>1, <4>2
    <3>5. CASE kind = "k"
      <4>1. work' = "unzip" /\ pc' = "method"  BY <2>1, <3>5
      <4>2. ~call.stdin  BY <2>1, <3>5
      <4> QED BY <4>1, <4>2
    <3> QED BY <2>1, <3>1, <3>2, <3>3, <3>4, <3>5
  <2>2. ASSUME work' = "copy", lastMember' = TRUE, pc' = "method"
        PROVE  Recognised
      BY <2>2 DEF Recognised
  <2>4. ASSUME work' = "unzip", lastMember' = FALSE, pc' = "method"
        PROVE  Recognised
      BY <2>4 DEF Recognised
  <2>3. \/ /\ known
           /\ work' = CASE kind \in Gzip \cup {"k"} -> "unzip"
                         [] kind = "p"               -> "unpack"
                         [] kind = "z"               -> "unlzw"
           /\ lastMember' = (kind \in {"z", "k"})
           /\ pc' = IF kind = "H" THEN "name" ELSE "method"
        \/ work' = "copy" /\ lastMember' = TRUE /\ pc' = "method"
        \/ work' = "unzip" /\ lastMember' = FALSE /\ pc' = "method"
        \/ pc' \in {"failed", "done"} /\ UNCHANGED <<work, lastMember>>
    <3>1. ~(inptr >= insize)  BY <1>0, <1>2
    <3> QED BY <3>1, Zenon DEF GetMethod
  <2> QED BY <2>1, <2>2, <2>3, <2>4
<1> QED BY <1>0, <1>1, <1>2

\* The parts of SpoolInv about control alone are kept by every step of the receiver.
LEMMA ControlKeeps == Control /\ TypeInv /\ Receiver => Control'
<1> SUFFICES ASSUME Control, TypeInv, Receiver PROVE Control'  OBVIOUS
<1> USE DEF Control, Place, SpoolPlaces, Inflating, ReadsItself
<1>0. call' = call
    BY DEF Receiver, FillPiece, InputFails, FillReturns, FillAtEnd, GetMethod, SkipName,
           MethodKnown, Spool, NextMember, Finish, Rewind, InflateRead, ZlibTakes,
           ZlibPuts, ZlibReturns, InflateWrite, Unpack, FlushWindow, OutputFails, pipeVars
<1>1. CASE FillPiece \/ ZlibTakes \/ ZlibPuts
  <2>1. UNCHANGED <<pc, back, first, work, lastMember>>
      BY <1>1 DEF FillPiece, ZlibTakes, ZlibPuts, formatVars
  <2> QED BY <1>0, <2>1
<1>2. CASE InputFails \/ FillReturns \/ FillAtEnd
  <2>1. UNCHANGED <<first, work, lastMember>>
      BY <1>2 DEF InputFails, FillReturns, FillAtEnd, formatVars
  <2>2. CASE InputFails
      BY <1>0, <2>1, <2>2 DEF InputFails
  <2>3. CASE FillReturns
      BY <1>0, <2>1, <2>3 DEF FillReturns, FillInbuf
  <2>4. CASE FillAtEnd
      BY <1>0, <2>1, <2>4 DEF FillAtEnd, StartWork
  <2> QED BY <1>2, <2>2, <2>3, <2>4
<1>3. CASE GetMethod
  <2>1. pc = "magic" /\ first' = first /\ ~ReadsItself /\ ~lastMember
      BY <1>3 DEF GetMethod
  <2>2. \/ pc' = "fill" /\ back' = "magic" /\ UNCHANGED <<work, lastMember>>
        \/ Recognised
        \/ pc' \in {"failed", "done"} /\ UNCHANGED <<work, lastMember>>
      BY <1>3, MethodSteps
  <2>3. CASE pc' = "fill" /\ back' = "magic" /\ UNCHANGED <<work, lastMember>>
      BY <1>0, <2>1, <2>3
  <2>4. CASE pc' = "name" /\ work' = "unzip" /\ ~lastMember'
      BY <1>0, <2>1, <2>4
  <2>5. CASE pc' = "method" /\ work' = "unzip" /\ (call.stdin => ~lastMember')
      BY <1>0, <2>1, <2>5
  <2>6. CASE pc' = "method" /\ work' = "unpack" /\ ~lastMember'
      BY <1>0, <2>1, <2>6
  <2>7. CASE pc' = "method" /\ work' \in {"unlzw", "copy"} /\ lastMember'
      BY <1>0, <2>1, <2>7
  <2>8. CASE pc' \in {"failed", "done"} /\ UNCHANGED <<work, lastMember>>
      BY <1>0, <2>1, <2>8
  <2> QED BY <2>2, <2>3, <2>4, <2>5, <2>6, <2>7, <2>8 DEF Recognised
<1>4. CASE SkipName
  <2>1. /\ pc = "name" /\ UNCHANGED <<first, work, lastMember>>
        /\ (pc' = "fill" /\ back' = "name") \/ pc' \in {"method", "name"}
      BY <1>4 DEF SkipName, FillInbuf, formatVars
  <2> QED BY <1>0, <2>1
<1>5. CASE MethodKnown
  <2>1. /\ first' = FALSE /\ UNCHANGED <<work, lastMember, back>>
        /\ pc' = IF call.stdin /\ first THEN "spool" ELSE StartWork
      BY <1>5 DEF MethodKnown
  <2> QED BY <1>0, <2>1 DEF StartWork
<1>6. CASE Spool
  <2>1. /\ pc = "spool" /\ UNCHANGED <<first, work, lastMember>>
        /\ (pc' = "fill" /\ back' \in {"spool loop", "spool eof"}) \/ pc' = StartWork
      BY <1>6 DEF Spool, FillInbuf, formatVars
  <2> QED BY <1>0, <2>1 DEF StartWork
<1>7. CASE NextMember
  <2>1. /\ pc = "next" /\ UNCHANGED <<first, work, lastMember>>
        /\ (pc' = "fill" /\ back' = "input_eof" /\ ~lastMember) \/ (pc' = "magic" /\ ~lastMember) \/ pc' = "end"
      BY <1>7 DEF NextMember, FillInbuf, formatVars
  <2> QED BY <1>0, <2>1
<1>8. CASE Finish \/ OutputFails
  <2>1. pc' \in {"done", "failed"} /\ UNCHANGED <<first, work, lastMember>>
      BY <1>8 DEF Finish, OutputFails, formatVars
  <2> QED BY <1>0, <2>1
<1>9. CASE Rewind \/ InflateRead \/ ZlibReturns \/ InflateWrite
  <2>1. /\ pc \in Inflating /\ UNCHANGED <<first, work, lastMember>>
        /\ pc' \in Inflating \/ pc' = "next"
      BY <1>9 DEF Rewind, InflateRead, ZlibReturns, InflateWrite, formatVars
  <2> QED BY <1>0, <2>1
<1>10. CASE Unpack
  <2>1. /\ pc = "unpack" /\ UNCHANGED <<first, work, lastMember>>
        /\ (pc' = "fill" /\ back' = "unpack") \/ pc' \in {"unpack", "flush"}
      BY <1>10 DEF Unpack, FillInbuf, Flush, formatVars
  <2> QED BY <1>0, <2>1
<1>11. CASE FlushWindow
  <2>1. /\ pc = "flush" /\ UNCHANGED <<first, work, lastMember>>
        /\ pc' \in {"unpack", "next", "failed", "flush"}
      BY <1>11 DEF FlushWindow, formatVars, TypeInv, AfterFlush
  <2> QED BY <1>0, <2>1
<1> QED BY <1>1, <1>2, <1>3, <1>4, <1>5, <1>6, <1>7, <1>8, <1>9, <1>10, <1>11 DEF Receiver


\* While something is still sent, "tempfd" has its offset where it has been read.
LEMMA SpoolSender == SpoolInv /\ TypeInv /\ WritenInv /\ Sender => SpoolInv'
<1> SUFFICES ASSUME SpoolInv, TypeInv, WritenInv, Sender PROVE SpoolInv'  OBVIOUS
<1>1. UNCHANGED <<call, pc, back, pos, temp, tpos, inbuf, first, work, lastMember, lost>>
    BY DEF Sender, gunzipVars, fileVars, bufVars, formatVars, outVars
<1>2. /\ ~Drained
      /\ \A i \in 1 .. Len(sent) : sent'[i] = sent[i]
    BY SentGrows DEF Sender, Drained
<1>3. Control'
    BY <1>1 DEF SpoolInv, Control, Place, SpoolPlaces, Inflating, ReadsItself
<1>4. Copying' = Copying
    BY <1>1 DEF Copying, ReadsItself
<1>5. CopyInv'
  <2>1. /\ Copying => /\ pos <= Len(temp)
                      /\ \A i \in 1 .. pos : temp[i] = sent[i]
                      /\ \A i \in pos + 1 .. Len(temp) : temp[i].id = -i
      BY DEF SpoolInv, CopyInv
  <2>2. pos \in Nat /\ pos <= Len(sent) /\ Len(sent) \in Nat
      BY DEF TypeInv, TypeOK, WritenInv
  <2>3. \A i \in 1 .. pos : sent'[i] = sent[i]
      BY <1>2, <2>2
  <2> QED BY <1>1, <1>4, <2>1, <2>3 DEF CopyInv
<1>6. OffsetInv' /\ BufferInv' /\ PassedInv'
    BY <1>1, <1>2, <1>4 DEF SpoolInv, OffsetInv, BufferInv, PassedInv, Place, insize
<1> QED BY <1>3, <1>5, <1>6 DEF SpoolInv

\* A piece read, and copied to the temporary file or not, keeps SpoolInv.
LEMMA SpoolPiece == SpoolInv /\ TypeInv /\ WritenInv /\ FillPiece => SpoolInv'
<1> SUFFICES ASSUME SpoolInv, TypeInv, WritenInv, FillPiece PROVE SpoolInv'  OBVIOUS
<1>1. Control'  BY ControlKeeps DEF SpoolInv, Receiver
<1>2. UNCHANGED <<sent, call, pc, back, first, work, lastMember>> /\ pc = "fill"
    BY DEF FillPiece, pipeVars, writenVars, formatVars
<1>3. SUFFICES ASSUME Copying'
               PROVE  CopyInv' /\ OffsetInv' /\ PassedInv'
    BY <1>1, <1>2 DEF SpoolInv, CopyInv, OffsetInv, BufferInv, PassedInv
<1>4. call.stdin /\ ~ReadsItself /\ ~lost' /\ lost \in BOOLEAN
    BY <1>2, <1>3 DEF Copying, ReadsItself, TypeInv, TypeOK
<1>5. PICK n \in 1 .. Least(Len(sent) - pos, InBuf - insize) :
        /\ pos' = pos + n
        /\ \E k \in 1 .. n :
            /\ temp' = Overwrite(temp, tpos, SubSeq(SubSeq(sent, pos + 1, pos + n), 1, k))
            /\ tpos' = tpos + k
            /\ lost' = (lost \/ k < n)
    BY <1>4 DEF FillPiece
<1>6. PICK k \in 1 .. n :
        /\ temp' = Overwrite(temp, tpos, SubSeq(SubSeq(sent, pos + 1, pos + n), 1, k))
        /\ tpos' = tpos + k
        /\ lost' = (lost \/ k < n)
    BY <1>5
<1>7. /\ pos \in Nat /\ Len(sent) \in Nat /\ sent \in Seq(Units) /\ insize \in Nat
      /\ temp \in Seq(Units) /\ tpos \in Nat /\ tpos <= Len(temp)
    BY <1>2 DEF TypeInv, TypeOK, insize, WritenInv
<1>8. n \in Nat /\ n >= 1 /\ n <= Len(sent) - pos
    BY <1>7, Constants DEF Least
<1>9. ~lost /\ k = n
  <2>1. ~lost /\ ~(k < n)  BY <1>4, <1>6
  <2> QED BY <2>1, <1>8
<1>10. Copying
    BY <1>2, <1>3, <1>9 DEF Copying, ReadsItself
<1>11. tpos = pos
  <2>1. ~Drained  BY <1>4 DEF FillPiece, FillOver, Drained
  <2> QED BY <1>10, <2>1 DEF SpoolInv, OffsetInv
<1> DEFINE piece == SubSeq(SubSeq(sent, pos + 1, pos + n), 1, n)
<1>12. /\ piece \in Seq(Units) /\ Len(piece) = n
       /\ \A i \in 1 .. n : piece[i] = sent[pos + i]
  <2> DEFINE whole == SubSeq(sent, pos + 1, pos + n)
  <2>1. /\ whole \in Seq(Units) /\ Len(whole) = n
        /\ \A i \in 1 .. n : whole[i] = sent[pos + i]
      BY <1>7, <1>8
  <2>2. piece = SubSeq(whole, 1, n)  OBVIOUS
  <2> HIDE DEF whole, piece
  <2> QED BY <1>8, <2>1, <2>2
<1>13. temp' = Overwrite(temp, pos, piece)
    BY <1>6, <1>9, <1>11
<1> HIDE DEF piece
<1>14. /\ temp' \in Seq(Units)
       /\ Len(temp') >= pos + n
       /\ Len(temp') = Len(temp) \/ Len(temp') = pos + n
       /\ \A i \in 1 .. Len(temp') :
            temp'[i] = IF i \in pos + 1 .. pos + n THEN piece[i - pos] ELSE temp[i]
  <2> DEFINE new == Overwrite(temp, pos, piece)
  <2>1. pos \in Nat /\ pos <= Len(temp) /\ temp \in Seq(Units) /\ piece \in Seq(Units)
      BY <1>7, <1>11, <1>12
  <2>2. /\ new \in Seq(Units)
        /\ Len(new) >= pos + Len(piece) /\ Len(new) >= Len(temp)
        /\ Len(new) = Len(temp) \/ Len(new) = pos + Len(piece)
        /\ \A i \in 1 .. Len(new) :
              new[i] = IF i \in pos + 1 .. pos + Len(piece) THEN piece[i - pos] ELSE temp[i]
      BY <2>1, OverwriteFile
  <2>3. temp' = new /\ Len(piece) = n  BY <1>12, <1>13
  <2> HIDE DEF new
  <2> QED BY <2>2, <2>3
<1>15. CopyInv'
  <2>1. /\ \A i \in 1 .. pos : temp[i] = sent[i]
        /\ \A i \in pos + 1 .. Len(temp) : temp[i].id = -i
      BY <1>10 DEF SpoolInv, CopyInv
  <2>2. \A i \in 1 .. pos + n : temp'[i] = sent[i]
    <3> TAKE i \in 1 .. pos + n
    <3>1. CASE i <= pos
        BY <3>1, <1>7, <1>8, <1>14, <2>1, SMTT(30)
    <3>2. CASE i > pos
      <4>1. i - pos \in 1 .. n /\ i \in pos + 1 .. pos + n /\ pos + (i - pos) = i
          BY <3>2, <1>7, <1>8
      <4>2. temp'[i] = piece[i - pos]  BY <4>1, <1>7, <1>8, <1>14
      <4> QED BY <4>1, <4>2, <1>12
    <3> QED BY <3>1, <3>2, <1>7, <1>8
  <2>3. \A i \in pos + n + 1 .. Len(temp') : temp'[i].id = -i
    <3> TAKE i \in pos + n + 1 .. Len(temp')
    <3>1. Len(temp') = Len(temp) /\ temp'[i] = temp[i] /\ i \in pos + 1 .. Len(temp)
      <4>1. i \in Nat /\ i > pos + n /\ i \in 1 .. Len(temp') /\ i \notin pos + 1 .. pos + n
          BY <1>7, <1>8, <1>14
      <4>2. temp'[i] = temp[i]  BY <4>1, <1>14
      <4>3. Len(temp') # pos + n  BY <4>1, <1>7, <1>8, <1>14
      <4>4. Len(temp') = Len(temp)  BY <4>3, <1>14
      <4> QED BY <4>1, <4>2, <4>4, <1>7, <1>8
    <3> QED BY <2>1, <3>1
  <2>4. pos' = pos + n /\ pos + n <= Len(temp')  BY <1>5, <1>14
  <2> QED BY <1>2, <2>2, <2>3, <2>4 DEF CopyInv
<1>16. OffsetInv'
    BY <1>5, <1>6, <1>9, <1>11 DEF OffsetInv
<1>17. PassedInv'
  <2>1. ~Drained  BY <1>4 DEF FillPiece, FillOver, Drained
  <2> QED BY <1>2, <1>10, <2>1 DEF SpoolInv, PassedInv, Place
<1> QED BY <1>15, <1>16, <1>17

\* What a step that does not read the input has to show.
LEMMA SpoolMoves ==
    ASSUME SpoolInv, TypeInv, Receiver,
           UNCHANGED <<writenVars, call, temp>>,
           Copying' => Copying /\ pos' = pos /\ (tpos' = tpos \/ Drained),
           Copying' /\ pc' # "fill" /\ insize' < InBuf =>
               Drained \/ (pc' = "magic" /\ first' /\ inbuf' = <<>>),
           Copying' /\ ~first' /\ ~lastMember' => Drained \/ Place' \in SpoolPlaces
    PROVE  SpoolInv'
<1>1. Control'  BY ControlKeeps DEF SpoolInv
<1>2. UNCHANGED <<source, buffer, next, left, sent, failures, call, temp>>
    BY DEF writenVars
<1>3. Copying' => Drained' = Drained
    BY <1>2 DEF Drained, Closed
<1>4. CopyInv'
    BY <1>2 DEF SpoolInv, CopyInv
<1>5. OffsetInv' /\ BufferInv' /\ PassedInv'
    BY <1>3 DEF SpoolInv, OffsetInv, BufferInv, PassedInv
<1> QED BY <1>1, <1>4, <1>5 DEF SpoolInv

\* So do the other steps of fill_inbuf.
LEMMA SpoolFill == SpoolInv /\ TypeInv /\ (InputFails \/ FillReturns \/ FillAtEnd) => SpoolInv'
<1> SUFFICES ASSUME SpoolInv, TypeInv, InputFails \/ FillReturns \/ FillAtEnd PROVE SpoolInv'
    OBVIOUS
<1>1. /\ UNCHANGED <<writenVars, call, pos, temp, tpos, lost, first, work, lastMember>>
      /\ Receiver
    BY DEF InputFails, FillReturns, FillAtEnd, pipeVars, fileVars, formatVars, outVars, Receiver
<1>2. Copying' => Copying
  <2>1. pc' = "failed" \/ pc = "fill"  BY DEF InputFails, FillReturns, FillAtEnd
  <2> QED BY <1>1, <2>1 DEF Copying, ReadsItself
<1>3. Copying' /\ ~first' /\ ~lastMember' => Drained \/ Place \in SpoolPlaces
    BY <1>1, <1>2 DEF SpoolInv, PassedInv
<1>4. CASE InputFails
  <2>1. ~Copying'  BY <1>4 DEF InputFails, Copying
  <2> QED BY <1>1, <2>1, SpoolMoves
<1>5. CASE FillReturns
  <2>0. pc = "fill"  BY <1>5 DEF FillReturns
  <2>1. Copying' /\ insize < InBuf => Drained
    <3>1. Copying /\ insize # InBuf => Drained
        BY <1>5 DEF FillReturns, FillOver, Copying, Drained
    <3>2. insize < InBuf => insize # InBuf
        BY Constants DEF TypeInv, TypeOK, insize
    <3> QED BY <1>2, <3>1, <3>2
  <2>2. pc' # "fill" => inbuf' = inbuf /\ insize' = insize
      BY <1>5 DEF FillReturns, FillInbuf, insize
  <2>3. Place \in SpoolPlaces => Place' \in SpoolPlaces
      BY <1>1, <2>0, <1>5 DEF FillReturns, FillInbuf, Place, SpoolPlaces
  <2> QED BY <1>1, <2>0, <1>2, <1>3, <2>1, <2>2, <2>3, SpoolMoves
<1>6. CASE FillAtEnd
  <2>0. pc = "fill"  BY <1>6 DEF FillAtEnd
  <2>1. Copying' => Drained
    <3>1. insize # InBuf
      <4>1. inbuf = <<>>  BY <1>6 DEF FillAtEnd
      <4>2. Len(inbuf) = 0  BY <4>1
      <4> QED BY <4>2, Constants DEF insize
    <3> QED BY <1>2, <1>6, <3>1 DEF FillAtEnd, FillOver, Copying, Drained
  <2> QED BY <1>1, <2>0, <1>2, <2>1, SpoolMoves
<1> QED BY <1>4, <1>5, <1>6

\* So does the parsing of a header.
LEMMA SpoolMethod == SpoolInv /\ TypeInv /\ (GetMethod \/ SkipName \/ MethodKnown) => SpoolInv'
<1> SUFFICES ASSUME SpoolInv, TypeInv, GetMethod \/ SkipName \/ MethodKnown PROVE SpoolInv'
    OBVIOUS
<1>1. /\ UNCHANGED <<writenVars, call, pos, temp, tpos, lost>> /\ Receiver
      /\ pc \in {"magic", "name", "method"}
    BY DEF GetMethod, SkipName, MethodKnown, pipeVars, fileVars, outVars, Receiver
<1>0. inptr \in Nat /\ insize \in Nat /\ inbuf \in Seq(Units) /\ insize = Len(inbuf)
    BY DEF TypeInv, TypeOK, insize
<1>2. CASE GetMethod
  <2>1. /\ pc = "magic" /\ first' = first /\ ~lastMember /\ ~ReadsItself
      BY <1>2 DEF GetMethod, SpoolInv, Control, Place
  <2>2. Copying' => Copying
      BY <1>1, <2>1 DEF Copying
  <2>3. Copying' /\ ~first' => Drained
      BY <2>1, <2>2 DEF SpoolInv, PassedInv, Place, SpoolPlaces
  <2>4. pc' = "fill" \/ (inptr < insize /\ inbuf' = inbuf)
      BY <1>0, <1>2 DEF GetMethod, FillInbuf
  <2>5. Copying' /\ pc' # "fill" /\ insize' < InBuf => Drained
    <3> SUFFICES ASSUME Copying', pc' # "fill", insize' < InBuf PROVE Drained  OBVIOUS
    <3>1. inptr < insize /\ insize' = insize  BY <2>4 DEF insize
    <3>2. inbuf # <<>>  BY <1>0, <3>1
    <3> QED BY <2>1, <2>2, <3>1, <3>2 DEF SpoolInv, BufferInv
  <2> QED BY <1>1, <2>2, <2>3, <2>5, SpoolMoves
<1>3. CASE SkipName
  <2>1. /\ pc = "name" /\ UNCHANGED <<first, work, lastMember>>
        /\ (pc' = "fill" /\ back' = "name") \/ (pc' # "fill" /\ inbuf' = inbuf)
      BY <1>3 DEF SkipName, FillInbuf, formatVars
  <2>2. Copying' => Copying
      BY <1>1, <2>1 DEF Copying, ReadsItself
  <2>3. Copying' /\ ~first' /\ ~lastMember' => Drained
      BY <2>1, <2>2 DEF SpoolInv, PassedInv, Place, SpoolPlaces
  <2>4. Copying' /\ pc' # "fill" /\ insize' < InBuf => Drained
      BY <2>1, <2>2 DEF SpoolInv, BufferInv, insize
  <2> QED BY <1>1, <2>2, <2>3, <2>4, SpoolMoves
<1>4. CASE MethodKnown
  <2>1. /\ pc = "method" /\ UNCHANGED <<work, lastMember, inbuf, back>>
        /\ pc' = IF call.stdin /\ first THEN "spool" ELSE StartWork
      BY <1>4 DEF MethodKnown, bufVars
  <2>2. Copying' => Copying
      BY <1>1, <2>1 DEF Copying, ReadsItself
  <2>3. Copying' /\ ~lastMember' => Drained \/ Place' \in SpoolPlaces
    <3>1. CASE call.stdin /\ first
        BY <2>1, <3>1 DEF Place, SpoolPlaces
    <3>2. CASE ~first
        BY <2>1, <2>2, <3>2 DEF SpoolInv, PassedInv, Place, SpoolPlaces
    <3> QED BY <2>2, <3>1, <3>2 DEF Copying
  <2>4. Copying' /\ pc' # "fill" /\ insize' < InBuf => Drained
      BY <2>1, <2>2 DEF SpoolInv, BufferInv, insize
  <2> QED BY <1>1, <2>2, <2>3, <2>4, SpoolMoves
<1> QED BY <1>2, <1>3, <1>4

\* So does treat_stdin's loop.
LEMMA SpoolLoop ==
    SpoolInv /\ TypeInv /\ (Spool \/ NextMember \/ Unpack \/ FlushWindow) => SpoolInv'
<1> SUFFICES ASSUME SpoolInv, TypeInv, Spool \/ NextMember \/ Unpack \/ FlushWindow
             PROVE  SpoolInv'
    OBVIOUS
<1>1. /\ UNCHANGED <<writenVars, call, pos, temp, tpos, lost, first, work, lastMember>>
      /\ Receiver /\ pc \in {"spool", "next", "unpack", "flush"}
    BY DEF Spool, NextMember, Unpack, FlushWindow, pipeVars, fileVars, formatVars, outVars,
           Receiver
<1>2. Copying' => Copying
    BY <1>1 DEF Copying, ReadsItself
<1>3. Copying /\ insize < InBuf => Drained
    BY <1>1 DEF SpoolInv, BufferInv
<1>4. pc' = "fill" \/ inbuf' = inbuf
    BY DEF Spool, NextMember, Unpack, FlushWindow, FillInbuf, bufVars
<1>5. Copying' /\ pc' # "fill" /\ insize' < InBuf => Drained
    BY <1>2, <1>3, <1>4 DEF insize
<1>6. Copying' /\ ~first' /\ ~lastMember' => Drained \/ Place' \in SpoolPlaces
  <2> SUFFICES ASSUME Copying', ~first', ~lastMember' PROVE Drained \/ Place' \in SpoolPlaces
      OBVIOUS
  <2>1. CASE Spool
    <3>1. \/ pc' = "fill" /\ back' \in {"spool loop", "spool eof"}
          \/ insize # InBuf
        BY <1>1, <2>1 DEF Spool, FillInbuf
    <3>2. insize # InBuf => insize < InBuf
        BY Constants DEF TypeInv, TypeOK, insize
    <3> QED BY <1>2, <1>3, <3>1, <3>2 DEF Place, SpoolPlaces
  <2>2. CASE NextMember \/ Unpack \/ FlushWindow
    <3>1. pc \in {"next", "unpack", "flush"}
        BY <2>2 DEF NextMember, Unpack, FlushWindow
    <3> QED BY <1>1, <1>2, <3>1 DEF SpoolInv, PassedInv, Place, SpoolPlaces
  <2> QED BY <2>1, <2>2
<1> QED BY <1>1, <1>2, <1>5, <1>6, SpoolMoves

\* So does inflateGZIP.
LEMMA SpoolInflate ==
    SpoolInv /\ TypeInv
        /\ (Rewind \/ InflateRead \/ ZlibTakes \/ ZlibPuts \/ ZlibReturns \/ InflateWrite)
        => SpoolInv'
<1> SUFFICES ASSUME SpoolInv, TypeInv,
                    Rewind \/ InflateRead \/ ZlibTakes \/ ZlibPuts \/ ZlibReturns \/ InflateWrite
             PROVE  SpoolInv'
    OBVIOUS
<1>1. /\ UNCHANGED <<writenVars, call, temp, inbuf, first, work, lastMember>>
      /\ Receiver /\ pc \in Inflating /\ pc' # "fill"
    BY DEF Rewind, InflateRead, ZlibTakes, ZlibPuts, ZlibReturns, InflateWrite, pipeVars,
           fileVars, bufVars, formatVars, outVars, Receiver, Inflating
<1>2. lost => lost'
    BY DEF Rewind, InflateRead, ZlibTakes, ZlibPuts, ZlibReturns, InflateWrite, outVars
<1>3. Copying' => Copying
    BY <1>1, <1>2 DEF Copying, ReadsItself, Inflating
<1>4. Copying => Drained
  <2> SUFFICES ASSUME Copying PROVE Drained  OBVIOUS
  <2>1. ~first /\ ~lastMember
      BY <1>1 DEF SpoolInv, Control, Copying
  <2> QED BY <1>1, <2>1 DEF SpoolInv, PassedInv, Place, SpoolPlaces, Inflating
<1>5. Copying' => pos' = pos
    BY <1>3 DEF Copying, Rewind, InflateRead, ZlibTakes, ZlibPuts, ZlibReturns, InflateWrite,
                fileVars
<1> QED BY <1>1, <1>3, <1>4, <1>5, SpoolMoves

\* SpoolInv holds forever.
LEMMA SpoolInvariant == Spec => []SpoolInv
<1>1. SpoolInv /\ TypeInv /\ WritenInv /\ [Next]_vars => SpoolInv'
  <2> SUFFICES ASSUME SpoolInv, TypeInv, WritenInv, [Next]_vars PROVE SpoolInv'  OBVIOUS
  <2>1. CASE UNCHANGED vars
    <3>1. UNCHANGED <<source, next, left, sent, call, first, pc, back, pos, temp, tpos, inbuf,
                      work, lastMember, lost>>
        BY <2>1 DEF vars, writenVars, gunzipVars, fileVars, bufVars, formatVars, outVars
    <3>2. UNCHANGED <<Place, insize, ReadsItself, Copying, Drained>>
        BY <3>1 DEF Place, insize, ReadsItself, Copying, Drained, Closed
    <3>3. Control'
        BY <3>1, <3>2 DEF SpoolInv, Control
    <3> QED BY <3>1, <3>2, <3>3 DEF SpoolInv, CopyInv, OffsetInv, BufferInv, PassedInv
  <2>2. CASE Finish \/ OutputFails
    <3>1. pc' \in {"done", "failed"} /\ Receiver
        BY <2>2 DEF Finish, OutputFails, Receiver
    <3>2. Control'  BY <3>1, ControlKeeps DEF SpoolInv
    <3> QED BY <3>1, <3>2 DEF SpoolInv, CopyInv, OffsetInv, BufferInv, PassedInv, Copying
  <2> QED BY <2>1, <2>2, SpoolSender, SpoolPiece, SpoolFill, SpoolMethod, SpoolLoop, SpoolInflate
          DEF Next, Receiver, Ended
<1> QED BY <1>1, SpoolStarts, WritenInvariant, TypeInvariant, PTL DEF Spec

\* All of standard input has been read and is in "tempfd" when unzip begins to read
\* that, for every input, every size of inbuf and every way in which read() and
\* the writer at the other end cut it (gzip.c:812).
THEOREM AllIsSpooled == Spec => []SpoolIsInput
<1>1. SpoolInv /\ TypeInv /\ WritenInv => SpoolIsInput
  <2> SUFFICES ASSUME SpoolInv, TypeInv, WritenInv,
                      pc = "rewind", call.stdin, ~lastMember, ~lost
               PROVE  /\ Closed /\ pos = Len(sent)
                      /\ IsPrefix(sent, temp)
                      /\ \A i \in Len(sent) + 1 .. Len(temp) : temp[i].id = -i
      BY DEF SpoolIsInput
  <2>1. Copying
      BY DEF SpoolInv, Control, Copying, Inflating, ReadsItself
  <2>2. Drained
      BY <2>1 DEF SpoolInv, Control, PassedInv, Place, SpoolPlaces, Inflating
  <2>3. /\ Len(sent) <= Len(temp)
        /\ \A i \in 1 .. Len(sent) : temp[i] = sent[i]
        /\ \A i \in Len(sent) + 1 .. Len(temp) : temp[i].id = -i
      BY <2>1, <2>2 DEF SpoolInv, CopyInv, Drained
  <2>4. sent \in Seq(Units) /\ temp \in Seq(Units)
      BY DEF WritenInv, TypeInv, TypeOK
  <2>5. SubSeq(sent, 1, Len(sent)) = SubSeq(temp, 1, Len(sent))
      BY <2>3, <2>4
  <2> QED BY <2>2, <2>3, <2>5 DEF Drained, IsPrefix
<1> QED BY <1>1, SpoolInvariant, TypeInvariant, WritenInvariant, PTL

-----------------------------------------------------------------------------
(* Induction on the natural numbers, for a set P, from the least number that  *)
(* is not in it; and sequences.                                              *)

\* Every set of numbers that is not empty has a least one.
LEMMA LeastNatural ==
    ASSUME NEW T, T \subseteq Nat, T # {}
    PROVE  \E x \in T : \A y \in T : x <= y
<1> DEFINE R == OpToRel(<, Nat)
<1>1. IsWellFoundedOn(R, Nat)
    BY NatLessThanWellFounded
<1>2. \A x, y \in Nat : x < y => <<x, y>> \in R
    BY SMT DEF OpToRel
<1> HIDE DEF R
<1>3. PICK x \in T : \A y \in T : ~(<<y, x>> \in R)
    BY <1>1, WFMin
<1>4. \A y \in T : ~(y < x)
    BY <1>2, <1>3, Zenon
<1> QED BY <1>4

\* A set with zero, and with n + 1 for each n of it, has all the numbers.
LEMMA NatSetInduction ==
    ASSUME NEW P, 0 \in P, \A n \in Nat : n \in P => n + 1 \in P
    PROVE  Nat \subseteq P
<1>1. SUFFICES ASSUME Nat \ P # {} PROVE FALSE
    OBVIOUS
<1>2. PICK x \in Nat \ P : \A y \in Nat \ P : x <= y
    BY <1>1, LeastNatural
<1>3. x # 0 /\ x - 1 \in Nat
    BY <1>2
<1>4. x - 1 \in P
    BY <1>2, <1>3
<1> QED BY <1>2, <1>3, <1>4

\* Concatenation is associative.
LEMMA ConcatAssociates ==
    ASSUME NEW r \in Seq(Int), NEW s \in Seq(Int), NEW t \in Seq(Int)
    PROVE  r \o (s \o t) = (r \o s) \o t
BY SMTT(30)

\* Appending is concatenating one element.
LEMMA AppendConcat == ASSUME NEW s \in Seq(Int), NEW e \in Int PROVE Append(s, e) = s \o <<e>>
OBVIOUS

\* The elements of a concatenation.
LEMMA ConcatIs ==
    ASSUME NEW S, NEW s \in Seq(S), NEW t \in Seq(S)
    PROVE  /\ Len(s \o t) = Len(s) + Len(t)
           /\ \A i \in 1 .. Len(s) : (s \o t)[i] = s[i]
           /\ \A i \in Len(s) + 1 .. Len(s) + Len(t) : (s \o t)[i] = t[i - Len(s)]
OBVIOUS

\* A sequence is its first n elements and then the others.
LEMMA Splits ==
    ASSUME NEW s \in Seq(Int), NEW n \in 1 .. Len(s)
    PROVE  LET before == SubSeq(s, 1, n)
               behind == SubSeq(s, n + 1, Len(s))
           IN  before \in Seq(Int) /\ behind \in Seq(Int) /\ before \o behind = s
<1> DEFINE before == SubSeq(s, 1, n)
           behind == SubSeq(s, n + 1, Len(s))
           joined == before \o behind
<1>1. /\ before \in Seq(Int) /\ behind \in Seq(Int)
      /\ Len(before) = n /\ Len(behind) = Len(s) - n
      /\ \A i \in 1 .. n : before[i] = s[i]
    OBVIOUS
<1>2. \A i \in 1 .. Len(s) - n : behind[i] = s[i + n]
  <2>1. \A i \in 1 .. Len(s) - n : behind[i] = s[n + 1 + i - 1] /\ n + 1 + i - 1 = i + n
      OBVIOUS
  <2> QED BY <2>1
<1> HIDE DEF before, behind
<1>3. /\ joined \in Seq(Int) /\ Len(joined) = Len(s)
      /\ \A i \in 1 .. n : joined[i] = before[i]
      /\ \A i \in n + 1 .. Len(s) : joined[i] = behind[i - n]
  <2>1. joined \in Seq(Int)  BY <1>1
  <2>2. /\ Len(joined) = Len(before) + Len(behind)
        /\ \A i \in 1 .. Len(before) : joined[i] = before[i]
        /\ \A i \in Len(before) + 1 .. Len(before) + Len(behind) : joined[i] = behind[i - Len(before)]
      BY <1>1, ConcatIs
  <2> HIDE DEF joined
  <2>3. Len(joined) = Len(s)  BY <1>1, <2>2
  <2>4. \A i \in 1 .. n : joined[i] = before[i]  BY <1>1, <2>2
  <2>5. \A i \in n + 1 .. Len(s) : joined[i] = behind[i - n]  BY <1>1, <2>2
  <2> QED BY <2>1, <2>3, <2>4, <2>5
<1> HIDE DEF joined
<1>4. \A i \in 1 .. Len(s) : joined[i] = s[i]
  <2> TAKE i \in 1 .. Len(s)
  <2>1. CASE i <= n  BY <1>1, <1>3, <2>1
  <2>2. CASE i > n
    <3>1. i \in n + 1 .. Len(s) /\ i - n \in 1 .. Len(s) - n /\ (i - n) + n = i  BY <2>2
    <3> QED BY <1>2, <1>3, <3>1
  <2> QED BY <2>1, <2>2
<1>5. joined = s  BY <1>3, <1>4, SMTT(30)
<1> QED BY <1>1, <1>5 DEF before, behind, joined

\* One more piece of what zlib has yet to put out.
LEMMA PendingPut ==
    ASSUME NEW s \in Seq(Int), NEW t \in Seq(Int), NEW e \in Int, NEW n \in Nat, n > 0
    PROVE  (s \o Append(t, e)) \o [k \in 1 .. n - 1 |-> e] = (s \o t) \o [k \in 1 .. n |-> e]
<1> DEFINE some == [k \in 1 .. n - 1 |-> e]
           all == [k \in 1 .. n |-> e]
           st == s \o t
<1>1. some \in Seq(Int) /\ all \in Seq(Int) /\ <<e>> \in Seq(Int) /\ st \in Seq(Int)
    OBVIOUS
<1>2. <<e>> \o some = all
  <2>1. Len(<<e>> \o some) = n
    <3>1. Len(some) = n - 1  OBVIOUS
    <3> HIDE DEF some
    <3> QED BY <1>1, <3>1
  <2>2. \A k \in 1 .. n : (<<e>> \o some)[k] = e
    <3>1. Len(some) = n - 1 /\ \A k \in 1 .. n - 1 : some[k] = e  OBVIOUS
    <3> HIDE DEF some
    <3> QED BY <1>1, <3>1
  <2>3. <<e>> \o some \in Seq(Int)  BY <1>1
  <2>4. Len(all) = n /\ \A k \in 1 .. n : all[k] = e  OBVIOUS
  <2> HIDE DEF some, all
  <2> QED BY <1>1, <2>1, <2>2, <2>3, <2>4
<1> HIDE DEF some, all
<1>3. s \o Append(t, e) = st \o <<e>>
    BY <1>1, AppendConcat, ConcatAssociates, SMTT(30)
<1> HIDE DEF st
<1>4. (st \o <<e>>) \o some = st \o (<<e>> \o some)
    BY <1>1, ConcatAssociates, SMTT(30)
<1> QED BY <1>2, <1>3, <1>4 DEF some, all, st

-----------------------------------------------------------------------------
(* What a reader of the format finds.                                        *)

\* The recursion that defines Reading has a solution.
LEMMA ReadingDefined ==
    ASSUME NEW units, Len(units) \in Nat, NEW force
    PROVE  Reading(units, force) =
             [i \in 0 .. Len(units) |->
                IF i = 0 THEN [mode |-> "start", content |-> <<>>]
                ELSE Beyond(Reading(units, force)[i - 1], units[i], Times(units), force)]
<1> DEFINE start == [mode |-> "start", content |-> <<>>]
           Step(g, i) == IF i = 0 THEN start
                                  ELSE Beyond(g[i - 1], units[i], Times(units), force)
           Solves(g, n) == g = [i \in 0 .. n |-> Step(g, i)]
           P == {n \in Nat : \E g : Solves(g, n)}
<1>1. 0 \in P
  <2> DEFINE g == [i \in 0 .. 0 |-> start]
  <2>1. Solves(g, 0)  OBVIOUS
  <2> QED BY <2>1
<1>2. ASSUME NEW n \in Nat, n \in P PROVE n + 1 \in P
  <2>1. PICK g : Solves(g, n)  BY <1>2
  <2> DEFINE h == [i \in 0 .. n + 1 |-> IF i = n + 1 THEN Step(g, n + 1) ELSE g[i]]
  <2>2. \A i \in 0 .. n : h[i] = g[i]  OBVIOUS
  <2>3. \A i \in 0 .. n : g[i] = Step(g, i)  BY <2>1
  <2>4. \A i \in 0 .. n + 1 : Step(h, i) = Step(g, i)
    <3> HIDE DEF h, start
    <3> QED BY <2>2
  <2>5. Solves(h, n + 1)
    <3> SUFFICES \A i \in 0 .. n + 1 : h[i] = Step(h, i)
      <4> HIDE DEF Step
      <4> QED OBVIOUS
    <3> HIDE DEF Step
    <3> QED BY <2>2, <2>3, <2>4
  <2>6. n + 1 \in Nat  OBVIOUS
  <2> HIDE DEF Solves, h
  <2> QED BY <2>5, <2>6
<1>3. Len(units) \in P
  <2> HIDE DEF P
  <2> QED BY <1>1, <1>2, NatSetInduction
<1>4. PICK g : Solves(g, Len(units))  BY <1>3
<1>5. Reading(units, force) = CHOOSE f : Solves(f, Len(units))
    BY DEF Reading
<1> HIDE DEF Solves
<1>6. Solves(Reading(units, force), Len(units))
    BY <1>4, <1>5
<1> QED BY <1>6 DEF Solves
Modes == {"start", "name", "data", "end", "packed", "packed end", "lzw", "copied", "garbage"}
Readers == [mode : Modes, content : Seq(Int)]

\* What a unit adds, and where the reader is then.
LEMMA BeyondType ==
    ASSUME NEW before \in Readers, NEW unit \in Units, NEW times \in Nat, NEW force
    PROVE  /\ Beyond(before, unit, times, force) \in Readers
           /\ Beyond(before, unit, times, force).mode = Behind(before.mode, unit.kind, force)
<1> DEFINE mode == Behind(before.mode, unit.kind, force)
           copies == [k \in 1 .. times |-> unit.id]
<1>1. mode \in Modes
    BY DEF Behind, Modes
<1>2. before.content \in Seq(Int) /\ copies \in Seq(Int)
  <2>1. unit.id \in Int  BY DEF Units
  <2> QED BY <2>1 DEF Readers
<1> HIDE DEF mode, copies
<1>3. before.content \o copies \in Seq(Int)
    BY <1>2
<1>4. Beyond(before, unit, times, force) =
        [mode |-> mode,
         content |-> IF mode = "copied" \/ (unit.kind = "d" /\ mode \in {"data", "packed", "lzw"})
                     THEN before.content \o copies ELSE before.content]
    BY DEF Beyond, mode, copies
<1> QED BY <1>1, <1>2, <1>3, <1>4 DEF Readers, mode

\* A unit of data stands for at least one unit of content.
LEMMA TimesType == ASSUME NEW units PROVE Times(units) \in Nat \ {0}
BY Constants DEF Times

\* The reader of the format starts at the start and goes on unit by unit.
LEMMA ReadingSteps ==
    ASSUME NEW units \in Seq(Units), NEW force
    PROVE  /\ Reading(units, force)[0] = [mode |-> "start", content |-> <<>>]
           /\ \A i \in 1 .. Len(units) :
                Reading(units, force)[i] =
                    Beyond(Reading(units, force)[i - 1], units[i], Times(units), force)
<1> DEFINE reading == Reading(units, force)
<1>1. Len(units) \in Nat  OBVIOUS
<1>2. reading = [i \in 0 .. Len(units) |->
                   IF i = 0 THEN [mode |-> "start", content |-> <<>>]
                   ELSE Beyond(reading[i - 1], units[i], Times(units), force)]
    BY <1>1, ReadingDefined
<1> HIDE DEF reading
<1>3. 0 \in 0 .. Len(units) /\ \A i \in 1 .. Len(units) : i \in 0 .. Len(units) /\ i # 0
    BY <1>1
<1>4. \A i \in 0 .. Len(units) :
        reading[i] = IF i = 0 THEN [mode |-> "start", content |-> <<>>]
                     ELSE Beyond(reading[i - 1], units[i], Times(units), force)
    BY <1>2
<1> QED BY <1>3, <1>4 DEF reading

\* The reader is always in a mode, with a content.
LEMMA ReadingType ==
    ASSUME NEW units \in Seq(Units), NEW force
    PROVE  \A i \in 0 .. Len(units) : Reading(units, force)[i] \in Readers
<1> DEFINE reading == Reading(units, force)
           P == {n \in Nat : n <= Len(units) => reading[n] \in Readers}
<1>1. Len(units) \in Nat  OBVIOUS
<1>2. 0 \in P
  <2>1. reading[0] = [mode |-> "start", content |-> <<>>]  BY ReadingSteps
  <2>2. reading[0] \in Readers  BY <2>1 DEF Readers, Modes
  <2> QED BY <2>2
<1>3. ASSUME NEW n \in Nat, n \in P PROVE n + 1 \in P
  <2> SUFFICES ASSUME n + 1 <= Len(units) PROVE reading[n + 1] \in Readers
      OBVIOUS
  <2>1. reading[n] \in Readers  BY <1>1, <1>3
  <2>2. reading[n + 1] = Beyond(reading[n], units[n + 1], Times(units), force)
    <3>1. n + 1 \in 1 .. Len(units) /\ n + 1 - 1 = n  BY <1>1
    <3> QED BY <3>1, ReadingSteps
  <2>3. units[n + 1] \in Units  BY <1>1
  <2> HIDE DEF reading
  <2> QED BY <2>1, <2>2, <2>3, BeyondType, TimesType
<1> HIDE DEF P
<1>4. Nat \subseteq P  BY <1>2, <1>3, NatSetInduction
<1> QED BY <1>1, <1>4 DEF P

\* What comes later does not change how what is there is read.
LEMMA ReadingAgrees ==
    ASSUME NEW units \in Seq(Units), NEW more \in Seq(Units), NEW force,
           Len(units) <= Len(more), \A i \in 1 .. Len(units) : more[i] = units[i]
    PROVE  \A i \in 0 .. Len(units) : Reading(more, force)[i] = Reading(units, force)[i]
<1> DEFINE old == Reading(units, force)
           new == Reading(more, force)
           P == {n \in Nat : n <= Len(units) => new[n] = old[n]}
<1>1. Len(units) \in Nat /\ Len(more) \in Nat  OBVIOUS
<1>2. 0 \in P
  <2>1. new[0] = old[0]  BY ReadingSteps
  <2> QED BY <2>1
<1>3. ASSUME NEW n \in Nat, n \in P PROVE n + 1 \in P
  <2> SUFFICES ASSUME n + 1 <= Len(units) PROVE new[n + 1] = old[n + 1]
      OBVIOUS
  <2>1. new[n] = old[n]  BY <1>1, <1>3
  <2>2. Times(more) = Times(units)
    <3>1. units # <<>> /\ more # <<>> /\ more[1] = units[1]  BY <1>1
    <3> QED BY <3>1 DEF Times
  <2>3. n + 1 \in 1 .. Len(units) /\ n + 1 \in 1 .. Len(more) /\ n + 1 - 1 = n
      BY <1>1
  <2>4. more[n + 1] = units[n + 1]  BY <2>3
  <2>5. old[n + 1] = Beyond(old[n], units[n + 1], Times(units), force)
      BY <2>3, ReadingSteps
  <2>6. new[n + 1] = Beyond(new[n], more[n + 1], Times(more), force)
      BY <2>3, ReadingSteps
  <2> HIDE DEF old, new
  <2> QED BY <2>1, <2>2, <2>4, <2>5, <2>6
<1> HIDE DEF P
<1>4. Nat \subseteq P  BY <1>2, <1>3, NatSetInduction
<1> QED BY <1>1, <1>4 DEF P

Begins(s, t) == Len(s) <= Len(t) /\ \A i \in 1 .. Len(s) : t[i] = s[i]

\* What begins a beginning begins the whole.
LEMMA BeginsTransitive ==
    ASSUME NEW r \in Seq(Int), NEW s \in Seq(Int), NEW t \in Seq(Int), Begins(r, s), Begins(s, t)
    PROVE  Begins(r, t)
BY DEF Begins

\* A unit adds to the content and takes nothing away.
LEMMA BeginsBeyond ==
    ASSUME NEW before \in Readers, NEW unit \in Units, NEW times \in Nat, NEW force
    PROVE  Begins(before.content, Beyond(before, unit, times, force).content)
<1> DEFINE copies == [k \in 1 .. times |-> unit.id]
           old == before.content
           new == Beyond(before, unit, times, force).content
<1>1. new = old \/ new = old \o copies
    BY DEF Beyond
<1>2. old \in Seq(Int) /\ copies \in Seq(Int)
  <2>1. unit.id \in Int  BY DEF Units
  <2> QED BY <2>1 DEF Readers
<1> HIDE DEF old, new, copies
<1>3. Begins(old, new)
    BY <1>1, <1>2 DEF Begins
<1> QED BY <1>3 DEF old, new

\* What has come out is the beginning of what comes out later; and where nothing is
\* recognised nothing more does.
LEMMA ContentGrows ==
    ASSUME NEW units \in Seq(Units), NEW force, NEW m \in Nat
    PROVE  \A n \in Nat : m <= n /\ n <= Len(units) =>
              /\ Begins(Reading(units, force)[m].content, Reading(units, force)[n].content)
              /\ Reading(units, force)[m].mode = "garbage" =>
                    /\ Reading(units, force)[n].mode = "garbage"
                    /\ Reading(units, force)[n].content = Reading(units, force)[m].content
<1> DEFINE reading == Reading(units, force)
           Grows(n) == /\ Begins(reading[m].content, reading[n].content)
                       /\ reading[m].mode = "garbage" =>
                            /\ reading[n].mode = "garbage"
                            /\ reading[n].content = reading[m].content
           P == {n \in Nat : m <= n /\ n <= Len(units) => Grows(n)}
<1>1. Len(units) \in Nat  OBVIOUS
<1>0. \A n \in Nat : n <= Len(units) => reading[n] \in Readers
    BY <1>1, ReadingType
<1>5. m <= Len(units) => Grows(m)
  <2> SUFFICES ASSUME m <= Len(units) PROVE Grows(m)  OBVIOUS
  <2>1. reading[m].content \in Seq(Int)  BY <1>0 DEF Readers
  <2> HIDE DEF reading
  <2> QED BY <2>1 DEF Begins
<1>2. 0 \in P
  <2>1. 0 = m \/ ~(m <= 0)  OBVIOUS
  <2> HIDE DEF Grows
  <2> QED BY <1>5, <2>1
<1>3. ASSUME NEW n \in Nat, n \in P PROVE n + 1 \in P
  <2> SUFFICES ASSUME m <= n + 1, n + 1 <= Len(units) PROVE Grows(n + 1)
      OBVIOUS
  <2>1. CASE m = n + 1  BY <1>5, <2>1
  <2>2. CASE m <= n
    <3> DEFINE before == reading[n]
               unit == units[n + 1]
               after == Beyond(before, unit, Times(units), force)
    <3>1. Grows(n)  BY <1>1, <1>3, <2>2
    <3>2. reading[n + 1] = after
      <4>1. n + 1 \in 1 .. Len(units) /\ n + 1 - 1 = n  BY <1>1
      <4> QED BY <4>1, ReadingSteps
    <3>3. before \in Readers /\ unit \in Units  BY <1>0, <1>1
    <3>4. Begins(before.content, after.content)
        BY <3>3, BeginsBeyond, TimesType
    <3>5. before.mode = "garbage" => after.mode = "garbage" /\ after.content = before.content
      <4> HIDE DEF before, unit
      <4>1. Behind("garbage", unit.kind, force) = "garbage"  BY DEF Behind
      <4>2. "garbage" # "copied" /\ "garbage" \notin {"data", "packed", "lzw"}  OBVIOUS
      <4> QED BY <4>1, <4>2 DEF Beyond
    <3>6. reading[m].content \in Seq(Int) /\ before.content \in Seq(Int) /\ after.content \in Seq(Int)
      <4>1. reading[m] \in Readers /\ reading[n] \in Readers /\ reading[n + 1] \in Readers
          BY <1>0, <1>1, <2>2
      <4> QED BY <3>2, <4>1 DEF Readers
    <3> HIDE DEF before, after, reading
    <3>7. Begins(reading[m].content, after.content)
        BY <3>1, <3>4, <3>6, BeginsTransitive DEF before
    <3> QED BY <3>1, <3>2, <3>5, <3>7 DEF before
  <2> QED BY <2>1, <2>2
<1> HIDE DEF P
<1>4. Nat \subseteq P  BY <1>2, <1>3, NatSetInduction
<1>6. ASSUME NEW n \in Nat, m <= n, n <= Len(units) PROVE Grows(n)
  <2> HIDE DEF Grows
  <2>1. n \in P  BY <1>4
  <2> QED BY <1>6, <2>1 DEF P
<1> QED BY <1>6

-----------------------------------------------------------------------------
(* The input buffer and "tempfd", wherever the program is.                   *)

\* Gunzip's own steps neither send nor change the call, and there are none after the end.
LEMMA ReceiverLeaves == Receiver => UNCHANGED <<writenVars, call>> /\ pc \notin {"done", "failed"}
BY DEF Receiver, FillPiece, InputFails, FillReturns, FillAtEnd, GetMethod, SkipName,
       MethodKnown, Spool, NextMember, Finish, Rewind, InflateRead, ZlibTakes,
       ZlibPuts, ZlibReturns, InflateWrite, Unpack, FlushWindow, OutputFails, pipeVars

\* unzip has gone back to the beginning of a file.
Unzipped ==
    /\ ~call.stdin /\ work = "unzip"
    /\ pc \in Inflating \/ Place \in {"next", "input_eof"}
Buffered == ~Unzipped /\ pc \notin {"end", "done", "failed"}

\* A file is there from the beginning.  inbuf is what was read last, and what is not
\* full is at the end.  Behind unzip is the end of the file.
WindowInv ==
    Buffered =>
        /\ insize <= pos
        /\ \A i \in 1 .. insize : inbuf[i] = sent[pos - insize + i]
ShortInv ==
    ~call.stdin /\ Buffered /\ ~ReadsItself /\ pc # "fill" /\ insize < InBuf =>
        pos = Len(sent) \/ (pc = "magic" /\ first /\ inbuf = <<>>)
BehindInv ==
    Unzipped /\ pc \notin Inflating =>
        /\ pos = Len(sent)
        /\ IF pc = "fill" THEN inbuf = <<>> ELSE inptr = insize
InputInv == (~call.stdin => Closed) /\ WindowInv /\ ShortInv /\ BehindInv

\* InputInv holds at the start.
LEMMA InputStarts == Init => InputInv
<1> SUFFICES ASSUME Init PROVE InputInv  OBVIOUS
<1>1. /\ pc = "magic" /\ first = TRUE /\ work = "none" /\ pos = 0 /\ inbuf = <<>> /\ insize = 0
    BY DEF Init, insize
<1>2. ~call.stdin => Closed
  <2> SUFFICES ASSUME ~call.stdin PROVE Closed  OBVIOUS
  <2>1. call.stream \in Seq(Kinds)  BY Constants DEF Init, Call
  <2>2. left = 0 /\ next = Len(source) + 1 /\ source = call.stream  BY DEF Init
  <2> QED BY <2>1, <2>2 DEF Closed
<1>3. ~Unzipped  BY <1>1 DEF Unzipped
<1> QED BY <1>1, <1>2, <1>3 DEF InputInv, WindowInv, ShortInv, BehindInv

\* What comes in does not disturb what was read.
LEMMA InputSender == InputInv /\ TypeInv /\ WritenInv /\ Sender => InputInv'
<1> SUFFICES ASSUME InputInv, TypeInv, WritenInv, Sender PROVE InputInv'  OBVIOUS
<1>1. UNCHANGED <<call, pc, back, pos, inbuf, inptr, first, work>>
    BY DEF Sender, gunzipVars, fileVars, bufVars, formatVars
<1>0. ~Closed /\ \A i \in 1 .. Len(sent) : sent'[i] = sent[i]
    BY SentGrows DEF Sender
<1>2. call.stdin
    BY <1>0 DEF InputInv
<1>3. UNCHANGED <<insize, Unzipped, Buffered>>
    BY <1>1 DEF insize, Unzipped, Buffered, Place
<1>4. WindowInv'
  <2> SUFFICES ASSUME Buffered
               PROVE  /\ insize <= pos
                      /\ \A i \in 1 .. insize : inbuf[i] = sent'[pos - insize + i]
      BY <1>1, <1>3 DEF WindowInv
  <2>1. /\ insize <= pos
        /\ \A i \in 1 .. insize : inbuf[i] = sent[pos - insize + i]
      BY DEF InputInv, WindowInv
  <2>2. pos \in Nat /\ pos <= Len(sent) /\ Len(sent) \in Nat /\ insize \in Nat
      BY DEF TypeInv, TypeOK, WritenInv, insize
  <2>3. \A i \in 1 .. insize : pos - insize + i \in 1 .. Len(sent)
      BY <2>1, <2>2
  <2> QED BY <2>1, <2>3, <1>0
<1>5. ~Unzipped'  BY <1>1, <1>2 DEF Unzipped
<1> QED BY <1>1, <1>2, <1>4, <1>5 DEF InputInv, ShortInv, BehindInv

\* One read() puts what comes next behind what is there.
LEMMA PieceRead ==
    ASSUME TypeInv, WritenInv, FillPiece
    PROVE  \E n \in Nat :
              /\ n >= 1 /\ pos + n <= Len(sent) /\ insize + n <= InBuf
              /\ pos' = pos + n /\ insize' = insize + n
              /\ \A i \in 1 .. insize : inbuf'[i] = inbuf[i]
              /\ \A i \in insize + 1 .. insize + n : inbuf'[i] = sent[pos + i - insize]
<1>0. /\ pos \in Nat /\ Len(sent) \in Nat /\ sent \in Seq(Units) /\ pos <= Len(sent)
      /\ inbuf \in Seq(Units) /\ insize \in Nat /\ insize = Len(inbuf) /\ InBuf \in Nat
    BY Constants DEF TypeInv, TypeOK, insize, WritenInv
<1>1. PICK n \in 1 .. Least(Len(sent) - pos, InBuf - insize) :
        /\ inbuf' = inbuf \o SubSeq(sent, pos + 1, pos + n)
        /\ pos' = pos + n
    BY DEF FillPiece
<1>2. n \in Nat /\ n >= 1 /\ n <= Len(sent) - pos /\ n <= InBuf - insize
    BY <1>0, <1>1 DEF Least
<1> DEFINE piece == SubSeq(sent, pos + 1, pos + n)
<1>3. /\ piece \in Seq(Units) /\ Len(piece) = n
      /\ \A i \in 1 .. n : piece[i] = sent[pos + i]
    BY <1>0, <1>2
<1>4. inbuf' = inbuf \o piece  BY <1>1
<1> HIDE DEF piece
<1>5. insize' = insize + n
  <2>0. inbuf \in Seq(Units) /\ piece \in Seq(Units)  BY <1>0, <1>3
  <2>1. Len(inbuf \o piece) = Len(inbuf) + Len(piece)  BY <2>0, ConcatIs
  <2>2. Len(inbuf') = Len(inbuf) + n  BY <1>3, <1>4, <2>1
  <2> QED BY <1>0, <2>2 DEF insize
<1>6. \A i \in 1 .. insize : inbuf'[i] = inbuf[i]
    BY <1>0, <1>2, <1>3, <1>4
<1>7. \A i \in insize + 1 .. insize + n : inbuf'[i] = sent[pos + i - insize]
  <2> TAKE i \in insize + 1 .. insize + n
  <2>1. inbuf'[i] = piece[i - insize] /\ i - insize \in 1 .. n
      BY <1>0, <1>2, <1>3, <1>4, SMTT(30)
  <2>2. pos + (i - insize) = pos + i - insize  BY <1>0
  <2> QED BY <1>3, <2>1, <2>2
<1> QED BY <1>0, <1>1, <1>2, <1>5, <1>6, <1>7, SMTT(30)

\* A read() moves to inbuf just the units that follow the ones it had.
LEMMA InputPiece == InputInv /\ TypeInv /\ WritenInv /\ FillPiece => InputInv'
<1> SUFFICES ASSUME InputInv, TypeInv, WritenInv, FillPiece PROVE InputInv'  OBVIOUS
<1>1. UNCHANGED <<source, left, next, sent, call, pc, back, first, work>> /\ pc = "fill" /\ ~FillOver
    BY DEF FillPiece, pipeVars, writenVars, formatVars
<1>2. PICK n \in Nat :
        /\ n >= 1 /\ pos + n <= Len(sent) /\ insize + n <= InBuf
        /\ pos' = pos + n /\ insize' = insize + n
        /\ \A i \in 1 .. insize : inbuf'[i] = inbuf[i]
        /\ \A i \in insize + 1 .. insize + n : inbuf'[i] = sent[pos + i - insize]
    BY PieceRead
<1>3. UNCHANGED <<Unzipped, Buffered, Closed>>
    BY <1>1 DEF Unzipped, Buffered, Place, Closed
<1>4. pos \in Nat /\ insize \in Nat
    BY DEF TypeInv, TypeOK, insize
<1>5. WindowInv'
  <2> SUFFICES ASSUME Buffered
               PROVE  /\ insize' <= pos'
                      /\ \A i \in 1 .. insize' : inbuf'[i] = sent[pos' - insize' + i]
      BY <1>1, <1>3 DEF WindowInv
  <2>1. /\ insize <= pos
        /\ \A i \in 1 .. insize : inbuf[i] = sent[pos - insize + i]
      BY DEF InputInv, WindowInv
  <2>2. \A i \in 1 .. insize + n : inbuf'[i] = sent[pos - insize + i]
    <3> TAKE i \in 1 .. insize + n
    <3>1. CASE i <= insize  BY <1>2, <1>4, <2>1, <3>1
    <3>2. CASE i > insize
      <4>1. pos + i - insize = pos - insize + i /\ i \in insize + 1 .. insize + n
          BY <1>4, <3>2
      <4> QED BY <1>2, <4>1
    <3> QED BY <1>4, <3>1, <3>2
  <2>3. pos' - insize' = pos - insize /\ insize' <= pos'
      BY <1>2, <1>4, <2>1
  <2> QED BY <1>2, <2>2, <2>3
<1>6. ~Unzipped
  <2>1. Unzipped => pos = Len(sent) /\ Closed
      BY <1>1 DEF InputInv, BehindInv, Unzipped, Inflating
  <2> QED BY <1>1, <2>1 DEF FillOver
<1> QED BY <1>1, <1>3, <1>5, <1>6 DEF InputInv, ShortInv, BehindInv

\* What a step has to show that reads nothing.
LEMMA InputMoves ==
    ASSUME InputInv, TypeInv, Receiver, pos' = pos,
           inbuf' = inbuf \/ inbuf' = <<>>,
           Buffered' => Buffered,
           ~call.stdin /\ Buffered' /\ ~ReadsItself' /\ pc' # "fill" /\ insize' < InBuf =>
               pos = Len(sent) \/ (pc' = "magic" /\ first' /\ inbuf' = <<>>),
           BehindInv'
    PROVE  InputInv'
<1>1. UNCHANGED <<left, next, source, sent, call>>
    BY ReceiverLeaves DEF writenVars
<1>2. WindowInv'
  <2> SUFFICES ASSUME Buffered'
               PROVE  /\ insize' <= pos
                      /\ \A i \in 1 .. insize' : inbuf'[i] = sent[pos - insize' + i]
      BY <1>1 DEF WindowInv
  <2>1. CASE inbuf' = inbuf
      BY <2>1 DEF InputInv, WindowInv, insize
  <2>2. CASE inbuf' = <<>>
    <3>1. insize' = 0  BY <2>2 DEF insize
    <3> QED BY <3>1 DEF TypeInv, TypeOK
  <2> QED BY <2>1, <2>2
<1>3. ShortInv'  BY <1>1 DEF ShortInv
<1> QED BY <1>1, <1>2, <1>3 DEF InputInv, Closed

\* The other steps of fill_inbuf keep InputInv.
LEMMA InputFill ==
    InputInv /\ TypeInv /\ SpoolInv /\ (InputFails \/ FillReturns \/ FillAtEnd) => InputInv'
<1> SUFFICES ASSUME InputInv, TypeInv, SpoolInv, InputFails \/ FillReturns \/ FillAtEnd
             PROVE  InputInv'
    OBVIOUS
<1>1. /\ UNCHANGED <<call, pos, sent, first, work, lastMember>>
      /\ Receiver
      /\ UNCHANGED <<source, next, left>>
    BY DEF InputFails, FillReturns, FillAtEnd, pipeVars, writenVars, fileVars, formatVars, Receiver
<1>2. CASE InputFails
  <2>1. pc' = "failed" /\ inbuf' = inbuf  BY <1>2 DEF InputFails, bufVars
  <2>2. ~Buffered' /\ ~Unzipped'
      BY <2>1 DEF Buffered, Unzipped, Place, Inflating
  <2> QED BY <1>1, <2>1, <2>2, InputMoves DEF BehindInv
<1>3. ~call.stdin /\ ~ReadsItself /\ insize < InBuf /\ FillOver => pos = Len(sent)
  <2>1. insize < InBuf => insize # InBuf  BY Constants DEF TypeInv, TypeOK, insize
  <2> QED BY <2>1 DEF FillOver
<1>4. CASE FillReturns
  <2>0. pc = "fill"  BY <1>4 DEF FillReturns
  <2>1. ~Unzipped
    <3>1. inbuf # <<>>  BY <1>4 DEF FillReturns
    <3> QED BY <1>1, <2>0, <3>1 DEF InputInv, BehindInv, Unzipped, Inflating
  <2>2. /\ pc' \in {"spool", "fill", "magic", "name", "unpack"}
        /\ pc' = "fill" => back' = "spool loop"
        /\ pc' # "fill" => inbuf' = inbuf
        /\ inbuf' = inbuf \/ inbuf' = <<>>
      BY <1>4 DEF FillReturns, FillInbuf
  <2>3. ~Unzipped'
      BY <2>2 DEF Unzipped, Place, Inflating
  <2>4. Buffered
      BY <1>1, <2>0, <2>1 DEF Buffered
  <2>5. ~call.stdin /\ ~ReadsItself' /\ pc' # "fill" /\ insize' < InBuf => pos = Len(sent)
      BY <1>1, <2>0, <1>3, <1>4, <2>2 DEF FillReturns, insize, ReadsItself
  <2> QED BY <1>1, <2>0, <2>2, <2>3, <2>4, <2>5, InputMoves DEF BehindInv
<1>5. CASE FillAtEnd
  <2>0. pc = "fill"  BY <1>5 DEF FillAtEnd
  <2>1. inbuf' = inbuf /\ inbuf = <<>> /\ FillOver  BY <1>5 DEF FillAtEnd
  <2>2. pc' \in {"spool", "flush", "rewind", "unpack", "end", "failed"} /\ (pc' = "rewind" => Place \in SpoolPlaces)
        /\ (back = "input_eof" => pc' = "end")
      BY <1>1, <2>0, <1>5 DEF FillAtEnd, StartWork, Place, SpoolPlaces
  <2>3. Unzipped' => pc' \in Inflating
      BY <2>2 DEF Unzipped, Place
  <2>4. Buffered' => Buffered
      BY <1>1, <2>0, <1>5, <2>2 DEF Buffered, Unzipped, Place, Inflating, FillAtEnd
  <2>5. ~call.stdin /\ ~ReadsItself' /\ insize' < InBuf => pos = Len(sent)
      BY <1>1, <2>0, <1>3, <2>1 DEF insize, ReadsItself
  <2> QED BY <1>1, <2>0, <2>1, <2>3, <2>4, <2>5, InputMoves DEF BehindInv
<1> QED BY <1>2, <1>4, <1>5

\* treat_stdin's loop, with its lseek, keeps InputInv.
LEMMA InputLoop ==
    InputInv /\ TypeInv /\ SpoolInv
        /\ (GetMethod \/ SkipName \/ MethodKnown \/ Spool \/ NextMember \/ Finish) => InputInv'
<1> SUFFICES ASSUME InputInv, TypeInv, SpoolInv,
                    GetMethod \/ SkipName \/ MethodKnown \/ Spool \/ NextMember \/ Finish
             PROVE  InputInv'
    OBVIOUS
<1>1. /\ UNCHANGED <<call, pos, sent>> /\ Receiver
      /\ pc \in {"magic", "name", "method", "spool", "next", "end"}
    BY DEF GetMethod, SkipName, MethodKnown, Spool, NextMember, Finish, Receiver, pipeVars,
           writenVars, fileVars
<1>0. /\ inptr \in Nat /\ insize \in Nat /\ inbuf \in Seq(Units) /\ insize = Len(inbuf)
      /\ insize <= InBuf /\ InBuf \in Nat
    BY Constants DEF TypeInv, TypeOK, insize
<1>2. pc # "fill" /\ pc \notin Inflating
    BY <1>1 DEF Inflating
<1>3. CASE GetMethod
  <2>1. pc = "magic" /\ first' = first /\ ~ReadsItself
      BY <1>3 DEF GetMethod, SpoolInv, Control, Place
  <2>2. Buffered
      BY <1>2, <2>1 DEF Buffered, Unzipped, Place
  <2>3. /\ pc' \in {"fill", "name", "method", "failed", "done"}
        /\ pc' = "fill" => back' = "magic"
        /\ pc' # "fill" => inbuf' = inbuf /\ inbuf # <<>>
        /\ inbuf' = inbuf \/ inbuf' = <<>>
    <3>1. inptr < insize => inbuf # <<>>  BY <1>0
    <3> QED BY <1>0, <1>3, <3>1 DEF GetMethod, FillInbuf
  <2>4. ~Unzipped'
      BY <2>3 DEF Unzipped, Place, Inflating
  <2>5. ~call.stdin /\ pc' # "fill" /\ insize' < InBuf => pos = Len(sent)
      BY <1>2, <2>1, <2>2, <2>3 DEF InputInv, ShortInv, insize
  <2> QED BY <1>1, <2>2, <2>3, <2>4, <2>5, InputMoves DEF BehindInv
<1>4. CASE SkipName \/ MethodKnown \/ Spool
  <2>1. UNCHANGED work /\ pc \in {"name", "method", "spool"}
      BY <1>4 DEF SkipName, MethodKnown, Spool, formatVars
  <2>2. Buffered
      BY <2>1 DEF Buffered, Unzipped, Place, Inflating
  <2>3. /\ pc' \in {"fill", "name", "method", "spool", "rewind", "unpack"}
        /\ pc' = "fill" => back' \in {"name", "spool loop", "spool eof"}
        /\ pc' # "fill" => inbuf' = inbuf
        /\ inbuf' = inbuf \/ inbuf' = <<>>
      BY <1>4 DEF SkipName, MethodKnown, Spool, FillInbuf, StartWork, bufVars
  <2>4. Unzipped' => pc' \in Inflating
      BY <2>3 DEF Unzipped, Place
  <2>5. ~call.stdin /\ ~ReadsItself' /\ pc' # "fill" /\ insize' < InBuf => pos = Len(sent)
      BY <1>2, <2>1, <2>2, <2>3 DEF InputInv, ShortInv, insize, ReadsItself
  <2> QED BY <1>1, <2>2, <2>3, <2>4, <2>5, InputMoves DEF BehindInv
<1>5. CASE NextMember \/ Finish
  <2>1. UNCHANGED work /\ pc \in {"next", "end"} /\ inptr' = inptr
      BY <1>5 DEF NextMember, Finish, formatVars, bufVars
  <2>2. /\ pc' \in {"fill", "magic", "end", "done"}
        /\ pc' = "fill" => back' = "input_eof" /\ inbuf' = <<>>
        /\ pc' # "fill" => inbuf' = inbuf
        /\ pc' = "magic" => inptr # insize
        /\ pc' \in {"magic", "fill"} => pc = "next"
        /\ inbuf' = inbuf \/ inbuf' = <<>>
      BY <1>5 DEF NextMember, Finish, FillInbuf, bufVars
  <2>3. Unzipped' => Unzipped /\ pc' = "fill" /\ pc = "next"
      BY <1>1, <2>1, <2>2 DEF Unzipped, Place, Inflating
  <2>4. Buffered' => Buffered
    <3>1. pc = "next" /\ Unzipped => inptr = insize
        BY <1>2 DEF InputInv, BehindInv
    <3>2. pc = "next" /\ pc' = "fill" /\ Unzipped => Unzipped'
        BY <1>1, <2>1, <2>2 DEF Unzipped, Place, Inflating
    <3> QED BY <2>2, <3>1, <3>2 DEF Buffered
  <2>5. ~call.stdin /\ Buffered' /\ ~ReadsItself' /\ pc' # "fill" /\ insize' < InBuf => pos = Len(sent)
    <3>1. pc' # "fill" => ReadsItself' = ReadsItself /\ insize' = insize
        BY <2>1, <2>2 DEF insize, ReadsItself
    <3>2. pc # "magic"  BY <2>1
    <3> QED BY <1>2, <2>4, <3>1, <3>2 DEF InputInv, ShortInv
  <2>6. BehindInv'
      BY <1>1, <1>2, <2>2, <2>3 DEF InputInv, BehindInv
  <2> QED BY <1>1, <2>2, <2>4, <2>5, <2>6, InputMoves
<1> QED BY <1>3, <1>4, <1>5

\* inflateGZIP, which reads by itself, keeps InputInv.
LEMMA InputInflate ==
    InputInv /\ TypeInv /\ SpoolInv
        /\ (Rewind \/ InflateRead \/ ZlibTakes \/ ZlibPuts \/ ZlibReturns \/ InflateWrite)
        => InputInv'
<1> SUFFICES ASSUME InputInv, TypeInv, SpoolInv,
                    Rewind \/ InflateRead \/ ZlibTakes \/ ZlibPuts \/ ZlibReturns \/ InflateWrite
             PROVE  InputInv'
    OBVIOUS
<1>1. /\ UNCHANGED <<writenVars, call, inbuf, work>> /\ Receiver /\ pc \in Inflating
      /\ pc' \in Inflating \/ pc' = "next"
    BY DEF Rewind, InflateRead, ZlibTakes, ZlibPuts, ZlibReturns, InflateWrite, pipeVars,
           bufVars, formatVars, Receiver, Inflating
<1>2. work = "unzip"
    BY <1>1 DEF SpoolInv, Control
<1>3. UNCHANGED <<source, next, left, sent, insize>>
    BY <1>1 DEF writenVars, insize
<1>4. (~call.stdin => Closed)'
    BY <1>1, <1>3 DEF InputInv, Closed
<1>5. pc # "fill" /\ pc' # "fill" /\ pc # "magic"
    BY <1>1 DEF Inflating
<1>6. CASE call.stdin
  <2>1. pos' = pos
      BY <1>6 DEF Rewind, InflateRead, ZlibTakes, ZlibPuts, ZlibReturns, InflateWrite, fileVars
  <2>2. ~Unzipped /\ ~Unzipped' /\ Buffered
      BY <1>1, <1>6 DEF Unzipped, Buffered, Inflating
  <2> QED BY <1>1, <1>3, <1>6, <2>1, <2>2, InputMoves DEF BehindInv
<1>7. CASE ~call.stdin
  <2>1. Unzipped' /\ ~Buffered'
      BY <1>1, <1>2, <1>5, <1>7 DEF Unzipped, Buffered, Place
  <2>2. BehindInv'
    <3> SUFFICES ASSUME pc' \notin Inflating PROVE pos' = Len(sent) /\ inptr' = insize
        BY <1>3, <1>5 DEF BehindInv
    <3>1. InflateRead
        BY DEF Rewind, ZlibTakes, ZlibPuts, ZlibReturns, InflateWrite, Inflating
    <3> DEFINE n == Least(Buf, Len(sent) - pos)
    <3>2. pos' = pos + n /\ n = 0 /\ inptr' = insize
        BY <1>7, <3>1 DEF InflateRead, Inflating
    <3>3. pos \in Nat /\ Len(sent) \in Nat /\ Buf \in Nat \ {0}
        BY Constants DEF TypeInv, TypeOK
    <3> QED BY <3>2, <3>3 DEF Least
  <2> QED BY <1>4, <2>1, <2>2 DEF InputInv, WindowInv, ShortInv
<1> QED BY <1>6, <1>7

\* unpack, unlzw and copy keep InputInv.
LEMMA InputUnpack ==
    InputInv /\ TypeInv /\ SpoolInv /\ (Unpack \/ FlushWindow \/ OutputFails) => InputInv'
<1> SUFFICES ASSUME InputInv, TypeInv, SpoolInv, Unpack \/ FlushWindow \/ OutputFails PROVE InputInv'
    OBVIOUS
<1>1. /\ UNCHANGED <<call, pos, sent, work>> /\ Receiver
      /\ pc \in {"unpack", "flush", "write"}
    BY DEF Unpack, FlushWindow, OutputFails, Receiver, pipeVars, writenVars, fileVars, formatVars
<1>2. CASE Unpack \/ FlushWindow
  <2>1. pc \in {"unpack", "flush"}  BY <1>2 DEF Unpack, FlushWindow
  <2>2. Buffered /\ ~Unzipped
      BY <2>1 DEF Buffered, Unzipped, Place, Inflating
  <2>3. /\ pc' \in {"fill", "unpack", "flush", "next", "failed"}
        /\ pc' = "fill" => back' = "unpack"
        /\ pc' # "fill" => inbuf' = inbuf
        /\ inbuf' = inbuf \/ inbuf' = <<>>
        /\ pc' = "next" => back = "next" /\ pc = "flush"
    <3>1. pc = "flush" => back \in {"unpack", "next", "failed"}
        BY DEF TypeInv, AfterFlush
    <3> QED BY <1>2, <3>1 DEF Unpack, FlushWindow, FillInbuf, Flush, bufVars
  <2>4. work # "unzip" /\ ~Unzipped'
      BY <1>1, <2>1 DEF SpoolInv, Control, Place, Unzipped
  <2>5. ~call.stdin /\ ~ReadsItself' /\ pc' # "fill" /\ insize' < InBuf => pos = Len(sent)
      BY <1>1, <2>1, <2>2, <2>3 DEF InputInv, ShortInv, insize, ReadsItself
  <2> QED BY <1>1, <2>2, <2>3, <2>4, <2>5, InputMoves DEF BehindInv
<1>3. CASE OutputFails
  <2>1. pc' = "failed" /\ UNCHANGED <<pos, inbuf>>
      BY <1>3 DEF OutputFails, fileVars, bufVars
  <2>2. ~Buffered' /\ ~Unzipped'
      BY <2>1 DEF Buffered, Unzipped, Place, Inflating
  <2> QED BY <1>1, <2>1, <2>2, InputMoves DEF BehindInv
<1> QED BY <1>2, <1>3

\* InputInv holds forever.
LEMMA InputInvariant == Spec => []InputInv
<1>1. InputInv /\ TypeInv /\ WritenInv /\ SpoolInv /\ [Next]_vars => InputInv'
  <2> SUFFICES ASSUME InputInv, TypeInv, WritenInv, SpoolInv, [Next]_vars PROVE InputInv'
      OBVIOUS
  <2>1. CASE UNCHANGED vars
    <3>1. UNCHANGED <<source, next, left, sent, call, first, pc, back, pos, inbuf, inptr, work>>
        BY <2>1 DEF vars, writenVars, gunzipVars, fileVars, bufVars, formatVars
    <3>2. UNCHANGED <<Place, insize, ReadsItself, Closed, Unzipped, Buffered>>
        BY <3>1 DEF Place, insize, ReadsItself, Closed, Unzipped, Buffered
    <3> QED BY <3>1, <3>2 DEF InputInv, WindowInv, ShortInv, BehindInv
  <2> QED BY <2>1, InputSender, InputPiece, InputFill, InputLoop, InputInflate, InputUnpack
          DEF Next, Receiver, Ended
<1> QED BY <1>1, InputStarts, WritenInvariant, TypeInvariant, SpoolInvariant, PTL DEF Spec

\* Only what get_method finds changes whether fill_inbuf copies.
LEMMA CopyingBefore ==
    ASSUME TypeInv, SpoolInv, Receiver, Copying'
    PROVE  Copying
<1>1. call' = call /\ pc \notin {"done", "failed"}
    BY ReceiverLeaves
<1>2. lost \in BOOLEAN /\ (lost => lost')
    BY DEF TypeInv, TypeOK, Receiver, FillPiece, InputFails, FillReturns, FillAtEnd, GetMethod, SkipName,
       MethodKnown, Spool, NextMember, Finish, Rewind, InflateRead, ZlibTakes,
       ZlibPuts, ZlibReturns, InflateWrite, Unpack, FlushWindow, OutputFails, outVars
<1>3. ~ReadsItself
  <2>1. CASE GetMethod
      BY <2>1 DEF GetMethod, SpoolInv, Control, Place
  <2>2. CASE ~GetMethod
    <3>1. work' = work
        BY <2>2 DEF Receiver, FillPiece, InputFails, FillReturns, FillAtEnd, SkipName,
           MethodKnown, Spool, NextMember, Finish, Rewind, InflateRead, ZlibTakes,
           ZlibPuts, ZlibReturns, InflateWrite, Unpack, FlushWindow, OutputFails, formatVars
    <3> QED BY <3>1 DEF Copying, ReadsItself
  <2> QED BY <2>1, <2>2
<1> QED BY <1>1, <1>2, <1>3 DEF Copying

\* "tempfd" does not get longer than what is read, or than it was.
TempInv == Copying => Len(temp) = pos \/ Len(temp) = Len(call.old)

\* TempInv holds forever.
LEMMA TempInvariant == Spec => []TempInv
<1>1. Init => TempInv
  <2> SUFFICES ASSUME Init PROVE TempInv  OBVIOUS
  <2>1. call.old \in Seq(Kinds)
      BY Constants DEF Init, Call
  <2>2. Len(temp) = Len(call.old)
      BY <2>1 DEF Init
  <2> QED BY <2>2 DEF TempInv
<1>2. TempInv /\ TypeInv /\ WritenInv /\ SpoolInv /\ [Next]_vars => TempInv'
  <2> SUFFICES ASSUME TempInv, TypeInv, WritenInv, SpoolInv, [Next]_vars PROVE TempInv'
      OBVIOUS
  <2>1. CASE UNCHANGED vars \/ Sender
    <3>1. UNCHANGED <<call, pc, work, lost, temp, pos>>
        BY <2>1 DEF Sender, vars, gunzipVars, fileVars, formatVars, outVars
    <3> QED BY <3>1 DEF TempInv, Copying, ReadsItself
  <2>2. CASE FillPiece
    <3> SUFFICES ASSUME Copying' PROVE Len(temp') = pos' \/ Len(temp') = Len(call'.old)
        BY DEF TempInv
    <3>1. Copying /\ call' = call
        BY <2>2, CopyingBefore, ReceiverLeaves DEF Receiver
    <3>2. call.stdin /\ ~ReadsItself /\ lost' = FALSE /\ ~Drained
      <4>1. ~Drained  BY <2>2, <3>1 DEF FillPiece, FillOver, Drained, Copying
      <4>2. lost' = FALSE  BY <2>2 DEF Copying, FillPiece, TypeInv, TypeOK
      <4> QED BY <3>1, <4>1, <4>2 DEF Copying
    <3>3. tpos = pos
        BY <3>1, <3>2 DEF SpoolInv, OffsetInv
    <3>4. PICK n \in 1 .. Least(Len(sent) - pos, InBuf - insize) :
            /\ pos' = pos + n
            /\ \E k \in 1 .. n :
                /\ temp' = Overwrite(temp, tpos, SubSeq(SubSeq(sent, pos + 1, pos + n), 1, k))
                /\ lost' = (lost \/ k < n)
        BY <2>2, <3>2 DEF FillPiece
    <3>5. PICK k \in 1 .. n :
            /\ temp' = Overwrite(temp, tpos, SubSeq(SubSeq(sent, pos + 1, pos + n), 1, k))
            /\ lost' = (lost \/ k < n)
        BY <3>4
    <3>6. /\ pos \in Nat /\ Len(sent) \in Nat /\ sent \in Seq(Units) /\ insize \in Nat
          /\ temp \in Seq(Units) /\ tpos <= Len(temp) /\ lost \in BOOLEAN
        BY <2>2 DEF TypeInv, TypeOK, insize, WritenInv, FillPiece
    <3>7. n \in Nat /\ n >= 1 /\ n <= Len(sent) - pos
        BY <3>6, Constants DEF Least
    <3>8. k = n
      <4>1. ~(k < n)  BY <3>2, <3>5
      <4> QED BY <3>7, <4>1
    <3> DEFINE whole == SubSeq(sent, pos + 1, pos + n)
               piece == SubSeq(whole, 1, n)
    <3>9. whole \in Seq(Units) /\ Len(whole) = n
        BY <3>6, <3>7
    <3>10. temp' = Overwrite(temp, pos, piece)
        BY <3>3, <3>5, <3>8
    <3> HIDE DEF whole
    <3>11. piece \in Seq(Units) /\ Len(piece) = n
        BY <3>7, <3>9
    <3> HIDE DEF piece
    <3>12. /\ Len(temp') = Len(temp) \/ Len(temp') = pos + Len(piece)
           /\ Len(temp') >= pos + Len(piece) /\ Len(temp') \in Nat
      <4>1. pos <= Len(temp)  BY <3>3, <3>6
      <4> QED BY <3>6, <3>10, <3>11, <4>1, OverwriteFile
    <3> QED BY <3>1, <3>4, <3>6, <3>7, <3>11, <3>12 DEF TempInv
  <2>3. CASE Receiver /\ ~FillPiece
    <3>1. Copying' => Copying /\ call' = call
        BY <2>3, CopyingBefore, ReceiverLeaves
    <3>2. Copying' => temp' = temp /\ pos' = pos
      <4>1. CASE Finish \/ OutputFails \/ InputFails
          BY <4>1 DEF Finish, OutputFails, InputFails, Copying
      <4>2. CASE Rewind \/ InflateRead
          BY <3>1, <4>2 DEF Rewind, InflateRead, Copying
      <4>3. CASE FillReturns \/ FillAtEnd \/ GetMethod \/ SkipName \/ MethodKnown \/ Spool \/ NextMember
                 \/ ZlibTakes \/ ZlibPuts \/ ZlibReturns \/ InflateWrite \/ Unpack \/ FlushWindow
          BY <4>3 DEF FillReturns, FillAtEnd, GetMethod, SkipName, MethodKnown, Spool, NextMember,
                      ZlibTakes, ZlibPuts, ZlibReturns, InflateWrite, Unpack, FlushWindow, fileVars
      <4> QED BY <2>3, <4>1, <4>2, <4>3 DEF Receiver
    <3> QED BY <3>1, <3>2 DEF TempInv
  <2> QED BY <2>1, <2>2, <2>3 DEF Next, Ended
<1> QED BY <1>1, <1>2, WritenInvariant, TypeInvariant, SpoolInvariant, PTL DEF Spec

\* Behind the last unit that writen writes, at least so many have been sent.
LEMMA SentIsLong ==
    ASSUME WritenInv, Closed
    PROVE  Len(sent) >= Len(source)
<1> DEFINE P == {n \in Nat : 1 <= n /\ n <= Len(sent) => sent[n].id <= n}
<1>1. sent \in Seq(Units) /\ Len(sent) \in Nat /\ Len(source) \in Nat
    BY DEF WritenInv
<1>2. \A i \in 1 .. Len(sent) : sent[i].id \in Int
  <2>1. \A i \in 1 .. Len(sent) : sent[i] \in Units  BY <1>1
  <2> QED BY <2>1 DEF Units
<1>3. 0 \in P  OBVIOUS
<1>4. ASSUME NEW n \in Nat, n \in P PROVE n + 1 \in P
  <2> SUFFICES ASSUME n + 1 <= Len(sent) PROVE sent[n + 1].id <= n + 1
      OBVIOUS
  <2>1. n + 1 \in 1 .. Len(sent)  BY <1>1
  <2>2. sent[n + 1].id <= IF n + 1 = 1 THEN 1 ELSE sent[n + 1 - 1].id + 1
      BY <2>1 DEF WritenInv, Ascending
  <2>3. CASE n = 0  BY <2>2, <2>3
  <2>4. CASE n # 0
    <3>1. sent[n].id <= n /\ n \in 1 .. Len(sent)  BY <1>1, <1>4, <2>4
    <3>2. n + 1 - 1 = n  OBVIOUS
    <3> QED BY <1>2, <2>1, <2>2, <2>4, <3>1, <3>2
  <2> QED BY <2>3, <2>4
<1> HIDE DEF P
<1>5. Nat \subseteq P  BY <1>3, <1>4, NatSetInduction
<1>6. LastId = Len(source)
    BY <1>1 DEF WritenInv, Closed
<1>7. CASE sent = <<>>
    BY <1>1, <1>6, <1>7 DEF LastId
<1>8. CASE sent # <<>>
  <2>1. Len(sent) \in 1 .. Len(sent)  BY <1>1, <1>8
  <2>2. sent[Len(sent)].id = Len(source)  BY <1>6, <1>8 DEF LastId
  <2>3. sent[Len(sent)].id <= Len(sent)
    <3>1. Len(sent) \in P  BY <1>1, <1>5
    <3> QED BY <2>1, <3>1 DEF P
  <2> QED BY <1>1, <2>2, <2>3
<1> QED BY <1>7, <1>8

\* The runs OutputIsContent speaks of.
Regular == ~lost /\ ~Leftover /\ \A i \in 1 .. Len(sent) : sent[i].kind # "k"

\* What unzip reads is all that was sent, from its first unit.
LEMMA UnzipsTheInput ==
    ASSUME TypeInv, WritenInv, SpoolInv, InputInv, TempInv, Regular, pc \in Inflating
    PROVE  /\ Closed
           /\ call.stdin => pos = Len(sent) /\ temp = sent
<1>1. CASE ~call.stdin  BY <1>1 DEF InputInv
<1>2. CASE call.stdin
  <2>1. Copying /\ ~first /\ ~lastMember
      BY <1>2 DEF Regular, SpoolInv, Control, Copying, Inflating, ReadsItself
  <2>2. Drained
      BY <2>1 DEF SpoolInv, PassedInv, Place, SpoolPlaces, Inflating
  <2>3. /\ pos = Len(sent) /\ Closed /\ pos <= Len(temp)
        /\ \A i \in 1 .. pos : temp[i] = sent[i]
      BY <2>1, <2>2 DEF SpoolInv, CopyInv, Drained
  <2>4. sent \in Seq(Units) /\ temp \in Seq(Units)
      BY DEF WritenInv, TypeInv, TypeOK
  <2>5. Len(sent) >= Len(call.old)
    <3>1. call.old \in Seq(Kinds) /\ call.stream \in Seq(Kinds) /\ source = call.stream
        BY DEF TypeInv, TypeOK, Call
    <3>2. ~(Len(call.old) > Len(call.stream))
        BY <1>2 DEF Regular, Leftover
    <3> QED BY <2>3, <2>4, <3>1, <3>2, SentIsLong
  <2>6. Len(temp) = Len(sent)
    <3>1. call.old \in Seq(Kinds)  BY DEF TypeInv, Call
    <3> QED BY <2>1, <2>3, <2>4, <2>5, <3>1 DEF TempInv
  <2>7. temp = sent
      BY <2>3, <2>4, <2>6
  <2> QED BY <2>3, <2>7
<1> QED BY <1>1, <1>2

-----------------------------------------------------------------------------
(* The output.                                                               *)

\* Where a reader of what is sent is behind n units, and what has come out.
Read == Reading(sent, call.force)
Mode(n) == Read[n].mode
Text(n) == Read[n].content

Output == out \o chunk
Pending == [k \in 1 .. zlib.rest |-> zlib.id]
Consumed == IF pc = "fill" THEN pos - insize ELSE pos - insize + inptr
readAt == IF call.stdin THEN tpos ELSE pos
Taken == readAt - Len(in)
InBuffer == pc # "fill" => inptr <= insize
NotGzip == sent # <<>> /\ sent[1].kind \notin Gzip

\* All has come out.
Complete == Closed /\ chunk = <<>> /\ out = Content(sent)

\* A member of pack is over.
MemberOver == ~call.stdin /\ NotGzip /\ InBuffer /\ Output = Text(Consumed) /\ Mode(Consumed) = "packed end"

\* unpack, unlzw or copy is in the data.
Working ==
    /\ work \in {"unpack", "unlzw", "copy"}
    /\ NotGzip /\ InBuffer /\ Output = Text(Consumed)
    /\ work = "unpack" => Mode(Consumed) = "packed"
    /\ work = "unlzw" => Mode(Consumed) = "lzw"
    /\ work = "copy" =>
         Mode(Consumed) = "copied" \/ (Consumed < Len(sent) /\ Mode(Consumed + 1) = "copied")

\* From standard input, nothing is left for unpack.
Stuck ==
    /\ Drained /\ out = <<>> /\ chunk = <<>>
    /\ IF pc = "fill" THEN inbuf = <<>> ELSE inptr >= insize

\* unzip finds nothing at the beginning of a file that begins with another format,
\* or with a header that is accepted with -ff only.
ReadyToUnzip ==
    /\ sent # <<>> /\ chunk = <<>>
    /\ NotGzip => out = Content(sent) /\ (Closed \/ Mode(1) = "garbage")
    /\ ~NotGzip => out = <<>>

UnzipOver ==
    /\ Complete /\ pos = Len(sent)
    /\ IF pc = "fill" THEN inbuf = <<>> ELSE inptr = insize

\* Where zlib is, and where the reader of the format.
Decoding ==
    /\ 0 <= Taken /\ readAt <= Len(sent)
    /\ \A i \in 1 .. Len(in) : in[i] = sent[Taken + i]
    /\ sent # <<>>
    /\ zlib.rest > 0 => zlib.mode = "body"
    /\ zlib.mode = "bad" \/ NotGzip => zlib.rest = 0 /\ Output = Content(sent)
    /\ NotGzip => zlib.mode = "bad" \/ (zlib.mode = "head" /\ Taken = 0)
    /\ zlib.mode # "bad" /\ ~NotGzip =>
        /\ Output \o Pending = Text(Taken)
        /\ zlib.mode = "head" => Taken = 0 \/ Mode(Taken) = "end"
        /\ zlib.mode = "name" => Mode(Taken) = "name"
        /\ zlib.mode = "body" => Mode(Taken) = "data"
        /\ zlib.mode = "end" => Mode(Taken) = "end"
    /\ pc = "read" => chunk = <<>> /\ (zlib.mode = "bad" \/ (in = <<>> /\ zlib.rest = 0))
    /\ pc = "write" => \/ zlib.mode \in {"bad", "end"} \/ (zlib.rest = 0 /\ in = <<>>)
                       \/ (zlib.rest > 0 /\ Len(chunk) = Buf)

AtMagic ==
    /\ chunk = <<>> /\ InBuffer
    /\ first => Consumed = 0 /\ out = <<>>
    /\ ~first => MemberOver
AtMethod ==
    /\ call.stdin => first
    /\ work = "unzip" => ReadyToUnzip
    /\ work # "unzip" => Working /\ chunk = <<>> /\ (first => out = <<>>)
AtSpool ==
    /\ work = "unzip" => ReadyToUnzip
    /\ work = "unpack" => out = <<>> /\ chunk = <<>>
    /\ work \notin {"unzip", "unpack"} => Working /\ pc = "spool"
AtUnpack ==
    /\ call.stdin /\ work = "unpack" => Stuck
    /\ ~(call.stdin /\ work = "unpack") => Working
AtFlush ==
    /\ back = "unpack" => AtUnpack
    /\ back = "next" /\ ReadsItself => Drained /\ Output = Content(sent)
    /\ back = "next" /\ ~ReadsItself => work = "unpack" /\ MemberOver
    /\ back = "failed" => \E n \in 0 .. Len(sent) : Output = Text(n)
AtNext ==
    /\ chunk = <<>>
    /\ work = "unzip" => UnzipOver
    /\ ReadsItself => pc = "next" /\ Complete
    /\ work # "unzip" /\ ~ReadsItself => work = "unpack" /\ MemberOver /\ ~first

PlaceInv ==
    /\ Place = "magic" => AtMagic
    /\ Place = "name" => ReadyToUnzip /\ (call.stdin => first)
    /\ Place = "method" => AtMethod
    /\ Place \in SpoolPlaces => AtSpool
    /\ Place = "unpack" => AtUnpack
    /\ Place = "flush" => AtFlush
    /\ Place \in {"next", "input_eof"} => AtNext
    /\ Place = "rewind" => ReadyToUnzip
    /\ Place \in {"read", "inflate", "write"} => Decoding
    /\ Place \in {"end", "done"} => Complete

\* What is not used is empty, and what has come out is right wherever the program is.
OutputInv ==
    /\ out \in Seq(Int)
    /\ pc \notin {"read", "inflate", "write", "failed"} => in = <<>>
    /\ Regular => Begins(out, Content(sent)) /\ PlaceInv

AllInv == WritenInv /\ TypeInv /\ SpoolInv /\ InputInv /\ TempInv /\ OutputInv

\* The types that the proofs of this part use.
LEMMA OutputTypes ==
    ASSUME AllInv
    PROVE  /\ sent \in Seq(Units) /\ Len(sent) \in Nat
           /\ pos \in Nat /\ pos <= Len(sent) /\ insize \in Nat /\ insize = Len(inbuf)
           /\ inptr \in Nat /\ insize <= InBuf /\ InBuf \in Nat /\ inbuf \in Seq(Units)
           /\ out \in Seq(Int) /\ chunk \in Seq(Int) /\ Output \in Seq(Int)
           /\ (chunk = <<>> => Output = out)
<1>1. /\ sent \in Seq(Units) /\ Len(sent) \in Nat
      /\ pos \in Nat /\ pos <= Len(sent) /\ insize \in Nat /\ insize = Len(inbuf)
      /\ inptr \in Nat /\ insize <= InBuf /\ InBuf \in Nat /\ inbuf \in Seq(Units)
    BY Constants DEF AllInv, WritenInv, TypeInv, TypeOK, insize
<1>2. out \in Seq(Int) /\ chunk \in Seq(Int)
    BY DEF AllInv, TypeInv, TypeOK, ZlibOK, OutputInv
<1> QED BY <1>1, <1>2 DEF Output

\* Where the reader is behind each unit.
LEMMA ReaderTypes ==
    ASSUME WritenInv
    PROVE  /\ Mode(0) = "start" /\ Text(0) = <<>>
           /\ Content(sent) = Text(Len(sent)) /\ Content(sent) \in Seq(Int)
           /\ \A n \in 0 .. Len(sent) :
                /\ Mode(n) \in Modes /\ Text(n) \in Seq(Int)
                /\ Begins(Text(n), Content(sent))
                /\ Mode(n) = "garbage" => Text(n) = Content(sent)
<1>1. sent \in Seq(Units) /\ Len(sent) \in Nat
    BY DEF WritenInv
<1>2. Mode(0) = "start" /\ Text(0) = <<>>
    BY <1>1, ReadingSteps DEF Mode, Text, Read
<1>3. Content(sent) = Text(Len(sent))
    BY DEF Content, Text, Read
<1>4. \A n \in 0 .. Len(sent) : Mode(n) \in Modes /\ Text(n) \in Seq(Int)
    BY <1>1, ReadingType DEF Mode, Text, Read, Readers
<1>5. ASSUME NEW n \in 0 .. Len(sent)
      PROVE  /\ Begins(Text(n), Content(sent))
             /\ Mode(n) = "garbage" => Text(n) = Content(sent)
  <2>1. n \in Nat /\ n <= Len(sent) /\ Len(sent) <= Len(sent)  BY <1>1
  <2> QED BY <1>1, <1>3, <2>1, ContentGrows DEF Mode, Text, Read
<1>6. Len(sent) \in 0 .. Len(sent)  BY <1>1
<1> QED BY <1>2, <1>3, <1>4, <1>5, <1>6

\* What the reader of the format makes of the unit that get_byte returns.
LEMMA NextUnit ==
    ASSUME WritenInv, NEW n \in Nat, n < Len(sent)
    PROVE  /\ n + 1 \in 1 .. Len(sent) /\ sent[n + 1] \in Units
           /\ Mode(n + 1) = Behind(Mode(n), sent[n + 1].kind, call.force)
           /\ Text(n + 1) =
                IF \/ Mode(n + 1) = "copied"
                   \/ sent[n + 1].kind = "d" /\ Mode(n + 1) \in {"data", "packed", "lzw"}
                THEN Text(n) \o [k \in 1 .. Times(sent) |-> sent[n + 1].id]
                ELSE Text(n)
<1>1. sent \in Seq(Units) /\ n + 1 \in 1 .. Len(sent) /\ n + 1 - 1 = n /\ sent[n + 1] \in Units
    BY DEF WritenInv
<1>2. Read[n + 1] = Beyond(Read[n], sent[n + 1], Times(sent), call.force)
    BY <1>1, ReadingSteps DEF Read
<1>3. Read[n + 1].mode = Behind(Read[n].mode, sent[n + 1].kind, call.force)
    BY <1>2 DEF Beyond
<1>4. Read[n + 1].content =
        IF \/ Read[n + 1].mode = "copied"
           \/ sent[n + 1].kind = "d" /\ Read[n + 1].mode \in {"data", "packed", "lzw"}
        THEN Read[n].content \o [k \in 1 .. Times(sent) |-> sent[n + 1].id]
        ELSE Read[n].content
    BY <1>2, <1>3 DEF Beyond
<1> QED BY <1>1, <1>3, <1>4 DEF Mode, Text

\* A step of the program changes nothing of that.
LEMMA ReaderStays ==
    ASSUME Receiver
    PROVE  /\ sent' = sent /\ call' = call /\ Closed' = Closed
           /\ Read' = Read /\ NotGzip' = NotGzip /\ Content(sent)' = Content(sent)
<1>1. /\ sent' = sent /\ call' = call /\ Closed' = Closed
    BY ReceiverLeaves DEF writenVars, Closed
<1> QED BY <1>1 DEF Read, NotGzip, Content

\* The next unit of inbuf is the next that is consumed.
LEMMA InbufUnit ==
    ASSUME AllInv, Buffered, pc # "fill", inptr < insize
    PROVE  /\ Consumed \in Nat /\ Consumed < Len(sent)
           /\ inbuf[inptr + 1] = sent[Consumed + 1]
<1>1. /\ insize <= pos
      /\ \A i \in 1 .. insize : inbuf[i] = sent[pos - insize + i]
    BY DEF AllInv, InputInv, WindowInv
<1>2. Consumed = pos - insize + inptr
    BY DEF Consumed
<1>3. inptr \in Nat /\ insize \in Nat /\ pos \in Nat /\ pos <= Len(sent) /\ Len(sent) \in Nat
    BY OutputTypes
<1>4. inptr + 1 \in 1 .. insize /\ pos - insize + (inptr + 1) = Consumed + 1
    BY <1>1, <1>2, <1>3
<1>5. Consumed \in Nat /\ Consumed < Len(sent)
    BY <1>1, <1>2, <1>3
<1> QED BY <1>1, <1>4, <1>5

\* get_byte has returned no more than was sent.
LEMMA ConsumedType ==
    ASSUME AllInv, Buffered, InBuffer
    PROVE  Consumed \in 0 .. Len(sent)
<1>1. insize <= pos  BY DEF AllInv, InputInv, WindowInv
<1> QED BY <1>1, OutputTypes DEF Consumed, InBuffer

\* An input that is regular now was regular a step before.
LEMMA RegularBefore ==
    ASSUME AllInv, Receiver \/ Sender, Regular'
    PROVE  Regular /\ Begins(out, Content(sent)) /\ PlaceInv
<1>1. Regular
  <2>1. CASE Receiver
    <3>1. UNCHANGED <<sent, call, source>>  BY <2>1, ReceiverLeaves DEF writenVars
    <3>2. lost \in BOOLEAN /\ (lost => lost')
      BY <2>1 DEF AllInv, TypeInv, TypeOK, Receiver, FillPiece, InputFails, FillReturns, FillAtEnd, GetMethod, SkipName,
       MethodKnown, Spool, NextMember, Finish, Rewind, InflateRead, ZlibTakes,
       ZlibPuts, ZlibReturns, InflateWrite, Unpack, FlushWindow, OutputFails, outVars
    <3> QED BY <3>1, <3>2 DEF Regular, Leftover
  <2>2. CASE Sender
    <3>1. UNCHANGED <<call, lost>>
        BY <2>2 DEF Sender, gunzipVars, outVars
    <3>2. /\ Len(sent) \in Nat /\ Len(sent') \in Nat /\ Len(sent') >= Len(sent)
          /\ \A i \in 1 .. Len(sent) : sent'[i] = sent[i]
        BY <2>2, SentGrows, OutputTypes DEF Sender, AllInv
    <3>3. \A i \in 1 .. Len(sent) : sent[i].kind # "k"
      <4> TAKE i \in 1 .. Len(sent)
      <4>1. i \in 1 .. Len(sent')  BY <3>2
      <4> QED BY <3>2, <4>1 DEF Regular
    <3> QED BY <3>1, <3>3 DEF Regular, Leftover
  <2> QED BY <2>1, <2>2
<1> QED BY <1>1 DEF AllInv, OutputInv

\* fill_inbuf, when it returns or finds the end of the file, keeps the place's part.
LEMMA OutputFill ==
    ASSUME AllInv, InputFails \/ FillReturns \/ FillAtEnd, Regular, PlaceInv
    PROVE  PlaceInv'
<1>1. Receiver
    BY DEF InputFails, FillReturns, FillAtEnd, Receiver
<1>2. /\ UNCHANGED <<call, sent, source, first, work, lastMember, pos, temp, tpos, zlib, in,
                     chunk, out, lost>>
    BY DEF InputFails, FillReturns, FillAtEnd, pipeVars, writenVars, fileVars, formatVars, zlibVars, outVars
<1>3. /\ UNCHANGED <<Closed, Read, NotGzip, Output, ReadsItself>> /\ Content(sent)' = Content(sent)
    BY <1>1, <1>2, ReaderStays DEF Output, ReadsItself
<1>4. UNCHANGED <<ReadyToUnzip, Complete, Drained>>
    BY <1>2, <1>3 DEF ReadyToUnzip, Complete, Drained, Mode
<1>5. CASE InputFails
  <2>1. Place' = "failed"  BY <1>5 DEF InputFails, Place
  <2> QED BY <2>1 DEF PlaceInv, SpoolPlaces
<1>6. CASE FillReturns
  <2>0. pc = "fill"  BY <1>6 DEF FillReturns
  <2>1. inbuf # <<>>  BY <1>6 DEF FillReturns
  <2>2. CASE back \in {"spool loop", "spool eof"}
    <3>1. Place' \in SpoolPlaces
        BY <1>1, <2>0, <1>6, <2>2 DEF FillReturns, FillInbuf, Place, SpoolPlaces
    <3>2. AtSpool /\ pc # "spool"
        BY <1>1, <2>0, <2>2 DEF PlaceInv, Place, SpoolPlaces
    <3>3. AtSpool'
        BY <1>2, <1>4, <3>2 DEF AtSpool
    <3> QED BY <3>1, <3>3 DEF PlaceInv, SpoolPlaces
  <2>3. CASE back \in {"input_eof", "magic", "name", "unpack"}
    <3>1. pc' = (IF back = "input_eof" THEN "magic" ELSE back) /\ inptr' = 0 /\ inbuf' = inbuf
        BY <1>6, <2>3 DEF FillReturns
    <3>2. pc' # "fill" /\ insize' = insize
        BY <2>3, <3>1 DEF insize
    <3>3. Consumed' = Consumed /\ InBuffer'
        BY <1>1, <2>0, <1>2, <3>1, <3>2, OutputTypes DEF Consumed, InBuffer
    <3>4. InBuffer  BY <1>1, <2>0 DEF InBuffer
    <3>5. UNCHANGED MemberOver /\ UNCHANGED Working
        BY <1>2, <1>3, <3>3, <3>4 DEF MemberOver, Working, Mode, Text
    <3>6. CASE back = "input_eof"
      <4>1. Place' = "magic"  BY <3>1, <3>6 DEF Place
      <4>2. AtNext  BY <1>1, <2>0, <3>6 DEF PlaceInv, Place
      <4>3. chunk = <<>> /\ MemberOver /\ ~first
          BY <1>1, <2>0, <2>1, <4>2 DEF AtNext, UnzipOver
      <4>4. AtMagic'  BY <1>2, <3>3, <3>5, <4>3 DEF AtMagic
      <4> QED BY <4>1, <4>4 DEF PlaceInv, SpoolPlaces
    <3>7. CASE back = "magic"
      <4>1. Place' = "magic"  BY <3>1, <3>7 DEF Place
      <4>2. AtMagic  BY <1>1, <2>0, <3>7 DEF PlaceInv, Place
      <4>4. AtMagic'  BY <1>2, <3>3, <3>5, <4>2 DEF AtMagic
      <4> QED BY <4>1, <4>4 DEF PlaceInv, SpoolPlaces
    <3>8. CASE back = "name"
      <4>1. Place' = "name"  BY <3>1, <3>8 DEF Place
      <4>2. ReadyToUnzip /\ (call.stdin => first)  BY <1>1, <2>0, <3>8 DEF PlaceInv, Place
      <4> QED BY <1>2, <1>4, <4>1, <4>2 DEF PlaceInv, SpoolPlaces
    <3>9. CASE back = "unpack"
      <4>1. Place' = "unpack"  BY <3>1, <3>9 DEF Place
      <4>2. AtUnpack  BY <1>1, <2>0, <3>9 DEF PlaceInv, Place
      <4>3. ~Stuck  BY <1>1, <2>0, <2>1 DEF Stuck
      <4>4. AtUnpack'  BY <1>2, <3>5, <4>2, <4>3 DEF AtUnpack
      <4> QED BY <4>1, <4>4 DEF PlaceInv, SpoolPlaces
    <3> QED BY <2>3, <3>6, <3>7, <3>8, <3>9
  <2>4. back \in {"spool loop", "spool eof", "input_eof", "magic", "name", "unpack"}
      BY <1>6 DEF FillReturns
  <2> QED BY <2>2, <2>3, <2>4
<1>7. CASE FillAtEnd
  <2>0. pc = "fill"  BY <1>7 DEF FillAtEnd
  <2>1. inbuf = <<>> /\ insize = 0 /\ FillOver /\ inbuf' = inbuf
      BY <1>7 DEF FillAtEnd, insize
  <2>2. Closed /\ pos = Len(sent) /\ Drained
      BY <2>1, Constants DEF FillOver, Drained
  <2>3. Consumed = Len(sent)
      BY <1>1, <2>0, <2>1, <2>2, OutputTypes DEF Consumed
  <2>4. Content(sent) = Text(Len(sent)) /\ Text(0) = <<>>
      BY ReaderTypes DEF AllInv
  <2>5. chunk = <<>> /\ MemberOver => Complete
      BY <2>2, <2>3, <2>4, OutputTypes DEF MemberOver, Complete
  <2>6. CASE back \in {"spool loop", "spool eof"}
    <3>2. AtSpool /\ pc # "spool"
        BY <1>1, <2>0, <2>6 DEF PlaceInv, Place, SpoolPlaces
    <3>3. CASE back = "spool loop"
      <4>1. Place' \in SpoolPlaces
          BY <1>1, <2>0, <1>7, <3>3 DEF FillAtEnd, Place, SpoolPlaces
      <4>2. AtSpool'
          BY <1>2, <1>4, <3>2 DEF AtSpool
      <4> QED BY <4>1, <4>2 DEF PlaceInv, SpoolPlaces
    <3>4. CASE back = "spool eof" /\ work = "unzip"
      <4>1. pc' = "rewind"  BY <1>7, <3>4 DEF FillAtEnd, StartWork
      <4>2. Place' = "rewind"  BY <4>1 DEF Place
      <4>3. ReadyToUnzip'  BY <1>4, <3>2, <3>4 DEF AtSpool
      <4> QED BY <4>2, <4>3 DEF PlaceInv, SpoolPlaces
    <3>5. CASE back = "spool eof" /\ work # "unzip"
      <4>1. pc' = "unpack"  BY <1>7, <3>5 DEF FillAtEnd, StartWork
      <4>2. Place' = "unpack"  BY <4>1 DEF Place
      <4>3. work = "unpack" /\ out = <<>> /\ chunk = <<>>  BY <3>2, <3>5 DEF AtSpool
      <4>4. call.stdin
          BY <1>1, <2>0, <3>5 DEF AllInv, SpoolInv, Control, Place, SpoolPlaces
      <4>5. inptr' = inptr /\ insize' = 0
          BY <1>7, <2>1, <3>5 DEF FillAtEnd, insize
      <4>6. Stuck'
          BY <1>2, <1>4, <2>2, <4>1, <4>3, <4>5, OutputTypes DEF Stuck
      <4>7. AtUnpack'  BY <1>2, <4>3, <4>4, <4>6 DEF AtUnpack
      <4> QED BY <4>2, <4>7 DEF PlaceInv, SpoolPlaces
    <3> QED BY <2>6, <3>3, <3>4, <3>5
  <2>7. CASE back = "unpack"
    <3>1. pc' = "flush" /\ back' = IF ReadsItself THEN "next" ELSE "failed"
        BY <1>7, <2>7 DEF FillAtEnd
    <3>2. Place' = "flush"  BY <3>1 DEF Place
    <3>3. AtUnpack  BY <1>1, <2>0, <2>7 DEF PlaceInv, Place
    <3>4. CASE ReadsItself
      <4>1. Working  BY <3>3, <3>4 DEF AtUnpack, ReadsItself
      <4>2. Output = Content(sent)  BY <2>3, <2>4, <4>1 DEF Working
      <4>3. AtFlush'  BY <1>3, <1>4, <2>2, <3>1, <3>4, <4>2 DEF AtFlush
      <4> QED BY <3>2, <4>3 DEF PlaceInv, SpoolPlaces
    <3>5. CASE ~ReadsItself
      <4>1. Output = Text(0) \/ Output = Text(Len(sent))
          BY <2>3, <2>4, <3>3, OutputTypes DEF AtUnpack, Working, Stuck
      <4>2. \E n \in 0 .. Len(sent) : Output = Text(n)
          BY <4>1, OutputTypes
      <4>3. \E n \in 0 .. Len(sent') : Output' = Text(n)'
          BY <1>2, <1>3, <4>2 DEF Text
      <4>4. AtFlush'  BY <3>1, <3>5, <4>3 DEF AtFlush
      <4> QED BY <3>2, <4>4 DEF PlaceInv, SpoolPlaces
    <3> QED BY <3>4, <3>5
  <2>8. CASE back \in {"input_eof", "magic", "name"}
    <3>1. /\ pc' \in {"end", "failed"}
          /\ pc' = "end" => back \in {"input_eof", "magic"}
        BY <1>7, <2>8 DEF FillAtEnd
    <3>2. pc' = "end" => Complete
      <4>1. CASE back = "input_eof"
        <5>1. AtNext  BY <1>1, <2>0, <4>1 DEF PlaceInv, Place
        <5> QED BY <1>1, <2>0, <2>5, <5>1 DEF AtNext, UnzipOver
      <4>2. CASE back = "magic"
        <5>1. AtMagic  BY <1>1, <2>0, <4>2 DEF PlaceInv, Place
        <5>2. first => Len(sent) = 0 /\ out = <<>>  BY <2>3, <5>1 DEF AtMagic
        <5> QED BY <2>2, <2>4, <2>5, <5>1, <5>2 DEF AtMagic, Complete
      <4> QED BY <3>1, <4>1, <4>2
    <3>3. Place' = pc'  BY <3>1 DEF Place
    <3> QED BY <1>4, <3>1, <3>2, <3>3 DEF PlaceInv, SpoolPlaces
  <2>9. back \in {"spool loop", "spool eof", "input_eof", "magic", "name", "unpack"}
      BY <1>7 DEF FillAtEnd
  <2> QED BY <2>6, <2>7, <2>8, <2>9
<1> QED BY <1>5, <1>6, <1>7

\* So does a read() of fill_inbuf.
LEMMA OutputPiece ==
    ASSUME AllInv, FillPiece, Regular, PlaceInv
    PROVE  PlaceInv'
<1>1. pc = "fill" /\ Receiver /\ ~FillOver
    BY DEF FillPiece, Receiver
<1>2. UNCHANGED <<call, sent, source, first, work, lastMember, zlib, in, chunk, out, pc, back>>
    BY DEF FillPiece, pipeVars, writenVars, formatVars, zlibVars
<1>3. /\ UNCHANGED <<Closed, Read, NotGzip, Output, ReadsItself, Place>>
      /\ Content(sent)' = Content(sent)
    BY <1>1, <1>2, ReaderStays DEF Output, ReadsItself, Place
<1>4. UNCHANGED <<ReadyToUnzip, Complete>>
    BY <1>2, <1>3 DEF ReadyToUnzip, Complete, Mode
<1>5. ~Drained
    BY <1>1 DEF FillOver, Drained
<1>6. Consumed' = Consumed
  <2>1. \E n \in Nat : pos' = pos + n /\ insize' = insize + n
      BY PieceRead DEF AllInv
  <2>2. Consumed = pos - insize /\ Consumed' = pos' - insize'
      BY <1>1, <1>2 DEF Consumed
  <2> QED BY <2>1, <2>2, OutputTypes, SMTT(30)
<1>7. UNCHANGED MemberOver /\ UNCHANGED Working
    BY <1>1, <1>2, <1>3, <1>6 DEF MemberOver, Working, Mode, Text, InBuffer
<1>8. back \in Backs  BY DEF AllInv, TypeInv, TypeOK
<1>9. Place = back  BY <1>1 DEF Place
<1>10. CASE back = "magic"
  <2>1. AtMagic  BY <1>9, <1>10 DEF PlaceInv
  <2>2. AtMagic'  BY <1>1, <1>2, <1>6, <1>7, <2>1 DEF AtMagic, InBuffer
  <2> QED BY <1>3, <1>9, <1>10, <2>2 DEF PlaceInv, SpoolPlaces
<1>11. CASE back = "name"
  <2> QED BY <1>2, <1>3, <1>4, <1>9, <1>11 DEF PlaceInv, SpoolPlaces
<1>12. CASE back \in {"spool loop", "spool eof"}
  <2>1. AtSpool  BY <1>9, <1>12 DEF PlaceInv, SpoolPlaces
  <2>2. AtSpool'  BY <1>1, <1>2, <1>4, <2>1 DEF AtSpool
  <2> QED BY <1>3, <1>9, <1>12, <2>2 DEF PlaceInv, SpoolPlaces
<1>13. CASE back = "input_eof"
  <2>1. AtNext  BY <1>9, <1>13 DEF PlaceInv
  <2>2. ~UnzipOver /\ pc # "next"
      BY <1>1, <1>5 DEF UnzipOver, Complete, Drained
  <2>3. AtNext'  BY <1>2, <1>3, <1>7, <2>1, <2>2 DEF AtNext
  <2> QED BY <1>3, <1>9, <1>13, <2>3 DEF PlaceInv, SpoolPlaces
<1>14. CASE back = "unpack"
  <2>1. AtUnpack  BY <1>9, <1>14 DEF PlaceInv
  <2>2. ~Stuck  BY <1>5 DEF Stuck
  <2>3. AtUnpack'  BY <1>2, <1>7, <2>1, <2>2 DEF AtUnpack
  <2> QED BY <1>3, <1>9, <1>14, <2>3 DEF PlaceInv, SpoolPlaces
<1>15. CASE back \in {"next", "failed"}
  <2>1. back = "failed" \/ (AtNext /\ ~UnzipOver /\ pc # "next")
      BY <1>1, <1>5, <1>9, <1>15 DEF PlaceInv, UnzipOver, Complete, Drained
  <2>2. CASE back = "failed"
      BY <1>3, <1>9, <2>2 DEF PlaceInv, SpoolPlaces
  <2>3. CASE back = "next"
    <3>1. AtNext'  BY <1>2, <1>3, <1>7, <2>1, <2>3 DEF AtNext
    <3> QED BY <1>3, <1>9, <2>3, <3>1 DEF PlaceInv, SpoolPlaces
  <2> QED BY <1>15, <2>2, <2>3
<1> QED BY <1>8, <1>10, <1>11, <1>12, <1>13, <1>14, <1>15 DEF Backs

\* What comes in at the other end of a pipe changes nothing that has come out.
LEMMA OutputSender ==
    ASSUME AllInv, Sender, Regular, Begins(out, Content(sent)), PlaceInv
    PROVE  Begins(out, Content(sent))' /\ PlaceInv'
<1>1. UNCHANGED <<call, pc, back, pos, temp, tpos, inbuf, inptr, first, work, lastMember,
                  zlib, in, chunk, out, lost>>
    BY DEF Sender, gunzipVars, fileVars, bufVars, formatVars, zlibVars, outVars
<1>2. /\ ~Closed /\ Len(sent') \in Nat /\ Len(sent') >= Len(sent) /\ Len(sent) \in Nat
      /\ \A i \in 1 .. Len(sent) : sent'[i] = sent[i]
    BY SentGrows, OutputTypes DEF Sender, AllInv
<1>3. sent \in Seq(Units) /\ sent' \in Seq(Units)
    BY WritenKeeps DEF AllInv, Sender, WritenInv
<1>4. call.stdin
    BY <1>2 DEF AllInv, InputInv
<1>5. \A n \in 0 .. Len(sent) : Mode(n)' = Mode(n) /\ Text(n)' = Text(n)
  <2>1. \A n \in 0 .. Len(sent) : Reading(sent', call.force)[n] = Reading(sent, call.force)[n]
      BY <1>2, <1>3, ReadingAgrees
  <2> QED BY <1>1, <2>1 DEF Mode, Text, Read
<1>6. Begins(out, Content(sent))'
  <2>1. Content(sent) = Text(Len(sent)) /\ Content(sent) \in Seq(Int)
      BY ReaderTypes DEF AllInv
  <2>2. WritenInv'  BY WritenKeeps DEF AllInv, Sender
  <2>3. Content(sent)' = Reading(sent', call.force)[Len(sent')].content
      BY <1>1 DEF Content
  <2>4. Reading(sent', call.force)[Len(sent')] \in Readers
      BY <1>2, <1>3, ReadingType
  <2>5. Content(sent)' \in Seq(Int)
      BY <2>3, <2>4 DEF Readers
  <2>6. Begins(Reading(sent', call.force)[Len(sent)].content, Reading(sent', call.force)[Len(sent')].content)
      BY <1>2, <1>3, ContentGrows
  <2>7. Reading(sent', call.force)[Len(sent)].content = Content(sent)
    <3>1. Len(sent) \in 0 .. Len(sent)  BY <1>2
    <3>2. Reading(sent', call.force)[Len(sent)] = Reading(sent, call.force)[Len(sent)]
        BY <1>2, <1>3, <3>1, ReadingAgrees
    <3> QED BY <3>2 DEF Content
  <2>8. Begins(out, Content(sent)')
      BY <2>1, <2>3, <2>5, <2>6, <2>7, BeginsTransitive, OutputTypes
  <2> QED BY <1>1, <2>8 DEF Begins
<1>7. UNCHANGED <<insize, Place, Output, ReadsItself, InBuffer, Consumed>>
    BY <1>1 DEF insize, Place, Output, ReadsItself, InBuffer, Consumed
<1>8. sent # <<>> => sent' # <<>> /\ NotGzip' = NotGzip
  <2> SUFFICES ASSUME sent # <<>> PROVE sent' # <<>> /\ sent'[1] = sent[1]
      BY DEF NotGzip
  <2>1. 1 \in 1 .. Len(sent)  BY <1>3
  <2> QED BY <1>2, <1>3, <2>1
<1>9. ReadyToUnzip => ReadyToUnzip'
  <2> SUFFICES ASSUME ReadyToUnzip PROVE ReadyToUnzip'  OBVIOUS
  <2>1. CASE ~NotGzip
      BY <1>1, <1>8, <2>1 DEF ReadyToUnzip
  <2>2. CASE NotGzip
    <3>1. 1 \in 0 .. Len(sent) /\ 1 <= Len(sent') /\ 1 \in Nat /\ Len(sent') \in Nat
        BY <1>2, <1>3 DEF ReadyToUnzip
    <3>2. Mode(1) = "garbage" /\ out = Text(1)
        BY <1>2, <2>2, <3>1, ReaderTypes DEF ReadyToUnzip, AllInv
    <3>3. Reading(sent', call.force)[1] = Reading(sent, call.force)[1]
        BY <1>2, <1>3, <3>1, ReadingAgrees
    <3>4. Reading(sent', call.force)[1].mode = "garbage"
        BY <3>2, <3>3 DEF Mode, Read
    <3>5. Reading(sent', call.force)[1].content = Reading(sent', call.force)[Len(sent')].content
        BY <1>3, <3>1, <3>4, ContentGrows
    <3>6. out = Content(sent)'
        BY <1>1, <3>2, <3>3, <3>5 DEF Text, Read, Content
    <3>7. Mode(1)' = "garbage"
        BY <1>1, <3>4 DEF Mode, Read
    <3> QED BY <1>1, <1>8, <2>2, <3>6, <3>7 DEF ReadyToUnzip
  <2> QED BY <2>1, <2>2
<1>10. Working /\ Buffered => Working'
  <2> SUFFICES ASSUME Working, Buffered PROVE Working'  OBVIOUS
  <2>1. Consumed \in 0 .. Len(sent)  BY ConsumedType DEF Working
  <2>2. NotGzip'  BY <1>8 DEF Working, NotGzip
  <2>3. Mode(Consumed)' = Mode(Consumed) /\ Text(Consumed)' = Text(Consumed)
      BY <1>5, <1>7, <2>1 DEF Mode, Text
  <2>4. Consumed < Len(sent) => Consumed < Len(sent') /\ Mode(Consumed + 1)' = Mode(Consumed + 1)
    <3> SUFFICES ASSUME Consumed < Len(sent)
                 PROVE  Consumed < Len(sent') /\ Mode(Consumed + 1)' = Mode(Consumed + 1)
        OBVIOUS
    <3>1. Consumed + 1 \in 0 .. Len(sent)  BY <1>2, <2>1
    <3> QED BY <1>2, <1>5, <1>7, <2>1, <3>1 DEF Mode
  <2> QED BY <1>1, <1>7, <2>2, <2>3, <2>4 DEF Working
<1>11. ~Drained /\ ~Complete /\ ~Stuck /\ ~UnzipOver /\ ~MemberOver
    BY <1>2, <1>4 DEF Drained, Complete, Stuck, UnzipOver, MemberOver
<1>12. pc \notin Inflating
    BY <1>2, <1>11, UnzipsTheInput DEF AllInv
<1>13. CASE Place = "magic"
  <2>1. AtMagic  BY <1>13 DEF PlaceInv
  <2>2. AtMagic'  BY <1>1, <1>7, <1>11, <2>1 DEF AtMagic
  <2> QED BY <1>6, <1>7, <1>13, <2>2 DEF PlaceInv, SpoolPlaces
<1>14. CASE Place = "name"
  <2>1. ReadyToUnzip /\ (call.stdin => first)  BY <1>14 DEF PlaceInv
  <2> QED BY <1>1, <1>6, <1>7, <1>9, <1>14, <2>1 DEF PlaceInv, SpoolPlaces
<1>15. CASE Place = "method"
  <2>1. AtMethod /\ Buffered
      BY <1>15 DEF PlaceInv, Buffered, Unzipped, Place, Inflating, AllInv, TypeInv, TypeOK, Backs
  <2>2. AtMethod'  BY <1>1, <1>9, <1>10, <2>1 DEF AtMethod
  <2> QED BY <1>6, <1>7, <1>15, <2>2 DEF PlaceInv, SpoolPlaces
<1>16. CASE Place \in SpoolPlaces
  <2>1. AtSpool /\ (pc = "spool" => Buffered)
      BY <1>4, <1>16 DEF PlaceInv, Buffered, Unzipped
  <2>2. AtSpool'  BY <1>1, <1>9, <1>10, <2>1 DEF AtSpool
  <2> QED BY <1>6, <1>7, <1>16, <2>2 DEF PlaceInv, SpoolPlaces
<1>17. AtUnpack /\ Buffered => AtUnpack'
    BY <1>1, <1>10, <1>11 DEF AtUnpack
<1>18. CASE Place = "unpack"
  <2>1. AtUnpack /\ Buffered
      BY <1>4, <1>18 DEF PlaceInv, Buffered, Unzipped, Place
  <2> QED BY <1>6, <1>7, <1>17, <1>18, <2>1 DEF PlaceInv, SpoolPlaces
<1>19. CASE Place = "flush"
  <2>1. AtFlush /\ Buffered
      BY <1>4, <1>19 DEF PlaceInv, Buffered, Unzipped, Place, AllInv, TypeInv, TypeOK, Backs
  <2>2. back = "failed" => \E n \in 0 .. Len(sent') : Output' = Text(n)'
    <3> SUFFICES ASSUME back = "failed" PROVE \E n \in 0 .. Len(sent') : Output' = Text(n)'
        OBVIOUS
    <3>1. PICK n \in 0 .. Len(sent) : Output = Text(n)  BY <2>1 DEF AtFlush
    <3>2. n \in 0 .. Len(sent')  BY <1>2
    <3> QED BY <1>5, <1>7, <3>1, <3>2
  <2>3. AtFlush'
    <3>1. back = "unpack" => AtUnpack'  BY <1>17, <2>1 DEF AtFlush
    <3>2. back # "next"  BY <1>11, <2>1 DEF AtFlush
    <3> QED BY <1>1, <2>2, <3>1, <3>2 DEF AtFlush
  <2> QED BY <1>6, <1>7, <1>19, <2>3 DEF PlaceInv, SpoolPlaces
<1>20. ~(Place \in {"next", "input_eof"})
  <2>1. Place \in {"next", "input_eof"} => AtNext  BY DEF PlaceInv
  <2> QED BY <1>11, <2>1 DEF AtNext
<1>21. Place \notin Inflating
    BY <1>12 DEF Place, Inflating, AllInv, TypeInv, TypeOK, Backs
<1>22. Place \notin {"end", "done"}
    BY <1>11 DEF PlaceInv
<1>23. CASE Place = "failed"
    BY <1>6, <1>7, <1>23 DEF PlaceInv, SpoolPlaces
<1>24. Place \in {"magic", "name", "method", "unpack", "flush", "failed"} \cup SpoolPlaces
    BY <1>20, <1>21, <1>22 DEF Place, Places, Backs, Inflating, SpoolPlaces, AllInv, TypeInv, TypeOK
<1> QED BY <1>13, <1>14, <1>15, <1>16, <1>18, <1>19, <1>23, <1>24

\* get_method finds the format that the reader finds in the same unit.
LEMMA OutputMethod ==
    ASSUME AllInv, GetMethod, Regular, PlaceInv
    PROVE  PlaceInv'
<1>1. pc = "magic" /\ Receiver /\ AtMagic
    BY DEF GetMethod, Receiver, PlaceInv, Place
<1>2. UNCHANGED <<call, sent, source, first, pos, temp, tpos, zlib, in, chunk, out, lost>>
    BY DEF GetMethod, pipeVars, writenVars, fileVars, zlibVars, outVars
<1>3. /\ UNCHANGED <<Closed, Read, NotGzip, Output>> /\ Content(sent)' = Content(sent)
    BY <1>1, <1>2, ReaderStays DEF Output
<1>4. Buffered /\ InBuffer /\ inptr <= insize /\ Consumed = pos - insize + inptr
    BY <1>1 DEF Buffered, Unzipped, Inflating, Place, AtMagic, InBuffer, Consumed
<1>5. CASE inptr >= insize
  <2>1. pc' = "fill" /\ back' = "magic" /\ inbuf' = <<>> /\ inptr' = inptr
      BY <1>5, OutputTypes DEF GetMethod, FillInbuf
  <2>2. insize' = 0  BY <2>1 DEF insize
  <2>3. Consumed' = Consumed
      BY <1>2, <1>4, <1>5, <2>1, <2>2, OutputTypes DEF Consumed
  <2>4. UNCHANGED MemberOver
      BY <1>2, <1>3, <1>4, <2>1, <2>3 DEF MemberOver, InBuffer, Mode, Text
  <2>5. AtMagic'
      BY <1>1, <1>2, <2>1, <2>3, <2>4 DEF AtMagic, InBuffer
  <2>6. Place' = "magic"  BY <2>1 DEF Place
  <2> QED BY <2>5, <2>6 DEF PlaceInv, SpoolPlaces
<1>6. CASE inptr < insize
  <2> DEFINE kind == inbuf[inptr + 1].kind
             zip == kind = "k" /\ inptr = 0
             bad == kind = "r"
             known == kind \in Magic \ {"k"} \/ (zip /\ ~call.stdin)
  <2>1. /\ Consumed \in Nat /\ Consumed < Len(sent)
        /\ kind = sent[Consumed + 1].kind
      BY <1>1, <1>4, <1>6, InbufUnit
  <2>2. /\ Consumed + 1 \in 1 .. Len(sent) /\ kind \in Kinds
        /\ Mode(Consumed + 1) = Behind(Mode(Consumed), kind, call.force)
        /\ Text(Consumed + 1) =
             IF \/ Mode(Consumed + 1) = "copied"
                \/ kind = "d" /\ Mode(Consumed + 1) \in {"data", "packed", "lzw"}
             THEN Text(Consumed) \o [k \in 1 .. Times(sent) |-> sent[Consumed + 1].id]
             ELSE Text(Consumed)
      BY <2>1, NextUnit DEF AllInv, Units
  <2>3. kind # "k"
      BY <2>1, <2>2 DEF Regular
  <2>4. UNCHANGED <<back, inbuf, insize>>
      BY <1>6, OutputTypes DEF GetMethod, insize
  <2>5. sent # <<>>
      BY <2>2, OutputTypes
  <2>6. /\ first => Consumed = 0 /\ out = <<>> /\ NotGzip = (kind \notin Gzip) /\ Mode(Consumed) = "start"
        /\ ~first => NotGzip /\ Mode(Consumed) = "packed end" /\ ~call.stdin /\ Closed
        /\ Output = Text(Consumed) /\ chunk = <<>> /\ out = Text(Consumed)
    <3>1. chunk = <<>> /\ Output = out  BY <1>1, OutputTypes DEF AtMagic
    <3>2. CASE first
      <4>1. Consumed = 0 /\ out = <<>>  BY <1>1, <3>2 DEF AtMagic
      <4>2. kind = sent[1].kind  BY <2>1, <4>1
      <4>3. Mode(0) = "start" /\ Text(0) = <<>>  BY ReaderTypes DEF AllInv
      <4> QED BY <2>5, <3>1, <3>2, <4>1, <4>2, <4>3 DEF NotGzip
    <3>3. CASE ~first
      <4>1. MemberOver  BY <1>1, <3>3 DEF AtMagic
      <4> QED BY <3>1, <3>3, <4>1 DEF MemberOver, AllInv, InputInv
    <3> QED BY <3>2, <3>3
  <2>7. Mode(Consumed + 1) = "garbage" => Text(Consumed + 1) = Content(sent)
    <3>1. Consumed + 1 \in 0 .. Len(sent)  BY <2>1, OutputTypes
    <3> QED BY <3>1, ReaderTypes DEF AllInv
  <2> HIDE DEF kind
  <2>8. ASSUME kind \in {"h", "H"}, work' = "unzip", pc' \in {"name", "method"}
        PROVE  PlaceInv'
    <3>1. ~first => Complete
      <4> SUFFICES ASSUME ~first PROVE Complete  OBVIOUS
      <4>1. Mode(Consumed + 1) = "garbage"
          BY <2>2, <2>6, <2>8 DEF Behind, Gzip
      <4>2. Text(Consumed + 1) = Text(Consumed)
          BY <2>2, <4>1
      <4> QED BY <2>6, <2>7, <4>1, <4>2 DEF Complete
    <3>2. kind \in Gzip  BY <2>8 DEF Gzip
    <3>3. ReadyToUnzip /\ (call.stdin => first)
        BY <2>5, <2>6, <3>1, <3>2 DEF ReadyToUnzip, Complete
    <3>4. ReadyToUnzip' /\ (call.stdin => first)'
        BY <1>2, <1>3, <3>3 DEF ReadyToUnzip, Mode
    <3>5. AtMethod'  BY <2>8, <3>4 DEF AtMethod
    <3>6. Place' = pc'  BY <2>8 DEF Place
    <3> QED BY <2>8, <3>4, <3>5, <3>6 DEF PlaceInv, SpoolPlaces
  <2>9. ASSUME kind \in {"p", "z"}, inptr' = inptr + 1, pc' = "method",
               work' = IF kind = "p" THEN "unpack" ELSE "unlzw"
        PROVE  PlaceInv'
    <3>1. /\ Mode(Consumed + 1) = (IF kind = "p" THEN "packed" ELSE "lzw")
          /\ Text(Consumed + 1) = Text(Consumed)
      <4>1. Mode(Consumed) \in {"start", "packed end"}  BY <2>6
      <4>2. CASE kind = "p"
        <5>1. Behind(Mode(Consumed), kind, call.force) = "packed"
            BY <4>1, <4>2 DEF Behind, Gzip
        <5> QED BY <2>2, <4>2, <5>1
      <4>3. CASE kind = "z"
        <5>1. Behind(Mode(Consumed), kind, call.force) = "lzw"
            BY <4>1, <4>3 DEF Behind, Gzip
        <5> QED BY <2>2, <4>3, <5>1
      <4> QED BY <2>9, <4>2, <4>3
    <3>2. NotGzip  BY <2>6, <2>9 DEF Gzip
    <3>3. Consumed' = Consumed + 1 /\ InBuffer'
        BY <1>2, <1>4, <1>6, <2>4, <2>9, OutputTypes DEF Consumed, InBuffer
    <3>4. Working'
        BY <1>2, <1>3, <2>6, <2>9, <3>1, <3>2, <3>3 DEF Working, Mode, Text
    <3>5. AtMethod'
        BY <1>2, <2>6, <2>9, <3>4 DEF AtMethod
    <3>6. Place' = "method"  BY <2>9 DEF Place
    <3> QED BY <3>5, <3>6 DEF PlaceInv, SpoolPlaces
  <2>10. ASSUME kind \notin Gzip \cup {"p", "z", "r"}, call.force, pc' = "method", work' = "copy",
                inptr' = inptr
         PROVE  PlaceInv'
    <3>1. Mode(Consumed + 1) = "copied"
      <4>1. Mode(Consumed) \in {"start", "packed end"}  BY <2>6
      <4>2. kind \notin {"h", "H", "p", "z", "r"}  BY <2>10 DEF Gzip
      <4>3. Behind(Mode(Consumed), kind, call.force) = "copied"
          BY <2>10, <4>1, <4>2, Zenon DEF Behind
      <4> QED BY <2>2, <4>3
    <3>2. NotGzip  BY <2>6, <2>10
    <3>3. Consumed' = Consumed /\ InBuffer'
        BY <1>2, <1>4, <2>4, <2>10, OutputTypes DEF Consumed, InBuffer
    <3>4. Working'
        BY <1>2, <1>3, <2>1, <2>6, <2>10, <3>1, <3>2, <3>3 DEF Working, Mode, Text
    <3>5. AtMethod'
        BY <1>2, <2>6, <2>10, <3>4 DEF AtMethod
    <3>6. Place' = "method"  BY <2>10 DEF Place
    <3> QED BY <3>5, <3>6 DEF PlaceInv, SpoolPlaces
  <2>11. ASSUME kind \notin Gzip \cup {"p", "z"}, kind = "r" \/ ~call.force,
                pc' = IF first \/ bad THEN "failed" ELSE "done"
         PROVE  PlaceInv'
    <3>1. pc' = "done" => Complete
      <4> SUFFICES ASSUME ~first, kind # "r" PROVE Complete
          BY <2>11 DEF kind
      <4>1. Mode(Consumed + 1) = "garbage"
        <5>1. Mode(Consumed) = "packed end" /\ ~call.force /\ kind \notin {"h", "H", "p", "z"}
            BY <2>6, <2>11 DEF Gzip
        <5>2. Behind("packed end", kind, call.force) = "garbage"
            BY <5>1, Zenon DEF Behind
        <5> QED BY <2>2, <5>1, <5>2
      <4>2. Text(Consumed + 1) = Text(Consumed)
          BY <2>2, <4>1
      <4> QED BY <2>6, <2>7, <4>1, <4>2 DEF Complete
    <3>2. Place' = pc' /\ pc' \in {"failed", "done"}  BY <2>11 DEF Place
    <3>3. Complete => Complete'  BY <1>2, <1>3 DEF Complete
    <3> QED BY <3>1, <3>2, <3>3 DEF PlaceInv, SpoolPlaces
  <2>17. ASSUME kind = "r", work' = "unzip", pc' = "method"
         PROVE  PlaceInv'
    <3>1. Mode(Consumed + 1) = "garbage"
      <4>1. Mode(Consumed) \in {"start", "packed end"} /\ kind \notin {"h", "H", "p", "z"}
          BY <2>6, <2>17
      <4>2. Behind(Mode(Consumed), kind, call.force) = "garbage"
          BY <2>17, <4>1, Zenon DEF Behind
      <4> QED BY <2>2, <4>2
    <3>2. out = Content(sent)
      <4>1. Text(Consumed + 1) = Text(Consumed)  BY <2>2, <3>1
      <4> QED BY <2>6, <2>7, <3>1, <4>1
    <3>3. first => Mode(1) = "garbage"
      <4>1. first => Consumed = 0  BY <2>6
      <4>2. 0 + 1 = 1  OBVIOUS
      <4> QED BY <3>1, <4>1, <4>2
    <3>4. ReadyToUnzip /\ (call.stdin => first)
      <4>1. NotGzip
          BY <2>6, <2>17 DEF Gzip
      <4> QED BY <2>5, <2>6, <3>2, <3>3, <4>1 DEF ReadyToUnzip
    <3>5. ReadyToUnzip' /\ (call.stdin => first)'
        BY <1>2, <1>3, <3>4 DEF ReadyToUnzip, Mode
    <3>6. AtMethod'  BY <2>17, <3>5 DEF AtMethod
    <3>7. Place' = "method"  BY <2>17 DEF Place
    <3> QED BY <3>6, <3>7 DEF PlaceInv, SpoolPlaces
  <2>12. \/ /\ known
            /\ work' = CASE kind \in Gzip \cup {"k"} -> "unzip"
                          [] kind = "p"               -> "unpack"
                          [] kind = "z"               -> "unlzw"
            /\ inptr' = IF kind = "k" THEN inptr ELSE inptr + 1
            /\ pc' = IF kind = "H" THEN "name" ELSE "method"
         \/ /\ ~known /\ ~zip /\ ~bad /\ call.force
            /\ work' = "copy" /\ pc' = "method" /\ inptr' = inptr
         \/ /\ ~known /\ (zip \/ bad \/ ~call.force)
            /\ pc' = IF first \/ bad THEN "failed" ELSE "done"
         \/ /\ bad /\ call.force
            /\ work' = "unzip" /\ pc' = "method"
    <3>1. ~(inptr >= insize)  BY <1>6, OutputTypes
    <3> QED BY <3>1, Zenon DEF GetMethod, kind
  <2>13. known = (kind \in {"h", "H", "p", "z"}) /\ ~zip
      BY <2>3 DEF Magic, Gzip
  <2>14. CASE kind \in {"h", "H"}
    <3>1. known /\ kind \in Gzip \cup {"k"}  BY <2>13, <2>14 DEF Gzip
    <3>2. pc' \in {"name", "method"}  BY <2>12, <3>1
    <3>3. work' = "unzip"
      <4>1. kind # "p" /\ kind # "z"  BY <2>14
      <4> QED BY <2>12, <3>1, <4>1
    <3> QED BY <2>8, <2>14, <3>2, <3>3
  <2>15. CASE kind \in {"p", "z"}
    <3>1. known /\ kind \notin Gzip \cup {"k"} /\ kind # "H" /\ kind # "k"  BY <2>13, <2>15 DEF Gzip
    <3> QED BY <2>9, <2>12, <2>15, <3>1
  <2>16. CASE kind \notin {"h", "H", "p", "z"}
    <3>1. ~known /\ kind \notin Gzip \cup {"p", "z"}  BY <2>13, <2>16 DEF Gzip
    <3>2. CASE ~bad /\ call.force
        BY <2>10, <2>12, <2>13, <3>1, <3>2
    <3>3. CASE bad \/ ~call.force
      <4>1. CASE pc' = IF first \/ bad THEN "failed" ELSE "done"
          BY <2>11, <3>1, <3>3, <4>1
      <4>2. CASE bad /\ work' = "unzip" /\ pc' = "method"
          BY <2>17, <4>2
      <4> QED BY <2>12, <2>13, <3>1, <3>3, <4>1, <4>2
    <3> QED BY <3>2, <3>3
  <2> QED BY <2>14, <2>15, <2>16
<1> QED BY <1>5, <1>6, OutputTypes

\* Skipping the name in a header adds nothing to the content.
LEMMA OutputHeader ==
    ASSUME AllInv, SkipName \/ MethodKnown, Regular, PlaceInv
    PROVE  PlaceInv'
<1>1. Receiver  BY DEF Receiver
<1>2. UNCHANGED <<call, sent, source, pos, temp, tpos, zlib, in, chunk, out, lost, work, lastMember>>
    BY DEF SkipName, MethodKnown, pipeVars, writenVars, fileVars, zlibVars, outVars, formatVars
<1>3. /\ UNCHANGED <<Closed, Read, NotGzip, Output>> /\ Content(sent)' = Content(sent)
    BY <1>1, <1>2, ReaderStays DEF Output
<1>4. UNCHANGED ReadyToUnzip
    BY <1>2, <1>3 DEF ReadyToUnzip, Mode
<1>5. CASE SkipName
  <2>1. Place = "name" /\ first' = first
      BY <1>5 DEF SkipName, Place, formatVars
  <2>2. ReadyToUnzip /\ (call.stdin => first) /\ work = "unzip"
      BY <2>1 DEF PlaceInv, AllInv, SpoolInv, Control
  <2>3. Place' \in {"name", "method"}
      BY <1>5 DEF SkipName, FillInbuf, Place
  <2>4. AtMethod' /\ (ReadyToUnzip /\ (call.stdin => first))'
      BY <1>2, <1>4, <2>1, <2>2 DEF AtMethod
  <2> QED BY <2>3, <2>4 DEF PlaceInv, SpoolPlaces
<1>6. CASE MethodKnown
  <2>1. /\ pc = "method" /\ UNCHANGED <<inbuf, inptr, insize>>
        /\ pc' = IF call.stdin /\ first THEN "spool" ELSE StartWork
        /\ AtMethod
      BY <1>6 DEF MethodKnown, bufVars, insize, PlaceInv, Place
  <2>2. pc' \in {"spool", "rewind", "unpack"}
      BY <2>1 DEF StartWork
  <2>3. UNCHANGED <<Consumed, InBuffer>> /\ Place' = pc'
      BY <1>2, <2>1, <2>2 DEF Consumed, InBuffer, Place
  <2>4. UNCHANGED Working
      BY <1>2, <1>3, <2>3 DEF Working, Mode, Text
  <2>5. CASE call.stdin /\ first
    <3>1. pc' = "spool"  BY <2>1, <2>5
    <3>2. AtSpool'
        BY <1>2, <1>4, <2>1, <2>4, <2>5, <3>1 DEF AtMethod, AtSpool
    <3> QED BY <2>3, <3>1, <3>2 DEF PlaceInv, SpoolPlaces
  <2>6. CASE ~(call.stdin /\ first) /\ work = "unzip"
    <3>1. pc' = "rewind"  BY <2>1, <2>6 DEF StartWork
    <3>2. ReadyToUnzip'  BY <1>4, <2>1, <2>6 DEF AtMethod
    <3> QED BY <2>3, <3>1, <3>2 DEF PlaceInv, SpoolPlaces
  <2>7. CASE ~(call.stdin /\ first) /\ work # "unzip"
    <3>1. pc' = "unpack"  BY <2>1, <2>7 DEF StartWork
    <3>2. AtUnpack'  BY <1>2, <2>1, <2>4, <2>7 DEF AtMethod, AtUnpack
    <3> QED BY <2>3, <3>1, <3>2 DEF PlaceInv, SpoolPlaces
  <2> QED BY <2>5, <2>6, <2>7
<1> QED BY <1>5, <1>6

\* Copying standard input to the temporary file adds nothing to the content.
LEMMA OutputSpool ==
    ASSUME AllInv, Spool, Regular, PlaceInv
    PROVE  PlaceInv'
<1>1. Receiver /\ pc = "spool" /\ AtSpool
    BY DEF Receiver, Spool, PlaceInv, Place, SpoolPlaces
<1>2. UNCHANGED <<call, sent, source, pos, temp, tpos, zlib, in, chunk, out, lost, work, first,
                  lastMember, inptr>>
    BY DEF Spool, pipeVars, writenVars, fileVars, zlibVars, outVars, formatVars
<1>3. /\ UNCHANGED <<Closed, Read, NotGzip, Output, Drained>> /\ Content(sent)' = Content(sent)
    BY <1>1, <1>2, ReaderStays DEF Output, Drained
<1>4. UNCHANGED ReadyToUnzip
    BY <1>2, <1>3 DEF ReadyToUnzip, Mode
<1>5. /\ call.stdin /\ (ReadsItself => lastMember) /\ (work = "unpack" => ~lastMember)
    BY <1>1 DEF AllInv, SpoolInv, Control, Place, SpoolPlaces
<1>6. CASE pc' = "fill"
  <2>1. ~lastMember /\ Place' \in SpoolPlaces
      BY <1>1, <1>6 DEF Spool, FillInbuf, StartWork, Place, SpoolPlaces
  <2>2. work \in {"unzip", "unpack"}
      BY <1>1, <1>5, <2>1 DEF AtSpool, Working, ReadsItself
  <2>3. AtSpool'
      BY <1>1, <1>2, <1>4, <2>2 DEF AtSpool
  <2> QED BY <2>1, <2>3 DEF PlaceInv, SpoolPlaces
<1>7. CASE pc' # "fill"
  <2>1. /\ lastMember \/ (inptr = insize /\ insize # InBuf)
        /\ pc' = StartWork /\ UNCHANGED <<inbuf, insize>>
      BY <1>7 DEF Spool, FillInbuf, insize
  <2>2. CASE work = "unzip"
    <3>1. Place' = "rewind"  BY <2>1, <2>2 DEF StartWork, Place
    <3>2. ReadyToUnzip'  BY <1>1, <1>4, <2>2 DEF AtSpool
    <3> QED BY <3>1, <3>2 DEF PlaceInv, SpoolPlaces
  <2>3. CASE work # "unzip"
    <3>1. pc' = "unpack" /\ Place' = "unpack"  BY <2>1, <2>3 DEF StartWork, Place
    <3>2. CASE work = "unpack"
      <4>1. inptr = insize /\ insize < InBuf
          BY <1>5, <2>1, <3>2, OutputTypes
      <4>2. Copying
          BY <1>1, <1>5, <3>2 DEF Copying, ReadsItself, Regular
      <4>3. Drained
          BY <1>1, <4>1, <4>2 DEF AllInv, SpoolInv, BufferInv
      <4>4. out = <<>> /\ chunk = <<>>  BY <1>1, <3>2 DEF AtSpool
      <4>5. Stuck'
          BY <1>2, <1>3, <2>1, <3>1, <4>1, <4>3, <4>4, OutputTypes DEF Stuck
      <4>6. AtUnpack'  BY <1>2, <1>5, <3>2, <4>5 DEF AtUnpack
      <4> QED BY <3>1, <4>6 DEF PlaceInv, SpoolPlaces
    <3>3. CASE work # "unpack"
      <4>1. Working  BY <1>1, <2>3, <3>3 DEF AtSpool
      <4>2. UNCHANGED <<Consumed, InBuffer>>
          BY <1>1, <1>2, <2>1, <3>1 DEF Consumed, InBuffer
      <4>3. Working'
          BY <1>2, <1>3, <4>1, <4>2 DEF Working, Mode, Text
      <4>4. AtUnpack'  BY <1>2, <3>3, <4>3 DEF AtUnpack
      <4> QED BY <3>1, <4>4 DEF PlaceInv, SpoolPlaces
    <3> QED BY <3>2, <3>3
  <2> QED BY <2>2, <2>3
<1> QED BY <1>6, <1>7

\* Where one member is over, treat_stdin goes on or ends where the reader does.
LEMMA OutputNext ==
    ASSUME AllInv, NextMember \/ Finish, Regular, PlaceInv
    PROVE  PlaceInv'
<1>1. Receiver  BY DEF Receiver
<1>2. UNCHANGED <<call, sent, source, pos, zlib, in, chunk, out, lost, work, first,
                  lastMember, inptr>>
    BY DEF NextMember, Finish, pipeVars, writenVars, fileVars, zlibVars, outVars, formatVars, bufVars
<1>3. /\ UNCHANGED <<Closed, Read, NotGzip, Output, ReadsItself>> /\ Content(sent)' = Content(sent)
    BY <1>1, <1>2, ReaderStays DEF Output, ReadsItself
<1>4. UNCHANGED Complete
    BY <1>2, <1>3 DEF Complete
<1>5. CASE Finish
  <2>1. Place = "end" /\ Place' = "done"  BY <1>5 DEF Finish, Place
  <2> QED BY <1>4, <2>1 DEF PlaceInv, SpoolPlaces
<1>6. CASE NextMember
  <2>1. pc = "next" /\ AtNext
      BY <1>6 DEF NextMember, PlaceInv, Place
  <2>2. CASE pc' = "end"
    <3>1. lastMember \/ (inptr = insize /\ insize # InBuf)
        BY <1>6, <2>2 DEF NextMember, FillInbuf
    <3>2. Complete
      <4>1. CASE work = "unzip"  BY <2>1, <4>1 DEF AtNext, UnzipOver
      <4>2. CASE ReadsItself  BY <2>1, <4>2 DEF AtNext
      <4>3. CASE work # "unzip" /\ ~ReadsItself
        <5>1. work = "unpack" /\ MemberOver /\ chunk = <<>>  BY <2>1, <4>3 DEF AtNext
        <5>2. ~lastMember  BY <5>1 DEF AllInv, SpoolInv, Control
        <5>3. inptr = insize /\ insize < InBuf  BY <3>1, <5>2, OutputTypes
        <5>4. Buffered  BY <2>1, <5>1 DEF Buffered, Unzipped
        <5>5. ~call.stdin /\ Closed /\ Output = Text(Consumed)
            BY <5>1 DEF MemberOver, AllInv, InputInv
        <5>6. pos = Len(sent)
            BY <2>1, <4>3, <5>3, <5>4, <5>5 DEF AllInv, InputInv, ShortInv
        <5>7. Consumed = Len(sent)
            BY <2>1, <5>3, <5>6, OutputTypes DEF Consumed
        <5> QED BY <5>1, <5>5, <5>7, OutputTypes, ReaderTypes DEF Complete, AllInv
      <4> QED BY <4>1, <4>2, <4>3
    <3>3. Place' = "end"  BY <2>2 DEF Place
    <3> QED BY <1>4, <3>2, <3>3 DEF PlaceInv, SpoolPlaces
  <2>3. CASE pc' = "magic"
    <3>1. ~lastMember /\ inptr # insize /\ inbuf' = inbuf
        BY <1>6, <2>3 DEF NextMember, FillInbuf
    <3>2. ~ReadsItself  BY <3>1 DEF AllInv, SpoolInv, Control
    <3>3. work # "unzip"  BY <2>1, <3>1 DEF AtNext, UnzipOver
    <3>4. MemberOver /\ ~first /\ chunk = <<>>  BY <2>1, <3>2, <3>3 DEF AtNext
    <3>5. UNCHANGED <<Consumed, InBuffer, insize>>
        BY <1>2, <2>1, <2>3, <3>1 DEF Consumed, InBuffer, insize
    <3>6. MemberOver'
        BY <1>2, <1>3, <3>4, <3>5 DEF MemberOver, Mode, Text
    <3>7. AtMagic'  BY <1>2, <3>4, <3>6 DEF AtMagic, MemberOver
    <3>8. Place' = "magic"  BY <2>3 DEF Place
    <3> QED BY <3>7, <3>8 DEF PlaceInv, SpoolPlaces
  <2>4. CASE pc' \notin {"end", "magic"}
    <3>1. ~lastMember /\ inptr = insize /\ pc' = "fill" /\ back' = "input_eof" /\ inbuf' = <<>>
        BY <1>6, <2>4 DEF NextMember, FillInbuf
    <3>2. ~ReadsItself  BY <3>1 DEF AllInv, SpoolInv, Control
    <3>3. insize' = 0 /\ InBuffer'  BY <3>1 DEF insize, InBuffer
    <3>4. Consumed' = Consumed
        BY <1>2, <2>1, <3>1, <3>3, OutputTypes DEF Consumed
    <3>5. MemberOver => MemberOver'
        BY <1>2, <1>3, <3>3, <3>4 DEF MemberOver, Mode, Text
    <3>6. UnzipOver => UnzipOver'
        BY <1>2, <1>4, <3>1 DEF UnzipOver
    <3>7. AtNext'  BY <1>2, <1>3, <2>1, <3>2, <3>5, <3>6 DEF AtNext
    <3>8. Place' = "input_eof"  BY <3>1 DEF Place
    <3> QED BY <3>7, <3>8 DEF PlaceInv, SpoolPlaces
  <2> QED BY <2>2, <2>3, <2>4
<1> QED BY <1>5, <1>6

\* unpack, unlzw and copy put out what the reader finds in the unit they take.
LEMMA OutputUnpack ==
    ASSUME AllInv, Unpack, Regular, PlaceInv
    PROVE  PlaceInv'
<1>1. Receiver /\ pc = "unpack" /\ AtUnpack
    BY DEF Receiver, Unpack, PlaceInv, Place
<1>2. UNCHANGED <<call, sent, source, pos, temp, tpos, zlib, in, out, lost, work, first, lastMember>>
    BY DEF Unpack, pipeVars, writenVars, fileVars, zlibVars, outVars, formatVars
<1>3. /\ UNCHANGED <<Closed, Read, NotGzip, Drained, ReadsItself>> /\ Content(sent)' = Content(sent)
    BY <1>1, <1>2, ReaderStays DEF Drained, ReadsItself
<1>4. Consumed = pos - insize + inptr /\ Buffered
    BY <1>1 DEF Consumed, Buffered, Unzipped, Inflating, Place
<1>5. CASE inptr >= insize
  <2>0. ~(inptr < insize)  BY <1>5, OutputTypes
  <2>1. /\ pc' = "fill" /\ back' = "unpack" /\ inbuf' = <<>> /\ insize' = 0 /\ UNCHANGED <<chunk, inptr>>
        /\ Output' = Output
      BY <1>2, <2>0 DEF Unpack, FillInbuf, insize, Output
  <2>2. Stuck => Stuck'  BY <1>2, <1>3, <2>1 DEF Stuck
  <2>3. Working => Working'
    <3> SUFFICES ASSUME Working PROVE Working'  OBVIOUS
    <3>1. inptr <= insize  BY <1>1 DEF Working, InBuffer
    <3>2. Consumed' = Consumed
        BY <1>2, <1>4, <1>5, <2>1, <3>1, OutputTypes DEF Consumed
    <3> QED BY <1>2, <1>3, <2>1, <3>2 DEF Working, Mode, Text, InBuffer
  <2>4. AtUnpack'  BY <1>1, <1>2, <2>2, <2>3 DEF AtUnpack
  <2>5. Place' = "unpack"  BY <2>1 DEF Place
  <2> QED BY <2>4, <2>5 DEF PlaceInv, SpoolPlaces
<1>6. CASE inptr < insize
  <2>1. ~(inptr >= insize)  BY <1>6, OutputTypes
  <2>2. Working /\ ~(call.stdin /\ work = "unpack")
      BY <1>1, <2>1 DEF AtUnpack, Stuck
  <2>3. CASE Len(chunk) = Buf
    <3>1. pc' = "flush" /\ back' = "unpack" /\ UNCHANGED <<inbuf, inptr, insize, chunk, Output>>
      <4>1. ~(Len(chunk) < Buf)  BY <2>3, OutputTypes
      <4> QED BY <1>2, <2>1, <4>1 DEF Unpack, Flush, bufVars, insize, Output
    <3>2. UNCHANGED <<Consumed, InBuffer>>
        BY <1>1, <1>2, <3>1 DEF Consumed, InBuffer
    <3>3. Working'
        BY <1>2, <1>3, <2>2, <3>1, <3>2 DEF Working, Mode, Text
    <3>4. AtFlush'  BY <1>2, <2>2, <3>1, <3>3 DEF AtFlush, AtUnpack
    <3>5. Place' = "flush"  BY <3>1 DEF Place
    <3> QED BY <3>4, <3>5 DEF PlaceInv, SpoolPlaces
  <2>4. CASE Len(chunk) # Buf
    <3> DEFINE unit == inbuf[inptr + 1]
    <3>1. /\ inptr' = inptr + 1 /\ UNCHANGED <<inbuf, insize>>
          /\ \/ /\ unit.kind = "d" \/ work = "copy"
                /\ chunk' = Append(chunk, unit.id)
                /\ UNCHANGED <<pc, back>>
             \/ /\ unit.kind # "d" /\ work # "copy"
                /\ pc' = "flush"
                /\ back' = IF unit.kind = "e" /\ work = "unpack" THEN "next" ELSE "failed"
                /\ UNCHANGED chunk
        BY <2>1, <2>4 DEF Unpack, Flush, insize
    <3>2. Consumed \in Nat /\ Consumed < Len(sent) /\ unit = sent[Consumed + 1]
        BY <1>1, <1>4, <1>6, InbufUnit
    <3>3. /\ Consumed + 1 \in 1 .. Len(sent) /\ sent[Consumed + 1] \in Units
          /\ Mode(Consumed + 1) = Behind(Mode(Consumed), unit.kind, call.force)
          /\ Text(Consumed + 1) =
               IF \/ Mode(Consumed + 1) = "copied"
                  \/ unit.kind = "d" /\ Mode(Consumed + 1) \in {"data", "packed", "lzw"}
               THEN Text(Consumed) \o [k \in 1 .. Times(sent) |-> unit.id]
               ELSE Text(Consumed)
        BY <3>2, NextUnit DEF AllInv
    <3>4. Consumed' = Consumed + 1 /\ (pc' # "fill") /\ InBuffer'
        BY <1>1, <1>2, <1>4, <1>6, <3>1, OutputTypes, SMTT(30) DEF Consumed, InBuffer
    <3>5. Times(sent) = 1  BY <2>2 DEF Times, Working, NotGzip
    <3>6. NotGzip /\ Output = Text(Consumed) /\ work \in {"unpack", "unlzw", "copy"}
          /\ Output \in Seq(Int) /\ unit.id \in Int
        BY <2>2, <3>2, <3>3, OutputTypes DEF Working, Units
    <3> HIDE DEF unit
    <3>7. CASE unit.kind = "d" \/ work = "copy"
      <4>1. chunk' = Append(chunk, unit.id) /\ UNCHANGED <<pc, back>>
          BY <3>1, <3>7
      <4>2. Output' = Text(Consumed) \o <<unit.id>>
        <5>1. chunk' = chunk \o <<unit.id>>  BY <3>6, <4>1, OutputTypes, AppendConcat
        <5>2. Output' = out \o (chunk \o <<unit.id>>)  BY <1>2, <5>1 DEF Output
        <5>3. <<unit.id>> \in Seq(Int)  BY <3>6
        <5>4. Output' = (out \o chunk) \o <<unit.id>>
            BY <5>2, <5>3, OutputTypes, ConcatAssociates, SMTT(30)
        <5> QED BY <3>6, <5>4 DEF Output
      <4>3. Mode(Consumed + 1) = CASE work = "copy" -> "copied" [] work = "unpack" -> "packed" [] OTHER -> "lzw"
        <5>1. CASE work = "copy"
          <6>1. Behind("copied", unit.kind, call.force) = "copied"  BY DEF Behind
          <6> QED BY <2>2, <3>3, <5>1, <6>1 DEF Working
        <5>2. CASE work = "unpack"
          <6>1. Behind("packed", "d", call.force) = "packed"  BY DEF Behind
          <6> QED BY <2>2, <3>3, <3>7, <5>2, <6>1 DEF Working
        <5>3. CASE work = "unlzw"
          <6>1. Behind("lzw", "d", call.force) = "lzw"  BY DEF Behind
          <6> QED BY <2>2, <3>3, <3>7, <5>3, <6>1 DEF Working
        <5> QED BY <3>6, <5>1, <5>2, <5>3
      <4>4. [k \in 1 .. Times(sent) |-> unit.id] = <<unit.id>>
        <5>1. [k \in 1 .. 1 |-> unit.id] = <<unit.id>>  OBVIOUS
        <5> QED BY <3>5, <5>1
      <4>5. Text(Consumed + 1) = Text(Consumed) \o <<unit.id>>
          BY <3>3, <3>6, <3>7, <4>3, <4>4
      <4>6. Working'
          BY <1>2, <1>3, <3>4, <3>6, <4>2, <4>3, <4>5 DEF Working, Mode, Text
      <4>7. AtUnpack'  BY <1>2, <2>2, <4>6 DEF AtUnpack
      <4>8. Place' = "unpack"  BY <1>1, <4>1 DEF Place
      <4> QED BY <4>7, <4>8 DEF PlaceInv, SpoolPlaces
    <3>8. CASE unit.kind # "d" /\ work # "copy"
      <4>1. /\ pc' = "flush" /\ UNCHANGED <<chunk, Output>>
            /\ back' = IF unit.kind = "e" /\ work = "unpack" THEN "next" ELSE "failed"
          BY <1>2, <3>1, <3>8 DEF Output
      <4>2. Place' = "flush"  BY <4>1 DEF Place
      <4>3. CASE unit.kind = "e" /\ work = "unpack"
        <5>1. Mode(Consumed + 1) = "packed end"
          <6>1. Behind("packed", "e", call.force) = "packed end"  BY DEF Behind
          <6> QED BY <2>2, <3>3, <4>3, <6>1 DEF Working
        <5>2. Text(Consumed + 1) = Text(Consumed)  BY <3>3, <3>8, <5>1
        <5>3. MemberOver'
            BY <1>2, <1>3, <2>2, <3>4, <3>6, <4>1, <4>3, <5>1, <5>2 DEF MemberOver, Mode, Text
        <5>4. AtFlush'
            BY <1>2, <4>1, <4>3, <5>3 DEF AtFlush, ReadsItself
        <5> QED BY <4>2, <5>4 DEF PlaceInv, SpoolPlaces
      <4>4. CASE ~(unit.kind = "e" /\ work = "unpack")
        <5>1. \E n \in 0 .. Len(sent) : Output = Text(n)
          <6>1. Consumed \in 0 .. Len(sent)  BY <3>2, OutputTypes
          <6> QED BY <3>6, <6>1
        <5>2. \E n \in 0 .. Len(sent') : Output' = Text(n)'
            BY <1>2, <1>3, <4>1, <5>1 DEF Text
        <5>3. AtFlush'  BY <4>1, <4>4, <5>2 DEF AtFlush
        <5> QED BY <4>2, <5>3 DEF PlaceInv, SpoolPlaces
      <4> QED BY <4>3, <4>4
    <3> QED BY <3>7, <3>8
  <2> QED BY <2>3, <2>4
<1> QED BY <1>5, <1>6, OutputTypes

\* The types of inflateGZIP's variables.
LEMMA ZlibTypes ==
    ASSUME AllInv
    PROVE  /\ zlib.mode \in {"head", "name", "body", "end", "bad"} /\ zlib.id \in Int /\ zlib.rest \in Nat
           /\ zlib = [mode |-> zlib.mode, id |-> zlib.id, rest |-> zlib.rest]
           /\ in \in Seq(Units) /\ Len(in) \in Nat /\ readAt \in Nat /\ Len(in) <= Buf
           /\ Pending \in Seq(Int) /\ (zlib.rest = 0 => Pending = <<>>)
           /\ Grow \in Nat \ {0} /\ Buf \in Nat \ {0}
<1>1. zlib \in [mode : {"head", "name", "body", "end", "bad"}, id : Int, rest : 0 .. Grow]
    BY DEF AllInv, TypeInv, TypeOK, ZlibOK, ZlibStates
<1>2. /\ zlib.mode \in {"head", "name", "body", "end", "bad"} /\ zlib.id \in Int /\ zlib.rest \in Nat
      /\ zlib = [mode |-> zlib.mode, id |-> zlib.id, rest |-> zlib.rest]
    BY <1>1, Constants
<1>3. Pending \in Seq(Int) /\ (zlib.rest = 0 => Pending = <<>>)
    BY <1>2 DEF Pending
<1>4. in \in Seq(Units) /\ Len(in) \in Nat /\ readAt \in Nat /\ Len(in) <= Buf
    BY DEF AllInv, TypeInv, TypeOK, ZlibOK, readAt
<1> QED BY <1>2, <1>3, <1>4, Constants

\* inflateGZIP begins with the first unit of the file.
LEMMA OutputRewind ==
    ASSUME AllInv, Rewind, Regular, PlaceInv
    PROVE  PlaceInv'
<1>1. /\ Receiver /\ pc = "rewind" /\ ReadyToUnzip /\ in = <<>>
    BY DEF Rewind, Receiver, PlaceInv, Place, AllInv, OutputInv
<1>2. /\ UNCHANGED <<call, sent, chunk, out, in>>
      /\ pc' = "read" /\ readAt' = 0 /\ zlib' = FreshStream
    BY DEF Rewind, pipeVars, writenVars, outVars, readAt
<1>3. /\ UNCHANGED <<Closed, Read, NotGzip, Output>> /\ Content(sent)' = Content(sent)
    BY <1>1, <1>2, ReaderStays DEF Output
<1>4. Taken' = 0
  <2>1. in' = <<>>  BY <1>1, <1>2
  <2>2. Len(in') = 0  BY <2>1
  <2> QED BY <1>2, <2>2 DEF Taken
<1>5. NotGzip => Output = Content(sent)
    BY <1>1, OutputTypes DEF ReadyToUnzip
<1>6. ~NotGzip => Output \o <<>> = Text(0)
    BY <1>1, OutputTypes, ReaderTypes DEF ReadyToUnzip, AllInv
<1>7. Pending' = <<>> /\ zlib'.rest = 0 /\ zlib'.mode = "head"
  <2>1. zlib'.rest = 0 /\ zlib'.mode = "head"  BY <1>2 DEF FreshStream
  <2> QED BY <2>1 DEF Pending
<1>8. (~NotGzip => Output \o Pending = Text(Taken))'
    BY <1>3, <1>4, <1>6, <1>7 DEF Text
<1>9. Decoding'
    BY <1>1, <1>2, <1>3, <1>4, <1>5, <1>7, <1>8, OutputTypes DEF Decoding, ReadyToUnzip
<1>10. Place' = "read"  BY <1>2 DEF Place
<1> QED BY <1>9, <1>10 DEF PlaceInv, SpoolPlaces

\* inflateGZIP's read() gives zlib the units that follow.
LEMMA OutputRead ==
    ASSUME AllInv, InflateRead, Regular, PlaceInv
    PROVE  PlaceInv'
<1>1. /\ Receiver /\ pc = "read" /\ Decoding /\ pc \in Inflating
    BY DEF InflateRead, Receiver, PlaceInv, Place, Inflating
<1>2. Closed /\ (call.stdin => pos = Len(sent) /\ temp = sent)
    BY <1>1, UnzipsTheInput DEF AllInv
<1> DEFINE n == Least(Buf, Len(sent) - readAt)
<1>3. /\ in' = SubSeq(sent, readAt + 1, readAt + n)
      /\ readAt' = readAt + n
      /\ pos' = IF call.stdin THEN pos ELSE readAt + n
      /\ pc' = IF n = 0 THEN "next" ELSE "inflate"
      /\ inptr' = IF n = 0 THEN insize ELSE inptr
      /\ UNCHANGED <<call, sent, chunk, out, zlib, work, first, inbuf, insize>>
  <2>1. UNCHANGED <<call, sent, chunk, out, zlib, work, first, inbuf, insize>>
      BY DEF InflateRead, pipeVars, writenVars, outVars, formatVars, insize
  <2>2. CASE call.stdin
    <3>1. temp = sent /\ readAt = tpos /\ readAt' = tpos'
        BY <1>2, <2>1, <2>2 DEF readAt
    <3> QED BY <2>1, <2>2, <3>1 DEF InflateRead
  <2>3. CASE ~call.stdin
    <3>1. readAt = pos /\ readAt' = pos'
        BY <2>1, <2>3 DEF readAt
    <3> QED BY <2>1, <2>3, <3>1 DEF InflateRead
  <2> QED BY <2>2, <2>3
<1>4. /\ UNCHANGED <<Closed, Read, NotGzip, Output, Pending>> /\ Content(sent)' = Content(sent)
    BY <1>1, <1>3, ReaderStays DEF Output, Pending
<1>5. n \in Nat /\ readAt + n <= Len(sent) /\ readAt <= Len(sent) /\ (n = 0 => readAt = Len(sent))
  <2>1. readAt <= Len(sent)  BY <1>1 DEF Decoding
  <2>2. readAt \in Nat /\ Len(sent) \in Nat /\ Buf \in Nat /\ Buf > 0
      BY OutputTypes, ZlibTypes, SMTT(30)
  <2> QED BY <2>1, <2>2 DEF Least
<1> HIDE DEF n
<1>6. /\ Len(in') = n /\ \A i \in 1 .. n : in'[i] = sent[readAt + i]
      /\ Taken' = readAt
  <2>1. Len(in') = n /\ \A i \in 1 .. n : in'[i] = sent[readAt + i]
    <3>1. readAt \in Nat /\ sent \in Seq(Units)  BY OutputTypes, ZlibTypes
    <3>2. in' = SubSeq(sent, readAt + 1, readAt + n)  BY <1>3
    <3> QED BY <1>5, <3>1, <3>2
  <2>2. Taken' = readAt' - Len(in')  BY DEF Taken
  <2>3. readAt' = readAt + n /\ readAt \in Nat  BY <1>3, ZlibTypes
  <2> QED BY <1>5, <2>1, <2>2, <2>3
<1>7. /\ chunk = <<>> /\ (zlib.mode = "bad" \/ (in = <<>> /\ zlib.rest = 0 /\ Taken = readAt))
      /\ out = Output
  <2>1. chunk = <<>> /\ (zlib.mode = "bad" \/ (in = <<>> /\ zlib.rest = 0))
      BY <1>1 DEF Decoding
  <2>2. in = <<>> => Taken = readAt  BY ZlibTypes DEF Taken
  <2> QED BY <2>1, <2>2, OutputTypes
<1>8. CASE n = 0
  <2>1. Place' = "next" /\ pc' = "next"  BY <1>3, <1>8 DEF Place
  <2>2. out = Content(sent)
    <3>1. CASE zlib.mode = "bad" \/ NotGzip
        BY <1>1, <1>7, <3>1 DEF Decoding
    <3>2. CASE zlib.mode # "bad" /\ ~NotGzip
      <4>1. Output \o Pending = Text(Taken) /\ Pending = <<>>
          BY <1>1, <1>7, <3>2, ZlibTypes DEF Decoding
      <4>2. Output = Text(Len(sent))  BY <1>5, <1>7, <1>8, <3>2, <4>1, OutputTypes
      <4> QED BY <1>7, <4>2, ReaderTypes DEF AllInv
    <3> QED BY <3>1, <3>2
  <2>3. Complete'
      BY <1>2, <1>3, <1>4, <1>7, <2>2 DEF Complete
  <2>4. pos' = Len(sent')  BY <1>2, <1>3, <1>5, <1>8, OutputTypes
  <2>5. UnzipOver'  BY <1>3, <1>8, <2>1, <2>3, <2>4 DEF UnzipOver
  <2>6. work' = "unzip"  BY <1>1, <1>3 DEF AllInv, SpoolInv, Control
  <2>7. AtNext'  BY <1>3, <1>7, <2>5, <2>6 DEF AtNext, ReadsItself
  <2> QED BY <2>1, <2>7 DEF PlaceInv, SpoolPlaces
<1>9. CASE n # 0
  <2>1. Place' = "inflate" /\ pc' = "inflate"  BY <1>3, <1>9 DEF Place
  <2>2. 0 <= Taken' /\ readAt' <= Len(sent')
        /\ \A i \in 1 .. Len(in') : in'[i] = sent'[Taken' + i]
    <3>1. readAt \in Nat /\ sent' = sent /\ readAt' = readAt + n  BY <1>3, ZlibTypes
    <3> QED BY <1>5, <1>6, <3>1
  <2>3. NotGzip => zlib.mode = "bad" \/ (zlib.mode = "head" /\ readAt = 0)
      BY <1>1, <1>7 DEF Decoding
  <2>4. zlib.mode # "bad" /\ ~NotGzip =>
          /\ Output \o Pending = Text(readAt)
          /\ zlib.mode = "head" => readAt = 0 \/ Mode(readAt) = "end"
          /\ zlib.mode = "name" => Mode(readAt) = "name"
          /\ zlib.mode = "body" => Mode(readAt) = "data"
          /\ zlib.mode = "end" => Mode(readAt) = "end"
      BY <1>1, <1>7 DEF Decoding
  <2>5. (zlib.mode # "bad" /\ ~NotGzip)' =>
          /\ (Output \o Pending = Text(Taken))'
          /\ (zlib.mode = "head" => Taken = 0 \/ Mode(Taken) = "end")'
          /\ (zlib.mode = "name" => Mode(Taken) = "name")'
          /\ (zlib.mode = "body" => Mode(Taken) = "data")'
          /\ (zlib.mode = "end" => Mode(Taken) = "end")'
      BY <1>3, <1>4, <1>6, <2>4 DEF Text, Mode
  <2>6. Decoding'
      BY <1>1, <1>3, <1>4, <1>6, <2>1, <2>2, <2>3, <2>5 DEF Decoding
  <2> QED BY <2>1, <2>6 DEF PlaceInv, SpoolPlaces
<1> QED BY <1>8, <1>9

\* zlib's state after a unit is the reader's.
LEMMA OutputTakes ==
    ASSUME AllInv, ZlibTakes, Regular, PlaceInv
    PROVE  PlaceInv'
<1>1. /\ Receiver /\ pc = "inflate" /\ Decoding
    BY DEF ZlibTakes, Receiver, PlaceInv, Place
<1>2. /\ zlib.mode \in {"head", "name", "body"} /\ zlib.rest = 0 /\ in # <<>>
      /\ in' = Tail(in)
      /\ UNCHANGED <<call, sent, chunk, out, pos, tpos, pc, readAt>>
    BY DEF ZlibTakes, pipeVars, writenVars, outVars, fileVars, readAt
<1> DEFINE kind == Head(in).kind
<1>3. zlib' = CASE \/ zlib.mode = "head" /\ kind = "h"
                   \/ zlib.mode = "name" /\ kind = "0" -> [zlib EXCEPT !.mode = "body"]
                [] \/ zlib.mode = "head" /\ kind = "H"
                   \/ zlib.mode = "name" /\ kind # "0" -> [zlib EXCEPT !.mode = "name"]
                [] zlib.mode = "body" /\ kind = "d" ->
                       [zlib EXCEPT !.id = Head(in).id, !.rest = Grow]
                [] zlib.mode = "body" /\ kind = "e" -> [zlib EXCEPT !.mode = "end"]
                [] OTHER                            -> [zlib EXCEPT !.mode = "bad"]
    BY DEF ZlibTakes
<1>4. /\ UNCHANGED <<Closed, Read, NotGzip, Output>> /\ Content(sent)' = Content(sent)
    BY <1>1, <1>2, ReaderStays DEF Output
<1>5. /\ 0 <= Taken /\ readAt <= Len(sent) /\ Taken \in Nat /\ Taken < Len(sent)
      /\ \A i \in 1 .. Len(in) : in[i] = sent[Taken + i]
      /\ Len(in) >= 1
  <2>1. in \in Seq(Units) /\ Len(in) \in Nat /\ readAt \in Nat /\ in # <<>> /\ Len(sent) \in Nat
      BY <1>2, OutputTypes, ZlibTypes
  <2>2. Len(in) >= 1  BY <2>1
  <2>3. /\ 0 <= Taken /\ readAt <= Len(sent)
        /\ \A i \in 1 .. Len(in) : in[i] = sent[Taken + i]
      BY <1>1 DEF Decoding
  <2>4. Taken \in Nat /\ Taken < Len(sent)
    <3>1. Taken = readAt - Len(in)  BY DEF Taken
    <3> QED BY <2>1, <2>2, <2>3, <3>1
  <2> QED BY <2>2, <2>3, <2>4
<1>6. Head(in) = sent[Taken + 1]
  <2>1. in \in Seq(Units) /\ in # <<>>  BY <1>2, ZlibTypes
  <2>2. Head(in) = in[1]  BY <2>1
  <2>3. in[1] = sent[Taken + 1]  BY <1>5
  <2> QED BY <2>2, <2>3
<1>7. /\ Taken' = Taken + 1
      /\ \A i \in 1 .. Len(in') : in'[i] = sent[Taken + 1 + i]
  <2>1. Len(in') = Len(in) - 1 /\ \A i \in 1 .. Len(in') : in'[i] = in[i + 1]
      BY <1>2, ZlibTypes
  <2>2. Taken' = Taken + 1  BY <1>2, <2>1, ZlibTypes DEF Taken
  <2>3. ASSUME NEW i \in 1 .. Len(in') PROVE in'[i] = sent[Taken + 1 + i]
    <3>1. i + 1 \in 1 .. Len(in) /\ Taken + (i + 1) = Taken + 1 + i  BY <1>5, <2>1, ZlibTypes, SMTT(30)
    <3> QED BY <1>5, <2>1, <3>1
  <2> QED BY <2>2, <2>3
<1>8. /\ Taken + 1 \in 1 .. Len(sent) /\ sent[Taken + 1] \in Units
      /\ Mode(Taken + 1) = Behind(Mode(Taken), kind, call.force)
      /\ Text(Taken + 1) =
           IF \/ Mode(Taken + 1) = "copied"
              \/ kind = "d" /\ Mode(Taken + 1) \in {"data", "packed", "lzw"}
           THEN Text(Taken) \o [k \in 1 .. Times(sent) |-> Head(in).id]
           ELSE Text(Taken)
    BY <1>5, <1>6, NextUnit DEF AllInv
<1>9. /\ zlib'.mode = "bad" => zlib'.rest = 0
      /\ zlib'.rest > 0 => zlib'.mode = "body"
      /\ zlib'.mode \in {"name", "body", "end", "bad"}
    BY <1>2, <1>3, ZlibTypes
<1>10. pc' = "inflate" /\ Place' = "inflate"
    BY <1>1, <1>2 DEF Place
<1>11. /\ 0 <= Taken' /\ readAt' <= Len(sent') /\ sent' # <<>>
       /\ \A i \in 1 .. Len(in') : in'[i] = sent'[Taken' + i]
    BY <1>1, <1>2, <1>5, <1>7 DEF Decoding
<1> HIDE DEF kind
<1>12. CASE NotGzip
  <2>1. zlib.mode = "head" /\ Taken = 0 /\ Output = Content(sent)
      BY <1>1, <1>2, <1>12 DEF Decoding
  <2>2. kind \notin {"h", "H"}
      BY <1>6, <1>12, <2>1 DEF NotGzip, Gzip, kind
  <2>3. zlib' = [zlib EXCEPT !.mode = "bad"]
      BY <1>3, <2>1, <2>2
  <2>4. zlib'.mode = "bad" /\ zlib'.rest = 0
      BY <1>2, <2>3, ZlibTypes
  <2>5. Decoding'
      BY <1>4, <1>10, <1>11, <2>1, <2>4 DEF Decoding
  <2> QED BY <1>10, <2>5 DEF PlaceInv, SpoolPlaces
<1>13. CASE ~NotGzip
  <2> SUFFICES Decoding'
      BY <1>10 DEF PlaceInv, SpoolPlaces
  <2>1. /\ Output = Text(Taken)
        /\ zlib.mode = "head" => Taken = 0 \/ Mode(Taken) = "end"
        /\ zlib.mode = "name" => Mode(Taken) = "name"
        /\ zlib.mode = "body" => Mode(Taken) = "data"
    <3>1. Output \o Pending = Text(Taken) /\ Pending = <<>>
        BY <1>1, <1>2, <1>13, ZlibTypes DEF Decoding
    <3> QED BY <1>1, <1>2, <1>13, <3>1, OutputTypes DEF Decoding
  <2>2. sent # <<>> /\ sent[1].kind \in Gzip /\ Times(sent) = Grow
      BY <1>1, <1>13 DEF Decoding, NotGzip, Times
  <2>3. Taken = 0 => Mode(Taken) = "start" /\ kind \in {"h", "H"}
      BY <1>6, <2>2, ReaderTypes DEF AllInv, kind, Gzip
  <2>4. Mode(Taken + 1) = "garbage" => Text(Taken + 1) = Content(sent)
    <3>1. Taken + 1 \in 0 .. Len(sent)  BY <1>5, OutputTypes
    <3> QED BY <3>1, ReaderTypes DEF AllInv
  <2>5. ASSUME NEW mode \in {"name", "body", "end"}, zlib' = [zlib EXCEPT !.mode = mode],
               Mode(Taken + 1) = (IF mode = "body" THEN "data" ELSE mode), kind # "d" \/ mode = "name"
        PROVE  Decoding'
    <3>1. zlib'.mode = mode /\ zlib'.rest = 0 /\ Pending' = <<>>
      <4>1. zlib'.mode = mode /\ zlib'.rest = 0  BY <1>2, <2>5, ZlibTypes
      <4> QED BY <4>1 DEF Pending
    <3>2. Text(Taken + 1) = Text(Taken)
        BY <1>8, <2>5
    <3>3. (Output \o Pending = Text(Taken))'
        BY <1>4, <1>7, <2>1, <3>1, <3>2, OutputTypes DEF Text
    <3>4. Mode(Taken)' = Mode(Taken + 1)
        BY <1>4, <1>7 DEF Mode
    <3> QED BY <1>4, <1>10, <1>11, <1>13, <2>5, <3>1, <3>3, <3>4 DEF Decoding
  <2>6. ASSUME zlib' = [zlib EXCEPT !.mode = "bad"], Mode(Taken + 1) = "garbage"
        PROVE  Decoding'
    <3>1. zlib'.mode = "bad" /\ zlib'.rest = 0  BY <1>2, <2>6, ZlibTypes
    <3>2. Text(Taken + 1) = Text(Taken)  BY <1>8, <2>6
    <3>3. Output = Content(sent)  BY <2>1, <2>4, <2>6, <3>2
    <3> QED BY <1>4, <1>10, <1>11, <1>13, <3>1, <3>3 DEF Decoding
  <2>7. CASE zlib.mode = "head"
    <3>1. Mode(Taken) \in {"start", "end"} /\ (Mode(Taken) = "start" => kind \in {"h", "H"})
        BY <2>1, <2>3, <2>7
    <3>2. CASE kind = "h"
      <4>1. zlib' = [zlib EXCEPT !.mode = "body"]  BY <1>3, <2>7, <3>2
      <4>0. Behind(Mode(Taken), kind, call.force) = "data"
          BY <3>1, <3>2 DEF Behind, Gzip
      <4>2. Mode(Taken + 1) = "data"  BY <1>8, <4>0
      <4> QED BY <2>5, <3>2, <4>1, <4>2
    <3>3. CASE kind = "H"
      <4>1. zlib' = [zlib EXCEPT !.mode = "name"]  BY <1>3, <2>7, <3>3
      <4>0. Behind(Mode(Taken), kind, call.force) = "name"
          BY <3>1, <3>3 DEF Behind, Gzip
      <4>2. Mode(Taken + 1) = "name"  BY <1>8, <4>0
      <4> QED BY <2>5, <3>3, <4>1, <4>2
    <3>4. CASE kind \notin {"h", "H"}
      <4>1. zlib' = [zlib EXCEPT !.mode = "bad"]  BY <1>3, <2>7, <3>4
      <4>0. Behind(Mode(Taken), kind, call.force) = "garbage"
          BY <3>1, <3>4 DEF Behind, Gzip
      <4>2. Mode(Taken + 1) = "garbage"  BY <1>8, <4>0
      <4> QED BY <2>6, <4>1, <4>2
    <3> QED BY <3>2, <3>3, <3>4
  <2>8. CASE zlib.mode = "name"
    <3>1. Mode(Taken) = "name"  BY <2>1, <2>8
    <3>2. CASE kind = "0"
      <4>1. zlib' = [zlib EXCEPT !.mode = "body"]  BY <1>3, <2>8, <3>2
      <4>0. Behind(Mode(Taken), kind, call.force) = "data"
          BY <3>1, <3>2 DEF Behind, Gzip
      <4>2. Mode(Taken + 1) = "data"  BY <1>8, <4>0
      <4> QED BY <2>5, <3>2, <4>1, <4>2
    <3>3. CASE kind # "0"
      <4>1. zlib' = [zlib EXCEPT !.mode = "name"]  BY <1>3, <2>8, <3>3
      <4>0. Behind(Mode(Taken), kind, call.force) = "name"
          BY <3>1, <3>3 DEF Behind, Gzip
      <4>2. Mode(Taken + 1) = "name"  BY <1>8, <4>0
      <4> QED BY <2>5, <3>3, <4>1, <4>2
    <3> QED BY <3>2, <3>3
  <2>9. CASE zlib.mode = "body"
    <3>1. Mode(Taken) = "data"  BY <2>1, <2>9
    <3>2. CASE kind = "d"
      <4>1. zlib' = [zlib EXCEPT !.id = Head(in).id, !.rest = Grow]  BY <1>3, <2>9, <3>2
      <4>2. zlib'.mode = "body" /\ zlib'.rest = Grow /\ zlib'.id = Head(in).id
          BY <2>9, <4>1, ZlibTypes
      <4>3. Pending' = [k \in 1 .. Grow |-> Head(in).id]  BY <4>2 DEF Pending
      <4>0. Behind(Mode(Taken), kind, call.force) = "data"
          BY <3>1, <3>2 DEF Behind, Gzip
      <4>4. Mode(Taken + 1) = "data"  BY <1>8, <4>0
      <4>5. Text(Taken + 1) = Text(Taken) \o [k \in 1 .. Grow |-> Head(in).id]
          BY <1>8, <2>2, <3>2, <4>4
      <4>6. (Output \o Pending = Text(Taken))'
          BY <1>4, <1>7, <2>1, <4>3, <4>5 DEF Text
      <4>7. Mode(Taken)' = "data"  BY <1>4, <1>7, <4>4 DEF Mode
      <4> QED BY <1>4, <1>10, <1>11, <1>13, <4>2, <4>6, <4>7 DEF Decoding
    <3>3. CASE kind = "e"
      <4>1. zlib' = [zlib EXCEPT !.mode = "end"]  BY <1>3, <2>9, <3>3
      <4>0. Behind(Mode(Taken), kind, call.force) = "end"
          BY <3>1, <3>3 DEF Behind, Gzip
      <4>2. Mode(Taken + 1) = "end"  BY <1>8, <4>0
      <4> QED BY <2>5, <3>3, <4>1, <4>2
    <3>4. CASE kind \notin {"d", "e"}
      <4>1. zlib' = [zlib EXCEPT !.mode = "bad"]  BY <1>3, <2>9, <3>4
      <4>0. Behind(Mode(Taken), kind, call.force) = "garbage"
          BY <3>1, <3>4 DEF Behind, Gzip
      <4>2. Mode(Taken + 1) = "garbage"  BY <1>8, <4>0
      <4> QED BY <2>6, <4>1, <4>2
    <3> QED BY <3>2, <3>3, <3>4
  <2> QED BY <1>2, <2>7, <2>8, <2>9
<1> QED BY <1>12, <1>13

\* What zlib puts in the chunk is what it had pending.
LEMMA OutputPuts ==
    ASSUME AllInv, ZlibPuts \/ ZlibReturns, Regular, PlaceInv
    PROVE  PlaceInv'
<1>1. /\ Receiver /\ pc = "inflate" /\ Decoding
    BY DEF ZlibPuts, ZlibReturns, Receiver, PlaceInv, Place
<1>2. /\ UNCHANGED <<call, sent, out, in, readAt, Taken>>
    BY DEF ZlibPuts, ZlibReturns, pipeVars, writenVars, outVars, fileVars, zlibVars, readAt, Taken
<1>3. /\ UNCHANGED <<Closed, Read, NotGzip>> /\ Content(sent)' = Content(sent)
    BY <1>1, <1>2, ReaderStays
<1>4. /\ \A i \in 1 .. Len(in') : in'[i] = sent'[Taken' + i]
      /\ UNCHANGED <<Mode(Taken), Text(Taken)>>
    BY <1>1, <1>2, <1>3 DEF Decoding, Mode, Text
<1>5. CASE ZlibPuts
  <2>1. /\ zlib.rest > 0 /\ chunk' = Append(chunk, zlib.id) /\ pc' = pc
        /\ zlib' = [zlib EXCEPT !.rest = zlib.rest - 1]
      BY <1>5 DEF ZlibPuts
  <2>2. zlib'.mode = zlib.mode /\ zlib'.id = zlib.id /\ zlib'.rest = zlib.rest - 1 /\ zlib.rest \in Nat
        /\ zlib.id \in Int
      BY <2>1, ZlibTypes
  <2>3. ~NotGzip /\ zlib.mode = "body"
      BY <1>1, <2>1, <2>2 DEF Decoding
  <2>4. (Output \o Pending)' = Output \o Pending
    <3>1. Pending' = [k \in 1 .. zlib.rest - 1 |-> zlib.id]  BY <2>2 DEF Pending
    <3>2. (out \o Append(chunk, zlib.id)) \o Pending' = (out \o chunk) \o Pending
      <4>1. out \in Seq(Int) /\ chunk \in Seq(Int) /\ zlib.rest > 0
          BY <2>1, OutputTypes
      <4>2. (out \o Append(chunk, zlib.id)) \o [k \in 1 .. zlib.rest - 1 |-> zlib.id]
              = (out \o chunk) \o [k \in 1 .. zlib.rest |-> zlib.id]
        <5>1. \A s, t \in Seq(Int), e \in Int, n \in Nat : n > 0 =>
                (s \o Append(t, e)) \o [k \in 1 .. n - 1 |-> e] = (s \o t) \o [k \in 1 .. n |-> e]
            BY PendingPut
        <5> QED BY <2>2, <4>1, <5>1, Zenon
      <4> QED BY <3>1, <4>2 DEF Pending
    <3> QED BY <1>2, <2>1, <3>2 DEF Output
  <2>5. Decoding'
      BY <1>1, <1>2, <1>3, <1>4, <2>1, <2>2, <2>3, <2>4 DEF Decoding
  <2>6. Place' = "inflate"  BY <1>1, <2>1 DEF Place
  <2> QED BY <2>5, <2>6 DEF PlaceInv, SpoolPlaces
<1>6. CASE ZlibReturns
  <2>1. /\ UNCHANGED <<zlib, chunk, Output, Pending>> /\ pc' = "write"
        /\ \/ zlib.mode \in {"end", "bad"}
           \/ zlib.rest = 0 /\ in = <<>>
           \/ zlib.rest > 0 /\ Len(chunk) = Buf
      BY <1>6 DEF ZlibReturns, zlibVars, outVars, Output, Pending
  <2>2. Decoding'
      BY <1>1, <1>2, <1>3, <1>4, <2>1 DEF Decoding
  <2>3. Place' = "write"  BY <2>1 DEF Place
  <2> QED BY <2>2, <2>3 DEF PlaceInv, SpoolPlaces
<1> QED BY <1>5, <1>6

\* inflateGZIP's write() of a chunk that arrives whole.
LEMMA OutputWrite ==
    ASSUME AllInv, InflateWrite, Regular, Regular', PlaceInv
    PROVE  Begins(out, Content(sent))' /\ PlaceInv'
<1>1. /\ Receiver /\ pc = "write" /\ Decoding
    BY DEF InflateWrite, Receiver, PlaceInv, Place
<1>2. /\ UNCHANGED <<call, sent, in, readAt, Taken>> /\ chunk' = <<>>
    BY DEF InflateWrite, pipeVars, writenVars, fileVars, readAt, Taken
<1>3. /\ UNCHANGED <<Closed, Read, NotGzip>> /\ Content(sent)' = Content(sent)
    BY <1>1, <1>2, ReaderStays
<1>4. out' = Output
  <2>1. PICK k \in 0 .. Len(chunk) :
           /\ out' = out \o SubSeq(chunk, 1, k)
           /\ lost' = (lost \/ k < Len(chunk))
      BY DEF InflateWrite
  <2>2. k = Len(chunk)
    <3>1. ~(k < Len(chunk))  BY <2>1 DEF Regular
    <3> QED BY <3>1, OutputTypes
  <2>3. SubSeq(chunk, 1, Len(chunk)) = chunk  BY OutputTypes
  <2> QED BY <2>1, <2>2, <2>3 DEF Output
<1>5. Output' = Output
    BY <1>2, <1>4, OutputTypes DEF Output
<1>6. Begins(out, Content(sent))'
  <2>1. Begins(Output, Content(sent))
    <3>1. CASE zlib.mode = "bad" \/ NotGzip
      <4>1. Output = Content(sent)  BY <1>1, <3>1 DEF Decoding
      <4> QED BY <4>1, OutputTypes DEF Begins
    <3>2. CASE zlib.mode # "bad" /\ ~NotGzip
      <4>1. Output \o Pending = Text(Taken)  BY <1>1, <3>2 DEF Decoding
      <4>2. Begins(Output, Output \o Pending)  BY OutputTypes, ZlibTypes DEF Begins
      <4>3. Taken \in 0 .. Len(sent)
        <5>1. 0 <= Taken /\ readAt <= Len(sent)  BY <1>1 DEF Decoding
        <5>2. Taken = readAt - Len(in) /\ readAt \in Nat /\ Len(in) \in Nat /\ Len(sent) \in Nat
            BY OutputTypes, ZlibTypes DEF Taken
        <5> QED BY <5>1, <5>2
      <4>4. Begins(Text(Taken), Content(sent)) /\ Text(Taken) \in Seq(Int) /\ Content(sent) \in Seq(Int)
          BY <4>3, ReaderTypes DEF AllInv
      <4> QED BY <4>1, <4>2, <4>4, BeginsTransitive, OutputTypes
    <3> QED BY <3>1, <3>2
  <2> QED BY <1>3, <1>4, <2>1 DEF Begins
<1>7. /\ \A i \in 1 .. Len(in') : in'[i] = sent'[Taken' + i]
      /\ UNCHANGED <<Mode(Taken), Text(Taken)>>
    BY <1>1, <1>2, <1>3 DEF Decoding, Mode, Text
<1> DEFINE again == zlib.mode = "end" /\ in # <<>>
<1>8. /\ zlib' = IF again THEN FreshStream ELSE zlib
      /\ pc' = IF again \/ Len(chunk) = Buf THEN "inflate" ELSE "read"
    BY DEF InflateWrite
<1>9. Place' = pc' /\ pc' \in {"inflate", "read"}
    BY <1>8 DEF Place
<1>10. CASE again
  <2>1. zlib'.mode = "head" /\ zlib'.rest = 0 /\ pc' = "inflate"
      BY <1>8, <1>10 DEF FreshStream
  <2>2. zlib.rest = 0 /\ ~NotGzip /\ Mode(Taken) = "end" /\ Output \o Pending = Text(Taken)
      BY <1>1, <1>10, ZlibTypes DEF Decoding
  <2>3. Pending' = <<>> /\ Pending = <<>>
      BY <2>1, <2>2, ZlibTypes DEF Pending
  <2>4. Decoding'
      BY <1>1, <1>2, <1>3, <1>5, <1>7, <2>1, <2>2, <2>3 DEF Decoding
  <2> QED BY <1>6, <1>9, <2>4 DEF PlaceInv, SpoolPlaces
<1>11. CASE ~again
  <2>1. zlib' = zlib /\ Pending' = Pending
      BY <1>8, <1>11 DEF Pending
  <2>2. pc' = "read" => zlib.mode = "bad" \/ (in = <<>> /\ zlib.rest = 0)
    <3>1. zlib.mode = "end" => zlib.rest = 0
        BY <1>1, ZlibTypes DEF Decoding
    <3> QED BY <1>1, <1>8, <1>11, <3>1 DEF Decoding
  <2>3. Decoding'
      BY <1>1, <1>2, <1>3, <1>5, <1>7, <1>9, <2>1, <2>2 DEF Decoding
  <2> QED BY <1>6, <1>9, <2>3 DEF PlaceInv, SpoolPlaces
<1> QED BY <1>10, <1>11

\* A write_buf, in pieces or whole, keeps what has come out a beginning of the content.
LEMMA OutputFlush ==
    ASSUME AllInv, FlushWindow, Regular, Begins(out, Content(sent)), PlaceInv
    PROVE  Begins(out, Content(sent))' /\ PlaceInv'
<1>1. /\ Receiver /\ pc = "flush" /\ AtFlush /\ back \in AfterFlush
    BY DEF FlushWindow, Receiver, PlaceInv, Place, AllInv, TypeInv
<1>2. UNCHANGED <<call, sent, pos, inbuf, inptr, insize, work, first, lastMember, back>>
    BY DEF FlushWindow, pipeVars, writenVars, fileVars, bufVars, formatVars, insize
<1>3. /\ UNCHANGED <<Closed, Read, NotGzip, ReadsItself, Drained>> /\ Content(sent)' = Content(sent)
    BY <1>1, <1>2, ReaderStays DEF ReadsItself, Drained
<1>4. CASE chunk = <<>>
  <2>0. ~(\E n \in 1 .. Len(chunk) : TRUE)
      BY <1>4
  <2>1. pc' = back /\ UNCHANGED <<chunk, out, Output>>
      BY <1>4, <2>0 DEF FlushWindow, Output
  <2>2. pc' \in {"unpack", "next", "failed"} /\ Place' = pc'
      BY <1>1, <2>1 DEF AfterFlush, Place
  <2>3. UNCHANGED <<Consumed, InBuffer>>
      BY <1>1, <1>2, <2>2 DEF Consumed, InBuffer
  <2>4. UNCHANGED Working /\ UNCHANGED MemberOver
      BY <1>2, <1>3, <2>1, <2>3 DEF Working, MemberOver, Mode, Text
  <2>5. Begins(out, Content(sent))'
      BY <1>3, <2>1 DEF Begins
  <2>6. CASE back = "unpack"
    <3>1. AtUnpack  BY <1>1, <2>6 DEF AtFlush
    <3>2. Stuck => Stuck'  BY <1>1, <1>2, <1>3, <2>1, <2>2 DEF Stuck
    <3>3. AtUnpack'  BY <1>2, <2>4, <3>1, <3>2 DEF AtUnpack
    <3> QED BY <2>1, <2>2, <2>5, <2>6, <3>3 DEF PlaceInv, SpoolPlaces
  <2>7. CASE back = "next"
    <3>1. work # "unzip" /\ ~first  BY <1>1 DEF AllInv, SpoolInv, Control, Place
    <3>2. ReadsItself => Complete'
        BY <1>1, <1>3, <1>4, <2>1, <2>7, OutputTypes DEF AtFlush, Complete, Drained
    <3>3. ~ReadsItself => work = "unpack" /\ MemberOver  BY <1>1, <2>7 DEF AtFlush
    <3>4. AtNext'  BY <1>2, <1>3, <1>4, <2>1, <2>4, <2>7, <3>1, <3>2, <3>3 DEF AtNext
    <3> QED BY <2>1, <2>2, <2>5, <2>7, <3>4 DEF PlaceInv, SpoolPlaces
  <2>8. CASE back = "failed"
    <3> QED BY <2>1, <2>2, <2>5, <2>8 DEF PlaceInv, SpoolPlaces
  <2> QED BY <1>1, <2>6, <2>7, <2>8 DEF AfterFlush
<1>5. CASE chunk # <<>>
  <2>1. PICK n \in 1 .. Len(chunk) :
           /\ out' = out \o SubSeq(chunk, 1, n)
           /\ chunk' = SubSeq(chunk, n + 1, Len(chunk))
           /\ pc' = pc
      BY <1>5 DEF FlushWindow
  <2>2. n \in Nat /\ n >= 1 /\ n <= Len(chunk) /\ Len(chunk) \in Nat
      BY OutputTypes
  <2> DEFINE before == SubSeq(chunk, 1, n)
             behind == SubSeq(chunk, n + 1, Len(chunk))
  <2>3. /\ before \in Seq(Int) /\ behind \in Seq(Int) /\ before \o behind = chunk
      BY OutputTypes, Splits
  <2>4. out' = out \o before /\ chunk' = behind
      BY <2>1
  <2> HIDE DEF before, behind
  <2>5. Output' = Output
    <3>1. out \o (before \o behind) = (out \o before) \o behind
      <4>1. out \in Seq(Int) /\ before \in Seq(Int) /\ behind \in Seq(Int)  BY <2>3, OutputTypes
      <4> QED BY <4>1, ConcatAssociates
    <3> QED BY <2>3, <2>4, <3>1 DEF Output
  <2>6. pc' = "flush" /\ Place' = "flush"
      BY <1>1, <2>1 DEF Place
  <2>7. UNCHANGED <<Consumed, InBuffer>>
      BY <1>1, <1>2, <2>6 DEF Consumed, InBuffer
  <2>8. UNCHANGED Working /\ UNCHANGED MemberOver
      BY <1>2, <1>3, <2>5, <2>7 DEF Working, MemberOver, Mode, Text
  <2>9. AtUnpack => Working /\ ~(call.stdin /\ work = "unpack")
      BY <1>5 DEF AtUnpack, Stuck
  <2>10. AtUnpack => AtUnpack'
      BY <1>2, <2>8, <2>9 DEF AtUnpack
  <2>11. (\E n1 \in 0 .. Len(sent) : Output = Text(n1)) => (\E n1 \in 0 .. Len(sent) : Output = Text(n1))'
      BY <1>2, <1>3, <2>5 DEF Text
  <2>12. AtFlush'
      BY <1>1, <1>2, <1>3, <2>5, <2>8, <2>10, <2>11 DEF AtFlush
  <2>13. \E m \in 0 .. Len(sent) : Output = Text(m)
    <3>0. Buffered  BY <1>1 DEF Buffered, Unzipped, Inflating, Place
    <3>1. CASE back = "unpack"
      <4>1. Working  BY <1>1, <2>9, <3>1 DEF AtFlush
      <4>2. Consumed \in 0 .. Len(sent)  BY <3>0, <4>1, ConsumedType DEF Working
      <4> QED BY <4>1, <4>2 DEF Working
    <3>2. CASE back = "next" /\ ReadsItself
      <4>1. Len(sent) \in 0 .. Len(sent)  BY OutputTypes
      <4> QED BY <1>1, <3>2, <4>1, ReaderTypes DEF AtFlush, AllInv
    <3>3. CASE back = "next" /\ ~ReadsItself
      <4>1. MemberOver  BY <1>1, <3>3 DEF AtFlush
      <4>2. Consumed \in 0 .. Len(sent)  BY <3>0, <4>1, ConsumedType DEF MemberOver
      <4> QED BY <4>1, <4>2 DEF MemberOver
    <3>4. CASE back = "failed"  BY <1>1, <3>4 DEF AtFlush
    <3> QED BY <1>1, <3>1, <3>2, <3>3, <3>4 DEF AfterFlush
  <2>14. Begins(out, Content(sent))'
    <3>1. PICK m \in 0 .. Len(sent) : Output = Text(m)  BY <2>13
    <3>2. Begins(Output, Content(sent)) /\ Content(sent) \in Seq(Int)
        BY <3>1, ReaderTypes DEF AllInv
    <3>3. out \o before \in Seq(Int) /\ Begins(out \o before, (out \o before) \o behind)
        BY <2>3, OutputTypes, SMTT(30) DEF Begins
    <3>4. Output = (out \o before) \o behind
        BY <2>4, <2>5 DEF Output
    <3>5. Begins(out \o before, Content(sent))
        BY <3>2, <3>3, <3>4, OutputTypes, BeginsTransitive
    <3> QED BY <1>3, <2>4, <3>5 DEF Begins
  <2> QED BY <2>6, <2>12, <2>14 DEF PlaceInv, SpoolPlaces
<1> QED BY <1>4, <1>5

\* OutputInv holds at the start.
LEMMA OutputStarts == Init => OutputInv
<1> SUFFICES ASSUME Init PROVE OutputInv  OBVIOUS
<1>1. /\ pc = "magic" /\ first = TRUE /\ out = <<>> /\ chunk = <<>> /\ in = <<>> /\ pos = 0
      /\ inbuf = <<>> /\ inptr = 0 /\ insize = 0
    BY DEF Init, insize
<1>2. WritenInv  BY WritenStarts
<1>3. Content(sent) \in Seq(Int)  BY <1>2, ReaderTypes
<1>4. Begins(out, Content(sent))  BY <1>1, <1>3 DEF Begins
<1>5. AtMagic
    BY <1>1 DEF AtMagic, InBuffer, Consumed
<1>6. Place = "magic"  BY <1>1 DEF Place
<1>7. PlaceInv  BY <1>5, <1>6 DEF PlaceInv, SpoolPlaces
<1> QED BY <1>1, <1>4, <1>7 DEF OutputInv

\* The other two conjuncts.
LEMMA OutputRest ==
    ASSUME AllInv, Receiver
    PROVE  /\ out' \in Seq(Int)
           /\ pc' \notin {"read", "inflate", "write", "failed"} => in' = <<>>
<1>1. out \in Seq(Int) /\ chunk \in Seq(Int)  BY OutputTypes
<1>2. out' \in Seq(Int)
  <2>1. CASE InflateWrite
    <3>1. PICK k \in 0 .. Len(chunk) : out' = out \o SubSeq(chunk, 1, k)
        BY <2>1 DEF InflateWrite
    <3>2. SubSeq(chunk, 1, k) \in Seq(Int)  BY <1>1
    <3> QED BY <1>1, <3>1, <3>2
  <2>2. CASE FlushWindow
    <3>1. out' = out \/ \E n \in 1 .. Len(chunk) : out' = out \o SubSeq(chunk, 1, n)
        BY <2>2 DEF FlushWindow
    <3>2. \A n \in 1 .. Len(chunk) : SubSeq(chunk, 1, n) \in Seq(Int)  BY <1>1
    <3>3. \A n \in 1 .. Len(chunk) : out \o SubSeq(chunk, 1, n) \in Seq(Int)  BY <1>1, <3>2
    <3> QED BY <1>1, <3>1, <3>3
  <2>3. CASE ~InflateWrite /\ ~FlushWindow
    <3>1. out' = out
        BY <2>3 DEF Receiver, FillPiece, InputFails, FillReturns, FillAtEnd, GetMethod, SkipName,
           MethodKnown, Spool, NextMember, Finish, Rewind, InflateRead, ZlibTakes,
           ZlibPuts, ZlibReturns, Unpack, OutputFails, outVars
    <3> QED BY <1>1, <3>1
  <2> QED BY <2>1, <2>2, <2>3
<1>3. pc' \notin {"read", "inflate", "write", "failed"} => in' = <<>>
  <2>1. CASE Rewind \/ ZlibTakes \/ ZlibPuts \/ ZlibReturns \/ InflateWrite \/ OutputFails \/ InputFails
      BY <2>1 DEF Rewind, ZlibTakes, ZlibPuts, ZlibReturns, InflateWrite, OutputFails, InputFails
  <2>2. CASE InflateRead
    <3> DEFINE file == IF call.stdin THEN temp ELSE sent
               n == Least(Buf, Len(file) - readAt)
    <3>1. in' = SubSeq(file, readAt + 1, readAt + n) /\ (pc' = "next" => n = 0)
      <4>1. CASE call.stdin
          BY <2>2, <4>1 DEF InflateRead, readAt
      <4>2. CASE ~call.stdin
          BY <2>2, <4>2 DEF InflateRead, readAt
      <4> QED BY <4>1, <4>2
    <3>2. pc' \in {"next", "inflate"}  BY <2>2 DEF InflateRead
    <3>3. file \in Seq(Units) /\ readAt \in Nat
        BY OutputTypes, ZlibTypes DEF AllInv, TypeInv, TypeOK
    <3> HIDE DEF file, n
    <3>4. SubSeq(file, readAt + 1, readAt + 0) = <<>>  BY <3>3
    <3> QED BY <3>1, <3>2, <3>4
  <2>3. CASE FillPiece \/ FillReturns \/ FillAtEnd \/ GetMethod \/ SkipName \/ MethodKnown \/ Spool
             \/ NextMember \/ Finish \/ Unpack \/ FlushWindow
    <3>1. in' = in /\ pc \notin {"read", "inflate", "write", "failed"}
        BY <2>3 DEF FillPiece, FillReturns, FillAtEnd, GetMethod, SkipName,
           MethodKnown, Spool, NextMember, Finish, Unpack, FlushWindow, zlibVars
    <3> QED BY <3>1 DEF AllInv, OutputInv
  <2> QED BY <2>1, <2>2, <2>3 DEF Receiver
<1> QED BY <1>2, <1>3

\* OutputInv holds forever.
LEMMA OutputInvariant == Spec => []OutputInv
<1>1. AllInv /\ [Next]_vars => OutputInv'
  <2> SUFFICES ASSUME AllInv, [Next]_vars PROVE OutputInv'  OBVIOUS
  <2>1. CASE UNCHANGED vars
    <3>1. UNCHANGED <<source, next, left, sent, call, first, pc, back, pos, temp, tpos, inbuf, inptr,
                      work, lastMember, zlib, in, chunk, out, lost>>
        BY <2>1 DEF vars, writenVars, gunzipVars, fileVars, bufVars, formatVars, zlibVars, outVars
    <3>2. UNCHANGED <<Regular, Place, insize, Closed, Read, Output, Pending, readAt, NotGzip, ReadsItself>>
          /\ Content(sent)' = Content(sent)
        BY <3>1 DEF Regular, Leftover, Place, insize, Closed, Read, Output, Pending, readAt, NotGzip,
                    ReadsItself, Content
    <3>3. UNCHANGED <<Consumed, InBuffer, Taken, Complete, Drained>>
        BY <3>1, <3>2 DEF Consumed, InBuffer, Taken, Complete, Drained
    <3>4. UNCHANGED <<MemberOver, Working, Stuck, ReadyToUnzip, UnzipOver, Decoding>>
        BY <3>1, <3>2, <3>3 DEF MemberOver, Working, Stuck, ReadyToUnzip, UnzipOver, Decoding, Mode, Text
    <3>5. UNCHANGED <<AtMagic, AtMethod, AtSpool, AtUnpack, AtNext>>
        BY <3>1, <3>2, <3>3, <3>4 DEF AtMagic, AtMethod, AtSpool, AtUnpack, AtNext
    <3>6. UNCHANGED AtFlush
        BY <3>1, <3>2, <3>3, <3>4, <3>5 DEF AtFlush, Text
    <3>7. UNCHANGED PlaceInv
        BY <3>1, <3>2, <3>4, <3>5, <3>6, <3>3 DEF PlaceInv
    <3> QED BY <3>1, <3>2, <3>7 DEF AllInv, OutputInv, Begins
  <2>2. CASE Sender
    <3>1. UNCHANGED <<out, in, pc>>
        BY <2>2 DEF Sender, gunzipVars, zlibVars, outVars
    <3>2. Regular' => Begins(out, Content(sent))' /\ PlaceInv'
        BY <2>2, RegularBefore, OutputSender
    <3> QED BY <3>1, <3>2 DEF AllInv, OutputInv
  <2>3. CASE Receiver
    <3>1. SUFFICES ASSUME Regular' PROVE Begins(out, Content(sent))' /\ PlaceInv'
        BY <2>3, OutputRest DEF OutputInv
    <3>2. Regular /\ Begins(out, Content(sent)) /\ PlaceInv
        BY <2>3, <3>1, RegularBefore
    <3>3. CASE InflateWrite  BY <3>1, <3>2, <3>3, OutputWrite
    <3>4. CASE FlushWindow  BY <3>1, <3>2, <3>4, OutputFlush
    <3>5. CASE ~InflateWrite /\ ~FlushWindow
      <4>1. out' = out
          BY <2>3, <3>5 DEF Receiver, FillPiece, InputFails, FillReturns, FillAtEnd, GetMethod, SkipName,
             MethodKnown, Spool, NextMember, Finish, Rewind, InflateRead, ZlibTakes,
             ZlibPuts, ZlibReturns, Unpack, OutputFails, outVars
      <4>2. Begins(out, Content(sent))'
          BY <2>3, <3>2, <4>1, ReaderStays DEF Begins
      <4>3. OutputFails => PlaceInv'
        <5> SUFFICES ASSUME OutputFails PROVE PlaceInv'  OBVIOUS
        <5>1. Place' = "failed"  BY DEF OutputFails, Place
        <5> QED BY <5>1 DEF PlaceInv, SpoolPlaces
      <4>4. PlaceInv'
          BY <2>3, <3>2, <3>5, <4>3, OutputPiece, OutputFill, OutputMethod, OutputHeader, OutputSpool,
             OutputNext, OutputRewind, OutputRead, OutputTakes, OutputPuts, OutputUnpack
             DEF Receiver
      <4> QED BY <4>2, <4>4
    <3> QED BY <3>3, <3>4, <3>5
  <2> QED BY <2>1, <2>2, <2>3 DEF Next, Ended
<1>2. OutputInv /\ WritenInv /\ TypeInv /\ SpoolInv /\ InputInv /\ TempInv <=> AllInv
    BY DEF AllInv
<1> QED BY <1>1, <1>2, OutputStarts, WritenInvariant, TypeInvariant, SpoolInvariant,
           InputInvariant, TempInvariant, PTL DEF Spec

\* Unless a short write() lost bytes (inflate.c:85), tempfd had bytes left in it,
\* or the file is a zip file, what has come out of inflateGZIP (inflate.c:79),
\* unpack, unlzw and copy is always a beginning of what the input contains, member
\* after member, and all of it when gunzip ends without an error: for a file and
\* for standard input, however read() and write() divide it, and whatever the
\* sizes of the buffers (unzip.c:112).
THEOREM OutputCorrect == Spec => []OutputIsContent
<1>1. AllInv => OutputIsContent
  <2> SUFFICES ASSUME AllInv, Regular
               PROVE  /\ IsPrefix(out, Content(sent))
                      /\ pc = "done" => out = Content(sent)
      BY DEF OutputIsContent, Regular
  <2>1. Begins(out, Content(sent)) /\ PlaceInv
      BY DEF AllInv, OutputInv
  <2>2. out \in Seq(Int) /\ Content(sent) \in Seq(Int)
      BY OutputTypes, ReaderTypes DEF AllInv
  <2>3. IsPrefix(out, Content(sent))
    <3> DEFINE content == Content(sent)
    <3> HIDE DEF content
    <3>1. content \in Seq(Int) /\ Begins(out, content)  BY <2>1, <2>2 DEF content
    <3>2. SubSeq(out, 1, Len(out)) = SubSeq(content, 1, Len(out))
        BY <2>2, <3>1 DEF Begins
    <3> QED BY <3>1, <3>2 DEF IsPrefix, Begins, content
  <2>4. pc = "done" => Complete
      BY <2>1 DEF PlaceInv, Place
  <2> QED BY <2>3, <2>4 DEF Complete
<1>2. OutputInv /\ WritenInv /\ TypeInv /\ SpoolInv /\ InputInv /\ TempInv => AllInv
    BY DEF AllInv
<1> QED BY <1>1, <1>2, OutputInvariant, WritenInvariant, TypeInvariant, SpoolInvariant,
           InputInvariant, TempInvariant, PTL
=============================================================================
