------------------------------ MODULE BioProofs ------------------------------
(***************************************************************************)
(* Proofs that Brdstr of libbio returns whole lines, that its output       *)
(* functions lose no byte, and that the fields of a Biobuf keep their      *)
(* types in both modes, for every size of the buffer, every file and every *)
(* sequence of calls.                                                      *)
(***************************************************************************)
EXTENDS BioReadProofs

-----------------------------------------------------------------------------
(***************************************************************************)
(* Brdstr.  Whatever pieces Brdline and Bread give it, its string is the   *)
(* file from where it started on, and what Brdline found no delimiter in   *)
(* is what Bread then gives.                                               *)
(***************************************************************************)
\* s is the part of a file f of sz bytes from p up to e.
Part(f, sz, p, e, s) ==
    /\ p \in Nat /\ e \in Nat /\ p <= e /\ (p = e \/ e <= sz)
    /\ s = [j \in 1 .. e - p |-> f[p + j - 1]]

\* There is no delimiter in it.
Plain(f, p, e) == \A x \in p .. e - 1 : f[x] # Newline

\* The string ends at m: what the call of Brdline or Bread in progress has done.
LPhase(m) ==
    /\ pc = "Brdline" => str = "line" /\ out = <<>> /\ offset + icount = m
    /\ pc = "fill" =>
           str = "line" /\ out = <<>> /\ offset - i = m /\ Plain(file, m, offset)
    /\ pc = "bread" =>
           /\ str = "read" /\ i = -c /\ rdline = offset - m
           /\ Part(file, size, m, offset + i, out) /\ Plain(file, m, offset)
    /\ pc = "idle" /\ str = "read" =>
           /\ rdline = (offset + icount) - m
           /\ Part(file, size, m, offset + icount, out) /\ Plain(file, m, offset + icount)
    /\ pc = "idle" /\ str = "line" /\ ret = "line" =>
           /\ Part(file, size, m, offset + icount, out) /\ m < offset + icount
           /\ Plain(file, m, offset + icount - 1) /\ file[offset + icount - 1] = Newline
    /\ pc = "idle" /\ str = "line" /\ ret # "line" =>
           /\ out = <<>> /\ offset + icount = m
           /\ rdline = 0 => cut \/ m >= size \/ state = "Binactive"
           /\ rdline # 0 => rdline = -icount /\ Plain(file, m, offset)

LStr ==
    str # "no" =>
        /\ mode = "OREAD" /\ ret # "string"
        /\ \E m \in Nat : Part(file, size, from, m, q) /\ Plain(file, from, m) /\ LPhase(m)

\* The string is returned.
LRet ==
    ret = "string" =>
        /\ mode = "OREAD" /\ pc = "idle" /\ str = "no"
        /\ Part(file, size, from, offset + icount, q) /\ Plain(file, from, offset + icount - 1)
        /\ \/ cut \/ (from < offset + icount /\ file[offset + icount - 1] = Newline)
           \/ offset + icount >= size \/ state = "Binactive"

\* Bracteof: there was nothing more to read.
LEof == mode = "OREAD" /\ state = "Bracteof" => offset >= size

LInv == LStr /\ LRet /\ LEof

\* Nothing is a part.
LEMMA PartNone == ASSUME NEW p \in Nat PROVE Part(file, size, p, p, <<>>)
  <1>1. 1 .. p - p = {}
    OBVIOUS
  <1>2. [j \in 1 .. p - p |-> file[p + j - 1]] = <<>>
    BY <1>1
  <1> QED
    BY <1>2 DEF Part

\* Two parts that follow each other are one.
LEMMA PartJoin ==
    ASSUME size \in Nat, file \in [0 .. size - 1 -> Byte], NEW p, NEW m, NEW e, NEW s, NEW t,
           Part(file, size, p, m, s), Part(file, size, m, e, t)
    PROVE  Part(file, size, p, e, s \o t)
  <1>1. /\ p \in Nat /\ m \in Nat /\ e \in Nat /\ p <= m /\ m <= e
        /\ (p = m \/ m <= size) /\ (m = e \/ e <= size)
    BY Zenon DEF Part
  <1>2. s = [j \in 1 .. m - p |-> file[p + j - 1]] /\ t = [j \in 1 .. e - m |-> file[m + j - 1]]
    BY Zenon DEF Part
  <1>3. s \in Seq(Byte) /\ t \in Seq(Byte)
    <2>1. m - p \in Nat /\ (m - p = 0 \/ p + (m - p) <= size)
      BY <1>1
    <2>2. e - m \in Nat /\ (e - m = 0 \/ m + (e - m) <= size)
      BY <1>1
    <2>3. Bytes(p, m - p) \in Seq(Byte)
      BY <1>1, <2>1, BytesSeq, Zenon
    <2>4. Bytes(m, e - m) \in Seq(Byte)
      BY <1>1, <2>2, BytesSeq, Zenon
    <2> QED
      BY <1>2, <2>3, <2>4, Zenon DEF Bytes
  <1>4. Len(s) = m - p /\ Len(t) = e - m
    <2>1. m - p \in Nat /\ e - m \in Nat
      BY <1>1
    <2> QED
      BY <1>2, <1>3, <2>1, LenProperties
  <1>5. /\ s \o t \in Seq(Byte) /\ Len(s \o t) = e - p /\ DOMAIN (s \o t) = 1 .. e - p
    <2>1. /\ s \o t \in Seq(Byte) /\ Len(s \o t) = Len(s) + Len(t)
      BY <1>3, ConcatProperties, Zenon
    <2>2. (m - p) + (e - m) = e - p
      BY <1>1
    <2> QED
      BY <2>1, <2>2, <1>4, LenProperties, Zenon
  <1>6. ASSUME NEW j \in 1 .. e - p PROVE (s \o t)[j] = file[p + j - 1]
    <2>1. j \in 1 .. Len(s) + Len(t)
      BY <1>1, <1>4
    <2>2. (s \o t)[j] = IF j <= Len(s) THEN s[j] ELSE t[j - Len(s)]
      BY <1>3, <2>1, ConcatProperties, Zenon
    <2>3. CASE j <= m - p
      <3>1. j \in 1 .. m - p
        BY <1>1, <2>3
      <3>2. (s \o t)[j] = s[j]
        BY <1>4, <2>2, <2>3, Zenon
      <3>3. s[j] = file[p + j - 1]
        BY <1>2, <3>1, Zenon
      <3> QED
        BY <3>2, <3>3, Zenon
    <2>4. CASE ~(j <= m - p)
      <3>1. j - (m - p) \in 1 .. e - m /\ m + (j - (m - p)) - 1 = p + j - 1
        BY <1>1, <2>4
      <3>2. (s \o t)[j] = t[j - (m - p)]
        BY <1>4, <2>2, <2>4, Zenon
      <3>3. t[j - (m - p)] = file[m + (j - (m - p)) - 1]
        BY <1>2, <3>1, Zenon
      <3> QED
        BY <3>1, <3>2, <3>3, Zenon
    <2> QED
      BY <2>3, <2>4, Zenon
  <1>7. s \o t = Bytes(p, e - p)
    <2>1. e - p \in Nat /\ (e - p = 0 \/ p + (e - p) <= size)
      BY <1>1
    <2>2. Bytes(p, e - p) \in Seq(Byte)
      BY <1>1, <2>1, BytesSeq, Zenon
    <2>3. Len(Bytes(p, e - p)) = e - p
      BY <2>1, <2>2, LenProperties DEF Bytes
    <2>4. \A j \in 1 .. Len(s \o t) : (s \o t)[j] = Bytes(p, e - p)[j]
      BY <1>5, <1>6, Zenon DEF Bytes
    <2> QED
      BY <1>5, <2>2, <2>3, <2>4, SeqEqual, Zenon
  <1> QED
    BY <1>1, <1>7 DEF Part, Bytes

\* If neither has a delimiter, the whole has none.
LEMMA PlainJoin ==
    ASSUME NEW p \in Nat, NEW m \in Nat, NEW e \in Nat, Plain(file, p, m), Plain(file, m, e)
    PROVE  Plain(file, p, e)
  BY DEF Plain

\* Cells of the buffer that are good: Cells and memchr on them are about the file.
LEMMA GoodPiece ==
    ASSUME NEW b, NEW o \in Nat, NEW lo \in -(bsize + Bungetsize) .. 0, NEW n \in Nat,
           lo + n <= 0, Good(file, size, b, o, lo), size \in Nat
    PROVE  Part(file, size, o + lo, o + lo + n, Cells(b, lo, n))
  <1> USE SizesAssumption
  <1>1. /\ Cells(b, lo, n) = Bytes(o + lo, n)
        /\ lo < 0 => o + lo \in Nat /\ o <= size
        /\ n = 0 \/ o + lo + n <= size
    BY GoodCells, Zenon
  <1>2. /\ o + lo \in Nat /\ o + lo + n \in Nat /\ o + lo + n - (o + lo) = n
        /\ o + lo <= o + lo + n /\ (o + lo = o + lo + n \/ o + lo + n <= size)
    BY <1>1
  <1> QED
    BY <1>1, <1>2 DEF Part, Bytes

\* memchr() finds no delimiter in good cells: there is none in that part of the file.
LEMMA GoodPlain ==
    ASSUME NEW b, NEW o \in Nat, NEW lo \in -(bsize + Bungetsize) .. 0, NEW hi \in lo .. 0,
           Good(file, size, b, o, lo), Without(b, lo, hi)
    PROVE  Plain(file, o + lo, o + hi)
  <1> USE SizesAssumption
  <1> SUFFICES ASSUME NEW x \in o + lo .. o + hi - 1 PROVE file[x] # Newline
    BY DEF Plain
  <1>1. x - o \in Idx /\ x - o >= lo /\ x - o \in lo .. hi - 1 /\ o + (x - o) = x
    BY DEF Idx
  <1> QED
    BY <1>1, Zenon DEF Good, Without

\* The same of the cells at the beginning of the buffer.
LEMMA PrefixPlain ==
    ASSUME NEW b, NEW o \in Nat, NEW n \in 0 .. bsize, NEW lo \in 0 .. n, NEW hi \in lo .. n,
           Prefix(file, size, b, o, n), Without(b, lo - bsize, hi - bsize)
    PROVE  Plain(file, o - n + lo, o - n + hi)
  <1> USE SizesAssumption
  <1> SUFFICES ASSUME NEW x \in o - n + lo .. o - n + hi - 1 PROVE file[x] # Newline
    BY DEF Plain
  <1>0. o - n \in Nat
    BY Zenon DEF Prefix
  <1> DEFINE y == x - (o - n) - bsize
  <1>1. /\ y \in Idx /\ -bsize <= y /\ y < n - bsize /\ y \in lo - bsize .. hi - bsize - 1
        /\ o - n + y + bsize = x
    BY <1>0 DEF Idx
  <1> HIDE DEF y
  <1> QED
    BY <1>1, Zenon DEF Prefix, Without

-----------------------------------------------------------------------------
\* No Brdstr is in progress, and none has returned.
LEMMA LInit == Init => LInv
  BY Zenon DEF Init, LInv, LStr, LRet, LEof

\* When no Brdstr is in progress, only the end of the file matters.
LEMMA LFree ==
    ASSUME str' = "no", ret' # "string", LEof'
    PROVE  LInv'
  BY Zenon DEF LInv, LStr, LRet

\* The calls of the program that are not Brdstr.
LEMMA LCalls ==
    ASSUME RInv, LInv,
           \/ BgetcBuffered \/ BgetcEof \/ (\E k \in read(bsize) : BgetcFill(k)) \/ Bungetc
           \/ Bread \/ Brdline \/ BflushInactive
           \/ BflushRead \/ (\E n \in 0 .. MaxPos, base \in {0, 2} : BseekRead(n, base))
    PROVE  LInv'
  <1> USE DEF bufVars, fileVars, callVars, strVars, Free
  <1>1. str' = "no"
    BY Zenon DEF BgetcBuffered, BgetcEof, BgetcFill, Bungetc, Bread, Brdline, BflushInactive,
           BflushRead, BseekRead
  <1>2. ret' # "string"
    BY Zenon DEF BgetcBuffered, BgetcEof, BgetcFill, Bungetc, Bread, BreadCall, Brdline, BrdlineCall,
           BflushInactive, BflushRead, BseekRead
  <1>3. LEof'
    <2>1. CASE BgetcBuffered \/ BgetcEof \/ Bungetc \/ Bread \/ Brdline \/ BflushInactive
      BY <2>1, Zenon DEF BgetcBuffered, BgetcEof, Bungetc, Bread, Brdline, BflushInactive, LInv, LEof
    <2>2. CASE BflushRead \/ (\E n \in 0 .. MaxPos, base \in {0, 2} : BseekRead(n, base))
      BY <2>2, Zenon DEF BflushRead, BseekRead, LEof
    <2>3. ASSUME NEW k \in read(bsize), BgetcFill(k) PROVE LEof'
      <3>1. Reading /\ state = "Bractive" /\ size' = size
        BY <2>3, Zenon DEF BgetcFill
      <3>2. /\ fpos = offset /\ offset \in Nat /\ size \in Nat /\ k \in Int
        BY <3>1, <2>3, RBetween, ReadReturns, SizesAssumption, Zenon
      <3>3. CASE k > 0
        BY <2>3, <3>1, <3>2, <3>3 DEF BgetcFill, LEof
      <3>4. CASE k <= 0
        <4>1. state' = NoBytes(k) /\ offset' = offset
          BY <2>3, <3>4, Zenon DEF BgetcFill
        <4>2. k = 0 => fpos >= size
          BY <2>3, <3>2 DEF read, Least
        <4> QED
          BY <3>1, <3>2, <3>4, <4>1, <4>2 DEF NoBytes, LEof
      <3> QED
        BY <3>2, <3>3, <3>4
    <2> QED
      BY <2>1, <2>2, <2>3, Zenon
  <1> QED
    BY <1>1, <1>2, <1>3, LFree, Zenon

\* Output.
LEMMA LWrite ==
    ASSUME RInv, LInv, Write
    PROVE  LInv'
  <1> USE DEF bufVars, fileVars, callVars, strVars
  <1>1. mode = "OWRITE" /\ mode' = mode /\ str' = str
    BY Zenon DEF Write, BputcBuffered, BputcFlush, Bwrite, BwriteCopy, BwriteFlush,
           BwriteEnd, Bflush, Bterm, BseekWrite, Writing, RInv, RTypes
  <1>2. str = "no" /\ ret # "string"
    BY <1>1, Zenon DEF LInv, LStr, LRet
  <1>3. ret' # "string"
    BY <1>2, Zenon DEF Write, BputcBuffered, BputcFlush, Bwrite, BwriteCopy, BwriteFlush,
                BwriteEnd, Bflush, Bterm, BseekWrite
  <1> QED
    BY <1>1, <1>2, <1>3, LFree, Zenon DEF LEof

\* Bread, when Brdstr calls it, is asked for what is buffered: it never reads the file.
LEMMA LBread ==
    ASSUME RInv, ROut, LInv, BreadCopy \/ (\E k \in read(bsize) : BreadFill(k)) \/ BreadEnd
    PROVE  LInv'
  <1> USE SizesAssumption DEF bufVars, fileVars, strVars, End
  <1>1. pc = "bread" /\ mode = "OREAD" /\ mode' = mode
    BY Zenon DEF BreadCopy, BreadFill, BreadEnd, RInv, RTypes
  <1>2. /\ i \in -(bsize + Bungetsize) .. 0 /\ c \in Nat
        /\ Good(file, size, buf, offset, i) /\ offset \in Nat /\ fpos = offset /\ size \in Nat
        /\ file \in [0 .. size - 1 -> Byte]
    BY <1>1, Zenon DEF RInv, RTypes, RBread, ROut
  <1>3. ret # "string" /\ ret' # "string"
    BY <1>1, Zenon DEF LInv, LRet, BreadCopy, BreadFill, BreadEnd
  <1>4. str' = str /\ from' = from /\ q' = q /\ file' = file /\ size' = size /\ rdline' = rdline
    BY Zenon DEF BreadCopy, BreadFill, BreadEnd
  <1>5. LEof'
    <2>1. CASE BreadCopy \/ BreadEnd
      BY <2>1, Zenon DEF BreadCopy, BreadEnd, LInv, LEof
    <2>2. ASSUME NEW k \in read(bsize), BreadFill(k) PROVE LEof'
      <3>2. k \in Int /\ state = "Bractive"
        BY <1>2, <2>2, ReadReturns, Zenon DEF BreadFill
      <3>3. CASE k > 0
        BY <2>2, <3>2, <3>3 DEF BreadFill, LEof
      <3>4. CASE k <= 0
        <4>1. state' = NoBytes(k) /\ offset' = offset
          BY <2>2, <3>4, Zenon DEF BreadFill
        <4>2. k = 0 => fpos >= size
          BY <1>2, <2>2 DEF read, Least
        <4> QED
          BY <1>2, <1>4, <3>2, <3>4, <4>1, <4>2 DEF NoBytes, LEof
      <3> QED
        BY <3>2, <3>3, <3>4
    <2> QED
      BY <2>1, <2>2, Zenon
  <1>6. CASE str = "no"
    BY <1>3, <1>4, <1>5, <1>6, LFree, Zenon
  <1>7. CASE str # "no"
    <2>1. PICK m \in Nat : Part(file, size, from, m, q) /\ Plain(file, from, m) /\ LPhase(m)
      BY <1>7, Zenon DEF LInv, LStr
    <2>2. /\ str = "read" /\ i = -c /\ Part(file, size, m, offset + i, out)
          /\ Plain(file, m, offset) /\ rdline = offset - m
      BY <1>1, <2>1, Zenon DEF LPhase
    <2>3. LPhase(m)'
      <3>1. CASE BreadCopy
        <4>1. /\ pc' = "bread" /\ offset' = offset /\ c > 0
              /\ out' = out \o Cells(buf, i, Least(-i, c))
              /\ c' = c - Least(-i, c) /\ i' = i + Least(-i, c)
          BY <1>1, <3>1, Zenon DEF BreadCopy
        <4>2. Least(-i, c) = c /\ -i = c /\ i + c = 0 /\ c - c = 0
          BY <1>2, <2>2 DEF Least
        <4>3. out' = out \o Cells(buf, i, c) /\ c' = 0 /\ i' = 0
          BY <4>1, <4>2, Zenon
        <4>4. Part(file, size, offset + i, offset + i + c, Cells(buf, i, c))
          <5>1. i + c <= 0
            BY <4>2
          <5> QED
            BY <1>2, <5>1, GoodPiece, Zenon
        <4>5. Part(file, size, m, offset + i + c, out')
          BY <1>2, <2>2, <4>3, <4>4, PartJoin, Zenon
        <4>6. offset + i + c = offset' + i' /\ i' = -c'
          BY <1>2, <4>1, <4>2, <4>3
        <4> QED
          BY <1>4, <2>2, <4>1, <4>5, <4>6, Zenon DEF LPhase
      <3>2. CASE BreadEnd
        <4>1. /\ c = 0 \/ i = 0
              /\ pc' = "idle" /\ icount' = i /\ offset' = offset /\ out' = out
          BY <3>2, Zenon DEF BreadEnd
        <4>2. i = 0 /\ offset + i = offset
          BY <1>2, <2>2, <4>1
        <4>3. /\ Part(file, size, m, offset' + icount', out') /\ Plain(file, m, offset' + icount')
              /\ rdline' = (offset' + icount') - m
          BY <1>4, <2>2, <4>1, <4>2, Zenon
        <4> QED
          BY <1>4, <2>2, <4>1, <4>3, Zenon DEF LPhase
      <3>3. ASSUME NEW k \in read(bsize), BreadFill(k) PROVE FALSE
        <4>1. c > 0 /\ i = 0
          BY <3>3, Zenon DEF BreadFill
        <4> QED
          BY <1>2, <2>2, <4>1
      <3> QED
        BY <3>1, <3>2, <3>3, Zenon
    <2>4. LStr'
      BY <1>1, <1>3, <1>4, <2>1, <2>3, Zenon DEF LStr
    <2> QED
      BY <1>3, <1>5, <2>4, Zenon DEF LInv, LRet
  <1> QED
    BY <1>6, <1>7, Zenon

\* Brdline in the buffer.
LEMMA LBrdline ==
    ASSUME RInv, ROut, LInv, BrdlineEof \/ (\E x \in Idx : BrdlineHave(x)) \/ BrdlineMove
    PROVE  LInv'
  <1> USE SizesAssumption DEF fileVars, strVars, End
  <1>1. pc = "Brdline" /\ mode = "OREAD" /\ mode' = mode
    BY Zenon DEF BrdlineEof, BrdlineHave, BrdlineMove, RInv, RTypes
  <1>2. /\ icount \in -(bsize + Bungetsize) .. 0 /\ Good(file, size, buf, offset, icount)
        /\ offset \in Nat /\ size \in Nat /\ state \in {"Binactive", "Bractive", "Bracteof"}
    BY <1>1, Zenon DEF RInv, RTypes, RBrdline
  <1>3. ret # "string" /\ ret' # "string"
    BY <1>1, Zenon DEF LInv, LRet, BrdlineEof, BrdlineHave, BrdlineMove
  <1>4. /\ str' = str /\ from' = from /\ q' = q /\ file' = file /\ size' = size
        /\ offset' = offset
    BY Zenon DEF BrdlineEof, BrdlineHave, BrdlineMove
  <1>5. LEof'
    BY <1>1, <1>4, Zenon DEF BrdlineEof, BrdlineHave, BrdlineMove, LInv, LEof
  <1>6. CASE str = "no"
    BY <1>3, <1>4, <1>5, <1>6, LFree, Zenon
  <1>7. CASE str # "no"
    <2>1. PICK m \in Nat : Part(file, size, from, m, q) /\ Plain(file, from, m) /\ LPhase(m)
      BY <1>7, Zenon DEF LInv, LStr
    <2>2. str = "line" /\ out = <<>> /\ offset + icount = m
      BY <1>1, <2>1, Zenon DEF LPhase
    <2>3. LPhase(m)'
      <3>1. CASE BrdlineEof
        <4>1. /\ icount = 0 /\ state # "Bractive" /\ pc' = "idle" /\ ret' = "Beof"
              /\ rdline' = 0 /\ icount' = icount /\ out' = out
              /\ state' = IF state = "Bracteof" THEN "Bractive" ELSE state
          BY <3>1, Zenon DEF BrdlineEof
        <4>2. m >= size \/ state' = "Binactive"
          BY <1>1, <1>2, <2>2, <4>1 DEF LInv, LEof
        <4> QED
          BY <1>4, <2>2, <4>1, <4>2, Zenon DEF LPhase
      <3>2. CASE BrdlineMove
        <4>1. /\ pc' = "fill" /\ i' = -icount /\ out' = out /\ Without(buf, icount, 0)
          BY <3>2, Zenon DEF BrdlineMove
        <4>2. Plain(file, offset + icount, offset)
          <5>1. 0 \in icount .. 0 /\ offset + 0 = offset
            BY <1>2
          <5>2. Plain(file, offset + icount, offset + 0)
            BY <1>2, <4>1, <5>1, GoodPlain, Zenon
          <5> QED
            BY <5>1, <5>2, Zenon
        <4>3. offset' - i' = m
          BY <1>2, <1>4, <2>2, <4>1
        <4> QED
          BY <1>4, <2>2, <4>1, <4>2, <4>3, Zenon DEF LPhase
      <3>3. ASSUME NEW x \in Idx, BrdlineHave(x) PROVE LPhase(m)'
        <4> DEFINE n == x - icount + 1
        <4>1. /\ pc' = "idle" /\ ret' = "line" /\ icount' = x + 1 /\ x \in icount .. -1
              /\ out' = Cells(buf, icount, n)
              /\ buf[x] = Newline /\ Without(buf, icount, x)
          BY <1>2, <3>3 DEF BrdlineHave, First, Without
        <4>2. /\ n \in Nat /\ icount + n <= 0 /\ offset + (x + 1) = offset + icount + n
              /\ offset + (x + 1) - 1 = offset + x /\ x \in icount .. 0
              /\ m < offset + (x + 1) /\ offset + (x + 1) \in Nat /\ x \in Idx /\ x >= icount
          BY <1>2, <2>2, <4>1 DEF Idx
        <4> HIDE DEF n
        <4>3. Part(file, size, m, offset + (x + 1), out')
          BY <1>2, <2>2, <4>1, <4>2, GoodPiece, Zenon
        <4>4. Plain(file, m, offset + x)
          BY <1>2, <2>2, <4>1, <4>2, GoodPlain, Zenon
        <4>5. file[offset + x] = Newline
          BY <1>2, <4>1, <4>2, Zenon DEF Good
        <4>6. /\ Part(file, size, m, offset' + icount', out') /\ m < offset' + icount'
              /\ Plain(file, m, offset' + icount' - 1) /\ file[offset' + icount' - 1] = Newline
          BY <1>4, <4>1, <4>2, <4>3, <4>4, <4>5, Zenon
        <4> QED
          BY <1>4, <2>2, <4>1, <4>6, Zenon DEF LPhase
      <3> QED
        BY <3>1, <3>2, <3>3, Zenon
    <2>4. LStr'
      BY <1>1, <1>3, <1>4, <2>1, <2>3, Zenon DEF LStr
    <2> QED
      BY <1>3, <1>5, <2>4, Zenon DEF LInv, LRet
  <1> QED
    BY <1>6, <1>7, Zenon

\* Brdline reads on.
LEMMA LFill ==
    ASSUME RInv, ROut, LInv,
           (\E k \in read(bsize - i) : BrdlineNone(k) \/ BrdlineFill(k)) \/ BrdlineFull
    PROVE  LInv'
  <1> USE SizesAssumption DEF fileVars, strVars, End
  <1>1. pc = "fill" /\ mode = "OREAD" /\ mode' = mode
    BY Zenon DEF BrdlineNone, BrdlineFill, BrdlineFull, RInv, RTypes
  <1>2. /\ i \in 0 .. bsize /\ Prefix(file, size, buf, offset, i) /\ offset - i \in Nat
        /\ offset \in Nat /\ fpos = offset /\ size \in Nat /\ bsize - i \in Nat
    BY <1>1 DEF RInv, RTypes, RFill, Prefix
  <1>3. ret # "string" /\ ret' # "string"
    BY <1>1, Zenon DEF LInv, LRet, BrdlineNone, BrdlineFill, BrdlineFull
  <1>4. str' = str /\ from' = from /\ q' = q /\ file' = file /\ size' = size /\ state' = state
    BY Zenon DEF BrdlineNone, BrdlineFill, BrdlineFull
  <1>5. LEof'
    <2>1. offset' \in Int /\ offset' >= offset
      <3>1. CASE BrdlineFull
        BY <1>2, <3>1 DEF BrdlineFull
      <3>2. ASSUME NEW k \in read(bsize - i), BrdlineNone(k) \/ BrdlineFill(k)
            PROVE  offset' \in Int /\ offset' >= offset
        BY <1>2, <3>2, ReadReturns DEF BrdlineNone, BrdlineFill
      <3> QED
        BY <3>1, <3>2, Zenon
    <2> QED
      BY <1>1, <1>2, <1>4, <2>1 DEF LInv, LEof
  <1>6. CASE str = "no"
    BY <1>3, <1>4, <1>5, <1>6, LFree, Zenon
  <1>7. CASE str # "no"
    <2>1. PICK m \in Nat : Part(file, size, from, m, q) /\ Plain(file, from, m) /\ LPhase(m)
      BY <1>7, Zenon DEF LInv, LStr
    <2>2. str = "line" /\ out = <<>> /\ offset - i = m /\ Plain(file, m, offset)
      BY <1>1, <2>1, Zenon DEF LPhase
    <2>3. LPhase(m)'
      <3>1. CASE BrdlineFull
        <4>1. /\ pc' = "idle" /\ ret' = "full" /\ rdline' = bsize /\ icount' = -bsize
              /\ i = bsize /\ offset' = offset /\ out' = out
          BY <1>2, <3>1 DEF BrdlineFull
        <4>2. offset' + icount' = m /\ rdline' # 0 /\ rdline' = -icount'
          BY <1>2, <2>2, <4>1
        <4> QED
          BY <1>4, <2>2, <4>1, <4>2, Zenon DEF LPhase
      <3>2. ASSUME NEW k \in read(bsize - i), BrdlineNone(k) PROVE LPhase(m)'
        <4>1. /\ pc' = "idle" /\ ret' = "Beof" /\ rdline' = i /\ icount' = -i /\ k <= 0
              /\ offset' = offset /\ out' = out /\ (k < 0 => cut')
          BY <1>7, <3>2, Zenon DEF BrdlineNone
        <4>2. k \in Int /\ (k = 0 => offset >= size)
          <5>1. k \in Int
            BY <1>2, ReadReturns, Zenon
          <5> QED
            BY <1>2, <5>1 DEF read, Least
        <4>3. offset' + icount' = m /\ rdline' = -icount'
          BY <1>2, <2>2, <4>1
        <4>4. rdline' = 0 => cut' \/ m >= size
          BY <1>2, <2>2, <4>1, <4>2
        <4> QED
          BY <1>4, <2>2, <4>1, <4>3, <4>4, Zenon DEF LPhase
      <3>3. ASSUME NEW k \in read(bsize - i), BrdlineFill(k) PROVE LPhase(m)'
        <4> DEFINE b == Arrive(buf, i - bsize, k)
                   n == i + k
        <4>1. /\ i < bsize /\ k > 0 /\ offset' = offset + k
              /\ \/ i' = n /\ pc' = pc /\ out' = out /\ Without(b, i - bsize, n - bsize)
                 \/ \E x \in i - bsize .. n - bsize - 1 :
                    /\ First(b, i - bsize, n - bsize, x)
                    /\ pc' = "idle" /\ icount' = x + bsize + 1 - n /\ ret' = "line"
                    /\ out' = Cells(b, -bsize, x + bsize + 1)
          BY <3>3, Zenon DEF BrdlineFill
        <4>2. k \in 1 .. bsize - i /\ fpos + k <= size
          BY <1>2, <4>1, ReadReturns, Zenon
        <4>3. n \in 0 .. bsize /\ i \in 0 .. bsize - 1 /\ k \in Int /\ fpos + k \in Nat
          BY <1>2, <4>1, <4>2
        <4>4. Prefix(file, size, b, fpos + k, n)
          BY <1>2, <4>2, <4>3, PrefixMore, Zenon
        <4>5. PICK o \in Nat : o = fpos + k
          BY <4>3, Zenon
        <4>6. /\ i \in 0 .. n /\ n \in i .. n /\ o - n + i = offset
              /\ o - n + n = offset + k /\ o - n = m
          BY <1>2, <2>2, <4>2, <4>3, <4>5
        <4> HIDE DEF b
        <4>7. Prefix(file, size, b, o, n)
          BY <4>4, <4>5, Zenon
        <4>8. CASE i' = n /\ pc' = pc /\ out' = out /\ Without(b, i - bsize, n - bsize)
          <5>1. offset' - i' = m
            BY <1>2, <2>2, <4>1, <4>3, <4>8
          <5>2. Plain(file, offset, offset + k)
            <6> HIDE DEF n
            <6>1. Plain(file, o - n + i, o - n + n)
              BY <4>3, <4>6, <4>7, <4>8, PrefixPlain, Zenon
            <6> QED
              BY <4>6, <6>1, Zenon
          <5>3. Plain(file, m, offset')
            <6>1. offset + k \in Nat
              BY <1>2, <4>2
            <6> QED
              BY <1>2, <2>2, <4>1, <5>2, <6>1, PlainJoin, Zenon
          <5> QED
            BY <1>1, <1>4, <2>2, <4>8, <5>1, <5>3, Zenon DEF LPhase
        <4>9. ASSUME NEW x \in i - bsize .. n - bsize - 1, First(b, i - bsize, n - bsize, x),
                     pc' = "idle", icount' = x + bsize + 1 - n, ret' = "line",
                     out' = Cells(b, -bsize, x + bsize + 1)
              PROVE  LPhase(m)'
          <5> DEFINE h == x + bsize
          <5>1. /\ x \in Int /\ h \in i .. n /\ h \in 0 .. n - 1 /\ h - bsize = x
                /\ h + 1 \in Nat /\ h + 1 <= n /\ n \in Nat /\ n <= bsize
                /\ offset' + icount' = m + (h + 1) /\ offset' + icount' - 1 = m + h
                /\ m + (h + 1) \in Nat /\ m + h \in Nat /\ m < offset' + icount'
                /\ x \in Idx /\ -bsize <= x /\ x < n - bsize /\ m + x + bsize = m + h
            BY <1>2, <2>2, <4>1, <4>2, <4>3, <4>9, <4>6 DEF Idx
          <5>2. b[x] = Newline /\ Without(b, i - bsize, h - bsize) /\ out' = Cells(b, -bsize, h + 1)
            BY <4>9, <5>1, Zenon DEF First, Without
          <5> HIDE DEF n, h
          <5>3. Part(file, size, m, m + (h + 1), out')
            <6>1. o - n = m /\ n \in Nat
              BY <4>6, <5>1, Zenon
            <6>2. o = m + n
              BY <6>1
            <6>3. /\ Cells(b, -bsize, h + 1) = Bytes(m, h + 1)
                  /\ h + 1 = 0 \/ m + (h + 1) <= size
              BY <1>2, <4>7, <5>1, <6>2, PrefixCells, Zenon
            <6>4. m + (h + 1) - m = h + 1 /\ h + 1 # 0
              BY <5>1
            <6> QED
              BY <5>1, <5>2, <6>3, <6>4 DEF Part, Bytes
          <5>4. Plain(file, m, m + h)
            <6>1. Plain(file, o - n + i, o - n + h)
              BY <4>3, <4>6, <4>7, <5>1, <5>2, PrefixPlain, Zenon
            <6>2. Plain(file, offset, m + h)
              BY <4>6, <6>1, Zenon
            <6> QED
              BY <1>2, <2>2, <5>1, <6>2, PlainJoin, Zenon
          <5>5. file[m + h] = Newline
            <6>1. b[x] = file[o - n + x + bsize]
              BY <4>7, <5>1, Zenon DEF Prefix
            <6> QED
              BY <4>6, <5>1, <5>2, <6>1, Zenon
          <5>6. pc' = "idle" /\ ret' = "line" /\ str' = "line"
            BY <1>4, <2>2, <4>9, Zenon
          <5>7. /\ offset' + icount' = m + (h + 1) /\ offset' + icount' - 1 = m + h
                /\ m < offset' + icount'
            BY <5>1, Zenon
          <5>8. Part(file, size, m, offset' + icount', out')
            BY <5>3, <5>7, Zenon
          <5>9. Plain(file, m, offset' + icount' - 1) /\ file[offset' + icount' - 1] = Newline
            BY <5>4, <5>5, <5>7, Zenon
          <5> QED
            BY <1>4, <5>6, <5>7, <5>8, <5>9, ZenonT(30) DEF LPhase
        <4> QED
          BY <4>1, <4>8, <4>9, Zenon
      <3> QED
        BY <3>1, <3>2, <3>3, Zenon
    <2>4. LStr'
      BY <1>1, <1>3, <1>4, <2>1, <2>3, Zenon DEF LStr
    <2> QED
      BY <1>3, <1>5, <2>4, Zenon DEF LInv, LRet
  <1> QED
    BY <1>6, <1>7, Zenon

\* Bread has given Brdstr all it was asked for.
LEMMA LWhole ==
    ASSUME RInv, ROut, LInv, BrdstrRead
    PROVE  q' = q \o out
  <1>1. Reading /\ str = "read" /\ q' = q \o out \o [j \in 1 .. rdline - Len(out) |-> Junk]
    BY Zenon DEF BrdstrRead
  <1>2. /\ mode = "OREAD" /\ pc = "idle" /\ offset + icount \in Nat /\ size \in Nat
        /\ file \in [0 .. size - 1 -> Byte] /\ out \in Seq(Byte)
    BY <1>1, RBetween, FBetween, Zenon DEF ROut
  <1>3. PICK m \in Nat : Part(file, size, from, m, q) /\ LPhase(m)
    BY <1>1, Zenon DEF LInv, LStr
  <1>4. PICK e \in Nat : e = offset + icount
    BY <1>2, Zenon
  <1>5. rdline = e - m /\ Part(file, size, m, e, out)
    BY <1>1, <1>2, <1>3, <1>4, Zenon DEF LPhase
  <1>6. e - m \in Nat /\ out = [j \in 1 .. e - m |-> file[m + j - 1]]
    BY <1>5 DEF Part
  <1>7. Len(out) = e - m
    BY <1>2, <1>6, LenProperties
  <1>8. 1 .. rdline - Len(out) = {}
    BY <1>5, <1>6, <1>7
  <1>9. [j \in 1 .. rdline - Len(out) |-> Junk] = <<>>
    BY <1>8
  <1>10. q \in Seq(Byte)
    <2>1. /\ from \in Nat /\ m - from \in Nat /\ (m - from = 0 \/ from + (m - from) <= size)
      BY <1>2, <1>3 DEF Part
    <2>2. Bytes(from, m - from) \in Seq(Byte)
      BY <1>2, <2>1, BytesSeq, Zenon
    <2> QED
      BY <1>3, <2>2, Zenon DEF Part, Bytes
  <1>11. q \o out \in Seq(Byte)
    BY <1>2, <1>10, ConcatProperties, Zenon
  <1> QED
    BY <1>1, <1>9, <1>11, ConcatEmptySeq, Zenon

\* What Brdstr does between the calls.
LEMMA LBrdstr ==
    ASSUME RInv, ROut, LInv, Brdstr \/ BrdstrLine \/ BrdstrRead \/ BrdstrTaken
    PROVE  LInv'
  <1> USE SizesAssumption DEF bufVars, fileVars, callVars, strVars, BrdlineCall, BreadCall
  <1>1. Reading
    BY Zenon DEF Brdstr, BrdstrLine, BrdstrRead, BrdstrTaken
  <1>2. /\ mode = "OREAD" /\ pc = "idle" /\ offset \in Nat /\ size \in Nat
        /\ icount \in -(bsize + Bungetsize) .. 0 /\ rdline \in Nat
        /\ file \in [0 .. size - 1 -> Byte]
        /\ offset + icount \in Nat
    BY <1>1, RBetween, FBetween, Zenon DEF ROut
  <1>3. /\ mode' = mode /\ file' = file /\ size' = size /\ offset' = offset
        /\ icount' = icount /\ rdline' = rdline /\ state' = state
    BY Zenon DEF Brdstr, BrdstrLine, BrdstrRead, BrdstrTaken
  <1>4. LEof'
    BY <1>3, Zenon DEF LInv, LEof
  <1>5. CASE Brdstr
    <2>1. PICK m \in Nat : m = offset + icount
      BY <1>2, Zenon
    <2>2. /\ pc' = "Brdline" /\ out' = <<>> /\ ret' = "busy" /\ str' = "line" /\ q' = <<>>
          /\ from' = m
      BY <1>5, <2>1, Zenon DEF Brdstr, Boffset
    <2>3. offset' + icount' = m
      BY <1>3, <2>1, Zenon
    <2>4. Part(file, size, m, m, <<>>) /\ Plain(file, m, m)
      BY PartNone DEF Plain
    <2>5. LPhase(m)'
      BY <2>2, <2>3, Zenon DEF LPhase
    <2>6. LStr'
      BY <1>2, <1>3, <2>2, <2>4, <2>5, Zenon DEF LStr
    <2> QED
      BY <1>4, <2>2, <2>6, Zenon DEF LInv, LRet
  <1>6. CASE BrdstrTaken
    BY <1>3, <1>4, <1>6, LFree, Zenon DEF BrdstrTaken, LInv, LRet
  <1>7. CASE BrdstrRead
    <2>1. /\ str = "read" /\ pc' = "Brdline" /\ out' = <<>> /\ ret' = "busy" /\ str' = "line"
          /\ q' = q \o out /\ from' = from
      BY <1>7, LWhole, Zenon DEF BrdstrRead
    <2>2. PICK m \in Nat : Part(file, size, from, m, q) /\ Plain(file, from, m) /\ LPhase(m)
      BY <2>1, Zenon DEF LInv, LStr
    <2>3. PICK e \in Nat : e = offset + icount
      BY <1>2, Zenon
    <2>4. Part(file, size, m, e, out) /\ Plain(file, m, e)
      BY <1>2, <2>1, <2>2, <2>3, Zenon DEF LPhase
    <2>5. Part(file, size, from, e, q \o out)
      BY <1>2, <2>2, <2>4, PartJoin, Zenon
    <2>6. Plain(file, from, e)
      <3>1. from \in Nat
        BY <2>2, Zenon DEF Part
      <3> QED
        BY <2>2, <2>4, <3>1, PlainJoin, Zenon
    <2>7. LPhase(e)'
      BY <1>3, <2>1, <2>3, Zenon DEF LPhase
    <2>8. LStr'
      BY <1>2, <1>3, <2>1, <2>5, <2>6, <2>7, Zenon DEF LStr
    <2> QED
      BY <1>4, <2>1, <2>8, Zenon DEF LInv, LRet
  <1>8. CASE BrdstrLine
    <2>1. str = "line" /\ from' = from /\ cut' = cut
      BY <1>8, Zenon DEF BrdstrLine
    <2>2. PICK m \in Nat : Part(file, size, from, m, q) /\ Plain(file, from, m) /\ LPhase(m)
      BY <2>1, Zenon DEF LInv, LStr
    <2>3. PICK e \in Nat : e = offset + icount
      BY <1>2, ZenonT(30)
    <2>4. from \in Nat /\ from <= m
      BY <2>2, Zenon DEF Part
    <2>5. CASE ret = "line"
      <3>1. q' = q \o out /\ str' = "no" /\ ret' = "string" /\ pc' = "idle"
        BY <1>2, <1>8, <2>5, Zenon DEF BrdstrLine
      <3>2. /\ Part(file, size, m, e, out) /\ m < e /\ Plain(file, m, e - 1)
            /\ file[e - 1] = Newline
        BY <1>2, <2>1, <2>2, <2>3, <2>5 DEF LPhase
      <3>3. Part(file, size, from, e, q \o out)
        BY <1>2, <2>2, <3>2, PartJoin, Zenon
      <3>4. Plain(file, from, e - 1) /\ from < e
        <4>1. e - 1 \in Nat /\ from < e
          BY <2>4, <3>2
        <4> QED
          BY <2>2, <2>4, <3>2, <4>1, PlainJoin, Zenon
      <3>5. LRet'
        BY <1>2, <1>3, <2>1, <2>3, <3>1, <3>2, <3>3, <3>4 DEF LRet
      <3> QED
        BY <1>4, <3>1, <3>5, Zenon DEF LInv, LStr
    <2>6. CASE ret # "line" /\ rdline = 0
      <3>1. q' = q \o out /\ str' = "no" /\ ret' = "string" /\ pc' = "idle"
        BY <1>2, <1>8, <2>6, Zenon DEF BrdstrLine
      <3>2. out = <<>> /\ e = m /\ (cut \/ m >= size \/ state = "Binactive")
        BY <1>2, <2>1, <2>2, <2>3, <2>6, Zenon DEF LPhase
      <3>3. Part(file, size, from, e, q \o out)
        BY <1>2, <2>2, <3>2, PartNone, PartJoin, Zenon
      <3>4. Plain(file, from, e - 1)
        BY <2>2, <2>4, <3>2 DEF Plain
      <3>5. LRet'
        BY <1>2, <1>3, <2>1, <2>3, <3>1, <3>2, <3>3, <3>4 DEF LRet
      <3> QED
        BY <1>4, <3>1, <3>5, ZenonT(30) DEF LInv, LStr
    <2>7. CASE ret # "line" /\ rdline # 0
      <3>1. /\ q' = q /\ str' = "read" /\ ret' = "busy" /\ pc' = "bread" /\ out' = <<>>
            /\ i' = icount /\ c' = rdline
        BY <1>8, <2>7, Zenon DEF BrdstrLine
      <3>2. e = m /\ rdline = -icount /\ Plain(file, m, offset)
        BY <1>2, <2>1, <2>2, <2>3, <2>7, Zenon DEF LPhase
      <3>3. Part(file, size, m, m, <<>>)
        BY PartNone, Zenon
      <3>4. i' = -c' /\ offset' + i' = m /\ rdline' = offset' - m
        BY <1>2, <1>3, <2>3, <3>1, <3>2
      <3>5. LPhase(m)'
        BY <1>3, <3>1, <3>2, <3>3, <3>4, Zenon DEF LPhase
      <3>6. LStr'
        BY <1>2, <1>3, <2>1, <2>2, <3>1, <3>5, Zenon DEF LStr
      <3> QED
        BY <1>4, <3>1, <3>6, Zenon DEF LInv, LRet
    <2> QED
      BY <2>5, <2>6, <2>7, Zenon
  <1> QED
    BY <1>5, <1>6, <1>7, <1>8, Zenon

\* The invariant of Brdstr is inductive, with what is known of the buffer.
LEMMA LNext == RInv /\ ROut /\ LInv /\ [Next]_vars => LInv'
  <1> SUFFICES ASSUME RInv, ROut, LInv, [Next]_vars PROVE LInv'
    OBVIOUS
  <1>1. CASE Read
    BY <1>1, LCalls, LBread, LBrdline, LFill, LBrdstr, Zenon DEF Read
  <1>2. CASE Write
    BY <1>2, LWrite, Zenon
  <1>3. CASE BflushInactive
    BY <1>3, LCalls, Zenon
  <1>4. CASE UNCHANGED vars
    BY <1>4, ZenonT(30) DEF vars, bufVars, fileVars, callVars, strVars, userVars, LInv, LStr, LRet, LEof,
                LPhase
  <1> QED
    BY <1>1, <1>2, <1>3, <1>4, Zenon DEF Next

\* Brdstr returns one whole line: for every size of the buffer, every file, wherever the
\* caller was and whatever the reads return, its string is the file from there to the first
\* newline or to the end, unless a read failed.
THEOREM BrdstrReturnsLines == Spec => []LinesAreWhole
  <1>1. LInv /\ RInv => LinesAreWhole
    <2> SUFFICES ASSUME LInv, RInv, ret = "string" PROVE LinesAreWhole
      BY Zenon DEF LinesAreWhole
    <2> USE SizesAssumption
    <2>1. /\ mode = "OREAD" /\ Part(file, size, from, offset + icount, q)
          /\ Plain(file, from, offset + icount - 1)
          /\ \/ cut \/ (from < offset + icount /\ file[offset + icount - 1] = Newline)
             \/ offset + icount >= size \/ state = "Binactive"
      BY Zenon DEF LInv, LRet
    <2>2. PICK e \in Nat : e = offset + icount
      BY <2>1, Zenon DEF Part
    <2>3. /\ from \in Nat /\ from <= e /\ e - from \in Nat
          /\ q = [j \in 1 .. e - from |-> file[from + j - 1]]
      BY <2>1, <2>2 DEF Part
    <2>4. /\ Plain(file, from, e - 1)
          /\ cut \/ (from < e /\ file[e - 1] = Newline) \/ e >= size \/ state = "Binactive"
      <3>1. offset \in Int /\ icount \in Int
        BY <2>1 DEF RInv, RTypes
      <3>2. offset + icount = e /\ offset + icount - 1 = e - 1
        BY <2>2, <3>1
      <3>3. Plain(file, from, e - 1)
        BY <2>1, <3>2, Zenon
      <3> QED
        BY <2>1, <3>2, <3>3, Zenon
    <2>5. Len(q) = e - from /\ \A j \in 1 .. e - from : q[j] = file[from + j - 1]
      BY <2>3
    <2>6. \A j \in 1 .. e - from - 1 : q[j] # Newline
      <3> SUFFICES ASSUME NEW j \in 1 .. e - from - 1 PROVE q[j] # Newline
        OBVIOUS
      <3>1. from + j - 1 \in from .. e - 1 - 1 /\ j \in 1 .. e - from
        BY <2>3
      <3>2. file[from + j - 1] # Newline
        BY <2>4, <3>1, Zenon DEF Plain
      <3> QED
        BY <2>5, <3>1, <3>2, Zenon
    <2>7. from < e /\ file[e - 1] = Newline => q # <<>> /\ q[e - from] = Newline
      <3> SUFFICES ASSUME from < e, file[e - 1] = Newline PROVE q # <<>> /\ q[e - from] = Newline
        OBVIOUS
      <3>1. e - from \in 1 .. e - from /\ from + (e - from) - 1 = e - 1 /\ e - from # 0
        BY <2>3
      <3>2. q # <<>>
        BY <2>5, <3>1, EmptySeq, Zenon
      <3> QED
        BY <2>5, <3>1, <3>2, Zenon
    <2>8. cut \/ (q # <<>> /\ q[e - from] = Newline) \/ e >= size \/ state = "Binactive"
      BY <2>4, <2>7, Zenon
    <2>9. Boffset = e
      BY <2>2, Zenon DEF Boffset
    <2> QED
      BY <2>3, <2>5, <2>6, <2>8, <2>9, Zenon DEF LinesAreWhole
  <1> QED
    BY <1>1, LInit, LNext, RInit, RNext, FInit, FNext, PTL DEF Spec

-----------------------------------------------------------------------------
(***************************************************************************)
(* Output.  NothingLost says where each byte is; with what the calls in    *)
(* progress know of their locals it is inductive, and a Bflush that        *)
(* succeeds leaves nothing in the buffer.                                  *)
(***************************************************************************)
Cell == Byte \cup {Junk}

\* A Biobuf open for reading is never in the state of one open for writing.
WModes ==
    /\ mode \in {"OREAD", "OWRITE"}
    /\ mode = "OREAD" => /\ state # "Bwactive" /\ ret # "flushed"
                         /\ pc \in {"idle", "bread", "Brdline", "fill"}
    /\ mode = "OWRITE" => /\ state \in {"Bwactive", "Binactive"}
                          /\ pc \in {"idle", "bwrite", "closed"}
                          /\ str = "no"
    /\ pc # "idle" => ret # "flushed"

\* The types of what the output functions use.
WTypes ==
    mode = "OWRITE" =>
        /\ offset \in Nat /\ fpos \in Nat
        /\ ocount \in -bsize .. 0 /\ (pc = "bwrite" => i \in -bsize .. 0)
        /\ buf \in [Idx -> Cell] /\ file \in [Pos -> Cell] /\ want \in [Pos -> Cell]
        /\ out \in Seq(Byte)

WInv == WModes /\ WTypes /\ NothingLost /\ FlushedMeansWritten

\* Binits.
LEMMA WInit == Init => WInv
  <1> SUFFICES ASSUME Init PROVE WInv
    OBVIOUS
  <1> USE SizesAssumption
  <1>1. WModes
    BY Zenon DEF Init, WModes
  <1>2. WTypes
    BY DEF Init, WTypes, Cell, Pos, Idx
  <1>3. NothingLost
    BY DEF Init, NothingLost, Pos
  <1>4. FlushedMeansWritten
    BY Zenon DEF Init, FlushedMeansWritten
  <1> QED
    BY <1>1, <1>2, <1>3, <1>4, Zenon DEF WInv

\* The functions for input neither enter the states of the writer nor leave those of
\* the reader.
LEMMA WRead == WInv /\ Read => WInv'
  <1> SUFFICES ASSUME WInv, Read PROVE WInv'
    OBVIOUS
  <1> USE DEF bufVars, fileVars, callVars, strVars, Reading, End, WInv, WModes
  <1>0. /\ mode = "OREAD" /\ mode' = mode
        /\ state' # "Bwactive" /\ ret' # "flushed"
        /\ pc' \in {"idle", "bread", "Brdline", "fill"}
    <2>1. CASE BgetcBuffered \/ BgetcEof \/ \E k \in read(bsize) : BgetcFill(k)
      BY <2>1, Zenon DEF BgetcBuffered, BgetcEof, BgetcFill, NoBytes
    <2>2. CASE Bungetc \/ Bread \/ BreadCopy \/ BreadEnd
      BY <2>2, Zenon DEF Bungetc, Bread, BreadCall, BreadCopy, BreadEnd
    <2>3. CASE \E k \in read(bsize) : BreadFill(k)
      BY <2>3, Zenon DEF BreadFill, NoBytes
    <2>4. CASE Brdline \/ BrdlineEof \/ (\E x \in Idx : BrdlineHave(x)) \/ BrdlineMove
      BY <2>4, Zenon DEF Brdline, BrdlineCall, BrdlineEof, BrdlineHave, BrdlineMove
    <2>5. CASE \E k \in read(bsize - i) : BrdlineNone(k) \/ BrdlineFill(k)
      BY <2>5, Zenon DEF BrdlineNone, BrdlineFill
    <2>6. CASE BrdlineFull \/ Brdstr \/ BrdstrLine \/ BrdstrRead \/ BrdstrTaken
      BY <2>6, Zenon DEF BrdlineFull, Brdstr, BrdstrLine, BrdstrRead, BrdstrTaken, BrdlineCall,
                  BreadCall
    <2>7. CASE BflushRead \/ \E n \in 0 .. MaxPos, base \in {0, 2} : BseekRead(n, base)
      BY <2>7, Zenon DEF BflushRead, BseekRead
    <2> QED
      BY <2>1, <2>2, <2>3, <2>4, <2>5, <2>6, <2>7, Zenon DEF Read
  <1>1. WModes' /\ WTypes'
    BY <1>0, Zenon DEF WTypes
  <1>2. NothingLost' /\ FlushedMeansWritten'
    BY <1>0, Zenon DEF NothingLost, FlushedMeansWritten
  <1> QED
    BY <1>1, <1>2, Zenon

\* What a write() of the buffer leaves in the file: all that the caller wrote, if it
\* wrote everything.
LEMMA WWritten ==
    ASSUME offset \in Nat, fpos = offset, NEW oc \in -bsize .. 0, NEW k \in write(bsize + oc),
           buf \in [Idx -> Cell], file \in [Pos -> Cell], want \in [Pos -> Cell],
           \A p \in Pos : want[p] = IF offset <= p /\ p < offset + bsize + oc
                                   THEN buf[p - offset - bsize] ELSE file[p]
    PROVE  /\ k \in Int /\ Written(k) \in [Pos -> Cell]
           /\ k = bsize + oc => Written(k) = want
  <1> USE SizesAssumption
  <1>1. k \in Int /\ k <= bsize + oc
    BY DEF write
  <1>2. Written(k) \in [Pos -> Cell]
    <2>1. ASSUME NEW p \in Pos, fpos <= p, p < fpos + k
          PROVE  buf[p - fpos - bsize] \in Cell
      BY <2>1, <1>1 DEF Idx, Pos
    <2> QED
      BY <2>1, Zenon DEF Written
  <1>3. ASSUME k = bsize + oc PROVE Written(k) = want
    <2>1. \A p \in Pos : Written(k)[p] = want[p]
      BY <1>3 DEF Written, Pos
    <2> QED
      BY <2>1, <1>2
  <1> QED
    BY <1>1, <1>2, <1>3, Zenon

\* What Bflush makes of it.
LEMMA WFlush ==
    ASSUME WInv, mode = "OWRITE", pc = "idle", state = "Bwactive",
           NEW k \in write(bsize + ocount)
    PROVE  /\ k \in Int /\ Written(k) \in [Pos -> Cell]
           /\ Flush(k).fpos \in Nat /\ Flush(k).offset \in Nat
           /\ Flush(k).ocount \in -bsize .. 0
           /\ Flush(k).state \in {"Bwactive", "Binactive"}
           /\ Flush(k).ok <=> Flush(k).state = "Bwactive"
           /\ Flush(k).ok => /\ Written(k) = want /\ Flush(k).ocount = -bsize
                             /\ Flush(k).fpos = Flush(k).offset
  <1> USE SizesAssumption
  <1>1. /\ offset \in Nat /\ fpos = offset /\ ocount \in -bsize .. 0
        /\ buf \in [Idx -> Cell] /\ file \in [Pos -> Cell] /\ want \in [Pos -> Cell]
        /\ \A p \in Pos : want[p] = IF offset <= p /\ p < offset + bsize + ocount
                                   THEN buf[p - offset - bsize] ELSE file[p]
    BY Zenon DEF WInv, WTypes, NothingLost
  <1>2. /\ k \in Int /\ Written(k) \in [Pos -> Cell]
        /\ k = bsize + ocount => Written(k) = want
    BY <1>1, WWritten, Zenon
  <1>3. k <= bsize + ocount
    BY <1>1 DEF write
  <1> QED
    BY <1>1, <1>2, <1>3 DEF Flush, Most

\* A buffer with nothing in it stands for no place of the file.
LEMMA WEmpty ==
    ASSUME NEW o \in Nat, NEW oc, oc = -bsize
    PROVE  \A p \in Pos : ~(o <= p /\ p < o + bsize + oc)
  BY SizesAssumption DEF Pos

\* Bflush, Bseek and Bterm: when the write succeeds the buffer is empty and the file
\* is what is wanted; when it fails nothing is promised any more.
LEMMA WFlushes ==
    ASSUME WInv, NEW k \in write(bsize + ocount),
           Bflush(k) \/ Bterm(k) \/ \E n \in 0 .. MaxPos : BseekWrite(n, k)
    PROVE  WInv'
  <1> USE SizesAssumption DEF callVars, strVars
  <1>0. /\ mode = "OWRITE" /\ pc = "idle" /\ state = "Bwactive"
        /\ UNCHANGED <<mode, buf, i, str, out, want>>
        /\ file' = Written(k) /\ ocount' = Flush(k).ocount /\ state' = Flush(k).state
        /\ pc' \in {"idle", "closed"} /\ (pc' = "closed" => ret' = "ok")
        /\ (ret' = "flushed" => Flush(k).ok)
        /\ fpos' \in Nat /\ offset' \in Nat
        /\ (Flush(k).ok => fpos' = offset')
    <2>1. /\ mode = "OWRITE" /\ pc = "idle" /\ state = "Bwactive"
          /\ UNCHANGED <<mode, buf, i, str, out, want>>
      BY Zenon DEF Bflush, Bterm, BseekWrite, Writing
    <2>2. CASE Bflush(k)
      BY <2>1, <2>2, WFlush, Zenon DEF Bflush, Writing
    <2>3. CASE Bterm(k)
      BY <2>1, <2>3, WFlush, Zenon DEF Bterm, Writing
    <2>4. CASE \E n \in 0 .. MaxPos : BseekWrite(n, k)
      BY <2>1, <2>4 DEF BseekWrite, Writing
    <2> QED
      BY <2>1, <2>2, <2>3, <2>4, Zenon
  <1>1. /\ Written(k) \in [Pos -> Cell] /\ Flush(k).ocount \in -bsize .. 0
        /\ Flush(k).state \in {"Bwactive", "Binactive"}
        /\ Flush(k).ok <=> Flush(k).state = "Bwactive"
        /\ Flush(k).ok => Written(k) = want /\ Flush(k).ocount = -bsize
    BY <1>0, WFlush, Zenon
  <1>2. WModes' /\ WTypes'
    BY <1>0, <1>1, Zenon DEF WInv, WModes, WTypes
  <1>3. NothingLost'
    <2> SUFFICES ASSUME state' = "Bwactive" PROVE NothingLost'
      BY Zenon DEF NothingLost
    <2>0. offset' \in Nat /\ ocount' = -bsize
      BY <1>0, <1>1, Zenon
    <2>1. fpos' = offset' /\ file' = want' /\ pc' # "bwrite"
      BY <1>0, <1>1, Zenon
    <2>2. \A p \in Pos : ~(offset' <= p /\ p < offset' + bsize + ocount')
      BY <2>0, WEmpty, Zenon
    <2> QED
      BY <2>1, <2>2, Zenon DEF NothingLost
  <1>4. FlushedMeansWritten'
    BY <1>0, <1>1, Zenon DEF FlushedMeansWritten
  <1> QED
    BY <1>2, <1>3, <1>4, Zenon DEF WInv

\* The buffer with n bytes of s at oc.
Copied(oc, n, s) ==
    [x \in Idx |-> IF oc <= x /\ x < oc + n THEN s[x - oc + 1] ELSE buf[x]]

\* What is wanted, when n bytes of s are copied to the buffer at oc.
LEMMA WWanted ==
    ASSUME NEW oc \in -bsize .. 0, NEW n \in 0 .. -oc, NEW s,
           \A j \in 1 .. n : s[j] \in Cell,
           offset \in Nat, buf \in [Idx -> Cell], want \in [Pos -> Cell],
           state = "Bwactive" =>
              \A p \in Pos : want[p] = IF offset <= p /\ p < offset + bsize + oc
                                      THEN buf[p - offset - bsize] ELSE file[p]
    PROVE  /\ Wanted(oc, n, s) \in [Pos -> Cell] /\ Copied(oc, n, s) \in [Idx -> Cell]
           /\ state = "Bwactive" =>
                \A p \in Pos :
                    Wanted(oc, n, s)[p] = IF offset <= p /\ p < offset + bsize + (oc + n)
                                          THEN Copied(oc, n, s)[p - offset - bsize]
                                          ELSE file[p]
  <1> USE SizesAssumption
  <1> DEFINE b == Copied(oc, n, s)
             w == Wanted(oc, n, s)
  <1>0. oc \in Int /\ n \in Nat /\ \A p \in Pos : p \in Nat
    BY DEF Pos
  <1>2. w \in [Pos -> Cell]
    <2>1. ASSUME NEW p \in Pos, offset + bsize + oc <= p, p < offset + bsize + oc + n
          PROVE  s[p - offset - bsize - oc + 1] \in Cell
      <3>1. p - offset - bsize - oc + 1 \in 1 .. n
        BY <1>0, <2>1
      <3> QED
        BY <3>1, Zenon
    <2> QED
      BY <2>1, Zenon DEF Wanted
  <1>3. b \in [Idx -> Cell]
    <2>1. ASSUME NEW x \in Idx, oc <= x, x < oc + n
          PROVE  s[x - oc + 1] \in Cell
      <3>1. x - oc + 1 \in 1 .. n
        BY <2>1 DEF Idx
      <3> QED
        BY <3>1, Zenon
    <2> QED
      BY <2>1, Zenon DEF Copied
  <1>4. ASSUME state = "Bwactive", NEW p \in Pos
        PROVE  w[p] = IF offset <= p /\ p < offset + bsize + (oc + n)
                      THEN b[p - offset - bsize] ELSE file[p]
    <2>1. w[p] = IF offset + bsize + oc <= p /\ p < offset + bsize + oc + n
                 THEN s[p - offset - bsize - oc + 1] ELSE want[p]
      BY <1>4, Zenon DEF Wanted
    <2>2. want[p] = IF offset <= p /\ p < offset + bsize + oc
                    THEN buf[p - offset - bsize] ELSE file[p]
      BY <1>4, Zenon
    <2>3. p \in Nat
      BY <1>0, Zenon
    <2>4. CASE offset <= p /\ p < offset + bsize + (oc + n)
      <3> DEFINE x == p - offset - bsize
      <3>1. x \in Idx
        BY <2>3, <2>4, <1>0, SMTT(30) DEF Idx
      <3>2. b[x] = IF oc <= x /\ x < oc + n THEN s[x - oc + 1] ELSE buf[x]
        BY <3>1, Zenon DEF Copied
      <3>3. /\ x \in Int /\ p - offset - bsize - oc + 1 = x - oc + 1
            /\ oc <= x <=> offset + bsize + oc <= p
            /\ x < oc + n <=> p < offset + bsize + oc + n
            /\ x < oc <=> p < offset + bsize + oc
        BY <1>0 DEF Pos
      <3>4. w[p] = b[x]
        <4> HIDE DEF b, w
        <4>1. CASE oc <= x
          BY <4>1, <3>2, <3>3, <2>1, <2>4, <1>0 DEF Pos
        <4>2. CASE x < oc
          BY <4>2, <3>2, <3>3, <2>1, <2>2, <2>4, <1>0, Zenon DEF Pos
        <4> QED
          BY <4>1, <4>2, <3>3, <1>0
      <3> HIDE DEF b, w
      <3> QED
        BY <3>4, <2>4, Zenon
    <2>5. CASE ~(offset <= p /\ p < offset + bsize + (oc + n))
      <3> HIDE DEF b, w
      <3>1. ~(offset + bsize + oc <= p /\ p < offset + bsize + oc + n)
        BY <2>3, <2>5, <1>0
      <3>2. ~(offset <= p /\ p < offset + bsize + oc)
        BY <2>3, <2>5, <1>0
      <3> QED
        BY <2>1, <2>2, <2>5, <3>1, <3>2, Zenon
    <2> QED
      BY <2>4, <2>5, Zenon
  <1> QED
    BY <1>2, <1>3, <1>4, Zenon

\* Bputc: one byte goes to the buffer, which has room or is written first.
LEMMA WBputc ==
    ASSUME WInv, NEW b \in Data,
           BputcBuffered(b) \/ \E k \in write(bsize) : BputcFlush(b, k)
    PROVE  WInv'
  <1> USE SizesAssumption DEF callVars, strVars, fileVars
  <1>1. /\ mode = "OWRITE" /\ pc = "idle" /\ offset \in Nat /\ fpos \in Nat
        /\ ocount \in -bsize .. 0
        /\ buf \in [Idx -> Cell] /\ file \in [Pos -> Cell] /\ want \in [Pos -> Cell]
        /\ out \in Seq(Byte) /\ str = "no" /\ state \in {"Bwactive", "Binactive"}
    BY Zenon DEF WInv, WModes, WTypes, BputcBuffered, BputcFlush, Writing
  <1>2. b \in Cell /\ \A j \in 1 .. 1 : <<b>>[j] \in Cell
    BY ByteAssumption DEF Cell
  <1>3. CASE BputcBuffered(b)
    <2>1. /\ ocount \in -bsize .. -1 /\ ocount' = ocount + 1
          /\ want' = Wanted(ocount, 1, <<b>>) /\ ret' = "ok"
          /\ UNCHANGED <<state, offset, fpos, file, mode, pc, str, out>>
      BY <1>1, <1>3 DEF BputcBuffered
    <2>2. buf' = Copied(ocount, 1, <<b>>)
      <3>1. \A x \in Idx : (ocount <= x /\ x < ocount + 1) <=> x = ocount
        BY <1>1 DEF Idx
      <3>2. \A x \in Idx : x = ocount => <<b>>[x - ocount + 1] = b
        BY <1>1
      <3> QED
        BY <3>1, <3>2, <1>1, <1>3, Zenon DEF Copied, BputcBuffered
    <2>3. state = "Bwactive" => fpos = offset
      BY Zenon DEF WInv, NothingLost
    <2>4. /\ want' \in [Pos -> Cell] /\ buf' \in [Idx -> Cell]
          /\ state = "Bwactive" =>
              \A p \in Pos : want'[p] = IF offset <= p /\ p < offset + bsize + (ocount + 1)
                                       THEN buf'[p - offset - bsize] ELSE file[p]
      <3>1. 1 \in 0 .. -ocount
        BY <2>1
      <3>2. state = "Bwactive" =>
            \A p \in Pos : want[p] = IF offset <= p /\ p < offset + bsize + ocount
                                    THEN buf[p - offset - bsize] ELSE file[p]
        BY <1>1, Zenon DEF WInv, NothingLost
      <3> QED
        BY <3>1, <3>2, <1>1, <1>2, <2>1, <2>2, WWanted, ZenonT(30)
    <2>5. WModes' /\ WTypes'
      BY <1>1, <2>1, <2>4 DEF WModes, WTypes
    <2>6. NothingLost'
      BY <1>1, <2>1, <2>3, <2>4, Zenon DEF NothingLost
    <2> QED
      BY <1>1, <2>1, <2>5, <2>6, Zenon DEF WInv, FlushedMeansWritten
  <1>4. ASSUME NEW k \in write(bsize), BputcFlush(b, k) PROVE WInv'
    <2>1. /\ ocount = 0 /\ state = "Bwactive" /\ file' = Written(k)
          /\ fpos' = Flush(k).fpos /\ offset' = Flush(k).offset /\ state' = Flush(k).state
          /\ UNCHANGED <<mode, pc, str, out>>
      BY <1>4, Zenon DEF BputcFlush
    <2>2. k \in write(bsize + ocount)
      BY <2>1
    <2>3. /\ Written(k) \in [Pos -> Cell] /\ Flush(k).fpos \in Nat /\ Flush(k).offset \in Nat
          /\ Flush(k).state \in {"Bwactive", "Binactive"}
          /\ Flush(k).ok <=> Flush(k).state = "Bwactive"
          /\ Flush(k).ok => Written(k) = want
      BY <1>1, <2>1, <2>2, WFlush, Zenon
    <2>4. CASE ~Flush(k).ok
      <3>1. ocount' = 0 /\ ret' = "Beof" /\ UNCHANGED <<buf, want>>
        BY <1>4, <2>4, Zenon DEF BputcFlush, Flush
      <3>2. WModes' /\ WTypes'
        BY <1>1, <2>1, <2>3, <3>1, Zenon DEF WModes, WTypes
      <3>3. NothingLost' /\ FlushedMeansWritten'
        BY <1>1, <2>1, <2>3, <2>4, <3>1, Zenon DEF NothingLost, FlushedMeansWritten
      <3> QED
        BY <3>2, <3>3, Zenon DEF WInv
    <2>5. CASE Flush(k).ok
      <3>1. /\ ocount' = 1 - bsize /\ ret' = "ok" /\ buf' = [buf EXCEPT ![-bsize] = b]
            /\ want' = Wanted(0, 1, <<b>>)
        BY <1>4, <2>5, ZenonT(30) DEF BputcFlush
      <3>2. offset' = offset + bsize /\ fpos' = offset + bsize
        BY <1>1, <2>1, <2>5 DEF Flush, WInv, NothingLost
      <3>3. buf' \in [Idx -> Cell] /\ buf'[-bsize] = b
        BY <1>1, <1>2, <3>1 DEF Idx
      <3>4. \A p \in Pos : want'[p] = IF p = offset + bsize THEN b ELSE want[p]
        <4>1. \A p \in Pos : (offset + bsize + 0 <= p /\ p < offset + bsize + 0 + 1)
                            <=> p = offset + bsize
          BY <1>1 DEF Pos
        <4>2. \A p \in Pos : p = offset + bsize => <<b>>[p - offset - bsize - 0 + 1] = b
          BY <1>1 DEF Pos
        <4> QED
          BY <2>1, <3>1, <4>1, <4>2, Zenon DEF Wanted
      <3>5. want' \in [Pos -> Cell]
        BY <1>1, <1>2, <3>1, <3>4, ZenonT(30) DEF Wanted
      <3>6. WModes' /\ WTypes'
        BY <1>1, <2>1, <2>3, <3>1, <3>2, <3>3, <3>5 DEF WModes, WTypes
      <3>7. ASSUME NEW p \in Pos
            PROVE  want'[p] = IF offset' <= p /\ p < offset' + bsize + ocount'
                              THEN buf'[p - offset' - bsize] ELSE file'[p]
        <4>1. (offset' <= p /\ p < offset' + bsize + ocount') <=> p = offset + bsize
          BY <1>1, <3>1, <3>2 DEF Pos
        <4>2. p = offset + bsize => p - offset' - bsize = -bsize
          BY <1>1, <3>2
        <4> QED
          BY <4>1, <4>2, <3>3, <3>4, <2>1, <2>3, <2>5, ZenonT(30)
      <3>8. NothingLost'
        BY <1>1, <2>1, <3>2, <3>7, Zenon DEF NothingLost
      <3> QED
        BY <1>1, <2>1, <3>1, <3>6, <3>8, Zenon DEF WInv, FlushedMeansWritten
    <2> QED
      BY <2>4, <2>5, Zenon
  <1> QED
    BY <1>3, <1>4, Zenon

\* Bwrite: its copies and writes keep in the locals what Bputc keeps in the Biobuf.
LEMMA WBwrite ==
    ASSUME WInv,
           \/ \E n \in 0 .. MaxCount : \E s \in [1 .. n -> Data] : Bwrite(s)
           \/ BwriteCopy \/ (\E k \in write(bsize) : BwriteFlush(k)) \/ BwriteEnd
    PROVE  WInv'
  <1> USE SizesAssumption DEF bufVars, callVars, strVars, fileVars, End
  <1>1. /\ mode = "OWRITE" /\ mode' = mode /\ offset \in Nat /\ fpos \in Nat
        /\ ocount \in -bsize .. 0 /\ pc \in {"idle", "bwrite"} /\ pc' \in {"idle", "bwrite"}
        /\ buf \in [Idx -> Cell] /\ file \in [Pos -> Cell] /\ want \in [Pos -> Cell]
        /\ out \in Seq(Byte) /\ str = "no" /\ str' = str
        /\ state \in {"Bwactive", "Binactive"}
    BY Zenon DEF WInv, WModes, WTypes, Bwrite, BwriteCopy, BwriteFlush, BwriteEnd, Writing
  <1>2. pc = "bwrite" => i \in -bsize .. 0 /\ ret # "flushed"
    BY <1>1, Zenon DEF WInv, WTypes, WModes
  <1>3. state = "Bwactive" =>
          /\ fpos = offset
          /\ pc = "bwrite" =>
              \A p \in Pos : want[p] = IF offset <= p /\ p < offset + bsize + i
                                      THEN buf[p - offset - bsize] ELSE file[p]
    BY Zenon DEF WInv, NothingLost
  <1>4. ASSUME NEW n \in 0 .. MaxCount, NEW s \in [1 .. n -> Data], Bwrite(s)
        PROVE  WInv'
    <2>1. s \in Seq(Byte)
      BY ByteAssumption, n \in Nat, IsASeq
    <2>2. WModes' /\ WTypes'
      BY <1>1, <1>4, <2>1, Zenon DEF WModes, WTypes, Bwrite
    <2>3. NothingLost' /\ FlushedMeansWritten'
      BY <1>1, <1>4, Zenon DEF WInv, NothingLost, FlushedMeansWritten, Bwrite, Writing
    <2> QED
      BY <2>2, <2>3, Zenon DEF WInv
  <1>5. CASE BwriteCopy
    <2> DEFINE n == Least(-i, Len(out))
    <2>1. /\ pc = "bwrite" /\ pc' = pc /\ i # 0 /\ out # <<>>
          /\ i' = i + n /\ buf' = Copied(i, n, out) /\ want' = Wanted(i, n, out)
          /\ out' = SubSeq(out, n + 1, Len(out))
          /\ UNCHANGED <<state, ocount, offset, fpos, file, ret>>
      BY <1>5, Zenon DEF BwriteCopy, Copied
    <2>2. n \in 1 .. -i /\ n \in 1 .. Len(out)
      <3>1. Len(out) \in Nat \ {0}
        BY <1>1, <2>1, EmptySeq, Zenon
      <3> QED
        BY <3>1, <1>2, <2>1 DEF Least
    <2> HIDE DEF n
    <2>3. \A j \in 1 .. n : out[j] \in Cell
      <3>1. \A j \in 1 .. Len(out) : out[j] \in Byte
        BY <1>1, ElementOfSeq, Zenon
      <3>2. Len(out) \in Nat
        BY <1>1
      <3> QED
        BY <3>1, <3>2, <2>2 DEF Cell
    <2>4. out' \in Seq(Byte)
      <3>1. Len(out) \in Nat /\ n + 1 \in 1 .. Len(out) + 1
        BY <1>1, <2>2
      <3> QED
        BY <3>1, <1>1, <2>1, SubSeqProperties
    <2>5. /\ want' \in [Pos -> Cell] /\ buf' \in [Idx -> Cell]
          /\ state = "Bwactive" =>
               \A p \in Pos : want'[p] = IF offset <= p /\ p < offset + bsize + (i + n)
                                        THEN buf'[p - offset - bsize] ELSE file[p]
      <3>1. i \in -bsize .. 0 /\ n \in 0 .. -i
        BY <1>2, <2>1, <2>2
      <3> QED
        BY <3>1, <1>1, <1>3, <2>1, <2>3, WWanted, ZenonT(30)
    <2>6. i' \in -bsize .. 0
      BY <1>2, <2>1, <2>2
    <2>7. WModes' /\ WTypes'
      <3>1. UNCHANGED <<mode, str, state, pc, ret, offset, fpos, ocount, file>>
        BY <1>5, <2>1, Zenon DEF BwriteCopy, strVars, fileVars
      <3>2. WModes'
        BY <1>1, <1>2, <2>1, <3>1, Zenon DEF WModes
      <3>3. WTypes'
        BY <1>1, <2>4, <2>5, <2>6, <3>1, Zenon DEF WTypes
      <3> QED
        BY <3>2, <3>3, Zenon
    <2>8. NothingLost'
      BY <1>1, <1>3, <2>1, <2>5, Zenon DEF NothingLost
    <2> QED
      BY <1>1, <1>2, <2>1, <2>7, <2>8, Zenon DEF WInv, FlushedMeansWritten
  <1>6. ASSUME NEW k \in write(bsize), BwriteFlush(k) PROVE WInv'
    <2>1. /\ pc = "bwrite" /\ i = 0 /\ state = "Bwactive" /\ file' = Written(k)
          /\ fpos' = fpos + Most(k, 0) /\ UNCHANGED <<buf, ocount, want>>
          /\ pc' = "idle" => ret' = "Beof" /\ state' = "Binactive"
          /\ pc' = "bwrite" => ret' = ret
          /\ (k = bsize /\ offset' = offset + k /\ i' = -bsize /\ UNCHANGED <<state, out>>)
               \/ (offset' = offset /\ state' = "Binactive" /\ out' = <<>> /\ pc' = "idle")
      BY <1>6, Zenon DEF BwriteFlush
    <2>2. /\ k \in Int /\ Written(k) \in [Pos -> Cell]
          /\ k = bsize => Written(k) = want
      <3>1. bsize + 0 = bsize /\ 0 \in -bsize .. 0
        OBVIOUS
      <3>2. \A p \in Pos : want[p] = IF offset <= p /\ p < offset + bsize + 0
                                    THEN buf[p - offset - bsize] ELSE file[p]
        BY <1>3, <2>1, Zenon
      <3> QED
        BY <3>1, <3>2, <1>1, <1>3, <2>1, WWritten, Zenon
    <2>3. /\ fpos' \in Nat /\ offset' \in Nat /\ state' \in {"Bwactive", "Binactive"}
          /\ out' \in Seq(Byte) /\ (pc' = "bwrite" => i' \in -bsize .. 0)
      <3>1. fpos' \in Nat
        BY <1>1, <2>1, <2>2 DEF Most
      <3>2. offset' \in Nat
        BY <1>1, <2>1, <2>2
      <3>3. out' \in Seq(Byte)
        BY <1>1, <2>1, EmptySeq, Zenon
      <3> QED
        BY <3>1, <3>2, <3>3, <1>1, <2>1
    <2>4. WModes' /\ WTypes'
      BY <1>1, <1>2, <2>1, <2>2, <2>3, Zenon DEF WModes, WTypes
    <2>5. NothingLost'
      <3> SUFFICES ASSUME state' = "Bwactive" PROVE NothingLost'
        BY Zenon DEF NothingLost
      <3>1. /\ k = bsize /\ offset' = offset + bsize /\ i' = -bsize /\ pc' = "bwrite"
            /\ file' = want'
        BY <1>1, <2>1, <2>2, Zenon
      <3>2. fpos' = offset'
        BY <3>1, <1>1, <1>3, <2>1 DEF Most
      <3>3. \A p \in Pos : ~(offset' <= p /\ p < offset' + bsize + i')
        BY <3>1, <2>3, WEmpty, Zenon
      <3> QED
        BY <3>1, <3>2, <3>3, Zenon DEF NothingLost
    <2> QED
      BY <1>1, <1>2, <2>1, <2>4, <2>5, Zenon DEF WInv, FlushedMeansWritten
  <1>7. CASE BwriteEnd
    <2>1. WModes' /\ WTypes'
      BY <1>1, <1>2, <1>7 DEF WModes, WTypes, BwriteEnd
    <2>2. NothingLost' /\ FlushedMeansWritten'
      BY <1>1, <1>3, <1>7, Zenon DEF WInv, NothingLost, FlushedMeansWritten, BwriteEnd
    <2> QED
      BY <2>1, <2>2, Zenon DEF WInv
  <1> QED
    BY <1>4, <1>5, <1>6, <1>7, Zenon

\* The invariant of output is inductive.
LEMMA WNext == WInv /\ [Next]_vars => WInv'
  <1> SUFFICES ASSUME WInv, [Next]_vars PROVE WInv'
    OBVIOUS
  <1>1. CASE Read
    BY <1>1, WRead, Zenon
  <1>2. CASE Write
    BY <1>2, WBputc, WBwrite, WFlushes, Zenon DEF Write
  <1>3. CASE BflushInactive
    BY <1>3, Zenon DEF BflushInactive, bufVars, fileVars, callVars, strVars, Cell, WInv, WModes,
                WTypes, NothingLost, FlushedMeansWritten
  <1>4. CASE UNCHANGED vars
    BY <1>4, Zenon DEF vars, bufVars, fileVars, callVars, strVars, userVars, WInv, WModes, WTypes,
                NothingLost, FlushedMeansWritten
  <1> QED
    BY <1>1, <1>2, <1>3, <1>4, Zenon DEF Next

\* Bputc, Bwrite, Bseek and Bflush lose no byte: until an error, each byte the caller
\* wrote is in the buffer at the cell of its place, or else in the file, for every size
\* of the buffer and every sequence of calls.
THEOREM NothingIsLost == Spec => []NothingLost
  <1>1. WInv => NothingLost
    BY Zenon DEF WInv
  <1> QED
    BY <1>1, WInit, WNext, PTL DEF Spec

\* A Bflush that returns 0, and a Bterm that met no error, leave every byte the caller
\* wrote in the file, in however many pieces and at whatever places it wrote them.
THEOREM FlushWritesEverything == Spec => []FlushedMeansWritten
  <1>1. WInv => FlushedMeansWritten
    BY Zenon DEF WInv
  <1> QED
    BY <1>1, WInit, WNext, PTL DEF Spec

-----------------------------------------------------------------------------
(***************************************************************************)
(* Types.  The invariants of the two modes give those of the mode; what    *)
(* remains is the other mode's variables, and that what is moved about in  *)
(* the buffer comes from inside it.                                        *)
(***************************************************************************)
\* memmove() stays in the buffer.
LEMMA MoveType ==
    ASSUME NEW b \in [Idx -> Cell], NEW to \in Int, NEW at \in Int, NEW n \in Int,
           n > 0 => at >= -(bsize + Bungetsize) /\ at + n <= 0
    PROVE  memmove(b, to, at, n) \in [Idx -> Cell]
  <1> USE SizesAssumption
  <1>1. ASSUME NEW x \in Idx, to <= x, x < to + n PROVE b[x - to + at] \in Cell
    <2>1. x - to + at \in Idx
      BY <1>1 DEF Idx
    <2> QED
      BY <2>1, Zenon
  <1> QED
    BY <1>1, Zenon DEF memmove

\* So do the bytes that arrive, and they are the file's.
LEMMA ArriveType ==
    ASSUME NEW b \in [Idx -> Cell], NEW to \in Int, NEW n \in Int, size \in Nat, fpos \in Nat,
           file \in [0 .. size - 1 -> Byte], n > 0 => fpos + n <= size
    PROVE  Arrive(b, to, n) \in [Idx -> Cell]
  <1> USE SizesAssumption
  <1>1. ASSUME NEW x \in Idx, to <= x, x < to + n PROVE file[fpos + x - to] \in Cell
    <2>1. fpos + x - to \in 0 .. size - 1
      BY <1>1 DEF Idx
    <2> QED
      BY <2>1, Zenon DEF Cell
  <1> QED
    BY <1>1, Zenon DEF Arrive

\* How much of the buffer the loop of Brdline has filled.
LEMMA FillIndex == ASSUME RInv, pc = "fill" PROVE i \in 0 .. bsize /\ bsize - i \in Nat
  <1>1. mode = "OREAD"
    BY Zenon DEF RInv, RTypes
  <1>2. i \in 0 .. bsize
    BY <1>1, Zenon DEF RInv, RFill
  <1> QED
    BY <1>2, SizesAssumption

\* The buffer of a Biobuf that is open for reading.
LEMMA TBuf ==
    ASSUME TypeOK, RInv, ROut, mode = "OREAD", [Next]_vars
    PROVE  buf' \in [Idx -> Cell]
  <1> USE SizesAssumption
  <1>1. /\ buf \in [Idx -> Cell] /\ size \in Nat /\ offset \in Nat /\ fpos = offset
        /\ file \in [0 .. size - 1 -> Byte] /\ icount \in -(bsize + Bungetsize) .. 0
    BY Zenon DEF TypeOK, Cell, RInv, RTypes, ROut
  <1>2. CASE buf' = buf
    BY <1>1, <1>2, Zenon
  <1>3. ASSUME NEW k \in read(bsize), BgetcFill(k) PROVE buf' \in [Idx -> Cell]
    <2> DEFINE kept == memmove(buf, -bsize - Bungetsize, -Bungetsize, Bungetsize)
               full == Arrive(kept, -bsize, k)
    <2>1. k \in Int /\ (k > 0 => k \in 1 .. bsize /\ fpos + k <= size)
      BY <1>1, <1>3, ReadReturns, Zenon
    <2>2. kept \in [Idx -> Cell]
      <3>1. /\ -bsize - Bungetsize \in Int /\ -Bungetsize \in Int /\ Bungetsize \in Int
            /\ -Bungetsize >= -(bsize + Bungetsize) /\ -Bungetsize + Bungetsize <= 0
        OBVIOUS
      <3> QED
        BY <1>1, <3>1, MoveType, Zenon
    <2>3. full \in [Idx -> Cell]
      <3> HIDE DEF kept
      <3>1. -bsize \in Int /\ fpos \in Nat
        BY <1>1
      <3> QED
        BY <1>1, <2>1, <2>2, <3>1, ArriveType, Zenon
    <2>4. memmove(full, -k - Bungetsize, -bsize - Bungetsize, k + Bungetsize) \in [Idx -> Cell]
              \/ k <= 0
      <3> HIDE DEF full
      <3>1. k > 0 => /\ -k - Bungetsize \in Int /\ -bsize - Bungetsize \in Int
                     /\ k + Bungetsize \in Int
                     /\ -bsize - Bungetsize >= -(bsize + Bungetsize)
                     /\ -bsize - Bungetsize + (k + Bungetsize) <= 0
        BY <2>1
      <3> QED
        BY <2>1, <2>3, <3>1, MoveType
    <2> QED
      BY <1>3, <2>1, <2>2, <2>4, Zenon DEF BgetcFill
  <1>4. ASSUME NEW k \in read(bsize), BreadFill(k) PROVE buf' \in [Idx -> Cell]
    <2>1. k \in Int /\ (k > 0 => k \in 1 .. bsize /\ fpos + k <= size)
      BY <1>1, <1>4, ReadReturns, ZenonT(30)
    <2>2. CASE k > 0
      <3> DEFINE full == Arrive(buf, -bsize, k)
      <3>1. full \in [Idx -> Cell]
        <4>1. -bsize \in Int /\ fpos \in Nat
          BY <1>1
        <4> QED
          BY <1>1, <2>1, <4>1, ArriveType, ZenonT(30)
      <3>2. buf' = memmove(full, -k, -bsize, k)
        BY <1>4, <2>1, <2>2 DEF BreadFill
      <3> HIDE DEF full
      <3>3. -k \in Int /\ -bsize \in Int /\ -bsize >= -(bsize + Bungetsize) /\ -bsize + k <= 0
        BY <2>1, <2>2
      <3> QED
        BY <2>1, <3>1, <3>2, <3>3, MoveType, Zenon
    <2>3. CASE k <= 0
      BY <1>1, <1>4, <2>3, Zenon DEF BreadFill
    <2> QED
      BY <2>1, <2>2, <2>3
  <1>5. CASE BrdlineMove
    <2>1. /\ -bsize \in Int /\ icount \in Int /\ -icount \in Int
          /\ icount >= -(bsize + Bungetsize) /\ icount + (-icount) <= 0
      BY <1>1
    <2>2. memmove(buf, -bsize, icount, -icount) \in [Idx -> Cell]
      BY <1>1, <2>1, MoveType, Zenon
    <2> QED
      BY <1>1, <1>5, <2>2, Zenon DEF BrdlineMove
  <1>6. ASSUME NEW k \in read(bsize - i), BrdlineNone(k) \/ BrdlineFill(k)
        PROVE  buf' \in [Idx -> Cell]
    <2>1. i \in 0 .. bsize /\ bsize - i \in Nat
      <3>1. pc = "fill"
        BY <1>6, Zenon DEF BrdlineNone, BrdlineFill
      <3> QED
        BY <3>1, FillIndex, Zenon
    <2>2. k \in Int /\ (k > 0 => k \in 1 .. bsize - i /\ fpos + k <= size)
      BY <1>1, <1>6, <2>1, ReadReturns, Zenon
    <2>3. CASE BrdlineNone(k)
      <3>1. -i \in Int /\ -bsize \in Int /\ i \in Int /\ -bsize >= -(bsize + Bungetsize) /\ -bsize + i <= 0
        BY <2>1
      <3> QED
        BY <1>1, <2>3, <3>1, MoveType, Zenon DEF BrdlineNone
    <2>4. CASE BrdlineFill(k)
      <3> DEFINE b == Arrive(buf, i - bsize, k)
                 n == i + k
      <3>1. k > 0 /\ (buf' = b \/ buf' = memmove(b, -n, -bsize, n))
        BY <2>4, Zenon DEF BrdlineFill
      <3>2. b \in [Idx -> Cell]
        <4>1. i - bsize \in Int /\ fpos \in Nat
          BY <1>1, <2>1
        <4> QED
          BY <1>1, <2>2, <4>1, ArriveType, Zenon
      <3>3. /\ -n \in Int /\ -bsize \in Int /\ n \in Int
            /\ -bsize >= -(bsize + Bungetsize) /\ -bsize + n <= 0
        BY <2>1, <2>2, <3>1
      <3> HIDE DEF b, n
      <3> QED
        BY <3>1, <3>2, <3>3, MoveType
    <2> QED
      BY <1>6, <2>3, <2>4, Zenon
  <1>7. CASE Write
    BY <1>7, Zenon DEF Write, BputcBuffered, BputcFlush, Bwrite, BwriteCopy, BwriteFlush,
                BwriteEnd, Bflush, Bterm, BseekWrite, Writing, RInv, RTypes
  <1>8. CASE UNCHANGED vars \/ BflushInactive
    BY <1>2, <1>8, Zenon DEF vars, bufVars, BflushInactive
  <1>9. CASE Read
    BY <1>2, <1>3, <1>4, <1>5, <1>6, <1>9, ZenonT(30)
       DEF Read, bufVars, BgetcBuffered, BgetcEof, Bungetc, Bread, BreadCopy, BreadEnd, Brdline,
           BrdlineEof, BrdlineHave, BrdlineFull, Brdstr, BrdstrLine, BrdstrRead, BrdstrTaken,
           BflushRead, BseekRead
  <1> QED
    BY <1>7, <1>8, <1>9, Zenon DEF Next

\* Brdstr puts pieces of bytes together.
LEMMA TString ==
    ASSUME TypeOK, RInv, ROut, LInv, [Next]_vars
    PROVE  str' \in {"no", "line", "read"} /\ from' \in Nat /\ q' \in Seq(Byte) /\ cut' \in BOOLEAN
  <1>1. /\ str \in {"no", "line", "read"} /\ from \in Nat /\ q \in Seq(Byte) /\ cut \in BOOLEAN
        /\ out \in Seq(Byte)
    BY Zenon DEF TypeOK
  <1>2. q \o out \in Seq(Byte) /\ <<>> \in Seq(Byte)
    BY <1>1, ConcatProperties, EmptySeq, Zenon
  <1>3. CASE UNCHANGED strVars
    BY <1>1, <1>3, Zenon DEF strVars
  <1>4. CASE Brdstr
    <2>1. Boffset \in Nat
      BY <1>4, FBetween, Zenon DEF Brdstr, Boffset
    <2> QED
      BY <1>2, <1>4, <2>1, Zenon DEF Brdstr
  <1>5. CASE BrdstrLine \/ BrdstrRead \/ BrdstrTaken
    <2>1. /\ str' \in {"no", "line", "read"} /\ from' \in {from, 0}
          /\ q' \in {q, q \o out, <<>>} /\ (cut' = cut \/ cut' = FALSE)
      BY <1>1, <1>5, LWhole, Zenon DEF BrdstrLine, BrdstrRead, BrdstrTaken
    <2>2. cut' \in BOOLEAN
      BY <1>1, <2>1, Zenon
    <2>3. from' \in Nat
      BY <1>1, <2>1
    <2>4. q' \in Seq(Byte)
      BY <1>1, <1>2, <2>1, Zenon
    <2> QED
      BY <2>1, <2>2, <2>3, <2>4, Zenon
  <1>6. ASSUME NEW k, BrdlineNone(k)
        PROVE  /\ str' \in {"no", "line", "read"} /\ from' \in Nat /\ q' \in Seq(Byte)
               /\ cut' \in BOOLEAN
    BY <1>1, <1>6, Zenon DEF BrdlineNone
  <1>7. CASE Write \/ BflushInactive \/ UNCHANGED vars
    BY <1>3, <1>7, Zenon DEF Write, BputcBuffered, BputcFlush, Bwrite, BwriteCopy, BwriteFlush,
                      BwriteEnd, Bflush, Bterm, BseekWrite, BflushInactive, vars
  <1>8. CASE Read
    BY <1>3, <1>4, <1>5, <1>6, <1>8, ZenonT(30)
       DEF Read, BgetcBuffered, BgetcEof, BgetcFill, Bungetc, Bread, BreadCopy, BreadFill,
           BreadEnd, Brdline, BrdlineEof, BrdlineHave, BrdlineMove, BrdlineFill, BrdlineFull,
           BflushRead, BseekRead
  <1> QED
    BY <1>7, <1>8, Zenon DEF Next

\* The locals of the calls.
LEMMA TCall ==
    ASSUME TypeOK, RInv, [Next]_vars
    PROVE  i' \in Int /\ c' \in Nat
  <1> USE SizesAssumption DEF callVars, End, BreadCall, BrdlineCall
  <1>1. /\ i \in Int /\ c \in Nat /\ icount \in Int /\ ocount \in Int /\ rdline \in Nat
        /\ out \in Seq(Byte) /\ size \in Nat /\ fpos \in Nat
    BY DEF TypeOK
  <1>2. CASE i' = i /\ c' = c
    BY <1>1, <1>2, Zenon
  <1>3. CASE BreadCopy
    BY <1>1, <1>3 DEF BreadCopy, Least
  <1>4. ASSUME NEW k \in read(bsize), BreadFill(k) PROVE i' \in Int /\ c' \in Nat
    <2>1. k \in Int
      BY <1>1, ReadReturns, Zenon
    <2>2. (i' = 0 /\ c' = 0) \/ (i' = -k /\ c' = c)
      BY <1>4, Zenon DEF BreadFill
    <2> QED
      BY <1>1, <2>1, <2>2
  <1>5. CASE Bread \/ BreadEnd \/ BrdlineEof \/ BrdlineMove \/ BrdlineFull \/ BrdstrLine
    <2>1. CASE Bread
      <3>1. \E n \in 0 .. MaxCount : i' = icount /\ c' = n
        BY <2>1, Zenon DEF Bread
      <3> QED BY <1>1, <3>1
    <2>2. CASE BreadEnd \/ BrdlineEof \/ BrdlineFull
      <3>1. i' = 0 /\ c' = 0
        BY <2>2, Zenon DEF BreadEnd, BrdlineEof, BrdlineFull
      <3> QED BY <3>1
    <2>3. CASE BrdlineMove
      <3>1. i' = -icount /\ c' = c
        BY <2>3, Zenon DEF BrdlineMove
      <3> QED BY <1>1, <3>1
    <2>4. CASE BrdstrLine
      <3>1. (i' = i /\ c' = c) \/ (i' = icount /\ c' = rdline)
        BY <2>4, Zenon DEF BrdstrLine
      <3> QED BY <1>1, <3>1, Zenon
    <2> QED BY <1>5, <2>1, <2>2, <2>3, <2>4, Zenon
  <1>6. ASSUME NEW x, BrdlineHave(x) PROVE i' \in Int /\ c' \in Nat
    <2>1. i' = 0 /\ c' = 0
      BY <1>6, Zenon DEF BrdlineHave
    <2> QED
      BY <2>1
  <1>7. ASSUME NEW k \in read(bsize - i), BrdlineNone(k) \/ BrdlineFill(k)
        PROVE  i' \in Int /\ c' \in Nat
    <2>1. bsize - i \in Nat
      <3>1. pc = "fill"
        BY <1>7, Zenon DEF BrdlineNone, BrdlineFill
      <3> QED
        BY <3>1, FillIndex, Zenon
    <2>2. k \in Int
      BY <1>1, <1>7, <2>1, ReadReturns, Zenon
    <2>3. (i' = 0 /\ c' = 0) \/ (i' = i + k /\ c' = c)
      BY <1>7, Zenon DEF BrdlineNone, BrdlineFill
    <2> QED
      BY <1>1, <2>2, <2>3
  <1>8. CASE BwriteCopy
    <2>1. Len(out) \in Nat
      BY <1>1, LenProperties, Zenon
    <2> QED
      BY <1>1, <1>8, <2>1 DEF BwriteCopy, Least
  <1>9. CASE BwriteEnd
    BY <1>9 DEF BwriteEnd
  <1>10. ASSUME NEW k, BwriteFlush(k) PROVE i' \in Int /\ c' \in Nat
    BY <1>1, <1>10 DEF BwriteFlush
  <1>11. ASSUME NEW s, Bwrite(s) PROVE i' \in Int /\ c' \in Nat
    BY <1>1, <1>11, Zenon DEF Bwrite
  <1>12. CASE Write
    BY <1>2, <1>8, <1>9, <1>10, <1>11, <1>12, ZenonT(30)
       DEF Write, BputcBuffered, BputcFlush, Bflush, Bterm, BseekWrite
  <1>13. CASE Read
    BY <1>2, <1>3, <1>4, <1>5, <1>6, <1>7, <1>13, ZenonT(30)
       DEF Read, BgetcBuffered, BgetcEof, BgetcFill, Bungetc, Brdline, Brdstr, BrdstrRead,
           BrdstrTaken, BflushRead, BseekRead
  <1>14. CASE BflushInactive \/ UNCHANGED vars
    BY <1>2, <1>14, Zenon DEF BflushInactive, vars
  <1> QED
    BY <1>12, <1>13, <1>14, Zenon DEF Next

\* What input leaves alone, and what output does.
LEMMA TOther ==
    ASSUME TypeOK, RInv, [Next]_vars
    PROVE  /\ mode' = mode /\ size' = size
           /\ ret' \in {"ok", "busy", "moved", "Beof", "line", "full", "string", "flushed"}
           /\ mode = "OREAD" => want' = want /\ ocount' = ocount
           /\ mode = "OWRITE" =>
                UNCHANGED <<gbuf, icount, rdline, unget, stale>> /\ str' = str
  <1> USE DEF bufVars, fileVars, callVars, strVars
  <1>1. /\ mode \in {"OREAD", "OWRITE"}
        /\ ret \in {"ok", "busy", "moved", "Beof", "line", "full", "string", "flushed"}
        /\ mode = "OWRITE" => pc \in {"idle", "bwrite", "closed"}
        /\ mode = "OREAD" => pc \in {"idle", "bread", "Brdline", "fill"}
    BY Zenon DEF TypeOK, RInv, RTypes
  <1>2. CASE Read
    <2>1. mode = "OREAD"
      BY <1>1, <1>2, ZenonT(30)
         DEF Read, Reading, BgetcBuffered, BgetcEof, BgetcFill, Bungetc, Bread, BreadCopy,
             BreadFill, BreadEnd, Brdline, BrdlineEof, BrdlineHave, BrdlineMove, BrdlineNone,
             BrdlineFill, BrdlineFull, Brdstr, BrdstrLine, BrdstrRead, BrdstrTaken, BflushRead,
             BseekRead
    <2>2. mode' = mode /\ size' = size /\ want' = want /\ ocount' = ocount
      BY <1>2, ZenonT(30)
         DEF Read, BgetcBuffered, BgetcEof, BgetcFill, Bungetc, Bread, BreadCopy,
             BreadFill, BreadEnd, Brdline, BrdlineEof, BrdlineHave, BrdlineMove, BrdlineNone,
             BrdlineFill, BrdlineFull, Brdstr, BrdstrLine, BrdstrRead, BrdstrTaken, BflushRead,
             BseekRead
    <2>3. ret' \in {"ok", "busy", "moved", "Beof", "line", "full", "string", "flushed"}
      BY <1>1, <1>2, ZenonT(30)
         DEF Read, BgetcBuffered, BgetcEof, BgetcFill, Bungetc, Bread, BreadCall, BreadCopy,
             BreadFill, BreadEnd, Brdline, BrdlineCall, BrdlineEof, BrdlineHave, BrdlineMove,
             BrdlineNone, BrdlineFill, BrdlineFull, Brdstr, BrdstrLine, BrdstrRead,
             BrdstrTaken, BflushRead, BseekRead
    <2> QED
      BY <2>1, <2>2, <2>3, ZenonT(30)
  <1>3. CASE Write
    <2>1. mode = "OWRITE"
      BY <1>1, <1>3, ZenonT(30) DEF Write, BputcBuffered, BputcFlush, Bwrite, BwriteCopy, BwriteFlush,
                        BwriteEnd, Bflush, Bterm, BseekWrite, Writing
    <2>2. /\ mode' = mode /\ size' = size /\ str' = str
          /\ UNCHANGED <<gbuf, icount, rdline, unget, stale>>
      BY <1>3, Zenon DEF Write, BputcBuffered, BputcFlush, Bwrite, BwriteCopy, BwriteFlush,
                  BwriteEnd, Bflush, Bterm, BseekWrite
    <2>3. ret' \in {"ok", "busy", "moved", "Beof", "line", "full", "string", "flushed"}
      BY <1>1, <1>3, Zenon DEF Write, BputcBuffered, BputcFlush, Bwrite, BwriteCopy, BwriteFlush,
                        BwriteEnd, Bflush, Bterm, BseekWrite
    <2> QED
      BY <2>1, <2>2, <2>3, Zenon
  <1>4. CASE BflushInactive \/ UNCHANGED vars
    BY <1>1, <1>4, Zenon DEF BflushInactive, vars, userVars
  <1> QED
    BY <1>2, <1>3, <1>4, Zenon DEF Next

\* The types of both modes.
LEMMA TNext ==
    ASSUME TypeOK, RInv, ROut, LInv, RInv', ROut', WInv', [Next]_vars
    PROVE  TypeOK'
  <1>1. /\ mode' = mode /\ mode \in {"OREAD", "OWRITE"} /\ size' \in Nat
        /\ i' \in Int /\ c' \in Nat
        /\ str' \in {"no", "line", "read"} /\ from' \in Nat /\ q' \in Seq(Byte)
        /\ cut' \in BOOLEAN
        /\ ret' \in {"ok", "busy", "moved", "Beof", "line", "full", "string", "flushed"}
    BY TOther, TString, TCall, Zenon DEF TypeOK
  <1>2. CASE mode = "OREAD"
    <2>1. buf' \in [Idx -> Cell]
      BY <1>2, TBuf, Zenon
    <2>2. want' = want /\ ocount' = ocount
      BY <1>2, TOther, Zenon
    <2>3. /\ want' \in [Pos -> Cell] /\ ocount' \in -bsize .. 0
      BY <2>2, Zenon DEF TypeOK, Cell
    <2> QED
      BY <1>1, <1>2, <2>1, <2>3, Zenon DEF TypeOK, Cell, RInv, RTypes, ROut
  <1>3. CASE mode = "OWRITE"
    <2>1. /\ buf' \in [Idx -> Cell] /\ want' \in [Pos -> Cell] /\ file' \in [Pos -> Cell]
          /\ offset' \in Nat /\ fpos' \in Nat /\ ocount' \in -bsize .. 0 /\ out' \in Seq(Byte)
          /\ state' \in {"Bwactive", "Binactive"} /\ pc' \in {"idle", "bwrite", "closed"}
      BY <1>1, <1>3, Zenon DEF WInv, WModes, WTypes
    <2>2. UNCHANGED <<gbuf, icount, rdline, unget, stale>>
      BY <1>3, TOther, Zenon
    <2>3. /\ gbuf' \in -bsize .. 0 /\ icount' \in -(bsize + Bungetsize) .. 0 /\ rdline' \in Nat
          /\ unget' \in 0 .. Bungetsize /\ stale' \in BOOLEAN
      BY <2>2, Zenon DEF TypeOK
    <2> QED
      BY <1>1, <1>3, <2>1, <2>3, Zenon DEF TypeOK, Cell
  <1> QED
    BY <1>1, <1>2, <1>3, Zenon

\* Binits.
LEMMA TInit == Init => TypeOK
  <1> SUFFICES ASSUME Init PROVE TypeOK
    OBVIOUS
  <1> USE SizesAssumption
  <1>1. /\ buf \in [Idx -> Cell] /\ want \in [Pos -> Cell]
    BY Zenon DEF Init, Cell
  <1>2. /\ gbuf \in -bsize .. 0 /\ icount \in -(bsize + Bungetsize) .. 0
        /\ ocount \in -bsize .. 0 /\ offset \in Nat /\ fpos \in Nat /\ rdline \in Nat
        /\ size \in Nat /\ i \in Int /\ c \in Nat /\ from \in Nat /\ unget \in 0 .. Bungetsize
    BY DEF Init
  <1>3. q \in Seq(Byte) /\ out \in Seq(Byte)
    BY EmptySeq, Zenon DEF Init
  <1>4. /\ mode \in {"OREAD", "OWRITE"} /\ cut \in BOOLEAN /\ stale \in BOOLEAN
        /\ state \in {"Bractive", "Bwactive"} /\ pc = "idle" /\ str = "no" /\ ret = "ok"
    BY Zenon DEF Init
  <1>5. file \in IF mode = "OREAD" THEN [0 .. size - 1 -> Byte] ELSE [Pos -> Cell]
    <2>1. CASE mode = "OREAD"
      BY <2>1, FInit, Zenon DEF ROut
    <2>2. CASE mode # "OREAD"
      <3>1. file = want
        BY <2>2, Zenon DEF Init
      <3> QED
        BY <1>1, <2>2, <3>1, Zenon
    <2> QED
      BY <2>1, <2>2, Zenon
  <1> QED
    BY <1>1, <1>2, <1>3, <1>4, <1>5, ZenonT(30) DEF TypeOK, Cell

\* Every field of a Biobuf, and every local of a call, stays in the range bio.h and the
\* code give it: the counts never pass the ends of the buffer, for every size of it.
THEOREM BiobufIsTyped == Spec => []TypeOK
  BY TInit, TNext, RInit, RNext, FInit, FNext, LInit, LNext, WInit, WNext, PTL DEF Spec

=============================================================================
