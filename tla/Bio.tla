-------------------------------- MODULE Bio ---------------------------------
(***************************************************************************)
(* Buffered input and output (lib_core/libbio): a Biobuf, the file it is   *)
(* open on, and a program that calls the library in any order.             *)
(*                                                                         *)
(* The buffer is indexed as the code does, by negative offsets from ebuf:  *)
(* bbuf is -bsize, and the Bungetsize cells below it keep bytes of the     *)
(* buffer before.  A read may return fewer bytes than it was asked for and *)
(* may fail; so may a write.  The loops of Bread, Bwrite, Brdline and      *)
(* Brdstr take one step per system call or copy.                           *)
(***************************************************************************)
EXTENDS Integers, Sequences

CONSTANTS
    bsize, Bungetsize,
    Byte, Junk,     \* bytes, and what a cell holds that was never written
    Data,           \* the bytes the caller writes
    Newline,        \* the delimiter of Brdline and Brdstr
    MaxPos,         \* bound: positions in the file
    MaxCount,       \* bound: bytes per call of Bread and Bwrite
    Files           \* the files that may be read: functions on 0 .. size - 1

\* Binits is given a buffer that holds at least twice Bungetsize bytes.
ASSUME SizesAssumption ==
    /\ bsize \in Nat \ {0} /\ Bungetsize \in 0 .. bsize
    /\ MaxPos \in Nat /\ MaxCount \in Nat
ASSUME ByteAssumption == Junk \notin Byte /\ Newline \in Byte /\ Data \subseteq Byte
ASSUME FilesAssumption ==
    \A f \in Files : \E n \in 0 .. MaxPos : f \in [0 .. n - 1 -> Byte]

Idx == -(bsize + Bungetsize) .. -1
Pos == 0 .. MaxPos - 1

VARIABLES
    \* the Biobuf
    state, buf, gbuf, icount, ocount, offset, rdline,
    \* the file: contents, and the position of the file descriptor
    file, size, fpos,
    \* the call in progress: where it is, and its locals
    pc, i, c,
    \* Brdstr: what it does next, where it started, its string, whether a read failed
    str, from, q, cut,
    \* the caller: how the file was opened, what the last call returned, the bytes it
    \* got from it, how many of them it may give back, and what it has written where
    mode, ret, out, unget, want,
    \* Bgetc has met the end of the file and gbuf is not the start of good data
    stale

bufVars == <<state, buf, gbuf, icount, ocount, offset, rdline>>
fileVars == <<file, size, fpos>>
callVars == <<pc, i, c>>
strVars == <<str, from, q, cut>>
userVars == <<mode, ret, out, unget, want, stale>>
vars == <<bufVars, fileVars, callVars, strVars, userVars>>

Least(a, b) == IF a <= b THEN a ELSE b

\* The n cells from `to' on get what is in those from `at' on.
memmove(b, to, at, n) ==
    [x \in Idx |-> IF to <= x /\ x < to + n THEN b[x - to + at] ELSE b[x]]

\* n bytes of the file arrive in the cells from `to' on.
Arrive(b, to, n) ==
    [x \in Idx |-> IF to <= x /\ x < to + n THEN file[fpos + x - to] ELSE b[x]]

\* What read() may return when it is asked for n bytes.
read(n) == {-1} \cup IF fpos >= size THEN {0} ELSE 1 .. Least(n, size - fpos)

\* The state after a read() that returned no bytes.
NoBytes(k) == IF k < 0 THEN "Binactive" ELSE "Bracteof"

Cells(b, at, n) == [j \in 1 .. n |-> b[at + j - 1]]

Boffset == offset + icount

\* A call returns.
End == pc' = "idle" /\ i' = 0 /\ c' = 0

Reading == mode = "OREAD" /\ pc = "idle"
Writing == mode = "OWRITE" /\ pc = "idle"
Free == str = "no" /\ ret # "string"

-----------------------------------------------------------------------------
(* Bgetc, Bungetc *)

\* There are bytes in the buffer.
BgetcBuffered ==
    /\ Reading /\ Free /\ icount # 0
    /\ icount' = icount + 1
    /\ out' = <<buf[icount]>>
    /\ unget' = Least(unget + 1, Bungetsize)
    /\ ret' = "ok"
    /\ UNCHANGED <<state, buf, gbuf, ocount, offset, rdline, fileVars, callVars, strVars,
                   mode, want, stale>>

BgetcEof ==
    /\ Reading /\ Free /\ icount = 0 /\ state # "Bractive"
    /\ state' = IF state = "Bracteof" THEN "Bractive" ELSE state
    /\ out' = <<>> /\ ret' = "Beof"
    /\ UNCHANGED <<buf, gbuf, icount, ocount, offset, rdline, fileVars, callVars, strVars,
                   mode, unget, want, stale>>

\* The last bytes of the old buffer are kept below the new one.
BgetcFill(k) ==
    LET kept == memmove(buf, -bsize - Bungetsize, -Bungetsize, Bungetsize)
        full == Arrive(kept, -bsize, k)
    IN  /\ Reading /\ Free /\ icount = 0 /\ state = "Bractive"
        /\ IF k <= 0
           THEN /\ buf' = kept /\ gbuf' = -bsize /\ stale' = TRUE
                /\ state' = NoBytes(k)
                /\ out' = <<>> /\ ret' = "Beof"
                /\ UNCHANGED <<icount, offset, fpos, unget>>
           ELSE /\ buf' = memmove(full, -k - Bungetsize, -bsize - Bungetsize, k + Bungetsize)
                /\ gbuf' = -k /\ stale' = FALSE
                /\ icount' = 1 - k /\ offset' = offset + k /\ fpos' = fpos + k
                /\ out' = <<buf'[-k]>> /\ ret' = "ok"
                /\ unget' = Least(unget + 1, Bungetsize)
                /\ UNCHANGED state
        /\ UNCHANGED <<ocount, rdline, file, size, callVars, strVars, mode, want>>

\* The caller gives back only bytes that Bgetc returned, at most Bungetsize of them.
Bungetc ==
    /\ Reading /\ Free /\ unget > 0
    /\ unget' = unget - 1
    /\ out' = <<>>
    /\ IF state = "Binactive" THEN ret' = "Beof" /\ UNCHANGED <<state, icount>>
       ELSE ret' = "ok" /\ state' = "Bractive" /\ icount' = icount - 1
    /\ UNCHANGED <<buf, gbuf, ocount, offset, rdline, fileVars, callVars, strVars,
                   mode, want, stale>>

-----------------------------------------------------------------------------
(* Bread: i is its local ic, c what is left of the count. *)

BreadCall(n) ==
    /\ pc' = "bread" /\ i' = icount /\ c' = n
    /\ out' = <<>> /\ unget' = 0 /\ ret' = "busy"

Bread ==
    /\ Reading /\ Free
    /\ \E n \in 0 .. MaxCount : BreadCall(n)
    /\ UNCHANGED <<bufVars, fileVars, strVars, mode, want, stale>>

BreadCopy ==
    /\ pc = "bread" /\ c > 0 /\ i # 0
    /\ LET n == Least(-i, c)
       IN  out' = out \o Cells(buf, i, n) /\ c' = c - n /\ i' = i + n
    /\ UNCHANGED <<bufVars, fileVars, pc, strVars, mode, ret, unget, want, stale>>

BreadFill(k) ==
    /\ pc = "bread" /\ c > 0 /\ i = 0 /\ state = "Bractive"
    /\ IF k <= 0
       THEN /\ state' = NoBytes(k) /\ icount' = 0 /\ ret' = "Beof"
            /\ End
            /\ UNCHANGED <<buf, gbuf, offset, fpos, stale>>
       ELSE /\ buf' = memmove(Arrive(buf, -bsize, k), -k, -bsize, k)
            /\ gbuf' = -k /\ stale' = FALSE
            /\ offset' = offset + k /\ fpos' = fpos + k /\ i' = -k
            /\ UNCHANGED <<state, icount, pc, c, ret>>
    /\ UNCHANGED <<ocount, rdline, file, size, strVars, mode, out, unget, want>>

\* Mutant: icount is not set to what is left.
Broken_BreadEnd ==
    /\ pc = "bread" /\ (c = 0 \/ (i = 0 /\ state # "Bractive"))
    /\ End /\ ret' = IF c = 0 THEN "ok" ELSE "Beof"
    /\ UNCHANGED <<bufVars, fileVars, strVars, mode, out, unget, want, stale>>

BreadEnd ==
    /\ pc = "bread" /\ (c = 0 \/ (i = 0 /\ state # "Bractive"))
    /\ icount' = i /\ End /\ ret' = IF c = 0 THEN "ok" ELSE "Beof"
    /\ UNCHANGED <<state, buf, gbuf, ocount, offset, rdline, fileVars, strVars,
                   mode, out, unget, want, stale>>

-----------------------------------------------------------------------------
(* Brdline: i is the number of bytes it has in the buffer.  Brdstr calls   *)
(* it, and Bread for what it leaves in the buffer, until a line is         *)
(* complete.  The caller has not given back so much that more than bsize   *)
(* bytes are buffered.                                                     *)

BrdlineCall == pc' = "Brdline" /\ out' = <<>> /\ unget' = 0 /\ ret' = "busy"

Brdline ==
    /\ Reading /\ Free /\ -icount <= bsize
    /\ BrdlineCall
    /\ UNCHANGED <<bufVars, fileVars, i, c, strVars, mode, want, stale>>

BrdlineEof ==
    /\ pc = "Brdline" /\ icount = 0 /\ state # "Bractive"
    /\ state' = IF state = "Bracteof" THEN "Bractive" ELSE state
    /\ rdline' = 0 /\ gbuf' = 0 /\ stale' = FALSE
    /\ End /\ ret' = "Beof"
    /\ UNCHANGED <<buf, icount, ocount, offset, fileVars, strVars, mode, out, unget, want>>

\* memchr: the delimiter is first found in cell x of those from lo to hi - 1.
First(b, lo, hi, x) ==
    x \in lo .. hi - 1 /\ b[x] = Newline /\ \A y \in lo .. x - 1 : b[y] # Newline
Without(b, lo, hi) == \A x \in lo .. hi - 1 : b[x] # Newline

\* The line is in the buffer.
BrdlineHave(x) ==
    /\ pc = "Brdline" /\ (icount # 0 \/ state = "Bractive")
    /\ First(buf, icount, 0, x)
    /\ rdline' = x - icount + 1 /\ icount' = x + 1
    /\ out' = Cells(buf, icount, x - icount + 1)
    /\ End /\ ret' = "line"
    /\ UNCHANGED <<state, buf, gbuf, ocount, offset, fileVars, strVars, mode, unget,
                   want, stale>>

\* It is not: the buffered bytes go to the beginning of the buffer.
BrdlineMove ==
    /\ pc = "Brdline" /\ (icount # 0 \/ state = "Bractive")
    /\ Without(buf, icount, 0)
    /\ buf' = IF -icount < bsize THEN memmove(buf, -bsize, icount, -icount) ELSE buf
    /\ gbuf' = -bsize /\ i' = -icount /\ pc' = "fill"
    /\ UNCHANGED <<state, icount, ocount, offset, rdline, fileVars, c, strVars, mode, ret, out,
                   unget, want, stale>>

\* Mutant: gbuf stays at the beginning of the buffer.
Broken_BrdlineNone(k) ==
    /\ pc = "fill" /\ i < bsize /\ k <= 0
    /\ buf' = memmove(buf, -i, -bsize, i)
    /\ rdline' = i /\ icount' = -i /\ stale' = FALSE
    /\ cut' = (str # "no" /\ (cut \/ k < 0))
    /\ End /\ ret' = "Beof"
    /\ UNCHANGED <<state, gbuf, ocount, offset, fileVars, str, from, q, mode, out, unget, want>>

\* read() returned no bytes: what there is goes to the end of the buffer.
BrdlineNone(k) ==
    /\ pc = "fill" /\ i < bsize /\ k <= 0
    /\ buf' = memmove(buf, -i, -bsize, i)
    /\ rdline' = i /\ icount' = -i /\ gbuf' = -i /\ stale' = FALSE
    /\ cut' = (str # "no" /\ (cut \/ k < 0))
    /\ End /\ ret' = "Beof"
    /\ UNCHANGED <<state, ocount, offset, fileVars, str, from, q, mode, out, unget, want>>

\* Another k bytes, with or without the delimiter.
BrdlineFill(k) ==
    LET b == Arrive(buf, i - bsize, k)
        n == i + k
    IN  /\ pc = "fill" /\ i < bsize /\ k > 0
        /\ offset' = offset + k /\ fpos' = fpos + k
        /\ \/ /\ Without(b, i - bsize, n - bsize)
              /\ buf' = b /\ i' = n
              /\ UNCHANGED <<gbuf, icount, rdline, pc, c, ret, out, stale>>
           \/ \E x \in i - bsize .. n - bsize - 1 :
              /\ First(b, i - bsize, n - bsize, x)
              /\ buf' = memmove(b, -n, -bsize, n)
              /\ gbuf' = -n /\ stale' = FALSE
              /\ rdline' = x + bsize + 1 /\ icount' = x + bsize + 1 - n
              /\ out' = Cells(b, -bsize, x + bsize + 1)
              /\ End /\ ret' = "line"
        /\ UNCHANGED <<state, ocount, file, size, strVars, mode, unget, want>>

BrdlineFull ==
    /\ pc = "fill" /\ i >= bsize
    /\ rdline' = bsize /\ icount' = -bsize /\ gbuf' = -bsize /\ stale' = FALSE
    /\ End /\ ret' = "full"
    /\ UNCHANGED <<state, buf, ocount, offset, fileVars, strVars, mode, out, unget, want>>

Brdstr ==
    /\ Reading /\ Free /\ -icount <= bsize
    /\ BrdlineCall
    /\ str' = "line" /\ from' = Boffset /\ q' = <<>> /\ cut' = FALSE
    /\ UNCHANGED <<bufVars, fileVars, i, c, mode, want, stale>>

\* Brdline has returned: a line, nothing more, or bytes that are still buffered.
BrdstrLine ==
    /\ Reading /\ str = "line"
    /\ IF ret = "line" \/ rdline = 0
       THEN q' = q \o out /\ str' = "no" /\ ret' = "string" /\ UNCHANGED <<callVars, out, unget>>
       ELSE str' = "read" /\ BreadCall(rdline) /\ UNCHANGED q
    /\ UNCHANGED <<bufVars, fileVars, from, cut, mode, want, stale>>

\* Mutant: each piece is read to the beginning of the string.
Broken_BrdstrRead ==
    /\ Reading /\ str = "read"
    /\ q' = out /\ str' = "line" /\ BrdlineCall
    /\ UNCHANGED <<bufVars, fileVars, i, c, from, cut, mode, want, stale>>

\* Bread has returned: the string grows by rdline bytes, whatever Bread has delivered.
BrdstrRead ==
    /\ Reading /\ str = "read"
    /\ q' = q \o out \o [j \in 1 .. rdline - Len(out) |-> Junk]
    /\ str' = "line" /\ BrdlineCall
    /\ UNCHANGED <<bufVars, fileVars, i, c, from, cut, mode, want, stale>>

\* The caller takes the string.
BrdstrTaken ==
    /\ Reading /\ ret = "string"
    /\ ret' = "ok" /\ from' = 0 /\ q' = <<>> /\ cut' = FALSE
    /\ UNCHANGED <<bufVars, fileVars, callVars, str, mode, out, unget, want, stale>>

-----------------------------------------------------------------------------
(* Bflush and the output functions.  A write() of n bytes may fail or      *)
(* write less.                                                             *)

write(n) == IF n = 0 THEN {0} ELSE -1 .. n

\* The file when the first k bytes of the buffer have been written.
Written(k) ==
    [p \in Pos |-> IF fpos <= p /\ p < fpos + k THEN buf[p - fpos - bsize] ELSE file[p]]
Most(a, b) == IF a >= b THEN a ELSE b

\* Mutant: a short write is taken for a success.
Broken_Flush(k) ==
    IF k >= 0
    THEN [ok |-> TRUE, fpos |-> fpos + k, offset |-> offset + k, ocount |-> -bsize, state |-> state]
    ELSE [ok |-> FALSE, fpos |-> fpos, offset |-> offset, ocount |-> 0, state |-> "Binactive"]

\* Bflush of a Biobuf for writing, when write() returns k.
Flush(k) ==
    IF k = bsize + ocount
    THEN [ok |-> TRUE, fpos |-> fpos + k, offset |-> offset + k, ocount |-> -bsize, state |-> state]
    ELSE [ok |-> FALSE, fpos |-> fpos + Most(k, 0), offset |-> offset, ocount |-> 0,
          state |-> "Binactive"]

Bflush(k) ==
    /\ Writing /\ state = "Bwactive"
    /\ LET f == Flush(k)
       IN  /\ file' = Written(k) /\ fpos' = f.fpos /\ offset' = f.offset
           /\ ocount' = f.ocount /\ state' = f.state
           /\ ret' = IF f.ok THEN "flushed" ELSE "Beof"
    /\ UNCHANGED <<buf, gbuf, icount, rdline, size, callVars, strVars, mode, out, unget, want, stale>>

\* After an error Bflush, Bseek, and Bputc at the end of the buffer, only say so.
BflushInactive ==
    /\ pc = "idle" /\ Free /\ state = "Binactive"
    /\ ret' = "Beof"
    /\ UNCHANGED <<bufVars, fileVars, callVars, strVars, mode, out, unget, want, stale>>

\* Input that is buffered is thrown away.
BflushRead ==
    /\ Reading /\ Free /\ state \in {"Bractive", "Bracteof"}
    /\ state' = "Bractive" /\ icount' = 0 /\ gbuf' = 0 /\ stale' = FALSE
    /\ out' = <<>> /\ unget' = 0 /\ ret' = "moved"
    /\ UNCHANGED <<buf, ocount, offset, rdline, fileVars, callVars, strVars, mode, want>>

\* Where the next byte goes, when oc is the count; after an error it goes nowhere.
Wanted(oc, n, s) ==
    [p \in Pos |-> IF /\ state = "Bwactive"
                      /\ offset + bsize + oc <= p /\ p < offset + bsize + oc + n
                   THEN s[p - offset - bsize - oc + 1] ELSE want[p]]

BputcBuffered(b) ==
    /\ Writing /\ ocount # 0 /\ offset + bsize + ocount < MaxPos
    /\ buf' = [buf EXCEPT ![ocount] = b] /\ ocount' = ocount + 1
    /\ want' = Wanted(ocount, 1, <<b>>)
    /\ ret' = "ok"
    /\ UNCHANGED <<state, gbuf, icount, offset, rdline, fileVars, callVars, strVars, mode, out,
                   unget, stale>>

\* The buffer is full: it is flushed first.
BputcFlush(b, k) ==
    /\ Writing /\ ocount = 0 /\ state = "Bwactive" /\ offset + bsize < MaxPos
    /\ LET f == Flush(k)
       IN  /\ file' = Written(k) /\ fpos' = f.fpos /\ offset' = f.offset /\ state' = f.state
           /\ IF f.ok
              THEN /\ buf' = [buf EXCEPT ![-bsize] = b] /\ ocount' = 1 - bsize
                   /\ want' = Wanted(0, 1, <<b>>) /\ ret' = "ok"
              ELSE ocount' = f.ocount /\ ret' = "Beof" /\ UNCHANGED <<buf, want>>
    /\ UNCHANGED <<gbuf, icount, rdline, size, callVars, strVars, mode, out, unget, stale>>

\* Bwrite: i is its local oc, out what it has still to write.
Bwrite(s) ==
    /\ Writing /\ offset + bsize + ocount + Len(s) <= MaxPos
    /\ pc' = "bwrite" /\ i' = ocount /\ out' = s /\ ret' = "busy"
    /\ UNCHANGED <<bufVars, fileVars, c, strVars, mode, unget, want, stale>>

BwriteCopy ==
    /\ pc = "bwrite" /\ out # <<>> /\ i # 0
    /\ LET n == Least(-i, Len(out))
       IN  /\ buf' = [x \in Idx |-> IF i <= x /\ x < i + n THEN out[x - i + 1] ELSE buf[x]]
           /\ want' = Wanted(i, n, out)
           /\ i' = i + n /\ out' = SubSeq(out, n + 1, Len(out))
    /\ UNCHANGED <<state, gbuf, icount, ocount, offset, rdline, fileVars, pc, c, strVars, mode,
                   ret, unget, stale>>

\* A whole buffer is written; when that fails, ocount keeps its old value.
BwriteFlush(k) ==
    /\ pc = "bwrite" /\ out # <<>> /\ i = 0 /\ state = "Bwactive"
    /\ file' = Written(k) /\ fpos' = fpos + Most(k, 0)
    /\ IF k = bsize
       THEN offset' = offset + k /\ i' = -bsize /\ UNCHANGED <<state, pc, c, ret, out>>
       ELSE state' = "Binactive" /\ End /\ ret' = "Beof" /\ out' = <<>> /\ UNCHANGED offset
    /\ UNCHANGED <<buf, gbuf, icount, ocount, rdline, size, strVars, mode, unget, want, stale>>

\* Mutant: ocount is not set to where the copy ended.
Broken_BwriteEnd ==
    /\ pc = "bwrite" /\ (out = <<>> \/ (i = 0 /\ state # "Bwactive"))
    /\ ret' = IF out = <<>> THEN "ok" ELSE "Beof"
    /\ End /\ out' = <<>>
    /\ UNCHANGED <<bufVars, fileVars, strVars, mode, unget, want, stale>>

BwriteEnd ==
    /\ pc = "bwrite" /\ (out = <<>> \/ (i = 0 /\ state # "Bwactive"))
    /\ ocount' = IF out = <<>> THEN i ELSE ocount
    /\ ret' = IF out = <<>> THEN "ok" ELSE "Beof"
    /\ End /\ out' = <<>>
    /\ UNCHANGED <<state, buf, gbuf, icount, offset, rdline, fileVars, strVars, mode, unget,
                   want, stale>>
-----------------------------------------------------------------------------
(* Bseek to position n: from the beginning or from here (base 0 and 1,     *)
(* which is turned into 0), or from the end (base 2).                      *)

\* Mutant: icount may pass the end of the buffer.
Broken_Inside(n, ic, gb) == gb <= n - (offset + ic) /\ n - (offset + ic) <= -gb

\* The place in the buffer, when the Biobuf has ic bytes left and gb good ones.
Inside(n, ic, gb) ==
    LET d == n - (offset + ic)
    IN  /\ gb <= d /\ d <= -gb
        /\ IF d >= 0 THEN ic + d <= 0 ELSE -gb >= -(ic + d)

BseekRead(n, base) ==
    LET eof == state = "Bracteof"
        ic == IF eof THEN 0 ELSE icount
        gb == IF eof THEN 0 ELSE gbuf
    IN  /\ Reading /\ Free /\ state \in {"Bractive", "Bracteof"}
        /\ state' = "Bractive"
        /\ IF base # 2 /\ Inside(n, ic, gb)
           THEN /\ icount' = n - offset /\ gbuf' = gb
                /\ stale' = (stale /\ ~eof)
                /\ UNCHANGED <<offset, fpos>>
           ELSE /\ icount' = 0 /\ gbuf' = 0 /\ stale' = FALSE
                /\ fpos' = n /\ offset' = n
        /\ out' = <<>> /\ unget' = 0 /\ ret' = "moved"
        /\ UNCHANGED <<buf, ocount, rdline, file, size, callVars, strVars, mode, want>>

\* What Bflush returns is not looked at.
BseekWrite(n, k) ==
    /\ Writing /\ state = "Bwactive"
    /\ LET f == Flush(k) IN ocount' = f.ocount /\ state' = f.state
    /\ file' = Written(k) /\ fpos' = n /\ offset' = n
    /\ ret' = "ok"
    /\ UNCHANGED <<buf, gbuf, icount, rdline, size, callVars, strVars, mode, out, unget, want, stale>>

\* Bterm, or batexit() when the program exits: what is buffered is flushed, and what
\* Bflush returns is not looked at.
Bterm(k) ==
    /\ Writing /\ state = "Bwactive"
    /\ LET f == Flush(k)
       IN  fpos' = f.fpos /\ offset' = f.offset /\ ocount' = f.ocount /\ state' = f.state
    /\ file' = Written(k)
    /\ pc' = "closed" /\ ret' = "ok"
    /\ UNCHANGED <<buf, gbuf, icount, rdline, size, i, c, strVars, mode, out, unget, want, stale>>

-----------------------------------------------------------------------------
(* Binits *)
Init ==
    /\ buf = [x \in Idx |-> Junk] /\ gbuf = 0 /\ icount = 0 /\ offset = 0 /\ rdline = 0
    /\ fpos = 0 /\ pc = "idle" /\ i = 0 /\ c = 0
    /\ str = "no" /\ from = 0 /\ q = <<>> /\ cut = FALSE
    /\ ret = "ok" /\ out = <<>> /\ unget = 0 /\ stale = FALSE
    /\ want = [p \in Pos |-> Junk]
    /\ \/ /\ mode = "OREAD" /\ state = "Bractive" /\ ocount = 0
          /\ file \in Files /\ size \in 0 .. MaxPos /\ DOMAIN file = 0 .. size - 1
       \/ /\ mode = "OWRITE" /\ state = "Bwactive" /\ ocount = -bsize
          /\ file = want /\ size = 0

\* The caller does not seek after reading on at the end of the file, where gbuf is not
\* to be trusted.
Trusted == ~stale \/ state = "Bracteof"

Read ==
    \/ BgetcBuffered \/ BgetcEof \/ (\E k \in read(bsize) : BgetcFill(k)) \/ Bungetc
    \/ Bread \/ BreadCopy \/ (\E k \in read(bsize) : BreadFill(k)) \/ BreadEnd
    \/ Brdline \/ BrdlineEof \/ (\E x \in Idx : BrdlineHave(x)) \/ BrdlineMove
    \/ (\E k \in read(bsize - i) : BrdlineNone(k) \/ BrdlineFill(k)) \/ BrdlineFull
    \/ Brdstr \/ BrdstrLine \/ BrdstrRead \/ BrdstrTaken
    \/ BflushRead \/ (Trusted /\ \E n \in 0 .. MaxPos, base \in {0, 2} : BseekRead(n, base))

Write ==
    \/ \E b \in Data : BputcBuffered(b) \/ \E k \in write(bsize) : BputcFlush(b, k)
    \/ \E n \in 0 .. MaxCount : \E s \in [1 .. n -> Data] : Bwrite(s)
    \/ BwriteCopy \/ (\E k \in write(bsize) : BwriteFlush(k)) \/ BwriteEnd
    \/ \E k \in write(bsize + ocount) :
            Bflush(k) \/ Bterm(k) \/ \E n \in 0 .. MaxPos : BseekWrite(n, k)

Next == Read \/ Write \/ BflushInactive

Spec == Init /\ [][Next]_vars

-----------------------------------------------------------------------------
(* Properties. *)

\* The state of the buffer is what bio.h says of its fields.
TypeOK ==
    /\ state \in {"Binactive", "Bractive", "Bwactive", "Bracteof"}
    /\ buf \in [Idx -> Byte \cup {Junk}]
    /\ gbuf \in -bsize .. 0 /\ icount \in -(bsize + Bungetsize) .. 0 /\ ocount \in -bsize .. 0
    /\ offset \in Nat /\ fpos \in Nat /\ rdline \in Nat /\ size \in Nat
    /\ file \in IF mode = "OREAD" THEN [0 .. size - 1 -> Byte] ELSE [Pos -> Byte \cup {Junk}]
    /\ pc \in {"idle", "bread", "Brdline", "fill", "bwrite", "closed"}
    /\ i \in Int /\ c \in Nat
    /\ str \in {"no", "line", "read"} /\ from \in Nat /\ q \in Seq(Byte) /\ cut \in BOOLEAN
    /\ mode \in {"OREAD", "OWRITE"} /\ out \in Seq(Byte)
    /\ ret \in {"ok", "busy", "moved", "Beof", "line", "full", "string", "flushed"}
    /\ unget \in 0 .. Bungetsize /\ want \in [Pos -> Byte \cup {Junk}] /\ stale \in BOOLEAN

\* The place in the file the caller has read up to.
Position ==
    CASE mode = "OWRITE" -> 0
      [] mode # "OWRITE" /\ pc = "bread" -> offset + i
      [] mode # "OWRITE" /\ pc = "fill" -> offset - i
      [] OTHER -> Boffset

\* The library reads what an unbuffered file with a position would give (module
\* BioFile): however calls of Bgetc, Bungetc, Bread, Brdline, Brdstr, Bflush and Bseek
\* are mixed, whatever the reads return, each byte delivered is that of the file at
\* Boffset.  The caller keeps two rules that the library does not check: no Bseek while
\* gbuf is not to be trusted (Trusted), and no Brdline or Brdstr while more than bsize
\* bytes are buffered (-icount <= bsize).
F == INSTANCE BioFile WITH pos <- Position, length <- size,
        contents <- IF mode = "OREAD" THEN file ELSE <<>>,
        out <- IF mode = "OREAD" THEN out ELSE <<>>
ReadsTheFile == F!Spec

\* gbuf is a "pointer to good data in buf" (bio.h:43), and so are the cells that Bungetc
\* may uncover: each holds the byte of the file at its place.  Bseek relies on it.  The
\* exception is stale: Bgetc at the end of the file has set gbuf to the whole buffer.
GoodData ==
    mode = "OREAD" /\ pc = "idle" =>
        \A x \in Idx : (x >= icount - unget \/ (~stale /\ x >= gbuf)) =>
            offset + x \in 0 .. size - 1 /\ buf[x] = file[offset + x]

\* Brdstr returns one whole line, however many buffers it spans: the bytes from where
\* the caller was to the first newline or to the end of the file, unless a read failed.
LinesAreWhole ==
    ret = "string" /\ pc = "idle" =>
        /\ q = [j \in 1 .. Boffset - from |-> file[from + j - 1]]
        /\ \A j \in 1 .. Len(q) - 1 : q[j] # Newline
        /\ cut \/ (q # <<>> /\ q[Len(q)] = Newline) \/ Boffset >= size \/ state = "Binactive"

\* When Bflush returns 0, or Bterm has met no error, every byte the caller wrote, and
\* last wrote at its place, is in the file.
FlushedMeansWritten ==
    ret = "flushed" \/ (pc = "closed" /\ state # "Binactive") => file = want

\* Before that, each byte is in the file or in the buffer, at the cell of its place: a
\* write, a seek or a full buffer never leaves two versions or none.
NothingLost ==
    state = "Bwactive" =>
        LET oc == IF pc = "bwrite" THEN i ELSE ocount
        IN  /\ fpos = offset
            /\ \A p \in Pos : want[p] = IF offset <= p /\ p < offset + bsize + oc
                                       THEN buf[p - offset - bsize] ELSE file[p]
=============================================================================
