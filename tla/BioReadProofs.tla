--------------------------- MODULE BioReadProofs ----------------------------
(***************************************************************************)
(* Proofs about the input functions of libbio, for every size of the       *)
(* buffer, every file and every sequence of calls: what the buffer holds,  *)
(* and that the functions implement a file with a position (BioFile).      *)
(***************************************************************************)
EXTENDS Bio, TLAPS, SequenceTheorems

-----------------------------------------------------------------------------
(***************************************************************************)
(* What the cells of the buffer b hold, when o is the offset of its end:   *)
(* from cell lo on, the bytes of the file at their places.  While Brdline  *)
(* collects a line they are at the beginning of the buffer.                *)
(***************************************************************************)
Good(f, sz, b, o, lo) ==
    \A x \in Idx : x >= lo => o + x \in 0 .. sz - 1 /\ b[x] = f[o + x]

Prefix(f, sz, b, o, n) ==
    /\ o - n \in Nat /\ (n > 0 => o <= sz)
    /\ \A x \in Idx : -bsize <= x /\ x < n - bsize => b[x] = f[o - n + x + bsize]

\* A part of good data is good.
LEMMA GoodPart ==
    ASSUME NEW b, NEW o, NEW lo \in Int, NEW hi \in Int, lo <= hi, Good(file, size, b, o, lo)
    PROVE  Good(file, size, b, o, hi)
  BY SizesAssumption DEF Good, Idx

\* An empty buffer holds good data.
LEMMA GoodNone == ASSUME NEW b, NEW o PROVE Good(file, size, b, o, 0)
  BY SizesAssumption DEF Good, Idx

\* Bgetc: k new bytes at the end of the buffer, below them those that can be given back.
LEMMA GoodBgetc ==
    ASSUME NEW b, NEW k \in 1 .. bsize, NEW u \in 0 .. Bungetsize,
           size \in Nat, fpos \in Nat, fpos + k <= size, Good(file, size, b, fpos, -u)
    PROVE  LET kept == memmove(b, -bsize - Bungetsize, -Bungetsize, Bungetsize)
               full == Arrive(kept, -bsize, k)
           IN  Good(file, size,
                    memmove(full, -k - Bungetsize, -bsize - Bungetsize, k + Bungetsize),
                    fpos + k, -k - u)
  <1> USE SizesAssumption
  <1> DEFINE kept == memmove(b, -bsize - Bungetsize, -Bungetsize, Bungetsize)
             full == Arrive(kept, -bsize, k)
             new == memmove(full, -k - Bungetsize, -bsize - Bungetsize, k + Bungetsize)
  <1> SUFFICES ASSUME NEW x \in Idx, x >= -k - u
               PROVE  fpos + k + x \in 0 .. size - 1 /\ new[x] = file[fpos + k + x]
    BY Zenon DEF Good
  <1>0. x \in Int /\ x < 0 /\ x + k - bsize \in Idx
    BY DEF Idx
  <1>1. new[x] = full[x + k - bsize]
    <2>1. /\ -k - Bungetsize <= x /\ x < -k - Bungetsize + (k + Bungetsize)
          /\ x - (-k - Bungetsize) + (-bsize - Bungetsize) = x + k - bsize
      BY <1>0
    <2> HIDE DEF full
    <2> QED
      BY <2>1, Zenon DEF memmove
  <1>2. CASE x >= -k
    <2>1. full[x + k - bsize] = file[fpos + k + x]
      <3>1. /\ -bsize <= x + k - bsize /\ x + k - bsize < -bsize + k
            /\ fpos + (x + k - bsize) - (-bsize) = fpos + k + x
        BY <1>0, <1>2
      <3> HIDE DEF kept
      <3> QED
        BY <1>0, <3>1, Zenon DEF Arrive
    <2>2. fpos + k + x \in 0 .. size - 1
      BY <1>0, <1>2
    <2> HIDE DEF full, new
    <2> QED
      BY <1>1, <2>1, <2>2, Zenon
  <1>3. CASE x < -k
    <2>1. /\ ~(-bsize <= x + k - bsize)
          /\ -bsize - Bungetsize <= x + k - bsize
          /\ x + k - bsize < -bsize - Bungetsize + Bungetsize
          /\ x + k - bsize - (-bsize - Bungetsize) + (-Bungetsize) = x + k
          /\ x + k \in Idx /\ x + k >= -u
          /\ fpos + (x + k) = fpos + k + x
      BY <1>0, <1>3 DEF Idx
    <2>2. full[x + k - bsize] = kept[x + k - bsize]
      <3> HIDE DEF kept
      <3> QED
        BY <1>0, <2>1, Zenon DEF Arrive
    <2>3. kept[x + k - bsize] = b[x + k]
      BY <1>0, <2>1 DEF memmove
    <2>4. fpos + (x + k) \in 0 .. size - 1 /\ b[x + k] = file[fpos + (x + k)]
      BY <2>1, Zenon DEF Good
    <2> HIDE DEF kept, full, new
    <2> QED
      BY <1>1, <2>1, <2>2, <2>3, <2>4, Zenon
  <1> QED
    BY <1>0, <1>2, <1>3

\* Bread: k new bytes at the end of the buffer.
LEMMA GoodBread ==
    ASSUME NEW b, NEW k \in 1 .. bsize, size \in Nat, fpos \in Nat, fpos + k <= size
    PROVE  Good(file, size, memmove(Arrive(b, -bsize, k), -k, -bsize, k), fpos + k, -k)
  <1> USE SizesAssumption
  <1> DEFINE full == Arrive(b, -bsize, k)
             new == memmove(full, -k, -bsize, k)
  <1> SUFFICES ASSUME NEW x \in Idx, x >= -k
               PROVE  fpos + k + x \in 0 .. size - 1 /\ new[x] = file[fpos + k + x]
    BY Zenon DEF Good
  <1>1. /\ x \in Int /\ x < 0 /\ x + k - bsize \in Idx
        /\ x < -k + k /\ x - (-k) + (-bsize) = x + k - bsize
        /\ -bsize <= x + k - bsize /\ x + k - bsize < -bsize + k
        /\ fpos + (x + k - bsize) - (-bsize) = fpos + k + x
        /\ fpos + k + x \in 0 .. size - 1
    BY DEF Idx
  <1>2. full[x + k - bsize] = file[fpos + k + x]
    BY <1>1, Zenon DEF Arrive
  <1>3. new[x] = full[x + k - bsize]
    <2> HIDE DEF full
    <2> QED
      BY <1>1, Zenon DEF memmove
  <1> HIDE DEF full, new
  <1> QED
    BY <1>1, <1>2, <1>3, Zenon

\* Brdline: the buffered bytes go to the beginning of the buffer,
LEMMA PrefixMove ==
    ASSUME NEW b, NEW o \in Nat, NEW ic \in -bsize .. 0, Good(file, size, b, o, ic), size \in Nat
    PROVE  Prefix(file, size, IF -ic < bsize THEN memmove(b, -bsize, ic, -ic) ELSE b, o, -ic)
  <1> USE SizesAssumption
  <1>1. ic \in Int /\ ic <= 0 /\ -bsize <= ic
    OBVIOUS
  <1>2. ic < 0 => o + ic \in 0 .. size - 1 /\ o + (-1) \in 0 .. size - 1
    BY <1>1 DEF Good, Idx
  <1>3. o - (-ic) \in Nat /\ (-ic > 0 => o <= size)
    BY <1>1, <1>2
  <1>4. ASSUME NEW x \in Idx, -bsize <= x, x < -ic - bsize
        PROVE  (IF -ic < bsize THEN memmove(b, -bsize, ic, -ic) ELSE b)[x]
                 = file[o - (-ic) + x + bsize]
    <2>1. /\ x < -bsize + (-ic) /\ x - (-bsize) + ic = x + bsize + ic
          /\ x + bsize + ic \in Idx /\ x + bsize + ic >= ic
          /\ o + (x + bsize + ic) = o - (-ic) + x + bsize
          /\ (~(-ic < bsize) => x + bsize + ic = x)
      BY <1>1, <1>4 DEF Idx
    <2>2. b[x + bsize + ic] = file[o + (x + bsize + ic)]
      BY <2>1, Zenon DEF Good
    <2>3. -ic < bsize => memmove(b, -bsize, ic, -ic)[x] = b[x + bsize + ic]
      BY <1>4, <2>1, Zenon DEF memmove
    <2> QED
      BY <2>1, <2>2, <2>3, Zenon
  <1> QED
    BY <1>3, <1>4, Zenon DEF Prefix

\* another k are added to them,
LEMMA PrefixMore ==
    ASSUME NEW b, NEW n \in 0 .. bsize - 1, NEW k \in 1 .. bsize - n, size \in Nat,
           fpos \in Nat, fpos + k <= size, Prefix(file, size, b, fpos, n)
    PROVE  Prefix(file, size, Arrive(b, n - bsize, k), fpos + k, n + k)
  <1> USE SizesAssumption
  <1>0. fpos - n \in Nat
    BY Zenon DEF Prefix
  <1>1. fpos + k - (n + k) \in Nat /\ (n + k > 0 => fpos + k <= size)
    BY <1>0
  <1>2. ASSUME NEW x \in Idx, -bsize <= x, x < n + k - bsize
        PROVE  Arrive(b, n - bsize, k)[x] = file[fpos + k - (n + k) + x + bsize]
    <2>0. x \in Int
      BY DEF Idx
    <2>1. /\ (n - bsize <= x /\ x < n - bsize + k) <=> ~(x < n - bsize)
          /\ fpos + x - (n - bsize) = fpos + k - (n + k) + x + bsize
          /\ fpos - n + x + bsize = fpos + k - (n + k) + x + bsize
      BY <1>2, <2>0
    <2>2. x < n - bsize => b[x] = file[fpos - n + x + bsize]
      BY <1>2, Zenon DEF Prefix
    <2>3. Arrive(b, n - bsize, k)[x] =
            IF n - bsize <= x /\ x < n - bsize + k THEN file[fpos + x - (n - bsize)] ELSE b[x]
      BY Zenon DEF Arrive
    <2> QED
      BY <2>1, <2>2, <2>3
  <1> QED
    BY <1>1, <1>2 DEF Prefix

\* and in the end all of them go to the end of it.
LEMMA GoodBack ==
    ASSUME NEW b, NEW o \in Nat, NEW n \in 0 .. bsize, Prefix(file, size, b, o, n), size \in Nat
    PROVE  Good(file, size, memmove(b, -n, -bsize, n), o, -n)
  <1> USE SizesAssumption
  <1> SUFFICES ASSUME NEW x \in Idx, x >= -n
               PROVE  o + x \in 0 .. size - 1 /\ memmove(b, -n, -bsize, n)[x] = file[o + x]
    BY Zenon DEF Good
  <1>1. o - n \in Nat /\ (n > 0 => o <= size)
    BY Zenon DEF Prefix
  <1>2. /\ x \in Int /\ x < 0 /\ n > 0 /\ x < -n + n
        /\ x - (-n) + (-bsize) = x + n - bsize
        /\ x + n - bsize \in Idx /\ -bsize <= x + n - bsize /\ x + n - bsize < n - bsize
        /\ o - n + (x + n - bsize) + bsize = o + x
    BY <1>1 DEF Idx
  <1>3. o + x \in 0 .. size - 1
    BY <1>1, <1>2
  <1>4. b[x + n - bsize] = file[o - n + (x + n - bsize) + bsize]
    BY <1>2, Zenon DEF Prefix
  <1>5. memmove(b, -n, -bsize, n)[x] = b[x + n - bsize]
    BY <1>2, Zenon DEF memmove
  <1> QED
    BY <1>2, <1>3, <1>4, <1>5, Zenon

\* A full buffer whose beginning is good is good.
LEMMA GoodFull ==
    ASSUME NEW b, NEW o \in Nat, Prefix(file, size, b, o, bsize), size \in Nat
    PROVE  Good(file, size, b, o, -bsize)
  <1> USE SizesAssumption
  <1>1. ASSUME NEW x \in Idx, x >= -bsize
        PROVE  o + x \in 0 .. size - 1 /\ b[x] = file[o + x]
    <2>1. o - bsize \in Nat /\ o <= size /\ x \in Int /\ x < 0 /\ x < bsize - bsize
      BY DEF Prefix, Idx
    <2>2. b[x] = file[o - bsize + x + bsize]
      BY <1>1, <2>1, Zenon DEF Prefix
    <2>3. o - bsize + x + bsize = o + x /\ o + x \in 0 .. size - 1
      BY <1>1, <2>1
    <2> QED
      BY <2>2, <2>3, Zenon
  <1> QED
    BY <1>1, Zenon DEF Good

\* Bgetc, when there is nothing to read.
LEMMA GoodKept ==
    ASSUME NEW b, NEW o, NEW u \in 0 .. Bungetsize, Good(file, size, b, o, -u)
    PROVE  Good(file, size, memmove(b, -bsize - Bungetsize, -Bungetsize, Bungetsize), o, -u)
  <1> USE SizesAssumption
  <1>1. ASSUME NEW x \in Idx, x >= -u
        PROVE  memmove(b, -bsize - Bungetsize, -Bungetsize, Bungetsize)[x] = b[x]
    <2>1. ~(x < -bsize - Bungetsize + Bungetsize)
      BY <1>1 DEF Idx
    <2> QED
      BY <2>1, Zenon DEF memmove
  <1> QED
    BY <1>1, Zenon DEF Good

\* read() returns no more than it was asked for, or than is left of the file.
LEMMA ReadReturns ==
    ASSUME NEW n \in Nat, size \in Nat, fpos \in Nat, NEW k \in read(n)
    PROVE  k \in Int /\ (k > 0 => k \in 1 .. n /\ fpos + k <= size)
  BY DEF read, Least

-----------------------------------------------------------------------------
(***************************************************************************)
(* The invariant of a Biobuf that is open for reading.                     *)
(***************************************************************************)
RTypes ==
    /\ mode \in {"OREAD", "OWRITE"}
    /\ mode = "OWRITE" => pc \in {"idle", "bwrite", "closed"}
    /\ mode = "OREAD" =>
        /\ state \in {"Binactive", "Bractive", "Bracteof"}
        /\ offset \in Nat /\ fpos = offset /\ size \in Nat
        /\ gbuf \in -bsize .. 0 /\ icount \in -(bsize + Bungetsize) .. 0 /\ rdline \in Nat
        /\ unget \in 0 .. Bungetsize /\ stale \in BOOLEAN
        /\ pc \in {"idle", "bread", "Brdline", "fill"} /\ str \in {"no", "line", "read"}

\* Between calls: the bytes left and those that may be given back are good.
RIdle ==
    mode = "OREAD" /\ pc = "idle" =>
        /\ icount - unget >= -(bsize + Bungetsize)
        /\ Good(file, size, buf, offset, icount - unget)
        /\ ~stale => Good(file, size, buf, offset, gbuf)
        /\ str # "no" => icount >= -bsize /\ unget = 0

\* Bread has the count in its local ic.
RBread ==
    mode = "OREAD" /\ pc = "bread" =>
        /\ i \in -(bsize + Bungetsize) .. 0 /\ c \in Nat /\ unget = 0
        /\ Good(file, size, buf, offset, i)
        /\ ~stale => Good(file, size, buf, offset, gbuf)
        /\ str # "no" => i >= -bsize

RBrdline ==
    mode = "OREAD" /\ pc = "Brdline" =>
        /\ icount >= -bsize /\ unget = 0
        /\ Good(file, size, buf, offset, icount)
        /\ ~stale => Good(file, size, buf, offset, gbuf)

\* Brdline has i bytes at the beginning of the buffer.
RFill ==
    mode = "OREAD" /\ pc = "fill" =>
        i \in 0 .. bsize /\ unget = 0 /\ Prefix(file, size, buf, offset, i)

RInv == RTypes /\ RIdle /\ RBread /\ RBrdline /\ RFill

\* Binits.
LEMMA RInit == Init => RInv
  <1> SUFFICES ASSUME Init PROVE RInv
    OBVIOUS
  <1> USE SizesAssumption
  <1>1. RTypes
    <2>1. CASE mode = "OREAD"
      <3>1. /\ state = "Bractive" /\ offset = 0 /\ fpos = 0 /\ size \in 0 .. MaxPos
            /\ gbuf = 0 /\ icount = 0 /\ rdline = 0 /\ unget = 0 /\ pc = "idle" /\ str = "no"
        BY <2>1, Zenon DEF Init
      <3>2. stale \in BOOLEAN
        BY Zenon DEF Init
      <3> QED
        BY <2>1, <3>1, <3>2 DEF RTypes
    <2>2. CASE mode = "OWRITE"
      BY <2>2, Zenon DEF Init, RTypes
    <2> QED
      BY <2>1, <2>2, Zenon DEF Init
  <1>2. icount - unget = 0 /\ gbuf = 0 /\ str = "no" /\ pc = "idle" /\ 0 >= -(bsize + Bungetsize)
    BY DEF Init
  <1>3. RIdle
    BY <1>2, GoodNone, Zenon DEF RIdle
  <1> QED
    BY <1>1, <1>2, <1>3, Zenon DEF RInv, RBread, RBrdline, RFill

\* What is known between two calls.
LEMMA RBetween ==
    ASSUME RInv, Reading
    PROVE  /\ mode = "OREAD" /\ pc = "idle"
           /\ state \in {"Binactive", "Bractive", "Bracteof"}
           /\ offset \in Nat /\ fpos = offset /\ size \in Nat
           /\ gbuf \in -bsize .. 0 /\ icount \in -(bsize + Bungetsize) .. 0 /\ rdline \in Nat
           /\ unget \in 0 .. Bungetsize /\ stale \in BOOLEAN /\ str \in {"no", "line", "read"}
           /\ icount - unget >= -(bsize + Bungetsize)
           /\ Good(file, size, buf, offset, icount - unget)
           /\ Good(file, size, buf, offset, icount)
           /\ ~stale => Good(file, size, buf, offset, gbuf)
           /\ str # "no" => icount >= -bsize /\ unget = 0
  <1> USE SizesAssumption
  <1>1. icount \in Int /\ unget \in Nat /\ Good(file, size, buf, offset, icount - unget)
    BY DEF RInv, RTypes, RIdle, Reading
  <1>2. Good(file, size, buf, offset, icount)
    <2>1. icount - unget \in Int /\ icount - unget <= icount
      BY <1>1
    <2> QED
      BY <1>1, <2>1, GoodPart, Zenon
  <1> QED
    BY <1>2, Zenon DEF RInv, RTypes, RIdle, Reading

\* Bgetc and Bungetc.
LEMMA RBgetc ==
    ASSUME RInv, BgetcBuffered \/ BgetcEof \/ (\E k \in read(bsize) : BgetcFill(k)) \/ Bungetc
    PROVE  RInv'
  <1> USE SizesAssumption DEF callVars, strVars, fileVars, Free
  <1>0. Reading
    BY Zenon DEF BgetcBuffered, BgetcEof, BgetcFill, Bungetc
  <1>1. /\ mode' = "OREAD" /\ pc' = "idle" /\ size' = size /\ file' = file
        /\ str = "no" /\ str' = "no" /\ rdline' = rdline
    BY <1>0, RBetween, Zenon DEF BgetcBuffered, BgetcEof, BgetcFill, Bungetc
  <1>2. RBread' /\ RBrdline' /\ RFill'
    BY <1>1, Zenon DEF RBread, RBrdline, RFill
  <1>3. CASE BgetcBuffered
    <2>1. /\ icount' = icount + 1 /\ icount # 0 /\ unget' = Least(unget + 1, Bungetsize)
          /\ UNCHANGED <<state, buf, gbuf, offset, fpos, stale>>
      BY <1>3, Zenon DEF BgetcBuffered
    <2>2. /\ icount' \in -(bsize + Bungetsize) .. 0 /\ unget' \in 0 .. Bungetsize
          /\ icount - unget \in Int /\ icount' - unget' \in Int
          /\ icount - unget <= icount' - unget'
          /\ icount' - unget' >= -(bsize + Bungetsize)
      BY <1>0, <2>1, RBetween DEF Least
    <2>3. Good(file, size, buf, offset, icount' - unget')
      BY <1>0, <2>2, RBetween, GoodPart, Zenon
    <2>4. RTypes'
      BY <1>0, <1>1, <2>1, <2>2, RBetween, Zenon DEF RTypes
    <2>5. RIdle'
      BY <1>0, <1>1, <2>1, <2>2, <2>3, RBetween, Zenon DEF RIdle
    <2> QED
      BY <1>2, <2>4, <2>5, Zenon DEF RInv
  <1>4. CASE BgetcEof
    <2>1. /\ state' \in {"Binactive", "Bractive", "Bracteof"}
          /\ UNCHANGED <<icount, unget, buf, gbuf, offset, fpos, stale>>
      BY <1>0, <1>4, RBetween, Zenon DEF BgetcEof
    <2>2. RTypes' /\ RIdle'
      BY <1>0, <1>1, <2>1, RBetween, Zenon DEF RTypes, RIdle
    <2> QED
      BY <1>2, <2>2, Zenon DEF RInv
  <1>5. CASE Bungetc
    <2>1. /\ state' \in {"Binactive", "Bractive", "Bracteof"} /\ unget' = unget - 1
          /\ unget > 0 /\ icount' \in {icount, icount - 1}
          /\ UNCHANGED <<buf, gbuf, offset, fpos, stale>>
      BY <1>0, <1>5, RBetween, Zenon DEF Bungetc
    <2>2. /\ icount' \in -(bsize + Bungetsize) .. 0 /\ unget' \in 0 .. Bungetsize
          /\ icount - unget \in Int /\ icount' - unget' \in Int
          /\ icount - unget <= icount' - unget'
          /\ icount' - unget' >= -(bsize + Bungetsize)
      BY <1>0, <2>1, RBetween
    <2>3. Good(file, size, buf, offset, icount' - unget')
      BY <1>0, <2>2, RBetween, GoodPart, ZenonT(30)
    <2>4. RTypes'
      BY <1>0, <1>1, <2>1, <2>2, RBetween, Zenon DEF RTypes
    <2>5. RIdle'
      BY <1>0, <1>1, <2>1, <2>2, <2>3, RBetween, Zenon DEF RIdle
    <2> QED
      BY <1>2, <2>4, <2>5, ZenonT(30) DEF RInv
  <1>6. ASSUME NEW k \in read(bsize), BgetcFill(k) PROVE RInv'
    <2> DEFINE kept == memmove(buf, -bsize - Bungetsize, -Bungetsize, Bungetsize)
               full == Arrive(kept, -bsize, k)
               new == memmove(full, -k - Bungetsize, -bsize - Bungetsize, k + Bungetsize)
    <2>0. /\ k \in Int /\ (k > 0 => k \in 1 .. bsize /\ fpos + k <= size)
          /\ icount = 0 /\ state = "Bractive" /\ icount - unget = -unget
      BY <1>0, <1>6, RBetween, ReadReturns DEF BgetcFill
    <2>1. CASE k <= 0
      <3>1. /\ buf' = kept /\ gbuf' = -bsize /\ stale' = TRUE
            /\ state' \in {"Binactive", "Bractive", "Bracteof"}
            /\ UNCHANGED <<icount, offset, fpos, unget>>
        BY <1>6, <2>0, <2>1, Zenon DEF BgetcFill, NoBytes
      <3>2. Good(file, size, kept, offset, -unget)
        BY <1>0, <2>0, RBetween, GoodKept, Zenon
      <3> HIDE DEF kept
      <3>3. RTypes' /\ RIdle'
        BY <1>0, <1>1, <2>0, <3>1, <3>2, RBetween DEF RTypes, RIdle
      <3> QED
        BY <1>2, <3>3, Zenon DEF RInv
    <2>2. CASE k > 0
      <3>1. /\ buf' = new /\ gbuf' = -k /\ stale' = FALSE /\ state' = state
            /\ icount' = 1 - k /\ offset' = offset + k /\ fpos' = fpos + k
            /\ unget' = Least(unget + 1, Bungetsize)
        BY <1>6, <2>0, <2>2 DEF BgetcFill
      <3>2. Good(file, size, new, fpos + k, -k - unget)
        BY <1>0, <2>0, <2>2, RBetween, GoodBgetc, Zenon
      <3> HIDE DEF new
      <3>3. /\ icount' \in -(bsize + Bungetsize) .. 0 /\ unget' \in 0 .. Bungetsize
            /\ gbuf' \in -bsize .. 0 /\ offset' \in Nat
            /\ -k - unget \in Int /\ 1 - k - unget' \in Int /\ -k - unget <= 1 - k - unget'
            /\ -k \in Int /\ -k - unget <= -k
            /\ 1 - k - unget' >= -(bsize + Bungetsize)
        BY <1>0, <2>0, <2>2, <3>1, RBetween DEF Least
      <3>4. /\ Good(file, size, new, fpos + k, 1 - k - unget')
            /\ Good(file, size, new, fpos + k, -k)
        BY <3>2, <3>3, GoodPart, Zenon
      <3>5. RTypes'
        BY <1>0, <1>1, <2>0, <3>1, <3>3, RBetween, Zenon DEF RTypes
      <3>6. RIdle'
        BY <1>0, <1>1, <2>0, <3>1, <3>3, <3>4, RBetween, Zenon DEF RIdle
      <3> QED
        BY <1>2, <3>5, <3>6, Zenon DEF RInv
    <2> QED
      BY <2>0, <2>1, <2>2
  <1> QED
    BY <1>3, <1>4, <1>5, <1>6, Zenon

\* Bread, and the calls that Brdstr makes.
LEMMA RBreads ==
    ASSUME RInv,
           Bread \/ BreadCopy \/ (\E k \in read(bsize) : BreadFill(k)) \/ BreadEnd
    PROVE  RInv'
  <1> USE SizesAssumption DEF bufVars, strVars, fileVars, End
  <1>1. CASE Bread
    <2>0. Reading
      BY <1>1, Zenon DEF Bread
    <2>1. /\ mode' = "OREAD" /\ pc' = "bread" /\ i' = icount /\ c' \in Nat /\ unget' = 0
          /\ str = "no" /\ str' = "no"
          /\ UNCHANGED <<state, buf, gbuf, icount, offset, rdline, file, size, fpos, stale>>
      BY <1>1, <2>0, RBetween DEF Bread, BreadCall, Free
    <2>2. RTypes' /\ RBread'
      BY <2>0, <2>1, RBetween DEF RTypes, RBread
    <2> QED
      BY <2>1, <2>2, Zenon DEF RInv, RIdle, RBrdline, RFill
  <1>2. CASE BreadCopy \/ (\E k \in read(bsize) : BreadFill(k)) \/ BreadEnd
    <2>1. pc = "bread" /\ mode = "OREAD"
      BY <1>2, Zenon DEF BreadCopy, BreadFill, BreadEnd, RInv, RTypes
    <2>2. /\ i \in -(bsize + Bungetsize) .. 0 /\ c \in Nat /\ unget = 0
          /\ Good(file, size, buf, offset, i)
          /\ ~stale => Good(file, size, buf, offset, gbuf)
          /\ str # "no" => i >= -bsize
          /\ state \in {"Binactive", "Bractive", "Bracteof"}
          /\ offset \in Nat /\ fpos = offset /\ size \in Nat
          /\ gbuf \in -bsize .. 0 /\ icount \in -(bsize + Bungetsize) .. 0 /\ rdline \in Nat
          /\ stale \in BOOLEAN /\ str \in {"no", "line", "read"}
      BY <2>1, Zenon DEF RInv, RTypes, RBread
    <2>3. /\ mode' = mode /\ str' = str /\ unget' = unget /\ rdline' = rdline
          /\ file' = file /\ size' = size /\ pc' \in {"idle", "bread"}
      BY <1>2, <2>1, Zenon DEF BreadCopy, BreadFill, BreadEnd
    <2>4. RBrdline' /\ RFill'
      BY <2>3, Zenon DEF RBrdline, RFill
    <2>5. CASE BreadCopy
      <3> DEFINE n == Least(-i, c)
      <3>1. /\ pc' = pc /\ i # 0 /\ c > 0 /\ i' = i + n /\ c' = c - n
            /\ UNCHANGED <<state, buf, gbuf, icount, offset, fpos, stale>>
        BY <2>5, Zenon DEF BreadCopy
      <3>2. n \in Nat /\ n <= -i /\ n <= c
        BY <2>2 DEF Least
      <3> HIDE DEF n
      <3>3. i + n \in -(bsize + Bungetsize) .. 0 /\ i <= i + n /\ i \in Int /\ c - n \in Nat
        BY <2>2, <3>2
      <3>4. Good(file, size, buf, offset, i + n)
        BY <2>2, <3>3, GoodPart
      <3>5. str # "no" => i + n >= -bsize
        BY <2>2, <3>2
      <3>6. RTypes' /\ RBread' /\ RIdle'
        BY <2>1, <2>2, <2>3, <3>1, <3>3, <3>4, <3>5 DEF RTypes, RBread, RIdle
      <3> QED
        BY <2>4, <3>6, Zenon DEF RInv
    <2>6. CASE BreadEnd
      <3>1. /\ pc' = "idle" /\ icount' = i
            /\ UNCHANGED <<state, buf, gbuf, offset, fpos, stale>>
        BY <2>6, Zenon DEF BreadEnd
      <3>2. i - 0 = i /\ unget' = 0
        BY <2>2, <2>3
      <3>3. RTypes' /\ RBread'
        BY <2>1, <2>2, <2>3, <3>1 DEF RTypes, RBread
      <3>4. RIdle'
        BY <2>2, <2>3, <3>1, <3>2 DEF RIdle
      <3> QED
        BY <2>4, <3>3, <3>4, Zenon DEF RInv
    <2>7. ASSUME NEW k \in read(bsize), BreadFill(k) PROVE RInv'
      <3>0. k \in Int /\ (k > 0 => k \in 1 .. bsize /\ fpos + k <= size) /\ i = 0
        BY <2>2, <2>7, ReadReturns, Zenon DEF BreadFill
      <3>1. CASE k <= 0
        <4>1. /\ state' \in {"Binactive", "Bractive", "Bracteof"} /\ icount' = 0
              /\ pc' = "idle" /\ UNCHANGED <<buf, gbuf, offset, fpos, stale>>
          BY <2>7, <3>0, <3>1, Zenon DEF BreadFill, NoBytes
        <4>2. RTypes' /\ RBread'
          BY <2>1, <2>2, <2>3, <4>1 DEF RTypes, RBread
        <4>3. icount' - unget' = 0 /\ 0 >= -(bsize + Bungetsize) /\ 0 >= -bsize
          BY <2>2, <2>3, <4>1
        <4>4. RIdle'
          BY <2>2, <2>3, <3>0, <4>1, <4>3, Zenon DEF RIdle
        <4> QED
          BY <2>4, <4>2, <4>4, Zenon DEF RInv
      <3>2. CASE k > 0
        <4> DEFINE new == memmove(Arrive(buf, -bsize, k), -k, -bsize, k)
        <4>1. /\ buf' = new /\ gbuf' = -k /\ stale' = FALSE
              /\ offset' = offset + k /\ fpos' = fpos + k /\ i' = -k
              /\ UNCHANGED <<state, icount, pc, c>>
          BY <2>7, <3>0, <3>2 DEF BreadFill
        <4>2. Good(file, size, new, fpos + k, -k)
          BY <2>2, <3>0, <3>2, GoodBread, Zenon
        <4> HIDE DEF new
        <4>3. /\ -k \in -(bsize + Bungetsize) .. 0 /\ -k \in -bsize .. 0 /\ offset + k \in Nat
              /\ -k >= -bsize
          BY <2>2, <3>0, <3>2
        <4>4. RTypes'
          <5>1. gbuf' \in -bsize .. 0 /\ offset' \in Nat /\ fpos' = offset'
            BY <2>2, <3>0, <4>1, <4>3, Zenon
          <5>2. stale' \in BOOLEAN
            BY <4>1, Zenon
          <5>3. /\ mode' = "OREAD" /\ state' = state /\ icount' = icount /\ rdline' = rdline
                /\ pc' = "bread" /\ unget' = 0 /\ str' = str /\ size' = size
            BY <2>1, <2>2, <2>3, <4>1, Zenon
          <5> QED
            BY <2>2, <5>1, <5>2, <5>3 DEF RTypes
        <4>5. RBread' /\ RIdle'
          BY <2>1, <2>2, <2>3, <4>1, <4>2, <4>3, Zenon DEF RBread, RIdle
        <4> QED
          BY <2>4, <4>4, <4>5, Zenon DEF RInv
      <3> QED
        BY <3>0, <3>1, <3>2
    <2> QED
      BY <1>2, <2>5, <2>6, <2>7, Zenon
  <1> QED
    BY <1>1, <1>2, Zenon

\* Brdline looks in the buffer.
LEMMA RBrdlines ==
    ASSUME RInv,
           \/ Brdline \/ Brdstr \/ BrdstrLine \/ BrdstrRead \/ BrdstrTaken
           \/ BrdlineEof \/ (\E x \in Idx : BrdlineHave(x)) \/ BrdlineMove
    PROVE  RInv'
  <1> USE SizesAssumption DEF bufVars, strVars, fileVars, callVars, End, BrdlineCall
  <1>1. CASE Brdline \/ Brdstr \/ BrdstrRead
    <2>0. Reading
      BY <1>1, Zenon DEF Brdline, Brdstr, BrdstrRead
    <2>1. /\ mode' = "OREAD" /\ pc' = "Brdline" /\ unget' = 0 /\ str' \in {"no", "line", "read"}
          /\ icount >= -bsize
          /\ UNCHANGED <<state, buf, gbuf, icount, offset, rdline, file, size, fpos, stale>>
      BY <1>1, <2>0, RBetween DEF Brdline, Brdstr, BrdstrRead, Free
    <2>2. RTypes' /\ RBrdline'
      BY <2>0, <2>1, RBetween DEF RTypes, RBrdline
    <2> QED
      BY <2>1, <2>2, Zenon DEF RInv, RIdle, RBread, RFill
  <1>2. CASE BrdstrLine
    <2>0. Reading
      BY <1>2, Zenon DEF BrdstrLine
    <2>1. /\ mode' = "OREAD" /\ str = "line" /\ str' \in {"no", "line", "read"}
          /\ UNCHANGED <<state, buf, gbuf, icount, offset, rdline, file, size, fpos, stale>>
      BY <1>2, <2>0, RBetween, Zenon DEF BrdstrLine
    <2>2. CASE ret = "line" \/ rdline = 0
      <3>1. pc' = "idle" /\ unget' = unget
        BY <1>2, <2>0, <2>2, RBetween, Zenon DEF BrdstrLine
      <3>2. RTypes' /\ RIdle'
        BY <2>0, <2>1, <3>1, RBetween, Zenon DEF RTypes, RIdle
      <3> QED
        BY <3>1, <3>2, Zenon DEF RInv, RBread, RBrdline, RFill
    <2>3. CASE ~(ret = "line" \/ rdline = 0)
      <3>1. pc' = "bread" /\ unget' = 0 /\ i' = icount /\ c' = rdline
        BY <1>2, <2>3, Zenon DEF BrdstrLine, BreadCall
      <3>2. RTypes' /\ RBread'
        BY <2>0, <2>1, <3>1, RBetween, Zenon DEF RTypes, RBread
      <3> QED
        BY <3>1, <3>2, Zenon DEF RInv, RIdle, RBrdline, RFill
    <2> QED
      BY <2>2, <2>3, Zenon
  <1>3. CASE BrdstrTaken
    <2>0. Reading
      BY <1>3, Zenon DEF BrdstrTaken
    <2>1. /\ mode' = "OREAD" /\ pc' = "idle" /\ str' = str /\ unget' = unget
          /\ UNCHANGED <<state, buf, gbuf, icount, offset, rdline, file, size, fpos, stale>>
      BY <1>3, <2>0, RBetween, Zenon DEF BrdstrTaken
    <2>2. RTypes' /\ RIdle'
      BY <2>0, <2>1, RBetween, Zenon DEF RTypes, RIdle
    <2> QED
      BY <2>1, <2>2, Zenon DEF RInv, RBread, RBrdline, RFill
  <1>4. CASE BrdlineEof \/ (\E x \in Idx : BrdlineHave(x)) \/ BrdlineMove
    <2>1. pc = "Brdline" /\ mode = "OREAD"
      BY <1>4, Zenon DEF BrdlineEof, BrdlineHave, BrdlineMove, RInv, RTypes
    <2>2. /\ icount \in -bsize .. 0 /\ unget = 0
          /\ Good(file, size, buf, offset, icount)
          /\ ~stale => Good(file, size, buf, offset, gbuf)
          /\ state \in {"Binactive", "Bractive", "Bracteof"}
          /\ offset \in Nat /\ fpos = offset /\ size \in Nat
          /\ gbuf \in -bsize .. 0 /\ rdline \in Nat
          /\ stale \in BOOLEAN /\ str \in {"no", "line", "read"}
      BY <2>1 DEF RInv, RTypes, RBrdline
    <2>3. /\ mode' = mode /\ str' = str /\ unget' = unget /\ offset' = offset /\ fpos' = fpos
          /\ file' = file /\ size' = size /\ pc' \in {"idle", "fill"}
      BY <1>4, <2>1, Zenon DEF BrdlineEof, BrdlineHave, BrdlineMove
    <2>4. RBread' /\ RBrdline'
      BY <2>3, Zenon DEF RBread, RBrdline
    <2>5. CASE BrdlineEof
      <3>1. /\ pc' = "idle" /\ state' \in {"Binactive", "Bractive", "Bracteof"}
            /\ rdline' = 0 /\ gbuf' = 0 /\ stale' = FALSE /\ icount = 0
            /\ UNCHANGED <<buf, icount>>
        BY <2>2, <2>5, Zenon DEF BrdlineEof
      <3>2. icount' - unget' = 0 /\ 0 >= -(bsize + Bungetsize) /\ 0 >= -bsize
        BY <2>2, <2>3, <3>1
      <3>3. Good(file, size, buf, offset, 0)
        BY GoodNone, Zenon
      <3>4. RTypes'
        <4>0. stale' \in BOOLEAN
          BY <3>1, Zenon
        <4>1. rdline' \in Nat /\ gbuf' \in -bsize .. 0
          BY <3>1
        <4>2. icount' \in -(bsize + Bungetsize) .. 0 /\ unget' \in 0 .. Bungetsize
          BY <2>2, <2>3, <3>1
        <4> QED
          BY <2>1, <2>2, <2>3, <3>1, <4>0, <4>1, <4>2, Zenon DEF RTypes
      <3>5. RIdle' /\ RFill'
        BY <2>2, <2>3, <3>1, <3>2, <3>3, Zenon DEF RIdle, RFill
      <3> QED
        BY <2>4, <3>4, <3>5, Zenon DEF RInv
    <2>6. ASSUME NEW x \in Idx, BrdlineHave(x) PROVE RInv'
      <3>1. /\ pc' = "idle" /\ rdline' = x - icount + 1 /\ icount' = x + 1
            /\ x \in icount .. -1 /\ UNCHANGED <<state, buf, gbuf, stale>>
        BY <2>2, <2>6 DEF BrdlineHave, First
      <3>2. /\ x + 1 \in -bsize .. 0 /\ x - icount + 1 \in Nat /\ icount <= x + 1
            /\ x + 1 \in Int /\ icount \in Int /\ x + 1 \in -(bsize + Bungetsize) .. 0
            /\ x + 1 - 0 = x + 1 /\ x + 1 >= -bsize /\ x + 1 >= -(bsize + Bungetsize)
        BY <2>2, <3>1
      <3>3. Good(file, size, buf, offset, x + 1)
        BY <2>2, <3>2, GoodPart, Zenon
      <3>4. RTypes'
        BY <2>1, <2>2, <2>3, <3>1, <3>2 DEF RTypes
      <3>5. icount' - unget' = x + 1
        BY <2>2, <2>3, <3>1, <3>2
      <3>6. RIdle' /\ RFill'
        BY <2>2, <2>3, <3>1, <3>2, <3>3, <3>5, Zenon DEF RIdle, RFill
      <3> QED
        BY <2>4, <3>4, <3>6, Zenon DEF RInv
    <2>7. CASE BrdlineMove
      <3> DEFINE b == IF -icount < bsize THEN memmove(buf, -bsize, icount, -icount) ELSE buf
      <3>1. /\ pc' = "fill" /\ buf' = b /\ gbuf' = -bsize /\ i' = -icount
            /\ UNCHANGED <<state, icount, rdline, stale>>
        BY <2>7, Zenon DEF BrdlineMove
      <3>2. Prefix(file, size, b, offset, -icount)
        BY <2>2, PrefixMove, Zenon
      <3> HIDE DEF b
      <3>3. -icount \in 0 .. bsize /\ gbuf' \in -bsize .. 0
            /\ icount \in -(bsize + Bungetsize) .. 0
        BY <2>2, <3>1
      <3>4. RTypes'
        BY <2>1, <2>2, <2>3, <3>1, <3>3 DEF RTypes
      <3>5. RIdle' /\ RFill'
        BY <2>2, <2>3, <3>1, <3>2, <3>3, Zenon DEF RIdle, RFill
      <3> QED
        BY <2>4, <3>4, <3>5, ZenonT(30) DEF RInv
    <2> QED
      BY <1>4, <2>5, <2>6, <2>7, Zenon
  <1> QED
    BY <1>1, <1>2, <1>3, <1>4, Zenon

\* Brdline reads on.
LEMMA RFills ==
    ASSUME RInv,
           (\E k \in read(bsize - i) : BrdlineNone(k) \/ BrdlineFill(k)) \/ BrdlineFull
    PROVE  RInv'
  <1> USE SizesAssumption DEF strVars, fileVars, End
  <1>1. pc = "fill" /\ mode = "OREAD"
    BY Zenon DEF BrdlineNone, BrdlineFill, BrdlineFull, RInv, RTypes
  <1>2. /\ i \in 0 .. bsize /\ unget = 0 /\ Prefix(file, size, buf, offset, i)
        /\ state \in {"Binactive", "Bractive", "Bracteof"}
        /\ offset \in Nat /\ fpos = offset /\ size \in Nat /\ rdline \in Nat
        /\ gbuf \in -bsize .. 0 /\ icount \in -(bsize + Bungetsize) .. 0
        /\ stale \in BOOLEAN /\ str \in {"no", "line", "read"}
    BY <1>1, Zenon DEF RInv, RTypes, RFill
  <1>3. /\ mode' = mode /\ str' = str /\ unget' = unget /\ state' = state
        /\ file' = file /\ size' = size /\ pc' \in {"idle", "fill"}
    BY <1>1, Zenon DEF BrdlineNone, BrdlineFill, BrdlineFull
  \* A call that returns with the last n bytes of the buffer good, and m of them left.
  <1>4. ASSUME NEW n \in 0 .. bsize, NEW m \in 0 .. n, Good(file, size, buf', offset', -n),
               offset' \in Nat, fpos' = offset', icount' = -m, gbuf' = -n, stale' = FALSE,
               rdline' \in Nat, pc' = "idle"
        PROVE  RInv'
    <2>1. /\ -n \in Int /\ -m \in Int /\ -n <= -m
          /\ -m \in -(bsize + Bungetsize) .. 0 /\ -n \in -bsize .. 0
          /\ -m - 0 = -m /\ -m >= -bsize /\ -m >= -(bsize + Bungetsize)
      OBVIOUS
    <2>2. Good(file, size, buf', offset', -m)
      BY <1>4, <2>1, GoodPart, Zenon
    <2>3. stale' \in BOOLEAN
      BY <1>4, Zenon
    <2>4. RTypes'
      BY <1>1, <1>2, <1>3, <1>4, <2>1, <2>3 DEF RTypes
    <2>5. icount' - unget' = -m
      BY <1>2, <1>3, <1>4, <2>1, Zenon
    <2>6. RIdle'
      BY <1>1, <1>2, <1>3, <1>4, <2>1, <2>2, <2>5, Zenon DEF RIdle
    <2> QED
      BY <1>4, <2>4, <2>6, Zenon DEF RInv, RBread, RBrdline, RFill
  <1>5. CASE BrdlineFull
    <2>1. /\ rdline' = bsize /\ icount' = -bsize /\ gbuf' = -bsize /\ stale' = FALSE
          /\ pc' = "idle" /\ i = bsize /\ UNCHANGED <<buf, offset, fpos>>
      BY <1>2, <1>5 DEF BrdlineFull
    <2>2. Good(file, size, buf, offset, -bsize)
      BY <1>2, <2>1, GoodFull, Zenon
    <2>3. bsize \in 0 .. bsize
      OBVIOUS
    <2> QED
      BY <1>2, <1>4, <2>1, <2>2, <2>3, Zenon
  <1>6. ASSUME NEW k \in read(bsize - i), BrdlineNone(k) PROVE RInv'
    <2>1. /\ buf' = memmove(buf, -i, -bsize, i)
          /\ rdline' = i /\ icount' = -i /\ gbuf' = -i /\ stale' = FALSE
          /\ pc' = "idle" /\ UNCHANGED <<offset, fpos>>
      BY <1>6, Zenon DEF BrdlineNone
    <2>2. Good(file, size, buf', offset, -i)
      BY <1>2, <2>1, GoodBack, Zenon
    <2>3. i \in 0 .. i /\ i \in Nat
      BY <1>2
    <2> QED
      BY <1>2, <1>4, <2>1, <2>2, <2>3, Zenon
  <1>7. ASSUME NEW k \in read(bsize - i), BrdlineFill(k) PROVE RInv'
    <2> DEFINE b == Arrive(buf, i - bsize, k)
               n == i + k
    <2>1. /\ i < bsize /\ k > 0 /\ offset' = offset + k /\ fpos' = fpos + k
          /\ \/ /\ buf' = b /\ i' = n
                /\ UNCHANGED <<gbuf, icount, rdline, pc, stale>>
             \/ \E x \in i - bsize .. n - bsize - 1 :
                /\ buf' = memmove(b, -n, -bsize, n)
                /\ gbuf' = -n /\ stale' = FALSE /\ pc' = "idle"
                /\ rdline' = x + bsize + 1 /\ icount' = x + bsize + 1 - n
      BY <1>7, Zenon DEF BrdlineFill
    <2>2. k \in 1 .. bsize - i /\ fpos + k <= size /\ bsize - i \in Nat
      <3>1. bsize - i \in Nat
        BY <1>2
      <3> QED
        BY <3>1, <1>2, <2>1, ReadReturns, Zenon
    <2>3. n \in 0 .. bsize /\ i \in 0 .. bsize - 1 /\ k \in Int /\ fpos + k \in Nat
      BY <1>2, <2>1, <2>2
    <2>4. Prefix(file, size, b, fpos + k, n)
      BY <1>2, <2>2, <2>3, PrefixMore, Zenon
    <2> HIDE DEF b
    <2>5. CASE buf' = b /\ i' = n /\ UNCHANGED <<gbuf, icount, rdline, pc, stale>>
      <3>1. offset' \in Nat /\ fpos' = offset'
        BY <1>2, <2>1, <2>3, Zenon
      <3> HIDE DEF n
      <3>2. RTypes'
        BY <1>1, <1>2, <1>3, <2>5, <3>1 DEF RTypes
      <3>3. RFill'
        BY <1>1, <1>2, <1>3, <2>1, <2>3, <2>4, <2>5, Zenon DEF RFill
      <3> QED
        BY <1>1, <2>5, <3>2, <3>3, Zenon DEF RInv, RIdle, RBread, RBrdline
    <2>6. ASSUME NEW x \in i - bsize .. n - bsize - 1,
                 buf' = memmove(b, -n, -bsize, n), gbuf' = -n, stale' = FALSE, pc' = "idle",
                 rdline' = x + bsize + 1, icount' = x + bsize + 1 - n
          PROVE  RInv'
      <3>1. Good(file, size, memmove(b, -n, -bsize, n), fpos + k, -n)
        BY <1>2, <2>3, <2>4, GoodBack, Zenon
      <3> DEFINE m == n - (x + bsize + 1)
      <3>2. m \in 0 .. n /\ icount' = -m /\ rdline' \in Nat
        BY <1>2, <2>3, <2>6
      <3>3. offset' = fpos + k /\ offset' \in Nat /\ fpos' = offset'
        BY <1>2, <2>1, <2>3, Zenon
      <3> HIDE DEF n, m
      <3> QED
        BY <1>4, <2>3, <2>6, <3>1, <3>2, <3>3, Zenon
    <2> QED
      BY <2>1, <2>5, <2>6, ZenonT(30)
  <1> QED
    BY <1>5, <1>6, <1>7, Zenon

\* Bflush and Bseek: a place in the buffer is one whose bytes are good, unless Bgetc has
\* left gbuf wrong at the end of the file.
LEMMA RMoves ==
    ASSUME RInv,
           BflushRead \/ (Trusted /\ \E n \in 0 .. MaxPos, base \in {0, 2} : BseekRead(n, base))
    PROVE  RInv'
  <1> USE SizesAssumption DEF strVars, callVars, fileVars, Free
  <1>0. Reading
    BY Zenon DEF BflushRead, BseekRead
  <1>1. /\ mode' = "OREAD" /\ pc' = "idle" /\ state' = "Bractive" /\ unget' = 0
        /\ str = "no" /\ str' = "no" /\ buf' = buf /\ rdline' = rdline
        /\ file' = file /\ size' = size
    BY <1>0, RBetween, Zenon DEF BflushRead, BseekRead
  <1>2. ASSUME NEW ic \in -(bsize + Bungetsize) .. 0, icount' = ic, gbuf' \in -bsize .. 0,
               stale' \in BOOLEAN, offset' \in Nat, fpos' = offset',
               Good(file, size, buf, offset', ic),
               ~stale' => Good(file, size, buf, offset', gbuf')
        PROVE  RInv'
    <2>1. RTypes'
      BY <1>0, <1>1, <1>2, RBetween DEF RTypes
    <2>2. icount' - unget' = ic /\ ic >= -(bsize + Bungetsize)
      BY <1>1, <1>2
    <2>3. RIdle'
      BY <1>1, <1>2, <2>2, Zenon DEF RIdle
    <2> QED
      BY <1>1, <2>1, <2>3, Zenon DEF RInv, RBread, RBrdline, RFill
  \* The buffer is given up.
  <1>3. ASSUME icount' = 0, gbuf' = 0, stale' = FALSE, offset' \in Nat, fpos' = offset'
        PROVE  RInv'
    <2>1. Good(file, size, buf, offset', 0)
      BY GoodNone, Zenon
    <2>2. stale' \in BOOLEAN
      BY <1>3, Zenon
    <2>3. 0 \in -(bsize + Bungetsize) .. 0 /\ gbuf' \in -bsize .. 0
      BY <1>3
    <2> QED
      BY <1>2, <1>3, <2>1, <2>2, <2>3, Zenon
  <1>4. CASE BflushRead
    <2>1. icount' = 0 /\ gbuf' = 0 /\ stale' = FALSE /\ UNCHANGED <<offset, fpos>>
      BY <1>4, Zenon DEF BflushRead
    <2> QED
      BY <1>0, <1>3, <2>1, RBetween, Zenon
  <1>5. ASSUME Trusted, NEW n \in 0 .. MaxPos, NEW base \in {0, 2}, BseekRead(n, base)
        PROVE  RInv'
    <2> DEFINE eof == state = "Bracteof"
               ic == IF eof THEN 0 ELSE icount
               gb == IF eof THEN 0 ELSE gbuf
    <2>1. CASE ~(base # 2 /\ Inside(n, ic, gb))
      <3>1. icount' = 0 /\ gbuf' = 0 /\ stale' = FALSE /\ fpos' = n /\ offset' = n
        BY <1>5, <2>1, Zenon DEF BseekRead
      <3>2. offset' \in Nat /\ fpos' = offset'
        BY <3>1
      <3> QED
        BY <1>3, <3>1, <3>2, Zenon
    <2>2. CASE base # 2 /\ Inside(n, ic, gb)
      <3>1. /\ icount' = n - offset /\ gbuf' = gb /\ stale' = (stale /\ ~eof)
            /\ offset' = offset /\ fpos' = fpos
        BY <1>5, <2>2, Zenon DEF BseekRead
      <3>2. /\ ic \in -(bsize + Bungetsize) .. 0 /\ gb \in -bsize .. 0
            /\ Good(file, size, buf, offset, ic) /\ Good(file, size, buf, offset, gb)
        <4>1. Good(file, size, buf, offset, 0)
          BY GoodNone, Zenon
        <4>2. ~eof => ~stale
          BY <1>5, Zenon DEF Trusted
        <4>3. CASE eof
          BY <4>1, <4>3
        <4>4. CASE ~eof
          <5>1. ic = icount /\ gb = gbuf /\ ~stale
            BY <4>2, <4>4, Zenon
          <5> HIDE DEF ic, gb
          <5> QED
            BY <1>0, <5>1, RBetween, Zenon
        <4> QED
          BY <4>3, <4>4, Zenon
      <3> HIDE DEF ic, gb
      <3>3. /\ n - offset \in Int /\ n - offset <= 0
            /\ ic <= n - offset \/ gb <= n - offset
        BY <1>0, <2>2, <3>2, RBetween DEF Inside
      <3>4. Good(file, size, buf, offset, n - offset)
        <4>1. CASE ic <= n - offset
          BY <3>2, <3>3, <4>1, GoodPart
        <4>2. CASE gb <= n - offset
          BY <3>2, <3>3, <4>2, GoodPart
        <4> QED
          BY <3>3, <4>1, <4>2, Zenon
      <3>5. n - offset \in -(bsize + Bungetsize) .. 0
        BY <3>2, <3>3
      <3>6. stale' \in BOOLEAN
        BY <3>1, Zenon
      <3> QED
        BY <1>0, <1>2, <3>1, <3>2, <3>4, <3>5, <3>6, RBetween, Zenon
    <2> QED
      BY <2>1, <2>2, Zenon
  <1> QED
    BY <1>4, <1>5, Zenon

\* The invariant of input is inductive.
LEMMA RNext == RInv /\ [Next]_vars => RInv'
  <1> SUFFICES ASSUME RInv, [Next]_vars PROVE RInv'
    OBVIOUS
  <1>1. CASE Read
    BY <1>1, RBgetc, RBreads, RBrdlines, RFills, RMoves, Zenon DEF Read
  <1>2. CASE Write
    <2>1. /\ mode = "OWRITE" /\ mode' = mode /\ pc' \in {"idle", "bwrite", "closed"}
      BY <1>2, ZenonT(30) DEF Write, BputcBuffered, BputcFlush, Bwrite, BwriteCopy, BwriteFlush,
                  BwriteEnd, Bflush, Bterm, BseekWrite, Writing, End, callVars, RInv, RTypes
    <2> QED
      BY <2>1, Zenon DEF RInv, RTypes, RIdle, RBread, RBrdline, RFill
  <1>3. CASE BflushInactive
    BY <1>3, Zenon DEF BflushInactive, bufVars, fileVars, callVars, strVars, RInv, RTypes, RIdle,
                RBread, RBrdline, RFill
  <1>4. CASE UNCHANGED vars
    BY <1>4, ZenonT(30) DEF vars, bufVars, fileVars, callVars, strVars, userVars, RInv, RTypes, RIdle,
                RBread, RBrdline, RFill
  <1> QED
    BY <1>1, <1>2, <1>3, <1>4, Zenon DEF Next

\* The bytes a call may return from the buffer, those Bungetc may uncover and, unless
\* Bgetc has met the end of the file, those from gbuf on are the bytes of the file at
\* their places: for every size of the buffer, every file, and every sequence of calls
\* and of reads that return less or fail.
THEOREM DataIsGood == Spec => []GoodData
  <1>1. RInv => GoodData
    BY RBetween, Zenon DEF GoodData, Good, Reading
  <1> QED
    BY <1>1, RInit, RNext, PTL DEF Spec

-----------------------------------------------------------------------------
(***************************************************************************)
(* The file.  Each call reads, from the file with a position of module     *)
(* BioFile, what the buffer holds at the place of that position.           *)
(***************************************************************************)
\* The file is one of bytes, and so is what the caller got from it.
ROut == mode = "OREAD" => file \in [0 .. size - 1 -> Byte] /\ out \in Seq(Byte)

\* The next n bytes of the file.
Bytes(p, n) == [j \in 1 .. n |-> file[p + j - 1]]

\* They are a sequence of bytes, as far as the file goes.
LEMMA BytesSeq ==
    ASSUME size \in Nat, file \in [0 .. size - 1 -> Byte],
           NEW p \in Nat, NEW n \in Nat, n = 0 \/ p + n <= size
    PROVE  Bytes(p, n) \in Seq(Byte)
  <1>1. \A j \in 1 .. n : file[p + j - 1] \in Byte
    OBVIOUS
  <1> QED
    BY <1>1, IsASeq DEF Bytes

\* A step that delivers n bytes is one of the file's.
LEMMA FDeliver ==
    ASSUME ROut, mode = "OREAD", mode' = mode, file' = file, size' = size, size \in Nat,
           NEW p \in Nat, NEW n \in Nat, n = 0 \/ p + n <= size,
           Position = p, Position' = p + n,
           out' = out \o Bytes(p, n) \/ out' = Bytes(p, n)
    PROVE  F!Next /\ ROut'
  <1>1. Bytes(p, n) \in Seq(Byte) /\ out \in Seq(Byte)
    BY BytesSeq, Zenon DEF ROut
  <1>2. <<>> \o Bytes(p, n) = Bytes(p, n)
    BY <1>1, ConcatEmptySeq, Zenon
  <1>3. out' \in Seq(Byte)
    BY <1>1, ConcatProperties, Zenon
  <1>4. n \in {0} \cup 1 .. size - p
    OBVIOUS
  <1>5. \E before \in {<<>>, out} : out' = before \o Bytes(p, n)
    BY <1>2, Zenon
  <1> QED
    BY <1>3, <1>4, <1>5, Zenon DEF F!Next, F!Deliver, F!Bytes, Bytes, ROut

\* A call that begins, ends, or delivers nothing.
LEMMA FNothing ==
    ASSUME ROut, mode = "OREAD", mode' = mode, file' = file, size' = size, size \in Nat,
           NEW p \in Nat, Position = p, Position' = p, out' = out \/ out' = <<>>
    PROVE  F!Next /\ ROut'
  <1>1. Bytes(p, 0) = <<>>
    <2>1. Bytes(p, 0) \in Seq(Byte)
      BY BytesSeq, Zenon DEF ROut
    <2>2. Len(Bytes(p, 0)) = 0
      BY <2>1 DEF Bytes
    <2> QED
      BY <2>1, <2>2, EmptySeq, Zenon
  <1>2. out \o <<>> = out
    BY ConcatEmptySeq, Zenon DEF ROut
  <1>3. p + 0 = p
    OBVIOUS
  <1> QED
    BY <1>1, <1>2, <1>3, FDeliver, Zenon

\* A byte is given back.
LEMMA FUnget ==
    ASSUME ROut, mode = "OREAD", mode' = mode, file' = file, size' = size,
           NEW p \in Nat \ {0}, Position = p, Position' = p - 1, out' = <<>>
    PROVE  F!Next /\ ROut'
  <1>1. out' \in Seq(Byte)
    BY EmptySeq, Zenon
  <1> QED
    BY <1>1 DEF F!Next, F!Unget, ROut

\* The caller moves in the file.
LEMMA FMove ==
    ASSUME ROut, mode = "OREAD", mode' = mode, file' = file, size' = size,
           Position' \in Nat, out' = <<>>, ret' = "moved"
    PROVE  F!Next /\ ROut'
  <1>1. out' \in Seq(Byte)
    BY EmptySeq, Zenon
  <1> QED
    BY <1>1, Zenon DEF F!Next, F!Move, ROut

\* n good bytes of the buffer are the next n of the file.
LEMMA GoodCells ==
    ASSUME NEW b, NEW o \in Nat, NEW lo \in -(bsize + Bungetsize) .. 0, NEW n \in Nat,
           lo + n <= 0, Good(file, size, b, o, lo), size \in Nat
    PROVE  /\ Cells(b, lo, n) = Bytes(o + lo, n)
           /\ lo < 0 => o + lo \in Nat /\ o <= size
           /\ n = 0 \/ o + lo + n <= size
  <1> USE SizesAssumption
  <1>1. lo < 0 => o + lo \in Nat /\ o <= size
    <2>1. lo < 0 => lo \in Idx /\ -1 \in Idx /\ lo <= -1
      BY DEF Idx
    <2>2. lo < 0 => o + lo \in 0 .. size - 1 /\ o + (-1) \in 0 .. size - 1
      BY <2>1 DEF Good
    <2> QED
      BY <2>2
  <1>2. ASSUME NEW j \in 1 .. n PROVE b[lo + j - 1] = file[o + lo + j - 1]
    <2>1. lo + j - 1 \in Idx /\ lo + j - 1 >= lo /\ o + (lo + j - 1) = o + lo + j - 1
      BY DEF Idx
    <2> QED
      BY <2>1, Zenon DEF Good
  <1> QED
    BY <1>1, <1>2 DEF Cells, Bytes

\* So are those at the beginning of the buffer while Brdline collects a line.
LEMMA PrefixCells ==
    ASSUME NEW b, NEW o \in Nat, NEW m \in Nat, m <= bsize, NEW n \in Nat, n <= m,
           NEW p \in Nat, o = p + m, Prefix(file, size, b, o, m), size \in Nat
    PROVE  Cells(b, -bsize, n) = Bytes(p, n) /\ (n = 0 \/ p + n <= size)
  <1> USE SizesAssumption
  <1>1. m > 0 => o <= size
    BY Zenon DEF Prefix
  <1>2. ASSUME NEW j \in 1 .. n PROVE b[-bsize + j - 1] = file[p + j - 1]
    <2>1. /\ -bsize + j - 1 \in Idx /\ -bsize <= -bsize + j - 1 /\ -bsize + j - 1 < m - bsize
          /\ o - m + (-bsize + j - 1) + bsize = p + j - 1
      BY DEF Idx
    <2> QED
      BY <2>1, Zenon DEF Prefix
  <1>3. Cells(b, -bsize, n) = Bytes(p, n)
    BY <1>2, Zenon DEF Cells, Bytes
  <1>4. n = 0 \/ p + n <= size
    BY <1>1
  <1> QED
    BY <1>3, <1>4, Zenon

\* Bgetc delivers a byte or nothing, Bungetc takes one back.
LEMMA FBgetc ==
    ASSUME RInv, ROut,
           BgetcBuffered \/ BgetcEof \/ (\E k \in read(bsize) : BgetcFill(k)) \/ Bungetc
    PROVE  F!Next /\ ROut'
  <1> USE SizesAssumption DEF callVars, strVars, fileVars
  <1>0. Reading
    BY Zenon DEF BgetcBuffered, BgetcEof, BgetcFill, Bungetc
  <1>1. /\ mode = "OREAD" /\ mode' = mode /\ pc = "idle" /\ pc' = "idle"
        /\ size' = size /\ file' = file
        /\ size \in Nat /\ offset \in Nat /\ icount \in -(bsize + Bungetsize) .. 0
        /\ fpos = offset /\ unget \in 0 .. Bungetsize
    BY <1>0, RBetween, Zenon DEF BgetcBuffered, BgetcEof, BgetcFill, Bungetc
  <1>2. Position = offset + icount /\ Position' = offset' + icount'
    BY <1>1, Zenon DEF Position, Boffset
  <1>3. offset + icount \in Nat
    <2>1. icount < 0 => offset + icount \in Nat
      <3>1. icount + 0 <= 0 /\ 0 \in Nat
        BY <1>1
      <3> QED
        BY <3>1, <1>0, <1>1, RBetween, GoodCells, Zenon
    <2> QED
      BY <1>1, <2>1
  <1>4. CASE BgetcBuffered
    <2>1. /\ icount # 0 /\ icount' = icount + 1 /\ out' = <<buf[icount]>> /\ offset' = offset
      BY <1>4, Zenon DEF BgetcBuffered
    <2>2. Cells(buf, icount, 1) = <<buf[icount]>>
      <3>1. icount + 1 - 1 = icount
        BY <1>1
      <3> QED
        BY <3>1 DEF Cells
    <2>3. icount + 1 <= 0 /\ 1 \in Nat
      BY <1>1, <2>1
    <2>4. /\ Cells(buf, icount, 1) = Bytes(offset + icount, 1)
          /\ offset + icount + 1 <= size
      BY <1>0, <1>1, <2>3, RBetween, GoodCells
    <2>5. offset' + icount' = offset + icount + 1
      BY <1>1, <2>1
    <2> QED
      BY <1>1, <1>2, <1>3, <2>1, <2>2, <2>4, <2>5, FDeliver, Zenon
  <1>5. CASE BgetcEof
    BY <1>1, <1>2, <1>3, <1>5, FNothing, Zenon DEF BgetcEof
  <1>6. CASE Bungetc
    <2>1. CASE state = "Binactive"
      BY <1>1, <1>2, <1>3, <1>6, <2>1, FNothing, Zenon DEF Bungetc
    <2>2. CASE state # "Binactive"
      <3>1. unget > 0 /\ icount' = icount - 1 /\ offset' = offset /\ out' = <<>>
        BY <1>6, <2>2, Zenon DEF Bungetc
      <3>2. /\ icount - unget >= -(bsize + Bungetsize)
            /\ Good(file, size, buf, offset, icount - unget)
        BY <1>0, RBetween, Zenon
      <3>3. /\ icount - unget \in -(bsize + Bungetsize) .. 0 /\ icount - unget < 0
            /\ icount - unget + 0 <= 0 /\ 0 \in Nat
        BY <1>1, <3>1, <3>2
      <3>4. offset + (icount - unget) \in Nat
        BY <1>1, <3>2, <3>3, GoodCells, Zenon
      <3>5. /\ offset + icount \in Nat \ {0}
            /\ offset + (icount - 1) = offset + icount - 1
        BY <1>1, <3>1, <3>4
      <3> QED
        BY <1>1, <1>2, <3>1, <3>5, FUnget, SMTT(30)
    <2> QED
      BY <2>1, <2>2, Zenon
  <1>7. ASSUME NEW k \in read(bsize), BgetcFill(k) PROVE F!Next /\ ROut'
    <2>0. /\ k \in Int /\ (k > 0 => k \in 1 .. bsize /\ fpos + k <= size)
          /\ icount = 0 /\ offset + icount = offset
      BY <1>1, <1>7, ReadReturns, SMTT(30) DEF BgetcFill
    <2>1. CASE k <= 0
      BY <1>1, <1>2, <1>3, <1>7, <2>0, <2>1, FNothing, Zenon DEF BgetcFill
    <2>2. CASE k > 0
      <3>1. /\ icount' = 1 - k /\ offset' = offset + k /\ out' = <<buf'[-k]>>
        BY <1>7, <2>0, <2>2 DEF BgetcFill
      <3>2. Good(file, size, buf', offset + k, -k - unget)
        <4>1. icount - unget = -unget /\ k \in 1 .. bsize /\ ~(k <= 0)
          BY <1>1, <2>0, <2>2
        <4>2. Good(file, size, buf, fpos, -unget)
          BY <1>0, <1>1, <4>1, RBetween, Zenon
        <4>3. buf' = memmove(Arrive(memmove(buf, -bsize - Bungetsize, -Bungetsize, Bungetsize),
                                    -bsize, k),
                             -k - Bungetsize, -bsize - Bungetsize, k + Bungetsize)
          BY <1>7, <4>1, Zenon DEF BgetcFill
        <4>4. fpos = offset /\ fpos \in Nat /\ fpos + k <= size
          BY <1>1, <2>0, <2>2, Zenon
        <4> QED
          BY <1>1, <4>1, <4>2, <4>3, <4>4, GoodBgetc, Zenon
      <3>3. /\ -k \in Idx /\ -k >= -k - unget /\ offset + k + (-k) = offset
            /\ offset + 1 <= size /\ offset + k + (1 - k) = offset + 1
            /\ offset + 1 - 1 = offset
        BY <1>1, <2>0, <2>2 DEF Idx
      <3>4. buf'[-k] = file[offset]
        BY <3>2, <3>3, Zenon DEF Good
      <3>5. Bytes(offset, 1) = <<file[offset]>>
        BY <3>3 DEF Bytes
      <3> QED
        BY <1>1, <1>2, <2>0, <3>1, <3>3, <3>4, <3>5, FDeliver, ZenonT(30)
    <2> QED
      BY <2>0, <2>1, <2>2, SMTT(30)
  <1> QED
    BY <1>4, <1>5, <1>6, <1>7, Zenon

\* The place of the caller between two calls.
LEMMA FBetween ==
    ASSUME RInv, Reading
    PROVE  Position = offset + icount /\ offset + icount \in Nat
  <1> USE SizesAssumption
  <1>1. icount \in -(bsize + Bungetsize) .. 0 /\ offset \in Nat
    BY RBetween, Zenon
  <1>2. icount + 0 <= 0 /\ 0 \in Nat
    BY <1>1
  <1>3. icount < 0 => offset + icount \in Nat
    BY <1>1, <1>2, RBetween, GoodCells, Zenon
  <1>4. offset + icount \in Nat
    BY <1>1, <1>3
  <1> QED
    BY <1>4, Zenon DEF Position, Boffset, Reading

\* Every step of Bread is a delivery, or nothing to the file.
LEMMA FBreads ==
    ASSUME RInv, ROut,
           Bread \/ BreadCopy \/ (\E k \in read(bsize) : BreadFill(k)) \/ BreadEnd
    PROVE  F!Next /\ ROut'
  <1> USE SizesAssumption DEF bufVars, strVars, fileVars, End
  <1>1. CASE Bread
    <2>0. Reading
      BY <1>1, Zenon DEF Bread
    <2>1. /\ mode = "OREAD" /\ mode' = mode /\ pc' = "bread" /\ i' = icount /\ out' = <<>>
          /\ UNCHANGED <<offset, file, size>> /\ size \in Nat
      BY <1>1, <2>0, RBetween, Zenon DEF Bread, BreadCall
    <2>2. Position' = offset + icount
      BY <2>1, Zenon DEF Position
    <2> QED
      BY <2>0, <2>1, <2>2, FBetween, FNothing, Zenon
  <1>2. CASE BreadCopy \/ (\E k \in read(bsize) : BreadFill(k)) \/ BreadEnd
    <2>1. pc = "bread" /\ mode = "OREAD"
      BY <1>2, Zenon DEF BreadCopy, BreadFill, BreadEnd, RInv, RTypes
    <2>2. /\ i \in -(bsize + Bungetsize) .. 0 /\ c \in Nat
          /\ Good(file, size, buf, offset, i) /\ offset \in Nat /\ fpos = offset /\ size \in Nat
      BY <2>1, Zenon DEF RInv, RTypes, RBread
    <2>3. /\ mode' = mode /\ file' = file /\ size' = size /\ pc' \in {"idle", "bread"}
      BY <1>2, <2>1, Zenon DEF BreadCopy, BreadFill, BreadEnd
    <2>4. /\ Position = offset + i
          /\ Position' = IF pc' = "bread" THEN offset' + i' ELSE offset' + icount'
      BY <2>1, <2>3, Zenon DEF Position, Boffset
    <2>5. offset + i \in Nat
      <3>1. i + 0 <= 0 /\ 0 \in Nat
        BY <2>2
      <3>2. i < 0 => offset + i \in Nat
        BY <2>2, <3>1, GoodCells, ZenonT(30)
      <3> QED
        BY <2>2, <3>2
    <2>6. CASE BreadCopy
      <3> DEFINE n == Least(-i, c)
      <3>1. /\ pc' = pc /\ i' = i + n /\ out' = out \o Cells(buf, i, n) /\ offset' = offset
        BY <2>6, Zenon DEF BreadCopy
      <3>2. n \in Nat /\ i + n <= 0
        BY <2>2 DEF Least
      <3> HIDE DEF n
      <3>3. Cells(buf, i, n) = Bytes(offset + i, n) /\ (n = 0 \/ offset + i + n <= size)
        BY <2>2, <3>2, GoodCells
      <3>4. offset + (i + n) = offset + i + n
        BY <2>2, <3>2
      <3> QED
        BY <2>1, <2>2, <2>3, <2>4, <2>5, <3>1, <3>2, <3>3, <3>4, FDeliver, Zenon
    <2>7. CASE BreadEnd
      <3>1. pc' = "idle" /\ icount' = i /\ out' = out /\ offset' = offset
        BY <2>7, Zenon DEF BreadEnd
      <3> QED
        BY <2>1, <2>2, <2>3, <2>4, <2>5, <3>1, FNothing, Zenon
    <2>8. ASSUME NEW k \in read(bsize), BreadFill(k) PROVE F!Next /\ ROut'
      <3>0. k \in Int /\ i = 0 /\ out' = out
        BY <2>2, <2>8, ReadReturns, Zenon DEF BreadFill
      <3>1. CASE k <= 0
        <4>1. icount' = 0 /\ pc' = "idle" /\ offset' = offset
          BY <2>8, <3>0, <3>1, Zenon DEF BreadFill
        <4> QED
          BY <2>1, <2>2, <2>3, <2>4, <2>5, <3>0, <4>1, FNothing, Zenon
      <3>2. CASE k > 0
        <4>1. offset' = offset + k /\ i' = -k /\ pc' = pc
          BY <2>8, <3>0, <3>2 DEF BreadFill
        <4>2. offset + k + (-k) = offset + i
          BY <2>2, <3>0
        <4> QED
          BY <2>1, <2>2, <2>3, <2>4, <2>5, <3>0, <4>1, <4>2, FNothing, Zenon
      <3> QED
        BY <3>0, <3>1, <3>2, SMTT(30)
    <2> QED
      BY <1>2, <2>6, <2>7, <2>8, Zenon
  <1> QED
    BY <1>1, <1>2, Zenon

\* So is every step of Brdline in the buffer, and what Brdstr does between the calls.
LEMMA FBrdlines ==
    ASSUME RInv, ROut,
           \/ Brdline \/ Brdstr \/ BrdstrLine \/ BrdstrRead \/ BrdstrTaken
           \/ BrdlineEof \/ (\E x \in Idx : BrdlineHave(x)) \/ BrdlineMove
    PROVE  F!Next /\ ROut'
  <1> USE SizesAssumption DEF bufVars, strVars, fileVars, callVars, End, BrdlineCall
  <1>1. CASE Brdline \/ Brdstr \/ BrdstrRead \/ BrdstrLine \/ BrdstrTaken
    <2>0. Reading
      BY <1>1, Zenon DEF Brdline, Brdstr, BrdstrRead, BrdstrLine, BrdstrTaken
    <2>1. /\ mode = "OREAD" /\ mode' = mode /\ size \in Nat
          /\ pc' \in {"idle", "Brdline"} \/ (pc' = "bread" /\ i' = icount)
          /\ out' = out \/ out' = <<>>
          /\ UNCHANGED <<offset, icount, file, size>>
      BY <1>1, <2>0, RBetween, Zenon DEF Brdline, Brdstr, BrdstrRead, BrdstrLine, BrdstrTaken, BreadCall
    <2>2. Position' = offset + icount
      BY <2>1, Zenon DEF Position, Boffset
    <2> QED
      BY <2>0, <2>1, <2>2, FBetween, FNothing, Zenon
  <1>2. CASE BrdlineEof \/ (\E x \in Idx : BrdlineHave(x)) \/ BrdlineMove
    <2>1. pc = "Brdline" /\ mode = "OREAD"
      BY <1>2, Zenon DEF BrdlineEof, BrdlineHave, BrdlineMove, RInv, RTypes
    <2>2. /\ icount \in -(bsize + Bungetsize) .. 0 /\ Good(file, size, buf, offset, icount)
          /\ offset \in Nat /\ size \in Nat
      BY <2>1, Zenon DEF RInv, RTypes, RBrdline
    <2>3. /\ mode' = mode /\ offset' = offset /\ file' = file /\ size' = size
      BY <1>2, <2>1, Zenon DEF BrdlineEof, BrdlineHave, BrdlineMove
    <2>4. Position = offset + icount
      BY <2>1, Zenon DEF Position, Boffset
    <2>5. offset + icount \in Nat
      <3>1. icount + 0 <= 0 /\ 0 \in Nat
        BY <2>2
      <3>2. icount < 0 => offset + icount \in Nat
        BY <2>2, <3>1, GoodCells, Zenon
      <3> QED
        BY <2>2, <3>2
    <2>6. CASE BrdlineEof
      <3>1. Position' = offset + icount /\ out' = out
        BY <2>1, <2>3, <2>6, Zenon DEF BrdlineEof, Position, Boffset
      <3> QED
        BY <2>1, <2>2, <2>3, <2>4, <2>5, <3>1, FNothing, Zenon
    <2>7. CASE BrdlineMove
      <3>1. pc' = "fill" /\ i' = -icount /\ out' = out
        BY <2>7, Zenon DEF BrdlineMove
      <3>2. Position' = offset - (-icount)
        BY <2>1, <2>3, <3>1, Zenon DEF Position
      <3>3. offset - (-icount) = offset + icount
        BY <2>2
      <3> QED
        BY <2>1, <2>2, <2>3, <2>4, <2>5, <3>1, <3>2, <3>3, FNothing, Zenon
    <2>8. ASSUME NEW x \in Idx, BrdlineHave(x) PROVE F!Next /\ ROut'
      <3> DEFINE n == x - icount + 1
      <3>1. /\ pc' = "idle" /\ icount' = x + 1 /\ x \in icount .. -1
            /\ out' = Cells(buf, icount, n)
        BY <2>2, <2>8 DEF BrdlineHave, First
      <3>2. n \in Nat /\ icount + n <= 0 /\ offset + (x + 1) = offset + icount + n
        BY <2>2, <3>1
      <3> HIDE DEF n
      <3>3. /\ Cells(buf, icount, n) = Bytes(offset + icount, n)
            /\ n = 0 \/ offset + icount + n <= size
        BY <2>2, <3>2, GoodCells
      <3>4. Position' = offset + (x + 1)
        BY <2>1, <2>3, <3>1, Zenon DEF Position, Boffset
      <3> QED
        BY <2>1, <2>2, <2>3, <2>4, <2>5, <3>1, <3>2, <3>3, <3>4, FDeliver, ZenonT(30)
    <2> QED
      BY <1>2, <2>6, <2>7, <2>8, Zenon
  <1> QED
    BY <1>1, <1>2, Zenon

\* While Brdline reads on it delivers nothing; when it finds the delimiter, the line.
LEMMA FFills ==
    ASSUME RInv, ROut,
           (\E k \in read(bsize - i) : BrdlineNone(k) \/ BrdlineFill(k)) \/ BrdlineFull
    PROVE  F!Next /\ ROut'
  <1> USE SizesAssumption DEF strVars, fileVars, End
  <1>1. pc = "fill" /\ mode = "OREAD"
    BY Zenon DEF BrdlineNone, BrdlineFill, BrdlineFull, RInv, RTypes
  <1>2. /\ i \in 0 .. bsize /\ Prefix(file, size, buf, offset, i)
        /\ offset \in Nat /\ fpos = offset /\ size \in Nat
    BY <1>1, Zenon DEF RInv, RTypes, RFill
  <1>3. /\ mode' = mode /\ file' = file /\ size' = size /\ pc' \in {"idle", "fill"}
    BY <1>1, Zenon DEF BrdlineNone, BrdlineFill, BrdlineFull
  <1>4. /\ Position = offset - i /\ offset - i \in Nat
        /\ Position' = IF pc' = "fill" THEN offset' - i' ELSE offset' + icount'
    BY <1>1, <1>2, <1>3, Zenon DEF Position, Boffset, Prefix
  <1>5. CASE BrdlineFull
    <2>1. icount' = -bsize /\ pc' = "idle" /\ i = bsize /\ offset' = offset /\ out' = out
      BY <1>2, <1>5 DEF BrdlineFull
    <2>2. offset + (-bsize) = offset - i
      BY <1>2, <2>1, Zenon
    <2> QED
      BY <1>1, <1>2, <1>3, <1>4, <2>1, <2>2, FNothing, ZenonT(30)
  <1>6. ASSUME NEW k \in read(bsize - i), BrdlineNone(k) PROVE F!Next /\ ROut'
    <2>1. icount' = -i /\ pc' = "idle" /\ offset' = offset /\ out' = out
      BY <1>6, Zenon DEF BrdlineNone
    <2>2. offset + (-i) = offset - i
      BY <1>2, Zenon
    <2> QED
      BY <1>1, <1>2, <1>3, <1>4, <2>1, <2>2, FNothing, Zenon
  <1>7. ASSUME NEW k \in read(bsize - i), BrdlineFill(k) PROVE F!Next /\ ROut'
    <2> DEFINE b == Arrive(buf, i - bsize, k)
               n == i + k
    <2>1. /\ i < bsize /\ k > 0 /\ offset' = offset + k
          /\ \/ i' = n /\ pc' = pc /\ out' = out
             \/ \E x \in i - bsize .. n - bsize - 1 :
                /\ pc' = "idle" /\ icount' = x + bsize + 1 - n
                /\ out' = Cells(b, -bsize, x + bsize + 1)
      BY <1>7, Zenon DEF BrdlineFill
    <2>2. k \in 1 .. bsize - i /\ fpos + k <= size
      <3>1. bsize - i \in Nat
        BY <1>2
      <3> QED
        BY <3>1, <1>2, <2>1, ReadReturns, Zenon
    <2>3. n \in 0 .. bsize /\ i \in 0 .. bsize - 1 /\ k \in Int /\ fpos + k \in Nat
      BY <1>2, <2>1, <2>2
    <2>4. Prefix(file, size, b, fpos + k, n)
      BY <1>2, <2>2, <2>3, PrefixMore, Zenon
    <2> HIDE DEF b
    <2>6. CASE i' = n /\ pc' = pc /\ out' = out
      <3>1. offset' - i' = offset - i
        BY <1>2, <2>1, <2>3, <2>6
      <3> HIDE DEF n
      <3> QED
        BY <1>1, <1>2, <1>3, <1>4, <2>6, <3>1, FNothing, Zenon
    <2>7. ASSUME NEW x \in i - bsize .. n - bsize - 1,
                 pc' = "idle", icount' = x + bsize + 1 - n,
                 out' = Cells(b, -bsize, x + bsize + 1)
          PROVE  F!Next /\ ROut'
      <3> DEFINE m == x + bsize + 1
      <3>1. m \in 0 .. n /\ m \in Nat /\ x \in Int
        BY <1>2, <2>3
      <3>2. Cells(b, -bsize, m) = Bytes(offset - i, m) /\ (m = 0 \/ offset - i + m <= size)
        <4>1. /\ n \in Nat /\ n <= bsize /\ m <= n /\ fpos + k = offset - i + n
          BY <1>2, <2>3, <3>1, SMTT(30)
        <4> HIDE DEF n, m
        <4> QED
          BY <1>2, <1>4, <2>3, <2>4, <3>1, <4>1, PrefixCells, ZenonT(30)
      <3>3. offset' + icount' = offset - i + m
        BY <1>2, <2>1, <2>3, <2>7, <3>1
      <3>4. out' = Cells(b, -bsize, m)
        BY <2>7, Zenon
      <3> HIDE DEF n, m
      <3> QED
        BY <1>1, <1>2, <1>3, <1>4, <2>7, <3>1, <3>2, <3>3, <3>4, FDeliver, ZenonT(30)
    <2> QED
      BY <2>1, <2>6, <2>7, Zenon
  <1> QED
    BY <1>5, <1>6, <1>7, Zenon

\* Bflush, which drops what is buffered, and Bseek move.
LEMMA FMoves ==
    ASSUME RInv, ROut,
           BflushRead \/ (\E n \in 0 .. MaxPos, base \in {0, 2} : BseekRead(n, base))
    PROVE  F!Next /\ ROut'
  <1> USE SizesAssumption DEF strVars, callVars, fileVars
  <1>0. Reading
    BY Zenon DEF BflushRead, BseekRead
  <1>1. /\ mode = "OREAD" /\ mode' = mode /\ pc' = "idle" /\ file' = file /\ size' = size
        /\ out' = <<>> /\ ret' = "moved" /\ offset \in Nat
    BY <1>0, RBetween, Zenon DEF BflushRead, BseekRead
  <1>2. Position' = offset' + icount'
    BY <1>1, Zenon DEF Position, Boffset
  <1>3. offset' + icount' \in Nat
    <2>1. CASE BflushRead
      BY <1>1, <2>1 DEF BflushRead
    <2>2. ASSUME NEW n \in 0 .. MaxPos, NEW base \in {0, 2}, BseekRead(n, base)
          PROVE  offset' + icount' \in Nat
      <3>1. \/ icount' = n - offset /\ offset' = offset
            \/ icount' = 0 /\ offset' = n
        BY <2>2, Zenon DEF BseekRead
      <3> QED
        BY <1>1, <3>1, SMTT(30)
    <2> QED
      BY <2>1, <2>2, Zenon
  <1> QED
    BY <1>1, <1>2, <1>3, FMove, Zenon

\* Every step is one of the file, or one it does not see.
LEMMA FNext == RInv /\ ROut /\ [Next]_vars => [F!Next]_F!vars /\ ROut'
  <1> SUFFICES ASSUME RInv, ROut, [Next]_vars PROVE [F!Next]_F!vars /\ ROut'
    OBVIOUS
  <1>1. CASE Read
    BY <1>1, FBgetc, FBreads, FBrdlines, FFills, FMoves, Zenon DEF Read
  <1>2. CASE mode = "OWRITE" /\ (Write \/ BflushInactive)
    <2>1. /\ mode' = mode /\ size' = size
      BY <1>2, Zenon DEF Write, BputcBuffered, BputcFlush, Bwrite, BwriteCopy, BwriteFlush,
                  BwriteEnd, Bflush, Bterm, BseekWrite, BflushInactive, fileVars
    <2>2. /\ Position = 0 /\ Position' = 0 /\ 0 + 0 = 0
      BY <1>2, <2>1 DEF Position
    <2>3. [j \in 1 .. 0 |-> <<>>[0 + j - 1]] = <<>>
      OBVIOUS
    <2>4. <<>> \o <<>> = <<>>
      BY ConcatEmptySeq, EmptySeq, Zenon
    <2> QED
      BY <1>2, <2>1, <2>2, <2>3, <2>4, Zenon DEF F!Next, F!Deliver, F!Bytes, ROut
  <1>3. CASE mode = "OREAD" /\ BflushInactive
    <2>1. /\ mode' = mode /\ pc = "idle" /\ Reading /\ size \in Nat
          /\ UNCHANGED <<offset, icount, pc, file, size, out>>
      <3>1. Reading
        BY <1>3, Zenon DEF BflushInactive, Reading
      <3> QED
        BY <1>3, <3>1, RBetween, Zenon DEF BflushInactive, bufVars, fileVars, callVars, Reading
    <2>2. Position' = offset + icount
      BY <1>3, <2>1, Zenon DEF Position, Boffset
    <2> QED
      BY <1>3, <2>1, <2>2, FBetween, FNothing, Zenon
  <1>4. CASE UNCHANGED vars
    BY <1>4, Zenon DEF vars, bufVars, fileVars, callVars, strVars, userVars, F!vars, Position,
                Boffset, ROut
  <1>5. mode \in {"OREAD", "OWRITE"} /\ (Write => mode = "OWRITE")
    BY Zenon DEF Write, BputcBuffered, BputcFlush, Bwrite, BwriteCopy, BwriteFlush,
           BwriteEnd, Bflush, Bterm, BseekWrite, Writing, RInv, RTypes
  <1> QED
    BY <1>1, <1>2, <1>3, <1>4, <1>5, Zenon DEF Next

\* Binits leaves it at position 0.
LEMMA FInit == Init => F!Init /\ ROut
  <1> SUFFICES ASSUME Init PROVE F!Init /\ ROut
    OBVIOUS
  <1>1. Position = 0
    BY DEF Init, Position, Boffset
  <1>2. mode = "OREAD" => file \in [0 .. size - 1 -> Byte]
    <2> SUFFICES ASSUME mode = "OREAD" PROVE file \in [0 .. size - 1 -> Byte]
      OBVIOUS
    <2>1. file \in Files /\ size \in 0 .. MaxPos /\ DOMAIN file = 0 .. size - 1
      BY Zenon DEF Init
    <2>2. PICK n \in 0 .. MaxPos : file \in [0 .. n - 1 -> Byte]
      BY <2>1, FilesAssumption, Zenon
    <2> QED
      BY <2>1, <2>2, Zenon
  <1> QED
    BY <1>1, <1>2, EmptySeq, Zenon DEF Init, F!Init, ROut

\* libbio reads what an unbuffered file with a position would give: for every size of the
\* buffer and every file, each step of Bgetc, Bungetc, Bread, Brdline, Brdstr, Bflush and
\* Bseek is a step of BioFile, or one that it does not see.
THEOREM ReadsAsAFile == Spec => ReadsTheFile
  BY FInit, RInit, RNext, FNext, PTL DEF Spec, ReadsTheFile, F!Spec

=============================================================================
