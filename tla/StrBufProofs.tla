---------------------------- MODULE StrBufProofs ----------------------------
(***************************************************************************)
(* Every block has one owner, what is written fits into it, and behind     *)
(* every string is a NUL: for any number of buffers, chunks and blocks,    *)
(* any width of integers and any texts that a buffer can still take.       *)
(***************************************************************************)
EXTENDS StrBuf, TLAPS

Bytes == Seq(Nat)
Loops == {"normalize", "unescape"}

TypeInv ==
  /\ room \in [Blocks -> Nat] /\ bytes \in [Blocks -> Bytes]
  /\ buf \in [Bufs -> [ptr : Blocks \cup {Initbuf}, asize : Nat, size : Nat]]
  /\ chunk \in [Chunks -> [data : Blocks \cup {None, Static}, len : Nat, alloc : BOOLEAN,
                           fixed : Bytes]]
  /\ job \in [b : Bufs \cup {None}, r : Nat, w : Nat, last : BOOLEAN]
\* A buffer points to its block, of the size it says and no larger than one can get, in
\* which its string and a NUL are.
BufInv ==
  \A b \in Bufs :
    /\ buf[b].asize <= NewSize(Half)
    /\ buf[b].asize = 0 => buf[b].ptr = Initbuf /\ buf[b].size = 0
    /\ buf[b].asize > 0 => /\ buf[b].ptr \in Blocks /\ room[buf[b].ptr] = buf[b].asize
                           /\ buf[b].size < buf[b].asize
                           /\ bytes[buf[b].ptr] = <<>> => buf[b].size = 0
                           /\ bytes[buf[b].ptr] # <<>> =>
                                /\ buf[b].size < Len(bytes[buf[b].ptr])
                                /\ bytes[buf[b].ptr][buf[b].size + 1] = Nul
ChunkInv ==
  \A c \in Chunks : chunk[c].alloc =>
    /\ chunk[c].data \in Blocks /\ chunk[c].len < room[chunk[c].data]
    /\ chunk[c].len < Len(bytes[chunk[c].data])
    /\ bytes[chunk[c].data][chunk[c].len + 1] = Nul
\* A loop writes behind what it reads, in a string that is there.
JobInv ==
  pc \in Loops => job.b \in Bufs /\ job.w <= job.r /\ job.r <= buf[job.b].size
IInv == /\ TypeInv /\ BufInv /\ ChunkInv /\ JobInv /\ OneOwner
        /\ \A a \in Blocks : Len(bytes[a]) <= room[a]

LEMMA Sizes ==
  /\ Half \in Nat /\ NewSize(Half) \in Nat /\ NewSize(Half) <= MaxInt
  /\ \A t \in Nat : t <= Half =>
       NewSize(t) \in Nat /\ NewSize(t) > t /\ NewSize(t) <= NewSize(Half)
<1> DEFINE M == MaxInt
<1>1. Half \in Nat /\ 2 * Half <= M /\ M <= 2 * Half + 1
  BY SizeAssumption, SMT DEF Half
<1>2. \A t \in Nat : t <= Half => t + t \div 2 + 8 <= M
  BY <1>1, SizeAssumption, SMT
<1>3. \A t \in Nat : t <= Half => NewSize(t) = ((t + t \div 2 + 8) \div 8) * 8
  BY <1>1, <1>2, SizeAssumption, SMT DEF NewSize, Wrap
<1>4. \A t \in Nat : ((t + t \div 2 + 8) \div 8) * 8 > t
  BY SMT
<1>5. \A t, u \in Nat : t <= u => ((t + t \div 2 + 8) \div 8) * 8 <= ((u + u \div 2 + 8) \div 8) * 8
  BY SMT
<1>6. \A t \in Nat : ((t + t \div 2 + 8) \div 8) * 8 <= t + t \div 2 + 8 /\ ((t + t \div 2 + 8) \div 8) * 8 \in Nat
  BY SMT
<1> QED
  BY <1>1, <1>2, <1>3, <1>4, <1>5, <1>6, SizeAssumption, SMT

LEMMA Start == Init => IInv
<1> SUFFICES ASSUME Init PROVE IInv
  OBVIOUS
<1>1. TypeInv
  BY DEF Init, TypeInv, Empty, NoText, Idle, Bytes
<1>2. BufInv /\ ChunkInv /\ JobInv
  BY Sizes DEF Init, BufInv, ChunkInv, JobInv, Empty, NoText, Loops
<1>3. OneOwner
  BY DEF Init, OneOwner, Holds, Owned, Empty, NoText
<1> QED
  BY <1>1, <1>2, <1>3 DEF IInv, Init

LEMMA TextType == \A s \in Texts : s \in Bytes /\ Len(s) <= MaxInt - NewSize(Half) + 1
BY TextsAssumption DEF Bytes

LEMMA NulAppended ==
  ASSUME NEW s \in Bytes
  PROVE  s \o <<Nul>> \in Bytes /\ Len(s \o <<Nul>>) = Len(s) + 1
         /\ (s \o <<Nul>>)[Len(s) + 1] = Nul /\ s \o <<Nul>> # <<>>
BY DEF Bytes, Nul

LEMMA Updated ==
  ASSUME NEW s \in Seq(Nat), NEW k \in 1 .. Len(s), NEW x \in Nat,
         NEW t, t = [s EXCEPT ![k] = x]
  PROVE  t \in Seq(Nat) /\ Len(t) = Len(s) /\ t # <<>>
         /\ \A j \in 1 .. Len(s) : j # k => t[j] = s[j]
<1>1. Len(s) \in Nat /\ DOMAIN s = 1 .. Len(s) /\ \A j \in 1 .. Len(s) : s[j] \in Nat
  OBVIOUS
<1>2. DOMAIN t = 1 .. Len(s) /\ \A j \in 1 .. Len(s) : t[j] = IF j = k THEN x ELSE s[j]
  BY <1>1
<1>3. t = [j \in 1 .. Len(s) |-> IF j = k THEN x ELSE s[j]]
  BY <1>1
<1>4. t \in Seq(Nat) /\ Len(t) = Len(s)
  BY <1>1, <1>3
<1> QED
  BY <1>1, <1>2, <1>4

LEMMA Prefix ==
  ASSUME NEW s \in Seq(Nat), NEW n \in Nat, n <= Len(s)
  PROVE  SubSeq(s, 1, n) \in Seq(Nat) /\ Len(SubSeq(s, 1, n)) = n
OBVIOUS

LEMMA Element == ASSUME NEW s \in Seq(Nat), NEW n \in 1 .. Len(s) PROVE s[n] \in Nat
OBVIOUS

LEMMA ContentsType ==
  ASSUME TypeInv, BufInv, NEW b \in Bufs
  PROVE  Contents(b) \in Bytes /\ Len(Contents(b)) = buf[b].size
<1>1. CASE buf[b].size = 0
  BY <1>1 DEF Contents, Bytes, TypeInv
<1>2. CASE buf[b].size # 0
  <2>1. buf[b].asize > 0 /\ buf[b].ptr \in Blocks /\ buf[b].size \in Nat
        /\ buf[b].size < Len(bytes[buf[b].ptr]) /\ bytes[buf[b].ptr] \in Seq(Nat)
    BY <1>2 DEF TypeInv, BufInv, Bytes
  <2> QED
    BY <1>2, <2>1 DEF Contents, Bytes
<1> QED
  BY <1>1, <1>2

\* A string and its NUL written to a buffer
Ended(s, n) == s \in Bytes /\ n \in Nat /\ Len(s) = n + 1 /\ s[n + 1] = Nul

\* A write that stays within the block
LEMMA Within ==
  ASSUME IInv, NEW b \in Bufs, NEW s \in Bytes, NEW n \in Nat,
         n < buf[b].asize \/ (n = 0 /\ buf[b].asize = 0),
         buf[b].asize > 0 => Ended(s, n) \/ (s = bytes[buf[b].ptr] /\ n = buf[b].size),
         buf' = [buf EXCEPT ![b].size = n],
         bytes' = IF buf[b].asize = 0 THEN bytes ELSE [bytes EXCEPT ![buf[b].ptr] = s],
         UNCHANGED <<room, chunk>>, pc' \notin Loops,
         job' \in [b : Bufs \cup {None}, r : Nat, w : Nat, last : BOOLEAN]
  PROVE  IInv'
<1>1. \A d \in Bufs : buf'[d].ptr = buf[d].ptr /\ buf'[d].asize = buf[d].asize
        /\ buf'[d].size = IF d = b THEN n ELSE buf[d].size
  BY DEF IInv, TypeInv
<1>2. TypeInv'
  <2>1. bytes' \in [Blocks -> Bytes]
    BY DEF IInv, TypeInv, BufInv
  <2>2. buf' \in [Bufs -> [ptr : Blocks \cup {Initbuf}, asize : Nat, size : Nat]]
    BY DEF IInv, TypeInv
  <2> QED
    BY <2>1, <2>2 DEF IInv, TypeInv
<1>3. OneOwner'
  <2>1. \A d \in Bufs : Holds(d)' = Holds(d)
    BY <1>1 DEF Holds
  <2>2. \A c \in Chunks : Owned(c)' = Owned(c)
    BY DEF Owned
  <2> QED
    BY <2>1, <2>2 DEF IInv, OneOwner
<1>4. \A d \in Bufs : d # b /\ buf[d].asize > 0 /\ buf[b].asize > 0 => buf[d].ptr # buf[b].ptr
  BY DEF IInv, OneOwner, Holds
<1>5. \A c \in Chunks : chunk[c].alloc /\ buf[b].asize > 0 => chunk[c].data # buf[b].ptr
  BY DEF IInv, OneOwner, Holds, Owned
<1>6. \A a \in Blocks : bytes'[a] = IF buf[b].asize > 0 /\ a = buf[b].ptr THEN s ELSE bytes[a]
  BY DEF IInv, TypeInv, BufInv
<1>7. ChunkInv'
  BY <1>5, <1>6 DEF IInv, ChunkInv
<1>8. BufInv'
  <2> SUFFICES ASSUME NEW d \in Bufs, buf[d].asize > 0
               PROVE  /\ buf'[d].size < buf'[d].asize
                      /\ bytes'[buf[d].ptr] = <<>> => buf'[d].size = 0
                      /\ bytes'[buf[d].ptr] # <<>> =>
                           /\ buf'[d].size < Len(bytes'[buf[d].ptr])
                           /\ bytes'[buf[d].ptr][buf'[d].size + 1] = Nul
    BY <1>1 DEF IInv, BufInv, TypeInv
  <2>1. CASE d = b
    BY <2>1, <1>1, <1>6 DEF IInv, BufInv, Ended, Bytes
  <2>2. CASE d # b
    <3>1. bytes'[buf[d].ptr] = bytes[buf[d].ptr] /\ buf'[d].size = buf[d].size
      BY <2>2, <1>1, <1>4, <1>6 DEF IInv, BufInv
    <3> QED
      BY <3>1, <1>1 DEF IInv, BufInv
  <2> QED
    BY <2>1, <2>2
<1>9. \A a \in Blocks : Len(bytes'[a]) <= room'[a]
  BY <1>6 DEF IInv, BufInv, Ended, Bytes, TypeInv
<1> QED
  BY <1>2, <1>3, <1>7, <1>8, <1>9 DEF IInv, JobInv

\* A block a that was free or is b's own becomes b's, and holds what is written.
LEMMA Moved ==
  ASSUME IInv, NEW b \in Bufs, NEW a \in Free \cup Holds(b), NEW m \in Nat, NEW n \in Nat,
         NEW s \in Bytes, n < m, m <= NewSize(Half), Len(s) <= m,
         Ended(s, n) \/ (s = Written(b) /\ n = buf[b].size),
         room'  = [x \in Blocks |-> IF x = a THEN m ELSE IF x \in Holds(b) THEN 0 ELSE room[x]],
         bytes' = [x \in Blocks |-> IF x = a THEN s ELSE IF x \in Holds(b) THEN <<>> ELSE bytes[x]],
         buf'   = [buf EXCEPT ![b] = [ptr |-> a, asize |-> m, size |-> n]],
         UNCHANGED <<chunk, job, pc>>, pc \notin Loops
  PROVE  IInv'
<1>1. a \in Blocks
  BY DEF Free, Holds, IInv, BufInv
<1>2. TypeInv'
  <2>1. bytes' \in [Blocks -> Bytes] /\ room' \in [Blocks -> Nat]
    BY DEF IInv, TypeInv, Bytes
  <2>2. buf' \in [Bufs -> [ptr : Blocks \cup {Initbuf}, asize : Nat, size : Nat]]
    BY <1>1 DEF IInv, TypeInv
  <2> QED
    BY <2>1, <2>2 DEF IInv, TypeInv
<1>3. Holds(b)' = {a} /\ \A d \in Bufs \ {b} : Holds(d)' = Holds(d) /\ buf'[d] = buf[d]
  BY DEF Holds, IInv, TypeInv
<1>4. \A c \in Chunks : Owned(c)' = Owned(c)
  BY DEF Owned
\* Nobody else has a, or what b had.
<1>5. \A d \in Bufs \ {b} : a \notin Holds(d) /\ Holds(d) \cap Holds(b) = {}
  BY <1>1 DEF IInv, OneOwner, Free
<1>6. \A c \in Chunks : a \notin Owned(c) /\ Owned(c) \cap Holds(b) = {}
  BY <1>1 DEF IInv, OneOwner, Free
<1>7. OneOwner'
  <2>1. \A x \in Blocks : room'[x] > 0 <=>
          (\E d \in Bufs : x \in Holds(d)') \/ (\E c \in Chunks : x \in Owned(c)')
    <3> SUFFICES ASSUME NEW x \in Blocks
                 PROVE room'[x] > 0 <=>
                   (\E d \in Bufs : x \in Holds(d)') \/ (\E c \in Chunks : x \in Owned(c)')
      OBVIOUS
    <3>1. room[x] > 0 <=> (\E d \in Bufs : x \in Holds(d)) \/ (\E c \in Chunks : x \in Owned(c))
      BY DEF IInv, OneOwner
    <3>2. CASE x = a
      BY <3>2, <1>3
    <3>3. CASE x # a /\ x \in Holds(b)
      BY <3>3, <1>3, <1>4, <1>5, <1>6
    <3>4. CASE x # a /\ x \notin Holds(b)
      BY <3>1, <3>4, <1>3, <1>4
    <3> QED
      BY <3>2, <3>3, <3>4
  <2>2. \A d, e \in Bufs : Holds(d)' \cap Holds(e)' # {} => d = e
    BY <1>3, <1>5 DEF IInv, OneOwner
  <2>3. \A c, d \in Chunks : Owned(c)' \cap Owned(d)' # {} => c = d
    BY <1>4 DEF IInv, OneOwner
  <2>4. \A d \in Bufs, c \in Chunks : Holds(d)' \cap Owned(c)' = {}
    BY <1>3, <1>4, <1>6 DEF IInv, OneOwner
  <2> QED
    BY <2>1, <2>2, <2>3, <2>4 DEF OneOwner
<1>8. ChunkInv'
  <2> SUFFICES ASSUME NEW c \in Chunks, chunk[c].alloc
               PROVE  room'[chunk[c].data] = room[chunk[c].data]
                      /\ bytes'[chunk[c].data] = bytes[chunk[c].data]
    BY DEF IInv, ChunkInv
  <2>1. chunk[c].data \in Owned(c) /\ chunk[c].data \in Blocks
    BY DEF Owned, IInv, ChunkInv
  <2> QED
    BY <2>1, <1>6
<1>9. BufInv'
  <2>1. ASSUME NEW d \in Bufs, d # b, buf[d].asize > 0
        PROVE  room'[buf[d].ptr] = room[buf[d].ptr] /\ bytes'[buf[d].ptr] = bytes[buf[d].ptr]
    <3>1. buf[d].ptr \in Holds(d) /\ buf[d].ptr \in Blocks
      BY <2>1 DEF Holds, IInv, BufInv
    <3> QED
      BY <2>1, <3>1, <1>5
  <2>2. buf'[b] = [ptr |-> a, asize |-> m, size |-> n] /\ bytes'[a] = s /\ room'[a] = m
    BY <1>1 DEF IInv, TypeInv
  <2>3. /\ s = <<>> => n = 0
        /\ s # <<>> => n < Len(s) /\ s[n + 1] = Nul
    <3>1. CASE Ended(s, n)
      BY <3>1 DEF Ended, Bytes
    <3>2. CASE s = Written(b) /\ n = buf[b].size /\ buf[b].asize = 0
      BY <3>2 DEF Written, IInv, BufInv
    <3>3. CASE s = Written(b) /\ n = buf[b].size /\ buf[b].asize # 0
      <4>1. buf[b].asize > 0
        BY <3>3 DEF IInv, TypeInv
      <4> QED
        BY <3>3, <4>1 DEF Written, IInv, BufInv
    <3> QED
      BY <3>1, <3>2, <3>3
  <2>4. ASSUME NEW d \in Bufs
        PROVE /\ buf'[d].asize <= NewSize(Half)
              /\ buf'[d].asize = 0 => buf'[d].ptr = Initbuf /\ buf'[d].size = 0
              /\ buf'[d].asize > 0 =>
                   /\ buf'[d].ptr \in Blocks /\ room'[buf'[d].ptr] = buf'[d].asize
                   /\ buf'[d].size < buf'[d].asize
                   /\ bytes'[buf'[d].ptr] = <<>> => buf'[d].size = 0
                   /\ bytes'[buf'[d].ptr] # <<>> =>
                        /\ buf'[d].size < Len(bytes'[buf'[d].ptr])
                        /\ bytes'[buf'[d].ptr][buf'[d].size + 1] = Nul
    <3>1. CASE d = b
      BY <3>1, <2>2, <2>3, <1>1
    <3>2. CASE d # b
      BY <3>2, <2>1, <1>3 DEF IInv, BufInv, TypeInv
    <3> QED
      BY <3>1, <3>2
  <2> QED
    BY <2>4 DEF BufInv
<1>10. \A x \in Blocks : Len(bytes'[x]) <= room'[x]
  BY DEF IInv, TypeInv
<1> QED
  BY <1>2, <1>7, <1>8, <1>9, <1>10 DEF IInv, JobInv

LEMMA Growing ==
  ASSUME IInv, NEW b \in Bufs, NEW t \in Nat, t > 0, NEW n \in Nat, NEW s \in Bytes, NEW f,
         (Ended(s, n) /\ n <= t) \/ (s = Written(b) /\ n = buf[b].size),
         pc = "idle", GrowAndWrite(f, b, t, s, n)
  PROVE  IInv'
<1>1. buf[b].asize \in Nat /\ buf[b].size \in Nat
  BY DEF IInv, TypeInv
<1>2. job \in [b : Bufs \cup {None}, r : Nat, w : Nat, last : BOOLEAN] /\ pc \notin Loops
  BY DEF IInv, TypeInv, Loops
<1>3. ASSUME Fits(t, buf[b].asize), UNCHANGED <<room, chunk, job, pc>>,
             buf' = [buf EXCEPT ![b].size = n],
             bytes' = IF buf[b].asize = 0 THEN bytes ELSE [bytes EXCEPT ![buf[b].ptr] = s]
      PROVE  IInv'
  <2>1. t < buf[b].asize
    BY <1>3 DEF Fits
  <2>2. n < buf[b].asize
    BY <1>1, <2>1 DEF IInv, BufInv
  <2>3. Ended(s, n) \/ (s = bytes[buf[b].ptr] /\ n = buf[b].size)
    BY <1>1, <2>1 DEF Written
  <2> QED
    BY <1>2, <1>3, <2>2, <2>3, Within
<1>4. ASSUME Abort PROVE IInv'
  <2>1. UNCHANGED <<room, bytes, buf, chunk, job>> /\ pc' \notin Loops
    BY <1>4 DEF Abort, Loops
  <2> QED
    BY <2>1 DEF IInv, TypeInv, BufInv, ChunkInv, JobInv, OneOwner, Holds, Owned
<1>5. ASSUME ~Fits(t, buf[b].asize), ~TooMuch(t), UNCHANGED <<chunk, job, pc>>,
             NEW a \in Free \cup Holds(b),
             room'  = [x \in Blocks |-> IF x = a THEN NewSize(t)
                                        ELSE IF x \in Holds(b) THEN 0 ELSE room[x]],
             bytes' = [x \in Blocks |-> IF x = a THEN s
                                        ELSE IF x \in Holds(b) THEN <<>> ELSE bytes[x]],
             buf'   = [buf EXCEPT ![b] = [ptr |-> a, asize |-> NewSize(t), size |-> n]]
      PROVE  IInv'
  <2>1. buf[b].asize <= t /\ t <= Half
    BY <1>1, <1>5, Sizes DEF Fits, TooMuch
  <2>2. NewSize(t) \in Nat /\ NewSize(t) > t /\ NewSize(t) <= NewSize(Half)
    BY <2>1, Sizes
  <2>3. n < NewSize(t)
    BY <1>1, <2>1, <2>2 DEF IInv, BufInv
  <2>4. Len(s) <= NewSize(t)
    <3>1. CASE Ended(s, n) /\ n <= t
      BY <2>2, <3>1 DEF Ended
    <3>2. CASE s = Written(b) /\ buf[b].asize = 0
      BY <2>2, <3>2 DEF Written
    <3>3. CASE s = Written(b) /\ buf[b].asize > 0
      <4>1. Len(s) <= buf[b].asize /\ Len(s) \in Nat
        BY <3>3 DEF Written, IInv, BufInv, Bytes
      <4> QED
        BY <4>1, <1>1, <2>1, <2>2
    <3> QED
      BY <3>1, <3>2, <3>3, <1>1
  <2>5. Ended(s, n) \/ (s = Written(b) /\ n = buf[b].size)
    OBVIOUS
  <2> QED
    BY <1>2, <1>5, <2>2, <2>3, <2>4, <2>5, Moved
<1> QED
  BY <1>3, <1>4, <1>5 DEF GrowAndWrite

\* A string that is no longer than the one before it
LEMMA Rewriting ==
  ASSUME IInv, NEW b \in Bufs, NEW s \in Bytes, Len(s) <= buf[b].size, NEW f, Rewrite(f, b, s)
  PROVE  IInv'
<1>1. buf[b].asize \in Nat /\ buf[b].size \in Nat /\ Len(s) \in Nat
  BY DEF IInv, TypeInv, Bytes
<1>2. job' \in [b : Bufs \cup {None}, r : Nat, w : Nat, last : BOOLEAN] /\ pc' \notin Loops
  BY DEF IInv, TypeInv, Loops, Rewrite, Called
<1>3. Len(s) < buf[b].asize \/ (Len(s) = 0 /\ buf[b].asize = 0)
  BY <1>1 DEF IInv, BufInv
<1>4. s \o <<Nul>> \in Bytes /\ Ended(s \o <<Nul>>, Len(s))
  BY <1>1, NulAppended DEF Ended
<1> QED
  BY <1>1, <1>2, <1>3, <1>4, Within DEF Rewrite

LEMMA Leaving == ASSUME IInv, NEW f, Leave(f) PROVE IInv'
BY DEF Leave, Called, IInv, TypeInv, BufInv, ChunkInv, JobInv, OneOwner, Holds, Owned

LEMMA Parts ==
  ASSUME NEW s \in Bytes, NEW m \in 0 .. Len(s), NEW n \in 0 .. Len(s)
  PROVE  SubSeq(s, m + 1, n) \in Bytes /\ Len(SubSeq(s, m + 1, n)) = (IF m <= n THEN n - m ELSE 0)
BY DEF Bytes

LEMMA PlaceOfNul ==
  ASSUME NEW w \in Nat, NEW r \in Nat, NEW n \in Nat, NEW m \in Nat, w <= r, r < n, n < m
  PROVE  n + 1 \in 1 .. m /\ n + 1 # w + 1
OBVIOUS

\* A turn of a loop that writes a byte: it is before the NUL, and not behind what was read.
LEMMA Copying ==
  ASSUME IInv, NEW f \in Loops, Turn(f), NEW x \in Nat, NEW r \in Nat, NEW l \in BOOLEAN,
         job.r < r, r <= buf[job.b].size, Copy(x, r, l)
  PROVE  IInv'
<1> DEFINE b == job.b
           p == buf[b].ptr
<1>1. b \in Bufs /\ job.w \in Nat /\ job.r \in Nat /\ job.w <= job.r /\ job.r < buf[b].size
  BY DEF Turn, Loops, IInv, JobInv, TypeInv
<1>2. buf[b].size \in Nat /\ buf[b].asize > 0 /\ p \in Blocks
      /\ bytes[p] \in Seq(Nat) /\ Len(bytes[p]) \in Nat
      /\ buf[b].size < Len(bytes[p]) /\ bytes[p][buf[b].size + 1] = Nul
  BY <1>1 DEF IInv, TypeInv, BufInv, Bytes
<1>3. bytes' = [bytes EXCEPT ![p] = [bytes[p] EXCEPT ![job.w + 1] = x]]
  BY DEF Copy
<1>4. bytes'[p] = [bytes[p] EXCEPT ![job.w + 1] = x] /\ \A a \in Blocks \ {p} : bytes'[a] = bytes[a]
  BY <1>2, <1>3 DEF IInv, TypeInv
<1>5. bytes'[p] \in Bytes /\ Len(bytes'[p]) = Len(bytes[p]) /\ bytes'[p] # <<>>
      /\ \A k \in 1 .. Len(bytes[p]) : k # job.w + 1 => bytes'[p][k] = bytes[p][k]
  <2> HIDE DEF p, b
  <2>1. job.w + 1 \in 1 .. Len(bytes[p])
    BY <1>1, <1>2
  <2> QED
    BY <1>2, <1>4, <2>1, Updated DEF Bytes
<1>6. bytes' \in [Blocks -> Bytes]
  BY <1>2, <1>3, <1>4, <1>5 DEF IInv, TypeInv
<1>7. UNCHANGED <<room, buf, chunk, pc>>
  BY DEF Copy
<1>8. job' = [b |-> b, r |-> r, w |-> job.w + 1, last |-> l]
  BY DEF Copy
<1>9. TypeInv' /\ JobInv'
  <2>2. job'.b = b /\ job'.r = r /\ job'.w = job.w + 1
        /\ job' \in [b : Bufs \cup {None}, r : Nat, w : Nat, last : BOOLEAN]
    BY <1>1, <1>8
  <2>3. TypeInv'
    BY <1>6, <1>7, <2>2 DEF IInv, TypeInv
  <2>4. JobInv'
    BY <1>1, <1>2, <1>7, <2>2 DEF JobInv
  <2> QED
    BY <2>3, <2>4
<1>10. OneOwner'
  BY <1>7 DEF IInv, OneOwner, Holds, Owned
<1>11. ChunkInv'
  <2> SUFFICES ASSUME NEW c \in Chunks, chunk[c].alloc
               PROVE  bytes'[chunk[c].data] = bytes[chunk[c].data]
    BY <1>7 DEF IInv, ChunkInv
  <2>1. chunk[c].data \in Blocks /\ chunk[c].data # p
    BY <1>1, <1>2 DEF IInv, ChunkInv, OneOwner, Holds, Owned
  <2> QED
    BY <2>1, <1>4
<1>12. BufInv'
  <2>1. ASSUME NEW d \in Bufs, d # b, buf[d].asize > 0
        PROVE  bytes'[buf[d].ptr] = bytes[buf[d].ptr]
    <3>1. buf[d].ptr \in Blocks /\ buf[d].ptr # p
      BY <1>1, <1>2, <2>1 DEF IInv, BufInv, OneOwner, Holds
    <3> QED
      BY <3>1, <1>4
  <2>2. bytes'[p][buf[b].size + 1] = Nul /\ buf[b].size < Len(bytes'[p])
    <3> HIDE DEF p, b
    <3>1. buf[b].size + 1 \in 1 .. Len(bytes[p]) /\ buf[b].size + 1 # job.w + 1
      BY <1>1, <1>2, PlaceOfNul
    <3> QED
      BY <1>2, <1>5, <3>1
  <2> QED
    BY <1>5, <1>7, <2>1, <2>2 DEF IInv, BufInv
<1> QED
  BY <1>4, <1>5, <1>6, <1>7, <1>9, <1>10, <1>11, <1>12, <1>2 DEF IInv

\* The bytes that a turn reads are those of the string, and the NUL.
LEMMA Reading ==
  ASSUME IInv, NEW f \in Loops, Turn(f)
  PROVE  /\ job.r \in Nat /\ buf[job.b].size \in Nat
         /\ \A n \in Nat : n <= buf[job.b].size => At(n) \in Nat
         /\ At(buf[job.b].size) = Nul
<1> DEFINE b == job.b
<1>1. b \in Bufs /\ job.r \in Nat /\ job.r < buf[b].size
  BY DEF Turn, Loops, IInv, JobInv, TypeInv
<1>2. buf[b].size \in Nat /\ buf[b].asize > 0 /\ buf[b].ptr \in Blocks
      /\ bytes[buf[b].ptr] \in Seq(Nat)
      /\ buf[b].size < Len(bytes[buf[b].ptr]) /\ bytes[buf[b].ptr][buf[b].size + 1] = Nul
  BY <1>1 DEF IInv, TypeInv, BufInv, Bytes
<1>3. ASSUME NEW n \in Nat, n <= buf[b].size
      PROVE  n + 1 \in 1 .. Len(bytes[buf[b].ptr])
  BY <1>2, <1>3
<1>4. \A n \in Nat : n <= buf[b].size => At(n) \in Nat
  BY <1>2, <1>3, Element DEF At
<1> QED
  BY <1>1, <1>2, <1>4 DEF At

LEMMA NormalizeStep == IInv /\ NormalizeTurn => IInv'
<1> SUFFICES ASSUME IInv, NormalizeTurn PROVE IInv'
  OBVIOUS
<1>1. Turn("normalize") /\ "normalize" \in Loops
  BY DEF NormalizeTurn, Loops
<1>2. job.r < buf[job.b].size /\ job.r \in Nat /\ buf[job.b].size \in Nat /\ At(job.r) \in Nat
  BY <1>1, Reading DEF Turn
<1>3. job.r + 1 \in Nat /\ job.r < job.r + 1 /\ job.r + 1 <= buf[job.b].size
  BY <1>2
<1>4. CASE Copy(At(job.r), job.r + 1, FALSE) \/ Copy(Space, job.r + 1, TRUE)
  BY <1>1, <1>2, <1>3, <1>4, Copying, BytesAssumption
<1>5. CASE Skip
  <2>1. UNCHANGED <<room, bytes, buf, chunk, pc>> /\ job' = [job EXCEPT !.r = job.r + 1]
    BY <1>5 DEF Skip
  <2>2. TypeInv' /\ JobInv'
    <3>1. job \in [b : Bufs \cup {None}, r : Nat, w : Nat, last : BOOLEAN]
      BY DEF IInv, TypeInv
    <3>2. job'.b = job.b /\ job'.r = job.r + 1 /\ job'.w = job.w
          /\ job' \in [b : Bufs \cup {None}, r : Nat, w : Nat, last : BOOLEAN]
      BY <1>3, <2>1, <3>1
    <3>3. pc \in Loops
      BY <1>1 DEF Turn
    <3>4. job.b \in Bufs /\ job.w <= job.r
      BY <3>3 DEF IInv, JobInv
    <3>5. TypeInv'
      BY <2>1, <3>2 DEF IInv, TypeInv
    <3>6. JobInv'
      BY <1>3, <2>1, <3>1, <3>2, <3>4 DEF JobInv
    <3> QED
      BY <3>5, <3>6
  <2> QED
    BY <2>1, <2>2 DEF IInv, BufInv, ChunkInv, OneOwner, Holds, Owned
<1> QED
  BY <1>4, <1>5 DEF NormalizeTurn

LEMMA UnescapeStep == IInv /\ UnescapeTurn => IInv'
<1> SUFFICES ASSUME IInv, UnescapeTurn PROVE IInv'
  OBVIOUS
<1>1. Turn("unescape") /\ "unescape" \in Loops
  BY DEF UnescapeTurn, Loops
<1>2. job.r < buf[job.b].size /\ job.r \in Nat /\ buf[job.b].size \in Nat
  BY <1>1, Reading DEF Turn
<1>3. At(buf[job.b].size) = Nul /\ ~IsPunct(Nul)
  BY <1>1, Reading, BytesAssumption DEF IsPunct
<1> DEFINE r == IF At(job.r) = Backslash /\ IsPunct(At(job.r + 1)) THEN job.r + 1 ELSE job.r
<1>4. Copy(At(r), r + 1, FALSE)
  BY DEF UnescapeTurn
<1>5. r \in Nat /\ r < buf[job.b].size /\ job.r <= r
  BY <1>2, <1>3
<1>6. At(r) \in Nat
  BY <1>1, <1>5, Reading
<1>7. r + 1 \in Nat /\ job.r < r + 1 /\ r + 1 <= buf[job.b].size
  BY <1>2, <1>5
<1> HIDE DEF r
<1> QED
  BY <1>1, <1>4, <1>6, <1>7, Copying

LEMMA EndStep == IInv /\ End => IInv'
<1> SUFFICES ASSUME IInv, End PROVE IInv'
  OBVIOUS
<1> DEFINE b == job.b
           s == IF job.w < buf[b].size THEN SubSeq(bytes[buf[b].ptr], 1, job.w) \o <<Nul>>
                ELSE IF buf[b].asize = 0 THEN <<>> ELSE bytes[buf[b].ptr]
<1>1. b \in Bufs /\ job.w \in Nat /\ buf[b].size \in Nat /\ job.w <= buf[b].size
      /\ buf[b].asize \in Nat
  BY DEF End, IInv, TypeInv, JobInv, Loops
<1>2. job.w < buf[b].asize \/ (job.w = 0 /\ buf[b].asize = 0)
  BY <1>1 DEF IInv, BufInv
<1>3. job' \in [b : Bufs \cup {None}, r : Nat, w : Nat, last : BOOLEAN] /\ pc' \notin Loops
  BY DEF End, Idle, Loops
<1>4. ASSUME buf[b].asize > 0 PROVE buf[b].ptr \in Blocks /\ bytes[buf[b].ptr] \in Seq(Nat)
  BY <1>1, <1>4 DEF IInv, TypeInv, BufInv, Bytes
<1>5. CASE job.w < buf[b].size
  <2>1. buf[b].asize > 0 /\ buf[b].size < Len(bytes[buf[b].ptr])
    BY <1>1, <1>5 DEF IInv, BufInv
  <2>2. SubSeq(bytes[buf[b].ptr], 1, job.w) \in Bytes
        /\ Len(SubSeq(bytes[buf[b].ptr], 1, job.w)) = job.w
    <3>1. job.w <= Len(bytes[buf[b].ptr])
      BY <1>1, <1>4, <1>5, <2>1
    <3> QED
      BY <1>1, <1>4, <2>1, <3>1, Prefix DEF Bytes
  <2>3. s \in Bytes /\ Ended(s, job.w)
    BY <1>1, <1>5, <2>2, NulAppended DEF Ended
  <2>4. bytes' = IF buf[b].asize = 0 THEN bytes ELSE [bytes EXCEPT ![buf[b].ptr] = s]
    BY <1>5, <2>1 DEF End
  <2>5. buf' = [buf EXCEPT ![b].size = job.w] /\ UNCHANGED <<room, chunk>>
    BY DEF End
  <2> HIDE DEF s
  <2> QED
    BY <1>1, <1>2, <1>3, <2>1, <2>3, <2>4, <2>5, Within
<1>6. CASE job.w = buf[b].size
  <2>1. s \in Bytes /\ bytes' = IF buf[b].asize = 0 THEN bytes ELSE [bytes EXCEPT ![buf[b].ptr] = s]
    <3>1. bytes' = bytes
      BY <1>1, <1>6 DEF End
    <3>2. s = IF buf[b].asize = 0 THEN <<>> ELSE bytes[buf[b].ptr]
      BY <1>1, <1>6
    <3> HIDE DEF s
    <3>3. s \in Bytes
      <4>1. CASE buf[b].asize = 0
        BY <3>2, <4>1 DEF Bytes
      <4>2. CASE buf[b].asize > 0
        BY <1>4, <3>2, <4>2 DEF Bytes
      <4> QED
        BY <1>1, <4>1, <4>2
    <3>4. bytes \in [Blocks -> Bytes]
      BY DEF IInv, TypeInv
    <3> QED
      BY <3>1, <3>2, <3>3, <3>4
  <2>2. buf[b].asize > 0 => s = bytes[buf[b].ptr]
    BY <1>1, <1>6
  <2>3. buf' = [buf EXCEPT ![b].size = job.w] /\ UNCHANGED <<room, chunk>>
    BY DEF End
  <2> HIDE DEF s
  <2> QED
    BY <1>1, <1>2, <1>3, <1>6, <2>1, <2>2, <2>3, Within
<1> QED
  BY <1>1, <1>5, <1>6

LEMMA SwapStep == ASSUME IInv, NEW a \in Bufs, NEW b \in Bufs, Swap(a, b) PROVE IInv'
<1>1. a # b /\ buf' = [buf EXCEPT ![a] = buf[b], ![b] = buf[a]]
      /\ UNCHANGED <<room, bytes, chunk, job, pc>> /\ pc \notin Loops
  BY DEF Swap, Called, Loops
<1>2. buf'[a] = buf[b] /\ buf'[b] = buf[a] /\ \A d \in Bufs \ {a, b} : buf'[d] = buf[d]
  BY <1>1 DEF IInv, TypeInv
<1>3. TypeInv'
  BY <1>1 DEF IInv, TypeInv
<1>4. BufInv'
  <2>1. \A d \in Bufs : \E e \in Bufs : buf'[d] = buf[e]
    BY <1>2
  <2>2. ASSUME NEW d \in Bufs
        PROVE  /\ buf'[d].asize <= NewSize(Half)
               /\ buf'[d].asize = 0 => buf'[d].ptr = Initbuf /\ buf'[d].size = 0
               /\ buf'[d].asize > 0 =>
                    /\ buf'[d].ptr \in Blocks /\ room[buf'[d].ptr] = buf'[d].asize
                    /\ buf'[d].size < buf'[d].asize
                    /\ bytes[buf'[d].ptr] = <<>> => buf'[d].size = 0
                    /\ bytes[buf'[d].ptr] # <<>> =>
                         /\ buf'[d].size < Len(bytes[buf'[d].ptr])
                         /\ bytes[buf'[d].ptr][buf'[d].size + 1] = Nul
    <3>1. PICK e \in Bufs : buf'[d] = buf[e]
      BY <2>1
    <3> QED
      BY <3>1 DEF IInv, BufInv
  <2> QED
    BY <1>1, <2>2 DEF BufInv
<1>5. Holds(a)' = Holds(b) /\ Holds(b)' = Holds(a)
      /\ \A d \in Bufs \ {a, b} : Holds(d)' = Holds(d)
  BY <1>2 DEF Holds
<1>6. \A c \in Chunks : Owned(c)' = Owned(c)
  BY <1>1 DEF Owned
<1>7. OneOwner'
  <2>1. \A x \in Blocks : room'[x] > 0 <=>
          (\E d \in Bufs : x \in Holds(d)') \/ (\E c \in Chunks : x \in Owned(c)')
    <3>1. \A x \in Blocks : (\E d \in Bufs : x \in Holds(d)') <=> (\E d \in Bufs : x \in Holds(d))
      BY <1>5
    <3> QED
      BY <3>1, <1>1, <1>6 DEF IInv, OneOwner
  <2>2. \A d, e \in Bufs : Holds(d)' \cap Holds(e)' # {} => d = e
    <3> SUFFICES ASSUME NEW d \in Bufs, NEW e \in Bufs, Holds(d)' \cap Holds(e)' # {}
                 PROVE  d = e
      OBVIOUS
    <3> DEFINE Was(x) == IF x = a THEN b ELSE IF x = b THEN a ELSE x
    <3>1. \A x \in Bufs : Was(x) \in Bufs /\ Holds(x)' = Holds(Was(x))
      BY <1>5
    <3>2. Was(d) = Was(e)
      BY <3>1 DEF IInv, OneOwner
    <3> QED
      BY <3>2, <1>1
  <2>3. \A c, d \in Chunks : Owned(c)' \cap Owned(d)' # {} => c = d
    BY <1>6 DEF IInv, OneOwner
  <2>4. \A d \in Bufs, c \in Chunks : Holds(d)' \cap Owned(c)' = {}
    BY <1>5, <1>6 DEF IInv, OneOwner
  <2> QED
    BY <2>1, <2>2, <2>3, <2>4 DEF OneOwner
<1> QED
  BY <1>1, <1>3, <1>4, <1>7 DEF IInv, ChunkInv, JobInv

\* A chunk gives back what it owns and becomes k, with a new block of size m or without.
Stored(c, A, m, t, k) ==
  /\ A \in SUBSET Free /\ m \in Nat /\ m > 0 /\ t \in Bytes /\ Len(t) <= m
  /\ k \in [data : Blocks \cup {None, Static}, len : Nat, alloc : BOOLEAN, fixed : Bytes]
  /\ k.alloc => A = {k.data} /\ k.len < Len(t) /\ t[k.len + 1] = Nul
  /\ ~k.alloc => A = {}
  /\ room'  = [x \in Blocks |-> IF x \in A THEN m ELSE IF x \in Owned(c) THEN 0 ELSE room[x]]
  /\ bytes' = [x \in Blocks |-> IF x \in A THEN t ELSE IF x \in Owned(c) THEN <<>> ELSE bytes[x]]
  /\ chunk' = [chunk EXCEPT ![c] = k]
  /\ UNCHANGED <<buf, job, pc>> /\ pc \notin Loops

LEMMA Storing ==
  ASSUME IInv, NEW c \in Chunks, NEW A, NEW m, NEW t, NEW k, Stored(c, A, m, t, k)
  PROVE  IInv'
<1> USE DEF Stored
<1>1. TypeInv'
  <2>1. bytes' \in [Blocks -> Bytes] /\ room' \in [Blocks -> Nat]
    BY DEF IInv, TypeInv, Bytes
  <2> QED
    BY <2>1 DEF IInv, TypeInv
<1>2. \A b \in Bufs : Holds(b)' = Holds(b)
  BY DEF Holds
<1>3. Owned(c)' = A /\ \A d \in Chunks \ {c} : Owned(d)' = Owned(d) /\ chunk'[d] = chunk[d]
  BY DEF Owned, IInv, TypeInv
<1>4. \A b \in Bufs : Holds(b) \cap A = {} /\ Holds(b) \cap Owned(c) = {}
  BY DEF IInv, OneOwner, Free
<1>5. \A d \in Chunks \ {c} : Owned(d) \cap A = {} /\ Owned(d) \cap Owned(c) = {}
  BY DEF IInv, OneOwner, Free
<1>6. OneOwner'
  <2>1. \A x \in Blocks : room'[x] > 0 <=>
          (\E b \in Bufs : x \in Holds(b)') \/ (\E d \in Chunks : x \in Owned(d)')
    <3> SUFFICES ASSUME NEW x \in Blocks
                 PROVE room'[x] > 0 <=>
                   (\E b \in Bufs : x \in Holds(b)') \/ (\E d \in Chunks : x \in Owned(d)')
      OBVIOUS
    <3>1. room[x] > 0 <=> (\E b \in Bufs : x \in Holds(b)) \/ (\E d \in Chunks : x \in Owned(d))
      BY DEF IInv, OneOwner
    <3>2. CASE x \in A
      BY <3>2, <1>3
    <3>3. CASE x \notin A /\ x \in Owned(c)
      BY <3>3, <1>2, <1>3, <1>4, <1>5
    <3>4. CASE x \notin A /\ x \notin Owned(c)
      BY <3>1, <3>4, <1>2, <1>3
    <3> QED
      BY <3>2, <3>3, <3>4
  <2>2. \A b, d \in Bufs : Holds(b)' \cap Holds(d)' # {} => b = d
    BY <1>2 DEF IInv, OneOwner
  <2>3. \A d, e \in Chunks : Owned(d)' \cap Owned(e)' # {} => d = e
    BY <1>3, <1>5 DEF IInv, OneOwner
  <2>4. \A b \in Bufs, d \in Chunks : Holds(b)' \cap Owned(d)' = {}
    BY <1>2, <1>3, <1>4 DEF IInv, OneOwner
  <2> QED
    BY <2>1, <2>2, <2>3, <2>4 DEF OneOwner
<1>7. ChunkInv'
  <2>1. ASSUME NEW d \in Chunks, d # c, chunk[d].alloc
        PROVE  room'[chunk[d].data] = room[chunk[d].data]
               /\ bytes'[chunk[d].data] = bytes[chunk[d].data]
    <3>1. chunk[d].data \in Owned(d) /\ chunk[d].data \in Blocks
      BY <2>1 DEF Owned, IInv, ChunkInv
    <3> QED
      BY <2>1, <3>1, <1>5
  <2>2. chunk'[c] = k
    BY DEF IInv, TypeInv
  <2>3. k.alloc => k.data \in Blocks /\ bytes'[k.data] = t /\ room'[k.data] = m /\ k.len < m
    <3>1. Len(t) \in Nat /\ k.len \in Nat
      BY DEF Bytes
    <3> QED
      BY <3>1 DEF Free
  <2>4. ASSUME NEW d \in Chunks, chunk'[d].alloc
        PROVE  /\ chunk'[d].data \in Blocks /\ chunk'[d].len < room'[chunk'[d].data]
               /\ chunk'[d].len < Len(bytes'[chunk'[d].data])
               /\ bytes'[chunk'[d].data][chunk'[d].len + 1] = Nul
    <3>1. CASE d = c
      BY <3>1, <2>2, <2>3, <2>4
    <3>2. CASE d # c
      BY <3>2, <2>1, <2>4, <1>3 DEF IInv, ChunkInv
    <3> QED
      BY <3>1, <3>2
  <2> QED
    BY <2>4 DEF ChunkInv
<1>8. BufInv'
  <2>1. ASSUME NEW b \in Bufs, buf[b].asize > 0
        PROVE  room'[buf[b].ptr] = room[buf[b].ptr] /\ bytes'[buf[b].ptr] = bytes[buf[b].ptr]
    <3>1. buf[b].ptr \in Holds(b) /\ buf[b].ptr \in Blocks
      BY <2>1 DEF Holds, IInv, BufInv
    <3> QED
      BY <3>1, <1>4
  <2> QED
    BY <2>1 DEF IInv, BufInv
<1>9. \A x \in Blocks : Len(bytes'[x]) <= room'[x]
  BY DEF IInv, TypeInv
<1> QED
  BY <1>1, <1>6, <1>7, <1>8, <1>9 DEF IInv, JobInv

LEMMA StoreStep ==
  ASSUME IInv, NEW c \in Chunks, NEW s \in Bytes, NEW A, A = Owned(c), Store(c, s, A), pc = "idle"
  PROVE  IInv'
<1>1. PICK a \in Free :
        /\ room'  = [x \in Blocks |-> IF x = a THEN Len(s) + 1 ELSE IF x \in A THEN 0 ELSE room[x]]
        /\ bytes' = [x \in Blocks |-> IF x = a THEN s \o <<Nul>> ELSE IF x \in A THEN <<>> ELSE bytes[x]]
        /\ chunk' = [chunk EXCEPT ![c] = [data |-> a, len |-> Len(s), alloc |-> TRUE, fixed |-> <<>>]]
        /\ UNCHANGED <<buf, job, pc>>
  BY DEF Store
<1> DEFINE k == [data |-> a, len |-> Len(s), alloc |-> TRUE, fixed |-> <<>>]
<1>2. Len(s) \in Nat /\ s \o <<Nul>> \in Bytes /\ Len(s \o <<Nul>>) = Len(s) + 1
      /\ (s \o <<Nul>>)[Len(s) + 1] = Nul
  BY NulAppended DEF Bytes
<1>3. k \in [data : Blocks \cup {None, Static}, len : Nat, alloc : BOOLEAN, fixed : Bytes]
  BY <1>2 DEF Free, Bytes
<1>4. /\ {a} \in SUBSET Free
      /\ room'  = [x \in Blocks |-> IF x \in {a} THEN Len(s) + 1 ELSE IF x \in Owned(c) THEN 0 ELSE room[x]]
      /\ bytes' = [x \in Blocks |-> IF x \in {a} THEN s \o <<Nul>> ELSE IF x \in Owned(c) THEN <<>> ELSE bytes[x]]
  BY <1>1
<1>5. pc \notin Loops /\ Len(s) + 1 \in Nat /\ Len(s) + 1 > 0 /\ Len(s) < Len(s) + 1
  BY <1>2 DEF Loops
<1>6. k.alloc /\ k.data = a /\ k.len = Len(s) /\ chunk' = [chunk EXCEPT ![c] = k]
  BY <1>1
<1> DEFINE t == s \o <<Nul>>
           m == Len(s) + 1
<1>7. t \in Bytes /\ Len(t) <= m /\ k.len < Len(t) /\ t[k.len + 1] = Nul
      /\ m \in Nat /\ m > 0
  BY <1>2, <1>5, <1>6
<1>8. {a} = {k.data}
  BY <1>6
<1>9. /\ {a} \in SUBSET Free
      /\ room'  = [x \in Blocks |-> IF x \in {a} THEN m ELSE IF x \in Owned(c) THEN 0 ELSE room[x]]
      /\ bytes' = [x \in Blocks |-> IF x \in {a} THEN t ELSE IF x \in Owned(c) THEN <<>> ELSE bytes[x]]
  BY <1>4
<1>10. UNCHANGED <<buf, job, pc>>
  BY <1>1
<1> HIDE DEF k, t, m
<1>11. Stored(c, {a}, m, t, k)
  BY <1>3, <1>5, <1>6, <1>7, <1>8, <1>9, <1>10 DEF Stored
<1> QED
  BY <1>11, Storing

LEMMA FreeChunkStep == ASSUME IInv, NEW c \in Chunks, NEW f, FreeChunk(f, c) PROVE IInv'
<1>1. NoText \in [data : Blocks \cup {None, Static}, len : Nat, alloc : BOOLEAN, fixed : Bytes]
      /\ ~NoText.alloc
  BY DEF NoText, Bytes
<1>2. /\ room'  = [x \in Blocks |-> IF x \in {} THEN 1 ELSE IF x \in Owned(c) THEN 0 ELSE room[x]]
      /\ bytes' = [x \in Blocks |-> IF x \in {} THEN <<>> ELSE IF x \in Owned(c) THEN <<>> ELSE bytes[x]]
      /\ chunk' = [chunk EXCEPT ![c] = NoText] /\ UNCHANGED <<buf, job, pc>> /\ pc \notin Loops
  BY DEF FreeChunk, Release, Called, Loops
<1> DEFINE t == <<>>
<1>3. t \in Bytes /\ Len(t) <= 1 /\ {} \in SUBSET Free
  BY <1>1 DEF Bytes
<1>4. bytes' = [x \in Blocks |-> IF x \in {} THEN t ELSE IF x \in Owned(c) THEN <<>> ELSE bytes[x]]
  BY <1>2
<1> DEFINE m == 1
<1>5. m \in Nat /\ m > 0 /\ Len(t) <= m
      /\ room' = [x \in Blocks |-> IF x \in {} THEN m ELSE IF x \in Owned(c) THEN 0 ELSE room[x]]
  BY <1>2, <1>3
<1> HIDE DEF t, m
<1>6. Stored(c, {}, m, t, NoText)
  BY <1>1, <1>2, <1>3, <1>4, <1>5 DEF Stored
<1> QED
  BY <1>6, Storing

\* A chunk that owns nothing is given another text that is not its own.
LEMMA Borrowing ==
  ASSUME IInv, NEW c \in Chunks, ~chunk[c].alloc, UNCHANGED <<room, bytes, buf, job, pc>>,
         NEW k \in [data : Blocks \cup {None, Static}, len : Nat, alloc : BOOLEAN, fixed : Bytes],
         ~k.alloc, chunk' = [chunk EXCEPT ![c] = k]
  PROVE  IInv'
<1>1. chunk'[c] = k /\ \A d \in Chunks \ {c} : chunk'[d] = chunk[d]
  BY DEF IInv, TypeInv
<1>2. TypeInv' /\ BufInv' /\ JobInv'
  BY DEF IInv, TypeInv, BufInv, JobInv
<1>3. ChunkInv'
  BY <1>1 DEF IInv, ChunkInv
<1>4. \A d \in Chunks : Owned(d)' = Owned(d)
  BY <1>1 DEF Owned
<1>5. OneOwner'
  BY <1>4 DEF IInv, OneOwner, Holds
<1> QED
  BY <1>2, <1>3, <1>5 DEF IInv

\* A buffer gives back its block.
LEMMA FreeBufStep == ASSUME IInv, NEW b \in Bufs, FreeBuf(b) PROVE IInv'
<1> DEFINE A == Holds(b)
<1>1. buf' = [buf EXCEPT ![b] = Empty] /\ UNCHANGED <<chunk, job, pc>> /\ pc \notin Loops
  BY DEF FreeBuf, Called, Loops
<1>2. \A x \in Blocks : x = buf[b].ptr <=> x \in A
  BY NamesAssumption DEF Holds, IInv, BufInv, TypeInv
<1>3. /\ room'  = [x \in Blocks |-> IF x \in A THEN 0 ELSE room[x]]
      /\ bytes' = [x \in Blocks |-> IF x \in A THEN <<>> ELSE bytes[x]]
  BY <1>2 DEF FreeBuf, Release
<1>4. TypeInv'
  <2>1. bytes' \in [Blocks -> Bytes] /\ room' \in [Blocks -> Nat]
    BY <1>3 DEF IInv, TypeInv, Bytes
  <2>2. buf' \in [Bufs -> [ptr : Blocks \cup {Initbuf}, asize : Nat, size : Nat]]
    BY <1>1 DEF IInv, TypeInv, Empty
  <2> QED
    BY <1>1, <2>1, <2>2 DEF IInv, TypeInv
<1>5. buf'[b] = Empty /\ Holds(b)' = {} /\ \A d \in Bufs \ {b} : Holds(d)' = Holds(d) /\ buf'[d] = buf[d]
  BY <1>1 DEF Holds, IInv, TypeInv, Empty
<1>6. \A c \in Chunks : Owned(c)' = Owned(c)
  BY <1>1 DEF Owned
<1>7. (\A d \in Bufs \ {b} : Holds(d) \cap A = {}) /\ \A c \in Chunks : Owned(c) \cap A = {}
  BY DEF IInv, OneOwner
<1>8. OneOwner'
  <2>1. \A x \in Blocks : room'[x] > 0 <=>
          (\E d \in Bufs : x \in Holds(d)') \/ (\E c \in Chunks : x \in Owned(c)')
    <3> SUFFICES ASSUME NEW x \in Blocks
                 PROVE room'[x] > 0 <=>
                   (\E d \in Bufs : x \in Holds(d)') \/ (\E c \in Chunks : x \in Owned(c)')
      OBVIOUS
    <3>1. room[x] > 0 <=> (\E d \in Bufs : x \in Holds(d)) \/ (\E c \in Chunks : x \in Owned(c))
      BY DEF IInv, OneOwner
    <3>2. CASE x \in A
      BY <3>2, <1>3, <1>5, <1>6, <1>7
    <3>3. CASE x \notin A
      BY <3>1, <3>3, <1>3, <1>5, <1>6
    <3> QED
      BY <3>2, <3>3
  <2>2. \A d, e \in Bufs : Holds(d)' \cap Holds(e)' # {} => d = e
    BY <1>5 DEF IInv, OneOwner
  <2>3. \A c, d \in Chunks : Owned(c)' \cap Owned(d)' # {} => c = d
    BY <1>6 DEF IInv, OneOwner
  <2>4. \A d \in Bufs, c \in Chunks : Holds(d)' \cap Owned(c)' = {}
    BY <1>5, <1>6 DEF IInv, OneOwner
  <2> QED
    BY <2>1, <2>2, <2>3, <2>4 DEF OneOwner
<1>9. ChunkInv'
  <2>1. ASSUME NEW c \in Chunks, chunk[c].alloc
        PROVE  room'[chunk[c].data] = room[chunk[c].data]
               /\ bytes'[chunk[c].data] = bytes[chunk[c].data]
    <3>1. chunk[c].data \in Owned(c) /\ chunk[c].data \in Blocks
      BY <2>1 DEF Owned, IInv, ChunkInv
    <3> QED
      BY <3>1, <1>3, <1>7
  <2> QED
    BY <1>1, <2>1 DEF IInv, ChunkInv
<1>10. BufInv'
  <2>1. ASSUME NEW d \in Bufs, d # b, buf[d].asize > 0
        PROVE  room'[buf[d].ptr] = room[buf[d].ptr] /\ bytes'[buf[d].ptr] = bytes[buf[d].ptr]
    <3>1. buf[d].ptr \in Holds(d) /\ buf[d].ptr \in Blocks
      BY <2>1 DEF Holds, IInv, BufInv
    <3> QED
      BY <2>1, <3>1, <1>3, <1>7
  <2>2. Empty.asize = 0 /\ Empty.ptr = Initbuf /\ Empty.size = 0
    BY DEF Empty
  <2> QED
    BY <1>5, <2>1, <2>2, Sizes DEF IInv, BufInv
<1>11. \A x \in Blocks : Len(bytes'[x]) <= room'[x]
  BY <1>3 DEF IInv, TypeInv
<1> QED
  BY <1>1, <1>4, <1>8, <1>9, <1>10, <1>11 DEF IInv, JobInv

\* The block of a buffer becomes the chunk's.
LEMMA DetachStep == ASSUME IInv, NEW b \in Bufs, NEW c \in Chunks, Detach(b, c) PROVE IInv'
<1>1. CASE buf[b].asize = 0
  <2>1. Store(c, <<>>, {}) /\ pc = "idle" /\ Owned(c) = {}
    BY <1>1 DEF Detach, Called, Owned
  <2>2. <<>> \in Bytes
    BY DEF Bytes
  <2> QED
    BY <2>1, <2>2, StoreStep
<1>2. CASE buf[b].asize > 0
  <2> DEFINE a == buf[b].ptr
             k == [data |-> a, len |-> buf[b].size, alloc |-> TRUE, fixed |-> <<>>]
  <2>1. /\ ~chunk[c].alloc /\ Written(b) # <<>> /\ chunk' = [chunk EXCEPT ![c] = k]
        /\ buf' = [buf EXCEPT ![b] = Empty] /\ UNCHANGED <<room, bytes, job, pc>> /\ pc \notin Loops
    BY <1>2 DEF Detach, Called, Loops
  <2>2. a \in Blocks /\ buf[b].size \in Nat /\ buf[b].size < room[a]
        /\ buf[b].size < Len(bytes[a]) /\ bytes[a][buf[b].size + 1] = Nul
    BY <1>2, <2>1 DEF Written, IInv, BufInv, TypeInv
  <2>3. k \in [data : Blocks \cup {None, Static}, len : Nat, alloc : BOOLEAN, fixed : Bytes]
    BY <2>2 DEF Bytes
  <2>4. TypeInv'
    <3>1. buf' \in [Bufs -> [ptr : Blocks \cup {Initbuf}, asize : Nat, size : Nat]]
      BY <2>1 DEF IInv, TypeInv, Empty
    <3>2. chunk' \in [Chunks -> [data : Blocks \cup {None, Static}, len : Nat, alloc : BOOLEAN, fixed : Bytes]]
      BY <2>1, <2>3 DEF IInv, TypeInv
    <3> QED
      BY <2>1, <3>1, <3>2 DEF IInv, TypeInv
  <2>5. buf'[b] = Empty /\ Holds(b)' = {} /\ Holds(b) = {a}
        /\ \A d \in Bufs \ {b} : Holds(d)' = Holds(d) /\ buf'[d] = buf[d]
    BY <1>2, <2>1 DEF Holds, IInv, TypeInv, Empty
  <2>6. chunk'[c] = k /\ Owned(c)' = {a} /\ Owned(c) = {}
        /\ \A d \in Chunks \ {c} : Owned(d)' = Owned(d) /\ chunk'[d] = chunk[d]
    BY <2>1 DEF Owned, IInv, TypeInv
  <2>7. OneOwner'
    <3>1. \A x \in Blocks : room'[x] > 0 <=>
            (\E d \in Bufs : x \in Holds(d)') \/ (\E d \in Chunks : x \in Owned(d)')
      <4>1. \A x \in Blocks : (\E d \in Bufs : x \in Holds(d)') \/ (\E d \in Chunks : x \in Owned(d)')
                          <=> (\E d \in Bufs : x \in Holds(d)) \/ (\E d \in Chunks : x \in Owned(d))
        BY <2>5, <2>6
      <4> QED
        BY <4>1, <2>1 DEF IInv, OneOwner
    <3>2. \A d, e \in Bufs : Holds(d)' \cap Holds(e)' # {} => d = e
      BY <2>5 DEF IInv, OneOwner
    <3>3. \A d, e \in Chunks : Owned(d)' \cap Owned(e)' # {} => d = e
      BY <2>5, <2>6 DEF IInv, OneOwner
    <3>4. \A d \in Bufs, e \in Chunks : Holds(d)' \cap Owned(e)' = {}
      BY <2>5, <2>6 DEF IInv, OneOwner
    <3> QED
      BY <3>1, <3>2, <3>3, <3>4 DEF OneOwner
  <2>8. k.data = a /\ k.len = buf[b].size
    OBVIOUS
  <2>9. ChunkInv'
    <3> HIDE DEF k
    <3> QED
      BY <2>1, <2>2, <2>6, <2>8 DEF IInv, ChunkInv
  <2>10. BufInv'
    <3>1. Empty.asize = 0 /\ Empty.ptr = Initbuf /\ Empty.size = 0
      BY DEF Empty
    <3> QED
      BY <2>1, <2>5, <3>1, Sizes DEF IInv, BufInv
  <2> QED
    BY <2>1, <2>4, <2>7, <2>9, <2>10 DEF IInv, JobInv
<1>3. buf[b].asize \in Nat
  BY DEF IInv, TypeInv
<1> QED
  BY <1>1, <1>2, <1>3

LEMMA BorrowStep ==
  ASSUME IInv, NEW c \in Chunks, ChunkTrim(c) \/ \E s \in Texts : Literal(c, s)
  PROVE  IInv'
<1>1. CASE ChunkTrim(c)
  <2>1. PICK m, n \in 0 .. Len(chunk[c].fixed) :
          /\ m <= n
          /\ chunk' = [chunk EXCEPT ![c].len = n - m, ![c].fixed = SubSeq(@, m + 1, n)]
    BY <1>1 DEF ChunkTrim, Between
  <2> DEFINE k == [chunk[c] EXCEPT !.len = n - m, !.fixed = SubSeq(chunk[c].fixed, m + 1, n)]
  <2>2. n - m \in Nat /\ SubSeq(chunk[c].fixed, m + 1, n) \in Bytes
    <3>1. chunk[c].fixed \in Bytes
      BY DEF IInv, TypeInv
    <3>2. n - m \in Nat
      BY <2>1
    <3> QED
      BY <2>1, <3>1, <3>2, Parts
  <2>3. chunk' = [chunk EXCEPT ![c] = k]
    BY <2>1 DEF IInv, TypeInv
  <2>4. k \in [data : Blocks \cup {None, Static}, len : Nat, alloc : BOOLEAN, fixed : Bytes]
        /\ k.alloc = chunk[c].alloc
    BY <2>2 DEF IInv, TypeInv
  <2>5. ~chunk[c].alloc /\ UNCHANGED <<room, bytes, buf, job, pc>>
    BY <1>1 DEF ChunkTrim
  <2> HIDE DEF k
  <2> QED
    BY <2>3, <2>4, <2>5, Borrowing
<1>2. ASSUME NEW s \in Texts, Literal(c, s) PROVE IInv'
  <2> DEFINE k == [data |-> Static, len |-> Len(s), alloc |-> FALSE, fixed |-> s]
  <2>1. s \in Bytes /\ Len(s) \in Nat
    BY TextType DEF Bytes
  <2>2. k \in [data : Blocks \cup {None, Static}, len : Nat, alloc : BOOLEAN, fixed : Bytes] /\ ~k.alloc
    BY <2>1
  <2>3. ~chunk[c].alloc /\ UNCHANGED <<room, bytes, buf, job, pc>> /\ chunk' = [chunk EXCEPT ![c] = k]
    BY <1>2 DEF Literal
  <2> HIDE DEF k
  <2> QED
    BY <2>2, <2>3, Borrowing
<1> QED
  BY <1>1, <1>2

LEMMA CstrStep ==
  ASSUME IInv, NEW c \in Chunks,
         ToCstr(c) \/ SetCstr("set_own", c, Said(c)) \/ \E s \in Texts : SetCstr("set_cstr", c, s)
  PROVE  IInv'
<1>1. Said(c) \in Bytes
  <2>1. CASE chunk[c].alloc
    <3>1. bytes[chunk[c].data] \in Seq(Nat) /\ chunk[c].len \in Nat
          /\ chunk[c].len < Len(bytes[chunk[c].data])
      BY <2>1 DEF IInv, ChunkInv, TypeInv, Bytes
    <3>2. chunk[c].len <= Len(bytes[chunk[c].data])
      BY <3>1
    <3> QED
      BY <2>1, <3>1, <3>2, Prefix DEF Said, Bytes
  <2>2. CASE ~chunk[c].alloc
    BY <2>2 DEF Said, IInv, TypeInv
  <2> QED
    BY <2>1, <2>2
<1>2. CASE chunk[c].alloc /\ Leave("to_cstr")
  BY <1>2, Leaving
<1>3. CASE ~chunk[c].alloc /\ Called("to_cstr") /\ Store(c, chunk[c].fixed, {})
  <2>1. Owned(c) = {} /\ pc = "idle" /\ chunk[c].fixed \in Bytes
    BY <1>3 DEF Owned, Called, IInv, TypeInv
  <2> QED
    BY <1>3, <2>1, StoreStep
<1>4. CASE SetCstr("set_own", c, Said(c))
  BY <1>1, <1>4, StoreStep DEF SetCstr, Called
<1>5. ASSUME NEW s \in Texts, SetCstr("set_cstr", c, s) PROVE IInv'
  BY <1>5, TextType, StoreStep DEF SetCstr, Called
<1> QED
  BY <1>2, <1>3, <1>4, <1>5 DEF ToCstr

LEMMA Joined ==
  ASSUME NEW s \in Bytes, NEW t \in Bytes
  PROVE  s \o t \in Bytes /\ Len(s \o t) = Len(s) + Len(t)
BY DEF Bytes

LEMMA PutStep == ASSUME IInv, NEW b \in Bufs, NEW s \in Texts, Put(b, s) PROVE IInv'
<1> DEFINE n == buf[b].size + Len(s)
           u == Contents(b) \o s \o <<Nul>>
<1>1. s \in Bytes /\ Len(s) \in Nat /\ Len(s) > 0 /\ Len(s) <= MaxInt - NewSize(Half) + 1
  BY TextType DEF Put, Bytes
<1>2. buf[b].size \in Nat /\ buf[b].asize \in Nat /\ buf[b].asize <= NewSize(Half)
      /\ (buf[b].size < buf[b].asize \/ buf[b].size = 0)
  BY DEF IInv, TypeInv, BufInv
<1>3. Half >= 15 /\ NewSize(Half) > Half /\ NewSize(Half) \in Nat /\ Half \in Nat
  <2>1. Half >= 15
    BY SizeAssumption DEF Half
  <2> QED
    BY <2>1, Sizes
<1>4. n \in Nat /\ n > 0 /\ n <= MaxInt
  BY <1>1, <1>2, <1>3, SizeAssumption
<1>5. Wrap(n) = n
  BY <1>4, SizeAssumption DEF Wrap
<1>6. Contents(b) \in Bytes /\ Len(Contents(b)) = buf[b].size
  BY ContentsType DEF IInv
<1>7. Contents(b) \o s \in Bytes /\ Len(Contents(b) \o s) = n
  BY <1>1, <1>6, Joined
<1>8. u \in Bytes /\ Ended(u, n)
  BY <1>4, <1>7, NulAppended DEF Ended
<1>9. pc = "idle" /\ GrowAndWrite("put", b, n, u, n)
  BY <1>5 DEF Put, GrowAndWrite, Called
<1> HIDE DEF n, u
<1> QED
  BY <1>4, <1>8, <1>9, Growing

LEMMA SetStep == ASSUME IInv, NEW b \in Bufs, NEW s \in Texts, Set(b, s) PROVE IInv'
<1>1. CASE s = <<>>
  <2>1. <<>> \in Bytes /\ Len(<<>>) <= buf[b].size
    BY DEF Bytes, IInv, TypeInv
  <2> QED
    BY <1>1, <2>1, Rewriting DEF Set
<1>2. CASE s # <<>>
  <2>1. s \in Bytes /\ Len(s) \in Nat /\ Len(s) > 0
    BY <1>2, TextType DEF Bytes
  <2>2. s \o <<Nul>> \in Bytes /\ Ended(s \o <<Nul>>, Len(s))
    BY <2>1, NulAppended DEF Ended
  <2>3. pc = "idle" /\ GrowAndWrite("set", b, Len(s), s \o <<Nul>>, Len(s))
    BY <1>2 DEF Set, GrowAndWrite, Called
  <2> QED
    BY <2>1, <2>2, <2>3, Growing
<1> QED
  BY <1>1, <1>2

LEMMA GrowStep == ASSUME IInv, NEW b \in Bufs, NEW n \in Nat, Grow(b, n) PROVE IInv'
<1>1. n > 0 /\ pc = "idle" /\ GrowAndWrite("grow", b, n, Written(b), buf[b].size)
  BY DEF Grow, GrowAndWrite, Called
<1>2. buf[b].size \in Nat /\ buf[b].asize \in Nat
  BY DEF IInv, TypeInv
<1>3. Written(b) \in Bytes
  <2>1. CASE buf[b].asize = 0
    BY <2>1 DEF Written, Bytes
  <2>2. CASE buf[b].asize > 0
    BY <2>2 DEF Written, IInv, TypeInv, BufInv
  <2> QED
    BY <1>2, <2>1, <2>2
<1> QED
  BY <1>1, <1>2, <1>3, Growing

\* The operations that make a string shorter, or nothing of it
LEMMA ShortenStep ==
  ASSUME IInv, NEW b \in Bufs,
         Clear(b) \/ Trim(b) \/ \E n \in 0 .. buf[b].size : Truncate(b, n) \/ Drop(b, n)
  PROVE  IInv'
<1>1. Contents(b) \in Bytes /\ Len(Contents(b)) = buf[b].size /\ buf[b].size \in Nat
  BY ContentsType DEF IInv, TypeInv
<1>2. \A m, n \in 0 .. buf[b].size :
        /\ SubSeq(Contents(b), m + 1, n) \in Bytes
        /\ Len(SubSeq(Contents(b), m + 1, n)) <= buf[b].size
  BY <1>1, Parts
<1>3. CASE Clear(b)
  <2>1. <<>> \in Bytes /\ Len(<<>>) <= buf[b].size
    BY <1>1 DEF Bytes
  <2> QED
    BY <1>3, <2>1, Rewriting DEF Clear
<1>4. CASE Trim(b)
  BY <1>2, <1>4, Leaving, Rewriting DEF Trim
<1>5. ASSUME NEW n \in 0 .. buf[b].size, Truncate(b, n) PROVE IInv'
  <2>1. SubSeq(Contents(b), 1, n) \in Bytes /\ Len(SubSeq(Contents(b), 1, n)) <= buf[b].size
    BY <1>1, <1>2
  <2> QED
    BY <1>5, <2>1, Leaving, Rewriting DEF Truncate
<1>6. ASSUME NEW n \in 0 .. buf[b].size, Drop(b, n) PROVE IInv'
  <2>1. SubSeq(Contents(b), n + 1, buf[b].size) \in Bytes
        /\ Len(SubSeq(Contents(b), n + 1, buf[b].size)) <= buf[b].size
    BY <1>1, <1>2
  <2> QED
    BY <1>6, <2>1, Leaving, Rewriting DEF Drop
<1> QED
  BY <1>3, <1>4, <1>5, <1>6

LEMMA BeginStep ==
  ASSUME IInv, NEW b \in Bufs, NEW f \in Loops, Begin(f, b) PROVE IInv'
<1>1. job' = [b |-> b, r |-> 0, w |-> 0, last |-> FALSE]
      /\ UNCHANGED <<room, bytes, buf, chunk>>
  BY DEF Begin
<1>2. TypeInv'
  BY <1>1 DEF IInv, TypeInv
<1>3. JobInv'
  BY <1>1 DEF IInv, TypeInv, JobInv
<1> QED
  BY <1>1, <1>2, <1>3 DEF IInv, BufInv, ChunkInv, OneOwner, Holds, Owned

LEMMA Step == IInv /\ [Next]_vars => IInv'
<1> SUFFICES ASSUME IInv, [Next]_vars PROVE IInv'
  OBVIOUS
<1>1. ASSUME NEW b \in Bufs, NEW n \in Nat, Grow(b, n) PROVE IInv'
  BY <1>1, GrowStep
<1>2. ASSUME NEW b \in Bufs, NEW s \in Texts, Put(b, s) \/ Set(b, s) PROVE IInv'
  BY <1>2, PutStep, SetStep
<1>3. ASSUME NEW b \in Bufs,
             Clear(b) \/ Trim(b) \/ \E n \in 0 .. buf[b].size : Truncate(b, n) \/ Drop(b, n)
      PROVE  IInv'
  BY <1>3, ShortenStep
<1>4. ASSUME NEW b \in Bufs, Begin("normalize", b) \/ Begin("unescape", b) PROVE IInv'
  BY <1>4, BeginStep DEF Loops
<1>5. ASSUME NEW b \in Bufs,
             FreeBuf(b) \/ (\E a \in Bufs : Swap(a, b)) \/ (\E c \in Chunks : Detach(b, c))
      PROVE  IInv'
  BY <1>5, FreeBufStep, SwapStep, DetachStep
<1>6. CASE NormalizeTurn \/ UnescapeTurn \/ End
  BY <1>6, NormalizeStep, UnescapeStep, EndStep
<1>7. ASSUME NEW c \in Chunks, ChunkTrim(c) \/ \E s \in Texts : Literal(c, s) PROVE IInv'
  BY <1>7, BorrowStep
<1>8. ASSUME NEW c \in Chunks,
             ToCstr(c) \/ SetCstr("set_own", c, Said(c)) \/ \E s \in Texts : SetCstr("set_cstr", c, s)
      PROVE  IInv'
  BY <1>8, CstrStep
<1>9. ASSUME NEW c \in Chunks, FreeChunk("set_cstr", c) \/ FreeChunk("chunk_free", c) PROVE IInv'
  BY <1>9, FreeChunkStep
<1>10. CASE UNCHANGED vars
  BY <1>10 DEF vars, IInv, TypeInv, BufInv, ChunkInv, JobInv, OneOwner, Holds, Owned
<1>11. CASE Aborted
  BY <1>10, <1>11 DEF Aborted
<1>12. ASSUME NEW longest \in Nat, Calls(Bufs, Chunks, Texts, longest) PROVE IInv'
  <2>1. \A n \in 1 .. longest : n \in Nat
    OBVIOUS
  <2> QED
    BY <1>1, <1>2, <1>3, <1>4, <1>5, <1>6, <1>7, <1>8, <1>9, <1>11, <1>12, <2>1 DEF Calls
<1> QED
  BY <1>10, <1>12 DEF Next

LEMMA Always == Spec => []IInv
BY Start, Step, PTL DEF Spec

\* Every block has one owner, for any number of buffers, chunks and blocks: nothing leaks and
\* nothing is freed twice.
THEOREM AlwaysOneOwner == Spec => []OneOwner
<1>1. IInv => OneOwner
  BY DEF IInv
<1> QED
  BY Always, <1>1, PTL

\* What is written fits into the block, for integers of any width, if no text is longer than
\* what the largest buffer can still count; and there is a NUL behind every string that was
\* written, so that cmark_strbuf_unescape and the users of a C string stop there.
THEOREM AlwaysBlocksSound == Spec => []BlocksSound
<1>1. IInv => FitsInBlock
  BY DEF IInv, TypeInv, BufInv, ChunkInv, FitsInBlock
<1>2. IInv => EndsWithNul
  BY DEF IInv, TypeInv, BufInv, ChunkInv, EndsWithNul, Written
<1>3. IInv => BlocksSound
  BY <1>1, <1>2 DEF BlocksSound
<1> QED
  BY Always, <1>3, PTL
=============================================================================
