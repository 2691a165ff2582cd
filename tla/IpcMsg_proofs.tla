---------------------------- MODULE IpcMsg_proofs ----------------------------
(* Safety of the two directions of an inter-core channel, for every ring      *)
(* size, cache line, set of messages and set of threads.                      *)
EXTENDS IpcMsgWrite, IpcMsgRead, NaturalsInduction, WellFoundedInduction, TLAPS

-----------------------------------------------------------------------------
(* The ring.  The lemmas speak of distances around it: Dist(a, b) words lead  *)
(* from address a to address b, and Fwd(a, n) is n words beyond a.            *)

Dist(a, b) == IF a <= b THEN b - a ELSE Size - a + b
Fwd(a, n) == IF a + n >= Size THEN a + n - Size ELSE a + n

-----------------------------------------------------------------------------
(* Remainders, of which ALIGN_IPCMSG and the position updates are made.       *)
LEMMA ModRange ==
  ASSUME NEW S \in Nat \ {0}, NEW x \in Int
  PROVE  x % S \in 0 .. S - 1
  BY Z3

(* A position past the end by less than one ring is taken back by one ring.   *)
LEMMA ModOnce ==
  ASSUME NEW S \in Nat \ {0}, NEW x \in S .. 2 * S - 1
  PROVE  x % S = x - S
  BY Z3

(* ALIGN_IPCMSG rounds up, by less than the alignment (ipcmsg.h:21).          *)
LEMMA AlignBounds ==
  ASSUME NEW n \in Nat, NEW align \in Nat \ {0}
  PROVE  ALIGN_IPCMSG(n, align) \in n .. n + align - 1
  <1> DEFINE up == n + align - 1
  <1>1. up \in Int /\ up % align \in 0 .. align - 1
    BY ModRange
  <1>2. ALIGN_IPCMSG(n, align) = up - (up % align)
    BY DEF ALIGN_IPCMSG
  <1> HIDE DEF up
  <1>3. up - (up % align) \in up - (align - 1) .. up
    BY <1>1
  <1>4. QED
    BY <1>2, <1>3 DEF up

(* A message has room for its head and its payload.                           *)
LEMMA MsgSizeType ==
  ASSUME NEW m \in Msg
  PROVE  MsgSize(m) \in Nat /\ MsgSize(m) >= DataLen[m] + 1 /\ MsgSize(m) >= 2
  <1>1. DataLen[m] \in Nat \ {0}
    BY DataLenAssumption
  <1>2. ALIGN_IPCMSG(DataLen[m] + 1, CacheLine)
          \in DataLen[m] + 1 .. DataLen[m] + 1 + CacheLine - 1
    BY <1>1, AlignBounds, CacheLineAssumption
  <1>3. QED
    BY <1>1, <1>2, CacheLineAssumption DEF MsgSize

-----------------------------------------------------------------------------
(* Walking around the ring.                                                   *)
LEMMA DistType ==
  ASSUME NEW a \in Addr, NEW b \in Addr
  PROVE  Dist(a, b) \in Addr /\ (Dist(a, b) = 0 <=> a = b)
  BY SizeAssumption DEF Addr, Dist

\* Going n words forward is going to the distance n.
LEMMA FwdDist ==
  ASSUME NEW a \in Addr, NEW n \in Nat, n < Size
  PROVE  Fwd(a, n) \in Addr /\ Dist(a, Fwd(a, n)) = n
  BY SizeAssumption DEF Addr, Dist, Fwd

\* Two moves forward are one.
LEMMA FwdTwice ==
  ASSUME NEW a \in Addr, NEW n \in Nat, NEW k \in Nat, n + k < Size
  PROVE  Fwd(Fwd(a, n), k) = Fwd(a, n + k)
  BY SizeAssumption DEF Addr, Fwd

\* Going on from b without reaching a again.
LEMMA DistGrows ==
  ASSUME NEW a \in Addr, NEW b \in Addr, NEW n \in Nat, Dist(a, b) + n < Size
  PROVE  Dist(a, Fwd(b, n)) = Dist(a, b) + n
  <1>1. a \in Int /\ b \in Int /\ 0 <= a /\ a < Size /\ 0 <= b /\ b < Size
        /\ Size \in Int
    BY SizeAssumption DEF Addr
  <1>2. CASE a <= b /\ b + n < Size
    <2>1. Fwd(b, n) = b + n /\ Dist(a, b) = b - a
      BY <1>1, <1>2 DEF Fwd, Dist
    <2>2. Dist(a, b + n) = b + n - a
      BY <1>1, <1>2 DEF Dist
    <2>3. QED
      BY <1>1, <2>1, <2>2
  <1>3. CASE a <= b /\ ~ (b + n < Size)
    <2>1. Fwd(b, n) = b + n - Size /\ Dist(a, b) = b - a
      BY <1>1, <1>3 DEF Fwd, Dist
    <2>2. ~ (a <= b + n - Size)
      BY <1>1, <2>1
    <2>3. Dist(a, b + n - Size) = (b + n - Size) - a + Size
      BY <1>1, <2>2 DEF Dist
    <2>4. QED
      BY <1>1, <2>1, <2>3
  <1>4. CASE ~ (a <= b)
    <2>1. Dist(a, b) = b - a + Size
      BY <1>1, <1>4 DEF Dist
    <2>2. b + n < a /\ b + n < Size
      BY <1>1, <2>1
    <2>3. Fwd(b, n) = b + n /\ Dist(a, b + n) = b + n - a + Size
      BY <1>1, <2>2 DEF Fwd, Dist
    <2>4. QED
      BY <1>1, <2>1, <2>3
  <1>5. QED
    BY <1>2, <1>3, <1>4

\* Stopping at b on the way from a to c, and b is met before c.
LEMMA DistVia ==
  ASSUME NEW a \in Addr, NEW b \in Addr, NEW c \in Addr, Dist(a, b) <= Dist(a, c)
  PROVE  Dist(a, b) + Dist(b, c) = Dist(a, c)
  BY SizeAssumption DEF Addr, Dist

\* The way there and the way back are once around the ring.
LEMMA DistRound ==
  ASSUME NEW a \in Addr, NEW b \in Addr, a # b
  PROVE  Dist(a, b) + Dist(b, a) = Size
  BY SizeAssumption DEF Addr, Dist

-----------------------------------------------------------------------------
(* The operators of ipcmsg_ringbuf.c in these terms.                          *)

\* Is_Ringbuf_ChFreeSpace compares with what the unread words leave free.
LEMMA RemainDist ==
  ASSUME NEW r \in Pos
  PROVE  Remain(r) = Size - Dist(r.Read_Pos, r.Write_Pos)
  BY SizeAssumption DEF Pos, Addr, Remain, Dist

\* A write that fits leaves Write_Pos where it should.
LEMMA WritePosFwd ==
  ASSUME NEW r \in Pos, NEW n \in Nat,
         n + Dist(r.Read_Pos, r.Write_Pos) < Size
  PROVE  WritePosAfter(r, n) = Fwd(r.Write_Pos, n)
  <1>1. r.Write_Pos \in Addr /\ r.Read_Pos \in Addr /\ n < Size
    BY DistType, SizeAssumption DEF Pos, Addr
  <1>2. CASE WriteWraps(r, n)
    BY <1>1, <1>2, SizeAssumption DEF WritePosAfter, WriteWraps, Fwd, Addr
  <1>3. CASE ~ WriteWraps(r, n)
    <2>1. CASE r.Write_Pos + n >= Size
      <3>1. (r.Write_Pos + n) % Size = r.Write_Pos + n - Size
        BY <1>1, <2>1, ModOnce, SizeAssumption DEF Addr
      <3>2. QED
        BY <1>3, <2>1, <3>1 DEF WritePosAfter, Fwd
    <2>2. CASE ~ (r.Write_Pos + n >= Size)
      BY <1>3, <2>2 DEF WritePosAfter, Fwd
    <2>3. QED
      BY <2>1, <2>2
  <1>4. QED
    BY <1>2, <1>3

\* A read of less than a whole ring takes Read_Pos forward by as much, whatever
\* copy of Write_Pos it goes by.
LEMMA ReadPosFwd ==
  ASSUME NEW r \in Pos, NEW n \in Nat, n < Size
  PROVE  ReadPosAfter(r, n) = Fwd(r.Read_Pos, n)
  <1>1. r.Write_Pos \in Addr /\ r.Read_Pos \in Addr
    BY DEF Pos
  <1>2. CASE ReadWraps(r, n)
    BY <1>1, <1>2, SizeAssumption DEF ReadPosAfter, ReadWraps, Fwd, Addr
  <1>3. CASE ~ ReadWraps(r, n)
    <2>1. CASE r.Read_Pos + n >= Size
      <3>1. (r.Read_Pos + n) % Size = r.Read_Pos + n - Size
        BY <1>1, <2>1, ModOnce, SizeAssumption DEF Addr
      <3>2. QED
        BY <1>3, <2>1, <3>1 DEF ReadPosAfter, Fwd
    <2>2. CASE ~ (r.Read_Pos + n >= Size)
      BY <1>3, <2>2 DEF ReadPosAfter, Fwd
    <2>3. QED
      BY <2>1, <2>2
  <1>4. QED
    BY <1>2, <1>3

\* A write that fits stores n words from Write_Pos on and touches no other.
LEMMA StoredWords ==
  ASSUME NEW r \in Pos, NEW mm \in [Addr -> Word], NEW src,
         NEW n \in Nat, Len(src) = n, src \in [1 .. n -> Word],
         n + Dist(r.Read_Pos, r.Write_Pos) < Size
  PROVE  /\ Stored(r, mm, src) \in [Addr -> Word]
         /\ \A a \in Addr : Dist(r.Write_Pos, a) >= n => Stored(r, mm, src)[a] = mm[a]
  <1> DEFINE wp == r.Write_Pos
             tail == Size - wp
             S == Stored(r, mm, src)
  <1>1. wp \in Addr /\ r.Read_Pos \in Addr /\ DOMAIN mm = Addr
    BY DEF Pos
  <1>2. S = [a \in Addr |->
               IF a >= wp /\ a < wp + n /\ (WriteWraps(r, n) => a < Size)
               THEN src[a - wp + 1]
               ELSE IF WriteWraps(r, n) /\ a < n - tail
               THEN src[a + tail + 1]
               ELSE mm[a]]
    BY <1>1 DEF Stored
  <1>3. ASSUME NEW a \in Addr
        PROVE  S[a] \in Word
    <2>1. CASE a >= wp /\ a < wp + n /\ (WriteWraps(r, n) => a < Size)
      <3>1. a - wp + 1 \in 1 .. n
        BY <1>1, <2>1, SizeAssumption DEF Addr
      <3>2. QED
        BY <1>2, <2>1, <3>1
    <2>2. CASE /\ ~ (a >= wp /\ a < wp + n /\ (WriteWraps(r, n) => a < Size))
               /\ WriteWraps(r, n) /\ a < n - tail
      <3>1. a + tail + 1 \in 1 .. n
        BY <1>1, <2>2, SizeAssumption DEF Addr
      <3>2. QED
        BY <1>2, <2>2, <3>1
    <2>3. CASE /\ ~ (a >= wp /\ a < wp + n /\ (WriteWraps(r, n) => a < Size))
               /\ ~ (WriteWraps(r, n) /\ a < n - tail)
      BY <1>2, <2>3
    <2>4. QED
      BY <2>1, <2>2, <2>3
  <1>4. ASSUME NEW a \in Addr, Dist(wp, a) >= n
        PROVE  S[a] = mm[a]
    <2>1. ~ (a >= wp /\ a < wp + n)
      BY <1>1, <1>4, SizeAssumption DEF Addr, Dist
    <2>2. ~ (WriteWraps(r, n) /\ a < n - tail)
      BY <1>1, <1>4, SizeAssumption DEF Addr, Dist, WriteWraps
    <2>3. QED
      BY <1>2, <2>1, <2>2
  <1>5. S \in [Addr -> Word]
    BY <1>2, <1>3
  <1>6. QED
    BY <1>4, <1>5

\* The first of the words is stored at Write_Pos.
LEMMA StoredFirst ==
  ASSUME NEW r \in Pos, NEW mm \in [Addr -> Word], NEW src,
         Len(src) \in Nat \ {0}
  PROVE  Stored(r, mm, src)[r.Write_Pos] = src[1]
  <1>1. r.Write_Pos \in Addr /\ DOMAIN mm = Addr
    BY DEF Pos
  <1>2. r.Write_Pos - r.Write_Pos + 1 = 1
    BY <1>1, SizeAssumption DEF Addr
  <1>3. /\ r.Write_Pos >= r.Write_Pos
        /\ r.Write_Pos < r.Write_Pos + Len(src)
        /\ r.Write_Pos < Size
    BY <1>1, SizeAssumption DEF Addr
  <1>4. QED
    BY <1>1, <1>2, <1>3 DEF Stored

\* What the two calls of IpcMsg_Write store.
LEMMA WordsType ==
  ASSUME NEW m \in Msg
  PROVE  /\ Len(HeadWords(m)) = 1
         /\ HeadWords(m) \in [1 .. 1 -> Word]
         /\ HeadWords(m)[1] = [m |-> m, k |-> 0]
         /\ Len(BodyWords(m)) = MsgSize(m) - 1
         /\ BodyWords(m) \in [1 .. MsgSize(m) - 1 -> Word]
  <1>1. MsgSize(m) - 1 \in Nat
    BY MsgSizeType
  <1>2. [m |-> m, k |-> 0] \in Word
    BY DEF Word
  <1>3. BodyWords(m) \in [1 .. MsgSize(m) - 1 -> Word]
    BY <1>1 DEF BodyWords, Word, Pad
  <1>4. Len(BodyWords(m)) = MsgSize(m) - 1
    BY <1>1 DEF BodyWords
  <1>5. QED
    BY <1>2, <1>3, <1>4 DEF HeadWords

\* The first call of IpcMsg_Read fetches the word at Read_Pos.
LEMMA HeadAtRead ==
  ASSUME NEW r \in Pos, NEW mm \in [Addr -> Word]
  PROVE  HeadAt(r, mm) = mm[r.Read_Pos]
  <1>1. r.Read_Pos \in Addr /\ r.Read_Pos + 1 - 1 = r.Read_Pos
    BY SizeAssumption DEF Pos, Addr
  <1>2. ~ ReadWraps(r, 1)
    BY <1>1, SizeAssumption DEF ReadWraps, Addr
  <1>3. Fetched(r, mm, 1, 1)[1] = Peek(mm, r.Read_Pos)
    BY <1>1, <1>2 DEF Fetched
  <1>4. QED
    BY <1>1, <1>3 DEF HeadAt, Peek

\* Read_Pos stays inside the ring whatever the head says.
LEMMA ReadPosType ==
  ASSUME NEW r \in Pos, NEW n \in Int, n >= 0
  PROVE  ReadPosAfter(r, n) \in Addr
  <1>1. r.Write_Pos \in Addr /\ r.Read_Pos \in Addr
    BY DEF Pos
  <1> DEFINE next == IF ReadWraps(r, n) THEN n - Size + r.Read_Pos ELSE r.Read_Pos + n
  <1>2. next \in Nat
    BY <1>1, SizeAssumption DEF ReadWraps, Addr
  <1>3. ReadPosAfter(r, n) = IF next >= Size THEN next % Size ELSE next
    BY DEF ReadPosAfter
  <1> HIDE DEF next
  <1>4. next % Size \in 0 .. Size - 1
    BY <1>2, ModRange, SizeAssumption
  <1>5. QED
    BY <1>2, <1>3, <1>4, SizeAssumption DEF Addr

\* The position behind a head is one of the ring.
LEMMA AfterHeadType ==
  ASSUME NEW r \in Pos
  PROVE  AfterHead(r) \in Pos
  BY ReadPosType DEF AfterHead, Pos

\* So is the position behind a message.
LEMMA AfterBodyType ==
  ASSUME NEW r \in Pos, NEW head \in Word
  PROVE  AfterBody(r, head) \in Pos
  <1>1. LenOf(head) \in Nat \ {0}
    BY DataLenAssumption DEF LenOf
  <1>2. ALIGN_IPCMSG(LenOf(head) + 1, CacheLine) \in LenOf(head) + 1 .. LenOf(head) + CacheLine
    BY <1>1, AlignBounds, CacheLineAssumption
  <1>3. BlockOf(head) \in Int /\ BlockOf(head) >= 0
    BY <1>1, <1>2, CacheLineAssumption DEF BlockOf
  <1>4. ReadPosAfter(r, BlockOf(head)) \in Addr
    BY <1>3, ReadPosType
  <1>5. QED
    BY <1>4 DEF AfterBody, Pos

-----------------------------------------------------------------------------
(* Storing and fetching words.                                                *)

\* Word i of what a write stores ends up i - 1 words behind Write_Pos.
LEMMA StoredAt ==
  ASSUME NEW r \in Pos, NEW mm \in [Addr -> Word], NEW src,
         NEW n \in Nat, Len(src) = n, NEW i \in 1 .. n,
         n + Dist(r.Read_Pos, r.Write_Pos) < Size
  PROVE  Stored(r, mm, src)[Fwd(r.Write_Pos, i - 1)] = src[i]
  <1> DEFINE wp == r.Write_Pos
             tail == Size - wp
             a == Fwd(wp, i - 1)
  <1>1. wp \in Addr /\ r.Read_Pos \in Addr /\ DOMAIN mm = Addr
    BY DEF Pos
  <1>2. Dist(r.Read_Pos, wp) \in Nat /\ n < Size
    BY <1>1, SizeAssumption DEF Dist, Addr
  <1>3. a \in Addr
    <2>1. i - 1 \in Nat /\ i - 1 < Size
      BY <1>2, SizeAssumption
    <2>2. QED
      BY <1>1, <2>1, FwdDist
  <1>4. Stored(r, mm, src)[a] =
          IF a >= wp /\ a < wp + n /\ (WriteWraps(r, n) => a < Size)
          THEN src[a - wp + 1]
          ELSE IF WriteWraps(r, n) /\ a < n - tail
          THEN src[a + tail + 1]
          ELSE mm[a]
    BY <1>1, <1>3 DEF Stored
  <1>5. CASE wp + (i - 1) < Size
    <2>1. /\ a >= wp /\ a < wp + n /\ a < Size
          /\ a - wp + 1 = i
      BY <1>1, <1>2, <1>5, SizeAssumption DEF Fwd, Addr
    <2>2. QED
      BY <1>4, <2>1
  <1>6. CASE ~ (wp + (i - 1) < Size)
    <2>1. a = wp + (i - 1) - Size
      BY <1>1, <1>6, SizeAssumption DEF Fwd, Addr
    <2>2. ~ (a >= wp) /\ a < n - tail /\ a + tail + 1 = i
      BY <1>1, <1>2, <1>3, <2>1, SizeAssumption DEF Addr
    <2>3. WriteWraps(r, n)
      BY <1>1, <1>2, <1>6, SizeAssumption, SMTT(20) DEF WriteWraps, Dist, Addr
    <2>4. QED
      BY <1>4, <2>2, <2>3
  <1>7. QED
    BY <1>5, <1>6

\* A read that stays short of Write_Pos fetches the words from Read_Pos on.
LEMMA FetchedAt ==
  ASSUME NEW r \in Pos, NEW mm \in [Addr -> Word], NEW n \in Nat, NEW len \in 1 .. n,
         n <= Dist(r.Read_Pos, r.Write_Pos), NEW i \in 1 .. len
  PROVE  Fetched(r, mm, len, n)[i] = mm[Fwd(r.Read_Pos, i - 1)]
  <1> DEFINE rp == r.Read_Pos
  <1>1. rp \in Addr /\ r.Write_Pos \in Addr /\ DOMAIN mm = Addr
    BY DEF Pos
  <1>2. Fetched(r, mm, len, n)[i] =
          IF ReadWraps(r, n) /\ i > Size - rp
          THEN Peek(mm, i - 1 - (Size - rp)) ELSE Peek(mm, rp + i - 1)
    BY DEF Fetched
  <1>3. Fwd(rp, i - 1) \in Addr
    <2>1. Dist(rp, r.Write_Pos) \in Addr
      BY <1>1, DistType
    <2>2. i - 1 \in Nat /\ i - 1 < Size
      BY <2>1, SizeAssumption DEF Addr
    <2>3. QED
      BY <1>1, <2>2, FwdDist
  <1>4. CASE i > Size - rp
    <2>1. ReadWraps(r, n)
      BY <1>1, <1>4, SizeAssumption DEF ReadWraps, Dist, Addr
    <2>2. i - 1 - (Size - rp) = Fwd(rp, i - 1)
      BY <1>1, <1>4, SizeAssumption DEF Fwd, Addr
    <2>3. QED
      BY <1>1, <1>2, <1>3, <1>4, <2>1, <2>2 DEF Peek
  <1>5. CASE ~ (i > Size - rp)
    <2>1. rp + i - 1 = Fwd(rp, i - 1)
      BY <1>1, <1>5, SizeAssumption DEF Fwd, Addr
    <2>2. QED
      BY <1>1, <1>2, <1>3, <1>5, <2>1 DEF Peek
  <1>6. QED
    BY <1>4, <1>5

-----------------------------------------------------------------------------
(* The messages in the ring.                                                  *)

\* The words of message m, head and payload, begin at address a.
Holds(mm, a, m) ==
  /\ mm[a] = [m |-> m, k |-> 0]
  /\ \A k \in 1 .. DataLen[m] : mm[Fwd(a, k)] = [m |-> m, k |-> k]

\* a is unread: walking on from Read_Pos, one meets it before Write_Pos.
Before(r, a) == Dist(r.Read_Pos, a) < Dist(r.Read_Pos, r.Write_Pos)

\* F is the set of the unread words that are heads: Read_Pos is one of them,
\* each message is whole and ends where the next one begins, the last one at
\* Write_Pos.
HeadsAt(F, r, mm) ==
  /\ \A a \in F : Before(r, a)
  /\ r.Read_Pos # r.Write_Pos => r.Read_Pos \in F
  /\ \A a \in F : /\ mm[a].m \in Msg
                  /\ Holds(mm, a, mm[a].m)
                  /\ MsgSize(mm[a].m) <= Dist(a, r.Write_Pos)
                  /\ Fwd(a, MsgSize(mm[a].m)) \in F \cup {r.Write_Pos}

\* The next message begins closer to Write_Pos.
LEMMA NextCloser ==
  ASSUME NEW F \in SUBSET Addr, NEW r \in Pos, NEW mm \in [Addr -> Word],
         HeadsAt(F, r, mm), NEW a \in F
  PROVE  LET n == MsgSize(mm[a].m)
         IN  /\ n \in 2 .. Size - 1
             /\ Fwd(a, n) \in Addr
             /\ Dist(Fwd(a, n), r.Write_Pos) = Dist(a, r.Write_Pos) - n
  <1> DEFINE n == MsgSize(mm[a].m)
             w == r.Write_Pos
  <1>1. a \in Addr /\ w \in Addr /\ n <= Dist(a, w) /\ mm[a].m \in Msg
    BY DEF HeadsAt, Pos
  <1>2. n \in Nat /\ n >= 2
    BY <1>1, MsgSizeType
  <1>3. Dist(a, w) \in Addr
    BY <1>1, DistType
  <1> HIDE DEF n
  <1>4. n < Size
    BY <1>1, <1>2, <1>3, SizeAssumption DEF Addr
  <1>5. Fwd(a, n) \in Addr /\ Dist(a, Fwd(a, n)) = n
    BY <1>1, <1>2, <1>4, FwdDist
  <1>6. Dist(a, Fwd(a, n)) + Dist(Fwd(a, n), w) = Dist(a, w)
    BY <1>1, <1>5, DistVia
  <1>7. Dist(Fwd(a, n), w) \in Addr
    BY <1>1, <1>5, DistType
  <1>8. QED
    BY <1>2, <1>3, <1>4, <1>5, <1>6, <1>7, SizeAssumption DEF n, Addr

\* A set of natural numbers has a least one.
LEMMA LeastNat ==
  ASSUME NEW S \in SUBSET Nat, S # {}
  PROVE  \E n \in S : \A k \in S : n <= k
  <1> DEFINE LT == {ss \in Nat \X Nat : ss[1] < ss[2]}
  <1>1. IsWellFoundedOn(LT, Nat)
    BY NatLessThanWellFounded, Zenon DEF OpToRel
  <1>2. PICK n \in S : \A k \in S : ~ (<< k, n >> \in LT)
    <2> HIDE DEF LT
    <2>1. QED
      BY <1>1, WFMin
  <1>3. ASSUME NEW k \in S, ~ (n <= k)
        PROVE  FALSE
    <2>1. << k, n >> \in LT
      BY <1>3
    <2>2. QED
      BY <1>2, <2>1
  <1>4. QED
    BY <1>3

\* What holds at Write_Pos, and of a head if of the next one, holds of all.
LEMMA HeadsInduction ==
  ASSUME NEW F \in SUBSET Addr, NEW w \in Addr, NEW T, w \in T,
         \A a \in F : \E b \in F \cup {w} : Dist(b, w) < Dist(a, w) /\ (b \in T => a \in T)
  PROVE  F \subseteq T
  <1> SUFFICES ASSUME NEW a \in F, a \notin T
               PROVE  FALSE
    OBVIOUS
  <1>1. \A x \in Addr : Dist(x, w) \in Nat
    <2>1. \A x \in Addr : Dist(x, w) \in Addr
      BY DistType
    <2>2. QED
      BY <2>1, SizeAssumption DEF Addr
  <1>2. PICK D \in SUBSET Nat :
           D = {d \in Nat : \E x \in F : x \notin T /\ d = Dist(x, w)}
    OBVIOUS
  <1>3. D # {}
    BY <1>1, <1>2
  <1>4. PICK d \in D : \A e \in D : d <= e
    BY <1>3, LeastNat
  <1>5. PICK x \in F : x \notin T /\ d = Dist(x, w)
    BY <1>2
  <1>6. PICK b \in F \cup {w} : Dist(b, w) < Dist(x, w) /\ b \notin T
    BY <1>5
  <1>7. Dist(b, w) \in D
    BY <1>1, <1>2, <1>6
  <1>8. Dist(x, w) <= Dist(b, w) /\ Dist(b, w) \in Nat /\ Dist(x, w) \in Nat
    BY <1>1, <1>4, <1>5, <1>7
  <1>9. QED
    BY <1>6, <1>8

(* The two calls of IpcMsg_Read fetch a whole message and move on by its      *)
(* size, if the copy of Write_Pos they go by is beyond it.                    *)
LEMMA ReadsWhole ==
  ASSUME NEW r \in Pos, NEW mm \in [Addr -> Word], NEW m \in Msg,
         Holds(mm, r.Read_Pos, m), MsgSize(m) <= Dist(r.Read_Pos, r.Write_Pos)
  PROVE  LET h == AfterHead(r)
             head == HeadAt(r, mm)
         IN  /\ head = [m |-> m, k |-> 0]
             /\ h = [r EXCEPT !.Read_Pos = Fwd(r.Read_Pos, 1)]
             /\ Assembled(head, BodyAt(h, head, mm)) = m
             /\ AfterBody(h, head) = [r EXCEPT !.Read_Pos = Fwd(r.Read_Pos, MsgSize(m))]
  <1> DEFINE h == AfterHead(r)
             head == HeadAt(r, mm)
             rp == r.Read_Pos
             n == MsgSize(m) - 1
  <1>1. rp \in Addr /\ r.Write_Pos \in Addr
    BY DEF Pos
  <1>2. /\ MsgSize(m) \in Nat /\ n \in Nat /\ n >= 1 /\ MsgSize(m) = 1 + n
        /\ DataLen[m] \in 1 .. n
    <2>1. MsgSize(m) \in Nat /\ MsgSize(m) >= DataLen[m] + 1 /\ MsgSize(m) >= 2
      BY MsgSizeType
    <2>2. DataLen[m] \in Nat \ {0}
      BY DataLenAssumption
    <2>3. QED
      BY <2>1, <2>2
  <1>3. Dist(rp, r.Write_Pos) \in Addr
    BY <1>1, DistType
  <1>4. BlockOf([m |-> m, k |-> 0]) = n
    BY DEF BlockOf, LenOf, MsgSize
  <1> HIDE DEF n
  <1>5. n < Size /\ 1 < Size /\ 1 + n < Size
    BY <1>2, <1>3, SizeAssumption DEF Addr
  <1>6. head = [m |-> m, k |-> 0]
    BY HeadAtRead DEF Holds
  <1>7. h = [r EXCEPT !.Read_Pos = Fwd(rp, 1)]
    BY <1>5, ReadPosFwd DEF AfterHead
  <1>8. Fwd(rp, 1) \in Addr /\ Dist(rp, Fwd(rp, 1)) = 1
    BY <1>1, <1>5, FwdDist
  <1>9. h \in Pos /\ h.Read_Pos = Fwd(rp, 1) /\ h.Write_Pos = r.Write_Pos
    BY <1>7, <1>8 DEF Pos
  <1> HIDE DEF h, head
  <1>10. n <= Dist(h.Read_Pos, h.Write_Pos)
    <2>1. 1 + Dist(Fwd(rp, 1), r.Write_Pos) = Dist(rp, r.Write_Pos)
      BY <1>1, <1>2, <1>3, <1>8, DistVia, SizeAssumption DEF Addr
    <2>2. Dist(Fwd(rp, 1), r.Write_Pos) \in Addr
      BY <1>1, <1>8, DistType
    <2>3. QED
      BY <1>2, <1>3, <1>9, <2>1, <2>2, SizeAssumption DEF Addr
  <1>11. BodyAt(h, head, mm) = Payload(m)
    <2>1. BodyAt(h, head, mm) = Fetched(h, mm, DataLen[m], n)
      BY <1>4, <1>6 DEF BodyAt, LenOf
    <2>2. ASSUME NEW i \in 1 .. DataLen[m]
          PROVE  Fetched(h, mm, DataLen[m], n)[i] = [m |-> m, k |-> i]
      <3>1. Fetched(h, mm, DataLen[m], n)[i] = mm[Fwd(Fwd(rp, 1), i - 1)]
        BY <1>2, <1>9, <1>10, FetchedAt
      <3>2. i - 1 \in Nat /\ 1 + (i - 1) = i /\ 1 + (i - 1) < Size
        BY <1>2, <1>5, SizeAssumption
      <3>3. Fwd(Fwd(rp, 1), i - 1) = Fwd(rp, i)
        BY <1>1, <3>2, FwdTwice
      <3>4. QED
        BY <3>1, <3>3 DEF Holds
    <2>3. Fetched(h, mm, DataLen[m], n)
            = [i \in 1 .. DataLen[m] |-> Fetched(h, mm, DataLen[m], n)[i]]
      BY DEF Fetched
    <2>4. QED
      BY <2>1, <2>2, <2>3 DEF Payload
  <1>12. Assembled(head, BodyAt(h, head, mm)) = m
    BY <1>6, <1>11 DEF Assembled
  <1>13. AfterBody(h, head) = [r EXCEPT !.Read_Pos = Fwd(rp, MsgSize(m))]
    <2>1. ReadPosAfter(h, n) = Fwd(Fwd(rp, 1), n)
      BY <1>2, <1>5, <1>9, ReadPosFwd
    <2>2. Fwd(Fwd(rp, 1), n) = Fwd(rp, MsgSize(m))
      BY <1>1, <1>2, <1>5, FwdTwice
    <2>3. QED
      BY <1>4, <1>6, <1>7, <2>1, <2>2 DEF AfterBody
  <1>14. QED
    BY <1>6, <1>7, <1>12, <1>13 DEF h, head

-----------------------------------------------------------------------------
(* What Contents computes.                                                    *)

\* The message a reader takes that begins at p, and where the next one begins.
MsgAt(r, mm, p) ==
  LET at   == [r EXCEPT !.Read_Pos = p]
      head == HeadAt(at, mm)
  IN  Assembled(head, BodyAt(AfterHead(at), head, mm))
NextAt(r, mm, p) ==
  LET at == [r EXCEPT !.Read_Pos = p]
  IN  AfterBody(AfterHead(at), HeadAt(at, mm)).Read_Pos

\* The walk of Contents, row by row: row n follows n messages at most.
Row(r, mm, n, row) ==
  [p \in Addr |->
     IF p = r.Write_Pos THEN << >>
     ELSE IF MsgAt(r, mm, p) = NoMsg \/ n = 0 THEN << NoMsg >>
     ELSE << MsgAt(r, mm, p) >> \o row[NextAt(r, mm, p)]]
Walk(r, mm) == CHOOSE walk : walk = [n \in 0 .. Size |-> Row(r, mm, n, walk[n - 1])]
Rest(r, mm, a) == Walk(r, mm)[Size][a]

\* Contents is what is unread from Read_Pos on.
LEMMA ContentsRest ==
  ASSUME NEW r, NEW mm
  PROVE  Contents(r, mm) = Rest(r, mm, r.Read_Pos)
  BY DEF Contents, Rest, Walk, Row, MsgAt, NextAt

\* The recursion has a solution.
LEMMA WalkRow ==
  ASSUME NEW r, NEW mm, NEW n \in 0 .. Size
  PROVE  Walk(r, mm)[n] = Row(r, mm, n, Walk(r, mm)[n - 1])
  <1> DEFINE Upto(k, f) == f = [i \in 0 .. k |-> Row(r, mm, i, f[i - 1])]
  <1>1. \A f, g : Row(r, mm, 0, f) = Row(r, mm, 0, g)
    BY DEF Row
  <1>2. ASSUME NEW k \in Nat, NEW f, Upto(k, f)
        PROVE  \E g : Upto(k + 1, g)
    <2> DEFINE g == [i \in 0 .. k + 1 |-> IF i <= k THEN f[i] ELSE Row(r, mm, i, f[k])]
    <2>1. ASSUME NEW i \in 0 .. k + 1
          PROVE  g[i] = Row(r, mm, i, g[i - 1])
      <3>1. CASE i = 0
        <4>1. g[i] = f[i] /\ f[i] = Row(r, mm, i, f[i - 1])
          BY <1>2, <3>1
        <4>2. QED
          BY <1>1, <3>1, <4>1
      <3>2. CASE i \in 1 .. k
        <4>1. g[i] = f[i] /\ f[i] = Row(r, mm, i, f[i - 1]) /\ g[i - 1] = f[i - 1]
          BY <1>2, <3>2
        <4>2. QED
          BY <4>1
      <3>3. CASE i = k + 1
        <4>1. g[i] = Row(r, mm, i, f[k]) /\ g[i - 1] = f[k]
          BY <3>3
        <4>2. QED
          BY <4>1
      <3>4. QED
        BY <3>1, <3>2, <3>3
    <2>2. Upto(k + 1, g)
      BY <2>1
    <2>3. QED
      BY <2>2
  <1>3. \E f : Upto(0, f)
    <2> DEFINE f == [i \in 0 .. 0 |-> Row(r, mm, i, << >>)]
    <2>1. Upto(0, f)
      BY <1>1
    <2>2. QED
      BY <2>1
  <1> HIDE DEF Upto
  <1>4. ASSUME NEW k \in Nat
        PROVE  \E f : Upto(k, f)
    <2> SUFFICES ASSUME ~ \E f : Upto(k, f)
                 PROVE  FALSE
      OBVIOUS
    <2>1. PICK S \in SUBSET Nat : S = {j \in Nat : ~ \E f : Upto(j, f)}
      OBVIOUS
    <2>2. S # {}
      BY <2>1
    <2>3. PICK j \in S : \A i \in S : j <= i
      BY <2>2, LeastNat
    <2>4. j # 0
      BY <1>3, <2>1
    <2>5. j - 1 \in Nat /\ j - 1 \notin S
      BY <2>3, <2>4
    <2>6. \E f : Upto((j - 1) + 1, f)
      BY <1>2, <2>1, <2>5
    <2>7. (j - 1) + 1 = j
      BY <2>3
    <2>8. QED
      BY <2>1, <2>3, <2>6, <2>7
  <1>5. \E f : Upto(Size, f)
    BY <1>4, SizeAssumption
  <1>6. Upto(Size, Walk(r, mm))
    BY <1>5 DEF Walk, Upto
  <1>7. QED
    BY <1>6 DEF Upto

\* Along the heads, the walk meets the messages.
LEMMA WalkAt ==
  ASSUME NEW F \in SUBSET Addr, NEW r \in Pos, NEW mm \in [Addr -> Word],
         HeadsAt(F, r, mm)
  PROVE  /\ \A n \in 0 .. Size : Walk(r, mm)[n][r.Write_Pos] = << >>
         /\ \A n \in 1 .. Size, a \in F :
              Walk(r, mm)[n][a]
                = << mm[a].m >> \o Walk(r, mm)[n - 1][Fwd(a, MsgSize(mm[a].m))]
  <1>1. r.Write_Pos \in Addr
    BY DEF Pos
  <1>2. ASSUME NEW n \in 0 .. Size
        PROVE  Walk(r, mm)[n][r.Write_Pos] = << >>
    <2>1. Row(r, mm, n, Walk(r, mm)[n - 1])[r.Write_Pos] = << >>
      BY <1>1 DEF Row
    <2>2. QED
      BY <2>1, WalkRow
  <1>3. ASSUME NEW n \in 1 .. Size, NEW a \in F
        PROVE  Walk(r, mm)[n][a]
                 = << mm[a].m >> \o Walk(r, mm)[n - 1][Fwd(a, MsgSize(mm[a].m))]
    <2> DEFINE m == mm[a].m
               at == [r EXCEPT !.Read_Pos = a]
    <2>1. a \in Addr /\ a # r.Write_Pos
      <3>1. a \in Addr /\ Before(r, a)
        BY DEF HeadsAt
      <3>2. Dist(r.Read_Pos, r.Write_Pos) \in Addr
        BY DistType DEF Pos
      <3>3. QED
        BY <3>1, <3>2, SizeAssumption DEF Before, Addr
    <2>2. /\ m \in Msg /\ Holds(mm, a, m) /\ MsgSize(m) <= Dist(a, r.Write_Pos)
      BY DEF HeadsAt
    <2>3. at \in Pos /\ at.Read_Pos = a /\ at.Write_Pos = r.Write_Pos
      BY <2>1 DEF Pos
    <2> HIDE DEF at
    <2>4. /\ Assembled(HeadAt(at, mm), BodyAt(AfterHead(at), HeadAt(at, mm), mm)) = m
          /\ AfterBody(AfterHead(at), HeadAt(at, mm))
               = [at EXCEPT !.Read_Pos = Fwd(a, MsgSize(m))]
      BY <2>2, <2>3, ReadsWhole
    <2>5. [at EXCEPT !.Read_Pos = Fwd(a, MsgSize(m))].Read_Pos = Fwd(a, MsgSize(m))
      BY <2>3 DEF Pos
    <2>6. MsgAt(r, mm, a) = m /\ NextAt(r, mm, a) = Fwd(a, MsgSize(m))
      BY <2>4, <2>5 DEF MsgAt, NextAt, at
    <2>7. n # 0 /\ n \in 0 .. Size /\ m # NoMsg
      BY <2>2, NoMsgAssumption
    <2>8. Row(r, mm, n, Walk(r, mm)[n - 1])[a]
            = << m >> \o Walk(r, mm)[n - 1][Fwd(a, MsgSize(m))]
      BY <2>1, <2>6, <2>7 DEF Row
    <2>9. QED
      BY <2>7, <2>8, WalkRow
  <1>4. QED
    BY <1>2, <1>3

\* From a head on, following more messages than there are makes no difference.
LEMMA WalkSettles ==
  ASSUME NEW F \in SUBSET Addr, NEW r \in Pos, NEW mm \in [Addr -> Word],
         HeadsAt(F, r, mm), NEW a \in F \cup {r.Write_Pos}
  PROVE  /\ Rest(r, mm, a) \in Seq(Msg)
         /\ \A n \in Dist(a, r.Write_Pos) .. Size : Walk(r, mm)[n][a] = Rest(r, mm, a)
  <1> DEFINE w == r.Write_Pos
             Good(x) == /\ Rest(r, mm, x) \in Seq(Msg)
                        /\ \A n \in Dist(x, w) .. Size : Walk(r, mm)[n][x] = Rest(r, mm, x)
  <1>1. w \in Addr
    BY DEF Pos
  <1>2. Good(w)
    <2>1. Dist(w, w) = 0
      BY <1>1, DistType
    <2>2. \A n \in 0 .. Size : Walk(r, mm)[n][w] = << >>
      BY WalkAt
    <2>3. Rest(r, mm, w) = << >>
      BY <2>2, SizeAssumption DEF Rest
    <2>4. << >> \in Seq(Msg)
      OBVIOUS
    <2>5. QED
      BY <2>1, <2>2, <2>3, <2>4
  <1>3. ASSUME NEW x \in F, Good(Fwd(x, MsgSize(mm[x].m)))
        PROVE  Good(x)
    <2> DEFINE m == mm[x].m
               y == Fwd(x, MsgSize(m))
    <2>1. /\ MsgSize(m) \in 2 .. Size - 1
          /\ Dist(y, w) = Dist(x, w) - MsgSize(m)
          /\ x \in Addr /\ y \in Addr /\ m \in Msg
      BY NextCloser DEF HeadsAt
    <2>2. Dist(x, w) \in Addr /\ Dist(y, w) \in Addr
      BY <1>1, <2>1, DistType
    <2>3. ASSUME NEW n \in Dist(x, w) .. Size
          PROVE  Walk(r, mm)[n][x] = << m >> \o Rest(r, mm, y)
      <3>1. n \in 1 .. Size /\ n - 1 \in Dist(y, w) .. Size
        BY <2>1, <2>2, SizeAssumption DEF Addr
      <3>2. Walk(r, mm)[n][x] = << m >> \o Walk(r, mm)[n - 1][y]
        BY <3>1, WalkAt
      <3>3. Walk(r, mm)[n - 1][y] = Rest(r, mm, y)
        BY <1>3, <3>1
      <3>4. QED
        BY <3>2, <3>3
    <2>4. Rest(r, mm, x) = << m >> \o Rest(r, mm, y)
      <3>1. Size \in Dist(x, w) .. Size
        BY <2>2, SizeAssumption DEF Addr
      <3>2. QED
        BY <2>3, <3>1 DEF Rest
    <2>5. << m >> \o Rest(r, mm, y) \in Seq(Msg)
      BY <1>3, <2>1
    <2>6. QED
      BY <2>3, <2>4, <2>5
  <1>4. \A x \in F : /\ Fwd(x, MsgSize(mm[x].m)) \in F \cup {w}
                     /\ Dist(Fwd(x, MsgSize(mm[x].m)), w) < Dist(x, w)
    <2>1. ASSUME NEW x \in F
          PROVE  Dist(Fwd(x, MsgSize(mm[x].m)), w) < Dist(x, w)
      <3>1. /\ MsgSize(mm[x].m) \in 2 .. Size - 1
            /\ Dist(Fwd(x, MsgSize(mm[x].m)), w) = Dist(x, w) - MsgSize(mm[x].m)
        BY NextCloser
      <3>2. Dist(x, w) \in Addr
        BY <1>1, DistType
      <3>3. QED
        BY <3>1, <3>2, SizeAssumption DEF Addr
    <2>2. QED
      BY <2>1 DEF HeadsAt
  <1> HIDE DEF Good
  <1>5. PICK T \in SUBSET Addr : T = {x \in Addr : Good(x)}
    OBVIOUS
  <1>6. F \subseteq T
    <2>1. w \in T
      BY <1>1, <1>2, <1>5
    <2>2. \A x \in F : Fwd(x, MsgSize(mm[x].m)) \in T => x \in T
      BY <1>3, <1>5
    <2>3. QED
      BY <1>1, <1>4, <2>1, <2>2, HeadsInduction
  <1>7. Good(a)
    BY <1>2, <1>5, <1>6
  <1>8. QED
    BY <1>7 DEF Good

\* The messages from a head on are its own and those from the next one on.
LEMMA RestAt ==
  ASSUME NEW F \in SUBSET Addr, NEW r \in Pos, NEW mm \in [Addr -> Word],
         HeadsAt(F, r, mm)
  PROVE  /\ Rest(r, mm, r.Write_Pos) = << >>
         /\ \A a \in F : Rest(r, mm, a)
                           = << mm[a].m >> \o Rest(r, mm, Fwd(a, MsgSize(mm[a].m)))
  <1>1. Rest(r, mm, r.Write_Pos) = << >>
    <2>1. Size \in 0 .. Size
      BY SizeAssumption
    <2>2. QED
      BY <2>1, WalkAt DEF Rest
  <1>2. ASSUME NEW a \in F
        PROVE  Rest(r, mm, a) = << mm[a].m >> \o Rest(r, mm, Fwd(a, MsgSize(mm[a].m)))
    <2> DEFINE b == Fwd(a, MsgSize(mm[a].m))
    <2>1. b \in F \cup {r.Write_Pos} /\ b \in Addr
      BY NextCloser DEF HeadsAt
    <2>2. Size \in 1 .. Size
      BY SizeAssumption
    <2>3. Rest(r, mm, a) = << mm[a].m >> \o Walk(r, mm)[Size - 1][b]
      BY <2>2, WalkAt DEF Rest
    <2>4. Size - 1 \in Dist(b, r.Write_Pos) .. Size
      <3>1. Dist(b, r.Write_Pos) \in Addr
        BY <2>1, DistType DEF Pos
      <3>2. QED
        BY <3>1, SizeAssumption DEF Addr
    <2>5. Walk(r, mm)[Size - 1][b] = Rest(r, mm, b)
      BY <2>1, <2>4, WalkSettles
    <2>6. QED
      BY <2>3, <2>5
  <1>3. QED
    BY <1>1, <1>2

\* Going on from a, short of w, one stays on the way from r to w.
LEMMA WithinAhead ==
  ASSUME NEW r \in Addr, NEW w \in Addr, NEW a \in Addr, NEW k \in Nat,
         Dist(r, a) < Dist(r, w), k < Dist(a, w)
  PROVE  Fwd(a, k) \in Addr /\ Dist(r, Fwd(a, k)) < Dist(r, w)
  <1>1. Dist(r, a) + Dist(a, w) = Dist(r, w)
    BY DistVia, DistType, SizeAssumption DEF Addr
  <1>2. Dist(r, a) \in Addr /\ Dist(a, w) \in Addr /\ Dist(r, w) \in Addr
    BY DistType
  <1>3. k < Size /\ Dist(r, a) + k < Size /\ Dist(r, a) + k < Dist(r, w)
    BY <1>1, <1>2, SizeAssumption DEF Addr
  <1>4. QED
    BY <1>3, FwdDist, DistGrows

\* A walk no longer than the way to w that does not end at w falls short of it.
LEMMA StopsShort ==
  ASSUME NEW w \in Addr, NEW a \in Addr, NEW k \in Int, k <= Dist(a, w), Fwd(a, k) # w
  PROVE  k < Dist(a, w)
  BY SizeAssumption DEF Addr, Dist, Fwd

\* The end of the way moves on by n words.
LEMMA EndMoves ==
  ASSUME NEW r \in Addr, NEW w \in Addr, NEW n \in Nat, 0 < n, Dist(r, w) + n < Size
  PROVE  LET v == Fwd(w, n)
         IN  /\ v \in Addr /\ r # v
             /\ Dist(w, v) = n /\ Dist(r, v) = Dist(r, w) + n
             /\ \A a \in Addr : Dist(r, a) < Dist(r, w) => Dist(a, v) = Dist(a, w) + n
  <1> DEFINE v == Fwd(w, n)
  <1>1. Dist(r, w) \in Addr
    BY DistType
  <1>2. v \in Addr /\ Dist(w, v) = n /\ Dist(r, v) = Dist(r, w) + n
    BY <1>1, FwdDist, DistGrows, SizeAssumption DEF Addr
  <1>3. r # v
    BY <1>1, <1>2, DistType, SizeAssumption DEF Addr
  <1>4. ASSUME NEW a \in Addr, Dist(r, a) < Dist(r, w)
        PROVE  Dist(a, v) = Dist(a, w) + n
    <2>1. Dist(r, a) + Dist(a, w) = Dist(r, w)
      BY <1>1, <1>4, DistType, DistVia, SizeAssumption DEF Addr
    <2>2. Dist(r, a) \in Addr /\ Dist(a, w) \in Addr
      BY DistType
    <2>3. Dist(a, w) + n < Size
      BY <1>1, <2>1, <2>2, SizeAssumption DEF Addr
    <2>4. QED
      BY <2>3, DistGrows
  <1>5. QED
    BY <1>2, <1>3, <1>4

\* There is no message in an empty ring.
LEMMA ContentsEmpty ==
  ASSUME NEW r \in Pos, NEW mm \in [Addr -> Word], r.Read_Pos = r.Write_Pos
  PROVE  HeadsAt({}, r, mm) /\ Contents(r, mm) = << >>
  <1>1. HeadsAt({}, r, mm)
    BY DEF HeadsAt
  <1>2. Rest(r, mm, r.Write_Pos) = << >>
    BY <1>1, RestAt
  <1>3. QED
    BY <1>1, <1>2, ContentsRest

\* What is stored out of the way of the unread words leaves the messages alone.
LEMMA ContentsKept ==
  ASSUME NEW F \in SUBSET Addr, NEW r \in Pos, NEW mm \in [Addr -> Word],
         HeadsAt(F, r, mm), NEW nn \in [Addr -> Word],
         \A a \in Addr : Before(r, a) => nn[a] = mm[a]
  PROVE  HeadsAt(F, r, nn) /\ Contents(r, nn) = Contents(r, mm)
  <1> DEFINE w == r.Write_Pos
             Next1(a) == Fwd(a, MsgSize(mm[a].m))
  <1>1. w \in Addr /\ r.Read_Pos \in Addr
    BY DEF Pos
  <1>2. ASSUME NEW a \in F
        PROVE  /\ a \in Addr /\ nn[a] = mm[a] /\ mm[a].m \in Msg
               /\ Holds(nn, a, mm[a].m)
    <2> DEFINE m == mm[a].m
               n == MsgSize(m)
    <2>1. a \in Addr /\ Before(r, a) /\ m \in Msg /\ Holds(mm, a, m)
          /\ n <= Dist(a, w)
      BY DEF HeadsAt
    <2>2. n \in Nat /\ DataLen[m] \in Nat /\ DataLen[m] < n
      <3>1. n \in Nat /\ n >= DataLen[m] + 1
        BY <2>1, MsgSizeType
      <3>2. QED
        BY <2>1, <3>1, DataLenAssumption
    <2> HIDE DEF n
    <2>3. ASSUME NEW k \in 1 .. DataLen[m]
          PROVE  nn[Fwd(a, k)] = mm[Fwd(a, k)]
      <3>1. k \in Nat /\ k < Dist(a, w)
        <4>1. Dist(a, w) \in Addr
          BY <1>1, <2>1, DistType
        <4>2. QED
          BY <2>1, <2>2, <4>1, SizeAssumption DEF Addr
      <3>2. Fwd(a, k) \in Addr /\ Before(r, Fwd(a, k))
        BY <1>1, <2>1, <3>1, WithinAhead DEF Before
      <3>3. QED
        BY <3>2
    <2>4. QED
      BY <2>1, <2>3 DEF Holds
  <1>3. HeadsAt(F, r, nn)
    BY <1>2 DEF HeadsAt
  <1>4. PICK T \in SUBSET Addr : T = {a \in Addr : Rest(r, nn, a) = Rest(r, mm, a)}
    OBVIOUS
  <1>5. w \in T
    BY <1>1, <1>3, <1>4, RestAt
  <1>6. ASSUME NEW a \in F
        PROVE  /\ Next1(a) \in F \cup {w}
               /\ Dist(Next1(a), w) < Dist(a, w)
               /\ Next1(a) \in T => a \in T
    <2>1. /\ MsgSize(mm[a].m) \in 2 .. Size - 1
          /\ Dist(Next1(a), w) = Dist(a, w) - MsgSize(mm[a].m)
      BY NextCloser
    <2>2. Dist(a, w) \in Addr
      BY <1>1, DistType
    <2>3. Dist(Next1(a), w) < Dist(a, w)
      BY <2>1, <2>2, SizeAssumption DEF Addr
    <2>4. /\ Rest(r, mm, a) = << mm[a].m >> \o Rest(r, mm, Next1(a))
          /\ Rest(r, nn, a) = << nn[a].m >> \o Rest(r, nn, Fwd(a, MsgSize(nn[a].m)))
      BY <1>3, RestAt
    <2>5. QED
      BY <1>2, <1>4, <2>3, <2>4 DEF HeadsAt
  <1> HIDE DEF Next1
  <1>7. F \subseteq T
    <2>1. \A a \in F : \E b \in F \cup {w} :
            Dist(b, w) < Dist(a, w) /\ (b \in T => a \in T)
      BY <1>6
    <2>2. QED
      BY <1>1, <1>5, <2>1, HeadsInduction
  <1>8. r.Read_Pos \in T
    BY <1>5, <1>7 DEF HeadsAt
  <1>9. QED
    BY <1>3, <1>4, <1>8, ContentsRest

\* From r to q, Write_Pos moves past message m, which is stored there.
Puts(F, r, mm, m, q) ==
  /\ F \in SUBSET Addr /\ r \in Pos /\ mm \in [Addr -> Word] /\ m \in Msg /\ q \in Pos
  /\ HeadsAt(F, r, mm) /\ Holds(mm, r.Write_Pos, m)
  /\ Dist(r.Read_Pos, r.Write_Pos) + MsgSize(m) < Size
  /\ q.Read_Pos = r.Read_Pos /\ q.Write_Pos = Fwd(r.Write_Pos, MsgSize(m))

\* From r to q, Read_Pos moves past the oldest message.
Takes(F, r, mm, q) ==
  /\ F \in SUBSET Addr /\ r \in Pos /\ mm \in [Addr -> Word] /\ q \in Pos
  /\ HeadsAt(F, r, mm) /\ r.Read_Pos # r.Write_Pos
  /\ q.Read_Pos = Fwd(r.Read_Pos, MsgSize(mm[r.Read_Pos].m))
  /\ q.Write_Pos = r.Write_Pos

\* The one adds the message at the end.
LEMMA ContentsPut ==
  ASSUME NEW F, NEW r, NEW mm, NEW m, NEW q, Puts(F, r, mm, m, q)
  PROVE  /\ \E G \in SUBSET Addr : HeadsAt(G, q, mm)
         /\ Contents(q, mm) = Append(Contents(r, mm), m)
  <1> USE DEF Puts
  <1> DEFINE n == MsgSize(m)
             w == r.Write_Pos
             v == q.Write_Pos
             G == F \cup {w}
             Next1(a) == Fwd(a, MsgSize(mm[a].m))
  <1>1. /\ w \in Addr /\ r.Read_Pos \in Addr /\ v \in Addr
        /\ v = Fwd(w, n) /\ q.Read_Pos = r.Read_Pos
    BY DEF Pos
  <1>2. n \in Nat /\ n >= 2 /\ Dist(r.Read_Pos, w) + n < Size
    BY MsgSizeType
  <1> HIDE DEF n
  <1>3. ASSUME NEW a \in Addr, Before(r, a)
        PROVE  Before(q, a) /\ Dist(a, v) = Dist(a, w) + n
    <2>1. /\ Dist(r.Read_Pos, v) = Dist(r.Read_Pos, w) + n
          /\ Dist(a, v) = Dist(a, w) + n
      BY <1>1, <1>2, <1>3, EndMoves DEF Before
    <2>2. Dist(r.Read_Pos, w) \in Addr /\ Dist(r.Read_Pos, a) \in Addr
      BY <1>1, DistType
    <2>3. QED
      BY <1>1, <1>2, <1>3, <2>1, <2>2, SizeAssumption DEF Before, Addr
  <1>4. Before(q, w) /\ Dist(w, v) = n /\ r.Read_Pos # v
    <2>1. /\ Dist(r.Read_Pos, v) = Dist(r.Read_Pos, w) + n
          /\ Dist(w, v) = n /\ r.Read_Pos # v
      BY <1>1, <1>2, EndMoves
    <2>2. Dist(r.Read_Pos, w) \in Addr
      BY <1>1, DistType
    <2>3. QED
      BY <1>1, <1>2, <2>1, <2>2, SizeAssumption DEF Before, Addr
  <1>5. mm[w] = [m |-> m, k |-> 0]
    BY DEF Holds
  <1>6. G \in SUBSET Addr /\ HeadsAt(G, q, mm)
    <2>1. ASSUME NEW a \in G
          PROVE  Before(q, a)
      BY <1>3, <1>4 DEF HeadsAt
    <2>2. q.Read_Pos \in G
      BY <1>1 DEF HeadsAt
    <2>3. ASSUME NEW a \in F
          PROVE  /\ mm[a].m \in Msg
                 /\ Holds(mm, a, mm[a].m)
                 /\ MsgSize(mm[a].m) <= Dist(a, v)
                 /\ Next1(a) \in G \cup {v}
      <3>1. /\ Before(r, a) /\ mm[a].m \in Msg /\ Holds(mm, a, mm[a].m)
            /\ MsgSize(mm[a].m) <= Dist(a, w)
            /\ Next1(a) \in F \cup {w}
        BY DEF HeadsAt
      <3>2. Dist(a, v) = Dist(a, w) + n
        BY <1>3, <3>1
      <3>3. MsgSize(mm[a].m) \in Nat /\ Dist(a, w) \in Addr
        BY <1>1, <3>1, MsgSizeType, DistType
      <3>4. MsgSize(mm[a].m) <= Dist(a, v)
        BY <1>2, <3>1, <3>2, <3>3, SizeAssumption DEF Addr
      <3>5. QED
        BY <3>1, <3>4
    <2>4. /\ mm[w].m \in Msg
          /\ Holds(mm, w, mm[w].m)
          /\ MsgSize(mm[w].m) <= Dist(w, v)
          /\ Next1(w) = v
      BY <1>1, <1>2, <1>4, <1>5 DEF n
    <2>5. QED
      BY <1>1, <2>1, <2>2, <2>3, <2>4 DEF HeadsAt
  <1>7. Rest(q, mm, v) = << >> /\ Rest(q, mm, w) = << m >>
    <2>1. /\ Rest(q, mm, v) = << >>
          /\ \A a \in G : Rest(q, mm, a) = << mm[a].m >> \o Rest(q, mm, Next1(a))
      BY <1>6, RestAt
    <2>2. mm[w].m = m /\ Next1(w) = v
      BY <1>1, <1>5 DEF n
    <2>3. << m >> \o << >> = << m >>
      OBVIOUS
    <2>4. QED
      BY <2>1, <2>2, <2>3
  <1>8. PICK T \in SUBSET Addr :
           T = {a \in Addr : Rest(q, mm, a) = Append(Rest(r, mm, a), m)}
    OBVIOUS
  <1>9. w \in T
    <2>1. Rest(r, mm, w) = << >>
      BY RestAt
    <2>2. Append(<< >>, m) = << m >>
      OBVIOUS
    <2>3. QED
      BY <1>1, <1>7, <1>8, <2>1, <2>2
  <1>10. ASSUME NEW a \in F
         PROVE  /\ Next1(a) \in F \cup {w}
                /\ Dist(Next1(a), w) < Dist(a, w)
                /\ Next1(a) \in T => a \in T
    <2>1. /\ MsgSize(mm[a].m) \in 2 .. Size - 1
          /\ Dist(Next1(a), w) = Dist(a, w) - MsgSize(mm[a].m)
          /\ a \in Addr
      BY NextCloser
    <2>2. Dist(a, w) \in Addr
      BY <1>1, <2>1, DistType
    <2>3. Dist(Next1(a), w) < Dist(a, w)
      BY <2>1, <2>2, SizeAssumption DEF Addr
    <2>4. Next1(a) \in F \cup {w} /\ mm[a].m \in Msg
      BY DEF HeadsAt
    <2>5. /\ Rest(r, mm, a) = << mm[a].m >> \o Rest(r, mm, Next1(a))
          /\ Rest(q, mm, a) = << mm[a].m >> \o Rest(q, mm, Next1(a))
      <3>1. Rest(r, mm, a) = << mm[a].m >> \o Rest(r, mm, Next1(a))
        BY RestAt
      <3>2. \A b \in G : Rest(q, mm, b) = << mm[b].m >> \o Rest(q, mm, Next1(b))
        BY <1>6, RestAt
      <3>3. QED
        BY <3>1, <3>2
    <2>6. Rest(r, mm, Next1(a)) \in Seq(Msg)
      BY <2>4, WalkSettles
    <2>7. \A s \in Seq(Msg) : << mm[a].m >> \o Append(s, m)
                                = Append(<< mm[a].m >> \o s, m)
      BY <2>4
    <2>8. Next1(a) \in T => Rest(q, mm, a) = Append(Rest(r, mm, a), m)
      BY <1>8, <2>5, <2>6, <2>7
    <2>9. QED
      BY <1>8, <2>1, <2>3, <2>4, <2>8
  <1> HIDE DEF Next1
  <1>11. F \subseteq T
    <2>1. \A a \in F : \E b \in F \cup {w} :
            Dist(b, w) < Dist(a, w) /\ (b \in T => a \in T)
      BY <1>10
    <2>2. QED
      BY <1>1, <1>9, <2>1, HeadsInduction
  <1>12. r.Read_Pos \in T
    BY <1>9, <1>11 DEF HeadsAt
  <1>13. QED
    BY <1>1, <1>6, <1>8, <1>12, ContentsRest

\* The other takes the first one away.
LEMMA ContentsTake ==
  ASSUME NEW F, NEW r, NEW mm, NEW q, Takes(F, r, mm, q)
  PROVE  /\ \E G \in SUBSET Addr : HeadsAt(G, q, mm)
         /\ Contents(r, mm) # << >>
         /\ Head(Contents(r, mm)) = mm[r.Read_Pos].m
         /\ Tail(Contents(r, mm)) = Contents(q, mm)
  <1> /\ F \in SUBSET Addr /\ r \in Pos /\ mm \in [Addr -> Word] /\ q \in Pos
      /\ HeadsAt(F, r, mm) /\ r.Read_Pos # r.Write_Pos
      /\ q.Read_Pos = Fwd(r.Read_Pos, MsgSize(mm[r.Read_Pos].m))
      /\ q.Write_Pos = r.Write_Pos
    BY DEF Takes
  <1> DEFINE rp == r.Read_Pos
             qp == q.Read_Pos
             w == r.Write_Pos
             n == MsgSize(mm[rp].m)
             Next1(a) == Fwd(a, MsgSize(mm[a].m))
  <1>1. /\ rp \in Addr /\ w \in Addr /\ qp \in Addr /\ q.Write_Pos = w
        /\ qp = Fwd(rp, n)
    BY DEF Pos
  <1>2. rp \in F /\ Next1(rp) \in F \cup {w} /\ mm[rp].m \in Msg
    BY DEF HeadsAt
  <1>3. n \in 2 .. Size - 1 /\ Dist(qp, w) = Dist(rp, w) - n
    BY <1>1, <1>2, NextCloser
  <1> HIDE DEF n
  <1>4. PICK G \in SUBSET Addr : G = {a \in F : Dist(qp, a) < Dist(qp, w)}
    OBVIOUS
  <1>5. HeadsAt(G, q, mm)
    <2>1. qp # w => qp \in G
      <3>1. qp # w => Dist(qp, qp) < Dist(qp, w)
        BY <1>1, SizeAssumption DEF Dist, Addr
      <3>2. QED
        BY <1>1, <1>2, <1>4, <3>1 DEF n
    <2>2. ASSUME NEW a \in G
          PROVE  /\ Before(q, a)
                 /\ mm[a].m \in Msg /\ Holds(mm, a, mm[a].m)
                 /\ MsgSize(mm[a].m) <= Dist(a, w)
                 /\ Next1(a) \in G \cup {w}
      <3> DEFINE k == MsgSize(mm[a].m)
                 b == Fwd(a, k)
      <3>1. a \in F /\ a \in Addr /\ Dist(qp, a) < Dist(qp, w)
        BY <1>4
      <3>2. /\ mm[a].m \in Msg /\ Holds(mm, a, mm[a].m)
            /\ k <= Dist(a, w) /\ b \in F \cup {w}
        BY <3>1 DEF HeadsAt
      <3>3. k \in 2 .. Size - 1
        BY <3>1, NextCloser
      <3> HIDE DEF k
      <3>4. b # w => Dist(qp, b) < Dist(qp, w)
        <4>1. b # w => k < Dist(a, w)
          BY <1>1, <3>1, <3>2, <3>3, StopsShort
        <4>2. QED
          BY <1>1, <3>1, <3>3, <4>1, WithinAhead
      <3>5. QED
        BY <1>1, <1>4, <3>1, <3>2, <3>4 DEF Before, k
    <2>3. QED
      BY <1>1, <2>1, <2>2 DEF HeadsAt
  <1>6. PICK T \in SUBSET Addr : T = {a \in Addr : Rest(q, mm, a) = Rest(r, mm, a)}
    OBVIOUS
  <1>7. w \in T
    <2>1. Rest(q, mm, q.Write_Pos) = << >> /\ Rest(r, mm, w) = << >>
      BY <1>5, RestAt
    <2>2. QED
      BY <1>1, <1>6, <2>1
  <1>8. ASSUME NEW a \in G
        PROVE  /\ Next1(a) \in G \cup {w}
               /\ Dist(Next1(a), w) < Dist(a, w)
               /\ Next1(a) \in T => a \in T
    <2>1. a \in F /\ a \in Addr
      BY <1>4
    <2>2. /\ MsgSize(mm[a].m) \in 2 .. Size - 1
          /\ Dist(Next1(a), w) = Dist(a, w) - MsgSize(mm[a].m)
      BY <2>1, NextCloser
    <2>3. Dist(a, w) \in Addr
      BY <1>1, <2>1, DistType
    <2>4. Dist(Next1(a), w) < Dist(a, w)
      BY <2>2, <2>3, SizeAssumption DEF Addr
    <2>5. /\ Rest(r, mm, a) = << mm[a].m >> \o Rest(r, mm, Next1(a))
          /\ Rest(q, mm, a) = << mm[a].m >> \o Rest(q, mm, Next1(a))
      BY <1>5, <2>1, RestAt
    <2>6. Next1(a) \in G \cup {w}
      BY <1>1, <1>5 DEF HeadsAt
    <2>7. QED
      BY <1>6, <2>1, <2>4, <2>5, <2>6
  <1> HIDE DEF Next1
  <1>9. G \subseteq T
    <2>1. \A a \in G : \E b \in G \cup {w} :
            Dist(b, w) < Dist(a, w) /\ (b \in T => a \in T)
      BY <1>8
    <2>2. QED
      BY <1>1, <1>7, <2>1, HeadsInduction
  <1>10. qp \in T /\ qp \in F \cup {w}
    BY <1>1, <1>2, <1>5, <1>7, <1>9 DEF HeadsAt, Next1, n
  <1>11. Rest(q, mm, qp) = Rest(r, mm, qp)
    BY <1>6, <1>10
  <1>12. Rest(r, mm, rp) = << mm[rp].m >> \o Rest(r, mm, qp)
    <2>1. \A a \in F : Rest(r, mm, a)
                          = << mm[a].m >> \o Rest(r, mm, Fwd(a, MsgSize(mm[a].m)))
      BY RestAt
    <2>2. QED
      BY <1>1, <1>2, <2>1 DEF n
  <1>13. Rest(r, mm, qp) \in Seq(Msg)
    BY <1>10, WalkSettles
  <1>14. \A s \in Seq(Msg) : /\ << mm[rp].m >> \o s # << >>
                             /\ Head(<< mm[rp].m >> \o s) = mm[rp].m
                             /\ Tail(<< mm[rp].m >> \o s) = s
    BY <1>2
  <1>15. QED
    BY <1>5, <1>11, <1>12, <1>13, <1>14, ContentsRest

-----------------------------------------------------------------------------
(* The inductive invariant                                                    *)

R == RingBuf_send.Read_Pos
W == RingBuf_send.Write_Pos

Inside == {"snapshot", "full", "head", "body", "publish", "int", "unlock"}

\* The mutex protects everything between Lock and Unlock.
MutexOK == \A t \in Thread : pc[t] \in Inside => write_mutex = t

\* How far the owner of the mutex is.  What it decided on its copy of the
\* positions stays true of the shared ones: the DSP only gives room back.
WriterOK ==
  \A t \in Thread :
    /\ pc[t] # "idle" => msg[t] \in Msg
    /\ pc[t] = "full" => ~ Is_Ringbuf_ChFreeSpace(send_crl, MsgSize(msg[t]))
    /\ pc[t] \in {"head", "body", "publish"} =>
         /\ Dist(R, W) + MsgSize(msg[t]) < Size
         /\ Dist(send_crl.Read_Pos, W) + MsgSize(msg[t]) < Size
    /\ pc[t] = "head" => send_crl.Write_Pos = W
    /\ pc[t] = "body" => send_crl.Write_Pos = Fwd(W, 1)
    /\ pc[t] = "publish" => send_crl.Write_Pos = Fwd(W, MsgSize(msg[t]))
    /\ pc[t] = "body" => mem[W] = [m |-> msg[t], k |-> 0]
    /\ pc[t] = "publish" => Holds(mem, W, msg[t])

\* a is unread.
Ahead(a) == Dist(R, a) < Dist(R, W)

\* The ring holds whole messages from Read_Pos to Write_Pos.
Framed == \E F \in SUBSET Addr : HeadsAt(F, RingBuf_send, mem)

\* How far the DSP is with the oldest message.  What it has copied of the
\* positions still covers it, and what it has assembled is that message.
ReaderOK ==
  /\ dsp.pc \in {"head", "body"} => R # W
  /\ dsp.pc = "head" => /\ dsp.head = mem[R]
                        /\ dsp.rcv.Read_Pos = Fwd(R, 1)
                        /\ MsgSize(mem[R].m) <= Dist(R, dsp.rcv.Write_Pos)
  /\ dsp.pc = "body" => /\ dsp.rcv.Read_Pos = Fwd(R, MsgSize(mem[R].m))
                        /\ dsp.got = mem[R].m

IInv == TypeOK /\ MutexOK /\ WriterOK /\ Framed /\ ReaderOK

-----------------------------------------------------------------------------
(* Steps that store into the ring                                             *)

\* The words the DSP has yet to read are those Ahead of Read_Pos.
LEMMA UnreadAhead ==
  ASSUME TypeOK
  PROVE  Unread = {a \in Addr : Ahead(a)}
  <1>1. R \in Addr /\ W \in Addr
    BY DEF TypeOK, Pos, R, W
  <1>2. QED
    BY <1>1, SizeAssumption DEF Unread, Ahead, Dist, Addr, R, W

\* Storing less than Remain words from Write_Pos on, or from one beyond it,
\* stays clear of what is unread.
LEMMA ClearOfUnread ==
  ASSUME NEW r \in Addr, NEW w \in Addr, NEW v \in Addr, NEW a \in Addr,
         NEW n \in Nat, NEW k \in Nat,
         v = Fwd(w, k), Dist(r, w) + k + n < Size, Dist(r, a) < Dist(r, w)
  PROVE  Dist(v, a) >= n
  BY SizeAssumption DEF Addr, Dist, Fwd

(* WriteHead stores the head of the message at Write_Pos and nothing else.    *)
LEMMA WriteHeadStores ==
  ASSUME IInv, NEW t \in Thread, WriteHead(t)
  PROVE  /\ mem' \in [Addr -> Word]
         /\ mem'[W] = [m |-> msg[t], k |-> 0]
         /\ \A a \in Addr : Ahead(a) => mem'[a] = mem[a]
         /\ send_crl' = [send_crl EXCEPT !.Write_Pos = Fwd(W, 1)]
         /\ Fwd(W, 1) \in Addr
  <1> DEFINE m == msg[t]
  <1>1. /\ send_crl \in Pos /\ mem \in [Addr -> Word] /\ R \in Addr /\ W \in Addr
        /\ send_crl.Read_Pos \in Addr
    BY DEF IInv, TypeOK, Pos, R, W
  <1>2. /\ pc[t] = "head" /\ m \in Msg /\ send_crl.Write_Pos = W
        /\ Dist(R, W) + MsgSize(m) < Size
        /\ Dist(send_crl.Read_Pos, W) + MsgSize(m) < Size
    BY DEF IInv, WriterOK, WriteHead, Goto
  <1>3. /\ MsgSize(m) \in Nat /\ MsgSize(m) >= 2
        /\ Dist(R, W) \in Nat /\ Dist(send_crl.Read_Pos, W) \in Nat
    <2>1. MsgSize(m) \in Nat /\ MsgSize(m) >= 2
      BY <1>2, MsgSizeType
    <2>2. Dist(R, W) \in Addr /\ Dist(send_crl.Read_Pos, W) \in Addr
      BY <1>1, DistType
    <2>3. QED
      BY <2>1, <2>2 DEF Addr
  <1>4. /\ 1 + Dist(send_crl.Read_Pos, send_crl.Write_Pos) < Size
        /\ Dist(R, W) + 0 + 1 < Size
    BY <1>2, <1>3, SizeAssumption
  <1>5. /\ mem' = Stored(send_crl, mem, HeadWords(m))
        /\ send_crl' = [send_crl EXCEPT !.Write_Pos = WritePosAfter(send_crl, 1)]
    BY DEF WriteHead
  <1>6. WritePosAfter(send_crl, 1) = Fwd(W, 1)
    BY <1>1, <1>2, <1>4, WritePosFwd
  <1>7. /\ mem' \in [Addr -> Word]
        /\ \A a \in Addr : Dist(W, a) >= 1 => mem'[a] = mem[a]
    <2>1. Len(HeadWords(m)) = 1 /\ HeadWords(m) \in [1 .. 1 -> Word]
      BY <1>2, WordsType
    <2>2. /\ Stored(send_crl, mem, HeadWords(m)) \in [Addr -> Word]
          /\ \A a \in Addr : Dist(send_crl.Write_Pos, a) >= 1 =>
               Stored(send_crl, mem, HeadWords(m))[a] = mem[a]
      BY <1>1, <1>4, <2>1, StoredWords
    <2>3. QED
      BY <1>2, <1>5, <2>2
  <1>8. mem'[W] = [m |-> m, k |-> 0]
    <2>1. Len(HeadWords(m)) = 1 /\ HeadWords(m)[1] = [m |-> m, k |-> 0]
      BY <1>2, WordsType
    <2>2. Stored(send_crl, mem, HeadWords(m))[send_crl.Write_Pos] = HeadWords(m)[1]
      BY <1>1, <2>1, StoredFirst
    <2>3. QED
      BY <1>2, <1>5, <2>1, <2>2
  <1>9. ASSUME NEW a \in Addr, Ahead(a)
        PROVE  mem'[a] = mem[a]
    <2>1. W = Fwd(W, 0)
      BY <1>1, SizeAssumption DEF Addr, Fwd
    <2>2. Dist(W, a) >= 1
      BY <1>1, <1>4, <1>9, <2>1, ClearOfUnread DEF Ahead
    <2>3. QED
      BY <1>7, <2>2
  <1>10. Fwd(W, 1) \in Addr
    BY <1>1, <1>3, <1>4, FwdDist, SizeAssumption
  <1>11. QED
    BY <1>5, <1>6, <1>7, <1>8, <1>9, <1>10

(* WriteBody stores behind the head, and short of what is unread.             *)
LEMMA WriteBodyStores ==
  ASSUME IInv, NEW t \in Thread, WriteBody(t)
  PROVE  /\ mem' \in [Addr -> Word]
         /\ Holds(mem', W, msg[t])
         /\ \A a \in Addr : Ahead(a) => mem'[a] = mem[a]
         /\ send_crl' = [send_crl EXCEPT !.Write_Pos = Fwd(W, MsgSize(msg[t]))]
         /\ Fwd(W, MsgSize(msg[t])) \in Addr
  <1> DEFINE m == msg[t]
             n == MsgSize(m) - 1
             rs == send_crl.Read_Pos
             ws == send_crl.Write_Pos
  <1>1. /\ send_crl \in Pos /\ mem \in [Addr -> Word] /\ R \in Addr /\ W \in Addr
        /\ rs \in Addr /\ ws \in Addr
    BY DEF IInv, TypeOK, Pos, R, W
  <1>2. /\ pc[t] = "body" /\ m \in Msg /\ ws = Fwd(W, 1)
        /\ Dist(R, W) + MsgSize(m) < Size
        /\ Dist(rs, W) + MsgSize(m) < Size
    BY DEF IInv, WriterOK, WriteBody, Goto
  <1>3. /\ MsgSize(m) \in Nat /\ n \in Nat /\ n >= 1 /\ MsgSize(m) = 1 + n
        /\ Dist(R, W) \in Nat /\ Dist(rs, W) \in Nat
    <2>1. MsgSize(m) \in Nat /\ MsgSize(m) >= 2
      BY <1>2, MsgSizeType
    <2>2. Dist(R, W) \in Addr /\ Dist(rs, W) \in Addr
      BY <1>1, DistType
    <2>3. QED
      BY <2>1, <2>2 DEF Addr
  <1> HIDE DEF n
  <1>4. 1 + n < Size /\ Dist(R, W) + 1 + n < Size
    BY <1>2, <1>3, SizeAssumption
  <1>5. Dist(rs, ws) = Dist(rs, W) + 1
    <2>1. Dist(rs, W) + 1 < Size
      BY <1>2, <1>3, SizeAssumption
    <2>2. QED
      BY <1>1, <1>2, <2>1, DistGrows
  <1>6. n + Dist(rs, ws) < Size
    BY <1>2, <1>3, <1>5, SizeAssumption
  <1>7. /\ mem' = Stored(send_crl, mem, BodyWords(m))
        /\ send_crl' = [send_crl EXCEPT !.Write_Pos = WritePosAfter(send_crl, n)]
    BY DEF WriteBody, n
  <1>8. WritePosAfter(send_crl, n) = Fwd(ws, n)
    BY <1>1, <1>3, <1>6, WritePosFwd
  <1>9. Fwd(ws, n) = Fwd(W, MsgSize(m))
    BY <1>1, <1>2, <1>3, <1>4, FwdTwice
  <1>10. /\ Len(BodyWords(m)) = n
         /\ BodyWords(m) \in [1 .. n -> Word]
    BY <1>2, WordsType DEF n
  <1>11. /\ mem' \in [Addr -> Word]
         /\ \A a \in Addr : Dist(ws, a) >= n => mem'[a] = mem[a]
    BY <1>1, <1>3, <1>6, <1>7, <1>10, StoredWords
  <1>12. ASSUME NEW a \in Addr, Ahead(a)
         PROVE  mem'[a] = mem[a]
    <2>1. Dist(ws, a) >= n
      BY <1>1, <1>2, <1>3, <1>4, <1>12, ClearOfUnread DEF Ahead
    <2>2. QED
      BY <1>11, <2>1
  <1>13. mem'[W] = mem[W]
    <2>1. Dist(ws, W) >= n
      BY <1>1, <1>2, <1>3, <1>4, SizeAssumption DEF Addr, Dist, Fwd
    <2>2. QED
      BY <1>1, <1>11, <2>1
  <1>14. Fwd(W, MsgSize(m)) \in Addr
    BY <1>1, <1>3, <1>4, FwdDist, SizeAssumption
  <1>15. ASSUME NEW k \in 1 .. DataLen[m]
         PROVE  mem'[Fwd(W, k)] = [m |-> m, k |-> k]
    <2>1. DataLen[m] \in Nat /\ DataLen[m] <= n
      BY <1>2, <1>3, MsgSizeType, DataLenAssumption
    <2>2. k \in 1 .. n /\ BodyWords(m)[k] = [m |-> m, k |-> k]
      <3>1. k \in 1 .. n /\ k <= DataLen[m]
        BY <1>3, <2>1
      <3>2. QED
        BY <3>1 DEF BodyWords, n
    <2>3. mem'[Fwd(ws, k - 1)] = BodyWords(m)[k]
      BY <1>1, <1>3, <1>6, <1>7, <1>10, <2>2, StoredAt
    <2>4. k - 1 \in Nat /\ 1 + (k - 1) = k /\ 1 + (k - 1) < Size
      BY <1>3, <1>4, <2>2, SizeAssumption
    <2>5. Fwd(ws, k - 1) = Fwd(W, k)
      BY <1>1, <1>2, <2>4, FwdTwice
    <2>6. QED
      BY <2>2, <2>3, <2>5
  <1>16. Holds(mem', W, m)
    BY <1>2, <1>13, <1>15 DEF IInv, WriterOK, Holds
  <1>17. QED
    BY <1>7, <1>8, <1>9, <1>11, <1>12, <1>14, <1>16

\* No step stores into a word that is unread.
LEMMA AheadUntouched ==
  ASSUME IInv, [Next]_vars, NEW a \in Addr, Ahead(a)
  PROVE  mem'[a] = mem[a]
  <1>1. CASE \E t \in Thread : WriteHead(t)
    BY <1>1, WriteHeadStores
  <1>2. CASE \E t \in Thread : WriteBody(t)
    BY <1>2, WriteBodyStores
  <1>3. CASE mem' = mem
    BY <1>3
  <1>4. QED
    BY <1>1, <1>2, <1>3 DEF Next, Write, Dsp, vars, Call, Lock, Snapshot, Reject,
       Publish, Ipc_SetInt, Unlock, DspInterrupt, DspSleep, DspWake, DspReadHead,
       DspReadBody, DspRelease

-----------------------------------------------------------------------------
(* The invariant is inductive                                                 *)

\* The ring is empty and nobody is at work on it.
LEMMA InitInv == Init => IInv
  <1> SUFFICES ASSUME Init PROVE IInv
    OBVIOUS
  <1>1. 0 \in Addr
    BY SizeAssumption DEF Addr
  <1>2. TypeOK
    BY <1>1 DEF Init, TypeOK, Pos, Word, Pad, PC
  <1>3. MutexOK /\ WriterOK /\ ReaderOK
    BY DEF Init, MutexOK, WriterOK, ReaderOK, Inside
  <1>4. R = W
    BY DEF Init, R, W
  <1>5. HeadsAt({}, RingBuf_send, mem)
    BY <1>4 DEF HeadsAt, R, W
  <1>6. QED
    BY <1>2, <1>3, <1>5 DEF IInv, Framed

\* Every step keeps positions, words and program counters in their types.
LEMMA TypeStep == IInv /\ [Next]_vars => TypeOK'
  <1> SUFFICES ASSUME IInv, [Next]_vars PROVE TypeOK'
    OBVIOUS
  <1> USE DEF PC
  <1>1. TypeOK
    BY DEF IInv
  <1>2. ASSUME NEW t \in Thread, NEW m \in Msg, Call(t, m)
        PROVE  TypeOK'
    BY <1>1, <1>2 DEF TypeOK, Call, Goto
  <1>3. ASSUME NEW t \in Thread, Lock(t)
        PROVE  TypeOK'
    BY <1>1, <1>3 DEF TypeOK, Lock, Goto
  <1>4. ASSUME NEW t \in Thread, Snapshot(t)
        PROVE  TypeOK'
    BY <1>1, <1>4 DEF TypeOK, Snapshot, Goto
  <1>5. ASSUME NEW t \in Thread, Reject(t) \/ Unlock(t)
        PROVE  TypeOK'
    BY <1>1, <1>5 DEF TypeOK, Reject, Unlock, Goto
  <1>6. ASSUME NEW t \in Thread, WriteHead(t)
        PROVE  TypeOK'
    <2>1. mem' \in [Addr -> Word] /\ send_crl' \in Pos
      BY <1>1, <1>6, WriteHeadStores DEF TypeOK, Pos
    <2>2. QED
      BY <1>1, <1>6, <2>1 DEF TypeOK, WriteHead, Goto
  <1>7. ASSUME NEW t \in Thread, WriteBody(t)
        PROVE  TypeOK'
    <2>1. mem' \in [Addr -> Word] /\ send_crl' \in Pos
      BY <1>1, <1>7, WriteBodyStores DEF TypeOK, Pos
    <2>2. QED
      BY <1>1, <1>7, <2>1 DEF TypeOK, WriteBody, Goto
  <1>8. ASSUME NEW t \in Thread, Publish(t)
        PROVE  TypeOK'
    BY <1>1, <1>8 DEF TypeOK, Publish, Goto, Pos
  <1>9. ASSUME NEW t \in Thread, Ipc_SetInt(t)
        PROVE  TypeOK'
    BY <1>1, <1>9, WakesDSPAssumption DEF TypeOK, Ipc_SetInt, Goto
  <1>10. CASE DspInterrupt
    BY <1>1, <1>10 DEF TypeOK, DspInterrupt, wvars
  <1>11. CASE DspSleep \/ DspWake
    BY <1>1, <1>11 DEF TypeOK, DspSleep, DspWake, wvars
  <1>12. CASE DspReadHead
    <2>1. AfterHead(RingBuf_send) \in Pos
      BY <1>1, AfterHeadType DEF TypeOK
    <2>2. HeadAt(RingBuf_send, mem) \in Word
      BY <1>1, HeadAtRead DEF TypeOK, Pos
    <2>3. QED
      BY <1>1, <1>12, <2>1, <2>2 DEF TypeOK, DspReadHead, wvars
  <1>13. CASE DspReadBody
    <2>1. AfterBody(dsp.rcv, dsp.head) \in Pos
      BY <1>1, AfterBodyType DEF TypeOK
    <2>2. Assembled(dsp.head, BodyAt(dsp.rcv, dsp.head, mem)) \in Msg \cup {NoMsg}
      BY DEF Assembled
    <2>3. QED
      BY <1>1, <1>13, <2>1, <2>2 DEF TypeOK, DspReadBody, wvars
  <1>14. CASE DspRelease
    BY <1>1, <1>14 DEF TypeOK, DspRelease, wvars, Pos
  <1>15. CASE UNCHANGED vars
    BY <1>1, <1>15 DEF TypeOK, vars, wvars
  <1>16. QED
    BY <1>2, <1>3, <1>4, <1>5, <1>6, <1>7, <1>8, <1>9, <1>10, <1>11, <1>12,
       <1>13, <1>14, <1>15 DEF Next, Write, Dsp

\* Who is inside IpcMsg_Write has the mutex, and nobody else is.
LEMMA MutexStep == IInv /\ [Next]_vars => MutexOK'
  <1> SUFFICES ASSUME IInv, [Next]_vars PROVE MutexOK'
    OBVIOUS
  <1> USE DEF MutexOK, Inside
  <1>1. TypeOK /\ MutexOK
    BY DEF IInv
  <1>2. ASSUME NEW t \in Thread, Write(t)
        PROVE  MutexOK'
    BY <1>1, <1>2, NoThreadAssumption
       DEF TypeOK, Write, Goto, Call, Lock, Snapshot, Reject, WriteHead, WriteBody,
           Publish, Ipc_SetInt, Unlock
  <1>3. CASE Dsp
    BY <1>1, <1>3 DEF Dsp, wvars, DspInterrupt, DspSleep, DspWake, DspReadHead,
       DspReadBody, DspRelease
  <1>4. CASE UNCHANGED vars
    BY <1>1, <1>4 DEF vars, wvars
  <1>5. QED
    BY <1>2, <1>3, <1>4 DEF Next

\* The oldest unread message is whole.
LEMMA OldestMessage ==
  ASSUME IInv, R # W
  PROVE  /\ R \in Addr /\ W \in Addr /\ Ahead(R)
         /\ mem[R].m \in Msg
         /\ Holds(mem, R, mem[R].m)
         /\ MsgSize(mem[R].m) \in Nat
         /\ 2 <= MsgSize(mem[R].m)
         /\ MsgSize(mem[R].m) <= Dist(R, W)
         /\ MsgSize(mem[R].m) < Size
  <1>1. R \in Addr /\ W \in Addr
    BY DEF IInv, TypeOK, Pos, R, W
  <1>2. PICK F \in SUBSET Addr : HeadsAt(F, RingBuf_send, mem)
    BY DEF IInv, Framed
  <1>3. R \in F
    BY <1>2 DEF HeadsAt, R, W
  <1>4. /\ Ahead(R) /\ mem[R].m \in Msg /\ Holds(mem, R, mem[R].m)
        /\ MsgSize(mem[R].m) <= Dist(R, W)
    BY <1>2, <1>3 DEF HeadsAt, Before, Ahead, R, W
  <1>5. MsgSize(mem[R].m) \in Nat /\ MsgSize(mem[R].m) >= 2
    BY <1>4, MsgSizeType
  <1>6. Dist(R, W) \in Addr
    BY <1>1, DistType
  <1>7. QED
    BY <1>1, <1>4, <1>5, <1>6, SizeAssumption DEF Addr

\* DspRelease gives back exactly the oldest message.
LEMMA ReleaseMoves ==
  ASSUME IInv, DspRelease
  PROVE  /\ R # W
         /\ R' = Fwd(R, MsgSize(mem[R].m))
         /\ W' = W
         /\ R' \in Addr
         /\ Dist(R', W) = Dist(R, W) - MsgSize(mem[R].m)
  <1>1. R # W /\ dsp.rcv.Read_Pos = Fwd(R, MsgSize(mem[R].m))
    BY DEF IInv, ReaderOK, DspRelease
  <1>2. RingBuf_send \in Pos
    BY DEF IInv, TypeOK
  <1>3. R' = Fwd(R, MsgSize(mem[R].m)) /\ W' = W
    BY <1>1, <1>2 DEF DspRelease, R, W, Pos
  <1> DEFINE n == MsgSize(mem[R].m)
  <1>4. R \in Addr /\ W \in Addr /\ n \in Nat /\ n <= Dist(R, W) /\ n < Size
    BY <1>1, OldestMessage
  <1> HIDE DEF n
  <1>5. Fwd(R, n) \in Addr /\ Dist(R, Fwd(R, n)) = n
    BY <1>4, FwdDist
  <1>6. n + Dist(Fwd(R, n), W) = Dist(R, W)
    BY <1>4, <1>5, DistVia
  <1>7. Dist(Fwd(R, n), W) \in Nat /\ Dist(R, W) \in Nat
    BY <1>4, <1>5, DistType, SizeAssumption DEF Addr
  <1>8. Dist(Fwd(R, n), W) = Dist(R, W) - n
    BY <1>4, <1>6, <1>7
  <1>9. QED
    BY <1>1, <1>3, <1>5, <1>8 DEF n

\* publish: the message that was stored is appended to what is unread.
LEMMA PublishMoves ==
  ASSUME IInv, NEW t \in Thread, Publish(t)
  PROVE  /\ msg[t] \in Msg
         /\ MsgSize(msg[t]) \in Nat /\ 2 <= MsgSize(msg[t])
         /\ Holds(mem, W, msg[t])
         /\ R' = R
         /\ W' = Fwd(W, MsgSize(msg[t]))
         /\ R \in Addr /\ W \in Addr /\ W' \in Addr
         /\ Dist(R, W) + MsgSize(msg[t]) < Size
         /\ Dist(R, W') = Dist(R, W) + MsgSize(msg[t])
  <1> DEFINE n == MsgSize(msg[t])
  <1>1. /\ pc[t] = "publish" /\ msg[t] \in Msg
        /\ Holds(mem, W, msg[t])
        /\ send_crl.Write_Pos = Fwd(W, n)
        /\ Dist(R, W) + n < Size
    BY DEF IInv, WriterOK, Publish, Goto
  <1>2. RingBuf_send \in Pos /\ R \in Addr /\ W \in Addr
    BY DEF IInv, TypeOK, Pos, R, W
  <1>3. R' = R /\ W' = Fwd(W, n)
    BY <1>1, <1>2 DEF Publish, R, W, Pos
  <1>4. n \in Nat /\ n >= 2
    BY <1>1, MsgSizeType
  <1>5. Dist(R, W) \in Nat
    BY <1>2, DistType, SizeAssumption DEF Addr
  <1> HIDE DEF n
  <1>6. Fwd(W, n) \in Addr /\ Dist(R, Fwd(W, n)) = Dist(R, W) + n
    <2>1. n < Size
      BY <1>1, <1>4, <1>5, SizeAssumption
    <2>2. QED
      BY <1>1, <1>2, <1>4, <2>1, FwdDist, DistGrows
  <1>7. QED
    BY <1>1, <1>2, <1>3, <1>4, <1>6 DEF n

\* What the steps of either core do to the messages in the ring.
LEMMA PublishPuts ==
  ASSUME IInv, NEW t \in Thread, Publish(t)
  PROVE  /\ Framed'
         /\ Contents(RingBuf_send, mem)' = Append(Contents(RingBuf_send, mem), msg[t])
  <1>1. PICK F \in SUBSET Addr : HeadsAt(F, RingBuf_send, mem)
    BY DEF IInv, Framed
  <1>2. /\ msg[t] \in Msg /\ Holds(mem, W, msg[t])
        /\ W' = Fwd(W, MsgSize(msg[t])) /\ W \in Addr /\ W' \in Addr
        /\ Dist(R, W) + MsgSize(msg[t]) < Size
    BY PublishMoves
  <1>3. RingBuf_send \in Pos /\ mem \in [Addr -> Word] /\ mem' = mem
    BY DEF IInv, TypeOK, Publish
  <1>4. RingBuf_send' = [RingBuf_send EXCEPT !.Write_Pos = Fwd(W, MsgSize(msg[t]))]
    BY <1>2, <1>3 DEF Publish, W, Pos
  <1>5. RingBuf_send' \in Pos
    BY <1>2, <1>3, <1>4 DEF Pos
  <1>6. Puts(F, RingBuf_send, mem, msg[t], RingBuf_send')
    BY <1>1, <1>2, <1>3, <1>4, <1>5 DEF Puts, R, W, Pos
  <1>7. /\ \E G \in SUBSET Addr : HeadsAt(G, RingBuf_send', mem)
        /\ Contents(RingBuf_send', mem) = Append(Contents(RingBuf_send, mem), msg[t])
    BY <1>6, ContentsPut
  <1>8. QED
    BY <1>3, <1>7 DEF Framed

\* The DSP gives the oldest message back: it is no longer there.
LEMMA ReleaseTakes ==
  ASSUME IInv, DspRelease
  PROVE  /\ Framed'
         /\ Contents(RingBuf_send, mem) # << >>
         /\ dsp'.taken = Head(Contents(RingBuf_send, mem))
         /\ Contents(RingBuf_send, mem)' = Tail(Contents(RingBuf_send, mem))
  <1>1. PICK F \in SUBSET Addr : HeadsAt(F, RingBuf_send, mem)
    BY DEF IInv, Framed
  <1>2. R # W /\ R' = Fwd(R, MsgSize(mem[R].m)) /\ R' \in Addr
    BY ReleaseMoves
  <1>3. RingBuf_send \in Pos /\ mem \in [Addr -> Word] /\ mem' = mem
    BY DEF IInv, TypeOK, DspRelease
  <1>4. RingBuf_send' = [RingBuf_send EXCEPT !.Read_Pos = Fwd(R, MsgSize(mem[R].m))]
    BY <1>2, <1>3 DEF DspRelease, R, Pos
  <1>5. RingBuf_send' \in Pos
    BY <1>2, <1>3, <1>4 DEF Pos
  <1>6. Takes(F, RingBuf_send, mem, RingBuf_send')
    BY <1>1, <1>2, <1>3, <1>4, <1>5 DEF Takes, R, W, Pos
  <1>7. /\ \E G \in SUBSET Addr : HeadsAt(G, RingBuf_send', mem)
        /\ Contents(RingBuf_send, mem) # << >>
        /\ Head(Contents(RingBuf_send, mem)) = mem[R].m
        /\ Tail(Contents(RingBuf_send, mem)) = Contents(RingBuf_send', mem)
    BY <1>6, ContentsTake DEF R
  <1>8. dsp'.taken = mem[R].m
    BY DEF IInv, TypeOK, ReaderOK, DspRelease
  <1>9. QED
    BY <1>3, <1>7, <1>8 DEF Framed

\* While the positions stay, stores beyond Write_Pos change nothing unread.
LEMMA OthersKeep ==
  ASSUME IInv, [Next]_vars, RingBuf_send' = RingBuf_send, mem' \in [Addr -> Word]
  PROVE  Framed' /\ Contents(RingBuf_send, mem)' = Contents(RingBuf_send, mem)
  <1>1. PICK F \in SUBSET Addr : HeadsAt(F, RingBuf_send, mem)
    BY DEF IInv, Framed
  <1>2. \A a \in Addr : Before(RingBuf_send, a) => mem'[a] = mem[a]
    BY AheadUntouched DEF Before, Ahead, R, W
  <1>3. RingBuf_send \in Pos /\ mem \in [Addr -> Word]
    BY DEF IInv, TypeOK
  <1>4. /\ HeadsAt(F, RingBuf_send, mem')
        /\ Contents(RingBuf_send, mem') = Contents(RingBuf_send, mem)
    BY <1>1, <1>2, <1>3, ContentsKept
  <1>5. QED
    BY <1>4 DEF Framed

\* What is unread stays a sequence of whole messages.
LEMMA FramedStep == IInv /\ [Next]_vars => Framed'
  <1> SUFFICES ASSUME IInv, [Next]_vars PROVE Framed'
    OBVIOUS
  <1>1. mem' \in [Addr -> Word]
    BY TypeStep DEF TypeOK
  <1>2. CASE \E t \in Thread : Publish(t)
    BY <1>2, PublishPuts
  <1>3. CASE DspRelease
    BY <1>3, ReleaseTakes
  <1>4. CASE RingBuf_send' = RingBuf_send
    BY <1>1, <1>4, OthersKeep
  <1>5. QED
    BY <1>2, <1>3, <1>4 DEF Next, Write, Dsp, vars, Call, Lock, Snapshot, Reject,
       WriteHead, WriteBody, Ipc_SetInt, Unlock, DspInterrupt, DspSleep, DspWake,
       DspReadHead, DspReadBody

\* What the DSP has read of the oldest message stays true of it.
LEMMA ReaderStep == IInv /\ [Next]_vars => ReaderOK'
  <1> SUFFICES ASSUME IInv, [Next]_vars PROVE ReaderOK'
    OBVIOUS
  <1>1. TypeOK /\ ReaderOK
    BY DEF IInv
  <1>2. R \in Addr /\ W \in Addr /\ RingBuf_send \in Pos /\ mem \in [Addr -> Word]
    BY <1>1 DEF TypeOK, Pos, R, W
  <1>3. R # W => mem'[R] = mem[R]
    BY OldestMessage, AheadUntouched
  <1>4. ASSUME NEW t \in Thread, Publish(t)
        PROVE  ReaderOK'
    <2>1. R' = R /\ Dist(R, W') = Dist(R, W) + MsgSize(msg[t])
          /\ MsgSize(msg[t]) \in Nat /\ 2 <= MsgSize(msg[t]) /\ W' \in Addr
      BY <1>4, PublishMoves
    <2>2. Dist(R, W) \in Nat /\ Dist(R, R) = 0
      <3>1. Dist(R, W) \in Addr /\ Dist(R, R) = 0
        BY <1>2, DistType
      <3>2. QED
        BY <3>1, SizeAssumption DEF Addr
    <2>3. R' # W'
      BY <2>1, <2>2
    <2>4. UNCHANGED << mem, dsp >>
      BY <1>4 DEF Publish
    <2>5. QED
      BY <1>1, <2>1, <2>3, <2>4 DEF ReaderOK
  <1>5. ASSUME NEW t \in Thread, Write(t), ~ Publish(t)
        PROVE  ReaderOK'
    <2>1. UNCHANGED << RingBuf_send, dsp >>
      BY <1>5 DEF Write, Call, Lock, Snapshot, Reject, WriteHead, WriteBody,
         Ipc_SetInt, Unlock
    <2>2. R' = R /\ W' = W
      BY <2>1 DEF R, W
    <2>3. QED
      BY <1>1, <1>3, <2>1, <2>2 DEF ReaderOK
  <1>6. CASE DspReadHead
    <2>1. R # W
      BY <1>6 DEF DspReadHead, Is_Ringbuf_Empty, R, W
    <2>2. /\ dsp.pc' = "head"
          /\ dsp.head' = HeadAt(RingBuf_send, mem)
          /\ dsp.rcv' = AfterHead(RingBuf_send)
          /\ UNCHANGED << mem, RingBuf_send >>
      BY <1>1, <1>6 DEF DspReadHead, TypeOK
    <2>3. HeadAt(RingBuf_send, mem) = mem[R]
      BY <1>2, HeadAtRead DEF R
    <2>4. 1 < Size
      <3>1. /\ MsgSize(mem[R].m) \in Nat /\ 2 <= MsgSize(mem[R].m)
            /\ MsgSize(mem[R].m) < Size
        BY <2>1, OldestMessage
      <3>2. QED
        BY <3>1, SizeAssumption
    <2>5. ReadPosAfter(RingBuf_send, 1) = Fwd(R, 1)
      BY <1>2, <2>4, ReadPosFwd DEF R
    <2>6. AfterHead(RingBuf_send).Read_Pos = Fwd(R, 1)
      BY <1>2, <2>5 DEF AfterHead, Pos
    <2>7. R' = R /\ W' = W
      BY <2>2 DEF R, W
    <2>8. MsgSize(mem[R].m) <= Dist(R, AfterHead(RingBuf_send).Write_Pos)
      <3>1. AfterHead(RingBuf_send).Write_Pos = W
        BY <1>2 DEF AfterHead, Pos, W
      <3>2. QED
        BY <2>1, <3>1, OldestMessage
    <2>9. QED
      BY <2>1, <2>2, <2>3, <2>6, <2>7, <2>8 DEF ReaderOK
  <1>7. CASE DspReadBody
    <2> DEFINE m == mem[R].m
               at == [dsp.rcv EXCEPT !.Read_Pos = R]
    <2>1. /\ R # W /\ dsp.head = mem[R] /\ dsp.rcv.Read_Pos = Fwd(R, 1)
          /\ MsgSize(m) <= Dist(R, dsp.rcv.Write_Pos)
          /\ dsp.rcv \in Pos
      BY <1>1, <1>7 DEF DspReadBody, ReaderOK, TypeOK
    <2>2. m \in Msg /\ Holds(mem, R, m)
      BY <2>1, OldestMessage
    <2>3. /\ at \in Pos /\ at.Read_Pos = R /\ at.Write_Pos = dsp.rcv.Write_Pos
          /\ dsp.rcv = [at EXCEPT !.Read_Pos = Fwd(R, 1)]
      BY <1>2, <2>1 DEF Pos
    <2> HIDE DEF at
    <2>4. /\ HeadAt(at, mem) = mem[R] /\ AfterHead(at) = dsp.rcv
          /\ Assembled(mem[R], BodyAt(dsp.rcv, mem[R], mem)) = m
          /\ AfterBody(dsp.rcv, mem[R]) = [at EXCEPT !.Read_Pos = Fwd(R, MsgSize(m))]
      <3>1. HeadAt(at, mem) = mem[R]
        BY <1>2, <2>3, HeadAtRead
      <3>2. QED
        BY <1>2, <2>1, <2>2, <2>3, <3>1, ReadsWhole
    <2>5. AfterBody(dsp.rcv, mem[R]).Read_Pos = Fwd(R, MsgSize(m))
      BY <2>3, <2>4 DEF Pos
    <2>6. /\ dsp.pc' = "body"
          /\ dsp.rcv' = AfterBody(dsp.rcv, mem[R])
          /\ dsp.got' = m
          /\ UNCHANGED << mem, RingBuf_send >>
      BY <1>1, <1>7, <2>1, <2>4 DEF DspReadBody, TypeOK
    <2>7. R' = R /\ W' = W
      BY <2>6 DEF R, W
    <2>8. QED
      BY <2>1, <2>5, <2>6, <2>7 DEF ReaderOK
  <1>8. CASE DspRelease
    <2>1. dsp.pc' = "awake"
      BY <1>1, <1>8 DEF DspRelease, TypeOK
    <2>2. QED
      BY <2>1 DEF ReaderOK
  <1>9. CASE DspInterrupt \/ DspSleep \/ DspWake
    <2>1. /\ UNCHANGED << mem, RingBuf_send, dsp.rcv, dsp.head, dsp.got >>
          /\ dsp.pc' \in {"asleep", "awake"} \/ dsp.pc' = dsp.pc
      BY <1>1, <1>9 DEF DspInterrupt, DspSleep, DspWake, TypeOK
    <2>2. R' = R /\ W' = W
      BY <2>1 DEF R, W
    <2>3. QED
      BY <1>1, <2>1, <2>2 DEF ReaderOK
  <1>10. CASE UNCHANGED vars
    BY <1>1, <1>10 DEF vars, ReaderOK, R, W
  <1>11. QED
    BY <1>4, <1>5, <1>6, <1>7, <1>8, <1>9, <1>10 DEF Next, Dsp

\* While t owns the mutex, the others are idle or wait for it.
LEMMA OthersOutside ==
  ASSUME IInv, NEW t \in Thread, pc[t] \in Inside, NEW u \in Thread, u # t
  PROVE  pc[u] \in {"idle", "lock"}
  BY DEF IInv, TypeOK, MutexOK, Inside, PC

\* The room that was found on the copy of the positions is still there.
LEMMA WriterStep == IInv /\ [Next]_vars => WriterOK'
  <1> SUFFICES ASSUME IInv, [Next]_vars PROVE WriterOK'
    OBVIOUS
  <1>1. TypeOK /\ WriterOK /\ MutexOK
    BY DEF IInv
  <1>2. R \in Addr /\ W \in Addr /\ RingBuf_send \in Pos
    BY <1>1 DEF TypeOK, Pos, R, W
  <1>3. ASSUME NEW t \in Thread, NEW m \in Msg, Call(t, m)
        PROVE  WriterOK'
    <2>1. R' = R /\ W' = W
      BY <1>3 DEF Call, R, W
    <2>2. QED
      BY <1>1, <1>3, <2>1 DEF WriterOK, TypeOK, Call, Goto
  <1>4. ASSUME NEW t \in Thread, Lock(t)
        PROVE  WriterOK'
    <2>1. R' = R /\ W' = W
      BY <1>4 DEF Lock, R, W
    <2>2. QED
      BY <1>1, <1>4, <2>1 DEF WriterOK, TypeOK, Lock, Goto
  <1>5. ASSUME NEW t \in Thread, Snapshot(t)
        PROVE  WriterOK'
    <2>1. /\ pc[t] = "snapshot" /\ msg[t] \in Msg
          /\ \A u \in Thread : u # t => pc[u] \in {"idle", "lock"}
      BY <1>1, <1>5, OthersOutside DEF Snapshot, Goto, WriterOK, Inside
    <2>2. /\ send_crl' = RingBuf_send /\ R' = R /\ W' = W
          /\ UNCHANGED << mem, msg >>
          /\ pc' = [pc EXCEPT ![t] =
                      IF Is_Ringbuf_ChFreeSpace(RingBuf_send, MsgSize(msg[t]))
                      THEN "head" ELSE "full"]
      BY <1>5 DEF Snapshot, Goto, R, W
    <2>3. MsgSize(msg[t]) \in Nat /\ Dist(R, W) \in Addr
      BY <1>2, <2>1, MsgSizeType, DistType
    <2>4. Is_Ringbuf_ChFreeSpace(RingBuf_send, MsgSize(msg[t]))
            => Dist(R, W) + MsgSize(msg[t]) < Size
      <3>1. Remain(RingBuf_send) = Size - Dist(R, W)
        BY <1>2, RemainDist DEF R, W
      <3>2. QED
        BY <2>3, <3>1, SizeAssumption DEF Is_Ringbuf_ChFreeSpace, Addr
    <2>5. ASSUME NEW u \in Thread, u # t
          PROVE  pc'[u] = pc[u] /\ pc'[u] \in {"idle", "lock"}
      BY <1>1, <2>1, <2>2, <2>5 DEF TypeOK
    <2>6. pc'[t] = IF Is_Ringbuf_ChFreeSpace(RingBuf_send, MsgSize(msg[t]))
                   THEN "head" ELSE "full"
      BY <1>1, <2>2 DEF TypeOK
    <2>7. send_crl'.Read_Pos = R /\ send_crl'.Write_Pos = W
      BY <2>2 DEF R, W
    <2>8. QED
      BY <1>1, <2>1, <2>2, <2>4, <2>5, <2>6, <2>7 DEF WriterOK
  <1>6. ASSUME NEW t \in Thread, Reject(t) \/ Unlock(t)
        PROVE  WriterOK'
    <2>1. \A u \in Thread : u # t => pc[u] \in {"idle", "lock"}
      BY <1>6, OthersOutside DEF Reject, Unlock, Goto, Inside
    <2>2. QED
      BY <1>1, <1>6, <2>1 DEF WriterOK, TypeOK, Reject, Unlock, Goto
  <1>7. ASSUME NEW t \in Thread, WriteHead(t)
        PROVE  WriterOK'
    <2>1. /\ pc[t] = "head"
          /\ \A u \in Thread : u # t => pc[u] \in {"idle", "lock"}
      BY <1>7, OthersOutside DEF WriteHead, Goto, Inside
    <2>2. /\ mem'[W] = [m |-> msg[t], k |-> 0]
          /\ send_crl' = [send_crl EXCEPT !.Write_Pos = Fwd(W, 1)]
      BY <1>7, WriteHeadStores
    <2>3. /\ R' = R /\ W' = W /\ msg' = msg /\ pc' = [pc EXCEPT ![t] = "body"]
      BY <1>7 DEF WriteHead, Goto, R, W
    <2>4. send_crl'.Read_Pos = send_crl.Read_Pos /\ send_crl'.Write_Pos = Fwd(W, 1)
      BY <1>1, <2>2 DEF TypeOK, Pos
    <2>5. QED
      BY <1>1, <2>1, <2>2, <2>3, <2>4 DEF WriterOK, TypeOK
  <1>8. ASSUME NEW t \in Thread, WriteBody(t)
        PROVE  WriterOK'
    <2>1. /\ pc[t] = "body"
          /\ \A u \in Thread : u # t => pc[u] \in {"idle", "lock"}
      BY <1>8, OthersOutside DEF WriteBody, Goto, Inside
    <2>2. /\ Holds(mem', W, msg[t])
          /\ send_crl' = [send_crl EXCEPT !.Write_Pos = Fwd(W, MsgSize(msg[t]))]
      BY <1>8, WriteBodyStores
    <2>3. /\ R' = R /\ W' = W /\ msg' = msg /\ pc' = [pc EXCEPT ![t] = "publish"]
      BY <1>8 DEF WriteBody, Goto, R, W
    <2>4. /\ send_crl'.Read_Pos = send_crl.Read_Pos
          /\ send_crl'.Write_Pos = Fwd(W, MsgSize(msg[t]))
      BY <1>1, <2>2 DEF TypeOK, Pos
    <2>5. QED
      BY <1>1, <2>1, <2>2, <2>3, <2>4 DEF WriterOK, TypeOK
  <1>9. ASSUME NEW t \in Thread, Publish(t) \/ Ipc_SetInt(t)
        PROVE  WriterOK'
    <2>1. \A u \in Thread : u # t => pc[u] \in {"idle", "lock"}
      BY <1>9, OthersOutside DEF Publish, Ipc_SetInt, Goto, Inside
    <2>2. /\ msg' = msg
          /\ pc' = [pc EXCEPT ![t] = "int"] \/ pc' = [pc EXCEPT ![t] = "unlock"]
          /\ pc[t] # "idle"
      BY <1>9 DEF Publish, Ipc_SetInt, Goto
    <2>3. QED
      BY <1>1, <2>1, <2>2 DEF WriterOK, TypeOK
  <1>10. CASE DspRelease
    <2> DEFINE n == MsgSize(mem[R].m)
    <2>1. /\ R # W /\ W' = W /\ R' \in Addr
          /\ Dist(R', W) = Dist(R, W) - n
      BY <1>10, ReleaseMoves
    <2>2. n \in Nat
      BY <2>1, OldestMessage
    <2> HIDE DEF n
    <2>3. Dist(R, W) \in Nat
      <3>1. Dist(R, W) \in Addr
        BY <1>2, DistType
      <3>2. QED
        BY <3>1, SizeAssumption DEF Addr
    <2>4. ASSUME NEW t \in Thread, pc[t] \in {"head", "body", "publish"}
          PROVE  Dist(R', W) + MsgSize(msg[t]) < Size
      <3>1. msg[t] \in Msg /\ Dist(R, W) + MsgSize(msg[t]) < Size
        BY <1>1, <2>4 DEF WriterOK
      <3>2. MsgSize(msg[t]) \in Nat
        BY <3>1, MsgSizeType
      <3>3. QED
        BY <2>1, <2>2, <2>3, <3>1, <3>2, SizeAssumption
    <2>5. UNCHANGED << mem, send_crl, pc, msg >>
      BY <1>10 DEF DspRelease, wvars
    <2>6. QED
      BY <1>1, <2>1, <2>4, <2>5 DEF WriterOK
  <1>11. CASE DspInterrupt \/ DspSleep \/ DspWake \/ DspReadHead \/ DspReadBody
    <2>1. UNCHANGED << mem, RingBuf_send, send_crl, pc, msg >>
      BY <1>11 DEF DspInterrupt, DspSleep, DspWake, DspReadHead, DspReadBody, wvars
    <2>2. R' = R /\ W' = W
      BY <2>1 DEF R, W
    <2>3. QED
      BY <1>1, <2>1, <2>2 DEF WriterOK
  <1>12. CASE UNCHANGED vars
    BY <1>1, <1>12 DEF vars, wvars, WriterOK, R, W
  <1>13. QED
    BY <1>3, <1>4, <1>5, <1>6, <1>7, <1>8, <1>9, <1>10, <1>11, <1>12
       DEF Next, Write, Dsp

\* The invariant of the sending direction is inductive.
LEMMA InvNext == IInv /\ [Next]_vars => IInv'
  BY TypeStep, MutexStep, WriterStep, FramedStep, ReaderStep DEF IInv

-----------------------------------------------------------------------------
(* Theorems                                                                   *)

(* Every reachable state satisfies the inductive invariant: mutual exclusion  *)
(* of the writers, room for the message being written, whole messages from    *)
(* Read_Pos to Write_Pos, and a reader that keeps to their boundaries.        *)
THEOREM Invariance == Spec => []IInv
  BY InitInv, InvNext, PTL DEF Spec

(* The positions stay inside the ring, and the ring holds words of messages.  *)
THEOREM TypeCorrect == Spec => []TypeOK
  <1>1. IInv => TypeOK
    BY DEF IInv
  <1>2. QED
    BY <1>1, Invariance, PTL

(* IpcMsg_Write never overwrites what the DSP has yet to read, whatever the   *)
(* DSP releases between the writer's copy of Read_Pos and its stores.         *)
THEOREM UnreadIsUntouched == Spec => UnreadUntouched
  <1>1. IInv /\ [Next]_vars => [\A a \in Unread : mem'[a] = mem[a]]_vars
    <2> SUFFICES ASSUME IInv, [Next]_vars, NEW a \in Unread
                 PROVE  mem'[a] = mem[a]
      OBVIOUS
    <2>1. TypeOK
      BY DEF IInv
    <2>2. a \in Addr /\ Ahead(a)
      BY <2>1, UnreadAhead
    <2>3. QED
      BY <2>2, AheadUntouched
  <1>2. QED
    BY <1>1, Invariance, PTL DEF Spec, UnreadUntouched

(* IpcMsg_Write finds room in an empty ring for every message that fits.      *)
THEOREM EmptyAccepts == Spec => []EmptyRingAccepts
  <1>1. IInv => EmptyRingAccepts
    <2> SUFFICES ASSUME IInv, NEW t \in Thread, pc[t] = "full",
                        MsgSize(msg[t]) < Size, Is_Ringbuf_Empty(send_crl)
                 PROVE  FALSE
      BY DEF EmptyRingAccepts
    <2>1. /\ ~ Is_Ringbuf_ChFreeSpace(send_crl, MsgSize(msg[t]))
          /\ msg[t] \in Msg /\ send_crl \in Pos
      BY DEF IInv, WriterOK, TypeOK
    <2>2. MsgSize(msg[t]) \in Nat
      BY <2>1, MsgSizeType
    <2>3. Remain(send_crl) = Size
      BY <2>1, SizeAssumption DEF Is_Ringbuf_Empty, Remain, Pos, Addr
    <2>4. QED
      BY <2>1, <2>2, <2>3, SizeAssumption DEF Is_Ringbuf_ChFreeSpace
  <1>2. QED
    BY <1>1, Invariance, PTL

(* The interrupt of IpcMsg_Write keeps the DSP from sleeping over a message.  *)
THEOREM NeverAsleep == Spec => []NeverAsleepOverMessage
  <1>1. Init => NeverAsleepOverMessage
    BY DEF Init, NeverAsleepOverMessage, Is_Ringbuf_Empty
  <1>2. ASSUME TypeOK, NeverAsleepOverMessage, [Next]_vars
        PROVE  NeverAsleepOverMessage'
    <2> USE DEF NeverAsleepOverMessage, TypeOK
    <2>1. ASSUME NEW t \in Thread, NEW m \in Msg, Call(t, m)
          PROVE  NeverAsleepOverMessage'
      BY <1>2, <2>1 DEF Call, Goto
    <2>2. ASSUME NEW t \in Thread, Lock(t) \/ Snapshot(t) \/ Reject(t) \/ Unlock(t)
          PROVE  NeverAsleepOverMessage'
      BY <1>2, <2>2 DEF Lock, Snapshot, Reject, Unlock, Goto
    <2>3. ASSUME NEW t \in Thread, WriteHead(t) \/ WriteBody(t)
          PROVE  NeverAsleepOverMessage'
      BY <1>2, <2>3 DEF WriteHead, WriteBody, Goto
    <2>4. ASSUME NEW t \in Thread, Publish(t)
          PROVE  NeverAsleepOverMessage'
      BY <1>2, <2>4 DEF Publish, Goto
    <2>5. ASSUME NEW t \in Thread, Ipc_SetInt(t)
          PROVE  NeverAsleepOverMessage'
      BY <1>2, <2>5 DEF Ipc_SetInt, Goto
    <2>6. CASE Dsp
      BY <1>2, <2>6 DEF Dsp, wvars, DspInterrupt, DspSleep, DspWake, DspReadHead,
         DspReadBody, DspRelease
    <2>7. CASE UNCHANGED vars
      BY <1>2, <2>7 DEF vars, wvars
    <2>8. QED
      BY <1>2, <2>1, <2>2, <2>3, <2>4, <2>5, <2>6, <2>7 DEF Next, Write
  <1>3. QED
    BY <1>1, <1>2, TypeCorrect, PTL DEF Spec

(* What the DSP takes out are the messages IpcMsg_Write put in, whole, in     *)
(* their order and each of them once: Publish puts a message at the end of a  *)
(* queue, DspRelease takes the first one, and no other step is visible.       *)
THEOREM SendImplements == Spec => ImplementsChannel
  <1>1. Init => Channel!Init
    <2> SUFFICES ASSUME Init PROVE Channel!Init
      OBVIOUS
    <2>1. /\ RingBuf_send \in Pos /\ mem \in [Addr -> Word]
          /\ RingBuf_send.Read_Pos = RingBuf_send.Write_Pos
      BY InitInv DEF IInv, TypeOK, Init
    <2>2. Contents(RingBuf_send, mem) = << >>
      BY <2>1, ContentsEmpty
    <2>3. QED
      BY <2>2 DEF Init, Channel!Init
  <1>2. IInv /\ [Next]_vars => [Channel!Next]_(Channel!vars)
    <2> SUFFICES ASSUME IInv, [Next]_vars PROVE [Channel!Next]_(Channel!vars)
      OBVIOUS
    <2>1. TypeOK /\ mem' \in [Addr -> Word]
      BY TypeStep DEF IInv, TypeOK
    <2>2. ASSUME NEW t \in Thread, Publish(t)
          PROVE  Channel!Next
      <3>1. Contents(RingBuf_send, mem)' = Append(Contents(RingBuf_send, mem), msg[t])
        BY <2>2, PublishPuts
      <3>2. msg[t] \in Msg /\ dsp'.taken = dsp.taken
        BY <2>2, PublishMoves DEF Publish
      <3>3. Channel!Put(msg[t])
        BY <3>1, <3>2 DEF Channel!Put
      <3>4. QED
        BY <3>2, <3>3 DEF Channel!Next
    <2>3. CASE DspRelease
      <3>1. Channel!Take
        BY <2>3, ReleaseTakes DEF Channel!Take
      <3>2. QED
        BY <3>1 DEF Channel!Next
    <2>4. CASE RingBuf_send' = RingBuf_send /\ dsp'.taken = dsp.taken
      <3>1. Contents(RingBuf_send, mem)' = Contents(RingBuf_send, mem)
        BY <2>1, <2>4, OthersKeep
      <3>2. QED
        BY <2>4, <3>1 DEF Channel!vars
    <2>5. ASSUME NEW t \in Thread, Write(t), ~ Publish(t)
          PROVE  RingBuf_send' = RingBuf_send /\ dsp'.taken = dsp.taken
      BY <2>5 DEF Write, Call, Lock, Snapshot, Reject, WriteHead, WriteBody,
         Ipc_SetInt, Unlock
    <2>6. ASSUME Dsp, ~ DspRelease
          PROVE  RingBuf_send' = RingBuf_send /\ dsp'.taken = dsp.taken
      BY <2>1, <2>6 DEF TypeOK, Dsp, DspInterrupt, DspSleep, DspWake, DspReadHead,
         DspReadBody
    <2>7. QED
      BY <2>2, <2>3, <2>4, <2>5, <2>6 DEF Next, vars
  <1>3. QED
    BY <1>1, <1>2, Invariance, PTL DEF Spec, ImplementsChannel, Channel!Spec

-----------------------------------------------------------------------------
(* The receiving direction: the invariant of its ring                         *)

RcvR == RingBuf_rcv.Read_Pos
RcvW == RingBuf_rcv.Write_Pos

RcvFramed == \E F \in SUBSET Addr : HeadsAt(F, RingBuf_rcv, rcv_mem)

\* The message the DSP is about to publish is stored behind Write_Pos.
SenderOK ==
  sender.pc = "publish" =>
    /\ sender.msg \in Msg
    /\ Dist(RcvR, RcvW) + MsgSize(sender.msg) < Size
    /\ sender.send.Write_Pos = Fwd(RcvW, MsgSize(sender.msg))
    /\ Holds(rcv_mem, RcvW, sender.msg)

\* How far IpcMsg_Read is with the oldest message, going by a copy of the
\* positions that the DSP may have left behind.
RcvReaderOK ==
  /\ reader.pc \in {"copy", "head", "body", "release"} => RcvR # RcvW
  /\ reader.pc \in {"head", "body"} =>
       MsgSize(rcv_mem[RcvR].m) <= Dist(RcvR, rcv_crl.Write_Pos)
  /\ reader.pc = "head" => rcv_crl.Read_Pos = RcvR
  /\ reader.pc = "body" => /\ reader.head = rcv_mem[RcvR]
                           /\ rcv_crl.Read_Pos = Fwd(RcvR, 1)
  /\ reader.pc = "release" =>
       /\ reader.got = rcv_mem[RcvR].m
       /\ rcv_crl.Read_Pos = Fwd(RcvR, MsgSize(rcv_mem[RcvR].m))

RcvIInv == RcvTypeOK /\ RcvFramed /\ SenderOK /\ RcvReaderOK

\* The ring is empty and neither side is at work on it.
LEMMA RcvInitInv == RcvInit => RcvIInv
  <1> SUFFICES ASSUME RcvInit PROVE RcvIInv
    OBVIOUS
  <1>1. 0 \in Addr
    BY SizeAssumption DEF Addr
  <1>2. RcvTypeOK
    BY <1>1 DEF RcvInit, RcvTypeOK, Pos, Word, Pad, ReaderPC
  <1>3. SenderOK /\ RcvReaderOK
    BY DEF RcvInit, SenderOK, RcvReaderOK
  <1>4. HeadsAt({}, RingBuf_rcv, rcv_mem)
    BY DEF RcvInit, HeadsAt
  <1>5. QED
    BY <1>2, <1>3, <1>4 DEF RcvIInv, RcvFramed

\* The oldest message is whole.
LEMMA RcvOldest ==
  ASSUME RcvIInv, RcvR # RcvW
  PROVE  /\ RcvR \in Addr /\ RcvW \in Addr /\ Before(RingBuf_rcv, RcvR)
         /\ rcv_mem[RcvR].m \in Msg
         /\ Holds(rcv_mem, RcvR, rcv_mem[RcvR].m)
         /\ MsgSize(rcv_mem[RcvR].m) \in 2 .. Size - 1
         /\ MsgSize(rcv_mem[RcvR].m) <= Dist(RcvR, RcvW)
         /\ Fwd(RcvR, MsgSize(rcv_mem[RcvR].m)) \in Addr
  <1>1. RingBuf_rcv \in Pos /\ rcv_mem \in [Addr -> Word] /\ RcvR \in Addr /\ RcvW \in Addr
    BY DEF RcvIInv, RcvTypeOK, Pos, RcvR, RcvW
  <1>2. PICK F \in SUBSET Addr : HeadsAt(F, RingBuf_rcv, rcv_mem)
    BY DEF RcvIInv, RcvFramed
  <1>3. RcvR \in F
    BY <1>2 DEF HeadsAt, RcvR, RcvW
  <1>4. /\ Before(RingBuf_rcv, RcvR) /\ rcv_mem[RcvR].m \in Msg
        /\ Holds(rcv_mem, RcvR, rcv_mem[RcvR].m)
        /\ MsgSize(rcv_mem[RcvR].m) <= Dist(RcvR, RcvW)
    BY <1>2, <1>3 DEF HeadsAt, RcvW
  <1>5. /\ MsgSize(rcv_mem[RcvR].m) \in 2 .. Size - 1
        /\ Fwd(RcvR, MsgSize(rcv_mem[RcvR].m)) \in Addr
    BY <1>1, <1>2, <1>3, NextCloser
  <1>6. QED
    BY <1>1, <1>4, <1>5

(* The DSP stores a message behind Write_Pos and clear of the unread words.   *)
LEMMA DspStores ==
  ASSUME RcvIInv, NEW m \in Msg, DspStore(m)
  PROVE  /\ rcv_mem' \in [Addr -> Word]
         /\ \A a \in Addr : Before(RingBuf_rcv, a) => rcv_mem'[a] = rcv_mem[a]
         /\ Holds(rcv_mem', RcvW, m)
         /\ Dist(RcvR, RcvW) + MsgSize(m) < Size
         /\ sender'.send \in Pos
         /\ sender'.send.Write_Pos = Fwd(RcvW, MsgSize(m))
  <1> DEFINE r == RingBuf_rcv
             n == MsgSize(m) - 1
             h == [r EXCEPT !.Write_Pos = WritePosAfter(r, 1)]
             mm == Stored(r, rcv_mem, HeadWords(m))
             v == Fwd(RcvW, 1)
  <1>1. r \in Pos /\ rcv_mem \in [Addr -> Word] /\ RcvR \in Addr /\ RcvW \in Addr
    BY DEF RcvIInv, RcvTypeOK, Pos, RcvR, RcvW
  <1>2. /\ MsgSize(m) \in Nat /\ n \in Nat /\ n >= 1 /\ MsgSize(m) = 1 + n
        /\ DataLen[m] \in Nat /\ DataLen[m] <= n
    <2>1. MsgSize(m) \in Nat /\ MsgSize(m) >= 2 /\ MsgSize(m) >= DataLen[m] + 1
      BY MsgSizeType
    <2>2. QED
      BY <2>1, DataLenAssumption
  <1>3. Dist(RcvR, RcvW) \in Nat /\ Dist(RcvR, RcvW) + MsgSize(m) < Size
    <2>1. Remain(r) > MsgSize(m)
      BY DEF DspStore, Is_Ringbuf_ChFreeSpace
    <2>2. Remain(r) = Size - Dist(RcvR, RcvW)
      BY <1>1, RemainDist DEF RcvR, RcvW
    <2>3. Dist(RcvR, RcvW) \in Addr
      BY <1>1, DistType
    <2>4. QED
      BY <1>2, <2>1, <2>2, <2>3, SizeAssumption DEF Addr
  <1>4. /\ rcv_mem' = Stored(h, mm, BodyWords(m))
        /\ sender' = [pc |-> "publish", msg |-> m,
                      send |-> [h EXCEPT !.Write_Pos = WritePosAfter(h, n)]]
    BY DEF DspStore
  <1>5. /\ Len(HeadWords(m)) = 1 /\ HeadWords(m) \in [1 .. 1 -> Word]
        /\ HeadWords(m)[1] = [m |-> m, k |-> 0]
        /\ Len(BodyWords(m)) = n /\ BodyWords(m) \in [1 .. n -> Word]
    BY WordsType
  <1> HIDE DEF n, mm, h, v
  <1>6. 1 + n < Size /\ 1 + Dist(RcvR, RcvW) < Size /\ 1 < Size
    BY <1>2, <1>3, SizeAssumption
  <1>7. /\ mm \in [Addr -> Word]
        /\ \A a \in Addr : Dist(RcvW, a) >= 1 => mm[a] = rcv_mem[a]
        /\ mm[RcvW] = [m |-> m, k |-> 0]
    <2>1. 1 + Dist(r.Read_Pos, r.Write_Pos) < Size
      BY <1>6 DEF RcvR, RcvW
    <2>2. /\ Stored(r, rcv_mem, HeadWords(m)) \in [Addr -> Word]
          /\ \A a \in Addr : Dist(r.Write_Pos, a) >= 1 =>
               Stored(r, rcv_mem, HeadWords(m))[a] = rcv_mem[a]
      <3>1. Len(HeadWords(m)) = 1 /\ HeadWords(m) \in [1 .. 1 -> Word]
        BY <1>5
      <3>2. QED
        BY <1>1, <2>1, <3>1, StoredWords
    <2>3. mm[r.Write_Pos] = HeadWords(m)[1]
      <3>1. Len(HeadWords(m)) \in Nat \ {0}
        BY <1>5
      <3>2. Stored(r, rcv_mem, HeadWords(m))[r.Write_Pos] = HeadWords(m)[1]
        BY <1>1, <3>1, StoredFirst
      <3>3. QED
        BY <3>2 DEF mm
    <2>4. QED
      BY <1>5, <2>2, <2>3 DEF RcvW, mm
  <1>8. v \in Addr /\ Dist(RcvR, v) = Dist(RcvR, RcvW) + 1
    <2>1. Dist(RcvR, RcvW) + 1 < Size
      BY <1>3, <1>6, SizeAssumption
    <2>2. QED
      BY <1>1, <1>6, <2>1, FwdDist, DistGrows DEF v
  <1>9. h \in Pos /\ h.Read_Pos = RcvR /\ h.Write_Pos = v
    <2>1. WritePosAfter(r, 1) = v
      BY <1>1, <1>6, WritePosFwd DEF RcvR, RcvW, v
    <2>2. QED
      BY <1>1, <1>8, <2>1 DEF h, Pos, RcvR
  <1>10. n + Dist(h.Read_Pos, h.Write_Pos) < Size
    BY <1>2, <1>3, <1>8, <1>9, SizeAssumption
  <1>11. /\ rcv_mem' \in [Addr -> Word]
         /\ \A a \in Addr : Dist(v, a) >= n => rcv_mem'[a] = mm[a]
    BY <1>2, <1>4, <1>5, <1>7, <1>9, <1>10, StoredWords
  <1>12. ASSUME NEW a \in Addr, Before(r, a)
         PROVE  rcv_mem'[a] = rcv_mem[a]
    <2>1. Dist(RcvR, a) < Dist(RcvR, RcvW)
      BY <1>12 DEF Before, RcvR, RcvW
    <2>2. RcvW = Fwd(RcvW, 0)
      BY <1>1, SizeAssumption DEF Addr, Fwd
    <2>3. Dist(RcvW, a) >= 1
      <3>1. Dist(RcvR, RcvW) + 0 + 1 < Size
        BY <1>3, <1>6
      <3>2. QED
        BY <1>1, <2>1, <2>2, <3>1, ClearOfUnread
    <2>4. Dist(v, a) >= n
      <3>1. Dist(RcvR, RcvW) + 1 + n < Size
        BY <1>2, <1>3
      <3>2. QED
        BY <1>1, <1>2, <1>8, <2>1, <3>1, ClearOfUnread DEF v
    <2>5. QED
      BY <1>7, <1>11, <2>3, <2>4
  <1>13. rcv_mem'[RcvW] = [m |-> m, k |-> 0]
    <2>1. Dist(v, RcvW) >= n
      BY <1>1, <1>2, <1>6, SizeAssumption DEF v, Addr, Dist, Fwd
    <2>2. QED
      BY <1>1, <1>7, <1>11, <2>1
  <1>14. ASSUME NEW k \in 1 .. DataLen[m]
         PROVE  rcv_mem'[Fwd(RcvW, k)] = [m |-> m, k |-> k]
    <2>1. k \in 1 .. n /\ k <= DataLen[m]
      BY <1>2
    <2>2. BodyWords(m)[k] = [m |-> m, k |-> k]
      BY <2>1 DEF BodyWords, n
    <2>3. rcv_mem'[Fwd(v, k - 1)] = BodyWords(m)[k]
      <3>1. /\ h \in Pos /\ mm \in [Addr -> Word] /\ h.Write_Pos = v
            /\ rcv_mem' = Stored(h, mm, BodyWords(m))
        BY <1>4, <1>7, <1>9
      <3>2. /\ n \in Nat /\ Len(BodyWords(m)) = n
            /\ n + Dist(h.Read_Pos, h.Write_Pos) < Size
        BY <1>2, <1>5, <1>10
      <3>3. Stored(h, mm, BodyWords(m))[Fwd(h.Write_Pos, k - 1)] = BodyWords(m)[k]
        BY <2>1, <3>1, <3>2, StoredAt
      <3>4. QED
        BY <3>1, <3>3
    <2>4. k - 1 \in Nat /\ 1 + (k - 1) = k /\ 1 + (k - 1) < Size
      BY <1>2, <1>6, <2>1, SizeAssumption
    <2>5. Fwd(v, k - 1) = Fwd(RcvW, k)
      BY <1>1, <2>4, FwdTwice DEF v
    <2>6. QED
      BY <2>2, <2>3, <2>5
  <1>15. WritePosAfter(h, n) = Fwd(RcvW, MsgSize(m)) /\ Fwd(RcvW, MsgSize(m)) \in Addr
    <2>1. WritePosAfter(h, n) = Fwd(v, n)
      BY <1>2, <1>9, <1>10, WritePosFwd
    <2>2. Fwd(v, n) = Fwd(RcvW, MsgSize(m))
      BY <1>1, <1>2, <1>6, FwdTwice DEF v
    <2>3. QED
      BY <1>1, <1>2, <1>6, <2>1, <2>2, FwdDist
  <1>16. sender'.send \in Pos /\ sender'.send.Write_Pos = Fwd(RcvW, MsgSize(m))
    BY <1>4, <1>9, <1>15 DEF Pos
  <1>17. QED
    BY <1>3, <1>11, <1>12, <1>13, <1>14, <1>16 DEF Holds

\* Every step keeps positions, words and program counters in their types.
LEMMA RcvTypeStep == RcvIInv /\ [RcvNext]_rcv_vars => RcvTypeOK'
  <1> SUFFICES ASSUME RcvIInv, [RcvNext]_rcv_vars PROVE RcvTypeOK'
    OBVIOUS
  <1>1. RcvTypeOK
    BY DEF RcvIInv
  <1> USE DEF ReaderPC
  <1>2. CASE CheckEmpty \/ ClearFlag \/ TakeSema \/ SetFlag \/ Recheck \/ CopyPos \/ Handle
    <2>1. CASE CheckEmpty
      BY <1>1, <2>1 DEF RcvTypeOK, CheckEmpty, Step
    <2>2. CASE ClearFlag
      BY <1>1, <2>2 DEF RcvTypeOK, ClearFlag, Step
    <2>3. CASE TakeSema
      BY <1>1, <2>3 DEF RcvTypeOK, TakeSema, Step
    <2>4. CASE SetFlag
      BY <1>1, <2>4 DEF RcvTypeOK, SetFlag, Step
    <2>5. CASE Recheck
      BY <1>1, <2>5 DEF RcvTypeOK, Recheck, Step
    <2>6. CASE CopyPos
      BY <1>1, <2>6 DEF RcvTypeOK, CopyPos, Step
    <2>7. CASE Handle
      BY <1>1, <2>7 DEF RcvTypeOK, Handle, Step
    <2>8. QED
      BY <1>2, <2>1, <2>2, <2>3, <2>4, <2>5, <2>6, <2>7
  <1>3. CASE ReadHead
    <2>1. HeadAt(rcv_crl, rcv_mem) \in Word /\ AfterHead(rcv_crl) \in Pos
      BY <1>1, HeadAtRead, AfterHeadType DEF RcvTypeOK, Pos
    <2>2. QED
      BY <1>1, <1>3, <2>1 DEF RcvTypeOK, ReadHead
  <1>4. CASE ReadBody
    <2>1. AfterBody(rcv_crl, reader.head) \in Pos
      BY <1>1, AfterBodyType DEF RcvTypeOK
    <2>2. Assembled(reader.head, BodyAt(rcv_crl, reader.head, rcv_mem))
            \in Msg \cup {NoMsg}
      BY DEF Assembled
    <2>3. QED
      BY <1>1, <1>4, <2>1, <2>2 DEF RcvTypeOK, ReadBody
  <1>5. CASE Release
    BY <1>1, <1>5 DEF RcvTypeOK, Release, Pos
  <1>6. CASE IpcInthandler \/ WfiEnds \/ DspRaise \/ DspDrains
    BY <1>1, <1>6 DEF RcvTypeOK, IpcInthandler, WfiEnds, DspRaise, DspDrains
  <1>7. CASE vApplicationIdleHook \/ LPM_Wfi_Process
    <2>1. icm_buf_check \in {0, 1}
      BY <1>1 DEF RcvTypeOK, icm_buf_check
    <2>2. QED
      BY <1>1, <1>7, <2>1 DEF RcvTypeOK, vApplicationIdleHook, LPM_Wfi_Process
  <1>8. ASSUME NEW m \in Msg, DspStore(m)
        PROVE  RcvTypeOK'
    <2>1. rcv_mem' \in [Addr -> Word] /\ sender'.send \in Pos
      BY <1>8, DspStores
    <2>2. sender' = [pc |-> "publish", msg |-> m, send |-> sender'.send]
      BY <1>8 DEF DspStore
    <2>3. QED
      BY <1>1, <1>8, <2>1, <2>2 DEF RcvTypeOK, DspStore
  <1>9. CASE DspPublish
    BY <1>1, <1>9 DEF RcvTypeOK, DspPublish, Pos
  <1>10. CASE UNCHANGED rcv_vars
    BY <1>1, <1>10 DEF RcvTypeOK, rcv_vars
  <1>11. QED
    BY <1>2, <1>3, <1>4, <1>5, <1>6, <1>7, <1>8, <1>9, <1>10
       DEF RcvNext, Reader, Idle, Sender

\* DspPublish moves Write_Pos past the message it has stored.
LEMMA DspPublishMoves ==
  ASSUME RcvIInv, DspPublish
  PROVE  /\ sender.msg \in Msg
         /\ MsgSize(sender.msg) \in Nat /\ 2 <= MsgSize(sender.msg)
         /\ Holds(rcv_mem, RcvW, sender.msg)
         /\ RcvR' = RcvR /\ RcvW' = Fwd(RcvW, MsgSize(sender.msg))
         /\ RcvR \in Addr /\ RcvW \in Addr /\ RcvW' \in Addr
         /\ Dist(RcvR, RcvW) + MsgSize(sender.msg) < Size
         /\ RcvR # RcvW'
  <1> DEFINE n == MsgSize(sender.msg)
  <1>1. /\ sender.msg \in Msg /\ Holds(rcv_mem, RcvW, sender.msg)
        /\ sender.send.Write_Pos = Fwd(RcvW, n)
        /\ Dist(RcvR, RcvW) + n < Size
    BY DEF RcvIInv, SenderOK, DspPublish
  <1>2. RingBuf_rcv \in Pos /\ RcvR \in Addr /\ RcvW \in Addr
    BY DEF RcvIInv, RcvTypeOK, Pos, RcvR, RcvW
  <1>3. RcvR' = RcvR /\ RcvW' = Fwd(RcvW, n)
    BY <1>1, <1>2 DEF DspPublish, RcvR, RcvW, Pos
  <1>4. n \in Nat /\ n >= 2
    BY <1>1, MsgSizeType
  <1> HIDE DEF n
  <1>5. Fwd(RcvW, n) \in Addr /\ RcvR # Fwd(RcvW, n)
    BY <1>1, <1>2, <1>4, EndMoves
  <1>6. QED
    BY <1>1, <1>2, <1>3, <1>4, <1>5 DEF n

\* Release moves Read_Pos past the oldest message, which has been assembled.
LEMMA RcvReleaseMoves ==
  ASSUME RcvIInv, Release
  PROVE  /\ RcvR # RcvW
         /\ RcvR' = Fwd(RcvR, MsgSize(rcv_mem[RcvR].m)) /\ RcvR' \in Addr
         /\ RcvW' = RcvW
         /\ Dist(RcvR', RcvW) <= Dist(RcvR, RcvW)
         /\ reader'.taken = rcv_mem[RcvR].m
  <1> DEFINE n == MsgSize(rcv_mem[RcvR].m)
  <1>1. /\ RcvR # RcvW /\ rcv_crl.Read_Pos = Fwd(RcvR, n)
        /\ reader'.taken = rcv_mem[RcvR].m
    BY DEF RcvIInv, RcvReaderOK, RcvTypeOK, Release
  <1>2. RingBuf_rcv \in Pos
    BY DEF RcvIInv, RcvTypeOK
  <1>3. RcvR' = Fwd(RcvR, n) /\ RcvW' = RcvW
    BY <1>1, <1>2 DEF Release, RcvR, RcvW, Pos
  <1>4. /\ RcvR \in Addr /\ RcvW \in Addr /\ Fwd(RcvR, n) \in Addr
        /\ n \in 2 .. Size - 1 /\ n <= Dist(RcvR, RcvW)
    BY <1>1, RcvOldest
  <1> HIDE DEF n
  <1>5. Dist(RcvR, Fwd(RcvR, n)) = n
    BY <1>4, FwdDist, SizeAssumption
  <1>6. n + Dist(Fwd(RcvR, n), RcvW) = Dist(RcvR, RcvW)
    BY <1>4, <1>5, DistVia
  <1>7. Dist(Fwd(RcvR, n), RcvW) \in Addr /\ Dist(RcvR, RcvW) \in Addr
    BY <1>4, DistType
  <1>8. Dist(Fwd(RcvR, n), RcvW) <= Dist(RcvR, RcvW)
    BY <1>4, <1>6, <1>7, SizeAssumption DEF Addr
  <1>9. QED
    BY <1>1, <1>3, <1>4, <1>8 DEF n

\* What the steps of either core do to the messages in the ring.
LEMMA DspPublishPuts ==
  ASSUME RcvIInv, DspPublish
  PROVE  /\ RcvFramed'
         /\ Contents(RingBuf_rcv, rcv_mem)'
              = Append(Contents(RingBuf_rcv, rcv_mem), sender.msg)
  <1>1. PICK F \in SUBSET Addr : HeadsAt(F, RingBuf_rcv, rcv_mem)
    BY DEF RcvIInv, RcvFramed
  <1>2. /\ sender.msg \in Msg /\ Holds(rcv_mem, RcvW, sender.msg)
        /\ RcvR' = RcvR /\ RcvW' = Fwd(RcvW, MsgSize(sender.msg))
        /\ RcvW \in Addr /\ RcvW' \in Addr
        /\ Dist(RcvR, RcvW) + MsgSize(sender.msg) < Size
    BY DspPublishMoves
  <1>3. RingBuf_rcv \in Pos /\ rcv_mem \in [Addr -> Word] /\ rcv_mem' = rcv_mem
    BY DEF RcvIInv, RcvTypeOK, DspPublish
  <1>4. RingBuf_rcv' \in Pos
    BY RcvTypeStep DEF RcvTypeOK, RcvNext, Sender
  <1>5. Puts(F, RingBuf_rcv, rcv_mem, sender.msg, RingBuf_rcv')
    BY <1>1, <1>2, <1>3, <1>4 DEF Puts, RcvR, RcvW
  <1>6. /\ \E G \in SUBSET Addr : HeadsAt(G, RingBuf_rcv', rcv_mem)
        /\ Contents(RingBuf_rcv', rcv_mem)
             = Append(Contents(RingBuf_rcv, rcv_mem), sender.msg)
    BY <1>5, ContentsPut
  <1>7. QED
    BY <1>3, <1>6 DEF RcvFramed

\* IpcMsg_Read gives the room of the oldest message back.
LEMMA RcvReleaseTakes ==
  ASSUME RcvIInv, Release
  PROVE  /\ RcvFramed'
         /\ Contents(RingBuf_rcv, rcv_mem) # << >>
         /\ reader'.taken = Head(Contents(RingBuf_rcv, rcv_mem))
         /\ Contents(RingBuf_rcv, rcv_mem)' = Tail(Contents(RingBuf_rcv, rcv_mem))
  <1>1. PICK F \in SUBSET Addr : HeadsAt(F, RingBuf_rcv, rcv_mem)
    BY DEF RcvIInv, RcvFramed
  <1>2. /\ RcvR # RcvW /\ RcvR' = Fwd(RcvR, MsgSize(rcv_mem[RcvR].m))
        /\ RcvW' = RcvW /\ reader'.taken = rcv_mem[RcvR].m
    BY RcvReleaseMoves
  <1>3. RingBuf_rcv \in Pos /\ rcv_mem \in [Addr -> Word] /\ rcv_mem' = rcv_mem
    BY DEF RcvIInv, RcvTypeOK, Release
  <1>4. RingBuf_rcv' \in Pos
    BY RcvTypeStep DEF RcvTypeOK, RcvNext, Reader
  <1>5. Takes(F, RingBuf_rcv, rcv_mem, RingBuf_rcv')
    BY <1>1, <1>2, <1>3, <1>4 DEF Takes, RcvR, RcvW
  <1>6. /\ \E G \in SUBSET Addr : HeadsAt(G, RingBuf_rcv', rcv_mem)
        /\ Contents(RingBuf_rcv, rcv_mem) # << >>
        /\ Head(Contents(RingBuf_rcv, rcv_mem)) = rcv_mem[RcvR].m
        /\ Tail(Contents(RingBuf_rcv, rcv_mem)) = Contents(RingBuf_rcv', rcv_mem)
    BY <1>5, ContentsTake DEF RcvR
  <1>7. QED
    BY <1>2, <1>3, <1>6 DEF RcvFramed

\* No step stores into a word that is unread.
LEMMA RcvUnreadKept ==
  ASSUME RcvIInv, [RcvNext]_rcv_vars
  PROVE  \A a \in Addr : Before(RingBuf_rcv, a) => rcv_mem'[a] = rcv_mem[a]
  <1>1. CASE \E m \in Msg : DspStore(m)
    BY <1>1, DspStores
  <1>2. CASE rcv_mem' = rcv_mem
    BY <1>2
  <1>3. QED
    BY <1>1, <1>2 DEF RcvNext, Reader, Idle, Sender, rcv_vars, CheckEmpty, ClearFlag,
       TakeSema, SetFlag, Recheck, CopyPos, ReadHead, ReadBody, Release, Handle,
       IpcInthandler, vApplicationIdleHook, LPM_Wfi_Process, WfiEnds, DspPublish,
       DspRaise, DspDrains

\* While the positions stay, what the DSP stores changes nothing unread.
LEMMA RcvOthersKeep ==
  ASSUME RcvIInv, [RcvNext]_rcv_vars, RingBuf_rcv' = RingBuf_rcv
  PROVE  RcvFramed' /\ Contents(RingBuf_rcv, rcv_mem)' = Contents(RingBuf_rcv, rcv_mem)
  <1>1. PICK F \in SUBSET Addr : HeadsAt(F, RingBuf_rcv, rcv_mem)
    BY DEF RcvIInv, RcvFramed
  <1>2. RingBuf_rcv \in Pos /\ rcv_mem \in [Addr -> Word] /\ rcv_mem' \in [Addr -> Word]
    BY RcvTypeStep DEF RcvIInv, RcvTypeOK
  <1>3. /\ HeadsAt(F, RingBuf_rcv, rcv_mem')
        /\ Contents(RingBuf_rcv, rcv_mem') = Contents(RingBuf_rcv, rcv_mem)
    BY <1>1, <1>2, RcvUnreadKept, ContentsKept
  <1>4. QED
    BY <1>3 DEF RcvFramed

\* The two steps that another core can see.
LEMMA RcvVisible ==
  ASSUME RcvIInv, [RcvNext]_rcv_vars
  PROVE  \/ DspPublish
         \/ Release
         \/ RingBuf_rcv' = RingBuf_rcv /\ reader'.taken = reader.taken
  <1>1. reader \in [pc : ReaderPC, head : Word, got : Msg \cup {NoMsg},
                    taken : Msg \cup {NoMsg}]
    BY DEF RcvIInv, RcvTypeOK
  <1>2. CASE Reader /\ ~ Release
    BY <1>1, <1>2 DEF Reader, CheckEmpty, ClearFlag, TakeSema, SetFlag, Recheck,
       CopyPos, ReadHead, ReadBody, Handle, Step
  <1>3. CASE IpcInthandler \/ Idle
    BY <1>3 DEF IpcInthandler, Idle, vApplicationIdleHook, LPM_Wfi_Process, WfiEnds
  <1>4. CASE Sender /\ ~ DspPublish
    BY <1>4 DEF Sender, DspStore, DspRaise, DspDrains
  <1>5. CASE UNCHANGED rcv_vars
    BY <1>5 DEF rcv_vars
  <1>6. RcvNext \/ UNCHANGED rcv_vars
    OBVIOUS
  <1>7. QED
    BY <1>2, <1>3, <1>4, <1>5, <1>6 DEF RcvNext

\* What is unread stays a sequence of whole messages.
LEMMA RcvFramedStep == RcvIInv /\ [RcvNext]_rcv_vars => RcvFramed'
  <1> SUFFICES ASSUME RcvIInv, [RcvNext]_rcv_vars PROVE RcvFramed'
    OBVIOUS
  <1>1. CASE DspPublish
    BY <1>1, DspPublishPuts
  <1>2. CASE Release
    BY <1>2, RcvReleaseTakes
  <1>3. CASE RingBuf_rcv' = RingBuf_rcv /\ reader'.taken = reader.taken
    BY <1>3, RcvOthersKeep
  <1>4. QED
    BY <1>1, <1>2, <1>3, RcvVisible

\* What the DSP is about to publish stays stored behind Write_Pos.
LEMMA SenderStep == RcvIInv /\ [RcvNext]_rcv_vars => SenderOK'
  <1> SUFFICES ASSUME RcvIInv, [RcvNext]_rcv_vars PROVE SenderOK'
    OBVIOUS
  <1>1. RcvTypeOK /\ SenderOK /\ RcvR \in Addr /\ RcvW \in Addr
    BY DEF RcvIInv, RcvTypeOK, Pos, RcvR, RcvW
  <1>2. ASSUME NEW m \in Msg, DspStore(m)
        PROVE  SenderOK'
    <2>1. sender'.msg = m /\ RcvR' = RcvR /\ RcvW' = RcvW
      BY <1>2 DEF DspStore, RcvR, RcvW
    <2>2. QED
      BY <1>2, <2>1, DspStores DEF SenderOK
  <1>3. CASE DspPublish \/ DspRaise
    BY <1>1, <1>3 DEF RcvTypeOK, SenderOK, DspPublish, DspRaise
  <1>4. CASE Release
    <2>1. /\ RcvR' \in Addr /\ RcvW' = RcvW /\ Dist(RcvR', RcvW) <= Dist(RcvR, RcvW)
          /\ UNCHANGED << sender, rcv_mem >>
      BY <1>4, RcvReleaseMoves DEF Release
    <2>2. sender.pc = "publish" => Dist(RcvR', RcvW) + MsgSize(sender.msg) < Size
      <3> SUFFICES ASSUME sender.pc = "publish"
                   PROVE  Dist(RcvR', RcvW) + MsgSize(sender.msg) < Size
        OBVIOUS
      <3>1. sender.msg \in Msg /\ Dist(RcvR, RcvW) + MsgSize(sender.msg) < Size
        BY <1>1 DEF SenderOK
      <3>2. MsgSize(sender.msg) \in Nat
        BY <3>1, MsgSizeType
      <3>3. Dist(RcvR', RcvW) \in Addr /\ Dist(RcvR, RcvW) \in Addr
        BY <1>1, <2>1, DistType
      <3>4. QED
        BY <2>1, <3>1, <3>2, <3>3, SizeAssumption DEF Addr
    <2>3. QED
      BY <1>1, <2>1, <2>2 DEF SenderOK
  <1>5. CASE UNCHANGED << RingBuf_rcv, rcv_mem, sender >>
    BY <1>1, <1>5 DEF SenderOK, RcvR, RcvW
  <1>6. QED
    BY <1>2, <1>3, <1>4, <1>5 DEF RcvNext, Reader, Idle, Sender, rcv_vars, CheckEmpty,
       ClearFlag, TakeSema, SetFlag, Recheck, CopyPos, ReadHead, ReadBody, Handle,
       IpcInthandler, vApplicationIdleHook, LPM_Wfi_Process, WfiEnds, DspDrains

\* What IpcMsg_Read goes by stays true of the oldest message.
LEMMA RcvReaderStep == RcvIInv /\ [RcvNext]_rcv_vars => RcvReaderOK'
  <1> SUFFICES ASSUME RcvIInv, [RcvNext]_rcv_vars PROVE RcvReaderOK'
    OBVIOUS
  <1>1. /\ RcvTypeOK /\ RcvReaderOK
        /\ RingBuf_rcv \in Pos /\ rcv_crl \in Pos /\ rcv_mem \in [Addr -> Word]
        /\ RcvR \in Addr /\ RcvW \in Addr
    BY DEF RcvIInv, RcvTypeOK, Pos, RcvR, RcvW
  <1>2. CASE CheckEmpty \/ ClearFlag \/ TakeSema \/ SetFlag \/ Release \/ Handle
    <2>1. reader'.pc \in {"check", "clear", "take", "set", "recheck", "handle"}
      BY <1>1, <1>2 DEF RcvTypeOK, CheckEmpty, ClearFlag, TakeSema, SetFlag, Release,
         Handle, Step
    <2>2. QED
      BY <2>1 DEF RcvReaderOK
  <1>3. CASE Recheck
    <2>1. /\ reader'.pc = "copy" => RcvR # RcvW
          /\ reader'.pc \in {"check", "copy"}
      BY <1>1, <1>3 DEF RcvTypeOK, Recheck, Step, Is_Ringbuf_Empty, RcvR, RcvW
    <2>2. RcvR' = RcvR /\ RcvW' = RcvW
      BY <1>3 DEF Recheck, RcvR, RcvW
    <2>3. QED
      BY <2>1, <2>2 DEF RcvReaderOK
  <1>4. CASE CopyPos
    <2>1. /\ RcvR # RcvW /\ reader'.pc = "head" /\ rcv_crl' = RingBuf_rcv
          /\ UNCHANGED << rcv_mem, RingBuf_rcv >>
      BY <1>1, <1>4 DEF RcvTypeOK, RcvReaderOK, CopyPos, Step
    <2>2. MsgSize(rcv_mem[RcvR].m) <= Dist(RcvR, RcvW)
      BY <2>1, RcvOldest
    <2>3. RcvR' = RcvR /\ RcvW' = RcvW /\ rcv_crl'.Read_Pos = RcvR
          /\ rcv_crl'.Write_Pos = RcvW
      BY <2>1 DEF RcvR, RcvW
    <2>4. QED
      BY <2>1, <2>2, <2>3 DEF RcvReaderOK
  <1>5. CASE ReadHead
    <2>1. /\ RcvR # RcvW /\ rcv_crl.Read_Pos = RcvR
          /\ MsgSize(rcv_mem[RcvR].m) <= Dist(RcvR, rcv_crl.Write_Pos)
      BY <1>1, <1>5 DEF RcvReaderOK, ReadHead
    <2>2. /\ reader'.pc = "body" /\ reader'.head = HeadAt(rcv_crl, rcv_mem)
          /\ rcv_crl' = AfterHead(rcv_crl)
          /\ UNCHANGED << rcv_mem, RingBuf_rcv >>
      BY <1>1, <1>5 DEF RcvTypeOK, ReadHead
    <2>3. rcv_mem[RcvR].m \in Msg /\ Holds(rcv_mem, RcvR, rcv_mem[RcvR].m)
      BY <2>1, RcvOldest
    <2>4. AfterHead(rcv_crl) = [rcv_crl EXCEPT !.Read_Pos = Fwd(RcvR, 1)]
      BY <1>1, <2>1, <2>3, ReadsWhole
    <2>5. /\ AfterHead(rcv_crl).Read_Pos = Fwd(RcvR, 1)
          /\ AfterHead(rcv_crl).Write_Pos = rcv_crl.Write_Pos
      BY <1>1, <2>4 DEF Pos
    <2>6. HeadAt(rcv_crl, rcv_mem) = rcv_mem[RcvR]
      BY <1>1, <2>1, HeadAtRead
    <2>7. RcvR' = RcvR /\ RcvW' = RcvW
      BY <2>2 DEF RcvR, RcvW
    <2>8. QED
      BY <2>1, <2>2, <2>5, <2>6, <2>7 DEF RcvReaderOK
  <1>6. CASE ReadBody
    <2> DEFINE m == rcv_mem[RcvR].m
               at == [rcv_crl EXCEPT !.Read_Pos = RcvR]
    <2>1. /\ RcvR # RcvW /\ reader.head = rcv_mem[RcvR]
          /\ rcv_crl.Read_Pos = Fwd(RcvR, 1)
          /\ MsgSize(m) <= Dist(RcvR, rcv_crl.Write_Pos)
      BY <1>1, <1>6 DEF RcvReaderOK, ReadBody
    <2>2. m \in Msg /\ Holds(rcv_mem, RcvR, m)
      BY <2>1, RcvOldest
    <2>3. /\ at \in Pos /\ at.Read_Pos = RcvR /\ at.Write_Pos = rcv_crl.Write_Pos
          /\ rcv_crl = [at EXCEPT !.Read_Pos = Fwd(RcvR, 1)]
      BY <1>1, <2>1 DEF Pos
    <2> HIDE DEF at
    <2>4. /\ HeadAt(at, rcv_mem) = rcv_mem[RcvR] /\ AfterHead(at) = rcv_crl
          /\ Assembled(rcv_mem[RcvR], BodyAt(rcv_crl, rcv_mem[RcvR], rcv_mem)) = m
          /\ AfterBody(rcv_crl, rcv_mem[RcvR])
               = [at EXCEPT !.Read_Pos = Fwd(RcvR, MsgSize(m))]
      <3>1. HeadAt(at, rcv_mem) = rcv_mem[RcvR]
        BY <1>1, <2>3, HeadAtRead
      <3>2. QED
        BY <1>1, <2>1, <2>2, <2>3, <3>1, ReadsWhole
    <2>5. AfterBody(rcv_crl, rcv_mem[RcvR]).Read_Pos = Fwd(RcvR, MsgSize(m))
      BY <2>3, <2>4 DEF Pos
    <2>6. /\ reader'.pc = "release" /\ reader'.got = m
          /\ rcv_crl' = AfterBody(rcv_crl, rcv_mem[RcvR])
          /\ UNCHANGED << rcv_mem, RingBuf_rcv >>
      BY <1>1, <1>6, <2>1, <2>4 DEF RcvTypeOK, ReadBody
    <2>7. RcvR' = RcvR /\ RcvW' = RcvW
      BY <2>6 DEF RcvR, RcvW
    <2>8. QED
      BY <2>1, <2>5, <2>6, <2>7 DEF RcvReaderOK
  <1>7. ASSUME NEW m \in Msg, DspStore(m)
        PROVE  RcvReaderOK'
    <2>1. UNCHANGED << RingBuf_rcv, rcv_crl, reader >>
      BY <1>7 DEF DspStore
    <2>2. RcvR' = RcvR /\ RcvW' = RcvW
      BY <2>1 DEF RcvR, RcvW
    <2>3. RcvR # RcvW => rcv_mem'[RcvR] = rcv_mem[RcvR]
      BY RcvOldest, RcvUnreadKept
    <2>4. QED
      BY <1>1, <2>1, <2>2, <2>3 DEF RcvReaderOK
  <1>8. CASE DspPublish
    <2>1. /\ RcvR' = RcvR /\ RcvR # RcvW'
          /\ UNCHANGED << rcv_mem, rcv_crl, reader >>
      BY <1>8, DspPublishMoves DEF DspPublish
    <2>2. QED
      BY <1>1, <2>1 DEF RcvReaderOK
  <1>9. CASE UNCHANGED << RingBuf_rcv, rcv_crl, rcv_mem, reader >>
    BY <1>1, <1>9 DEF RcvReaderOK, RcvR, RcvW
  <1>10. CASE IpcInthandler \/ Idle \/ DspRaise \/ DspDrains
    BY <1>9, <1>10 DEF Idle, IpcInthandler, vApplicationIdleHook, LPM_Wfi_Process,
       WfiEnds, DspRaise, DspDrains
  <1>11. QED
    BY <1>2, <1>3, <1>4, <1>5, <1>6, <1>7, <1>8, <1>9, <1>10
       DEF RcvNext, Reader, Sender, rcv_vars

\* The invariant of the receiving direction is inductive.
LEMMA RcvInvNext == RcvIInv /\ [RcvNext]_rcv_vars => RcvIInv'
  BY RcvTypeStep, RcvFramedStep, SenderStep, RcvReaderStep DEF RcvIInv

-----------------------------------------------------------------------------
(* Theorems of the receiving direction                                        *)

(* Every reachable state of the receiving direction has whole messages from   *)
(* Read_Pos to Write_Pos, room for the one being stored, and a reader that    *)
(* keeps to their boundaries on a copy of the positions that may be old.      *)
THEOREM RcvInvariance == RcvSpec => []RcvIInv
  BY RcvInitInv, RcvInvNext, PTL DEF RcvSpec

(* The positions stay inside the ring, and the ring holds words of messages.  *)
THEOREM RcvTypeCorrect == RcvSpec => []RcvTypeOK
  <1>1. RcvIInv => RcvTypeOK
    BY DEF RcvIInv
  <1>2. QED
    BY <1>1, RcvInvariance, PTL

(* What IpcMsg_Read takes out are the messages the DSP put in, whole, in      *)
(* their order and each of them once, while the DSP keeps writing.            *)
THEOREM ReadImplements == RcvSpec => RcvImplementsChannel
  <1>1. RcvInit => RcvChannel!Init
    <2> SUFFICES ASSUME RcvInit PROVE RcvChannel!Init
      OBVIOUS
    <2>1. /\ RingBuf_rcv \in Pos /\ rcv_mem \in [Addr -> Word]
          /\ RingBuf_rcv.Read_Pos = RingBuf_rcv.Write_Pos
      BY RcvInitInv DEF RcvIInv, RcvTypeOK, RcvInit
    <2>2. Contents(RingBuf_rcv, rcv_mem) = << >>
      BY <2>1, ContentsEmpty
    <2>3. QED
      BY <2>2 DEF RcvInit, RcvChannel!Init
  <1>2. RcvIInv /\ [RcvNext]_rcv_vars => [RcvChannel!Next]_(RcvChannel!vars)
    <2> SUFFICES ASSUME RcvIInv, [RcvNext]_rcv_vars
                 PROVE  [RcvChannel!Next]_(RcvChannel!vars)
      OBVIOUS
    <2>1. CASE DspPublish
      <3>1. RcvChannel!Put(sender.msg) /\ sender.msg \in Msg
        BY <2>1, DspPublishPuts, DspPublishMoves DEF RcvChannel!Put, DspPublish
      <3>2. QED
        BY <3>1 DEF RcvChannel!Next
    <2>2. CASE Release
      <3>1. RcvChannel!Take
        BY <2>2, RcvReleaseTakes DEF RcvChannel!Take
      <3>2. QED
        BY <3>1 DEF RcvChannel!Next
    <2>3. CASE RingBuf_rcv' = RingBuf_rcv /\ reader'.taken = reader.taken
      <3>1. Contents(RingBuf_rcv, rcv_mem)' = Contents(RingBuf_rcv, rcv_mem)
        BY <2>3, RcvOthersKeep
      <3>2. QED
        BY <2>3, <3>1 DEF RcvChannel!vars
    <2>4. QED
      BY <2>1, <2>2, <2>3, RcvVisible
  <1>3. QED
    BY <1>1, <1>2, RcvInvariance, PTL DEF RcvSpec, RcvImplementsChannel, RcvChannel!Spec

-----------------------------------------------------------------------------
(* The receiving direction: the core does not sleep over a message            *)
(* (icm_buf_check, LPM_Wfi_Process).                                          *)

(* What a step may do while the core is in WFI: the DSP alone moves, and what *)
(* it publishes it announces.                                                 *)
LEMMA AsleepStep ==
  ASSUME idle = "wfi", NeverSleepsOverMessage, [RcvNext]_rcv_vars
  PROVE  NeverSleepsOverMessage'
  <1> USE DEF NeverSleepsOverMessage, Is_Ringbuf_Empty
  <1>1. CASE Reader \/ IpcInthandler \/ vApplicationIdleHook \/ LPM_Wfi_Process
    BY <1>1 DEF Reader, CheckEmpty, ClearFlag, TakeSema, SetFlag, Recheck, CopyPos,
       ReadHead, ReadBody, Release, Handle, Step, IpcInthandler,
       vApplicationIdleHook, LPM_Wfi_Process
  <1>2. CASE WfiEnds
    BY <1>2 DEF WfiEnds
  <1>3. CASE \E m \in Msg : DspStore(m)
    BY <1>3 DEF DspStore
  <1>4. CASE DspPublish
    BY <1>4 DEF DspPublish
  <1>5. CASE DspRaise \/ DspDrains
    BY <1>5 DEF DspRaise, DspDrains
  <1>6. CASE UNCHANGED rcv_vars
    BY <1>6 DEF rcv_vars
  <1> QED
    BY <1>1, <1>2, <1>3, <1>4, <1>5, <1>6 DEF RcvNext, Idle, Sender

(* Nothing but LPM_Wfi_Process enters WFI, and it has just seen an empty ring.*)
LEMMA FallsAsleep ==
  ASSUME idle # "wfi", [RcvNext]_rcv_vars
  PROVE  NeverSleepsOverMessage'
  <1> USE DEF NeverSleepsOverMessage
  <1>1. CASE LPM_Wfi_Process
    BY <1>1 DEF LPM_Wfi_Process, StayAwake, Is_Ringbuf_Empty
  <1>2. CASE RcvNext /\ ~ LPM_Wfi_Process
    BY <1>2 DEF RcvNext, Reader, CheckEmpty, ClearFlag, TakeSema, SetFlag, Recheck, CopyPos,
       ReadHead, ReadBody, Release, Handle, Step, IpcInthandler, Idle,
       vApplicationIdleHook, WfiEnds, Sender, DspStore, DspPublish, DspRaise, DspDrains
  <1>3. CASE UNCHANGED rcv_vars
    BY <1>3 DEF rcv_vars
  <1> QED  BY <1>1, <1>2, <1>3

(* Whatever arrives between the look of the idle hook and WFI, and during it, *)
(* has an interrupt behind it that ends the WFI.                              *)
THEOREM NeverSleepsOver == RcvSpec => []NeverSleepsOverMessage
  <1>1. RcvInit => NeverSleepsOverMessage
    BY DEF RcvInit, NeverSleepsOverMessage, Is_Ringbuf_Empty
  <1>2. NeverSleepsOverMessage /\ [RcvNext]_rcv_vars => NeverSleepsOverMessage'
    BY AsleepStep, FallsAsleep
  <1> QED  BY <1>1, <1>2, PTL DEF RcvSpec
=============================================================================
