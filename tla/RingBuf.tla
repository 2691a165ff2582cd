------------------------------- MODULE RingBuf -------------------------------
(* The inter-core ring of DRIVERS/IpcMsg/src/ipcmsg_ringbuf.c as operators.   *)
(* A ring is a record [Write_Pos, Read_Pos] into a memory of Size words; the  *)
(* unit is IPCMSG_ALIGN, four bytes, which is also the size of T_IpcMsg_Head. *)
(* A message occupies whole cache lines: the head, data_len words of payload, *)
(* and padding up to a multiple of CacheLine.                                 *)
EXTENDS Integers, Sequences

CONSTANTS
  Size,       \* words in the ring: block_cnt * (block_size + head) / 4
  CacheLine,  \* words in a cache line (CACHE_LINE / 4)
  Msg,        \* the messages that are exchanged
  NoMsg,      \* no message: padding, or a head and payload that do not match
  DataLen     \* DataLen[m]: payload words of message m (T_IpcMsg_Msg.len)

ASSUME SizeAssumption == Size \in Nat \ {0}
ASSUME CacheLineAssumption == CacheLine \in Nat \ {0}
ASSUME NoMsgAssumption == NoMsg \notin Msg
ASSUME DataLenAssumption == DataLen \in [Msg -> Nat \ {0}]

\* ALIGN_IPCMSG: round up, masking the low bits off.
ALIGN_IPCMSG(n, align) == LET up == n + align - 1 IN up - (up % align)

\* Words a message takes in the ring ("size" of IpcMsg_Write).
MsgSize(m) == ALIGN_IPCMSG(DataLen[m] + 1, CacheLine)

\* What one word of the ring holds: word 0 of m is its head (data_flag and
\* data_len), word k its k-th payload word, and Pad is whatever follows.
Word == [m : Msg \cup {NoMsg}, k : Nat]
Pad == [m |-> NoMsg, k |-> 0]
Addr == 0 .. Size - 1

Pos == [Write_Pos : Addr, Read_Pos : Addr]

Is_Ringbuf_Empty(r) == r.Write_Pos = r.Read_Pos

\* icpmsg_ringbuf_write_remain_size
Remain(r) == IF r.Write_Pos < r.Read_Pos
             THEN r.Read_Pos - r.Write_Pos
             ELSE Size - r.Write_Pos + r.Read_Pos

\* Strictly more than n, so that a full ring is never mistaken for an empty one.
Is_Ringbuf_ChFreeSpace(r, n) == Remain(r) > n

WriteWraps(r, n) == r.Write_Pos >= r.Read_Pos /\ n > Size - r.Write_Pos

\* ipcmsg_ringbuf_write, the memcpy: words src[1 .. n] from Write_Pos on, the
\* part beyond the end of the ring at its beginning.
Stored(r, mem, src) ==
  LET n  == Len(src)
      wp == r.Write_Pos
      tail == Size - wp
  IN  [a \in DOMAIN mem |->
         IF a >= wp /\ a < wp + n /\ (WriteWraps(r, n) => a < Size)
         THEN src[a - wp + 1]
         ELSE IF WriteWraps(r, n) /\ a < n - tail
         THEN src[a + tail + 1]
         ELSE mem[a]]

\* ipcmsg_ringbuf_write, the position: one step of n words.
WritePosAfter(r, n) ==
  LET next == IF WriteWraps(r, n) THEN n - Size + r.Write_Pos
                                  ELSE r.Write_Pos + n
  IN  IF next >= Size THEN next % Size ELSE next

ReadWraps(r, n) == r.Write_Pos < r.Read_Pos /\ n > Size - r.Read_Pos

\* Beyond the ring lies memory that belongs to something else.
Peek(mem, a) == IF a \in DOMAIN mem THEN mem[a] ELSE Pad

\* ipcmsg_ringbuf_read, the memcpy: len words, of a block of n.
Fetched(r, mem, len, n) ==
  [i \in 1 .. len |->
     IF ReadWraps(r, n) /\ i > Size - r.Read_Pos
     THEN Peek(mem, i - 1 - (Size - r.Read_Pos))
     ELSE Peek(mem, r.Read_Pos + i - 1)]

ReadPosAfter(r, n) ==
  LET next == IF ReadWraps(r, n) THEN n - Size + r.Read_Pos
                                 ELSE r.Read_Pos + n
  IN  IF next >= Size THEN next % Size ELSE next

\* The two calls of IpcMsg_Read: the head, and then the payload that the head
\* announces, skipping to the end of the last cache line.
HeadAt(r, mem) == Fetched(r, mem, 1, 1)[1]
AfterHead(r) == [r EXCEPT !.Read_Pos = ReadPosAfter(r, 1)]
LenOf(head) == IF head.m \in Msg THEN DataLen[head.m] ELSE 1
BlockOf_Unaligned(head) == LenOf(head)  \* Mutant: the padding is not skipped
BlockOf(head) == ALIGN_IPCMSG(LenOf(head) + 1, CacheLine) - 1
BodyAt(r, head, mem) == Fetched(r, mem, LenOf(head), BlockOf(head))
AfterBody(r, head) == [r EXCEPT !.Read_Pos = ReadPosAfter(r, BlockOf(head))]

\* The two calls of IpcMsg_Write.
HeadWords(m) == << [m |-> m, k |-> 0] >>
BodyWords(m) == [i \in 1 .. MsgSize(m) - 1 |->
                   IF i <= DataLen[m] THEN [m |-> m, k |-> i] ELSE Pad]
Payload(m) == [i \in 1 .. DataLen[m] |-> [m |-> m, k |-> i]]

\* The message that was transferred; NoMsg if head and payload disagree.
Assembled(head, body) == IF head.m \in Msg /\ head.k = 0 /\ body = Payload(head.m)
                         THEN head.m ELSE NoMsg

\* The messages in the ring from Read_Pos to Write_Pos, oldest first, as a
\* reader that drains it would see them (used by refinement mappings only).
Contents(r, mem) ==
  LET walk[n \in 0 .. Size] ==
        [p \in Addr |->
           IF p = r.Write_Pos THEN << >>
           ELSE LET at   == [r EXCEPT !.Read_Pos = p]
                    head == HeadAt(at, mem)
                    m    == Assembled(head, BodyAt(AfterHead(at), head, mem))
                    next == AfterBody(AfterHead(at), head)
                IN  IF m = NoMsg \/ n = 0
                    THEN << NoMsg >>
                    ELSE << m >> \o walk[n - 1][next.Read_Pos]]
  IN  walk[Size][r.Read_Pos]
=============================================================================
