---------------------------- MODULE OutputBuffer ----------------------------
(****************************************************************************)
(* One client's output buffers (src/src/networking.c): the static buffer    *)
(* c->buf, the list c->reply of reply blocks, and the write bookmark        *)
(* c->io_last_written that lets a write resume in the middle of a block.    *)
(*                                                                          *)
(* A buffer is plain (its bytes) or encoded: plain chunks mixed with        *)
(* references to large strings, which are scattered into three iovec        *)
(* entries each (prefix, string, CRLF).  Its content is the sequence of     *)
(* iovec entries it stands for, an entry being a sequence of bytes; a plain *)
(* buffer has one entry.  Bytes are numbered in the order of the protocol   *)
(* stream, so what the peer receives must be 1, 2, 3, ...  Chunk headers    *)
(* take no room; a reference takes one unit of it, a byte one.              *)
(*                                                                          *)
(* Addresses are modelled because the bookmark holds one: a freed buffer's  *)
(* address may be given to a new one.                                       *)
(****************************************************************************)
EXTENDS Naturals, FiniteSets, SequencesExt

CONSTANTS
  Addrs,        \* addresses the allocator gives out
  BufSize,      \* greatest size of the static buffer: PROTO_REPLY_CHUNK_BYTES
  MinBufSize,   \* its least size: PROTO_REPLY_MIN_BYTES
  BlockSize,    \* minimum size of a reply block: PROTO_REPLY_CHUNK_BYTES
  IovMax,       \* entries one writev() takes
  NetMax,       \* NET_MAX_WRITES_PER_EVENT
  MaxDefer,     \* bound: bytes of a deferred length header
  MaxPlain,     \* bound: bytes one plain reply adds
  MaxBytes      \* bound: bytes added in all

NoAddr == "null"

ASSUME OutputAssumption ==
  /\ {BufSize, MinBufSize, BlockSize, IovMax, NetMax, MaxDefer, MaxPlain} \subseteq Nat \ {0}
  /\ MaxBytes \in Nat
  /\ NoAddr \notin Addrs

VARIABLES
  buf,       \* c->buf: a buffer record
  peak,      \* c->buf_peak
  reply,     \* c->reply: buffer records; the placeholder has addr NoAddr
  mark,      \* c->io_last_written
  deferred,  \* the bytes kept for the placeholder's header, <<>> without one
  added,     \* bytes of the stream so far
  wire       \* bytes handed to the host

vars == <<buf, peak, reply, mark, deferred, added, wire>>

\* used is bufpos or o->used; open says that last_header is a plain chunk's.
EmptyBuffer(a, size) ==
  [addr |-> a, enc |-> FALSE, open |-> FALSE, used |-> 0, size |-> size,
   iov |-> <<>>]

Placeholder == EmptyBuffer(NoAddr, 0)
NoMark == [buf |-> NoAddr, bufpos |-> 0, data |-> 0]

FreeAddrs == Addrs \ ({buf.addr} \cup {reply[i].addr : i \in DOMAIN reply})

\* n new bytes of the stream.
Fresh(n) == [i \in 1..n |-> added + i]

\* Mutant of Avail: one byte too many.
MutantAvail(b) == b.size - b.used + 1

Avail(b) == b.size - b.used
Least(m, n) == IF m <= n THEN m ELSE n
Data(b) == FlattenSeq(b.iov)
Pending == buf.used > 0 \/ reply # <<>>

-----------------------------------------------------------------------------
(* Adding replies.                                                         *)

\* The peak after the static buffer took n > 0 units and holds used.
PeakAfter(n, used) == IF n > 0 /\ peak < used THEN used ELSE peak

\* The last entry of iov, continued with s.
Lengthened(iov, s) == [iov EXCEPT ![Len(iov)] = @ \o s]

\* Append bytes to a buffer: to its last entry if that may still grow.
PutPlain(b, s) ==
  IF s = <<>> THEN b
  ELSE [b EXCEPT !.used = @ + Len(s),
                 !.open = TRUE,
                 !.iov = IF b.iov # <<>> /\ (b.open \/ ~b.enc)
                           THEN Lengthened(@, s)
                           ELSE Append(@, s)]

\* Append a reference, always whole, standing for the three bytes s.
PutRef(b, s) ==
  [b EXCEPT !.used = @ + 1,
            !.open = FALSE,
            !.iov = @ \o << <<s[1]>>, <<s[2]>>, <<s[3]>> >>]

\* _addReplyPayloadToList(): fill the tail, then a new block for the rest.  A
\* reference does not go into a plain tail.
PlainToList(s) ==
  IF s = <<>> THEN UNCHANGED reply
  ELSE LET n    == Len(reply)
           fit  == IF n = 0 \/ reply[n].addr = NoAddr THEN 0
                   ELSE Least(Avail(reply[n]), Len(s))
           head == IF fit = 0 THEN reply
                   ELSE [reply EXCEPT ![n] = PutPlain(@, SubSeq(s, 1, fit))]
           rest == SubSeq(s, fit + 1, Len(s))
       IN IF rest = <<>> THEN reply' = head
          ELSE \E a \in FreeAddrs :
                 LET size == IF Len(rest) < BlockSize THEN BlockSize ELSE Len(rest)
                 IN reply' = Append(head, PutPlain(EmptyBuffer(a, size), rest))

RefToList(s) ==
  LET n == Len(reply)
  IN IF n > 0 /\ reply[n].addr # NoAddr /\ reply[n].enc /\ Avail(reply[n]) > 0
       THEN reply' = [reply EXCEPT ![n] = PutRef(@, s)]
       ELSE \E a \in FreeAddrs :
              reply' = Append(reply, PutRef([EmptyBuffer(a, BlockSize) EXCEPT !.enc = TRUE], s))

\* _addReplyToBufferOrList(): the static buffer takes what fits while the list is
\* empty, the list the rest.
AddReply(n) ==
  /\ added + n <= MaxBytes
  /\ LET s   == Fresh(n)
         b   == IF buf.used = 0 THEN [buf EXCEPT !.enc = FALSE] ELSE buf
         fit == IF reply # <<>> THEN 0 ELSE Least(Avail(b), n)
     IN /\ buf' = [PutPlain(b, SubSeq(s, 1, fit)) EXCEPT !.open = @ /\ fit = n]
        /\ peak' = PeakAfter(fit, buf.used + fit)
        /\ PlainToList(SubSeq(s, fit + 1, n))
  /\ added' = added + n
  /\ UNCHANGED <<mark, deferred, wire>>

\* _addBulkStrRefToBufferOrList(): an empty static buffer becomes encoded even when
\* the reference then goes to the list.
AddBulkRef ==
  /\ added + 3 <= MaxBytes
  /\ LET s == Fresh(3)
         b == IF buf.used = 0 THEN [buf EXCEPT !.enc = TRUE] ELSE buf
     IN IF b.enc /\ reply = <<>> /\ Avail(b) > 0
          THEN buf' = PutRef(b, s) /\ peak' = PeakAfter(1, buf.used + 1) /\ UNCHANGED reply
          ELSE buf' = [b EXCEPT !.open = FALSE] /\ RefToList(s) /\ UNCHANGED peak
  /\ added' = added + 3
  /\ UNCHANGED <<mark, deferred, wire>>

-----------------------------------------------------------------------------
(* Deferred lengths: within one command, so never across a write.          *)

\* Mutant of Trimmable: the bookmarked block is reallocated too.
MutantTrimmable(b) ==
  /\ b.addr # NoAddr
  /\ ~b.enc
  /\ 4 * Avail(b) > b.size /\ b.used < BlockSize

\* trimReplyUnusedTailSpace() leaves the bookmarked block and encoded ones alone.
Trimmable(b) ==
  /\ b.addr # NoAddr
  /\ ~b.enc
  /\ 4 * Avail(b) > b.size /\ b.used < BlockSize
  /\ b.addr # mark.buf

\* A block reallocated, maybe at another address, to the size of what it holds.
Trimmed(b, a) == [b EXCEPT !.addr = a, !.size = b.used]

\* addReplyDeferredLen(): trim the tail, add the placeholder.
AddReplyDeferredLen(len) ==
  /\ deferred = <<>>
  /\ added + len <= MaxBytes
  /\ deferred' = Fresh(len)
  /\ added' = added + len
  /\ LET n == Len(reply)
     IN IF n > 0 /\ Trimmable(reply[n])
          THEN \E a \in FreeAddrs \cup {reply[n].addr} :
                 reply' = Append([reply EXCEPT ![n] = Trimmed(@, a)], Placeholder)
          ELSE reply' = Append(reply, Placeholder)
  /\ UNCHANGED <<buf, peak, mark, wire>>

\* Whether setDeferredReply() may add to a neighbour of the placeholder.
Mutable(b) == b.addr # NoAddr /\ b.addr # mark.buf /\ ~b.enc

\* Whether the n bytes may go in front of the next node's.
Prefixable(b, n) == Mutable(b) /\ Avail(b) >= n /\ b.used < 4 * BlockSize

\* The header moved in front of what the next block holds.
Prefixed(b, s) == [b EXCEPT !.used = @ + Len(s), !.iov = <<s \o Data(b)>>]

\* setDeferredReply(): into the previous node as far as it has room, then into the
\* next one if all of the rest fits, else into a node of its own.
SetDeferredReply ==
  /\ deferred # <<>>
  /\ \E p \in DOMAIN reply :
       /\ reply[p].addr = NoAddr
       /\ LET fit  == IF p > 1 /\ Mutable(reply[p - 1])
                        THEN Least(Avail(reply[p - 1]), Len(deferred)) ELSE 0
              rest == SubSeq(deferred, fit + 1, Len(deferred))
              done == IF fit = 0 THEN reply
                      ELSE [reply EXCEPT ![p - 1] = PutPlain(@, SubSeq(deferred, 1, fit))]
          IN \/ rest = <<>> /\ reply' = RemoveAt(done, p)
             \/ /\ rest # <<>>
                /\ p < Len(reply) /\ Prefixable(reply[p + 1], Len(rest))
                /\ reply' = RemoveAt([done EXCEPT ![p + 1] = Prefixed(@, rest)], p)
             \/ /\ rest # <<>>
                /\ p < Len(reply) => ~Prefixable(reply[p + 1], Len(rest))
                /\ \E a \in FreeAddrs :
                     reply' = [done EXCEPT ![p] = PutPlain(EmptyBuffer(a, Len(rest)), rest)]
  /\ deferred' = <<>>
  /\ UNCHANGED <<buf, peak, mark, added, wire>>

-----------------------------------------------------------------------------
(* serverCron: the static buffer is moved to one of another size.          *)

\* The bookmark follows the buffer.
MovedMark(a) == IF mark.buf = buf.addr THEN [mark EXCEPT !.buf = a] ELSE mark

\* Shrink if the peak is below half the size, double if it filled the buffer.
NewSize ==
  IF buf.size \div 2 >= MinBufSize /\ peak < buf.size \div 2
    THEN IF peak + 1 < MinBufSize THEN MinBufSize ELSE peak + 1
  ELSE IF buf.size < BufSize /\ peak = buf.size THEN Least(BufSize, 2 * buf.size)
  ELSE buf.size

\* clientsCronResizeOutputBuffer(): the peak is reset from time to time, after the
\* decision.
ResizeOutputBuffer ==
  /\ deferred = <<>>
  /\ ~buf.enc
  /\ peak' \in {peak, buf.used}
  /\ \/ /\ NewSize # buf.size
        /\ \E a \in FreeAddrs :
             buf' = [buf EXCEPT !.addr = a, !.size = NewSize] /\ mark' = MovedMark(a)
     \/ NewSize = buf.size /\ UNCHANGED <<buf, mark>>
  /\ UNCHANGED <<reply, deferred, added, wire>>

-----------------------------------------------------------------------------
(* Writing.                                                                *)

\* addPlainBufferToReplyIOV(): one entry, unless the iovec is full; what an earlier
\* write has sent of it is skipped.
AddEntry(g, e) ==
  IF g.limit THEN g
  ELSE IF Len(g.iov) = IovMax THEN [g EXCEPT !.limit = TRUE]
  ELSE IF g.skip >= Len(e)
    THEN [g EXCEPT !.data = @ + Len(e), !.skip = @ - Len(e)]
    ELSE [g EXCEPT !.data = @ + Len(e), !.skip = 0,
                   !.iov = Append(@, SubSeq(e, g.skip + 1, Len(e)))]

\* What the entries of iov leave, one after the other, from g on.
AddEntries(g, iov) ==
  LET after[i \in 0..Len(iov)] == IF i = 0 THEN g ELSE AddEntry(after[i - 1], iov[i])
  IN after

\* Mutant of ScatterBuffer: an encoded buffer cut off by the limit counts as complete.
MutantScatterBuffer(g, b) ==
  LET h == AddEntries([g EXCEPT !.data = 0], b.iov)[Len(b.iov)]
  IN IF b.used = 0 THEN g
     ELSE IF g.limit \/ h.data = 0 THEN h
     ELSE [h EXCEPT
             !.meta = Append(@, [buf |-> b.addr, bufpos |-> b.used, data |-> h.data,
                                 complete |-> TRUE]),
             !.limit = h.limit \/ Len(FlattenSeq(h.iov)) > NetMax \/ Len(h.iov) = IovMax]

\* addBufferToReplyIOV() and the loop of writevToClient() around it.  An empty buffer
\* is passed over.  Only an encoded one can be cut off by the limit; a buffer that gave
\* nothing ends the loop.
ScatterBuffer(g, b) ==
  LET h == AddEntries([g EXCEPT !.data = 0], b.iov)[Len(b.iov)]
  IN IF b.used = 0 THEN g
     ELSE IF g.limit \/ h.data = 0 THEN h
     ELSE [h EXCEPT
             !.meta = Append(@, [buf |-> b.addr, bufpos |-> b.used, data |-> h.data,
                                 complete |-> ~(b.enc /\ h.limit)]),
             !.limit = h.limit \/ Len(FlattenSeq(h.iov)) > NetMax \/ Len(h.iov) = IovMax]

\* The buffers in stream order.
Buffers == <<buf>> \o reply

\* initReplyIOV().
NoReplyIOV ==
  [iov |-> <<>>, meta |-> <<>>, data |-> 0, skip |-> mark.data, limit |-> FALSE]

\* What the first i of the buffers bs leave.
Gathering(bs) ==
  LET after[i \in 0..Len(bs)] ==
        IF i = 0 THEN NoReplyIOV ELSE ScatterBuffer(after[i - 1], bs[i])
  IN after

Gather == Gathering(Buffers)[Len(Buffers)]

\* The data_len of the first i buffers, summed up.
Upto(meta) ==
  LET sum[i \in 0..Len(meta)] == IF i = 0 THEN 0 ELSE sum[i - 1] + meta[i].data
  IN sum

\* Mutant of SaveLastWritten: what earlier writes took of the first buffer is forgotten.
MutantSaveLastWritten(g, tot) ==
  LET upto == Upto(g.meta)
      last == CHOOSE i \in DOMAIN g.meta :
                upto[i] >= tot /\ \A j \in 1..(i - 1) : upto[j] < tot
      m    == g.meta[last]
  IN [buf    |-> m.buf,
      bufpos |-> IF m.complete /\ upto[last] = tot THEN m.bufpos ELSE 0,
      data   |-> m.data - (upto[last] - tot)]

\* saveLastWrittenBuf(): the buffer in which the tot bytes written end.  A bufpos of
\* zero says that the buffer was not written to its end.
SaveLastWritten(g, tot) ==
  LET upto  == Upto(g.meta)
      whole == tot = Len(FlattenSeq(g.iov))
      goal  == tot + mark.data
      last  == IF whole THEN Len(g.meta)
               ELSE CHOOSE i \in DOMAIN g.meta :
                      upto[i] >= goal /\ \A j \in 1..(i - 1) : upto[j] < goal
      m     == g.meta[last]
  IN [buf    |-> m.buf,
      bufpos |-> IF m.complete /\ (whole \/ upto[last] = goal) THEN m.bufpos ELSE 0,
      data   |-> IF whole THEN m.data ELSE m.data - (upto[last] - goal)]

\* The plain path of _writeToClient(): no list, no references, no iovec.
WritesDirectly == reply = <<>> /\ ~buf.enc
Direct == [iov |-> <<SubSeq(Data(buf), mark.data + 1, buf.used)>>,
           meta |-> <<[buf |-> buf.addr, bufpos |-> buf.used, data |-> buf.used,
                       complete |-> TRUE]>>]
Gathered == IF WritesDirectly THEN Direct ELSE Gather

\* _postWriteToClient() with the bookmark m: buffers up to the bookmarked one are
\* released, that one too if it was written to its end.
BufWritten(m) == buf.used > 0 /\ (buf.addr # m.buf \/ buf.used = m.bufpos)
EndsInBuf(m)  == buf.used > 0 /\ buf.addr = m.buf

Released(m) ==
  LET Ends(i) == reply[i].addr = m.buf
      KeepsEnd(i) == Ends(i) /\ reply[i].used # m.bufpos
      last == CHOOSE i \in 1..(Len(reply) + 1) :
                /\ i = Len(reply) + 1 \/ Ends(i)
                /\ \A j \in 1..(i - 1) : ~Ends(j)
  IN IF last = Len(reply) + 1 THEN <<>>
     ELSE SubSeq(reply, IF KeepsEnd(last) THEN last ELSE last + 1, Len(reply))

\* Mutant of MarkAfter: a released buffer leaves the bookmark as it was.
MutantMarkAfter(m, b, r) == m

\* The bookmark that _postWriteToClient() and postWriteToClient() leave: none if the
\* bookmarked buffer was released or if nothing is pending.
MarkAfter(m, b, r) ==
  IF (b.used > 0 /\ b.addr = m.buf) \/ \E i \in DOMAIN r : r[i].addr = m.buf
    THEN m ELSE NoMark

\* writeToClient() when the host takes tot bytes in all: the bridge takes a write whole,
\* but host.h allows it to take less.
WriteToClient ==
  /\ deferred = <<>>
  /\ Pending
  /\ LET g     == Gathered
         bytes == FlattenSeq(g.iov)
     IN \E tot \in 1..Len(bytes) :
          LET m == SaveLastWritten(g, tot)
              b == IF BufWritten(m)
                     THEN [buf EXCEPT !.used = 0, !.enc = FALSE, !.open = FALSE, !.iov = <<>>]
                     ELSE [buf EXCEPT !.open = FALSE]
              r == IF EndsInBuf(m) THEN reply ELSE Released(m)
          IN /\ buf' = b
             /\ reply' = r
             /\ mark' = MarkAfter(m, b, r)
             /\ wire' = wire \o SubSeq(bytes, 1, tot)
  /\ UNCHANGED <<peak, deferred, added>>

-----------------------------------------------------------------------------

Init ==
  /\ \E a \in Addrs : buf = EmptyBuffer(a, BufSize)
  /\ peak = BufSize
  /\ reply = <<>>
  /\ mark = NoMark
  /\ deferred = <<>>
  /\ added = 0
  /\ wire = <<>>

Next ==
  \/ \E n \in 1..MaxPlain : AddReply(n)
  \/ AddBulkRef
  \/ \E n \in 1..MaxDefer : AddReplyDeferredLen(n)
  \/ SetDeferredReply
  \/ ResizeOutputBuffer
  \/ WriteToClient

Spec == Init /\ [][Next]_vars

-----------------------------------------------------------------------------
(* Properties.                                                             *)

\* The type invariant: every buffer holds what its used says, within its size, also
\* when serverCron shrinks it.
TypeOK ==
  /\ \A i \in DOMAIN Buffers :
       LET b == Buffers[i]
       IN /\ b.used \in 0..b.size /\ b.enc \in BOOLEAN /\ b.open \in BOOLEAN
          /\ ~b.enc => b.used = Len(Data(b)) /\ Len(b.iov) <= 1
          /\ b.used = 0 <=> b.iov = <<>>
  /\ buf.addr \in Addrs /\ peak \in buf.used..BufSize
  /\ mark.buf \in Addrs \cup {NoAddr} /\ mark.bufpos \in Nat /\ mark.data \in Nat
  /\ added \in 0..MaxBytes

\* What reaches the host is the reply stream: no byte lost, repeated or out of order,
\* wherever writes stop and whatever is added, moved or resized in between.
WireInOrder == \A i \in DOMAIN wire : wire[i] = i

\* The bookmark points at the first buffer with content and into it: nothing has
\* freed, moved, prefixed or recycled the block it names (the desynchronisation the
\* assertions in _postWriteToClient() look for), and no write starts with an empty iovec.
BookmarkValid ==
  mark # NoMark =>
    \E i \in DOMAIN Buffers :
      /\ Buffers[i].addr = mark.buf
      /\ \A j \in 1..(i - 1) : Buffers[j].used = 0
      /\ mark.bufpos = 0
      /\ mark.data > 0 /\ mark.data < Len(Data(Buffers[i]))

\* Nothing that was added is dropped: with the part the bookmark skips, the buffers
\* hold exactly the bytes that have not been handed over.
NothingDropped ==
  deferred = <<>> =>
    FlattenSeq([i \in DOMAIN Buffers |-> Data(Buffers[i])])
      = [i \in 1..(added - Len(wire) + mark.data) |-> Len(wire) - mark.data + i]

\* A write that has something to send sends something: a bookmark that outlived its
\* buffer would make it gather no bytes, and the write handler would fire for ever.
WritesProgress == Pending /\ deferred = <<>> => FlattenSeq(Gathered.iov) # <<>>
=============================================================================
