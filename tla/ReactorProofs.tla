---------------------------- MODULE ReactorProofs ----------------------------
(****************************************************************************)
(* Proofs that the safety properties of Reactor hold for every value of the *)
(* constants.  IndInv is inductive: one lemma per action below, Outcome     *)
(* lemmas for the operators that several actions share (a write, a free, a  *)
(* reply).  What QUIT promises rests on fds fitting into events[] and is    *)
(* proved from the assumption FdsFit, which nothing in the code enforces.   *)
(****************************************************************************)
EXTENDS Reactor, FiniteSetTheorems, TLAPS

\* The state rk_boot() leaves satisfies the invariant.
LEMMA InitInv == Init => IndInv
<1> SUFFICES ASSUME Init PROVE IndInv
  OBVIOUS
<1> USE ReactorAssumption DEF Init, Listener
<1>1. TypeOK
  <2>1. /\ peer \in [Conns -> {"new", "open", "half", "gone"}]
        /\ connState \in [Conns -> {"none", "connected", "closed", "error"}]
    OBVIOUS
  <2>2. /\ sent \in [Conns -> Nat] /\ arrived \in [Conns -> Nat]
        /\ read \in [Conns -> Nat] /\ replied \in [Conns -> Nat]
        /\ written \in [Conns -> Nat] /\ kern \in [Conns -> Nat]
        /\ pwList \in [Conns -> Nat] /\ closeList \in [Conns -> Nat]
    OBVIOUS
  <2>3. nextFd \in Nat
    OBVIOUS
  <2>4. stepScheduled \in BOOLEAN
    BY Zenon
  <2> QED
    BY <2>1, <2>2, <2>3, <2>4 DEF TypeOK, PCs
<1>2. ReplyPipeline /\ NoStrandedReplies /\ NoIdleWriteHandler
  BY DEF ReplyPipeline, NoStrandedReplies, NoIdleWriteHandler
<1>3. ListsMatchFlags /\ SocketsOwned
  BY DEF ListsMatchFlags, SocketsOwned
<1>4. HandlerHasClient /\ TodoLinked
  BY DEF HandlerHasClient, TodoLinked
<1>5. Numbering /\ Unread
  BY DEF Numbering, Unread, Fd, Conns
<1> QED
  BY <1>1, <1>2, <1>3, <1>4, <1>5 DEF IndInv

\* A new connection takes the next fd, so that it was not known before.
LEMMA OnConnectionInv ==
  ASSUME IndInv, NEW c \in Conns, OnConnection(c)
  PROVE  IndInv'
<1> USE ReactorAssumption
    DEF IndInv, OnConnection, scheduleStep, wasmVars, sockVars, bridgeVars, netVars, loopVars,
        maskVars, listVars, closeVars, clientVars, outVars
<1>1. TypeOK'
  BY DEF TypeOK, PCs
<1>2. ReplyPipeline'
  BY DEF TypeOK, ReplyPipeline
<1>3. NoStrandedReplies' /\ NoIdleWriteHandler' /\ ListsMatchFlags'
  BY DEF NoStrandedReplies, NoIdleWriteHandler, ListsMatchFlags, Unsent
<1>4. Fd(c) = nextFd /\ peer[c] = "new"
  BY DEF TypeOK, Numbering, Fd, Conns
<1>5. SocketsOwned' /\ HandlerHasClient' /\ TodoLinked'
  BY <1>4 DEF Numbering, SocketsOwned, HandlerHasClient, TodoLinked
<1>6. Numbering'
  <2>1. \A d \in Conns : Fd(d) \in Int /\ (Fd(d) = Fd(c) <=> d = c)
    BY DEF Fd, Conns
  <2>2. \A d \in Conns \ {c} : Fd(d) >= nextFd <=> Fd(d) >= nextFd + 1
    BY <1>4, <2>1 DEF TypeOK
  <2>3. \A d \in Conns : peer'[d] = IF d = c THEN "open" ELSE peer[d]
    BY DEF TypeOK
  <2>4. \A d \in Conns : peer'[d] = "new" <=> Fd(d) >= nextFd'
    BY <1>4, <2>1, <2>2, <2>3 DEF Numbering, TypeOK
  <2>5. nextFd' > FdBase
    BY DEF Numbering, TypeOK
  <2> QED
    BY <2>3, <2>4, <2>5 DEF Numbering, Fd
<1>7. Unread'
  BY <1>4 DEF Unread, TypeOK
<1> QED
  BY <1>1, <1>2, <1>3, <1>5, <1>6, <1>7

\* socket.on('data') only moves arrived towards sent.
LEMMA OnDataInv ==
  ASSUME IndInv, NEW c \in Conns, OnData(c)
  PROVE  IndInv'
<1> USE ReactorAssumption
    DEF IndInv, OnData, scheduleStep, wasmVars, sockVars, bridgeVars, netVars, loopVars,
        maskVars, listVars, closeVars, clientVars, outVars
<1>1. TypeOK'
  BY DEF TypeOK, PCs
<1>2. ReplyPipeline'
  BY DEF TypeOK, ReplyPipeline
<1>3. NoStrandedReplies' /\ NoIdleWriteHandler' /\ ListsMatchFlags'
  BY DEF NoStrandedReplies, NoIdleWriteHandler, ListsMatchFlags, Unsent
<1>4. SocketsOwned' /\ HandlerHasClient' /\ TodoLinked'
  BY DEF TypeOK, Numbering, SocketsOwned, HandlerHasClient, TodoLinked, ListsMatchFlags
<1>5. Numbering' /\ Unread'
  BY DEF TypeOK, Numbering, SocketsOwned, Unread, Fd, Conns
<1> QED
  BY <1>1, <1>2, <1>3, <1>4, <1>5

\* socket.on('end') touches the bridge's flags only.
LEMMA OnEndInv ==
  ASSUME IndInv, NEW c \in Conns, OnEnd(c)
  PROVE  IndInv'
<1> USE ReactorAssumption
    DEF IndInv, OnEnd, scheduleStep, wasmVars, sockVars, bridgeVars, netVars, loopVars,
        maskVars, listVars, closeVars, clientVars, outVars
<1>1. TypeOK'
  BY DEF TypeOK, PCs
<1>2. ReplyPipeline'
  BY DEF TypeOK, ReplyPipeline
<1>3. NoStrandedReplies' /\ NoIdleWriteHandler' /\ ListsMatchFlags'
  BY DEF NoStrandedReplies, NoIdleWriteHandler, ListsMatchFlags, Unsent
<1>4. SocketsOwned' /\ HandlerHasClient' /\ TodoLinked'
  BY DEF TypeOK, Numbering, SocketsOwned, HandlerHasClient, TodoLinked, ListsMatchFlags
<1>5. Numbering' /\ Unread'
  BY DEF TypeOK, Numbering, SocketsOwned, Unread, Fd, Conns
<1> QED
  BY <1>1, <1>2, <1>3, <1>4, <1>5

\* socket.on('error') touches the bridge's flags only.
LEMMA OnErrorInv ==
  ASSUME IndInv, NEW c \in Conns, OnError(c)
  PROVE  IndInv'
<1> USE ReactorAssumption
    DEF IndInv, OnError, wasmVars, sockVars, bridgeVars, netVars, loopVars,
        maskVars, listVars, closeVars, clientVars, outVars
<1>1. TypeOK'
  BY DEF TypeOK, PCs
<1>2. ReplyPipeline'
  BY DEF TypeOK, ReplyPipeline
<1>3. NoStrandedReplies' /\ NoIdleWriteHandler' /\ ListsMatchFlags'
  BY DEF NoStrandedReplies, NoIdleWriteHandler, ListsMatchFlags, Unsent
<1>4. SocketsOwned' /\ HandlerHasClient' /\ TodoLinked'
  BY DEF TypeOK, Numbering, SocketsOwned, HandlerHasClient, TodoLinked, ListsMatchFlags
<1>5. Numbering' /\ Unread'
  BY DEF TypeOK, Numbering, SocketsOwned, Unread, Fd, Conns
<1> QED
  BY <1>1, <1>2, <1>3, <1>4, <1>5

\* socket.on('close') touches the bridge's flags only.
LEMMA OnCloseInv ==
  ASSUME IndInv, NEW c \in Conns, OnClose(c)
  PROVE  IndInv'
<1> USE ReactorAssumption
    DEF IndInv, OnClose, scheduleStep, wasmVars, sockVars, bridgeVars, netVars, loopVars,
        maskVars, listVars, closeVars, clientVars, outVars
<1>1. TypeOK'
  BY DEF TypeOK, PCs
<1>2. ReplyPipeline'
  BY DEF TypeOK, ReplyPipeline
<1>3. NoStrandedReplies' /\ NoIdleWriteHandler' /\ ListsMatchFlags'
  BY DEF NoStrandedReplies, NoIdleWriteHandler, ListsMatchFlags, Unsent
<1>4. SocketsOwned' /\ HandlerHasClient' /\ TodoLinked'
  BY DEF TypeOK, Numbering, SocketsOwned, HandlerHasClient, TodoLinked, ListsMatchFlags
<1>5. Numbering' /\ Unread'
  BY DEF TypeOK, Numbering, SocketsOwned, Unread, Fd, Conns
<1> QED
  BY <1>1, <1>2, <1>3, <1>4, <1>5

\* socket.on('drain') touches the bridge's flags only.
LEMMA OnDrainInv ==
  ASSUME IndInv, NEW c \in Conns, OnDrain(c)
  PROVE  IndInv'
<1> USE ReactorAssumption
    DEF IndInv, OnDrain, scheduleStep, wasmVars, sockVars, bridgeVars, netVars, loopVars,
        maskVars, listVars, closeVars, clientVars, outVars
<1>1. TypeOK'
  BY DEF TypeOK, PCs
<1>2. ReplyPipeline'
  BY DEF TypeOK, ReplyPipeline
<1>3. NoStrandedReplies' /\ NoIdleWriteHandler' /\ ListsMatchFlags'
  BY DEF NoStrandedReplies, NoIdleWriteHandler, ListsMatchFlags, Unsent
<1>4. SocketsOwned' /\ HandlerHasClient' /\ TodoLinked'
  BY DEF TypeOK, Numbering, SocketsOwned, HandlerHasClient, TodoLinked, ListsMatchFlags
<1>5. Numbering' /\ Unread'
  BY DEF TypeOK, Numbering, SocketsOwned, Unread, Fd, Conns
<1> QED
  BY <1>1, <1>2, <1>3, <1>4, <1>5

\* A request leaves the peer.
LEMMA PeerSendInv ==
  ASSUME IndInv, NEW c \in Conns, PeerSend(c)
  PROVE  IndInv'
<1> USE ReactorAssumption
    DEF IndInv, PeerSend, wasmVars, sockVars, bridgeVars, netVars, loopVars,
        maskVars, listVars, closeVars, clientVars, outVars
<1>1. TypeOK'
  BY DEF TypeOK, PCs
<1>2. ReplyPipeline'
  BY DEF TypeOK, ReplyPipeline
<1>3. NoStrandedReplies' /\ NoIdleWriteHandler' /\ ListsMatchFlags'
  BY DEF NoStrandedReplies, NoIdleWriteHandler, ListsMatchFlags, Unsent
<1>4. SocketsOwned' /\ HandlerHasClient' /\ TodoLinked'
  BY DEF TypeOK, Numbering, SocketsOwned, HandlerHasClient, TodoLinked, ListsMatchFlags
<1>5. Numbering' /\ Unread'
  BY DEF TypeOK, Numbering, SocketsOwned, Unread, Fd, Conns
<1> QED
  BY <1>1, <1>2, <1>3, <1>4, <1>5

\* The peer's FIN.
LEMMA PeerHalfCloseInv ==
  ASSUME IndInv, NEW c \in Conns, PeerHalfClose(c)
  PROVE  IndInv'
<1> USE ReactorAssumption
    DEF IndInv, PeerHalfClose, wasmVars, sockVars, bridgeVars, netVars, loopVars,
        maskVars, listVars, closeVars, clientVars, outVars
<1>1. TypeOK'
  BY DEF TypeOK, PCs
<1>2. ReplyPipeline'
  BY DEF TypeOK, ReplyPipeline
<1>3. NoStrandedReplies' /\ NoIdleWriteHandler' /\ ListsMatchFlags'
  BY DEF NoStrandedReplies, NoIdleWriteHandler, ListsMatchFlags, Unsent
<1>4. SocketsOwned' /\ HandlerHasClient' /\ TodoLinked'
  BY DEF TypeOK, Numbering, SocketsOwned, HandlerHasClient, TodoLinked, ListsMatchFlags
<1>5. Numbering' /\ Unread'
  BY DEF TypeOK, Numbering, SocketsOwned, Unread, Fd, Conns
<1> QED
  BY <1>1, <1>2, <1>3, <1>4, <1>5

\* The peer goes away.
LEMMA PeerGoneInv ==
  ASSUME IndInv, NEW c \in Conns, PeerGone(c)
  PROVE  IndInv'
<1> USE ReactorAssumption
    DEF IndInv, PeerGone, wasmVars, sockVars, bridgeVars, netVars, loopVars,
        maskVars, listVars, closeVars, clientVars, outVars
<1>1. TypeOK'
  BY DEF TypeOK, PCs
<1>2. ReplyPipeline'
  BY DEF TypeOK, ReplyPipeline
<1>3. NoStrandedReplies' /\ NoIdleWriteHandler' /\ ListsMatchFlags'
  BY DEF NoStrandedReplies, NoIdleWriteHandler, ListsMatchFlags, Unsent
<1>4. SocketsOwned' /\ HandlerHasClient' /\ TodoLinked'
  BY DEF TypeOK, Numbering, SocketsOwned, HandlerHasClient, TodoLinked, ListsMatchFlags
<1>5. Numbering' /\ Unread'
  BY DEF TypeOK, Numbering, SocketsOwned, Unread, Fd, Conns
<1> QED
  BY <1>1, <1>2, <1>3, <1>4, <1>5

\* The kernel takes a reply: kern stays below written.
LEMMA KernelAcceptInv ==
  ASSUME IndInv, NEW c \in Conns, KernelAccept(c)
  PROVE  IndInv'
<1> USE ReactorAssumption
    DEF IndInv, KernelAccept, wasmVars, sockVars, bridgeVars, netVars, loopVars,
        maskVars, listVars, closeVars, clientVars, outVars
<1>1. TypeOK'
  BY DEF TypeOK, PCs
<1>2. ReplyPipeline'
  BY DEF TypeOK, ReplyPipeline
<1>3. NoStrandedReplies' /\ NoIdleWriteHandler' /\ ListsMatchFlags'
  BY DEF NoStrandedReplies, NoIdleWriteHandler, ListsMatchFlags, Unsent
<1>4. SocketsOwned' /\ HandlerHasClient' /\ TodoLinked'
  BY DEF TypeOK, Numbering, SocketsOwned, HandlerHasClient, TodoLinked, ListsMatchFlags
<1>5. Numbering' /\ Unread'
  BY DEF TypeOK, Numbering, SocketsOwned, Unread, Fd, Conns
<1> QED
  BY <1>1, <1>2, <1>3, <1>4, <1>5

\* A pass begins: todo starts as the nodes of clients_pending_write.
LEMMA MicrotaskInv ==
  ASSUME IndInv, Microtask
  PROVE  IndInv'
<1> USE ReactorAssumption
    DEF IndInv, Microtask, BeginPass, wasmVars, sockVars, bridgeVars, netVars, loopVars,
        maskVars, listVars, closeVars, clientVars, outVars
<1>1. TypeOK'
  BY DEF TypeOK, PCs
<1>2. ReplyPipeline'
  BY DEF TypeOK, ReplyPipeline
<1>3. NoStrandedReplies' /\ NoIdleWriteHandler' /\ ListsMatchFlags'
  BY DEF NoStrandedReplies, NoIdleWriteHandler, ListsMatchFlags, Unsent
<1>4. SocketsOwned' /\ HandlerHasClient' /\ TodoLinked'
  BY DEF TypeOK, Numbering, SocketsOwned, HandlerHasClient, TodoLinked, ListsMatchFlags
<1>5. Numbering' /\ Unread'
  BY DEF TypeOK, Numbering, SocketsOwned, Unread, Fd, Conns
<1> QED
  BY <1>1, <1>2, <1>3, <1>4, <1>5

\* The same from the interval timer.
LEMMA TimerInv ==
  ASSUME IndInv, Timer
  PROVE  IndInv'
<1> USE ReactorAssumption
    DEF IndInv, Timer, BeginPass, wasmVars, sockVars, bridgeVars, netVars, loopVars,
        maskVars, listVars, closeVars, clientVars, outVars
<1>1. TypeOK'
  BY DEF TypeOK, PCs
<1>2. ReplyPipeline'
  BY DEF TypeOK, ReplyPipeline
<1>3. NoStrandedReplies' /\ NoIdleWriteHandler' /\ ListsMatchFlags'
  BY DEF NoStrandedReplies, NoIdleWriteHandler, ListsMatchFlags, Unsent
<1>4. SocketsOwned' /\ HandlerHasClient' /\ TodoLinked'
  BY DEF TypeOK, Numbering, SocketsOwned, HandlerHasClient, TodoLinked, ListsMatchFlags
<1>5. Numbering' /\ Unread'
  BY DEF TypeOK, Numbering, SocketsOwned, Unread, Fd, Conns
<1> QED
  BY <1>1, <1>2, <1>3, <1>4, <1>5

\* todo becomes the nodes of clients_to_close.
LEMMA WritesDoneInv ==
  ASSUME IndInv, WritesDone
  PROVE  IndInv'
<1> USE ReactorAssumption
    DEF IndInv, WritesDone, wasmVars, sockVars, bridgeVars, netVars, loopVars,
        maskVars, listVars, closeVars, clientVars, outVars
<1>1. TypeOK'
  BY DEF TypeOK, PCs
<1>2. ReplyPipeline'
  BY DEF TypeOK, ReplyPipeline
<1>3. NoStrandedReplies' /\ NoIdleWriteHandler' /\ ListsMatchFlags'
  BY DEF NoStrandedReplies, NoIdleWriteHandler, ListsMatchFlags, Unsent
<1>4. SocketsOwned' /\ HandlerHasClient' /\ TodoLinked'
  BY DEF TypeOK, Numbering, SocketsOwned, HandlerHasClient, TodoLinked, ListsMatchFlags
<1>5. Numbering' /\ Unread'
  BY DEF TypeOK, Numbering, SocketsOwned, Unread, Fd, Conns
<1> QED
  BY <1>1, <1>2, <1>3, <1>4, <1>5

\* The poll reads the tables and fills the fired sets.
LEMMA PollInv ==
  ASSUME IndInv, Poll
  PROVE  IndInv'
<1> USE ReactorAssumption
    DEF IndInv, Poll, Listener, wasmVars, sockVars, bridgeVars, netVars, loopVars,
        maskVars, listVars, closeVars, clientVars, outVars
<1>1. TypeOK'
  BY DEF TypeOK, PCs
<1>2. ReplyPipeline'
  BY DEF TypeOK, ReplyPipeline
<1>3. NoStrandedReplies' /\ NoIdleWriteHandler' /\ ListsMatchFlags'
  BY DEF NoStrandedReplies, NoIdleWriteHandler, ListsMatchFlags, Unsent
<1>4. SocketsOwned' /\ HandlerHasClient' /\ TodoLinked'
  BY DEF TypeOK, Numbering, SocketsOwned, HandlerHasClient, TodoLinked, ListsMatchFlags
<1>5. Numbering' /\ Unread'
  BY DEF TypeOK, Numbering, SocketsOwned, Unread, Fd, Conns
<1> QED
  BY <1>1, <1>2, <1>3, <1>4, <1>5

\* The accept loop ends.
LEMMA AcceptDoneInv ==
  ASSUME IndInv, AcceptDone
  PROVE  IndInv'
<1> USE ReactorAssumption
    DEF IndInv, AcceptDone, Listener, wasmVars, sockVars, bridgeVars, netVars, loopVars,
        maskVars, listVars, closeVars, clientVars, outVars
<1>1. TypeOK'
  BY DEF TypeOK, PCs
<1>2. ReplyPipeline'
  BY DEF TypeOK, ReplyPipeline
<1>3. NoStrandedReplies' /\ NoIdleWriteHandler' /\ ListsMatchFlags'
  BY DEF NoStrandedReplies, NoIdleWriteHandler, ListsMatchFlags, Unsent
<1>4. SocketsOwned' /\ HandlerHasClient' /\ TodoLinked'
  BY DEF TypeOK, Numbering, SocketsOwned, HandlerHasClient, TodoLinked, ListsMatchFlags
<1>5. Numbering' /\ Unread'
  BY DEF TypeOK, Numbering, SocketsOwned, Unread, Fd, Conns
<1> QED
  BY <1>1, <1>2, <1>3, <1>4, <1>5

\* The pass ends.
LEMMA FilesDoneInv ==
  ASSUME IndInv, FilesDone
  PROVE  IndInv'
<1> USE ReactorAssumption
    DEF IndInv, FilesDone, wasmVars, sockVars, bridgeVars, netVars, loopVars,
        maskVars, listVars, closeVars, clientVars, outVars
<1>1. TypeOK'
  BY DEF TypeOK, PCs
<1>2. ReplyPipeline'
  BY DEF TypeOK, ReplyPipeline
<1>3. NoStrandedReplies' /\ NoIdleWriteHandler' /\ ListsMatchFlags'
  BY DEF NoStrandedReplies, NoIdleWriteHandler, ListsMatchFlags, Unsent
<1>4. SocketsOwned' /\ HandlerHasClient' /\ TodoLinked'
  BY DEF TypeOK, Numbering, SocketsOwned, HandlerHasClient, TodoLinked, ListsMatchFlags
<1>5. Numbering' /\ Unread'
  BY DEF TypeOK, Numbering, SocketsOwned, Unread, Fd, Conns
<1> QED
  BY <1>1, <1>2, <1>3, <1>4, <1>5

\* What one writeToClient() call may change, as the two actions that make it need it.
LEMMA WriteOutcome ==
  ASSUME TypeOK, ReplyPipeline, NEW c \in Conns, Unsent(c) # 0, WriteToClient(c)
  PROVE  /\ written' \in [Conns -> Nat] /\ kern' \in [Conns -> Nat]
         /\ \A d \in Conns \ {c} : written'[d] = written[d] /\ kern'[d] = kern[d]
         /\ kern'[c] <= written'[c] /\ written'[c] <= replied[c]
         /\ backpressured' \subseteq Conns
         /\ connState' \in [Conns -> {"none", "connected", "closed", "error"}]
         /\ wmask' \subseteq wmask \cup {c} /\ wmask \subseteq wmask' \cup {c}
         /\ \/ UNCHANGED closeVars
            \/ /\ c \notin closeAsap /\ closeAsap' = closeAsap \cup {c}
               /\ closeList' = [closeList EXCEPT ![c] = @ + 1]
         /\ c \in closeAsap' \/ c \in wmask' \/ written'[c] = replied[c]
         /\ c \in wmask' => written'[c] < replied[c]
<1> DEFINE n == Least(Unsent(c), WriteMax)
           left == Unsent(c) - n
<1>1. /\ n \in Nat /\ left \in Nat /\ written[c] + n + left = replied[c]
      /\ written[c] + n <= replied[c]
  BY ReactorAssumption DEF TypeOK, ReplyPipeline, Least, Unsent
<1>2. CASE c \notin socks \/ c \in eof
  BY <1>2 DEF WriteToClient, FreeClientAsync, Linked, Unsent, outVars, closeVars,
           TypeOK, ReplyPipeline
<1>3. CASE ~(c \notin socks \/ c \in eof)
  <2> HIDE DEF n, left
  <2>1. /\ HostWrite(c, n) /\ wmask' = WriteHandlers(c, left)
        /\ IF ClosesAfterWrite(c, left) THEN FreeClientAsync(c) ELSE UNCHANGED closeVars
        /\ UNCHANGED connState
    BY <1>3 DEF WriteToClient, n, left
  <2>2. /\ written' = [written EXCEPT ![c] = @ + n]
        /\ \E k \in kern[c]..(written[c] + n) : kern' = [kern EXCEPT ![c] = k]
        /\ backpressured' \subseteq Conns
    BY <2>1 DEF HostWrite, TypeOK
  <2>3. /\ written' \in [Conns -> Nat] /\ kern' \in [Conns -> Nat]
        /\ \A d \in Conns \ {c} : written'[d] = written[d] /\ kern'[d] = kern[d]
        /\ kern'[c] <= written'[c] /\ written'[c] <= replied[c]
        /\ written'[c] + left = replied[c]
    BY <2>2, <1>1 DEF TypeOK
  <2>4. /\ wmask' \subseteq wmask \cup {c} /\ wmask \subseteq wmask' \cup {c}
    BY <2>1 DEF WriteHandlers
  <2>5. \/ UNCHANGED closeVars
        \/ /\ c \notin closeAsap /\ closeAsap' = closeAsap \cup {c}
           /\ closeList' = [closeList EXCEPT ![c] = @ + 1]
    BY <2>1 DEF FreeClientAsync, Linked, closeVars
  <2>6. c \in closeAsap' \/ c \in wmask' \/ written'[c] = replied[c]
    <3>1. CASE left = 0
      BY <3>1, <2>3 DEF TypeOK
    <3>2. CASE left # 0 /\ Fits(Fd(c))
      BY <3>2, <2>1 DEF WriteHandlers
    <3>3. CASE left # 0 /\ ~Fits(Fd(c))
      BY <3>3, <2>1 DEF ClosesAfterWrite, FreeClientAsync, closeVars
    <3> QED BY <3>1, <3>2, <3>3
  <2>7. c \in wmask' => written'[c] < replied[c]
    BY <1>1, <2>1, <2>3 DEF WriteHandlers, TypeOK
  <2> QED
    BY <2>1, <2>2, <2>3, <2>4, <2>5, <2>6, <2>7 DEF TypeOK
<1> QED
  BY <1>2, <1>3

\* One client of handleClientsWithPendingWrites(): it leaves the list, and what it
\* could not write leaves a write handler behind.
LEMMA WritePendingInv ==
  ASSUME IndInv, NEW c \in Conns, WritePending(c)
  PROVE  IndInv'
<1> USE DEF IndInv, sockVars, bridgeVars, netVars, listVars, closeVars, clientVars, outVars
<1>1. /\ pwList[c] = 1 /\ c \in clients /\ c \notin wmask /\ pc = "writes" /\ todo' = todo \ {c}
      /\ UNCHANGED <<netVars, bridgeVars, sockVars, pc, cur, firedR, firedW, budget,
                     rmask, clients, read, replied, closeAfter>>
  BY DEF WritePending, TodoLinked, ListsMatchFlags, NoIdleWriteHandler
<1>2. SocketsOwned' /\ HandlerHasClient' /\ Numbering' /\ Unread'
  BY <1>1 DEF SocketsOwned, HandlerHasClient, Numbering, Unread
<1>3. CASE c \in closeAsap
  <2>1. UNCHANGED <<listVars, outVars, wmask, connState, closeVars>>
    BY <1>3 DEF WritePending
  <2>2. TypeOK' /\ TodoLinked'
    BY <1>1, <2>1 DEF TypeOK, TodoLinked
  <2>3. ReplyPipeline' /\ NoStrandedReplies' /\ NoIdleWriteHandler' /\ ListsMatchFlags'
    BY <1>1, <2>1 DEF ReplyPipeline, NoStrandedReplies, NoIdleWriteHandler, Unsent, ListsMatchFlags
  <2> QED
    BY <1>2, <2>2, <2>3
<1>4. CASE c \notin closeAsap
  <2>1. pwList' = Unlinked(pwList, {c}) /\ pendingWrite' = pendingWrite \ {c}
    BY <1>4 DEF WritePending
  <2>2. pwList' \in [Conns -> Nat]
    BY <1>1, <2>1 DEF ListsMatchFlags, TypeOK, Unlinked
  <2>3. CASE Unsent(c) = 0
    <3>1. UNCHANGED <<outVars, wmask, connState, closeVars>>
      BY <1>4, <2>3 DEF WritePending
    <3>2. TypeOK' /\ TodoLinked'
      BY <1>1, <2>1, <2>2, <3>1 DEF TypeOK, TodoLinked
    <3>3. ReplyPipeline' /\ NoStrandedReplies' /\ NoIdleWriteHandler'
      BY <1>1, <2>1, <2>3, <3>1 DEF ReplyPipeline, NoStrandedReplies, NoIdleWriteHandler, Unsent
    <3>4. ListsMatchFlags'
      BY <1>1, <2>1, <3>1 DEF ListsMatchFlags, Unlinked, TypeOK
    <3> QED
      BY <1>2, <3>2, <3>3, <3>4
  <2>4. CASE Unsent(c) # 0
    <3>1. WriteToClient(c)
      BY <1>4, <2>4 DEF WritePending
    <3>2. TypeOK'
      <4>1. wmask' \subseteq Conns /\ closeAsap' \subseteq Conns /\ closeList' \in [Conns -> Nat]
        BY <2>4, <3>1, WriteOutcome DEF TypeOK
      <4>2. /\ written' \in [Conns -> Nat] /\ kern' \in [Conns -> Nat]
            /\ backpressured' \subseteq Conns
            /\ connState' \in [Conns -> {"none", "connected", "closed", "error"}]
        BY <2>4, <3>1, WriteOutcome
      <4> QED
        BY <1>1, <2>1, <2>2, <4>1, <4>2 DEF TypeOK
    <3>3. ReplyPipeline'
      BY <1>1, <2>4, <3>1, WriteOutcome DEF ReplyPipeline
    <3>4. NoStrandedReplies' /\ NoIdleWriteHandler'
      BY <1>1, <2>1, <2>4, <3>1, WriteOutcome DEF NoStrandedReplies, NoIdleWriteHandler, Unsent, TypeOK
    <3>5. ListsMatchFlags'
      BY <1>1, <2>1, <2>4, <3>1, WriteOutcome DEF ListsMatchFlags, Unlinked, TypeOK
    <3>6. TodoLinked'
      BY <1>1, <2>1, <2>4, <3>1, WriteOutcome DEF TodoLinked
    <3> QED
      BY <1>2, <3>2, <3>3, <3>4, <3>5, <3>6
  <2> QED
    BY <2>3, <2>4
<1> QED
  BY <1>3, <1>4

\* Freeing clients keeps the lists, the flags and the two socket tables in step.
LEMMA FreeOutcome ==
  ASSUME IndInv, NEW S \in SUBSET clients, FreeClients(S),
         closeList' = Unlinked(closeList, closeAsap \cap S), UNCHANGED pending
  PROVE  /\ clients' \subseteq Conns /\ rmask' \subseteq Conns /\ wmask' \subseteq Conns
         /\ socks' \subseteq Conns /\ closing' \subseteq Conns /\ closeAsap' \subseteq Conns
         /\ connState' \in [Conns -> {"none", "connected", "closed", "error"}]
         /\ closeList' \in [Conns -> Nat]
         /\ \A d \in Conns : closeList'[d] = (IF d \in closeAsap' THEN 1 ELSE 0)
         /\ closeAsap' \cup rmask' \cup wmask' \subseteq clients'
         /\ SocketsOwned'
<1> USE DEF IndInv, FreeClients, HostClose
<1>1. S \subseteq Conns
  BY DEF TypeOK
<1>2. /\ closeList' \in [Conns -> Nat]
      /\ \A d \in Conns : closeList'[d] = (IF d \in closeAsap' THEN 1 ELSE 0)
  BY DEF TypeOK, ListsMatchFlags, Unlinked
<1>3. connState' \in [Conns -> {"none", "connected", "closed", "error"}]
  BY DEF TypeOK
<1>4. SocketsOwned'
  BY DEF SocketsOwned
<1> QED
  BY <1>1, <1>2, <1>3, <1>4 DEF TypeOK, ListsMatchFlags

\* So does taking a freed client off clients_pending_write.
LEMMA UnlinkOutcome ==
  ASSUME IndInv, NEW S \in SUBSET clients, UnlinkPendingWrite(S)
  PROVE  /\ pendingWrite' = pendingWrite \ S /\ pwList' \in [Conns -> Nat]
         /\ \A d \in Conns : pwList'[d] = (IF d \in pendingWrite' THEN 1 ELSE 0)
  BY DEF IndInv, TypeOK, ListsMatchFlags, UnlinkPendingWrite, Unlinked

\* One client of freeClientsInAsyncFreeQueue().
LEMMA FreeAsyncInv ==
  ASSUME IndInv, NEW c \in Conns, FreeAsync(c)
  PROVE  IndInv'
<1> USE DEF IndInv, bridgeVars, netVars, outVars
<1>1. /\ pc = "frees" /\ c \in closeAsap /\ c \in clients /\ todo' = todo \ {c}
      /\ FreeClients({c}) /\ UnlinkPendingWrite({c}) /\ closeAfter' = closeAfter \ {c}
      /\ closeList' = Unlinked(closeList, closeAsap \cap {c})
  <2>1. c \in closeAsap /\ c \in clients
    BY DEF FreeAsync, TodoLinked, ListsMatchFlags
  <2>2. closeAsap \cap {c} = {c}
    BY <2>1
  <2> QED
    BY <2>1, <2>2 DEF FreeAsync
<1>2. UNCHANGED <<netVars, bridgeVars, outVars, pc, cur, firedR, firedW, budget, read, replied>>
  BY DEF FreeAsync
<1>3. /\ clients' = clients \ {c} /\ rmask' = rmask \ {c} /\ wmask' = wmask \ {c}
      /\ closeAsap' = closeAsap \ {c} /\ socks' = socks \ {c} /\ pendingWrite' = pendingWrite \ {c}
  BY <1>1 DEF FreeClients, HostClose, UnlinkPendingWrite
<1>4. TypeOK'
  <2>1. {c} \in SUBSET clients /\ UNCHANGED pending
    BY <1>1, <1>2
  <2>2. /\ clients' \subseteq Conns /\ rmask' \subseteq Conns /\ wmask' \subseteq Conns
        /\ socks' \subseteq Conns /\ closing' \subseteq Conns /\ closeAsap' \subseteq Conns
        /\ connState' \in [Conns -> {"none", "connected", "closed", "error"}]
        /\ closeList' \in [Conns -> Nat]
    BY <1>1, <2>1, FreeOutcome
  <2>3. pwList' \in [Conns -> Nat]
    BY <1>1, <2>1, UnlinkOutcome
  <2>4. todo' \subseteq Conns /\ pendingWrite' \subseteq Conns /\ closeAfter' \subseteq Conns
    BY <1>1, <1>3 DEF TypeOK
  <2> QED
    BY <1>2, <2>2, <2>3, <2>4 DEF TypeOK
<1>5. ReplyPipeline'
  BY <1>1, <1>2, <1>3 DEF ReplyPipeline
<1>6. NoStrandedReplies' /\ NoIdleWriteHandler'
  BY <1>2, <1>3 DEF NoStrandedReplies, NoIdleWriteHandler, Unsent
<1>7. ListsMatchFlags' /\ SocketsOwned'
  BY <1>1, <1>2, <1>3, FreeOutcome, UnlinkOutcome DEF ListsMatchFlags
<1>8. HandlerHasClient' /\ TodoLinked'
  BY <1>1, <1>2, <1>3 DEF HandlerHasClient, TodoLinked
<1>9. Numbering' /\ Unread'
  BY <1>1, <1>2, <1>3 DEF Numbering, Unread
<1> QED
  BY <1>4, <1>5, <1>6, <1>7, <1>8, <1>9

\* One accept(), admitted or refused.
LEMMA AcceptInv ==
  ASSUME IndInv, NEW c \in Conns, Accept(c)
  PROVE  IndInv'
<1> USE DEF IndInv, bridgeVars, netVars, outVars, listVars, closeVars, clientVars, sockVars
<1>1. /\ pc = "files" /\ c \in pending /\ pending' = pending \ {c} /\ budget > 0 /\ budget' = budget - 1
      /\ UNCHANGED <<netVars, nextFd, arrived, eof, stepScheduled, outVars, pc, cur,
                     todo, firedR, firedW, wmask, listVars, closeVars, read, replied,
                     closeAfter>>
  BY DEF Accept, NextPending, CreateClient
<1>2. \/ /\ HostClose({c}) /\ UNCHANGED <<clientVars, rmask>>
      \/ /\ clients' = clients \cup {c}
         /\ connState' = [connState EXCEPT ![c] = "connected"]
         /\ rmask \subseteq rmask' /\ rmask' \subseteq rmask \cup {c}
         /\ UNCHANGED sockVars
  BY DEF Accept, NextPending, CreateClient
<1>3. read[c] = 0 /\ replied[c] = 0 /\ written[c] = 0 /\ peer[c] # "new" /\ c \notin clients
  BY <1>1 DEF Unread, ReplyPipeline, TypeOK, Numbering, SocketsOwned
<1>4. TypeOK'
  BY <1>1, <1>2 DEF TypeOK, HostClose
<1>5. ReplyPipeline'
  BY <1>1, <1>2, <1>3 DEF ReplyPipeline
<1>6. NoStrandedReplies' /\ NoIdleWriteHandler'
  BY <1>1, <1>2, <1>3 DEF NoStrandedReplies, NoIdleWriteHandler, Unsent
<1>7. ListsMatchFlags'
  BY <1>1, <1>2 DEF ListsMatchFlags
<1>8. SocketsOwned' /\ HandlerHasClient' /\ TodoLinked'
  BY <1>1, <1>2, <1>3 DEF SocketsOwned, HandlerHasClient, TodoLinked, HostClose
<1>9. Numbering' /\ Unread'
  BY <1>1, <1>2 DEF Numbering, Unread, HostClose
<1> QED
  BY <1>4, <1>5, <1>6, <1>7, <1>8, <1>9

\* A readable event: skipped, end of file, data or EAGAIN.
LEMMA FileReadInv ==
  ASSUME IndInv, NEW c \in Conns, FileRead(c)
  PROVE  IndInv'
<1> USE DEF IndInv, bridgeVars, netVars, outVars, listVars, closeVars, maskVars, sockVars
<1>1. /\ pc = "files" /\ firedR' = firedR \ {c}
      /\ UNCHANGED <<netVars, bridgeVars, sockVars, outVars, todo, firedW, budget,
                     maskVars, listVars, clients, replied, closeAfter>>
  BY DEF FileRead
<1>2. CASE c \notin rmask
  <2>1. UNCHANGED <<pc, cur, read, connState, closeVars>>
    BY <1>2 DEF FileRead, ReadAndHandle, StillArmed
  <2>2. TypeOK'
    BY <1>1, <2>1 DEF TypeOK
  <2>3. ReplyPipeline' /\ NoStrandedReplies' /\ NoIdleWriteHandler' /\ ListsMatchFlags'
    BY <1>1, <2>1 DEF ReplyPipeline, NoStrandedReplies, NoIdleWriteHandler, ListsMatchFlags, Unsent
  <2>4. SocketsOwned' /\ HandlerHasClient' /\ TodoLinked' /\ Numbering' /\ Unread'
    BY <1>1, <2>1 DEF SocketsOwned, HandlerHasClient, TodoLinked, Numbering, Unread
  <2> QED
    BY <2>2, <2>3, <2>4
<1>3. CASE c \in rmask
  <2>1. pc' = "exec" /\ cur' = c /\ c \in clients /\ c \notin pending /\ peer[c] # "new"
    BY <1>3 DEF FileRead, ReadAndHandle, StillArmed, ListsMatchFlags, SocketsOwned, Numbering
  <2>2. /\ read' \in [Conns -> Nat] /\ \A d \in Conns \ {c} : read'[d] = read[d]
        /\ read[c] <= read'[c] /\ read'[c] <= arrived[c]
        /\ connState' \in [Conns -> {"none", "connected", "closed", "error"}]
    <3>1. /\ read[c] \in Nat /\ arrived[c] \in Nat /\ read[c] <= arrived[c]
      BY DEF TypeOK, ReplyPipeline
    <3>2. HostRead(c) \in Int /\ (HostRead(c) > 0 => read[c] + HostRead(c) <= arrived[c])
      BY <3>1, ReactorAssumption DEF HostRead, Least
    <3>3. \/ UNCHANGED read
          \/ HostRead(c) > 0 /\ read' = [read EXCEPT ![c] = @ + HostRead(c)]
      BY <1>3, <3>2 DEF FileRead, ReadAndHandle, StillArmed
    <3>4. UNCHANGED connState \/ connState' = [connState EXCEPT ![c] = "closed"]
      BY <1>3, <3>2 DEF FileRead, ReadAndHandle, StillArmed
    <3> QED
      BY <3>1, <3>2, <3>3, <3>4 DEF TypeOK, ReplyPipeline
  <2>3. \/ UNCHANGED closeVars
        \/ /\ c \notin closeAsap /\ closeAsap' = closeAsap \cup {c}
           /\ closeList' = [closeList EXCEPT ![c] = @ + 1]
    <3>1. HostRead(c) \in Int
      BY ReactorAssumption DEF HostRead, Least, TypeOK, ReplyPipeline
    <3> QED
      BY <1>3, <3>1 DEF FileRead, ReadAndHandle, StillArmed, FreeClientAsync, Linked
  <2>4. TypeOK'
    BY <1>1, <2>1, <2>2, <2>3 DEF TypeOK, PCs
  <2>5. ReplyPipeline'
    BY <1>1, <2>1, <2>2, <2>3 DEF ReplyPipeline, TypeOK
  <2>6. NoStrandedReplies' /\ NoIdleWriteHandler'
    BY <1>1, <2>3 DEF NoStrandedReplies, NoIdleWriteHandler, Unsent
  <2>7. ListsMatchFlags'
    BY <1>1, <2>1, <2>3 DEF ListsMatchFlags, TypeOK
  <2>8. SocketsOwned' /\ HandlerHasClient' /\ TodoLinked' /\ Numbering' /\ Unread'
    BY <1>1, <2>1, <2>2 DEF SocketsOwned, HandlerHasClient, TodoLinked, Numbering, Unread
  <2> QED
    BY <2>4, <2>5, <2>6, <2>7, <2>8
<1> QED
  BY <1>2, <1>3

\* What AddReply() does to the reply counters and to clients_pending_write.
LEMMA AddReplyOutcome ==
  ASSUME IndInv, NEW c \in clients, c \notin closeAsap, NEW S \in SUBSET clients, c \notin S,
         AddReply(c, S), read[c] > replied[c]
  PROVE  /\ replied' \in [Conns -> Nat] /\ replied'[c] = replied[c] + 1
         /\ \A d \in Conns \ {c} : replied'[d] = replied[d]
         /\ \A d \in Conns : replied'[d] <= read[d] /\ written[d] <= replied'[d]
         /\ pendingWrite' \subseteq Conns /\ pwList' \in [Conns -> Nat]
         /\ \A d \in Conns : pwList'[d] = (IF d \in pendingWrite' THEN 1 ELSE 0)
         /\ pendingWrite' \subseteq (pendingWrite \ S) \cup {c}
         /\ pendingWrite \ S \subseteq pendingWrite'
         /\ c \in pendingWrite' \/ c \in wmask
         /\ c \in wmask => c \notin pendingWrite'
<1> USE DEF IndInv
<1>1. c \in Conns /\ S \subseteq Conns
  BY DEF TypeOK
<1>2. replied' = [replied EXCEPT ![c] = @ + 1]
  BY DEF AddReply
<1>3. /\ replied' \in [Conns -> Nat] /\ replied'[c] = replied[c] + 1
      /\ \A d \in Conns \ {c} : replied'[d] = replied[d]
      /\ \A d \in Conns : replied'[d] <= read[d] /\ written[d] <= replied'[d]
  BY <1>1, <1>2 DEF TypeOK, ReplyPipeline
<1>4. /\ written[c] \in Nat /\ replied[c] \in Nat /\ written[c] <= replied[c]
  BY <1>1 DEF TypeOK, ReplyPipeline
<1>5. CASE Unsent(c) = 0 /\ c \notin pendingWrite
  <2>1. /\ pendingWrite' = (pendingWrite \cup {c}) \ S
        /\ pwList' = Unlinked(Linked(pwList, c), pendingWrite \cap S)
    BY <1>5 DEF AddReply
  <2>2. c \notin wmask
    BY <1>5 DEF NoIdleWriteHandler
  <2>3. /\ pwList' \in [Conns -> Nat]
        /\ \A d \in Conns : pwList'[d] = (IF d \in pendingWrite' THEN 1 ELSE 0)
    BY <1>1, <1>5, <2>1 DEF TypeOK, ListsMatchFlags, Linked, Unlinked
  <2> QED
    BY <1>1, <1>3, <2>1, <2>2, <2>3 DEF TypeOK
<1>6. CASE ~(Unsent(c) = 0 /\ c \notin pendingWrite)
  <2>1. pendingWrite' = pendingWrite \ S /\ pwList' = Unlinked(pwList, pendingWrite \cap S)
    BY <1>6 DEF AddReply
  <2>2. c \in pendingWrite \/ c \in wmask
    BY <1>4, <1>6 DEF NoStrandedReplies, Unsent
  <2>3. c \in wmask => c \notin pendingWrite
    BY DEF NoIdleWriteHandler
  <2>4. /\ pwList' \in [Conns -> Nat]
        /\ \A d \in Conns : pwList'[d] = (IF d \in pendingWrite' THEN 1 ELSE 0)
    BY <1>1, <2>1 DEF TypeOK, ListsMatchFlags, Unlinked
  <2> QED
    BY <1>1, <1>3, <2>1, <2>2, <2>3, <2>4 DEF TypeOK
<1> QED
  BY <1>5, <1>6

\* One command.
LEMMA ExecCommandInv ==
  ASSUME IndInv, NEW c \in Conns, ExecCommand(c)
  PROVE  IndInv'
<1> USE DEF IndInv, bridgeVars, netVars, outVars, closeVars, maskVars, sockVars, loopVars,
        clientVars
<1>1. /\ pc = "exec" /\ cur = c /\ c \in clients /\ c \notin closeAsap /\ read[c] > replied[c]
      /\ AddReply(c, {}) /\ closeAfter' \in {closeAfter, closeAfter \cup {c}}
      /\ UNCHANGED <<netVars, bridgeVars, sockVars, outVars, loopVars, maskVars,
                     closeVars, clientVars, read>>
  BY DEF ExecCommand, HandlerHasClient, CanParse
<1>2. /\ replied' \in [Conns -> Nat] /\ replied'[c] = replied[c] + 1
      /\ \A d \in Conns \ {c} : replied'[d] = replied[d]
      /\ \A d \in Conns : replied'[d] <= read[d] /\ written[d] <= replied'[d]
      /\ pendingWrite' \subseteq Conns /\ pwList' \in [Conns -> Nat]
      /\ \A d \in Conns : pwList'[d] = (IF d \in pendingWrite' THEN 1 ELSE 0)
      /\ pendingWrite' \subseteq pendingWrite \cup {c}
      /\ pendingWrite \subseteq pendingWrite'
      /\ c \in pendingWrite' \/ c \in wmask
      /\ c \in wmask => c \notin pendingWrite'
  BY <1>1, AddReplyOutcome, {} \in SUBSET clients
<1>3. TypeOK'
  BY <1>1, <1>2 DEF TypeOK
<1>4. ReplyPipeline'
  BY <1>1, <1>2 DEF ReplyPipeline, TypeOK
<1>5. NoStrandedReplies' /\ NoIdleWriteHandler'
  BY <1>1, <1>2 DEF NoStrandedReplies, NoIdleWriteHandler, Unsent, TypeOK
<1>6. ListsMatchFlags'
  BY <1>1, <1>2 DEF ListsMatchFlags
<1>7. SocketsOwned' /\ HandlerHasClient' /\ TodoLinked'
  BY <1>1 DEF SocketsOwned, HandlerHasClient, TodoLinked
<1>8. Numbering' /\ Unread'
  BY <1>1, <1>2 DEF Numbering, Unread, SocketsOwned
<1> QED
  BY <1>3, <1>4, <1>5, <1>6, <1>7, <1>8

\* CLIENT KILL frees the other clients while this one is being served.
LEMMA ExecKillInv ==
  ASSUME IndInv, NEW c \in Conns, NEW K \in SUBSET clients, ExecKill(c, K)
  PROVE  IndInv'
<1> DEFINE S == K \ {c}
<1> USE DEF IndInv, bridgeVars, netVars, outVars, loopVars
<1>1. /\ pc = "exec" /\ cur = c /\ c \in clients /\ c \notin closeAsap /\ read[c] > replied[c]
      /\ S \in SUBSET clients /\ c \notin S
  BY DEF ExecKill, HandlerHasClient, CanParse
<1>2. /\ AddReply(c, S) /\ FreeClients(S)
      /\ closeList' = Unlinked(closeList, closeAsap \cap S)
      /\ closeAfter' = (closeAfter \ K) \cup (K \cap {c})
      /\ UNCHANGED <<netVars, bridgeVars, outVars, loopVars, read>>
  BY DEF ExecKill
<1> HIDE DEF S
<1>3. /\ clients' = clients \ S /\ rmask' = rmask \ S /\ wmask' = wmask \ S
      /\ closeAsap' = closeAsap \ S /\ socks' = socks \ S
  BY <1>2 DEF FreeClients, HostClose
<1>4. closeAfter' \subseteq closeAfter \cup {c} /\ closeAfter \ S \subseteq closeAfter' \cup {c}
      /\ closeAfter' \cap S = {}
  BY <1>2 DEF S
<1>5. /\ replied' \in [Conns -> Nat] /\ replied'[c] = replied[c] + 1
      /\ \A d \in Conns \ {c} : replied'[d] = replied[d]
      /\ \A d \in Conns : replied'[d] <= read[d] /\ written[d] <= replied'[d]
      /\ pendingWrite' \subseteq Conns /\ pwList' \in [Conns -> Nat]
      /\ \A d \in Conns : pwList'[d] = (IF d \in pendingWrite' THEN 1 ELSE 0)
      /\ pendingWrite' \subseteq (pendingWrite \ S) \cup {c}
      /\ pendingWrite \ S \subseteq pendingWrite'
      /\ c \in pendingWrite' \/ c \in wmask
      /\ c \in wmask => c \notin pendingWrite'
  BY <1>1, <1>2, AddReplyOutcome
<1>6. /\ clients' \subseteq Conns /\ rmask' \subseteq Conns /\ wmask' \subseteq Conns
      /\ socks' \subseteq Conns /\ closing' \subseteq Conns /\ closeAsap' \subseteq Conns
      /\ connState' \in [Conns -> {"none", "connected", "closed", "error"}]
      /\ closeList' \in [Conns -> Nat]
      /\ \A d \in Conns : closeList'[d] = (IF d \in closeAsap' THEN 1 ELSE 0)
      /\ closeAsap' \cup rmask' \cup wmask' \subseteq clients'
      /\ SocketsOwned'
  BY <1>1, <1>2, FreeOutcome
<1>7. TypeOK'
  BY <1>2, <1>4, <1>5, <1>6 DEF TypeOK
<1>8. ReplyPipeline'
  BY <1>1, <1>2, <1>3, <1>4, <1>5 DEF ReplyPipeline, TypeOK
<1>9. NoStrandedReplies' /\ NoIdleWriteHandler'
  BY <1>1, <1>2, <1>3, <1>5 DEF NoStrandedReplies, NoIdleWriteHandler, Unsent, TypeOK
<1>10. ListsMatchFlags'
  BY <1>1, <1>3, <1>4, <1>5, <1>6 DEF ListsMatchFlags
<1>11. HandlerHasClient' /\ TodoLinked'
  BY <1>1, <1>2, <1>3 DEF HandlerHasClient, TodoLinked
<1>12. Numbering' /\ Unread'
  BY <1>1, <1>2, <1>3, <1>5 DEF Numbering, Unread, SocketsOwned
<1> QED
  BY <1>6, <1>7, <1>8, <1>9, <1>10, <1>11, <1>12

\* The end of readQueryFromClient(), where a closing client is freed.
LEMMA BeforeNextClientInv ==
  ASSUME IndInv, NEW c \in Conns, BeforeNextClient(c)
  PROVE  IndInv'
<1> USE DEF IndInv, bridgeVars, netVars, outVars, listVars, closeVars, maskVars, sockVars,
        clientVars
<1>1. /\ pc = "exec" /\ cur = c /\ c \in clients /\ ~CanParse(c) /\ pc' = "files" /\ cur' = Listener
      /\ UNCHANGED <<netVars, bridgeVars, outVars, todo, firedR, firedW, budget, read, replied>>
  BY DEF BeforeNextClient, HandlerHasClient
<1>2. c \notin closeAfter \cup closeAsap => replied[c] = read[c]
  BY <1>1 DEF CanParse, ReplyPipeline, TypeOK
<1>3. CASE c \notin closeAsap
  <2>1. UNCHANGED <<clientVars, maskVars, sockVars, closeVars, listVars, closeAfter>>
    BY <1>3 DEF BeforeNextClient
  <2>2. TypeOK'
    BY <1>1, <2>1 DEF TypeOK, PCs
  <2>3. ReplyPipeline'
    BY <1>1, <1>2, <2>1 DEF ReplyPipeline
  <2>4. NoStrandedReplies' /\ NoIdleWriteHandler' /\ ListsMatchFlags'
    BY <1>1, <2>1 DEF NoStrandedReplies, NoIdleWriteHandler, ListsMatchFlags, Unsent
  <2>5. SocketsOwned' /\ HandlerHasClient' /\ TodoLinked' /\ Numbering' /\ Unread'
    BY <1>1, <2>1 DEF SocketsOwned, HandlerHasClient, TodoLinked, Numbering, Unread
  <2> QED
    BY <2>2, <2>3, <2>4, <2>5
<1>4. CASE c \in closeAsap
  <2>1. /\ FreeClients({c}) /\ UnlinkPendingWrite({c}) /\ closeAfter' = closeAfter \ {c}
        /\ closeList' = Unlinked(closeList, closeAsap \cap {c})
    <3>1. closeAsap \cap {c} = {c}
      BY <1>4
    <3> QED
      BY <1>4, <3>1 DEF BeforeNextClient
  <2>2. /\ clients' = clients \ {c} /\ rmask' = rmask \ {c} /\ wmask' = wmask \ {c}
        /\ closeAsap' = closeAsap \ {c} /\ socks' = socks \ {c} /\ pendingWrite' = pendingWrite \ {c}
    BY <2>1 DEF FreeClients, HostClose, UnlinkPendingWrite
  <2>3. TypeOK'
    BY <1>1, <2>1, <2>2, FreeOutcome, UnlinkOutcome DEF TypeOK, PCs
  <2>4. ReplyPipeline'
    BY <1>1, <2>1, <2>2 DEF ReplyPipeline
  <2>5. NoStrandedReplies' /\ NoIdleWriteHandler'
    BY <1>1, <2>2 DEF NoStrandedReplies, NoIdleWriteHandler, Unsent
  <2>6. ListsMatchFlags' /\ SocketsOwned'
    BY <1>1, <2>1, <2>2, FreeOutcome, UnlinkOutcome DEF ListsMatchFlags
  <2>7. HandlerHasClient' /\ TodoLinked' /\ Numbering' /\ Unread'
    BY <1>1, <2>2 DEF HandlerHasClient, TodoLinked, Numbering, Unread
  <2> QED
    BY <2>3, <2>4, <2>5, <2>6, <2>7
<1> QED
  BY <1>3, <1>4

\* A writable event: an armed handler always has something to write.
LEMMA FileWriteInv ==
  ASSUME IndInv, NEW c \in Conns, FileWrite(c)
  PROVE  IndInv'
<1> USE DEF IndInv, bridgeVars, netVars, outVars, listVars, closeVars, sockVars
<1>1. /\ pc = "files" /\ firedW' = firedW \ {c}
      /\ UNCHANGED <<netVars, bridgeVars, sockVars, pc, cur, todo, firedR, budget,
                     rmask, clients, listVars, read, replied, closeAfter>>
  BY DEF FileWrite
<1>2. SocketsOwned' /\ HandlerHasClient' /\ TodoLinked' /\ Numbering' /\ Unread'
  BY <1>1 DEF SocketsOwned, HandlerHasClient, TodoLinked, Numbering, Unread
<1>3. CASE c \notin wmask
  <2>1. UNCHANGED <<outVars, wmask, connState, closeVars>>
    BY <1>3 DEF FileWrite, StillArmed
  <2>2. TypeOK' /\ ReplyPipeline'
    BY <1>1, <2>1 DEF TypeOK, ReplyPipeline
  <2>3. NoStrandedReplies' /\ NoIdleWriteHandler' /\ ListsMatchFlags'
    BY <1>1, <2>1 DEF NoStrandedReplies, NoIdleWriteHandler, Unsent, ListsMatchFlags
  <2> QED
    BY <1>2, <2>2, <2>3
<1>4. CASE c \in wmask
  <2>1. WriteToClient(c) /\ c \in clients /\ c \notin pendingWrite /\ Unsent(c) # 0
    BY <1>4 DEF FileWrite, StillArmed, NoIdleWriteHandler, ListsMatchFlags, TypeOK, Unsent
  <2>2. TypeOK'
    <3>1. wmask' \subseteq Conns /\ closeAsap' \subseteq Conns /\ closeList' \in [Conns -> Nat]
      BY <2>1, WriteOutcome DEF TypeOK
    <3>2. /\ written' \in [Conns -> Nat] /\ kern' \in [Conns -> Nat]
          /\ backpressured' \subseteq Conns
          /\ connState' \in [Conns -> {"none", "connected", "closed", "error"}]
      BY <2>1, WriteOutcome
    <3> QED
      BY <1>1, <3>1, <3>2 DEF TypeOK
  <2>3. ReplyPipeline'
    BY <1>1, <2>1, WriteOutcome DEF ReplyPipeline
  <2>4. NoStrandedReplies' /\ NoIdleWriteHandler'
    BY <1>1, <2>1, WriteOutcome DEF NoStrandedReplies, NoIdleWriteHandler, Unsent, TypeOK
  <2>5. ListsMatchFlags'
    BY <1>1, <2>1, WriteOutcome DEF ListsMatchFlags, TypeOK
  <2> QED
    BY <1>2, <2>2, <2>3, <2>4, <2>5
<1> QED
  BY <1>3, <1>4

\* IndInv is inductive.
LEMMA NextInv == IndInv /\ [Next]_vars => IndInv'
<1> SUFFICES ASSUME IndInv, [Next]_vars PROVE IndInv'
  OBVIOUS
<1>1. CASE UNCHANGED vars
  <2> USE <1>1 DEF IndInv, vars, wasmVars, sockVars, bridgeVars, netVars, loopVars,
          maskVars, listVars, closeVars, clientVars, outVars
  <2>1. TypeOK'
    BY DEF TypeOK
  <2>2. ReplyPipeline' /\ NoStrandedReplies' /\ NoIdleWriteHandler' /\ ListsMatchFlags'
    BY DEF ReplyPipeline, NoStrandedReplies, NoIdleWriteHandler, Unsent, ListsMatchFlags
  <2>3. SocketsOwned' /\ HandlerHasClient' /\ TodoLinked' /\ Numbering' /\ Unread'
    BY DEF SocketsOwned, HandlerHasClient, TodoLinked, Numbering, Unread
  <2> QED
    BY <2>1, <2>2, <2>3
<1>2. CASE \E c \in Conns : OnConnection(c) \/ PeerStep(c) \/ HostEvent(c)
  BY <1>2, OnConnectionInv, PeerSendInv, PeerHalfCloseInv, PeerGoneInv, OnDataInv,
     OnEndInv, OnErrorInv, OnCloseInv, OnDrainInv, KernelAcceptInv
  DEF PeerStep, HostEvent
<1>3. CASE Microtask \/ Timer
  BY <1>3, MicrotaskInv, TimerInv
<1>4. CASE PassStep
  <2>1. CASE WritesDone \/ Poll \/ AcceptDone \/ FilesDone
    BY <2>1, WritesDoneInv, PollInv, AcceptDoneInv, FilesDoneInv
  <2>2. ASSUME NEW c \in Conns,
               \/ WritePending(c) \/ FreeAsync(c) \/ Accept(c) \/ FileRead(c)
               \/ ExecCommand(c) \/ BeforeNextClient(c) \/ FileWrite(c)
        PROVE  IndInv'
    BY <2>2, WritePendingInv, FreeAsyncInv, AcceptInv, FileReadInv, ExecCommandInv,
       BeforeNextClientInv, FileWriteInv
  <2>3. ASSUME NEW c \in Conns, NEW S \in SUBSET clients, ExecKill(c, S)
        PROVE  IndInv'
    BY <2>3, ExecKillInv
  <2> QED
    BY <1>4, <2>1, <2>2, <2>3 DEF PassStep
<1> QED
  BY <1>1, <1>2, <1>3, <1>4 DEF Next

\* IndInv, hence each of its conjuncts, holds in every reachable state.
THEOREM Invariance == Spec => []IndInv
<1> QED
  BY InitInv, NextInv, PTL DEF Spec

\* Every variable keeps its type, for every value of the constants: in particular the
\* node counts of the two intrusive lists never go below zero (no double unlink).
THEOREM TypeCorrect == Spec => []TypeOK
<1>1. IndInv => TypeOK
  BY DEF IndInv
<1> QED
  BY <1>1, Invariance, PTL

\* Output never gets lost inside the server: no interleaving leaves a living client with
\* unsent replies outside both clients_pending_write and the write handler, and none
\* leaves a write handler installed with nothing to write.
THEOREM OutputNeverStranded == Spec => [](NoStrandedReplies /\ NoIdleWriteHandler)
<1>1. IndInv => NoStrandedReplies /\ NoIdleWriteHandler
  BY DEF IndInv
<1> QED
  BY <1>1, Invariance, PTL

\* Requests and replies stay in step through every buffer, for any buffer sizes.
THEOREM PipelineInOrder == Spec => []ReplyPipeline
<1>1. IndInv => ReplyPipeline
  BY DEF IndInv
<1> QED
  BY <1>1, Invariance, PTL

\* The intrusive lists of networking.c hold each flagged client exactly once and no
\* freed one.
THEOREM NoDanglingClients == Spec => []ListsMatchFlags
<1>1. IndInv => ListsMatchFlags
  BY DEF IndInv
<1> QED
  BY <1>1, Invariance, PTL

\* No event that fired is handed to a client an earlier event of the pass freed.
THEOREM EventsReachClients == Spec => []HandlerHasClient
<1>1. IndInv => HandlerHasClient
  BY DEF IndInv
<1> QED
  BY <1>1, Invariance, PTL

\* Neither the bridge nor the server ever leaks the other's half of a connection.
THEOREM NoLeakedSockets == Spec => []SocketsOwned
<1>1. IndInv => SocketsOwned
  BY DEF IndInv
<1> QED
  BY <1>1, Invariance, PTL

-----------------------------------------------------------------------------
(* Admission control.                                                      *)

\* There are finitely many clients, at most MaxClients of them.
AdmissionInv == IsFiniteSet(clients) /\ AdmissionBound

\* Only Accept adds a client.
LEMMA OnlyAcceptAdds ==
  ASSUME [Next]_vars, ~(\E c \in Conns : Accept(c))
  PROVE  clients' \subseteq clients
<1> USE DEF clientVars, wasmVars, FreeClients
<1>1. CASE UNCHANGED vars
  BY <1>1 DEF vars
<1>2. CASE \E c \in Conns : OnConnection(c) \/ PeerStep(c) \/ HostEvent(c)
  BY <1>2 DEF OnConnection, PeerStep, HostEvent, PeerSend, PeerHalfClose, PeerGone,
              OnData, OnEnd, OnError, OnClose, OnDrain, KernelAccept
<1>3. CASE Microtask \/ Timer
  BY <1>3 DEF Microtask, Timer, BeginPass
<1>4. CASE PassStep
  BY <1>4 DEF PassStep, WritesDone, Poll, AcceptDone, FilesDone, WritePending, FreeAsync,
              FileRead, ExecCommand, BeforeNextClient, FileWrite, ExecKill
<1> QED
  BY <1>1, <1>2, <1>3, <1>4 DEF Next

\* The server never has more clients than maxclients, however connections arrive,
\* are accepted several to a pass, killed and closed.
THEOREM AdmissionControl == Spec => []AdmissionBound
<1>1. Init => AdmissionInv
  BY ReactorAssumption, FS_EmptySet DEF Init, AdmissionInv, AdmissionBound
<1>2. AdmissionInv /\ [Next]_vars => AdmissionInv'
  <2> SUFFICES ASSUME AdmissionInv, [Next]_vars PROVE AdmissionInv'
    OBVIOUS
  <2>1. CASE clients' \subseteq clients
    <3>1. IsFiniteSet(clients') /\ Cardinality(clients') <= Cardinality(clients)
      BY <2>1, FS_Subset DEF AdmissionInv
    <3>2. Cardinality(clients') \in Nat /\ Cardinality(clients) \in Nat
      BY <3>1, FS_CardinalityType DEF AdmissionInv
    <3> QED
      BY <3>1, <3>2, ReactorAssumption DEF AdmissionInv, AdmissionBound
  <2>2. ASSUME NEW c \in Conns, Accept(c)
        PROVE  AdmissionInv' \/ clients' \subseteq clients
    <3>1. CASE ServerFull
      BY <2>2, <3>1 DEF Accept, NextPending, CreateClient, clientVars
    <3>2. CASE ~ServerFull
      <4>1. clients' = clients \cup {c}
        BY <2>2, <3>2 DEF Accept, NextPending, CreateClient
      <4>2. /\ IsFiniteSet(clients')
            /\ Cardinality(clients') = IF c \in clients THEN Cardinality(clients)
                                       ELSE Cardinality(clients) + 1
        BY <4>1, FS_AddElement DEF AdmissionInv
      <4>3. Cardinality(clients) \in Nat /\ Cardinality(clients) < MaxClients
        BY <3>2, FS_CardinalityType, ReactorAssumption DEF AdmissionInv, ServerFull
      <4> QED
        BY <4>2, <4>3, ReactorAssumption DEF AdmissionInv, AdmissionBound
    <3> QED
      BY <3>1, <3>2
  <2> QED
    BY <2>1, <2>2, OnlyAcceptAdds
<1>3. AdmissionInv => AdmissionBound
  BY DEF AdmissionInv
<1> QED
  BY <1>1, <1>2, <1>3, PTL DEF Spec

-----------------------------------------------------------------------------
(* What rests on every fd fitting into events[].                           *)

\* The bound the bridge never checks: fds are not reused, so it is a bound on
\* the connections of the server's whole life.
FdsFit == FdBase + MaxConns < SetSize

\* Under FdsFit aeCreateFileEvent() never refuses an fd.
LEMMA AllFit == ASSUME FdsFit, NEW c \in Conns PROVE Fits(Fd(c))
  BY ReactorAssumption DEF FdsFit, Fits, Fd, Conns

\* No step leaves a client without the read event its fd has room for, and none gives
\* an event to a client whose fd has no room.
LEMMA PolledStep ==
  ASSUME IndInv, PolledIffFits, [Next]_vars
  PROVE  PolledIffFits'
<1> USE DEF PolledIffFits, clientVars, maskVars, wasmVars
<1>1. CASE UNCHANGED vars
  BY <1>1 DEF vars
<1>2. CASE \E c \in Conns : OnConnection(c) \/ PeerStep(c) \/ HostEvent(c)
  BY <1>2 DEF OnConnection, PeerStep, HostEvent, PeerSend, PeerHalfClose, PeerGone,
              OnData, OnEnd, OnError, OnClose, OnDrain, KernelAccept
<1>3. CASE Microtask \/ Timer
  BY <1>3 DEF Microtask, Timer, BeginPass
<1>4. CASE PassStep
  <2>1. ASSUME NEW c \in Conns, Accept(c)
        PROVE  PolledIffFits'
    BY <2>1 DEF Accept, NextPending, CreateClient, IndInv, ListsMatchFlags, SocketsOwned
  <2>2. CASE ~\E c \in Conns : Accept(c)
    BY <1>4, <2>2
    DEF PassStep, WritesDone, Poll, AcceptDone, FilesDone, WritePending, FreeAsync,
        FileRead, ExecCommand, BeforeNextClient, FileWrite, ExecKill, FreeClients
  <2> QED
    BY <2>1, <2>2
<1> QED
  BY <1>1, <1>2, <1>3, <1>4 DEF Next

\* A client is polled for input if and only if its fd fits under setsize: the server
\* keeps the others, since createClient() ignores aeCreateFileEvent()'s refusal, and no
\* later step of its life makes up for it.
THEOREM PolledOnlyIfFits == Spec => []PolledIffFits
<1>1. Init => PolledIffFits
  BY DEF Init, PolledIffFits
<1>2. IndInv /\ PolledIffFits /\ [Next]_vars => PolledIffFits'
  BY PolledStep
<1> QED
  BY <1>1, <1>2, Invariance, PTL DEF Spec

-----------------------------------------------------------------------------
(* QUIT.                                                                   *)

\* A client that is to be closed after its reply is scheduled for closing only with
\* nothing unsent, unless its socket is at end of file.
QuitDrained == \A c \in (closeAsap \cap closeAfter) \ eof : written[c] = replied[c]

\* A write schedules the close of a close_after_reply client only when it was the last.
LEMMA WriteDrains ==
  ASSUME FdsFit, IndInv, QuitDrained, NEW c \in clients, WriteToClient(c), Unsent(c) # 0,
         UNCHANGED <<replied, eof, closeAfter>>
  PROVE  QuitDrained'
<1> DEFINE n == Least(Unsent(c), WriteMax)
           left == Unsent(c) - n
<1>1. c \in Conns /\ c \in socks /\ Fits(Fd(c))
  BY AllFit DEF IndInv, TypeOK, SocketsOwned
<1>2. \A d \in Conns \ {c} : written'[d] = written[d] /\ (d \in closeAsap' <=> d \in closeAsap)
  BY <1>1, WriteOutcome DEF IndInv, closeVars
<1>3. ASSUME c \in (closeAsap' \cap closeAfter) \ eof
      PROVE  written'[c] = replied[c]
  <2>1. HostWrite(c, n) /\ (ClosesAfterWrite(c, left) \/ UNCHANGED closeVars)
    BY <1>1, <1>3 DEF WriteToClient
  <2>2. CASE left = 0
    BY <2>1, <2>2, <1>1, ReactorAssumption
    DEF HostWrite, Unsent, Least, IndInv, TypeOK, ReplyPipeline
  <2>3. CASE left # 0
    <3>1. c \in closeAsap
      BY <1>1, <1>3, <2>1, <2>3 DEF ClosesAfterWrite, closeVars
    <3> QED
      BY <1>1, <1>3, <3>1 DEF QuitDrained, Unsent, IndInv, TypeOK
  <2> QED
    BY <2>2, <2>3
<1> QED
  BY <1>2, <1>3 DEF QuitDrained, IndInv, TypeOK, ListsMatchFlags

\* QuitDrained is inductive relative to IndInv.
LEMMA QuitDrainedStep ==
  ASSUME FdsFit, IndInv, QuitDrained, [Next]_vars
  PROVE  QuitDrained'
<1> USE DEF wasmVars, sockVars, bridgeVars, netVars, loopVars, maskVars, listVars, closeVars,
        clientVars, outVars
<1>1. CASE UNCHANGED vars
  BY <1>1 DEF vars, QuitDrained
<1>2. CASE \E c \in Conns : OnConnection(c) \/ PeerStep(c) \/ HostEvent(c)
  BY <1>2 DEF QuitDrained, OnConnection, PeerStep, HostEvent, PeerSend, PeerHalfClose,
              PeerGone, OnData, OnEnd, OnError, OnClose, OnDrain, KernelAccept
<1>3. CASE Microtask \/ Timer \/ WritesDone \/ Poll \/ AcceptDone \/ FilesDone
  BY <1>3 DEF QuitDrained, Microtask, Timer, BeginPass, WritesDone, Poll, AcceptDone, FilesDone
<1>4. ASSUME NEW c \in Conns, WritePending(c) \/ FileWrite(c)
      PROVE  QuitDrained'
  <2>1. UNCHANGED <<replied, eof, closeAfter>>
    BY <1>4 DEF WritePending, FileWrite
  <2>2. \/ UNCHANGED <<outVars, closeVars>>
        \/ WriteToClient(c) /\ c \in clients /\ Unsent(c) # 0
    BY <1>4
    DEF WritePending, FileWrite, StillArmed, IndInv, TodoLinked, ListsMatchFlags,
        NoIdleWriteHandler, TypeOK, Unsent
  <2>3. CASE UNCHANGED <<outVars, closeVars>>
    BY <2>1, <2>3 DEF QuitDrained
  <2> QED
    BY <2>1, <2>2, <2>3, WriteDrains
<1>5. ASSUME NEW c \in Conns, FreeAsync(c) \/ Accept(c) \/ BeforeNextClient(c)
      PROVE  QuitDrained'
  BY <1>5 DEF QuitDrained, FreeAsync, Accept, CreateClient, BeforeNextClient, FreeClients
<1>6. ASSUME NEW c \in Conns, FileRead(c)
      PROVE  QuitDrained'
  <2>1. UNCHANGED <<replied, written, eof, closeAfter>>
    BY <1>6 DEF FileRead
  <2>2. closeAsap' = closeAsap \/ (closeAsap' = closeAsap \cup {c} /\ HostRead(c) = 0)
    BY <1>6 DEF FileRead, ReadAndHandle, FreeClientAsync
  <2>3. HostRead(c) = 0 => c \in eof
    BY ReactorAssumption DEF HostRead, Least, IndInv, TypeOK, ReplyPipeline
  <2> QED
    BY <2>1, <2>2, <2>3 DEF QuitDrained
<1>7. ASSUME NEW c \in Conns, NEW S \in SUBSET clients, ExecCommand(c) \/ ExecKill(c, S)
      PROVE  QuitDrained'
  <2>1. /\ c \notin closeAsap /\ closeAsap' \subseteq closeAsap
        /\ closeAfter' \subseteq closeAfter \cup {c}
        /\ replied' = [replied EXCEPT ![c] = @ + 1] /\ UNCHANGED <<written, eof>>
    BY <1>7 DEF ExecCommand, ExecKill, CanParse, FreeClients, AddReply
  <2>2. closeAsap \subseteq Conns /\ \A d \in Conns \ {c} : replied'[d] = replied[d]
    BY <2>1 DEF IndInv, TypeOK
  <2> QED
    BY <2>1, <2>2 DEF QuitDrained
<1> QED
  BY <1>1, <1>2, <1>3, <1>4, <1>5, <1>6, <1>7 DEF Next, PassStep

\* Outside command execution only freeClientsInAsyncFreeQueue() frees a client.
LEMMA FreedWasScheduled ==
  ASSUME IndInv, [Next]_vars, pc # "exec", NEW c \in clients, c \notin clients'
  PROVE  c \in closeAsap
<1> USE DEF wasmVars, clientVars
<1>1. CASE UNCHANGED vars
  BY <1>1 DEF vars
<1>2. CASE \E d \in Conns : OnConnection(d) \/ PeerStep(d) \/ HostEvent(d)
  BY <1>2 DEF OnConnection, PeerStep, HostEvent, PeerSend, PeerHalfClose, PeerGone,
              OnData, OnEnd, OnError, OnClose, OnDrain, KernelAccept
<1>3. CASE Microtask \/ Timer
  BY <1>3 DEF Microtask, Timer, BeginPass
<1>4. CASE PassStep
  <2>1. \E d \in Conns : FreeAsync(d)
    BY <1>4
    DEF PassStep, WritesDone, Poll, AcceptDone, FilesDone, WritePending, Accept, CreateClient, FileRead,
        ExecCommand, BeforeNextClient, FileWrite, ExecKill
  <2> QED
    BY <2>1 DEF FreeAsync, FreeClients, IndInv, TodoLinked
<1> QED
  BY <1>1, <1>2, <1>3, <1>4 DEF Next

\* As long as every fd fits, QUIT closes a connection only after each of its replies
\* has been handed to the host, whatever else happens to the client in between.
THEOREM QuitAfterFlush ==
  ASSUME FdsFit
  PROVE  Spec => QuitFlushesToHost
<1>1. Init => QuitDrained
  BY DEF Init, QuitDrained
<1>2. IndInv /\ QuitDrained /\ [Next]_vars => QuitDrained'
  BY FdsFit, QuitDrainedStep
<1>3. IndInv /\ QuitDrained /\ [Next]_vars =>
        [\A c \in closeAfter \ eof :
           c \in clients \ clients' /\ pc # "exec" => written[c] = replied[c]]_vars
  BY FreedWasScheduled DEF QuitDrained
<1> QED
  BY <1>1, <1>2, <1>3, Invariance, PTL DEF Spec, QuitFlushesToHost

=============================================================================
