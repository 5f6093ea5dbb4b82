------------------------------- MODULE Reactor -------------------------------
(****************************************************************************)
(* The I/O core of valkey-wasm: the node:net bridge                         *)
(* (bridge/valkey-server.ts), the libc socket shim (src/wasi/sock_shim.c),  *)
(* the poll backend (src/wasi/ae_wasi.c), one rk_step() pass of the event   *)
(* loop (src/wasi/reactor.c, src/src/ae.c) and the client I/O it drives     *)
(* (src/src/networking.c, src/src/socket.c).                                *)
(*                                                                          *)
(* JavaScript and wasm share one thread.  A pass is synchronous: socket     *)
(* events, the step microtask and the interval timer run only between       *)
(* passes (pc = "idle").  A pass itself is broken into one action per       *)
(* iteration of the loops it runs:                                          *)
(*                                                                          *)
(*   "writes"  handleClientsWithPendingWrites   (beforeSleep)               *)
(*   "frees"   freeClientsInAsyncFreeQueue      (beforeSleep)               *)
(*   "files"   the fired file events, in fd order                           *)
(*   "exec"    inside readQueryFromClient, executing client cur's commands  *)
(*                                                                          *)
(* Connections are numbered in the order the bridge accepts them; since the *)
(* bridge never reuses an fd, connection c has fd FdBase + c (the listening *)
(* socket took FdBase).  Bytes are abstracted to whole requests and whole   *)
(* replies, and every buffer to the running totals at its two ends:         *)
(*                                                                          *)
(*   sent     requests the peer has written                                 *)
(*   arrived  requests the bridge holds or held in the record's chunks      *)
(*   read     requests wasm has read into the query buffer                  *)
(*   replied  requests executed, their reply in the client's output buffer  *)
(*   written  replies handed to host_write, hence to the node:net stream    *)
(*   kern     replies that left the stream for the kernel (never lost after *)
(*            that, unless the peer goes away)                              *)
(*                                                                          *)
(* The two linked lists of networking.c are multisets (the number of nodes  *)
(* per client): their order cannot be observed between clients.             *)
(****************************************************************************)
EXTENDS Integers, FiniteSets

CONSTANTS
  FdBase,      \* HOST_FD_BASE: the listener's fd, connections come after it
  SetSize,     \* the event loop's setsize: maxclients + CONFIG_FDSET_INCR
  MaxClients,  \* server.maxclients
  MaxConns,    \* bound: connections made during the whole run
  MaxReq,      \* bound: requests the peer sends on each connection
  ReadMax,     \* requests one read() takes (PROTO_IOBUF_LEN)
  WriteMax,    \* reply blocks one writev() takes (IOV_MAX)
  AcceptMax,   \* server.max_new_conns_per_cycle
  HighWater    \* the stream's highWaterMark, in replies

ASSUME ReactorAssumption ==
  /\ FdBase \in Nat /\ SetSize \in Nat /\ MaxClients \in Nat
  /\ MaxConns \in Nat
  /\ ReadMax \in Nat \ {0} /\ WriteMax \in Nat \ {0}
  /\ AcceptMax \in Nat \ {0} /\ HighWater \in Nat \ {0}

Conns == 1..MaxConns

ASSUME MaxReqAssumption == MaxReq \in [Conns -> Nat]

Listener == 0

Fd(c) == FdBase + c

VARIABLES
  \* the peers and the network (external)
  peer,           \* "new", "open", "half" (sent its FIN, still reads), "gone"
  sent,
  kern,
  closing,        \* sockets whose 'close' event is still to be emitted
  \* the bridge: class ValkeyServer
  nextFd,
  socks,          \* the connections with a record in this.socks
  arrived,
  eof,            \* records with eof set
  backpressured,  \* records with backpressured set
  pending,        \* the listener's pending queue; fds are queued in fd order
  stepScheduled,
  \* wasm: the event loop
  pc, cur,
  todo,           \* list nodes the current loop has still to visit
  firedR, firedW, \* fds of eventLoop->fired not yet visited, per event
  budget,         \* accepts left in connSocketAcceptHandler's loop
  rmask, wmask,   \* fds whose events[fd].mask has AE_READABLE, AE_WRITABLE
  \* wasm: the clients
  clients,        \* server.clients
  connState,      \* conn->state
  read, replied, written,
  pendingWrite,   \* flag.pending_write
  pwList,         \* server.clients_pending_write
  closeAsap,      \* flag.close_asap
  closeList,      \* server.clients_to_close
  closeAfter      \* flag.close_after_reply

netVars    == <<peer, sent>>
bridgeVars == <<nextFd, arrived, eof, pending, stepScheduled>>
sockVars   == <<socks, closing>>
outVars    == <<written, kern, backpressured>>
loopVars   == <<pc, cur, todo, firedR, firedW, budget>>
maskVars   == <<rmask, wmask>>
listVars   == <<pendingWrite, pwList>>
closeVars  == <<closeAsap, closeList>>
clientVars == <<clients, connState>>

vars == <<netVars, bridgeVars, sockVars, outVars, loopVars, maskVars, listVars,
          closeVars, clientVars, read, replied, closeAfter>>

wasmVars == <<loopVars, maskVars, listVars, closeVars, clientVars, read,
              replied, written, closeAfter>>

-----------------------------------------------------------------------------
(* Helpers.                                                                *)

Least(a, b) == IF a <= b THEN a ELSE b

\* clientHasPendingReplies(): what is in c->buf and c->reply.
Unsent(c) == replied[c] - written[c]

\* Adding and removing list nodes.
Linked(list, c)   == [list EXCEPT ![c] = @ + 1]
Unlinked(list, S) == [d \in Conns |-> IF d \in S THEN list[d] - 1 ELSE list[d]]

-----------------------------------------------------------------------------
(* The bridge's side of an event: every handler below ends in              *)
(* scheduleStep(), except 'error'.                                         *)

scheduleStep == stepScheduled' = TRUE

\* Mutant of OnConnection: the fd of a closed connection is used again.
MutantOnConnection(c) ==
  /\ pc = "idle"
  /\ c \notin socks \cup closing
  /\ \A d \in Conns : d < c => d \in socks
  /\ peer' = [peer EXCEPT ![c] = "open"]
  /\ socks' = socks \cup {c}
  /\ pending' = pending \cup {c}
  /\ scheduleStep
  /\ UNCHANGED <<nextFd, sent, kern, closing, arrived, eof, backpressured, wasmVars>>

\* net.createServer's callback: allocate the fd, record the socket, queue it
\* for accept().
OnConnection(c) ==
  /\ pc = "idle"
  /\ c = nextFd - FdBase
  /\ nextFd' = nextFd + 1
  /\ peer' = [peer EXCEPT ![c] = "open"]
  /\ socks' = socks \cup {c}
  /\ pending' = pending \cup {c}
  /\ scheduleStep
  /\ UNCHANGED <<sent, kern, closing, arrived, eof, backpressured, wasmVars>>

\* socket.on('data'): one chunk, holding what has crossed the network.
OnData(c) ==
  /\ pc = "idle"
  /\ c \in socks \ eof
  /\ \E n \in (arrived[c] + 1)..sent[c] : arrived' = [arrived EXCEPT ![c] = n]
  /\ scheduleStep
  /\ UNCHANGED <<netVars, kern, sockVars, nextFd, eof, backpressured, pending,
                 wasmVars>>

\* socket.on('end'): the peer's FIN, after all its data.  The server is created
\* without allowHalfOpen, so node ends our side too and 'close' follows.
OnEnd(c) ==
  /\ pc = "idle"
  /\ c \in socks \ eof
  /\ peer[c] \in {"half", "gone"}
  /\ arrived[c] = sent[c]
  /\ eof' = eof \cup {c}
  /\ closing' = closing \cup {c}
  /\ scheduleStep
  /\ UNCHANGED <<netVars, kern, socks, nextFd, arrived, backpressured, pending,
                 wasmVars>>

\* socket.on('error'): no scheduleStep() here; the 'close' that follows has it.
OnError(c) ==
  /\ pc = "idle"
  /\ c \in socks \ eof
  /\ peer[c] = "gone"
  /\ eof' = eof \cup {c}
  /\ closing' = closing \cup {c}
  /\ UNCHANGED <<netVars, kern, socks, nextFd, arrived, backpressured, pending,
                 stepScheduled, wasmVars>>

\* socket.on('close'), also after a destroy(): the handler still holds the
\* record, which may no longer be in this.socks.
OnClose(c) ==
  /\ pc = "idle"
  /\ c \in closing
  /\ closing' = closing \ {c}
  /\ eof' = eof \cup {c}
  /\ scheduleStep
  /\ UNCHANGED <<netVars, kern, socks, nextFd, arrived, backpressured, pending,
                 wasmVars>>

\* Mutant of OnDrain: the handler forgets to clear the flag.
MutantOnDrain(c) ==
  /\ pc = "idle"
  /\ c \in (socks \cap backpressured) \ eof
  /\ kern[c] = written[c]
  /\ scheduleStep
  /\ UNCHANGED <<netVars, kern, sockVars, nextFd, arrived, eof, backpressured,
                 pending, wasmVars>>

\* socket.on('drain'): the stream has emptied (never emitted once it is ending).
OnDrain(c) ==
  /\ pc = "idle"
  /\ c \in (socks \cap backpressured) \ eof
  /\ kern[c] = written[c]
  /\ backpressured' = backpressured \ {c}
  /\ scheduleStep
  /\ UNCHANGED <<netVars, kern, sockVars, nextFd, arrived, eof, pending, wasmVars>>

-----------------------------------------------------------------------------
(* The peers and the network.  A peer moves at any time; its move is seen  *)
(* only by a later event, so it is taken between passes.                   *)

PeerSend(c) ==
  /\ pc = "idle"
  /\ peer[c] = "open"
  /\ sent[c] < MaxReq[c]
  /\ sent' = [sent EXCEPT ![c] = @ + 1]
  /\ UNCHANGED <<peer, kern, sockVars, bridgeVars, backpressured, wasmVars>>

\* shutdown(SHUT_WR): the peer asks for nothing more and waits for its replies.
PeerHalfClose(c) ==
  /\ pc = "idle"
  /\ peer[c] = "open"
  /\ peer' = [peer EXCEPT ![c] = "half"]
  /\ UNCHANGED <<sent, kern, sockVars, bridgeVars, backpressured, wasmVars>>

PeerGone(c) ==
  /\ pc = "idle"
  /\ peer[c] \in {"open", "half"}
  /\ peer' = [peer EXCEPT ![c] = "gone"]
  /\ UNCHANGED <<sent, kern, sockVars, bridgeVars, backpressured, wasmVars>>

\* The kernel takes one more reply from the stream of a socket that is not
\* destroyed.
KernelAccept(c) ==
  /\ pc = "idle"
  /\ c \in socks
  /\ kern[c] < written[c]
  /\ kern' = [kern EXCEPT ![c] = @ + 1]
  /\ UNCHANGED <<netVars, sockVars, bridgeVars, backpressured, wasmVars>>

-----------------------------------------------------------------------------
(* Freeing a client.                                                       *)

\* Mutant of HostClose: the record stays in this.socks.
MutantHostClose(S) == UNCHANGED socks /\ closing' = closing \cup (socks \cap S)

\* host.close(): socket.destroy() and this.socks.delete().  What the stream still
\* held is dropped; node emits 'close' later.
HostClose(S) ==
  /\ socks' = socks \ S
  /\ closing' = closing \cup (socks \cap S)

\* freeClientAsync()
FreeClientAsync(c) ==
  IF c \in closeAsap
    THEN UNCHANGED closeVars
    ELSE /\ closeAsap' = closeAsap \cup {c}
         /\ closeList' = Linked(closeList, c)

\* freeClient() and unlinkClient() for every client of S: out of server.clients,
\* both file events deleted, the socket closed.  Whoever calls it says what
\* happens to clients_to_close and to clients_pending_write.
FreeClients(S) ==
  /\ clients' = clients \ S
  /\ rmask' = rmask \ S
  /\ wmask' = wmask \ S
  /\ HostClose(S)
  /\ connState' = [d \in Conns |-> IF d \in S THEN "none" ELSE connState[d]]
  /\ closeAsap' = closeAsap \ S

\* Mutant of UnlinkPendingWrite: the node is unlinked without looking at the flag.
MutantUnlinkAlways(S) ==
  /\ pwList' = Unlinked(pwList, S)
  /\ pendingWrite' = pendingWrite \ S

\* unlinkClient() takes a freed client off clients_pending_write if its flag says
\* that it is there.
UnlinkPendingWrite(S) ==
  /\ pwList' = Unlinked(pwList, pendingWrite \cap S)
  /\ pendingWrite' = pendingWrite \ S

-----------------------------------------------------------------------------
(* Writing to a client.                                                    *)

\* host_write() of n replies: a socket the kernel has caught up with is written
\* to at once, as far as the kernel takes it; the rest waits in the stream.
\* socket.write() answers by the stream's length with the new chunk in it.
HostWrite(c, n) ==
  /\ written' = [written EXCEPT ![c] = @ + n]
  /\ \E k \in kern[c]..(written[c] + n) :
       /\ kern[c] < written[c] => k = kern[c]
       /\ kern' = [kern EXCEPT ![c] = k]
  /\ backpressured' = IF written[c] + n - kern[c] >= HighWater
                        THEN backpressured \cup {c}
                        ELSE backpressured


\* aeCreateFileEvent() refuses an fd beyond the end of events[].
Fits(fd) == fd < SetSize

\* Mutant of WriteHandlers: what is left waits for nothing.
MutantNeverArmed(c, left) == wmask \ {c}

\* The write handler once left replies stay behind: postWriteToClient() removes
\* it when there are none, installClientWriteHandler() registers it otherwise.
WriteHandlers(c, left) ==
  IF left = 0 THEN wmask \ {c}
  ELSE IF Fits(Fd(c)) THEN wmask \cup {c} ELSE wmask

\* Mutants of ClosesAfterWrite: the close does not wait for the last reply, or is
\* forgotten.
MutantClosesEarly(c, left) == c \in closeAfter \/ (left > 0 /\ ~Fits(Fd(c)))

MutantClosesNever(c, left) == left > 0 /\ ~Fits(Fd(c))

\* When a successful write schedules the close of its client: the entire reply has
\* been sent to a close_after_reply client, or the handler cannot be installed.
ClosesAfterWrite(c, left) ==
  IF left = 0 THEN c \in closeAfter ELSE ~Fits(Fd(c))

\* writeToClient(), with installClientWriteHandler() for what it leaves unsent.
\* The host takes a write whole or, on a record with eof set, not at all, so
\* only the iovec limit leaves replies behind.
WriteToClient(c) ==
  LET n    == Least(Unsent(c), WriteMax)
      left == Unsent(c) - n
  IN IF c \notin socks \/ c \in eof
       THEN /\ connState' = [connState EXCEPT ![c] = "error"]
            /\ FreeClientAsync(c)
            /\ UNCHANGED <<outVars, wmask>>
       ELSE /\ HostWrite(c, n)
            /\ wmask' = WriteHandlers(c, left)
            /\ IF ClosesAfterWrite(c, left)
                 THEN FreeClientAsync(c)
                 ELSE UNCHANGED closeVars
            /\ UNCHANGED connState

-----------------------------------------------------------------------------
(* A pass of the event loop: rk_step() = aeProcessEvents().                *)

BeginPass ==
  /\ pc = "idle"
  /\ pc' = "writes"
  /\ todo' = {c \in Conns : pwList[c] > 0}
  /\ UNCHANGED <<netVars, kern, sockVars, nextFd, arrived, eof, backpressured,
                 pending, cur, firedR, firedW, budget, maskVars, listVars,
                 closeVars, clientVars, read, replied, written, closeAfter>>

\* The microtask scheduleStep() queued.
Microtask ==
  /\ stepScheduled
  /\ stepScheduled' = FALSE
  /\ BeginPass

\* setInterval(() => this.step()).  Microtasks run before the loop gets to timers.
Timer ==
  /\ ~stepScheduled
  /\ UNCHANGED stepScheduled
  /\ BeginPass

\* One node of handleClientsWithPendingWrites().
WritePending(c) ==
  /\ pc = "writes"
  /\ c \in todo
  /\ todo' = todo \ {c}
  /\ IF c \in closeAsap
       THEN UNCHANGED <<listVars, outVars, wmask, connState, closeVars>>
       ELSE /\ pendingWrite' = pendingWrite \ {c}
            /\ pwList' = Unlinked(pwList, {c})
            /\ IF Unsent(c) = 0
                 THEN UNCHANGED <<outVars, wmask, connState, closeVars>>
                 ELSE WriteToClient(c)
  /\ UNCHANGED <<netVars, bridgeVars, sockVars, pc, cur, firedR, firedW, budget,
                 rmask, clients, read, replied, closeAfter>>

WritesDone ==
  /\ pc = "writes"
  /\ todo = {}
  /\ pc' = "frees"
  /\ todo' = {c \in Conns : closeList[c] > 0}
  /\ UNCHANGED <<netVars, bridgeVars, sockVars, outVars, cur, firedR, firedW,
                 budget, maskVars, listVars, closeVars, clientVars, read,
                 replied, closeAfter>>

\* One node of freeClientsInAsyncFreeQueue(): the flag is cleared first, so that
\* freeClient() leaves the node to the loop.
FreeAsync(c) ==
  /\ pc = "frees"
  /\ c \in todo
  /\ todo' = todo \ {c}
  /\ FreeClients({c})
  /\ closeList' = Unlinked(closeList, {c})
  /\ UnlinkPendingWrite({c})
  /\ closeAfter' = closeAfter \ {c}
  /\ UNCHANGED <<netVars, bridgeVars, outVars, pc, cur, firedR, firedW, budget,
                 read, replied>>

\* Mutant of Readable: poll reports data only.
MutantReadableData(c) == arrived[c] > read[c]

\* host.poll() for a client's socket.
Readable(c) == arrived[c] > read[c] \/ c \in eof

\* aeApiPoll() over host.poll(): what is ready right now among the fds of events[].
Poll ==
  /\ pc = "frees"
  /\ todo = {}
  /\ pc' = "files"
  /\ firedR' = {c \in rmask \cap socks : Readable(c)}
                 \cup (IF pending = {} THEN {} ELSE {Listener})
  /\ firedW' = (wmask \cap socks) \ backpressured
  /\ budget' = AcceptMax
  /\ UNCHANGED <<netVars, bridgeVars, sockVars, outVars, cur, todo, maskVars,
                 listVars, closeVars, clientVars, read, replied, closeAfter>>

\* The fired fds are visited in fd order.
IsNext(c) == \A d \in firedR \cup firedW : c <= d

\* The admission control of acceptCommonHandler().
ServerFull == Cardinality(clients) >= MaxClients

\* host.accept() takes the oldest connection of the pending queue.
NextPending(c) == c \in pending /\ \A d \in pending : c <= d

\* createClient(): the result of registering the read event is not looked at.
CreateClient(c) ==
  /\ clients' = clients \cup {c}
  /\ connState' = [connState EXCEPT ![c] = "connected"]
  /\ rmask' = IF Fits(Fd(c)) THEN rmask \cup {c} ELSE rmask

\* One accept() of connSocketAcceptHandler()'s loop, with acceptCommonHandler():
\* connections beyond maxclients are closed.
Accept(c) ==
  /\ pc = "files"
  /\ Listener \in firedR
  /\ budget > 0
  /\ NextPending(c)
  /\ pending' = pending \ {c}
  /\ budget' = budget - 1
  /\ IF ServerFull
       THEN /\ HostClose({c})
            /\ UNCHANGED <<clientVars, rmask>>
       ELSE CreateClient(c) /\ UNCHANGED sockVars
  /\ UNCHANGED <<netVars, nextFd, arrived, eof, stepScheduled, outVars, pc, cur,
                 todo, firedR, firedW, wmask, listVars, closeVars, read,
                 replied, closeAfter>>

AcceptDone ==
  /\ pc = "files"
  /\ Listener \in firedR
  /\ budget = 0 \/ pending = {}
  /\ firedR' = firedR \ {Listener}
  /\ UNCHANGED <<netVars, bridgeVars, sockVars, outVars, pc, cur, todo, firedW,
                 budget, maskVars, listVars, closeVars, clientVars, read,
                 replied, closeAfter>>

\* Mutant of StillArmed: the mask is not looked at again.
MutantStillArmed(c, mask) == c \in Conns

\* "maybe an already processed event removed an element that fired and we still
\* didn't processed": a fired event is dispatched only if its mask is still set.
StillArmed(c, mask) == c \in mask

\* What host_read() returns: the requests taken, 0 at end of file, -1 (EAGAIN) on
\* an empty record or one that is gone.
HostRead(c) ==
  CASE c \notin socks -> -1
    [] c \in socks /\ arrived[c] > read[c] -> Least(arrived[c] - read[c], ReadMax)
    [] c \in socks /\ arrived[c] = read[c] -> IF c \in eof THEN 0 ELSE -1

\* readToQueryBuf() and handleReadResult(): a client that is being closed is not read
\* from and counts as at end of file, end of file schedules the close, and EAGAIN
\* changes nothing.
ReadAndHandle(c) ==
  \/ /\ c \in closeAsap \/ HostRead(c) = 0
     /\ connState' = IF c \in closeAsap THEN connState
                     ELSE [connState EXCEPT ![c] = "closed"]
     /\ FreeClientAsync(c)
     /\ UNCHANGED read
  \/ /\ c \notin closeAsap /\ HostRead(c) > 0
     /\ read' = [read EXCEPT ![c] = @ + HostRead(c)]
     /\ UNCHANGED <<connState, closeVars>>
  \/ /\ c \notin closeAsap /\ HostRead(c) < 0
     /\ UNCHANGED <<read, connState, closeVars>>

\* The readable event of a client: readQueryFromClient() up to command execution.
FileRead(c) ==
  /\ pc = "files"
  /\ c \in firedR \cap Conns
  /\ IsNext(c)
  /\ firedR' = firedR \ {c}
  /\ IF ~StillArmed(c, rmask)
       THEN UNCHANGED <<pc, cur, read, connState, closeVars>>
       ELSE /\ pc' = "exec"
            /\ cur' = c
            /\ ReadAndHandle(c)
  /\ UNCHANGED <<netVars, bridgeVars, sockVars, outVars, todo, firedW, budget,
                 maskVars, listVars, clients, replied, closeAfter>>

\* Mutant of CanParse: the loop leaves the last command in the buffer.
MutantCanParse(c) ==
  /\ read[c] > replied[c] + 1
  /\ c \notin closeAfter
  /\ c \notin closeAsap

\* The loop condition of processInputBuffer() with canParseCommand().
CanParse(c) ==
  /\ read[c] > replied[c]
  /\ c \notin closeAfter
  /\ c \notin closeAsap

\* Mutant of AddReply: a client freed by the command stays in clients_pending_write.
MutantAddReply(c, S) ==
  LET link == Unsent(c) = 0 /\ c \notin pendingWrite
  IN /\ replied' = [replied EXCEPT ![c] = @ + 1]
     /\ pendingWrite' = IF link THEN pendingWrite \cup {c} ELSE pendingWrite
     /\ pwList' = IF link THEN Linked(pwList, c) ELSE pwList

\* prepareClientToWrite() and the reply that follows it, for a command that has
\* freed the clients of S.  A client with unsent replies is taken to be queued
\* or armed already.
AddReply(c, S) ==
  LET link == Unsent(c) = 0 /\ c \notin pendingWrite
  IN /\ replied' = [replied EXCEPT ![c] = @ + 1]
     /\ pendingWrite' = (IF link THEN pendingWrite \cup {c} ELSE pendingWrite) \ S
     /\ pwList' = Unlinked(IF link THEN Linked(pwList, c) ELSE pwList,
                           pendingWrite \cap S)

\* Executing an ordinary command, or QUIT (close_after_reply).
ExecCommand(c) ==
  /\ pc = "exec"
  /\ cur = c
  /\ CanParse(c)
  /\ AddReply(c, {})
  /\ closeAfter' \in {closeAfter, closeAfter \cup {c}}
  /\ UNCHANGED <<netVars, bridgeVars, sockVars, outVars, loopVars, maskVars,
                 closeVars, clientVars, read>>

\* CLIENT KILL with a filter that matches the clients of S: the others are freed
\* on the spot, the caller after its reply.
ExecKill(c, S) ==
  /\ pc = "exec"
  /\ cur = c
  /\ CanParse(c)
  /\ S # {}
  /\ FreeClients(S \ {c})
  /\ closeList' = Unlinked(closeList, closeAsap \cap (S \ {c}))
  /\ AddReply(c, S \ {c})
  /\ closeAfter' = (closeAfter \ S) \cup (S \cap {c})
  /\ UNCHANGED <<netVars, bridgeVars, outVars, loopVars, read>>

\* beforeNextClient(): a client scheduled for closing is freed at once.
BeforeNextClient(c) ==
  /\ pc = "exec"
  /\ cur = c
  /\ ~CanParse(c)
  /\ pc' = "files"
  /\ cur' = Listener
  /\ IF c \in closeAsap
       THEN /\ FreeClients({c})
            /\ closeList' = Unlinked(closeList, {c})
            /\ UnlinkPendingWrite({c})
            /\ closeAfter' = closeAfter \ {c}
       ELSE UNCHANGED <<clientVars, maskVars, sockVars, closeVars, listVars,
                        closeAfter>>
  /\ UNCHANGED <<netVars, bridgeVars, outVars, todo, firedR, firedW, budget,
                 read, replied>>

\* The writable event of a client, after its readable one: sendReplyToClient().
FileWrite(c) ==
  /\ pc = "files"
  /\ c \in firedW \ firedR
  /\ IsNext(c)
  /\ firedW' = firedW \ {c}
  /\ IF StillArmed(c, wmask)
       THEN WriteToClient(c)
       ELSE UNCHANGED <<outVars, wmask, connState, closeVars>>
  /\ UNCHANGED <<netVars, bridgeVars, sockVars, pc, cur, todo, firedR, budget,
                 rmask, clients, listVars, read, replied, closeAfter>>

\* Every fired event is served; time events follow and rk_step() returns.
FilesDone ==
  /\ pc = "files"
  /\ firedR \cup firedW = {}
  /\ pc' = "idle"
  /\ UNCHANGED <<netVars, bridgeVars, sockVars, outVars, cur, todo, firedR,
                 firedW, budget, maskVars, listVars, closeVars, clientVars,
                 read, replied, closeAfter>>

-----------------------------------------------------------------------------

Init ==
  /\ peer = [c \in Conns |-> "new"]
  /\ sent = [c \in Conns |-> 0]
  /\ kern = [c \in Conns |-> 0]
  /\ closing = {}
  /\ nextFd = FdBase + 1
  /\ socks = {}
  /\ arrived = [c \in Conns |-> 0]
  /\ eof = {}
  /\ backpressured = {}
  /\ pending = {}
  /\ stepScheduled = FALSE
  /\ pc = "idle"
  /\ cur = Listener
  /\ todo = {}
  /\ firedR = {}
  /\ firedW = {}
  /\ budget = 0
  /\ rmask = {}
  /\ wmask = {}
  /\ clients = {}
  /\ connState = [c \in Conns |-> "none"]
  /\ read = [c \in Conns |-> 0]
  /\ replied = [c \in Conns |-> 0]
  /\ written = [c \in Conns |-> 0]
  /\ pendingWrite = {}
  /\ pwList = [c \in Conns |-> 0]
  /\ closeAsap = {}
  /\ closeList = [c \in Conns |-> 0]
  /\ closeAfter = {}

PeerStep(c) == PeerSend(c) \/ PeerHalfClose(c) \/ PeerGone(c)

HostEvent(c) ==
  OnData(c) \/ OnEnd(c) \/ OnError(c) \/ OnClose(c) \/ OnDrain(c) \/ KernelAccept(c)

\* One step of the pass that is running.
PassStep ==
  \/ WritesDone \/ Poll \/ AcceptDone \/ FilesDone
  \/ \E c \in Conns :
       \/ WritePending(c) \/ FreeAsync(c) \/ Accept(c) \/ FileRead(c)
       \/ ExecCommand(c) \/ BeforeNextClient(c) \/ FileWrite(c)
       \/ \E S \in SUBSET clients : ExecKill(c, S)

Next ==
  \/ \E c \in Conns : OnConnection(c) \/ PeerStep(c) \/ HostEvent(c)
  \/ Microtask \/ Timer
  \/ PassStep

\* A pass runs to its end and a queued microtask runs: both are one
\* uninterrupted run of the JavaScript thread.  Node's loop serves sockets and
\* timers in turn, so as long as socket events keep being ready between passes
\* some of them are delivered; the interval timer fires again and again.
Fairness ==
  /\ WF_vars(PassStep)
  /\ WF_vars(Microtask)
  /\ WF_vars(Timer)
  /\ SF_vars(\E c \in Conns : HostEvent(c))

Spec == Init /\ [][Next]_vars

LiveSpec == Spec /\ Fairness

-----------------------------------------------------------------------------
(* Properties.                                                             *)

PCs == {"idle", "writes", "frees", "files", "exec"}

\* The type invariant: every variable of the model has its type.
TypeOK ==
  /\ peer \in [Conns -> {"new", "open", "half", "gone"}]
  /\ sent \in [Conns -> Nat] /\ arrived \in [Conns -> Nat]
  /\ read \in [Conns -> Nat] /\ replied \in [Conns -> Nat]
  /\ written \in [Conns -> Nat] /\ kern \in [Conns -> Nat]
  /\ nextFd \in Nat
  /\ socks \subseteq Conns /\ closing \subseteq Conns /\ eof \subseteq Conns
  /\ backpressured \subseteq Conns /\ pending \subseteq Conns
  /\ stepScheduled \in BOOLEAN
  /\ pc \in PCs
  /\ cur \in Conns \cup {Listener}
  /\ todo \subseteq Conns
  /\ firedR \subseteq Conns \cup {Listener} /\ firedW \subseteq Conns
  /\ budget \in Nat
  /\ rmask \subseteq Conns /\ wmask \subseteq Conns
  /\ clients \subseteq Conns
  /\ connState \in [Conns -> {"none", "connected", "closed", "error"}]
  /\ pendingWrite \subseteq Conns /\ closeAsap \subseteq Conns
  /\ closeAfter \subseteq Conns
  /\ pwList \in [Conns -> Nat] /\ closeList \in [Conns -> Nat]

\* Replies never run ahead: what left for the peer was handed to the host, what
\* was handed over had been queued by a command, what was executed had been read,
\* what was read had arrived, what arrived had been sent; and a client between
\* two of its events that is not being closed has been answered for everything
\* wasm read from it (processInputBuffer() leaves no request behind).
ReplyPipeline ==
  /\ \A c \in Conns : /\ kern[c] <= written[c] /\ written[c] <= replied[c]
                      /\ replied[c] <= read[c]  /\ read[c] <= arrived[c]
                      /\ arrived[c] <= sent[c]
  /\ \A c \in clients \ (closeAfter \cup closeAsap) :
       (pc = "exec" /\ cur = c) \/ replied[c] = read[c]

\* No lost wake-up on output: a client that will live on and has unsent replies
\* is in clients_pending_write or has its write handler installed, although
\* prepareClientToWrite() queues it only when its buffers were empty.
NoStrandedReplies ==
  \A c \in clients \ closeAsap :
    Unsent(c) > 0 => c \in pendingWrite \/ c \in wmask

\* No busy loop on output: a write handler stays installed only while there is
\* something to write (aeApiPoll() would report it ready on every pass), and then
\* the client is not queued for handleClientsWithPendingWrites() as well.
NoIdleWriteHandler ==
  \A c \in wmask : Unsent(c) > 0 /\ c \notin pendingWrite

\* The intrusive lists agree with the flags that guard them: a client is in
\* clients_pending_write exactly once while flag.pending_write is set, in
\* clients_to_close exactly once while flag.close_asap is set, and neither list,
\* nor events[], nor an armed handler names a client that has been freed.
ListsMatchFlags ==
  /\ \A c \in Conns : /\ pwList[c] = (IF c \in pendingWrite THEN 1 ELSE 0)
                      /\ closeList[c] = (IF c \in closeAsap THEN 1 ELSE 0)
  /\ pendingWrite \cup closeAsap \cup closeAfter \cup rmask \cup wmask \subseteq clients

\* The bridge's socket table and the server agree: every record in this.socks is
\* waiting in the accept queue or belongs to a client, never both, and every
\* client still has its record.  No path closes one side and leaks the other.
SocketsOwned ==
  /\ socks = clients \cup pending
  /\ clients \cap pending = {}

\* createClient() ignores the refusal of aeCreateFileEvent(): a client whose fd lies
\* beyond the end of events[] is kept, and is never polled for input.
PolledIffFits == \A c \in clients : c \in rmask <=> Fits(Fd(c))

\* The event loop never calls a handler for a client that an earlier event of the
\* same pass (CLIENT KILL) has freed.
HandlerHasClient == pc = "exec" => cur \in clients

\* acceptCommonHandler() keeps the number of clients within maxclients.
AdmissionBound == Cardinality(clients) <= MaxClients

\* close_after_reply closes late enough: a client that asked to be closed after its
\* reply, and that is neither killed by another client nor at end of file, is freed
\* only when every one of its replies has been handed to the host.
QuitFlushesToHost ==
  [][\A c \in closeAfter \ eof :
       c \in clients \ clients' /\ pc # "exec" => written[c] = replied[c]]_vars

\* Every request of a peer that stays connected is answered, or the server closes
\* the connection (QUIT, CLIENT KILL, maxclients).
RequestsAnswered ==
  \A c \in Conns : \A n \in 1..MaxReq[c] :
    peer[c] = "open" /\ sent[c] = n
      ~> kern[c] >= n \/ peer[c] # "open" \/ c \notin socks

\* A connection whose peer is gone is released on both sides: the client is freed and
\* the record deleted, whatever was buffered, queued or backpressured.
DeadPeersReaped ==
  \A c \in Conns : peer[c] = "gone" ~> c \notin socks \cup clients

\* A client that asked to be closed after its reply is closed.
QuitCloses == \A c \in Conns : c \in closeAfter ~> c \notin clients

-----------------------------------------------------------------------------
(* The inductive invariant behind the safety properties.                   *)

\* The nodes a loop over one of the two lists has still to visit are linked.
TodoLinked ==
  /\ pc = "writes" => todo \subseteq pendingWrite
  /\ pc = "frees" => todo \subseteq closeAsap

\* fds are handed out in order: the connections from nextFd on do not exist yet.
Numbering ==
  /\ nextFd > FdBase
  /\ \A c \in Conns : /\ peer[c] = "new" <=> Fd(c) >= nextFd
                      /\ peer[c] = "new" => c \notin socks

\* Nothing is read from a connection before it is accepted.
Unread ==
  \A c \in Conns : peer[c] = "new" \/ c \in pending => read[c] = 0 /\ replied[c] = 0

IndInv ==
  /\ TypeOK
  /\ ReplyPipeline
  /\ NoStrandedReplies
  /\ NoIdleWriteHandler
  /\ ListsMatchFlags
  /\ SocketsOwned
  /\ HandlerHasClient
  /\ TodoLinked
  /\ Numbering
  /\ Unread

-----------------------------------------------------------------------------
(* The promise to a connection's peer, and the refinement mapping to it.   *)

phase == [c \in Conns |-> IF c \in socks THEN "open"
                          ELSE IF peer[c] = "new" THEN "new" ELSE "closed"]

Stream == INSTANCE ReplyStream WITH asked <- sent, answered <- kern

\* The reactor implements the abstract reply stream: each connection is opened once
\* and closed once, is answered only while it is open, and never more often than it
\* asked.
RefinesReplyStream == Stream!Spec
=============================================================================
