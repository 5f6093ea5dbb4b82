-------------------------- MODULE ReactorRefinement --------------------------
(****************************************************************************)
(* The reactor implements the reply stream: every step of Reactor is, under *)
(* the mapping of Reactor.tla, a step of ReplyStream or leaves it alone.    *)
(****************************************************************************)
EXTENDS ReactorProofs

\* The initial state maps to the initial state.
LEMMA InitRefines == Init => Stream!Init
  BY DEF Init, Stream!Init, phase

\* A step that keeps the records, and the peers that exist, keeps the phases.
LEMMA PhaseKept ==
  ASSUME UNCHANGED socks,
         \A c \in Conns : peer'[c] = "new" <=> peer[c] = "new"
  PROVE  UNCHANGED phase
  BY DEF phase

\* Deleting records is closing connections.
LEMMA PhaseClosed ==
  ASSUME IndInv, NEW S \in SUBSET socks, socks' = socks \ S, UNCHANGED <<peer, sent, kern>>
  PROVE  Stream!Close(S) /\ S \in SUBSET Conns
<1>1. S \subseteq Conns
  BY DEF IndInv, TypeOK
<1>2. \A c \in S : phase[c] = "open" /\ peer[c] # "new"
  BY <1>1 DEF IndInv, Numbering, phase
<1>3. phase' = [c \in Conns |-> IF c \in S THEN "closed" ELSE phase[c]]
  BY <1>1, <1>2 DEF phase
<1> QED
  BY <1>1, <1>2, <1>3 DEF Stream!Close

\* A write moves replies to the kernel, or none.
LEMMA WriteAnswers ==
  ASSUME IndInv, NEW c \in clients, Unsent(c) # 0, WriteToClient(c),
         UNCHANGED <<peer, sent, socks>>
  PROVE  Stream!Answer(c) \/ UNCHANGED <<phase, sent, kern>>
<1>1. c \in Conns /\ c \in socks /\ phase[c] = "open" /\ UNCHANGED phase
  BY DEF IndInv, TypeOK, SocketsOwned, phase
<1>2. /\ kern' \in [Conns -> Nat] /\ \A d \in Conns \ {c} : kern'[d] = kern[d]
      /\ kern'[c] <= written'[c] /\ written'[c] <= replied[c] /\ written' \in [Conns -> Nat]
  BY <1>1, WriteOutcome DEF IndInv
<1>3. kern'[c] <= sent[c]
  BY <1>1, <1>2 DEF IndInv, ReplyPipeline, TypeOK
<1>4. kern[c] <= kern'[c]
  <2>1. CASE c \in eof
    BY <2>1, <1>1 DEF WriteToClient, outVars, IndInv, TypeOK
  <2>2. CASE c \notin eof
    BY <2>2, <1>1 DEF WriteToClient, HostWrite, IndInv, TypeOK
  <2> QED
    BY <2>1, <2>2
<1>5. kern' = [kern EXCEPT ![c] = kern'[c]]
  BY <1>2 DEF IndInv, TypeOK
<1>6. CASE kern'[c] = kern[c]
  BY <1>1, <1>5, <1>6 DEF IndInv, TypeOK
<1>7. CASE kern'[c] # kern[c]
  <2>1. kern'[c] \in (kern[c] + 1)..sent[c]
    BY <1>1, <1>2, <1>3, <1>4, <1>7 DEF IndInv, TypeOK
  <2> QED
    BY <1>1, <1>5, <2>1 DEF Stream!Answer
<1> QED
  BY <1>6, <1>7

\* Every step of the reactor is a step of the reply stream or leaves it alone.
LEMMA NextRefines == IndInv /\ [Next]_vars => [Stream!Next]_(Stream!svars)
<1> SUFFICES ASSUME IndInv, [Next]_vars
             PROVE  Stream!Next \/ UNCHANGED <<phase, sent, kern>>
  BY DEF Stream!svars
<1> USE DEF sockVars, netVars, bridgeVars, outVars, wasmVars
<1>1. CASE UNCHANGED vars
  BY <1>1, PhaseKept DEF vars
<1>2. ASSUME NEW c \in Conns, OnConnection(c)
      PROVE  Stream!Open(c)
  <2>1. peer[c] = "new" /\ c \notin socks
    BY <1>2, ReactorAssumption DEF OnConnection, IndInv, Numbering, TypeOK, Fd, Conns
  <2>2. phase[c] = "new" /\ phase' = [phase EXCEPT ![c] = "open"]
    BY <1>2, <2>1 DEF OnConnection, phase, IndInv, TypeOK
  <2> QED
    BY <1>2, <2>2 DEF OnConnection, Stream!Open
<1>3. ASSUME NEW c \in Conns, PeerSend(c)
      PROVE  Stream!Ask(c)
  <2>1. phase[c] # "new" /\ UNCHANGED phase
    BY <1>3, PhaseKept DEF PeerSend, phase
  <2> QED
    BY <1>3, <2>1 DEF PeerSend, Stream!Ask
<1>4. ASSUME NEW c \in Conns, KernelAccept(c)
      PROVE  Stream!Answer(c)
  <2>1. phase[c] = "open" /\ UNCHANGED phase
    BY <1>4, PhaseKept DEF KernelAccept, phase
  <2>2. kern[c] + 1 \in (kern[c] + 1)..sent[c]
    BY <1>4 DEF KernelAccept, IndInv, TypeOK, ReplyPipeline
  <2> QED
    BY <1>4, <2>1, <2>2 DEF KernelAccept, Stream!Answer
<1>5. ASSUME NEW c \in Conns,
             \/ PeerHalfClose(c) \/ PeerGone(c) \/ OnData(c) \/ OnEnd(c) \/ OnError(c)
             \/ OnClose(c) \/ OnDrain(c) \/ FileRead(c) \/ ExecCommand(c)
      PROVE  UNCHANGED <<phase, sent, kern>>
  <2>1. UNCHANGED <<socks, sent, kern>>
    BY <1>5 DEF PeerHalfClose, PeerGone, OnData, OnEnd, OnError, OnClose, OnDrain,
                FileRead, ExecCommand
  <2>2. \A d \in Conns : peer'[d] = "new" <=> peer[d] = "new"
    BY <1>5 DEF PeerHalfClose, PeerGone, OnData, OnEnd, OnError, OnClose, OnDrain,
                FileRead, ExecCommand, IndInv, TypeOK
  <2> QED
    BY <2>1, <2>2, PhaseKept
<1>6. CASE Microtask \/ Timer \/ WritesDone \/ Poll \/ AcceptDone \/ FilesDone
  BY <1>6, PhaseKept DEF Microtask, Timer, BeginPass, WritesDone, Poll, AcceptDone, FilesDone
<1>7. ASSUME NEW c \in Conns, FreeAsync(c) \/ BeforeNextClient(c)
      PROVE  Stream!Next \/ UNCHANGED <<phase, sent, kern>>
  <2>1. UNCHANGED <<peer, sent, kern>>
    BY <1>7 DEF FreeAsync, BeforeNextClient
  <2>2. socks' = socks \/ socks' = socks \ {c}
    BY <1>7 DEF FreeAsync, BeforeNextClient, FreeClients, HostClose
  <2>3. CASE socks' = socks
    BY <2>1, <2>3, PhaseKept
  <2>4. CASE socks' = socks \ {c} /\ c \in socks
    BY <2>1, <2>4, PhaseClosed, {c} \in SUBSET socks DEF Stream!Next
  <2> QED
    BY <2>2, <2>3, <2>4
<1>8. ASSUME NEW c \in Conns, Accept(c)
      PROVE  Stream!Next \/ UNCHANGED <<phase, sent, kern>>
  <2>1. UNCHANGED <<peer, sent, kern>> /\ c \in socks
    BY <1>8 DEF Accept, NextPending, CreateClient, IndInv, SocketsOwned
  <2>2. CASE ServerFull
    <3>1. socks' = socks \ {c}
      BY <1>8, <2>2 DEF Accept, NextPending, CreateClient, HostClose
    <3> QED
      BY <2>1, <3>1, PhaseClosed, {c} \in SUBSET socks DEF Stream!Next
  <2>3. CASE ~ServerFull
    BY <1>8, <2>1, <2>3, PhaseKept DEF Accept, NextPending, CreateClient
  <2> QED
    BY <2>2, <2>3
<1>9. ASSUME NEW c \in Conns, NEW S \in SUBSET clients, ExecKill(c, S)
      PROVE  Stream!Next
  <2>1. socks' = socks \ (S \ {c}) /\ UNCHANGED <<peer, sent, kern>>
    BY <1>9 DEF ExecKill, FreeClients, HostClose
  <2>2. (S \ {c}) \in SUBSET socks
    BY DEF IndInv, SocketsOwned
  <2> QED
    BY <2>1, <2>2, PhaseClosed DEF Stream!Next
<1>10. ASSUME NEW c \in Conns, WritePending(c) \/ FileWrite(c)
       PROVE  Stream!Next \/ UNCHANGED <<phase, sent, kern>>
  <2>1. UNCHANGED <<peer, sent, socks>>
    BY <1>10 DEF WritePending, FileWrite
  <2>2. CASE UNCHANGED kern
    BY <2>1, <2>2, PhaseKept
  <2>3. CASE kern' # kern
    <3>1. WriteToClient(c) /\ c \in clients /\ Unsent(c) # 0
      BY <1>10, <2>3
      DEF WritePending, FileWrite, StillArmed, IndInv, TodoLinked, ListsMatchFlags,
          NoIdleWriteHandler, TypeOK, Unsent
    <3> QED
      BY <2>1, <3>1, WriteAnswers DEF Stream!Next
  <2> QED
    BY <2>2, <2>3
<1> QED
  BY <1>1, <1>2, <1>3, <1>4, <1>5, <1>6, <1>7, <1>8, <1>9, <1>10
  DEF Next, PeerStep, HostEvent, PassStep, Stream!Next

\* The reactor implements the abstract reply stream, for any number of connections and
\* requests and any buffer sizes: no interleaving of socket events, passes, kills and
\* closes answers a request twice, before it was asked or on a closed connection.
THEOREM Refinement == Spec => RefinesReplyStream
<1> QED
  BY InitRefines, NextRefines, Invariance, PTL DEF Spec, RefinesReplyStream, Stream!Spec
=============================================================================
