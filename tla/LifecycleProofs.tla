--------------------------- MODULE LifecycleProofs ---------------------------
(****************************************************************************)
(* For callers that await each call of start() and stop() (Overlap = FALSE) *)
(* stop() releases everything, however often the server is restarted.       *)
(****************************************************************************)
EXTENDS Lifecycle, TLAPS

InFlight(k) == calls[k] \in {"compiling", "instantiating"}

\* The inductive invariant: what stop() has to find in this.listeners, this.socks and
\* this.timer is there, because at most one start() is under way, and while it is, or
\* after a stop(), no interval is active.
Tracked ==
  /\ \A k \in Starts : servers[k] \in {"binding", "listening"} => k \in listeners
  /\ \A c \in Conns : peer[c] \in {"open", "ended"} => c \in socks
  /\ timers \subseteq {timer}
  /\ \A j, k \in Starts : InFlight(j) /\ InFlight(k) => j = k
  /\ \A k \in Starts : InFlight(k) => timers = {}
  /\ ~fresh => timers = {} /\ \A k \in Starts : ~InFlight(k)
  /\ ~fresh => listeners = {} /\ socks = {}

\* The part of the type invariant the argument needs.
Typed ==
  /\ DOMAIN calls = Starts /\ DOMAIN servers = Starts /\ DOMAIN peer = Conns
  /\ calls = [k \in Starts |-> calls[k]]
  /\ servers = [k \in Starts |-> servers[k]]
  /\ peer = [c \in Conns |-> peer[c]]

\* The tables of the bridge hold calls of start() and connections only, wherever
\* stop() cuts a start() in two, and however often the server is restarted.
THEOREM TypeCorrect == Spec => []TypeOK
<1>1. Init => TypeOK
  BY DEF Init, TypeOK
<1>2. ASSUME TypeOK, [Next]_vars PROVE TypeOK'
  <2> USE <1>2 DEF TypeOK, startVars, connVars
  <2>1. CASE UNCHANGED vars
    BY <2>1 DEF vars
  <2>2. ASSUME NEW k \in Starts, Start(k) \/ Compiled(k) \/ Bound(k) \/ BindFails(k)
        PROVE  TypeOK'
    BY <2>2 DEF Start, Compiled, Bound, BindFails
  <2>3. ASSUME NEW k \in Starts, Instantiated(k) PROVE TypeOK'
    BY <2>3 DEF Instantiated, HostListen
  <2>4. ASSUME NEW k \in Starts, NEW c \in Conns, Connect(c, k) PROVE TypeOK'
    BY <2>4 DEF Connect, ScheduleStep
  <2>5. ASSUME NEW c \in Conns, PeerEnds(c) PROVE TypeOK'
    BY <2>5 DEF PeerEnds, ScheduleStep
  <2>6. CASE Stop
    BY <2>6 DEF Stop
  <2>7. ASSUME Step, UNCHANGED <<startVars, closed>>, stepScheduled' \in BOOLEAN PROVE TypeOK'
    BY <2>7 DEF Step, RkStep
  <2>8. CASE Microtask \/ \E k \in Starts : Tick(k)
    BY <2>7, <2>8 DEF Microtask, Tick
  <2> QED
    BY <2>1, <2>2, <2>3, <2>4, <2>5, <2>6, <2>8 DEF Next
<1> QED
  BY <1>1, <1>2, PTL DEF Spec

\* Tracked is inductive as long as callers await each call.
LEMMA TrackedStep ==
  ASSUME Overlap = FALSE, Typed, Tracked, [Next]_vars
  PROVE  Typed' /\ Tracked'
<1> USE DEF Typed, InFlight, startVars, connVars
<1>1. CASE UNCHANGED vars
  BY <1>1 DEF vars, Tracked
<1>2. ASSUME NEW k \in Starts, Start(k)
      PROVE  Typed' /\ Tracked'
  BY <1>2 DEF Start, MayStart, Tracked
<1>3. ASSUME NEW k \in Starts, Compiled(k)
      PROVE  Typed' /\ Tracked'
  BY <1>3 DEF Compiled, Tracked
<1>4. ASSUME NEW k \in Starts, Instantiated(k)
      PROVE  Typed' /\ Tracked'
  <2>1. Typed' /\ timers' = {k} /\ fresh
    BY <1>4 DEF Instantiated, HostListen, Tracked
  <2> QED
    BY <1>4, <2>1 DEF Instantiated, HostListen, Tracked
<1>5. ASSUME NEW k \in Starts, Bound(k) \/ BindFails(k)
      PROVE  Typed' /\ Tracked'
  BY <1>5 DEF Bound, BindFails, Tracked
<1>6. ASSUME NEW k \in Starts, NEW c \in Conns, Connect(c, k)
      PROVE  Typed' /\ Tracked'
  BY <1>6 DEF Connect, Tracked
<1>7. ASSUME NEW c \in Conns, PeerEnds(c)
      PROVE  Typed' /\ Tracked'
  BY <1>7 DEF PeerEnds, Tracked
<1>8. CASE Stop
  BY <1>8 DEF Stop, MayStop, Tracked
<1>9. ASSUME Step, UNCHANGED <<startVars, closed>>
      PROVE  Typed' /\ Tracked'
  <2>1. CASE ~closed
    BY <1>9, <2>1 DEF Step, RkStep, Tracked
  <2>2. CASE closed
    BY <1>9, <2>2 DEF Step, Tracked
  <2> QED
    BY <2>1, <2>2
<1>10. CASE Microtask \/ \E k \in Starts : Tick(k)
  BY <1>9, <1>10 DEF Microtask, Tick
<1> QED
  BY <1>1, <1>2, <1>3, <1>4, <1>5, <1>6, <1>7, <1>8, <1>10 DEF Next

\* stop() releases the port, the connections and the timer, for callers that await each
\* call, for any number of connections and of restarts.
THEOREM StopIsComplete ==
  ASSUME Overlap = FALSE
  PROVE  Spec => []StopReleases
<1>1. Init => Typed /\ Tracked
  BY DEF Init, Typed, Tracked, InFlight
<1>2. Typed /\ Tracked /\ [Next]_vars => Typed' /\ Tracked'
  BY TrackedStep
<1>3. Tracked => StopReleases
  BY DEF Tracked, StopReleases
<1> QED
  BY <1>1, <1>2, <1>3, PTL DEF Spec

=============================================================================
