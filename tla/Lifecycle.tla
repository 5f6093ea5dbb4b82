------------------------------ MODULE Lifecycle ------------------------------
(****************************************************************************)
(* start() and stop() of class ValkeyServer (bridge/valkey-server.ts).      *)
(*                                                                          *)
(* start() is asynchronous: it awaits the compilation and the instantiation *)
(* of the wasm module, and the net.Server that rk_boot() asks for through   *)
(* host.listen() binds its port later still.  stop() runs at once, wherever *)
(* a start() happens to be.  The caller's k-th call of start() is number k; *)
(* it makes one net.Server, one listener record, one instance, one timer.   *)
(*                                                                          *)
(* The passes themselves are Reactor's subject.  Here a pass only accepts   *)
(* the connections waiting at the instance's own listener and drops those   *)
(* whose peer has gone.                                                     *)
(****************************************************************************)
EXTENDS Naturals

CONSTANTS
  Conns,      \* the connections peers may make
  MaxStarts,  \* bound: calls of start()
  Overlap     \* whether callers may call again before start() has resolved

ASSUME LifecycleAssumption == MaxStarts \in Nat /\ Overlap \in BOOLEAN

Starts == 1..MaxStarts

VARIABLES
  calls,          \* start() call: "idle", "compiling", "instantiating", "resolved"
  servers,        \* its net.Server: "none", "binding", "listening", "failed", "closed"
  listeners,      \* the calls whose listener is in this.listeners
  instance,       \* the call whose instance is this.instance, 0 before any
  timers,         \* the calls whose interval is active
  timer,          \* the call whose interval is this.timer, 0 before any
  closed,         \* this.closed
  stepScheduled,
  fresh,          \* start() has been called since the last stop()
  peer,           \* connection: "none", "open", "ended" (by the peer), "destroyed"
  via,            \* the call whose server took the connection, 0 before
  socks,          \* the connections with a record in this.socks
  pending,        \* the connections in the listeners' pending queues
  accepted        \* the connections the instance has a client for

startVars == <<calls, servers, listeners, instance, timers, timer, fresh>>
connVars  == <<peer, via, socks, pending, accepted>>
vars == <<startVars, connVars, closed, stepScheduled>>

-----------------------------------------------------------------------------
(* start() and stop().                                                     *)

\* Callers that await each call have one server at a time, as in docs/usage.md.
MayStart == Overlap \/ ~fresh
MayStop  == Overlap \/ \A k \in Starts : calls[k] \in {"idle", "resolved"}

\* start() up to its first await.
Start(k) ==
  /\ calls[k] = "idle"
  /\ \A j \in Starts : j < k => calls[j] # "idle"
  /\ MayStart
  /\ calls' = [calls EXCEPT ![k] = "compiling"]
  /\ fresh' = TRUE
  /\ UNCHANGED <<servers, listeners, instance, timers, timer, connVars, closed,
                 stepScheduled>>

\* WebAssembly.compile() is done; the second await.
Compiled(k) ==
  /\ calls[k] = "compiling"
  /\ calls' = [calls EXCEPT ![k] = "instantiating"]
  /\ UNCHANGED <<servers, listeners, instance, timers, timer, fresh, connVars,
                 closed, stepScheduled>>

\* Mutant of HostListen: the listener is recorded under another fd.
MutantHostListen(k) ==
  /\ servers' = [servers EXCEPT ![k] = "binding"]
  /\ listeners' = listeners \cup {k + 1}

\* host.listen(): create the net.Server, ask it to bind, record the listener.
HostListen(k) ==
  /\ servers' = [servers EXCEPT ![k] = "binding"]
  /\ listeners' = listeners \cup {k}

\* Mutants of Instantiated: the interval is not kept in this.timer, or the instance
\* not in this.instance.
MutantTimerLost(k) ==
  /\ calls[k] = "instantiating"
  /\ calls' = [calls EXCEPT ![k] = "resolved"]
  /\ instance' = k
  /\ HostListen(k)
  /\ timers' = timers \cup {k}
  /\ UNCHANGED <<timer, fresh, connVars, closed, stepScheduled>>

MutantInstanceLost(k) ==
  /\ calls[k] = "instantiating"
  /\ calls' = [calls EXCEPT ![k] = "resolved"]
  /\ HostListen(k)
  /\ timers' = timers \cup {k}
  /\ timer' = k
  /\ UNCHANGED <<instance, fresh, connVars, closed, stepScheduled>>

\* The instance is there: rk_boot(), the interval, and start() resolves.
Instantiated(k) ==
  /\ calls[k] = "instantiating"
  /\ calls' = [calls EXCEPT ![k] = "resolved"]
  /\ instance' = k
  /\ HostListen(k)
  /\ timers' = timers \cup {k}
  /\ timer' = k
  /\ UNCHANGED <<fresh, connVars, closed, stepScheduled>>

\* stop(): every server and socket it knows of is closed, the timer cleared.
Stop ==
  /\ MayStop
  /\ \E k \in Starts : calls[k] # "idle"
  /\ closed' = TRUE
  /\ fresh' = FALSE
  /\ timers' = timers \ {timer}
  /\ servers' = [k \in Starts |-> IF k \in listeners /\ servers[k] # "failed"
                                    THEN "closed" ELSE servers[k]]
  /\ peer' = [c \in Conns |-> IF c \in socks THEN "destroyed" ELSE peer[c]]
  /\ listeners' = {}
  /\ socks' = {}
  /\ UNCHANGED <<calls, instance, timer, stepScheduled, via, pending, accepted>>

-----------------------------------------------------------------------------
(* The net.Server and the peers.                                           *)

\* Whether the port can be bound is known later, and an error is only logged.
Bound(k) ==
  /\ servers[k] = "binding"
  /\ servers' = [servers EXCEPT ![k] = "listening"]
  /\ UNCHANGED <<calls, listeners, instance, timers, timer, fresh, connVars,
                 closed, stepScheduled>>

BindFails(k) ==
  /\ servers[k] = "binding"
  /\ servers' = [servers EXCEPT ![k] = "failed"]
  /\ UNCHANGED <<calls, listeners, instance, timers, timer, fresh, connVars,
                 closed, stepScheduled>>

\* scheduleStep() does nothing once stop() has been called.
ScheduleStep == stepScheduled' = (stepScheduled \/ ~closed)

\* A peer connects to a listening server: net.createServer's callback.
Connect(c, k) ==
  /\ peer[c] = "none"
  /\ servers[k] = "listening"
  /\ peer' = [peer EXCEPT ![c] = "open"]
  /\ via' = [via EXCEPT ![c] = k]
  /\ socks' = socks \cup {c}
  /\ pending' = pending \cup {c}
  /\ ScheduleStep
  /\ UNCHANGED <<startVars, accepted, closed>>

\* 'end' and 'close' of a socket the peer has left.
PeerEnds(c) ==
  /\ peer[c] = "open"
  /\ peer' = [peer EXCEPT ![c] = "ended"]
  /\ ScheduleStep
  /\ UNCHANGED <<startVars, via, socks, pending, accepted, closed>>

-----------------------------------------------------------------------------
(* Passes.                                                                 *)

\* rk_step() on this.instance: the clients whose peer has gone are freed, then the
\* connections waiting at its listener are accepted.  A pass before the instance is
\* there cannot happen, as nothing schedules one.
RkStep ==
  LET gone == {c \in accepted : peer[c] = "ended"}
      new  == {c \in pending : via[c] = instance /\ instance \in listeners}
  IN /\ accepted' = (accepted \ gone) \cup new
     /\ pending' = pending \ new
     /\ socks' = socks \ gone
     /\ peer' = [c \in Conns |-> IF c \in gone THEN "destroyed" ELSE peer[c]]
     /\ UNCHANGED via

\* step() returns at once after stop().
Step == IF closed THEN UNCHANGED connVars ELSE RkStep

\* The microtask of scheduleStep().
Microtask ==
  /\ stepScheduled
  /\ stepScheduled' = FALSE
  /\ Step
  /\ UNCHANGED <<startVars, closed>>

\* An active interval fires.
Tick(k) ==
  /\ k \in timers
  /\ Step
  /\ UNCHANGED <<startVars, closed, stepScheduled>>

-----------------------------------------------------------------------------

Init ==
  /\ calls = [k \in Starts |-> "idle"]
  /\ servers = [k \in Starts |-> "none"]
  /\ listeners = {}
  /\ instance = 0
  /\ timers = {}
  /\ timer = 0
  /\ closed = FALSE
  /\ stepScheduled = FALSE
  /\ fresh = FALSE
  /\ peer = [c \in Conns |-> "none"]
  /\ via = [c \in Conns |-> 0]
  /\ socks = {}
  /\ pending = {}
  /\ accepted = {}

Next ==
  \/ \E k \in Starts : \/ Start(k) \/ Compiled(k) \/ Instantiated(k)
                       \/ Bound(k) \/ BindFails(k) \/ Tick(k)
                       \/ \E c \in Conns : Connect(c, k)
  \/ \E c \in Conns : PeerEnds(c)
  \/ Stop
  \/ Microtask

Spec == Init /\ [][Next]_vars

\* Queued microtasks run and active intervals fire.
LiveSpec == Spec /\ WF_vars(Microtask) /\ \A k \in Starts : WF_vars(Tick(k))

-----------------------------------------------------------------------------
(* Properties.                                                             *)

\* The type invariant.
TypeOK ==
  /\ calls \in [Starts -> {"idle", "compiling", "instantiating", "resolved"}]
  /\ servers \in [Starts -> {"none", "binding", "listening", "failed", "closed"}]
  /\ listeners \subseteq Starts /\ timers \subseteq Starts
  /\ instance \in {0} \cup Starts /\ timer \in {0} \cup Starts
  /\ closed \in BOOLEAN /\ stepScheduled \in BOOLEAN /\ fresh \in BOOLEAN
  /\ peer \in [Conns -> {"none", "open", "ended", "destroyed"}]
  /\ via \in [Conns -> {0} \cup Starts]
  /\ socks \subseteq Conns /\ pending \subseteq Conns /\ accepted \subseteq Conns

\* stop() "closes the listener and any open connections and stops the reactor"
\* (docs/usage.md): from a stop() until start() is called again no server listens
\* or binds, no connection is open and no interval keeps the process alive.
StopReleases ==
  closed /\ ~fresh =>
    /\ \A k \in Starts : servers[k] \notin {"binding", "listening"}
    /\ \A c \in Conns : peer[c] \notin {"open", "ended"}
    /\ timers = {}

\* A connection the server took is accepted by the instance or ends.
ConnectionsServed ==
  \A c \in Conns : peer[c] = "open" ~> c \in accepted \/ peer[c] # "open"
=============================================================================
