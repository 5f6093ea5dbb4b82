------------------------------ MODULE Tracking ------------------------------
(****************************************************************************)
(* Server-assisted client side caching (src/src/tracking.c): the table of   *)
(* the keys each client may hold, the prefixes of broadcasting clients, and *)
(* the invalidation messages, with the calls that produce them in call(),   *)
(* processCommand(), serverCron() and beforeSleep() (src/src/server.c).     *)
(*                                                                          *)
(* view[c] is the cache of the client c once it has read all it was sent:   *)
(* a copy of a key is fresh, or stale when the key changed since.  What the *)
(* server sends is applied in the order it is sent.  The reply of a command *)
(* or of a transaction counts when it is complete.  Clients speak RESP3.    *)
(*                                                                          *)
(* A client caches what it reads as far as its tracking mode allows, drops  *)
(* its copies when tracking is turned on or off or when it is told that its *)
(* redirection is broken, and with NOLOOP drops a key it writes itself.     *)
(* Which keys exist is left open: any key may lapse or be evicted.          *)
(****************************************************************************)
EXTENDS Naturals, FiniteSets, TLC

CONSTANTS
  Clients, Keys,
  Prefixes,    \* a prefix is the set of the keys that begin with it
  Options,     \* the options clients give CLIENT TRACKING on
  NoClient,    \* NULL
  Gone,        \* the ID of a client that no longer exists
  Same,        \* no entry in bs->keys
  All,         \* the RESP NULL: every key
  MaxTable,    \* tracking-table-max-keys
  MaxOps       \* bound: commands in one transaction

OptionType ==
  [bcast: BOOLEAN, noloop: BOOLEAN, opt: BOOLEAN, prefixes: SUBSET Prefixes,
   redir: Clients \cup {NoClient, Gone}]

ASSUME TrackingAssumption ==
  /\ Prefixes \subseteq SUBSET Keys
  /\ Options \subseteq OptionType
  /\ \A o \in Options : o.redir # Gone /\ (o.prefixes # {} <=> o.bcast)
  /\ NoClient \notin Clients /\ Gone \notin Clients \cup {NoClient}
  /\ Same \notin Clients \cup {NoClient}
  /\ All \notin Keys
  /\ MaxTable \in Nat /\ MaxOps \in Nat

VARIABLES
  open,      \* connected clients
  tracking,  \* flag.tracking
  opts,      \* the options of a tracking client
  slots,     \* the keys of TrackingTable
  table,     \*   and the clients remembered for each, those still connected
  bkeys,     \* bs->keys of each prefix: the keys changed, with the last client
  current,   \* server.current_client
  calling,   \* its flag.executing_command
  ops,       \* commands of the transaction run so far
  pending,   \* server.tracking_pending_keys
  deferred,  \* server.pending_push_messages, each with whom it is for
  reply,     \* what the reply of the current client carries so far
  view,      \* the clients' caches
  lost       \* history: copies whose client is told nothing any more, and why

vars == <<open, tracking, opts, slots, table, bkeys, current, calling, ops,
          pending, deferred, reply, view, lost>>

Off == [bcast |-> FALSE, noloop |-> FALSE, opt |-> FALSE, prefixes |-> {}, redir |-> NoClient]
NoKeys == [k \in Keys |-> "none"]
NoChange == [k \in Keys |-> Same]

Init ==
  /\ open = Clients
  /\ tracking = {}
  /\ opts = [c \in Clients |-> Off]
  /\ slots = {}
  /\ table = [k \in Keys |-> {}]
  /\ bkeys = [p \in Prefixes |-> NoChange]
  /\ current = NoClient
  /\ calling = FALSE
  /\ ops = 0
  /\ pending = {}
  /\ deferred = {}
  /\ reply = NoKeys
  /\ view = [c \in Clients |-> NoKeys]
  /\ lost = {}

\* What signalModifiedKey() and the like change.
Server == [tracking |-> tracking, slots |-> slots, table |-> table, bkeys |-> bkeys,
           pending |-> pending, deferred |-> deferred, reply |-> reply, view |-> view,
           lost |-> lost]
Becomes(S) ==
  /\ slots' = S.slots /\ table' = S.table /\ bkeys' = S.bkeys
  /\ pending' = S.pending /\ deferred' = S.deferred /\ reply' = S.reply
  /\ view' = S.view
  /\ lost' = {x \in S.lost : \/ S.view[x[1]][x[2]] # "none"
                             \/ x[1] = current /\ S.reply[x[2]] \in {"fresh", "stale"}}

-----------------------------------------------------------------------------
(* Messages.                                                               *)

\* The client drops the key of the message, or all of them.
Drop(copies, m) == [k \in Keys |-> IF m \in {k, All} THEN "none" ELSE copies[k]]

\* sendTrackingMessage() to every client of C: over the connection it redirects
\* to, or, if that is gone, tracking-redir-broken over its own.  A push to the
\* client whose command is running waits for the end of the reply (addReply).
Send(S, C, m) ==
  LET Redir(c)   == opts[c].redir
      Conn(c)    == IF Redir(c) \in {NoClient, Gone} THEN c ELSE Redir(c)
      Message(c) == IF Redir(c) = Gone THEN All ELSE m
      waits      == {c \in C : calling /\ Conn(c) = current}
      Got(c)     == Drop(S.view[c], Message(c))
  IN [S EXCEPT !.deferred = @ \cup {<<c, Message(c)>> : c \in waits},
               !.view = [c \in Clients |-> IF c \in C \ waits THEN Got(c) ELSE S.view[c]]]

\* The prefixes of PrefixTable: those some client is subscribed to.
PrefixTable == UNION {opts[c].prefixes : c \in tracking}

\* trackingRememberKeyToBroadcast()
Broadcast(S, k, by) ==
  [S EXCEPT !.bkeys = [p \in Prefixes |->
       IF p \in PrefixTable /\ k \in p THEN [S.bkeys[p] EXCEPT ![k] = by] ELSE S.bkeys[p]]]

\* Mutant of Invalidate: the client whose command is running is sent the message
\* at once, before its reply is complete.
MutantInvalidate(S, k, by) ==
  LET targets == {c \in S.table[k] : c \in tracking /\ ~opts[c].bcast}
      skipped == {c \in targets : opts[c].noloop /\ c = current}
  IN [S EXCEPT !.slots = @ \ {k}, !.table = [@ EXCEPT ![k] = {}],
               !.lost = @ \cup ((skipped \ {by}) \X {k} \X {"noloop"}),
               !.view = [c \in Clients |->
                          IF c \in targets \ skipped THEN Drop(S.view[c], k) ELSE S.view[c]]]

\* trackingInvalidateKey(), the part about the table.
Invalidate(S, k, by) ==
  LET targets == {c \in S.table[k] : c \in tracking /\ ~opts[c].bcast}
      skipped == {c \in targets : opts[c].noloop /\ c = current}
      queued  == {c \in targets \ skipped : c = current /\ calling}
      S1 == [S EXCEPT !.pending = IF queued # {} THEN @ \cup {k} ELSE @,
                      !.slots = @ \ {k},
                      !.table = [@ EXCEPT ![k] = {}],
                      !.lost = @ \cup ((skipped \ {by}) \X {k} \X {"noloop"})]
  IN Send(S1, targets \ (skipped \cup queued), k)

\* History: the keys of K change value, so that the copies of them are stale.
Aged(copies, K) ==
  [k \in Keys |-> IF k \in K /\ copies[k] = "fresh" THEN "stale" ELSE copies[k]]
Changed(S, K) ==
  [S EXCEPT !.view = [c \in Clients |-> Aged(S.view[c], K)], !.reply = Aged(@, K)]

\* A key is modified by a client, or by none: signalModifiedKey().
SignalModified(S, k, by) == Invalidate(Broadcast(Changed(S, {k}), k, by), k, by)

\* trackingInvalidateKeysOnFlush(): the RESP NULL to every tracking client.
OnFlush(S) ==
  Send([S EXCEPT !.pending = IF current \in tracking THEN @ \cup {All} ELSE @,
                 !.slots = {}, !.table = [k \in Keys |-> {}]],
       tracking \ {current}, All)

-----------------------------------------------------------------------------
(* CLIENT TRACKING, and connections.                                       *)

Settled == UNCHANGED <<current, calling, ops, pending, deferred, reply>>

\* The prefixes that lose their last client leave the table with their keys.
Forget(T) ==
  [p \in Prefixes |->
     IF \E c \in T : p \in opts[c].prefixes THEN bkeys[p] ELSE NoChange]

\* enableTracking(), after the checks of clientTrackingCommand().  An ID of the
\* client that is left in the table from before is left there.
EnableTracking(c, o) ==
  /\ current = NoClient
  /\ c \in open
  /\ o.redir \in open \cup {NoClient}
  /\ c \in tracking => opts[c].bcast = o.bcast
  /\ \A p \in o.prefixes, q \in opts[c].prefixes : p \cap q = {} \/ p = Keys
  /\ tracking' = tracking \cup {c}
  /\ opts' = [opts EXCEPT ![c] = [o EXCEPT !.prefixes = @ \cup opts[c].prefixes]]
  /\ view' = [view EXCEPT ![c] = NoKeys]
  /\ lost' = {x \in lost : x[1] # c}
  /\ Settled /\ UNCHANGED <<open, slots, table, bkeys>>

\* disableTracking(): the table is cleaned lazily.
DisableTracking(c) ==
  /\ current = NoClient
  /\ c \in tracking
  /\ tracking' = tracking \ {c}
  /\ opts' = [opts EXCEPT ![c] = Off]
  /\ bkeys' = Forget(tracking \ {c})
  /\ view' = [view EXCEPT ![c] = NoKeys]
  /\ lost' = {x \in lost : x[1] # c}
  /\ Settled /\ UNCHANGED <<open, slots, table>>

\* Mutant of Close: the client is freed with tracking on.
MutantClose(c) ==
  /\ current = NoClient
  /\ c \in open
  /\ open' = open \ {c}
  /\ table' = [k \in Keys |-> table[k] \ {c}]
  /\ Settled /\ UNCHANGED <<tracking, opts, slots, bkeys, view, lost>>

\* freeClient(): no client has its ID again; those that redirect to it learn of
\* it with the next message.
Close(c) ==
  /\ current = NoClient
  /\ c \in open
  /\ open' = open \ {c}
  /\ tracking' = tracking \ {c}
  /\ opts' = [b \in Clients |->
                IF b = c THEN Off
                ELSE IF opts[b].redir = c THEN [opts[b] EXCEPT !.redir = Gone] ELSE opts[b]]
  /\ table' = [k \in Keys |-> table[k] \ {c}]
  /\ bkeys' = Forget(tracking \ {c})
  /\ view' = [view EXCEPT ![c] = NoKeys]
  /\ lost' = {x \in lost : x[1] # c}
  /\ Settled /\ UNCHANGED slots

Connect(c) ==
  /\ c \notin open
  /\ open' = open \cup {c}
  /\ UNCHANGED <<tracking, opts, slots, table, bkeys, current, calling, ops,
                 pending, deferred, reply, view, lost>>

-----------------------------------------------------------------------------
(* A command, or the transaction of an EXEC.                               *)

Config == UNCHANGED <<open, tracking, opts>>

\* processCommandAndResetClient()
Begin(c) ==
  /\ current = NoClient
  /\ c \in open
  /\ current' = c
  /\ Config
  /\ UNCHANGED <<slots, table, bkeys, calling, ops, pending, deferred, reply, view, lost>>

\* performEvictions(), before the command is called.
Evict(k) ==
  /\ current # NoClient /\ ~calling
  /\ Becomes(SignalModified(Server, k, NoClient))
  /\ Config /\ UNCHANGED <<current, calling, ops>>

TableFull == tracking # {} /\ MaxTable > 0 /\ Cardinality(slots) > MaxTable

\* Mutant of LimitUsedSlots: the table forgets the key, and nobody is told.
MutantLimitUsedSlots(k) ==
  /\ ~calling
  /\ TableFull /\ k \in slots
  /\ Becomes([Server EXCEPT !.slots = @ \ {k}, !.table = [@ EXCEPT ![k] = {}]])
  /\ Config /\ UNCHANGED <<current, calling, ops>>

\* trackingLimitUsedSlots(), of processCommand() and of serverCron(): a random
\* key leaves the table, until it is within its limit.
LimitUsedSlots(k) ==
  /\ ~calling
  /\ TableFull /\ k \in slots
  /\ Becomes(Invalidate(Server, k, NoClient))
  /\ Config /\ UNCHANGED <<current, calling, ops>>

Call ==
  /\ current # NoClient /\ ~calling /\ ~TableFull
  /\ calling' = TRUE
  /\ Config
  /\ UNCHANGED <<slots, table, bkeys, current, ops, pending, deferred, reply, view, lost>>

Operation ==
  /\ calling
  /\ Config /\ UNCHANGED <<current, calling>>
  /\ ops < MaxOps /\ ops' = ops + 1

\* History: the client has a new copy of the key, or none, and knows it.
Found(L, c, k) == {x \in L : ~(x[1] = c /\ x[2] = k)}

\* A read command, then trackingRememberKeys().  With OPTIN or OPTOUT it depends
\* on the CLIENT CACHING given before.
Read(k, given) ==
  LET c == current
      remember == c \in tracking /\ ~opts[c].bcast /\ (opts[c].opt => given)
      covered  == c \in tracking /\ opts[c].bcast /\ \E p \in opts[c].prefixes : k \in p
  IN /\ Operation
     /\ reply' = IF remember \/ covered THEN [reply EXCEPT ![k] = "fresh"] ELSE reply
     /\ table' = IF remember THEN [table EXCEPT ![k] = @ \cup {c}] ELSE table
     /\ slots' = IF remember THEN slots \cup {k} ELSE slots
     /\ lost' = IF remember \/ covered THEN Found(lost, c, k) ELSE lost
     /\ UNCHANGED <<bkeys, pending, deferred, view>>

\* A command that creates, changes or deletes a key.
Write(k) ==
  LET c  == current
      S1 == SignalModified(Server, k, c)
      S2 == IF opts[c].noloop
            THEN [S1 EXCEPT !.reply = [@ EXCEPT ![k] = "wrote"], !.lost = Found(@, c, k)] ELSE S1
  IN /\ Operation
     /\ Becomes(S2)

FlushDb ==
  /\ Operation
  /\ Becomes(OnFlush(Changed(Server, Keys)))

\* SWAPDB: other values for the keys of K, and no call of tracking.c.
SwapDb(K) ==
  LET Has(c, k) == view[c][k] = "fresh" \/ (c = current /\ reply[k] = "fresh")
  IN /\ Operation
     /\ Becomes([Changed(Server, K) EXCEPT
                   !.lost = @ \cup {x \in Clients \X K \X {"swapdb"} : Has(x[1], x[2])}])

\* deleteExpiredKeyAndPropagate(): in serverCron(), or on access by a command
\* (RANDOMKEY and SCAN meet any key).  Time stands still during one, so that what
\* it has read or written does not lapse.
Expire(k) ==
  /\ current = NoClient \/ (calling /\ reply[k] = "none")
  /\ Becomes(SignalModified(Server, k, NoClient))
  /\ Config /\ UNCHANGED <<current, calling, ops>>

\* What the client has when the reply is complete.
Received(c, k) ==
  IF c # current \/ reply[k] = "none" THEN view[c][k]
  ELSE IF reply[k] = "wrote" THEN "none" ELSE reply[k]

\* Mutant of End: the deferred messages are not joined to the reply.
MutantEnd ==
  /\ calling
  /\ view' = [b \in Clients |-> [k \in Keys |-> Received(b, k)]]
  /\ current' = NoClient /\ calling' = FALSE /\ ops' = 0
  /\ pending' = {} /\ reply' = NoKeys
  /\ Config /\ UNCHANGED <<slots, table, bkeys, lost, deferred>>

\* afterCommand() of the outermost call(): the reply, then the messages of
\* trackingHandlePendingKeyInvalidations(), then the deferred ones.
End ==
  LET c  == current
      m  == IF opts[c].redir = Gone /\ pending # {} THEN {All} ELSE pending
      In(b) == {x[2] : x \in {y \in deferred : y[1] = b}} \cup (IF b = c THEN m ELSE {})
  IN /\ calling
     /\ view' = [b \in Clients |-> [k \in Keys |->
                  IF In(b) \cap {k, All} # {} THEN "none" ELSE Received(b, k)]]
     /\ current' = NoClient /\ calling' = FALSE /\ ops' = 0
     /\ pending' = {} /\ deferred' = {} /\ reply' = NoKeys
     /\ lost' = {x \in lost : view'[x[1]][x[2]] # "none"}
     /\ Config /\ UNCHANGED <<slots, table, bkeys>>

-----------------------------------------------------------------------------
(* beforeSleep(): trackingBroadcastInvalidationMessages().                 *)

\* The keys client c is told of (trackingBuildBroadcastReply()).
Told(c, p) ==
  {k \in Keys : bkeys[p][k] # Same /\ ~(opts[c].noloop /\ bkeys[p][k] = c)}

BeforeSleep ==
  /\ current = NoClient
  /\ bkeys # [p \in Prefixes |-> NoChange]
  /\ LET In(c) == UNION {Told(c, p) : p \in opts[c].prefixes}
         Gets(c, k) == k \in In(c) \/ (In(c) # {} /\ opts[c].redir = Gone)
     IN view' = [c \in Clients |-> [k \in Keys |->
                   IF c \in tracking /\ Gets(c, k) THEN "none" ELSE view[c][k]]]
  /\ bkeys' = [p \in Prefixes |-> NoChange]
  /\ Config
  /\ lost' = {x \in lost : view'[x[1]][x[2]] # "none"}
  /\ UNCHANGED <<slots, table, current, calling, ops, pending, deferred, reply>>

Next ==
  \/ \E c \in Clients :
       \/ \E o \in Options : EnableTracking(c, o)
       \/ DisableTracking(c)
       \/ Close(c)
       \/ Connect(c)
       \/ Begin(c)
  \/ \E k \in Keys :
       \/ Evict(k)
       \/ LimitUsedSlots(k)
       \/ \E given \in BOOLEAN : Read(k, given)
       \/ Write(k)
       \/ Expire(k)
  \/ Call
  \/ FlushDb
  \/ \E K \in SUBSET Keys : SwapDb(K)
  \/ End
  \/ BeforeSleep

Spec == Init /\ [][Next]_vars

-----------------------------------------------------------------------------
(* Properties.                                                             *)

Copy == {"none", "fresh", "stale"}

\* Type invariant: only connected clients track, only connected clients are
\* remembered, and a remembered client's key is in the table.
TypeOK ==
  /\ open \subseteq Clients
  /\ tracking \subseteq open
  /\ opts \in [Clients -> OptionType]
  /\ slots \subseteq Keys
  /\ table \in [Keys -> SUBSET open]
  /\ \A k \in Keys : table[k] # {} => k \in slots
  /\ bkeys \in [Prefixes -> [Keys -> Clients \cup {NoClient, Same}]]
  /\ current \in open \cup {NoClient} /\ calling \in BOOLEAN /\ ops \in 0..MaxOps
  /\ pending \subseteq Keys \cup {All}
  /\ deferred \subseteq Clients \X (Keys \cup {All})
  /\ reply \in [Keys -> Copy \cup {"wrote"}]
  /\ view \in [Clients -> [Keys -> Copy]]
  /\ lost \subseteq Clients \X Keys \X {"noloop", "swapdb"}

\* The invalidation of c's copy of k is on its way: queued or deferred until the
\* reply is complete, or to be broadcast by the next beforeSleep().
Announced(c, k) ==
  \/ c = current /\ pending \cap {k, All} # {}
  \/ <<c, k>> \in deferred \/ <<c, All>> \in deferred
  \/ \E p \in opts[c].prefixes : k \in Told(c, p)

Lost(c, k, why) == <<c, k, why>> \in lost

\* Whatever changes a key - a write, a transaction that also reads it, expiry,
\* eviction, FLUSHDB - every client that has, or is about to have, a stale copy
\* is told after it got that copy, in every mode, with any redirection, and also
\* when the table is full.  (lost: a NOLOOP client is not told
\* of an eviction it caused itself, see NoLoopToldOfOthers; SWAPDB tells nobody.)
Coherent ==
  \A c \in Clients, k \in Keys :
    Received(c, k) = "stale" =>
      Announced(c, k) \/ Lost(c, k, "noloop") \/ Lost(c, k, "swapdb")

\* server.c:1903: beforeSleep() asserts that nothing is pending; a message left
\* there would go to whichever client is current next.
NothingPending ==
  current = NoClient => pending = {} /\ deferred = {}

\* A key that is not in the table is in no client's cache, so the table may forget
\* a key only with a message: with the table full, too.
Remembered ==
  \A c \in tracking, k \in Keys :
    Received(c, k) = "fresh" /\ ~opts[c].bcast =>
      c \in table[k] \/ Announced(c, k) \/ Lost(c, k, "noloop")

\* tracking.c:401: a NOLOOP client gets no "notifications about keys changed by
\* the client itself"; it is told of all other changes.
NoLoopToldOfOthers ==
  \A c \in Clients, k \in Keys :
    Received(c, k) = "stale" => Announced(c, k) \/ Lost(c, k, "swapdb")
=============================================================================
