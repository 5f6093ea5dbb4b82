---------------------------- MODULE WatchedKeys ----------------------------
(****************************************************************************)
(* Transactions (src/src/multi.c): MULTI, EXEC, DISCARD, and the optimistic *)
(* locking of WATCH, with the key space events of db.c that invalidate it:  *)
(* writes, deletions, expiry, eviction, FLUSHDB and SWAPDB.                 *)
(*                                                                          *)
(* A key is absent, live, or dead: past its expire time and not yet         *)
(* reclaimed.  What a live key holds does not matter to WATCH.              *)
(*                                                                          *)
(* An operator takes the server S and returns it changed, as the C          *)
(* functions do with the global one.  EXEC runs one queued command a step.  *)
(****************************************************************************)
EXTENDS Naturals, Sequences, TLC

CONSTANTS
  Clients, Keys, Dbs,
  DefaultDb,   \* the database of a new connection
  Commands,    \* the commands clients send
  NoClient, NoDb,
  MaxQueue     \* bound: commands queued by one client

Entries == Dbs \X Keys

CommandType ==
  [op: {"set", "del", "get"}, key: Keys]
    \cup [op: {"flushdb", "unwatch"}]
    \cup [op: {"select"}, db: Dbs]
    \cup [op: {"swapdb"}, db: Dbs, with: Dbs]

ASSUME WatchAssumption ==
  /\ DefaultDb \in Dbs
  /\ NoDb \notin Dbs /\ NoClient \notin Clients
  /\ Commands \subseteq CommandType
  /\ MaxQueue \in Nat

VARIABLES
  kv,        \* db->keys: the state of every key of every database
  watchers,  \* db->watched_keys: the clients watching a key,
  before,    \*   and the order of that list: b stands before c
  cl,        \* the fields of a client that transactions use
  inExec,    \* the client whose EXEC is running its queue, or NoClient
  changed,   \* history: clients with a watched key changed since WATCH
  missed     \* history: clients touchWatchedKey() did not get to

vars == <<kv, watchers, before, cl, inExec, changed, missed>>

NewClient ==
  [db      |-> DefaultDb, \* c->db
   multi   |-> FALSE,     \* flag.multi
   cas     |-> FALSE,     \* flag.dirty_cas
   exec    |-> FALSE,     \* flag.dirty_exec
   queue   |-> <<>>,      \* mstate->commands
   watched |-> {},        \* mstate->watched_keys
   stale   |-> {}]        \* those with wk->expired set

Init ==
  /\ kv = [e \in Entries |-> "absent"]
  /\ watchers = [e \in Entries |-> {}]
  /\ before = [e \in Entries |-> {}]
  /\ cl = [c \in Clients |-> NewClient]
  /\ inExec = NoClient
  /\ changed = {}
  /\ missed = {}

Server == [kv |-> kv, watchers |-> watchers, before |-> before, cl |-> cl,
           changed |-> changed, missed |-> missed]
Becomes(S) ==
  /\ kv' = S.kv /\ watchers' = S.watchers /\ before' = S.before /\ cl' = S.cl
  /\ changed' = S.changed /\ missed' = S.missed

-----------------------------------------------------------------------------
(* Watching, and noticing changes.                                         *)

\* watchForKey(): link the client to the end of the key's list.
WatchForKey(S, c, e) ==
  IF e \in S.cl[c].watched THEN S
  ELSE [S EXCEPT !.before[e] = @ \cup (S.watchers[e] \X {c}),
                 !.watchers[e] = @ \cup {c},
                 !.cl[c].watched = @ \cup {e},
                 !.cl[c].stale = IF S.kv[e] = "dead" THEN @ \cup {e} ELSE @]

\* Mutant of UnwatchAllKeys: the client stays in the lists of the keys.
MutantUnwatchAllKeys(S, C) ==
  [S EXCEPT !.cl = [c \in Clients |->
                     IF c \in C THEN [S.cl[c] EXCEPT !.watched = {}, !.stale = {}]
                     ELSE S.cl[c]]]

\* unwatchAllKeys() of every client of C.
UnwatchAllKeys(S, C) ==
  [S EXCEPT !.watchers = [e \in Entries |-> S.watchers[e] \ C],
            !.before = [e \in Entries |-> {p \in S.before[e] : p[1] \notin C /\ p[2] \notin C}],
            !.cl = [c \in Clients |->
                     IF c \in C THEN [S.cl[c] EXCEPT !.watched = {}, !.stale = {}]
                     ELSE S.cl[c]]]

\* The clients of C get flag.dirty_cas; what they queued is dropped.
Dirty(S, C) ==
  [S EXCEPT !.cl = [c \in Clients |->
                     IF c \in C THEN [S.cl[c] EXCEPT !.cas = TRUE, !.queue = <<>>]
                     ELSE S.cl[c]]]

\* Mutant of Touch: an expired key that is reclaimed counts as a change.
MutantTouch(S, e) ==
  UnwatchAllKeys(Dirty(S, S.watchers[e]), S.watchers[e])

\* touchWatchedKey(): the walk ends at a client that watched the key when it
\* was dead, unless the key is gone.
Touch(S, e) ==
  LET flagged == {c \in S.watchers[e] : e \in S.cl[c].stale}
      stop    == IF S.kv[e] = "absent" THEN {} ELSE flagged
      reached == {c \in S.watchers[e] :
                    \A b \in stop : b # c /\ <<b, c>> \notin S.before[e]}
      hit     == reached \ flagged
      S1      == [S EXCEPT
                    !.cl = [c \in Clients |->
                             [S.cl[c] EXCEPT !.stale = IF c \in reached THEN @ \ {e} ELSE @]],
                    !.missed = @ \cup {c \in S.watchers[e] \ reached : ~S.cl[c].cas}]
  IN UnwatchAllKeys(Dirty(S1, hit), hit)

\* touchAllWatchedKeysInDb(d, r): the keys of d go, those of r (or none) come.
\* The clients keep watching.
TouchAll(S, d, r) ==
  LET Here(k)  == S.kv[<<d, k>>]
      There(k) == IF r = NoDb THEN "absent" ELSE S.kv[<<r, k>>]
      Watches(c, k) == /\ c \in S.watchers[<<d, k>>]
                       /\ Here(k) # "absent" \/ There(k) # "absent"
      Flagged(c, k) == <<d, k>> \in S.cl[c].stale
      Unset(c) == {e \in {d} \X Keys :
                     Watches(c, e[2]) /\ Flagged(c, e[2]) /\ There(e[2]) = "absent"}
      Set(c)   == {e \in {d} \X Keys :
                     /\ Watches(c, e[2]) /\ ~Flagged(c, e[2])
                     /\ Here(e[2]) = "absent" /\ There(e[2]) = "dead"}
      hit == {c \in Clients : \E k \in Keys :
                /\ Watches(c, k)
                /\ IF Flagged(c, k) THEN There(k) = "live"
                   ELSE Here(k) # "absent" \/ There(k) # "dead"}
  IN Dirty([S EXCEPT !.cl = [c \in Clients |->
                 [S.cl[c] EXCEPT !.stale = (@ \ Unset(c)) \cup Set(c)]]], hit)

\* History: the watchers of the entries E see a change.
Changed(S, E) ==
  [S EXCEPT !.changed = @ \cup {c \in Clients : S.cl[c].watched \cap E # {}}]

-----------------------------------------------------------------------------
(* Key space events, each with its signalModifiedKey() or signalFlushedDb().*)

\* A live key goes: DEL, or eviction.
Delete(S, e) == Touch([Changed(S, {e}) EXCEPT !.kv[e] = "absent"], e)

\* expireIfNeeded(): a dead key is deleted on access.
Reclaim(S, e) ==
  IF S.kv[e] = "dead" THEN Touch([S EXCEPT !.kv[e] = "absent"], e) ELSE S

\* A write command: lookupKeyWrite(), setKey(), signalModifiedKey().
Write(S, e) == Touch([Changed(Reclaim(S, e), {e}) EXCEPT !.kv[e] = "live"], e)

DelKey(S, e) == IF S.kv[e] = "live" THEN Delete(S, e) ELSE Reclaim(S, e)

\* emptyData() of one database: the watchers are touched while the keys are there.
FlushDb(S, d) ==
  [TouchAll(Changed(S, {e \in Entries : e[1] = d /\ S.kv[e] = "live"}), d, NoDb)
     EXCEPT !.kv = [e \in Entries |-> IF e[1] = d THEN "absent" ELSE S.kv[e]]]

\* dbSwapDatabases(): the key spaces change places, the watchers stay.
SwapDatabases(S, d1, d2) ==
  LET Partner(d) == IF d = d1 THEN d2 ELSE IF d = d2 THEN d1 ELSE d
      swapped == [e \in Entries |-> S.kv[<<Partner(e[1]), e[2]>>]]
      moved == {e \in Entries : /\ e[1] \in {d1, d2}
                                /\ S.kv[e] = "live" \/ swapped[e] = "live"}
  IN IF d1 = d2 THEN S
     ELSE [TouchAll(TouchAll(Changed(S, moved), d1, d2), d2, d1) EXCEPT !.kv = swapped]

\* The client's watches end: UNWATCH, and the end of a transaction.
Unwatch(S, c) ==
  [UnwatchAllKeys(S, {c}) EXCEPT !.cl[c].cas = FALSE,
                                 !.changed = @ \ {c}, !.missed = @ \ {c}]

\* discardTransaction()
DiscardTransaction(S, c) ==
  [Unwatch(S, c) EXCEPT !.cl[c].multi = FALSE, !.cl[c].exec = FALSE, !.cl[c].queue = <<>>]

\* call() of one command of the client c.
Call(S, c, cmd) ==
  LET d == S.cl[c].db IN
  CASE cmd.op = "set"     -> Write(S, <<d, cmd.key>>)
    [] cmd.op = "del"     -> DelKey(S, <<d, cmd.key>>)
    [] cmd.op = "get"     -> Reclaim(S, <<d, cmd.key>>)
    [] cmd.op = "flushdb" -> FlushDb(S, d)
    [] cmd.op = "swapdb"  -> SwapDatabases(S, cmd.db, cmd.with)
    [] cmd.op = "select"  -> [S EXCEPT !.cl[c].db = cmd.db]
    [] cmd.op = "unwatch" -> Unwatch(S, c)

-----------------------------------------------------------------------------
(* Actions.                                                                *)

Idle == inExec = NoClient /\ UNCHANGED inExec

\* A command outside MULTI.
Execute(c, cmd) ==
  /\ Idle
  /\ ~cl[c].multi
  /\ Becomes(Call(Server, c, cmd))

\* WATCH: nothing to watch for when the client is dirty already.
Watch(c, k) ==
  /\ Idle
  /\ ~cl[c].multi /\ ~cl[c].cas
  /\ Becomes(WatchForKey(Server, c, <<cl[c].db, k>>))

Multi(c) ==
  /\ Idle
  /\ ~cl[c].multi
  /\ Becomes([Server EXCEPT !.cl[c].multi = TRUE])

\* queueMultiCommand(): an aborted transaction queues nothing.
QueueMultiCommand(c, cmd) ==
  /\ Idle
  /\ cl[c].multi /\ ~cl[c].cas /\ ~cl[c].exec
  /\ Len(cl[c].queue) < MaxQueue
  /\ Becomes([Server EXCEPT !.cl[c].queue = Append(@, cmd)])

\* Mutant of Reject: a nested MULTI is queued like any other command.
MutantReject(c) ==
  /\ Idle
  /\ cl[c].multi
  /\ Becomes([Server EXCEPT !.cl[c].queue = Append(@, [op |-> "multi"])])

\* rejectCommand(), flagTransaction(): a bad command, or WATCH or MULTI, in MULTI.
Reject(c) ==
  /\ Idle
  /\ cl[c].multi
  /\ Becomes([Server EXCEPT !.cl[c].exec = TRUE, !.cl[c].queue = <<>>])

\* DISCARD, and an EXEC that is itself rejected (execCommandAbort()).
Discard(c) ==
  /\ Idle
  /\ cl[c].multi
  /\ Becomes(DiscardTransaction(Server, c))

\* Mutant of WatchedKeyExpired: only the flags count.
MutantWatchedKeyExpired(c) == FALSE

\* isWatchedKeyExpired(): a key lapsed since it was watched.
WatchedKeyExpired(c) ==
  \E e \in cl[c].watched \ cl[c].stale : kv[e] = "dead"

\* Mutant of Exec: the keys are unwatched after the commands have run.
MutantExec(c) ==
  /\ inExec = NoClient
  /\ cl[c].multi
  /\ IF WatchedKeyExpired(c) \/ cl[c].cas \/ cl[c].exec
     THEN Becomes(DiscardTransaction(Server, c)) /\ UNCHANGED inExec
     ELSE Becomes(Server) /\ inExec' = c

\* execCommand(), up to its loop.
Exec(c) ==
  /\ inExec = NoClient
  /\ cl[c].multi
  /\ IF WatchedKeyExpired(c) \/ cl[c].cas \/ cl[c].exec
     THEN Becomes(DiscardTransaction(Server, c)) /\ UNCHANGED inExec
     ELSE Becomes(UnwatchAllKeys(Server, {c})) /\ inExec' = c

\* The loop of execCommand(); time stands still for it.
ExecCommand(c) ==
  /\ inExec = c /\ cl[c].queue # <<>>
  /\ Becomes(Call([Server EXCEPT !.cl[c].queue = Tail(@)], c, Head(cl[c].queue)))
  /\ UNCHANGED inExec

ExecDone(c) ==
  /\ inExec = c /\ cl[c].queue = <<>>
  /\ Becomes(DiscardTransaction(Server, c))
  /\ inExec' = NoClient

\* RESET; or the connection closes (freeClientMultiState()) and another opens.
Reset(c) ==
  /\ Idle
  /\ Becomes([DiscardTransaction(Server, c) EXCEPT !.cl[c].db = DefaultDb])

\* A key's expire time passes.
Lapse(e) ==
  /\ Idle
  /\ kv[e] = "live"
  /\ Becomes([Changed(Server, {e}) EXCEPT !.kv[e] = "dead"])

\* activeExpireCycle()
ActiveExpire(e) ==
  /\ Idle
  /\ kv[e] = "dead"
  /\ Becomes(Reclaim(Server, e))

\* performEvictions(): any key, expired or not.
Evict(e) ==
  /\ Idle
  /\ kv[e] # "absent"
  /\ Becomes(DelKey(Server, e))

Next ==
  \/ \E c \in Clients :
       \/ \E cmd \in Commands : Execute(c, cmd) \/ QueueMultiCommand(c, cmd)
       \/ \E k \in Keys : Watch(c, k)
       \/ Multi(c)
       \/ Reject(c)
       \/ Discard(c)
       \/ Exec(c)
       \/ ExecCommand(c)
       \/ ExecDone(c)
       \/ Reset(c)
  \/ \E e \in Entries : Lapse(e) \/ ActiveExpire(e) \/ Evict(e)

Spec == Init /\ [][Next]_vars

-----------------------------------------------------------------------------
(* Properties.                                                             *)

ClientType ==
  [db: Dbs, multi: BOOLEAN, cas: BOOLEAN, exec: BOOLEAN, queue: Seq(Commands),
   watched: SUBSET Entries, stale: SUBSET Entries]

\* Type invariant; nothing but the commands of Commands is ever queued.
TypeOK ==
  /\ kv \in [Entries -> {"absent", "live", "dead"}]
  /\ watchers \in [Entries -> SUBSET Clients]
  /\ before \in [Entries -> SUBSET (Clients \X Clients)]
  /\ cl \in [Clients -> ClientType]
  /\ inExec \in Clients \cup {NoClient}
  /\ changed \subseteq Clients
  /\ missed \subseteq Clients

\* The two tables of watched keys agree: a client is in the list of a key if
\* and only if the key is in the client's own (the lists of watchedKey are
\* linked and unlinked by hand, also while touchWatchedKey() walks one).
TablesAgree ==
  /\ \A c \in Clients, e \in Entries : c \in watchers[e] <=> e \in cl[c].watched
  /\ \A c \in Clients : cl[c].stale \subseteq cl[c].watched
  /\ \A e \in Entries : before[e] \subseteq watchers[e] \X watchers[e]

\* EXEC is optimistic locking: a transaction runs only if none of the keys its
\* client watches was written, deleted, replaced by SWAPDB or FLUSHDB, or
\* lapsed since WATCH, whichever way round expiry, reclaiming and the flags of
\* execCommand() came.  (missed: see TouchFailsExec.)
CommitsUnchanged ==
  inExec # NoClient => inExec \notin changed \ missed

\* ... and no transaction is aborted for nothing: flag.dirty_cas is set only if
\* a watched key did change.  Deleting a key that was already expired when
\* it was watched is no change, nor is swapping an expired key for another.
NoSpuriousAbort == \A c \in Clients : cl[c].cas => c \in changed

\* The commands of a running EXEC cannot dirty their own transaction, which
\* would free the queue (resetClientMultiState()) that execCommand() walks.
ExecIntact ==
  inExec # NoClient =>
    /\ cl[inExec].watched = {}
    /\ cl[inExec].multi /\ ~cl[inExec].cas /\ ~cl[inExec].exec

\* multi.c:459, of touchWatchedKey(): touching a key is what makes "the next
\* EXEC will fail" of a client that watches it.
TouchFailsExec == inExec # NoClient => inExec \notin changed
=============================================================================
