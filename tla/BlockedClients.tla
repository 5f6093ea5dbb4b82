--------------------------- MODULE BlockedClients ---------------------------
(****************************************************************************)
(* Blocking commands (src/src/blocked.c, timeout.c, and the commands of     *)
(* t_list.c and t_stream.c that block): clients wait for keys, are woken by *)
(* a key, a timeout, CLIENT UNBLOCK or the end of a pause, and their        *)
(* command runs again.                                                      *)
(*                                                                          *)
(* A list is its length.  A stream is its length, whether its consumer      *)
(* group exists and how many of its entries come after the group's last ID. *)
(* BLPOP stands for every blocking pop, of lists and of sorted sets.        *)
(*                                                                          *)
(* The handlers change several tables one after the other: an operator      *)
(* takes the server S (db, the clients, the tables) and returns it changed, *)
(* as the C functions do with the global one.  The loops of the event loop, *)
(* which run other code between their steps, are actions.                   *)
(****************************************************************************)
EXTENDS Integers, FiniteSets, SequencesExt

CONSTANTS
  Clients, Keys,
  Commands,     \* the blocking commands clients send
  Piped,        \* those of them sent behind a command still in progress
  NoClient, NoKey,
  StreamKeys,   \* bound: the keys at which streams are made
  MaxLen,       \* bound: list elements and stream entries, of all keys
  MaxWait,      \* bound: ticks of a timeout
  MaxPipeline   \* bound: commands waiting in a query buffer

Forever == -1   \* a timeout of 0: block forever
NoCmd == [op |-> "none", keys |-> <<>>, wait |-> Forever]

\* keys: the keys waited for, in argument order; BLMOVE adds its destination.
CommandType ==
  [op: {"blpop", "xreadgroup"}, keys: Seq(Keys), wait: {Forever} \cup 1..MaxWait]
    \cup [op: {"blmove"}, keys: Seq(Keys), dst: Keys, wait: {Forever} \cup 1..MaxWait]

ASSUME BlockedAssumption ==
  /\ IsFiniteSet(Clients)
  /\ MaxLen \in Nat \ {0} /\ MaxWait \in Nat \ {0} /\ MaxPipeline \in Nat \ {0}
  /\ NoClient \notin Clients /\ NoKey \notin Keys
  /\ Piped \subseteq Commands
  /\ \A cmd \in Commands : cmd \in CommandType /\ cmd.keys # <<>>

VARIABLES
  db,       \* the key space
  clients,  \* the fields of a client that blocking uses
  tables,   \* the tables of the database and of the server
  loop,     \* where the event loop is
  order     \* history: clients with a command in progress, oldest block first

vars == <<db, clients, tables, loop, order>>

\* new: the entries after cg->last_id.  quiet: setKey() put the value over another one,
\* or XGROUP SETID uncovered entries of it (history).
Val(type, n, grp) == [type |-> type, n |-> n, grp |-> grp, new |-> 0, quiet |-> FALSE]
Absent == Val("none", 0, FALSE)
Value ==
  {v \in [type: {"none", "string", "list", "stream"}, n: Nat, grp: BOOLEAN, new: Nat,
          quiet: BOOLEAN] :
     /\ v.type = "none" => v = Absent
     /\ v.type = "list" => v.n > 0
     /\ v.grp => v.type = "stream"
     /\ v.new <= v.n /\ (v.new > 0 => v.grp)}

BlockTypes == {"list", "stream", "postpone"}

NewClient ==
  [blocked   |-> "none",   \* flag.blocked and bstate->btype
   pending   |-> FALSE,    \* flag.pending_command
   unblocked |-> FALSE,    \* flag.unblocked
   inTable   |-> FALSE,    \* flag.in_to_table
   nokey     |-> FALSE,    \* bstate->unblock_on_nokey
   keys      |-> {},       \* bstate->keys
   left      |-> Forever,  \* bstate->timeout, in ticks from now, while it is used
   cmd       |-> NoCmd,    \* c->cmd
   input     |-> <<>>,     \* c->querybuf
   owed      |-> 0]        \* history: commands taken up less replies

Init ==
  /\ db = [k \in Keys |-> Absent]
  /\ clients = [c \in Clients |-> NewClient]
  /\ tables = [blocking  |-> [k \in Keys |-> <<>>], \* db->blocking_keys
               nokey     |-> [k \in Keys |-> 0],    \* db->blocking_keys_unblock_on_nokey
               signalled |-> {},                    \* db->ready_keys
               ready     |-> <<>>,                  \* server.ready_keys
               unblocked |-> <<>>,                  \* server.unblocked_clients
               postponed |-> <<>>,                  \* server.postponed_clients
               timeouts  |-> {},                    \* server.clients_timeout_table
               byType    |-> [b \in BlockTypes |-> 0], \* blocked_clients_by_type
               paused    |-> FALSE]                 \* server.paused_actions
  /\ loop = [phase |-> "idle", cur |-> NoClient, handling |-> FALSE,
             batch |-> <<>>, key |-> NoKey, todo |-> <<>>]
  /\ order = <<>>

Server == [db |-> db, cl |-> clients, t |-> tables, order |-> order]

\* R is S, as a value: TLC works it out once.
Becomes(S) ==
  \E R \in {S} : db' = R.db /\ clients' = R.cl /\ tables' = R.t /\ order' = R.order

-----------------------------------------------------------------------------
(* Signalling keys.                                                        *)

\* signalKeyAsReadyLogic(): queue the key, once, if a client waits for it.
Signal(S, k, type, deleted) ==
  IF \/ type \notin {"list", "stream"}
     \/ S.t.byType[type] = 0
     \/ (IF deleted THEN S.t.nokey[k] = 0 ELSE S.t.blocking[k] = <<>>)
     \/ k \in S.t.signalled
  THEN S
  ELSE [S EXCEPT !.t = [S.t EXCEPT !.ready = Append(@, k), !.signalled = @ \cup {k}]]

DbAdd(S, k, v) == Signal([S EXCEPT !.db[k] = v], k, v.type, FALSE)

\* Mutant of DbDelete: the deletion is not signalled.
MutantDbDelete(S, k) == [S EXCEPT !.db[k] = Absent]

DbDelete(S, k) == [Signal(S, k, S.db[k].type, TRUE) EXCEPT !.db[k] = Absent]

\* setKey(): an existing key is overwritten, which signals the old value's end only.
SetKey(S, k, v) ==
  IF S.db[k] = Absent THEN DbAdd(S, k, v)
  ELSE [Signal(S, k, S.db[k].type, TRUE) EXCEPT !.db[k] = [v EXCEPT !.quiet = TRUE]]

Exists(S, k) == S.db[k].type # "none"

\* A pop of one element; an empty list is deleted.
Pop(S, k) ==
  IF S.db[k].n = 1 THEN DbDelete(S, k) ELSE [S EXCEPT !.db[k].n = @ - 1]

\* A push of one element; a missing list is created.
Push(S, k) ==
  IF Exists(S, k) THEN [S EXCEPT !.db[k].n = @ + 1] ELSE DbAdd(S, k, Val("list", 1, FALSE))

-----------------------------------------------------------------------------
(* Blocking and unblocking one client.                                     *)

\* blockClient(), addClientToTimeoutTable().
BlockClient(S, c, btype) ==
  LET r     == S.cl[c]
      entry == <<c, r.left>>
      new   == r.left # Forever /\ entry \notin S.t.timeouts
  IN [S EXCEPT !.cl[c] = [r EXCEPT !.blocked = btype, !.inTable = @ \/ new],
               !.t = [S.t EXCEPT !.byType[btype] = @ + 1,
                                 !.timeouts = IF new THEN @ \cup {entry} ELSE @]]

\* Mutant of BlockForKeys: a command that runs again loses its deadline.
MutantBlockForKeys(S, c, btype, ks, nokey, again) ==
  LET r  == [S.cl[c] EXCEPT !.left = IF again THEN Forever ELSE S.cl[c].cmd.wait,
                            !.keys = ks, !.nokey = nokey, !.pending = TRUE]
      t  == [S.t EXCEPT
               !.blocking = [k \in Keys |-> IF k \in ks THEN Append(S.t.blocking[k], c)
                                                       ELSE S.t.blocking[k]],
               !.nokey = [k \in Keys |-> IF k \in ks /\ nokey THEN S.t.nokey[k] + 1
                                                              ELSE S.t.nokey[k]]]
      S1 == [S EXCEPT !.cl[c] = r, !.t = t,
                      !.order = IF again THEN @ ELSE Append(RemoveFirst(@, c), c)]
  IN BlockClient(S1, c, btype)

\* blockForKeys(): a command that runs again keeps its deadline, not its place.
BlockForKeys(S, c, btype, ks, nokey, again) ==
  LET r  == [S.cl[c] EXCEPT !.left = IF again THEN @ ELSE S.cl[c].cmd.wait,
                            !.keys = ks, !.nokey = nokey, !.pending = TRUE]
      t  == [S.t EXCEPT
               !.blocking = [k \in Keys |-> IF k \in ks THEN Append(S.t.blocking[k], c)
                                                       ELSE S.t.blocking[k]],
               !.nokey = [k \in Keys |-> IF k \in ks /\ nokey THEN S.t.nokey[k] + 1
                                                              ELSE S.t.nokey[k]]]
      S1 == [S EXCEPT !.cl[c] = r, !.t = t,
                      !.order = IF again THEN @ ELSE Append(RemoveFirst(@, c), c)]
  IN BlockClient(S1, c, btype)

\* blockPostponeClient(): the command waits for the end of the pause.
BlockPostpone(S, c) ==
  LET S1 == BlockClient([S EXCEPT !.cl[c].left = Forever], c, "postpone")
  IN [S1 EXCEPT !.cl[c] = [S1.cl[c] EXCEPT !.pending = TRUE],
                !.t = [S1.t EXCEPT !.postponed = Append(@, c)]]

\* Mutants of Release: the count of clients to wake on deletion is left alone, or
\* goes down for a client that was not counted.
MutantReleaseUncounted(S, c) ==
  [S EXCEPT !.t.blocking = [k \in Keys |-> IF k \in S.cl[c].keys THEN RemoveFirst(@[k], c) ELSE @[k]],
            !.t.nokey = [k \in Keys |-> IF k \in S.cl[c].keys THEN @[k] - 1 ELSE @[k]],
            !.cl[c].keys = {}]

MutantRelease(S, c) ==
  [S EXCEPT !.t.blocking = [k \in Keys |-> IF k \in S.cl[c].keys THEN RemoveFirst(@[k], c) ELSE @[k]],
            !.cl[c].keys = {}]

\* releaseBlockedEntry() for every key of the client.
Release(S, c) ==
  LET ks   == S.cl[c].keys
      rest == [k \in Keys |-> IF k \in ks THEN RemoveFirst(S.t.blocking[k], c) ELSE S.t.blocking[k]]
      count == [k \in Keys |-> IF k \notin ks THEN S.t.nokey[k]
                               ELSE IF rest[k] = <<>> THEN 0
                               ELSE IF S.cl[c].nokey THEN S.t.nokey[k] - 1 ELSE S.t.nokey[k]]
  IN [S EXCEPT !.cl[c] = [S.cl[c] EXCEPT !.keys = {}],
               !.t = [S.t EXCEPT !.blocking = rest, !.nokey = count]]

\* Mutant of Queue: the client waits for its next input.
MutantQueue(S, c) == S

\* queueClientForReprocessing()
Queue(S, c) ==
  IF S.cl[c].unblocked THEN S
  ELSE [S EXCEPT !.cl[c] = [S.cl[c] EXCEPT !.unblocked = TRUE],
                 !.t = [S.t EXCEPT !.unblocked = Append(@, c)]]

\* resetClient(); the next blockForKeys() sets the timeout before it is read again.
Reset(S, c) == [S EXCEPT !.cl[c] = [S.cl[c] EXCEPT !.cmd = NoCmd, !.left = Forever]]

\* unblockClient()
UnblockClient(S, c, queue) ==
  LET r  == S.cl[c]
      S1 == IF r.blocked = "postpone"
              THEN [S EXCEPT !.t = [S.t EXCEPT !.postponed = RemoveFirst(@, c)]]
              ELSE Release(S, c)
      S2 == [S1 EXCEPT
               !.cl[c] = [S1.cl[c] EXCEPT !.blocked = "none", !.nokey = FALSE, !.inTable = FALSE],
               !.t = [S1.t EXCEPT
                        !.byType[r.blocked] = @ - 1,
                        !.timeouts = IF r.inTable THEN @ \ {<<c, r.left>>} ELSE @]]
      S3 == IF r.pending THEN S2 ELSE Reset(S2, c)
  IN IF queue THEN Queue(S3, c) ELSE S3

Reply(S, c) ==
  [S EXCEPT !.cl[c] = [S.cl[c] EXCEPT !.owed = @ - 1], !.order = RemoveFirst(@, c)]

\* Mutant of UnblockWithReply: the command stays pending behind its own reply.
MutantUnblockWithReply(S, c) == UnblockClient(Reply(S, c), c, TRUE)

\* unblockClientOnTimeout(), unblockClientOnError(): answered without running again.
UnblockWithReply(S, c) ==
  UnblockClient([Reply(S, c) EXCEPT !.cl[c].pending = FALSE], c, TRUE)

-----------------------------------------------------------------------------
(* The blocking commands; each replies or blocks the client.               *)

\* blockingPopGenericCommand(): the first key that exists decides.
Blpop(S, c, again) ==
  LET ks    == S.cl[c].cmd.keys
      found == {i \in DOMAIN ks : Exists(S, ks[i])}
      k     == ks[CHOOSE i \in found : \A j \in found : i <= j]
  IN IF found = {} THEN BlockForKeys(S, c, "list", Range(ks), FALSE, again)
     ELSE IF S.db[k].type # "list" THEN Reply(S, c)
     ELSE Reply(Pop(S, k), c)

\* blmoveGenericCommand(), lmoveGenericCommand(): the push comes first.
Blmove(S, c, again) ==
  LET src == S.cl[c].cmd.keys[1]
      dst == S.cl[c].cmd.dst
  IN IF ~Exists(S, src) THEN BlockForKeys(S, c, "list", {src}, FALSE, again)
     ELSE IF S.db[src].type # "list" \/ S.db[dst].type \notin {"none", "list"} THEN Reply(S, c)
     ELSE IF src = dst THEN Reply(S, c)
     ELSE Reply(Pop(Push(S, dst), src), c)

\* Every entry is delivered: the group's last ID is the stream's.
Delivered(v) == [v EXCEPT !.new = 0, !.quiet = FALSE]

\* xreadCommand() with GROUP and ID ">": every group must exist.
Xreadgroup(S, c, again) ==
  LET ks == Range(S.cl[c].cmd.keys)
  IN IF \E k \in ks : ~S.db[k].grp THEN Reply(S, c)
     ELSE IF \A k \in ks : S.db[k].new = 0 THEN BlockForKeys(S, c, "stream", ks, TRUE, again)
     ELSE Reply([S EXCEPT !.db = [k \in Keys |-> IF k \in ks THEN Delivered(S.db[k])
                                                 ELSE S.db[k]]], c)

\* processCommandAndResetClient(): a pause postpones the command.
Exec(S, c, again) ==
  IF S.t.paused THEN BlockPostpone(S, c)
  ELSE LET op == S.cl[c].cmd.op
           S1 == CASE op = "blpop"      -> Blpop(S, c, again)
                   [] op = "blmove"     -> Blmove(S, c, again)
                   [] op = "xreadgroup" -> Xreadgroup(S, c, again)
       IN IF S1.cl[c].blocked # "none" THEN S1 ELSE Reset(S1, c)

\* unblockClientOnKey(): the client's command runs again at once.
UnblockOnKey(S, c) ==
  LET S1 == UnblockClient(S, c, FALSE)
      S2 == Exec([S1 EXCEPT !.cl[c].pending = FALSE], c, TRUE)
  IN IF S2.cl[c].blocked = "none" THEN Queue(S2, c) ELSE S2

-----------------------------------------------------------------------------
(* handleClientsBlockedOnKeys(): while it runs, nothing else does.          *)

\* Run it, unless there is nothing to do or it is running.
StartHandling(l, S) == [l EXCEPT !.handling = S.t.ready # <<>>]

\* Take the ready list; keys signalled from now on go into a fresh one.
HandleBatch ==
  /\ loop.handling /\ loop.batch = <<>> /\ tables.ready # <<>>
  /\ loop' = [loop EXCEPT !.batch = tables.ready]
  /\ tables' = [tables EXCEPT !.ready = <<>>]
  /\ UNCHANGED <<db, clients, order>>

\* handleClientsBlockedOnKey(): serve as many clients as wait now.
HandleKey ==
  /\ loop.handling /\ loop.batch # <<>> /\ loop.key = NoKey
  /\ LET k == Head(loop.batch)
     IN /\ tables' = [tables EXCEPT !.signalled = @ \ {k}]
        /\ loop' = [loop EXCEPT !.key = k, !.todo = tables.blocking[k]]
  /\ UNCHANGED <<db, clients, order>>

\* Mutant of Wakes: a signalled key wakes its clients even if it is gone again.
MutantWakes(c, k) == TRUE

Wakes(c, k) == db[k].type = clients[c].blocked \/ clients[c].nokey

HandleClient ==
  /\ loop.key # NoKey /\ loop.todo # <<>>
  /\ LET c == Head(loop.todo)
     IN Becomes(IF Wakes(c, loop.key) THEN UnblockOnKey(Server, c) ELSE Server)
  /\ loop' = [loop EXCEPT !.todo = Tail(@)]

HandleKeyDone ==
  /\ loop.key # NoKey /\ loop.todo = <<>>
  /\ loop' = [loop EXCEPT !.key = NoKey, !.batch = Tail(@)]
  /\ UNCHANGED <<db, clients, tables, order>>

HandleDone ==
  /\ loop.handling /\ loop.batch = <<>> /\ tables.ready = <<>>
  /\ loop' = [loop EXCEPT !.handling = FALSE]
  /\ UNCHANGED <<db, clients, tables, order>>

-----------------------------------------------------------------------------
(* Input of the clients that block.                                        *)

\* A pause has ended and unblockPostponedClients() is at work.
Resuming == ~tables.paused /\ tables.postponed # <<>>

At(phase) == loop.phase = phase /\ ~loop.handling /\ ~Resuming

\* canParseCommand()
CanParse(c) ==
  LET r == clients[c]
  IN r.cmd = NoCmd /\ r.blocked = "none" /\ ~r.unblocked /\ ~r.pending

\* readQueryFromClient(): a blocked client's input is still read.
Arrive(c, cmd) ==
  /\ At("idle")
  /\ Len(clients[c].input) < MaxPipeline
  /\ CanParse(c) \/ cmd \in Piped
  /\ clients' = [clients EXCEPT ![c].input = Append(@, cmd)]
  /\ loop' = [loop EXCEPT !.phase = "input", !.cur = c]
  /\ UNCHANGED <<db, tables, order>>

\* processInputBuffer(), one command; afterwards the keys it made ready are served.
ProcessInput ==
  LET c == loop.cur
  IN /\ At("input") \/ At("unblocked")
     /\ c # NoClient
     /\ clients[c].input # <<>> /\ CanParse(c)
     /\ LET r == [clients[c] EXCEPT !.cmd = Head(clients[c].input), !.input = Tail(@),
                                    !.owed = @ + 1]
            S == Exec([Server EXCEPT !.cl[c] = r], c, FALSE)
        IN Becomes(S) /\ loop' = StartHandling(loop, S)

InputDone ==
  LET c == loop.cur
  IN /\ At("input") \/ At("unblocked")
     /\ c # NoClient
     /\ clients[c].input = <<>> \/ ~CanParse(c)
     /\ loop' = [loop EXCEPT !.cur = NoClient, !.phase = IF @ = "input" THEN "idle" ELSE @]
     /\ UNCHANGED <<db, clients, tables, order>>

\* freeClient() when the connection is lost.
FreeClient(c) ==
  /\ At("idle")
  /\ clients[c] # NewClient
  /\ LET S == IF clients[c].blocked = "none" THEN Server ELSE UnblockClient(Server, c, TRUE)
     IN Becomes([S EXCEPT !.cl[c] = NewClient,
                          !.t = [S.t EXCEPT !.unblocked = RemoveFirst(@, c)],
                          !.order = RemoveFirst(@, c)])
  /\ UNCHANGED loop

-----------------------------------------------------------------------------
(* blockedBeforeSleep().                                                   *)

BeforeSleep ==
  /\ At("idle")
  /\ loop' = [loop EXCEPT !.phase = "timeouts"]
  /\ UNCHANGED <<db, clients, tables, order>>

\* handleBlockedClientsTimeout(), one entry whose time has passed.
Timeout(c) ==
  /\ At("timeouts")
  /\ <<c, 0>> \in tables.timeouts
  /\ LET S1 == [Server EXCEPT !.cl[c].inTable = FALSE]
         S2 == IF clients[c].blocked # "none" /\ clients[c].left = 0
                 THEN UnblockWithReply(S1, c) ELSE S1
     IN Becomes([S2 EXCEPT !.t.timeouts = @ \ {<<c, 0>>}])
  /\ UNCHANGED loop

TimeoutsDone ==
  /\ At("timeouts")
  /\ \A c \in Clients : <<c, 0>> \notin tables.timeouts
  /\ loop' = StartHandling([loop EXCEPT !.phase = "unblocked"], Server)
  /\ UNCHANGED <<db, clients, tables, order>>

\* processUnblockedClients(): run a postponed command, then the input behind it.
NextUnblocked ==
  /\ At("unblocked") /\ loop.cur = NoClient /\ tables.unblocked # <<>>
  /\ LET c  == Head(tables.unblocked)
         S1 == [Server EXCEPT !.cl[c] = [clients[c] EXCEPT !.unblocked = FALSE],
                              !.t = [tables EXCEPT !.unblocked = Tail(@)]]
         S2 == IF clients[c].blocked = "none" /\ clients[c].pending
                 THEN Exec([S1 EXCEPT !.cl[c].pending = FALSE], c, FALSE) ELSE S1
     IN /\ Becomes(S2)
        /\ loop' = StartHandling([loop EXCEPT !.cur = c], S2)

UnblockedDone ==
  /\ At("unblocked") /\ loop.cur = NoClient /\ tables.unblocked = <<>>
  /\ loop' = [loop EXCEPT !.phase = "idle"]
  /\ UNCHANGED <<db, clients, tables, order>>

\* Time passes; a deadline in the past stays there.
Pass(n) == IF n > 0 THEN n - 1 ELSE n
Tick ==
  /\ At("idle")
  /\ \E c \in Clients : clients[c].left > 0
  /\ clients' = [c \in Clients |-> [clients[c] EXCEPT !.left = Pass(@)]]
  /\ tables' = [tables EXCEPT !.timeouts = {<<e[1], Pass(e[2])>> : e \in @}]
  /\ UNCHANGED <<db, loop, order>>

-----------------------------------------------------------------------------
(* Other clients' commands.  A unit is a command, a transaction or a script: *)
(* blocked clients are served after it, not between its commands.          *)

UnitPhase == IF loop.phase # "idle" THEN loop.phase
             ELSE IF tables.paused THEN "unit-ro" ELSE "unit"

InUnit(S) ==
  /\ ~loop.handling /\ ~Resuming /\ loop.phase \in {"idle", "unit", "unit-ro"}
  /\ loop' = [loop EXCEPT !.phase = UnitPhase]
  /\ Becomes(S)

Write(S) ==
  /\ UnitPhase = "unit"
  /\ MapThenSumSet(LAMBDA k : S.db[k].n, Keys) <= MaxLen
  /\ InUnit(S)

Lpush(k) ==
  /\ db[k].type \in {"none", "list"}
  /\ Write(Push(Server, k))

Del(k) == Exists(Server, k) /\ Write(DbDelete(Server, k))

Set(k) == db[k].type # "string" /\ Write(SetKey(Server, k, Val("string", 0, FALSE)))

\* SORT ... STORE, ZRANGESTORE: a value that clients block for, through setKey().
Store(k) == Write(SetKey(Server, k, Val("list", 1, FALSE)))

\* An entry more, after every group's last ID.
Appended(v) == [v EXCEPT !.n = @ + 1, !.new = IF v.grp THEN @ + 1 ELSE @, !.quiet = FALSE]

Xadd(k) ==
  /\ k \in StreamKeys /\ db[k].type \in {"none", "stream"}
  /\ LET S == IF Exists(Server, k) THEN [Server EXCEPT !.db[k] = Appended(db[k])]
              ELSE DbAdd(Server, k, Val("stream", 1, FALSE))
     IN Write(Signal(S, k, "stream", FALSE))

\* XGROUP CREATE ... MKSTREAM: any ID may be the group's last.
XgroupCreate(k) ==
  /\ k \in StreamKeys /\ db[k].type \in {"none", "stream"} /\ ~db[k].grp
  /\ \E u \in 0..db[k].n :
       Write(IF Exists(Server, k) THEN [Server EXCEPT !.db[k] = [db[k] EXCEPT !.grp = TRUE, !.new = u]]
             ELSE DbAdd(Server, k, Val("stream", 0, TRUE)))

\* XGROUP SETID: the last ID goes back or forth, and nobody is told.
XgroupSetid(k) ==
  /\ db[k].grp
  /\ \E u \in 0..db[k].n :
       Write([Server EXCEPT !.db[k] = [db[k] EXCEPT !.new = u, !.quiet = u > 0]])

XgroupDestroy(k) ==
  /\ db[k].grp
  /\ Write(Signal([Server EXCEPT !.db[k] = [Delivered(db[k]) EXCEPT !.grp = FALSE]],
                  k, "stream", FALSE))

\* CLIENT UNBLOCK, of a client whose block may time out.
ClientUnblock(c) ==
  /\ clients[c].blocked \in {"list", "stream"}
  /\ InUnit(UnblockWithReply(Server, c))

ClientPause == ~tables.paused /\ InUnit([Server EXCEPT !.t.paused = TRUE])

\* updatePausedActions()
ClientUnpause == tables.paused /\ InUnit([Server EXCEPT !.t.paused = FALSE])

\* unblockPostponedClients(), one client, which keeps its command.
UnblockPostponed ==
  /\ Resuming
  /\ Becomes(UnblockClient(Server, Head(tables.postponed), TRUE))
  /\ UNCHANGED loop

UnitEnd ==
  /\ At("unit") \/ At("unit-ro")
  /\ loop' = StartHandling([loop EXCEPT !.phase = "idle"], Server)
  /\ UNCHANGED <<db, clients, tables, order>>

\* The active expire cycle deletes a key outside any command.
Expire(k) ==
  /\ At("idle") /\ Exists(Server, k) /\ ~tables.paused
  /\ Becomes(DbDelete(Server, k))
  /\ UNCHANGED loop

-----------------------------------------------------------------------------

Handle == HandleBatch \/ HandleKey \/ HandleClient \/ HandleKeyDone \/ HandleDone
Run == ProcessInput \/ InputDone \/ (\E c \in Clients : Timeout(c)) \/ TimeoutsDone
         \/ NextUnblocked \/ UnblockedDone \/ UnitEnd \/ UnblockPostponed

Next ==
  \/ Handle \/ Run \/ BeforeSleep \/ Tick \/ ClientPause \/ ClientUnpause
  \/ \E c \in Clients : FreeClient(c) \/ ClientUnblock(c) \/ \E cmd \in Commands : Arrive(c, cmd)
  \/ \E k \in Keys : \/ Lpush(k) \/ Del(k) \/ Set(k) \/ Store(k) \/ Expire(k)
                     \/ Xadd(k) \/ XgroupCreate(k) \/ XgroupSetid(k) \/ XgroupDestroy(k)

Spec == Init /\ [][Next]_vars

\* Code that started goes on; the loop comes round to beforeSleep; time passes.
LiveSpec == Spec /\ WF_vars(Handle \/ Run) /\ SF_vars(BeforeSleep) /\ SF_vars(Tick)

-----------------------------------------------------------------------------

Waiting(c) == clients[c].blocked \in {"list", "stream"}
Before(s, a, b) == \E i, j \in DOMAIN s : i < j /\ s[i] = a /\ s[j] = b

Client ==
  [blocked: BlockTypes \cup {"none"}, pending: BOOLEAN, unblocked: BOOLEAN,
   inTable: BOOLEAN, nokey: BOOLEAN, keys: SUBSET Keys, left: Forever..MaxWait,
   cmd: Commands \cup {NoCmd}, input: Seq(Commands), owed: Int]

Tables ==
  [blocking: [Keys -> Seq(Clients)], nokey: [Keys -> Nat], signalled: SUBSET Keys,
   ready: Seq(Keys), unblocked: Seq(Clients), postponed: Seq(Clients),
   timeouts: SUBSET (Clients \X (0..MaxWait)), byType: [BlockTypes -> Nat],
   paused: BOOLEAN]

Loop ==
  [phase: {"idle", "input", "timeouts", "unblocked", "unit", "unit-ro"},
   cur: Clients \cup {NoClient}, handling: BOOLEAN,
   batch: Seq(Keys), key: Keys \cup {NoKey}, todo: Seq(Clients)]

\* Type invariant; the count of clients to wake when a key is deleted, and the count of
\* clients per type, are decremented once for every increment and never below zero.
TypeOK ==
  /\ db \in [Keys -> Value]
  /\ clients \in [Clients -> Client] /\ \A c \in Clients : Len(clients[c].input) <= MaxPipeline
  /\ tables \in Tables
  /\ loop \in Loop
  /\ order \in Seq(Clients)

\* The tables that record the same fact twice agree: a client's keys and the keys'
\* clients, the count of clients to wake on deletion, the clients per type that let
\* signalKeyAsReady() return early, the timeout table, the keys signalled and the keys
\* queued, the unblocked flag and the queue of unblocked clients, the postponed clients
\* and their list; and no list holds anything twice.
TablesAgree ==
  /\ \A k \in Keys :
       LET waiting == {c \in Clients : k \in clients[c].keys}
       IN /\ Range(tables.blocking[k]) = waiting /\ IsInjective(tables.blocking[k])
          /\ tables.nokey[k] = Cardinality({c \in waiting : clients[c].nokey})
  /\ \A c \in Clients : clients[c].keys # {} <=> Waiting(c)
  /\ \A b \in BlockTypes :
       tables.byType[b] = Cardinality({c \in Clients : clients[c].blocked = b})
  /\ tables.timeouts = {<<c, clients[c].left>> :
                          c \in {d \in Clients : Waiting(d) /\ clients[d].left # Forever}}
  /\ LET queued == tables.ready \o (IF loop.key = NoKey THEN loop.batch ELSE Tail(loop.batch))
     IN Range(queued) = tables.signalled /\ IsInjective(queued)
  /\ Range(tables.unblocked) = {c \in Clients : clients[c].unblocked}
  /\ IsInjective(tables.unblocked)
  /\ Range(tables.postponed) = {c \in Clients : clients[c].blocked = "postpone"}
  /\ IsInjective(tables.postponed)

\* What a waiting client waits for is there: an element, an entry, or the end of its group.
Due(c, k) ==
  IF clients[c].blocked = "list" THEN db[k].type = "list"
  ELSE ~db[k].grp \/ db[k].new > 0

\* No wake-up is lost: a client that waits for a key it could be served from now has
\* that key queued, or is itself still to be visited for it.  Two commands give a client
\* what it waits for and signal nothing, and the property excepts them: a list put over
\* another value by setKey() (src/src/db.c, dbSetValue), and XGROUP SETID to an ID before
\* entries of the stream (src/src/t_stream.c, xgroupCommand).  A reader whose group, or
\* whose stream, is gone is woken whatever took its place.
NoLostWakeup ==
  \A c \in Clients : \A k \in clients[c].keys :
    Due(c, k) => \/ k \in tables.signalled
                 \/ loop.key = k /\ c \in Range(loop.todo)
                 \/ db[k].quiet /\ db[k].type = clients[c].blocked

\* A command is answered once, by the key, the timeout, CLIENT UNBLOCK or an error: a
\* client owes a reply exactly while its command waits to run or to run again.
AnsweredOnce ==
  \A c \in Clients :
    LET r == clients[c]
    IN r.owed = IF r.blocked # "none" \/ r.pending THEN 1 ELSE 0

\* Clients that pop keep their place in every queue, whatever is served around them.
KeepsItsPlace ==
  \A k \in Keys : \A c, d \in Clients :
    clients[c].blocked = "list" /\ clients[d].blocked = "list" /\ Before(tables.blocking[k], c, d)
      => Before(order, c, d)

\* A client that waits with a timeout is answered, or has its command postponed.
TimedWaitEnds ==
  \A c \in Clients :
    Waiting(c) /\ clients[c].left # Forever ~> clients[c].owed = 0 \/ clients[c].blocked = "postpone"

\* Input that piled up behind a blocking command runs without new input arriving.
PipelineResumes ==
  \A c \in Clients :
    clients[c].input # <<>> /\ clients[c].blocked = "none"
      ~> clients[c].input = <<>> \/ clients[c].blocked # "none"
=============================================================================
