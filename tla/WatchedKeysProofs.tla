------------------------- MODULE WatchedKeysProofs -------------------------
(****************************************************************************)
(* The invariants of WatchedKeys, for every set of clients, keys, databases *)
(* and commands.                                                            *)
(*                                                                          *)
(* The operators of WatchedKeys take the server S and return it changed, so *)
(* the inductive invariant is a predicate of S, and there is a lemma for    *)
(* each operator.                                                           *)
(****************************************************************************)
EXTENDS WatchedKeys, TLAPS

ServerType ==
  [kv: [Entries -> {"absent", "live", "dead"}],
   watchers: [Entries -> SUBSET Clients],
   before: [Entries -> SUBSET (Clients \X Clients)],
   cl: [Clients -> ClientType],
   changed: SUBSET Clients,
   missed: SUBSET Clients]

\* The tables agree (TablesAgree).
Agree(S) ==
  /\ \A c \in Clients, e \in Entries : c \in S.watchers[e] <=> e \in S.cl[c].watched
  /\ \A c \in Clients : S.cl[c].stale \subseteq S.cl[c].watched
  /\ \A e \in Entries : S.before[e] \subseteq S.watchers[e] \X S.watchers[e]

\* A watch flagged wk->expired is of a dead key, or its client is dirty.
StaleIsDead(S) ==
  \A c \in Clients : \A e \in S.cl[c].stale : S.kv[e] = "dead" \/ S.cl[c].cas

\* A dead key watched without the flag has lapsed since WATCH.
LapsedIsChange(S) ==
  \A c \in Clients : \A e \in S.cl[c].watched \ S.cl[c].stale :
    S.kv[e] = "dead" => c \in S.changed

\* A change shows: in the flag, or in a key that isWatchedKeyExpired() will find.
ChangeDetected(S) ==
  \A c \in S.changed :
    \/ S.cl[c].cas
    \/ c \in S.missed
    \/ \E e \in S.cl[c].watched \ S.cl[c].stale : S.kv[e] = "dead"

DirtyIsChange(S) == \A c \in Clients : S.cl[c].cas => c \in S.changed

Good(S) ==
  /\ S \in ServerType
  /\ Agree(S)
  /\ StaleIsDead(S)
  /\ LapsedIsChange(S)
  /\ ChangeDetected(S)
  /\ DirtyIsChange(S)

\* What S may become while a transaction of the client c runs: c still watches
\* nothing and is not dirty.
Running(S, c) ==
  /\ S.cl[c].watched = {}
  /\ S.cl[c].multi /\ ~S.cl[c].cas /\ ~S.cl[c].exec

-----------------------------------------------------------------------------
(* The fields of what the operators return.                                *)

\* The fields of a server are those of its type.
LEMMA ServerFields ==
  ASSUME NEW S \in ServerType
  PROVE  /\ S.kv \in [Entries -> {"absent", "live", "dead"}]
         /\ S.watchers \in [Entries -> SUBSET Clients]
         /\ S.before \in [Entries -> SUBSET (Clients \X Clients)]
         /\ S.cl \in [Clients -> ClientType]
         /\ S.changed \in SUBSET Clients
         /\ S.missed \in SUBSET Clients
BY DEF ServerType

\* unwatchAllKeys(), field by field.
LEMMA UnwatchFields ==
  ASSUME NEW S \in ServerType, NEW C \in SUBSET Clients, NEW R,
         R = UnwatchAllKeys(S, C)
  PROVE  /\ R \in ServerType
         /\ R.kv = S.kv /\ R.changed = S.changed /\ R.missed = S.missed
         /\ \A e \in Entries : R.watchers[e] = S.watchers[e] \ C
         /\ \A e \in Entries : R.before[e] = {p \in S.before[e] : p[1] \notin C /\ p[2] \notin C}
         /\ \A c \in Clients :
              /\ R.cl[c].watched = IF c \in C THEN {} ELSE S.cl[c].watched
              /\ R.cl[c].stale = IF c \in C THEN {} ELSE S.cl[c].stale
              /\ R.cl[c].cas = S.cl[c].cas /\ R.cl[c].multi = S.cl[c].multi
              /\ R.cl[c].exec = S.cl[c].exec /\ R.cl[c].queue = S.cl[c].queue
<1> DEFINE W == [e \in Entries |-> S.watchers[e] \ C]
           B == [e \in Entries |-> {p \in S.before[e] : p[1] \notin C /\ p[2] \notin C}]
           X == [c \in Clients |->
                   IF c \in C THEN [S.cl[c] EXCEPT !.watched = {}, !.stale = {}]
                   ELSE S.cl[c]]
<1>1. R = [kv |-> S.kv, watchers |-> W, before |-> B, cl |-> X,
           changed |-> S.changed, missed |-> S.missed]
  BY DEF UnwatchAllKeys, ServerType
<1>2. W \in [Entries -> SUBSET Clients] /\ B \in [Entries -> SUBSET (Clients \X Clients)]
  BY ServerFields
<1> DEFINE P(c) ==
        /\ X[c] \in ClientType
        /\ X[c].watched = IF c \in C THEN {} ELSE S.cl[c].watched
        /\ X[c].stale = IF c \in C THEN {} ELSE S.cl[c].stale
        /\ X[c].cas = S.cl[c].cas /\ X[c].multi = S.cl[c].multi
        /\ X[c].exec = S.cl[c].exec /\ X[c].queue = S.cl[c].queue
<1>3. \A c \in Clients : P(c)
  <2> SUFFICES ASSUME NEW c \in Clients PROVE P(c)
    OBVIOUS
  <2>1. S.cl[c] \in ClientType
    BY ServerFields
  <2>2. CASE c \in C
    <3>1. X[c] = [S.cl[c] EXCEPT !.watched = {}, !.stale = {}]
      BY <2>2
    <3> QED
      BY <2>1, <2>2, <3>1 DEF ClientType
  <2>3. CASE c \notin C
    <3>1. X[c] = S.cl[c]
      BY <2>3
    <3> QED
      BY <2>1, <2>3, <3>1 DEF ClientType
  <2> QED
    BY <2>2, <2>3
<1>4. X \in [Clients -> ClientType]
  BY <1>3
<1> HIDE DEF X
<1>5. R \in ServerType
  BY <1>1, <1>2, <1>4, ServerFields DEF ServerType
<1> QED
  BY <1>1, <1>3, <1>5

\* Setting flag.dirty_cas, field by field.
LEMMA DirtyFields ==
  ASSUME NEW S \in ServerType, NEW C \in SUBSET Clients, NEW R,
         R = Dirty(S, C)
  PROVE  /\ R \in ServerType
         /\ R.kv = S.kv /\ R.changed = S.changed /\ R.missed = S.missed
         /\ R.watchers = S.watchers /\ R.before = S.before
         /\ \A c \in Clients :
              /\ R.cl[c].watched = S.cl[c].watched
              /\ R.cl[c].stale = S.cl[c].stale
              /\ R.cl[c].cas = (c \in C \/ S.cl[c].cas) /\ R.cl[c].multi = S.cl[c].multi
              /\ R.cl[c].exec = S.cl[c].exec
<1> DEFINE X == [c \in Clients |->
                   IF c \in C THEN [S.cl[c] EXCEPT !.cas = TRUE, !.queue = <<>>]
                   ELSE S.cl[c]]
<1>1. R = [kv |-> S.kv, watchers |-> S.watchers, before |-> S.before, cl |-> X,
           changed |-> S.changed, missed |-> S.missed]
  BY DEF Dirty, ServerType
<1> DEFINE P(c) ==
        /\ X[c] \in ClientType
        /\ X[c].watched = S.cl[c].watched
        /\ X[c].stale = S.cl[c].stale
        /\ X[c].cas = (c \in C \/ S.cl[c].cas) /\ X[c].multi = S.cl[c].multi
        /\ X[c].exec = S.cl[c].exec
<1>2. \A c \in Clients : P(c)
  <2> SUFFICES ASSUME NEW c \in Clients PROVE P(c)
    OBVIOUS
  <2>1. S.cl[c] \in ClientType
    BY ServerFields
  <2>2. CASE c \in C
    <3>1. X[c] = [S.cl[c] EXCEPT !.cas = TRUE, !.queue = <<>>]
      BY <2>2
    <3>2. <<>> \in Seq(Commands)
      OBVIOUS
    <3>3. X[c] \in ClientType
      BY <2>1, <3>1, <3>2 DEF ClientType
    <3> QED
      BY <2>1, <2>2, <3>1, <3>3 DEF ClientType
  <2>3. CASE c \notin C
    <3>1. X[c] = S.cl[c]
      BY <2>3
    <3> QED
      BY <2>1, <2>3, <3>1 DEF ClientType
  <2> QED
    BY <2>2, <2>3
<1>3. X \in [Clients -> ClientType]
  BY <1>2
<1> HIDE DEF X
<1>4. R \in ServerType
  BY <1>1, <1>3, ServerFields DEF ServerType
<1> QED
  BY <1>1, <1>2, <1>4

\* A change of the flags wk->expired alone: F gives the flagged keys of a client.
Reflag(S, F, M) ==
  [S EXCEPT !.cl = [c \in Clients |-> [S.cl[c] EXCEPT !.stale = F[c]]], !.missed = M]

\* ... field by field.
LEMMA StaleFields ==
  ASSUME NEW S \in ServerType, NEW F \in [Clients -> SUBSET Entries],
         NEW M \in SUBSET Clients, NEW R,
         R = Reflag(S, F, M)
  PROVE  /\ R \in ServerType
         /\ R.kv = S.kv /\ R.changed = S.changed /\ R.missed = M
         /\ R.watchers = S.watchers /\ R.before = S.before
         /\ \A c \in Clients :
              /\ R.cl[c].watched = S.cl[c].watched
              /\ R.cl[c].stale = F[c]
              /\ R.cl[c].cas = S.cl[c].cas /\ R.cl[c].multi = S.cl[c].multi
              /\ R.cl[c].exec = S.cl[c].exec
<1> DEFINE X == [c \in Clients |-> [S.cl[c] EXCEPT !.stale = F[c]]]
<1>1. R = [kv |-> S.kv, watchers |-> S.watchers, before |-> S.before, cl |-> X,
           changed |-> S.changed, missed |-> M]
  BY DEF ServerType, Reflag
<1> DEFINE P(c) ==
        /\ X[c] \in ClientType
        /\ X[c].watched = S.cl[c].watched
        /\ X[c].stale = F[c]
        /\ X[c].cas = S.cl[c].cas /\ X[c].multi = S.cl[c].multi
        /\ X[c].exec = S.cl[c].exec
<1>2. \A c \in Clients : P(c)
  <2> SUFFICES ASSUME NEW c \in Clients PROVE P(c)
    OBVIOUS
  <2>1. S.cl[c] \in ClientType
    BY ServerFields
  <2>2. X[c] = [S.cl[c] EXCEPT !.stale = F[c]]
    OBVIOUS
  <2>3. F[c] \in SUBSET Entries
    OBVIOUS
  <2> QED
    BY <2>1, <2>2, <2>3 DEF ClientType
<1>3. X \in [Clients -> ClientType]
  BY <1>2
<1> HIDE DEF X
<1>4. R \in ServerType
  BY <1>1, <1>3, ServerFields DEF ServerType
<1> QED
  BY <1>1, <1>2, <1>4

-----------------------------------------------------------------------------
(* touchWatchedKey().                                                      *)

Flagged(S, e) == {c \in S.watchers[e] : e \in S.cl[c].stale}
Reached(S, e) ==
  {c \in S.watchers[e] :
     \A b \in (IF S.kv[e] = "absent" THEN {} ELSE Flagged(S, e)) :
       b # c /\ <<b, c>> \notin S.before[e]}
Hit(S, e) == Reached(S, e) \ Flagged(S, e)
Unreached(S, e) == {c \in S.watchers[e] \ Reached(S, e) : ~S.cl[c].cas}

\* R is S after touchWatchedKey(), field by field.
Touched(S, e, R) ==
  /\ R \in ServerType
  /\ R.kv = S.kv /\ R.changed = S.changed
  /\ R.missed = S.missed \cup Unreached(S, e)
  /\ \A f \in Entries : R.watchers[f] = S.watchers[f] \ Hit(S, e)
  /\ \A f \in Entries :
       R.before[f] = {p \in S.before[f] : p[1] \notin Hit(S, e) /\ p[2] \notin Hit(S, e)}
  /\ \A c \in Clients :
       /\ R.cl[c].watched = IF c \in Hit(S, e) THEN {} ELSE S.cl[c].watched
       /\ R.cl[c].stale = IF c \in Hit(S, e) THEN {}
                          ELSE IF c \in Reached(S, e) THEN S.cl[c].stale \ {e}
                          ELSE S.cl[c].stale
       /\ R.cl[c].cas = (c \in Hit(S, e) \/ S.cl[c].cas)
       /\ R.cl[c].multi = S.cl[c].multi
       /\ R.cl[c].exec = S.cl[c].exec

\* touchWatchedKey() is the composition of three changes of S.
LEMMA TouchFields ==
  ASSUME NEW S \in ServerType, NEW e \in Entries, NEW R, R = Touch(S, e)
  PROVE  Touched(S, e, R)
<1> DEFINE F == [c \in Clients |-> IF c \in Reached(S, e) THEN S.cl[c].stale \ {e}
                                   ELSE S.cl[c].stale]
           M == S.missed \cup Unreached(S, e)
           S1 == Reflag(S, F, M)
           S2 == Dirty(S1, Hit(S, e))
<1>1. R = UnwatchAllKeys(S2, Hit(S, e))
  <2>1. [c \in Clients |-> [S.cl[c] EXCEPT !.stale = F[c]]]
          = [c \in Clients |-> [S.cl[c] EXCEPT !.stale =
                                  IF c \in Reached(S, e) THEN @ \ {e} ELSE @]]
    OBVIOUS
  <2> QED
    BY <2>1 DEF Touch, Reflag, Flagged, Reached, Hit, Unreached
<1>2. \A c \in Clients : S.cl[c].stale \in SUBSET Entries
  BY ServerFields DEF ClientType
<1>3. F \in [Clients -> SUBSET Entries] /\ M \in SUBSET Clients
  BY <1>2, ServerFields DEF Unreached
<1>4. Hit(S, e) \in SUBSET Clients
  BY ServerFields DEF Hit, Reached
<1>5. \A c \in Clients : F[c] = IF c \in Reached(S, e) THEN S.cl[c].stale \ {e}
                                ELSE S.cl[c].stale
  OBVIOUS
<1> HIDE DEF F, M, S1, S2
<1>6. /\ S1 \in ServerType
      /\ S1.kv = S.kv /\ S1.changed = S.changed /\ S1.missed = M
      /\ S1.watchers = S.watchers /\ S1.before = S.before
      /\ \A c \in Clients :
           /\ S1.cl[c].watched = S.cl[c].watched
           /\ S1.cl[c].stale = F[c]
           /\ S1.cl[c].cas = S.cl[c].cas /\ S1.cl[c].multi = S.cl[c].multi
           /\ S1.cl[c].exec = S.cl[c].exec
  BY <1>3, StaleFields DEF S1
<1>7. /\ S2 \in ServerType
      /\ S2.kv = S1.kv /\ S2.changed = S1.changed /\ S2.missed = S1.missed
      /\ S2.watchers = S1.watchers /\ S2.before = S1.before
      /\ \A c \in Clients :
           /\ S2.cl[c].watched = S1.cl[c].watched
           /\ S2.cl[c].stale = S1.cl[c].stale
           /\ S2.cl[c].cas = (c \in Hit(S, e) \/ S1.cl[c].cas)
           /\ S2.cl[c].multi = S1.cl[c].multi
           /\ S2.cl[c].exec = S1.cl[c].exec
  BY <1>4, <1>6, DirtyFields DEF S2
<1>8. /\ R \in ServerType
      /\ R.kv = S2.kv /\ R.changed = S2.changed /\ R.missed = S2.missed
      /\ \A f \in Entries : R.watchers[f] = S2.watchers[f] \ Hit(S, e)
      /\ \A f \in Entries :
           R.before[f] = {p \in S2.before[f] : p[1] \notin Hit(S, e) /\ p[2] \notin Hit(S, e)}
      /\ \A c \in Clients :
           /\ R.cl[c].watched = IF c \in Hit(S, e) THEN {} ELSE S2.cl[c].watched
           /\ R.cl[c].stale = IF c \in Hit(S, e) THEN {} ELSE S2.cl[c].stale
           /\ R.cl[c].cas = S2.cl[c].cas /\ R.cl[c].multi = S2.cl[c].multi
           /\ R.cl[c].exec = S2.cl[c].exec
  BY <1>1, <1>4, <1>7, UnwatchFields
<1>9. M = S.missed \cup Unreached(S, e)
  BY DEF M
<1> QED
  BY <1>5, <1>6, <1>7, <1>8, <1>9 DEF Touched

\* Good but for the key e, which has just been deleted or written: its
\* watchers have yet to hear of it.
Touchable(S, e) ==
  /\ S \in ServerType
  /\ Agree(S)
  /\ S.kv[e] # "dead"
  /\ \A c \in Clients : \A f \in S.cl[c].stale :
       \/ S.kv[f] = "dead"
       \/ S.cl[c].cas
       \/ f = e /\ S.kv[e] = "absent"
  /\ LapsedIsChange(S)
  /\ \A c \in Clients : e \in S.cl[c].watched \ S.cl[c].stale => c \in S.changed
  /\ \A c \in S.changed :
       \/ S.cl[c].cas
       \/ c \in S.missed
       \/ \E f \in S.cl[c].watched \ S.cl[c].stale : f = e \/ S.kv[f] = "dead"
  /\ DirtyIsChange(S)

\* touchWatchedKey() restores the invariant, and leaves a running transaction be.
LEMMA TouchGood ==
  ASSUME NEW S, NEW e \in Entries, Touchable(S, e), NEW R, R = Touch(S, e)
  PROVE  /\ Good(R)
         /\ R.kv = S.kv
         /\ \A c \in Clients : Running(S, c) => Running(R, c)
<1> DEFINE H == Hit(S, e)
<1>0. S \in ServerType /\ Agree(S)
  BY DEF Touchable
<1>01. Touched(S, e, R)
  BY <1>0, TouchFields
<1>1. /\ R \in ServerType
      /\ R.kv = S.kv /\ R.changed = S.changed
      /\ R.missed = S.missed \cup Unreached(S, e)
      /\ \A f \in Entries : R.watchers[f] = S.watchers[f] \ H
      /\ \A f \in Entries :
           R.before[f] = {p \in S.before[f] : p[1] \notin H /\ p[2] \notin H}
      /\ \A c \in Clients :
           /\ R.cl[c].watched = IF c \in H THEN {} ELSE S.cl[c].watched
           /\ R.cl[c].stale = IF c \in H THEN {}
                              ELSE IF c \in Reached(S, e) THEN S.cl[c].stale \ {e}
                              ELSE S.cl[c].stale
           /\ R.cl[c].cas = (c \in H \/ S.cl[c].cas)
           /\ R.cl[c].multi = S.cl[c].multi
           /\ R.cl[c].exec = S.cl[c].exec
  BY <1>01 DEF Touched
<1>2. /\ H \subseteq S.watchers[e] /\ S.watchers[e] \subseteq Clients
      /\ \A c \in H : e \in S.cl[c].watched \ S.cl[c].stale
  BY <1>0, ServerFields DEF Hit, Reached, Flagged, Agree
<1>3. \A c \in Clients : e \in S.cl[c].watched \ S.cl[c].stale =>
                           c \in H \/ c \in Unreached(S, e) \/ S.cl[c].cas
  BY <1>0 DEF Agree, Hit, Unreached, Flagged
<1>4. \A c \in Clients : e \in S.cl[c].stale /\ S.kv[e] = "absent" => c \in Reached(S, e)
  BY <1>0 DEF Agree, Reached
<1>5. \A c \in Clients : e \in S.cl[c].stale /\ S.kv[e] # "absent" => c \notin Reached(S, e)
  BY <1>0 DEF Agree, Reached, Flagged
<1>50. \A c \in Clients : S.cl[c].watched \in SUBSET Entries /\ S.cl[c].stale \in SUBSET Entries
  BY <1>0, ServerFields DEF ClientType
<1> HIDE DEF H
<1>6. Agree(R)
  <2>1. \A c \in Clients, f \in Entries : c \in R.watchers[f] <=> f \in R.cl[c].watched
    <3> SUFFICES ASSUME NEW c \in Clients, NEW f \in Entries
                 PROVE  c \in R.watchers[f] <=> f \in R.cl[c].watched
      OBVIOUS
    <3>1. c \in S.watchers[f] <=> f \in S.cl[c].watched
      BY <1>0 DEF Agree
    <3>2. R.watchers[f] = S.watchers[f] \ H
      BY <1>1
    <3>3. R.cl[c].watched = IF c \in H THEN {} ELSE S.cl[c].watched
      BY <1>1
    <3> QED
      BY <3>1, <3>2, <3>3
  <2>2. \A c \in Clients : R.cl[c].stale \subseteq R.cl[c].watched
    BY <1>0, <1>1 DEF Agree
  <2>3. \A f \in Entries : R.before[f] \subseteq R.watchers[f] \X R.watchers[f]
    BY <1>0, <1>1 DEF Agree
  <2> QED
    BY <2>1, <2>2, <2>3 DEF Agree
<1>7. StaleIsDead(R)
  <2> SUFFICES ASSUME NEW c \in Clients, NEW f \in R.cl[c].stale
               PROVE  R.kv[f] = "dead" \/ R.cl[c].cas
    BY DEF StaleIsDead
  <2>1. f \in S.cl[c].stale /\ c \notin H /\ (f = e => c \notin Reached(S, e))
    <3>1. R.cl[c].stale = IF c \in H THEN {}
                          ELSE IF c \in Reached(S, e) THEN S.cl[c].stale \ {e}
                          ELSE S.cl[c].stale
      BY <1>1
    <3> QED
      BY <3>1
  <2>2. S.kv[f] = "dead" \/ S.cl[c].cas \/ (f = e /\ S.kv[e] = "absent")
    BY <2>1 DEF Touchable
  <2>3. ~(f = e /\ S.kv[e] = "absent")
    BY <1>4, <2>1
  <2> QED
    BY <1>1, <2>2, <2>3
<1>8. LapsedIsChange(R)
  <2> SUFFICES ASSUME NEW c \in Clients, NEW f \in R.cl[c].watched \ R.cl[c].stale,
                      R.kv[f] = "dead"
               PROVE  c \in R.changed
    BY DEF LapsedIsChange
  <2>1. f # e /\ S.kv[f] = "dead"
    BY <1>1 DEF Touchable
  <2>2. f \in S.cl[c].watched \ S.cl[c].stale
    BY <1>1, <2>1
  <2> QED
    BY <1>1, <2>1, <2>2 DEF Touchable, LapsedIsChange
<1>9. ChangeDetected(R)
  <2> SUFFICES ASSUME NEW c \in R.changed, ~R.cl[c].cas, c \notin R.missed
               PROVE  \E f \in R.cl[c].watched \ R.cl[c].stale : R.kv[f] = "dead"
    BY DEF ChangeDetected
  <2>0. c \in Clients /\ c \in S.changed
    BY <1>1, <1>0, ServerFields
  <2>1. c \notin H /\ ~S.cl[c].cas /\ c \notin S.missed /\ c \notin Unreached(S, e)
    BY <1>1, <2>0
  <2>2. PICK f \in S.cl[c].watched \ S.cl[c].stale : f = e \/ S.kv[f] = "dead"
    BY <2>0, <2>1 DEF Touchable
  <2>3. f # e
    BY <1>3, <2>0, <2>1, <2>2
  <2>4. f \in R.cl[c].watched \ R.cl[c].stale
    BY <1>1, <2>0, <2>1, <2>2
  <2> QED
    BY <1>1, <2>2, <2>3, <2>4
<1>10. DirtyIsChange(R)
  BY <1>1, <1>2 DEF DirtyIsChange, Touchable
<1>11. \A c \in Clients : Running(S, c) => Running(R, c)
  BY <1>1, <1>2 DEF Running
<1> QED
  BY <1>1, <1>6, <1>7, <1>8, <1>9, <1>10, <1>11 DEF Good

-----------------------------------------------------------------------------
(* Key space events.                                                       *)

KeyState == {"absent", "live", "dead"}

\* The watchers of E see a change, and e becomes v.
Event(S, E, e, v) == [Changed(S, E) EXCEPT !.kv[e] = v]

\* R is S after the event, field by field.
Happened(S, E, e, v, R) ==
  /\ R \in ServerType
  /\ R.kv = [S.kv EXCEPT ![e] = v]
  /\ R.changed = S.changed \cup {c \in Clients : S.cl[c].watched \cap E # {}}
  /\ R.missed = S.missed /\ R.watchers = S.watchers /\ R.before = S.before
  /\ R.cl = S.cl

\* A write, a deletion or a lapse of one key, field by field.
LEMMA EventFields ==
  ASSUME NEW S \in ServerType, NEW E \in SUBSET Entries, NEW e \in Entries,
         NEW v \in KeyState, NEW R,
         R = Event(S, E, e, v)
  PROVE  Happened(S, E, e, v, R)
<1>1. R = [kv |-> [S.kv EXCEPT ![e] = v], watchers |-> S.watchers, before |-> S.before,
           cl |-> S.cl,
           changed |-> S.changed \cup {c \in Clients : S.cl[c].watched \cap E # {}},
           missed |-> S.missed]
  BY DEF Event, Changed, ServerType
<1>2. [S.kv EXCEPT ![e] = v] \in [Entries -> {"absent", "live", "dead"}]
  BY ServerFields DEF KeyState
<1>3. R \in ServerType
  BY <1>1, <1>2, ServerFields DEF ServerType
<1> QED
  BY <1>1, <1>3 DEF Happened

\* The fields of a client that WATCH uses are typed.
LEMMA ClientFields ==
  ASSUME NEW S \in ServerType, NEW c \in Clients
  PROVE  /\ S.cl[c] \in ClientType
         /\ S.cl[c].watched \in SUBSET Entries /\ S.cl[c].stale \in SUBSET Entries
         /\ S.cl[c].cas \in BOOLEAN
BY ServerFields DEF ClientType

\* Deleting an expired key on access keeps the invariant.
LEMMA ReclaimGood ==
  ASSUME NEW S, Good(S), NEW e \in Entries, NEW R, R = Reclaim(S, e)
  PROVE  /\ Good(R)
         /\ R.kv[e] # "dead"
         /\ \A c \in Clients : Running(S, c) => Running(R, c)
<1>0. S \in ServerType
  BY DEF Good
<1>1. CASE S.kv[e] # "dead"
  <2>1. R = S
    BY <1>1 DEF Reclaim
  <2> QED
    BY <1>1, <2>1
<1>2. CASE S.kv[e] = "dead"
  <2> DEFINE S1 == [S EXCEPT !.kv[e] = "absent"]
  <2>1. R = Touch(S1, e)
    BY <1>2 DEF Reclaim
  <2>2. /\ S1 \in ServerType
        /\ S1.kv = [S.kv EXCEPT ![e] = "absent"]
        /\ S1.changed = S.changed /\ S1.missed = S.missed
        /\ S1.watchers = S.watchers /\ S1.before = S.before /\ S1.cl = S.cl
    <3>1. [S.kv EXCEPT ![e] = "absent"] \in [Entries -> {"absent", "live", "dead"}]
      BY <1>0, ServerFields
    <3>2. S1 = [kv |-> [S.kv EXCEPT ![e] = "absent"], watchers |-> S.watchers,
                before |-> S.before, cl |-> S.cl, changed |-> S.changed,
                missed |-> S.missed]
      BY <1>0 DEF ServerType
    <3>3. S1 \in ServerType
      BY <1>0, <3>1, <3>2, ServerFields DEF ServerType
    <3> QED
      BY <3>2, <3>3
  <2> HIDE DEF S1
  <2>3. S1.kv[e] = "absent" /\ \A f \in Entries : f # e => S1.kv[f] = S.kv[f]
    BY <1>0, <2>2, ServerFields
  <2>4. Agree(S1)
    BY <2>2 DEF Good, Agree
  <2>5. DirtyIsChange(S1)
    BY <2>2 DEF Good, DirtyIsChange
  <2>6. LapsedIsChange(S1)
    BY <1>0, <2>2, <2>3, ClientFields DEF Good, LapsedIsChange
  <2>7. \A c \in Clients : \A f \in S1.cl[c].stale :
          \/ S1.kv[f] = "dead"
          \/ S1.cl[c].cas
          \/ f = e /\ S1.kv[e] = "absent"
    BY <1>0, <2>2, <2>3, ClientFields DEF Good, StaleIsDead
  <2>8. \A c \in Clients : e \in S1.cl[c].watched \ S1.cl[c].stale => c \in S1.changed
    BY <1>2, <2>2 DEF Good, LapsedIsChange
  <2>9. \A c \in S1.changed :
          \/ S1.cl[c].cas
          \/ c \in S1.missed
          \/ \E f \in S1.cl[c].watched \ S1.cl[c].stale : f = e \/ S1.kv[f] = "dead"
    BY <1>0, <2>2, <2>3, ClientFields, ServerFields DEF Good, ChangeDetected
  <2>10. Touchable(S1, e)
    BY <2>2, <2>3, <2>4, <2>5, <2>6, <2>7, <2>8, <2>9 DEF Touchable
  <2>11. /\ Good(R)
         /\ R.kv = S1.kv
         /\ \A c \in Clients : Running(S1, c) => Running(R, c)
    BY <2>1, <2>10, TouchGood
  <2>12. \A c \in Clients : Running(S, c) => Running(S1, c)
    BY <2>2 DEF Running
  <2> QED
    BY <2>3, <2>11, <2>12
<1> QED
  BY <1>1, <1>2

\* The key e, not dead, is written or deleted: every watcher sees the change.
LEMMA ModifyGood ==
  ASSUME NEW S, Good(S), NEW e \in Entries, S.kv[e] # "dead",
         NEW v \in {"absent", "live"}, v = "absent" => S.kv[e] = "live",
         NEW R, R = Touch([Changed(S, {e}) EXCEPT !.kv[e] = v], e)
  PROVE  /\ Good(R)
         /\ \A c \in Clients : Running(S, c) => Running(R, c)
<1> DEFINE S1 == Event(S, {e}, e, v)
<1>0. S \in ServerType
  BY DEF Good
<1>1. R = Touch(S1, e)
  BY DEF Event
<1> HIDE DEF S1
<1>2. /\ S1 \in ServerType
      /\ S1.kv = [S.kv EXCEPT ![e] = v]
      /\ S1.changed = S.changed \cup {c \in Clients : S.cl[c].watched \cap {e} # {}}
      /\ S1.missed = S.missed /\ S1.watchers = S.watchers /\ S1.before = S.before
      /\ S1.cl = S.cl
  <2>1. {e} \in SUBSET Entries /\ v \in KeyState
    BY DEF KeyState
  <2>2. Happened(S, {e}, e, v, S1)
    BY <1>0, <2>1, EventFields DEF S1
  <2> QED
    BY <2>2 DEF Happened
<1>3. S1.kv[e] = v /\ \A f \in Entries : f # e => S1.kv[f] = S.kv[f]
  BY <1>0, <1>2, ServerFields
<1>4. \A c \in Clients : c \in S1.changed <=> c \in S.changed \/ e \in S.cl[c].watched
  BY <1>0, <1>2, ServerFields
<1>5. \A c \in Clients : e \in S.cl[c].stale => S.cl[c].cas
  BY DEF Good, StaleIsDead
<1>6. Agree(S1)
  BY <1>2 DEF Good, Agree
<1>7. DirtyIsChange(S1)
  BY <1>2, <1>4 DEF Good, DirtyIsChange
<1>8. LapsedIsChange(S1)
  BY <1>0, <1>2, <1>3, <1>4, ClientFields DEF Good, LapsedIsChange
<1>9. \A c \in Clients : \A f \in S1.cl[c].stale :
        \/ S1.kv[f] = "dead"
        \/ S1.cl[c].cas
        \/ f = e /\ S1.kv[e] = "absent"
  BY <1>0, <1>2, <1>3, <1>5, ClientFields DEF Good, StaleIsDead
<1>10. \A c \in Clients : e \in S1.cl[c].watched \ S1.cl[c].stale => c \in S1.changed
  BY <1>2, <1>4
<1>11. \A c \in S1.changed :
         \/ S1.cl[c].cas
         \/ c \in S1.missed
         \/ \E f \in S1.cl[c].watched \ S1.cl[c].stale : f = e \/ S1.kv[f] = "dead"
  <2> SUFFICES ASSUME NEW c \in S1.changed, ~S.cl[c].cas, c \notin S.missed
               PROVE  \E f \in S.cl[c].watched \ S.cl[c].stale : f = e \/ S1.kv[f] = "dead"
    BY <1>2
  <2>0. c \in Clients
    BY <1>2, ServerFields
  <2>1. CASE e \in S.cl[c].watched
    <3>1. e \in S.cl[c].watched \ S.cl[c].stale
      BY <1>5, <2>0, <2>1
    <3> QED
      BY <3>1
  <2>2. CASE e \notin S.cl[c].watched
    <3>1. PICK f \in S.cl[c].watched \ S.cl[c].stale : S.kv[f] = "dead"
      BY <1>4, <2>0, <2>2 DEF Good, ChangeDetected
    <3> QED
      BY <1>0, <1>3, <2>0, <2>2, <3>1, ClientFields
  <2> QED
    BY <2>1, <2>2
<1>12. Touchable(S1, e)
  BY <1>2, <1>3, <1>6, <1>7, <1>8, <1>9, <1>10, <1>11 DEF Touchable
<1>13. \A c \in Clients : Running(S, c) => Running(S1, c)
  BY <1>2 DEF Running
<1> QED
  BY <1>1, <1>12, <1>13, TouchGood

\* A write command keeps the invariant, and leaves a running transaction be.
LEMMA WriteGood ==
  ASSUME NEW S, Good(S), NEW e \in Entries
  PROVE  /\ Good(Write(S, e))
         /\ \A c \in Clients : Running(S, c) => Running(Write(S, e), c)
<1> DEFINE S0 == Reclaim(S, e)
<1>1. Good(S0) /\ S0.kv[e] # "dead" /\ \A c \in Clients : Running(S, c) => Running(S0, c)
  BY ReclaimGood
<1>2. Write(S, e) = Touch([Changed(S0, {e}) EXCEPT !.kv[e] = "live"], e)
  BY DEF Write
<1> HIDE DEF S0
<1> QED
  BY <1>1, <1>2, ModifyGood

\* DEL, eviction and active expiry keep it.
LEMMA DelKeyGood ==
  ASSUME NEW S, Good(S), NEW e \in Entries
  PROVE  /\ Good(DelKey(S, e))
         /\ \A c \in Clients : Running(S, c) => Running(DelKey(S, e), c)
<1>1. CASE S.kv[e] = "live"
  <2>1. DelKey(S, e) = Touch([Changed(S, {e}) EXCEPT !.kv[e] = "absent"], e)
    BY <1>1 DEF DelKey, Delete
  <2> QED
    BY <1>1, <2>1, ModifyGood
<1>2. CASE S.kv[e] # "live"
  BY <1>2, ReclaimGood DEF DelKey
<1> QED
  BY <1>1, <1>2

-----------------------------------------------------------------------------
(* FLUSHDB and SWAPDB: the keys D are replaced, all at once, by those of K. *)

\* The watch of f by c is looked at; it makes c dirty.
Seen(S, K, c, f) == f \in S.cl[c].watched /\ (S.kv[f] # "absent" \/ K[f] # "absent")
Strikes(S, K, c, f) ==
  /\ Seen(S, K, c, f)
  /\ IF f \in S.cl[c].stale THEN K[f] = "live" ELSE S.kv[f] # "absent" \/ K[f] # "dead"

Replaced(S, D, K, R) ==
  /\ R \in ServerType
  /\ R.kv = K /\ \A f \in Entries : f \notin D => K[f] = S.kv[f]
  /\ R.watchers = S.watchers /\ R.before = S.before /\ R.missed = S.missed
  /\ \A c \in Clients :
       c \in R.changed <=>
         \/ c \in S.changed
         \/ \E f \in D : f \in S.cl[c].watched /\ (S.kv[f] = "live" \/ K[f] = "live")
  /\ \A c \in Clients :
       /\ R.cl[c].watched = S.cl[c].watched
       /\ R.cl[c].multi = S.cl[c].multi /\ R.cl[c].exec = S.cl[c].exec
       /\ R.cl[c].cas <=> (S.cl[c].cas \/ \E f \in D : Strikes(S, K, c, f))
       /\ \A f \in Entries :
            f \in R.cl[c].stale <=>
              IF f \in D /\ Seen(S, K, c, f)
              THEN IF f \in S.cl[c].stale THEN K[f] # "absent"
                   ELSE S.kv[f] = "absent" /\ K[f] = "dead"
              ELSE f \in S.cl[c].stale

\* Replacing keys keeps the invariant, and leaves a running transaction be.
LEMMA ReplacedGood ==
  ASSUME NEW S, Good(S), NEW D \in SUBSET Entries,
         NEW K \in [Entries -> KeyState], NEW R, Replaced(S, D, K, R)
  PROVE  /\ Good(R)
         /\ \A c \in Clients : Running(S, c) => Running(R, c)
<1>0. S \in ServerType /\ R \in ServerType
  BY DEF Good, Replaced
<1>1. \A c \in Clients : /\ R.cl[c].watched = S.cl[c].watched
                         /\ R.cl[c].watched \in SUBSET Entries
                         /\ R.cl[c].stale \in SUBSET Entries
                         /\ S.cl[c].stale \in SUBSET S.cl[c].watched
  BY <1>0, ClientFields DEF Replaced, Good, Agree
<1>2. \A c \in Clients, f \in Entries :
        f \in R.cl[c].stale <=>
          IF f \in D /\ Seen(S, K, c, f)
          THEN IF f \in S.cl[c].stale THEN K[f] # "absent"
               ELSE S.kv[f] = "absent" /\ K[f] = "dead"
          ELSE f \in S.cl[c].stale
  BY DEF Replaced
<1>3. \A c \in Clients : R.cl[c].cas <=> (S.cl[c].cas \/ \E f \in D : Strikes(S, K, c, f))
  BY DEF Replaced
<1>4. \A c \in Clients :
        c \in R.changed <=>
          \/ c \in S.changed
          \/ \E f \in D : f \in S.cl[c].watched /\ (S.kv[f] = "live" \/ K[f] = "live")
  BY DEF Replaced
<1>5. R.kv = K /\ \A f \in Entries : f \notin D => K[f] = S.kv[f]
  BY DEF Replaced
<1>6. \A f \in Entries : S.kv[f] \in KeyState /\ K[f] \in KeyState
  BY <1>0, ServerFields DEF KeyState
<1>7. Agree(R)
  <2>1. \A c \in Clients, f \in Entries : c \in R.watchers[f] <=> f \in R.cl[c].watched
    BY <1>1 DEF Replaced, Good, Agree
  <2>2. \A c \in Clients : R.cl[c].stale \subseteq R.cl[c].watched
    <3> SUFFICES ASSUME NEW c \in Clients, NEW f \in R.cl[c].stale
                 PROVE  f \in S.cl[c].watched
      BY <1>1
    <3> QED
      BY <1>1, <1>2 DEF Seen
  <2>3. \A f \in Entries : R.before[f] \subseteq R.watchers[f] \X R.watchers[f]
    BY DEF Replaced, Good, Agree
  <2> QED
    BY <2>1, <2>2, <2>3 DEF Agree
<1>8. StaleIsDead(R)
  <2> SUFFICES ASSUME NEW c \in Clients, NEW f \in R.cl[c].stale, R.kv[f] # "dead"
               PROVE  R.cl[c].cas
    BY DEF StaleIsDead
  <2>0. f \in Entries /\ f \in S.cl[c].watched
    BY <1>1, <1>7 DEF Agree
  <2>1. CASE f \in D /\ Seen(S, K, c, f)
    <3>1. f \in S.cl[c].stale /\ K[f] = "live"
      BY <1>2, <1>5, <1>6, <2>0, <2>1 DEF KeyState
    <3>2. Strikes(S, K, c, f)
      BY <2>1, <3>1 DEF Strikes
    <3> QED
      BY <1>3, <2>1, <3>2
  <2>2. CASE ~(f \in D /\ Seen(S, K, c, f))
    <3>1. f \in S.cl[c].stale
      BY <1>2, <2>0, <2>2
    <3>2. S.kv[f] # "dead"
      BY <1>5, <2>0, <2>2 DEF Seen
    <3> QED
      BY <1>3, <3>1, <3>2 DEF Good, StaleIsDead
  <2> QED
    BY <2>1, <2>2
<1>9. LapsedIsChange(R)
  <2> SUFFICES ASSUME NEW c \in Clients, NEW f \in S.cl[c].watched, f \notin R.cl[c].stale,
                      K[f] = "dead"
               PROVE  c \in R.changed
    BY <1>1, <1>5 DEF LapsedIsChange
  <2>0. f \in Entries
    BY <1>1
  <2>1. f \notin S.cl[c].stale
    BY <1>2, <2>0 DEF Seen
  <2>2. CASE f \in D /\ S.kv[f] # "dead"
    <3>1. Seen(S, K, c, f)
      BY DEF Seen
    <3>2. S.kv[f] # "absent"
      BY <1>2, <2>0, <2>1, <2>2, <3>1
    <3>3. S.kv[f] = "live"
      BY <1>6, <2>0, <2>2, <3>2 DEF KeyState
    <3> QED
      BY <1>4, <2>2, <3>3
  <2>3. CASE S.kv[f] = "dead"
    BY <1>4, <2>1, <2>3 DEF Good, LapsedIsChange
  <2>4. CASE f \notin D
    BY <1>5, <2>0, <2>3, <2>4
  <2> QED
    BY <2>2, <2>3, <2>4
<1>10. ChangeDetected(R)
  <2> SUFFICES ASSUME NEW c \in R.changed, ~R.cl[c].cas, c \notin R.missed
               PROVE  \E f \in R.cl[c].watched \ R.cl[c].stale : R.kv[f] = "dead"
    BY DEF ChangeDetected
  <2>0. c \in Clients /\ c \notin S.missed
    BY <1>0, ServerFields DEF Replaced
  <2>1. ~S.cl[c].cas /\ \A f \in D : ~Strikes(S, K, c, f)
    BY <1>3, <2>0
  <2>2. \A f \in D : f \in S.cl[c].watched => S.kv[f] # "live"
    <3> SUFFICES ASSUME NEW f \in D, f \in S.cl[c].watched, S.kv[f] = "live" PROVE FALSE
      OBVIOUS
    <3>1. f \notin S.cl[c].stale
      BY <2>0, <2>1 DEF Good, StaleIsDead
    <3>2. Strikes(S, K, c, f)
      BY <3>1 DEF Strikes, Seen
    <3> QED
      BY <2>1, <3>2
  <2>3. \A f \in D : f \in S.cl[c].watched => K[f] # "live"
    <3> SUFFICES ASSUME NEW f \in D, f \in S.cl[c].watched, K[f] = "live" PROVE FALSE
      OBVIOUS
    <3>1. Strikes(S, K, c, f)
      BY DEF Strikes, Seen
    <3> QED
      BY <2>1, <3>1
  <2>4. c \in S.changed
    BY <1>4, <2>0, <2>2, <2>3
  <2>5. PICK f \in S.cl[c].watched \ S.cl[c].stale : S.kv[f] = "dead"
    BY <2>0, <2>1, <2>4 DEF Good, ChangeDetected
  <2>6. f \in Entries
    BY <1>1, <2>0
  <2>7. f \notin D
    <3> SUFFICES ASSUME f \in D PROVE FALSE
      OBVIOUS
    <3>1. Strikes(S, K, c, f)
      BY <2>5 DEF Strikes, Seen
    <3> QED
      BY <2>1, <3>1
  <2>8. f \notin R.cl[c].stale /\ R.kv[f] = "dead"
    BY <1>2, <1>5, <2>0, <2>5, <2>6, <2>7
  <2> QED
    BY <1>1, <2>0, <2>5, <2>8
<1>11. DirtyIsChange(R)
  <2> SUFFICES ASSUME NEW c \in Clients, R.cl[c].cas PROVE c \in R.changed
    BY DEF DirtyIsChange
  <2>1. CASE S.cl[c].cas
    BY <1>4, <2>1 DEF Good, DirtyIsChange
  <2>2. CASE \E f \in D : Strikes(S, K, c, f)
    <3>1. PICK f \in D : Strikes(S, K, c, f)
      BY <2>2
    <3>2. f \in Entries /\ f \in S.cl[c].watched
      BY <3>1 DEF Strikes, Seen
    <3>3. CASE S.kv[f] = "live" \/ K[f] = "live"
      BY <1>4, <3>2, <3>3
    <3>4. CASE ~(S.kv[f] = "live" \/ K[f] = "live")
      <4>1. f \notin S.cl[c].stale /\ (S.kv[f] # "absent" \/ K[f] # "dead")
        BY <3>1, <3>4 DEF Strikes
      <4>2. S.kv[f] = "dead"
        BY <1>6, <3>1, <3>2, <3>4, <4>1 DEF KeyState, Strikes, Seen
      <4> QED
        BY <1>4, <3>2, <4>1, <4>2 DEF Good, LapsedIsChange
    <3> QED
      BY <3>3, <3>4
  <2> QED
    BY <1>3, <2>1, <2>2
<1>12. \A c \in Clients : Running(S, c) => Running(R, c)
  BY <1>1, <1>3 DEF Running, Replaced, Strikes, Seen
<1> QED
  BY <1>0, <1>7, <1>8, <1>9, <1>10, <1>11, <1>12 DEF Good

\* What comes to the key k of a database from the database r.
There(S, r, k) == IF r = NoDb THEN "absent" ELSE S.kv[<<r, k>>]

\* R is S after touchAllWatchedKeysInDb(d, r), field by field.
Swept(S, d, r, R) ==
  /\ R \in ServerType
  /\ R.kv = S.kv /\ R.changed = S.changed /\ R.missed = S.missed
  /\ R.watchers = S.watchers /\ R.before = S.before
  /\ \A c \in Clients :
       /\ R.cl[c].watched = S.cl[c].watched
       /\ R.cl[c].multi = S.cl[c].multi /\ R.cl[c].exec = S.cl[c].exec
       /\ R.cl[c].cas <=>
            \/ S.cl[c].cas
            \/ \E k \in Keys :
                 /\ c \in S.watchers[<<d, k>>]
                 /\ S.kv[<<d, k>>] # "absent" \/ There(S, r, k) # "absent"
                 /\ IF <<d, k>> \in S.cl[c].stale THEN There(S, r, k) = "live"
                    ELSE S.kv[<<d, k>>] # "absent" \/ There(S, r, k) # "dead"
       /\ \A f \in Entries : f[1] # d => (f \in R.cl[c].stale <=> f \in S.cl[c].stale)
       /\ \A k \in Keys :
            <<d, k>> \in R.cl[c].stale <=>
              IF /\ c \in S.watchers[<<d, k>>]
                 /\ S.kv[<<d, k>>] # "absent" \/ There(S, r, k) # "absent"
              THEN IF <<d, k>> \in S.cl[c].stale THEN There(S, r, k) # "absent"
                   ELSE S.kv[<<d, k>>] = "absent" /\ There(S, r, k) = "dead"
              ELSE <<d, k>> \in S.cl[c].stale

\* touchAllWatchedKeysInDb(), field by field.
LEMMA TouchAllFields ==
  ASSUME NEW S \in ServerType, NEW d \in Dbs, NEW r \in Dbs \cup {NoDb}, NEW R,
         R = TouchAll(S, d, r)
  PROVE  Swept(S, d, r, R)
<1> DEFINE Watches(c, k) == /\ c \in S.watchers[<<d, k>>]
                            /\ S.kv[<<d, k>>] # "absent" \/ There(S, r, k) # "absent"
           Unset(c) == {e \in {d} \X Keys : /\ Watches(c, e[2])
                                            /\ <<d, e[2]>> \in S.cl[c].stale
                                            /\ There(S, r, e[2]) = "absent"}
           Set(c) == {e \in {d} \X Keys : /\ Watches(c, e[2])
                                          /\ ~(<<d, e[2]>> \in S.cl[c].stale)
                                          /\ S.kv[<<d, e[2]>>] = "absent"
                                          /\ There(S, r, e[2]) = "dead"}
           hit == {c \in Clients : \E k \in Keys :
                     /\ Watches(c, k)
                     /\ IF <<d, k>> \in S.cl[c].stale THEN There(S, r, k) = "live"
                        ELSE S.kv[<<d, k>>] # "absent" \/ There(S, r, k) # "dead"}
           F == [c \in Clients |-> (S.cl[c].stale \ Unset(c)) \cup Set(c)]
           S1 == Reflag(S, F, S.missed)
<1>1. R = Dirty(S1, hit)
  <2>1. [S EXCEPT !.cl = [c \in Clients |->
                 [S.cl[c] EXCEPT !.stale = (@ \ Unset(c)) \cup Set(c)]]]
          = S1
    BY DEF Reflag, ServerType
  <2> QED
    BY <2>1 DEF TouchAll, There
<1>2. F \in [Clients -> SUBSET Entries]
  BY ClientFields DEF Entries
<1>3. hit \in SUBSET Clients /\ S.missed \in SUBSET Clients
  BY ServerFields
<1>4. \A c \in Clients : \A f \in Entries : f[1] # d => (f \in F[c] <=> f \in S.cl[c].stale)
  OBVIOUS
<1>5. \A c \in Clients : \A k \in Keys :
        <<d, k>> \in F[c] <=>
          IF Watches(c, k)
          THEN IF <<d, k>> \in S.cl[c].stale THEN There(S, r, k) # "absent"
               ELSE S.kv[<<d, k>>] = "absent" /\ There(S, r, k) = "dead"
          ELSE <<d, k>> \in S.cl[c].stale
  <2> SUFFICES ASSUME NEW c \in Clients, NEW k \in Keys
               PROVE <<d, k>> \in F[c] <=>
                       IF Watches(c, k)
                       THEN IF <<d, k>> \in S.cl[c].stale THEN There(S, r, k) # "absent"
                            ELSE S.kv[<<d, k>>] = "absent" /\ There(S, r, k) = "dead"
                       ELSE <<d, k>> \in S.cl[c].stale
    OBVIOUS
  <2>1. F[c] = (S.cl[c].stale \ Unset(c)) \cup Set(c)
    OBVIOUS
  <2>2. <<d, k>> \in Unset(c) <=> /\ Watches(c, k)
                                  /\ <<d, k>> \in S.cl[c].stale
                                  /\ There(S, r, k) = "absent"
    OBVIOUS
  <2>3. <<d, k>> \in Set(c) <=> /\ Watches(c, k)
                                /\ ~(<<d, k>> \in S.cl[c].stale)
                                /\ S.kv[<<d, k>>] = "absent"
                                /\ There(S, r, k) = "dead"
    OBVIOUS
  <2> HIDE DEF F, Unset, Set, Watches
  <2> QED
    BY <2>1, <2>2, <2>3
<1>6. \A c \in Clients : c \in hit <=>
        \E k \in Keys :
          /\ Watches(c, k)
          /\ IF <<d, k>> \in S.cl[c].stale THEN There(S, r, k) = "live"
             ELSE S.kv[<<d, k>>] # "absent" \/ There(S, r, k) # "dead"
  OBVIOUS
<1> HIDE DEF F, hit, S1
<1>7. /\ S1 \in ServerType
      /\ S1.kv = S.kv /\ S1.changed = S.changed /\ S1.missed = S.missed
      /\ S1.watchers = S.watchers /\ S1.before = S.before
      /\ \A c \in Clients :
           /\ S1.cl[c].watched = S.cl[c].watched
           /\ S1.cl[c].stale = F[c]
           /\ S1.cl[c].cas = S.cl[c].cas /\ S1.cl[c].multi = S.cl[c].multi
           /\ S1.cl[c].exec = S.cl[c].exec
  BY <1>2, <1>3, StaleFields DEF S1
<1>8. /\ R \in ServerType
      /\ R.kv = S1.kv /\ R.changed = S1.changed /\ R.missed = S1.missed
      /\ R.watchers = S1.watchers /\ R.before = S1.before
      /\ \A c \in Clients :
           /\ R.cl[c].watched = S1.cl[c].watched
           /\ R.cl[c].stale = S1.cl[c].stale
           /\ R.cl[c].cas = (c \in hit \/ S1.cl[c].cas)
           /\ R.cl[c].multi = S1.cl[c].multi
           /\ R.cl[c].exec = S1.cl[c].exec
  BY <1>1, <1>3, <1>7, DirtyFields
<1>9. \A c \in Clients : R.cl[c].cas <=> c \in hit \/ S.cl[c].cas
  BY <1>7, <1>8
<1>10. \A c \in Clients : R.cl[c].stale = F[c]
  BY <1>7, <1>8
<1> QED
  BY <1>4, <1>5, <1>6, <1>7, <1>8, <1>9, <1>10 DEF Swept

\* Changed(), field by field.
Noted(S, E, R) ==
  /\ R \in ServerType
  /\ R.kv = S.kv /\ R.missed = S.missed /\ R.watchers = S.watchers
  /\ R.before = S.before /\ R.cl = S.cl
  /\ \A c \in Clients : c \in R.changed <=> c \in S.changed \/ \E f \in E : f \in S.cl[c].watched

\* The history variable of a change, field by field.
LEMMA ChangedFields ==
  ASSUME NEW S \in ServerType, NEW E \in SUBSET Entries, NEW R, R = Changed(S, E)
  PROVE  Noted(S, E, R)
<1>1. R = [kv |-> S.kv, watchers |-> S.watchers, before |-> S.before, cl |-> S.cl,
           changed |-> S.changed \cup {c \in Clients : S.cl[c].watched \cap E # {}},
           missed |-> S.missed]
  BY DEF Changed, ServerType
<1>2. R \in ServerType
  BY <1>1, ServerFields DEF ServerType
<1>3. \A c \in Clients : S.cl[c].watched \cap E # {} <=> \E f \in E : f \in S.cl[c].watched
  OBVIOUS
<1> QED
  BY <1>1, <1>2, <1>3 DEF Noted

\* Only the key space changes.
LEMMA SetKvFields ==
  ASSUME NEW S \in ServerType, NEW K \in [Entries -> KeyState], NEW R,
         R = [S EXCEPT !.kv = K]
  PROVE  /\ R \in ServerType
         /\ R.kv = K /\ R.changed = S.changed /\ R.missed = S.missed
         /\ R.watchers = S.watchers /\ R.before = S.before /\ R.cl = S.cl
<1>1. R = [kv |-> K, watchers |-> S.watchers, before |-> S.before, cl |-> S.cl,
           changed |-> S.changed, missed |-> S.missed]
  BY DEF ServerType
<1>2. R \in ServerType
  BY <1>1, ServerFields DEF ServerType, KeyState
<1> QED
  BY <1>1, <1>2

\* An entry is a database and a key of it.
LEMMA EntryParts ==
  ASSUME NEW f \in Entries
  PROVE  f = <<f[1], f[2]>> /\ f[1] \in Dbs /\ f[2] \in Keys
BY DEF Entries

\* emptyData() of a database keeps the invariant.
LEMMA FlushGood ==
  ASSUME NEW S, Good(S), NEW d \in Dbs
  PROVE  /\ Good(FlushDb(S, d))
         /\ \A c \in Clients : Running(S, c) => Running(FlushDb(S, d), c)
<1> DEFINE D == {e \in Entries : e[1] = d}
           E == {e \in Entries : e[1] = d /\ S.kv[e] = "live"}
           K == [e \in Entries |-> IF e[1] = d THEN "absent" ELSE S.kv[e]]
           S1 == Changed(S, E)
           S2 == TouchAll(S1, d, NoDb)
           R == [S2 EXCEPT !.kv = K]
<1>0. S \in ServerType /\ Agree(S)
  BY DEF Good
<1>1. FlushDb(S, d) = R
  BY DEF FlushDb
<1>2. Noted(S, E, S1)
  BY <1>0, ChangedFields
<1>3. S1 \in ServerType
  BY <1>2 DEF Noted
<1>4. Swept(S1, d, NoDb, S2)
  BY <1>3, TouchAllFields
<1>5. S2 \in ServerType
  BY <1>4 DEF Swept
<1>6. K \in [Entries -> KeyState]
  BY <1>0, ServerFields DEF KeyState
<1>7. \A f \in Entries : K[f] = IF f \in D THEN "absent" ELSE S.kv[f]
  OBVIOUS
<1>8. \A f \in Entries : f \in D <=> f[1] = d
  OBVIOUS
<1>9. \A f \in Entries : f \in E <=> f \in D /\ S.kv[f] = "live"
  OBVIOUS
<1>10. D \in SUBSET Entries /\ E \in SUBSET Entries
  OBVIOUS
<1>11. \A k \in Keys : There(S1, NoDb, k) = "absent"
  BY DEF There
<1> HIDE DEF D, E, K, S1, S2
<1>12. /\ R \in ServerType
       /\ R.kv = K /\ R.changed = S2.changed /\ R.missed = S2.missed
       /\ R.watchers = S2.watchers /\ R.before = S2.before /\ R.cl = S2.cl
  BY <1>5, <1>6, SetKvFields
<1> HIDE DEF R
<1>13. Replaced(S, D, K, R)
  <2>1. \A c \in Clients :
          c \in R.changed <=>
            \/ c \in S.changed
            \/ \E f \in D : f \in S.cl[c].watched /\ (S.kv[f] = "live" \/ K[f] = "live")
    <3>1. R.changed = S1.changed
      BY <1>4, <1>12 DEF Swept
    <3>2. \A c \in Clients :
            c \in S1.changed <=> c \in S.changed \/ \E f \in E : f \in S.cl[c].watched
      BY <1>2 DEF Noted
    <3>3. \A f \in D : K[f] # "live" /\ (f \in E <=> S.kv[f] = "live")
      BY <1>7, <1>9, <1>10
    <3>4. \A f \in E : f \in D
      BY <1>9, <1>10
    <3> QED
      BY <3>1, <3>2, <3>3, <3>4
  <2>2. \A c \in Clients : R.cl[c].cas <=> (S.cl[c].cas \/ \E f \in D : Strikes(S, K, c, f))
    <3> SUFFICES ASSUME NEW c \in Clients
                 PROVE  R.cl[c].cas <=> (S.cl[c].cas \/ \E f \in D : Strikes(S, K, c, f))
      OBVIOUS
    <3>1. R.cl[c].cas <=>
            \/ S.cl[c].cas
            \/ \E k \in Keys :
                 /\ c \in S.watchers[<<d, k>>]
                 /\ S.kv[<<d, k>>] # "absent"
                 /\ <<d, k>> \notin S.cl[c].stale
      BY <1>2, <1>4, <1>11, <1>12 DEF Noted, Swept
    <3>2. ASSUME NEW k \in Keys
          PROVE  /\ <<d, k>> \in D
                 /\ Strikes(S, K, c, <<d, k>>) <=> /\ c \in S.watchers[<<d, k>>]
                                                   /\ S.kv[<<d, k>>] # "absent"
                                                   /\ <<d, k>> \notin S.cl[c].stale
      <4>1. <<d, k>> \in Entries /\ <<d, k>> \in D
        BY <1>8 DEF Entries
      <4>2. K[<<d, k>>] = "absent"
        BY <1>7, <4>1
      <4>3. c \in S.watchers[<<d, k>>] <=> <<d, k>> \in S.cl[c].watched
        BY <1>0, <4>1 DEF Agree
      <4> QED
        BY <4>1, <4>2, <4>3 DEF Strikes, Seen
    <3>3. \A f \in D : \E k \in Keys : f = <<d, k>>
      BY <1>8, <1>10, EntryParts
    <3> QED
      BY <3>1, <3>2, <3>3
  <2>3. \A c \in Clients, f \in Entries :
          f \in R.cl[c].stale <=>
            IF f \in D /\ Seen(S, K, c, f)
            THEN IF f \in S.cl[c].stale THEN K[f] # "absent"
                 ELSE S.kv[f] = "absent" /\ K[f] = "dead"
            ELSE f \in S.cl[c].stale
    <3> SUFFICES ASSUME NEW c \in Clients, NEW f \in Entries
                 PROVE  f \in R.cl[c].stale <=>
                          IF f \in D /\ Seen(S, K, c, f)
                          THEN IF f \in S.cl[c].stale THEN K[f] # "absent"
                               ELSE S.kv[f] = "absent" /\ K[f] = "dead"
                          ELSE f \in S.cl[c].stale
      OBVIOUS
    <3>1. CASE f[1] # d
      BY <1>2, <1>4, <1>8, <1>12, <3>1 DEF Noted, Swept
    <3>2. CASE f[1] = d
      <4>1. f = <<d, f[2]>> /\ f[2] \in Keys /\ f \in D
        BY <1>8, <3>2, EntryParts
      <4>2. K[f] = "absent"
        BY <1>7, <4>1
      <4>3. c \in S.watchers[f] <=> f \in S.cl[c].watched
        BY <1>0 DEF Agree
      <4>4. f \in R.cl[c].stale <=>
              IF c \in S.watchers[f] /\ S.kv[f] # "absent"
              THEN FALSE
              ELSE f \in S.cl[c].stale
        BY <1>2, <1>4, <1>11, <1>12, <4>1 DEF Noted, Swept
      <4> QED
        BY <4>1, <4>2, <4>3, <4>4 DEF Seen
    <3> QED
      BY <3>1, <3>2
  <2>4. \A c \in Clients :
          /\ R.cl[c].watched = S.cl[c].watched
          /\ R.cl[c].multi = S.cl[c].multi /\ R.cl[c].exec = S.cl[c].exec
    <3>1. \A c \in Clients :
            /\ S2.cl[c].watched = S1.cl[c].watched
            /\ S2.cl[c].multi = S1.cl[c].multi /\ S2.cl[c].exec = S1.cl[c].exec
      BY <1>4 DEF Swept
    <3>2. S1.cl = S.cl
      BY <1>2 DEF Noted
    <3> QED
      BY <1>12, <3>1, <3>2
  <2>40. \A f \in Entries : f \notin D => K[f] = S.kv[f]
    BY <1>7
  <2>5. R.watchers = S.watchers /\ R.before = S.before /\ R.missed = S.missed
    BY <1>2, <1>4, <1>12 DEF Noted, Swept
  <2> QED
    BY <1>12, <2>1, <2>2, <2>3, <2>4, <2>40, <2>5 DEF Replaced
<1> QED
  BY <1>1, <1>6, <1>10, <1>13, ReplacedGood

\* One pass of SWAPDB, over the database d that gets the keys of r, in terms of
\* the new key space K.
LEMMA SweepOne ==
  ASSUME NEW S \in ServerType, Agree(S), NEW d \in Dbs, NEW r \in Dbs, NEW R,
         Swept(S, d, r, R),
         NEW K \in [Entries -> KeyState],
         \A k \in Keys : K[<<d, k>>] = S.kv[<<r, k>>]
  PROVE  /\ \A c \in Clients :
              R.cl[c].cas <=>
                (S.cl[c].cas \/ \E f \in Entries : f[1] = d /\ Strikes(S, K, c, f))
         /\ \A c \in Clients, f \in Entries : f[1] = d =>
              (f \in R.cl[c].stale <=>
                 IF Seen(S, K, c, f)
                 THEN IF f \in S.cl[c].stale THEN K[f] # "absent"
                      ELSE S.kv[f] = "absent" /\ K[f] = "dead"
                 ELSE f \in S.cl[c].stale)
<1>0. \A k \in Keys : There(S, r, k) = K[<<d, k>>]
  BY WatchAssumption DEF There
<1>1. \A c \in Clients :
        R.cl[c].cas <=>
          (S.cl[c].cas \/ \E f \in Entries : f[1] = d /\ Strikes(S, K, c, f))
  <2> SUFFICES ASSUME NEW c \in Clients
               PROVE  R.cl[c].cas <=>
                        (S.cl[c].cas \/ \E f \in Entries : f[1] = d /\ Strikes(S, K, c, f))
    OBVIOUS
  <2> DEFINE H(k) == /\ c \in S.watchers[<<d, k>>]
                     /\ S.kv[<<d, k>>] # "absent" \/ There(S, r, k) # "absent"
                     /\ IF <<d, k>> \in S.cl[c].stale THEN There(S, r, k) = "live"
                        ELSE S.kv[<<d, k>>] # "absent" \/ There(S, r, k) # "dead"
  <2>1. R.cl[c].cas <=> (S.cl[c].cas \/ \E k \in Keys : H(k))
    BY DEF Swept
  <2>2. ASSUME NEW k \in Keys
        PROVE  /\ <<d, k>> \in Entries /\ <<d, k>>[1] = d
               /\ Strikes(S, K, c, <<d, k>>) <=> H(k)
    <3>1. <<d, k>> \in Entries
      BY DEF Entries
    <3>2. c \in S.watchers[<<d, k>>] <=> <<d, k>> \in S.cl[c].watched
      BY <3>1 DEF Agree
    <3> QED
      BY <1>0, <3>1, <3>2 DEF Strikes, Seen
  <2>3. \A f \in Entries : f[1] = d => \E k \in Keys : f = <<d, k>>
    BY EntryParts
  <2> HIDE DEF H
  <2> QED
    BY <2>1, <2>2, <2>3
<1>2. ASSUME NEW c \in Clients, NEW f \in Entries, f[1] = d
      PROVE  f \in R.cl[c].stale <=>
               IF Seen(S, K, c, f)
               THEN IF f \in S.cl[c].stale THEN K[f] # "absent"
                    ELSE S.kv[f] = "absent" /\ K[f] = "dead"
               ELSE f \in S.cl[c].stale
  <2>1. f = <<d, f[2]>> /\ f[2] \in Keys
    BY <1>2, EntryParts
  <2>2. There(S, r, f[2]) = K[f]
    BY <1>0, <2>1
  <2>3. c \in S.watchers[f] <=> f \in S.cl[c].watched
    BY DEF Agree
  <2>4. f \in R.cl[c].stale <=>
          IF c \in S.watchers[f] /\ (S.kv[f] # "absent" \/ K[f] # "absent")
          THEN IF f \in S.cl[c].stale THEN K[f] # "absent"
               ELSE S.kv[f] = "absent" /\ K[f] = "dead"
          ELSE f \in S.cl[c].stale
    BY <2>1, <2>2 DEF Swept
  <2> QED
    BY <2>3, <2>4 DEF Seen
<1> QED
  BY <1>1, <1>2

\* dbSwapDatabases() keeps the invariant: two sweeps, then the key spaces change places.
LEMMA SwapGood ==
  ASSUME NEW S, Good(S), NEW d1 \in Dbs, NEW d2 \in Dbs
  PROVE  /\ Good(SwapDatabases(S, d1, d2))
         /\ \A c \in Clients : Running(S, c) => Running(SwapDatabases(S, d1, d2), c)
<1>a. CASE d1 = d2
  <2>1. SwapDatabases(S, d1, d2) = S
    BY <1>a DEF SwapDatabases
  <2> QED
    BY <2>1
<1>b. CASE d1 # d2
  <2> DEFINE Partner(d) == IF d = d1 THEN d2 ELSE IF d = d2 THEN d1 ELSE d
             K == [e \in Entries |-> S.kv[<<Partner(e[1]), e[2]>>]]
             D == {e \in Entries : e[1] \in {d1, d2}}
             E == {e \in Entries : e[1] \in {d1, d2} /\ (S.kv[e] = "live" \/ K[e] = "live")}
             S1 == Changed(S, E)
             S2 == TouchAll(S1, d1, d2)
             S3 == TouchAll(S2, d2, d1)
             R == [S3 EXCEPT !.kv = K]
  <2>0. S \in ServerType /\ Agree(S)
    BY DEF Good
  <2>1. SwapDatabases(S, d1, d2) = R
    BY <1>b DEF SwapDatabases
  <2>2. K \in [Entries -> KeyState]
    <3> SUFFICES ASSUME NEW e \in Entries PROVE S.kv[<<Partner(e[1]), e[2]>>] \in KeyState
      OBVIOUS
    <3>1. Partner(e[1]) \in Dbs /\ e[2] \in Keys
      BY EntryParts
    <3>2. <<Partner(e[1]), e[2]>> \in Entries
      BY <3>1 DEF Entries
    <3> QED
      BY <2>0, <3>2, ServerFields DEF KeyState
  <2>3. \A k \in Keys : K[<<d1, k>>] = S.kv[<<d2, k>>] /\ K[<<d2, k>>] = S.kv[<<d1, k>>]
    <3> SUFFICES ASSUME NEW k \in Keys
                 PROVE  K[<<d1, k>>] = S.kv[<<d2, k>>] /\ K[<<d2, k>>] = S.kv[<<d1, k>>]
      OBVIOUS
    <3>1. <<d1, k>> \in Entries /\ <<d2, k>> \in Entries
      BY DEF Entries
    <3> QED
      BY <1>b, <3>1
  <2>4. \A f \in Entries : f \notin D => K[f] = S.kv[f]
    <3> SUFFICES ASSUME NEW f \in Entries, f \notin D PROVE K[f] = S.kv[f]
      OBVIOUS
    <3>1. Partner(f[1]) = f[1]
      OBVIOUS
    <3>2. f = <<f[1], f[2]>>
      BY EntryParts
    <3> QED
      BY <3>1, <3>2
  <2>5. /\ D \in SUBSET Entries /\ E \in SUBSET Entries
        /\ \A f \in Entries : f \in D <=> (f[1] = d1 \/ f[1] = d2)
        /\ \A f \in Entries : f \in E <=> f \in D /\ (S.kv[f] = "live" \/ K[f] = "live")
    OBVIOUS
  <2> HIDE DEF D, E, K, Partner
  <2>6. Noted(S, E, S1)
    BY <2>0, <2>5, ChangedFields
  <2>7. S1 \in ServerType /\ S1.kv = S.kv /\ S1.cl = S.cl /\ S1.watchers = S.watchers
          /\ S1.before = S.before /\ S1.missed = S.missed
    BY <2>6 DEF Noted
  <2>8. Swept(S1, d1, d2, S2)
    BY <2>7, TouchAllFields
  <2> HIDE DEF S1
  <2>9. S2 \in ServerType /\ S2.kv = S.kv /\ S2.watchers = S.watchers /\ S2.before = S.before
          /\ S2.missed = S.missed /\ S2.changed = S1.changed
    BY <2>7, <2>8 DEF Swept
  <2>10. Swept(S2, d2, d1, S3)
    BY <2>9, TouchAllFields
  <2> HIDE DEF S2
  <2>11. S3 \in ServerType /\ S3.kv = S.kv /\ S3.watchers = S.watchers /\ S3.before = S.before
           /\ S3.missed = S.missed /\ S3.changed = S1.changed
    BY <2>9, <2>10 DEF Swept
  <2> HIDE DEF S3
  <2>12. /\ R \in ServerType
         /\ R.kv = K /\ R.changed = S3.changed /\ R.missed = S3.missed
         /\ R.watchers = S3.watchers /\ R.before = S3.before /\ R.cl = S3.cl
    BY <2>2, <2>11, SetKvFields
  <2> HIDE DEF R
  <2>13. \A c \in Clients :
           /\ S2.cl[c].watched = S.cl[c].watched
           /\ S2.cl[c].multi = S.cl[c].multi /\ S2.cl[c].exec = S.cl[c].exec
           /\ \A f \in Entries : f[1] # d1 => (f \in S2.cl[c].stale <=> f \in S.cl[c].stale)
    <3>1. \A c \in Clients :
            /\ S2.cl[c].watched = S1.cl[c].watched
            /\ S2.cl[c].multi = S1.cl[c].multi /\ S2.cl[c].exec = S1.cl[c].exec
            /\ \A f \in Entries : f[1] # d1 => (f \in S2.cl[c].stale <=> f \in S1.cl[c].stale)
      BY <2>8 DEF Swept
    <3> QED
      BY <2>7, <3>1
  <2>14. \A c \in Clients :
           /\ S3.cl[c].watched = S2.cl[c].watched
           /\ S3.cl[c].multi = S2.cl[c].multi /\ S3.cl[c].exec = S2.cl[c].exec
           /\ \A f \in Entries : f[1] # d2 => (f \in S3.cl[c].stale <=> f \in S2.cl[c].stale)
    BY <2>10 DEF Swept
  <2>15. Agree(S1)
    BY <2>0, <2>7 DEF Agree
  <2>16. Agree(S2)
    <3>1. \A c \in Clients : S2.cl[c].stale \subseteq S2.cl[c].watched
      <4> SUFFICES ASSUME NEW c \in Clients, NEW f \in S2.cl[c].stale
                   PROVE  f \in S.cl[c].watched
        BY <2>13
      <4>1. f \in Entries
        BY <2>9, ClientFields
      <4>2. CASE f[1] # d1
        BY <2>0, <2>13, <4>1, <4>2 DEF Agree
      <4>3. CASE f[1] = d1
        <5>1. f = <<d1, f[2]>> /\ f[2] \in Keys
          BY <4>1, <4>3, EntryParts
        <5>2. c \in S.watchers[f] \/ f \in S.cl[c].stale
          BY <2>7, <2>8, <5>1 DEF Swept
        <5> QED
          BY <2>0, <4>1, <5>2 DEF Agree
      <4> QED
        BY <4>2, <4>3
    <3> QED
      BY <2>0, <2>9, <2>13, <3>1 DEF Agree
  <2>17. /\ \A c \in Clients :
              S2.cl[c].cas <=>
                (S1.cl[c].cas \/ \E f \in Entries : f[1] = d1 /\ Strikes(S1, K, c, f))
         /\ \A c \in Clients, f \in Entries : f[1] = d1 =>
              (f \in S2.cl[c].stale <=>
                 IF Seen(S1, K, c, f)
                 THEN IF f \in S1.cl[c].stale THEN K[f] # "absent"
                      ELSE S1.kv[f] = "absent" /\ K[f] = "dead"
                 ELSE f \in S1.cl[c].stale)
    <3>1. \A k \in Keys : K[<<d1, k>>] = S1.kv[<<d2, k>>]
      BY <2>3, <2>7
    <3> QED
      BY <2>2, <2>7, <2>8, <2>15, <3>1, SweepOne
  <2>18. /\ \A c \in Clients :
              S3.cl[c].cas <=>
                (S2.cl[c].cas \/ \E f \in Entries : f[1] = d2 /\ Strikes(S2, K, c, f))
         /\ \A c \in Clients, f \in Entries : f[1] = d2 =>
              (f \in S3.cl[c].stale <=>
                 IF Seen(S2, K, c, f)
                 THEN IF f \in S2.cl[c].stale THEN K[f] # "absent"
                      ELSE S2.kv[f] = "absent" /\ K[f] = "dead"
                 ELSE f \in S2.cl[c].stale)
    <3>1. \A k \in Keys : K[<<d2, k>>] = S2.kv[<<d1, k>>]
      BY <2>3, <2>9
    <3> QED
      BY <2>2, <2>9, <2>10, <2>16, <3>1, SweepOne
  <2>19. \A c \in Clients, f \in Entries :
           /\ Seen(S1, K, c, f) <=> Seen(S, K, c, f)
           /\ Strikes(S1, K, c, f) <=> Strikes(S, K, c, f)
    BY <2>7 DEF Strikes, Seen
  <2>20. \A c \in Clients, f \in Entries : f[1] = d2 =>
           /\ Seen(S2, K, c, f) <=> Seen(S, K, c, f)
           /\ Strikes(S2, K, c, f) <=> Strikes(S, K, c, f)
    BY <1>b, <2>9, <2>13 DEF Strikes, Seen
  <2>21. \A c \in Clients : R.cl[c].cas <=> (S.cl[c].cas \/ \E f \in D : Strikes(S, K, c, f))
    <3> SUFFICES ASSUME NEW c \in Clients
                 PROVE  S3.cl[c].cas <=> (S.cl[c].cas \/ \E f \in D : Strikes(S, K, c, f))
      BY <2>12
    <3>1. S2.cl[c].cas <=>
            (S1.cl[c].cas \/ \E f \in Entries : f[1] = d1 /\ Strikes(S1, K, c, f))
      BY <2>17
    <3>2. S3.cl[c].cas <=>
            (S2.cl[c].cas \/ \E f \in Entries : f[1] = d2 /\ Strikes(S2, K, c, f))
      BY <2>18
    <3>3. \A f \in Entries : f[1] = d1 => (Strikes(S1, K, c, f) <=> Strikes(S, K, c, f))
      BY <2>19
    <3>4. \A f \in Entries : f[1] = d2 => (Strikes(S2, K, c, f) <=> Strikes(S, K, c, f))
      BY <2>20
    <3>5. S1.cl[c].cas <=> S.cl[c].cas
      BY <2>7
    <3> QED
      BY <2>5, <3>1, <3>2, <3>3, <3>4, <3>5
  <2>22. \A c \in Clients, f \in Entries :
           f \in R.cl[c].stale <=>
             IF f \in D /\ Seen(S, K, c, f)
             THEN IF f \in S.cl[c].stale THEN K[f] # "absent"
                  ELSE S.kv[f] = "absent" /\ K[f] = "dead"
             ELSE f \in S.cl[c].stale
    <3> SUFFICES ASSUME NEW c \in Clients, NEW f \in Entries
                 PROVE  f \in S3.cl[c].stale <=>
                          IF f \in D /\ Seen(S, K, c, f)
                          THEN IF f \in S.cl[c].stale THEN K[f] # "absent"
                               ELSE S.kv[f] = "absent" /\ K[f] = "dead"
                          ELSE f \in S.cl[c].stale
      BY <2>12
    <3>1. CASE f[1] = d1
      BY <1>b, <2>5, <2>7, <2>14, <2>17, <2>19, <3>1
    <3>2. CASE f[1] = d2
      BY <1>b, <2>5, <2>9, <2>13, <2>18, <2>20, <3>2
    <3>3. CASE f[1] # d1 /\ f[1] # d2
      BY <2>5, <2>13, <2>14, <3>3
    <3> QED
      BY <3>1, <3>2, <3>3
  <2>23. \A c \in Clients :
           c \in R.changed <=>
             \/ c \in S.changed
             \/ \E f \in D : f \in S.cl[c].watched /\ (S.kv[f] = "live" \/ K[f] = "live")
    <3>1. \A c \in Clients :
            c \in S1.changed <=> c \in S.changed \/ \E f \in E : f \in S.cl[c].watched
      BY <2>6 DEF Noted
    <3>2. R.changed = S1.changed
      BY <2>11, <2>12
    <3>3. \A f \in Entries : f \in E <=> f \in D /\ (S.kv[f] = "live" \/ K[f] = "live")
      BY <2>5
    <3> QED
      BY <2>5, <3>1, <3>2, <3>3
  <2>24. \A c \in Clients :
           /\ R.cl[c].watched = S.cl[c].watched
           /\ R.cl[c].multi = S.cl[c].multi /\ R.cl[c].exec = S.cl[c].exec
    <3> SUFFICES ASSUME NEW c \in Clients
                 PROVE  /\ S3.cl[c].watched = S.cl[c].watched
                        /\ S3.cl[c].multi = S.cl[c].multi /\ S3.cl[c].exec = S.cl[c].exec
      BY <2>12
    <3>1. /\ S3.cl[c].watched = S2.cl[c].watched
          /\ S3.cl[c].multi = S2.cl[c].multi /\ S3.cl[c].exec = S2.cl[c].exec
      BY <2>14
    <3>2. /\ S2.cl[c].watched = S.cl[c].watched
          /\ S2.cl[c].multi = S.cl[c].multi /\ S2.cl[c].exec = S.cl[c].exec
      BY <2>13
    <3> QED
      BY <3>1, <3>2
  <2>25. Replaced(S, D, K, R)
    BY <2>4, <2>11, <2>12, <2>21, <2>22, <2>23, <2>24 DEF Replaced
  <2> QED
    BY <2>1, <2>2, <2>5, <2>25, ReplacedGood
<1> QED
  BY <1>a, <1>b

-----------------------------------------------------------------------------
(* The client's own state.                                                 *)

\* R is S but for the client c, which watches nothing any more.
Released(S, c, R) ==
  /\ R \in ServerType
  /\ R.kv = S.kv
  /\ \A e \in Entries : R.watchers[e] = S.watchers[e] \ {c}
  /\ \A e \in Entries : R.before[e] = {p \in S.before[e] : p[1] # c /\ p[2] # c}
  /\ \A b \in Clients : b # c => R.cl[b] = S.cl[b]
  /\ \A b \in Clients : b # c => /\ b \in R.changed <=> b \in S.changed
                                 /\ b \in R.missed <=> b \in S.missed
  /\ R.cl[c].watched = {} /\ R.cl[c].stale = {}

\* A client that stops watching keeps the invariant.
LEMMA ReleasedGood ==
  ASSUME NEW S, Good(S), NEW c \in Clients, NEW R, Released(S, c, R),
         R.cl[c].cas => c \in R.changed,
         c \in R.changed => R.cl[c].cas \/ c \in R.missed
  PROVE  Good(R)
<1>0. S \in ServerType /\ R \in ServerType
  BY DEF Good, Released
<1>1. Agree(R)
  <2>1. \A b \in Clients, e \in Entries : b \in R.watchers[e] <=> e \in R.cl[b].watched
    BY DEF Good, Agree, Released
  <2>2. \A b \in Clients : R.cl[b].stale \subseteq R.cl[b].watched
    BY DEF Good, Agree, Released
  <2>3. \A e \in Entries : R.before[e] \subseteq R.watchers[e] \X R.watchers[e]
    BY DEF Good, Agree, Released
  <2> QED
    BY <2>1, <2>2, <2>3 DEF Agree
<1>2. StaleIsDead(R)
  BY DEF Good, StaleIsDead, Released
<1>3. LapsedIsChange(R)
  BY DEF Good, LapsedIsChange, Released
<1>4. ChangeDetected(R)
  <2> SUFFICES ASSUME NEW b \in R.changed, b # c
               PROVE  \/ R.cl[b].cas
                      \/ b \in R.missed
                      \/ \E e \in R.cl[b].watched \ R.cl[b].stale : R.kv[e] = "dead"
    BY DEF ChangeDetected
  <2>1. b \in Clients
    BY <1>0, ServerFields
  <2> QED
    BY <2>1 DEF Good, ChangeDetected, Released
<1>5. DirtyIsChange(R)
  BY DEF Good, DirtyIsChange, Released
<1> QED
  BY <1>0, <1>1, <1>2, <1>3, <1>4, <1>5 DEF Good

\* unwatchAllKeys() of one client releases it.
LEMMA UnwatchKeysReleased ==
  ASSUME NEW S \in ServerType, NEW c \in Clients, NEW R, R = UnwatchAllKeys(S, {c})
  PROVE  /\ Released(S, c, R)
         /\ R.changed = S.changed /\ R.missed = S.missed
         /\ R.cl[c].cas = S.cl[c].cas /\ R.cl[c].multi = S.cl[c].multi
         /\ R.cl[c].exec = S.cl[c].exec /\ R.cl[c].queue = S.cl[c].queue
<1>1. /\ R \in ServerType
      /\ R.kv = S.kv /\ R.changed = S.changed /\ R.missed = S.missed
      /\ \A e \in Entries : R.watchers[e] = S.watchers[e] \ {c}
      /\ \A e \in Entries : R.before[e] = {p \in S.before[e] : p[1] \notin {c} /\ p[2] \notin {c}}
      /\ \A b \in Clients :
           /\ R.cl[b].watched = IF b \in {c} THEN {} ELSE S.cl[b].watched
           /\ R.cl[b].stale = IF b \in {c} THEN {} ELSE S.cl[b].stale
           /\ R.cl[b].cas = S.cl[b].cas /\ R.cl[b].multi = S.cl[b].multi
           /\ R.cl[b].exec = S.cl[b].exec /\ R.cl[b].queue = S.cl[b].queue
  <2>1. {c} \in SUBSET Clients
    OBVIOUS
  <2> QED
    BY <2>1, UnwatchFields
<1>2. \A b \in Clients : b # c => R.cl[b] = S.cl[b]
  BY DEF UnwatchAllKeys, ServerType
<1>3. \A e \in Entries : {p \in S.before[e] : p[1] \notin {c} /\ p[2] \notin {c}}
                           = {p \in S.before[e] : p[1] # c /\ p[2] # c}
  OBVIOUS
<1> QED
  BY <1>1, <1>2, <1>3 DEF Released

\* UNWATCH releases the client and clears its flag.
LEMMA UnwatchReleased ==
  ASSUME NEW S \in ServerType, NEW c \in Clients, NEW R, R = Unwatch(S, c)
  PROVE  /\ Released(S, c, R)
         /\ c \notin R.changed /\ R.cl[c].cas = FALSE
         /\ R.cl[c].multi = S.cl[c].multi /\ R.cl[c].exec = S.cl[c].exec
<1> DEFINE S1 == UnwatchAllKeys(S, {c})
<1>1. /\ Released(S, c, S1)
      /\ S1.changed = S.changed /\ S1.missed = S.missed
      /\ S1.cl[c].multi = S.cl[c].multi /\ S1.cl[c].exec = S.cl[c].exec
  BY UnwatchKeysReleased
<1>2. R = [S1 EXCEPT !.cl[c].cas = FALSE, !.changed = @ \ {c}, !.missed = @ \ {c}]
  BY DEF Unwatch
<1>3. S1 \in ServerType
  BY <1>1 DEF Released
<1> HIDE DEF S1
<1> DEFINE X == [S1.cl EXCEPT ![c] = [S1.cl[c] EXCEPT !.cas = FALSE]]
<1>4. R = [kv |-> S1.kv, watchers |-> S1.watchers, before |-> S1.before, cl |-> X,
           changed |-> S1.changed \ {c}, missed |-> S1.missed \ {c}]
  BY <1>2, <1>3 DEF ServerType
<1>5. /\ S1.cl[c] \in ClientType
      /\ [S1.cl[c] EXCEPT !.cas = FALSE] \in ClientType
      /\ [S1.cl[c] EXCEPT !.cas = FALSE].cas = FALSE
      /\ [S1.cl[c] EXCEPT !.cas = FALSE].watched = S1.cl[c].watched
      /\ [S1.cl[c] EXCEPT !.cas = FALSE].stale = S1.cl[c].stale
      /\ [S1.cl[c] EXCEPT !.cas = FALSE].multi = S1.cl[c].multi
      /\ [S1.cl[c] EXCEPT !.cas = FALSE].exec = S1.cl[c].exec
  BY <1>3, ClientFields DEF ClientType
<1>6. /\ X \in [Clients -> ClientType]
      /\ X[c] = [S1.cl[c] EXCEPT !.cas = FALSE]
      /\ \A b \in Clients : b # c => X[b] = S1.cl[b]
  BY <1>3, <1>5, ServerFields
<1> HIDE DEF X
<1>7. R \in ServerType
  BY <1>3, <1>4, <1>6, ServerFields DEF ServerType
<1>8. /\ R.cl[c].watched = {} /\ R.cl[c].stale = {}
      /\ R.cl[c].cas = FALSE
      /\ R.cl[c].multi = S.cl[c].multi /\ R.cl[c].exec = S.cl[c].exec
  <2>1. R.cl[c] = [S1.cl[c] EXCEPT !.cas = FALSE]
    BY <1>4, <1>6
  <2>2. S1.cl[c].watched = {} /\ S1.cl[c].stale = {}
    BY <1>1 DEF Released
  <2> QED
    BY <1>1, <1>5, <2>1, <2>2
<1>9. Released(S, c, R)
  <2>1. /\ R.kv = S1.kv /\ R.watchers = S1.watchers /\ R.before = S1.before
        /\ R.changed = S1.changed \ {c} /\ R.missed = S1.missed \ {c}
        /\ \A b \in Clients : b # c => R.cl[b] = S1.cl[b]
    BY <1>4, <1>6
  <2> QED
    BY <1>1, <1>7, <1>8, <2>1 DEF Released
<1>10. c \notin R.changed
  BY <1>4
<1> QED
  BY <1>8, <1>9, <1>10

\* R is S with x for the record of the client c.
Own(S, c, x, R) ==
  /\ R \in ServerType
  /\ R.kv = S.kv /\ R.watchers = S.watchers /\ R.before = S.before
  /\ R.changed = S.changed /\ R.missed = S.missed
  /\ R.cl[c] = x
  /\ \A b \in Clients : b # c => R.cl[b] = S.cl[b]

\* A record of a client is replaced, field by field.
LEMMA OwnFields ==
  ASSUME NEW S \in ServerType, NEW c \in Clients, NEW x \in ClientType, NEW R,
         R = [S EXCEPT !.cl[c] = x]
  PROVE  Own(S, c, x, R)
<1> DEFINE X == [S.cl EXCEPT ![c] = x]
<1>1. R = [kv |-> S.kv, watchers |-> S.watchers, before |-> S.before, cl |-> X,
           changed |-> S.changed, missed |-> S.missed]
  BY DEF ServerType
<1>2. /\ X \in [Clients -> ClientType]
      /\ X[c] = x
      /\ \A b \in Clients : b # c => X[b] = S.cl[b]
  BY ServerFields
<1> HIDE DEF X
<1>3. R \in ServerType
  BY <1>1, <1>2, ServerFields DEF ServerType
<1> QED
  BY <1>1, <1>2, <1>3 DEF Own

\* MULTI, a queued or rejected command, SELECT: c keeps its watches.
LEMMA OwnGood ==
  ASSUME NEW S, Good(S), NEW c \in Clients, NEW x \in ClientType, NEW R,
         Own(S, c, x, R),
         x.watched = S.cl[c].watched, x.stale = S.cl[c].stale, x.cas = S.cl[c].cas
  PROVE  Good(R)
<1>0. S \in ServerType /\ R \in ServerType
  BY DEF Good, Own
<1>1. \A b \in Clients : /\ R.cl[b].watched = S.cl[b].watched
                         /\ R.cl[b].stale = S.cl[b].stale
                         /\ R.cl[b].cas = S.cl[b].cas
  BY DEF Own
<1>2. /\ R.kv = S.kv /\ R.watchers = S.watchers /\ R.before = S.before
      /\ R.changed = S.changed /\ R.missed = S.missed
  BY DEF Own
<1>3. Agree(R)
  BY <1>1, <1>2 DEF Good, Agree
<1>4. StaleIsDead(R)
  BY <1>1, <1>2 DEF Good, StaleIsDead
<1>5. LapsedIsChange(R)
  BY <1>1, <1>2 DEF Good, LapsedIsChange
<1>6. ChangeDetected(R)
  <2>1. R.changed \subseteq Clients
    BY <1>0, ServerFields
  <2> QED
    BY <1>1, <1>2, <2>1 DEF Good, ChangeDetected
<1>7. DirtyIsChange(R)
  BY <1>1, <1>2 DEF Good, DirtyIsChange
<1> QED
  BY <1>0, <1>3, <1>4, <1>5, <1>6, <1>7 DEF Good

\* UNWATCH keeps the invariant.
LEMMA UnwatchGood ==
  ASSUME NEW S, Good(S), NEW c \in Clients
  PROVE  Good(Unwatch(S, c))
<1>1. S \in ServerType
  BY DEF Good
<1>2. /\ Released(S, c, Unwatch(S, c))
      /\ c \notin Unwatch(S, c).changed /\ Unwatch(S, c).cl[c].cas = FALSE
  BY <1>1, UnwatchReleased
<1> QED
  BY <1>2, ReleasedGood

\* discardTransaction() keeps the invariant, and leaves the others alone.
LEMMA DiscardGood ==
  ASSUME NEW S, Good(S), NEW c \in Clients, NEW R, R = DiscardTransaction(S, c)
  PROVE  Good(R) /\ R.cl[c] \in ClientType
<1> DEFINE U == Unwatch(S, c)
           x == [U.cl[c] EXCEPT !.multi = FALSE, !.exec = FALSE, !.queue = <<>>]
<1>1. Good(U) /\ U \in ServerType
  BY UnwatchGood DEF Good
<1>2. R = [U EXCEPT !.cl[c] = x]
  BY <1>1, ServerFields DEF DiscardTransaction, ServerType
<1> HIDE DEF U
<1>3. /\ x \in ClientType
      /\ x.watched = U.cl[c].watched /\ x.stale = U.cl[c].stale /\ x.cas = U.cl[c].cas
  <2>1. U.cl[c] \in ClientType
    BY <1>1, ClientFields
  <2>2. <<>> \in Seq(Commands)
    OBVIOUS
  <2> QED
    BY <2>1, <2>2 DEF ClientType
<1> HIDE DEF x
<1>4. Own(U, c, x, R)
  BY <1>1, <1>2, <1>3, OwnFields
<1>5. Good(R)
  BY <1>1, <1>3, <1>4, OwnGood
<1>6. R.cl[c] = x
  BY <1>4 DEF Own
<1> QED
  BY <1>3, <1>5, <1>6

\* watchForKey() keeps the invariant: a dead key gets the flag.
LEMMA WatchForKeyGood ==
  ASSUME NEW S, Good(S), NEW c \in Clients, NEW e \in Entries,
         NEW R, R = WatchForKey(S, c, e)
  PROVE  Good(R)
<1>0. S \in ServerType /\ Agree(S)
  BY DEF Good
<1>1. CASE e \in S.cl[c].watched
  <2>1. R = S
    BY <1>1 DEF WatchForKey
  <2> QED
    BY <2>1
<1>2. CASE e \notin S.cl[c].watched
  <2> DEFINE x == [S.cl[c] EXCEPT !.watched = @ \cup {e},
                                  !.stale = IF S.kv[e] = "dead" THEN @ \cup {e} ELSE @]
             W == [S.watchers EXCEPT ![e] = @ \cup {c}]
             B == [S.before EXCEPT ![e] = @ \cup (S.watchers[e] \X {c})]
             X == [S.cl EXCEPT ![c] = x]
  <2>1. R = [kv |-> S.kv, watchers |-> W, before |-> B, cl |-> X,
             changed |-> S.changed, missed |-> S.missed]
    BY <1>0, <1>2, ServerFields DEF WatchForKey, ServerType
  <2>2. /\ x \in ClientType
        /\ x.watched = S.cl[c].watched \cup {e}
        /\ x.stale = IF S.kv[e] = "dead" THEN S.cl[c].stale \cup {e} ELSE S.cl[c].stale
        /\ x.cas = S.cl[c].cas
    <3>1. S.cl[c] \in ClientType
      BY <1>0, ClientFields
    <3> QED
      BY <3>1 DEF ClientType
  <2> HIDE DEF x
  <2>3. /\ W \in [Entries -> SUBSET Clients]
        /\ \A f \in Entries : W[f] = IF f = e THEN S.watchers[e] \cup {c} ELSE S.watchers[f]
    BY <1>0, ServerFields
  <2>4. /\ B \in [Entries -> SUBSET (Clients \X Clients)]
        /\ \A f \in Entries : B[f] = IF f = e THEN S.before[e] \cup (S.watchers[e] \X {c})
                                     ELSE S.before[f]
    BY <1>0, ServerFields
  <2>5. /\ X \in [Clients -> ClientType]
        /\ \A b \in Clients : X[b] = IF b = c THEN x ELSE S.cl[b]
    BY <1>0, <2>2, ServerFields
  <2> HIDE DEF W, B, X
  <2>6. R \in ServerType
    BY <1>0, <2>1, <2>3, <2>4, <2>5, ServerFields DEF ServerType
  <2>7. Agree(R)
    <3>1. \A b \in Clients, f \in Entries : b \in R.watchers[f] <=> f \in R.cl[b].watched
      BY <1>0, <2>1, <2>2, <2>3, <2>5 DEF Agree
    <3>2. ASSUME NEW b \in Clients PROVE R.cl[b].stale \subseteq R.cl[b].watched
      <4>1. S.cl[b].stale \subseteq S.cl[b].watched
        BY <1>0 DEF Agree
      <4>2. R.cl[b] = IF b = c THEN x ELSE S.cl[b]
        BY <2>1, <2>5
      <4> QED
        BY <2>2, <4>1, <4>2
    <3>3. ASSUME NEW f \in Entries
          PROVE  R.before[f] \subseteq R.watchers[f] \X R.watchers[f]
      <4>1. S.before[f] \subseteq S.watchers[f] \X S.watchers[f]
        BY <1>0 DEF Agree
      <4>2. R.before[f] = B[f] /\ R.watchers[f] = W[f]
        BY <2>1
      <4>3. CASE f = e
        BY <2>3, <2>4, <4>1, <4>2, <4>3
      <4>4. CASE f # e
        BY <2>3, <2>4, <4>1, <4>2, <4>4
      <4> QED
        BY <4>3, <4>4
    <3> QED
      BY <3>1, <3>2, <3>3 DEF Agree
  <2>8. StaleIsDead(R)
    BY <2>1, <2>2, <2>5 DEF Good, StaleIsDead
  <2>9. LapsedIsChange(R)
    BY <2>1, <2>2, <2>5 DEF Good, LapsedIsChange
  <2>10. ChangeDetected(R)
    <3> SUFFICES ASSUME NEW b \in S.changed, ~R.cl[b].cas, b \notin S.missed
                 PROVE  \E f \in R.cl[b].watched \ R.cl[b].stale : S.kv[f] = "dead"
      BY <2>1 DEF ChangeDetected
    <3>0. b \in Clients
      BY <1>0, ServerFields
    <3>1. ~S.cl[b].cas
      BY <2>1, <2>2, <2>5, <3>0
    <3>2. PICK f \in S.cl[b].watched \ S.cl[b].stale : S.kv[f] = "dead"
      BY <3>0, <3>1 DEF Good, ChangeDetected
    <3>3. f # e \/ b # c
      BY <1>2, <3>2
    <3>4. f \in R.cl[b].watched \ R.cl[b].stale
      BY <2>1, <2>2, <2>5, <3>0, <3>2, <3>3
    <3> QED
      BY <3>2, <3>4
  <2>11. DirtyIsChange(R)
    BY <2>1, <2>2, <2>5 DEF Good, DirtyIsChange
  <2> QED
    BY <2>6, <2>7, <2>8, <2>9, <2>10, <2>11 DEF Good
<1> QED
  BY <1>1, <1>2

\* A key lapses: its watchers without the flag see the change, and
\* isWatchedKeyExpired() will.
LEMMA LapseGood ==
  ASSUME NEW S, Good(S), NEW e \in Entries, S.kv[e] = "live",
         NEW R, R = Event(S, {e}, e, "dead")
  PROVE  Good(R)
<1>0. S \in ServerType
  BY DEF Good
<1>1. /\ R \in ServerType
      /\ R.kv = [S.kv EXCEPT ![e] = "dead"]
      /\ R.changed = S.changed \cup {c \in Clients : S.cl[c].watched \cap {e} # {}}
      /\ R.missed = S.missed /\ R.watchers = S.watchers /\ R.before = S.before
      /\ R.cl = S.cl
  <2>1. {e} \in SUBSET Entries /\ "dead" \in KeyState
    BY DEF KeyState
  <2>2. Happened(S, {e}, e, "dead", R)
    BY <1>0, <2>1, EventFields
  <2> QED
    BY <2>2 DEF Happened
<1>2. R.kv[e] = "dead" /\ \A f \in Entries : f # e => R.kv[f] = S.kv[f]
  BY <1>0, <1>1, ServerFields
<1>3. \A c \in Clients : c \in R.changed <=> c \in S.changed \/ e \in S.cl[c].watched
  BY <1>0, <1>1, ServerFields
<1>4. Agree(R)
  BY <1>1 DEF Good, Agree
<1>5. DirtyIsChange(R)
  BY <1>1, <1>3 DEF Good, DirtyIsChange
<1>6. LapsedIsChange(R)
  <2> SUFFICES ASSUME NEW c \in Clients, NEW f \in S.cl[c].watched \ S.cl[c].stale,
                      R.kv[f] = "dead"
               PROVE  c \in R.changed
    BY <1>1 DEF LapsedIsChange
  <2>1. f \in Entries
    BY <1>0, ClientFields
  <2>2. CASE f = e
    BY <1>3, <2>2
  <2>3. CASE f # e
    BY <1>2, <1>3, <2>1, <2>3 DEF Good, LapsedIsChange
  <2> QED
    BY <2>2, <2>3
<1>7. StaleIsDead(R)
  <2> SUFFICES ASSUME NEW c \in Clients, NEW f \in S.cl[c].stale
               PROVE  R.kv[f] = "dead" \/ S.cl[c].cas
    BY <1>1 DEF StaleIsDead
  <2>1. f \in Entries
    BY <1>0, ClientFields
  <2> QED
    BY <1>2, <2>1 DEF Good, StaleIsDead
<1>8. ChangeDetected(R)
  <2> SUFFICES ASSUME NEW c \in R.changed, ~S.cl[c].cas, c \notin S.missed
               PROVE  \E f \in S.cl[c].watched \ S.cl[c].stale : R.kv[f] = "dead"
    BY <1>1 DEF ChangeDetected
  <2>0. c \in Clients
    BY <1>1, ServerFields
  <2>1. CASE e \in S.cl[c].watched
    <3>1. e \notin S.cl[c].stale
      BY <2>0 DEF Good, StaleIsDead
    <3> QED
      BY <1>2, <2>1, <3>1
  <2>2. CASE e \notin S.cl[c].watched
    <3>1. PICK f \in S.cl[c].watched \ S.cl[c].stale : S.kv[f] = "dead"
      BY <1>3, <2>0, <2>2 DEF Good, ChangeDetected
    <3> QED
      BY <1>0, <1>2, <2>0, <2>2, <3>1, ClientFields
  <2> QED
    BY <2>1, <2>2
<1> QED
  BY <1>1, <1>4, <1>5, <1>6, <1>7, <1>8 DEF Good

\* A field of a client that has nothing to do with WATCH is set.
LEMMA SetGood ==
  ASSUME NEW S, Good(S), NEW c \in Clients, NEW x \in ClientType, NEW R,
         x.watched = S.cl[c].watched, x.stale = S.cl[c].stale, x.cas = S.cl[c].cas,
         R = [S EXCEPT !.cl[c] = x]
  PROVE  Good(R) /\ R \in ServerType /\ R.cl[c] = x
<1>1. Own(S, c, x, R)
  BY OwnFields DEF Good
<1>2. Good(R)
  BY <1>1, OwnGood
<1> QED
  BY <1>1, <1>2 DEF Own

\* One command keeps the invariant, and the transaction it belongs to intact.
LEMMA CallGood ==
  ASSUME NEW S, Good(S), NEW c \in Clients, NEW cmd \in CommandType
  PROVE  /\ Good(Call(S, c, cmd))
         /\ Running(S, c) => Running(Call(S, c, cmd), c)
<1> DEFINE d == S.cl[c].db
           R == Call(S, c, cmd)
<1>0. S \in ServerType /\ S.cl[c] \in ClientType /\ d \in Dbs
  BY ClientFields DEF Good, ClientType
<1>1. CASE cmd.op \in {"set", "del", "get"}
  <2>1. cmd.key \in Keys
    BY <1>1 DEF CommandType
  <2>2. <<d, cmd.key>> \in Entries
    BY <1>0, <2>1 DEF Entries
  <2>3. CASE cmd.op = "set"
    <3>1. R = Write(S, <<d, cmd.key>>)
      BY <2>3 DEF Call
    <3> QED
      BY <2>2, <3>1, WriteGood
  <2>4. CASE cmd.op = "del"
    <3>1. R = DelKey(S, <<d, cmd.key>>)
      BY <2>4 DEF Call
    <3> QED
      BY <2>2, <3>1, DelKeyGood
  <2>5. CASE cmd.op = "get"
    <3>1. R = Reclaim(S, <<d, cmd.key>>)
      BY <2>5 DEF Call
    <3> QED
      BY <2>2, <3>1, ReclaimGood
  <2> QED
    BY <1>1, <2>3, <2>4, <2>5
<1>2. CASE cmd.op = "flushdb"
  <2>1. R = FlushDb(S, d)
    BY <1>2 DEF Call
  <2> QED
    BY <1>0, <2>1, FlushGood
<1>3. CASE cmd.op = "swapdb"
  <2>1. R = SwapDatabases(S, cmd.db, cmd.with)
    BY <1>3 DEF Call
  <2>2. cmd.db \in Dbs /\ cmd.with \in Dbs
    BY <1>3 DEF CommandType
  <2> QED
    BY <2>1, <2>2, SwapGood
<1>4. CASE cmd.op = "select"
  <2> DEFINE x == [S.cl[c] EXCEPT !.db = cmd.db]
  <2>1. cmd.db \in Dbs
    BY <1>4 DEF CommandType
  <2>2. /\ x \in ClientType
        /\ x.watched = S.cl[c].watched /\ x.stale = S.cl[c].stale /\ x.cas = S.cl[c].cas
        /\ x.multi = S.cl[c].multi /\ x.exec = S.cl[c].exec
    BY <1>0, <2>1 DEF ClientType
  <2>3. R = [S EXCEPT !.cl[c] = x]
    BY <1>4 DEF Call
  <2> HIDE DEF R, x
  <2>4. Own(S, c, x, R)
    BY <1>0, <2>2, <2>3, OwnFields
  <2>5. Good(R) /\ R.cl[c] = x
    BY <2>2, <2>4, OwnGood DEF Own
  <2>6. Running(S, c) => Running(R, c)
    BY <2>2, <2>5 DEF Running
  <2> QED
    BY <2>5, <2>6 DEF R
<1>5. CASE cmd.op = "unwatch"
  <2>1. R = Unwatch(S, c)
    BY <1>5 DEF Call
  <2>2. Good(R)
    BY <2>1, UnwatchGood
  <2>3. /\ Released(S, c, R) /\ R.cl[c].cas = FALSE
        /\ R.cl[c].multi = S.cl[c].multi /\ R.cl[c].exec = S.cl[c].exec
    BY <1>0, <2>1, UnwatchReleased
  <2> QED
    BY <2>2, <2>3 DEF Running, Released
<1>6. cmd.op \in {"set", "del", "get"} \/ cmd.op \in {"flushdb", "unwatch", "select", "swapdb"}
  BY DEF CommandType
<1> QED
  BY <1>1, <1>2, <1>3, <1>4, <1>5, <1>6

-----------------------------------------------------------------------------
(* The inductive invariant, and the theorems.                              *)

IInv ==
  /\ Good(Server)
  /\ inExec \in Clients \cup {NoClient}
  /\ inExec # NoClient => Running(Server, inExec)

\* The server is what it becomes.
LEMMA BecomesServer ==
  ASSUME NEW S \in ServerType, Becomes(S)
  PROVE  Server' = S
<1>1. S = [kv |-> S.kv, watchers |-> S.watchers, before |-> S.before, cl |-> S.cl,
           changed |-> S.changed, missed |-> S.missed]
  BY DEF ServerType
<1> QED
  BY <1>1 DEF Becomes, Server

\* The server starts with no key and no watch.
LEMMA InitIInv == Init => IInv
<1> SUFFICES ASSUME Init PROVE IInv
  OBVIOUS
<1> USE WatchAssumption DEF Init
<1>1. NewClient \in ClientType
  <2>1. <<>> \in Seq(Commands)
    OBVIOUS
  <2> QED
    BY <2>1 DEF NewClient, ClientType
<1>2. /\ kv \in [Entries -> {"absent", "live", "dead"}]
      /\ watchers \in [Entries -> SUBSET Clients]
      /\ before \in [Entries -> SUBSET (Clients \X Clients)]
      /\ cl \in [Clients -> ClientType]
      /\ changed \in SUBSET Clients /\ missed \in SUBSET Clients
  BY <1>1
<1>3. Server \in ServerType
  BY <1>2 DEF Server, ServerType
<1>4. \A c \in Clients : /\ Server.cl[c].watched = {} /\ Server.cl[c].stale = {}
                         /\ ~Server.cl[c].cas
  BY DEF Server, NewClient
<1>5. /\ \A e \in Entries : Server.watchers[e] = {} /\ Server.before[e] = {}
      /\ Server.changed = {}
  BY DEF Server
<1>6. Good(Server)
  BY <1>3, <1>4, <1>5
     DEF Good, Agree, StaleIsDead, LapsedIsChange, ChangeDetected, DirtyIsChange
<1> QED
  BY <1>6 DEF IInv

\* The fields of the current state are those of Server.
LEMMA ServerState ==
  /\ Server.kv = kv /\ Server.watchers = watchers /\ Server.before = before
  /\ Server.cl = cl /\ Server.changed = changed /\ Server.missed = missed
BY DEF Server

\* When nothing is running, whatever keeps Good keeps IInv.
LEMMA IdleStep ==
  ASSUME NEW S, Good(S), Becomes(S), inExec' = NoClient
  PROVE  IInv'
<1>1. S \in ServerType
  BY DEF Good
<1>2. Server' = S
  BY <1>1, BecomesServer
<1> QED
  BY <1>2 DEF IInv

\* Every action preserves the invariant.
LEMMA NextIInv == IInv /\ [Next]_vars => IInv'
<1> SUFFICES ASSUME IInv, [Next]_vars PROVE IInv'
  OBVIOUS
<1> USE WatchAssumption
<1>0. /\ Good(Server) /\ Server \in ServerType
      /\ \A c \in Clients : Server.cl[c] = cl[c] /\ cl[c] \in ClientType
  BY ServerState, ClientFields DEF IInv, Good
<1>1. ASSUME NEW c \in Clients, NEW cmd \in Commands, Execute(c, cmd) PROVE IInv'
  <2>1. Good(Call(Server, c, cmd))
    BY <1>0, CallGood
  <2> QED
    BY <1>1, <2>1, IdleStep DEF Execute, Idle
<1>2. ASSUME NEW c \in Clients, NEW cmd \in Commands, QueueMultiCommand(c, cmd) PROVE IInv'
  <2> DEFINE x == [cl[c] EXCEPT !.queue = Append(@, cmd)]
             R == [Server EXCEPT !.cl[c] = x]
  <2>1. cl[c].queue \in Seq(Commands)
    BY <1>0 DEF ClientType
  <2>2. Append(cl[c].queue, cmd) \in Seq(Commands)
    BY <2>1
  <2>3. /\ x \in ClientType
        /\ x.watched = cl[c].watched /\ x.stale = cl[c].stale /\ x.cas = cl[c].cas
    BY <1>0, <2>2 DEF ClientType
  <2>4. Becomes(R) /\ inExec' = NoClient
    BY <1>0, <1>2 DEF QueueMultiCommand, Idle
  <2> HIDE DEF x
  <2>5. Good(R)
    BY <1>0, <2>3, SetGood
  <2> QED
    BY <2>4, <2>5, IdleStep
<1>3. ASSUME NEW c \in Clients, NEW k \in Keys, Watch(c, k) PROVE IInv'
  <2>1. <<cl[c].db, k>> \in Entries
    BY <1>0 DEF ClientType, Entries
  <2>2. Good(WatchForKey(Server, c, <<cl[c].db, k>>))
    BY <1>0, <2>1, WatchForKeyGood
  <2> QED
    BY <1>3, <2>2, IdleStep DEF Watch, Idle
<1>4. ASSUME NEW c \in Clients, Multi(c) PROVE IInv'
  <2> DEFINE x == [cl[c] EXCEPT !.multi = TRUE]
             R == [Server EXCEPT !.cl[c] = x]
  <2>1. /\ x \in ClientType
        /\ x.watched = cl[c].watched /\ x.stale = cl[c].stale /\ x.cas = cl[c].cas
    BY <1>0 DEF ClientType
  <2>2. Becomes(R) /\ inExec' = NoClient
    BY <1>0, <1>4 DEF Multi, Idle
  <2> HIDE DEF x
  <2>3. Good(R)
    BY <1>0, <2>1, SetGood
  <2> QED
    BY <2>2, <2>3, IdleStep
<1>5. ASSUME NEW c \in Clients, Reject(c) PROVE IInv'
  <2> DEFINE x == [cl[c] EXCEPT !.exec = TRUE, !.queue = <<>>]
             R == [Server EXCEPT !.cl[c] = x]
  <2>0. <<>> \in Seq(Commands)
    OBVIOUS
  <2>1. /\ x \in ClientType
        /\ x.watched = cl[c].watched /\ x.stale = cl[c].stale /\ x.cas = cl[c].cas
    BY <1>0, <2>0 DEF ClientType
  <2>2. Becomes(R) /\ inExec' = NoClient
    <3>1. [Server EXCEPT !.cl[c].exec = TRUE, !.cl[c].queue = <<>>] = R
      BY <1>0, ServerFields DEF ServerType
    <3> QED
      BY <1>5, <3>1 DEF Reject, Idle
  <2> HIDE DEF x
  <2>3. Good(R)
    BY <1>0, <2>1, SetGood
  <2> QED
    BY <2>2, <2>3, IdleStep
<1>6. ASSUME NEW c \in Clients, Discard(c) PROVE IInv'
  <2>1. Good(DiscardTransaction(Server, c))
    BY <1>0, DiscardGood
  <2> QED
    BY <1>6, <2>1, IdleStep DEF Discard, Idle
<1>7. ASSUME NEW c \in Clients, Exec(c) PROVE IInv'
  <2>1. CASE WatchedKeyExpired(c) \/ cl[c].cas \/ cl[c].exec
    <3>1. Good(DiscardTransaction(Server, c))
      BY <1>0, DiscardGood
    <3> QED
      BY <1>7, <2>1, <3>1, IdleStep DEF Exec
  <2>2. CASE ~(WatchedKeyExpired(c) \/ cl[c].cas \/ cl[c].exec)
    <3> DEFINE R == UnwatchAllKeys(Server, {c})
    <3>1. Becomes(R) /\ inExec' = c /\ cl[c].multi
      BY <1>7, <2>2 DEF Exec
    <3>2. /\ Released(Server, c, R)
          /\ R.changed = changed /\ R.missed = missed
          /\ R.cl[c].cas = cl[c].cas /\ R.cl[c].multi = cl[c].multi
          /\ R.cl[c].exec = cl[c].exec
      BY <1>0, UnwatchKeysReleased, ServerState
    <3>3. c \in changed => c \in missed
      BY <1>0, <2>2, ServerState DEF Good, ChangeDetected, WatchedKeyExpired
    <3> HIDE DEF R
    <3>4. Good(R)
      BY <1>0, <2>2, <3>2, <3>3, ReleasedGood
    <3>5. Running(R, c)
      BY <2>2, <3>1, <3>2 DEF Running, Released
    <3>6. Server' = R
      BY <3>1, <3>4, BecomesServer DEF Good
    <3> QED
      BY <3>1, <3>4, <3>5, <3>6 DEF IInv
  <2> QED
    BY <2>1, <2>2
<1>8. ASSUME NEW c \in Clients, ExecCommand(c) PROVE IInv'
  <2> DEFINE x == [cl[c] EXCEPT !.queue = Tail(@)]
             S1 == [Server EXCEPT !.cl[c] = x]
             cmd == Head(cl[c].queue)
             R == Call(S1, c, cmd)
  <2>1. cl[c].queue \in Seq(Commands) /\ cl[c].queue # <<>>
    BY <1>0, <1>8 DEF ClientType, ExecCommand
  <2>2. Tail(cl[c].queue) \in Seq(Commands) /\ cmd \in CommandType
    BY <2>1
  <2>3. /\ x \in ClientType
        /\ x.watched = cl[c].watched /\ x.stale = cl[c].stale /\ x.cas = cl[c].cas
        /\ x.multi = cl[c].multi /\ x.exec = cl[c].exec
    BY <1>0, <2>2 DEF ClientType
  <2>4. Becomes(R) /\ inExec' = inExec /\ inExec = c
    BY <1>0, <1>8, ServerState DEF ExecCommand
  <2>5. Running(Server, c)
    BY <2>4 DEF IInv
  <2> HIDE DEF x, S1, cmd
  <2>6. Good(S1) /\ S1.cl[c] = x
    BY <1>0, <2>3, SetGood DEF S1
  <2>7. Running(S1, c)
    BY <1>0, <2>3, <2>5, <2>6 DEF Running
  <2> HIDE DEF R
  <2>8. Good(R) /\ Running(R, c)
    BY <2>2, <2>6, <2>7, CallGood DEF R
  <2>9. Server' = R
    BY <2>4, <2>8, BecomesServer DEF Good
  <2> QED
    BY <2>4, <2>8, <2>9 DEF IInv
<1>9. ASSUME NEW c \in Clients, ExecDone(c) PROVE IInv'
  <2>1. Good(DiscardTransaction(Server, c))
    BY <1>0, DiscardGood
  <2> QED
    BY <1>9, <2>1, IdleStep DEF ExecDone
<1>10. ASSUME NEW c \in Clients, Reset(c) PROVE IInv'
  <2> DEFINE D == DiscardTransaction(Server, c)
             x == [D.cl[c] EXCEPT !.db = DefaultDb]
             R == [D EXCEPT !.cl[c] = x]
  <2>1. Good(D) /\ D.cl[c] \in ClientType
    BY <1>0, DiscardGood
  <2>2. Becomes(R) /\ inExec' = NoClient
    BY <1>10 DEF Reset, Idle
  <2> HIDE DEF D
  <2>3. /\ x \in ClientType
        /\ x.watched = D.cl[c].watched /\ x.stale = D.cl[c].stale /\ x.cas = D.cl[c].cas
    BY <2>1 DEF ClientType
  <2> HIDE DEF x
  <2>4. Good(R)
    BY <2>1, <2>3, SetGood
  <2> QED
    BY <2>2, <2>4, IdleStep
<1>11. ASSUME NEW e \in Entries, Lapse(e) PROVE IInv'
  <2> DEFINE R == Event(Server, {e}, e, "dead")
  <2>1. Becomes(R) /\ inExec' = NoClient /\ Server.kv[e] = "live"
    BY <1>11, ServerState DEF Lapse, Idle, Event
  <2>2. Good(R)
    BY <1>0, <2>1, LapseGood
  <2> QED
    BY <2>1, <2>2, IdleStep
<1>12. ASSUME NEW e \in Entries, ActiveExpire(e) PROVE IInv'
  <2>1. Good(Reclaim(Server, e))
    BY <1>0, ReclaimGood
  <2> QED
    BY <1>12, <2>1, IdleStep DEF ActiveExpire, Idle
<1>13. ASSUME NEW e \in Entries, Evict(e) PROVE IInv'
  <2>1. Good(DelKey(Server, e))
    BY <1>0, DelKeyGood
  <2> QED
    BY <1>13, <2>1, IdleStep DEF Evict, Idle
<1>14. CASE UNCHANGED vars
  <2>1. Server' = Server /\ inExec' = inExec
    BY <1>14 DEF vars, Server
  <2> QED
    BY <2>1 DEF IInv
<1> QED
  BY <1>1, <1>2, <1>3, <1>4, <1>5, <1>6, <1>7, <1>8, <1>9, <1>10, <1>11, <1>12, <1>13,
     <1>14 DEF Next

\* The invariant holds in every reachable state.
LEMMA AlwaysIInv == Spec => []IInv
BY InitIInv, NextIInv, PTL DEF Spec

\* Type correctness: whatever the commands, only those of Commands are queued.
THEOREM TypeCorrect == Spec => []TypeOK
<1>1. IInv => TypeOK
  BY ServerState, ServerFields DEF IInv, Good, TypeOK
<1> QED
  BY <1>1, AlwaysIInv, PTL

\* db->watched_keys and the lists of the clients are inverse to one another.
THEOREM WatchTablesAgree == Spec => []TablesAgree
<1>1. IInv => TablesAgree
  BY ServerState DEF IInv, Good, Agree, TablesAgree
<1> QED
  BY <1>1, AlwaysIInv, PTL

\* EXEC runs only transactions whose watched keys did not change, but for the
\* clients that touchWatchedKey() passed over.
THEOREM OptimisticLocking == Spec => []CommitsUnchanged
<1>1. IInv => CommitsUnchanged
  <2> SUFFICES ASSUME IInv, inExec # NoClient, inExec \in changed PROVE inExec \in missed
    BY DEF CommitsUnchanged
  <2>1. cl[inExec].watched = {} /\ ~cl[inExec].cas
    BY ServerState DEF IInv, Running
  <2> QED
    BY <2>1, ServerState DEF IInv, Good, ChangeDetected
<1> QED
  BY <1>1, AlwaysIInv, PTL

\* A client is marked dirty only if a key it watches changed.
THEOREM DirtyForAReason == Spec => []NoSpuriousAbort
<1>1. IInv => NoSpuriousAbort
  BY ServerState DEF IInv, Good, DirtyIsChange, NoSpuriousAbort
<1> QED
  BY <1>1, AlwaysIInv, PTL

\* No command of a running transaction can mark it dirty and free its queue.
THEOREM QueueSurvivesExec == Spec => []ExecIntact
<1>1. IInv => ExecIntact
  BY ServerState DEF IInv, Running, ExecIntact
<1> QED
  BY <1>1, AlwaysIInv, PTL
=============================================================================
