--------------------------- MODULE TrackingProofs ---------------------------
(****************************************************************************)
(* The invariants of Tracking, for every set of clients, keys, prefixes and *)
(* options and any limit of the table.                                      *)
(*                                                                          *)
(* Coherent is not inductive alone.  That a change of a key reaches every   *)
(* copy needs Remembered, for clients in the table, and for broadcasting    *)
(* ones that they have copies of keys of their prefixes only; that a        *)
(* message is not lost needs Idle, and that one is never owed to a client   *)
(* that does not track needs Silent.                                        *)
(****************************************************************************)
EXTENDS Tracking, TLAPS

\* Between commands nothing is queued, and no reply is under way.
Idle ==
  /\ current = NoClient => ~calling
  /\ ~calling => pending = {} /\ deferred = {} /\ reply = NoKeys /\ ops = 0

\* A client has prefixes if and only if it broadcasts; without tracking it has no
\* options, and no copies.
Silent ==
  /\ \A c \in Clients : opts[c].prefixes # {} <=> opts[c].bcast
  /\ \A c \in Clients \ tracking :
       opts[c] = Off /\ view[c] = NoKeys /\ (c = current => reply = NoKeys)

\* What holds of c's copy of k: a broadcasting client has copies of keys of its
\* prefixes only, and the copy is as Coherent and Remembered say.
Safe(c, k) ==
  /\ Received(c, k) # "none" /\ opts[c].bcast => \E p \in opts[c].prefixes : k \in p
  /\ Received(c, k) = "stale" =>
       Announced(c, k) \/ Lost(c, k, "noloop") \/ Lost(c, k, "swapdb")
  /\ c \in tracking /\ Received(c, k) = "fresh" /\ ~opts[c].bcast =>
       c \in table[k] \/ Announced(c, k) \/ Lost(c, k, "noloop")

IInv == TypeOK /\ Idle /\ Silent /\ \A c \in Clients, k \in Keys : Safe(c, k)

-----------------------------------------------------------------------------
(* The fields of what the operators return.                                *)

ServerType ==
  [tracking: SUBSET Clients,
   slots: SUBSET Keys,
   table: [Keys -> SUBSET Clients],
   bkeys: [Prefixes -> [Keys -> Clients \cup {NoClient, Same}]],
   pending: SUBSET (Keys \cup {All}),
   deferred: SUBSET (Clients \X (Keys \cup {All})),
   reply: [Keys -> Copy \cup {"wrote"}],
   view: [Clients -> [Keys -> Copy]],
   lost: SUBSET (Clients \X Keys \X {"noloop", "swapdb"})]

\* The message for c's copy of k is deferred.
Deferred(S, c, k) == <<c, k>> \in S.deferred \/ <<c, All>> \in S.deferred

LEMMA ServerFields ==
  ASSUME NEW S \in ServerType
  PROVE  /\ S.tracking \in SUBSET Clients
         /\ S.slots \in SUBSET Keys
         /\ S.table \in [Keys -> SUBSET Clients]
         /\ S.bkeys \in [Prefixes -> [Keys -> Clients \cup {NoClient, Same}]]
         /\ S.pending \in SUBSET (Keys \cup {All})
         /\ S.deferred \in SUBSET (Clients \X (Keys \cup {All}))
         /\ S.reply \in [Keys -> Copy \cup {"wrote"}]
         /\ S.view \in [Clients -> [Keys -> Copy]]
         /\ S.lost \in SUBSET (Clients \X Keys \X {"noloop", "swapdb"})
BY DEF ServerType

LEMMA ServerRecord ==
  ASSUME NEW S \in ServerType
  PROVE  S = [tracking |-> S.tracking, slots |-> S.slots, table |-> S.table,
              bkeys |-> S.bkeys, pending |-> S.pending, deferred |-> S.deferred,
              reply |-> S.reply, view |-> S.view, lost |-> S.lost]
BY DEF ServerType

\* The state as a server.
LEMMA ServerState ==
  ASSUME TypeOK
  PROVE  /\ Server \in ServerType
         /\ Server.tracking = tracking /\ Server.slots = slots /\ Server.table = table
         /\ Server.bkeys = bkeys /\ Server.pending = pending
         /\ Server.deferred = deferred /\ Server.reply = reply /\ Server.view = view
         /\ Server.lost = lost
<1>1. tracking \in SUBSET Clients /\ table \in [Keys -> SUBSET Clients]
  BY DEF TypeOK
<1> QED
  BY <1>1 DEF TypeOK, Server, ServerType

\* R is S after a message to the clients of C: it reaches a copy of each, or is
\* deferred.
Sent(S, C, m, R) ==
  /\ R \in ServerType
  /\ R.tracking = S.tracking /\ R.slots = S.slots /\ R.table = S.table
  /\ R.bkeys = S.bkeys /\ R.pending = S.pending /\ R.reply = S.reply
  /\ R.lost = S.lost
  /\ S.deferred \subseteq R.deferred
  /\ ~calling => R.deferred = S.deferred
  /\ \A c \in Clients, k \in Keys : R.view[c][k] \in {S.view[c][k], "none"}
  /\ \A c \in Clients \ C : R.view[c] = S.view[c]
  /\ \A c \in C, k \in Keys :
       m \in {k, All} => R.view[c][k] = "none" \/ (calling /\ Deferred(R, c, k))

LEMMA SendFields ==
  ASSUME NEW S \in ServerType, NEW C \in SUBSET Clients, NEW m \in Keys \cup {All},
         opts \in [Clients -> OptionType]
  PROVE  Sent(S, C, m, Send(S, C, m))
<1> DEFINE Conn(c) == IF opts[c].redir \in {NoClient, Gone} THEN c ELSE opts[c].redir
           M(c)    == IF opts[c].redir = Gone THEN All ELSE m
           W       == {c \in C : calling /\ Conn(c) = current}
           D       == S.deferred \cup {<<c, M(c)>> : c \in W}
           V       == [c \in Clients |-> IF c \in C \ W THEN Drop(S.view[c], M(c)) ELSE S.view[c]]
           R       == Send(S, C, m)
<1>0. R = [S EXCEPT !.deferred = D, !.view = V]
  BY DEF Send
<1>1. R = [tracking |-> S.tracking, slots |-> S.slots, table |-> S.table, bkeys |-> S.bkeys,
           pending |-> S.pending, deferred |-> D, reply |-> S.reply, view |-> V,
           lost |-> S.lost]
  <2> HIDE DEF D, V, R
  <2> QED
    BY <1>0 DEF ServerType
<1>2. \A c \in C : M(c) \in Keys \cup {All}
  OBVIOUS
<1>3. D \in SUBSET (Clients \X (Keys \cup {All}))
  BY <1>2, ServerFields
<1>4. \A c \in Clients : V[c] \in [Keys -> Copy]
  BY ServerFields DEF Drop, Copy
<1>5. \A c \in Clients, k \in Keys :
        V[c][k] = IF c \in C \ W /\ M(c) \in {k, All} THEN "none" ELSE S.view[c][k]
  BY ServerFields DEF Drop
<1>6. \A c \in Clients \ C : V[c] = S.view[c]
  OBVIOUS
<1>7. \A c \in W : calling /\ <<c, M(c)>> \in D
  OBVIOUS
<1>8. V \in [Clients -> [Keys -> Copy]]
  BY <1>4
<1>9. \A c \in C, k \in Keys : m \in {k, All} =>
          V[c][k] = "none" \/ (calling /\ (<<c, k>> \in D \/ <<c, All>> \in D))
  BY <1>5, <1>7
<1>10. ~calling => D = S.deferred
  OBVIOUS
<1> HIDE DEF V, D
<1>11. R \in ServerType
  BY <1>1, <1>3, <1>8, ServerFields DEF ServerType
<1>12. S.deferred \subseteq D
  BY DEF D
<1> HIDE DEF R
<1>13. Sent(S, C, m, R)
  BY <1>1, <1>5, <1>6, <1>9, <1>10, <1>11, <1>12 DEF Deferred, Sent
<1> QED
  BY <1>13 DEF R

\* R is S after trackingInvalidateKey(): the key is forgotten, and each client of
\* the table is told, queued for, or skipped because it is the NOLOOP client at work.
Invalidated(S, k, by, R) ==
  /\ R \in ServerType
  /\ R.slots = S.slots \ {k} /\ R.table = [S.table EXCEPT ![k] = {}]
  /\ R.bkeys = S.bkeys /\ R.reply = S.reply
  /\ S.pending \subseteq R.pending /\ S.deferred \subseteq R.deferred
  /\ S.lost \subseteq R.lost
  /\ ~calling => R.pending = S.pending /\ R.deferred = S.deferred
  /\ \A c \in Clients, j \in Keys : R.view[c][j] \in {S.view[c][j], "none"}
  /\ \A c \in S.table[k] \cap tracking : ~opts[c].bcast =>
       \/ c = current /\ calling /\ k \in R.pending
       \/ c = current /\ opts[c].noloop /\ (c = by \/ <<c, k, "noloop">> \in R.lost)
       \/ (c # current \/ ~calling) /\ (R.view[c][k] = "none" \/ Deferred(R, c, k))

LEMMA InvalidateFields ==
  ASSUME NEW S \in ServerType, NEW k \in Keys, NEW by \in Clients \cup {NoClient},
         opts \in [Clients -> OptionType]
  PROVE  Invalidated(S, k, by, Invalidate(S, k, by))
<1> DEFINE T == {c \in S.table[k] : c \in tracking /\ ~opts[c].bcast}
           K == {c \in T : opts[c].noloop /\ c = current}
           Q == {c \in T \ K : c = current /\ calling}
           P == IF Q # {} THEN S.pending \cup {k} ELSE S.pending
           L == S.lost \cup ((K \ {by}) \X {k} \X {"noloop"})
           B == [S.table EXCEPT ![k] = {}]
           Z == S.slots \ {k}
           S1 == [tracking |-> S.tracking, slots |-> Z, table |-> B,
                  bkeys |-> S.bkeys, pending |-> P, deferred |-> S.deferred,
                  reply |-> S.reply, view |-> S.view, lost |-> L]
           S0 == [S EXCEPT !.pending = P, !.slots = Z, !.table = B, !.lost = L]
           R == Invalidate(S, k, by)
<1>0. R = Send(S0, T \ (K \cup Q), k)
  BY DEF Invalidate
<1>0a. S0 = S1
  <2> DEFINE A1 == [S EXCEPT !.pending = P]
             A2 == [A1 EXCEPT !.slots = Z]
             A3 == [A2 EXCEPT !.table = B]
             A4 == [A3 EXCEPT !.lost = L]
  <2>1. S0 = A4
    OBVIOUS
  <2> HIDE DEF P, B, L, Z
  <2>2. A1 = [tracking |-> S.tracking, slots |-> S.slots, table |-> S.table,
              bkeys |-> S.bkeys, pending |-> P, deferred |-> S.deferred,
              reply |-> S.reply, view |-> S.view, lost |-> S.lost]
    BY ServerRecord
  <2> HIDE DEF A1
  <2>3. A2 = [tracking |-> S.tracking, slots |-> Z, table |-> S.table,
              bkeys |-> S.bkeys, pending |-> P, deferred |-> S.deferred,
              reply |-> S.reply, view |-> S.view, lost |-> S.lost]
    BY <2>2
  <2> HIDE DEF A2
  <2>4. A3 = [tracking |-> S.tracking, slots |-> Z, table |-> B,
              bkeys |-> S.bkeys, pending |-> P, deferred |-> S.deferred,
              reply |-> S.reply, view |-> S.view, lost |-> S.lost]
    BY <2>3
  <2> HIDE DEF A3
  <2>5. A4 = S1
    BY <2>4
  <2> QED
    BY <2>1, <2>5
<1>1. R = Send(S1, T \ (K \cup Q), k)
  BY <1>0, <1>0a
<1>2. T \subseteq Clients
  BY ServerFields
<1>3. /\ P \in SUBSET (Keys \cup {All}) /\ L \in SUBSET (Clients \X Keys \X {"noloop", "swapdb"})
      /\ B \in [Keys -> SUBSET Clients] /\ S.slots \ {k} \in SUBSET Keys
  BY <1>2, ServerFields
<1>4. /\ S.pending \subseteq P /\ S.lost \subseteq L /\ (~calling => P = S.pending)
      /\ \A c \in K : c = by \/ <<c, k, "noloop">> \in L
      /\ \A c \in Q : k \in P
  OBVIOUS
<1>5. \A c \in S.table[k] \cap tracking : ~opts[c].bcast =>
        c \in K \/ c \in Q \/ (c \in T \ (K \cup Q) /\ (c # current \/ ~calling))
  OBVIOUS
<1>6. /\ \A c \in K : c = current /\ opts[c].noloop
      /\ \A c \in Q : c = current /\ calling
  OBVIOUS
<1>7. T \ (K \cup Q) \in SUBSET Clients
  BY <1>2
<1>8. \A c \in T \ (K \cup Q) : c \in Clients
  BY <1>2
<1> HIDE DEF T, K, Q, P, L, B
<1>9. S1 \in ServerType
  BY <1>3, ServerFields DEF ServerType
<1>10. /\ S1.slots = S.slots \ {k} /\ S1.table = B /\ S1.bkeys = S.bkeys /\ S1.pending = P
       /\ S1.deferred = S.deferred /\ S1.reply = S.reply /\ S1.view = S.view /\ S1.lost = L
  OBVIOUS
<1> HIDE DEF S1
<1> DEFINE C == T \ (K \cup Q)
<1> HIDE DEF C, R
<1>11. Sent(S1, C, k, R)
  BY <1>1, <1>7, <1>9, SendFields DEF C
<1>12. \A c \in C : R.view[c][k] = "none" \/ Deferred(R, c, k)
  BY <1>11 DEF Sent
<1>13. R.pending = P /\ R.lost = L
  BY <1>10, <1>11 DEF Sent
<1>14. \A c \in S.table[k] \cap tracking : ~opts[c].bcast =>
         \/ c = current /\ calling /\ k \in R.pending
         \/ c = current /\ opts[c].noloop /\ (c = by \/ <<c, k, "noloop">> \in R.lost)
         \/ (c # current \/ ~calling) /\ (R.view[c][k] = "none" \/ Deferred(R, c, k))
  BY <1>4, <1>5, <1>6, <1>12, <1>13 DEF C
<1>15. /\ R \in ServerType
       /\ R.slots = S.slots \ {k} /\ R.table = [S.table EXCEPT ![k] = {}]
       /\ R.bkeys = S.bkeys /\ R.reply = S.reply
       /\ S.pending \subseteq R.pending /\ S.deferred \subseteq R.deferred
       /\ S.lost \subseteq R.lost
       /\ ~calling => R.pending = S.pending /\ R.deferred = S.deferred
  BY <1>4, <1>10, <1>11, <1>13 DEF B, Sent
<1>16. \A c \in Clients, j \in Keys : R.view[c][j] \in {S.view[c][j], "none"}
  BY <1>10, <1>11 DEF Sent
<1>17. Invalidated(S, k, by, R)
  BY <1>14, <1>15, <1>16 DEF Invalidated
<1> QED
  BY <1>17 DEF R

\* A change makes copies stale and nothing else.
LEMMA ChangedFields ==
  ASSUME NEW S \in ServerType, NEW K \in SUBSET Keys, NEW R, R = Changed(S, K)
  PROVE  /\ R \in ServerType
         /\ R.tracking = S.tracking /\ R.slots = S.slots /\ R.table = S.table
         /\ R.bkeys = S.bkeys /\ R.pending = S.pending /\ R.deferred = S.deferred
         /\ R.lost = S.lost
         /\ R.reply = Aged(S.reply, K)
         /\ \A c \in Clients : R.view[c] = Aged(S.view[c], K)
<1> DEFINE V == [c \in Clients |-> Aged(S.view[c], K)]
<1>1. R = [tracking |-> S.tracking, slots |-> S.slots, table |-> S.table, bkeys |-> S.bkeys,
           pending |-> S.pending, deferred |-> S.deferred, reply |-> Aged(S.reply, K),
           view |-> V, lost |-> S.lost]
  BY DEF Changed, ServerType
<1>2. Aged(S.reply, K) \in [Keys -> Copy \cup {"wrote"}]
  BY ServerFields DEF Aged, Copy
<1>3. V \in [Clients -> [Keys -> Copy]]
  BY ServerFields DEF Aged, Copy
<1>4. \A c \in Clients : V[c] = Aged(S.view[c], K)
  OBVIOUS
<1> HIDE DEF V
<1>5. R \in ServerType
  BY <1>1, <1>2, <1>3, ServerFields DEF ServerType
<1> QED
  BY <1>1, <1>4, <1>5

\* trackingRememberKeyToBroadcast() notes the last change of the key.
LEMMA BroadcastFields ==
  ASSUME NEW S \in ServerType, NEW k \in Keys, NEW by \in Clients \cup {NoClient},
         NEW R, R = Broadcast(S, k, by)
  PROVE  /\ R \in ServerType
         /\ R.slots = S.slots /\ R.table = S.table /\ R.pending = S.pending
         /\ R.deferred = S.deferred /\ R.lost = S.lost /\ R.reply = S.reply /\ R.view = S.view
         /\ \A p \in Prefixes, j \in Keys :
              R.bkeys[p][j] = IF p \in PrefixTable /\ j = k /\ k \in p THEN by ELSE S.bkeys[p][j]
<1> DEFINE B == [p \in Prefixes |->
                   IF p \in PrefixTable /\ k \in p THEN [S.bkeys[p] EXCEPT ![k] = by]
                   ELSE S.bkeys[p]]
<1>1. R = [tracking |-> S.tracking, slots |-> S.slots, table |-> S.table, bkeys |-> B,
           pending |-> S.pending, deferred |-> S.deferred, reply |-> S.reply,
           view |-> S.view, lost |-> S.lost]
  BY DEF Broadcast, ServerType
<1>2. B \in [Prefixes -> [Keys -> Clients \cup {NoClient, Same}]]
  BY ServerFields
<1>3. \A p \in Prefixes, j \in Keys :
        B[p][j] = IF p \in PrefixTable /\ j = k /\ k \in p THEN by ELSE S.bkeys[p][j]
  BY ServerFields
<1> HIDE DEF B
<1>4. R \in ServerType
  BY <1>1, <1>2, ServerFields DEF ServerType
<1> QED
  BY <1>1, <1>3, <1>4

\* R is S after signalModifiedKey().
Signalled(S, k, by, R) ==
  /\ R \in ServerType
  /\ R.slots = S.slots \ {k} /\ R.table = [S.table EXCEPT ![k] = {}]
  /\ R.reply = Aged(S.reply, {k})
  /\ S.pending \subseteq R.pending /\ S.deferred \subseteq R.deferred
  /\ S.lost \subseteq R.lost
  /\ ~calling => R.pending = S.pending /\ R.deferred = S.deferred
  /\ \A c \in Clients, j \in Keys : R.view[c][j] \in {Aged(S.view[c], {k})[j], "none"}
  /\ \A p \in Prefixes, j \in Keys :
       R.bkeys[p][j] = IF p \in PrefixTable /\ j = k /\ k \in p THEN by ELSE S.bkeys[p][j]
  /\ \A c \in S.table[k] \cap tracking : ~opts[c].bcast =>
       \/ c = current /\ calling /\ k \in R.pending
       \/ c = current /\ opts[c].noloop /\ (c = by \/ <<c, k, "noloop">> \in R.lost)
       \/ (c # current \/ ~calling) /\ (R.view[c][k] = "none" \/ Deferred(R, c, k))

LEMMA SignalFields ==
  ASSUME NEW S \in ServerType, NEW k \in Keys, NEW by \in Clients \cup {NoClient},
         opts \in [Clients -> OptionType]
  PROVE  Signalled(S, k, by, SignalModified(S, k, by))
<1> DEFINE S1 == Changed(S, {k})
           S2 == Broadcast(S1, k, by)
           R  == Invalidate(S2, k, by)
<1>1. R = SignalModified(S, k, by)
  BY DEF SignalModified
<1>2. /\ S1 \in ServerType
      /\ S1.slots = S.slots /\ S1.table = S.table
      /\ S1.bkeys = S.bkeys /\ S1.pending = S.pending /\ S1.deferred = S.deferred
      /\ S1.lost = S.lost
      /\ S1.reply = Aged(S.reply, {k})
      /\ \A c \in Clients : S1.view[c] = Aged(S.view[c], {k})
  BY ChangedFields
<1> HIDE DEF S1
<1>3. /\ S2 \in ServerType
      /\ S2.slots = S1.slots /\ S2.table = S1.table /\ S2.pending = S1.pending
      /\ S2.deferred = S1.deferred /\ S2.lost = S1.lost /\ S2.reply = S1.reply
      /\ S2.view = S1.view
      /\ \A p \in Prefixes, j \in Keys :
           S2.bkeys[p][j] = IF p \in PrefixTable /\ j = k /\ k \in p THEN by ELSE S1.bkeys[p][j]
  BY <1>2, BroadcastFields
<1> HIDE DEF S2
<1>4. Invalidated(S2, k, by, R)
  BY <1>3, InvalidateFields
<1> HIDE DEF R
<1>5. \A c \in Clients, j \in Keys : R.view[c][j] \in {Aged(S.view[c], {k})[j], "none"}
  <2>1. \A c \in Clients, j \in Keys : R.view[c][j] \in {S2.view[c][j], "none"}
    BY <1>4 DEF Invalidated
  <2>2. \A c \in Clients : S2.view[c] = Aged(S.view[c], {k})
    BY <1>2, <1>3
  <2> QED
    BY <2>1, <2>2
<1>6. \A p \in Prefixes, j \in Keys :
        R.bkeys[p][j] = IF p \in PrefixTable /\ j = k /\ k \in p THEN by ELSE S.bkeys[p][j]
  <2>1. R.bkeys = S2.bkeys
    BY <1>4 DEF Invalidated
  <2> QED
    BY <1>2, <1>3, <2>1
<1>7. /\ R.slots = S.slots \ {k} /\ R.table = [S.table EXCEPT ![k] = {}]
      /\ R.reply = Aged(S.reply, {k})
      /\ S.pending \subseteq R.pending /\ S.deferred \subseteq R.deferred
      /\ S.lost \subseteq R.lost
      /\ ~calling => R.pending = S.pending /\ R.deferred = S.deferred
  BY <1>2, <1>3, <1>4 DEF Invalidated
<1>8. S2.table = S.table
  BY <1>2, <1>3
<1>9. Signalled(S, k, by, R)
  BY <1>4, <1>5, <1>6, <1>7, <1>8 DEF Signalled, Invalidated
<1> QED
  BY <1>1, <1>9

-----------------------------------------------------------------------------
(* Copies that a step does not make worse.                                 *)

\* The copy is the same or is gone, and what was announced or lost still is.
LEMMA Unaffected ==
  ASSUME NEW c \in Clients, NEW k \in Keys, Safe(c, k),
         Received(c, k)' \in {Received(c, k), "none"},
         opts'[c].bcast = opts[c].bcast, opts'[c].prefixes = opts[c].prefixes,
         c \in tracking' => c \in tracking,
         c \in table[k] => c \in table'[k],
         Received(c, k)' # "none" => (Announced(c, k) => Announced(c, k)'),
         \A why : Lost(c, k, why) /\ Received(c, k)' # "none" => Lost(c, k, why)'
  PROVE  Safe(c, k)'
<1>1. CASE Received(c, k)' = "none"
  BY <1>1 DEF Safe
<1>2. CASE Received(c, k)' = Received(c, k) /\ Received(c, k)' # "none"
  BY <1>2 DEF Safe
<1> QED
  BY <1>1, <1>2

\* A client that does not track has no copies.
LEMMA SilentNone ==
  ASSUME TypeOK, Silent, NEW c \in Clients, NEW k \in Keys, c \notin tracking
  PROVE  Received(c, k) = "none"
BY DEF Silent, Received, NoKeys

\* Becomes forgets only losses of copies that are gone.
LEMMA BecomesLost ==
  ASSUME NEW R \in ServerType, Becomes(R), current' = current,
         NEW c \in Clients, NEW k \in Keys, NEW why,
         <<c, k, why>> \in R.lost, Received(c, k)' # "none"
  PROVE  <<c, k, why>> \in lost'
<1>1. view' = R.view /\ reply' = R.reply
  BY DEF Becomes
<1>2. R.view[c][k] # "none" \/ (c = current /\ R.reply[k] \in {"fresh", "stale"})
  <2>1. R.reply[k] \in Copy \cup {"wrote"}
    BY ServerFields
  <2> QED
    BY <1>1, <2>1 DEF Received, Copy
<1> QED
  BY <1>2 DEF Becomes

LEMMA BecomesFields ==
  ASSUME NEW R \in ServerType, Becomes(R)
  PROVE  /\ slots' = R.slots /\ table' = R.table /\ bkeys' = R.bkeys
         /\ pending' = R.pending /\ deferred' = R.deferred /\ reply' = R.reply
         /\ view' = R.view /\ lost' \subseteq R.lost
BY DEF Becomes

-----------------------------------------------------------------------------
(* signalModifiedKey() in the current command or outside one.              *)

\* What is queued or deferred, or is to be broadcast, stays so; a broadcast of the
\* client's own write excepted.
LEMMA AnnouncedStays ==
  ASSUME NEW c \in Clients, NEW j \in Keys, opts'[c] = opts[c], current' = current,
         pending \subseteq pending', deferred \subseteq deferred',
         \A p \in opts[c].prefixes : j \in Told(c, p) => j \in Told(c, p)',
         Announced(c, j)
  PROVE  Announced(c, j)'
<1>1. CASE c = current /\ pending \cap {j, All} # {}
  <2>1. pending' \cap {j, All} # {}
    BY <1>1
  <2> QED
    BY <1>1, <2>1 DEF Announced
<1>2. CASE <<c, j>> \in deferred \/ <<c, All>> \in deferred
  BY <1>2 DEF Announced
<1>3. CASE \E p \in opts[c].prefixes : j \in Told(c, p)
  BY <1>3 DEF Announced
<1> QED
  BY <1>1, <1>2, <1>3 DEF Announced

\* The step that signals the change of k by the client by; with NOLOOP the client
\* drops what it writes.
SignalStep(k, by, R) ==
  /\ Signalled(Server, k, by, R)
  /\ open' = open /\ tracking' = tracking /\ opts' = opts
  /\ current' = current /\ calling' = calling
  /\ table' = R.table /\ bkeys' = R.bkeys /\ pending' = R.pending
  /\ deferred' = R.deferred /\ view' = R.view /\ slots' = R.slots
  /\ \/ reply' = R.reply /\ (by \in Clients => ~opts[by].noloop)
     \/ /\ by \in Clients /\ by = current /\ calling /\ opts[by].noloop
        /\ reply' = [R.reply EXCEPT ![k] = "wrote"]
  /\ lost' \subseteq R.lost
  /\ \A c \in Clients, j \in Keys : \A why :
       <<c, j, why>> \in R.lost /\ Received(c, j)' # "none" => <<c, j, why>> \in lost'

\* In terms of the variables.
LEMMA SignalStepFields ==
  ASSUME IInv, NEW k \in Keys, NEW by \in Clients \cup {NoClient}, NEW R,
         SignalStep(k, by, R)
  PROVE  /\ slots' = slots \ {k} /\ table' = [table EXCEPT ![k] = {}]
         /\ R.reply = Aged(reply, {k})
         /\ pending \subseteq pending' /\ deferred \subseteq deferred' /\ lost \subseteq R.lost
         /\ ~calling => pending' = pending /\ deferred' = deferred
         /\ \A c \in Clients, j \in Keys : view'[c][j] \in {Aged(view[c], {k})[j], "none"}
         /\ \A c \in table[k] \cap tracking : ~opts[c].bcast =>
              \/ c = current /\ calling /\ k \in pending'
              \/ c = current /\ opts[c].noloop /\ (c = by \/ <<c, k, "noloop">> \in R.lost)
              \/ /\ c # current \/ ~calling
                 /\ view'[c][k] = "none" \/ <<c, k>> \in deferred' \/ <<c, All>> \in deferred'
         /\ R \in ServerType
<1>1. /\ Server.slots = slots /\ Server.table = table
      /\ Server.bkeys = bkeys /\ Server.pending = pending
      /\ Server.deferred = deferred /\ Server.reply = reply /\ Server.view = view
      /\ Server.lost = lost
  BY ServerState DEF IInv
<1>2. /\ table' = R.table /\ bkeys' = R.bkeys /\ pending' = R.pending
      /\ deferred' = R.deferred /\ view' = R.view /\ slots' = R.slots
      /\ Signalled(Server, k, by, R)
  BY DEF SignalStep
<1> QED
  BY <1>1, <1>2 DEF Signalled, Deferred

LEMMA SignalBroadcast ==
  ASSUME IInv, NEW k \in Keys, NEW by \in Clients \cup {NoClient}, NEW R,
         SignalStep(k, by, R)
  PROVE  \A p \in Prefixes, j \in Keys :
           bkeys'[p][j] = IF p \in PrefixTable /\ j = k /\ k \in p THEN by ELSE bkeys[p][j]
<1>1. Server.bkeys = bkeys
  BY ServerState DEF IInv
<1> QED
  BY <1>1 DEF SignalStep, Signalled

\* The copies after the step: of the other keys as before or gone, of the key
\* itself stale or gone, and gone for the NOLOOP client that wrote it.
LEMMA SignalReceived ==
  ASSUME IInv, NEW k \in Keys, NEW by \in Clients \cup {NoClient}, NEW R,
         SignalStep(k, by, R), NEW c \in Clients
  PROVE  /\ \A j \in Keys \ {k} : Received(c, j)' \in {Received(c, j), "none"}
         /\ Received(c, k)' # "none" =>
              /\ Received(c, k)' = "stale" /\ Received(c, k) \in {"fresh", "stale"}
              /\ ~(by = c /\ opts[c].noloop)
         /\ c # current \/ ~calling => Received(c, k)' = view'[c][k]
<1>1. /\ R.reply = Aged(reply, {k})
      /\ \A j \in Keys : view'[c][j] \in {Aged(view[c], {k})[j], "none"}
  BY SignalStepFields
<1>2. /\ view[c] \in [Keys -> Copy] /\ reply \in [Keys -> Copy \cup {"wrote"}]
      /\ ~calling => reply = NoKeys
  BY DEF IInv, TypeOK, Idle
<1>3. \A j \in Keys : /\ Aged(view[c], {k})[j] =
                           IF j = k /\ view[c][j] = "fresh" THEN "stale" ELSE view[c][j]
                      /\ Aged(reply, {k})[j] =
                           IF j = k /\ reply[j] = "fresh" THEN "stale" ELSE reply[j]
  BY DEF Aged
<1>4. /\ \A j \in Keys \ {k} : reply'[j] = reply[j]
      /\ \/ reply'[k] = Aged(reply, {k})[k] /\ (by \in Clients => ~opts[by].noloop)
         \/ by = current /\ calling /\ reply'[k] = "wrote"
  <2>1. DOMAIN R.reply = Keys
    BY <1>1 DEF Aged
  <2>2. \A j \in Keys \ {k} : R.reply[j] = reply[j]
    BY <1>1, <1>3
  <2> QED
    BY <1>1, <2>1, <2>2 DEF SignalStep
<1>5. current' = current /\ calling' = calling
  BY DEF SignalStep
<1>6. \A j \in Keys \ {k} : Received(c, j)' \in {Received(c, j), "none"}
  BY <1>1, <1>3, <1>4, <1>5 DEF Received
<1>7. Received(c, k)' # "none" =>
        /\ Received(c, k)' = "stale" /\ Received(c, k) \in {"fresh", "stale"}
        /\ ~(by = c /\ opts[c].noloop)
  <2>1. view[c][k] \in Copy /\ reply[k] \in Copy \cup {"wrote"}
    BY <1>2
  <2>2. CASE reply'[k] = Aged(reply, {k})[k] /\ (by \in Clients => ~opts[by].noloop)
    BY <1>1, <1>3, <1>5, <2>1, <2>2 DEF Received, Copy
  <2>3. CASE by = current /\ calling /\ reply'[k] = "wrote"
    BY <1>1, <1>3, <1>5, <2>1, <2>3 DEF Received, Copy
  <2> QED
    BY <1>4, <2>2, <2>3
<1>8. c # current \/ ~calling => Received(c, k)' = view'[c][k]
  BY <1>2, <1>3, <1>4, <1>5 DEF Received, NoKeys
<1> QED
  BY <1>6, <1>7, <1>8

LEMMA SignalSafe ==
  ASSUME IInv, NEW k \in Keys, NEW by \in Clients \cup {NoClient}, NEW R,
         SignalStep(k, by, R), NEW c \in Clients, NEW j \in Keys
  PROVE  Safe(c, j)'
<1>1. Safe(c, j) /\ TypeOK /\ Silent
  BY DEF IInv
<1>2. /\ opts' = opts /\ tracking' = tracking /\ current' = current
      /\ \A why : <<c, j, why>> \in R.lost /\ Received(c, j)' # "none" => <<c, j, why>> \in lost'
  BY DEF SignalStep
<1>3. /\ table' = [table EXCEPT ![k] = {}]
      /\ pending \subseteq pending' /\ deferred \subseteq deferred' /\ lost \subseteq R.lost
      /\ \A p \in Prefixes : bkeys'[p][j] =
           IF p \in PrefixTable /\ j = k /\ k \in p THEN by ELSE bkeys[p][j]
  <2>1. /\ table' = [table EXCEPT ![k] = {}]
        /\ pending \subseteq pending' /\ deferred \subseteq deferred' /\ lost \subseteq R.lost
    BY SignalStepFields
  <2>2. \A p \in Prefixes, i \in Keys :
          bkeys'[p][i] = IF p \in PrefixTable /\ i = k /\ k \in p THEN by ELSE bkeys[p][i]
    BY SignalBroadcast
  <2> QED
    BY <2>1, <2>2
<1>4. opts[c] \in OptionType /\ opts[c].prefixes \subseteq Prefixes
  BY <1>1 DEF TypeOK, OptionType
<1>5. \A why : Lost(c, j, why) /\ Received(c, j)' # "none" => Lost(c, j, why)'
  BY <1>2, <1>3 DEF Lost
<1>6. CASE j # k
  <2>1. Received(c, j)' \in {Received(c, j), "none"}
    BY <1>6, SignalReceived
  <2>2. \A p \in opts[c].prefixes : j \in Told(c, p) => j \in Told(c, p)'
    BY <1>2, <1>3, <1>4, <1>6 DEF Told
  <2>3. Announced(c, j) => Announced(c, j)'
    BY <1>2, <1>3, <2>2, AnnouncedStays
  <2>4. c \in table[j] => c \in table'[j]
    BY <1>1, <1>3, <1>6 DEF TypeOK
  <2> QED
    BY <1>1, <1>2, <1>5, <2>1, <2>3, <2>4, Unaffected
<1>7. CASE j = k /\ Received(c, k)' = "none"
  BY <1>7 DEF Safe
<1>8. CASE j = k /\ Received(c, k)' # "none"
  <2>1. /\ Received(c, k)' = "stale" /\ Received(c, k) \in {"fresh", "stale"}
        /\ ~(by = c /\ opts[c].noloop)
        /\ c # current \/ ~calling => Received(c, k)' = view'[c][k]
    BY <1>8, SignalReceived
  <2>2. c \in tracking
    BY <1>1, <2>1, SilentNone
  <2>3. CASE opts[c].bcast
    <3>1. PICK p \in opts[c].prefixes : k \in p
      BY <1>1, <1>8, <2>1, <2>3 DEF Safe
    <3>2. p \in PrefixTable /\ p \in Prefixes
      BY <1>4, <2>2 DEF PrefixTable
    <3>3. bkeys'[p][k] = by
      BY <1>3, <1>8, <3>1, <3>2
    <3>4. by # Same
      BY TrackingAssumption
    <3>5. k \in Told(c, p)'
      BY <1>2, <2>1, <3>3, <3>4 DEF Told
    <3>6. Announced(c, k)'
      BY <1>2, <3>5 DEF Announced
    <3> QED
      BY <1>2, <1>8, <2>1, <2>3, <3>1, <3>6 DEF Safe
  <2>4. CASE ~opts[c].bcast
    <3>1. opts[c].prefixes = {}
      BY <1>1, <2>4 DEF Silent
    <3>2. Announced(c, k) => Announced(c, k)'
      BY <1>2, <1>3, <3>1, AnnouncedStays
    <3>3. c \in table[k] => Announced(c, k)' \/ Lost(c, k, "noloop")'
      <4> HAVE c \in table[k]
      <4>1. \/ c = current /\ calling /\ k \in pending'
            \/ c = current /\ opts[c].noloop /\ (c = by \/ <<c, k, "noloop">> \in R.lost)
            \/ /\ c # current \/ ~calling
               /\ view'[c][k] = "none" \/ <<c, k>> \in deferred' \/ <<c, All>> \in deferred'
        BY <2>2, <2>4, SignalStepFields
      <4>2. CASE c = current /\ k \in pending'
        BY <1>2, <4>2 DEF Announced
      <4>3. CASE <<c, k, "noloop">> \in R.lost
        BY <1>2, <1>8, <4>3 DEF Lost
      <4>4. CASE <<c, k>> \in deferred' \/ <<c, All>> \in deferred'
        BY <4>4 DEF Announced
      <4> QED
        BY <4>1, <4>2, <4>3, <4>4, <1>8, <2>1
    <3>4. Announced(c, k)' \/ Lost(c, k, "noloop")' \/ Lost(c, k, "swapdb")'
      BY <1>1, <1>5, <1>8, <2>1, <2>2, <2>4, <3>2, <3>3 DEF Safe
    <3> QED
      BY <1>2, <1>8, <2>1, <2>4, <3>4 DEF Safe
  <2> QED
    BY <2>3, <2>4
<1> QED
  BY <1>6, <1>7, <1>8

LEMMA SignalIdle ==
  ASSUME IInv, NEW k \in Keys, NEW by \in Clients \cup {NoClient}, NEW R,
         SignalStep(k, by, R), ~calling => ops' = ops
  PROVE  Idle'
<1>1. /\ ~calling => pending' = pending /\ deferred' = deferred
      /\ R.reply = Aged(reply, {k})
  BY SignalStepFields
<1>2. ~calling => reply' = R.reply
  BY DEF SignalStep
<1>3. reply = NoKeys => Aged(reply, {k}) = NoKeys
  BY DEF Aged, NoKeys
<1> QED
  BY <1>1, <1>2, <1>3 DEF Idle, IInv, SignalStep

LEMMA SignalSilent ==
  ASSUME IInv, NEW k \in Keys, NEW by \in Clients \cup {NoClient}, NEW R,
         SignalStep(k, by, R)
  PROVE  Silent'
<1>1. /\ opts' = opts /\ tracking' = tracking /\ current' = current
      /\ view' = R.view /\ R \in ServerType /\ Silent
  BY DEF SignalStep, Signalled, IInv
<1>2. ASSUME NEW c \in Clients \ tracking
      PROVE  view'[c] = NoKeys /\ (c = current => reply' = NoKeys)
  <2>1. opts[c] = Off /\ view[c] = NoKeys /\ (c = current => reply = NoKeys)
    BY <1>1 DEF Silent
  <2>2. \A j \in Keys : view'[c][j] \in {Aged(view[c], {k})[j], "none"}
    BY SignalStepFields
  <2>3. \A j \in Keys : view'[c][j] = "none"
    BY <2>1, <2>2 DEF Aged, NoKeys
  <2>4. view'[c] \in [Keys -> Copy]
    BY <1>1, ServerFields
  <2>5. view'[c] = NoKeys
    BY <2>3, <2>4 DEF NoKeys
  <2>6. ~opts[c].noloop
    BY <2>1 DEF Off
  <2>7. c = current => reply' = R.reply
    BY <2>6 DEF SignalStep
  <2>8. R.reply = Aged(reply, {k})
    BY SignalStepFields
  <2>9. Aged(NoKeys, {k}) = NoKeys
    BY DEF Aged, NoKeys
  <2> QED
    BY <2>1, <2>5, <2>7, <2>8, <2>9
<1> QED
  BY <1>1, <1>2 DEF Silent

LEMMA SignalType ==
  ASSUME IInv, NEW k \in Keys, NEW by \in Clients \cup {NoClient}, NEW R,
         SignalStep(k, by, R), ops' \in 0..MaxOps
  PROVE  TypeOK'
<1>1. TypeOK
  BY DEF IInv
<1>2. /\ slots' = slots \ {k} /\ table' = [table EXCEPT ![k] = {}]
      /\ R \in ServerType
  BY SignalStepFields
<1>3. /\ open' = open /\ tracking' = tracking /\ opts' = opts
      /\ current' = current /\ calling' = calling
      /\ bkeys' = R.bkeys /\ pending' = R.pending
      /\ deferred' = R.deferred /\ view' = R.view /\ lost' \subseteq R.lost
      /\ reply' = R.reply \/ reply' = [R.reply EXCEPT ![k] = "wrote"]
  BY DEF SignalStep
<1>4. /\ bkeys' \in [Prefixes -> [Keys -> Clients \cup {NoClient, Same}]]
      /\ pending' \subseteq Keys \cup {All}
      /\ deferred' \subseteq Clients \X (Keys \cup {All})
      /\ view' \in [Clients -> [Keys -> Copy]]
      /\ lost' \subseteq Clients \X Keys \X {"noloop", "swapdb"}
  BY <1>2, <1>3, ServerFields
<1>5. reply' \in [Keys -> Copy \cup {"wrote"}]
  BY <1>2, <1>3, ServerFields
<1>6. /\ table' \in [Keys -> SUBSET open']
      /\ \A j \in Keys : table'[j] # {} => j \in slots'
      /\ slots' \subseteq Keys
  BY <1>1, <1>2, <1>3 DEF TypeOK
<1> QED
  BY <1>1, <1>3, <1>4, <1>5, <1>6 DEF TypeOK

LEMMA SignalInv ==
  ASSUME IInv, NEW k \in Keys, NEW by \in Clients \cup {NoClient}, NEW R,
         SignalStep(k, by, R), ops' \in 0..MaxOps, ~calling => ops' = ops
  PROVE  IInv'
BY SignalSafe, SignalIdle, SignalSilent, SignalType DEF IInv

-----------------------------------------------------------------------------
(* The actions that signal a change.                                       *)

\* The client of a command that is being called.
LEMMA AtWork ==
  ASSUME TypeOK, Idle, calling
  PROVE  current \in open /\ current \in Clients
BY DEF TypeOK, Idle

\* Nobody's change: expiry and eviction.
LEMMA NobodyInv ==
  ASSUME IInv, NEW k \in Keys, Becomes(SignalModified(Server, k, NoClient)),
         Config, UNCHANGED <<current, calling, ops>>
  PROVE  IInv'
<1> DEFINE R == SignalModified(Server, k, NoClient)
<1>1. TypeOK /\ Server \in ServerType
  BY ServerState DEF IInv
<1>2. Signalled(Server, k, NoClient, R)
  BY <1>1, SignalFields DEF TypeOK
<1> HIDE DEF R
<1>3. R \in ServerType
  BY <1>2 DEF Signalled
<1>4. Becomes(R) /\ current' = current
  BY DEF R
<1>5. \A c \in Clients, j \in Keys : \A why :
        <<c, j, why>> \in R.lost /\ Received(c, j)' # "none" => <<c, j, why>> \in lost'
  BY <1>3, <1>4, BecomesLost
<1>6. NoClient \notin Clients
  BY TrackingAssumption
<1>7. SignalStep(k, NoClient, R)
  BY <1>2, <1>3, <1>4, <1>5, <1>6, BecomesFields DEF SignalStep, Config
<1>8. ops' = ops /\ ops \in 0..MaxOps
  BY <1>1 DEF TypeOK
<1> QED
  BY <1>7, <1>8, SignalInv

LEMMA EvictInv ==
  ASSUME IInv, NEW k \in Keys, Evict(k)
  PROVE  IInv'
BY NobodyInv DEF Evict

LEMMA ExpireInv ==
  ASSUME IInv, NEW k \in Keys, Expire(k)
  PROVE  IInv'
BY NobodyInv DEF Expire

LEMMA WriteInv ==
  ASSUME IInv, NEW k \in Keys, Write(k)
  PROVE  IInv'
<1>1. TypeOK /\ Idle /\ Server \in ServerType
  BY ServerState DEF IInv
<1>3. /\ calling /\ current' = current /\ calling' = calling /\ open' = open
      /\ tracking' = tracking /\ opts' = opts /\ ops' = ops + 1 /\ ops < MaxOps
  BY DEF Write, Operation, Config
<1>4. PICK c \in Clients : c = current
  BY <1>1, <1>3, AtWork
<1> DEFINE R  == SignalModified(Server, k, c)
           R2 == [R EXCEPT !.reply = [@ EXCEPT ![k] = "wrote"], !.lost = Found(@, c, k)]
<1>2. Becomes(IF opts[c].noloop THEN R2 ELSE R)
  BY <1>4 DEF Write
<1>5. Signalled(Server, k, c, R)
  BY <1>1, <1>4, SignalFields DEF TypeOK
<1> HIDE DEF R
<1>6. R \in ServerType
  BY <1>5 DEF Signalled
<1>7. ops' \in 0..MaxOps
  BY <1>1, <1>3, TrackingAssumption DEF TypeOK
<1>8. CASE ~opts[c].noloop
  <2>1. Becomes(R)
    BY <1>2, <1>8
  <2>2. \A b \in Clients, j \in Keys : \A why :
          <<b, j, why>> \in R.lost /\ Received(b, j)' # "none" => <<b, j, why>> \in lost'
    BY <1>3, <1>6, <2>1, BecomesLost
  <2>3. SignalStep(k, c, R)
    BY <1>3, <1>5, <1>6, <1>8, <2>1, <2>2, BecomesFields DEF SignalStep
  <2> QED
    BY <1>3, <1>4, <1>7, <2>3, SignalInv
<1>9. CASE opts[c].noloop
  <2> DEFINE r == [R.reply EXCEPT ![k] = "wrote"]
             l == Found(R.lost, c, k)
  <2>0. Becomes(R2)
    BY <1>2, <1>9
  <2>1. R2 = [tracking |-> R.tracking, slots |-> R.slots, table |-> R.table,
              bkeys |-> R.bkeys, pending |-> R.pending, deferred |-> R.deferred,
              reply |-> r, view |-> R.view, lost |-> l]
    <3>1. R2 = [R EXCEPT !.reply = r, !.lost = l]
      OBVIOUS
    <3> HIDE DEF r, l, R2
    <3> QED
      BY <1>6, <3>1 DEF ServerType
  <2>2. r \in [Keys -> Copy \cup {"wrote"}] /\ r[k] = "wrote"
    BY <1>6, ServerFields
  <2>3. l \in SUBSET (Clients \X Keys \X {"noloop", "swapdb"}) /\ l \subseteq R.lost
    BY <1>6, ServerFields DEF Found
  <2>4. \A b \in Clients, j \in Keys : \A why :
          <<b, j, why>> \in R.lost /\ ~(b = c /\ j = k) => <<b, j, why>> \in l
    BY DEF Found
  <2> HIDE DEF R2, r, l
  <2>5. R2 \in ServerType
    BY <1>6, <2>1, <2>2, <2>3, ServerFields DEF ServerType
  <2>6. /\ slots' = R.slots /\ table' = R.table /\ bkeys' = R.bkeys
        /\ pending' = R.pending /\ deferred' = R.deferred /\ reply' = r
        /\ view' = R.view /\ lost' \subseteq l
    <3>1. /\ slots' = R2.slots /\ table' = R2.table /\ bkeys' = R2.bkeys
          /\ pending' = R2.pending /\ deferred' = R2.deferred /\ reply' = R2.reply
          /\ view' = R2.view /\ lost' \subseteq R2.lost
      BY <2>0, <2>5, BecomesFields
    <3> QED
      BY <3>1, <2>1
  <2>7. Received(c, k)' = "none"
    BY <1>3, <1>4, <2>2, <2>6 DEF Received
  <2>8. R2.lost = l
    BY <2>1
  <2>9. \A b \in Clients, j \in Keys : \A why :
          <<b, j, why>> \in l /\ Received(b, j)' # "none" => <<b, j, why>> \in lost'
    BY <1>3, <2>0, <2>5, <2>8, BecomesLost
  <2>10. \A b \in Clients, j \in Keys : \A why :
          <<b, j, why>> \in R.lost /\ Received(b, j)' # "none" => <<b, j, why>> \in lost'
    BY <2>4, <2>7, <2>9
  <2>11. SignalStep(k, c, R)
    BY <1>3, <1>4, <1>5, <1>9, <2>3, <2>6, <2>10 DEF SignalStep, r
  <2> QED
    BY <1>3, <1>4, <1>7, <2>11, SignalInv
<1> QED
  BY <1>8, <1>9

-----------------------------------------------------------------------------
(* The other commands.                                                     *)

\* A copy and what is known of it do not change.
LEMMA SameCopy ==
  ASSUME NEW c \in Clients, NEW k \in Keys, Safe(c, k),
         Received(c, k)' = Received(c, k), opts' = opts, tracking' = tracking,
         table' = table, bkeys' = bkeys,
         Received(c, k) # "none" => /\ Announced(c, k) => Announced(c, k)'
                                    /\ \A why : Lost(c, k, why) => Lost(c, k, why)'
  PROVE  Safe(c, k)'
BY Unaffected

LEMMA LimitUsedSlotsInv ==
  ASSUME IInv, NEW k \in Keys, LimitUsedSlots(k)
  PROVE  IInv'
<1> DEFINE R == Invalidate(Server, k, NoClient)
<1>1. TypeOK /\ Idle /\ Silent /\ Server \in ServerType
  BY ServerState DEF IInv
<1>2. Invalidated(Server, k, NoClient, R)
  BY <1>1, InvalidateFields DEF TypeOK
<1>3. /\ ~calling /\ Becomes(R) /\ current' = current /\ calling' = calling /\ open' = open
      /\ tracking' = tracking /\ opts' = opts /\ ops' = ops
  BY DEF LimitUsedSlots, Config
<1> HIDE DEF R
<1>4. R \in ServerType
  BY <1>2 DEF Invalidated
<1>5. /\ slots' = R.slots /\ table' = R.table /\ bkeys' = R.bkeys
      /\ pending' = R.pending /\ deferred' = R.deferred /\ reply' = R.reply
      /\ view' = R.view /\ lost' \subseteq R.lost
  BY <1>3, <1>4, BecomesFields
<1>6. /\ Server.slots = slots /\ Server.table = table
      /\ Server.bkeys = bkeys /\ Server.pending = pending
      /\ Server.deferred = deferred /\ Server.reply = reply /\ Server.view = view
      /\ Server.lost = lost
  BY <1>1, ServerState
<1>7. /\ slots' = slots \ {k} /\ table' = [table EXCEPT ![k] = {}]
      /\ bkeys' = bkeys /\ reply' = reply /\ pending' = pending /\ deferred' = deferred
      /\ lost \subseteq R.lost
  BY <1>2, <1>3, <1>5, <1>6 DEF Invalidated
<1>8. \A c \in Clients, j \in Keys : view'[c][j] \in {view[c][j], "none"}
  BY <1>2, <1>5, <1>6 DEF Invalidated
<1>9. \A c \in table[k] \cap tracking : ~opts[c].bcast =>
        \/ <<c, k, "noloop">> \in R.lost
        \/ view'[c][k] = "none" \/ <<c, k>> \in deferred' \/ <<c, All>> \in deferred'
  <2>1. \A c \in table[k] : c # NoClient
    BY <1>1, TrackingAssumption DEF TypeOK
  <2> QED
    BY <1>2, <1>3, <1>5, <1>6, <2>1 DEF Invalidated, Deferred
<1>10. reply = NoKeys /\ pending = {} /\ deferred = {}
  BY <1>1, <1>3 DEF Idle
<1>11. ASSUME NEW c \in Clients, NEW j \in Keys
       PROVE  Safe(c, j)'
  <2>1. Received(c, j) = view[c][j] /\ Received(c, j)' = view'[c][j]
    BY <1>7, <1>10 DEF Received, NoKeys
  <2>2. Received(c, j)' \in {Received(c, j), "none"}
    BY <1>8, <2>1
  <2>3. \A why : <<c, j, why>> \in R.lost /\ Received(c, j)' # "none" => Lost(c, j, why)'
    BY <1>3, <1>4, BecomesLost DEF Lost
  <2>4. \A why : Lost(c, j, why) /\ Received(c, j)' # "none" => Lost(c, j, why)'
    BY <1>7, <2>3 DEF Lost
  <2>5. Announced(c, j) => Announced(c, j)'
    BY <1>3, <1>7 DEF Announced, Told
  <2>6. Safe(c, j)
    BY DEF IInv
  <2>7. CASE j # k \/ c \notin table[k] \/ c \notin tracking \/ opts[c].bcast
              \/ Received(c, j)' = "none"
    <3>1. CASE j # k \/ c \notin table[k]
      <4>1. c \in table[j] => c \in table'[j]
        BY <1>1, <1>7, <3>1 DEF TypeOK
      <4> QED
        BY <1>3, <2>2, <2>4, <2>5, <2>6, <4>1, Unaffected
    <3>2. CASE Received(c, j)' = "none"
      BY <3>2 DEF Safe
    <3>3. CASE c \notin tracking \/ opts[c].bcast
      BY <1>3, <2>2, <2>4, <2>5, <2>6, <3>3 DEF Safe
    <3> QED
      BY <2>7, <3>1, <3>2, <3>3
  <2>8. CASE /\ j = k /\ c \in table[k] /\ c \in tracking /\ ~opts[c].bcast
             /\ Received(c, j)' # "none"
    <3>1. Announced(c, j)' \/ Lost(c, j, "noloop")'
      BY <1>9, <2>1, <2>3, <2>8 DEF Announced
    <3> QED
      BY <1>3, <2>8, <3>1 DEF Safe
  <2> QED
    BY <2>7, <2>8
<1>12. Idle'
  BY <1>1, <1>3, <1>7 DEF Idle
<1>13. view' \in [Clients -> [Keys -> Copy]]
  BY <1>4, <1>5, ServerFields
<1>14. Silent'
  <2>1. ASSUME NEW c \in Clients \ tracking
        PROVE  view'[c] = NoKeys
    <3>1. \A j \in Keys : view'[c][j] = "none"
      BY <1>1, <1>8 DEF Silent, NoKeys
    <3> QED
      BY <1>13, <3>1 DEF NoKeys
  <2> QED
    BY <1>1, <1>3, <1>7, <2>1 DEF Silent
<1>15. TypeOK'
  <2>1. lost' \subseteq Clients \X Keys \X {"noloop", "swapdb"}
    BY <1>4, <1>5, ServerFields
  <2>2. /\ table' \in [Keys -> SUBSET open']
        /\ \A j \in Keys : table'[j] # {} => j \in slots'
        /\ slots' \subseteq Keys
    BY <1>1, <1>3, <1>7 DEF TypeOK
  <2> QED
    BY <1>1, <1>3, <1>7, <1>13, <2>1, <2>2 DEF TypeOK
<1> QED
  BY <1>11, <1>12, <1>14, <1>15 DEF IInv

LEMMA ReadInv ==
  ASSUME IInv, NEW k \in Keys, NEW given \in BOOLEAN, Read(k, given)
  PROVE  IInv'
<1>1. TypeOK /\ Idle /\ Silent
  BY DEF IInv
<1>2. /\ calling /\ current' = current /\ calling' = calling /\ open' = open
      /\ tracking' = tracking /\ opts' = opts /\ ops' = ops + 1 /\ ops < MaxOps
      /\ bkeys' = bkeys /\ pending' = pending /\ deferred' = deferred /\ view' = view
  BY DEF Read, Operation, Config
<1>3. PICK c \in Clients : c = current /\ c \in open
  BY <1>1, <1>2, AtWork
<1> DEFINE remember == c \in tracking /\ ~opts[c].bcast /\ (opts[c].opt => given)
           covered  == c \in tracking /\ opts[c].bcast /\ \E p \in opts[c].prefixes : k \in p
<1>4. /\ reply' = IF remember \/ covered THEN [reply EXCEPT ![k] = "fresh"] ELSE reply
      /\ table' = IF remember THEN [table EXCEPT ![k] = @ \cup {c}] ELSE table
      /\ slots' = IF remember THEN slots \cup {k} ELSE slots
      /\ lost' = IF remember \/ covered THEN Found(lost, c, k) ELSE lost
  BY <1>3 DEF Read
<1>5. remember \/ covered => c \in tracking
  OBVIOUS
<1>6. remember \/ covered =>
        c \in table'[k] \/ (opts[c].bcast /\ \E p \in opts[c].prefixes : k \in p)
  BY <1>1, <1>4 DEF TypeOK
<1>7. remember \/ covered => (opts[c].bcast => \E p \in opts[c].prefixes : k \in p)
  OBVIOUS
<1> HIDE DEF remember, covered
<1>8. /\ table' \in [Keys -> SUBSET open'] /\ slots' \subseteq Keys
      /\ \A j \in Keys : table'[j] # {} => j \in slots'
      /\ \A j \in Keys : table[j] \subseteq table'[j]
  BY <1>1, <1>2, <1>3, <1>4 DEF TypeOK
<1>9. reply' \in [Keys -> Copy \cup {"wrote"}]
  BY <1>1, <1>4 DEF TypeOK, Copy
<1>10. lost' \subseteq lost
  BY <1>4 DEF Found
<1>11. ASSUME NEW b \in Clients, NEW j \in Keys
       PROVE  Safe(b, j)'
  <2>1. CASE b = c /\ j = k /\ (remember \/ covered)
    <3>1. reply'[k] = "fresh"
      BY <1>1, <1>4, <2>1 DEF TypeOK
    <3>2. Received(b, j)' = "fresh"
      BY <1>2, <1>3, <2>1, <3>1 DEF Received
    <3> QED
      BY <1>2, <1>6, <1>7, <2>1, <3>2 DEF Safe
  <2>2. CASE ~(b = c /\ j = k /\ (remember \/ covered))
    <3>1. b = c => reply'[j] = reply[j]
      BY <1>1, <1>4, <2>2 DEF TypeOK
    <3>2. Received(b, j)' = Received(b, j)
      BY <1>2, <1>3, <3>1 DEF Received
    <3>3. \A why : Lost(b, j, why) => Lost(b, j, why)'
      BY <1>4, <2>2 DEF Lost, Found
    <3>4. Announced(b, j) => Announced(b, j)'
      BY <1>2 DEF Announced, Told
    <3>5. Safe(b, j)
      BY DEF IInv
    <3> QED
      BY <1>2, <1>8, <3>2, <3>3, <3>4, <3>5, Unaffected
  <2> QED
    BY <2>1, <2>2
<1>12. Idle'
  BY <1>1, <1>2 DEF Idle
<1>13. Silent'
  BY <1>1, <1>2, <1>3, <1>4, <1>5 DEF Silent
<1>14. ops' \in 0..MaxOps
  BY <1>1, <1>2, TrackingAssumption DEF TypeOK
<1>15. TypeOK'
  BY <1>1, <1>2, <1>8, <1>9, <1>10, <1>14 DEF TypeOK
<1> QED
  BY <1>11, <1>12, <1>13, <1>15 DEF IInv

\* A copy after its keys change value.
LEMMA AgedCopy ==
  ASSUME NEW S, NEW copies \in [Keys -> S], NEW K \in SUBSET Keys, NEW k \in Keys
  PROVE  Aged(copies, K)[k] = IF k \in K /\ copies[k] = "fresh" THEN "stale" ELSE copies[k]
BY DEF Aged

LEMMA AgedNone ==
  ASSUME NEW K \in SUBSET Keys
  PROVE  Aged(NoKeys, K) = NoKeys
BY DEF Aged, NoKeys

LEMMA FlushDbInv ==
  ASSUME IInv, FlushDb
  PROVE  IInv'
<1>1. TypeOK /\ Idle /\ Silent /\ Server \in ServerType /\ opts \in [Clients -> OptionType]
  BY ServerState DEF IInv, TypeOK
<1>2. /\ calling /\ current' = current /\ calling' = calling /\ open' = open
      /\ tracking' = tracking /\ opts' = opts /\ ops' = ops + 1 /\ ops < MaxOps
  BY DEF FlushDb, Operation, Config
<1> DEFINE S1 == Changed(Server, Keys)
           P  == IF current \in tracking THEN S1.pending \cup {All} ELSE S1.pending
           B  == [k \in Keys |-> {}]
           Z  == {}
           S2 == [S1 EXCEPT !.pending = P, !.slots = Z, !.table = B]
           C  == tracking \ {current}
           R  == Send(S2, C, All)
<1>3. Becomes(R)
  BY DEF FlushDb, OnFlush
<1>4. /\ S1 \in ServerType /\ S1.bkeys = bkeys /\ S1.pending = pending
      /\ S1.deferred = deferred /\ S1.lost = lost /\ S1.reply = Aged(reply, Keys)
      /\ \A c \in Clients : S1.view[c] = Aged(view[c], Keys)
  <2>1. /\ S1 \in ServerType /\ S1.bkeys = Server.bkeys /\ S1.pending = Server.pending
        /\ S1.deferred = Server.deferred /\ S1.lost = Server.lost
        /\ S1.reply = Aged(Server.reply, Keys)
        /\ \A c \in Clients : S1.view[c] = Aged(Server.view[c], Keys)
    BY <1>1, ChangedFields
  <2> QED
    BY <1>1, <2>1, ServerState
<1> HIDE DEF S1
<1>5. /\ P \in SUBSET (Keys \cup {All}) /\ pending \subseteq P
      /\ current \in tracking => All \in P
  BY <1>4, ServerFields
<1>6. B \in [Keys -> SUBSET Clients] /\ Z \in SUBSET Keys /\ C \in SUBSET Clients
  BY <1>1 DEF TypeOK
<1>7. B \in [Keys -> SUBSET open'] /\ \A k \in Keys : B[k] = {}
  OBVIOUS
<1> HIDE DEF P, B, Z
<1>8. S2 = [tracking |-> S1.tracking, slots |-> Z, table |-> B,
            bkeys |-> S1.bkeys, pending |-> P, deferred |-> S1.deferred,
            reply |-> S1.reply, view |-> S1.view, lost |-> S1.lost]
  <2> DEFINE A1 == [S1 EXCEPT !.pending = P]
             A2 == [A1 EXCEPT !.slots = Z]
  <2>1. S2 = [A2 EXCEPT !.table = B]
    OBVIOUS
  <2>2. A1 = [tracking |-> S1.tracking, slots |-> S1.slots, table |-> S1.table,
              bkeys |-> S1.bkeys, pending |-> P, deferred |-> S1.deferred,
              reply |-> S1.reply, view |-> S1.view, lost |-> S1.lost]
    BY <1>4 DEF ServerType
  <2> HIDE DEF A1
  <2>3. A2 = [tracking |-> S1.tracking, slots |-> Z, table |-> S1.table,
              bkeys |-> S1.bkeys, pending |-> P, deferred |-> S1.deferred,
              reply |-> S1.reply, view |-> S1.view, lost |-> S1.lost]
    BY <2>2
  <2> HIDE DEF A2
  <2> QED
    BY <2>1, <2>3
<1> HIDE DEF S2
<1>9. S2 \in ServerType
  BY <1>4, <1>5, <1>6, <1>8, ServerFields DEF ServerType
<1> HIDE DEF R, C
<1>10. Sent(S2, C, All, R)
  BY <1>1, <1>6, <1>9, SendFields DEF R
<1>11. R \in ServerType
  BY <1>10 DEF Sent
<1>12. /\ slots' = R.slots /\ table' = R.table /\ bkeys' = R.bkeys
       /\ pending' = R.pending /\ deferred' = R.deferred /\ reply' = R.reply
       /\ view' = R.view /\ lost' \subseteq R.lost
  BY <1>3, <1>11, BecomesFields
<1>13. /\ slots' = Z /\ table' = B /\ bkeys' = bkeys /\ pending' = P
       /\ reply' = Aged(reply, Keys) /\ deferred \subseteq deferred'
  BY <1>4, <1>8, <1>10, <1>12 DEF Sent
<1>14. \A c \in Clients, k \in Keys : view'[c][k] \in {Aged(view[c], Keys)[k], "none"}
  <2>1. \A c \in Clients, k \in Keys : R.view[c][k] \in {S2.view[c][k], "none"}
    BY <1>10 DEF Sent
  <2>2. S2.view = S1.view
    BY <1>8
  <2> QED
    BY <1>4, <1>12, <2>1, <2>2
<1>15. \A c \in C, k \in Keys :
         view'[c][k] = "none" \/ <<c, k>> \in deferred' \/ <<c, All>> \in deferred'
  <2>1. \A c \in C, k \in Keys : R.view[c][k] = "none" \/ Deferred(R, c, k)
    BY <1>10 DEF Sent
  <2> QED
    BY <1>12, <2>1 DEF Deferred
<1>16. ASSUME NEW c \in Clients, NEW k \in Keys
       PROVE  Safe(c, k)'
  <2>1. /\ view[c] \in [Keys -> Copy] /\ reply \in [Keys -> Copy \cup {"wrote"}]
        /\ view[c][k] \in Copy /\ reply[k] \in Copy \cup {"wrote"}
    BY <1>1 DEF TypeOK
  <2>2. /\ Aged(view[c], Keys)[k] = IF view[c][k] = "fresh" THEN "stale" ELSE view[c][k]
        /\ Aged(reply, Keys)[k] = IF reply[k] = "fresh" THEN "stale" ELSE reply[k]
    BY <2>1, AgedCopy
  <2>3. Received(c, k)' # "none" => Received(c, k) # "none"
    BY <1>2, <1>13, <1>14, <2>1, <2>2 DEF Received, Copy
  <2>4. CASE Received(c, k)' = "none"
    BY <2>4 DEF Safe
  <2>5. CASE Received(c, k)' # "none"
    <3>1. c \in tracking
      BY <1>1, <2>3, <2>5, SilentNone
    <3>4. Announced(c, k)'
      <4>1. CASE c = current
        BY <1>2, <1>5, <1>13, <3>1, <4>1 DEF Announced
      <4>2. CASE c # current
        <5>1. Received(c, k)' = view'[c][k]
          BY <1>2, <4>2 DEF Received
        <5> QED
          BY <1>15, <2>5, <3>1, <4>2, <5>1 DEF Announced, C
      <4> QED
        BY <4>1, <4>2
    <3>5. Safe(c, k)
      BY DEF IInv
    <3> QED
      BY <1>2, <2>3, <2>5, <3>4, <3>5 DEF Safe
  <2> QED
    BY <2>4, <2>5
<1>17. Idle'
  BY <1>1, <1>2 DEF Idle
<1>18. view' \in [Clients -> [Keys -> Copy]]
  BY <1>11, <1>12, ServerFields
<1>19. Silent'
  <2>1. ASSUME NEW c \in Clients \ tracking
        PROVE  view'[c] = NoKeys /\ (c = current => reply' = NoKeys)
    <3>1. view[c] = NoKeys /\ (c = current => reply = NoKeys)
      BY <1>1 DEF Silent
    <3>2. Aged(NoKeys, Keys) = NoKeys
      BY AgedNone
    <3>3. \A k \in Keys : view'[c][k] = "none"
      BY <1>14, <3>1, <3>2 DEF NoKeys
    <3> QED
      BY <1>13, <1>18, <3>1, <3>2, <3>3 DEF NoKeys
  <2> QED
    BY <1>1, <1>2, <2>1 DEF Silent
<1>20. ops' \in 0..MaxOps
  BY <1>1, <1>2, TrackingAssumption DEF TypeOK
<1>21. /\ deferred' \subseteq Clients \X (Keys \cup {All})
       /\ reply' \in [Keys -> Copy \cup {"wrote"}]
       /\ lost' \subseteq Clients \X Keys \X {"noloop", "swapdb"}
       /\ pending' \subseteq Keys \cup {All}
  BY <1>11, <1>12, ServerFields
<1>22. TypeOK'
  BY <1>1, <1>2, <1>6, <1>7, <1>13, <1>18, <1>20, <1>21 DEF TypeOK
<1> QED
  BY <1>16, <1>17, <1>19, <1>22 DEF IInv

LEMMA SwapDbInv ==
  ASSUME IInv, NEW K \in SUBSET Keys, SwapDb(K)
  PROVE  IInv'
<1>1. TypeOK /\ Idle /\ Silent /\ Server \in ServerType
  BY ServerState DEF IInv
<1>2. /\ calling /\ current' = current /\ calling' = calling /\ open' = open
      /\ tracking' = tracking /\ opts' = opts /\ ops' = ops + 1 /\ ops < MaxOps
  BY DEF SwapDb, Operation, Config
<1> DEFINE Has(c, k) == view[c][k] = "fresh" \/ (c = current /\ reply[k] = "fresh")
           S1 == Changed(Server, K)
           L  == S1.lost \cup {x \in Clients \X K \X {"swapdb"} : Has(x[1], x[2])}
           R  == [S1 EXCEPT !.lost = L]
<1>3. Becomes(R)
  BY DEF SwapDb
<1>4. /\ S1 \in ServerType /\ S1.slots = slots /\ S1.table = table /\ S1.bkeys = bkeys
      /\ S1.pending = pending /\ S1.deferred = deferred /\ S1.lost = lost
      /\ S1.reply = Aged(reply, K)
      /\ \A c \in Clients : S1.view[c] = Aged(view[c], K)
  <2>1. /\ S1 \in ServerType /\ S1.slots = Server.slots /\ S1.table = Server.table
        /\ S1.bkeys = Server.bkeys /\ S1.pending = Server.pending
        /\ S1.deferred = Server.deferred /\ S1.lost = Server.lost
        /\ S1.reply = Aged(Server.reply, K)
        /\ \A c \in Clients : S1.view[c] = Aged(Server.view[c], K)
    BY <1>1, ChangedFields
  <2> QED
    BY <1>1, <2>1, ServerState
<1> HIDE DEF S1
<1>5. L \in SUBSET (Clients \X Keys \X {"noloop", "swapdb"})
  BY <1>4, ServerFields
<1>6. lost \subseteq L
  BY <1>4
<1>7. \A c \in Clients, k \in K : Has(c, k) => <<c, k, "swapdb">> \in L
  OBVIOUS
<1> HIDE DEF L
<1>8. R = [tracking |-> S1.tracking, slots |-> S1.slots, table |-> S1.table,
           bkeys |-> S1.bkeys, pending |-> S1.pending, deferred |-> S1.deferred,
           reply |-> S1.reply, view |-> S1.view, lost |-> L]
  BY <1>4 DEF ServerType
<1> HIDE DEF R
<1>9. R \in ServerType
  BY <1>4, <1>5, <1>8, ServerFields DEF ServerType
<1>10. /\ slots' = R.slots /\ table' = R.table /\ bkeys' = R.bkeys
       /\ pending' = R.pending /\ deferred' = R.deferred /\ reply' = R.reply
       /\ view' = R.view /\ lost' \subseteq R.lost
  BY <1>3, <1>9, BecomesFields
<1>11. /\ slots' = slots /\ table' = table /\ bkeys' = bkeys /\ pending' = pending
       /\ deferred' = deferred /\ reply' = Aged(reply, K)
       /\ \A c \in Clients : view'[c] = Aged(view[c], K)
  BY <1>4, <1>8, <1>10
<1>12. R.lost = L
  BY <1>8
<1>13. ASSUME NEW c \in Clients, NEW k \in Keys
       PROVE  Safe(c, k)'
  <2>1. /\ view[c] \in [Keys -> Copy] /\ reply \in [Keys -> Copy \cup {"wrote"}]
        /\ view[c][k] \in Copy /\ reply[k] \in Copy \cup {"wrote"}
    BY <1>1 DEF TypeOK
  <2>2. /\ view'[c][k] = IF k \in K /\ view[c][k] = "fresh" THEN "stale" ELSE view[c][k]
        /\ reply'[k] = IF k \in K /\ reply[k] = "fresh" THEN "stale" ELSE reply[k]
    BY <1>11, <2>1, AgedCopy
  <2>3. \A why : <<c, k, why>> \in L /\ Received(c, k)' # "none" => Lost(c, k, why)'
    BY <1>2, <1>3, <1>9, <1>12, BecomesLost, ZenonT(40) DEF Lost
  <2>4. Safe(c, k)
    BY DEF IInv
  <2>5. CASE k \in K /\ Received(c, k) = "fresh"
    <3>1. Received(c, k)' = "stale"
      BY <1>2, <2>1, <2>2, <2>5 DEF Received, Copy
    <3>2. Has(c, k)
      BY <2>5 DEF Received
    <3>3. Lost(c, k, "swapdb")'
      BY <1>7, <2>3, <2>5, <3>1, <3>2
    <3> QED
      BY <1>2, <2>4, <2>5, <3>1, <3>3 DEF Safe
  <2>6. CASE ~(k \in K /\ Received(c, k) = "fresh")
    <3>1. Received(c, k)' = Received(c, k)
      BY <1>2, <2>1, <2>2, <2>6 DEF Received, Copy
    <3>2. Announced(c, k) => Announced(c, k)'
      BY <1>2, <1>11 DEF Announced, Told
    <3>3. \A why : Lost(c, k, why) /\ Received(c, k) # "none" => Lost(c, k, why)'
      BY <1>6, <2>3, <3>1 DEF Lost
    <3> QED
      BY <1>2, <1>11, <2>4, <3>1, <3>2, <3>3, SameCopy
  <2> QED
    BY <2>5, <2>6
<1>14. Idle'
  BY <1>1, <1>2 DEF Idle
<1>15. Silent'
  <2>1. Aged(NoKeys, K) = NoKeys
    BY AgedNone
  <2> QED
    BY <1>1, <1>2, <1>11, <2>1 DEF Silent
<1>16. ops' \in 0..MaxOps
  BY <1>1, <1>2, TrackingAssumption DEF TypeOK
<1>17. /\ reply' \in [Keys -> Copy \cup {"wrote"}] /\ view' \in [Clients -> [Keys -> Copy]]
       /\ lost' \subseteq Clients \X Keys \X {"noloop", "swapdb"}
  BY <1>9, <1>10, ServerFields
<1>18. TypeOK'
  BY <1>1, <1>2, <1>11, <1>16, <1>17 DEF TypeOK
<1> QED
  BY <1>13, <1>14, <1>15, <1>18 DEF IInv

LEMMA EndInv ==
  ASSUME IInv, End
  PROVE  IInv'
<1>1. TypeOK /\ Idle /\ Silent
  BY DEF IInv
<1> DEFINE m == IF opts[current].redir = Gone /\ pending # {} THEN {All} ELSE pending
           In(b) == {x[2] : x \in {y \in deferred : y[1] = b}}
                      \cup (IF b = current THEN m ELSE {})
<1>2. /\ calling
      /\ view' = [b \in Clients |-> [k \in Keys |->
                   IF In(b) \cap {k, All} # {} THEN "none" ELSE Received(b, k)]]
      /\ current' = NoClient /\ calling' = FALSE /\ ops' = 0
      /\ pending' = {} /\ deferred' = {} /\ reply' = NoKeys
      /\ lost' = {x \in lost : view'[x[1]][x[2]] # "none"}
      /\ open' = open /\ tracking' = tracking /\ opts' = opts
      /\ slots' = slots /\ table' = table /\ bkeys' = bkeys
  BY DEF End, Config
<1>3. ASSUME NEW b \in Clients, NEW k \in Keys, Received(b, k)' # "none"
      PROVE  /\ Received(b, k)' = Received(b, k) /\ view'[b][k] = Received(b, k)
             /\ Announced(b, k) => Announced(b, k)'
  <2>1. b # NoClient
    BY TrackingAssumption
  <2>2. Received(b, k)' = view'[b][k]
    BY <1>2, <2>1 DEF Received
  <2>3. view'[b][k] = IF In(b) \cap {k, All} # {} THEN "none" ELSE Received(b, k)
    BY <1>2
  <2>4. In(b) \cap {k, All} = {}
    BY <1>3, <2>2, <2>3
  <2>5. \A x : <<b, x>> \in deferred => x \in In(b)
    OBVIOUS
  <2>6. b = current /\ pending \cap {k, All} # {} => In(b) \cap {k, All} # {}
    OBVIOUS
  <2>7. Announced(b, k) => \E p \in opts[b].prefixes : k \in Told(b, p)
    BY <2>4, <2>5, <2>6 DEF Announced
  <2> HIDE DEF In
  <2>8. Announced(b, k) => Announced(b, k)'
    BY <1>2, <2>7 DEF Announced, Told
  <2> QED
    BY <2>2, <2>3, <2>4, <2>8
<1> HIDE DEF In, m
<1>4. ASSUME NEW b \in Clients, NEW k \in Keys
      PROVE  Safe(b, k)'
  <2>1. Safe(b, k)
    BY DEF IInv
  <2>2. CASE Received(b, k)' = "none"
    BY <2>2 DEF Safe
  <2>3. CASE Received(b, k)' # "none"
    <3>1. /\ Received(b, k)' = Received(b, k) /\ view'[b][k] = Received(b, k)
          /\ Announced(b, k) => Announced(b, k)'
      BY <1>3, <2>3
    <3>2. \A why : Lost(b, k, why) => Lost(b, k, why)'
      BY <1>2, <2>3, <3>1 DEF Lost
    <3> QED
      BY <1>2, <2>1, <3>1, <3>2, SameCopy
  <2> QED
    BY <2>2, <2>3
<1>5. \A b \in Clients, k \in Keys : view'[b][k] \in {"none", Received(b, k)}
  BY <1>2
<1>6. \A b \in Clients, k \in Keys : Received(b, k) \in Copy
  BY <1>1 DEF TypeOK, Received, Copy
<1>7. view' \in [Clients -> [Keys -> Copy]]
  <2>1. \A b \in Clients : view'[b] = [k \in Keys |-> view'[b][k]]
    BY <1>2
  <2>2. \A b \in Clients, k \in Keys : view'[b][k] \in Copy
    BY <1>5, <1>6 DEF Copy
  <2>3. view' = [b \in Clients |-> view'[b]]
    BY <1>2
  <2>4. \A b \in Clients : view'[b] \in [Keys -> Copy]
    BY <2>1, <2>2
  <2> QED
    BY <2>3, <2>4
<1>8. Idle'
  BY <1>2 DEF Idle
<1>9. Silent'
  <2>1. ASSUME NEW b \in Clients \ tracking
        PROVE  view'[b] = NoKeys
    <3>1. \A k \in Keys : view'[b][k] = "none"
      BY <1>1, <1>5, SilentNone
    <3> QED
      BY <1>7, <3>1 DEF NoKeys
  <2> QED
    BY <1>1, <1>2, <2>1 DEF Silent
<1>10. reply' \in [Keys -> Copy \cup {"wrote"}]
  BY <1>2 DEF NoKeys, Copy
<1>11. /\ current' \in open' \cup {NoClient} /\ calling' \in BOOLEAN /\ ops' \in 0..MaxOps
       /\ pending' \subseteq Keys \cup {All} /\ deferred' \subseteq Clients \X (Keys \cup {All})
       /\ lost' \subseteq lost
  <2>1. lost' \subseteq lost
    BY <1>2
  <2>2. ops' \in 0..MaxOps
    <3>1. 0 \in 0..MaxOps
      BY TrackingAssumption
    <3> QED
      BY <1>2, <3>1
  <2>3. current' \in open' \cup {NoClient} /\ calling' \in BOOLEAN
    BY <1>2
  <2>4. pending' \subseteq Keys \cup {All} /\ deferred' \subseteq Clients \X (Keys \cup {All})
    BY <1>2
  <2> QED
    BY <2>1, <2>2, <2>3, <2>4
<1>12. TypeOK'
  BY <1>1, <1>2, <1>7, <1>10, <1>11 DEF TypeOK
<1> QED
  BY <1>4, <1>8, <1>9, <1>12 DEF IInv

LEMMA BeforeSleepInv ==
  ASSUME IInv, BeforeSleep
  PROVE  IInv'
<1>1. TypeOK /\ Idle /\ Silent
  BY DEF IInv
<1> DEFINE In(c) == UNION {Told(c, p) : p \in opts[c].prefixes}
           Gets(c, k) == k \in In(c) \/ (In(c) # {} /\ opts[c].redir = Gone)
<1>2. /\ current = NoClient
      /\ view' = [c \in Clients |-> [k \in Keys |->
                   IF c \in tracking /\ Gets(c, k) THEN "none" ELSE view[c][k]]]
      /\ bkeys' = [p \in Prefixes |-> NoChange]
      /\ open' = open /\ tracking' = tracking /\ opts' = opts
      /\ lost' = {x \in lost : view'[x[1]][x[2]] # "none"}
      /\ slots' = slots /\ table' = table /\ current' = current /\ calling' = calling
      /\ ops' = ops /\ pending' = pending /\ deferred' = deferred /\ reply' = reply
  BY DEF BeforeSleep, Config
<1>3. ~calling /\ pending = {} /\ deferred = {} /\ reply = NoKeys
  BY <1>1, <1>2 DEF Idle
<1>4. \A c \in Clients, k \in Keys :
        /\ view'[c][k] \in {"none", view[c][k]}
        /\ c \in tracking /\ view'[c][k] # "none" =>
             \A p \in opts[c].prefixes : k \notin Told(c, p)
  <2> TAKE c \in Clients, k \in Keys
  <2>1. view'[c][k] = IF c \in tracking /\ Gets(c, k) THEN "none" ELSE view[c][k]
    BY <1>2
  <2>2. \A p \in opts[c].prefixes : k \in Told(c, p) => k \in In(c)
    OBVIOUS
  <2> HIDE DEF In
  <2> QED
    BY <2>1, <2>2
<1>5. view' \in [Clients -> [Keys -> Copy]]
  <2>1. \A c \in Clients : view'[c] = [k \in Keys |-> view'[c][k]]
    BY <1>2
  <2>2. \A c \in Clients, k \in Keys : view'[c][k] \in Copy
    BY <1>1, <1>4 DEF TypeOK, Copy
  <2>3. view' = [c \in Clients |-> view'[c]]
    BY <1>2
  <2>4. \A c \in Clients : view'[c] \in [Keys -> Copy]
    BY <2>1, <2>2
  <2> QED
    BY <2>3, <2>4
<1> HIDE DEF In, Gets
<1>6. ASSUME NEW c \in Clients, NEW k \in Keys
      PROVE  Safe(c, k)'
  <2>1. Safe(c, k)
    BY DEF IInv
  <2>2. Received(c, k) = view[c][k] /\ Received(c, k)' = view'[c][k]
    BY <1>2, <1>3 DEF Received, NoKeys
  <2>3. CASE Received(c, k)' = "none"
    BY <2>3 DEF Safe
  <2>4. CASE Received(c, k)' # "none"
    <3>1. Received(c, k)' = Received(c, k)
      BY <1>4, <2>2, <2>4
    <3>2. c \in tracking
      BY <1>1, <2>4, <3>1, SilentNone
    <3>3. ~Announced(c, k)
      BY <1>2, <1>3, <1>4, <2>2, <2>4, <3>2 DEF Announced
    <3>4. \A why : Lost(c, k, why) => Lost(c, k, why)'
      BY <1>2, <2>2, <2>4 DEF Lost
    <3> QED
      BY <1>2, <2>1, <3>1, <3>3, <3>4, Unaffected
  <2> QED
    BY <2>3, <2>4
<1>7. Idle'
  BY <1>1, <1>2 DEF Idle
<1>8. Silent'
  <2>1. ASSUME NEW c \in Clients \ tracking
        PROVE  view'[c] = NoKeys
    <3>1. \A k \in Keys : view'[c][k] = "none"
      BY <1>1, <1>4 DEF Silent, NoKeys
    <3> QED
      BY <1>5, <3>1 DEF NoKeys
  <2> QED
    BY <1>1, <1>2, <2>1 DEF Silent
<1>9. bkeys' \in [Prefixes -> [Keys -> Clients \cup {NoClient, Same}]]
  BY <1>2 DEF NoChange
<1>10. lost' \subseteq lost
  BY <1>2
<1>11. TypeOK'
  BY <1>1, <1>2, <1>5, <1>9, <1>10 DEF TypeOK
<1> QED
  BY <1>6, <1>7, <1>8, <1>11 DEF IInv

-----------------------------------------------------------------------------
(* CLIENT TRACKING, and connections.                                       *)

\* Between commands a client has received all it was sent.
LEMMA AtRest ==
  ASSUME TypeOK, Idle, ~calling
  PROVE  /\ pending = {} /\ deferred = {} /\ reply = NoKeys
         /\ \A c \in Clients, k \in Keys : Received(c, k) = view[c][k]
BY DEF Idle, Received, NoKeys

\* The options of one client change, and it drops its copies.
LEMMA ReconfigureSafe ==
  ASSUME IInv, current = NoClient, NEW c \in Clients, NEW b \in Clients, NEW k \in Keys,
         Settled, view' = [view EXCEPT ![c] = NoKeys], lost' = {x \in lost : x[1] # c},
         b # c => /\ b \in tracking' => b \in tracking
                  /\ opts'[b].bcast = opts[b].bcast
                  /\ opts'[b].noloop = opts[b].noloop
                  /\ opts'[b].prefixes = opts[b].prefixes
                  /\ b \in table[k] => b \in table'[k]
                  /\ b \in tracking => \A p \in opts[b].prefixes : bkeys'[p] = bkeys[p]
  PROVE  Safe(b, k)'
<1>1. TypeOK /\ Idle /\ Silent /\ Safe(b, k)
  BY DEF IInv
<1>2. ~calling
  BY <1>1 DEF Idle
<1>3. pending = {} /\ deferred = {} /\ reply = NoKeys /\ Received(b, k) = view[b][k]
  BY <1>1, <1>2, AtRest
<1>4. Received(b, k)' = view'[b][k]
  BY <1>3 DEF Settled, Received, NoKeys
<1>5. CASE b = c
  <2>1. Received(b, k)' = "none"
    BY <1>1, <1>4, <1>5 DEF TypeOK, NoKeys
  <2> QED
    BY <2>1 DEF Safe
<1>6. CASE b # c
  <2>1. Received(b, k)' = Received(b, k)
    BY <1>1, <1>3, <1>4, <1>6 DEF TypeOK
  <2>2. \A why : Lost(b, k, why) => Lost(b, k, why)'
    BY <1>6 DEF Lost
  <2>3. CASE Received(b, k) = "none"
    BY <2>1, <2>3 DEF Safe
  <2>4. CASE Received(b, k) # "none"
    <3>1. b \in tracking
      BY <1>1, <2>4, SilentNone
    <3>2. Announced(b, k) => \E p \in opts[b].prefixes : k \in Told(b, p)
      BY <1>3 DEF Announced
    <3>3. \A p \in opts[b].prefixes : k \in Told(b, p) => k \in Told(b, p)'
      BY <1>6, <3>1 DEF Told
    <3>4. Announced(b, k) => Announced(b, k)'
      BY <1>6, <3>2, <3>3 DEF Announced
    <3> QED
      BY <1>1, <1>6, <2>1, <2>2, <3>4, Unaffected
  <2> QED
    BY <2>3, <2>4
<1> QED
  BY <1>5, <1>6

LEMMA EnableTrackingInv ==
  ASSUME IInv, NEW c \in Clients, NEW o \in Options, EnableTracking(c, o)
  PROVE  IInv'
<1>1. TypeOK /\ Idle /\ Silent
  BY DEF IInv
<1> DEFINE q == o.prefixes \cup opts[c].prefixes
           n == [o EXCEPT !.prefixes = q]
<1>2. /\ current = NoClient /\ c \in open
      /\ c \in tracking => opts[c].bcast = o.bcast
      /\ tracking' = tracking \cup {c}
      /\ opts' = [opts EXCEPT ![c] = n]
      /\ view' = [view EXCEPT ![c] = NoKeys] /\ lost' = {x \in lost : x[1] # c}
      /\ Settled
      /\ open' = open /\ slots' = slots /\ table' = table /\ bkeys' = bkeys
  BY DEF EnableTracking
<1>3. /\ o \in OptionType /\ opts[c] \in OptionType
      /\ o.prefixes # {} <=> o.bcast
      /\ opts[c].prefixes # {} <=> opts[c].bcast
  BY <1>1, TrackingAssumption DEF TypeOK, Silent
<1>4. c \notin tracking => opts[c].prefixes = {}
  BY <1>1 DEF Silent, Off
<1>5. q \in SUBSET Prefixes
  BY <1>3 DEF OptionType
<1>6. q # {} <=> o.bcast
  BY <1>2, <1>3, <1>4
<1> HIDE DEF q
<1>7. n \in OptionType /\ n.bcast = o.bcast /\ n.prefixes = q
  BY <1>3, <1>5 DEF OptionType
<1> HIDE DEF n
<1>8. opts' \in [Clients -> OptionType]
  BY <1>1, <1>2, <1>7 DEF TypeOK
<1>9. opts'[c] = n /\ \A b \in Clients \ {c} : opts'[b] = opts[b]
  BY <1>1, <1>2 DEF TypeOK
<1>10. ASSUME NEW b \in Clients, NEW k \in Keys
       PROVE  Safe(b, k)'
  BY <1>2, <1>9, ReconfigureSafe
<1>11. Idle'
  BY <1>1, <1>2 DEF Idle, Settled
<1>12. Silent'
  <2>1. \A b \in Clients : opts'[b].prefixes # {} <=> opts'[b].bcast
    BY <1>1, <1>6, <1>7, <1>9 DEF Silent
  <2>2. \A b \in Clients \ tracking' : b \in Clients \ tracking /\ b # c
    BY <1>2
  <2>3. \A b \in Clients \ {c} : view'[b] = view[b]
    BY <1>1, <1>2 DEF TypeOK
  <2> QED
    BY <1>1, <1>2, <1>9, <2>1, <2>2, <2>3 DEF Silent, Settled
<1>13. view' \in [Clients -> [Keys -> Copy]]
  <2>1. NoKeys \in [Keys -> Copy]
    BY DEF NoKeys, Copy
  <2> QED
    BY <1>1, <1>2, <2>1 DEF TypeOK
<1>14. tracking' \subseteq open' /\ lost' \subseteq lost
  BY <1>1, <1>2 DEF TypeOK
<1>15. TypeOK'
  BY <1>1, <1>2, <1>8, <1>13, <1>14 DEF TypeOK, Settled
<1> QED
  BY <1>10, <1>11, <1>12, <1>15 DEF IInv

\* The prefixes of the clients that go on tracking keep their keys.
LEMMA ForgetFields ==
  ASSUME TypeOK, NEW T \in SUBSET Clients
  PROVE  /\ Forget(T) \in [Prefixes -> [Keys -> Clients \cup {NoClient, Same}]]
         /\ \A b \in T : \A p \in opts[b].prefixes : Forget(T)[p] = bkeys[p]
<1>1. NoChange \in [Keys -> Clients \cup {NoClient, Same}]
  BY DEF NoChange
<1>2. \A b \in T : opts[b].prefixes \subseteq Prefixes
  BY DEF TypeOK, OptionType
<1>3. bkeys \in [Prefixes -> [Keys -> Clients \cup {NoClient, Same}]]
  BY DEF TypeOK
<1> QED
  BY <1>1, <1>2, <1>3 DEF Forget

LEMMA DisableTrackingInv ==
  ASSUME IInv, NEW c \in Clients, DisableTracking(c)
  PROVE  IInv'
<1>1. TypeOK /\ Idle /\ Silent
  BY DEF IInv
<1> DEFINE T == tracking \ {c}
<1>2. /\ current = NoClient
      /\ tracking' = T /\ opts' = [opts EXCEPT ![c] = Off] /\ bkeys' = Forget(T)
      /\ view' = [view EXCEPT ![c] = NoKeys] /\ lost' = {x \in lost : x[1] # c}
      /\ Settled /\ open' = open /\ slots' = slots /\ table' = table
  BY DEF DisableTracking
<1>3. T \in SUBSET Clients /\ \A b \in Clients \ {c} : b \in T <=> b \in tracking
  BY <1>1 DEF TypeOK
<1>4. c \notin T /\ T \subseteq open
  BY <1>1 DEF TypeOK
<1> HIDE DEF T
<1>5. /\ bkeys' \in [Prefixes -> [Keys -> Clients \cup {NoClient, Same}]]
      /\ \A b \in T : \A p \in opts[b].prefixes : bkeys'[p] = bkeys[p]
  BY <1>1, <1>2, <1>3, ForgetFields
<1>6. /\ opts'[c] = Off /\ \A b \in Clients \ {c} : opts'[b] = opts[b]
      /\ view'[c] = NoKeys /\ \A b \in Clients \ {c} : view'[b] = view[b]
  BY <1>1, <1>2 DEF TypeOK
<1>7. ASSUME NEW b \in Clients, NEW k \in Keys
      PROVE  Safe(b, k)'
  BY <1>2, <1>3, <1>5, <1>6, ReconfigureSafe
<1>8. Idle'
  BY <1>1, <1>2 DEF Idle, Settled
<1>9. ~calling /\ reply' = NoKeys
  BY <1>1, <1>2 DEF Idle, Settled
<1>10. Silent'
  <2>1. \A b \in Clients : opts'[b].prefixes # {} <=> opts'[b].bcast
    BY <1>1, <1>6 DEF Silent, Off
  <2>2. \A b \in Clients \ tracking' : b = c \/ b \in Clients \ tracking
    BY <1>2, <1>3
  <2> QED
    BY <1>1, <1>6, <1>9, <2>1, <2>2 DEF Silent
<1>11. Off \in OptionType
  BY DEF Off, OptionType
<1>12. opts' \in [Clients -> OptionType]
  BY <1>1, <1>2, <1>11 DEF TypeOK
<1>13. view' \in [Clients -> [Keys -> Copy]]
  <2>1. NoKeys \in [Keys -> Copy]
    BY DEF NoKeys, Copy
  <2> QED
    BY <1>1, <1>2, <2>1 DEF TypeOK
<1>14. lost' \subseteq lost
  BY <1>2
<1>15. TypeOK'
  BY <1>1, <1>2, <1>4, <1>5, <1>12, <1>13, <1>14 DEF TypeOK, Settled
<1> QED
  BY <1>7, <1>8, <1>10, <1>15 DEF IInv

LEMMA CloseInv ==
  ASSUME IInv, NEW c \in Clients, Close(c)
  PROVE  IInv'
<1>1. TypeOK /\ Idle /\ Silent
  BY DEF IInv
<1> DEFINE T == tracking \ {c}
           N(b) == IF b = c THEN Off
                   ELSE IF opts[b].redir = c THEN [opts[b] EXCEPT !.redir = Gone] ELSE opts[b]
<1>2. /\ current = NoClient /\ open' = open \ {c}
      /\ tracking' = T /\ opts' = [b \in Clients |-> N(b)] /\ bkeys' = Forget(T)
      /\ table' = [k \in Keys |-> table[k] \ {c}]
      /\ view' = [view EXCEPT ![c] = NoKeys] /\ lost' = {x \in lost : x[1] # c}
      /\ Settled /\ slots' = slots
  BY DEF Close
<1>3. T \in SUBSET Clients /\ \A b \in Clients \ {c} : b \in T <=> b \in tracking
  BY <1>1 DEF TypeOK
<1>4. c \notin T /\ T \subseteq open \ {c}
  BY <1>1 DEF TypeOK
<1> HIDE DEF T
<1>5. /\ bkeys' \in [Prefixes -> [Keys -> Clients \cup {NoClient, Same}]]
      /\ \A b \in T : \A p \in opts[b].prefixes : bkeys'[p] = bkeys[p]
  BY <1>1, <1>2, <1>3, ForgetFields
<1>6. Off \in OptionType
  BY DEF Off, OptionType
<1>7. \A b \in Clients : N(b) \in OptionType
  BY <1>1, <1>6 DEF TypeOK, OptionType
<1>8. \A b \in Clients \ {c} :
        /\ N(b).bcast = opts[b].bcast /\ N(b).noloop = opts[b].noloop
        /\ N(b).prefixes = opts[b].prefixes
  BY <1>1 DEF TypeOK, OptionType
<1>9. N(c) = Off
  OBVIOUS
<1>10. \A b \in Clients \ tracking : b # c => N(b) = Off
  <2>1. NoClient # c
    BY TrackingAssumption
  <2>2. Off.redir = NoClient
    BY DEF Off
  <2>3. \A b \in Clients \ tracking : opts[b] = Off
    BY <1>1 DEF Silent
  <2> QED
    BY <2>1, <2>2, <2>3
<1> HIDE DEF N
<1>11. \A b \in Clients : opts'[b] = N(b)
  BY <1>2
<1>12. opts' \in [Clients -> OptionType]
  BY <1>2, <1>7
<1>13. view'[c] = NoKeys /\ \A b \in Clients \ {c} : view'[b] = view[b]
  BY <1>1, <1>2 DEF TypeOK
<1>14. ASSUME NEW b \in Clients, NEW k \in Keys
       PROVE  Safe(b, k)'
  <2>1. b # c => (b \in table[k] => b \in table'[k])
    BY <1>2
  <2> QED
    BY <1>2, <1>3, <1>5, <1>8, <1>11, <2>1, ReconfigureSafe, ZenonT(40)
<1>15. Idle'
  BY <1>1, <1>2 DEF Idle, Settled
<1>16. reply' = NoKeys
  BY <1>1, <1>2 DEF Idle, Settled
<1>17. Silent'
  <2>1. \A b \in Clients : opts'[b].prefixes # {} <=> opts'[b].bcast
    BY <1>1, <1>8, <1>9, <1>11 DEF Silent, Off
  <2>2. \A b \in Clients \ tracking' : b = c \/ b \in Clients \ tracking
    BY <1>2, <1>3
  <2> QED
    BY <1>1, <1>9, <1>10, <1>11, <1>13, <1>16, <2>1, <2>2 DEF Silent
<1>18. view' \in [Clients -> [Keys -> Copy]]
  <2>1. NoKeys \in [Keys -> Copy]
    BY DEF NoKeys, Copy
  <2> QED
    BY <1>1, <1>2, <2>1 DEF TypeOK
<1>19. /\ table' \in [Keys -> SUBSET open'] /\ open' \subseteq Clients
       /\ \A k \in Keys : table'[k] # {} => k \in slots'
  BY <1>1, <1>2 DEF TypeOK
<1>20. lost' \subseteq lost
  BY <1>2
<1>21. TypeOK'
  BY <1>1, <1>2, <1>4, <1>5, <1>12, <1>18, <1>19, <1>20 DEF TypeOK, Settled
<1> QED
  BY <1>14, <1>15, <1>17, <1>21 DEF IInv

LEMMA ConnectInv ==
  ASSUME IInv, NEW c \in Clients, Connect(c)
  PROVE  IInv'
<1>1. /\ open' = open \cup {c} /\ tracking' = tracking /\ opts' = opts /\ slots' = slots
      /\ table' = table /\ bkeys' = bkeys /\ current' = current /\ calling' = calling
      /\ ops' = ops /\ pending' = pending /\ deferred' = deferred /\ reply' = reply
      /\ view' = view /\ lost' = lost
  BY DEF Connect
<1>2. Idle' /\ Silent'
  BY <1>1 DEF IInv, Idle, Silent
<1>3. ASSUME NEW b \in Clients, NEW k \in Keys
      PROVE  Safe(b, k)'
  <2>1. Safe(b, k)
    BY DEF IInv
  <2> QED
    BY <1>1, <2>1 DEF Safe, Received, Announced, Told, Lost
<1>4. table' \in [Keys -> SUBSET open']
  BY <1>1 DEF IInv, TypeOK
<1>5. TypeOK'
  BY <1>1, <1>4 DEF IInv, TypeOK
<1> QED
  BY <1>2, <1>3, <1>5 DEF IInv

LEMMA BeginInv ==
  ASSUME IInv, NEW c \in Clients, Begin(c)
  PROVE  IInv'
<1>1. /\ open' = open /\ tracking' = tracking /\ opts' = opts /\ slots' = slots
      /\ table' = table /\ bkeys' = bkeys /\ current' = c /\ calling' = calling
      /\ ops' = ops /\ pending' = pending /\ deferred' = deferred /\ reply' = reply
      /\ view' = view /\ lost' = lost /\ current = NoClient /\ c \in open
  BY DEF Begin, Config
<1>2. TypeOK /\ Idle /\ ~calling /\ reply = NoKeys /\ pending = {}
  BY <1>1 DEF IInv, Idle
<1>3. Idle' /\ Silent'
  BY <1>1, <1>2 DEF IInv, Idle, Silent
<1>4. ASSUME NEW b \in Clients, NEW k \in Keys
      PROVE  Safe(b, k)'
  <2>1. Safe(b, k)
    BY DEF IInv
  <2>2. Received(b, k)' = Received(b, k)
    BY <1>1, <1>2 DEF Received, NoKeys
  <2>3. Announced(b, k) => Announced(b, k)'
    BY <1>1, <1>2 DEF Announced, Told
  <2>4. \A why : Lost(b, k, why) => Lost(b, k, why)'
    BY <1>1 DEF Lost
  <2> QED
    BY <1>1, <2>1, <2>2, <2>3, <2>4, SameCopy
<1>5. TypeOK'
  BY <1>1, <1>2 DEF TypeOK
<1> QED
  BY <1>3, <1>4, <1>5 DEF IInv

LEMMA CallInv ==
  ASSUME IInv, Call
  PROVE  IInv'
<1>1. /\ open' = open /\ tracking' = tracking /\ opts' = opts /\ slots' = slots
      /\ table' = table /\ bkeys' = bkeys /\ current' = current /\ calling' = TRUE
      /\ ops' = ops /\ pending' = pending /\ deferred' = deferred /\ reply' = reply
      /\ view' = view /\ lost' = lost /\ current # NoClient
  BY DEF Call, Config
<1>2. Idle' /\ Silent'
  BY <1>1 DEF IInv, Idle, Silent
<1>3. ASSUME NEW b \in Clients, NEW k \in Keys
      PROVE  Safe(b, k)'
  <2>1. Safe(b, k)
    BY DEF IInv
  <2> QED
    BY <1>1, <2>1 DEF Safe, Received, Announced, Told, Lost
<1>4. TypeOK'
  BY <1>1 DEF IInv, TypeOK
<1> QED
  BY <1>2, <1>3, <1>4 DEF IInv

-----------------------------------------------------------------------------
(* The theorems.                                                           *)

LEMMA InitInv == Init => IInv
<1> SUFFICES ASSUME Init PROVE IInv
  OBVIOUS
<1>1. Idle
  BY DEF Init, Idle
<1>2. Silent
  BY DEF Init, Silent, Off
<1>3. \A c \in Clients, k \in Keys : Safe(c, k)
  <2>1. \A c \in Clients, k \in Keys : Received(c, k) = "none"
    BY DEF Init, Received, NoKeys
  <2> QED
    BY <2>1 DEF Safe
<1>4. Off \in OptionType
  BY DEF Off, OptionType
<1>5. /\ opts \in [Clients -> OptionType] /\ table \in [Keys -> SUBSET open]
      /\ bkeys \in [Prefixes -> [Keys -> Clients \cup {NoClient, Same}]]
  BY <1>4 DEF Init, NoChange
<1>6. reply \in [Keys -> Copy \cup {"wrote"}] /\ view \in [Clients -> [Keys -> Copy]]
  BY DEF Init, NoKeys, Copy
<1>7. ops \in 0..MaxOps
  BY TrackingAssumption DEF Init
<1>8. \A k \in Keys : table[k] # {} => k \in slots
  BY DEF Init
<1>9. TypeOK
  BY <1>5, <1>6, <1>7, <1>8 DEF Init, TypeOK
<1> QED
  BY <1>1, <1>2, <1>3, <1>9 DEF IInv

LEMMA StepInv == IInv /\ [Next]_vars => IInv'
<1> SUFFICES ASSUME IInv, [Next]_vars PROVE IInv'
  OBVIOUS
<1>1. CASE Next
  <2>1. ASSUME NEW c \in Clients, NEW o \in Options, EnableTracking(c, o) PROVE IInv'
    BY <2>1, EnableTrackingInv
  <2>2. ASSUME NEW c \in Clients, DisableTracking(c) PROVE IInv'
    BY <2>2, DisableTrackingInv
  <2>3. ASSUME NEW c \in Clients, Close(c) PROVE IInv'
    BY <2>3, CloseInv
  <2>4. ASSUME NEW c \in Clients, Connect(c) PROVE IInv'
    BY <2>4, ConnectInv
  <2>5. ASSUME NEW c \in Clients, Begin(c) PROVE IInv'
    BY <2>5, BeginInv
  <2>6. ASSUME NEW k \in Keys, Evict(k) PROVE IInv'
    BY <2>6, EvictInv
  <2>7. ASSUME NEW k \in Keys, LimitUsedSlots(k) PROVE IInv'
    BY <2>7, LimitUsedSlotsInv
  <2>8. ASSUME NEW k \in Keys, NEW given \in BOOLEAN, Read(k, given) PROVE IInv'
    BY <2>8, ReadInv
  <2>9. ASSUME NEW k \in Keys, Write(k) PROVE IInv'
    BY <2>9, WriteInv
  <2>10. ASSUME NEW k \in Keys, Expire(k) PROVE IInv'
    BY <2>10, ExpireInv
  <2>11. CASE Call
    BY <2>11, CallInv
  <2>12. CASE FlushDb
    BY <2>12, FlushDbInv
  <2>13. ASSUME NEW K \in SUBSET Keys, SwapDb(K) PROVE IInv'
    BY <2>13, SwapDbInv
  <2>14. CASE End
    BY <2>14, EndInv
  <2>15. CASE BeforeSleep
    BY <2>15, BeforeSleepInv
  <2> QED
    BY <1>1, <2>1, <2>2, <2>3, <2>4, <2>5, <2>6, <2>7, <2>8, <2>9, <2>10, <2>11,
       <2>12, <2>13, <2>14, <2>15 DEF Next
<1>2. CASE UNCHANGED vars
  BY <1>2, SMTT(30) DEF vars, IInv, TypeOK, Idle, Silent, Safe, Received, Announced, Told, Lost
<1> QED
  BY <1>1, <1>2

\* The inductive invariant.
THEOREM Invariance == Spec => []IInv
<1>1. Init => IInv
  BY InitInv
<1>2. IInv /\ [Next]_vars => IInv'
  BY StepInv
<1> QED
  BY <1>1, <1>2, PTL DEF Spec

\* Only connected clients track or are remembered, and the table has the keys it
\* remembers clients for (tracking.c).
THEOREM TypeCorrect == Spec => []TypeOK
<1>1. IInv => TypeOK
  BY DEF IInv
<1> QED
  BY <1>1, Invariance, PTL

\* Every client with a stale copy is told after it got the copy, in every mode and
\* with any redirection (trackingInvalidateKey() and its callers).
THEOREM CachesCoherent == Spec => []Coherent
<1>1. IInv => Coherent
  BY DEF IInv, Safe, Coherent
<1> QED
  BY <1>1, Invariance, PTL

\* trackingLimitUsedSlots() and the others forget a key only with a message.
THEOREM TableRemembers == Spec => []Remembered
<1>1. IInv => Remembered
  BY DEF IInv, TypeOK, Safe, Remembered
<1> QED
  BY <1>1, Invariance, PTL

\* The assertion of beforeSleep() (server.c:1903) never fails.
THEOREM NothingLeftPending == Spec => []NothingPending
<1>1. IInv => NothingPending
  BY DEF IInv, Idle, NothingPending
<1> QED
  BY <1>1, Invariance, PTL
=============================================================================
