------------------------ MODULE BlockedClientsProofs ------------------------
(****************************************************************************)
(* The safety properties of BlockedClients, for any clients, keys, commands *)
(* and bounds.                                                              *)
(*                                                                          *)
(* The operators of BlockedClients take a server and return one, so that    *)
(* the invariant is about a server, too: Good(S, ...).  One lemma per       *)
(* operator shows that it is kept, and each action is a composition.        *)
(****************************************************************************)
EXTENDS BlockedClients, FiniteSetTheorems, SequenceTheorems, TLAPS

ServerType == [db: [Keys -> Value], cl: [Clients -> Client], t: Tables, order: Seq(Clients)]

Awaits(r) == r.blocked \in {"list", "stream"}

\* The keys a blocking pop or move waits for.
Awaited(cmd) == IF cmd.op = "blmove" THEN {cmd.keys[1]} ELSE Range(cmd.keys)

\* The keys' lists of clients and the clients' sets of keys are inverse.
Linked(S) ==
  /\ \A k \in Keys : IsInjective(S.t.blocking[k])
  /\ \A k \in Keys, c \in Clients : c \in Range(S.t.blocking[k]) <=> k \in S.cl[c].keys

NoKeyWaiters(S, k) == {c \in Clients : k \in S.cl[c].keys /\ S.cl[c].nokey}
OfType(S, b) == {c \in Clients : S.cl[c].blocked = b}

Counted(S) ==
  /\ \A k \in Keys : S.t.nokey[k] = Cardinality(NoKeyWaiters(S, k))
  /\ \A b \in BlockTypes : S.t.byType[b] = Cardinality(OfType(S, b))

\* The queues agree with the flags, and hold nobody twice.
Queued(S) ==
  /\ IsInjective(S.t.unblocked)
  /\ \A c \in Clients : c \in Range(S.t.unblocked) <=> S.cl[c].unblocked
  /\ IsInjective(S.t.postponed)
  /\ \A c \in Clients : c \in Range(S.t.postponed) <=> S.cl[c].blocked = "postpone"
  /\ IsInjective(S.order)

\* The keys signalled are those in the ready list and those of Q, taken from it and
\* not yet handled.
ReadyKeys(S, Q) ==
  /\ IsInjective(S.t.ready)
  /\ Range(S.t.ready) \cap Q = {}
  /\ S.t.signalled = Range(S.t.ready) \cup Q

DueIn(S, c, k) ==
  IF S.cl[c].blocked = "list" THEN S.db[k].type = "list"
  ELSE ~S.db[k].grp \/ S.db[k].new > 0

\* What the client waits for came without a signal.
Excused(btype, v) == v.quiet /\ v.type = btype

\* No wake-up is lost; the clients T are still to be visited for the key k0.
Woken(S, k0, T) ==
  \A c \in Clients : \A k \in S.cl[c].keys :
    DueIn(S, c, k) => \/ k \in S.t.signalled
                      \/ k = k0 /\ c \in T
                      \/ Excused(S.cl[c].blocked, S.db[k])

\* What the fields of a client say of one another.
Own(S, c) ==
  LET r == S.cl[c]
  IN /\ r.keys # {} <=> Awaits(r)
     /\ r.nokey <=> r.blocked = "stream"
     /\ r.blocked # "none" => r.pending
     /\ r.pending => r.cmd \in Commands
     /\ r.owed = IF r.blocked # "none" \/ r.pending THEN 1 ELSE 0
     /\ r.inTable <=> Awaits(r) /\ r.left # Forever
     /\ \A n \in 0..MaxWait : <<c, n>> \in S.t.timeouts <=> Awaits(r) /\ r.left = n
     /\ r.blocked = "list" => /\ c \in Range(S.order)
                              /\ r.cmd.op \in {"blpop", "blmove"}
                              /\ r.keys = Awaited(r.cmd)
     /\ r.blocked = "stream" => r.cmd.op = "xreadgroup"

\* Clients that pop are in every queue in the order in which they blocked.
Ranked(S, c, d) ==
  S.cl[c].blocked = "list" /\ S.cl[d].blocked = "list" =>
    \A k \in Keys : Before(S.t.blocking[k], c, d) => Before(S.order, c, d)

\* x: a client whose command is being taken up or finished, or NoClient.
Good(S, x, Q, k0, T) ==
  /\ S \in ServerType
  /\ Linked(S) /\ Counted(S) /\ Queued(S) /\ ReadyKeys(S, Q) /\ Woken(S, k0, T)
  /\ \A c \in Clients \ {x} : Own(S, c)
  /\ \A c, d \in Clients \ {x} : Ranked(S, c, d)

\* The keys of the batch that are not being handled yet.
Rest == IF loop.key = NoKey THEN loop.batch ELSE Tail(loop.batch)

\* Where handleClientsBlockedOnKeys() is; the clients it is still to visit wait.
Walk ==
  /\ IsInjective(loop.batch) /\ IsInjective(loop.todo)
  /\ ~loop.handling => loop.batch = <<>> /\ loop.key = NoKey
  /\ loop.key = NoKey => loop.todo = <<>>
  /\ loop.key # NoKey => loop.batch # <<>> /\ loop.key = Head(loop.batch)
  /\ \A c \in Range(loop.todo) : loop.key \in clients[c].keys

IInv ==
  /\ TypeOK /\ Walk
  /\ Good(Server, NoClient, Range(Rest), loop.key, Range(loop.todo))

-----------------------------------------------------------------------------
(* Lists without duplicates.                                               *)

LEMMA RemoveAtFacts ==
  ASSUME NEW T, NEW s \in Seq(T), NEW i \in 1..Len(s)
  PROVE  /\ RemoveAt(s, i) \in Seq(T) /\ Len(RemoveAt(s, i)) = Len(s) - 1
         /\ \A j \in 1..(Len(s) - 1) : RemoveAt(s, i)[j] = IF j < i THEN s[j] ELSE s[j + 1]
<1> DEFINE a == SubSeq(s, 1, i - 1)
           b == SubSeq(s, i + 1, Len(s))
<1>1. a \in Seq(T) /\ Len(a) = i - 1 /\ \A j \in 1..(i - 1) : a[j] = s[j]
  OBVIOUS
<1>2. b \in Seq(T) /\ Len(b) = Len(s) - i /\ \A j \in 1..(Len(s) - i) : b[j] = s[i + j]
  OBVIOUS
<1>3. RemoveAt(s, i) = a \o b
  BY DEF RemoveAt
<1> HIDE DEF a, b
<1>4. /\ a \o b \in Seq(T) /\ Len(a \o b) = Len(a) + Len(b)
      /\ \A j \in 1..(Len(a) + Len(b)) : (a \o b)[j] = IF j <= Len(a) THEN a[j] ELSE b[j - Len(a)]
  BY <1>1, <1>2, ConcatProperties
<1>5. Len(a) + Len(b) = Len(s) - 1
  BY <1>1, <1>2
<1>6. ASSUME NEW j \in 1..(Len(s) - 1)
      PROVE  (a \o b)[j] = IF j < i THEN s[j] ELSE s[j + 1]
  <2>1. (a \o b)[j] = IF j <= Len(a) THEN a[j] ELSE b[j - Len(a)]
    BY <1>4, <1>5
  <2>2. CASE j < i
    BY <1>1, <2>1, <2>2
  <2>3. CASE ~(j < i)
    <3>1. j - (i - 1) \in 1..(Len(s) - i) /\ i + (j - (i - 1)) = j + 1
      BY <2>3
    <3> QED
      BY <1>1, <1>2, <2>1, <2>3, <3>1
  <2> QED
    BY <2>2, <2>3
<1> QED
  BY <1>3, <1>4, <1>5, <1>6

\* RemoveFirst() takes the element out and leaves the rest in its order.
LEMMA RemoveFirstFacts ==
  ASSUME NEW T, NEW s \in Seq(T), IsInjective(s), NEW c
  PROVE  /\ RemoveFirst(s, c) \in Seq(T) /\ IsInjective(RemoveFirst(s, c))
         /\ Range(RemoveFirst(s, c)) = Range(s) \ {c}
         /\ \A a, b : Before(RemoveFirst(s, c), a, b) <=> Before(s, a, b) /\ a # c /\ b # c
<1>0. DOMAIN s = 1..Len(s)
  OBVIOUS
<1>1. CASE c \notin Range(s)
  <2>1. ~ \E i \in 1..Len(s) : s[i] = c
    BY <1>0, <1>1 DEF Range
  <2>2. RemoveFirst(s, c) = s
    BY <2>1 DEF RemoveFirst
  <2>3. \A a, b : Before(s, a, b) => a # c /\ b # c
    BY <1>0, <2>1 DEF Before
  <2> QED
    BY <1>1, <2>2, <2>3
<1>2. CASE c \in Range(s)
  <2>1. PICK i \in 1..Len(s) : s[i] = c
    BY <1>0, <1>2 DEF Range
  <2> DEFINE I == {j \in 1..Len(s) : s[j] = c}
             r == RemoveAt(s, i)
  <2>2. RemoveFirst(s, c) = r
    <3>1. SelectInSeq(s, LAMBDA v : v = c) = IF I # {} THEN Min(I) ELSE 0
      BY DEF SelectInSeq
    <3>2. I = {i}
      BY <1>0, <2>1 DEF IsInjective
    <3>3. Min({i}) = i
      BY DEF Min
    <3> HIDE DEF I
    <3> QED
      BY <2>1, <3>1, <3>2, <3>3 DEF RemoveFirst
  <2>3. /\ r \in Seq(T) /\ Len(r) = Len(s) - 1
        /\ \A j \in 1..(Len(s) - 1) : r[j] = IF j < i THEN s[j] ELSE s[j + 1]
    BY RemoveAtFacts
  <2> HIDE DEF r
  <2>4. DOMAIN r = 1..(Len(s) - 1)
    BY <2>3
  <2> DEFINE up(j) == IF j < i THEN j ELSE j + 1
  <2>5. \A j \in 1..(Len(s) - 1) : up(j) \in 1..Len(s) /\ up(j) # i /\ r[j] = s[up(j)]
    BY <2>3
  <2>6. \A j, m \in 1..(Len(s) - 1) : (j < m <=> up(j) < up(m)) /\ (up(j) = up(m) => j = m)
    OBVIOUS
  <2>7. \A j \in 1..Len(s) : j # i => \E m \in 1..(Len(s) - 1) : up(m) = j
    <3> TAKE j \in 1..Len(s)
    <3> HAVE j # i
    <3>1. CASE j < i
      <4>1. j \in 1..(Len(s) - 1) /\ up(j) = j
        BY <3>1
      <4> QED
        BY <4>1
    <3>2. CASE j > i
      <4>1. j - 1 \in 1..(Len(s) - 1) /\ up(j - 1) = j
        BY <3>2
      <4> QED
        BY <4>1
    <3> QED
      BY <3>1, <3>2
  <2> HIDE DEF up
  <2>8. \A j \in 1..Len(s) : s[j] = c <=> j = i
    BY <1>0, <2>1 DEF IsInjective
  <2>9. IsInjective(r)
    <3> SUFFICES ASSUME NEW j \in 1..(Len(s) - 1), NEW m \in 1..(Len(s) - 1), r[j] = r[m]
                 PROVE  j = m
      BY <2>4 DEF IsInjective
    <3>1. s[up(j)] = s[up(m)] /\ up(j) \in DOMAIN s /\ up(m) \in DOMAIN s
      BY <1>0, <2>5
    <3> QED
      BY <2>6, <3>1 DEF IsInjective
  <2>10. Range(r) = Range(s) \ {c}
    <3>1. ASSUME NEW x \in Range(r) PROVE x \in Range(s) \ {c}
      <4>1. PICK j \in 1..(Len(s) - 1) : r[j] = x
        BY <2>4 DEF Range
      <4> QED
        BY <1>0, <2>5, <2>8, <4>1 DEF Range
    <3>2. ASSUME NEW x \in Range(s) \ {c} PROVE x \in Range(r)
      <4>1. PICK j \in 1..Len(s) : s[j] = x
        BY <1>0 DEF Range
      <4>2. PICK m \in 1..(Len(s) - 1) : up(m) = j
        BY <2>7, <2>8, <4>1
      <4> QED
        BY <2>4, <2>5, <4>1, <4>2 DEF Range
    <3> QED
      BY <3>1, <3>2
  <2>11. ASSUME NEW a, NEW b
         PROVE  Before(r, a, b) <=> Before(s, a, b) /\ a # c /\ b # c
    <3>1. ASSUME Before(r, a, b) PROVE Before(s, a, b) /\ a # c /\ b # c
      <4>1. PICK j, m \in 1..(Len(s) - 1) : j < m /\ r[j] = a /\ r[m] = b
        BY <2>4, <3>1 DEF Before
      <4>2. /\ up(j) \in 1..Len(s) /\ up(m) \in 1..Len(s) /\ up(j) # i /\ up(m) # i
            /\ s[up(j)] = a /\ s[up(m)] = b /\ up(j) < up(m)
        BY <2>5, <2>6, <4>1
      <4> QED
        BY <1>0, <2>8, <4>2 DEF Before
    <3>2. ASSUME Before(s, a, b), a # c, b # c PROVE Before(r, a, b)
      <4>1. PICK j, m \in 1..Len(s) : j < m /\ s[j] = a /\ s[m] = b
        BY <1>0, <3>2 DEF Before
      <4>2. PICK jj \in 1..(Len(s) - 1) : up(jj) = j
        BY <2>7, <2>8, <3>2, <4>1
      <4>3. PICK mm \in 1..(Len(s) - 1) : up(mm) = m
        BY <2>7, <2>8, <3>2, <4>1
      <4>4. jj < mm /\ r[jj] = a /\ r[mm] = b
        BY <2>5, <2>6, <4>1, <4>2, <4>3
      <4> QED
        BY <2>4, <4>4 DEF Before
    <3> QED
      BY <3>1, <3>2
  <2> QED
    BY <2>2, <2>3, <2>9, <2>10, <2>11
<1> QED
  BY <1>1, <1>2

LEMMA AppendFacts ==
  ASSUME NEW T, NEW s \in Seq(T), NEW x \in T
  PROVE  /\ Append(s, x) \in Seq(T) /\ Append(s, x) # <<>>
         /\ Range(Append(s, x)) = Range(s) \cup {x}
         /\ IsInjective(s) /\ x \notin Range(s) => IsInjective(Append(s, x))
         /\ \A a, b : Before(Append(s, x), a, b) <=>
                        Before(s, a, b) \/ (a \in Range(s) /\ b = x)
<1> DEFINE r == Append(s, x)
<1>1. /\ r \in Seq(T) /\ r # <<>> /\ Len(r) = Len(s) + 1
      /\ \A i \in 1..Len(s) : r[i] = s[i]
      /\ r[Len(s) + 1] = x
  BY AppendProperties
<1> HIDE DEF r
<1>2. DOMAIN s = 1..Len(s) /\ DOMAIN r = 1..(Len(s) + 1) /\ Len(s) \in Nat
  BY <1>1
<1>3. Range(r) = Range(s) \cup {x}
  <2>1. \A i \in 1..(Len(s) + 1) : i \in 1..Len(s) \/ i = Len(s) + 1
    BY <1>2
  <2>2. 1..Len(s) \subseteq 1..(Len(s) + 1) /\ Len(s) + 1 \in 1..(Len(s) + 1)
    BY <1>2
  <2>3. Range(r) \subseteq Range(s) \cup {x}
    BY <1>1, <1>2, <2>1 DEF Range
  <2>4. Range(s) \subseteq Range(r)
    BY <1>1, <1>2, <2>2 DEF Range
  <2>5. x \in Range(r)
    BY <1>1, <1>2, <2>2 DEF Range
  <2> QED
    BY <2>3, <2>4, <2>5
<1>4. ASSUME IsInjective(s), x \notin Range(s) PROVE IsInjective(r)
  <2> SUFFICES ASSUME NEW i \in 1..(Len(s) + 1), NEW j \in 1..(Len(s) + 1), r[i] = r[j]
               PROVE  i = j
    BY <1>2 DEF IsInjective
  <2>1. \A m \in 1..Len(s) : s[m] # x
    BY <1>2, <1>4 DEF Range
  <2>2. CASE i \in 1..Len(s) /\ j \in 1..Len(s)
    BY <1>1, <1>2, <1>4, <2>2 DEF IsInjective
  <2> QED
    BY <1>1, <1>2, <2>1, <2>2
<1>5. ASSUME NEW a, NEW b
      PROVE  Before(r, a, b) <=> Before(s, a, b) \/ (a \in Range(s) /\ b = x)
  <2>1. ASSUME Before(r, a, b) PROVE Before(s, a, b) \/ (a \in Range(s) /\ b = x)
    <3>1. PICK i, j \in 1..(Len(s) + 1) : i < j /\ r[i] = a /\ r[j] = b
      BY <1>2, <2>1 DEF Before
    <3>2. i \in 1..Len(s) /\ s[i] = a
      BY <1>1, <1>2, <3>1
    <3>3. CASE j \in 1..Len(s)
      BY <1>1, <1>2, <3>1, <3>2, <3>3 DEF Before
    <3>4. CASE j = Len(s) + 1
      BY <1>1, <1>2, <3>1, <3>2, <3>4 DEF Range
    <3> QED
      BY <1>2, <3>3, <3>4
  <2>2. ASSUME Before(s, a, b) PROVE Before(r, a, b)
    <3>1. PICK i, j \in 1..Len(s) : i < j /\ s[i] = a /\ s[j] = b
      BY <1>2, <2>2 DEF Before
    <3>2. i \in DOMAIN r /\ j \in DOMAIN r /\ r[i] = a /\ r[j] = b
      BY <1>1, <1>2, <3>1
    <3> QED
      BY <3>1, <3>2 DEF Before
  <2>3. ASSUME a \in Range(s), b = x PROVE Before(r, a, b)
    <3>1. PICK i \in 1..Len(s) : s[i] = a
      BY <1>2, <2>3 DEF Range
    <3>2. i \in DOMAIN r /\ Len(s) + 1 \in DOMAIN r /\ i < Len(s) + 1 /\ r[i] = a /\ r[Len(s) + 1] = b
      BY <1>1, <1>2, <2>3, <3>1
    <3> QED
      BY <3>2 DEF Before
  <2> QED
    BY <2>1, <2>2, <2>3
<1> QED
  BY <1>1, <1>3, <1>4, <1>5 DEF r

LEMMA HeadTailFacts ==
  ASSUME NEW T, NEW s \in Seq(T), s # <<>>
  PROVE  /\ Head(s) \in T /\ Head(s) \in Range(s) /\ Tail(s) \in Seq(T)
         /\ Range(s) = {Head(s)} \cup Range(Tail(s))
         /\ IsInjective(s) => IsInjective(Tail(s)) /\ Head(s) \notin Range(Tail(s))
<1> DEFINE r == Tail(s)
<1>1. /\ r \in Seq(T) /\ Len(r) = Len(s) - 1 /\ Head(s) \in T
      /\ \A i \in 1..Len(r) : r[i] = s[i + 1]
  BY HeadTailProperties
<1>2. Len(s) \in Nat /\ Len(s) > 0 /\ Head(s) = s[1]
  OBVIOUS
<1> HIDE DEF r
<1>3. DOMAIN s = 1..Len(s) /\ DOMAIN r = 1..Len(r)
  BY <1>1
<1>4. Head(s) \in Range(s)
  BY <1>2, <1>3 DEF Range
<1>5. ASSUME NEW x \in Range(r) PROVE x \in Range(s)
  <2>1. PICK i \in 1..Len(r) : r[i] = x
    BY <1>3 DEF Range
  <2>2. i + 1 \in 1..Len(s) /\ s[i + 1] = x
    BY <1>1, <1>2, <2>1
  <2> QED
    BY <1>3, <2>2 DEF Range
<1>6. ASSUME NEW x \in Range(s), x # Head(s) PROVE x \in Range(r)
  <2>1. PICK i \in 1..Len(s) : s[i] = x
    BY <1>3 DEF Range
  <2>2. i - 1 \in 1..Len(r) /\ r[i - 1] = x
    BY <1>1, <1>2, <1>6, <2>1
  <2> QED
    BY <1>3, <2>2 DEF Range
<1>7. ASSUME IsInjective(s) PROVE IsInjective(r) /\ Head(s) \notin Range(r)
  <2>1. \A i, j \in 1..Len(s) : s[i] = s[j] => i = j
    BY <1>3, <1>7 DEF IsInjective
  <2>2. \A i \in 1..Len(r) : i + 1 \in 1..Len(s) /\ r[i] = s[i + 1] /\ i + 1 # 1
    BY <1>1, <1>2
  <2>3. ASSUME NEW i \in 1..Len(r), NEW j \in 1..Len(r), r[i] = r[j] PROVE i = j
    <3>1. i + 1 = j + 1
      BY <2>1, <2>2, <2>3
    <3> QED
      BY <3>1
  <2>4. \A i \in 1..Len(r) : r[i] # s[1]
    BY <1>2, <2>1, <2>2
  <2> QED
    BY <1>2, <1>3, <2>3, <2>4 DEF IsInjective, Range
<1> QED
  BY <1>1, <1>4, <1>5, <1>6, <1>7 DEF r

LEMMA EmptyFacts ==
  /\ Range(<<>>) = {} /\ IsInjective(<<>>)
  /\ \A T : <<>> \in Seq(T)
  /\ \A a, b : ~Before(<<>>, a, b)
BY DEF Range, IsInjective, Before

LEMMA EmptyRange ==
  ASSUME NEW T, NEW s \in Seq(T)
  PROVE  /\ s = <<>> <=> Range(s) = {}
         /\ Range(s) \in SUBSET T
<1>1. s # <<>> => Range(s) # {}
  BY HeadTailFacts
<1>2. Range(s) \in SUBSET T
  BY RangeOfSeq
<1> QED
  BY <1>1, <1>2, EmptyFacts

LEMMA ConcatFacts ==
  ASSUME NEW T, NEW s \in Seq(T), NEW t \in Seq(T)
  PROVE  /\ Range(s \o t) = Range(s) \cup Range(t)
         /\ IsInjective(s) /\ IsInjective(t) /\ Range(s) \cap Range(t) = {} =>
              IsInjective(s \o t)
<1> DEFINE r == s \o t
<1>1. /\ r \in Seq(T) /\ Len(r) = Len(s) + Len(t)
      /\ \A i \in 1..(Len(s) + Len(t)) : r[i] = IF i <= Len(s) THEN s[i] ELSE t[i - Len(s)]
  BY ConcatProperties
<1> HIDE DEF r
<1>2. /\ DOMAIN s = 1..Len(s) /\ DOMAIN t = 1..Len(t) /\ DOMAIN r = 1..(Len(s) + Len(t))
      /\ Len(s) \in Nat /\ Len(t) \in Nat
  BY <1>1
<1>3. ASSUME IsInjective(s), IsInjective(t), Range(s) \cap Range(t) = {}
      PROVE  IsInjective(r)
  <2> SUFFICES ASSUME NEW i \in 1..(Len(s) + Len(t)), NEW j \in 1..(Len(s) + Len(t)),
                      r[i] = r[j]
               PROVE  i = j
    BY <1>2 DEF IsInjective
  <2>1. \A m \in 1..(Len(s) + Len(t)) :
          \/ m \in 1..Len(s) /\ r[m] = s[m] /\ r[m] \in Range(s)
          \/ m > Len(s) /\ m - Len(s) \in 1..Len(t) /\ r[m] = t[m - Len(s)] /\ r[m] \in Range(t)
    BY <1>1, <1>2 DEF Range
  <2>2. CASE i <= Len(s) /\ j <= Len(s)
    BY <1>2, <1>3, <2>1, <2>2 DEF IsInjective
  <2>3. CASE i > Len(s) /\ j > Len(s)
    <3>1. i - Len(s) = j - Len(s)
      BY <1>2, <1>3, <2>1, <2>3 DEF IsInjective
    <3> QED
      BY <1>2, <3>1
  <2> QED
    BY <1>2, <1>3, <2>1, <2>2, <2>3
<1> QED
  BY <1>3, RangeConcatenation DEF r
-----------------------------------------------------------------------------
(* Counting.                                                               *)

Is(p) == IF p THEN 1 ELSE 0

\* Two sets that differ at most in c.
LEMMA CountChange ==
  ASSUME NEW A \in SUBSET Clients, NEW B \in SUBSET Clients, NEW c \in Clients,
         \A d \in Clients \ {c} : d \in A <=> d \in B
  PROVE  /\ Cardinality(A) \in Nat /\ Cardinality(B) \in Nat
         /\ Cardinality(B) = Cardinality(A) + Is(c \in B) - Is(c \in A)
<1>1. IsFiniteSet(A) /\ IsFiniteSet(B)
  BY BlockedAssumption, FS_Subset
<1>2. Cardinality(A) \in Nat /\ Cardinality(B) \in Nat
  BY <1>1, FS_CardinalityType
<1>3. CASE c \in A /\ c \in B
  <2>1. A = B
    BY <1>3
  <2> QED
    BY <1>2, <1>3, <2>1 DEF Is
<1>4. CASE c \notin A /\ c \notin B
  <2>1. A = B
    BY <1>4
  <2> QED
    BY <1>2, <1>4, <2>1 DEF Is
<1>5. CASE c \in A /\ c \notin B
  <2>1. B = A \ {c}
    BY <1>5
  <2>2. Cardinality(A \ {c}) = Cardinality(A) - 1
    BY <1>1, <1>5, FS_RemoveElement
  <2> QED
    BY <1>2, <1>5, <2>1, <2>2 DEF Is
<1>6. CASE c \notin A /\ c \in B
  <2>1. B = A \cup {c}
    BY <1>6
  <2>2. Cardinality(A \cup {c}) = Cardinality(A) + 1
    BY <1>1, <1>6, FS_AddElement
  <2> QED
    BY <1>2, <1>6, <2>1, <2>2 DEF Is
<1> QED
  BY <1>3, <1>4, <1>5, <1>6

\* A count is zero exactly if there is nobody to count.
LEMMA CountZero ==
  ASSUME NEW A \in SUBSET Clients
  PROVE  Cardinality(A) = 0 <=> A = {}
BY BlockedAssumption, FS_Subset, FS_EmptySet

-----------------------------------------------------------------------------
(* Types of the fields.                                                    *)

LEMMA ServerFields ==
  ASSUME NEW S \in ServerType
  PROVE  /\ S.db \in [Keys -> Value] /\ S.cl \in [Clients -> Client]
         /\ S.t \in Tables /\ S.order \in Seq(Clients)
         /\ \A c \in Clients : S.cl[c] \in Client
         /\ \A k \in Keys : S.db[k] \in Value
BY DEF ServerType

LEMMA ClientFields ==
  ASSUME NEW r \in Client
  PROVE  /\ r.blocked \in BlockTypes \cup {"none"}
         /\ r.pending \in BOOLEAN /\ r.unblocked \in BOOLEAN
         /\ r.inTable \in BOOLEAN /\ r.nokey \in BOOLEAN
         /\ r.keys \in SUBSET Keys /\ r.left \in Forever..MaxWait
         /\ r.cmd \in Commands \cup {NoCmd} /\ r.input \in Seq(Commands) /\ r.owed \in Int
BY DEF Client

LEMMA TableFields ==
  ASSUME NEW t \in Tables
  PROVE  /\ t.blocking \in [Keys -> Seq(Clients)] /\ t.nokey \in [Keys -> Nat]
         /\ t.signalled \in SUBSET Keys /\ t.ready \in Seq(Keys)
         /\ t.unblocked \in Seq(Clients) /\ t.postponed \in Seq(Clients)
         /\ t.timeouts \in SUBSET (Clients \X (0..MaxWait))
         /\ t.byType \in [BlockTypes -> Nat] /\ t.paused \in BOOLEAN
         /\ \A k \in Keys : t.blocking[k] \in Seq(Clients) /\ t.nokey[k] \in Nat
         /\ \A b \in BlockTypes : t.byType[b] \in Nat
BY DEF Tables

LEMMA ValueFields ==
  ASSUME NEW v \in Value
  PROVE  /\ v.type \in {"none", "string", "list", "stream"} /\ v.n \in Nat
         /\ v.grp \in BOOLEAN /\ v.quiet \in BOOLEAN /\ v.new \in Nat
         /\ v.type = "none" => v = Absent
         /\ v.type = "list" => v.n > 0
         /\ v.grp => v.type = "stream"
         /\ v.new <= v.n /\ (v.new > 0 => v.grp)
BY DEF Value

LEMMA AbsentFields ==
  /\ Absent \in Value /\ Absent.type = "none" /\ Absent.n = 0 /\ ~Absent.grp /\ ~Absent.quiet
BY DEF Absent, Val, Value

ValueRec ==
  [type: {"none", "string", "list", "stream"}, n: Nat, grp: BOOLEAN, new: Nat, quiet: BOOLEAN]

LEMMA StreamIsValue ==
  ASSUME NEW v \in ValueRec, v.type = "stream", v.new <= v.n, v.new > 0 => v.grp
  PROVE  v \in Value
BY DEF Value, ValueRec

LEMMA DeliveredFields ==
  ASSUME NEW v \in Value, v.type = "stream"
  PROVE  LET w == Delivered(v)
         IN /\ w \in Value /\ w.type = "stream" /\ w.grp = v.grp /\ w.new = 0
<1> DEFINE w == Delivered(v)
<1>1. v \in ValueRec /\ v.n \in Nat /\ 0 \in Nat /\ FALSE \in BOOLEAN
  BY DEF Value, ValueRec
<1>2. w \in ValueRec /\ w.type = v.type /\ w.n = v.n /\ w.grp = v.grp /\ w.new = 0
  BY <1>1, Zenon DEF ValueRec, Delivered
<1> HIDE DEF w
<1> QED
  BY <1>1, <1>2, StreamIsValue DEF w

LEMMA AppendedFields ==
  ASSUME NEW v \in Value, v.type = "stream"
  PROVE  Appended(v) \in Value /\ Appended(v).type = "stream"
<1> DEFINE n == v.n + 1
           u == IF v.grp THEN v.new + 1 ELSE v.new
           w == Appended(v)
<1>1. /\ v \in ValueRec /\ n \in Nat /\ u \in Nat /\ u <= n /\ (u > 0 => v.grp)
      /\ FALSE \in BOOLEAN
  BY DEF Value, ValueRec
<1>2. w = [v EXCEPT !.n = n, !.new = u, !.quiet = FALSE]
  BY DEF Appended
<1> HIDE DEF n, u, w
<1>3. w \in ValueRec /\ w.type = v.type /\ w.n = n /\ w.grp = v.grp /\ w.new = u
  BY <1>1, <1>2, Zenon DEF ValueRec
<1> QED
  BY <1>1, <1>3, StreamIsValue DEF w

LEMMA GroupFields ==
  ASSUME NEW v \in Value, v.type = "stream", NEW u \in 0..v.n
  PROVE  LET w == [v EXCEPT !.grp = TRUE, !.new = u]
         IN w \in Value /\ w.type = "stream" /\ w.quiet = v.quiet
<1> DEFINE w == [v EXCEPT !.grp = TRUE, !.new = u]
<1>1. v \in ValueRec /\ u \in Nat /\ u <= v.n /\ TRUE \in BOOLEAN
  BY DEF Value, ValueRec
<1>2. w \in ValueRec /\ w.type = v.type /\ w.n = v.n /\ w.grp /\ w.new = u /\ w.quiet = v.quiet
  BY <1>1, Zenon DEF ValueRec
<1> HIDE DEF w
<1> QED
  BY <1>1, <1>2, StreamIsValue DEF w

LEMMA SetidFields ==
  ASSUME NEW v \in Value, v.type = "stream", v.grp, NEW u \in 0..v.n
  PROVE  LET w == [v EXCEPT !.new = u, !.quiet = u > 0]
         IN w \in Value /\ w.type = "stream" /\ w.grp /\ (w.new > 0 => w.quiet)
<1> DEFINE q == u > 0
           w == [v EXCEPT !.new = u, !.quiet = q]
<1>1. v \in ValueRec /\ u \in Nat /\ u <= v.n
  BY DEF Value, ValueRec
<1>2. q \in BOOLEAN /\ (u > 0 => q)
  OBVIOUS
<1> HIDE DEF q
<1>3. w \in ValueRec /\ w.type = v.type /\ w.n = v.n /\ w.grp = v.grp /\ w.new = u /\ w.quiet = q
  BY <1>1, <1>2, Zenon DEF ValueRec
<1> HIDE DEF w
<1>4. w \in Value /\ w.type = "stream" /\ w.grp /\ (w.new > 0 => w.quiet)
  BY <1>1, <1>2, <1>3, StreamIsValue
<1> QED
  BY <1>4 DEF w, q

LEMMA CommandFields ==
  ASSUME NEW cmd \in Commands
  PROVE  /\ cmd.op \in {"blpop", "blmove", "xreadgroup"}
         /\ cmd.keys \in Seq(Keys) /\ cmd.keys # <<>>
         /\ cmd.wait \in Forever..MaxWait
         /\ cmd.op = "blmove" => cmd.dst \in Keys
         /\ cmd.keys[1] \in Keys /\ cmd.keys[1] \in Range(cmd.keys)
         /\ Range(cmd.keys) \in SUBSET Keys /\ Range(cmd.keys) # {}
<1>1. cmd \in CommandType /\ cmd.keys # <<>> /\ MaxWait \in Nat
  BY BlockedAssumption
<1>2. /\ cmd.op \in {"blpop", "blmove", "xreadgroup"} /\ cmd.keys \in Seq(Keys)
      /\ cmd.wait \in {Forever} \cup 1..MaxWait
      /\ cmd.op = "blmove" => cmd.dst \in Keys
  BY <1>1 DEF CommandType
<1>3. cmd.wait \in Forever..MaxWait
  BY <1>1, <1>2 DEF Forever
<1>4. cmd.keys[1] = Head(cmd.keys) /\ Head(cmd.keys) \in Keys /\ Head(cmd.keys) \in Range(cmd.keys)
  BY <1>1, <1>2, HeadTailFacts
<1>5. Range(cmd.keys) \in SUBSET Keys /\ Range(cmd.keys) # {}
  BY <1>1, <1>2, EmptyRange
<1> QED
  BY <1>1, <1>2, <1>3, <1>4, <1>5

-----------------------------------------------------------------------------
(* Operators that change the key space and signal keys.                    *)

\* R has S's tables but for the keys signalled and the pause.
SameTables(S, R) ==
  /\ R.t.blocking = S.t.blocking /\ R.t.nokey = S.t.nokey /\ R.t.unblocked = S.t.unblocked
  /\ R.t.postponed = S.t.postponed /\ R.t.timeouts = S.t.timeouts
  /\ R.t.byType = S.t.byType

\* R has S's clients.
SameClients(S, R) == R.cl = S.cl /\ R.order = S.order /\ SameTables(S, R)

\* The client whose command runs waits for nothing.
Quiet(S, x) == x \in Clients => S.cl[x].keys = {}

LEMMA DbOnlyGood ==
  ASSUME NEW S, NEW R, NEW x, NEW Q, NEW k0, NEW T, Good(S, x, Q, k0, T),
         NEW Q2, NEW k2, NEW T2,
         R \in ServerType, SameClients(S, R), ReadyKeys(R, Q2), Woken(R, k2, T2)
  PROVE  Good(R, x, Q2, k2, T2)
<1>1. Linked(R)
  BY DEF Good, SameClients, SameTables, Linked
<1>2. Counted(R)
  BY DEF Good, SameClients, SameTables, Counted, NoKeyWaiters, OfType
<1>3. Queued(R)
  BY DEF Good, SameClients, SameTables, Queued
<1>4. \A c \in Clients \ {x} : Own(R, c)
  BY DEF Good, SameClients, SameTables, Own
<1>5. \A c, d \in Clients \ {x} : Ranked(R, c, d)
  BY DEF Good, SameClients, SameTables, Ranked
<1> QED
  BY <1>1, <1>2, <1>3, <1>4, <1>5 DEF Good

\* What the tables say of a client that waits for a key.
LEMMA WaiterFacts ==
  ASSUME NEW S, NEW x, NEW Q, NEW k0, NEW T, Good(S, x, Q, k0, T), Quiet(S, x),
         NEW c \in Clients, NEW k \in S.cl[c].keys
  PROVE  /\ k \in Keys /\ Own(S, c) /\ S.cl[c].blocked \in {"list", "stream"}
         /\ S.t.byType[S.cl[c].blocked] # 0 /\ S.t.blocking[k] # <<>>
         /\ S.cl[c].nokey <=> S.cl[c].blocked = "stream"
         /\ S.cl[c].blocked = "stream" => S.t.nokey[k] # 0
<1>1. S \in ServerType /\ c # x
  BY DEF Good, Quiet
<1>2. k \in Keys /\ S.cl[c] \in Client
  BY <1>1, ServerFields, ClientFields
<1>3. Own(S, c) /\ S.cl[c].blocked \in {"list", "stream"}
  BY <1>1 DEF Good, Own, Awaits
<1>4. S.cl[c].nokey <=> S.cl[c].blocked = "stream"
  BY <1>3 DEF Own
<1>5. c \in OfType(S, S.cl[c].blocked)
  BY DEF OfType
<1>6. S.t.byType[S.cl[c].blocked] # 0
  <2>1. S.cl[c].blocked \in BlockTypes
    BY <1>3 DEF BlockTypes
  <2>2. S.t.byType[S.cl[c].blocked] = Cardinality(OfType(S, S.cl[c].blocked))
    BY <2>1 DEF Good, Counted
  <2>3. OfType(S, S.cl[c].blocked) \in SUBSET Clients
    BY DEF OfType
  <2> QED
    BY <1>5, <2>2, <2>3, CountZero
<1>7. S.t.blocking[k] # <<>>
  BY <1>2, EmptyFacts DEF Good, Linked
<1>8. ASSUME S.cl[c].blocked = "stream" PROVE S.t.nokey[k] # 0
  <2>1. c \in NoKeyWaiters(S, k)
    BY <1>4, <1>8 DEF NoKeyWaiters
  <2>2. S.t.nokey[k] = Cardinality(NoKeyWaiters(S, k))
    BY <1>2 DEF Good, Counted
  <2>3. NoKeyWaiters(S, k) \in SUBSET Clients
    BY DEF NoKeyWaiters
  <2> QED
    BY <2>1, <2>2, <2>3, CountZero
<1> QED
  BY <1>2, <1>3, <1>4, <1>6, <1>7, <1>8

\* R is S after signalKeyAsReady().
Signalled(S, k, type, deleted, R) ==
  /\ R \in ServerType /\ R.db = S.db /\ SameClients(S, R)
  /\ S.t.signalled \subseteq R.t.signalled
  /\ \A Q : ReadyKeys(S, Q) => ReadyKeys(R, Q)
  /\ /\ type \in {"list", "stream"} /\ S.t.byType[type] # 0
     /\ IF deleted THEN S.t.nokey[k] # 0 ELSE S.t.blocking[k] # <<>>
     => k \in R.t.signalled

LEMMA SignalFields ==
  ASSUME NEW S \in ServerType, NEW k \in Keys, NEW type, NEW deleted \in BOOLEAN
  PROVE  Signalled(S, k, type, deleted, Signal(S, k, type, deleted))
<1> DEFINE R == Signal(S, k, type, deleted)
           t == [S.t EXCEPT !.ready = Append(@, k), !.signalled = @ \cup {k}]
<1>1. CASE R = S /\ (\/ type \notin {"list", "stream"} \/ S.t.byType[type] = 0
                     \/ (IF deleted THEN S.t.nokey[k] = 0 ELSE S.t.blocking[k] = <<>>)
                     \/ k \in S.t.signalled)
  BY <1>1 DEF Signalled, SameClients, SameTables
<1>2. CASE R = [S EXCEPT !.t = t] /\ k \notin S.t.signalled
  <2>0. S.t \in Tables
    BY ServerFields
  <2>1. /\ S.t.ready \in Seq(Keys) /\ S.t.signalled \in SUBSET Keys
        /\ Append(S.t.ready, k) \in Seq(Keys) /\ Range(Append(S.t.ready, k)) = Range(S.t.ready) \cup {k}
        /\ IsInjective(S.t.ready) /\ k \notin Range(S.t.ready) => IsInjective(Append(S.t.ready, k))
    BY <2>0, TableFields, AppendFacts
  <2> DEFINE a == Append(S.t.ready, k)
             s == S.t.signalled \cup {k}
  <2>2. t = [S.t EXCEPT !.ready = a, !.signalled = s]
    OBVIOUS
  <2>3. a \in Seq(Keys) /\ s \in SUBSET Keys
    BY <2>1
  <2> HIDE DEF a, s
  <2>4. /\ t \in Tables /\ t.ready = a /\ t.signalled = s /\ t.blocking = S.t.blocking
        /\ t.nokey = S.t.nokey /\ t.unblocked = S.t.unblocked /\ t.postponed = S.t.postponed
        /\ t.timeouts = S.t.timeouts /\ t.byType = S.t.byType
    BY <2>0, <2>2, <2>3 DEF Tables
  <2> HIDE DEF t
  <2>5. R.db = S.db /\ R.cl = S.cl /\ R.order = S.order /\ R.t = t /\ R \in ServerType
    BY <1>2, <2>4 DEF ServerType
  <2> HIDE DEF R
  <2>6. SameClients(S, R)
    BY <2>4, <2>5 DEF SameClients, SameTables
  <2>7. S.t.signalled \subseteq R.t.signalled /\ k \in R.t.signalled
    BY <2>4, <2>5 DEF s
  <2>8. ASSUME NEW Q, ReadyKeys(S, Q) PROVE ReadyKeys(R, Q)
    BY <1>2, <2>1, <2>4, <2>5, <2>8 DEF ReadyKeys, a, s
  <2> QED
    BY <2>5, <2>6, <2>7, <2>8 DEF Signalled, R
<1>3. \/ R = S /\ (\/ type \notin {"list", "stream"} \/ S.t.byType[type] = 0
                   \/ (IF deleted THEN S.t.nokey[k] = 0 ELSE S.t.blocking[k] = <<>>)
                   \/ k \in S.t.signalled)
      \/ R = [S EXCEPT !.t = t] /\ k \notin S.t.signalled
  BY DEF Signal
<1> QED
  BY <1>1, <1>2, <1>3

\* R is S with a new value for a key, and perhaps more keys signalled.
DbSet(S, k, v, R) ==
  /\ R \in ServerType /\ R.db = [S.db EXCEPT ![k] = v] /\ SameClients(S, R)
  /\ S.t.signalled \subseteq R.t.signalled
  /\ \A Q : ReadyKeys(S, Q) => ReadyKeys(R, Q)

\* Whoever waits for k is due as before, or the key is signalled, or what it waits for
\* came without a signal.
LEMMA DbSetGood ==
  ASSUME NEW S, NEW R, NEW x, NEW Q, NEW k0, NEW T, Good(S, x, Q, k0, T), Quiet(S, x),
         NEW k \in Keys, NEW v, DbSet(S, k, v, R),
         \A c \in Clients :
           k \in S.cl[c].keys /\ DueIn(R, c, k) =>
             \/ k \in R.t.signalled
             \/ Excused(S.cl[c].blocked, v)
             \/ DueIn(S, c, k) /\ (Excused(S.cl[c].blocked, S.db[k]) => Excused(S.cl[c].blocked, v))
  PROVE  Good(R, x, Q, k0, T)
<1>1. S \in ServerType /\ R \in ServerType /\ R.cl = S.cl /\ SameClients(S, R)
  BY DEF Good, DbSet, SameClients
<1>2. ReadyKeys(R, Q)
  BY DEF Good, DbSet
<1>3. R.db[k] = v /\ \A j \in Keys \ {k} : R.db[j] = S.db[j]
  BY <1>1, ServerFields DEF DbSet
<1>4. ASSUME NEW c \in Clients, NEW j \in R.cl[c].keys, DueIn(R, c, j)
      PROVE  \/ j \in R.t.signalled
             \/ j = k0 /\ c \in T
             \/ Excused(R.cl[c].blocked, R.db[j])
  <2>1. j \in Keys
    BY <1>1, ServerFields, ClientFields
  <2>2. DueIn(S, c, j) => \/ j \in S.t.signalled
                          \/ j = k0 /\ c \in T
                          \/ Excused(S.cl[c].blocked, S.db[j])
    BY <1>1, <1>4 DEF Good, Woken
  <2>3. S.t.signalled \subseteq R.t.signalled
    BY DEF DbSet
  <2>4. CASE j # k
    <3>1. R.db[j] = S.db[j]
      BY <1>3, <2>1, <2>4
    <3>2. DueIn(S, c, j)
      BY <1>1, <1>4, <3>1 DEF DueIn
    <3> QED
      BY <1>1, <2>2, <2>3, <3>1, <3>2
  <2>5. CASE j = k
    BY <1>1, <1>3, <1>4, <2>2, <2>3, <2>5
  <2> QED
    BY <2>4, <2>5
<1>5. Woken(R, k0, T)
  BY <1>4 DEF Woken
<1> QED
  BY <1>1, <1>2, <1>5, DbOnlyGood

\* R is S after a change of the value of k that keeps the invariant.
Kept(S, x, Q, k0, T, k, R) ==
  /\ Good(R, x, Q, k0, T) /\ SameClients(S, R)
  /\ \A j \in Keys \ {k} : R.db[j] = S.db[j]

LEMMA PutFields ==
  ASSUME NEW S \in ServerType, NEW k \in Keys, NEW v \in Value
  PROVE  LET R == [S EXCEPT !.db[k] = v]
         IN /\ R \in ServerType /\ R.db = [S.db EXCEPT ![k] = v] /\ R.db[k] = v
            /\ R.t = S.t /\ R.cl = S.cl /\ R.order = S.order
            /\ DbSet(S, k, v, R)
<1> DEFINE R == [S EXCEPT !.db[k] = v]
<1>1. /\ R \in ServerType /\ R.db = [S.db EXCEPT ![k] = v] /\ R.db[k] = v
      /\ R.t = S.t /\ R.cl = S.cl /\ R.order = S.order
  BY DEF ServerType
<1> HIDE DEF R
<1>2. DbSet(S, k, v, R)
  BY <1>1 DEF DbSet, SameClients, SameTables, ReadyKeys
<1> QED
  BY <1>1, <1>2 DEF R

\* A signal after a change.
LEMMA PutSignal ==
  ASSUME NEW S \in ServerType, NEW k \in Keys, NEW v, NEW S1, DbSet(S, k, v, S1),
         NEW type, NEW deleted \in BOOLEAN
  PROVE  LET R == Signal(S1, k, type, deleted)
         IN /\ DbSet(S, k, v, R) /\ R.db = S1.db
            /\ /\ type \in {"list", "stream"} /\ S.t.byType[type] # 0
               /\ IF deleted THEN S.t.nokey[k] # 0 ELSE S.t.blocking[k] # <<>>
               => k \in R.t.signalled
<1> DEFINE R == Signal(S1, k, type, deleted)
<1>1. Signalled(S1, k, type, deleted, R)
  BY SignalFields DEF DbSet
<1> HIDE DEF R
<1>2. SameClients(S, R)
  BY <1>1 DEF Signalled, DbSet, SameClients, SameTables
<1>3. S1.t.byType = S.t.byType /\ S1.t.nokey = S.t.nokey /\ S1.t.blocking = S.t.blocking
  BY DEF DbSet, SameClients, SameTables
<1>4. /\ type \in {"list", "stream"} /\ S.t.byType[type] # 0
      /\ IF deleted THEN S.t.nokey[k] # 0 ELSE S.t.blocking[k] # <<>>
      => k \in R.t.signalled
  BY <1>1, <1>3 DEF Signalled
<1>5. DbSet(S, k, v, R) /\ R.db = S1.db
  BY <1>1, <1>2 DEF Signalled, DbSet
<1> QED
  BY <1>4, <1>5 DEF R

LEMMA DbSetKept ==
  ASSUME NEW S \in ServerType, NEW R, NEW x, NEW Q, NEW k0, NEW T, NEW k \in Keys, NEW v,
         DbSet(S, k, v, R), Good(R, x, Q, k0, T)
  PROVE  Kept(S, x, Q, k0, T, k, R) /\ R.db[k] = v
BY ServerFields DEF Kept, DbSet

\* dbAdd(): pops that wait for the key are woken; a group reader waits for a group
\* that is not there, and was due before.
LEMMA DbAddGood ==
  ASSUME NEW S, NEW x, NEW Q, NEW k0, NEW T, Good(S, x, Q, k0, T), Quiet(S, x),
         NEW k \in Keys, NEW v \in Value, S.db[k] = Absent
  PROVE  Kept(S, x, Q, k0, T, k, DbAdd(S, k, v)) /\ DbAdd(S, k, v).db[k] = v
<1> DEFINE R == DbAdd(S, k, v)
<1>1. S \in ServerType
  BY DEF Good
<1>2. DbSet(S, k, v, [S EXCEPT !.db[k] = v])
  BY <1>1, PutFields
<1>3. /\ DbSet(S, k, v, R)
      /\ v.type \in {"list", "stream"} /\ S.t.byType[v.type] # 0 /\ S.t.blocking[k] # <<>>
         => k \in R.t.signalled
  BY <1>1, <1>2, PutSignal DEF DbAdd
<1> HIDE DEF R
<1>4. R.db[k] = v /\ R.cl = S.cl
  BY <1>1, <1>3, ServerFields DEF DbSet, SameClients
<1>5. ASSUME NEW c \in Clients, k \in S.cl[c].keys, DueIn(R, c, k)
      PROVE  k \in R.t.signalled \/ (DueIn(S, c, k) /\ ~Excused(S.cl[c].blocked, S.db[k]))
  <2>1. /\ S.cl[c].blocked \in {"list", "stream"}
        /\ S.t.byType[S.cl[c].blocked] # 0 /\ S.t.blocking[k] # <<>>
    BY <1>5, WaiterFacts
  <2>2. CASE S.cl[c].blocked = "list"
    BY <1>3, <1>4, <1>5, <2>1, <2>2 DEF DueIn
  <2>3. CASE S.cl[c].blocked = "stream"
    BY <2>3, AbsentFields DEF DueIn, Excused
  <2> QED
    BY <2>1, <2>2, <2>3
<1>6. Good(R, x, Q, k0, T)
  BY <1>3, <1>5, DbSetGood
<1> QED
  BY <1>1, <1>3, <1>6, DbSetKept DEF R

\* dbDelete(), setKey() over a value: group readers are woken.
LEMMA ReplaceGood ==
  ASSUME NEW S, NEW x, NEW Q, NEW k0, NEW T, Good(S, x, Q, k0, T), Quiet(S, x),
         NEW k \in Keys, NEW v \in Value, v.type = "list" => v.quiet
  PROVE  LET R == [Signal(S, k, S.db[k].type, TRUE) EXCEPT !.db[k] = v]
         IN Kept(S, x, Q, k0, T, k, R) /\ R.db[k] = v
<1> DEFINE S1 == Signal(S, k, S.db[k].type, TRUE)
           R == [S1 EXCEPT !.db[k] = v]
<1>1. S \in ServerType
  BY DEF Good
<1>2. Signalled(S, k, S.db[k].type, TRUE, S1)
  BY <1>1, SignalFields
<1> HIDE DEF S1
<1>3. S1 \in ServerType /\ S1.db = S.db /\ SameClients(S, S1)
  BY <1>2 DEF Signalled
<1>4. DbSet(S1, k, v, R) /\ R.t = S1.t
  BY <1>3, PutFields
<1> HIDE DEF R
<1>5. SameClients(S, R)
  BY <1>3, <1>4 DEF SameClients, SameTables, DbSet
<1>6. DbSet(S, k, v, R)
  BY <1>2, <1>3, <1>4, <1>5 DEF DbSet, Signalled
<1>7. R.db[k] = v /\ R.cl = S.cl
  BY <1>1, <1>6, ServerFields DEF DbSet, SameClients
<1>8. ASSUME NEW c \in Clients, k \in S.cl[c].keys, DueIn(R, c, k)
      PROVE  \/ k \in R.t.signalled
             \/ Excused(S.cl[c].blocked, v)
             \/ DueIn(S, c, k) /\ ~Excused(S.cl[c].blocked, S.db[k])
  <2>1. /\ S.cl[c].blocked \in {"list", "stream"} /\ S.t.byType[S.cl[c].blocked] # 0
        /\ S.cl[c].blocked = "stream" => S.t.nokey[k] # 0
    BY <1>8, WaiterFacts
  <2>2. CASE S.cl[c].blocked = "list"
    BY <1>7, <1>8, <2>2 DEF DueIn, Excused
  <2>3. CASE S.cl[c].blocked = "stream"
    <3>1. S.db[k] \in Value
      BY <1>1, ServerFields
    <3>2. ~DueIn(S, c, k) => S.db[k].type = "stream"
      BY <2>3, <3>1, ValueFields DEF DueIn
    <3>3. S.db[k].type = "stream" => k \in S1.t.signalled
      BY <1>2, <2>1, <2>3 DEF Signalled
    <3> QED
      BY <1>4, <2>3, <3>2, <3>3 DEF Excused
  <2> QED
    BY <2>1, <2>2, <2>3
<1>9. Good(R, x, Q, k0, T)
  BY <1>6, <1>8, DbSetGood
<1> QED
  BY <1>1, <1>6, <1>9, DbSetKept DEF R, S1

LEMMA DbDeleteGood ==
  ASSUME NEW S, NEW x, NEW Q, NEW k0, NEW T, Good(S, x, Q, k0, T), Quiet(S, x), NEW k \in Keys
  PROVE  Kept(S, x, Q, k0, T, k, DbDelete(S, k))
BY ReplaceGood, AbsentFields DEF DbDelete

LEMMA SetKeyGood ==
  ASSUME NEW S, NEW x, NEW Q, NEW k0, NEW T, Good(S, x, Q, k0, T), Quiet(S, x), NEW k \in Keys,
         NEW v \in Value, v.type # "none"
  PROVE  Kept(S, x, Q, k0, T, k, SetKey(S, k, v))
<1>1. CASE S.db[k] = Absent
  BY <1>1, DbAddGood DEF SetKey
<1>2. CASE S.db[k] # Absent
  <2> DEFINE w == [v EXCEPT !.quiet = TRUE]
  <2>1. w \in Value /\ w.quiet
    BY DEF Value
  <2> HIDE DEF w
  <2>2. SetKey(S, k, v) = [Signal(S, k, S.db[k].type, TRUE) EXCEPT !.db[k] = w]
    BY <1>2 DEF SetKey, w
  <2>3. Kept(S, x, Q, k0, T, k, [Signal(S, k, S.db[k].type, TRUE) EXCEPT !.db[k] = w])
    BY <2>1, ReplaceGood
  <2> QED
    BY <2>2, <2>3
<1> QED
  BY <1>1, <1>2

\* A change that makes nobody due.
LEMMA AlterGood ==
  ASSUME NEW S, NEW x, NEW Q, NEW k0, NEW T, Good(S, x, Q, k0, T), Quiet(S, x), NEW k \in Keys,
         NEW v \in Value, v.type = S.db[k].type, v.quiet = S.db[k].quiet,
         ~v.grp \/ v.new > 0 => ~S.db[k].grp \/ S.db[k].new > 0
  PROVE  Kept(S, x, Q, k0, T, k, [S EXCEPT !.db[k] = v])
<1> DEFINE R == [S EXCEPT !.db[k] = v]
<1>1. S \in ServerType
  BY DEF Good
<1>2. DbSet(S, k, v, R) /\ R.db[k] = v /\ R.cl = S.cl
  BY <1>1, PutFields
<1> HIDE DEF R
<1>3. ASSUME NEW c \in Clients, DueIn(R, c, k)
      PROVE  DueIn(S, c, k) /\ (Excused(S.cl[c].blocked, S.db[k]) => Excused(S.cl[c].blocked, v))
  BY <1>2, <1>3 DEF DueIn, Excused
<1>4. Good(R, x, Q, k0, T)
  BY <1>2, <1>3, DbSetGood
<1> QED
  BY <1>1, <1>2, <1>4, DbSetKept DEF R

\* XGROUP SETID: a group reader that is due now was not signalled.
LEMMA SetidGood ==
  ASSUME NEW S, NEW x, NEW Q, NEW k0, NEW T, Good(S, x, Q, k0, T), Quiet(S, x), NEW k \in Keys,
         NEW v \in Value, v.type = "stream", v.grp, v.new > 0 => v.quiet
  PROVE  Kept(S, x, Q, k0, T, k, [S EXCEPT !.db[k] = v])
<1> DEFINE R == [S EXCEPT !.db[k] = v]
<1>1. S \in ServerType
  BY DEF Good
<1>2. DbSet(S, k, v, R) /\ R.db[k] = v /\ R.cl = S.cl
  BY <1>1, PutFields
<1> HIDE DEF R
<1>3. ASSUME NEW c \in Clients, k \in S.cl[c].keys, DueIn(R, c, k)
      PROVE  Excused(S.cl[c].blocked, v)
  <2>1. S.cl[c].blocked \in {"list", "stream"}
    BY <1>3, WaiterFacts
  <2> QED
    BY <1>2, <1>3, <2>1 DEF DueIn, Excused
<1>4. Good(R, x, Q, k0, T)
  BY <1>2, <1>3, DbSetGood
<1> QED
  BY <1>1, <1>2, <1>4, DbSetKept DEF R

\* XADD, XGROUP DESTROY: group readers are woken.
LEMMA StreamSignalGood ==
  ASSUME NEW S, NEW x, NEW Q, NEW k0, NEW T, Good(S, x, Q, k0, T), Quiet(S, x), NEW k \in Keys,
         NEW v \in Value, v.type = "stream"
  PROVE  Kept(S, x, Q, k0, T, k, Signal([S EXCEPT !.db[k] = v], k, "stream", FALSE))
<1> DEFINE R == Signal([S EXCEPT !.db[k] = v], k, "stream", FALSE)
<1>1. S \in ServerType
  BY DEF Good
<1>2. DbSet(S, k, v, [S EXCEPT !.db[k] = v])
  BY <1>1, PutFields
<1>3. /\ DbSet(S, k, v, R)
      /\ S.t.byType["stream"] # 0 /\ S.t.blocking[k] # <<>> => k \in R.t.signalled
  BY <1>1, <1>2, PutSignal
<1> HIDE DEF R
<1>4. R.db[k] = v /\ R.cl = S.cl
  BY <1>1, <1>3, ServerFields DEF DbSet, SameClients
<1>5. ASSUME NEW c \in Clients, k \in S.cl[c].keys, DueIn(R, c, k)
      PROVE  k \in R.t.signalled
  <2>1. /\ S.cl[c].blocked \in {"list", "stream"}
        /\ S.t.byType[S.cl[c].blocked] # 0 /\ S.t.blocking[k] # <<>>
    BY <1>5, WaiterFacts
  <2> QED
    BY <1>3, <1>4, <1>5, <2>1 DEF DueIn
<1>6. Good(R, x, Q, k0, T)
  BY <1>3, <1>5, DbSetGood
<1> QED
  BY <1>1, <1>3, <1>6, DbSetKept DEF R

LEMMA SignalGood ==
  ASSUME NEW S, NEW x, NEW Q, NEW k0, NEW T, Good(S, x, Q, k0, T), NEW k \in Keys,
         NEW type, NEW deleted \in BOOLEAN
  PROVE  Good(Signal(S, k, type, deleted), x, Q, k0, T)
<1> DEFINE R == Signal(S, k, type, deleted)
<1>1. Signalled(S, k, type, deleted, R)
  BY SignalFields DEF Good
<1> HIDE DEF R
<1>2. R \in ServerType /\ SameClients(S, R) /\ ReadyKeys(R, Q)
  BY <1>1 DEF Signalled, Good
<1>3. Woken(R, k0, T)
  BY <1>1, <1>2 DEF Signalled, SameClients, Good, Woken, DueIn
<1> QED
  BY <1>2, <1>3, DbOnlyGood DEF R

LEMMA PopGood ==
  ASSUME NEW S, NEW x, NEW Q, NEW k0, NEW T, Good(S, x, Q, k0, T), Quiet(S, x), NEW k \in Keys,
         S.db[k].type = "list"
  PROVE  Kept(S, x, Q, k0, T, k, Pop(S, k))
<1>1. CASE S.db[k].n = 1
  BY <1>1, DbDeleteGood DEF Pop
<1>2. CASE S.db[k].n # 1
  <2> DEFINE v == [S.db[k] EXCEPT !.n = S.db[k].n - 1]
  <2>1. S.db[k] \in Value
    BY ServerFields DEF Good
  <2>2. S.db[k].n \in Nat /\ S.db[k].n > 1 /\ ~S.db[k].grp /\ S.db[k].new = 0
    BY <1>2, <2>1, ValueFields
  <2>3. v \in Value /\ v.type = S.db[k].type /\ v.quiet = S.db[k].quiet
    BY <2>1, <2>2 DEF Value
  <2>4. Pop(S, k) = [S EXCEPT !.db[k] = v]
    BY <1>2 DEF Pop
  <2> HIDE DEF v
  <2> QED
    BY <2>2, <2>3, <2>4, AlterGood
<1> QED
  BY <1>1, <1>2

LEMMA PushGood ==
  ASSUME NEW S, NEW x, NEW Q, NEW k0, NEW T, Good(S, x, Q, k0, T), Quiet(S, x), NEW k \in Keys,
         S.db[k].type \in {"none", "list"}
  PROVE  Kept(S, x, Q, k0, T, k, Push(S, k))
<1>1. S.db[k] \in Value
  BY ServerFields DEF Good
<1>2. CASE ~Exists(S, k)
  <2>1. S.db[k] = Absent
    BY <1>1, <1>2, ValueFields DEF Exists
  <2>2. Val("list", 1, FALSE) \in Value
    BY DEF Val, Value
  <2> QED
    BY <1>2, <2>1, <2>2, DbAddGood DEF Push
<1>3. CASE Exists(S, k)
  <2> DEFINE v == [S.db[k] EXCEPT !.n = S.db[k].n + 1]
  <2>1. S.db[k].type = "list" /\ ~S.db[k].grp
    BY <1>1, <1>3, ValueFields DEF Exists
  <2>2. v \in Value /\ v.type = S.db[k].type /\ v.quiet = S.db[k].quiet
    BY <1>1, <2>1 DEF Value
  <2>3. Push(S, k) = [S EXCEPT !.db[k] = v]
    BY <1>3 DEF Push
  <2> HIDE DEF v
  <2> QED
    BY <2>1, <2>2, <2>3, AlterGood
<1> QED
  BY <1>2, <1>3

-----------------------------------------------------------------------------
(* Operators that change one client.                                       *)

\* R is S but for client c, which is now r, the tables t and the order o.
Changed(S, c, r, t, o, R) ==
  /\ R.db = S.db /\ R.t = t /\ R.order = o /\ R.cl[c] = r
  /\ \A d \in Clients \ {c} : R.cl[d] = S.cl[d]
  /\ r \in Client /\ t \in Tables /\ o \in Seq(Clients) => R \in ServerType

LEMMA ChangeClient ==
  ASSUME NEW S \in ServerType, NEW c \in Clients, NEW r
  PROVE  Changed(S, c, r, S.t, S.order, [S EXCEPT !.cl[c] = r])
BY DEF ServerType, Changed

LEMMA ChangeTables ==
  ASSUME NEW S \in ServerType, NEW c \in Clients, NEW t
  PROVE  Changed(S, c, S.cl[c], t, S.order, [S EXCEPT !.t = t])
BY DEF ServerType, Changed

\* The counts go up and down with what they count.
LEMMA CountedAfter ==
  ASSUME NEW S, NEW R, NEW c \in Clients, Counted(S),
         \A d \in Clients \ {c} : R.cl[d] = S.cl[d],
         \A b \in BlockTypes :
           R.t.byType[b] = S.t.byType[b] + Is(R.cl[c].blocked = b) - Is(S.cl[c].blocked = b),
         \A k \in Keys :
           R.t.nokey[k] = S.t.nokey[k] + Is(k \in R.cl[c].keys /\ R.cl[c].nokey)
                                       - Is(k \in S.cl[c].keys /\ S.cl[c].nokey)
  PROVE  Counted(R)
<1>1. ASSUME NEW b \in BlockTypes PROVE R.t.byType[b] = Cardinality(OfType(R, b))
  <2>1. /\ OfType(S, b) \in SUBSET Clients /\ OfType(R, b) \in SUBSET Clients
        /\ \A d \in Clients \ {c} : d \in OfType(S, b) <=> d \in OfType(R, b)
        /\ (c \in OfType(S, b)) = (S.cl[c].blocked = b)
        /\ (c \in OfType(R, b)) = (R.cl[c].blocked = b)
    BY DEF OfType
  <2>2. Cardinality(OfType(R, b)) =
          Cardinality(OfType(S, b)) + Is(c \in OfType(R, b)) - Is(c \in OfType(S, b))
    BY <2>1, CountChange
  <2>3. S.t.byType[b] = Cardinality(OfType(S, b))
    BY DEF Counted
  <2> QED
    BY <2>1, <2>2, <2>3
<1>2. ASSUME NEW k \in Keys PROVE R.t.nokey[k] = Cardinality(NoKeyWaiters(R, k))
  <2>1. /\ NoKeyWaiters(S, k) \in SUBSET Clients /\ NoKeyWaiters(R, k) \in SUBSET Clients
        /\ \A d \in Clients \ {c} : d \in NoKeyWaiters(S, k) <=> d \in NoKeyWaiters(R, k)
        /\ (c \in NoKeyWaiters(S, k)) = (k \in S.cl[c].keys /\ S.cl[c].nokey)
        /\ (c \in NoKeyWaiters(R, k)) = (k \in R.cl[c].keys /\ R.cl[c].nokey)
    BY DEF NoKeyWaiters
  <2>2. Cardinality(NoKeyWaiters(R, k)) =
          Cardinality(NoKeyWaiters(S, k)) + Is(c \in NoKeyWaiters(R, k)) - Is(c \in NoKeyWaiters(S, k))
    BY <2>1, CountChange
  <2>3. S.t.nokey[k] = Cardinality(NoKeyWaiters(S, k))
    BY DEF Counted
  <2> QED
    BY <2>1, <2>2, <2>3
<1> QED
  BY <1>1, <1>2 DEF Counted

\* Who is counted makes a count positive.
LEMMA CountPositive ==
  ASSUME NEW S, Counted(S), NEW c \in Clients
  PROVE  /\ S.cl[c].blocked \in BlockTypes => S.t.byType[S.cl[c].blocked] > 0
         /\ \A k \in Keys : k \in S.cl[c].keys /\ S.cl[c].nokey => S.t.nokey[k] > 0
<1>1. ASSUME S.cl[c].blocked \in BlockTypes PROVE S.t.byType[S.cl[c].blocked] > 0
  <2> DEFINE A == OfType(S, S.cl[c].blocked)
  <2>1. A \in SUBSET Clients /\ c \in A
    BY DEF OfType
  <2>2. Cardinality(A) \in Nat /\ Cardinality(A) # 0
    BY <2>1, CountZero, CountChange
  <2> QED
    BY <1>1, <2>2 DEF Counted
<1>2. ASSUME NEW k \in Keys, k \in S.cl[c].keys, S.cl[c].nokey PROVE S.t.nokey[k] > 0
  <2> DEFINE A == NoKeyWaiters(S, k)
  <2>1. A \in SUBSET Clients /\ c \in A
    BY <1>2 DEF NoKeyWaiters
  <2>2. Cardinality(A) \in Nat /\ Cardinality(A) # 0
    BY <2>1, CountZero, CountChange
  <2> QED
    BY <1>2, <2>2 DEF Counted
<1> QED
  BY <1>1, <1>2

\* R is S after a change of c that leaves alone what c waits for.
Minor(S, c, R) ==
  /\ R \in ServerType /\ R.db = S.db
  /\ \A d \in Clients \ {c} : R.cl[d] = S.cl[d]
  /\ R.cl[c].blocked = S.cl[c].blocked /\ R.cl[c].keys = S.cl[c].keys
  /\ R.cl[c].nokey = S.cl[c].nokey
  /\ R.t.blocking = S.t.blocking /\ R.t.nokey = S.t.nokey /\ R.t.byType = S.t.byType
  /\ R.t.signalled = S.t.signalled /\ R.t.ready = S.t.ready /\ R.t.postponed = S.t.postponed
  /\ IsInjective(R.t.unblocked)
  /\ \A d \in Clients : d \in Range(R.t.unblocked) <=> R.cl[d].unblocked
  /\ \A d \in Clients \ {c}, n \in 0..MaxWait : <<d, n>> \in R.t.timeouts <=> <<d, n>> \in S.t.timeouts
  /\ IsInjective(R.order)
  /\ \A d \in Clients \ {c} : d \in Range(S.order) => d \in Range(R.order)
  /\ \A a, b \in Clients \ {c} : Before(S.order, a, b) => Before(R.order, a, b)

LEMMA MinorGood ==
  ASSUME NEW S, NEW c \in Clients, NEW R, NEW Q, NEW k0, NEW T, Good(S, c, Q, k0, T), Minor(S, c, R)
  PROVE  Good(R, c, Q, k0, T)
<1>0. \A d \in Clients : /\ R.cl[d].blocked = S.cl[d].blocked /\ R.cl[d].keys = S.cl[d].keys
                         /\ R.cl[d].nokey = S.cl[d].nokey
  BY DEF Minor
<1>1. Linked(R)
  BY <1>0 DEF Good, Minor, Linked
<1>2. Counted(R)
  <2>1. \A k \in Keys : NoKeyWaiters(R, k) = NoKeyWaiters(S, k)
    BY <1>0 DEF NoKeyWaiters
  <2>2. \A b \in BlockTypes : OfType(R, b) = OfType(S, b)
    BY <1>0 DEF OfType
  <2> QED
    BY <2>1, <2>2 DEF Good, Minor, Counted
<1>3. Queued(R)
  BY <1>0 DEF Good, Minor, Queued
<1>4. ReadyKeys(R, Q)
  BY DEF Good, Minor, ReadyKeys
<1>5. Woken(R, k0, T)
  BY <1>0 DEF Good, Minor, Woken, DueIn
<1>6. ASSUME NEW d \in Clients \ {c} PROVE Own(R, d)
  BY DEF Good, Minor, Own
<1>7. ASSUME NEW a \in Clients \ {c}, NEW b \in Clients \ {c} PROVE Ranked(R, a, b)
  BY DEF Good, Minor, Ranked
<1> QED
  BY <1>1, <1>2, <1>3, <1>4, <1>5, <1>6, <1>7 DEF Good, Minor

\* A client is taken up, and put back once it is in order.
LEMMA TakeUp ==
  ASSUME NEW S, NEW c, NEW x, NEW Q, NEW k0, NEW T, Good(S, x, Q, k0, T), x \notin Clients
  PROVE  Good(S, c, Q, k0, T)
BY DEF Good

LEMMA PutBack ==
  ASSUME NEW S, NEW c \in Clients, NEW Q, NEW k0, NEW T, Good(S, c, Q, k0, T),
         Own(S, c), S.cl[c].blocked # "list"
  PROVE  Good(S, NoClient, Q, k0, T)
<1>1. \A a, b \in Clients : Ranked(S, a, b)
  BY DEF Good, Ranked
<1> QED
  BY <1>1 DEF Good

-----------------------------------------------------------------------------
(* unblockClient().                                                        *)

\* The fields of a client that unblocking it leaves alone.
CarriedOver(r, q) ==
  /\ q.pending = r.pending /\ q.unblocked = r.unblocked /\ q.left = r.left
  /\ q.cmd = r.cmd /\ q.input = r.input /\ q.owed = r.owed

\* The client is out of the lists it waited in, but still has the type of its block.
Released(S, c, R) ==
  LET r == S.cl[c]
      q == R.cl[c]
  IN /\ R \in ServerType /\ R.db = S.db /\ R.order = S.order
     /\ \A d \in Clients \ {c} : R.cl[d] = S.cl[d]
     /\ q.keys = {} /\ q.blocked = r.blocked /\ CarriedOver(r, q)
     /\ \A k \in Keys : /\ R.t.blocking[k] = IF k \in r.keys THEN RemoveFirst(S.t.blocking[k], c)
                                             ELSE S.t.blocking[k]
                        /\ R.t.nokey[k] = S.t.nokey[k] - Is(k \in r.keys /\ r.nokey)
     /\ R.t.postponed = IF r.blocked = "postpone" THEN RemoveFirst(S.t.postponed, c) ELSE S.t.postponed
     /\ R.t.signalled = S.t.signalled /\ R.t.ready = S.t.ready /\ R.t.unblocked = S.t.unblocked
     /\ R.t.timeouts = S.t.timeouts /\ R.t.byType = S.t.byType /\ R.t.paused = S.t.paused

LEMMA PostponeReleased ==
  ASSUME NEW S \in ServerType, Queued(S), NEW c \in Clients, S.cl[c].blocked = "postpone",
         S.cl[c].keys = {}
  PROVE  Released(S, c, [S EXCEPT !.t = [S.t EXCEPT !.postponed = RemoveFirst(@, c)]])
<1> DEFINE p == RemoveFirst(S.t.postponed, c)
           t == [S.t EXCEPT !.postponed = p]
           R == [S EXCEPT !.t = t]
<1>1. S.t \in Tables /\ S.cl[c] \in Client
  BY ServerFields
<1>2. p \in Seq(Clients)
  BY <1>1, TableFields, RemoveFirstFacts DEF Queued
<1> HIDE DEF p
<1>3. /\ t \in Tables /\ t.postponed = p /\ t.blocking = S.t.blocking /\ t.nokey = S.t.nokey
      /\ t.signalled = S.t.signalled /\ t.ready = S.t.ready /\ t.unblocked = S.t.unblocked
      /\ t.timeouts = S.t.timeouts /\ t.byType = S.t.byType /\ t.paused = S.t.paused
  BY <1>1, <1>2 DEF Tables
<1> HIDE DEF t
<1>4. Changed(S, c, S.cl[c], t, S.order, R)
  BY ChangeTables
<1> HIDE DEF R
<1>5. R \in ServerType
  BY <1>1, <1>3, <1>4, ServerFields DEF Changed
<1>6. \A k \in Keys : S.t.nokey[k] = S.t.nokey[k] - Is(k \in S.cl[c].keys /\ S.cl[c].nokey)
  BY <1>1, TableFields DEF Is
<1>7. Released(S, c, R)
  BY <1>3, <1>4, <1>5, <1>6 DEF Changed, Released, CarriedOver, p
<1> QED
  BY <1>7 DEF R, t, p

LEMMA ReleaseReleased ==
  ASSUME NEW S \in ServerType, Linked(S), Counted(S), NEW c \in Clients,
         S.cl[c].blocked # "postpone"
  PROVE  Released(S, c, Release(S, c))
<1> DEFINE ks == S.cl[c].keys
           rest == [k \in Keys |-> IF k \in ks THEN RemoveFirst(S.t.blocking[k], c) ELSE S.t.blocking[k]]
           count == [k \in Keys |-> IF k \notin ks THEN S.t.nokey[k]
                                    ELSE IF rest[k] = <<>> THEN 0
                                    ELSE IF S.cl[c].nokey THEN S.t.nokey[k] - 1 ELSE S.t.nokey[k]]
           r == [S.cl[c] EXCEPT !.keys = {}]
           t == [S.t EXCEPT !.blocking = rest, !.nokey = count]
           R == Release(S, c)
<1>1. S.t \in Tables /\ S.cl[c] \in Client /\ S.order \in Seq(Clients)
  BY ServerFields
<1>2. \A k \in Keys : /\ S.t.blocking[k] \in Seq(Clients) /\ IsInjective(S.t.blocking[k])
                      /\ S.t.nokey[k] \in Nat
  BY <1>1, TableFields DEF Linked
<1>3. ks \in SUBSET Keys /\ S.cl[c].nokey \in BOOLEAN
  BY <1>1, ClientFields
<1>4. \A k \in Keys : RemoveFirst(S.t.blocking[k], c) \in Seq(Clients)
  BY <1>2, RemoveFirstFacts
<1>5. rest \in [Keys -> Seq(Clients)]
  BY <1>2, <1>4
<1>6. ASSUME NEW k \in Keys
      PROVE  count[k] = S.t.nokey[k] - Is(k \in ks /\ S.cl[c].nokey) /\ count[k] \in Nat
  <2>1. k \in ks /\ S.cl[c].nokey => S.t.nokey[k] > 0
    BY CountPositive
  <2>2. ASSUME k \in ks, rest[k] = <<>> PROVE S.t.nokey[k] = Is(S.cl[c].nokey)
    <3>1. Range(rest[k]) = Range(S.t.blocking[k]) \ {c}
      BY <1>2, <2>2, RemoveFirstFacts
    <3>2. Range(S.t.blocking[k]) \subseteq {c}
      BY <2>2, <3>1, EmptyFacts
    <3>3. NoKeyWaiters(S, k) \subseteq {c}
      BY <3>2 DEF Linked, NoKeyWaiters
    <3>4. NoKeyWaiters(S, k) = IF S.cl[c].nokey THEN {c} ELSE {}
      BY <2>2, <3>3 DEF NoKeyWaiters
    <3>5. Cardinality({c}) = 1 /\ Cardinality({}) = 0
      BY FS_Singleton, FS_EmptySet
    <3> QED
      BY <3>4, <3>5 DEF Counted, Is
  <2>3. CASE k \notin ks
    BY <1>2, <2>3 DEF Is
  <2>4. CASE k \in ks /\ rest[k] = <<>>
    BY <2>2, <2>4 DEF Is
  <2>5. CASE k \in ks /\ rest[k] # <<>>
    BY <1>2, <2>1, <2>5 DEF Is
  <2> QED
    BY <2>3, <2>4, <2>5
<1>7. count \in [Keys -> Nat]
  BY <1>6
<1>8. \A k \in Keys : rest[k] = IF k \in ks THEN RemoveFirst(S.t.blocking[k], c) ELSE S.t.blocking[k]
  OBVIOUS
<1>9. R = [S EXCEPT !.cl[c] = r, !.t = t]
  BY DEF Release
<1> HIDE DEF rest, count
<1>10. /\ t \in Tables /\ t.blocking = rest /\ t.nokey = count /\ t.postponed = S.t.postponed
       /\ t.signalled = S.t.signalled /\ t.ready = S.t.ready /\ t.unblocked = S.t.unblocked
       /\ t.timeouts = S.t.timeouts /\ t.byType = S.t.byType /\ t.paused = S.t.paused
  BY <1>1, <1>5, <1>7 DEF Tables
<1>11. r \in Client /\ r.keys = {} /\ r.blocked = S.cl[c].blocked /\ CarriedOver(S.cl[c], r)
  BY <1>1 DEF Client, CarriedOver
<1> HIDE DEF r, t, R
<1>12. Changed(S, c, r, t, S.order, R)
  <2>1. Changed(S, c, r, t, S.order, [S EXCEPT !.cl[c] = r, !.t = t])
    BY DEF ServerType, Changed
  <2> QED
    BY <1>9, <2>1
<1>13. Released(S, c, R)
  BY <1>1, <1>6, <1>8, <1>10, <1>11, <1>12 DEF Changed, Released
<1> QED
  BY <1>13 DEF R

\* R is S after the client is out of every table; it keeps its command.
Unblocked(S, c, R) ==
  LET r == S.cl[c]
      q == R.cl[c]
  IN /\ R \in ServerType /\ R.db = S.db /\ R.order = S.order
     /\ \A d \in Clients \ {c} : R.cl[d] = S.cl[d]
     /\ q.keys = {} /\ q.blocked = "none" /\ ~q.nokey /\ ~q.inTable /\ CarriedOver(r, q)
     /\ \A k \in Keys : /\ R.t.blocking[k] = IF k \in r.keys THEN RemoveFirst(S.t.blocking[k], c)
                                             ELSE S.t.blocking[k]
                        /\ R.t.nokey[k] = S.t.nokey[k] - Is(k \in r.keys /\ r.nokey)
     /\ R.t.postponed = IF r.blocked = "postpone" THEN RemoveFirst(S.t.postponed, c) ELSE S.t.postponed
     /\ R.t.signalled = S.t.signalled /\ R.t.ready = S.t.ready /\ R.t.unblocked = S.t.unblocked
     /\ R.t.timeouts = IF r.inTable THEN S.t.timeouts \ {<<c, r.left>>} ELSE S.t.timeouts
     /\ \A b \in BlockTypes : R.t.byType[b] = S.t.byType[b] - Is(r.blocked = b)
     /\ R.t.paused = S.t.paused

\* The server when unblockClient() has updated its tables.
Cleared(S1, c, r) ==
  [S1 EXCEPT
     !.cl[c] = [S1.cl[c] EXCEPT !.blocked = "none", !.nokey = FALSE, !.inTable = FALSE],
     !.t = [S1.t EXCEPT
              !.byType[r.blocked] = @ - 1,
              !.timeouts = IF r.inTable THEN @ \ {<<c, r.left>>} ELSE @]]

LEMMA ClearedUnblocked ==
  ASSUME NEW S \in ServerType, Counted(S), NEW c \in Clients, S.cl[c].blocked \in BlockTypes,
         NEW S1, Released(S, c, S1)
  PROVE  Unblocked(S, c, Cleared(S1, c, S.cl[c]))
<1> DEFINE b == S.cl[c].blocked
           y == [S1.t.byType EXCEPT ![b] = S1.t.byType[b] - 1]
           m == IF S.cl[c].inTable THEN S1.t.timeouts \ {<<c, S.cl[c].left>>} ELSE S1.t.timeouts
           r == [S1.cl[c] EXCEPT !.blocked = "none", !.nokey = FALSE, !.inTable = FALSE]
           t == [S1.t EXCEPT !.byType = y, !.timeouts = m]
           R == [S1 EXCEPT !.cl[c] = r, !.t = t]
<1>1. S1 \in ServerType /\ S1.t.byType = S.t.byType /\ S1.t.timeouts = S.t.timeouts
  BY DEF Released
<1>2. S1.t \in Tables /\ S1.cl[c] \in Client /\ S1.order \in Seq(Clients)
  BY <1>1, ServerFields
<1>3. S.t.byType \in [BlockTypes -> Nat] /\ S.t.byType[b] > 0
  BY <1>1, <1>2, TableFields, CountPositive
<1>4. y \in [BlockTypes -> Nat] /\ \A a \in BlockTypes : y[a] = S.t.byType[a] - Is(b = a)
  BY <1>1, <1>3 DEF Is
<1>5. m \in SUBSET (Clients \X (0..MaxWait))
  BY <1>2, TableFields
<1>6. Cleared(S1, c, S.cl[c]) = R
  <2>1. t = [S1.t EXCEPT !.byType[b] = @ - 1, !.timeouts = IF S.cl[c].inTable THEN @ \ {<<c, S.cl[c].left>>} ELSE @]
    BY <1>2 DEF Tables
  <2> HIDE DEF t
  <2> QED
    BY <2>1 DEF Cleared
<1> HIDE DEF b, y, m
<1>7. /\ t \in Tables /\ t.byType = y /\ t.timeouts = m /\ t.postponed = S1.t.postponed
      /\ t.signalled = S1.t.signalled /\ t.ready = S1.t.ready /\ t.unblocked = S1.t.unblocked
      /\ t.blocking = S1.t.blocking /\ t.nokey = S1.t.nokey /\ t.paused = S1.t.paused
  BY <1>2, <1>4, <1>5 DEF Tables
<1>8. /\ r \in Client /\ r.keys = S1.cl[c].keys /\ r.blocked = "none" /\ ~r.nokey /\ ~r.inTable
      /\ CarriedOver(S1.cl[c], r)
  BY <1>2 DEF Client, CarriedOver
<1> HIDE DEF r, t
<1>9. Changed(S1, c, r, t, S1.order, R)
  BY <1>1 DEF ServerType, Changed
<1> HIDE DEF R
<1>10. R \in ServerType
  BY <1>2, <1>7, <1>8, <1>9 DEF Changed
<1>11. CarriedOver(S.cl[c], R.cl[c])
  BY <1>8, <1>9 DEF Changed, Released, CarriedOver
<1>12. R.t.timeouts = IF S.cl[c].inTable THEN S.t.timeouts \ {<<c, S.cl[c].left>>} ELSE S.t.timeouts
  BY <1>1, <1>7, <1>9 DEF Changed, m
<1>13. Unblocked(S, c, R)
  BY <1>4, <1>7, <1>8, <1>9, <1>10, <1>11, <1>12 DEF Changed, Released, Unblocked, b
<1> QED
  BY <1>6, <1>13

\* Unblocking keeps the invariant of all other clients, and of the tables.
LEMMA UnblockedGood ==
  ASSUME NEW S, NEW c \in Clients, NEW Q, NEW k0, NEW T, Good(S, c, Q, k0, T), NEW R,
         S.cl[c].blocked \in BlockTypes, Unblocked(S, c, R)
  PROVE  Good(R, c, Q, k0, T \ {c})
<1>0. S \in ServerType /\ S.t \in Tables /\ S.cl[c] \in Client
  BY ServerFields DEF Good
<1>1. ASSUME NEW k \in Keys
      PROVE  /\ IsInjective(R.t.blocking[k])
             /\ Range(R.t.blocking[k]) = Range(S.t.blocking[k]) \ {c}
             /\ \A a, b : Before(R.t.blocking[k], a, b) => Before(S.t.blocking[k], a, b)
  <2>1. S.t.blocking[k] \in Seq(Clients) /\ IsInjective(S.t.blocking[k])
    BY <1>0, TableFields DEF Good, Linked
  <2>2. CASE k \in S.cl[c].keys
    <3>1. R.t.blocking[k] = RemoveFirst(S.t.blocking[k], c)
      BY <2>2 DEF Unblocked
    <3> QED
      BY <2>1, <3>1, RemoveFirstFacts
  <2>3. CASE k \notin S.cl[c].keys
    <3>1. R.t.blocking[k] = S.t.blocking[k]
      BY <2>3 DEF Unblocked
    <3>2. c \notin Range(S.t.blocking[k])
      BY <2>3 DEF Good, Linked
    <3> QED
      BY <2>1, <3>1, <3>2
  <2> QED
    BY <2>2, <2>3
<1>2. Linked(R)
  <2>1. \A k \in Keys, d \in Clients : d \in Range(R.t.blocking[k]) <=> k \in R.cl[d].keys
    <3> TAKE k \in Keys, d \in Clients
    <3>1. d \in Range(S.t.blocking[k]) <=> k \in S.cl[d].keys
      BY DEF Good, Linked
    <3>2. d # c => R.cl[d] = S.cl[d]
      BY DEF Unblocked
    <3>3. R.cl[c].keys = {}
      BY DEF Unblocked
    <3> QED
      BY <1>1, <3>1, <3>2, <3>3
  <2> QED
    BY <1>1, <2>1 DEF Linked
<1>3. Counted(R)
  <2>1. \A b \in BlockTypes :
          R.t.byType[b] = S.t.byType[b] + Is(R.cl[c].blocked = b) - Is(S.cl[c].blocked = b)
    <3> TAKE b \in BlockTypes
    <3>1. R.t.byType[b] = S.t.byType[b] - Is(S.cl[c].blocked = b) /\ R.cl[c].blocked = "none"
      BY DEF Unblocked
    <3>2. b # "none" /\ S.t.byType[b] \in Nat
      BY <1>0, TableFields DEF BlockTypes
    <3> QED
      BY <3>1, <3>2 DEF Is
  <2>2. \A k \in Keys :
          R.t.nokey[k] = S.t.nokey[k] + Is(k \in R.cl[c].keys /\ R.cl[c].nokey)
                                      - Is(k \in S.cl[c].keys /\ S.cl[c].nokey)
    <3> TAKE k \in Keys
    <3>1. /\ R.t.nokey[k] = S.t.nokey[k] - Is(k \in S.cl[c].keys /\ S.cl[c].nokey)
          /\ R.cl[c].keys = {}
      BY DEF Unblocked
    <3>2. S.t.nokey[k] \in Nat
      BY <1>0, TableFields
    <3> QED
      BY <3>1, <3>2 DEF Is
  <2>3. \A d \in Clients \ {c} : R.cl[d] = S.cl[d]
    BY DEF Unblocked
  <2>4. Counted(S)
    BY DEF Good
  <2> QED
    BY <2>1, <2>2, <2>3, <2>4, CountedAfter
<1>4. Queued(R)
  <2>1. /\ IsInjective(R.t.postponed)
        /\ Range(R.t.postponed) = Range(S.t.postponed) \ {c}
    <3>1. S.t.postponed \in Seq(Clients) /\ IsInjective(S.t.postponed)
      BY <1>0, TableFields DEF Good, Queued
    <3>2. CASE S.cl[c].blocked = "postpone"
      <4>1. R.t.postponed = RemoveFirst(S.t.postponed, c)
        BY <3>2 DEF Unblocked
      <4> QED
        BY <3>1, <4>1, RemoveFirstFacts
    <3>3. CASE S.cl[c].blocked # "postpone"
      BY <3>1, <3>3 DEF Unblocked, Good, Queued
    <3> QED
      BY <3>2, <3>3
  <2>2. \A d \in Clients : d \in Range(R.t.postponed) <=> R.cl[d].blocked = "postpone"
    BY <2>1 DEF Unblocked, Good, Queued
  <2>3. IsInjective(R.t.unblocked) /\ IsInjective(R.order)
    BY DEF Unblocked, Good, Queued
  <2>4. \A d \in Clients : d \in Range(R.t.unblocked) <=> R.cl[d].unblocked
    BY DEF Unblocked, CarriedOver, Good, Queued
  <2> QED
    BY <2>1, <2>2, <2>3, <2>4 DEF Queued
<1>5. ReadyKeys(R, Q)
  BY DEF Unblocked, Good, ReadyKeys
<1>6. Woken(R, k0, T \ {c})
  <2> SUFFICES ASSUME NEW d \in Clients, NEW k \in R.cl[d].keys, DueIn(R, d, k)
               PROVE  \/ k \in R.t.signalled
                      \/ k = k0 /\ d \in T \ {c}
                      \/ Excused(R.cl[d].blocked, R.db[k])
    BY DEF Woken
  <2>1. d # c /\ R.cl[d] = S.cl[d] /\ R.db = S.db /\ R.t.signalled = S.t.signalled
    BY DEF Unblocked
  <2>2. DueIn(S, d, k)
    BY <2>1 DEF DueIn
  <2> QED
    BY <2>1, <2>2 DEF Good, Woken
<1>7. ASSUME NEW d \in Clients \ {c} PROVE Own(R, d)
  <2>1. R.cl[d] = S.cl[d] /\ R.order = S.order /\ Own(S, d)
    BY DEF Unblocked, Good
  <2>2. \A n : <<d, n>> \in R.t.timeouts <=> <<d, n>> \in S.t.timeouts
    BY DEF Unblocked
  <2> QED
    BY <2>1, <2>2 DEF Own
<1>8. ASSUME NEW a \in Clients \ {c}, NEW b \in Clients \ {c} PROVE Ranked(R, a, b)
  <2>1. R.cl[a] = S.cl[a] /\ R.cl[b] = S.cl[b] /\ R.order = S.order /\ Ranked(S, a, b)
    BY DEF Unblocked, Good
  <2> QED
    BY <1>1, <2>1 DEF Ranked
<1> QED
  BY <1>2, <1>3, <1>4, <1>5, <1>6, <1>7, <1>8 DEF Good, Unblocked

-----------------------------------------------------------------------------
(* Changes of one client that do not concern what it waits for.             *)

\* r is client c of S but for its command, deadline, reply and input.
Light(S, c, r) ==
  /\ r \in Client /\ r.blocked = S.cl[c].blocked /\ r.keys = S.cl[c].keys
  /\ r.nokey = S.cl[c].nokey /\ r.unblocked = S.cl[c].unblocked

LEMMA LightGood ==
  ASSUME NEW S, NEW c \in Clients, NEW Q, NEW k0, NEW T, Good(S, c, Q, k0, T),
         NEW r, Light(S, c, r), NEW o, o \in {S.order, RemoveFirst(S.order, c)},
         NEW R, Changed(S, c, r, S.t, o, R)
  PROVE  Good(R, c, Q, k0, T)
<1>1. S \in ServerType /\ S.order \in Seq(Clients) /\ S.t \in Tables /\ IsInjective(S.order)
  BY ServerFields DEF Good, Queued
<1>2. /\ o \in Seq(Clients) /\ IsInjective(o)
      /\ \A d \in Clients \ {c} : d \in Range(S.order) => d \in Range(o)
      /\ \A a, b \in Clients \ {c} : Before(S.order, a, b) => Before(o, a, b)
  <2>1. CASE o = S.order
    BY <1>1, <2>1
  <2>2. CASE o = RemoveFirst(S.order, c)
    BY <1>1, <2>2, RemoveFirstFacts
  <2> QED
    BY <2>1, <2>2
<1>3. R \in ServerType
  BY <1>1, <1>2 DEF Changed, Light
<1>4. \A d \in Clients : R.cl[d].unblocked = S.cl[d].unblocked
  BY DEF Changed, Light
<1>5. /\ IsInjective(R.t.unblocked)
      /\ \A d \in Clients : d \in Range(R.t.unblocked) <=> R.cl[d].unblocked
  BY <1>4 DEF Changed, Good, Queued
<1>6. Minor(S, c, R)
  BY <1>2, <1>3, <1>5 DEF Changed, Light, Minor
<1> QED
  BY <1>6, MinorGood

\* addReply(), of the answer to the command.
LEMMA ReplyGood ==
  ASSUME NEW S, NEW c \in Clients, NEW Q, NEW k0, NEW T, Good(S, c, Q, k0, T)
  PROVE  /\ Good(Reply(S, c), c, Q, k0, T)
         /\ Changed(S, c, [S.cl[c] EXCEPT !.owed = S.cl[c].owed - 1], S.t,
                    RemoveFirst(S.order, c), Reply(S, c))
<1> DEFINE r == [S.cl[c] EXCEPT !.owed = S.cl[c].owed - 1]
           o == RemoveFirst(S.order, c)
           R == Reply(S, c)
<1>1. S \in ServerType /\ S.cl[c] \in Client
  BY ServerFields DEF Good
<1>2. S.cl[c].owed - 1 \in Int
  BY <1>1, ClientFields
<1>3. Light(S, c, r)
  BY <1>1, <1>2 DEF Light, Client
<1>4. R = [S EXCEPT !.cl[c] = r, !.order = o]
  BY DEF Reply
<1> HIDE DEF r, o, R
<1>5. Changed(S, c, r, S.t, o, R)
  <2>1. Changed(S, c, r, S.t, o, [S EXCEPT !.cl[c] = r, !.order = o])
    BY <1>1 DEF ServerType, Changed
  <2> QED
    BY <1>4, <2>1
<1>6. Good(R, c, Q, k0, T)
  BY <1>3, <1>5, LightGood DEF o
<1> QED
  BY <1>5, <1>6 DEF r, o, R

\* R is S but for the command and the deadline of c.
CommandChanged(S, c, R) ==
  LET r == S.cl[c]
      q == R.cl[c]
  IN /\ R.db = S.db /\ R.t = S.t /\ R.order = S.order
     /\ \A d \in Clients \ {c} : R.cl[d] = S.cl[d]
     /\ q.keys = r.keys /\ q.blocked = r.blocked /\ q.nokey = r.nokey /\ q.inTable = r.inTable
     /\ q.pending = r.pending /\ q.owed = r.owed /\ q.input = r.input

LEMMA ResetGood ==
  ASSUME NEW S, NEW c \in Clients, NEW Q, NEW k0, NEW T, Good(S, c, Q, k0, T)
  PROVE  Good(Reset(S, c), c, Q, k0, T) /\ CommandChanged(S, c, Reset(S, c))
<1> DEFINE r == [S.cl[c] EXCEPT !.cmd = NoCmd, !.left = Forever]
           R == Reset(S, c)
<1>1. S \in ServerType /\ S.cl[c] \in Client
  BY ServerFields DEF Good
<1>2. NoCmd \in Commands \cup {NoCmd} /\ Forever \in Forever..MaxWait
  BY BlockedAssumption DEF Forever
<1>3. /\ Light(S, c, r) /\ r.inTable = S.cl[c].inTable /\ r.pending = S.cl[c].pending
      /\ r.owed = S.cl[c].owed /\ r.input = S.cl[c].input
  BY <1>1, <1>2 DEF Light, Client
<1>4. R = [S EXCEPT !.cl[c] = r]
  BY DEF Reset
<1> HIDE DEF r, R
<1>5. Changed(S, c, r, S.t, S.order, R)
  <2>1. Changed(S, c, r, S.t, S.order, [S EXCEPT !.cl[c] = r])
    BY <1>1, ChangeClient
  <2> QED
    BY <1>4, <2>1
<1>6. Good(R, c, Q, k0, T)
  BY <1>3, <1>5, LightGood
<1>7. CommandChanged(S, c, R)
  BY <1>3, <1>5 DEF Changed, Light, CommandChanged
<1> QED
  BY <1>6, <1>7 DEF R

LEMMA PendingGood ==
  ASSUME NEW S, NEW c \in Clients, NEW Q, NEW k0, NEW T, Good(S, c, Q, k0, T)
  PROVE  LET R == [S EXCEPT !.cl[c].pending = FALSE]
         IN /\ Good(R, c, Q, k0, T)
            /\ Changed(S, c, [S.cl[c] EXCEPT !.pending = FALSE], S.t, S.order, R)
<1> DEFINE r == [S.cl[c] EXCEPT !.pending = FALSE]
           R == [S EXCEPT !.cl[c].pending = FALSE]
<1>1. S \in ServerType /\ S.cl[c] \in Client
  BY ServerFields DEF Good
<1>3. Light(S, c, r)
  BY <1>1 DEF Light, Client
<1>4. R = [S EXCEPT !.cl[c] = r]
  OBVIOUS
<1> HIDE DEF r, R
<1>5. Changed(S, c, r, S.t, S.order, R)
  <2>1. Changed(S, c, r, S.t, S.order, [S EXCEPT !.cl[c] = r])
    BY <1>1, ChangeClient
  <2> QED
    BY <1>4, <2>1
<1>6. Good(R, c, Q, k0, T)
  BY <1>3, <1>5, LightGood
<1> QED
  BY <1>5, <1>6 DEF r, R

\* queueClientForReprocessing(): the client is in the queue once.
LEMMA QueueGood ==
  ASSUME NEW S, NEW c \in Clients, NEW Q, NEW k0, NEW T, Good(S, c, Q, k0, T)
  PROVE  LET R == Queue(S, c)
         IN /\ Good(R, c, Q, k0, T)
            /\ \A d \in Clients \ {c} : R.cl[d] = S.cl[d]
            /\ R.cl[c] = [S.cl[c] EXCEPT !.unblocked = TRUE]
            /\ R.t.timeouts = S.t.timeouts
            /\ R.db = S.db /\ R.order = S.order
<1> DEFINE r == [S.cl[c] EXCEPT !.unblocked = TRUE]
           u == Append(S.t.unblocked, c)
           t == [S.t EXCEPT !.unblocked = u]
           R == Queue(S, c)
<1>1. S \in ServerType /\ S.cl[c] \in Client /\ S.t \in Tables /\ S.order \in Seq(Clients)
  BY ServerFields DEF Good
<1>2. CASE S.cl[c].unblocked
  <2>1. S.cl[c] = r
    BY <1>1, <1>2 DEF Client
  <2> QED
    BY <1>2, <2>1 DEF Queue
<1>3. CASE ~S.cl[c].unblocked
  <2>1. S.t.unblocked \in Seq(Clients) /\ IsInjective(S.t.unblocked) /\ c \notin Range(S.t.unblocked)
    BY <1>1, <1>3, TableFields DEF Good, Queued
  <2>2. u \in Seq(Clients) /\ IsInjective(u) /\ Range(u) = Range(S.t.unblocked) \cup {c}
    BY <2>1, AppendFacts
  <2>3. R = [S EXCEPT !.cl[c] = r, !.t = t]
    BY <1>3 DEF Queue
  <2> HIDE DEF u
  <2>4. /\ t \in Tables /\ t.unblocked = u /\ t.blocking = S.t.blocking /\ t.nokey = S.t.nokey
        /\ t.signalled = S.t.signalled /\ t.ready = S.t.ready /\ t.postponed = S.t.postponed
        /\ t.timeouts = S.t.timeouts /\ t.byType = S.t.byType /\ t.paused = S.t.paused
    BY <1>1, <2>2 DEF Tables
  <2>5. /\ r \in Client /\ r.blocked = S.cl[c].blocked /\ r.keys = S.cl[c].keys
        /\ r.nokey = S.cl[c].nokey /\ r.unblocked
    BY <1>1 DEF Client
  <2> HIDE DEF r, t, R
  <2>6. Changed(S, c, r, t, S.order, R)
    <3>1. Changed(S, c, r, t, S.order, [S EXCEPT !.cl[c] = r, !.t = t])
      BY <1>1 DEF ServerType, Changed
    <3> QED
      BY <2>3, <3>1
  <2>7. \A d \in Clients : d \in Range(R.t.unblocked) <=> R.cl[d].unblocked
    BY <2>2, <2>4, <2>5, <2>6 DEF Changed, Good, Queued
  <2>8. R \in ServerType
    BY <1>1, <2>4, <2>5, <2>6 DEF Changed
  <2>9. IsInjective(R.order)
    BY <2>6 DEF Changed, Good, Queued
  <2>10. Minor(S, c, R)
    BY <2>2, <2>4, <2>5, <2>6, <2>7, <2>8, <2>9 DEF Changed, Minor
  <2>11. Good(R, c, Q, k0, T)
    BY <2>10, MinorGood
  <2> QED
    BY <2>4, <2>6, <2>11 DEF Changed, r, R
<1> QED
  BY <1>2, <1>3

\* R is S after unblockClient().
Loosed(S, c, R) ==
  LET r == S.cl[c]
      q == R.cl[c]
  IN /\ R.db = S.db /\ R.order = S.order
     /\ \A d \in Clients \ {c} : R.cl[d] = S.cl[d]
     /\ q.keys = {} /\ q.blocked = "none" /\ ~q.nokey /\ ~q.inTable
     /\ q.pending = r.pending /\ q.owed = r.owed /\ q.input = r.input
     /\ r.pending => q.cmd = r.cmd /\ q.left = r.left
     /\ R.t.timeouts = IF r.inTable THEN S.t.timeouts \ {<<c, r.left>>} ELSE S.t.timeouts

LEMMA UnblockClientGood ==
  ASSUME NEW S, NEW c \in Clients, NEW Q, NEW k0, NEW T, Good(S, c, Q, k0, T), NEW queue \in BOOLEAN,
         S.cl[c].blocked \in BlockTypes, S.cl[c].blocked = "postpone" => S.cl[c].keys = {}
  PROVE  /\ Good(UnblockClient(S, c, queue), c, Q, k0, T \ {c})
         /\ Loosed(S, c, UnblockClient(S, c, queue))
<1> DEFINE r  == S.cl[c]
           S1 == IF r.blocked = "postpone"
                   THEN [S EXCEPT !.t = [S.t EXCEPT !.postponed = RemoveFirst(@, c)]]
                   ELSE Release(S, c)
           S2 == Cleared(S1, c, r)
           S3 == IF r.pending THEN S2 ELSE Reset(S2, c)
           R  == IF queue THEN Queue(S3, c) ELSE S3
<1>0. UnblockClient(S, c, queue) = R
  BY DEF UnblockClient, Cleared
<1>1. Released(S, c, S1)
  BY PostponeReleased, ReleaseReleased DEF Good
<1> HIDE DEF S1
<1>2. Unblocked(S, c, S2)
  BY <1>1, ClearedUnblocked DEF Good
<1> HIDE DEF S2
<1>3. Good(S2, c, Q, k0, T \ {c})
  BY <1>2, UnblockedGood
<1>4. Loosed(S, c, S2)
  BY <1>2 DEF Unblocked, CarriedOver, Loosed
<1>5. Good(S3, c, Q, k0, T \ {c}) /\ Loosed(S, c, S3)
  <2>1. CASE r.pending
    BY <1>3, <1>4, <2>1
  <2>2. CASE ~r.pending
    <3> DEFINE V == Reset(S2, c)
    <3>1. Good(V, c, Q, k0, T \ {c}) /\ CommandChanged(S2, c, V)
      BY <1>3, ResetGood
    <3> HIDE DEF V
    <3>2. Loosed(S, c, V)
      BY <1>4, <2>2, <3>1 DEF CommandChanged, Loosed
    <3> QED
      BY <2>2, <3>1, <3>2 DEF V
  <2> QED
    BY <2>1, <2>2
<1> HIDE DEF S3
<1>6. Good(R, c, Q, k0, T \ {c}) /\ Loosed(S, c, R)
  <2>1. CASE ~queue
    BY <1>5, <2>1
  <2>2. CASE queue
    <3> DEFINE V == Queue(S3, c)
               q == [S3.cl[c] EXCEPT !.unblocked = TRUE]
    <3>1. /\ Good(V, c, Q, k0, T \ {c})
          /\ \A d \in Clients \ {c} : V.cl[d] = S3.cl[d]
          /\ V.cl[c] = q
          /\ V.t.timeouts = S3.t.timeouts
          /\ V.db = S3.db /\ V.order = S3.order
      BY <1>5, QueueGood
    <3>2. S3.cl[c] \in Client
      BY <1>5, ServerFields DEF Good
    <3>3. /\ q.keys = S3.cl[c].keys /\ q.blocked = S3.cl[c].blocked /\ q.nokey = S3.cl[c].nokey
          /\ q.inTable = S3.cl[c].inTable /\ q.pending = S3.cl[c].pending
          /\ q.owed = S3.cl[c].owed /\ q.input = S3.cl[c].input
          /\ q.cmd = S3.cl[c].cmd /\ q.left = S3.cl[c].left
      BY <3>2 DEF Client
    <3> HIDE DEF V, q
    <3>4. Loosed(S, c, V)
      BY <1>5, <3>1, <3>3 DEF Loosed
    <3> QED
      BY <2>2, <3>1, <3>4 DEF V
  <2> QED
    BY <2>1, <2>2
<1> QED
  BY <1>0, <1>6

\* A client that waits for nothing, and whose command is not in progress, is in order.
Finished(r) ==
  r.keys = {} /\ r.blocked = "none" /\ ~r.nokey /\ ~r.inTable /\ ~r.pending /\ r.owed = 0

Answered(S, c) ==
  Finished(S.cl[c]) /\ \A n \in 0..MaxWait : <<c, n>> \notin S.t.timeouts

LEMMA AnsweredGood ==
  ASSUME NEW S, NEW c \in Clients, NEW Q, NEW k0, NEW T, Good(S, c, Q, k0, T), Answered(S, c)
  PROVE  Good(S, NoClient, Q, k0, T)
<1>1. Own(S, c)
  BY DEF Answered, Finished, Own, Awaits
<1>2. S.cl[c].blocked # "list"
  BY DEF Answered, Finished
<1> QED
  BY <1>1, <1>2, PutBack

\* unblockClientOnTimeout(), unblockClientOnError(); the timeout has taken the client's
\* entry out of the table already, or unblockClient() does.
LEMMA UnblockWithReplyGood ==
  ASSUME NEW S, NEW c \in Clients, NEW Q, NEW k0, NEW T, Good(S, c, Q, k0, T),
         Awaits(S.cl[c]), S.cl[c].owed = 1
  PROVE  LET R == UnblockWithReply(S, c)
         IN /\ Good(R, c, Q, k0, T \ {c})
            /\ \A d \in Clients \ {c} : R.cl[d] = S.cl[d]
            /\ R.cl[c].input = S.cl[c].input
            /\ R.t.timeouts = IF S.cl[c].inTable THEN S.t.timeouts \ {<<c, S.cl[c].left>>}
                              ELSE S.t.timeouts
            /\ Finished(R.cl[c])
<1> DEFINE S1 == Reply(S, c)
           S2 == [S1 EXCEPT !.cl[c].pending = FALSE]
           R == UnblockClient(S2, c, TRUE)
           r1 == [S.cl[c] EXCEPT !.owed = S.cl[c].owed - 1]
           r2 == [S1.cl[c] EXCEPT !.pending = FALSE]
<1>0. S.cl[c] \in Client
  BY ServerFields DEF Good
<1>1. Good(S1, c, Q, k0, T) /\ Changed(S, c, r1, S.t, RemoveFirst(S.order, c), S1)
  BY ReplyGood
<1>2. /\ r1.blocked = S.cl[c].blocked /\ r1.input = S.cl[c].input /\ r1.owed = 0
      /\ r1.inTable = S.cl[c].inTable /\ r1.left = S.cl[c].left
  BY <1>0 DEF Client
<1> HIDE DEF S1, r1
<1>3. Good(S2, c, Q, k0, T) /\ Changed(S1, c, r2, S1.t, S1.order, S2)
  BY <1>1, PendingGood
<1>4. S1.cl[c] \in Client
  BY <1>1, ServerFields DEF Good
<1>5. /\ r2.blocked = S1.cl[c].blocked /\ r2.input = S1.cl[c].input /\ r2.owed = S1.cl[c].owed
      /\ r2.inTable = S1.cl[c].inTable /\ r2.left = S1.cl[c].left /\ ~r2.pending
  BY <1>4 DEF Client
<1> HIDE DEF S2, r2
<1>6. /\ S2.cl[c].blocked = S.cl[c].blocked /\ S2.cl[c].input = S.cl[c].input
      /\ S2.cl[c].owed = 0 /\ S2.cl[c].inTable = S.cl[c].inTable
      /\ S2.cl[c].left = S.cl[c].left /\ ~S2.cl[c].pending
      /\ S2.t = S.t
      /\ \A d \in Clients \ {c} : S2.cl[d] = S.cl[d]
  BY <1>1, <1>2, <1>3, <1>5 DEF Changed
<1>7. S2.cl[c].blocked \in BlockTypes /\ S2.cl[c].blocked # "postpone"
  BY <1>6 DEF Awaits, BlockTypes
<1>8. Good(R, c, Q, k0, T \ {c}) /\ Loosed(S2, c, R)
  BY <1>3, <1>7, UnblockClientGood
<1> HIDE DEF R
<1>9. /\ \A d \in Clients \ {c} : R.cl[d] = S.cl[d]
      /\ R.cl[c].input = S.cl[c].input
      /\ R.t.timeouts = IF S.cl[c].inTable THEN S.t.timeouts \ {<<c, S.cl[c].left>>}
                        ELSE S.t.timeouts
  BY <1>6, <1>8 DEF Loosed
<1>10. Finished(R.cl[c])
  BY <1>6, <1>8 DEF Loosed, Finished
<1>11. R = UnblockWithReply(S, c)
  BY DEF R, S1, S2, UnblockWithReply
<1> QED
  BY <1>8, <1>9, <1>10, <1>11

-----------------------------------------------------------------------------
(* Blocking.                                                               *)

\* The client is in no table, and its command is in progress.
Running(S, c) ==
  LET r == S.cl[c]
  IN /\ r.keys = {} /\ r.blocked = "none" /\ ~r.nokey /\ ~r.inTable /\ ~r.pending
     /\ r.cmd \in Commands /\ r.owed = 1
     /\ \A n \in 0..MaxWait : <<c, n>> \notin S.t.timeouts

\* R is S after blockClient().
BlockedAs(S, c, btype, R) ==
  LET r == S.cl[c]
      q == R.cl[c]
  IN /\ R \in ServerType /\ R.db = S.db /\ R.order = S.order
     /\ \A d \in Clients \ {c} : R.cl[d] = S.cl[d]
     /\ q.blocked = btype /\ (q.inTable <=> r.left # Forever)
     /\ q.keys = r.keys /\ q.nokey = r.nokey /\ CarriedOver(r, q)
     /\ \A b \in BlockTypes : R.t.byType[b] = S.t.byType[b] + Is(btype = b)
     /\ R.t.timeouts = IF r.left # Forever THEN S.t.timeouts \cup {<<c, r.left>>} ELSE S.t.timeouts
     /\ R.t.blocking = S.t.blocking /\ R.t.nokey = S.t.nokey /\ R.t.signalled = S.t.signalled
     /\ R.t.ready = S.t.ready /\ R.t.unblocked = S.t.unblocked
     /\ R.t.postponed = S.t.postponed /\ R.t.paused = S.t.paused

LEMMA BlockClientFields ==
  ASSUME NEW S \in ServerType, NEW c \in Clients, NEW btype \in BlockTypes,
         ~S.cl[c].inTable, \A n \in 0..MaxWait : <<c, n>> \notin S.t.timeouts
  PROVE  BlockedAs(S, c, btype, BlockClient(S, c, btype))
<1> DEFINE l   == S.cl[c].left
           new == l # Forever /\ <<c, l>> \notin S.t.timeouts
           y   == [S.t.byType EXCEPT ![btype] = S.t.byType[btype] + 1]
           m   == IF l # Forever THEN S.t.timeouts \cup {<<c, l>>} ELSE S.t.timeouts
           i   == S.cl[c].inTable \/ new
           r   == [S.cl[c] EXCEPT !.blocked = btype, !.inTable = i]
           t   == [S.t EXCEPT !.byType = y, !.timeouts = m]
           R   == BlockClient(S, c, btype)
<1>1. S.t \in Tables /\ S.cl[c] \in Client /\ S.order \in Seq(Clients)
  BY ServerFields
<1>2. l \in Forever..MaxWait /\ (l # Forever => l \in 0..MaxWait)
  BY <1>1, ClientFields, BlockedAssumption DEF Forever
<1>3. new <=> l # Forever
  BY <1>2
<1>4. y \in [BlockTypes -> Nat] /\ \A b \in BlockTypes : y[b] = S.t.byType[b] + Is(btype = b)
  BY <1>1, TableFields DEF Is
<1>5. m \in SUBSET (Clients \X (0..MaxWait))
  BY <1>1, <1>2, TableFields
<1>6. m = IF new THEN S.t.timeouts \cup {<<c, l>>} ELSE S.t.timeouts
  BY <1>3
<1>7. i \in BOOLEAN /\ (i <=> l # Forever)
  BY <1>3
<1>8. R = [S EXCEPT !.cl[c] = r, !.t = t]
  <2>1. t = [S.t EXCEPT !.byType[btype] = @ + 1, !.timeouts = IF new THEN @ \cup {<<c, l>>} ELSE @]
    BY <1>1, <1>6 DEF Tables
  <2> HIDE DEF t, m
  <2> QED
    BY <2>1 DEF BlockClient
<1> HIDE DEF new, y, m, i
<1>9. /\ t \in Tables /\ t.byType = y /\ t.timeouts = m /\ t.postponed = S.t.postponed
      /\ t.signalled = S.t.signalled /\ t.ready = S.t.ready /\ t.unblocked = S.t.unblocked
      /\ t.blocking = S.t.blocking /\ t.nokey = S.t.nokey /\ t.paused = S.t.paused
  BY <1>1, <1>4, <1>5 DEF Tables
<1>10. /\ r \in Client /\ r.keys = S.cl[c].keys /\ r.blocked = btype /\ r.nokey = S.cl[c].nokey
       /\ r.inTable = i /\ CarriedOver(S.cl[c], r)
  BY <1>1, <1>7 DEF Client, CarriedOver
<1> HIDE DEF r, t, R
<1>11. Changed(S, c, r, t, S.order, R)
  <2>1. Changed(S, c, r, t, S.order, [S EXCEPT !.cl[c] = r, !.t = t])
    BY DEF ServerType, Changed
  <2> QED
    BY <1>8, <2>1
<1>12. R \in ServerType
  BY <1>1, <1>9, <1>10, <1>11 DEF Changed
<1>13. R.t.timeouts = IF l # Forever THEN S.t.timeouts \cup {<<c, l>>} ELSE S.t.timeouts
  BY <1>9, <1>11 DEF Changed, m
<1>14. BlockedAs(S, c, btype, R)
  BY <1>4, <1>7, <1>9, <1>10, <1>11, <1>12, <1>13 DEF Changed, BlockedAs
<1> QED
  BY <1>14 DEF R

\* R is S after blockForKeys() with the deadline l; o is the order of the blocks.
BlockedFor(S, c, btype, ks, nokey, l, o, R) ==
  LET r == S.cl[c]
      q == R.cl[c]
  IN /\ R \in ServerType /\ R.db = S.db /\ R.order = o
     /\ \A d \in Clients \ {c} : R.cl[d] = S.cl[d]
     /\ q.blocked = btype /\ (q.inTable <=> l # Forever) /\ q.left = l /\ q.pending
     /\ q.keys = ks /\ q.nokey = nokey
     /\ q.unblocked = r.unblocked /\ q.cmd = r.cmd /\ q.input = r.input /\ q.owed = r.owed
     /\ \A b \in BlockTypes : R.t.byType[b] = S.t.byType[b] + Is(btype = b)
     /\ \A k \in Keys : /\ R.t.blocking[k] = IF k \in ks THEN Append(S.t.blocking[k], c)
                                             ELSE S.t.blocking[k]
                        /\ R.t.nokey[k] = S.t.nokey[k] + Is(k \in ks /\ nokey)
     /\ R.t.timeouts = IF l # Forever THEN S.t.timeouts \cup {<<c, l>>} ELSE S.t.timeouts
     /\ R.t.signalled = S.t.signalled /\ R.t.ready = S.t.ready /\ R.t.unblocked = S.t.unblocked
     /\ R.t.postponed = S.t.postponed /\ R.t.paused = S.t.paused

LEMMA BlockForKeysFields ==
  ASSUME NEW S \in ServerType, NEW c \in Clients, NEW btype \in BlockTypes,
         NEW ks \in SUBSET Keys, NEW nokey \in BOOLEAN, NEW again \in BOOLEAN,
         Running(S, c), IsInjective(S.order)
  PROVE  BlockedFor(S, c, btype, ks, nokey,
                    IF again THEN S.cl[c].left ELSE S.cl[c].cmd.wait,
                    IF again THEN S.order ELSE Append(RemoveFirst(S.order, c), c),
                    BlockForKeys(S, c, btype, ks, nokey, again))
<1> DEFINE l     == IF again THEN S.cl[c].left ELSE S.cl[c].cmd.wait
           o     == IF again THEN S.order ELSE Append(RemoveFirst(S.order, c), c)
           lists == [k \in Keys |-> IF k \in ks THEN Append(S.t.blocking[k], c) ELSE S.t.blocking[k]]
           count == [k \in Keys |-> IF k \in ks /\ nokey THEN S.t.nokey[k] + 1 ELSE S.t.nokey[k]]
           r     == [S.cl[c] EXCEPT !.left = l, !.keys = ks, !.nokey = nokey, !.pending = TRUE]
           t     == [S.t EXCEPT !.blocking = lists, !.nokey = count]
           S1    == [S EXCEPT !.cl[c] = r, !.t = t, !.order = o]
           R     == BlockClient(S1, c, btype)
<1>1. S.t \in Tables /\ S.cl[c] \in Client /\ S.order \in Seq(Clients)
  BY ServerFields
<1>2. l \in Forever..MaxWait
  BY <1>1, ClientFields, CommandFields DEF Running
<1>3. o \in Seq(Clients)
  <2>1. RemoveFirst(S.order, c) \in Seq(Clients)
    BY <1>1, RemoveFirstFacts
  <2> QED
    BY <1>1, <2>1, AppendFacts
<1>4. \A k \in Keys : /\ S.t.blocking[k] \in Seq(Clients) /\ Append(S.t.blocking[k], c) \in Seq(Clients)
                      /\ S.t.nokey[k] \in Nat
  BY <1>1, TableFields, AppendFacts
<1>5. /\ lists \in [Keys -> Seq(Clients)]
      /\ \A k \in Keys : lists[k] = IF k \in ks THEN Append(S.t.blocking[k], c) ELSE S.t.blocking[k]
  BY <1>4
<1>6. count \in [Keys -> Nat] /\ \A k \in Keys : count[k] = S.t.nokey[k] + Is(k \in ks /\ nokey)
  BY <1>4 DEF Is
<1>7. R = BlockForKeys(S, c, btype, ks, nokey, again)
  BY DEF BlockForKeys
<1> HIDE DEF l, o, lists, count
<1>8. /\ t \in Tables /\ t.blocking = lists /\ t.nokey = count /\ t.postponed = S.t.postponed
      /\ t.signalled = S.t.signalled /\ t.ready = S.t.ready /\ t.unblocked = S.t.unblocked
      /\ t.timeouts = S.t.timeouts /\ t.byType = S.t.byType /\ t.paused = S.t.paused
  BY <1>1, <1>5, <1>6 DEF Tables
<1>9. /\ r \in Client /\ r.keys = ks /\ r.blocked = S.cl[c].blocked /\ r.nokey = nokey
      /\ r.left = l /\ r.pending /\ r.inTable = S.cl[c].inTable /\ r.unblocked = S.cl[c].unblocked
      /\ r.cmd = S.cl[c].cmd /\ r.input = S.cl[c].input /\ r.owed = S.cl[c].owed
  BY <1>1, <1>2 DEF Client
<1> HIDE DEF r, t
<1>10. Changed(S, c, r, t, o, S1)
  BY DEF ServerType, Changed
<1> HIDE DEF S1
<1>11. S1 \in ServerType
  BY <1>3, <1>8, <1>9, <1>10 DEF Changed
<1>12. ~S1.cl[c].inTable /\ \A n \in 0..MaxWait : <<c, n>> \notin S1.t.timeouts
  BY <1>8, <1>9, <1>10 DEF Changed, Running
<1>13. BlockedAs(S1, c, btype, R)
  BY <1>11, <1>12, BlockClientFields
<1> HIDE DEF R
<1>14. BlockedFor(S, c, btype, ks, nokey, l, o, R)
  <2>1. /\ R \in ServerType /\ R.db = S.db /\ R.order = o
        /\ \A d \in Clients \ {c} : R.cl[d] = S.cl[d]
    BY <1>10, <1>13 DEF Changed, BlockedAs
  <2>2. S1.cl[c] = r /\ S1.t = t
    BY <1>10 DEF Changed
  <2>3. /\ R.cl[c].blocked = btype /\ (R.cl[c].inTable <=> l # Forever) /\ R.cl[c].left = l
        /\ R.cl[c].pending /\ R.cl[c].keys = ks /\ R.cl[c].nokey = nokey
        /\ R.cl[c].unblocked = S.cl[c].unblocked /\ R.cl[c].cmd = S.cl[c].cmd
        /\ R.cl[c].input = S.cl[c].input /\ R.cl[c].owed = S.cl[c].owed
    BY <1>9, <1>13, <2>2 DEF BlockedAs, CarriedOver
  <2>4. /\ \A b \in BlockTypes : R.t.byType[b] = S.t.byType[b] + Is(btype = b)
        /\ R.t.signalled = S.t.signalled /\ R.t.ready = S.t.ready /\ R.t.unblocked = S.t.unblocked
        /\ R.t.postponed = S.t.postponed /\ R.t.paused = S.t.paused
    BY <1>8, <1>13, <2>2 DEF BlockedAs
  <2>5. R.t.blocking = lists /\ R.t.nokey = count
    BY <1>8, <1>13, <2>2 DEF BlockedAs
  <2>6. R.t.timeouts = IF l # Forever THEN S.t.timeouts \cup {<<c, l>>} ELSE S.t.timeouts
    BY <1>8, <1>9, <1>13, <2>2 DEF BlockedAs
  <2> QED
    BY <1>5, <1>6, <2>1, <2>3, <2>4, <2>5, <2>6 DEF BlockedFor
<1> QED
  BY <1>7, <1>14 DEF l, o

\* R is S but for client c, whose input is untouched.
OthersSame(S, c, R) ==
  R.cl[c].input = S.cl[c].input /\ \A d \in Clients \ {c} : R.cl[d] = S.cl[d]

\* blockForKeys(): the client waits last in every list, for keys it cannot be served from.
LEMMA BlockForKeysGood ==
  ASSUME NEW S, NEW c \in Clients, NEW Q, NEW k0, NEW T, Good(S, c, Q, k0, T), Running(S, c),
         NEW btype \in {"list", "stream"}, NEW ks \in SUBSET Keys, ks # {},
         NEW nokey \in BOOLEAN, nokey <=> btype = "stream",
         NEW again \in BOOLEAN, again => btype = "stream",
         btype = "list" => /\ S.cl[c].cmd.op \in {"blpop", "blmove"} /\ ks = Awaited(S.cl[c].cmd)
                           /\ \A k \in ks : S.db[k].type # "list",
         btype = "stream" => /\ S.cl[c].cmd.op = "xreadgroup"
                             /\ \A k \in ks : S.db[k].grp /\ S.db[k].new = 0
  PROVE  LET R == BlockForKeys(S, c, btype, ks, nokey, again)
         IN Good(R, NoClient, Q, k0, T) /\ OthersSame(S, c, R) /\ R.cl[c].blocked # "none"
<1> DEFINE l == IF again THEN S.cl[c].left ELSE S.cl[c].cmd.wait
           o == IF again THEN S.order ELSE Append(RemoveFirst(S.order, c), c)
           R == BlockForKeys(S, c, btype, ks, nokey, again)
<1>0. /\ S \in ServerType /\ S.t \in Tables /\ S.cl[c] \in Client
      /\ S.order \in Seq(Clients) /\ IsInjective(S.order)
  BY ServerFields DEF Good, Queued
<1>1. btype \in BlockTypes
  BY DEF BlockTypes
<1>2. BlockedFor(S, c, btype, ks, nokey, l, o, R)
  BY <1>0, <1>1, BlockForKeysFields
<1>3. l \in Forever..MaxWait
  BY <1>0, ClientFields, CommandFields DEF Running
<1>4. /\ IsInjective(o) /\ o \in Seq(Clients)
      /\ \A d \in Clients \ {c} : d \in Range(S.order) => d \in Range(o)
      /\ \A a, b \in Clients \ {c} : Before(S.order, a, b) => Before(o, a, b)
      /\ btype = "list" => /\ c \in Range(o)
                           /\ \A d \in Clients \ {c} : d \in Range(S.order) => Before(o, d, c)
  <2>1. CASE again
    BY <1>0, <2>1
  <2>2. CASE ~again
    <3> DEFINE p == RemoveFirst(S.order, c)
    <3>1. /\ p \in Seq(Clients) /\ IsInjective(p) /\ Range(p) = Range(S.order) \ {c}
          /\ \A a, b : Before(p, a, b) <=> Before(S.order, a, b) /\ a # c /\ b # c
      BY <1>0, RemoveFirstFacts
    <3> HIDE DEF p
    <3>2. o = Append(p, c)
      BY <2>2 DEF p
    <3> HIDE DEF o
    <3>3. /\ o \in Seq(Clients) /\ Range(o) = Range(p) \cup {c} /\ IsInjective(o)
          /\ \A a, b : Before(o, a, b) <=> Before(p, a, b) \/ (a \in Range(p) /\ b = c)
      BY <3>1, <3>2, AppendFacts
    <3> QED
      BY <3>1, <3>3
  <2> QED
    BY <2>1, <2>2
<1> HIDE DEF l, o, R
<1>5. ASSUME NEW k \in Keys
      PROVE  /\ IsInjective(R.t.blocking[k])
             /\ Range(R.t.blocking[k]) = Range(S.t.blocking[k]) \cup {d \in {c} : k \in ks}
             /\ \A a, b : Before(R.t.blocking[k], a, b) =>
                            Before(S.t.blocking[k], a, b) \/ (a \in Range(S.t.blocking[k]) /\ b = c)
  <2>1. /\ S.t.blocking[k] \in Seq(Clients) /\ IsInjective(S.t.blocking[k])
        /\ c \notin Range(S.t.blocking[k])
    BY <1>0, TableFields DEF Good, Linked, Running
  <2>2. CASE k \in ks
    <3>1. R.t.blocking[k] = Append(S.t.blocking[k], c)
      BY <1>2, <2>2 DEF BlockedFor
    <3> QED
      BY <2>1, <2>2, <3>1, AppendFacts
  <2>3. CASE k \notin ks
    <3>1. R.t.blocking[k] = S.t.blocking[k]
      BY <1>2, <2>3 DEF BlockedFor
    <3> QED
      BY <2>1, <2>3, <3>1
  <2> QED
    BY <2>2, <2>3
<1>6. R.cl[c].keys = ks /\ R.cl[c].blocked = btype /\ \A d \in Clients \ {c} : R.cl[d] = S.cl[d]
  BY <1>2 DEF BlockedFor
<1>7. Linked(R)
  <2>1. \A k \in Keys, d \in Clients : d \in Range(R.t.blocking[k]) <=> k \in R.cl[d].keys
    <3> TAKE k \in Keys, d \in Clients
    <3>1. d \in Range(S.t.blocking[k]) <=> k \in S.cl[d].keys
      BY DEF Good, Linked
    <3>2. S.cl[c].keys = {}
      BY DEF Running
    <3> QED
      BY <1>5, <1>6, <3>1, <3>2
  <2> QED
    BY <1>5, <2>1 DEF Linked
<1>8. Counted(R)
  <2>1. \A b \in BlockTypes :
          R.t.byType[b] = S.t.byType[b] + Is(R.cl[c].blocked = b) - Is(S.cl[c].blocked = b)
    <3> TAKE b \in BlockTypes
    <3>1. R.t.byType[b] = S.t.byType[b] + Is(btype = b) /\ S.cl[c].blocked = "none"
      BY <1>2 DEF BlockedFor, Running
    <3>2. b # "none" /\ S.t.byType[b] \in Nat
      BY <1>0, TableFields DEF BlockTypes
    <3> QED
      BY <1>6, <3>1, <3>2 DEF Is
  <2>2. \A k \in Keys :
          R.t.nokey[k] = S.t.nokey[k] + Is(k \in R.cl[c].keys /\ R.cl[c].nokey)
                                      - Is(k \in S.cl[c].keys /\ S.cl[c].nokey)
    <3> TAKE k \in Keys
    <3>1. /\ R.t.nokey[k] = S.t.nokey[k] + Is(k \in ks /\ nokey)
          /\ S.cl[c].keys = {} /\ R.cl[c].nokey = nokey
      BY <1>2 DEF BlockedFor, Running
    <3>2. S.t.nokey[k] \in Nat
      BY <1>0, TableFields
    <3> QED
      BY <1>6, <3>1, <3>2 DEF Is
  <2>3. Counted(S)
    BY DEF Good
  <2> QED
    BY <1>6, <2>1, <2>2, <2>3, CountedAfter
<1>9. Queued(R)
  <2>1. \A d \in Clients : /\ R.cl[d].unblocked = S.cl[d].unblocked
                           /\ R.cl[d].blocked = "postpone" <=> S.cl[d].blocked = "postpone"
    BY <1>2 DEF BlockedFor, Running
  <2>2. R.order = o /\ R.t.unblocked = S.t.unblocked /\ R.t.postponed = S.t.postponed
    BY <1>2 DEF BlockedFor
  <2> QED
    BY <1>4, <2>1, <2>2 DEF Queued, Good
<1>10. ReadyKeys(R, Q)
  BY <1>2 DEF BlockedFor, Good, ReadyKeys
<1>11. Woken(R, k0, T)
  <2> SUFFICES ASSUME NEW d \in Clients, NEW k \in R.cl[d].keys, DueIn(R, d, k)
               PROVE  \/ k \in R.t.signalled
                      \/ k = k0 /\ d \in T
                      \/ Excused(R.cl[d].blocked, R.db[k])
    BY DEF Woken
  <2>1. R.db = S.db /\ R.t.signalled = S.t.signalled
    BY <1>2 DEF BlockedFor
  <2>2. CASE d = c
    <3>1. k \in ks /\ k \in Keys
      BY <1>6, <2>2
    <3>2. S.db[k] \in Value
      BY <1>0, <3>1, ServerFields
    <3>3. S.db[k].new \in Nat
      BY <3>2, ValueFields
    <3> QED
      BY <1>6, <2>1, <2>2, <3>1, <3>3 DEF DueIn
  <2>3. CASE d # c
    <3>1. DueIn(S, d, k) /\ R.cl[d] = S.cl[d]
      BY <1>6, <2>1, <2>3 DEF DueIn
    <3> QED
      BY <2>1, <3>1 DEF Good, Woken
  <2> QED
    BY <2>2, <2>3
<1>12. ASSUME NEW d \in Clients \ {c} PROVE Own(R, d)
  <2>1. R.cl[d] = S.cl[d] /\ R.order = o /\ Own(S, d)
    BY <1>2 DEF BlockedFor, Good
  <2>2. \A n : <<d, n>> \in R.t.timeouts <=> <<d, n>> \in S.t.timeouts
    BY <1>2 DEF BlockedFor
  <2> QED
    BY <1>4, <2>1, <2>2 DEF Own
<1>13. Own(R, c)
  <2>1. \A n \in 0..MaxWait : <<c, n>> \in R.t.timeouts <=> l = n
    <3> TAKE n \in 0..MaxWait
    <3>1. n # Forever /\ <<c, n>> \notin S.t.timeouts
      BY BlockedAssumption DEF Forever, Running
    <3>2. R.t.timeouts = IF l # Forever THEN S.t.timeouts \cup {<<c, l>>} ELSE S.t.timeouts
      BY <1>2 DEF BlockedFor
    <3> QED
      BY <3>1, <3>2
  <2>2. /\ R.cl[c].pending /\ R.cl[c].nokey = nokey /\ R.cl[c].left = l
        /\ (R.cl[c].inTable <=> l # Forever)
        /\ R.cl[c].cmd = S.cl[c].cmd /\ R.cl[c].owed = 1 /\ R.order = o
        /\ S.cl[c].cmd \in Commands
    BY <1>2 DEF BlockedFor, Running
  <2>3. Awaits(R.cl[c])
    BY <1>6 DEF Awaits
  <2> QED
    BY <1>4, <1>6, <2>1, <2>2, <2>3 DEF Own
<1>14. ASSUME NEW a \in Clients, NEW b \in Clients PROVE Ranked(R, a, b)
  <2> SUFFICES ASSUME R.cl[a].blocked = "list", R.cl[b].blocked = "list",
                      NEW k \in Keys, Before(R.t.blocking[k], a, b)
               PROVE  Before(R.order, a, b)
    BY DEF Ranked
  <2>1. R.order = o
    BY <1>2 DEF BlockedFor
  <2>2. Before(S.t.blocking[k], a, b) \/ (a \in Range(S.t.blocking[k]) /\ b = c)
    BY <1>5
  <2>3. c \notin Range(S.t.blocking[k]) /\ S.t.blocking[k] \in Seq(Clients)
    BY <1>0, TableFields DEF Good, Linked, Running
  <2>4. Before(S.t.blocking[k], a, b) => a # c /\ b # c
    BY <2>3 DEF Before, Range
  <2>5. CASE a # c /\ b # c
    <3>1. Before(S.t.blocking[k], a, b)
      BY <2>2, <2>5
    <3>2. R.cl[a] = S.cl[a] /\ R.cl[b] = S.cl[b]
      BY <1>6, <2>5
    <3>3. Ranked(S, a, b)
      BY <2>5 DEF Good
    <3>4. Before(S.order, a, b)
      BY <3>1, <3>2, <3>3 DEF Ranked
    <3> QED
      BY <1>4, <2>1, <2>5, <3>4
  <2>6. CASE a # c /\ b = c
    <3>1. R.cl[a] = S.cl[a] /\ btype = "list"
      BY <1>6, <2>6
    <3>2. a \in Range(S.order)
      BY <2>6, <3>1 DEF Good, Own
    <3> QED
      BY <1>4, <2>1, <2>6, <3>1, <3>2
  <2> QED
    BY <2>2, <2>3, <2>4, <2>5, <2>6
<1>15. R \in ServerType /\ OthersSame(S, c, R) /\ R.cl[c].blocked # "none"
  BY <1>2 DEF BlockedFor, OthersSame
<1>16. Good(R, NoClient, Q, k0, T)
  BY <1>7, <1>8, <1>9, <1>10, <1>11, <1>12, <1>13, <1>14, <1>15 DEF Good
<1> QED
  BY <1>15, <1>16 DEF R

\* blockPostponeClient(): the client waits for no key and has no deadline.
LEMMA BlockPostponeGood ==
  ASSUME NEW S, NEW c \in Clients, NEW Q, NEW k0, NEW T, Good(S, c, Q, k0, T), Running(S, c)
  PROVE  LET R == BlockPostpone(S, c)
         IN Good(R, NoClient, Q, k0, T) /\ OthersSame(S, c, R) /\ R.cl[c].blocked # "none"
<1> DEFINE r0 == [S.cl[c] EXCEPT !.left = Forever]
           S0 == [S EXCEPT !.cl[c].left = Forever]
           S1 == BlockClient(S0, c, "postpone")
           r2 == [S1.cl[c] EXCEPT !.pending = TRUE]
           p  == Append(S1.t.postponed, c)
           t2 == [S1.t EXCEPT !.postponed = p]
           R  == [S1 EXCEPT !.cl[c] = r2, !.t = t2]
<1>0. S \in ServerType /\ S.t \in Tables /\ S.cl[c] \in Client /\ S.order \in Seq(Clients)
  BY ServerFields DEF Good
<1>1. R = BlockPostpone(S, c)
  BY DEF BlockPostpone
<1>2. /\ r0 \in Client /\ r0.blocked = S.cl[c].blocked /\ r0.keys = S.cl[c].keys
      /\ r0.nokey = S.cl[c].nokey /\ r0.unblocked = S.cl[c].unblocked
      /\ r0.left = Forever /\ r0.inTable = S.cl[c].inTable /\ r0.cmd = S.cl[c].cmd
      /\ r0.input = S.cl[c].input /\ r0.owed = S.cl[c].owed
  <2>1. Forever \in Forever..MaxWait
    BY BlockedAssumption DEF Forever
  <2> QED
    BY <1>0, <2>1 DEF Client
<1>3. S0 = [S EXCEPT !.cl[c] = r0]
  OBVIOUS
<1> HIDE DEF S0, r0
<1>4. Changed(S, c, r0, S.t, S.order, S0)
  <2>1. Changed(S, c, r0, S.t, S.order, [S EXCEPT !.cl[c] = r0])
    BY <1>0, ChangeClient
  <2> QED
    BY <1>3, <2>1
<1>5. Good(S0, c, Q, k0, T)
  BY <1>2, <1>4, LightGood DEF Light
<1>6. /\ S0 \in ServerType /\ ~S0.cl[c].inTable
      /\ \A n \in 0..MaxWait : <<c, n>> \notin S0.t.timeouts
  BY <1>2, <1>4, <1>5 DEF Changed, Running, Good
<1>7. BlockedAs(S0, c, "postpone", S1)
  BY <1>6, BlockClientFields DEF BlockTypes
<1> HIDE DEF S1
<1>8. S1 \in ServerType /\ S1.t \in Tables /\ S1.cl[c] \in Client /\ S1.order \in Seq(Clients)
  BY <1>7, ServerFields DEF BlockedAs
<1>9. /\ S1.t.postponed = S.t.postponed /\ S.t.postponed \in Seq(Clients)
      /\ IsInjective(S.t.postponed) /\ c \notin Range(S.t.postponed)
  <2>1. c \notin Range(S.t.postponed) /\ IsInjective(S.t.postponed)
    BY DEF Good, Queued, Running
  <2> QED
    BY <1>0, <1>4, <1>7, <2>1, TableFields DEF BlockedAs, Changed
<1>10. p \in Seq(Clients) /\ IsInjective(p) /\ Range(p) = Range(S.t.postponed) \cup {c}
  BY <1>9, AppendFacts
<1> HIDE DEF p
<1>11. /\ t2 \in Tables /\ t2.postponed = p /\ t2.blocking = S1.t.blocking /\ t2.nokey = S1.t.nokey
       /\ t2.signalled = S1.t.signalled /\ t2.ready = S1.t.ready /\ t2.unblocked = S1.t.unblocked
       /\ t2.timeouts = S1.t.timeouts /\ t2.byType = S1.t.byType /\ t2.paused = S1.t.paused
  BY <1>8, <1>10 DEF Tables
<1>12. /\ r2 \in Client /\ r2.pending /\ r2.blocked = S1.cl[c].blocked /\ r2.keys = S1.cl[c].keys
       /\ r2.nokey = S1.cl[c].nokey /\ r2.unblocked = S1.cl[c].unblocked
       /\ r2.inTable = S1.cl[c].inTable /\ r2.cmd = S1.cl[c].cmd
       /\ r2.input = S1.cl[c].input /\ r2.owed = S1.cl[c].owed
  BY <1>8 DEF Client
<1> HIDE DEF r2, t2
<1>13. Changed(S1, c, r2, t2, S1.order, R)
  BY <1>8 DEF ServerType, Changed
<1> HIDE DEF R
<1>14. R \in ServerType
  BY <1>8, <1>11, <1>12, <1>13 DEF Changed
<1>15. /\ R.db = S.db /\ R.order = S.order /\ \A d \in Clients \ {c} : R.cl[d] = S.cl[d]
       /\ R.t.blocking = S.t.blocking /\ R.t.nokey = S.t.nokey /\ R.t.signalled = S.t.signalled
       /\ R.t.ready = S.t.ready /\ R.t.unblocked = S.t.unblocked /\ R.t.postponed = p
       /\ R.t.timeouts = S.t.timeouts
       /\ \A b \in BlockTypes : R.t.byType[b] = S.t.byType[b] + Is("postpone" = b)
  BY <1>2, <1>4, <1>7, <1>11, <1>13 DEF Changed, BlockedAs
<1>16. /\ R.cl[c].pending /\ R.cl[c].blocked = "postpone" /\ R.cl[c].keys = {} /\ ~R.cl[c].nokey
       /\ R.cl[c].unblocked = S.cl[c].unblocked /\ ~R.cl[c].inTable
       /\ R.cl[c].cmd \in Commands /\ R.cl[c].owed = 1 /\ R.cl[c].input = S.cl[c].input
  BY <1>2, <1>4, <1>7, <1>12, <1>13 DEF Changed, BlockedAs, CarriedOver, Running
<1>17. Linked(R)
  <2>1. \A d \in Clients : R.cl[d].keys = S.cl[d].keys
    BY <1>15, <1>16 DEF Running
  <2> QED
    BY <1>15, <2>1 DEF Good, Linked
<1>18. Counted(R)
  <2>1. \A b \in BlockTypes :
          R.t.byType[b] = S.t.byType[b] + Is(R.cl[c].blocked = b) - Is(S.cl[c].blocked = b)
    <3> TAKE b \in BlockTypes
    <3>1. R.t.byType[b] = S.t.byType[b] + Is("postpone" = b) /\ S.cl[c].blocked = "none"
      BY <1>15 DEF Running
    <3>2. b # "none" /\ S.t.byType[b] \in Nat
      BY <1>0, TableFields DEF BlockTypes
    <3> QED
      BY <1>16, <3>1, <3>2 DEF Is
  <2>2. \A k \in Keys :
          R.t.nokey[k] = S.t.nokey[k] + Is(k \in R.cl[c].keys /\ R.cl[c].nokey)
                                      - Is(k \in S.cl[c].keys /\ S.cl[c].nokey)
    <3> TAKE k \in Keys
    <3>1. R.t.nokey[k] = S.t.nokey[k] /\ R.cl[c].keys = {} /\ S.cl[c].keys = {}
      BY <1>15, <1>16 DEF Running
    <3>2. S.t.nokey[k] \in Nat
      BY <1>0, TableFields
    <3> QED
      BY <3>1, <3>2 DEF Is
  <2>3. Counted(S)
    BY DEF Good
  <2> QED
    BY <1>15, <2>1, <2>2, <2>3, CountedAfter
<1>19. Queued(R)
  <2>1. \A d \in Clients : R.cl[d].unblocked = S.cl[d].unblocked
    BY <1>15, <1>16
  <2>2. \A d \in Clients : d \in Range(R.t.postponed) <=> R.cl[d].blocked = "postpone"
    BY <1>10, <1>15, <1>16 DEF Good, Queued
  <2> QED
    BY <1>10, <1>15, <2>1, <2>2 DEF Good, Queued
<1>20. ReadyKeys(R, Q)
  BY <1>15 DEF Good, ReadyKeys
<1>21. Woken(R, k0, T)
  BY <1>15, <1>16 DEF Good, Woken, DueIn
<1>22. ASSUME NEW d \in Clients \ {c} PROVE Own(R, d)
  BY <1>15 DEF Good, Own
<1>23. Own(R, c)
  BY <1>15, <1>16 DEF Own, Awaits, Running
<1>24. ASSUME NEW a \in Clients, NEW b \in Clients PROVE Ranked(R, a, b)
  BY <1>15, <1>16 DEF Good, Ranked
<1>25. Good(R, NoClient, Q, k0, T)
  BY <1>14, <1>17, <1>18, <1>19, <1>20, <1>21, <1>22, <1>23, <1>24 DEF Good
<1> QED
  BY <1>1, <1>15, <1>16, <1>25 DEF OthersSame

-----------------------------------------------------------------------------
(* The blocking commands.                                                  *)

\* The command was answered, or its client blocks.
Executed(S, c, Q, k0, T, R) ==
  /\ OthersSame(S, c, R)
  /\ \/ Good(R, c, Q, k0, T) /\ Answered(R, c)
     \/ Good(R, NoClient, Q, k0, T) /\ R.cl[c].blocked # "none"

\* A woken pop finds one of its keys, so that it does not block again.
Rerun(S, c) ==
  S.cl[c].cmd.op = "xreadgroup" \/ \E k \in Awaited(S.cl[c].cmd) : Exists(S, k)

\* The answer, after the command has changed the key space.
LEMMA ReplyExecuted ==
  ASSUME NEW S, NEW c \in Clients, NEW Q, NEW k0, NEW T, Running(S, c),
         NEW S1, Good(S1, c, Q, k0, T), S1.cl = S.cl, S1.t.timeouts = S.t.timeouts
  PROVE  Executed(S, c, Q, k0, T, Reply(S1, c))
<1> DEFINE r == [S1.cl[c] EXCEPT !.owed = S1.cl[c].owed - 1]
           R == Reply(S1, c)
<1>1. S1.cl[c] \in Client
  BY ServerFields DEF Good
<1>2. Good(R, c, Q, k0, T) /\ Changed(S1, c, r, S1.t, RemoveFirst(S1.order, c), R)
  BY ReplyGood
<1>3. /\ r.keys = S.cl[c].keys /\ r.blocked = S.cl[c].blocked /\ r.nokey = S.cl[c].nokey
      /\ r.inTable = S.cl[c].inTable /\ r.pending = S.cl[c].pending /\ r.owed = S.cl[c].owed - 1
      /\ r.input = S.cl[c].input
  BY <1>1 DEF Client
<1> HIDE DEF r, R
<1>4. Answered(R, c) /\ OthersSame(S, c, R)
  BY <1>2, <1>3 DEF Changed, Running, Answered, Finished, OthersSame
<1> QED
  BY <1>2, <1>4 DEF Executed, R

LEMMA RunningQuiet ==
  ASSUME NEW S, NEW c, Running(S, c)
  PROVE  Quiet(S, c)
BY DEF Running, Quiet

\* A set of indexes has a first one.
LEMMA FirstIndex ==
  ASSUME NEW I, I \subseteq Nat, I # {}
  PROVE  \E i \in I : \A j \in I : i <= j
<1> DEFINE L == OpToRel(<, Nat)
<1>1. IsWellFoundedOn(L, Nat)
  BY NatLessThanWellFounded
<1>2. \A i, j \in Nat : i < j => <<i, j>> \in L
  BY DEF OpToRel
<1> HIDE DEF L
<1>3. PICK i \in I : \A j \in I : <<j, i>> \notin L
  BY <1>1, WFMin
<1>4. \A j \in I : i \in Nat /\ j \in Nat /\ ~(j < i)
  BY <1>2, <1>3
<1>5. \A j \in I : i <= j
  BY <1>4
<1> QED
  BY <1>5

LEMMA BlpopExecuted ==
  ASSUME NEW S, NEW c \in Clients, NEW Q, NEW k0, NEW T, Good(S, c, Q, k0, T), Running(S, c),
         NEW again \in BOOLEAN, again => Rerun(S, c), S.cl[c].cmd.op = "blpop"
  PROVE  Executed(S, c, Q, k0, T, Blpop(S, c, again))
<1> DEFINE ks    == S.cl[c].cmd.keys
           found == {i \in DOMAIN ks : Exists(S, ks[i])}
           first == CHOOSE i \in found : \A j \in found : i <= j
           k     == ks[first]
<1>1. S.cl[c].cmd \in Commands /\ S \in ServerType
  BY DEF Running, Good
<1>2. ks \in Seq(Keys) /\ Range(ks) \in SUBSET Keys /\ Range(ks) # {}
  BY <1>1, CommandFields
<1>3. Awaited(S.cl[c].cmd) = Range(ks)
  BY DEF Awaited
<1>4. CASE found = {}
  <2>1. \A j \in Range(ks) : ~Exists(S, j)
    BY <1>4 DEF Range
  <2>2. ~again
    BY <1>3, <2>1 DEF Rerun
  <2>3. \A j \in Range(ks) : S.db[j].type # "list"
    BY <2>1 DEF Exists
  <2>4. Blpop(S, c, again) = BlockForKeys(S, c, "list", Range(ks), FALSE, again)
    BY <1>4 DEF Blpop
  <2> DEFINE ws == Range(ks)
             no == FALSE
             R  == BlockForKeys(S, c, "list", ws, no, again)
  <2>5. Blpop(S, c, again) = R
    BY <2>4
  <2>6. /\ ws \in SUBSET Keys /\ ws # {} /\ ws = Awaited(S.cl[c].cmd)
        /\ \A j \in ws : S.db[j].type # "list"
    BY <1>2, <1>3, <2>3
  <2>7. no \in BOOLEAN /\ ~no
    OBVIOUS
  <2> HIDE DEF ws, no
  <2>8. Good(R, NoClient, Q, k0, T) /\ OthersSame(S, c, R) /\ R.cl[c].blocked # "none"
    BY <2>2, <2>6, <2>7, BlockForKeysGood
  <2> HIDE DEF R
  <2> QED
    BY <2>5, <2>8 DEF Executed
<1>5. CASE found # {}
  <2>1. first \in found
    <3>1. found \subseteq Nat
      BY <1>2
    <3> HIDE DEF found
    <3>2. \E i \in found : \A j \in found : i <= j
      BY <1>5, <3>1, FirstIndex
    <3> QED
      BY <3>2
  <2>2. k \in Keys /\ Exists(S, k)
    <3> HIDE DEF first
    <3>1. first \in DOMAIN ks /\ Exists(S, ks[first])
      BY <2>1
    <3> HIDE DEF ks
    <3>2. ks[first] \in Keys
      BY <1>2, <3>1
    <3> QED
      BY <3>1, <3>2
  <2>3. CASE S.db[k].type # "list"
    <3>1. Blpop(S, c, again) = Reply(S, c)
      BY <1>5, <2>3 DEF Blpop
    <3> QED
      BY <3>1, ReplyExecuted
  <2>4. CASE S.db[k].type = "list"
    <3>1. Blpop(S, c, again) = Reply(Pop(S, k), c)
      BY <1>5, <2>4 DEF Blpop
    <3> HIDE DEF k
    <3>2. Kept(S, c, Q, k0, T, k, Pop(S, k))
      BY <2>2, <2>4, PopGood, RunningQuiet
    <3>3. /\ Good(Pop(S, k), c, Q, k0, T) /\ Pop(S, k).cl = S.cl
          /\ Pop(S, k).t.timeouts = S.t.timeouts
      BY <3>2 DEF Kept, SameClients, SameTables
    <3> QED
      BY <3>1, <3>3, ReplyExecuted
  <2> QED
    BY <2>3, <2>4
<1> QED
  BY <1>4, <1>5

LEMMA BlmoveExecuted ==
  ASSUME NEW S, NEW c \in Clients, NEW Q, NEW k0, NEW T, Good(S, c, Q, k0, T), Running(S, c),
         NEW again \in BOOLEAN, again => Rerun(S, c), S.cl[c].cmd.op = "blmove"
  PROVE  Executed(S, c, Q, k0, T, Blmove(S, c, again))
<1> DEFINE src == S.cl[c].cmd.keys[1]
           dst == S.cl[c].cmd.dst
<1>1. S.cl[c].cmd \in Commands /\ S \in ServerType
  BY DEF Running, Good
<1>2. src \in Keys /\ dst \in Keys
  BY <1>1, CommandFields
<1>3. Awaited(S.cl[c].cmd) = {src}
  BY DEF Awaited
<1>4. CASE ~Exists(S, src)
  <2>1. ~again
    BY <1>3, <1>4 DEF Rerun
  <2>2. S.db[src].type # "list"
    BY <1>4 DEF Exists
  <2> DEFINE ws == {src}
             no == FALSE
             R  == BlockForKeys(S, c, "list", ws, no, again)
  <2>3. Blmove(S, c, again) = BlockForKeys(S, c, "list", {src}, FALSE, again)
    BY <1>4 DEF Blmove
  <2>4. Blmove(S, c, again) = R
    BY <2>3
  <2>5. /\ ws \in SUBSET Keys /\ ws # {} /\ ws = Awaited(S.cl[c].cmd)
        /\ \A j \in ws : S.db[j].type # "list"
    BY <1>2, <1>3, <2>2
  <2>6. no \in BOOLEAN /\ ~no
    OBVIOUS
  <2> HIDE DEF ws, no
  <2>7. Good(R, NoClient, Q, k0, T) /\ OthersSame(S, c, R) /\ R.cl[c].blocked # "none"
    BY <2>1, <2>5, <2>6, BlockForKeysGood
  <2> HIDE DEF R
  <2> QED
    BY <2>4, <2>7 DEF Executed
<1>5. CASE /\ Exists(S, src)
           /\ S.db[src].type # "list" \/ S.db[dst].type \notin {"none", "list"} \/ src = dst
  <2>1. Blmove(S, c, again) = Reply(S, c)
    BY <1>5 DEF Blmove
  <2> QED
    BY <2>1, ReplyExecuted
<1>6. CASE /\ Exists(S, src) /\ S.db[src].type = "list" /\ S.db[dst].type \in {"none", "list"}
           /\ src # dst
  <2> DEFINE S1 == Push(S, dst)
             S2 == Pop(S1, src)
  <2>1. Blmove(S, c, again) = Reply(S2, c)
    BY <1>6 DEF Blmove
  <2> HIDE DEF src, dst
  <2>2. Kept(S, c, Q, k0, T, dst, S1)
    BY <1>2, <1>6, PushGood, RunningQuiet
  <2> HIDE DEF S1
  <2>3. /\ Good(S1, c, Q, k0, T) /\ S1.cl = S.cl /\ S1.t.timeouts = S.t.timeouts
        /\ S1.db[src] = S.db[src]
    BY <1>2, <1>6, <2>2 DEF Kept, SameClients, SameTables
  <2>4. Quiet(S1, c)
    BY <2>3, RunningQuiet DEF Quiet
  <2>5. Kept(S1, c, Q, k0, T, src, S2)
    BY <1>2, <1>6, <2>3, <2>4, PopGood
  <2> HIDE DEF S2
  <2>6. Good(S2, c, Q, k0, T) /\ S2.cl = S.cl /\ S2.t.timeouts = S.t.timeouts
    BY <2>3, <2>5 DEF Kept, SameClients, SameTables
  <2> QED
    BY <2>1, <2>6, ReplyExecuted
<1> QED
  BY <1>4, <1>5, <1>6

LEMMA XreadgroupExecuted ==
  ASSUME NEW S, NEW c \in Clients, NEW Q, NEW k0, NEW T, Good(S, c, Q, k0, T), Running(S, c),
         NEW again \in BOOLEAN, S.cl[c].cmd.op = "xreadgroup"
  PROVE  Executed(S, c, Q, k0, T, Xreadgroup(S, c, again))
<1> DEFINE ks == Range(S.cl[c].cmd.keys)
<1>1. S.cl[c].cmd \in Commands /\ S \in ServerType
  BY DEF Running, Good
<1>2. ks \in SUBSET Keys /\ ks # {}
  BY <1>1, CommandFields
<1>3. CASE \E k \in ks : ~S.db[k].grp
  <2>1. Xreadgroup(S, c, again) = Reply(S, c)
    BY <1>3 DEF Xreadgroup
  <2> QED
    BY <2>1, ReplyExecuted
<1>4. CASE (\A k \in ks : S.db[k].grp) /\ \A k \in ks : S.db[k].new = 0
  <2> DEFINE yes == TRUE
             R == BlockForKeys(S, c, "stream", ks, yes, again)
  <2>1. Xreadgroup(S, c, again) = R
    BY <1>4 DEF Xreadgroup
  <2>2. yes \in BOOLEAN /\ yes /\ ks \in SUBSET Keys /\ ks # {}
    BY <1>2
  <2>3. \A k \in ks : S.db[k].grp /\ S.db[k].new = 0
    BY <1>4
  <2> HIDE DEF ks, yes
  <2>4. Good(R, NoClient, Q, k0, T) /\ OthersSame(S, c, R) /\ R.cl[c].blocked # "none"
    BY <2>2, <2>3, BlockForKeysGood, ZenonT(30)
  <2> HIDE DEF R
  <2> QED
    BY <2>1, <2>4 DEF Executed
<1>5. CASE (\A k \in ks : S.db[k].grp) /\ ~ \A k \in ks : S.db[k].new = 0
  <2> DEFINE f  == [k \in Keys |-> IF k \in ks THEN Delivered(S.db[k]) ELSE S.db[k]]
             S1 == [S EXCEPT !.db = f]
  <2>1. Xreadgroup(S, c, again) = Reply(S1, c)
    BY <1>5 DEF Xreadgroup
  <2>2. \A k \in Keys : S.db[k] \in Value
    BY <1>1, ServerFields
  <2>3. ASSUME NEW k \in Keys
        PROVE  /\ f[k] \in Value
               /\ f[k] = S.db[k] \/ (f[k].type = "stream" /\ f[k].grp /\ f[k].new = 0)
    <3>1. CASE k \in ks
      <4>1. S.db[k].grp
        BY <1>5, <3>1
      <4>2. S.db[k].type = "stream"
        BY <2>2, <4>1, ValueFields
      <4>3. f[k] = Delivered(S.db[k])
        BY <3>1
      <4> QED
        BY <2>2, <4>1, <4>2, <4>3, DeliveredFields
    <3>2. CASE k \notin ks
      BY <2>2, <3>2
    <3> QED
      BY <3>1, <3>2
  <2>4. f \in [Keys -> Value]
    BY <2>3
  <2> HIDE DEF f
  <2>5. /\ S1.db = f /\ S1.cl = S.cl /\ S1.t = S.t /\ S1.order = S.order /\ S1 \in ServerType
    BY <1>1, <2>4 DEF ServerType
  <2> HIDE DEF S1
  <2>6. SameClients(S, S1) /\ ReadyKeys(S1, Q)
    BY <2>5 DEF SameClients, SameTables, Good, ReadyKeys
  <2>7. Woken(S1, k0, T)
    <3> SUFFICES ASSUME NEW d \in Clients, NEW k \in S1.cl[d].keys, DueIn(S1, d, k)
                 PROVE  \/ k \in S1.t.signalled
                        \/ k = k0 /\ d \in T
                        \/ Excused(S1.cl[d].blocked, S1.db[k])
      BY DEF Woken
    <3>1. k \in Keys
      BY <2>5, ServerFields, ClientFields
    <3>2. f[k] = S.db[k]
      BY <2>3, <2>5, <3>1 DEF DueIn
    <3>3. DueIn(S, d, k)
      BY <2>5, <3>2 DEF DueIn
    <3> QED
      BY <2>5, <3>2, <3>3 DEF Good, Woken
  <2>8. Good(S1, c, Q, k0, T)
    BY <2>5, <2>6, <2>7, DbOnlyGood
  <2> QED
    BY <2>1, <2>5, <2>8, ReplyExecuted
<1> QED
  BY <1>3, <1>4, <1>5

\* processCommandAndResetClient()
LEMMA ExecGood ==
  ASSUME NEW S, NEW c \in Clients, NEW Q, NEW k0, NEW T, Good(S, c, Q, k0, T), Running(S, c),
         NEW again \in BOOLEAN, again => Rerun(S, c)
  PROVE  LET R == Exec(S, c, again)
         IN Good(R, NoClient, Q, k0, T) /\ OthersSame(S, c, R)
<1> DEFINE op == S.cl[c].cmd.op
           S1 == CASE op = "blpop"      -> Blpop(S, c, again)
                   [] op = "blmove"     -> Blmove(S, c, again)
                   [] op = "xreadgroup" -> Xreadgroup(S, c, again)
<1>1. CASE S.t.paused
  BY <1>1, BlockPostponeGood DEF Exec
<1>2. CASE ~S.t.paused
  <2>1. op \in {"blpop", "blmove", "xreadgroup"}
    BY CommandFields DEF Running
  <2>2. Executed(S, c, Q, k0, T, S1)
    <3>1. CASE op = "blpop"
      BY <3>1, BlpopExecuted
    <3>2. CASE op = "blmove"
      BY <3>2, BlmoveExecuted
    <3>3. CASE op = "xreadgroup"
      BY <3>3, XreadgroupExecuted
    <3> QED
      BY <2>1, <3>1, <3>2, <3>3
  <2>3. Exec(S, c, again) = IF S1.cl[c].blocked # "none" THEN S1 ELSE Reset(S1, c)
    BY <1>2 DEF Exec
  <2> HIDE DEF S1
  <2>4. CASE S1.cl[c].blocked # "none"
    BY <2>2, <2>3, <2>4 DEF Executed, Answered, Finished
  <2>5. CASE S1.cl[c].blocked = "none"
    <3> DEFINE R == Reset(S1, c)
    <3>1. Good(S1, c, Q, k0, T) /\ Answered(S1, c) /\ OthersSame(S, c, S1)
      BY <2>2, <2>5 DEF Executed
    <3>2. Good(R, c, Q, k0, T) /\ CommandChanged(S1, c, R)
      BY <3>1, ResetGood
    <3>3. Exec(S, c, again) = R
      BY <2>3, <2>5
    <3> HIDE DEF R
    <3>4. Answered(R, c) /\ OthersSame(S, c, R)
      BY <3>1, <3>2 DEF CommandChanged, Answered, Finished, OthersSame
    <3>5. Good(R, NoClient, Q, k0, T)
      BY <3>2, <3>4, AnsweredGood
    <3> QED
      BY <3>3, <3>4, <3>5
  <2> QED
    BY <2>4, <2>5
<1> QED
  BY <1>1, <1>2

\* The client is put in the queue between two commands.
LEMMA QueueBetween ==
  ASSUME NEW S, NEW c \in Clients, NEW Q, NEW k0, NEW T, Good(S, NoClient, Q, k0, T),
         S.cl[c].blocked = "none"
  PROVE  Good(Queue(S, c), NoClient, Q, k0, T) /\ OthersSame(S, c, Queue(S, c))
<1> DEFINE R == Queue(S, c)
           r == [S.cl[c] EXCEPT !.unblocked = TRUE]
<1>0. NoClient \notin Clients
  BY BlockedAssumption
<1>1. Good(S, c, Q, k0, T) /\ Own(S, c)
  BY <1>0, TakeUp DEF Good
<1>2. /\ Good(R, c, Q, k0, T) /\ \A d \in Clients \ {c} : R.cl[d] = S.cl[d]
      /\ R.cl[c] = r /\ R.t.timeouts = S.t.timeouts /\ R.order = S.order
  BY <1>1, QueueGood
<1>3. S.cl[c] \in Client
  BY <1>1, ServerFields DEF Good
<1>4. /\ r.keys = S.cl[c].keys /\ r.blocked = "none" /\ r.nokey = S.cl[c].nokey
      /\ r.inTable = S.cl[c].inTable /\ r.pending = S.cl[c].pending /\ r.owed = S.cl[c].owed
      /\ r.cmd = S.cl[c].cmd /\ r.left = S.cl[c].left /\ r.input = S.cl[c].input
  BY <1>3 DEF Client
<1> HIDE DEF R, r
<1>5. Own(R, c)
  BY <1>1, <1>2, <1>4 DEF Own, Awaits
<1>6. Good(R, NoClient, Q, k0, T)
  BY <1>2, <1>4, <1>5, PutBack
<1> QED
  BY <1>2, <1>4, <1>6 DEF OthersSame, R

\* A client that does not wait or run has no entry in the table of timeouts.
LEMMA NoEntries ==
  ASSUME NEW S, NEW c \in Clients, Own(S, c), S.cl[c].left \in Forever..MaxWait,
         NEW m, m = IF S.cl[c].inTable THEN S.t.timeouts \ {<<c, S.cl[c].left>>} ELSE S.t.timeouts
  PROVE  \A n \in 0..MaxWait : <<c, n>> \notin m
<1> TAKE n \in 0..MaxWait
<1>1. <<c, n>> \in S.t.timeouts => S.cl[c].inTable /\ S.cl[c].left = n
  BY BlockedAssumption DEF Own, Forever
<1> QED
  BY <1>1

\* unblockClientOnKey(), of a client that the key wakes.
LEMMA UnblockOnKeyGood ==
  ASSUME NEW S, NEW c \in Clients, NEW Q, NEW k0, NEW T, Good(S, NoClient, Q, k0, T),
         k0 \in S.cl[c].keys, S.db[k0].type = S.cl[c].blocked \/ S.cl[c].nokey
  PROVE  LET R == UnblockOnKey(S, c)
         IN Good(R, NoClient, Q, k0, T \ {c}) /\ OthersSame(S, c, R)
<1> DEFINE S1 == UnblockClient(S, c, FALSE)
           S2 == [S1 EXCEPT !.cl[c].pending = FALSE]
           S3 == Exec(S2, c, TRUE)
           r2 == [S1.cl[c] EXCEPT !.pending = FALSE]
<1>0. NoClient \notin Clients
  BY BlockedAssumption
<1>1. Good(S, c, Q, k0, T) /\ Own(S, c) /\ S \in ServerType
  BY <1>0, TakeUp DEF Good
<1>2. S.cl[c].blocked \in {"list", "stream"} /\ S.cl[c].pending /\ S.cl[c].owed = 1
  BY <1>1 DEF Own, Awaits
<1>3. S.cl[c].cmd \in Commands /\ S.cl[c] \in Client /\ S.cl[c].left \in Forever..MaxWait
  BY <1>1, <1>2, ServerFields, ClientFields DEF Own
<1>4. Good(S1, c, Q, k0, T \ {c}) /\ Loosed(S, c, S1)
  BY <1>1, <1>2, UnblockClientGood DEF BlockTypes
<1> HIDE DEF S1
<1>5. Good(S2, c, Q, k0, T \ {c}) /\ Changed(S1, c, r2, S1.t, S1.order, S2)
  BY <1>4, PendingGood
<1>6. S1.cl[c] \in Client
  BY <1>4, ServerFields DEF Good
<1>7. /\ r2.keys = S1.cl[c].keys /\ r2.blocked = S1.cl[c].blocked /\ r2.nokey = S1.cl[c].nokey
      /\ r2.inTable = S1.cl[c].inTable /\ ~r2.pending /\ r2.owed = S1.cl[c].owed
      /\ r2.cmd = S1.cl[c].cmd /\ r2.left = S1.cl[c].left /\ r2.input = S1.cl[c].input
  BY <1>6 DEF Client
<1> HIDE DEF S2, r2
<1>8. \A n \in 0..MaxWait : <<c, n>> \notin S1.t.timeouts
  BY <1>1, <1>3, <1>4, NoEntries DEF Loosed
<1>9. Running(S2, c) /\ OthersSame(S, c, S2) /\ S2.cl[c].cmd = S.cl[c].cmd /\ S2.db = S.db
  BY <1>2, <1>3, <1>4, <1>5, <1>7, <1>8 DEF Changed, Loosed, Running, OthersSame
<1>10. Rerun(S2, c)
  <2>1. CASE S.cl[c].blocked = "stream"
    BY <1>1, <1>9, <2>1 DEF Own, Rerun
  <2>2. CASE S.cl[c].blocked = "list"
    <3>1. k0 \in Awaited(S.cl[c].cmd) /\ S.db[k0].type = "list"
      BY <1>1, <2>2 DEF Own
    <3> QED
      BY <1>9, <3>1 DEF Rerun, Exists
  <2> QED
    BY <1>2, <2>1, <2>2
<1>11. Good(S3, NoClient, Q, k0, T \ {c}) /\ OthersSame(S2, c, S3)
  BY <1>5, <1>9, <1>10, ExecGood
<1>12. UnblockOnKey(S, c) = IF S3.cl[c].blocked = "none" THEN Queue(S3, c) ELSE S3
  BY DEF UnblockOnKey, S1, S2
<1> HIDE DEF S3
<1>13. OthersSame(S, c, S3)
  BY <1>9, <1>11 DEF OthersSame
<1>14. CASE S3.cl[c].blocked = "none"
  <2>1. Good(Queue(S3, c), NoClient, Q, k0, T \ {c}) /\ OthersSame(S3, c, Queue(S3, c))
    BY <1>11, <1>14, QueueBetween
  <2>2. OthersSame(S, c, Queue(S3, c))
    BY <1>13, <2>1 DEF OthersSame
  <2> QED
    BY <1>12, <1>14, <2>1, <2>2
<1>15. CASE S3.cl[c].blocked # "none"
  BY <1>11, <1>12, <1>13, <1>15
<1> QED
  BY <1>14, <1>15

-----------------------------------------------------------------------------
(* Steps.                                                                  *)

LEMMA ServerState ==
  ASSUME TypeOK
  PROVE  /\ Server \in ServerType
         /\ Server.db = db /\ Server.cl = clients /\ Server.t = tables /\ Server.order = order
         /\ \A c \in Clients : clients[c] \in Client /\ Len(clients[c].input) <= MaxPipeline
         /\ tables \in Tables /\ loop \in Loop /\ db \in [Keys -> Value]
<1>1. /\ db \in [Keys -> Value] /\ clients \in [Clients -> Client] /\ tables \in Tables
      /\ order \in Seq(Clients) /\ loop \in Loop
      /\ \A c \in Clients : Len(clients[c].input) <= MaxPipeline
  BY DEF TypeOK
<1>2. /\ Server.db = db /\ Server.cl = clients /\ Server.t = tables /\ Server.order = order
  BY DEF Server
<1>3. Server \in ServerType
  BY <1>1 DEF Server, ServerType
<1> QED
  BY <1>1, <1>2, <1>3

LEMMA LoopFields ==
  ASSUME NEW l \in Loop
  PROVE  /\ l.phase \in {"idle", "input", "timeouts", "unblocked", "unit", "unit-ro"}
         /\ l.cur \in Clients \cup {NoClient} /\ l.handling \in BOOLEAN
         /\ l.batch \in Seq(Keys) /\ l.key \in Keys \cup {NoKey} /\ l.todo \in Seq(Clients)
BY DEF Loop

\* A step to the server S, wherever the event loop is then.
LEMMA StepTo ==
  ASSUME NEW S, Becomes(S), loop' \in Loop, Walk',
         Good(S, NoClient, Range(Rest'), loop'.key, Range(loop'.todo)),
         \A c \in Clients : Len(S.cl[c].input) <= MaxPipeline
  PROVE  IInv'
<1>1. S \in ServerType
  BY DEF Good
<1>2. Server' = S
  <2>1. Server' = [db |-> S.db, cl |-> S.cl, t |-> S.t, order |-> S.order]
    BY DEF Server, Becomes
  <2> QED
    BY <1>1, <2>1 DEF ServerType
<1>3. TypeOK'
  BY <1>1, ServerFields DEF TypeOK, Becomes
<1>4. Good(Server', NoClient, Range(Rest'), loop'.key, Range(loop'.todo))
  BY <1>2
<1> QED
  BY <1>3, <1>4 DEF IInv

\* Outside handleClientsBlockedOnKeys() there is no batch.
LEMMA Outside ==
  ASSUME IInv, ~loop.handling
  PROVE  /\ Good(Server, NoClient, {}, NoKey, {})
         /\ loop.batch = <<>> /\ loop.key = NoKey /\ loop.todo = <<>>
<1>1. loop.batch = <<>> /\ loop.key = NoKey /\ loop.todo = <<>>
  BY DEF IInv, Walk
<1>2. Range(Rest) = {} /\ Range(loop.todo) = {}
  BY <1>1, EmptyFacts DEF Rest
<1> QED
  BY <1>1, <1>2 DEF IInv

LEMMA OutsideStep ==
  ASSUME IInv, ~loop.handling, NEW S, Good(S, NoClient, {}, NoKey, {}), Becomes(S),
         \A c \in Clients : Len(S.cl[c].input) <= MaxPipeline,
         loop' \in Loop, loop'.batch = loop.batch, loop'.key = loop.key, loop'.todo = loop.todo
  PROVE  IInv'
<1>1. loop'.batch = <<>> /\ loop'.key = NoKey /\ loop'.todo = <<>>
  BY Outside
<1>2. Range(Rest') = {} /\ Range(loop'.todo) = {}
  BY <1>1, EmptyFacts DEF Rest
<1>3. Walk'
  BY <1>1, <1>2, EmptyFacts DEF Walk
<1> QED
  BY <1>1, <1>2, <1>3, StepTo

LEMMA Stays ==
  ASSUME TypeOK, UNCHANGED <<db, clients, tables, order>>
  PROVE  Becomes(Server)
BY ServerState DEF Becomes

\* A step of the event loop alone.
LEMMA LoopStep ==
  ASSUME IInv, ~loop.handling, UNCHANGED <<db, clients, tables, order>>,
         loop' \in Loop, loop'.batch = loop.batch, loop'.key = loop.key, loop'.todo = loop.todo
  PROVE  IInv'
<1>1. TypeOK
  BY DEF IInv
<1>2. Becomes(Server)
  BY <1>1, Stays
<1>3. \A c \in Clients : Len(Server.cl[c].input) <= MaxPipeline
  BY <1>1, ServerState
<1> QED
  BY <1>2, <1>3, Outside, OutsideStep

LEMMA StartHandlingFields ==
  ASSUME NEW l \in Loop, NEW S
  PROVE  LET m == StartHandling(l, S)
         IN m \in Loop /\ m.batch = l.batch /\ m.key = l.key /\ m.todo = l.todo
BY DEF StartHandling, Loop

\* The phase and the current client of the event loop.
LEMMA MovedFields ==
  ASSUME NEW l \in Loop
  PROVE  /\ \A p \in {"idle", "input", "timeouts", "unblocked", "unit", "unit-ro"} :
              LET m == [l EXCEPT !.phase = p]
              IN m \in Loop /\ m.batch = l.batch /\ m.key = l.key /\ m.todo = l.todo
         /\ \A c \in Clients \cup {NoClient} :
              LET m == [l EXCEPT !.cur = c]
              IN m \in Loop /\ m.batch = l.batch /\ m.key = l.key /\ m.todo = l.todo
BY DEF Loop

LEMMA InputDoneStep ==
  ASSUME IInv, InputDone
  PROVE  IInv'
<1>1. loop \in Loop /\ ~loop.handling
  BY DEF IInv, TypeOK, InputDone, At
<1> DEFINE p == IF loop.phase = "input" THEN "idle" ELSE loop.phase
           l == [loop EXCEPT !.cur = NoClient]
<1>2. p \in {"idle", "input", "timeouts", "unblocked", "unit", "unit-ro"}
  BY <1>1, LoopFields
<1>3. loop' = [l EXCEPT !.phase = p]
  BY <1>1 DEF InputDone, Loop
<1>4. l \in Loop /\ l.batch = loop.batch /\ l.key = loop.key /\ l.todo = loop.todo
  BY <1>1, MovedFields
<1> HIDE DEF p, l
<1>5. loop' \in Loop /\ loop'.batch = loop.batch /\ loop'.key = loop.key /\ loop'.todo = loop.todo
  BY <1>2, <1>3, <1>4, MovedFields
<1> QED
  BY <1>1, <1>5, LoopStep DEF InputDone

LEMMA BeforeSleepStep ==
  ASSUME IInv, BeforeSleep
  PROVE  IInv'
<1>1. loop \in Loop /\ ~loop.handling
  BY DEF IInv, TypeOK, BeforeSleep, At
<1>2. loop' \in Loop /\ loop'.batch = loop.batch /\ loop'.key = loop.key /\ loop'.todo = loop.todo
  BY <1>1, MovedFields DEF BeforeSleep
<1> QED
  BY <1>1, <1>2, LoopStep DEF BeforeSleep

LEMMA TimeoutsDoneStep ==
  ASSUME IInv, TimeoutsDone
  PROVE  IInv'
<1>1. loop \in Loop /\ ~loop.handling
  BY DEF IInv, TypeOK, TimeoutsDone, At
<1> DEFINE l == [loop EXCEPT !.phase = "unblocked"]
<1>2. l \in Loop /\ l.batch = loop.batch /\ l.key = loop.key /\ l.todo = loop.todo
  BY <1>1, MovedFields
<1>3. loop' = StartHandling(l, Server)
  BY DEF TimeoutsDone
<1> HIDE DEF l
<1>4. loop' \in Loop /\ loop'.batch = loop.batch /\ loop'.key = loop.key /\ loop'.todo = loop.todo
  BY <1>2, <1>3, StartHandlingFields
<1> QED
  BY <1>1, <1>4, LoopStep DEF TimeoutsDone

LEMMA UnblockedDoneStep ==
  ASSUME IInv, UnblockedDone
  PROVE  IInv'
<1>1. loop \in Loop /\ ~loop.handling
  BY DEF IInv, TypeOK, UnblockedDone, At
<1>2. loop' \in Loop /\ loop'.batch = loop.batch /\ loop'.key = loop.key /\ loop'.todo = loop.todo
  BY <1>1, MovedFields DEF UnblockedDone
<1> QED
  BY <1>1, <1>2, LoopStep DEF UnblockedDone

LEMMA UnitEndStep ==
  ASSUME IInv, UnitEnd
  PROVE  IInv'
<1>1. loop \in Loop /\ ~loop.handling
  BY DEF IInv, TypeOK, UnitEnd, At
<1> DEFINE l == [loop EXCEPT !.phase = "idle"]
<1>2. l \in Loop /\ l.batch = loop.batch /\ l.key = loop.key /\ l.todo = loop.todo
  BY <1>1, MovedFields
<1>3. loop' = StartHandling(l, Server)
  BY DEF UnitEnd
<1> HIDE DEF l
<1>4. loop' \in Loop /\ loop'.batch = loop.batch /\ loop'.key = loop.key /\ loop'.todo = loop.todo
  BY <1>2, <1>3, StartHandlingFields
<1> QED
  BY <1>1, <1>4, LoopStep DEF UnitEnd

-----------------------------------------------------------------------------
(* Other clients' commands.                                                *)

LEMMA UnitPhaseMoves ==
  ASSUME loop \in Loop, loop' = [loop EXCEPT !.phase = UnitPhase]
  PROVE  /\ loop' \in Loop /\ loop'.batch = loop.batch /\ loop'.key = loop.key
         /\ loop'.todo = loop.todo
<1>1. UnitPhase \in {"idle", "input", "timeouts", "unblocked", "unit", "unit-ro"}
  BY LoopFields DEF UnitPhase
<1> QED
  BY <1>1, MovedFields

LEMMA InUnitStep ==
  ASSUME IInv, NEW S, InUnit(S), Good(S, NoClient, {}, NoKey, {}),
         \A c \in Clients : Len(S.cl[c].input) <= MaxPipeline
  PROVE  IInv'
<1>1. loop \in Loop /\ ~loop.handling /\ Becomes(S) /\ loop' = [loop EXCEPT !.phase = UnitPhase]
  BY DEF IInv, TypeOK, InUnit
<1> QED
  BY <1>1, UnitPhaseMoves, OutsideStep

\* Between steps nobody's command runs.
LEMMA Between ==
  ASSUME IInv, ~loop.handling
  PROVE  /\ Good(Server, NoClient, {}, NoKey, {}) /\ Quiet(Server, NoClient) /\ TypeOK
         /\ NoClient \notin Clients
BY Outside, BlockedAssumption DEF Quiet, IInv

\* A change of the key space keeps the clients' input.
LEMMA KeptInput ==
  ASSUME TypeOK, NEW S, NEW x, NEW Q, NEW k0, NEW T, NEW k, Kept(Server, x, Q, k0, T, k, S)
  PROVE  \A c \in Clients : Len(S.cl[c].input) <= MaxPipeline
BY ServerState DEF Kept, SameClients

LEMMA WriteStep ==
  ASSUME IInv, NEW S, InUnit(S), NEW k, Kept(Server, NoClient, {}, NoKey, {}, k, S)
  PROVE  IInv'
<1>1. \A c \in Clients : Len(S.cl[c].input) <= MaxPipeline
  BY KeptInput DEF IInv
<1>2. Good(S, NoClient, {}, NoKey, {})
  BY DEF Kept
<1> QED
  BY <1>1, <1>2, InUnitStep

LEMMA LpushStep ==
  ASSUME IInv, NEW k \in Keys, Lpush(k)
  PROVE  IInv'
<1> DEFINE S == Push(Server, k)
<1>1. InUnit(S) /\ db[k].type \in {"none", "list"}
  BY DEF Lpush, Write
<1>2. ~loop.handling
  BY <1>1 DEF InUnit
<1>3. Kept(Server, NoClient, {}, NoKey, {}, k, S)
  BY <1>1, <1>2, Between, ServerState, PushGood
<1> HIDE DEF S
<1> QED
  BY <1>1, <1>3, WriteStep

LEMMA DelStep ==
  ASSUME IInv, NEW k \in Keys, Del(k)
  PROVE  IInv'
<1> DEFINE S == DbDelete(Server, k)
<1>1. InUnit(S)
  BY DEF Del, Write
<1>2. ~loop.handling
  BY <1>1 DEF InUnit
<1>3. Kept(Server, NoClient, {}, NoKey, {}, k, S)
  BY <1>2, Between, DbDeleteGood
<1> HIDE DEF S
<1> QED
  BY <1>1, <1>3, WriteStep

LEMMA SetStep ==
  ASSUME IInv, NEW k \in Keys, Set(k)
  PROVE  IInv'
<1> DEFINE v == Val("string", 0, FALSE)
           S == SetKey(Server, k, v)
<1>1. InUnit(S)
  BY DEF Set, Write
<1>2. ~loop.handling
  BY <1>1 DEF InUnit
<1>3. v \in Value /\ v.type # "none"
  BY DEF Val, Value
<1> HIDE DEF v
<1>4. Kept(Server, NoClient, {}, NoKey, {}, k, S)
  BY <1>2, <1>3, Between, SetKeyGood
<1> HIDE DEF S
<1> QED
  BY <1>1, <1>4, WriteStep

LEMMA StoreStep ==
  ASSUME IInv, NEW k \in Keys, Store(k)
  PROVE  IInv'
<1> DEFINE v == Val("list", 1, FALSE)
           S == SetKey(Server, k, v)
<1>1. InUnit(S)
  BY DEF Store, Write
<1>2. ~loop.handling
  BY <1>1 DEF InUnit
<1>3. v \in Value /\ v.type # "none"
  BY DEF Val, Value
<1> HIDE DEF v
<1>4. Kept(Server, NoClient, {}, NoKey, {}, k, S)
  BY <1>2, <1>3, Between, SetKeyGood
<1> HIDE DEF S
<1> QED
  BY <1>1, <1>4, WriteStep

LEMMA XaddStep ==
  ASSUME IInv, NEW k \in Keys, Xadd(k)
  PROVE  IInv'
<1> DEFINE w == Val("stream", 1, FALSE)
           v == Appended(db[k])
           S1 == IF Exists(Server, k) THEN [Server EXCEPT !.db[k] = v] ELSE DbAdd(Server, k, w)
           S == Signal(S1, k, "stream", FALSE)
<1>1. InUnit(S) /\ db[k].type \in {"none", "stream"}
  BY DEF Xadd, Write
<1>2. ~loop.handling
  BY <1>1 DEF InUnit
<1>3. Good(Server, NoClient, {}, NoKey, {}) /\ Quiet(Server, NoClient) /\ TypeOK
  BY <1>2, Between
<1>4. Server.db = db /\ db[k] \in Value /\ Server \in ServerType
  BY <1>3, ServerState, ServerFields
<1>5. CASE ~Exists(Server, k)
  <2>1. Server.db[k] = Absent
    BY <1>4, <1>5, ValueFields DEF Exists
  <2>2. w \in Value
    BY DEF Val, Value
  <2>3. S = Signal(DbAdd(Server, k, w), k, "stream", FALSE)
    BY <1>5
  <2> HIDE DEF w
  <2> DEFINE V == DbAdd(Server, k, w)
  <2>4. Kept(Server, NoClient, {}, NoKey, {}, k, V)
    BY <1>3, <2>1, <2>2, DbAddGood
  <2> HIDE DEF V
  <2>5. Good(V, NoClient, {}, NoKey, {}) /\ V \in ServerType
    BY <2>4 DEF Kept, Good
  <2>6. Good(S, NoClient, {}, NoKey, {}) /\ Signalled(V, k, "stream", FALSE, S)
    BY <2>3, <2>5, SignalGood, SignalFields DEF V
  <2> HIDE DEF S
  <2>7. \A c \in Clients : Len(S.cl[c].input) <= MaxPipeline
    BY <1>3, <2>4, <2>6, KeptInput DEF Signalled, SameClients
  <2> QED
    BY <1>1, <2>6, <2>7, InUnitStep
<1>6. CASE Exists(Server, k)
  <2>1. db[k].type = "stream"
    BY <1>1, <1>4, <1>6 DEF Exists
  <2>4. v \in Value /\ v.type = "stream"
    BY <1>4, <2>1, AppendedFields
  <2> HIDE DEF v
  <2>5. S = Signal([Server EXCEPT !.db[k] = v], k, "stream", FALSE)
    BY <1>6
  <2>6. Kept(Server, NoClient, {}, NoKey, {}, k, Signal([Server EXCEPT !.db[k] = v], k, "stream", FALSE))
    BY <1>3, <2>4, StreamSignalGood
  <2>7. Kept(Server, NoClient, {}, NoKey, {}, k, S)
    BY <2>5, <2>6
  <2> HIDE DEF S
  <2> QED
    BY <1>1, <2>7, WriteStep
<1> QED
  BY <1>5, <1>6

LEMMA XgroupCreateStep ==
  ASSUME IInv, NEW k \in Keys, XgroupCreate(k)
  PROVE  IInv'
<1>0. PICK u \in 0..db[k].n :
        Write(IF Exists(Server, k) THEN [Server EXCEPT !.db[k] = [db[k] EXCEPT !.grp = TRUE, !.new = u]]
              ELSE DbAdd(Server, k, Val("stream", 0, TRUE)))
  BY DEF XgroupCreate
<1> DEFINE w == Val("stream", 0, TRUE)
           v == [db[k] EXCEPT !.grp = TRUE, !.new = u]
           S == IF Exists(Server, k) THEN [Server EXCEPT !.db[k] = v] ELSE DbAdd(Server, k, w)
<1>1. InUnit(S) /\ db[k].type \in {"none", "stream"} /\ ~db[k].grp
  BY <1>0 DEF XgroupCreate, Write
<1>2. ~loop.handling
  BY <1>1 DEF InUnit
<1>3. Good(Server, NoClient, {}, NoKey, {}) /\ Quiet(Server, NoClient) /\ TypeOK
  BY <1>2, Between
<1>4. Server.db = db /\ db[k] \in Value
  BY <1>3, ServerState, ServerFields
<1>5. Kept(Server, NoClient, {}, NoKey, {}, k, S)
  <2>1. CASE ~Exists(Server, k)
    <3>1. Server.db[k] = Absent
      BY <1>4, <2>1, ValueFields DEF Exists
    <3>2. w \in Value
      BY DEF Val, Value
    <3>3. S = DbAdd(Server, k, w)
      BY <2>1
    <3> HIDE DEF w, S
    <3> QED
      BY <1>3, <3>1, <3>2, <3>3, DbAddGood
  <2>2. CASE Exists(Server, k)
    <3>1. db[k].type = "stream"
      BY <1>1, <1>4, <2>2 DEF Exists
    <3>2. v \in Value /\ v.type = db[k].type /\ v.quiet = db[k].quiet
      BY <1>4, <3>1, GroupFields
    <3>3. S = [Server EXCEPT !.db[k] = v]
      BY <2>2
    <3> HIDE DEF v, S
    <3>4. Kept(Server, NoClient, {}, NoKey, {}, k, [Server EXCEPT !.db[k] = v])
      BY <1>1, <1>3, <1>4, <3>2, AlterGood
    <3> QED
      BY <3>3, <3>4
  <2> QED
    BY <2>1, <2>2
<1> HIDE DEF S
<1> QED
  BY <1>1, <1>5, WriteStep

LEMMA XgroupSetidStep ==
  ASSUME IInv, NEW k \in Keys, XgroupSetid(k)
  PROVE  IInv'
<1>0. PICK u \in 0..db[k].n : Write([Server EXCEPT !.db[k] = [db[k] EXCEPT !.new = u, !.quiet = u > 0]])
  BY DEF XgroupSetid
<1> DEFINE v == [db[k] EXCEPT !.new = u, !.quiet = u > 0]
           S == [Server EXCEPT !.db[k] = v]
<1>1. InUnit(S) /\ db[k].grp
  BY <1>0 DEF XgroupSetid, Write
<1>2. ~loop.handling
  BY <1>1 DEF InUnit
<1>3. Good(Server, NoClient, {}, NoKey, {}) /\ Quiet(Server, NoClient) /\ TypeOK
  BY <1>2, Between
<1>4. db[k] \in Value
  BY <1>3, ServerState
<1>5. db[k].type = "stream"
  BY <1>1, <1>4, ValueFields
<1>6. v \in Value /\ v.type = "stream" /\ v.grp /\ (v.new > 0 => v.quiet)
  BY <1>1, <1>4, <1>5, SetidFields
<1> HIDE DEF v
<1>7. Kept(Server, NoClient, {}, NoKey, {}, k, S)
  BY <1>3, <1>6, SetidGood
<1> HIDE DEF S
<1> QED
  BY <1>1, <1>7, WriteStep

LEMMA XgroupDestroyStep ==
  ASSUME IInv, NEW k \in Keys, XgroupDestroy(k)
  PROVE  IInv'
<1> DEFINE v == [Delivered(db[k]) EXCEPT !.grp = FALSE]
           S == Signal([Server EXCEPT !.db[k] = v], k, "stream", FALSE)
<1>1. InUnit(S) /\ db[k].grp
  BY DEF XgroupDestroy, Write
<1>2. ~loop.handling
  BY <1>1 DEF InUnit
<1>3. Good(Server, NoClient, {}, NoKey, {}) /\ Quiet(Server, NoClient) /\ TypeOK
  BY <1>2, Between
<1>4. db[k] \in Value
  BY <1>3, ServerState
<1>5. db[k].type = "stream"
  BY <1>1, <1>4, ValueFields
<1> DEFINE d == Delivered(db[k])
<1>6. d \in Value /\ d.type = "stream" /\ d.new = 0
  BY <1>4, <1>5, DeliveredFields
<1> HIDE DEF d
<1>7. v = [d EXCEPT !.grp = FALSE]
  BY DEF d
<1>8. v \in Value /\ v.type = "stream"
  <2>1. d \in ValueRec /\ d.n \in Nat /\ FALSE \in BOOLEAN
    BY <1>6 DEF Value, ValueRec
  <2> HIDE DEF v
  <2>2. v \in ValueRec /\ v.type = "stream" /\ v.new = 0 /\ v.n = d.n
    BY <1>6, <1>7, <2>1, Zenon DEF ValueRec
  <2> QED
    BY <2>1, <2>2, StreamIsValue
<1> HIDE DEF v
<1>9. Kept(Server, NoClient, {}, NoKey, {}, k, S)
  BY <1>3, <1>8, StreamSignalGood
<1> HIDE DEF S
<1> QED
  BY <1>1, <1>9, WriteStep

\* The active expire cycle.
LEMMA ExpireStep ==
  ASSUME IInv, NEW k \in Keys, Expire(k)
  PROVE  IInv'
<1> DEFINE S == DbDelete(Server, k)
<1>1. ~loop.handling /\ Becomes(S) /\ loop' = loop /\ loop \in Loop
  BY DEF Expire, At, IInv, TypeOK
<1>2. Kept(Server, NoClient, {}, NoKey, {}, k, S)
  BY <1>1, Between, DbDeleteGood
<1> HIDE DEF S
<1>3. \A c \in Clients : Len(S.cl[c].input) <= MaxPipeline
  BY <1>2, KeptInput DEF IInv
<1> QED
  BY <1>1, <1>2, <1>3, OutsideStep DEF Kept

\* CLIENT PAUSE and the end of a pause.
LEMMA PauseStep ==
  ASSUME IInv, ClientPause \/ ClientUnpause
  PROVE  IInv'
<1>1. PICK b \in BOOLEAN : InUnit([Server EXCEPT !.t.paused = b])
  BY DEF ClientPause, ClientUnpause
<1> DEFINE S == [Server EXCEPT !.t.paused = b]
           t == [tables EXCEPT !.paused = b]
<1>2. ~loop.handling
  BY <1>1 DEF InUnit
<1>3. Good(Server, NoClient, {}, NoKey, {}) /\ TypeOK
  BY <1>2, Between
<1>4. tables \in Tables /\ Server \in ServerType /\ Server.t = tables
  BY <1>3, ServerState
<1>5. /\ t \in Tables /\ t.blocking = tables.blocking /\ t.nokey = tables.nokey
      /\ t.signalled = tables.signalled /\ t.ready = tables.ready
      /\ t.unblocked = tables.unblocked /\ t.postponed = tables.postponed
      /\ t.timeouts = tables.timeouts /\ t.byType = tables.byType
  BY <1>4 DEF Tables
<1>6. S = [Server EXCEPT !.t = t]
  BY <1>4
<1> HIDE DEF t, S
<1>7. /\ S \in ServerType /\ S.t = t /\ S.db = Server.db /\ S.cl = Server.cl
      /\ S.order = Server.order
  BY <1>4, <1>5, <1>6 DEF ServerType
<1>8. SameClients(Server, S)
  BY <1>4, <1>5, <1>7 DEF SameClients, SameTables
<1>9. ReadyKeys(S, {}) /\ Woken(S, NoKey, {})
  BY <1>3, <1>4, <1>5, <1>7 DEF Good, ReadyKeys, Woken, DueIn
<1>10. Good(S, NoClient, {}, NoKey, {})
  BY <1>3, <1>7, <1>8, <1>9, DbOnlyGood
<1>11. \A c \in Clients : Len(S.cl[c].input) <= MaxPipeline
  BY <1>3, <1>7, ServerState
<1> QED
  BY <1>1, <1>10, <1>11, InUnitStep DEF S

-----------------------------------------------------------------------------
(* Steps of the clients that block.                                        *)

\* A change of a client between two steps, of its input or its place in the queue.
LEMMA MinorBetween ==
  ASSUME NEW S, NEW c \in Clients, NEW R, NEW Q, NEW k0, NEW T, Good(S, NoClient, Q, k0, T),
         Minor(S, c, R), R.order = S.order, R.t.timeouts = S.t.timeouts,
         R.cl[c].pending = S.cl[c].pending, R.cl[c].cmd = S.cl[c].cmd,
         R.cl[c].owed = S.cl[c].owed, R.cl[c].inTable = S.cl[c].inTable,
         R.cl[c].left = S.cl[c].left
  PROVE  Good(R, NoClient, Q, k0, T)
<1>0. NoClient \notin Clients
  BY BlockedAssumption
<1>1. Good(S, c, Q, k0, T) /\ Own(S, c)
  BY <1>0, TakeUp DEF Good
<1>2. Good(R, c, Q, k0, T)
  BY <1>1, MinorGood
<1>3. Own(R, c)
  BY <1>1 DEF Minor, Own, Awaits
<1>4. \A d \in Clients : R.cl[d].blocked = S.cl[d].blocked
  BY DEF Minor
<1>5. ASSUME NEW a \in Clients, NEW b \in Clients PROVE Ranked(R, a, b)
  <2>1. Ranked(S, a, b)
    BY <1>0 DEF Good
  <2> QED
    BY <1>4, <2>1 DEF Minor, Ranked
<1> QED
  BY <1>2, <1>3, <1>5 DEF Good

\* The other clients' input, and that of c if it is short.
LEMMA InputBound ==
  ASSUME TypeOK, NEW c \in Clients, NEW S, \A d \in Clients \ {c} : S.cl[d] = clients[d],
         Len(S.cl[c].input) <= MaxPipeline
  PROVE  \A d \in Clients : Len(S.cl[d].input) <= MaxPipeline
BY ServerState

LEMMA ArriveStep ==
  ASSUME IInv, NEW c \in Clients, NEW cmd \in Commands, Arrive(c, cmd)
  PROVE  IInv'
<1> DEFINE i == Append(clients[c].input, cmd)
           r == [clients[c] EXCEPT !.input = i]
           S == [Server EXCEPT !.cl[c] = r]
           l == [loop EXCEPT !.cur = c]
<1>1. ~loop.handling /\ TypeOK
  BY DEF Arrive, At, IInv
<1>2. Good(Server, NoClient, {}, NoKey, {})
  BY <1>1, Between
<1>3. /\ Server \in ServerType /\ clients[c] \in Client /\ loop \in Loop
      /\ Server.cl = clients /\ Server.t = tables /\ Server.db = db /\ Server.order = order
  BY <1>1, ServerState
<1>4. i \in Seq(Commands) /\ Len(i) <= MaxPipeline
  <2>1. clients[c].input \in Seq(Commands)
    BY <1>3, ClientFields
  <2>2. Len(clients[c].input) < MaxPipeline /\ Len(clients[c].input) \in Nat /\ MaxPipeline \in Nat
    BY <2>1, BlockedAssumption DEF Arrive
  <2>3. i \in Seq(Commands) /\ Len(i) = Len(clients[c].input) + 1
    BY <2>1
  <2> QED
    BY <2>2, <2>3
<1>5. clients \in [Clients -> Client] /\ clients' = [clients EXCEPT ![c] = r]
  BY <1>1 DEF Arrive, TypeOK
<1> HIDE DEF i
<1>6. /\ r \in Client /\ r.input = i /\ r.blocked = clients[c].blocked /\ r.keys = clients[c].keys
      /\ r.nokey = clients[c].nokey /\ r.unblocked = clients[c].unblocked
      /\ r.pending = clients[c].pending /\ r.cmd = clients[c].cmd /\ r.owed = clients[c].owed
      /\ r.inTable = clients[c].inTable /\ r.left = clients[c].left
  BY <1>3, <1>4 DEF Client
<1> HIDE DEF r
<1>7. Changed(Server, c, r, Server.t, Server.order, S)
  BY <1>3, ChangeClient
<1>8. S.cl = [clients EXCEPT ![c] = r]
  BY <1>3 DEF ServerType
<1> HIDE DEF S
<1>9. S \in ServerType
  BY <1>3, <1>6, <1>7, ServerFields DEF Changed
<1>10. Minor(Server, c, S)
  <2>1. \A d \in Clients : S.cl[d].unblocked = Server.cl[d].unblocked
    BY <1>3, <1>6, <1>7 DEF Changed
  <2>2. S.t = Server.t /\ S.order = Server.order /\ Queued(Server)
    BY <1>2, <1>7 DEF Changed, Good
  <2>3. \A d \in Clients : d \in Range(S.t.unblocked) <=> S.cl[d].unblocked
    BY <2>1, <2>2 DEF Queued
  <2> QED
    BY <1>3, <1>6, <1>7, <1>9, <2>2, <2>3 DEF Changed, Minor, Queued
<1>11. Good(S, NoClient, {}, NoKey, {})
  BY <1>2, <1>3, <1>6, <1>7, <1>10, MinorBetween DEF Changed
<1>12. Becomes(S)
  BY <1>3, <1>5, <1>7, <1>8 DEF Changed, Becomes, Arrive
<1>13. loop' = [l EXCEPT !.phase = "input"]
  BY <1>3 DEF Arrive, Loop
<1>14. l \in Loop /\ l.batch = loop.batch /\ l.key = loop.key /\ l.todo = loop.todo
  BY <1>3, MovedFields
<1> HIDE DEF l
<1>15. loop' \in Loop /\ loop'.batch = loop.batch /\ loop'.key = loop.key /\ loop'.todo = loop.todo
  BY <1>13, <1>14, MovedFields
<1>16. \A d \in Clients : Len(S.cl[d].input) <= MaxPipeline
  BY <1>1, <1>3, <1>4, <1>6, <1>7, InputBound DEF Changed
<1> QED
  BY <1>1, <1>11, <1>12, <1>15, <1>16, OutsideStep

LEMMA ProcessInputStep ==
  ASSUME IInv, ProcessInput
  PROVE  IInv'
<1> DEFINE c  == loop.cur
           m  == Head(clients[c].input)
           i  == Tail(clients[c].input)
           w  == clients[c].owed + 1
           r  == [clients[c] EXCEPT !.cmd = m, !.input = i, !.owed = w]
           S1 == [Server EXCEPT !.cl[c] = r]
           S  == Exec(S1, c, FALSE)
<1>1. /\ ~loop.handling /\ TypeOK /\ c # NoClient /\ clients[c].input # <<>> /\ CanParse(c)
      /\ Becomes(S) /\ loop' = StartHandling(loop, S)
  BY DEF ProcessInput, At, IInv
<1>2. Good(Server, NoClient, {}, NoKey, {}) /\ NoClient \notin Clients
  BY <1>1, Between
<1>3. c \in Clients /\ loop \in Loop
  BY <1>1, ServerState, LoopFields
<1> HIDE DEF c
<1>4. /\ Server \in ServerType /\ clients[c] \in Client
      /\ Server.cl = clients /\ Server.t = tables /\ Len(clients[c].input) <= MaxPipeline
  BY <1>1, <1>3, ServerState
<1>5. Good(Server, c, {}, NoKey, {}) /\ Own(Server, c)
  BY <1>2, <1>3, TakeUp DEF Good
<1>6. m \in Commands /\ i \in Seq(Commands) /\ Len(i) <= MaxPipeline
  <2>1. clients[c].input \in Seq(Commands)
    BY <1>4, ClientFields
  <2>2. m \in Commands /\ i \in Seq(Commands) /\ Len(i) = Len(clients[c].input) - 1
    BY <1>1, <2>1
  <2> QED
    BY <1>4, <2>1, <2>2, BlockedAssumption
<1>7. /\ clients[c].blocked = "none" /\ ~clients[c].pending
  BY <1>1 DEF CanParse
<1>8. /\ clients[c].owed = 0 /\ clients[c].keys = {} /\ ~clients[c].nokey /\ ~clients[c].inTable
      /\ \A n \in 0..MaxWait : <<c, n>> \notin tables.timeouts
  BY <1>4, <1>5, <1>7 DEF Own, Awaits
<1>9. w = 1 /\ w \in Int /\ m \in Commands \cup {NoCmd}
  BY <1>6, <1>8
<1> HIDE DEF m, i, w
<1>10. /\ Light(Server, c, r) /\ r.cmd = m /\ r.input = i /\ r.owed = w
       /\ r.pending = clients[c].pending /\ r.inTable = clients[c].inTable
  <2>1. /\ r \in Client /\ r.cmd = m /\ r.input = i /\ r.owed = w
        /\ r.pending = clients[c].pending /\ r.inTable = clients[c].inTable
        /\ r.blocked = clients[c].blocked /\ r.keys = clients[c].keys
        /\ r.nokey = clients[c].nokey /\ r.unblocked = clients[c].unblocked
    BY <1>4, <1>6, <1>9 DEF Client
  <2> HIDE DEF r
  <2> QED
    BY <1>4, <2>1 DEF Light
<1> HIDE DEF r
<1>11. Changed(Server, c, r, Server.t, Server.order, S1)
  BY <1>3, <1>4, ChangeClient
<1> HIDE DEF S1
<1>12. Good(S1, c, {}, NoKey, {})
  BY <1>3, <1>5, <1>10, <1>11, LightGood
<1>13. Running(S1, c)
  BY <1>4, <1>6, <1>7, <1>8, <1>9, <1>10, <1>11 DEF Changed, Light, Running
<1>14. Good(S, NoClient, {}, NoKey, {}) /\ OthersSame(S1, c, S)
  BY <1>3, <1>12, <1>13, ExecGood
<1> HIDE DEF S
<1>15. \A d \in Clients : Len(S.cl[d].input) <= MaxPipeline
  <2>1. \A d \in Clients \ {c} : S.cl[d] = clients[d]
    BY <1>4, <1>11, <1>14 DEF Changed, OthersSame
  <2>2. S.cl[c].input = i
    BY <1>10, <1>11, <1>14 DEF Changed, OthersSame
  <2> QED
    BY <1>1, <1>3, <1>6, <2>1, <2>2, InputBound
<1>16. loop' \in Loop /\ loop'.batch = loop.batch /\ loop'.key = loop.key /\ loop'.todo = loop.todo
  BY <1>1, <1>3, StartHandlingFields
<1> QED
  BY <1>1, <1>14, <1>15, <1>16, OutsideStep

LEMMA NextUnblockedStep ==
  ASSUME IInv, NextUnblocked
  PROVE  IInv'
<1> DEFINE c  == Head(tables.unblocked)
           r  == [clients[c] EXCEPT !.unblocked = FALSE]
           u  == Tail(tables.unblocked)
           t  == [tables EXCEPT !.unblocked = u]
           S1 == [Server EXCEPT !.cl[c] = r, !.t = t]
           S2 == IF clients[c].blocked = "none" /\ clients[c].pending
                   THEN Exec([S1 EXCEPT !.cl[c].pending = FALSE], c, FALSE) ELSE S1
           l  == [loop EXCEPT !.cur = c]
<1>1. /\ ~loop.handling /\ TypeOK /\ tables.unblocked # <<>>
      /\ Becomes(S2) /\ loop' = StartHandling(l, S2)
  BY DEF NextUnblocked, At, IInv
<1>2. Good(Server, NoClient, {}, NoKey, {}) /\ NoClient \notin Clients
  BY <1>1, Between
<1>3. /\ Server \in ServerType /\ tables \in Tables /\ loop \in Loop
      /\ Server.cl = clients /\ Server.t = tables /\ Server.order = order /\ Server.db = db
      /\ order \in Seq(Clients)
  BY <1>1, ServerState, ServerFields
<1>4. /\ c \in Clients /\ u \in Seq(Clients) /\ IsInjective(u)
      /\ Range(tables.unblocked) = {c} \cup Range(u) /\ c \notin Range(u)
  <2>1. tables.unblocked \in Seq(Clients) /\ IsInjective(tables.unblocked)
    BY <1>2, <1>3, TableFields DEF Good, Queued
  <2> QED
    BY <1>1, <2>1, HeadTailFacts
<1> HIDE DEF c, u
<1>5. clients[c] \in Client /\ Len(clients[c].input) <= MaxPipeline
  BY <1>1, <1>4, ServerState
<1>6. /\ t \in Tables /\ t.unblocked = u /\ t.blocking = tables.blocking /\ t.nokey = tables.nokey
      /\ t.signalled = tables.signalled /\ t.ready = tables.ready
      /\ t.postponed = tables.postponed /\ t.timeouts = tables.timeouts
      /\ t.byType = tables.byType
  BY <1>3, <1>4 DEF Tables
<1>7. /\ r \in Client /\ ~r.unblocked /\ r.input = clients[c].input
      /\ r.blocked = clients[c].blocked /\ r.keys = clients[c].keys
      /\ r.nokey = clients[c].nokey /\ r.pending = clients[c].pending /\ r.cmd = clients[c].cmd
      /\ r.owed = clients[c].owed /\ r.inTable = clients[c].inTable /\ r.left = clients[c].left
  BY <1>5 DEF Client
<1> HIDE DEF r, t
<1>8. Changed(Server, c, r, t, Server.order, S1)
  BY <1>3, <1>4 DEF ServerType, Changed
<1> HIDE DEF S1
<1>9. S1 \in ServerType
  BY <1>3, <1>6, <1>7, <1>8 DEF Changed
<1>10. Minor(Server, c, S1)
  <2>1. \A d \in Clients : d \in Range(S1.t.unblocked) <=> S1.cl[d].unblocked
    <3> TAKE d \in Clients
    <3>1. d \in Range(tables.unblocked) <=> clients[d].unblocked
      BY <1>2, <1>3 DEF Good, Queued
    <3> QED
      BY <1>3, <1>4, <1>6, <1>7, <1>8, <3>1 DEF Changed
  <2>2. IsInjective(Server.order)
    BY <1>2 DEF Good, Queued
  <2> QED
    BY <1>3, <1>4, <1>6, <1>7, <1>8, <1>9, <2>1, <2>2 DEF Changed, Minor
<1>11. Good(S1, NoClient, {}, NoKey, {})
  BY <1>2, <1>3, <1>4, <1>6, <1>7, <1>8, <1>10, MinorBetween DEF Changed
<1>12. l \in Loop /\ l.batch = loop.batch /\ l.key = loop.key /\ l.todo = loop.todo
  BY <1>3, <1>4, MovedFields
<1> HIDE DEF l
<1>13. loop' \in Loop /\ loop'.batch = loop.batch /\ loop'.key = loop.key /\ loop'.todo = loop.todo
  BY <1>1, <1>12, StartHandlingFields
<1>14. Good(S2, NoClient, {}, NoKey, {}) /\ OthersSame(S1, c, S2)
  <2>1. CASE ~(clients[c].blocked = "none" /\ clients[c].pending)
    <3>1. S2 = S1
      BY <2>1
    <3> QED
      BY <1>11, <3>1 DEF OthersSame
  <2>2. CASE clients[c].blocked = "none" /\ clients[c].pending
    <3> DEFINE V == [S1 EXCEPT !.cl[c].pending = FALSE]
               q == [S1.cl[c] EXCEPT !.pending = FALSE]
    <3>1. S2 = Exec(V, c, FALSE)
      BY <2>2
    <3>2. Good(S1, c, {}, NoKey, {}) /\ Own(S1, c)
      BY <1>2, <1>4, <1>11, TakeUp DEF Good
    <3>3. Good(V, c, {}, NoKey, {}) /\ Changed(S1, c, q, S1.t, S1.order, V)
      BY <1>4, <3>2, PendingGood
    <3>4. S1.cl[c] = r /\ r.blocked = "none" /\ r.pending
      BY <1>7, <1>8, <2>2 DEF Changed
    <3>5. /\ ~q.pending /\ q.blocked = "none" /\ q.keys = r.keys /\ q.nokey = r.nokey
          /\ q.inTable = r.inTable /\ q.cmd = r.cmd /\ q.owed = r.owed /\ q.input = r.input
      BY <1>7, <3>4 DEF Client
    <3> HIDE DEF V, q
    <3>6. Running(V, c) /\ OthersSame(S1, c, V)
      BY <3>2, <3>3, <3>4, <3>5 DEF Own, Awaits, Changed, Running, OthersSame
    <3>7. Good(Exec(V, c, FALSE), NoClient, {}, NoKey, {}) /\ OthersSame(V, c, Exec(V, c, FALSE))
      BY <1>4, <3>3, <3>6, ExecGood
    <3> HIDE DEF S2
    <3> QED
      BY <3>1, <3>6, <3>7 DEF OthersSame
  <2> QED
    BY <2>1, <2>2
<1> HIDE DEF S2
<1>15. \A d \in Clients : Len(S2.cl[d].input) <= MaxPipeline
  <2>1. \A d \in Clients \ {c} : S2.cl[d] = clients[d]
    BY <1>3, <1>8, <1>14 DEF Changed, OthersSame
  <2>2. S2.cl[c].input = clients[c].input
    BY <1>7, <1>8, <1>14 DEF Changed, OthersSame
  <2> QED
    BY <1>1, <1>4, <1>5, <2>1, <2>2, InputBound
<1> QED
  BY <1>1, <1>13, <1>14, <1>15, OutsideStep

LEMMA FreeClientStep ==
  ASSUME IInv, NEW c \in Clients, FreeClient(c)
  PROVE  IInv'
<1> DEFINE S == IF clients[c].blocked = "none" THEN Server ELSE UnblockClient(Server, c, TRUE)
           u == RemoveFirst(S.t.unblocked, c)
           t == [S.t EXCEPT !.unblocked = u]
           o == RemoveFirst(S.order, c)
           R == [S EXCEPT !.cl[c] = NewClient, !.t = t, !.order = o]
<1>1. ~loop.handling /\ TypeOK /\ Becomes(R) /\ loop' = loop
  BY DEF FreeClient, At, IInv
<1>2. Good(Server, NoClient, {}, NoKey, {}) /\ NoClient \notin Clients
  BY <1>1, Between
<1>3. Server \in ServerType /\ loop \in Loop /\ Server.cl = clients /\ Server.t = tables
  BY <1>1, ServerState
<1>4. Good(Server, c, {}, NoKey, {}) /\ Own(Server, c)
  BY <1>2, TakeUp DEF Good
<1>5. clients[c] \in Client /\ clients[c].left \in Forever..MaxWait
  BY <1>1, ServerState, ClientFields
<1>6. /\ Good(S, c, {}, NoKey, {}) /\ \A d \in Clients \ {c} : S.cl[d] = clients[d]
      /\ S.cl[c].blocked = "none" /\ S.cl[c].keys = {} /\ ~S.cl[c].nokey
      /\ \A n \in 0..MaxWait : <<c, n>> \notin S.t.timeouts
  <2>1. CASE clients[c].blocked = "none"
    BY <1>3, <1>4, <2>1 DEF Own, Awaits
  <2>2. CASE clients[c].blocked # "none"
    <3> DEFINE V == UnblockClient(Server, c, TRUE)
    <3>1. S = V
      BY <2>2
    <3>2. Server.cl[c].blocked \in BlockTypes
      BY <1>3, <1>5, <2>2, ClientFields
    <3>3. Server.cl[c].blocked = "postpone" => Server.cl[c].keys = {}
      BY <1>4 DEF Own, Awaits
    <3>4. Good(V, c, {}, NoKey, {} \ {c}) /\ Loosed(Server, c, V)
      BY <1>4, <3>2, <3>3, UnblockClientGood
    <3> HIDE DEF V, S
    <3>5. {} \ {c} = {}
      OBVIOUS
    <3>6. \A n \in 0..MaxWait : <<c, n>> \notin V.t.timeouts
      BY <1>3, <1>4, <1>5, <3>4, NoEntries DEF Loosed
    <3> QED
      BY <1>3, <3>1, <3>4, <3>5, <3>6 DEF Loosed
  <2> QED
    BY <2>1, <2>2
<1> HIDE DEF S
<1>7. S \in ServerType /\ S.t \in Tables /\ S.order \in Seq(Clients) /\ Queued(S)
  BY <1>6, ServerFields DEF Good
<1>8. u \in Seq(Clients) /\ IsInjective(u) /\ Range(u) = Range(S.t.unblocked) \ {c}
  BY <1>7, TableFields, RemoveFirstFacts DEF Queued
<1>9. /\ o \in Seq(Clients) /\ IsInjective(o) /\ Range(o) = Range(S.order) \ {c}
      /\ \A a, b : Before(o, a, b) <=> Before(S.order, a, b) /\ a # c /\ b # c
  BY <1>7, RemoveFirstFacts DEF Queued
<1> HIDE DEF u, o
<1>10. /\ t \in Tables /\ t.unblocked = u /\ t.blocking = S.t.blocking /\ t.nokey = S.t.nokey
       /\ t.signalled = S.t.signalled /\ t.ready = S.t.ready /\ t.postponed = S.t.postponed
       /\ t.timeouts = S.t.timeouts /\ t.byType = S.t.byType
  BY <1>7, <1>8 DEF Tables
<1>11. NewClient \in Client /\ Finished(NewClient) /\ ~NewClient.unblocked /\ NewClient.input = <<>>
  BY BlockedAssumption, EmptyFacts DEF NewClient, Client, Finished, Forever
<1> HIDE DEF t
<1>12. Changed(S, c, NewClient, t, o, R)
  BY <1>7 DEF ServerType, Changed
<1> HIDE DEF R
<1>13. R \in ServerType
  BY <1>9, <1>10, <1>11, <1>12 DEF Changed
<1>14. Minor(S, c, R)
  <2>1. \A d \in Clients : d \in Range(R.t.unblocked) <=> R.cl[d].unblocked
    <3> TAKE d \in Clients
    <3>1. d \in Range(S.t.unblocked) <=> S.cl[d].unblocked
      BY <1>7 DEF Queued
    <3>2. R.t.unblocked = u /\ (d # c => R.cl[d] = S.cl[d]) /\ ~R.cl[c].unblocked
      BY <1>10, <1>11, <1>12 DEF Changed
    <3> QED
      BY <1>8, <3>1, <3>2
  <2>2. R.db = S.db /\ \A d \in Clients \ {c} : R.cl[d] = S.cl[d]
    BY <1>12 DEF Changed
  <2>3. /\ R.cl[c].blocked = S.cl[c].blocked /\ R.cl[c].keys = S.cl[c].keys
        /\ R.cl[c].nokey = S.cl[c].nokey
    <3>1. R.cl[c].blocked = "none" /\ R.cl[c].keys = {} /\ R.cl[c].nokey = FALSE
      BY <1>12 DEF Changed, NewClient
    <3>2. S.cl[c].nokey \in BOOLEAN
      BY <1>7, ServerFields, ClientFields
    <3> QED
      BY <1>6, <3>1, <3>2
  <2>4. /\ R.t.blocking = S.t.blocking /\ R.t.nokey = S.t.nokey /\ R.t.byType = S.t.byType
        /\ R.t.signalled = S.t.signalled /\ R.t.ready = S.t.ready
        /\ R.t.postponed = S.t.postponed /\ R.t.timeouts = S.t.timeouts
        /\ IsInjective(R.t.unblocked)
    BY <1>8, <1>10, <1>12 DEF Changed
  <2>5. /\ IsInjective(R.order)
        /\ \A d \in Clients \ {c} : d \in Range(S.order) => d \in Range(R.order)
        /\ \A a, b \in Clients \ {c} : Before(S.order, a, b) => Before(R.order, a, b)
    BY <1>9, <1>12 DEF Changed
  <2> QED
    BY <1>13, <2>1, <2>2, <2>3, <2>4, <2>5 DEF Minor
<1>15. Good(R, c, {}, NoKey, {})
  BY <1>6, <1>14, MinorGood
<1>16. Answered(R, c)
  BY <1>6, <1>10, <1>11, <1>12 DEF Changed, Answered
<1>17. Good(R, NoClient, {}, NoKey, {})
  BY <1>15, <1>16, AnsweredGood
<1>18. \A d \in Clients : Len(R.cl[d].input) <= MaxPipeline
  <2>1. \A d \in Clients \ {c} : R.cl[d] = clients[d]
    BY <1>6, <1>12 DEF Changed
  <2>2. Len(R.cl[c].input) <= MaxPipeline
    <3>1. R.cl[c].input = <<>>
      BY <1>11, <1>12 DEF Changed
    <3> QED
      BY <3>1, BlockedAssumption
  <2> QED
    BY <1>1, <2>1, <2>2, InputBound
<1> QED
  BY <1>1, <1>3, <1>17, <1>18, OutsideStep

LEMMA ClientUnblockStep ==
  ASSUME IInv, NEW c \in Clients, ClientUnblock(c)
  PROVE  IInv'
<1> DEFINE R == UnblockWithReply(Server, c)
<1>1. InUnit(R) /\ TypeOK /\ clients[c].blocked \in {"list", "stream"}
  BY DEF ClientUnblock, IInv
<1>2. ~loop.handling
  BY <1>1 DEF InUnit
<1>3. Good(Server, NoClient, {}, NoKey, {}) /\ NoClient \notin Clients
  BY <1>2, Between
<1>4. /\ Server.cl = clients /\ Server.t = tables /\ clients[c] \in Client
      /\ Len(clients[c].input) <= MaxPipeline
  BY <1>1, ServerState
<1>5. Good(Server, c, {}, NoKey, {}) /\ Own(Server, c)
  BY <1>3, TakeUp DEF Good
<1>6. Awaits(Server.cl[c]) /\ Server.cl[c].owed = 1
  BY <1>1, <1>4, <1>5 DEF Own, Awaits
<1>7. /\ Good(R, c, {}, NoKey, {} \ {c})
      /\ \A d \in Clients \ {c} : R.cl[d] = Server.cl[d]
      /\ R.cl[c].input = Server.cl[c].input
      /\ R.t.timeouts = IF Server.cl[c].inTable THEN Server.t.timeouts \ {<<c, Server.cl[c].left>>}
                        ELSE Server.t.timeouts
      /\ Finished(R.cl[c])
  BY <1>5, <1>6, UnblockWithReplyGood
<1> HIDE DEF R
<1>8. Good(R, c, {}, NoKey, {})
  <2>1. {} \ {c} = {}
    OBVIOUS
  <2> QED
    BY <1>7, <2>1
<1>9. Server.cl[c].left \in Forever..MaxWait
  BY <1>4, ClientFields
<1>10. Answered(R, c)
  BY <1>5, <1>7, <1>9, NoEntries DEF Answered
<1>11. Good(R, NoClient, {}, NoKey, {})
  BY <1>8, <1>10, AnsweredGood
<1>12. \A d \in Clients : Len(R.cl[d].input) <= MaxPipeline
  BY <1>1, <1>4, <1>7, InputBound
<1> QED
  BY <1>1, <1>11, <1>12, InUnitStep

\* A client whose entry is due waits and has this deadline, so that it is answered.
LEMMA TimeoutStep ==
  ASSUME IInv, NEW c \in Clients, Timeout(c)
  PROVE  IInv'
<1> DEFINE r1 == [clients[c] EXCEPT !.inTable = FALSE]
           S1 == [Server EXCEPT !.cl[c].inTable = FALSE]
           S2 == UnblockWithReply(S1, c)
           m  == S2.t.timeouts \ {<<c, 0>>}
           t  == [S2.t EXCEPT !.timeouts = m]
           R  == [S2 EXCEPT !.t.timeouts = @ \ {<<c, 0>>}]
<1>1. ~loop.handling /\ TypeOK /\ <<c, 0>> \in tables.timeouts /\ loop' = loop
  BY DEF Timeout, At, IInv
<1>2. Good(Server, NoClient, {}, NoKey, {}) /\ NoClient \notin Clients
  BY <1>1, Between
<1>3. /\ Server \in ServerType /\ loop \in Loop /\ Server.cl = clients /\ Server.t = tables
      /\ clients[c] \in Client /\ Len(clients[c].input) <= MaxPipeline
  BY <1>1, ServerState
<1>4. Good(Server, c, {}, NoKey, {}) /\ Own(Server, c)
  BY <1>2, TakeUp DEF Good
<1>5. /\ Awaits(clients[c]) /\ clients[c].left = 0
      /\ \A n \in 0..MaxWait : n # 0 => <<c, n>> \notin tables.timeouts
  <2>1. 0 \in 0..MaxWait
    BY BlockedAssumption
  <2> QED
    BY <1>1, <1>3, <1>4, <2>1 DEF Own
<1>6. clients[c].blocked # "none" /\ clients[c].owed = 1
  BY <1>3, <1>4, <1>5 DEF Own, Awaits
<1>7. Becomes(R)
  BY <1>5, <1>6 DEF Timeout
<1>8. /\ Light(Server, c, r1) /\ ~r1.inTable /\ r1.owed = clients[c].owed
      /\ r1.blocked = clients[c].blocked /\ r1.input = clients[c].input
  BY <1>3 DEF Client, Light
<1>9. S1 = [Server EXCEPT !.cl[c] = r1]
  BY <1>3
<1> HIDE DEF r1, S1
<1>10. Changed(Server, c, r1, Server.t, Server.order, S1)
  <2>1. Changed(Server, c, r1, Server.t, Server.order, [Server EXCEPT !.cl[c] = r1])
    BY <1>3, ChangeClient
  <2> QED
    BY <1>9, <2>1
<1>11. Good(S1, c, {}, NoKey, {})
  BY <1>4, <1>8, <1>10, LightGood
<1>12. /\ Awaits(S1.cl[c]) /\ S1.cl[c].owed = 1 /\ ~S1.cl[c].inTable /\ S1.t = tables
       /\ S1.cl[c].input = clients[c].input /\ \A d \in Clients \ {c} : S1.cl[d] = clients[d]
  BY <1>3, <1>5, <1>6, <1>8, <1>10 DEF Changed, Awaits
<1>13. /\ Good(S2, c, {}, NoKey, {} \ {c})
       /\ \A d \in Clients \ {c} : S2.cl[d] = S1.cl[d]
       /\ S2.cl[c].input = S1.cl[c].input
       /\ S2.t.timeouts = IF S1.cl[c].inTable THEN S1.t.timeouts \ {<<c, S1.cl[c].left>>}
                          ELSE S1.t.timeouts
       /\ Finished(S2.cl[c])
  BY <1>11, <1>12, UnblockWithReplyGood
<1> HIDE DEF S2
<1>14. Good(S2, c, {}, NoKey, {}) /\ S2.t.timeouts = tables.timeouts
  <2>1. {} \ {c} = {}
    OBVIOUS
  <2> QED
    BY <1>12, <1>13, <2>1
<1>15. S2 \in ServerType /\ S2.t \in Tables /\ S2.cl[c] \in Client /\ S2.order \in Seq(Clients)
  BY <1>14, ServerFields DEF Good
<1>16. R = [S2 EXCEPT !.t = t]
  BY <1>15
<1>17. m \in SUBSET (Clients \X (0..MaxWait))
  BY <1>15, TableFields
<1> HIDE DEF m, R
<1>18. /\ t \in Tables /\ t.timeouts = m /\ t.blocking = S2.t.blocking /\ t.nokey = S2.t.nokey
       /\ t.signalled = S2.t.signalled /\ t.ready = S2.t.ready /\ t.postponed = S2.t.postponed
       /\ t.unblocked = S2.t.unblocked /\ t.byType = S2.t.byType
  BY <1>15, <1>17 DEF Tables
<1> HIDE DEF t
<1>19. Changed(S2, c, S2.cl[c], t, S2.order, R)
  <2>1. Changed(S2, c, S2.cl[c], t, S2.order, [S2 EXCEPT !.t = t])
    BY <1>15, ChangeTables
  <2> QED
    BY <1>16, <2>1
<1>20. R \in ServerType
  BY <1>15, <1>18, <1>19 DEF Changed
<1>21. Minor(S2, c, R)
  <2>1. Queued(S2)
    BY <1>14 DEF Good
  <2>2. \A d \in Clients : R.cl[d] = S2.cl[d]
    BY <1>19 DEF Changed
  <2>3. \A d \in Clients \ {c}, n \in 0..MaxWait : <<d, n>> \in R.t.timeouts <=> <<d, n>> \in S2.t.timeouts
    BY <1>18, <1>19 DEF Changed, m
  <2> QED
    BY <1>18, <1>19, <1>20, <2>1, <2>2, <2>3 DEF Changed, Minor, Queued
<1>22. Good(R, c, {}, NoKey, {})
  BY <1>14, <1>21, MinorGood
<1>23. Answered(R, c)
  <2>1. \A n \in 0..MaxWait : <<c, n>> \notin R.t.timeouts
    BY <1>5, <1>14, <1>18, <1>19 DEF Changed, m
  <2> QED
    BY <1>13, <1>19, <2>1 DEF Changed, Answered
<1>24. Good(R, NoClient, {}, NoKey, {})
  BY <1>22, <1>23, AnsweredGood
<1>25. \A d \in Clients : Len(R.cl[d].input) <= MaxPipeline
  <2>1. \A d \in Clients \ {c} : R.cl[d] = clients[d]
    BY <1>12, <1>13, <1>19 DEF Changed
  <2>2. R.cl[c].input = clients[c].input
    BY <1>12, <1>13, <1>19 DEF Changed
  <2> QED
    BY <1>1, <1>3, <2>1, <2>2, InputBound
<1> QED
  BY <1>1, <1>3, <1>7, <1>24, <1>25, OutsideStep

\* Time passes: an entry of the table keeps the deadline of its client.
LEMMA TickStep ==
  ASSUME IInv, Tick
  PROVE  IInv'
<1> DEFINE f == [c \in Clients |-> [clients[c] EXCEPT !.left = Pass(clients[c].left)]]
           m == {<<e[1], Pass(e[2])>> : e \in tables.timeouts}
           t == [tables EXCEPT !.timeouts = m]
           R == [db |-> db, cl |-> f, t |-> t, order |-> order]
<1>1. ~loop.handling /\ TypeOK /\ clients' = f /\ tables' = t /\ UNCHANGED <<db, loop, order>>
  BY DEF Tick, At, IInv
<1>2. Good(Server, NoClient, {}, NoKey, {}) /\ NoClient \notin Clients
  BY <1>1, Between
<1>3. /\ Server \in ServerType /\ loop \in Loop /\ Server.cl = clients /\ Server.t = tables
      /\ Server.db = db /\ Server.order = order /\ tables \in Tables /\ db \in [Keys -> Value]
      /\ order \in Seq(Clients)
      /\ \A c \in Clients : clients[c] \in Client /\ Len(clients[c].input) <= MaxPipeline
  BY <1>1, ServerState, ServerFields
<1>4. /\ \A n \in Forever..MaxWait : Pass(n) \in Forever..MaxWait /\ (Pass(n) = Forever <=> n = Forever)
      /\ \A n \in 0..MaxWait : Pass(n) \in 0..MaxWait
  BY BlockedAssumption DEF Pass, Forever
<1>5. ASSUME NEW c \in Clients
      PROVE  /\ f[c] \in Client /\ f[c].left = Pass(clients[c].left)
             /\ f[c].blocked = clients[c].blocked /\ f[c].keys = clients[c].keys
             /\ f[c].nokey = clients[c].nokey /\ f[c].unblocked = clients[c].unblocked
             /\ f[c].pending = clients[c].pending /\ f[c].cmd = clients[c].cmd
             /\ f[c].owed = clients[c].owed /\ f[c].inTable = clients[c].inTable
             /\ f[c].input = clients[c].input
  <2> DEFINE p == Pass(clients[c].left)
  <2>1. clients[c] \in Client /\ p \in Forever..MaxWait
    BY <1>3, <1>4, ClientFields
  <2>2. f[c] = [clients[c] EXCEPT !.left = p]
    OBVIOUS
  <2> HIDE DEF p, f
  <2>3. /\ f[c] \in Client /\ f[c].left = p
        /\ f[c].blocked = clients[c].blocked /\ f[c].keys = clients[c].keys
        /\ f[c].nokey = clients[c].nokey /\ f[c].unblocked = clients[c].unblocked
        /\ f[c].pending = clients[c].pending /\ f[c].cmd = clients[c].cmd
        /\ f[c].owed = clients[c].owed /\ f[c].inTable = clients[c].inTable
        /\ f[c].input = clients[c].input
    BY <2>1, <2>2 DEF Client
  <2> QED
    BY <2>3 DEF p
<1>6. f \in [Clients -> Client]
  BY <1>5
<1>7. tables.timeouts \in SUBSET (Clients \X (0..MaxWait))
  BY <1>3, TableFields
<1>8. ASSUME NEW c \in Clients, NEW n
      PROVE  <<c, n>> \in m <=> \E j \in 0..MaxWait : <<c, j>> \in tables.timeouts /\ n = Pass(j)
  <2>1. ASSUME <<c, n>> \in m
        PROVE  \E j \in 0..MaxWait : <<c, j>> \in tables.timeouts /\ n = Pass(j)
    <3>1. PICK e \in tables.timeouts : <<c, n>> = <<e[1], Pass(e[2])>>
      BY <2>1
    <3>2. e = <<e[1], e[2]>> /\ e[2] \in 0..MaxWait
      BY <1>7, <3>1
    <3>3. c = e[1] /\ n = Pass(e[2])
      BY <3>1
    <3> QED
      BY <3>1, <3>2, <3>3
  <2>2. ASSUME NEW j \in 0..MaxWait, <<c, j>> \in tables.timeouts, n = Pass(j)
        PROVE  <<c, n>> \in m
    BY <2>2
  <2> QED
    BY <2>1, <2>2
<1>9. m \in SUBSET (Clients \X (0..MaxWait))
  BY <1>4, <1>7
<1> HIDE DEF f, m
<1>10. /\ t \in Tables /\ t.timeouts = m /\ t.blocking = tables.blocking /\ t.nokey = tables.nokey
       /\ t.signalled = tables.signalled /\ t.ready = tables.ready
       /\ t.postponed = tables.postponed /\ t.unblocked = tables.unblocked
       /\ t.byType = tables.byType
  BY <1>3, <1>9 DEF Tables
<1> HIDE DEF t
<1>11. /\ R \in ServerType /\ R.db = Server.db /\ R.cl = f /\ R.t = t /\ R.order = Server.order
  BY <1>3, <1>6, <1>10 DEF ServerType
<1>12. Becomes(R)
  BY <1>1 DEF Becomes
<1> HIDE DEF R
<1>13. \A c \in Clients : /\ R.cl[c].blocked = Server.cl[c].blocked /\ R.cl[c].keys = Server.cl[c].keys
                          /\ R.cl[c].nokey = Server.cl[c].nokey
                          /\ R.cl[c].unblocked = Server.cl[c].unblocked
  BY <1>3, <1>5, <1>11
<1>14. /\ R.t.blocking = Server.t.blocking /\ R.t.nokey = Server.t.nokey
       /\ R.t.signalled = Server.t.signalled /\ R.t.ready = Server.t.ready
       /\ R.t.postponed = Server.t.postponed /\ R.t.unblocked = Server.t.unblocked
       /\ R.t.byType = Server.t.byType
  BY <1>3, <1>10, <1>11
<1>15. Good(R, NoClient, {}, NoKey, {})
  <2>1. Linked(R)
    BY <1>2, <1>13, <1>14 DEF Good, Linked
  <2>2. Counted(R)
    <3>1. \A k \in Keys : NoKeyWaiters(R, k) = NoKeyWaiters(Server, k)
      BY <1>13 DEF NoKeyWaiters
    <3>2. \A b \in BlockTypes : OfType(R, b) = OfType(Server, b)
      BY <1>13 DEF OfType
    <3> QED
      BY <1>2, <1>14, <3>1, <3>2 DEF Good, Counted
  <2>3. Queued(R)
    BY <1>2, <1>11, <1>13, <1>14 DEF Good, Queued
  <2>4. ReadyKeys(R, {})
    BY <1>2, <1>14 DEF Good, ReadyKeys
  <2>5. Woken(R, NoKey, {})
    BY <1>2, <1>11, <1>13, <1>14 DEF Good, Woken, DueIn
  <2>6. ASSUME NEW c \in Clients PROVE Own(R, c)
    <3>1. Own(Server, c)
      BY <1>2 DEF Good
    <3>2. clients[c].left \in Forever..MaxWait
      BY <1>3, ClientFields
    <3>3. /\ R.cl[c].left = Pass(clients[c].left)
          /\ R.cl[c].pending = clients[c].pending /\ R.cl[c].cmd = clients[c].cmd
          /\ R.cl[c].owed = clients[c].owed /\ R.cl[c].inTable = clients[c].inTable
      BY <1>5, <1>11
    <3>4. Awaits(R.cl[c]) <=> Awaits(clients[c])
      BY <1>3, <1>13 DEF Awaits
    <3>5. R.cl[c].left # Forever <=> clients[c].left # Forever
      BY <1>4, <3>2, <3>3
    <3>6. ASSUME NEW n \in 0..MaxWait
          PROVE  <<c, n>> \in R.t.timeouts <=> Awaits(clients[c]) /\ R.cl[c].left = n
      <4>1. <<c, n>> \in R.t.timeouts <=> \E j \in 0..MaxWait : <<c, j>> \in tables.timeouts /\ n = Pass(j)
        BY <1>8, <1>10, <1>11
      <4>2. \A j \in 0..MaxWait : <<c, j>> \in tables.timeouts <=> Awaits(clients[c]) /\ clients[c].left = j
        BY <1>3, <3>1 DEF Own
      <4>3. Pass(clients[c].left) = n => clients[c].left \in 0..MaxWait
        <5> DEFINE l == clients[c].left
        <5>1. l \in -1..MaxWait /\ MaxWait \in Nat
          BY <3>2, BlockedAssumption DEF Forever
        <5> HIDE DEF l
        <5>2. Pass(l) = n => l \in 0..MaxWait
          BY <5>1 DEF Pass
        <5> QED
          BY <5>2 DEF l
      <4> QED
        BY <3>3, <4>1, <4>2, <4>3
    <3> QED
      BY <1>3, <1>11, <1>13, <3>1, <3>3, <3>4, <3>5, <3>6 DEF Own
  <2>7. ASSUME NEW a \in Clients, NEW b \in Clients PROVE Ranked(R, a, b)
    <3>1. Ranked(Server, a, b)
      BY <1>2 DEF Good
    <3> QED
      BY <1>11, <1>13, <1>14, <3>1 DEF Ranked
  <2> QED
    BY <1>11, <2>1, <2>2, <2>3, <2>4, <2>5, <2>6, <2>7 DEF Good
<1>16. \A c \in Clients : Len(R.cl[c].input) <= MaxPipeline
  BY <1>3, <1>5, <1>11
<1> QED
  BY <1>1, <1>3, <1>12, <1>15, <1>16, OutsideStep

\* A postponed client keeps its command, and is not among those still to be visited.
LEMMA UnblockPostponedStep ==
  ASSUME IInv, UnblockPostponed
  PROVE  IInv'
<1> DEFINE c == Head(tables.postponed)
           T == Range(loop.todo)
           Q == Range(Rest)
           R == UnblockClient(Server, c, TRUE)
<1>1. /\ TypeOK /\ Walk /\ Good(Server, NoClient, Q, loop.key, T)
      /\ tables.postponed # <<>> /\ Becomes(R) /\ loop' = loop
  BY DEF UnblockPostponed, Resuming, IInv
<1>2. Server.cl = clients /\ Server.t = tables /\ tables \in Tables /\ loop \in Loop
  BY <1>1, ServerState
<1>3. tables.postponed \in Seq(Clients)
  BY <1>2, TableFields
<1>4. c \in Clients /\ c \in Range(tables.postponed)
  BY <1>1, <1>3, HeadTailFacts
<1> HIDE DEF c
<1>5. NoClient \notin Clients
  BY BlockedAssumption
<1>6. Good(Server, c, Q, loop.key, T) /\ Own(Server, c)
  BY <1>1, <1>4, <1>5, TakeUp DEF Good
<1>7. Server.cl[c].blocked = "postpone"
  BY <1>1, <1>2, <1>4 DEF Good, Queued
<1>8. Server.cl[c].keys = {} /\ ~Server.cl[c].inTable
  BY <1>6, <1>7 DEF Own, Awaits
<1>9. T \ {c} = T
  BY <1>1, <1>2, <1>8 DEF Walk
<1>10. Server.cl[c].blocked \in BlockTypes
  BY <1>7 DEF BlockTypes
<1>11. Good(R, c, Q, loop.key, T \ {c}) /\ Loosed(Server, c, R)
  BY <1>4, <1>6, <1>8, <1>10, UnblockClientGood
<1> HIDE DEF R
<1>12. Own(R, c)
  BY <1>6, <1>7, <1>8, <1>11 DEF Loosed, Own, Awaits
<1>13. R.cl[c].blocked # "list"
  BY <1>11 DEF Loosed
<1>14. Good(R, NoClient, Q, loop.key, T)
  BY <1>4, <1>9, <1>11, <1>12, <1>13, PutBack
<1>15. \A d \in Clients : Len(R.cl[d].input) <= MaxPipeline
  <2>1. Len(R.cl[c].input) <= MaxPipeline
    BY <1>1, <1>2, <1>4, <1>11, ServerState DEF Loosed
  <2>2. \A d \in Clients \ {c} : R.cl[d] = clients[d]
    BY <1>2, <1>11 DEF Loosed
  <2> QED
    BY <1>1, <1>4, <2>1, <2>2, InputBound
<1>16. \A d \in T : loop.key \in R.cl[d].keys
  <2> TAKE d \in T
  <2>1. d # c /\ d \in Clients /\ loop.key \in clients[d].keys
    <3>1. d \in Clients
      BY <1>2, LoopFields, EmptyRange
    <3> QED
      BY <1>1, <1>9, <3>1 DEF Walk
  <2> QED
    BY <1>2, <1>11, <2>1 DEF Loosed
<1>17. Walk'
  BY <1>1, <1>16 DEF Walk, Becomes
<1>18. Rest' = Rest
  BY <1>1 DEF Rest
<1> QED
  BY <1>1, <1>2, <1>14, <1>15, <1>17, <1>18, StepTo

-----------------------------------------------------------------------------
(* Steps of handleClientsBlockedOnKeys().                                   *)

\* A step that moves keys from the ready list to the batch, or goes on in it.
LEMMA BatchStep ==
  ASSUME IInv, loop' \in Loop, Walk', UNCHANGED <<db, clients, order>>,
         tables' \in Tables, tables'.blocking = tables.blocking, tables'.nokey = tables.nokey,
         tables'.unblocked = tables.unblocked, tables'.postponed = tables.postponed,
         tables'.timeouts = tables.timeouts, tables'.byType = tables.byType,
         IsInjective(tables'.ready), Range(tables'.ready) \cap Range(Rest') = {},
         tables'.signalled = Range(tables'.ready) \cup Range(Rest'),
         \A c \in Clients : \A k \in clients[c].keys :
           DueIn(Server, c, k) => \/ k \in tables'.signalled
                                  \/ k = loop'.key /\ c \in Range(loop'.todo)
                                  \/ Excused(clients[c].blocked, db[k])
  PROVE  IInv'
<1> DEFINE R == [db |-> db, cl |-> clients, t |-> tables', order |-> order]
           Q == Range(Rest')
           T == Range(loop'.todo)
<1>1. TypeOK /\ Good(Server, NoClient, Range(Rest), loop.key, Range(loop.todo))
  BY DEF IInv
<1>2. /\ Server.db = db /\ Server.cl = clients /\ Server.t = tables /\ Server.order = order
      /\ \A c \in Clients : Len(clients[c].input) <= MaxPipeline
  BY <1>1, ServerState
<1>3. R \in ServerType
  BY <1>1 DEF TypeOK, ServerType
<1>4. R.db = db /\ R.cl = clients /\ R.t = tables' /\ R.order = order
  OBVIOUS
<1>5. Becomes(R)
  BY <1>4 DEF Becomes
<1> HIDE DEF R
<1>6. SameClients(Server, R)
  BY <1>2, <1>4 DEF SameClients, SameTables
<1>7. ReadyKeys(R, Q)
  BY <1>4 DEF ReadyKeys
<1>8. Woken(R, loop'.key, T)
  BY <1>2, <1>4 DEF Woken, DueIn
<1>9. Good(R, NoClient, Q, loop'.key, T)
  BY <1>1, <1>3, <1>6, <1>7, <1>8, DbOnlyGood
<1> QED
  BY <1>2, <1>4, <1>5, <1>9, StepTo

\* What holds while the handler runs.
LEMMA Inside ==
  ASSUME IInv
  PROVE  /\ TypeOK /\ Walk /\ tables \in Tables /\ loop \in Loop
         /\ tables.ready \in Seq(Keys) /\ IsInjective(tables.ready)
         /\ Range(tables.ready) \cap Range(Rest) = {}
         /\ tables.signalled = Range(tables.ready) \cup Range(Rest)
         /\ \A c \in Clients : \A k \in clients[c].keys :
              DueIn(Server, c, k) => \/ k \in tables.signalled
                                     \/ k = loop.key /\ c \in Range(loop.todo)
                                     \/ Excused(clients[c].blocked, db[k])
<1>1. TypeOK /\ Walk /\ Good(Server, NoClient, Range(Rest), loop.key, Range(loop.todo))
  BY DEF IInv
<1>2. /\ Server.db = db /\ Server.cl = clients /\ Server.t = tables
      /\ tables \in Tables /\ loop \in Loop
  BY <1>1, ServerState
<1>3. tables.ready \in Seq(Keys)
  BY <1>2, TableFields
<1>4. ReadyKeys(Server, Range(Rest)) /\ Woken(Server, loop.key, Range(loop.todo))
  BY <1>1 DEF Good
<1> QED
  BY <1>1, <1>2, <1>3, <1>4 DEF ReadyKeys, Woken

LEMMA HandleBatchStep ==
  ASSUME IInv, HandleBatch
  PROVE  IInv'
<1>1. /\ loop.handling /\ loop.batch = <<>> /\ loop' = [loop EXCEPT !.batch = tables.ready]
      /\ tables' = [tables EXCEPT !.ready = <<>>] /\ UNCHANGED <<db, clients, order>>
  BY DEF HandleBatch
<1>2. loop.key = NoKey /\ loop.todo = <<>>
  BY <1>1, Inside DEF Walk
<1>3. /\ loop' \in Loop /\ loop'.batch = tables.ready /\ loop'.key = NoKey /\ loop'.todo = <<>>
      /\ loop'.handling
  BY <1>1, <1>2, Inside DEF Loop
<1>4. Rest' = tables.ready /\ Rest = <<>>
  BY <1>1, <1>2, <1>3 DEF Rest
<1>5. /\ tables' \in Tables /\ tables'.blocking = tables.blocking /\ tables'.nokey = tables.nokey
      /\ tables'.unblocked = tables.unblocked /\ tables'.postponed = tables.postponed
      /\ tables'.timeouts = tables.timeouts /\ tables'.byType = tables.byType
      /\ tables'.ready = <<>> /\ tables'.signalled = tables.signalled
  BY <1>1, Inside, EmptyFacts DEF Tables
<1>6. Range(<<>>) = {} /\ IsInjective(<<>>)
  BY EmptyFacts
<1>7. Walk'
  BY <1>3, <1>6, Inside DEF Walk
<1>8. tables'.signalled = Range(tables'.ready) \cup Range(Rest')
  BY <1>4, <1>5, <1>6, Inside
<1>9. \A c \in Clients : \A k \in clients[c].keys :
        DueIn(Server, c, k) => \/ k \in tables'.signalled
                               \/ k = loop'.key /\ c \in Range(loop'.todo)
                               \/ Excused(clients[c].blocked, db[k])
  BY <1>2, <1>3, <1>5, Inside
<1>10. IsInjective(tables'.ready) /\ Range(tables'.ready) \cap Range(Rest') = {}
  BY <1>5, <1>6
<1> QED
  BY <1>1, <1>3, <1>5, <1>7, <1>8, <1>9, <1>10, BatchStep

LEMMA HandleKeyStep ==
  ASSUME IInv, HandleKey
  PROVE  IInv'
<1> DEFINE h == Head(loop.batch)
<1>1. /\ loop.handling /\ loop.batch # <<>> /\ loop.key = NoKey
      /\ loop' = [loop EXCEPT !.key = h, !.todo = tables.blocking[h]]
      /\ tables' = [tables EXCEPT !.signalled = @ \ {h}] /\ UNCHANGED <<db, clients, order>>
  BY DEF HandleKey
<1>2. loop.batch \in Seq(Keys) /\ NoKey \notin Keys /\ Rest = loop.batch /\ loop.todo = <<>>
  BY <1>1, Inside, LoopFields, BlockedAssumption DEF Rest, Walk
<1>3. /\ h \in Keys /\ Range(loop.batch) = {h} \cup Range(Tail(loop.batch))
      /\ h \notin Range(Tail(loop.batch))
  BY <1>1, <1>2, Inside, HeadTailFacts DEF Walk
<1> HIDE DEF h
<1>4. tables.blocking[h] \in Seq(Clients) /\ tables.signalled \in SUBSET Keys
  BY <1>3, Inside, TableFields
<1>5. /\ loop' \in Loop /\ loop'.batch = loop.batch /\ loop'.key = h
      /\ loop'.todo = tables.blocking[h] /\ loop'.handling
  BY <1>1, <1>3, <1>4, Inside DEF Loop
<1>6. Rest' = Tail(loop.batch)
  BY <1>2, <1>3, <1>5 DEF Rest
<1>7. /\ tables' \in Tables /\ tables'.blocking = tables.blocking /\ tables'.nokey = tables.nokey
      /\ tables'.unblocked = tables.unblocked /\ tables'.postponed = tables.postponed
      /\ tables'.timeouts = tables.timeouts /\ tables'.byType = tables.byType
      /\ tables'.ready = tables.ready /\ tables'.signalled = tables.signalled \ {h}
  <2> DEFINE K == tables.signalled \ {h}
  <2>1. K \in SUBSET Keys /\ tables' = [tables EXCEPT !.signalled = K]
    BY <1>1, <1>4
  <2> HIDE DEF K
  <2>2. /\ tables' \in Tables /\ tables'.blocking = tables.blocking /\ tables'.nokey = tables.nokey
        /\ tables'.unblocked = tables.unblocked /\ tables'.postponed = tables.postponed
        /\ tables'.timeouts = tables.timeouts /\ tables'.byType = tables.byType
        /\ tables'.ready = tables.ready /\ tables'.signalled = K
    BY <2>1, Inside DEF Tables
  <2> QED
    BY <2>2 DEF K
<1>8. /\ Linked(Server) /\ Server.t = tables /\ Server.cl = clients
  BY Inside, ServerState DEF IInv, Good
<1>9. /\ IsInjective(tables.blocking[h])
      /\ \A c \in Clients : c \in Range(tables.blocking[h]) <=> h \in clients[c].keys
  BY <1>3, <1>8 DEF Linked
<1>10. Range(tables.blocking[h]) \in SUBSET Clients
  BY <1>4, EmptyRange
<1>11. Walk'
  <2>1. \A c \in Range(loop'.todo) : loop'.key \in clients'[c].keys
    BY <1>1, <1>5, <1>9, <1>10
  <2>2. loop'.key # NoKey /\ loop'.key = Head(loop'.batch) /\ loop'.batch # <<>>
    BY <1>1, <1>2, <1>3, <1>5 DEF h
  <2> QED
    BY <1>5, <1>9, <2>1, <2>2, Inside DEF Walk
<1>12. /\ Range(tables'.ready) \cap Range(Rest') = {}
       /\ tables'.signalled = Range(tables'.ready) \cup Range(Rest')
  BY <1>2, <1>3, <1>6, <1>7, Inside
<1>13. ASSUME NEW c \in Clients, NEW k \in clients[c].keys, DueIn(Server, c, k)
       PROVE  \/ k \in tables'.signalled
              \/ k = loop'.key /\ c \in Range(loop'.todo)
              \/ Excused(clients[c].blocked, db[k])
  <2>1. \/ k \in tables.signalled
        \/ Excused(clients[c].blocked, db[k])
    BY <1>2, <1>13, Inside, EmptyFacts
  <2> QED
    BY <1>5, <1>7, <1>9, <2>1
<1>14. IsInjective(tables'.ready)
  BY <1>7, Inside
<1> QED
  BY <1>1, <1>5, <1>7, <1>11, <1>12, <1>13, <1>14, BatchStep

LEMMA HandleKeyDoneStep ==
  ASSUME IInv, HandleKeyDone
  PROVE  IInv'
<1>1. /\ loop.key # NoKey /\ loop.todo = <<>>
      /\ loop' = [loop EXCEPT !.key = NoKey, !.batch = Tail(@)]
      /\ UNCHANGED <<db, clients, tables, order>>
  BY DEF HandleKeyDone
<1>2. loop.batch \in Seq(Keys) /\ loop.batch # <<>> /\ loop.handling /\ Rest = Tail(loop.batch)
  BY <1>1, Inside, LoopFields DEF Rest, Walk
<1>3. Tail(loop.batch) \in Seq(Keys) /\ IsInjective(Tail(loop.batch))
  BY <1>2, Inside, HeadTailFacts DEF Walk
<1>4. /\ loop' \in Loop /\ loop'.batch = Tail(loop.batch) /\ loop'.key = NoKey
      /\ loop'.todo = <<>> /\ loop'.handling
  BY <1>1, <1>2, <1>3, Inside DEF Loop
<1>5. Rest' = Rest
  BY <1>2, <1>4 DEF Rest
<1>6. Range(<<>>) = {} /\ IsInjective(<<>>)
  BY EmptyFacts
<1>7. Walk'
  BY <1>3, <1>4, <1>6 DEF Walk
<1>8. \A c \in Clients : \A k \in clients[c].keys :
        DueIn(Server, c, k) => \/ k \in tables'.signalled
                               \/ k = loop'.key /\ c \in Range(loop'.todo)
                               \/ Excused(clients[c].blocked, db[k])
  BY <1>1, <1>6, Inside
<1> QED
  BY <1>1, <1>4, <1>5, <1>7, <1>8, Inside, BatchStep

LEMMA HandleDoneStep ==
  ASSUME IInv, HandleDone
  PROVE  IInv'
<1>1. /\ loop.batch = <<>> /\ loop' = [loop EXCEPT !.handling = FALSE]
      /\ UNCHANGED <<db, clients, tables, order>>
  BY DEF HandleDone
<1>2. /\ loop' \in Loop /\ loop'.batch = loop.batch /\ loop'.key = loop.key
      /\ loop'.todo = loop.todo
  BY <1>1, Inside DEF Loop
<1>3. Rest' = Rest
  BY <1>2 DEF Rest
<1>4. Walk'
  BY <1>1, <1>2, Inside DEF Walk
<1> QED
  BY <1>1, <1>2, <1>3, <1>4, Inside, BatchStep

\* The client at the head of those to visit runs its command, unless the key has a
\* value of another type by now: then there is nothing for it here.
LEMMA HandleClientStep ==
  ASSUME IInv, HandleClient
  PROVE  IInv'
<1> DEFINE c == Head(loop.todo)
           k == loop.key
           T == Range(loop.todo)
           U == Range(Tail(loop.todo))
           Q == Range(Rest)
           R == IF Wakes(c, k) THEN UnblockOnKey(Server, c) ELSE Server
<1>1. /\ k # NoKey /\ loop.todo # <<>> /\ Becomes(R) /\ loop' = [loop EXCEPT !.todo = Tail(@)]
  BY DEF HandleClient
<1>2. loop.todo \in Seq(Clients) /\ loop.key \in Keys \cup {NoKey}
  BY Inside, LoopFields
<1>3. /\ c \in Clients /\ c \in T /\ Tail(loop.todo) \in Seq(Clients)
      /\ IsInjective(Tail(loop.todo)) /\ T = {c} \cup U /\ c \notin U
  BY <1>1, <1>2, Inside, HeadTailFacts DEF Walk
<1>4. U \in SUBSET Clients
  BY <1>3, EmptyRange
<1>5. /\ loop' \in Loop /\ loop'.batch = loop.batch /\ loop'.key = k
      /\ loop'.todo = Tail(loop.todo) /\ loop'.handling = loop.handling
  BY <1>1, <1>3, Inside DEF Loop
<1>6. Rest' = Rest /\ T \ {c} = U
  BY <1>3, <1>5 DEF Rest
<1>7. Good(Server, NoClient, Q, k, T) /\ Server.cl = clients /\ Server.db = db
  BY Inside, ServerState DEF IInv
<1>8. k \in clients[c].keys
  BY <1>3, Inside DEF Walk
<1> HIDE DEF c
<1>9. /\ Good(R, NoClient, Q, k, U)
      /\ \A d \in Clients \ {c} : R.cl[d] = clients[d]
      /\ R.cl[c].input = clients[c].input
  <2>1. CASE Wakes(c, k)
    <3>1. Server.db[k].type = Server.cl[c].blocked \/ Server.cl[c].nokey
      BY <1>7, <2>1 DEF Wakes
    <3>2. /\ Good(UnblockOnKey(Server, c), NoClient, Q, k, T \ {c})
          /\ OthersSame(Server, c, UnblockOnKey(Server, c))
      BY <1>3, <1>7, <1>8, <3>1, UnblockOnKeyGood
    <3> QED
      BY <1>6, <1>7, <2>1, <3>2 DEF OthersSame
  <2>2. CASE ~Wakes(c, k)
    <3>1. R = Server
      BY <2>2
    <3>2. NoClient \notin Clients
      BY BlockedAssumption
    <3>3. Own(Server, c) /\ Server \in ServerType
      BY <1>3, <1>7, <3>2 DEF Good
    <3>4. Server.cl[c].blocked = "list" /\ Server.db[k].type # "list"
      BY <1>7, <1>8, <2>2, <3>3 DEF Wakes, Own, Awaits
    <3>5. ~DueIn(Server, c, k)
      BY <3>4 DEF DueIn
    <3>6. Woken(Server, k, U)
      BY <1>3, <1>7, <3>5 DEF Good, Woken
    <3>7. Good(Server, NoClient, Q, k, U)
      BY <1>7, <3>6 DEF Good
    <3> HIDE DEF R
    <3> QED
      BY <1>7, <3>1, <3>7
  <2> QED
    BY <2>1, <2>2
<1> HIDE DEF R
<1>10. \A d \in Clients : Len(R.cl[d].input) <= MaxPipeline
  BY <1>3, <1>9, Inside, ServerState
<1>11. \A d \in U : k \in R.cl[d].keys
  BY <1>3, <1>4, <1>9, Inside DEF Walk
<1>12. Walk'
  BY <1>1, <1>3, <1>5, <1>11, Inside DEF Walk, Becomes
<1> QED
  BY <1>1, <1>5, <1>6, <1>9, <1>10, <1>12, StepTo

-----------------------------------------------------------------------------
(* The invariant.                                                           *)

LEMMA NewClientFields ==
  /\ NewClient \in Client /\ NewClient.blocked = "none" /\ ~NewClient.pending
  /\ ~NewClient.unblocked /\ ~NewClient.inTable /\ ~NewClient.nokey /\ NewClient.keys = {}
  /\ NewClient.left = Forever /\ NewClient.cmd = NoCmd /\ NewClient.input = <<>>
  /\ NewClient.owed = 0
<1>1. Forever \in Forever..MaxWait
  BY BlockedAssumption DEF Forever
<1> HIDE DEF NoCmd
<1>2. <<>> \in Seq(Commands)
  BY EmptyFacts
<1> QED
  BY <1>1, <1>2 DEF NewClient, Client

LEMMA InitIInv == Init => IInv
<1> SUFFICES ASSUME Init PROVE IInv
  OBVIOUS
<1>1. /\ db = [k \in Keys |-> Absent] /\ clients = [c \in Clients |-> NewClient]
      /\ order = <<>>
      /\ tables.blocking = [k \in Keys |-> <<>>] /\ tables.nokey = [k \in Keys |-> 0]
      /\ tables.signalled = {} /\ tables.ready = <<>> /\ tables.unblocked = <<>>
      /\ tables.postponed = <<>> /\ tables.timeouts = {}
      /\ tables.byType = [b \in BlockTypes |-> 0]
      /\ loop.handling = FALSE /\ loop.batch = <<>> /\ loop.key = NoKey /\ loop.todo = <<>>
  BY DEF Init
<1>2. /\ <<>> \in Seq(Clients) /\ <<>> \in Seq(Keys) /\ Range(<<>>) = {} /\ IsInjective(<<>>)
      /\ \A a, b : ~Before(<<>>, a, b) /\ Len(<<>>) = 0
  BY EmptyFacts
<1>3. db \in [Keys -> Value] /\ clients \in [Clients -> Client] /\ order \in Seq(Clients)
  BY <1>1, <1>2, AbsentFields, NewClientFields
<1>4. tables \in Tables
  BY <1>2 DEF Init, Tables
<1>5. loop \in Loop
  BY <1>2 DEF Init, Loop
<1>6. TypeOK
  <2>1. \A c \in Clients : Len(clients[c].input) <= MaxPipeline
    BY <1>1, <1>2, NewClientFields, BlockedAssumption
  <2> QED
    BY <1>3, <1>4, <1>5, <2>1 DEF TypeOK
<1>7. /\ Server \in ServerType /\ Server.db = db /\ Server.cl = clients /\ Server.t = tables
      /\ Server.order = order
  BY <1>6, ServerState
<1>8. \A c \in Clients : Server.cl[c] = NewClient
  BY <1>1, <1>7
<1> HIDE DEF NewClient, Server
<1>9. Rest = <<>> /\ Range(Rest) = {} /\ Range(loop.todo) = {}
  BY <1>1, <1>2 DEF Rest
<1>10. Walk
  BY <1>1, <1>2, <1>9 DEF Walk
<1>11. Linked(Server)
  BY <1>1, <1>2, <1>7, <1>8, NewClientFields DEF Linked
<1>12. Counted(Server)
  <2>1. \A k \in Keys : NoKeyWaiters(Server, k) = {}
    BY <1>8, NewClientFields DEF NoKeyWaiters
  <2>2. \A b \in BlockTypes : OfType(Server, b) = {}
    BY <1>8, NewClientFields DEF OfType, BlockTypes
  <2>3. Cardinality({}) = 0
    BY FS_EmptySet
  <2>4. /\ \A k \in Keys : Server.t.nokey[k] = 0
        /\ \A b \in BlockTypes : Server.t.byType[b] = 0
    BY <1>1, <1>7
  <2> QED
    BY <2>1, <2>2, <2>3, <2>4 DEF Counted
<1>13. Queued(Server)
  BY <1>1, <1>2, <1>7, <1>8, NewClientFields DEF Queued
<1>14. ReadyKeys(Server, {})
  BY <1>1, <1>2, <1>7 DEF ReadyKeys
<1>15. Woken(Server, loop.key, {})
  BY <1>8, NewClientFields DEF Woken
<1>16. \A c \in Clients : Own(Server, c)
  BY <1>1, <1>7, <1>8, NewClientFields, BlockedAssumption DEF Own, Awaits
<1>17. \A c, d \in Clients : Ranked(Server, c, d)
  BY <1>8, NewClientFields DEF Ranked
<1>18. Good(Server, NoClient, {}, loop.key, {})
  BY <1>7, <1>11, <1>12, <1>13, <1>14, <1>15, <1>16, <1>17 DEF Good
<1> QED
  BY <1>6, <1>9, <1>10, <1>18 DEF IInv

LEMMA NextIInv ==
  ASSUME IInv, [Next]_vars
  PROVE  IInv'
<1>1. CASE Handle
  BY <1>1, HandleBatchStep, HandleKeyStep, HandleClientStep, HandleKeyDoneStep,
     HandleDoneStep DEF Handle
<1>2. CASE Run
  BY <1>2, ProcessInputStep, InputDoneStep, TimeoutStep, TimeoutsDoneStep, NextUnblockedStep,
     UnblockedDoneStep, UnitEndStep, UnblockPostponedStep DEF Run
<1>3. CASE BeforeSleep
  BY <1>3, BeforeSleepStep
<1>4. CASE Tick
  BY <1>4, TickStep
<1>5. CASE ClientPause \/ ClientUnpause
  BY <1>5, PauseStep
<1>6. ASSUME NEW c \in Clients,
             FreeClient(c) \/ ClientUnblock(c) \/ \E cmd \in Commands : Arrive(c, cmd)
      PROVE  IInv'
  BY <1>6, FreeClientStep, ClientUnblockStep, ArriveStep
<1>7. ASSUME NEW k \in Keys,
             \/ Lpush(k) \/ Del(k) \/ Set(k) \/ Store(k) \/ Expire(k)
             \/ Xadd(k) \/ XgroupCreate(k) \/ XgroupSetid(k) \/ XgroupDestroy(k)
      PROVE  IInv'
  BY <1>7, LpushStep, DelStep, SetStep, StoreStep, ExpireStep, XaddStep, XgroupCreateStep,
     XgroupSetidStep, XgroupDestroyStep
<1>8. CASE UNCHANGED vars
  <2>1. UNCHANGED <<db, clients, tables, loop, order>>
    BY <1>8 DEF vars
  <2>2. Walk' /\ Rest' = Rest
    BY <2>1, Inside DEF Walk, Rest
  <2> QED
    BY <2>1, <2>2, Inside, BatchStep
<1> QED
  BY <1>1, <1>2, <1>3, <1>4, <1>5, <1>6, <1>7, <1>8 DEF Next

\* The tables, the clients, the key space and the loop over the ready keys stay in step,
\* whatever blocks, wakes, times out, is paused, freed or written.
THEOREM Invariance == Spec => []IInv
<1>1. IInv /\ [Next]_vars => IInv'
  BY NextIInv
<1> QED
  BY <1>1, InitIInv, PTL DEF Spec

\* Every field keeps its type: the count of clients to wake when a key is deleted and the
\* counts of blocked clients per type never go below zero, a query buffer keeps its bound.
THEOREM TypeCorrect == Spec => []TypeOK
<1>1. IInv => TypeOK
  BY DEF IInv
<1> QED
  BY <1>1, Invariance, PTL

LEMMA AgreeFromIInv ==
  ASSUME IInv
  PROVE  TablesAgree
<1>1. /\ TypeOK /\ Walk /\ Good(Server, NoClient, Range(Rest), loop.key, Range(loop.todo))
      /\ NoClient \notin Clients
  BY BlockedAssumption DEF IInv
<1>2. /\ Server.cl = clients /\ Server.t = tables /\ tables \in Tables /\ loop \in Loop
      /\ \A c \in Clients : clients[c] \in Client
  BY <1>1, ServerState
<1>3. /\ Linked(Server) /\ Counted(Server) /\ Queued(Server) /\ ReadyKeys(Server, Range(Rest))
      /\ \A c \in Clients : Own(Server, c)
  BY <1>1 DEF Good
<1>4. ASSUME NEW k \in Keys
      PROVE  LET waiting == {c \in Clients : k \in clients[c].keys}
             IN /\ Range(tables.blocking[k]) = waiting /\ IsInjective(tables.blocking[k])
                /\ tables.nokey[k] = Cardinality({c \in waiting : clients[c].nokey})
  <2> DEFINE waiting == {c \in Clients : k \in clients[c].keys}
  <2>1. Range(tables.blocking[k]) \in SUBSET Clients
    BY <1>2, TableFields, EmptyRange
  <2>2. Range(tables.blocking[k]) = waiting /\ IsInjective(tables.blocking[k])
    BY <1>2, <1>3, <2>1 DEF Linked
  <2>3. {c \in waiting : clients[c].nokey} = NoKeyWaiters(Server, k)
    BY <1>2 DEF NoKeyWaiters
  <2>4. tables.nokey[k] = Cardinality(NoKeyWaiters(Server, k))
    BY <1>2, <1>3 DEF Counted
  <2> QED
    BY <2>2, <2>3, <2>4
<1>5. \A c \in Clients : clients[c].keys # {} <=> Waiting(c)
  BY <1>2, <1>3 DEF Own, Awaits, Waiting
<1>6. ASSUME NEW b \in BlockTypes
      PROVE  tables.byType[b] = Cardinality({c \in Clients : clients[c].blocked = b})
  <2>1. {c \in Clients : clients[c].blocked = b} = OfType(Server, b)
    BY <1>2 DEF OfType
  <2> QED
    BY <1>2, <1>3, <2>1 DEF Counted
<1>7. tables.timeouts = {<<c, clients[c].left>> :
                           c \in {d \in Clients : Waiting(d) /\ clients[d].left # Forever}}
  <2> DEFINE D == {d \in Clients : Waiting(d) /\ clients[d].left # Forever}
  <2>1. tables.timeouts \in SUBSET (Clients \X (0..MaxWait))
    BY <1>2, TableFields
  <2>2. ASSUME NEW c \in Clients, NEW n \in 0..MaxWait
        PROVE  <<c, n>> \in tables.timeouts <=> c \in D /\ n = clients[c].left
    <3>1. <<c, n>> \in tables.timeouts <=> Waiting(c) /\ clients[c].left = n
      BY <1>2, <1>3 DEF Own, Awaits, Waiting
    <3>2. n # Forever
      BY BlockedAssumption DEF Forever
    <3> QED
      BY <3>1, <3>2
  <2>3. ASSUME NEW c \in D PROVE c \in Clients /\ clients[c].left \in 0..MaxWait
    <3>1. clients[c].left \in Forever..MaxWait
      BY <1>2, ClientFields
    <3> QED
      BY <3>1, BlockedAssumption DEF Forever
  <2> HIDE DEF D
  <2>4. ASSUME NEW e \in tables.timeouts PROVE \E c \in D : e = <<c, clients[c].left>>
    <3>1. PICK c \in Clients, n \in 0..MaxWait : e = <<c, n>>
      BY <2>1
    <3> QED
      BY <2>2, <3>1
  <2>5. ASSUME NEW c \in D PROVE <<c, clients[c].left>> \in tables.timeouts
    BY <2>2, <2>3
  <2>6. tables.timeouts = {<<c, clients[c].left>> : c \in D}
    BY <2>4, <2>5
  <2> QED
    BY <2>6 DEF D
<1>8. LET queued == tables.ready \o Rest
      IN Range(queued) = tables.signalled /\ IsInjective(queued)
  <2>1. tables.ready \in Seq(Keys) /\ Rest \in Seq(Keys) /\ IsInjective(Rest)
    <3>1. tables.ready \in Seq(Keys) /\ loop.batch \in Seq(Keys) /\ IsInjective(loop.batch)
      BY <1>1, <1>2, TableFields, LoopFields DEF Walk
    <3>2. CASE loop.key = NoKey
      BY <3>1, <3>2 DEF Rest
    <3>3. CASE loop.key # NoKey
      BY <1>1, <3>1, <3>3, HeadTailFacts DEF Rest, Walk
    <3> QED
      BY <3>2, <3>3
  <2>2. /\ IsInjective(tables.ready) /\ Range(tables.ready) \cap Range(Rest) = {}
        /\ tables.signalled = Range(tables.ready) \cup Range(Rest)
    BY <1>2, <1>3 DEF ReadyKeys
  <2> QED
    BY <2>1, <2>2, ConcatFacts
<1>9. /\ Range(tables.unblocked) \in SUBSET Clients /\ Range(tables.postponed) \in SUBSET Clients
  BY <1>2, TableFields, EmptyRange
<1>10. /\ Range(tables.unblocked) = {c \in Clients : clients[c].unblocked}
       /\ IsInjective(tables.unblocked)
       /\ Range(tables.postponed) = {c \in Clients : clients[c].blocked = "postpone"}
       /\ IsInjective(tables.postponed)
  BY <1>2, <1>3, <1>9 DEF Queued
<1> QED
  BY <1>4, <1>5, <1>6, <1>7, <1>8, <1>10 DEF TablesAgree, Rest

\* The tables of blocked.c and timeout.c that record one fact twice never disagree: which
\* clients wait for a key, how many wait for its deletion, how many are blocked per type,
\* who has a deadline, which keys are queued, who is queued to go on, who is postponed.
THEOREM TablesInStep == Spec => []TablesAgree
<1>1. IInv => TablesAgree
  BY AgreeFromIInv
<1> QED
  BY <1>1, Invariance, PTL

\* A client that could be served has its key queued or is about to be visited, but for
\* the two commands that give it what it waits for and signal nothing: a list put over
\* another value by setKey(), entries uncovered by XGROUP SETID.
THEOREM NoWakeupLost == Spec => []NoLostWakeup
<1>1. ASSUME IInv PROVE NoLostWakeup
  <2> SUFFICES ASSUME NEW c \in Clients, NEW k \in clients[c].keys, Due(c, k)
               PROVE  \/ k \in tables.signalled
                      \/ loop.key = k /\ c \in Range(loop.todo)
                      \/ db[k].quiet /\ db[k].type = clients[c].blocked
    BY DEF NoLostWakeup
  <2>1. Server.db = db /\ Server.cl = clients
    BY <1>1, Inside, ServerState
  <2>2. DueIn(Server, c, k)
    BY <2>1 DEF Due, DueIn
  <2> QED
    BY <1>1, <2>2, Inside DEF Excused
<1> QED
  BY <1>1, Invariance, PTL

\* Key, timeout, CLIENT UNBLOCK and pause never answer a command twice, nor drop it.
THEOREM OneAnswer == Spec => []AnsweredOnce
<1>1. ASSUME IInv PROVE AnsweredOnce
  <2>1. Server.cl = clients /\ NoClient \notin Clients
    BY <1>1, Inside, ServerState, BlockedAssumption
  <2>2. \A c \in Clients : Own(Server, c)
    BY <1>1, <2>1 DEF IInv, Good
  <2> QED
    BY <2>1, <2>2 DEF Own, AnsweredOnce
<1> QED
  BY <1>1, Invariance, PTL

\* Clients that pop stay in the order in which they blocked, in every key's list.
THEOREM PlacesKept == Spec => []KeepsItsPlace
<1>1. ASSUME IInv PROVE KeepsItsPlace
  <2>1. /\ Server.cl = clients /\ Server.t = tables /\ Server.order = order
        /\ NoClient \notin Clients
    BY <1>1, Inside, ServerState, BlockedAssumption
  <2>2. \A c, d \in Clients : Ranked(Server, c, d)
    BY <1>1, <2>1 DEF IInv, Good
  <2> QED
    BY <2>1, <2>2 DEF Ranked, KeepsItsPlace
<1> QED
  BY <1>1, Invariance, PTL
=============================================================================
