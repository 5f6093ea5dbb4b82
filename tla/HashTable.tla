------------------------------ MODULE HashTable ------------------------------
(***************************************************************************)
(* The hash table behind the key space and the big collections             *)
(* (hashtable.c): two tables while it rehashes incrementally, bucket       *)
(* chains, automatic expand and shrink, a shrink that is turned back into  *)
(* an expand, the stateless scan and the safe iterator.                    *)
(*                                                                         *)
(* A bucket chain is a nonempty sequence of buckets; a bucket has          *)
(* EntriesPerBucket positions and every bucket but the last gives its last *)
(* position to the link to its child, so `chained' is "not the last".      *)
(* used[t] and child_buckets[t] are derived from the chains.               *)
(***************************************************************************)
EXTENDS Integers, Sequences, FiniteSets, SequencesExt

CONSTANTS Elems,             \* the entries; an entry is its own key
          Hash,              \* the low bits of their hashes
          EntriesPerBucket,  \* ENTRIES_PER_BUCKET
          BucketFactor,      \* BUCKET_FACTOR
          BucketDivisor,     \* BUCKET_DIVISOR
          MaxFillSoft,       \* MAX_FILL_PERCENT_SOFT
          MaxFillHard,       \* MAX_FILL_PERCENT_HARD
          MinFillSoft,       \* MIN_FILL_PERCENT_SOFT
          MinFillHard,       \* MIN_FILL_PERCENT_HARD
          EmptyVisits,       \* empty_visits of rehashStepShrink()
          CanAbortShrink,    \* hashtable_can_abort_shrink
          CursorBits,        \* the bits of a cursor; size_t in the code
          MaxExp,            \* bound: tables have at most 2^MaxExp buckets
          Sizes,             \* the sizes callers ask hashtableExpand() for
          Policies,          \* the resize policies in use
          ScanWhileIterating,\* bound: whether scans and iterations overlap
          MaxLeaks,          \* bound: the pauses that are never resumed
          None

\* The powers of two: 1 << n in the code.
Pow2[n \in Nat] == IF n = 0 THEN 1 ELSE 2 * Pow2[n - 1]

\* MaxExp is large enough for the sizes asked for and for an insertion into a table that
\* holds every entry, which hashtableRightsizeIfNeeded() prepares for.
ASSUME HashAssumption ==
    /\ MaxExp \in Nat /\ CursorBits \in Nat /\ MaxExp < CursorBits
    /\ Hash \in [Elems -> 0 .. Pow2[CursorBits] - 1]
    /\ None \notin Elems /\ IsFiniteSet(Elems)
    /\ \A n \in Sizes \cup {Cardinality(Elems) + 1} :
          n \in Nat /\ n * BucketFactor <= Pow2[MaxExp] * BucketDivisor
    /\ CanAbortShrink \in BOOLEAN
    /\ ScanWhileIterating \in BOOLEAN
    /\ MaxLeaks \in Nat
    /\ Policies \subseteq {"ALLOW", "AVOID", "FORBID"} /\ "ALLOW" \in Policies

ASSUME FillAssumption ==
    /\ EntriesPerBucket \in Nat \ {0, 1}
    /\ {BucketFactor, BucketDivisor, EmptyVisits} \subseteq Nat \ {0}
    /\ {MaxFillSoft, MaxFillHard, MinFillSoft, MinFillHard} \subseteq Nat
    /\ MaxFillSoft <= MaxFillHard
    \* The static_assert beside BUCKET_FACTOR.
    /\ 100 * BucketDivisor <= MaxFillSoft * BucketFactor * EntriesPerBucket

VARIABLES ht,      \* the table: bucket_exp, tables, rehash_idx, pause_rehash
          policy,  \* resize_policy
          scan,    \* a scan under way: its cursor and what it still owes
          iter     \* a safe iterator

vars == <<ht, policy, scan, iter>>

Tables == {0, 1}

(***************************************************************************)
(* Buckets and chains.                                                     *)
(***************************************************************************)
EmptyBucket == [p \in 1 .. EntriesPerBucket |-> None]
EmptyChain == <<EmptyBucket>>
Filled(b) == {p \in DOMAIN b : b[p] # None}
NumPositions(c, i) == IF i < Len(c) THEN EntriesPerBucket - 1 ELSE EntriesPerBucket
IsFull(c, i) == Cardinality(Filled(c[i])) = NumPositions(c, i)
First(P) == CHOOSE p \in P : \A q \in P : p <= q

\* The positions of a chain, counted along it.
Slot(c, k) == c[((k - 1) \div EntriesPerBucket) + 1][((k - 1) % EntriesPerBucket) + 1]

\* The entries of a chain, in the order a walk meets them.
InOrder(c) ==
    LET walk[k \in 0 .. Len(c) * EntriesPerBucket] ==
            IF k = 0 THEN <<>>
            ELSE IF Slot(c, k) = None THEN walk[k - 1] ELSE Append(walk[k - 1], Slot(c, k))
    IN walk[Len(c) * EntriesPerBucket]
Entries(c) == UNION {{c[i][p] : p \in Filled(c[i])} : i \in 1 .. Len(c)}

\* Insert into the first bucket with room; a full last bucket is converted to
\* a chained one, and its last entry moves to the new child.
Put(c, x) ==
    LET room == {i \in 1 .. Len(c) : ~ IsFull(c, i)}
        i == First(room)
        n == Len(c)
    IN IF room # {}
       THEN [c EXCEPT ![i][First((1 .. NumPositions(c, i)) \ Filled(c[i]))] = x]
       ELSE Append([c EXCEPT ![n][EntriesPerBucket] = None],
                   [EmptyBucket EXCEPT ![1] = c[n][EntriesPerBucket], ![2] = x])

\* Drop the last bucket, which has at most one entry left; the entry takes the
\* position the link frees in the bucket before.
PruneLastBucket(c) ==
    LET n == Len(c)
        left == Filled(c[n])
        before == IF left = {} THEN c[n - 1]
                  ELSE [c[n - 1] EXCEPT ![EntriesPerBucket] = c[n][First(left)]]
    IN Append(SubSeq(c, 1, n - 2), before)

\* Fill the hole at position p of chained bucket i from the last bucket.
FillBucketHole(c, i, p) ==
    LET n == Len(c)
        from == First(Filled(c[n]))
        moved == IF Filled(c[n]) = {} THEN c
                 ELSE [c EXCEPT ![i][p] = c[n][from], ![n][from] = None]
    IN IF Cardinality(Filled(moved[n])) <= 1 THEN PruneLastBucket(moved) ELSE moved

\* Mutant of Take: the hole is filled although rehashing is paused.
MutantTake(c, x, paused) ==
    LET i == CHOOSE j \in 1 .. Len(c) : \E q \in DOMAIN c[j] : c[j][q] = x
        p == CHOOSE q \in DOMAIN c[i] : c[i][q] = x
        holed == [c EXCEPT ![i][p] = None]
    IN IF i < Len(c) THEN FillBucketHole(holed, i, p) ELSE holed

\* x is gone; its hole is filled unless rehashing is paused.
Take(c, x, paused) ==
    LET i == CHOOSE j \in 1 .. Len(c) : \E q \in DOMAIN c[j] : c[j][q] = x
        p == CHOOSE q \in DOMAIN c[i] : c[i][q] = x
        holed == [c EXCEPT ![i][p] = None]
    IN IF i < Len(c) /\ ~ paused THEN FillBucketHole(holed, i, p) ELSE holed

\* f applied n times to x.
Iterate(f(_), x, n) ==
    LET g[k \in 0 .. n] == IF k = 0 THEN x ELSE f(g[k - 1]) IN g[n]

\* The positions of bucket i filled from the last bucket, as long as i is not the last.
FillHoles(c, i) ==
    LET fill[p \in 0 .. EntriesPerBucket - 1] ==
            IF p = 0 THEN c
            ELSE IF i < Len(fill[p - 1]) /\ fill[p - 1][i][p] = None
                 THEN FillBucketHole(fill[p - 1], i, p) ELSE fill[p - 1]
    IN fill[EntriesPerBucket - 1]

\* One round of the loop of compactBucketChain(), at bucket w.at.
CompactRound(w) ==
    LET c == w.chain
        i == w.at
        next == Filled(c[i + 1])
    IN CASE i = Len(c) -> w
         [] i + 1 < Len(c) /\ next = {} -> [w EXCEPT !.chain = RemoveAt(c, i + 1)]
         [] i + 1 = Len(c) /\ Cardinality(next) <= 1 -> [w EXCEPT !.chain = PruneLastBucket(c)]
         [] OTHER ->
              LET d == FillHoles(c, i)
              IN [chain |-> d, at |-> IF i < Len(d) THEN i + 1 ELSE i]

CompactBucketChain(c) ==
    Iterate(CompactRound, [chain |-> c, at |-> 1], 2 * Len(c)).chain

(***************************************************************************)
(* The two tables.                                                         *)
(***************************************************************************)
NumBuckets(e) == IF e = -1 THEN 0 ELSE Pow2[e]
EmptyTable(e) == [i \in 0 .. NumBuckets(e) - 1 |-> EmptyChain]
Held(h, t) == UNION {Entries(h.tab[t][i]) : i \in DOMAIN h.tab[t]}
Used(h, t) == Cardinality(Held(h, t))
HasChildren(h, t) == \E i \in DOMAIN h.tab[t] : Len(h.tab[t][i]) > 1
Contents(h) == Held(h, 0) \cup Held(h, 1)
Size(h) == Used(h, 0) + Used(h, 1)
IsRehashing(h) == h.rehash # -1
Shrinking(h) == IsRehashing(h) /\ h.exp[1] < h.exp[0]
Capacity(e) == NumBuckets(e) * EntriesPerBucket

NextBucketExp(capacity) ==
    LET buckets == (capacity * BucketFactor - 1) \div BucketDivisor + 1
    IN First({e \in 0 .. MaxExp + 1 : Pow2[e] >= buckets})

SwapTables(h) ==
    [h EXCEPT !.exp = [t \in Tables |-> h.exp[1 - t]], !.tab = [t \in Tables |-> h.tab[1 - t]]]

RehashingCompleted(h) ==
    LET s == SwapTables(h)
    IN [s EXCEPT !.exp[1] = -1, !.tab[1] = EmptyTable(-1), !.rehash = -1]

(***************************************************************************)
(* Rehashing: one bucket chain at a time moves from table 0 to table 1.    *)
(***************************************************************************)
RehashStepFinalize(h) ==
    LET g == [h EXCEPT !.tab[0][h.rehash] = EmptyChain, !.rehash = @ + 1]
    IN IF Used(g, 0) = 0 /\ ~ HasChildren(g, 0) THEN RehashingCompleted(g) ELSE g

\* rehashEntry() of every entry of the chain at rehash_idx; a shrink uses the
\* index itself as the hash.
MoveChain(h) ==
    LET hash(x) == IF Shrinking(h) THEN h.rehash ELSE Hash[x]
        xs == InOrder(h.tab[0][h.rehash])
        moved[k \in 0 .. Len(xs)] ==
            IF k = 0 THEN h.tab[1]
            ELSE [moved[k - 1] EXCEPT ![hash(xs[k]) % NumBuckets(h.exp[1])] = Put(@, xs[k])]
    IN [h EXCEPT !.tab[1] = moved[Len(xs)]]

RehashStepShrink(h) ==
    LET skip(g) == IF IsRehashing(g) /\ g.tab[0][g.rehash] = EmptyChain
                   THEN RehashStepFinalize(g) ELSE g
        s == Iterate(skip, h, EmptyVisits)
    IN IF ~ IsRehashing(s) \/ s.rehash - h.rehash = EmptyVisits
       THEN s ELSE RehashStepFinalize(MoveChain(s))

RehashStep(h) ==
    IF Shrinking(h) THEN RehashStepShrink(h) ELSE RehashStepFinalize(MoveChain(h))

\* rehashStepOnReadIfNeeded() with "ALLOW", rehashStepOnWriteIfNeeded() with
\* "AVOID".
RehashStepIf(h, when) ==
    IF IsRehashing(h) /\ h.pause = 0 /\ policy = when THEN RehashStep(h) ELSE h

\* `allowed' is what the resizeAllowed callback of the type answers.
Resize(h, capacity, allowed) ==
    LET want == IF capacity = 0 THEN 1 ELSE capacity
        e == NextBucketExp(want)
        g == [h EXCEPT !.exp[1] = e, !.tab[1] = EmptyTable(e), !.rehash = 0]
    IN IF \/ e = h.exp[0]
          \/ policy = "FORBID" /\ h.exp[0] # -1
          \/ /\ e > h.exp[0] /\ h.exp[0] # -1 /\ ~ allowed
             /\ want * 100 < MaxFillHard * Capacity(h.exp[0])
       THEN h
       ELSE IF Used(h, 0) = 0 /\ ~ HasChildren(h, 0) THEN RehashingCompleted(g) ELSE g

\* Mutant of AbortShrinkIfNeeded: rehash_idx is not set back to 0.
MutantAbortShrinkIfNeeded(h) ==
    IF /\ CanAbortShrink
       /\ ~ iter.on
       /\ (Size(h) + 1) * 100 > MaxFillHard * Capacity(h.exp[1])
    THEN SwapTables(h)
    ELSE h

\* Turn a shrink whose target would overflow back into an expand.
AbortShrinkIfNeeded(h) ==
    IF /\ CanAbortShrink
       /\ ~ iter.on
       /\ (Size(h) + 1) * 100 > MaxFillHard * Capacity(h.exp[1])
    THEN [SwapTables(h) EXCEPT !.rehash = 0]
    ELSE h

ExpandIfNeeded(h, allowed) ==
    LET limit == IF policy = "ALLOW" THEN MaxFillSoft ELSE MaxFillHard
        need == Used(h, 0) + 1
    IN IF IsRehashing(h)
       THEN IF Shrinking(h) THEN AbortShrinkIfNeeded(h) ELSE h
       ELSE IF need * 100 <= limit * Capacity(h.exp[0]) THEN h ELSE Resize(h, need, allowed)

\* pause_auto_shrink is held by whoever pauses rehashing.
ShrinkIfNeeded(h) ==
    LET limit == IF policy = "ALLOW" THEN MinFillSoft ELSE MinFillHard
    IN IF IsRehashing(h) \/ h.pause > 0 \/ Used(h, 0) * 100 > limit * Capacity(h.exp[0])
       THEN h ELSE Resize(h, Used(h, 0), TRUE)

(***************************************************************************)
(* Lookup.  findBucket() rehashes one step first when the table is not     *)
(* empty, and skips what is already rehashed.                              *)
(***************************************************************************)
BucketOf(h, t, x) == Hash[x] % NumBuckets(h.exp[t])
FoundIn(h, t, x) ==
    /\ Used(h, t) > 0
    /\ ~ (t = 0 /\ IsRehashing(h) /\ BucketOf(h, t, x) < h.rehash)
    /\ x \in Entries(h.tab[t][BucketOf(h, t, x)])
Found(h, x) == \E t \in Tables : FoundIn(h, t, x)

OnRead(h) == IF Size(h) = 0 THEN h ELSE RehashStepIf(h, "ALLOW")

\* Mutant of Insert: a new entry goes to table 0 during a rehash.
MutantInsert(h, x, allowed) ==
    LET g == RehashStepIf(ExpandIfNeeded(h, allowed), "AVOID")
    IN [g EXCEPT !.tab[0][BucketOf(g, 0, x)] = Put(@, x)]

Insert(h, x, allowed) ==
    LET g == RehashStepIf(ExpandIfNeeded(h, allowed), "AVOID")
        t == IF IsRehashing(g) THEN 1 ELSE 0
    IN [g EXCEPT !.tab[t][BucketOf(g, t, x)] = Put(@, x)]

PopEntry(h, x) ==
    LET t == First({u \in Tables : FoundIn(h, u, x)})
    IN ShrinkIfNeeded([h EXCEPT !.tab[t][BucketOf(h, t, x)] = Take(@, x, h.pause > 0)])

(***************************************************************************)
(* The scan: a stateless cursor over the reversed bits of the index.       *)
(***************************************************************************)
\* The n bits of v in reverse order.
RevBits[n \in Nat] ==
    [v \in 0 .. Pow2[n] - 1 |->
        IF n = 0 THEN 0 ELSE (v % 2) * Pow2[n - 1] + RevBits[n - 1][v \div 2]]

Rev == RevBits[CursorBits]

\* Mutant of NextCursor: the cursor counts upwards.
MutantNextCursor(v, e) == ((v % Pow2[e]) + 1) % Pow2[e]

\* Set the unmasked bits, then increment the reversed cursor.
NextCursor(v, e) ==
    Rev[(Rev[(v % Pow2[e]) + (Pow2[CursorBits] - Pow2[e])] + 1) % Pow2[CursorBits]]

\* The cursors of one call in the larger table: from v until the bits the
\* smaller mask leaves out are zero again.  The last one is returned.
Expansion(v, small, large) ==
    LET c[k \in 0 .. Pow2[large]] == IF k = 0 THEN v ELSE NextCursor(c[k - 1], large)
        n == First({k \in 1 .. Pow2[large] : (c[k] % Pow2[large]) \div Pow2[small] = 0})
    IN [k \in 1 .. n + 1 |-> c[k - 1]]

\* What one call does at cursor v: the chains it emits and the next cursor.
Visit(h, v) ==
    LET s == IF h.exp[0] <= h.exp[1] THEN 0 ELSE 1
        small == h.exp[s]
        large == h.exp[1 - s]
        cs == Expansion(v, small, large)
        at(t, u) == <<t, u % NumBuckets(h.exp[t])>>
        live(w) == w[1] = 1 \/ w[2] >= h.rehash
    IN IF IsRehashing(h)
       THEN [chains |-> {w \in {at(s, v)} \cup {at(1 - s, cs[k]) : k \in 1 .. Len(cs) - 1} : live(w)},
             next |-> cs[Len(cs)]]
       ELSE [chains |-> {at(0, v)}, next |-> NextCursor(v, h.exp[0])]

\* Delete the entries D from the chains W, as a scan callback does, and
\* compact the chains that lost one.
Purge(h, W, D) ==
    LET hole(c) == [i \in 1 .. Len(c) |-> [p \in DOMAIN c[i] |-> IF c[i][p] \in D THEN None ELSE c[i][p]]]
        purge(t, i) ==
            IF <<t, i>> \in W /\ Entries(h.tab[t][i]) \cap D # {}
            THEN CompactBucketChain(hole(h.tab[t][i])) ELSE h.tab[t][i]
    IN [h EXCEPT !.tab = [t \in Tables |-> [i \in DOMAIN h.tab[t] |-> purge(t, i)]]]

(***************************************************************************)
(* The safe iterator.  It pauses rehashing from its first hashtableNext()  *)
(* on, and walks table 0 and then, if the table is rehashing by the time,  *)
(* table 1.  `slot' counts positions along the chain at `idx'.             *)
(***************************************************************************)
\* The filled positions of the chain under iterator i, beyond its own.
Ahead(h, i) ==
    LET c == h.tab[i.table][i.idx]
    IN {k \in i.slot + 1 .. Len(c) * EntriesPerBucket : Slot(c, k) # None}

\* A chain is done: compact it if this iterator alone pauses rehashing and
\* entries have gone, then move to the next index or the next table.
EndOfIndex(w) ==
    LET i == w.it
        gone == w.ht.pause = 1 /\ Used(w.ht, i.table) < i.size
        h == IF gone THEN [w.ht EXCEPT !.tab[i.table][i.idx] = CompactBucketChain(@)] ELSE w.ht
        moved == [i EXCEPT !.slot = 0, !.size = Used(h, i.table), !.idx = @ + 1]
    IN CASE moved.idx < NumBuckets(h.exp[i.table]) -> [w EXCEPT !.ht = h, !.it = moved]
         [] moved.idx >= NumBuckets(h.exp[i.table]) /\ IsRehashing(h) /\ i.table = 0 ->
              [w EXCEPT !.ht = h, !.it = [moved EXCEPT !.idx = 0, !.table = 1]]
         [] OTHER -> [w EXCEPT !.ht = h, !.end = TRUE]

Advance(w) ==
    LET round(v) == IF v.end \/ Ahead(v.ht, v.it) # {} THEN v ELSE EndOfIndex(v)
    IN Iterate(round, w, NumBuckets(w.ht.exp[0]) + NumBuckets(w.ht.exp[1]))

NoIter == [on |-> FALSE, begun |-> FALSE, table |-> 0, idx |-> 0, slot |-> 0, size |-> 0,
           last |-> None, due |-> {}]
NoScan == [on |-> FALSE, cursor |-> 0, due |-> {}]

\* hashtableResumeRehashing().
Resume(h) == ShrinkIfNeeded([h EXCEPT !.pause = @ - 1])

Init ==
    /\ ht = [exp |-> [t \in Tables |-> -1], tab |-> [t \in Tables |-> EmptyTable(-1)],
             rehash |-> -1, pause |-> 0]
    /\ policy = "ALLOW"
    /\ scan = NoScan
    /\ iter = NoIter

(***************************************************************************)
(* The operations.  While a safe iterator is between two entries its user  *)
(* may insert, and delete the entry just returned; hashtableExpand() and   *)
(* hashtableEmpty() are left to tables nobody iterates.                    *)
(***************************************************************************)
\* hashtableFind().
Find == ht' = OnRead(ht) /\ UNCHANGED <<policy, scan, iter>>

\* hashtableAdd().
Add(x, allowed) ==
    LET h == OnRead(ht)
    IN /\ ht' = IF Found(h, x) THEN h ELSE Insert(h, x, allowed)
       /\ UNCHANGED <<policy, scan, iter>>

\* hashtablePop(), hashtableDelete().
Pop(x) ==
    LET h == OnRead(ht)
    IN /\ iter.begun => x = iter.last
       /\ ht' = IF Found(h, x) THEN PopEntry(h, x) ELSE h
       /\ scan' = [scan EXCEPT !.due = @ \ {x}]
       /\ iter' = [iter EXCEPT !.due = @ \ {x}, !.last = IF @ = x THEN None ELSE @]
       /\ UNCHANGED policy

\* hashtableExpand().
Expand(size, allowed) ==
    /\ ~ iter.on
    /\ ~ IsRehashing(ht) /\ size >= Size(ht)
    /\ ht' = Resize(ht, size, allowed)
    /\ UNCHANGED <<policy, scan, iter>>

\* hashtableRightsizeIfNeeded(), from the cron.
Rightsize(allowed) ==
    LET h == ShrinkIfNeeded(ht)
    IN /\ ht' = IF h # ht THEN h ELSE ExpandIfNeeded(ht, allowed)
       /\ UNCHANGED <<policy, scan, iter>>

\* hashtableRehashMicroseconds(), a step at a time.
RehashMicroseconds ==
    /\ IsRehashing(ht) /\ ht.pause = 0 /\ policy = "ALLOW"
    /\ ht' = RehashStep(ht)
    /\ UNCHANGED <<policy, scan, iter>>

\* hashtableSetResizePolicy(): AVOID while a child process saves, FORBID in
\* that child.
SetResizePolicy(p) == policy' = p /\ p # policy /\ UNCHANGED <<ht, scan, iter>>

\* hashtableEmpty().
Empty ==
    /\ ~ iter.on
    /\ ht' = [ht EXCEPT !.exp = [t \in Tables |-> -1],
                        !.tab = [t \in Tables |-> EmptyTable(-1)], !.rehash = -1]
    /\ scan' = [scan EXCEPT !.due = {}]
    /\ UNCHANGED <<policy, iter>>

\* One hashtableScan() call from the cursor of the last one; its callback
\* deletes the entries D it is given.  A returned 0 ends the scan.
ScanCall ==
    LET paused == [ht EXCEPT !.pause = @ + 1]
        visit == Visit(ht, scan.cursor)
        emitted == UNION {Entries(ht.tab[w[1]][w[2]]) : w \in visit.chains}
        owed == IF scan.on THEN scan.due ELSE Contents(ht)
    IN /\ iter.on => ScanWhileIterating
       /\ \/ /\ Size(ht) = 0
             /\ scan' = [NoScan EXCEPT !.due = owed]
             /\ UNCHANGED ht
          \/ /\ Size(ht) > 0
             /\ \E D \in IF iter.on THEN {{}} ELSE SUBSET emitted :
                   ht' = Resume(Purge(paused, visit.chains, D))
             /\ scan' = [on |-> visit.next # 0, cursor |-> visit.next, due |-> owed \ emitted]
       /\ UNCHANGED <<policy, iter>>

\* hashtableInitIterator() with HASHTABLE_ITER_SAFE.
InitIterator ==
    /\ ~ iter.on
    /\ scan.on => ScanWhileIterating
    /\ iter' = [NoIter EXCEPT !.on = TRUE, !.due = Contents(ht)]
    /\ UNCHANGED <<ht, policy, scan>>

\* hashtableNext() when table 0 has no buckets: the first call pauses rehashing
\* and is done at once, with the index still -1, so that the cleanup takes the
\* iterator for one that has not begun and resumes nothing.
IterNextEmpty ==
    /\ iter.on /\ ~ iter.begun
    /\ ht.exp[0] = -1
    /\ ht.pause < MaxLeaks
    /\ ht' = [ht EXCEPT !.pause = @ + 1]
    /\ iter' = [NoIter EXCEPT !.due = iter.due]
    /\ UNCHANGED <<policy, scan>>

\* hashtableNext() otherwise: the first call pauses rehashing and skips what is
\* already rehashed; the end cleans the iterator up.
IterNext ==
    LET first == [iter EXCEPT !.begun = TRUE, !.size = Used(ht, 0),
                              !.idx = IF IsRehashing(ht) THEN ht.rehash ELSE 0]
        w == IF iter.begun THEN [ht |-> ht, it |-> iter, end |-> FALSE]
             ELSE [ht |-> [ht EXCEPT !.pause = @ + 1], it |-> first, end |-> FALSE]
        v == Advance(w)
        at == First(Ahead(v.ht, v.it))
        x == Slot(v.ht.tab[v.it.table][v.it.idx], at)
    IN /\ iter.on
       /\ iter.begun \/ ht.exp[0] # -1
       /\ IF v.end
          THEN ht' = Resume(v.ht) /\ iter' = [NoIter EXCEPT !.due = iter.due]
          ELSE /\ ht' = v.ht
               /\ iter' = [v.it EXCEPT !.slot = at, !.last = x, !.due = @ \ {x}]
       /\ UNCHANGED <<policy, scan>>

\* hashtableCleanupIterator() before the end.
CleanupIterator ==
    /\ iter.on
    /\ ht' = IF iter.begun THEN Resume(ht) ELSE ht
    /\ iter' = NoIter
    /\ UNCHANGED <<policy, scan>>

Next ==
    \/ Find \/ \E x \in Elems : Pop(x)
    \/ \E allowed \in BOOLEAN :
          \/ \E x \in Elems : Add(x, allowed)
          \/ \E size \in Sizes : Expand(size, allowed)
          \/ Rightsize(allowed)
    \/ RehashMicroseconds \/ Empty
    \/ \E p \in Policies : SetResizePolicy(p)
    \/ ScanCall
    \/ InitIterator \/ IterNextEmpty \/ IterNext \/ CleanupIterator

Spec == Init /\ [][Next]_vars

(***************************************************************************)
(* Properties.                                                             *)
(***************************************************************************)
Bucket == [1 .. EntriesPerBucket -> Elems \cup {None}]

\* The tables have as many chains as their exponents say, rehash_idx stays
\* inside the old table (the assertion of rehashStepFinalize()), and the link
\* position of a chained bucket holds no entry (the assertion of
\* bucketConvertToUnchained()).
TypeOK ==
    /\ ht.exp \in [Tables -> -1 .. MaxExp]
    /\ \A t \in Tables : DOMAIN ht.tab[t] = 0 .. NumBuckets(ht.exp[t]) - 1
    /\ \A t \in Tables : \A i \in DOMAIN ht.tab[t] :
          LET c == ht.tab[t][i]
          IN /\ c \in Seq(Bucket) /\ c # <<>>
             /\ \A k \in 1 .. Len(c) - 1 : c[k][EntriesPerBucket] = None
    /\ ht.rehash \in -1 .. NumBuckets(ht.exp[0]) - 1
    /\ ht.exp[1] = -1 <=> ht.rehash = -1
    /\ ht.pause \in Nat
    /\ iter.begun => ht.pause > 0
    /\ policy \in Policies
    /\ scan \in [on : BOOLEAN, cursor : 0 .. Pow2[CursorBits] - 1, due : SUBSET Elems]
    /\ iter.begun => iter.on

\* However the table is expanded, shrunk, turned back and compacted, each
\* entry it holds is in one place only and findBucket() finds it there.
Findable ==
    /\ \A x \in Contents(ht) : Found(ht, x)
    /\ Size(ht) = Cardinality(Contents(ht))
    /\ \A t \in Tables : \A i \in DOMAIN ht.tab[t] : IsInjective(InOrder(ht.tab[t][i]))

\* "An entry that is present in the hash table during an entire full scan will
\* be returned (emitted) at least once", whatever resizes fall between two
\* calls of the scan.
ScanComplete == ~ scan.on => scan.due = {}

\* A safe iterator returns every entry that is in the table throughout the
\* iteration, also in a table where pauses have leaked.
IterComplete == ~ iter.on => iter.due = {}

\* "safe iterators don't keep rehashing paused" once they are done.
PauseReleased == ~ iter.on => ht.pause = 0
=============================================================================
