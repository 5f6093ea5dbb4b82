------------------------- MODULE OutputBufferProofs -------------------------
(****************************************************************************)
(* What OutputBuffer promises, proved for every size of the buffers, every  *)
(* limit of writev() and every bound: the host receives the reply stream in *)
(* order, nothing that was added is dropped, the write bookmark points into *)
(* the first buffer that holds bytes, and a write with something pending    *)
(* has something to send.                                                   *)
(*                                                                          *)
(* The model flattens sequences of byte strings and gathers iovec entries   *)
(* with recursive functions, so the proofs begin with an induction over the *)
(* natural numbers (NatSetInduction) and with what FlattenSeq, AddEntries,  *)
(* Gathering and Upto compute.  The inductive invariant Inv then says that  *)
(* the wire is 1, 2, 3, ..., and that the static buffer and the list, with  *)
(* the deferred header where its placeholder is, hold the bytes behind      *)
(* those of the wire that the bookmark does not skip.  One lemma per action *)
(* shows that it is kept.                                                   *)
(****************************************************************************)
EXTENDS OutputBuffer, SequenceTheorems, WellFoundedInduction, TLAPS

\* Induction over the natural numbers, for a set that holds the numbers proved so far.
LEMMA NatSetInduction ==
  ASSUME NEW S, 0 \in S, \A n \in Nat : n \in S => n + 1 \in S
  PROVE  Nat \subseteq S
<1> DEFINE T == Nat \ S
           R == OpToRel(<, Nat)
<1>1. SUFFICES ASSUME T # {} PROVE FALSE
  OBVIOUS
<1>2. IsWellFoundedOn(R, Nat)
  BY NatLessThanWellFounded
<1>3. T \subseteq Nat
  OBVIOUS
<1>4. \A y, x \in Nat : y < x => <<y, x>> \in R
  BY DEF OpToRel
<1> HIDE DEF R
<1>5. \E x \in T : \A y \in T : ~ (<<y, x>> \in R)
  <2> HIDE DEF T
  <2> QED BY <1>1, <1>2, <1>3, WFMin
<1>6. PICK x \in T : \A y \in T : ~ (<<y, x>> \in R)
  BY <1>5
<1>7. x # 0 /\ x \in Nat
  OBVIOUS
<1>8. x - 1 \in Nat /\ x - 1 < x /\ (x - 1) + 1 = x
  BY <1>7
<1>9. x - 1 \in T
  BY <1>6, <1>7, <1>8
<1> QED
  BY <1>4, <1>6, <1>7, <1>8, <1>9

\* The function with which FlattenSeq is defined.
Flattening(s, f) ==
  f = [i \in 1..Len(s) |-> IF i = 1 THEN s[i] ELSE f[i - 1] \o s[i]]

\* It exists: it grows by one entry at a time.
LEMMA FlatteningExists ==
  ASSUME NEW s, Len(s) \in Nat
  PROVE  \E f : Flattening(s, f)
<1> DEFINE G(n, f) == f = [i \in 1..n |-> IF i = 1 THEN s[i] ELSE f[i - 1] \o s[i]]
           P == {n \in Nat : \E f : G(n, f)}
<1>1. 0 \in P
  <2>1. G(0, [i \in 1..0 |-> 0])
    OBVIOUS
  <2> QED BY <2>1
<1>2. ASSUME NEW n \in Nat, n \in P PROVE n + 1 \in P
  <2>1. PICK f : G(n, f)
    BY <1>2
  <2> DEFINE e == [i \in 1..(n + 1) |->
                     IF i <= n THEN f[i] ELSE IF i = 1 THEN s[i] ELSE f[i - 1] \o s[i]]
  <2>2. \A i \in 1..n : f[i] = IF i = 1 THEN s[i] ELSE f[i - 1] \o s[i]
    BY <2>1
  <2>3. \A i \in 1..(n + 1) : e[i] = IF i = 1 THEN s[i] ELSE e[i - 1] \o s[i]
    <3> TAKE i \in 1..(n + 1)
    <3>1. CASE i = 1
      BY <3>1, <2>2
    <3>2. CASE i # 1
      <4>1. i - 1 \in 1..(n + 1) /\ i - 1 <= n
        BY <3>2
      <4>2. e[i - 1] = f[i - 1]
        BY <4>1
      <4>3. e[i] = f[i - 1] \o s[i]
        <5>1. CASE i <= n
          <6>1. i \in 1..n
            BY <5>1
          <6>2. f[i] = f[i - 1] \o s[i]
            BY <2>2, <3>2, <6>1
          <6> QED BY <5>1, <6>2
        <5>2. CASE ~(i <= n)
          BY <3>2, <5>2
        <5> QED BY <5>1, <5>2
      <4> QED BY <3>2, <4>2, <4>3
    <3> QED BY <3>1, <3>2
  <2>4. G(n + 1, e)
    <3>1. e = [i \in 1..(n + 1) |-> e[i]]
      OBVIOUS
    <3> HIDE DEF e
    <3>2. [i \in 1..(n + 1) |-> e[i]]
            = [i \in 1..(n + 1) |-> IF i = 1 THEN s[i] ELSE e[i - 1] \o s[i]]
      BY <2>3
    <3> QED BY <3>1, <3>2
  <2>5. \E g : G(n + 1, g)
    <3> HIDE DEF e, G
    <3> QED BY <2>4
  <2> HIDE DEF G
  <2> QED BY <2>5
<1>3. Nat \subseteq P
  <2> HIDE DEF P
  <2> QED BY <1>1, <1>2, NatSetInduction
<1>4. \E f : G(Len(s), f)
  BY <1>3
<1> QED BY <1>4 DEF Flattening

\* FlattenSeq takes its value from that function.
LEMMA FlattenValue ==
  ASSUME NEW s, Len(s) \in Nat \ {0}
  PROVE  \E f : Flattening(s, f) /\ FlattenSeq(s) = f[Len(s)]
<1> DEFINE f == CHOOSE f : Flattening(s, f)
<1>1. Flattening(s, f)
  BY FlatteningExists
<1>2. FlattenSeq(s) = f[Len(s)]
  BY DEF FlattenSeq, Flattening
<1> QED BY <1>1, <1>2


Bytes == Seq(Nat)

\* Concatenation of byte strings: its unit, its length, its associativity.
LEMMA BytesFacts ==
  /\ <<>> \in Bytes
  /\ \A a \in Bytes : a \o <<>> = a /\ <<>> \o a = a /\ Len(a) \in Nat
  /\ \A a, b \in Bytes : a \o b \in Bytes /\ Len(a \o b) = Len(a) + Len(b)
  /\ \A a, b, c \in Bytes : (a \o b) \o c = a \o (b \o c)
BY EmptySeq, ConcatEmptySeq, LenProperties, ConcatProperties, ConcatAssociative, SMTT(30) DEF Bytes

\* Its associativity on its own.
LEMMA BytesAssoc ==
  ASSUME NEW a \in Bytes, NEW b \in Bytes, NEW c \in Bytes
  PROVE  (a \o b) \o c = a \o (b \o c)
BY BytesFacts, Zenon

\* Nothing flattens to nothing.
LEMMA FlattenEmpty == FlattenSeq(<<>>) = <<>>
BY DEF FlattenSeq

\* Byte strings flatten to a byte string.
LEMMA FlattenType ==
  ASSUME NEW s \in Seq(Bytes)
  PROVE  FlattenSeq(s) \in Bytes
<1>1. CASE Len(s) = 0
  <2>1. s = <<>>
    BY <1>1
  <2>2. <<>> \in Bytes
    BY DEF Bytes
  <2> QED BY <2>1, <2>2, FlattenEmpty
<1>2. CASE Len(s) # 0
  <2>1. Len(s) \in Nat \ {0}
    BY <1>2
  <2>2. PICK f : Flattening(s, f) /\ FlattenSeq(s) = f[Len(s)]
    BY <2>1, FlattenValue
  <2>3. \A i \in 1..Len(s) : f[i] = IF i = 1 THEN s[i] ELSE f[i - 1] \o s[i]
    BY <2>2 DEF Flattening
  <2> DEFINE P == {i \in Nat : i \in 1..Len(s) => f[i] \in Bytes}
  <2>4. 0 \in P
    OBVIOUS
  <2>5. ASSUME NEW n \in Nat, n \in P PROVE n + 1 \in P
    <3> SUFFICES ASSUME n + 1 \in 1..Len(s) PROVE f[n + 1] \in Bytes
      OBVIOUS
    <3>1. s[n + 1] \in Bytes
      OBVIOUS
    <3>2. CASE n = 0
      BY <2>3, <3>1, <3>2
    <3>3. CASE n # 0
      <4>1. n \in 1..Len(s) /\ n + 1 # 1 /\ (n + 1) - 1 = n
        BY <3>3
      <4>2. f[n + 1] = f[n] \o s[n + 1]
        BY <2>3, <4>1
      <4>3. f[n] \in Bytes
        BY <2>5, <4>1
      <4> QED BY <3>1, <4>2, <4>3, ConcatProperties DEF Bytes
    <3> QED BY <3>2, <3>3
  <2>6. Nat \subseteq P
    <3> HIDE DEF P
    <3> QED BY <2>4, <2>5, NatSetInduction
  <2> QED BY <2>1, <2>2, <2>6
<1> QED BY <1>1, <1>2

\* One more string adds its bytes at the end.
LEMMA FlattenAppend ==
  ASSUME NEW s \in Seq(Bytes), NEW x \in Bytes
  PROVE  FlattenSeq(Append(s, x)) = FlattenSeq(s) \o x
<1> DEFINE t == Append(s, x)
           n == Len(s)
<1>1. /\ t \in Seq(Bytes) /\ Len(t) = n + 1 /\ n \in Nat
      /\ \A i \in 1..n : t[i] = s[i]
      /\ t[n + 1] = x
  BY AppendProperties
<1> HIDE DEF t
<1>2. PICK g : Flattening(t, g) /\ FlattenSeq(t) = g[n + 1]
  <2>1. Len(t) \in Nat \ {0}
    BY <1>1
  <2> QED BY <2>1, <1>1, FlattenValue
<1>3. \A i \in 1..(n + 1) : g[i] = IF i = 1 THEN t[i] ELSE g[i - 1] \o t[i]
  BY <1>1, <1>2 DEF Flattening
<1>4. CASE n = 0
  <2>1. s = <<>>
    BY <1>4
  <2>2. FlattenSeq(s) = <<>>
    BY <2>1, FlattenEmpty
  <2>3. FlattenSeq(t) = x
    BY <1>1, <1>2, <1>3, <1>4
  <2>4. <<>> \o x = x
    BY ConcatEmptySeq DEF Bytes
  <2> QED BY <2>2, <2>3, <2>4 DEF t
<1>5. CASE n # 0
  <2>1. n \in Nat \ {0}
    BY <1>1, <1>5
  <2>2. PICK f : Flattening(s, f) /\ FlattenSeq(s) = f[n]
    BY <2>1, FlattenValue
  <2>3. \A i \in 1..n : f[i] = IF i = 1 THEN s[i] ELSE f[i - 1] \o s[i]
    BY <2>2 DEF Flattening
  <2> HIDE DEF n
  <2> DEFINE P == {i \in Nat : i \in 1..n => f[i] = g[i]}
  <2>4. 0 \in P
    BY <1>1
  <2>5. ASSUME NEW k \in Nat, k \in P PROVE k + 1 \in P
    <3> SUFFICES ASSUME k + 1 \in 1..n PROVE f[k + 1] = g[k + 1]
      OBVIOUS
    <3>1. t[k + 1] = s[k + 1] /\ k + 1 \in 1..(n + 1)
      BY <1>1
    <3>2. CASE k = 0
      BY <2>3, <1>3, <3>1, <3>2
    <3>3. CASE k # 0
      <4>1. k \in 1..n /\ k + 1 # 1 /\ (k + 1) - 1 = k
        BY <3>3, <1>1
      <4>2. f[k] = g[k]
        BY <2>5, <4>1
      <4>3. f[k + 1] = f[k] \o s[k + 1]
        BY <2>3, <4>1
      <4>4. g[k + 1] = g[k] \o t[k + 1]
        BY <1>3, <4>1, <3>1
      <4> QED BY <3>1, <4>2, <4>3, <4>4
    <3> QED BY <3>2, <3>3
  <2>6. Nat \subseteq P
    <3> HIDE DEF P
    <3> QED BY <2>4, <2>5, NatSetInduction
  <2>7. f[n] = g[n]
    BY <2>1, <2>6
  <2>8. n + 1 \in 1..(n + 1) /\ n + 1 # 1 /\ (n + 1) - 1 = n
    BY <2>1
  <2>9. g[n + 1] = g[n] \o x
    BY <1>1, <1>3, <2>8
  <2> QED BY <1>2, <2>2, <2>7, <2>9 DEF t
<1> QED BY <1>4, <1>5

\* A prefix grows by its next element.
LEMMA PrefixGrows ==
  ASSUME NEW S, NEW t \in Seq(S), NEW k \in 0..(Len(t) - 1)
  PROVE  /\ SubSeq(t, 1, k) \in Seq(S)
         /\ t[k + 1] \in S
         /\ SubSeq(t, 1, k + 1) = Append(SubSeq(t, 1, k), t[k + 1])
<1>1. k + 1 \in 1..Len(t) /\ 1 \in 1..Len(t) /\ k + 1 \in 1..Len(t) /\ (k + 1) - 1 = k
  OBVIOUS
<1>2. SubSeq(t, 1, k + 1) = SubSeq(t, 1, k) \o <<t[k + 1]>>
  BY <1>1, SubSeqRecursiveSecond
<1>3. SubSeq(t, 1, k) \in Seq(S)
  <2>1. \A i \in 1..k : t[i] \in S
    OBVIOUS
  <2> QED BY <2>1, SubSeqProperties
<1>4. t[k + 1] \in S
  BY <1>1
<1>5. Append(SubSeq(t, 1, k), t[k + 1]) = SubSeq(t, 1, k) \o <<t[k + 1]>>
  BY <1>3, <1>4, AppendIsConcat
<1> QED BY <1>2, <1>3, <1>4, <1>5

\* Flattening distributes over concatenation.
LEMMA FlattenConcat ==
  ASSUME NEW s \in Seq(Bytes), NEW t \in Seq(Bytes)
  PROVE  FlattenSeq(s \o t) = FlattenSeq(s) \o FlattenSeq(t)
<1> DEFINE u(k) == SubSeq(t, 1, k)
           P == {k \in Nat : k <= Len(t) =>
                   FlattenSeq(s \o u(k)) = FlattenSeq(s) \o FlattenSeq(u(k))}
<1>1. 0 \in P
  <2>1. u(0) = <<>>
    BY SubSeqEmpty
  <2>2. s \o <<>> = s
    BY ConcatEmptySeq
  <2>3. FlattenSeq(s) \o <<>> = FlattenSeq(s)
    BY FlattenType, ConcatEmptySeq DEF Bytes
  <2> QED BY <2>1, <2>2, <2>3, FlattenEmpty
<1>2. ASSUME NEW k \in Nat, k \in P PROVE k + 1 \in P
  <2> SUFFICES ASSUME k + 1 <= Len(t)
               PROVE  FlattenSeq(s \o u(k + 1)) = FlattenSeq(s) \o FlattenSeq(u(k + 1))
    OBVIOUS
  <2>1. /\ u(k) \in Seq(Bytes)
        /\ t[k + 1] \in Bytes
        /\ u(k + 1) = Append(u(k), t[k + 1])
    BY PrefixGrows
  <2>2. FlattenSeq(s \o u(k)) = FlattenSeq(s) \o FlattenSeq(u(k))
    BY <1>2
  <2> HIDE DEF u
  <2>3. s \o Append(u(k), t[k + 1]) = Append(s \o u(k), t[k + 1]) /\ s \o u(k) \in Seq(Bytes)
    <3> DEFINE v == u(k)
               x == t[k + 1]
    <3>1. v \in Seq(Bytes) /\ x \in Bytes /\ s \o v \in Seq(Bytes)
      BY <2>1, ConcatProperties
    <3> HIDE DEF v, x
    <3>2. Append(v, x) = v \o <<x>> /\ Append(s \o v, x) = (s \o v) \o <<x>>
      BY <3>1, AppendIsConcat
    <3>3. <<x>> \in Seq(Bytes)
      BY <3>1
    <3>4. (s \o v) \o <<x>> = s \o (v \o <<x>>)
      BY <3>1, <3>3, ConcatAssociative, SMTT(30)
    <3>5. s \o Append(v, x) = Append(s \o v, x)
      BY <3>2, <3>4
    <3> QED BY <3>1, <3>5 DEF v, x
  <2>4. FlattenSeq(s \o u(k + 1)) = FlattenSeq(s \o u(k)) \o t[k + 1]
    BY <2>1, <2>3, FlattenAppend
  <2>5. FlattenSeq(u(k + 1)) = FlattenSeq(u(k)) \o t[k + 1]
    BY <2>1, FlattenAppend
  <2>6. FlattenSeq(s) \in Bytes /\ FlattenSeq(u(k)) \in Bytes
    BY <2>1, FlattenType
  <2>7. (FlattenSeq(s) \o FlattenSeq(u(k))) \o t[k + 1]
          = FlattenSeq(s) \o (FlattenSeq(u(k)) \o t[k + 1])
    BY <2>1, <2>6, BytesFacts
  <2> QED BY <2>2, <2>4, <2>5, <2>7
<1>3. Nat \subseteq P
  <2> HIDE DEF P
  <2> QED BY <1>1, <1>2, NatSetInduction
<1>4. u(Len(t)) = t
  BY SubSeqFull
<1>5. Len(t) \in P
  BY <1>3
<1>6. FlattenSeq(s \o u(Len(t))) = FlattenSeq(s) \o FlattenSeq(u(Len(t)))
  BY <1>5
<1> HIDE DEF u
<1> QED BY <1>4, <1>6

\* One string is its own flattening.
LEMMA FlattenOne ==
  ASSUME NEW x \in Bytes
  PROVE  FlattenSeq(<<x>>) = x
<1>1. <<>> \in Seq(Bytes) /\ Append(<<>>, x) = <<x>>
  OBVIOUS
<1>2. FlattenSeq(<<x>>) = <<>> \o x
  BY <1>1, FlattenAppend, FlattenEmpty
<1> QED BY <1>2, BytesFacts

\* A list of byte sequences cut in two.
LEMMA Halves ==
  ASSUME NEW s \in Seq(Bytes), NEW k \in 0..Len(s)
  PROVE  /\ SubSeq(s, 1, k) \in Seq(Bytes) /\ Len(SubSeq(s, 1, k)) = k
         /\ SubSeq(s, k + 1, Len(s)) \in Seq(Bytes)
         /\ Len(SubSeq(s, k + 1, Len(s))) = Len(s) - k
         /\ \A i \in 1..k : SubSeq(s, 1, k)[i] = s[i]
         /\ \A i \in 1..(Len(s) - k) : SubSeq(s, k + 1, Len(s))[i] = s[k + i]
         /\ SubSeq(s, 1, k) \o SubSeq(s, k + 1, Len(s)) = s
<1>1. Len(s) \in Nat /\ \A i \in 1..Len(s) : s[i] \in Bytes
  OBVIOUS
<1>2. /\ SubSeq(s, 1, k) \in Seq(Bytes) /\ Len(SubSeq(s, 1, k)) = k
      /\ \A i \in 1..k : SubSeq(s, 1, k)[i] = s[i]
  <2>1. \A i \in 1..k : s[i] \in Bytes
    BY <1>1
  <2> QED BY <2>1
<1>3. /\ SubSeq(s, k + 1, Len(s)) \in Seq(Bytes)
      /\ Len(SubSeq(s, k + 1, Len(s))) = Len(s) - k
      /\ \A i \in 1..(Len(s) - k) : SubSeq(s, k + 1, Len(s))[i] = s[k + i]
  <2>1. \A i \in (k + 1)..Len(s) : s[i] \in Bytes
    BY <1>1
  <2> QED BY <2>1
<1>4. SubSeq(s, 1, k) \o SubSeq(s, k + 1, Len(s)) = SubSeq(s, 1, Len(s))
  <2>1. 1 \in 1..(Len(s) + 1) /\ k \in (1 - 1)..Len(s) /\ Len(s) \in k..Len(s)
    BY <1>1
  <2> QED BY <2>1, ConcatAdjacentSubSeq
<1>5. SubSeq(s, 1, Len(s)) = s
  BY SubSeqFull
<1> QED BY <1>2, <1>3, <1>4, <1>5

\* The bytes of the first k.
Prefix(s, k) == FlattenSeq(SubSeq(s, 1, k))
Suffix(s, k) == FlattenSeq(SubSeq(s, k + 1, Len(s)))

\* A sequence flattens to what its first k strings and the others flatten to.
LEMMA FlattenCut ==
  ASSUME NEW s \in Seq(Bytes), NEW k \in 0..Len(s)
  PROVE  /\ Prefix(s, k) \in Bytes /\ Suffix(s, k) \in Bytes
         /\ FlattenSeq(s) = Prefix(s, k) \o Suffix(s, k)
         /\ Len(FlattenSeq(s)) = Len(Prefix(s, k)) + Len(Suffix(s, k))
<1> DEFINE a == SubSeq(s, 1, k)
           b == SubSeq(s, k + 1, Len(s))
<1>1. a \in Seq(Bytes) /\ b \in Seq(Bytes) /\ a \o b = s
  BY Halves
<1> HIDE DEF a, b
<1>2. FlattenSeq(s) = FlattenSeq(a) \o FlattenSeq(b)
  BY <1>1, FlattenConcat
<1>3. FlattenSeq(a) \in Bytes /\ FlattenSeq(b) \in Bytes
  BY <1>1, FlattenType
<1> QED BY <1>2, <1>3, BytesFacts DEF a, b, Prefix, Suffix

\* The first k + 1 strings hold the bytes of the first k and of the next.
LEMMA PrefixNext ==
  ASSUME NEW s \in Seq(Bytes), NEW k \in 0..(Len(s) - 1)
  PROVE  /\ Prefix(s, k) \in Bytes /\ s[k + 1] \in Bytes
         /\ Prefix(s, k + 1) = Prefix(s, k) \o s[k + 1]
         /\ Len(Prefix(s, k + 1)) = Len(Prefix(s, k)) + Len(s[k + 1])
<1>1. /\ SubSeq(s, 1, k) \in Seq(Bytes) /\ s[k + 1] \in Bytes
      /\ SubSeq(s, 1, k + 1) = Append(SubSeq(s, 1, k), s[k + 1])
  BY PrefixGrows
<1>2. Prefix(s, k + 1) = Prefix(s, k) \o s[k + 1]
  BY <1>1, FlattenAppend DEF Prefix
<1>3. Prefix(s, k) \in Bytes
  BY <1>1, FlattenType DEF Prefix
<1> QED BY <1>1, <1>2, <1>3, BytesFacts

\* None of the strings, and all of them.
LEMMA PrefixEnds ==
  ASSUME NEW s \in Seq(Bytes)
  PROVE  /\ Prefix(s, 0) = <<>> /\ Suffix(s, 0) = FlattenSeq(s)
         /\ Prefix(s, Len(s)) = FlattenSeq(s) /\ Suffix(s, Len(s)) = <<>>
<1>1. SubSeq(s, 1, 0) = <<>> /\ SubSeq(s, Len(s) + 1, Len(s)) = <<>>
  BY SubSeqEmpty
<1>2. SubSeq(s, 1, Len(s)) = s /\ SubSeq(s, 0 + 1, Len(s)) = s
  BY SubSeqFull
<1> QED BY <1>1, <1>2, FlattenEmpty DEF Prefix, Suffix

\* One element taken out of the middle.
LEMMA FlattenAt ==
  ASSUME NEW s \in Seq(Bytes), NEW p \in 1..Len(s)
  PROVE  /\ Prefix(s, p - 1) \in Bytes /\ s[p] \in Bytes /\ Suffix(s, p) \in Bytes
         /\ FlattenSeq(s) = Prefix(s, p - 1) \o (s[p] \o Suffix(s, p))
         /\ Len(s[p]) <= Len(FlattenSeq(s))
<1>1. p \in 0..Len(s) /\ p - 1 \in 0..(Len(s) - 1) /\ (p - 1) + 1 = p
  OBVIOUS
<1>2. /\ Prefix(s, p - 1) \in Bytes /\ s[p] \in Bytes
      /\ Prefix(s, p) = Prefix(s, p - 1) \o s[p]
  BY <1>1, PrefixNext
<1>3. Suffix(s, p) \in Bytes /\ FlattenSeq(s) = Prefix(s, p) \o Suffix(s, p)
  BY <1>1, FlattenCut
<1> DEFINE a == Prefix(s, p - 1)
           b == s[p]
           c == Suffix(s, p)
<1>4. a \in Bytes /\ b \in Bytes /\ c \in Bytes /\ FlattenSeq(s) = (a \o b) \o c
  BY <1>2, <1>3
<1> HIDE DEF a, b, c
<1>5. (a \o b) \o c = a \o (b \o c)
  BY <1>4, BytesFacts
<1>6. Len(a \o (b \o c)) = Len(a) + (Len(b) + Len(c))
  BY <1>4, BytesFacts
<1>7. Len(a) \in Nat /\ Len(b) \in Nat /\ Len(c) \in Nat
  BY <1>4, BytesFacts
<1>8. Len(b) <= Len(FlattenSeq(s))
  BY <1>4, <1>5, <1>6, <1>7
<1> QED BY <1>4, <1>5, <1>8 DEF a, b, c

\* The last element grows.
LEMMA FlattenLast ==
  ASSUME NEW s \in Seq(Bytes), s # <<>>, NEW x \in Bytes, NEW t \in Seq(Bytes),
         Len(t) = Len(s), t[Len(s)] = s[Len(s)] \o x,
         \A i \in 1..(Len(s) - 1) : t[i] = s[i]
  PROVE  FlattenSeq(t) = FlattenSeq(s) \o x
<1> DEFINE n == Len(s)
<1>1. n \in Nat \ {0} /\ n - 1 \in 0..(n - 1) /\ (n - 1) + 1 = n
  OBVIOUS
<1>2. SubSeq(t, 1, n - 1) = SubSeq(s, 1, n - 1)
  <2>1. /\ SubSeq(t, 1, n - 1) \in Seq(Bytes) /\ Len(SubSeq(t, 1, n - 1)) = n - 1
        /\ \A i \in 1..(n - 1) : SubSeq(t, 1, n - 1)[i] = t[i]
    BY <1>1, Halves
  <2>2. /\ SubSeq(s, 1, n - 1) \in Seq(Bytes) /\ Len(SubSeq(s, 1, n - 1)) = n - 1
        /\ \A i \in 1..(n - 1) : SubSeq(s, 1, n - 1)[i] = s[i]
    BY <1>1, Halves
  <2> QED BY <2>1, <2>2, SeqEqual
<1> DEFINE a == Prefix(s, n - 1)
           b == s[n]
<1>3. a \in Bytes /\ b \in Bytes /\ FlattenSeq(s) = a \o b
  <2>1. Prefix(s, n) = FlattenSeq(s)
    BY PrefixEnds
  <2> QED BY <1>1, <2>1, PrefixNext
<1>4. FlattenSeq(t) = a \o (b \o x)
  <2>1. Prefix(t, n) = FlattenSeq(t)
    BY PrefixEnds
  <2>2. Prefix(t, n) = Prefix(t, n - 1) \o t[n]
    BY <1>1, PrefixNext
  <2>3. Prefix(t, n - 1) = Prefix(s, n - 1)
    BY <1>2 DEF Prefix
  <2> QED BY <2>1, <2>2, <2>3
<1> HIDE DEF a, b
<1>5. (a \o b) \o x = a \o (b \o x)
  BY <1>3, BytesFacts
<1> QED BY <1>3, <1>4, <1>5

\* Sequences that agree at every place are equal.
LEMMA ExtEqual ==
  ASSUME NEW s \in Seq(Bytes), NEW t \in Seq(Bytes), Len(t) = Len(s),
         NEW k \in 0..Len(s)
  PROVE  /\ (\A i \in 1..k : t[i] = s[i]) => Prefix(t, k) = Prefix(s, k)
         /\ (\A i \in (k + 1)..Len(s) : t[i] = s[i]) => Suffix(t, k) = Suffix(s, k)
<1> DEFINE n == Len(s)
<1>1. /\ SubSeq(t, 1, k) \in Seq(Bytes) /\ Len(SubSeq(t, 1, k)) = k
      /\ \A i \in 1..k : SubSeq(t, 1, k)[i] = t[i]
      /\ SubSeq(t, k + 1, n) \in Seq(Bytes) /\ Len(SubSeq(t, k + 1, n)) = n - k
      /\ \A i \in 1..(n - k) : SubSeq(t, k + 1, n)[i] = t[k + i]
  BY Halves
<1>2. /\ SubSeq(s, 1, k) \in Seq(Bytes) /\ Len(SubSeq(s, 1, k)) = k
      /\ \A i \in 1..k : SubSeq(s, 1, k)[i] = s[i]
      /\ SubSeq(s, k + 1, n) \in Seq(Bytes) /\ Len(SubSeq(s, k + 1, n)) = n - k
      /\ \A i \in 1..(n - k) : SubSeq(s, k + 1, n)[i] = s[k + i]
  BY Halves
<1>3. ASSUME \A i \in 1..k : t[i] = s[i] PROVE Prefix(t, k) = Prefix(s, k)
  <2>1. SubSeq(t, 1, k) = SubSeq(s, 1, k)
    BY <1>1, <1>2, <1>3, SeqEqual
  <2> QED BY <2>1 DEF Prefix
<1>4. ASSUME \A i \in (k + 1)..n : t[i] = s[i] PROVE Suffix(t, k) = Suffix(s, k)
  <2>0. n \in Nat
    OBVIOUS
  <2>1. \A i \in 1..(n - k) : SubSeq(t, k + 1, n)[i] = SubSeq(s, k + 1, n)[i]
    BY <1>1, <1>2, <1>4, <2>0
  <2>2. SubSeq(t, k + 1, n) = SubSeq(s, k + 1, n)
    BY <1>1, <1>2, <2>1, SeqEqual
  <2> QED BY <2>2 DEF Suffix
<1> QED BY <1>3, <1>4

\* Bytes move between two neighbours.
LEMMA FlattenMove ==
  ASSUME NEW s \in Seq(Bytes), NEW t \in Seq(Bytes), Len(t) = Len(s),
         NEW p \in 1..(Len(s) - 1),
         \A i \in 1..Len(s) : i # p /\ i # p + 1 => t[i] = s[i],
         t[p] \o t[p + 1] = s[p] \o s[p + 1]
  PROVE  FlattenSeq(t) = FlattenSeq(s)
<1> DEFINE n == Len(s)
<1>1. /\ n \in Nat /\ p - 1 \in 0..(n - 1) /\ p \in 0..(n - 1) /\ p + 1 \in 0..n
      /\ (p - 1) + 1 = p
  OBVIOUS
<1>2. Prefix(t, p - 1) = Prefix(s, p - 1)
  <2>1. \A i \in 1..(p - 1) : t[i] = s[i]
    OBVIOUS
  <2> QED BY <1>1, <2>1, ExtEqual
<1>3. Suffix(t, p + 1) = Suffix(s, p + 1)
  <2>1. \A i \in ((p + 1) + 1)..n : t[i] = s[i]
    OBVIOUS
  <2> QED BY <1>1, <2>1, ExtEqual
<1>4. ASSUME NEW u \in Seq(Bytes), Len(u) = n
      PROVE  FlattenSeq(u) = (Prefix(u, p - 1) \o (u[p] \o u[p + 1])) \o Suffix(u, p + 1)
  <2>1. /\ Prefix(u, p - 1) \in Bytes /\ u[p] \in Bytes
        /\ Prefix(u, p) = Prefix(u, p - 1) \o u[p]
    BY <1>1, <1>4, PrefixNext
  <2>2. u[p + 1] \in Bytes /\ Prefix(u, p + 1) = Prefix(u, p) \o u[p + 1]
    BY <1>1, <1>4, PrefixNext
  <2>3. FlattenSeq(u) = Prefix(u, p + 1) \o Suffix(u, p + 1)
    BY <1>1, <1>4, FlattenCut
  <2> DEFINE a == Prefix(u, p - 1)
             b == u[p]
             c == u[p + 1]
  <2>4. a \in Bytes /\ b \in Bytes /\ c \in Bytes /\ Prefix(u, p + 1) = (a \o b) \o c
    BY <2>1, <2>2
  <2> HIDE DEF a, b, c
  <2>5. Prefix(u, p + 1) = a \o (b \o c)
    BY <2>4, BytesFacts
  <2> QED BY <2>3, <2>5 DEF a, b, c
<1>5. FlattenSeq(s) = (Prefix(s, p - 1) \o (s[p] \o s[p + 1])) \o Suffix(s, p + 1)
  BY <1>4
<1>6. FlattenSeq(t) = (Prefix(t, p - 1) \o (t[p] \o t[p + 1])) \o Suffix(t, p + 1)
  BY <1>4
<1> QED BY <1>2, <1>3, <1>5, <1>6

\* An element without bytes goes.
LEMMA FlattenDrop ==
  ASSUME NEW s \in Seq(Bytes), NEW p \in 1..Len(s), s[p] = <<>>
  PROVE  FlattenSeq(RemoveAt(s, p)) = FlattenSeq(s)
<1> DEFINE a == SubSeq(s, 1, p - 1)
           b == SubSeq(s, p + 1, Len(s))
<1>1. p \in 0..Len(s) /\ p - 1 \in 0..Len(s)
  OBVIOUS
<1>2. a \in Seq(Bytes) /\ b \in Seq(Bytes)
  BY <1>1, Halves
<1>3. RemoveAt(s, p) = a \o b
  BY DEF RemoveAt
<1>4. FlattenSeq(s) = FlattenSeq(a) \o (<<>> \o FlattenSeq(b))
  BY FlattenAt DEF Prefix, Suffix
<1> HIDE DEF a, b
<1>5. FlattenSeq(b) \in Bytes
  BY <1>2, FlattenType
<1>6. FlattenSeq(a \o b) = FlattenSeq(a) \o FlattenSeq(b)
  BY <1>2, FlattenConcat
<1> QED BY <1>3, <1>4, <1>5, <1>6, BytesFacts

\* n bytes of the stream after the first lo.
Interval(lo, n) == [i \in 1..n |-> lo + i]

\* An interval of the stream as a byte string.
LEMMA IntervalFacts ==
  ASSUME NEW lo \in Nat, NEW n \in Nat
  PROVE  /\ Interval(lo, n) \in Bytes
         /\ Len(Interval(lo, n)) = n
         /\ \A i \in 1..n : Interval(lo, n)[i] = lo + i
BY DEF Interval, Bytes

\* Two intervals of which the second goes on where the first ends.
LEMMA IntervalJoin ==
  ASSUME NEW lo \in Nat, NEW n \in Nat, NEW m \in Nat
  PROVE  Interval(lo, n) \o Interval(lo + n, m) = Interval(lo, n + m)
<1> DEFINE a == Interval(lo, n)
           b == Interval(lo + n, m)
           c == Interval(lo, n + m)
<1>1. a \in Seq(Nat) /\ Len(a) = n /\ \A i \in 1..n : a[i] = lo + i
  BY IntervalFacts DEF Bytes
<1>2. b \in Seq(Nat) /\ Len(b) = m /\ \A i \in 1..m : b[i] = (lo + n) + i
  <2>1. lo + n \in Nat
    OBVIOUS
  <2> QED BY <2>1, IntervalFacts DEF Bytes
<1>3. c \in Seq(Nat) /\ Len(c) = n + m /\ \A i \in 1..(n + m) : c[i] = lo + i
  BY IntervalFacts DEF Bytes
<1> HIDE DEF a, b, c
<1>4. /\ a \o b \in Seq(Nat) /\ Len(a \o b) = n + m
      /\ \A i \in 1..(n + m) : (a \o b)[i] = IF i <= n THEN a[i] ELSE b[i - n]
  BY <1>1, <1>2, ConcatProperties
<1>5. ASSUME NEW i \in 1..(n + m) PROVE (a \o b)[i] = c[i]
  <2>1. CASE i <= n
    BY <1>1, <1>3, <1>4, <2>1
  <2>2. CASE ~(i <= n)
    <3>1. i - n \in 1..m /\ (lo + n) + (i - n) = lo + i
      BY <2>2
    <3> QED BY <1>2, <1>3, <1>4, <2>2, <3>1
  <2> QED BY <2>1, <2>2
<1>6. a \o b = c
  BY <1>3, <1>4, <1>5, SeqEqual
<1> QED BY <1>6 DEF a, b, c

\* x and y together are the n bytes behind lo.
Joins(x, y, lo, n) == x \o y = Interval(lo, n)

\* The two parts of an interval are intervals.
LEMMA IntervalSplit ==
  ASSUME NEW lo \in Nat, NEW n \in Nat, NEW a \in Bytes, NEW b \in Bytes,
         Joins(a, b, lo, n)
  PROVE  /\ Len(a) + Len(b) = n
         /\ a = Interval(lo, Len(a))
         /\ b = Interval(lo + Len(a), Len(b))
<1>0. a \o b = Interval(lo, n)
  BY DEF Joins
<1>1. a \in Seq(Nat) /\ b \in Seq(Nat) /\ Len(a) \in Nat /\ Len(b) \in Nat
  BY DEF Bytes
<1>2. /\ Len(a) + Len(b) = n
      /\ \A i \in 1..n : lo + i = IF i <= Len(a) THEN a[i] ELSE b[i - Len(a)]
  <2>1. /\ Len(a \o b) = Len(a) + Len(b)
        /\ \A i \in 1..(Len(a) + Len(b)) : (a \o b)[i] = IF i <= Len(a) THEN a[i] ELSE b[i - Len(a)]
    BY <1>1, ConcatProperties
  <2>2. Len(Interval(lo, n)) = n /\ \A i \in 1..n : Interval(lo, n)[i] = lo + i
    BY IntervalFacts
  <2> QED BY <1>0, <2>1, <2>2
<1>3. a = Interval(lo, Len(a))
  <2> DEFINE c == Interval(lo, Len(a))
  <2>1. c \in Seq(Nat) /\ Len(c) = Len(a) /\ \A i \in 1..Len(a) : c[i] = lo + i
    BY <1>1, IntervalFacts DEF Bytes
  <2> HIDE DEF c
  <2>2. \A i \in 1..Len(a) : a[i] = c[i]
    BY <1>1, <1>2, <2>1
  <2>3. a = c
    BY <1>1, <2>1, <2>2, SeqEqual
  <2> QED BY <2>3 DEF c
<1>4. b = Interval(lo + Len(a), Len(b))
  <2> DEFINE c == Interval(lo + Len(a), Len(b))
  <2>1. c \in Seq(Nat) /\ Len(c) = Len(b) /\ \A i \in 1..Len(b) : c[i] = (lo + Len(a)) + i
    <3>1. lo + Len(a) \in Nat
      BY <1>1
    <3> QED BY <1>1, <3>1, IntervalFacts DEF Bytes
  <2> HIDE DEF c
  <2>2. ASSUME NEW i \in 1..Len(b) PROVE b[i] = c[i]
    <3>1. /\ Len(a) + i \in 1..n /\ ~(Len(a) + i <= Len(a)) /\ (Len(a) + i) - Len(a) = i
          /\ lo + (Len(a) + i) = (lo + Len(a)) + i
      BY <1>1, <1>2, SMTT(30)
    <3> QED BY <1>2, <2>1, <3>1
  <2>3. b = c
    BY <1>1, <2>1, <2>2, SeqEqual
  <2> QED BY <2>3 DEF c
<1> QED BY <1>2, <1>3, <1>4

\* The first k and the other bytes of a sequence.
LEMMA BytesCut ==
  ASSUME NEW s \in Bytes, NEW k \in 0..Len(s)
  PROVE  /\ SubSeq(s, 1, k) \in Bytes /\ Len(SubSeq(s, 1, k)) = k
         /\ SubSeq(s, k + 1, Len(s)) \in Bytes /\ Len(SubSeq(s, k + 1, Len(s))) = Len(s) - k
         /\ SubSeq(s, 1, k) \o SubSeq(s, k + 1, Len(s)) = s
<1>1. s \in Seq(Nat) /\ Len(s) \in Nat /\ \A i \in 1..Len(s) : s[i] \in Nat
  BY DEF Bytes
<1>2. SubSeq(s, 1, k) \in Seq(Nat) /\ Len(SubSeq(s, 1, k)) = k
  <2>1. \A i \in 1..k : s[i] \in Nat
    BY <1>1
  <2> QED BY <1>1, <2>1
<1>3. /\ SubSeq(s, k + 1, Len(s)) \in Seq(Nat)
      /\ Len(SubSeq(s, k + 1, Len(s))) = Len(s) - k
  <2>1. \A i \in (k + 1)..Len(s) : s[i] \in Nat
    BY <1>1
  <2> QED BY <1>1, <2>1
<1>4. SubSeq(s, 1, k) \o SubSeq(s, k + 1, Len(s)) = SubSeq(s, 1, Len(s))
  <2>1. 1 \in 1..(Len(s) + 1) /\ k \in (1 - 1)..Len(s) /\ Len(s) \in k..Len(s)
    BY <1>1
  <2> QED BY <1>1, <2>1, ConcatAdjacentSubSeq
<1>5. SubSeq(s, 1, Len(s)) = s
  BY <1>1, SubSeqFull
<1> QED BY <1>2, <1>3, <1>4, <1>5 DEF Bytes

\* The bytes of F behind the first lo, up to the hi-th.
Slice(F, lo, hi) == SubSeq(F, lo + 1, hi)

\* A slice as a byte string.
LEMMA SliceFacts ==
  ASSUME NEW F \in Bytes, NEW lo \in Nat, NEW hi \in Nat, hi <= Len(F)
  PROVE  /\ Slice(F, lo, hi) \in Bytes
         /\ Len(Slice(F, lo, hi)) = IF lo <= hi THEN hi - lo ELSE 0
         /\ hi <= lo => Slice(F, lo, hi) = <<>>
         /\ \A i \in 1..(hi - lo) : Slice(F, lo, hi)[i] = F[lo + i]
<1>1. F \in Seq(Nat) /\ Len(F) \in Nat /\ \A i \in 1..Len(F) : F[i] \in Nat
  BY DEF Bytes
<1>2. lo + 1 \in Int /\ hi \in Int /\ \A i \in (lo + 1)..hi : F[i] \in Nat
  BY <1>1
<1> DEFINE c == SubSeq(F, lo + 1, hi)
<1>3. /\ c \in Seq(Nat)
      /\ Len(c) = IF lo + 1 <= hi THEN hi - (lo + 1) + 1 ELSE 0
      /\ \A i \in 1..(hi - (lo + 1) + 1) : c[i] = F[(lo + 1) + i - 1]
  BY <1>2, SubSeqProperties
<1>4. hi <= lo => c = <<>>
  <2>1. hi <= lo => hi < lo + 1
    OBVIOUS
  <2> QED BY <1>2, <2>1, SubSeqEmpty
<1> HIDE DEF c
<1>5. Len(c) = IF lo <= hi THEN hi - lo ELSE 0
  BY <1>3
<1>6. \A i \in 1..(hi - lo) : c[i] = F[lo + i]
  <2> TAKE i \in 1..(hi - lo)
  <2>1. i \in 1..(hi - (lo + 1) + 1) /\ (lo + 1) + i - 1 = lo + i
    OBVIOUS
  <2> QED BY <1>3, <2>1
<1> QED BY <1>3, <1>4, <1>5, <1>6 DEF c, Slice, Bytes

\* Two adjacent slices.
LEMMA SliceJoin ==
  ASSUME NEW F \in Bytes, NEW a \in Nat, NEW b \in Nat, NEW c \in Nat,
         a <= b, b <= c, c <= Len(F)
  PROVE  Slice(F, a, b) \o Slice(F, b, c) = Slice(F, a, c)
<1>1. F \in Seq(Nat) /\ Len(F) \in Nat
  BY DEF Bytes
<1>2. a + 1 \in 1..(Len(F) + 1) /\ b \in ((a + 1) - 1)..Len(F) /\ c \in b..Len(F)
  BY <1>1
<1>3. SubSeq(F, a + 1, b) \o SubSeq(F, b + 1, c) = SubSeq(F, a + 1, c)
  BY <1>1, <1>2, ConcatAdjacentSubSeq
<1> QED BY <1>3 DEF Slice

\* A slice of an interval is an interval.
LEMMA SliceInterval ==
  ASSUME NEW lo \in Nat, NEW n \in Nat, NEW a \in Nat, NEW b \in Nat, a <= b, b <= n
  PROVE  Slice(Interval(lo, n), a, b) = Interval(lo + a, b - a)
<1> DEFINE F == Interval(lo, n)
           s == Slice(F, a, b)
           c == Interval(lo + a, b - a)
<1>1. F \in Bytes /\ Len(F) = n /\ \A i \in 1..n : F[i] = lo + i
  BY IntervalFacts
<1>2. s \in Bytes /\ Len(s) = b - a /\ \A i \in 1..(b - a) : s[i] = F[a + i]
  BY <1>1, SliceFacts
<1>3. c \in Bytes /\ Len(c) = b - a /\ \A i \in 1..(b - a) : c[i] = (lo + a) + i
  <2>1. lo + a \in Nat /\ b - a \in Nat
    OBVIOUS
  <2> QED BY <2>1, IntervalFacts
<1> HIDE DEF F, s, c
<1>4. ASSUME NEW i \in 1..(b - a) PROVE s[i] = c[i]
  <2>1. a + i \in 1..n /\ lo + (a + i) = (lo + a) + i
    OBVIOUS
  <2> QED BY <1>1, <1>2, <1>3, <2>1
<1>5. s = c
  BY <1>2, <1>3, <1>4, SeqEqual DEF Bytes
<1> QED BY <1>5 DEF F, s, c

\* A slice of one of the parts is a slice of the whole.
LEMMA SliceOfPart ==
  ASSUME NEW s \in Seq(Bytes), NEW k \in 0..(Len(s) - 1), NEW lo \in Nat, NEW hi \in Nat,
         hi <= Len(s[k + 1])
  PROVE  /\ Len(Prefix(s, k)) \in Nat
         /\ Len(Prefix(s, k)) + hi <= Len(FlattenSeq(s))
         /\ Slice(s[k + 1], lo, hi)
              = Slice(FlattenSeq(s), Len(Prefix(s, k)) + lo, Len(Prefix(s, k)) + hi)
<1> DEFINE F == FlattenSeq(s)
           a == Prefix(s, k)
           e == s[k + 1]
           r == Suffix(s, k + 1)
<1>1. F \in Bytes /\ a \in Bytes /\ e \in Bytes /\ r \in Bytes /\ F = a \o (e \o r)
  <2>1. k + 1 \in 1..Len(s) /\ (k + 1) - 1 = k
    OBVIOUS
  <2> QED BY <2>1, FlattenAt, FlattenType
<1> HIDE DEF F, a, e, r
<1>2. /\ Len(F) = Len(a) + (Len(e) + Len(r))
      /\ Len(a) \in Nat /\ Len(e) \in Nat /\ Len(r) \in Nat
  BY <1>1, BytesFacts
<1>3. ASSUME NEW i \in 1..Len(e) PROVE F[Len(a) + i] = e[i]
  <2>1. a \in Seq(Nat) /\ e \in Seq(Nat) /\ r \in Seq(Nat) /\ e \o r \in Seq(Nat)
    BY <1>1 DEF Bytes
  <2>2. (e \o r)[i] = e[i] /\ Len(e \o r) = Len(e) + Len(r)
    BY <2>1, <1>2, ConcatProperties
  <2>3. /\ Len(a) + i \in 1..(Len(a) + Len(e \o r)) /\ ~(Len(a) + i <= Len(a))
        /\ (Len(a) + i) - Len(a) = i
    BY <1>2, <2>2
  <2>4. (a \o (e \o r))[Len(a) + i] = (e \o r)[i]
    BY <2>1, <2>3, ConcatProperties
  <2> QED BY <1>1, <2>2, <2>4
<1>4. hi <= Len(e) /\ Len(a) + hi <= Len(F) /\ Len(a) + lo \in Nat /\ Len(a) + hi \in Nat
  BY <1>2 DEF e
<1> DEFINE x == Slice(e, lo, hi)
           y == Slice(F, Len(a) + lo, Len(a) + hi)
<1>5. /\ x \in Bytes /\ Len(x) = (IF lo <= hi THEN hi - lo ELSE 0)
      /\ \A i \in 1..(hi - lo) : x[i] = e[lo + i]
  <2>1. e \in Bytes /\ hi <= Len(e)
    BY <1>1, <1>4
  <2> QED BY ONLY <2>1, lo \in Nat, hi \in Nat, SliceFacts DEF x
<1>6. /\ y \in Bytes
      /\ Len(y) = (IF Len(a) + lo <= Len(a) + hi THEN (Len(a) + hi) - (Len(a) + lo) ELSE 0)
      /\ \A i \in 1..((Len(a) + hi) - (Len(a) + lo)) : y[i] = F[(Len(a) + lo) + i]
  <2> DEFINE l == Len(a) + lo
             h == Len(a) + hi
  <2>1. F \in Bytes /\ h <= Len(F) /\ l \in Nat /\ h \in Nat
    BY <1>1, <1>4
  <2> HIDE DEF l, h
  <2>2. /\ Slice(F, l, h) \in Bytes
        /\ Len(Slice(F, l, h)) = (IF l <= h THEN h - l ELSE 0)
        /\ \A i \in 1..(h - l) : Slice(F, l, h)[i] = F[l + i]
    BY <2>1, SliceFacts
  <2> QED BY <2>2 DEF l, h
<1> HIDE DEF x, y
<1>7. Len(y) = Len(x) /\ (Len(a) + hi) - (Len(a) + lo) = hi - lo
  BY <1>2, <1>5, <1>6
<1>8. ASSUME NEW i \in 1..Len(x) PROVE x[i] = y[i]
  <2>1. i \in 1..(hi - lo)
    BY <1>5
  <2>2. lo + i \in 1..Len(e) /\ (Len(a) + lo) + i = Len(a) + (lo + i)
    BY <2>1, <1>2, <1>4
  <2>3. x[i] = e[lo + i]
    BY <1>5, <2>1
  <2>4. y[i] = F[(Len(a) + lo) + i]
    BY <1>6, <1>7, <2>1
  <2> QED BY <1>3, <2>2, <2>3, <2>4
<1>9. x = y
  BY <1>5, <1>6, <1>7, <1>8, SeqEqual DEF Bytes
<1> QED BY <1>2, <1>4, <1>9 DEF F, a, e, r, x, y

\* The equations of AddEntries.
LEMMA AddEntriesSteps ==
  ASSUME NEW g, NEW iov, Len(iov) \in Nat
  PROVE  /\ AddEntries(g, iov)[0] = g
         /\ \A i \in 1..Len(iov) : AddEntries(g, iov)[i] = AddEntry(AddEntries(g, iov)[i - 1], iov[i])
<1> DEFINE G(n, f) == f = [i \in 0..n |-> IF i = 0 THEN g ELSE AddEntry(f[i - 1], iov[i])]
           P == {n \in Nat : \E f : G(n, f)}
<1>1. 0 \in P
  <2>1. G(0, [i \in 0..0 |-> g])
    OBVIOUS
  <2> QED BY <2>1
<1>2. ASSUME NEW n \in Nat, n \in P PROVE n + 1 \in P
  <2>1. PICK f : G(n, f)
    BY <1>2
  <2>2. \A i \in 0..n : f[i] = IF i = 0 THEN g ELSE AddEntry(f[i - 1], iov[i])
    BY <2>1
  <2> DEFINE e == [i \in 0..(n + 1) |-> IF i <= n THEN f[i] ELSE AddEntry(f[i - 1], iov[i])]
  <2>3. \A i \in 0..(n + 1) : e[i] = IF i = 0 THEN g ELSE AddEntry(e[i - 1], iov[i])
    <3> TAKE i \in 0..(n + 1)
    <3>1. CASE i = 0
      BY <2>2, <3>1
    <3>2. CASE i # 0
      <4>1. i - 1 \in 0..(n + 1) /\ i - 1 <= n
        BY <3>2
      <4>2. e[i - 1] = f[i - 1]
        BY <4>1
      <4>3. e[i] = AddEntry(f[i - 1], iov[i])
        <5>1. CASE i <= n
          <6>1. i \in 0..n
            BY <5>1
          <6>2. f[i] = AddEntry(f[i - 1], iov[i])
            BY <2>2, <3>2, <6>1
          <6> QED BY <5>1, <6>2
        <5>2. CASE ~(i <= n)
          BY <3>2, <5>2
        <5> QED BY <5>1, <5>2
      <4> QED BY <3>2, <4>2, <4>3
    <3> QED BY <3>1, <3>2
  <2>4. G(n + 1, e)
    <3>1. e = [i \in 0..(n + 1) |-> e[i]]
      OBVIOUS
    <3> HIDE DEF e
    <3>2. [i \in 0..(n + 1) |-> e[i]]
            = [i \in 0..(n + 1) |-> IF i = 0 THEN g ELSE AddEntry(e[i - 1], iov[i])]
      BY <2>3
    <3> QED BY <3>1, <3>2
  <2>5. \E h : G(n + 1, h)
    <3> HIDE DEF e, G
    <3> QED BY <2>4
  <2> HIDE DEF G
  <2> QED BY <2>5
<1>3. Nat \subseteq P
  <2> HIDE DEF P
  <2> QED BY <1>1, <1>2, NatSetInduction
<1>4. \E f : G(Len(iov), f)
  BY <1>3
<1> DEFINE F == CHOOSE f : G(Len(iov), f)
<1>5. AddEntries(g, iov) = F
  BY DEF AddEntries
<1>6. G(Len(iov), F)
  <2> HIDE DEF G
  <2> QED BY <1>4
<1>7. \A i \in 0..Len(iov) : F[i] = IF i = 0 THEN g ELSE AddEntry(F[i - 1], iov[i])
  <2> HIDE DEF F
  <2> QED BY <1>6
<1>8. F[0] = g
  BY <1>7
<1>9. \A i \in 1..Len(iov) : F[i] = AddEntry(F[i - 1], iov[i])
  BY <1>7
<1> HIDE DEF F
<1> QED BY <1>5, <1>8, <1>9

\* The equations of Gathering.
LEMMA GatheringSteps ==
  ASSUME NEW bs, Len(bs) \in Nat
  PROVE  /\ Gathering(bs)[0] = NoReplyIOV
         /\ \A i \in 1..Len(bs) : Gathering(bs)[i] = ScatterBuffer(Gathering(bs)[i - 1], bs[i])
<1> DEFINE G(n, f) == f = [i \in 0..n |-> IF i = 0 THEN NoReplyIOV ELSE ScatterBuffer(f[i - 1], bs[i])]
           P == {n \in Nat : \E f : G(n, f)}
<1>1. 0 \in P
  <2>1. G(0, [i \in 0..0 |-> NoReplyIOV])
    OBVIOUS
  <2> QED BY <2>1
<1>2. ASSUME NEW n \in Nat, n \in P PROVE n + 1 \in P
  <2>1. PICK f : G(n, f)
    BY <1>2
  <2>2. \A i \in 0..n : f[i] = IF i = 0 THEN NoReplyIOV ELSE ScatterBuffer(f[i - 1], bs[i])
    BY <2>1
  <2> DEFINE e == [i \in 0..(n + 1) |-> IF i <= n THEN f[i] ELSE ScatterBuffer(f[i - 1], bs[i])]
  <2>3. \A i \in 0..(n + 1) : e[i] = IF i = 0 THEN NoReplyIOV ELSE ScatterBuffer(e[i - 1], bs[i])
    <3> TAKE i \in 0..(n + 1)
    <3>1. CASE i = 0
      BY <2>2, <3>1
    <3>2. CASE i # 0
      <4>1. i - 1 \in 0..(n + 1) /\ i - 1 <= n
        BY <3>2
      <4>2. e[i - 1] = f[i - 1]
        BY <4>1
      <4>3. e[i] = ScatterBuffer(f[i - 1], bs[i])
        <5>1. CASE i <= n
          <6>1. i \in 0..n
            BY <5>1
          <6>2. f[i] = ScatterBuffer(f[i - 1], bs[i])
            BY <2>2, <3>2, <6>1
          <6> QED BY <5>1, <6>2
        <5>2. CASE ~(i <= n)
          BY <3>2, <5>2
        <5> QED BY <5>1, <5>2
      <4> QED BY <3>2, <4>2, <4>3
    <3> QED BY <3>1, <3>2
  <2>4. G(n + 1, e)
    <3>1. e = [i \in 0..(n + 1) |-> e[i]]
      OBVIOUS
    <3> HIDE DEF e
    <3>2. [i \in 0..(n + 1) |-> e[i]]
            = [i \in 0..(n + 1) |-> IF i = 0 THEN NoReplyIOV ELSE ScatterBuffer(e[i - 1], bs[i])]
      BY <2>3
    <3> QED BY <3>1, <3>2
  <2>5. \E h : G(n + 1, h)
    <3> HIDE DEF e, G
    <3> QED BY <2>4
  <2> HIDE DEF G
  <2> QED BY <2>5
<1>3. Nat \subseteq P
  <2> HIDE DEF P
  <2> QED BY <1>1, <1>2, NatSetInduction
<1>4. \E f : G(Len(bs), f)
  BY <1>3
<1> DEFINE F == CHOOSE f : G(Len(bs), f)
<1>5. Gathering(bs) = F
  BY DEF Gathering
<1>6. G(Len(bs), F)
  <2> HIDE DEF G
  <2> QED BY <1>4
<1>7. \A i \in 0..Len(bs) : F[i] = IF i = 0 THEN NoReplyIOV ELSE ScatterBuffer(F[i - 1], bs[i])
  <2> HIDE DEF F
  <2> QED BY <1>6
<1>8. F[0] = NoReplyIOV
  BY <1>7
<1>9. \A i \in 1..Len(bs) : F[i] = ScatterBuffer(F[i - 1], bs[i])
  BY <1>7
<1> HIDE DEF F
<1> QED BY <1>5, <1>8, <1>9

\* The equations of Upto.
LEMMA UptoSteps ==
  ASSUME NEW meta, Len(meta) \in Nat
  PROVE  /\ Upto(meta)[0] = 0
         /\ \A i \in 1..Len(meta) : Upto(meta)[i] = Upto(meta)[i - 1] + meta[i].data
<1> DEFINE G(n, f) == f = [i \in 0..n |-> IF i = 0 THEN 0 ELSE f[i - 1] + meta[i].data]
           P == {n \in Nat : \E f : G(n, f)}
<1>1. 0 \in P
  <2>1. G(0, [i \in 0..0 |-> 0])
    OBVIOUS
  <2> QED BY <2>1
<1>2. ASSUME NEW n \in Nat, n \in P PROVE n + 1 \in P
  <2>1. PICK f : G(n, f)
    BY <1>2
  <2>2. \A i \in 0..n : f[i] = IF i = 0 THEN 0 ELSE f[i - 1] + meta[i].data
    BY <2>1
  <2> DEFINE e == [i \in 0..(n + 1) |-> IF i <= n THEN f[i] ELSE f[i - 1] + meta[i].data]
  <2>3. \A i \in 0..(n + 1) : e[i] = IF i = 0 THEN 0 ELSE e[i - 1] + meta[i].data
    <3> TAKE i \in 0..(n + 1)
    <3>1. CASE i = 0
      BY <2>2, <3>1
    <3>2. CASE i # 0
      <4>1. i - 1 \in 0..(n + 1) /\ i - 1 <= n
        BY <3>2
      <4>2. e[i - 1] = f[i - 1]
        BY <4>1
      <4>3. e[i] = f[i - 1] + meta[i].data
        <5>1. CASE i <= n
          <6>1. i \in 0..n
            BY <5>1
          <6>2. f[i] = f[i - 1] + meta[i].data
            BY <2>2, <3>2, <6>1
          <6> QED BY <5>1, <6>2
        <5>2. CASE ~(i <= n)
          BY <3>2, <5>2
        <5> QED BY <5>1, <5>2
      <4> QED BY <3>2, <4>2, <4>3
    <3> QED BY <3>1, <3>2
  <2>4. G(n + 1, e)
    <3>1. e = [i \in 0..(n + 1) |-> e[i]]
      OBVIOUS
    <3> HIDE DEF e
    <3>2. [i \in 0..(n + 1) |-> e[i]]
            = [i \in 0..(n + 1) |-> IF i = 0 THEN 0 ELSE e[i - 1] + meta[i].data]
      BY <2>3
    <3> QED BY <3>1, <3>2
  <2>5. \E h : G(n + 1, h)
    <3> HIDE DEF e, G
    <3> QED BY <2>4
  <2> HIDE DEF G
  <2> QED BY <2>5
<1>3. Nat \subseteq P
  <2> HIDE DEF P
  <2> QED BY <1>1, <1>2, NatSetInduction
<1>4. \E f : G(Len(meta), f)
  BY <1>3
<1> DEFINE F == CHOOSE f : G(Len(meta), f)
<1>5. Upto(meta) = F
  BY DEF Upto
<1>6. G(Len(meta), F)
  <2> HIDE DEF G
  <2> QED BY <1>4
<1>7. \A i \in 0..Len(meta) : F[i] = IF i = 0 THEN 0 ELSE F[i - 1] + meta[i].data
  <2> HIDE DEF F
  <2> QED BY <1>6
<1>8. F[0] = 0
  BY <1>7
<1>9. \A i \in 1..Len(meta) : F[i] = F[i - 1] + meta[i].data
  BY <1>7
<1> HIDE DEF F
<1> QED BY <1>5, <1>8, <1>9

Meta == [buf : Addrs, bufpos : Nat, data : Nat, complete : BOOLEAN]
ReplyIOV == [iov : Seq(Bytes), meta : Seq(Meta), data : Nat, skip : Nat, limit : BOOLEAN]

\* What AddEntry leaves, field by field.
LEMMA AddEntryFields ==
  ASSUME NEW g \in ReplyIOV, NEW e \in Bytes
  PROVE  LET h == AddEntry(g, e)
         IN /\ h \in ReplyIOV
            /\ h.meta = g.meta
            /\ g.limit => h = g
            /\ ~g.limit /\ Len(g.iov) = IovMax =>
                 h.limit /\ h.iov = g.iov /\ h.data = g.data /\ h.skip = g.skip
            /\ ~g.limit /\ Len(g.iov) # IovMax /\ g.skip >= Len(e) =>
                 ~h.limit /\ h.iov = g.iov /\ h.data = g.data + Len(e) /\ h.skip = g.skip - Len(e)
            /\ ~g.limit /\ Len(g.iov) # IovMax /\ ~(g.skip >= Len(e)) =>
                 /\ ~h.limit /\ h.skip = 0 /\ h.data = g.data + Len(e)
                 /\ h.iov = Append(g.iov, Slice(e, g.skip, Len(e)))
<1> DEFINE h == AddEntry(g, e)
           x == Slice(e, g.skip, Len(e))
<1>1. /\ g.iov \in Seq(Bytes) /\ g.meta \in Seq(Meta) /\ g.data \in Nat /\ g.skip \in Nat
      /\ g.limit \in BOOLEAN /\ Len(e) \in Nat
  BY BytesFacts DEF ReplyIOV
<1>2. x \in Bytes
  <2>1. Len(e) <= Len(e)
    BY <1>1
  <2> QED BY <1>1, <2>1, SliceFacts
<1>3. x = SubSeq(e, g.skip + 1, Len(e))
  BY DEF Slice
<1> HIDE DEF x
<1>4. CASE g.limit
  BY <1>4 DEF AddEntry
<1>5. CASE ~g.limit /\ Len(g.iov) = IovMax
  <2>1. h = [g EXCEPT !.limit = TRUE]
    BY <1>5 DEF AddEntry
  <2> QED BY <1>1, <1>5, <2>1 DEF ReplyIOV
<1>6. CASE ~g.limit /\ Len(g.iov) # IovMax /\ g.skip >= Len(e)
  <2>1. h = [g EXCEPT !.data = @ + Len(e), !.skip = @ - Len(e)]
    BY <1>6 DEF AddEntry
  <2>2. g.data + Len(e) \in Nat /\ g.skip - Len(e) \in Nat
    BY <1>1, <1>6
  <2> QED BY <1>1, <1>6, <2>1, <2>2 DEF ReplyIOV
<1>7. CASE ~g.limit /\ Len(g.iov) # IovMax /\ ~(g.skip >= Len(e))
  <2>1. h = [g EXCEPT !.data = @ + Len(e), !.skip = 0, !.iov = Append(@, x)]
    BY <1>3, <1>7 DEF AddEntry
  <2>2. g.data + Len(e) \in Nat /\ Append(g.iov, x) \in Seq(Bytes)
    BY <1>1, <1>2
  <2> DEFINE y == Append(g.iov, x)
             n == g.data + Len(e)
  <2>3. y \in Seq(Bytes) /\ n \in Nat /\ h = [g EXCEPT !.data = n, !.skip = 0, !.iov = y]
    BY <2>1, <2>2
  <2> HIDE DEF y, n, h
  <2>4. h \in ReplyIOV /\ h.meta = g.meta /\ h.limit = g.limit
    BY <1>1, <2>3 DEF ReplyIOV
  <2>5. h.data = n /\ h.skip = 0 /\ h.iov = y
    BY <2>3 DEF ReplyIOV
  <2> QED BY <1>7, <2>4, <2>5, Zenon DEF h, x, y, n
<1> QED BY <1>1, <1>4, <1>5, <1>6, <1>7, Zenon

\* What the first i entries of a buffer leave: the bytes they hold behind the skipped
\* ones, in order; the limit is reached only with a byte taken and an entry left.
EntryInv(g, iov, i, h) ==
  /\ h \in ReplyIOV /\ h.meta = g.meta
  /\ Len(g.iov) <= Len(h.iov) /\ Len(h.iov) <= IovMax
  /\ h.data <= Len(FlattenSeq(iov))
  /\ h.skip = IF h.data >= g.skip THEN 0 ELSE g.skip - h.data
  /\ FlattenSeq(h.iov) = FlattenSeq(g.iov) \o Slice(FlattenSeq(iov), g.skip, h.data)
  /\ Len(h.iov) > Len(g.iov) => h.data > g.skip
  /\ i = 0 => Len(h.iov) = Len(g.iov)
  /\ ~h.limit => h.data = Len(Prefix(iov, i))
  /\ h.limit => h.data < Len(FlattenSeq(iov)) /\ h.data > g.skip /\ i > 1

\* addPlainBufferToReplyIOV() keeps what is known of the entries before it.
LEMMA EntryStep ==
  ASSUME NEW g \in ReplyIOV, Len(g.iov) < IovMax, IovMax \in Nat,
         NEW iov \in Seq(Bytes), NEW i \in 0..(Len(iov) - 1), iov[i + 1] # <<>>,
         NEW h, EntryInv(g, iov, i, h)
  PROVE  EntryInv(g, iov, i + 1, AddEntry(h, iov[i + 1]))
<1> DEFINE F == FlattenSeq(iov)
           e == iov[i + 1]
           k == AddEntry(h, e)
           d == Len(Prefix(iov, i))
<1>1. /\ e \in Bytes /\ Len(e) \in Nat /\ Len(e) > 0
      /\ F \in Bytes /\ Len(F) \in Nat /\ d \in Nat
      /\ Len(Prefix(iov, i + 1)) = d + Len(e)
      /\ d + Len(e) <= Len(F)
      /\ i \in Nat /\ i + 1 # 0
  <2>1. e \in Bytes /\ Len(Prefix(iov, i + 1)) = d + Len(e) /\ Prefix(iov, i) \in Bytes
    BY PrefixNext
  <2>2. Len(e) \in Nat /\ d \in Nat
    BY <2>1, BytesFacts
  <2>3. Len(e) > 0
    BY <2>1 DEF Bytes
  <2>4. F \in Bytes /\ Len(F) \in Nat
    BY FlattenType, BytesFacts
  <2>5. d + Len(e) <= Len(F)
    <3>1. Len(e) <= Len(iov[i + 1]) /\ 0 \in Nat
      BY <2>2
    <3> QED BY <2>2, <3>1, SliceOfPart
  <2> QED BY <2>1, <2>2, <2>3, <2>4, <2>5
<1>2. /\ g.iov \in Seq(Bytes) /\ g.skip \in Nat /\ Len(g.iov) \in Nat
      /\ FlattenSeq(g.iov) \in Bytes
  BY FlattenType DEF ReplyIOV
<1>3. /\ h \in ReplyIOV /\ h.meta = g.meta
      /\ h.iov \in Seq(Bytes) /\ Len(h.iov) \in Nat /\ h.data \in Nat /\ h.skip \in Nat
      /\ h.limit \in BOOLEAN
      /\ Len(g.iov) <= Len(h.iov) /\ Len(h.iov) <= IovMax
      /\ h.data <= Len(F)
      /\ h.skip = IF h.data >= g.skip THEN 0 ELSE g.skip - h.data
      /\ FlattenSeq(h.iov) = FlattenSeq(g.iov) \o Slice(F, g.skip, h.data)
      /\ Len(h.iov) > Len(g.iov) => h.data > g.skip
      /\ i = 0 => Len(h.iov) = Len(g.iov)
      /\ ~h.limit => h.data = d
      /\ h.limit => h.data < Len(F) /\ h.data > g.skip /\ i > 1
  BY DEF EntryInv, ReplyIOV
<1>4. /\ k \in ReplyIOV
      /\ k.meta = h.meta
      /\ h.limit => k = h
      /\ ~h.limit /\ Len(h.iov) = IovMax =>
           k.limit /\ k.iov = h.iov /\ k.data = h.data /\ k.skip = h.skip
      /\ ~h.limit /\ Len(h.iov) # IovMax /\ h.skip >= Len(e) =>
           ~k.limit /\ k.iov = h.iov /\ k.data = h.data + Len(e) /\ k.skip = h.skip - Len(e)
      /\ ~h.limit /\ Len(h.iov) # IovMax /\ ~(h.skip >= Len(e)) =>
           /\ ~k.limit /\ k.skip = 0 /\ k.data = h.data + Len(e)
           /\ k.iov = Append(h.iov, Slice(e, h.skip, Len(e)))
  BY <1>1, <1>3, AddEntryFields
<1> HIDE DEF k
<1>5. SUFFICES
        /\ Len(g.iov) <= Len(k.iov) /\ Len(k.iov) <= IovMax
        /\ k.data <= Len(F)
        /\ k.skip = IF k.data >= g.skip THEN 0 ELSE g.skip - k.data
        /\ FlattenSeq(k.iov) = FlattenSeq(g.iov) \o Slice(F, g.skip, k.data)
        /\ Len(k.iov) > Len(g.iov) => k.data > g.skip
        /\ ~k.limit => k.data = d + Len(e)
        /\ k.limit => k.data < Len(F) /\ k.data > g.skip /\ i + 1 > 1
  BY <1>1, <1>3, <1>4 DEF EntryInv, k
<1> HIDE DEF F, e, d
<1>6. CASE h.limit
  BY <1>1, <1>3, <1>4, <1>6, SMTT(30)
<1>7. CASE ~h.limit /\ Len(h.iov) = IovMax
  <2>0. /\ h.data = d /\ Len(h.iov) = IovMax
        /\ k.limit /\ k.iov = h.iov /\ k.data = h.data /\ k.skip = h.skip
    BY <1>3, <1>4, <1>7, Zenon
  <2>1. h.data > g.skip /\ i # 0 /\ h.data < Len(F) /\ i + 1 > 1
    BY <1>1, <1>2, <1>3, <2>0
  <2> QED BY <1>3, <2>0, <2>1
<1>8. CASE ~h.limit /\ Len(h.iov) # IovMax /\ h.skip >= Len(e)
  <2>0. /\ h.data = d /\ h.skip >= Len(e)
        /\ ~k.limit /\ k.iov = h.iov /\ k.data = h.data + Len(e) /\ k.skip = h.skip - Len(e)
    BY <1>3, <1>4, <1>8, Zenon
  <2>a. h.skip = IF h.data >= g.skip THEN 0 ELSE g.skip - h.data
    BY <1>3
  <2>1. h.data < g.skip /\ k.data = h.data + Len(e) /\ k.data <= g.skip /\ k.data \in Nat
    BY <1>1, <1>2, <2>0, <2>a
  <2>2. Slice(F, g.skip, h.data) = <<>> /\ Slice(F, g.skip, k.data) = <<>>
    <3>1. h.data <= Len(F) /\ k.data <= Len(F) /\ h.data <= g.skip
      BY <1>1, <1>2, <2>0, <2>1
    <3>2. h.data \in Nat /\ k.data \in Nat /\ g.skip \in Nat /\ F \in Bytes
      BY <1>1, <1>2, <1>3, <2>1
    <3>3. Slice(F, g.skip, h.data) = <<>>
      BY <3>1, <3>2, SliceFacts
    <3>4. Slice(F, g.skip, k.data) = <<>>
      BY <2>1, <3>1, <3>2, SliceFacts
    <3> QED BY <3>3, <3>4
  <2>3. FlattenSeq(k.iov) = FlattenSeq(g.iov) \o Slice(F, g.skip, k.data)
    <3>1. FlattenSeq(h.iov) = FlattenSeq(g.iov) \o Slice(F, g.skip, h.data)
      BY <1>3
    <3> QED BY <2>0, <2>2, <3>1
  <2>4. k.skip = IF k.data >= g.skip THEN 0 ELSE g.skip - k.data
    BY <1>1, <1>2, <2>0, <2>a, <2>1
  <2>5. /\ Len(g.iov) <= Len(k.iov) /\ Len(k.iov) <= IovMax /\ k.data <= Len(F)
        /\ ~k.limit /\ k.data = d + Len(e)
        /\ Len(k.iov) > Len(g.iov) => k.data > g.skip
    <3>1. /\ Len(g.iov) <= Len(h.iov) /\ Len(h.iov) <= IovMax
          /\ Len(h.iov) > Len(g.iov) => h.data > g.skip
      BY <1>3
    <3> QED BY <1>1, <1>2, <1>3, <2>0, <2>1, <3>1
  <2> QED BY <2>3, <2>4, <2>5
<1>9. CASE ~h.limit /\ Len(h.iov) # IovMax /\ ~(h.skip >= Len(e))
  <2> DEFINE x == Slice(e, h.skip, Len(e))
  <2>0. /\ h.data = d /\ ~(h.skip >= Len(e)) /\ Len(h.iov) # IovMax
        /\ ~k.limit /\ k.skip = 0 /\ k.data = h.data + Len(e)
    BY <1>3, <1>4, <1>9, Zenon
  <2>a. h.skip = IF h.data >= g.skip THEN 0 ELSE g.skip - h.data
    BY <1>3
  <2>1. k.data = d + Len(e) /\ h.data = d /\ k.data > g.skip /\ k.skip = 0 /\ ~k.limit
    BY <1>1, <1>2, <2>0, <2>a
  <2>2. x = Slice(F, d + h.skip, d + Len(e))
    <3>1. Len(e) <= Len(iov[i + 1])
      BY <1>1 DEF e
    <3>2. Slice(iov[i + 1], h.skip, Len(e))
            = Slice(FlattenSeq(iov), Len(Prefix(iov, i)) + h.skip, Len(Prefix(iov, i)) + Len(e))
      <4>1. h.skip \in Nat /\ Len(e) \in Nat
        BY <1>1, <1>3
      <4> QED BY <3>1, <4>1, SliceOfPart
    <3> QED BY <3>2 DEF F, d, e
  <2>3. x \in Bytes
    <3>1. Len(e) <= Len(e)
      BY <1>1
    <3> QED BY <1>1, <1>3, <3>1, SliceFacts
  <2> HIDE DEF x
  <2>4. k.iov = Append(h.iov, x)
    BY <1>4, <1>9 DEF x
  <2>5. Len(k.iov) = Len(h.iov) + 1
    BY <1>3, <2>3, <2>4
  <2>6. FlattenSeq(k.iov) = FlattenSeq(h.iov) \o x
    BY <1>3, <2>3, <2>4, FlattenAppend
  <2>7. Slice(F, g.skip, d) \o x = Slice(F, g.skip, d + Len(e))
    <3>1. CASE d >= g.skip
      <4>1. h.skip = 0 /\ d + h.skip = d
        BY <1>1, <1>2, <1>3, <2>1, <3>1
      <4>2. g.skip <= d /\ d <= d + Len(e) /\ d + Len(e) <= Len(F) /\ d + Len(e) \in Nat
        BY <1>1, <1>2, <3>1
      <4>3. Slice(F, g.skip, d) \o Slice(F, d, d + Len(e)) = Slice(F, g.skip, d + Len(e))
        BY <1>1, <1>2, <4>2, SliceJoin, ZenonT(40)
      <4> QED BY <2>2, <4>1, <4>3
    <3>2. CASE ~(d >= g.skip)
      <4>0. h.skip = g.skip - d
        BY <2>0, <2>a, <3>2
      <4>1. d + h.skip = g.skip /\ d <= g.skip /\ d <= Len(F)
        <5>1. d \in Nat /\ g.skip \in Nat /\ Len(e) \in Nat /\ Len(F) \in Nat /\ d + Len(e) <= Len(F)
          BY <1>1, <1>2
        <5> QED BY <3>2, <4>0, <5>1
      <4>2. Slice(F, g.skip, d) = <<>>
        <5>1. F \in Bytes /\ g.skip \in Nat /\ d \in Nat
          BY <1>1, <1>2
        <5> QED BY <4>1, <5>1, SliceFacts, SMTT(30)
      <4>3. <<>> \o x = x
        BY <2>3, BytesFacts
      <4> QED BY <2>2, <4>1, <4>2, <4>3
    <3> QED BY <3>1, <3>2
  <2>8. FlattenSeq(k.iov) = FlattenSeq(g.iov) \o Slice(F, g.skip, k.data)
    <3> DEFINE a == FlattenSeq(g.iov)
               b == Slice(F, g.skip, d)
    <3>1. a \in Bytes
      BY <1>2
    <3>2. b \in Bytes
      <4>1. d <= Len(F)
        BY <1>1
      <4> QED BY <1>1, <1>2, <4>1, SliceFacts
    <3>3. FlattenSeq(h.iov) = a \o b
      BY <1>3, <2>1
    <3>4. b \o x = Slice(F, g.skip, k.data)
      BY <2>1, <2>7
    <3> HIDE DEF a, b
    <3>5. (a \o b) \o x = a \o (b \o x)
      BY <2>3, <3>1, <3>2, BytesFacts
    <3> QED BY <2>6, <3>3, <3>4, <3>5 DEF a
  <2>9. Len(g.iov) <= Len(k.iov) /\ Len(k.iov) <= IovMax /\ k.data <= Len(F)
    BY <1>1, <1>2, <1>3, <2>0, <2>1, <2>5, SMTT(30)
  <2>10. k.skip = IF k.data >= g.skip THEN 0 ELSE g.skip - k.data
    BY <1>1, <1>2, <2>1
  <2> QED BY <2>1, <2>8, <2>9, <2>10
<1> QED BY <1>3, <1>6, <1>7, <1>8, <1>9, Zenon

\* The entries of one buffer, scattered from the start or from where it was left.
LEMMA EntriesScattered ==
  ASSUME NEW g \in ReplyIOV, ~g.limit, Len(g.iov) < IovMax, IovMax \in Nat,
         NEW iov \in Seq(Bytes), \A i \in 1..Len(iov) : iov[i] # <<>>
  PROVE  EntryInv(g, iov, Len(iov), AddEntries([g EXCEPT !.data = 0], iov)[Len(iov)])
<1> DEFINE f == AddEntries([g EXCEPT !.data = 0], iov)
           P == {i \in Nat : i <= Len(iov) => EntryInv(g, iov, i, f[i])}
<1>1. Len(iov) \in Nat
  OBVIOUS
<1>2. /\ f[0] = [g EXCEPT !.data = 0]
      /\ \A i \in 1..Len(iov) : f[i] = AddEntry(f[i - 1], iov[i])
  BY <1>1, AddEntriesSteps
<1> HIDE DEF f
<1>3. 0 \in P
  <2> DEFINE h == [g EXCEPT !.data = 0]
  <2>1. /\ g.iov \in Seq(Bytes) /\ g.skip \in Nat /\ g.limit \in BOOLEAN /\ Len(g.iov) \in Nat
        /\ FlattenSeq(g.iov) \in Bytes
    BY FlattenType DEF ReplyIOV
  <2>2. /\ h \in ReplyIOV /\ h.meta = g.meta /\ h.iov = g.iov /\ h.data = 0
        /\ h.skip = g.skip /\ h.limit = g.limit
    BY DEF ReplyIOV
  <2> HIDE DEF h
  <2>3. Prefix(iov, 0) = <<>> /\ Len(<<>>) = 0
    BY PrefixEnds
  <2>4. FlattenSeq(iov) \in Bytes /\ Len(FlattenSeq(iov)) \in Nat
    BY FlattenType, BytesFacts
  <2>5. Slice(FlattenSeq(iov), g.skip, 0) = <<>>
    <3>1. 0 \in Nat /\ 0 <= Len(FlattenSeq(iov)) /\ 0 <= g.skip
      BY <2>1, <2>4
    <3> DEFINE F == FlattenSeq(iov)
               z == 0
               l == g.skip
    <3>2. F \in Bytes /\ z \in Nat /\ l \in Nat /\ z <= Len(F) /\ z <= l
      BY <2>1, <2>4, <3>1
    <3> HIDE DEF F, z, l
    <3>3. Slice(F, l, z) = <<>>
      BY <3>2, SliceFacts
    <3> QED BY <3>3 DEF F, z, l
  <2>6. FlattenSeq(h.iov) = FlattenSeq(g.iov) \o Slice(FlattenSeq(iov), g.skip, h.data)
    BY <2>1, <2>2, <2>5, BytesFacts
  <2>7. h.skip = IF h.data >= g.skip THEN 0 ELSE g.skip - h.data
    BY <2>1, <2>2
  <2>8. ~h.limit /\ h.data = Len(Prefix(iov, 0)) /\ h.data <= Len(FlattenSeq(iov))
    BY <2>2, <2>3, <2>4
  <2>9. Len(g.iov) <= Len(h.iov) /\ Len(h.iov) <= IovMax /\ ~(Len(h.iov) > Len(g.iov))
    BY <2>1, <2>2
  <2>10. EntryInv(g, iov, 0, h)
    BY <2>2, <2>6, <2>7, <2>8, <2>9 DEF EntryInv
  <2> QED BY <1>2, <2>10 DEF h
<1>4. ASSUME NEW i \in Nat, i \in P PROVE i + 1 \in P
  <2> SUFFICES ASSUME i + 1 <= Len(iov) PROVE EntryInv(g, iov, i + 1, f[i + 1])
    OBVIOUS
  <2>1. EntryInv(g, iov, i, f[i])
    BY <1>1, <1>4
  <2>2. i + 1 \in 1..Len(iov) /\ i \in 0..(Len(iov) - 1) /\ (i + 1) - 1 = i
    BY <1>1
  <2>3. f[i + 1] = AddEntry(f[i], iov[i + 1]) /\ iov[i + 1] # <<>>
    BY <1>2, <2>2
  <2>4. EntryInv(g, iov, i + 1, AddEntry(f[i], iov[i + 1]))
    BY <2>1, <2>2, <2>3, EntryStep
  <2> QED BY <2>3, <2>4
<1>5. Nat \subseteq P
  <2> HIDE DEF P
  <2> QED BY <1>3, <1>4, NatSetInduction
<1>6. Len(iov) \in P
  BY <1>1, <1>5
<1> QED BY <1>1, <1>6 DEF f

\* Nothing is added beyond the limit.
LEMMA EntriesBeyondLimit ==
  ASSUME NEW g \in ReplyIOV, g.limit, NEW iov \in Seq(Bytes)
  PROVE  AddEntries([g EXCEPT !.data = 0], iov)[Len(iov)] = [g EXCEPT !.data = 0]
<1> DEFINE h == [g EXCEPT !.data = 0]
           f == AddEntries(h, iov)
           P == {i \in Nat : i <= Len(iov) => f[i] = h}
<1>1. Len(iov) \in Nat
  OBVIOUS
<1>2. f[0] = h /\ \A i \in 1..Len(iov) : f[i] = AddEntry(f[i - 1], iov[i])
  BY <1>1, AddEntriesSteps
<1>3. h.limit /\ h \in ReplyIOV
  BY DEF ReplyIOV
<1> HIDE DEF f, h
<1>4. 0 \in P
  BY <1>2
<1>5. ASSUME NEW i \in Nat, i \in P PROVE i + 1 \in P
  <2> SUFFICES ASSUME i + 1 <= Len(iov) PROVE f[i + 1] = h
    OBVIOUS
  <2>1. f[i] = h
    BY <1>1, <1>5
  <2>2. i + 1 \in 1..Len(iov) /\ (i + 1) - 1 = i
    BY <1>1
  <2>3. f[i + 1] = AddEntry(h, iov[i + 1])
    BY <1>2, <2>1, <2>2
  <2> QED BY <1>3, <2>3 DEF AddEntry
<1>6. Nat \subseteq P
  <2> HIDE DEF P
  <2> QED BY <1>4, <1>5, NatSetInduction
<1>7. Len(iov) \in P
  BY <1>1, <1>6
<1> QED BY <1>1, <1>7 DEF f, h

-----------------------------------------------------------------------------
(* Buffers.                                                                *)

Buffer ==
  [addr : Addrs \cup {NoAddr}, enc : BOOLEAN, open : BOOLEAN, used : Nat, size : Nat,
   iov : Seq(Bytes)]

\* A buffer holds what its used says, in entries that are not empty.
BufferInv(b) ==
  /\ b \in Buffer
  /\ b.used <= b.size
  /\ \A i \in 1..Len(b.iov) : b.iov[i] # <<>>
  /\ ~b.enc => b.used = Len(Data(b)) /\ Len(b.iov) <= 1
  /\ b.used = 0 <=> b.iov = <<>>

\* The fields of a buffer and the bytes it holds.
LEMMA BufferData ==
  ASSUME NEW b, BufferInv(b)
  PROVE  /\ b.iov \in Seq(Bytes) /\ Data(b) \in Bytes /\ Len(Data(b)) \in Nat
         /\ b.used \in Nat /\ b.size \in Nat /\ b.enc \in BOOLEAN /\ b.open \in BOOLEAN
         /\ b.used > 0 => Len(Data(b)) > 0
         /\ b.used = 0 => Data(b) = <<>>
         /\ Len(Data(b)) = 0 => b.used = 0
<1>1. /\ b.iov \in Seq(Bytes) /\ b.used \in Nat /\ b.size \in Nat
      /\ b.enc \in BOOLEAN /\ b.open \in BOOLEAN
  BY DEF BufferInv, Buffer
<1>2. Data(b) \in Bytes /\ Len(Data(b)) \in Nat
  BY <1>1, FlattenType, BytesFacts DEF Data
<1>3. b.used = 0 => Data(b) = <<>>
  BY FlattenEmpty DEF BufferInv, Data
<1>4. ASSUME b.used # 0 PROVE Len(Data(b)) > 0
  <2>1. b.iov # <<>> /\ Len(b.iov) \in Nat
    BY <1>1, <1>4 DEF BufferInv
  <2>2. 1 \in 1..Len(b.iov)
    BY <1>1, <2>1
  <2>3. b.iov[1] # <<>> /\ b.iov[1] \in Bytes
    BY <1>1, <2>2 DEF BufferInv
  <2>4. Len(b.iov[1]) \in Nat /\ Len(b.iov[1]) > 0
    BY <2>3 DEF Bytes
  <2>5. Len(b.iov[1]) <= Len(Data(b))
    BY <1>1, <2>2, FlattenAt DEF Data
  <2> QED BY <1>2, <2>4, <2>5
<1> QED BY <1>1, <1>2, <1>3, <1>4

\* What one buffer with content adds below the limit: a description of itself and its
\* bytes behind the skipped ones, all of them unless the limit cuts it off.
LEMMA BufferScattered ==
  ASSUME NEW g \in ReplyIOV, ~g.limit, Len(g.iov) < IovMax, IovMax \in Nat,
         NEW b, BufferInv(b), b.addr \in Addrs, b.used > 0, g.skip < Len(Data(b))
  PROVE  LET k == ScatterBuffer(g, b)
         IN /\ k \in ReplyIOV
            /\ Len(k.iov) <= IovMax
            /\ \E m \in Meta :
                 /\ k.meta = Append(g.meta, m)
                 /\ m.buf = b.addr /\ m.bufpos = b.used
                 /\ m.data > g.skip /\ m.data <= Len(Data(b))
                 /\ m.complete <=> m.data = Len(Data(b))
                 /\ FlattenSeq(k.iov) = FlattenSeq(g.iov) \o Slice(Data(b), g.skip, m.data)
                 /\ ~k.limit => m.complete /\ k.skip = 0 /\ Len(k.iov) < IovMax
<1> DEFINE h == AddEntries([g EXCEPT !.data = 0], b.iov)[Len(b.iov)]
           k == ScatterBuffer(g, b)
           c == ~(b.enc /\ h.limit)
           m == [buf |-> b.addr, bufpos |-> b.used, data |-> h.data, complete |-> c]
           stop == h.limit \/ Len(FlattenSeq(h.iov)) > NetMax \/ Len(h.iov) = IovMax
<1>1. /\ b.iov \in Seq(Bytes) /\ Data(b) \in Bytes /\ Len(Data(b)) \in Nat
      /\ b.used \in Nat /\ b.enc \in BOOLEAN /\ Len(b.iov) \in Nat
  BY BufferData
<1>2. /\ \A i \in 1..Len(b.iov) : b.iov[i] # <<>>
      /\ ~b.enc => Len(b.iov) <= 1
  BY DEF BufferInv
<1>3. EntryInv(g, b.iov, Len(b.iov), h)
  BY <1>1, <1>2, EntriesScattered
<1> HIDE DEF h
<1>4. g.skip \in Nat
  BY DEF ReplyIOV
<1>5. /\ h \in ReplyIOV /\ h.meta = g.meta /\ Len(h.iov) <= IovMax
      /\ h.data <= Len(Data(b))
      /\ h.skip = IF h.data >= g.skip THEN 0 ELSE g.skip - h.data
      /\ FlattenSeq(h.iov) = FlattenSeq(g.iov) \o Slice(Data(b), g.skip, h.data)
      /\ ~h.limit => h.data = Len(Prefix(b.iov, Len(b.iov)))
      /\ h.limit => h.data < Len(Data(b)) /\ h.data > g.skip /\ Len(b.iov) > 1
  BY <1>3 DEF EntryInv, Data
<1>6. /\ h.data \in Nat /\ h.limit \in BOOLEAN /\ h.iov \in Seq(Bytes) /\ h.skip \in Nat
      /\ h.meta \in Seq(Meta) /\ Len(h.iov) \in Nat
  BY <1>5 DEF ReplyIOV
<1>7. ~h.limit => h.data = Len(Data(b))
  <2>1. Prefix(b.iov, Len(b.iov)) = Data(b)
    BY <1>1, PrefixEnds DEF Data
  <2> QED BY <1>5, <2>1
<1>8. h.data > g.skip /\ h.data # 0 /\ h.skip = 0
  <2>1. CASE h.limit
    BY <1>4, <1>5, <1>6, <2>1
  <2>2. CASE ~h.limit
    <3>1. h.data = Len(Data(b))
      BY <1>7, <2>2
    <3> QED BY <1>1, <1>4, <1>5, <1>6, <3>1
  <2> QED BY <1>6, <2>1, <2>2
<1>9. h.limit => b.enc
  BY <1>1, <1>2, <1>5, <1>6
<1>10. c \in BOOLEAN /\ stop \in BOOLEAN /\ (c <=> ~h.limit)
  BY <1>1, <1>6, <1>9
<1>11. k = [h EXCEPT !.meta = Append(@, m), !.limit = stop]
  <2>1. b.used # 0 /\ ~(g.limit \/ h.data = 0)
    BY <1>8
  <2> QED BY <2>1 DEF ScatterBuffer, h
<1>12. (h.data = Len(Data(b))) <=> ~h.limit
  BY <1>1, <1>5, <1>6, <1>7
<1> HIDE DEF c, k
<1>13. m \in Meta
  BY <1>1, <1>6, <1>10 DEF Meta
<1>14. /\ m.buf = b.addr /\ m.bufpos = b.used /\ m.data = h.data /\ m.complete = c
  OBVIOUS
<1> HIDE DEF m
<1>15. Append(h.meta, m) \in Seq(Meta)
  BY <1>6, <1>13
<1> DEFINE ms == Append(h.meta, m)
<1>16. ms \in Seq(Meta) /\ k = [h EXCEPT !.meta = ms, !.limit = stop]
  BY <1>11, <1>15
<1>17. ms = Append(g.meta, m)
  BY <1>5
<1>18. ~stop => ~h.limit /\ Len(h.iov) < IovMax
  BY <1>5, <1>6
<1>19. stop \in BOOLEAN
  BY <1>10
<1> HIDE DEF ms, stop
<1>20. /\ k \in ReplyIOV /\ k.iov = h.iov /\ k.skip = h.skip
       /\ k.meta = ms /\ k.limit = stop
  BY <1>5, <1>16, <1>19 DEF ReplyIOV
<1>21. m.complete <=> m.data = Len(Data(b))
  BY <1>10, <1>12, <1>14
<1>22. m.data > g.skip /\ m.data <= Len(Data(b))
  BY <1>5, <1>8, <1>14
<1>23. FlattenSeq(k.iov) = FlattenSeq(g.iov) \o Slice(Data(b), g.skip, m.data)
  BY <1>5, <1>14, <1>20
<1>24. ~k.limit => m.complete /\ k.skip = 0 /\ Len(k.iov) < IovMax
  BY <1>8, <1>10, <1>14, <1>18, <1>20
<1>25. k \in ReplyIOV /\ Len(k.iov) <= IovMax
  BY <1>5, <1>20
<1>26. k.meta = Append(g.meta, m)
  BY <1>17, <1>20
<1> QED BY <1>13, <1>14, <1>21, <1>22, <1>23, <1>24, <1>25, <1>26 DEF k

\* What it adds beyond the limit: nothing.
LEMMA BufferBeyondLimit ==
  ASSUME NEW g \in ReplyIOV, g.limit, NEW b, BufferInv(b), b.used > 0
  PROVE  LET k == ScatterBuffer(g, b)
         IN k \in ReplyIOV /\ k.limit /\ k.meta = g.meta /\ k.iov = g.iov
<1> DEFINE h == [g EXCEPT !.data = 0]
<1>1. b.iov \in Seq(Bytes) /\ b.used # 0
  BY BufferData
<1>2. AddEntries(h, b.iov)[Len(b.iov)] = h
  BY <1>1, EntriesBeyondLimit
<1>3. ScatterBuffer(g, b) = h
  BY <1>1, <1>2 DEF ScatterBuffer
<1>4. h \in ReplyIOV /\ h.limit /\ h.meta = g.meta /\ h.iov = g.iov
  BY DEF ReplyIOV
<1> QED BY <1>3, <1>4

-----------------------------------------------------------------------------
(* Gathering.                                                              *)

\* The contents of the buffers bs.
Contents(bs) == [i \in 1..Len(bs) |-> Data(bs[i])]

\* The contents of a sequence of buffers.
LEMMA ContentsFacts ==
  ASSUME NEW bs, Len(bs) \in Nat, \A i \in 1..Len(bs) : BufferInv(bs[i])
  PROVE  /\ Contents(bs) \in Seq(Bytes) /\ Len(Contents(bs)) = Len(bs)
         /\ \A i \in 1..Len(bs) : Contents(bs)[i] = Data(bs[i])
<1>1. \A i \in 1..Len(bs) : Data(bs[i]) \in Bytes
  BY BufferData
<1> QED BY <1>1 DEF Contents

\* Buffers a write may find, where skip bytes were written before: the first off, at
\* most one, are empty, the others are not, and skip ends in the first of these.
Writable(bs, off, skip) ==
  /\ bs \in Seq(Buffer)
  /\ off \in {0, 1} /\ off < Len(bs)
  /\ skip \in Nat
  /\ \A i \in 1..Len(bs) :
       /\ BufferInv(bs[i]) /\ bs[i].addr \in Addrs
       /\ i <= off => bs[i].used = 0
       /\ i > off => bs[i].used > 0
  /\ skip < Len(Data(bs[off + 1]))

\* What a write finds, in terms of the bytes.
LEMMA WritableFacts ==
  ASSUME NEW bs, NEW off, NEW skip, Writable(bs, off, skip)
  PROVE  /\ Len(bs) \in Nat /\ off \in Nat /\ off < Len(bs) /\ skip \in Nat
         /\ Contents(bs) \in Seq(Bytes) /\ Len(Contents(bs)) = Len(bs)
         /\ \A i \in 1..Len(bs) : Contents(bs)[i] = Data(bs[i])
         /\ \A i \in 1..Len(bs) : Data(bs[i]) \in Bytes /\ Len(Data(bs[i])) \in Nat
         /\ \A i \in (off + 1)..Len(bs) : Len(Data(bs[i])) > 0
         /\ Len(Prefix(Contents(bs), off)) = 0
<1>1. Len(bs) \in Nat /\ off \in Nat /\ off < Len(bs) /\ skip \in Nat
  BY DEF Writable
<1>2. \A i \in 1..Len(bs) : BufferInv(bs[i])
  BY DEF Writable
<1>3. /\ Contents(bs) \in Seq(Bytes) /\ Len(Contents(bs)) = Len(bs)
      /\ \A i \in 1..Len(bs) : Contents(bs)[i] = Data(bs[i])
  BY <1>1, <1>2, ContentsFacts
<1>4. \A i \in 1..Len(bs) : Data(bs[i]) \in Bytes /\ Len(Data(bs[i])) \in Nat
  BY <1>2, BufferData
<1>5. \A i \in (off + 1)..Len(bs) : Len(Data(bs[i])) > 0
  <2> TAKE i \in (off + 1)..Len(bs)
  <2>1. i \in 1..Len(bs) /\ i > off
    BY <1>1
  <2>2. BufferInv(bs[i]) /\ bs[i].used > 0
    BY <2>1 DEF Writable
  <2> QED BY <2>2, BufferData
<1>6. Len(Prefix(Contents(bs), off)) = 0
  <2>1. Prefix(Contents(bs), 0) = <<>> /\ Len(<<>>) = 0
    BY <1>3, PrefixEnds
  <2>2. CASE off = 0
    BY <2>1, <2>2
  <2>3. CASE off = 1
    <3>1. 1 \in 1..Len(bs) /\ 0 \in 0..(Len(Contents(bs)) - 1)
      BY <1>1, <1>3, <2>3
    <3>2. BufferInv(bs[1]) /\ bs[1].used = 0
      BY <2>3, <3>1 DEF Writable
    <3>3. Contents(bs)[1] = <<>>
      BY <1>3, <3>1, <3>2, BufferData
    <3>4. Prefix(Contents(bs), 0 + 1) = Prefix(Contents(bs), 0) \o Contents(bs)[0 + 1]
      BY <1>3, <3>1, PrefixNext
    <3>5. Prefix(Contents(bs), 1) = <<>> \o <<>>
      BY <2>1, <3>3, <3>4
    <3>6. <<>> \o <<>> = <<>>
      BY BytesFacts
    <3> QED BY <2>1, <2>3, <3>5, <3>6
  <2> QED BY <2>2, <2>3 DEF Writable
<1> QED BY <1>1, <1>3, <1>4, <1>5, <1>6

\* How many bytes the buffers described by meta account for, skipped ones included.
Taken(bs, off, meta) ==
  IF Len(meta) = 0 THEN 0
  ELSE Len(Prefix(Contents(bs), off + Len(meta) - 1)) + meta[Len(meta)].data

\* meta describes the buffers behind the first off, in order, each to its end but the
\* last, which it says.
Describes(bs, off, meta) ==
  /\ meta \in Seq(Meta)
  /\ off + Len(meta) <= Len(bs)
  /\ \A j \in 1..Len(meta) :
       /\ meta[j].buf = bs[off + j].addr /\ meta[j].bufpos = bs[off + j].used
       /\ meta[j].data > 0 /\ meta[j].data <= Len(Data(bs[off + j]))
       /\ meta[j].complete <=> meta[j].data = Len(Data(bs[off + j]))
       /\ j < Len(meta) => meta[j].complete

\* What the first k buffers leave.
GatherInv(bs, off, skip, k, g) ==
  /\ g \in ReplyIOV
  /\ Describes(bs, off, g.meta)
  /\ off + Len(g.meta) <= k
  /\ Taken(bs, off, g.meta) <= Len(FlattenSeq(Contents(bs)))
  /\ FlattenSeq(g.iov) = Slice(FlattenSeq(Contents(bs)), skip, Taken(bs, off, g.meta))
  /\ Len(g.meta) > 0 => Taken(bs, off, g.meta) > skip
  /\ Len(g.meta) = 0 => ~g.limit
  /\ ~g.limit => /\ off + Len(g.meta) = k
                 /\ g.skip = (IF Len(g.meta) = 0 THEN skip ELSE 0)
                 /\ Len(g.iov) < IovMax
                 /\ Len(g.meta) > 0 => g.meta[Len(g.meta)].complete

\* One more buffer described.
LEMMA DescribesNext ==
  ASSUME NEW bs, NEW off, NEW skip, Writable(bs, off, skip),
         NEW meta, Describes(bs, off, meta), off + Len(meta) < Len(bs),
         Len(meta) > 0 => meta[Len(meta)].complete,
         NEW m \in Meta, m.buf = bs[off + Len(meta) + 1].addr,
         m.bufpos = bs[off + Len(meta) + 1].used,
         m.data > 0, m.data <= Len(Data(bs[off + Len(meta) + 1])),
         m.complete <=> m.data = Len(Data(bs[off + Len(meta) + 1]))
  PROVE  /\ Describes(bs, off, Append(meta, m))
         /\ Taken(bs, off, Append(meta, m))
              = Len(Prefix(Contents(bs), off + Len(meta))) + m.data
<1> DEFINE n == Len(meta)
           t == Append(meta, m)
<1>1. meta \in Seq(Meta) /\ n \in Nat /\ off \in Nat /\ Len(bs) \in Nat
  BY WritableFacts DEF Describes
<1>2. /\ t \in Seq(Meta) /\ Len(t) = n + 1 /\ t[n + 1] = m
      /\ \A j \in 1..n : t[j] = meta[j]
  BY <1>1, AppendProperties
<1> HIDE DEF t
<1>3. off + Len(t) <= Len(bs)
  BY <1>1, <1>2
<1>4. ASSUME NEW j \in 1..Len(t)
      PROVE  /\ t[j].buf = bs[off + j].addr /\ t[j].bufpos = bs[off + j].used
             /\ t[j].data > 0 /\ t[j].data <= Len(Data(bs[off + j]))
             /\ t[j].complete <=> t[j].data = Len(Data(bs[off + j]))
             /\ j < Len(t) => t[j].complete
  <2>1. CASE j = n + 1
    <3>1. t[j] = m /\ off + j = off + n + 1 /\ ~(j < Len(t))
      BY <1>1, <1>2, <2>1
    <3> QED BY <3>1
  <2>2. CASE j # n + 1
    <3>1. j \in 1..n /\ t[j] = meta[j]
      BY <1>1, <1>2, <2>2
    <3>2. /\ meta[j].buf = bs[off + j].addr /\ meta[j].bufpos = bs[off + j].used
          /\ meta[j].data > 0 /\ meta[j].data <= Len(Data(bs[off + j]))
          /\ meta[j].complete <=> meta[j].data = Len(Data(bs[off + j]))
          /\ j < n => meta[j].complete
      BY <3>1 DEF Describes
    <3>3. meta[j].complete
      <4>1. CASE j < n
        BY <3>2, <4>1
      <4>2. CASE j = n
        BY <1>1, <3>1, <4>2
      <4> QED BY <1>1, <3>1, <4>1, <4>2
    <3> QED BY <3>1, <3>2, <3>3
  <2> QED BY <2>1, <2>2
<1>5. Describes(bs, off, t)
  BY <1>2, <1>3, <1>4 DEF Describes
<1>6. Taken(bs, off, t) = Len(Prefix(Contents(bs), off + n)) + m.data
  <2>1. off + Len(t) - 1 = off + n /\ Len(t) # 0
    BY <1>1, <1>2
  <2> QED BY <1>2, <2>1 DEF Taken
<1> QED BY <1>5, <1>6 DEF t

\* One turn of writevToClient()'s loop.
LEMMA GatherStep ==
  ASSUME IovMax \in Nat, NEW bs, NEW off, NEW skip, Writable(bs, off, skip),
         NEW k \in off..(Len(bs) - 1), NEW g, GatherInv(bs, off, skip, k, g)
  PROVE  GatherInv(bs, off, skip, k + 1, ScatterBuffer(g, bs[k + 1]))
<1> DEFINE cs == Contents(bs)
           F == FlattenSeq(cs)
           b == bs[k + 1]
           n == Len(g.meta)
           h == ScatterBuffer(g, b)
           p == Len(Prefix(cs, k))
<1>1. /\ Len(bs) \in Nat /\ off \in Nat /\ off < Len(bs) /\ skip \in Nat
      /\ cs \in Seq(Bytes) /\ Len(cs) = Len(bs)
      /\ \A i \in 1..Len(bs) : cs[i] = Data(bs[i])
      /\ \A i \in 1..Len(bs) : Data(bs[i]) \in Bytes /\ Len(Data(bs[i])) \in Nat
      /\ \A i \in (off + 1)..Len(bs) : Len(Data(bs[i])) > 0
      /\ Len(Prefix(cs, off)) = 0
  BY WritableFacts
<1> HIDE DEF cs
<1>2. k \in Nat /\ k + 1 \in 1..Len(bs) /\ k + 1 > off /\ k + 1 \in (off + 1)..Len(bs)
  BY <1>1
<1>3. BufferInv(b) /\ b.addr \in Addrs /\ b.used > 0
  BY <1>2 DEF Writable
<1>4. /\ Data(b) \in Bytes /\ Len(Data(b)) \in Nat /\ Len(Data(b)) > 0 /\ cs[k + 1] = Data(b)
  BY <1>1, <1>2
<1>5. /\ g \in ReplyIOV /\ Describes(bs, off, g.meta) /\ off + n <= k
      /\ Taken(bs, off, g.meta) <= Len(F)
      /\ FlattenSeq(g.iov) = Slice(F, skip, Taken(bs, off, g.meta))
      /\ n > 0 => Taken(bs, off, g.meta) > skip
      /\ n = 0 => ~g.limit
      /\ ~g.limit => /\ off + n = k
                     /\ g.skip = (IF n = 0 THEN skip ELSE 0)
                     /\ Len(g.iov) < IovMax
                     /\ n > 0 => g.meta[n].complete
  BY DEF GatherInv, cs
<1>6. /\ g.limit \in BOOLEAN /\ g.meta \in Seq(Meta) /\ n \in Nat /\ g.iov \in Seq(Bytes)
      /\ g.skip \in Nat
  BY <1>5 DEF ReplyIOV
<1>7. CASE g.limit
  <2>1. h \in ReplyIOV /\ h.limit /\ h.meta = g.meta /\ h.iov = g.iov
    BY <1>3, <1>5, <1>7, BufferBeyondLimit
  <2> HIDE DEF h
  <2>2. n > 0 /\ off + n <= k + 1
    BY <1>1, <1>2, <1>5, <1>6, <1>7
  <2>3. GatherInv(bs, off, skip, k + 1, h)
    BY <1>5, <1>6, <2>1, <2>2 DEF GatherInv, cs
  <2> QED BY <2>3 DEF h
<1>8. CASE ~g.limit
  <2>1. /\ off + n = k /\ g.skip = (IF n = 0 THEN skip ELSE 0) /\ Len(g.iov) < IovMax
        /\ n > 0 => g.meta[n].complete
    BY <1>5, <1>8
  <2>2. g.skip < Len(Data(b))
    <3>1. CASE n = 0
      <4>1. skip < Len(Data(bs[off + 1]))
        BY DEF Writable
      <4> QED BY <1>1, <2>1, <3>1, <4>1
    <3>2. CASE n # 0
      BY <1>4, <2>1, <3>2
    <3> QED BY <3>1, <3>2
  <2>3. /\ h \in ReplyIOV /\ Len(h.iov) <= IovMax
        /\ \E m \in Meta :
             /\ h.meta = Append(g.meta, m)
             /\ m.buf = b.addr /\ m.bufpos = b.used
             /\ m.data > g.skip /\ m.data <= Len(Data(b))
             /\ m.complete <=> m.data = Len(Data(b))
             /\ FlattenSeq(h.iov) = FlattenSeq(g.iov) \o Slice(Data(b), g.skip, m.data)
             /\ ~h.limit => m.complete /\ h.skip = 0 /\ Len(h.iov) < IovMax
    BY <1>3, <1>5, <1>8, <2>1, <2>2, BufferScattered
  <2> HIDE DEF h
  <2>4. PICK m \in Meta :
             /\ h.meta = Append(g.meta, m)
             /\ m.buf = b.addr /\ m.bufpos = b.used
             /\ m.data > g.skip /\ m.data <= Len(Data(b))
             /\ m.complete <=> m.data = Len(Data(b))
             /\ FlattenSeq(h.iov) = FlattenSeq(g.iov) \o Slice(Data(b), g.skip, m.data)
             /\ ~h.limit => m.complete /\ h.skip = 0 /\ Len(h.iov) < IovMax
    BY <2>3
  <2>5. m.data \in Nat /\ m.data > 0
    BY <1>6, <2>4 DEF Meta
  <2>6. /\ Describes(bs, off, h.meta)
        /\ Taken(bs, off, h.meta) = p + m.data
    <3>1. b = bs[off + n + 1] /\ off + n < Len(bs)
      BY <1>1, <1>2, <2>1
    <3>2. /\ m.buf = bs[off + n + 1].addr /\ m.bufpos = bs[off + n + 1].used
          /\ m.data > 0 /\ m.data <= Len(Data(bs[off + n + 1]))
          /\ m.complete <=> m.data = Len(Data(bs[off + n + 1]))
      BY <2>4, <2>5, <3>1
    <3>3. /\ Describes(bs, off, Append(g.meta, m))
          /\ Taken(bs, off, Append(g.meta, m)) = Len(Prefix(Contents(bs), off + n)) + m.data
      BY <1>5, <2>1, <3>1, <3>2, DescribesNext, SMTT(30)
    <3> QED BY <2>1, <2>4, <3>3 DEF cs
  <2>7. /\ p \in Nat /\ p + m.data <= Len(F)
        /\ Slice(Data(b), g.skip, m.data) = Slice(F, p + g.skip, p + m.data)
    <3>1. k \in 0..(Len(cs) - 1) /\ m.data <= Len(cs[k + 1])
      BY <1>1, <1>2, <1>4, <2>4
    <3>2. /\ p \in Nat /\ p + m.data <= Len(F)
          /\ Slice(cs[k + 1], g.skip, m.data) = Slice(F, p + g.skip, p + m.data)
      <4> DEFINE l == g.skip
                 u == m.data
      <4>1. l \in Nat /\ u \in Nat /\ u <= Len(cs[k + 1])
        BY <1>6, <2>5, <3>1
      <4> HIDE DEF l, u
      <4>2. /\ p \in Nat /\ p + u <= Len(F)
            /\ Slice(cs[k + 1], l, u) = Slice(F, p + l, p + u)
        BY <1>1, <3>1, <4>1, SliceOfPart
      <4> QED BY <4>2 DEF l, u
    <3> QED BY <1>4, <3>2
  <2>8. F \in Bytes /\ Len(F) \in Nat
    BY <1>1, FlattenType, BytesFacts
  <2>9. Len(h.meta) = n + 1
    BY <1>6, <2>4
  <2>10. /\ FlattenSeq(h.iov) = Slice(F, skip, p + m.data)
         /\ p + m.data > skip
    <3>1. CASE n = 0
      <4>1. p = 0 /\ g.skip = skip /\ Taken(bs, off, g.meta) = 0
        <5>1. k = off
          BY <1>1, <2>1, <3>1
        <5> QED BY <1>1, <2>1, <3>1, <5>1 DEF Taken
      <4> DEFINE z == 0
                 x == Slice(F, skip, p + m.data)
      <4>2. Slice(F, skip, z) = <<>>
        <5>1. z \in Nat /\ z <= Len(F) /\ z <= skip
          BY <1>1, <2>8
        <5> HIDE DEF z
        <5> QED BY <1>1, <2>8, <5>1, SliceFacts
      <4>3. FlattenSeq(g.iov) = <<>>
        BY <1>5, <4>1, <4>2
      <4>4. x \in Bytes
        <5>1. p + m.data \in Nat
          BY <2>5, <2>7
        <5> QED BY <1>1, <2>7, <2>8, <5>1, SliceFacts
      <4>5. Slice(Data(b), g.skip, m.data) = x
        <5>1. p + g.skip = skip
          BY <1>1, <4>1
        <5> QED BY <2>7, <5>1
      <4> HIDE DEF x
      <4>6. FlattenSeq(h.iov) = x
        BY <2>4, <4>3, <4>4, <4>5, BytesFacts
      <4>7. p + m.data > skip
        BY <2>4, <2>5, <4>1
      <4> QED BY <4>6, <4>7 DEF x
    <3>2. CASE n # 0
      <4>1. g.skip = 0 /\ p + g.skip = p /\ n > 0
        BY <1>6, <2>1, <2>7, <3>2
      <4>2. Taken(bs, off, g.meta) = p
        <5>1. n \in 1..n /\ off + n = k
          BY <1>6, <2>1, <3>2
        <5>2. g.meta[n].data = Len(Data(bs[off + n]))
          <6>1. g.meta[n].complete <=> g.meta[n].data = Len(Data(bs[off + n]))
            BY <1>5, <5>1 DEF Describes
          <6> QED BY <2>1, <4>1, <6>1
        <5>3. k - 1 \in 0..(Len(cs) - 1) /\ (k - 1) + 1 = k /\ k \in 1..Len(bs)
          BY <1>1, <1>2, <1>6, <2>1, <3>2
        <5>4. p = Len(Prefix(cs, k - 1)) + Len(cs[k])
          BY <1>1, <5>3, PrefixNext
        <5>5. cs[k] = Data(bs[k])
          BY <1>1, <5>3
        <5>6. off + n - 1 = k - 1
          BY <1>1, <1>6, <5>1
        <5>7. Taken(bs, off, g.meta) = Len(Prefix(cs, off + n - 1)) + g.meta[n].data
          BY <3>2 DEF Taken, cs
        <5>8. g.meta[n].data = Len(cs[k])
          BY <5>1, <5>2, <5>5
        <5> QED BY <5>4, <5>6, <5>7, <5>8
      <4>3. p > skip
        BY <1>5, <4>1, <4>2
      <4>4. Slice(F, skip, p) \o Slice(F, p, p + m.data) = Slice(F, skip, p + m.data)
        <5>1. skip <= p /\ p <= p + m.data /\ p + m.data \in Nat
          BY <1>1, <2>5, <2>7, <4>3
        <5> DEFINE u == p + m.data
        <5>2. u \in Nat /\ p <= u /\ u <= Len(F) /\ skip <= p /\ p \in Nat /\ skip \in Nat
          BY <1>1, <2>7, <5>1
        <5> HIDE DEF u, F, p
        <5>3. Slice(F, skip, p) \o Slice(F, p, u) = Slice(F, skip, u)
          BY <2>8, <5>2, SliceJoin
        <5> QED BY <5>3 DEF u
      <4>5. p + m.data > skip
        BY <1>1, <2>5, <2>7, <4>3
      <4> QED BY <1>5, <2>4, <2>7, <4>1, <4>2, <4>4, <4>5
    <3> QED BY <3>1, <3>2
  <2>11. off + Len(h.meta) = k + 1 /\ Len(h.meta) # 0 /\ Len(h.meta) > 0
    BY <1>1, <1>6, <2>1, <2>9, SMTT(30)
  <2>12. h.meta[Len(h.meta)] = m
    BY <1>6, <2>4, <2>9
  <2>13. off + Len(h.meta) <= k + 1
    BY <1>2, <2>11
  <2>14. h.limit \in BOOLEAN
    BY <2>3 DEF ReplyIOV
  <2>15. ~h.limit => /\ off + Len(h.meta) = k + 1
                     /\ h.skip = (IF Len(h.meta) = 0 THEN skip ELSE 0)
                     /\ Len(h.iov) < IovMax
                     /\ Len(h.meta) > 0 => h.meta[Len(h.meta)].complete
    BY <2>4, <2>11, <2>12
  <2>16. GatherInv(bs, off, skip, k + 1, h)
    <3>1. /\ Taken(bs, off, h.meta) <= Len(FlattenSeq(Contents(bs)))
          /\ FlattenSeq(h.iov) = Slice(FlattenSeq(Contents(bs)), skip, Taken(bs, off, h.meta))
          /\ Taken(bs, off, h.meta) > skip
      BY <2>6, <2>7, <2>10 DEF cs
    <3> QED BY <2>3, <2>6, <2>11, <2>13, <2>15, <3>1, Zenon DEF GatherInv
  <2> QED BY <2>16 DEF h
<1> QED BY <1>6, <1>7, <1>8

\* What a write hands to the host: g describes at least one buffer, and its entries hold
\* the bytes of those it describes behind the skipped ones, at least one.
Covers(bs, off, skip, g) ==
  /\ g.iov \in Seq(Bytes)
  /\ Describes(bs, off, g.meta) /\ Len(g.meta) > 0
  /\ Taken(bs, off, g.meta) <= Len(FlattenSeq(Contents(bs)))
  /\ FlattenSeq(g.iov) = Slice(FlattenSeq(Contents(bs)), skip, Taken(bs, off, g.meta))
  /\ Taken(bs, off, g.meta) > skip

\* The loop: the iovec holds the bytes behind the bookmark, at least one.
LEMMA GatherCovers ==
  ASSUME IovMax \in Nat \ {0}, NEW off, Writable(Buffers, off, mark.data)
  PROVE  Covers(Buffers, off, mark.data, Gather)
<1> DEFINE bs == Buffers
           f == Gathering(bs)
           skip == mark.data
           P == {j \in Nat : off + j <= Len(bs) => GatherInv(bs, off, skip, off + j, f[off + j])}
<1>1. /\ Len(bs) \in Nat /\ off \in Nat /\ off < Len(bs) /\ skip \in Nat
      /\ Contents(bs) \in Seq(Bytes)
  BY WritableFacts
<1>2. f[0] = NoReplyIOV /\ \A i \in 1..Len(bs) : f[i] = ScatterBuffer(f[i - 1], bs[i])
  BY <1>1, GatheringSteps
<1> HIDE DEF f, bs
<1>3. f[off] = NoReplyIOV
  <2>1. CASE off = 0
    BY <1>2, <2>1
  <2>2. CASE off = 1
    <3>1. 1 \in 1..Len(bs) /\ 1 - 1 = 0 /\ 1 <= off
      BY <1>1, <2>2
    <3>2. bs[1].used = 0
      BY <3>1 DEF Writable, bs
    <3>3. f[1] = ScatterBuffer(NoReplyIOV, bs[1])
      BY <1>2, <3>1
    <3> QED BY <2>2, <3>2, <3>3 DEF ScatterBuffer
  <2> QED BY <2>1, <2>2 DEF Writable
<1>4. 0 \in P
  <2> DEFINE g == NoReplyIOV
  <2>1. /\ g \in ReplyIOV /\ g.meta = <<>> /\ g.iov = <<>> /\ g.skip = skip /\ g.limit = FALSE
    BY <1>1 DEF NoReplyIOV, ReplyIOV
  <2> HIDE DEF g
  <2>2. /\ Len(g.meta) = 0 /\ Len(g.iov) = 0 /\ g.meta \in Seq(Meta) /\ 1..Len(g.meta) = {}
    BY <2>1
  <2>3. Describes(bs, off, g.meta)
    BY <1>1, <2>2 DEF Describes
  <2>4. Taken(bs, off, g.meta) = 0
    BY <2>2 DEF Taken
  <2> DEFINE F == FlattenSeq(Contents(bs))
  <2>5. F \in Bytes /\ Len(F) \in Nat
    BY <1>1, FlattenType, BytesFacts
  <2>6. FlattenSeq(g.iov) = Slice(F, skip, 0)
    <3> DEFINE z == 0
    <3>1. z \in Nat /\ z <= Len(F) /\ z <= skip
      BY <1>1, <2>5
    <3> HIDE DEF z, F
    <3>2. Slice(F, skip, z) = <<>>
      BY <1>1, <2>5, <3>1, SliceFacts, ZenonT(40)
    <3> QED BY <2>1, <3>2, FlattenEmpty DEF z
  <2>7. off + Len(g.meta) = off /\ off <= off /\ 0 <= Len(F) /\ ~(Len(g.meta) > 0)
    BY <1>1, <2>2, <2>5
  <2>8. GatherInv(bs, off, skip, off, g)
    <3>1. Taken(bs, off, g.meta) <= Len(F) /\ FlattenSeq(g.iov) = Slice(F, skip, Taken(bs, off, g.meta))
      BY <2>4, <2>6, <2>7
    <3>2. Len(g.iov) < IovMax
      BY <2>2
    <3> QED BY <2>1, <2>2, <2>3, <2>7, <3>1, <3>2 DEF GatherInv
  <2> QED BY <1>1, <1>3, <2>8 DEF g
<1>5. ASSUME NEW j \in Nat, j \in P PROVE j + 1 \in P
  <2> SUFFICES ASSUME off + (j + 1) <= Len(bs)
               PROVE  GatherInv(bs, off, skip, off + (j + 1), f[off + (j + 1)])
    OBVIOUS
  <2> DEFINE k == off + j
  <2>1. /\ k <= Len(bs) /\ k \in off..(Len(bs) - 1) /\ off + (j + 1) = k + 1
        /\ k + 1 \in 1..Len(bs) /\ (k + 1) - 1 = k
    BY <1>1
  <2>2. GatherInv(bs, off, skip, k, f[k])
    BY <1>5, <2>1
  <2> HIDE DEF k
  <2>3. f[k + 1] = ScatterBuffer(f[k], bs[k + 1])
    BY <1>2, <2>1
  <2>4. GatherInv(bs, off, skip, k + 1, ScatterBuffer(f[k], bs[k + 1]))
    BY <2>1, <2>2, GatherStep DEF bs
  <2> QED BY <2>1, <2>3, <2>4
<1>6. Nat \subseteq P
  <2> HIDE DEF P
  <2> QED BY <1>4, <1>5, NatSetInduction
<1>7. GatherInv(bs, off, skip, Len(bs), f[Len(bs)])
  <2> DEFINE d == Len(bs) - off
  <2>1. d \in Nat /\ off + d = Len(bs) /\ off + d <= Len(bs)
    BY <1>1
  <2> HIDE DEF d
  <2>2. d \in P
    <3> HIDE DEF P
    <3> QED BY <1>6, <2>1
  <2>3. GatherInv(bs, off, skip, off + d, f[off + d])
    BY <2>1, <2>2
  <2> QED BY <2>1, <2>3
<1>8. Gather = f[Len(bs)]
  BY DEF Gather, f, bs
<1>9. GatherInv(bs, off, skip, Len(bs), Gather)
  BY <1>7, <1>8
<1>10. Len(Gather.meta) > 0
  <2>1. Gather.meta \in Seq(Meta) /\ Len(Gather.meta) \in Nat /\ Gather.limit \in BOOLEAN
    BY <1>9 DEF GatherInv, ReplyIOV
  <2>2. CASE Len(Gather.meta) = 0
    <3>1. ~Gather.limit
      BY <1>9, <2>2 DEF GatherInv
    <3>2. off + Len(Gather.meta) = Len(bs)
      BY <1>9, <3>1 DEF GatherInv
    <3> QED BY <1>1, <2>2, <3>2
  <2> QED BY <2>1, <2>2
<1> QED BY <1>9, <1>10 DEF GatherInv, Covers, ReplyIOV, bs

\* The plain path hands over the static buffer behind the bookmark.
LEMMA DirectCovers ==
  ASSUME reply = <<>>, ~buf.enc, Writable(Buffers, 0, mark.data)
  PROVE  Covers(Buffers, 0, mark.data, Direct)
<1> DEFINE D == Data(buf)
           x == SubSeq(D, mark.data + 1, buf.used)
           m == [buf |-> buf.addr, bufpos |-> buf.used, data |-> buf.used, complete |-> TRUE]
<1>1. Buffers = <<buf>> /\ Len(Buffers) = 1 /\ Buffers[1] = buf
  BY DEF Buffers
<1>2. BufferInv(buf) /\ buf.addr \in Addrs /\ buf.used > 0 /\ mark.data < Len(D) /\ mark.data \in Nat
  BY <1>1 DEF Writable
<1>3. D \in Bytes /\ Len(D) \in Nat /\ buf.used \in Nat /\ buf.used = Len(D)
  BY <1>2, BufferData DEF BufferInv
<1>4. Contents(Buffers) = <<D>>
  BY <1>1 DEF Contents
<1>5. FlattenSeq(Contents(Buffers)) = D
  BY <1>3, <1>4, FlattenOne
<1>6. Prefix(Contents(Buffers), 0) = <<>>
  <2>1. Contents(Buffers) \in Seq(Bytes)
    BY <1>3, <1>4
  <2> QED BY <2>1, PrefixEnds
<1>7. x = Slice(D, mark.data, Len(D)) /\ x \in Bytes
  <2>1. x = Slice(D, mark.data, Len(D))
    BY <1>3 DEF Slice
  <2>2. Len(D) <= Len(D)
    BY <1>3
  <2>3. Slice(D, mark.data, Len(D)) \in Bytes
    <3> HIDE DEF D
    <3> DEFINE l == mark.data
               u == Len(D)
    <3>1. D \in Bytes /\ l \in Nat /\ u \in Nat /\ u <= Len(D)
      BY <1>2, <1>3, <2>2
    <3> HIDE DEF l, u
    <3>2. Slice(D, l, u) \in Bytes
      BY <3>1, SliceFacts
    <3> QED BY <3>2 DEF l, u
  <2> QED BY <2>1, <2>3
<1>8. Direct.iov = <<x>> /\ Direct.meta = <<m>>
  BY DEF Direct
<1>9. m \in Meta /\ m.buf = buf.addr /\ m.bufpos = buf.used /\ m.data = buf.used /\ m.complete = TRUE
  BY <1>2, <1>3 DEF Meta
<1> HIDE DEF x, m, D
<1>10. FlattenSeq(Direct.iov) = x /\ Direct.iov \in Seq(Bytes)
  BY <1>7, <1>8, FlattenOne
<1>11. Len(Direct.meta) = 1 /\ Direct.meta[1] = m /\ Direct.meta \in Seq(Meta) /\ 0 + 1 = 1
  BY <1>8, <1>9
<1>12. Taken(Buffers, 0, Direct.meta) = Len(D)
  <2>1. Taken(Buffers, 0, Direct.meta) = Len(Prefix(Contents(Buffers), 0 + 1 - 1)) + m.data
    BY <1>11 DEF Taken
  <2>2. 0 + 1 - 1 = 0 /\ Len(<<>>) = 0
    OBVIOUS
  <2> QED BY <1>3, <1>6, <1>9, <2>1, <2>2
<1>13. Describes(Buffers, 0, Direct.meta)
  <2>1. ASSUME NEW j \in 1..Len(Direct.meta) PROVE j = 1 /\ 0 + j = 1 /\ ~(j < Len(Direct.meta))
    BY <1>11
  <2>2. m.data > 0 /\ m.data <= Len(Data(buf)) /\ m.data = Len(Data(buf))
    BY <1>2, <1>3, <1>9 DEF D
  <2>3. 0 + Len(Direct.meta) <= Len(Buffers)
    BY <1>1, <1>11
  <2> QED BY <1>1, <1>9, <1>11, <2>1, <2>2, <2>3 DEF Describes
<1>14. Len(D) > mark.data /\ Len(D) <= Len(D) /\ Len(Direct.meta) > 0
  BY <1>2, <1>3, <1>11 DEF D
<1> QED BY <1>5, <1>7, <1>10, <1>12, <1>13, <1>14 DEF Covers

-----------------------------------------------------------------------------
(* The bookmark.                                                           *)

\* The running sums that saveLastWrittenBuf() compares with the bytes written.
LEMMA UptoValues ==
  ASSUME NEW bs, NEW off, NEW skip, Writable(bs, off, skip),
         NEW meta, Describes(bs, off, meta), Len(meta) > 0
  PROVE  \A i \in 0..Len(meta) :
           Upto(meta)[i] = IF i = Len(meta) THEN Taken(bs, off, meta)
                           ELSE Len(Prefix(Contents(bs), off + i))
<1> DEFINE n == Len(meta)
           cs == Contents(bs)
           f == Upto(meta)
           V(i) == IF i = n THEN Taken(bs, off, meta) ELSE Len(Prefix(cs, off + i))
           P == {i \in Nat : i <= n => f[i] = V(i)}
<1>1. /\ Len(bs) \in Nat /\ off \in Nat
      /\ cs \in Seq(Bytes) /\ Len(cs) = Len(bs)
      /\ \A i \in 1..Len(bs) : cs[i] = Data(bs[i])
      /\ Len(Prefix(cs, off)) = 0
  BY WritableFacts
<1>2. n \in Nat /\ off + n <= Len(bs)
  BY DEF Describes
<1>3. f[0] = 0 /\ \A i \in 1..n : f[i] = f[i - 1] + meta[i].data
  BY <1>2, UptoSteps
<1> HIDE DEF f, cs
<1>4. 0 \in P
  <2>1. off + 0 = off /\ 0 # n
    BY <1>1
  <2> QED BY <1>1, <1>3, <2>1
<1>5. ASSUME NEW i \in Nat, i \in P PROVE i + 1 \in P
  <2> SUFFICES ASSUME i + 1 <= n PROVE f[i + 1] = V(i + 1)
    OBVIOUS
  <2>1. i <= n /\ i # n /\ i + 1 \in 1..n /\ (i + 1) - 1 = i
    BY <1>2
  <2>2. f[i] = Len(Prefix(cs, off + i))
    BY <1>5, <2>1
  <2>3. f[i + 1] = Len(Prefix(cs, off + i)) + meta[i + 1].data
    BY <1>3, <2>1, <2>2
  <2>4. CASE i + 1 = n
    <3>1. off + n - 1 = off + i
      BY <1>1, <1>2, <2>4
    <3>2. Taken(bs, off, meta) = Len(Prefix(cs, off + n - 1)) + meta[n].data
      BY DEF Taken, cs
    <3> QED BY <2>3, <2>4, <3>1, <3>2
  <2>5. CASE i + 1 # n
    <3>1. i + 1 < n
      BY <1>2, <2>5
    <3>2. meta[i + 1].data = Len(Data(bs[off + (i + 1)]))
      BY <2>1, <3>1 DEF Describes
    <3>3. /\ off + i \in 0..(Len(cs) - 1) /\ (off + i) + 1 = off + (i + 1)
          /\ off + (i + 1) \in 1..Len(bs)
      BY <1>1, <1>2, <3>1
    <3>4. Len(Prefix(cs, off + (i + 1))) = Len(Prefix(cs, off + i)) + Len(cs[off + (i + 1)])
      <4> DEFINE k == off + i
      <4>1. k \in 0..(Len(cs) - 1) /\ k + 1 = off + (i + 1)
        BY <3>3
      <4> HIDE DEF k
      <4>2. Len(Prefix(cs, k + 1)) = Len(Prefix(cs, k)) + Len(cs[k + 1])
        BY <1>1, <4>1, PrefixNext
      <4> QED BY <4>1, <4>2 DEF k
    <3>5. cs[off + (i + 1)] = Data(bs[off + (i + 1)])
      BY <1>1, <3>3
    <3> QED BY <2>3, <2>5, <3>2, <3>4, <3>5
  <2> QED BY <2>4, <2>5
<1>6. Nat \subseteq P
  <2> HIDE DEF P
  <2> QED BY <1>4, <1>5, NatSetInduction
<1>7. \A i \in 0..n : f[i] = V(i)
  BY <1>2, <1>6
<1> QED BY <1>7 DEF f, cs

\* A non-empty set of numbers has a least element.
LEMMA LeastElement ==
  ASSUME NEW T, T \subseteq Nat, T # {}
  PROVE  \E x \in T : \A y \in T : x <= y
<1> DEFINE R == OpToRel(<, Nat)
<1>1. IsWellFoundedOn(R, Nat)
  BY NatLessThanWellFounded
<1>2. \A y, x \in Nat : y < x => <<y, x>> \in R
  BY DEF OpToRel
<1> HIDE DEF R
<1>3. PICK x \in T : \A y \in T : ~ (<<y, x>> \in R)
  BY <1>1, WFMin
<1>4. ASSUME NEW y \in T PROVE x <= y
  <2>1. x \in Nat /\ y \in Nat
    OBVIOUS
  <2>2. ~(y < x)
    BY <1>2, <1>3, <2>1
  <2> QED BY <2>1, <2>2
<1> QED BY <1>4

\* The bookmark m after tot more bytes: they end in the buffer q of bs, at its end or before.
SavedAt(bs, m, q, tot) ==
  /\ m.buf = bs[q].addr
  /\ m.data \in Nat /\ m.data > 0 /\ m.data <= Len(Data(bs[q]))
  /\ tot + mark.data = Len(Prefix(Contents(bs), q - 1)) + m.data
  /\ m.bufpos = IF m.data = Len(Data(bs[q])) THEN bs[q].used ELSE 0
  /\ m = [buf |-> m.buf, bufpos |-> m.bufpos, data |-> m.data]

\* After tot bytes the bookmark names the buffer in which they end, with the bytes of it
\* that are written; its bufpos says whether these are all.
LEMMA SavedMark ==
  ASSUME NEW bs, NEW off, Writable(bs, off, mark.data),
         NEW g, Covers(bs, off, mark.data, g),
         NEW tot \in 1..Len(FlattenSeq(g.iov))
  PROVE  \E q \in (off + 1)..Len(bs) : SavedAt(bs, SaveLastWritten(g, tot), q, tot)
<1> DEFINE n == Len(g.meta)
           cs == Contents(bs)
           F == FlattenSeq(cs)
           upto == Upto(g.meta)
           whole == tot = Len(FlattenSeq(g.iov))
           goal == tot + mark.data
           C(i) == upto[i] >= goal /\ \A j \in 1..(i - 1) : upto[j] < goal
           last == IF whole THEN n ELSE CHOOSE i \in DOMAIN g.meta : C(i)
           sum == Taken(bs, off, g.meta)
<1>1. /\ Len(bs) \in Nat /\ off \in Nat /\ mark.data \in Nat
      /\ cs \in Seq(Bytes) /\ Len(cs) = Len(bs)
      /\ \A i \in 1..Len(bs) : cs[i] = Data(bs[i])
      /\ \A i \in 1..Len(bs) : Data(bs[i]) \in Bytes /\ Len(Data(bs[i])) \in Nat
      /\ Len(Prefix(cs, off)) = 0
  BY WritableFacts
<1>2. /\ Describes(bs, off, g.meta) /\ n > 0 /\ sum <= Len(F) /\ sum > mark.data
      /\ FlattenSeq(g.iov) = Slice(F, mark.data, sum)
  BY DEF Covers
<1>3. g.meta \in Seq(Meta) /\ n \in Nat /\ off + n <= Len(bs) /\ DOMAIN g.meta = 1..n
  BY <1>2 DEF Describes
<1>4. \A i \in 0..n : upto[i] = IF i = n THEN sum ELSE Len(Prefix(cs, off + i))
  BY <1>2, UptoValues
<1> HIDE DEF cs, upto
<1>5. /\ \A i \in 0..n : Len(Prefix(cs, off + i)) \in Nat
      /\ \A i \in 1..n : upto[i - 1] = Len(Prefix(cs, off + i - 1))
      /\ \A i \in 1..n : upto[i] = upto[i - 1] + g.meta[i].data
      /\ upto[0] = 0
  <2>1. ASSUME NEW i \in 0..n PROVE Len(Prefix(cs, off + i)) \in Nat
    <3>1. off + i \in 0..Len(cs)
      BY <1>1, <1>3
    <3>2. Prefix(cs, off + i) \in Bytes
      BY <1>1, <3>1, FlattenCut
    <3> QED BY <3>2, BytesFacts
  <2>2. ASSUME NEW i \in 1..n PROVE upto[i - 1] = Len(Prefix(cs, off + i - 1))
    <3>1. i - 1 \in 0..n /\ i - 1 # n /\ off + (i - 1) = off + i - 1
      BY <1>1, <1>3
    <3> QED BY <1>4, <3>1
  <2>3. upto[0] = 0 /\ \A i \in 1..n : upto[i] = upto[i - 1] + g.meta[i].data
    BY <1>3, UptoSteps DEF upto
  <2> QED BY <2>1, <2>2, <2>3
<1>6. \A i \in 1..n : g.meta[i].data \in Nat /\ g.meta[i].data > 0
  <2> TAKE i \in 1..n
  <2>1. g.meta[i] \in Meta
    BY <1>3
  <2>2. g.meta[i].data > 0
    BY <1>2 DEF Describes
  <2> QED BY <2>1, <2>2 DEF Meta
<1>7. \A i \in 0..n : upto[i] \in Nat
  <2>1. sum \in Nat
    <3>1. n \in 1..n /\ upto[n] = sum
      BY <1>2, <1>3, <1>4
    <3>2. upto[n] = upto[n - 1] + g.meta[n].data /\ upto[n - 1] = Len(Prefix(cs, off + n - 1))
      BY <1>5, <3>1
    <3>3. n - 1 \in 0..n /\ off + (n - 1) = off + n - 1
      BY <1>1, <1>3, <3>1
    <3>4. Len(Prefix(cs, off + n - 1)) \in Nat
      BY <1>5, <3>3
    <3> QED BY <1>6, <3>1, <3>2, <3>4
  <2> QED BY <1>4, <1>5, <2>1
<1>8. sum \in Nat /\ upto[n] = sum
  <2>1. n \in 0..n
    BY <1>3
  <2>2. upto[n] = sum
    BY <1>4, <2>1
  <2> QED BY <1>7, <2>1, <2>2
<1>9. /\ tot \in Nat /\ goal \in Nat /\ goal <= sum /\ goal > 0
      /\ whole => goal = sum
  <2>1. F \in Bytes
    BY <1>1, FlattenType
  <2>2. Len(FlattenSeq(g.iov)) = sum - mark.data
    <3> DEFINE l == mark.data
               u == sum
    <3>1. l \in Nat /\ u \in Nat /\ u <= Len(F) /\ l <= u
      BY <1>1, <1>2, <1>8
    <3> HIDE DEF l, u, F
    <3>2. Len(Slice(F, l, u)) = u - l
      BY <2>1, <3>1, SliceFacts
    <3> QED BY <1>2, <3>2 DEF l, u
  <2> QED BY <1>1, <1>2, <1>8, <2>2
<1>10. last \in 1..n /\ upto[last] >= goal /\ upto[last - 1] < goal
  <2>1. CASE whole
    <3>1. last = n /\ n \in 1..n /\ n - 1 \in 0..n
      BY <1>2, <1>3, <2>1
    <3>2. upto[n] = sum /\ goal = sum /\ upto[n] = upto[n - 1] + g.meta[n].data
      BY <1>5, <1>8, <1>9, <2>1, <3>1
    <3>3. upto[n - 1] \in Nat /\ g.meta[n].data \in Nat /\ g.meta[n].data > 0
      BY <1>6, <1>7, <3>1
    <3> HIDE DEF last, goal, sum
    <3> QED BY <1>8, <3>1, <3>2, <3>3
  <2>2. CASE ~whole
    <3> DEFINE T == {i \in 1..n : upto[i] >= goal}
    <3>1. n \in T /\ T \subseteq Nat
      BY <1>2, <1>3, <1>8, <1>9
    <3>2. PICK x \in T : \A y \in T : x <= y
      BY <3>1, LeastElement
    <3>3. C(x)
      <4>1. ASSUME NEW j \in 1..(x - 1) PROVE upto[j] < goal
        <5>1. j \in 1..n /\ j \in 0..n /\ ~(x <= j)
          BY <1>3
        <5>2. j \notin T
          BY <3>2, <5>1
        <5> QED BY <1>7, <1>9, <5>1, <5>2
      <4> QED BY <4>1
    <3>4. x \in DOMAIN g.meta
      BY <1>3
    <3> DEFINE w == CHOOSE i \in DOMAIN g.meta : C(i)
    <3>5. w \in DOMAIN g.meta /\ C(w)
      <4> HIDE DEF C
      <4> QED BY <3>3, <3>4
    <3>6. last = w
      BY <2>2
    <3> HIDE DEF w, last
    <3>7. last \in 1..n /\ C(last)
      BY <1>3, <3>5, <3>6
    <3>8. upto[last - 1] < goal
      <4>1. CASE last = 1
        <5>1. last - 1 = 0
          BY <4>1
        <5> QED BY <1>5, <1>9, <5>1
      <4>2. CASE last # 1
        <5>1. last - 1 \in 1..(last - 1)
          BY <1>3, <3>7, <4>2
        <5> QED BY <3>7, <5>1
      <4> QED BY <4>1, <4>2
    <3> QED BY <3>7, <3>8
  <2> QED BY <2>1, <2>2
<1> DEFINE m == SaveLastWritten(g, tot)
           x == g.meta[last]
<1>11. m = [buf    |-> x.buf,
            bufpos |-> IF x.complete /\ (whole \/ upto[last] = goal) THEN x.bufpos ELSE 0,
            data   |-> IF whole THEN x.data ELSE x.data - (upto[last] - goal)]
  BY DEF SaveLastWritten, upto
<1>12. whole => upto[last] = goal
  BY <1>8, <1>9
<1> HIDE DEF last, m, whole, goal
<1>13. /\ m.buf = x.buf
       /\ m.bufpos = IF x.complete /\ (whole \/ upto[last] = goal) THEN x.bufpos ELSE 0
       /\ m.data = IF whole THEN x.data ELSE x.data - (upto[last] - goal)
       /\ m = [buf |-> m.buf, bufpos |-> m.bufpos, data |-> m.data]
  BY <1>11
<1> DEFINE q == off + last
<1>14. /\ q \in (off + 1)..Len(bs) /\ q \in 1..Len(bs) /\ last - 1 \in 0..n /\ last \in 0..n
       /\ q - 1 = off + last - 1
  BY <1>1, <1>3, <1>10
<1>15. /\ x.buf = bs[q].addr /\ x.bufpos = bs[q].used
       /\ x.data > 0 /\ x.data <= Len(Data(bs[q])) /\ x.data \in Nat
       /\ x.complete <=> x.data = Len(Data(bs[q]))
  BY <1>2, <1>3, <1>6, <1>10 DEF Describes
<1>16. /\ upto[last] = upto[last - 1] + x.data
       /\ upto[last - 1] = Len(Prefix(cs, q - 1))
       /\ upto[last - 1] \in Nat /\ upto[last] \in Nat
  BY <1>5, <1>7, <1>10, <1>14
<1> HIDE DEF x, q
<1>17. m.data = goal - upto[last - 1]
  <2>1. CASE whole
    BY <1>9, <1>12, <1>13, <1>15, <1>16, <2>1
  <2>2. CASE ~whole
    BY <1>9, <1>13, <1>15, <1>16, <2>2
  <2> QED BY <2>1, <2>2
<1>18. m.data \in Nat /\ m.data > 0 /\ m.data <= x.data /\ goal = upto[last - 1] + m.data
  BY <1>9, <1>10, <1>15, <1>16, <1>17, SMTT(30)
<1>19. (upto[last] = goal) <=> (m.data = x.data)
  BY <1>9, <1>15, <1>16, <1>18
<1>20. m.bufpos = IF m.data = Len(Data(bs[q])) THEN bs[q].used ELSE 0
  <2>1. Len(Data(bs[q])) \in Nat
    BY <1>1, <1>14
  <2>2. CASE m.data = Len(Data(bs[q]))
    <3>1. x.data = Len(Data(bs[q])) /\ upto[last] = goal
      BY <1>15, <1>18, <1>19, <2>1, <2>2
    <3> QED BY <1>13, <1>15, <2>2, <3>1
  <2>3. CASE m.data # Len(Data(bs[q]))
    <3>1. ~(x.complete /\ upto[last] = goal)
      BY <1>15, <1>19, <2>3
    <3>2. ~(x.complete /\ (whole \/ upto[last] = goal))
      BY <1>12, <3>1
    <3> QED BY <1>13, <2>3, <3>2
  <2> QED BY <2>2, <2>3
<1>21. m.data <= Len(Data(bs[q]))
  <2>1. Len(Data(bs[q])) \in Nat
    BY <1>1, <1>14
  <2> QED BY <1>15, <1>18, <2>1
<1>22. tot + mark.data = Len(Prefix(Contents(bs), q - 1)) + m.data
  BY <1>16, <1>18 DEF goal, cs
<1>23. SavedAt(bs, m, q, tot)
  BY <1>13, <1>15, <1>18, <1>20, <1>21, <1>22 DEF SavedAt
<1> QED BY <1>14, <1>23 DEF m

-----------------------------------------------------------------------------
(* The inductive invariant.                                                *)

\* A list of buffers beside the static buffer at address a: only the placeholder is
\* empty, and no two buffers share an address.
GoodList(r, a) ==
  /\ r \in Seq(Buffer)
  /\ \A i \in 1..Len(r) :
       /\ BufferInv(r[i])
       /\ r[i].addr = NoAddr <=> r[i].used = 0
       /\ r[i].addr # a
  /\ \A i, j \in 1..Len(r) : r[i].addr = r[j].addr => i = j

HasPlaceholder(r) == \E i \in 1..Len(r) : r[i].addr = NoAddr

\* The contents of a list, the deferred bytes d where their placeholder is.
Pieces(r, d) == [i \in 1..Len(r) |-> IF r[i].addr = NoAddr THEN d ELSE Data(r[i])]
Held(r, d) == FlattenSeq(Pieces(r, d))

\* The bookmark m names the first buffer with content, and ends inside it.
Marks(m, b, r) ==
  /\ m = [buf |-> m.buf, bufpos |-> 0, data |-> m.data]
  /\ m.data \in Nat
  /\ m # NoMark =>
       /\ m.buf \in Addrs /\ m.data > 0
       /\ b.used > 0 => m.buf = b.addr /\ m.data < Len(Data(b))
       /\ b.used = 0 => Len(r) > 0 /\ m.buf = r[1].addr /\ m.data < Len(Data(r[1]))

BufInv ==
  /\ BufferInv(buf) /\ buf.addr \in Addrs /\ buf.size <= BufSize
  /\ peak \in Nat /\ buf.used <= peak /\ peak <= BufSize

\* The placeholder is there while a length is deferred.
ListInv == GoodList(reply, buf.addr) /\ (deferred # <<>> <=> HasPlaceholder(reply))

MarkInv == Marks(mark, buf, reply)

\* The wire and the buffers, in this order and without what both hold, are the stream.
StreamInv ==
  /\ deferred \in Bytes /\ wire \in Bytes /\ added \in Nat /\ added <= MaxBytes
  /\ wire = Interval(0, Len(wire))
  /\ mark.data <= Len(wire) /\ Len(wire) - mark.data <= added
  /\ Data(buf) \o Held(reply, deferred)
       = Interval(Len(wire) - mark.data, added - (Len(wire) - mark.data))

Inv == BufInv /\ ListInv /\ MarkInv /\ StreamInv

-----------------------------------------------------------------------------
(* What the operations on one buffer do to its content.                    *)

\* A buffer that something was added to.
Changed(b, n, o, v) == [b EXCEPT !.used = n, !.open = o, !.iov = v]

\* What makes it satisfy the invariant of a buffer.
LEMMA BufferIntro ==
  ASSUME NEW b \in Buffer, NEW n \in Nat, NEW o \in BOOLEAN, NEW v \in Seq(Bytes)
  PROVE  /\ Changed(b, n, o, v) \in Buffer
         /\ Changed(b, n, o, v).addr = b.addr
         /\ Changed(b, n, o, v).enc = b.enc
         /\ Changed(b, n, o, v).size = b.size
         /\ Changed(b, n, o, v).used = n
         /\ Changed(b, n, o, v).iov = v
<1> DEFINE c == Changed(b, n, o, v)
<1>1. c.addr = b.addr /\ c.enc = b.enc /\ c.size = b.size
  BY DEF Buffer, Changed
<1>2. c.used = n /\ c.open = o /\ c.iov = v
  BY DEF Buffer, Changed
<1>3. c \in Buffer
  BY DEF Buffer, Changed
<1> QED BY <1>1, <1>2, <1>3

\* Entries put behind entries.
LEMMA EntriesJoined ==
  ASSUME NEW s \in Seq(Bytes), NEW t \in Seq(Bytes),
         \A i \in 1..Len(s) : s[i] # <<>>, \A i \in 1..Len(t) : t[i] # <<>>
  PROVE  /\ s \o t \in Seq(Bytes) /\ Len(s \o t) = Len(s) + Len(t)
         /\ \A i \in 1..Len(s \o t) : (s \o t)[i] # <<>>
<1> DEFINE v == s \o t
<1>1. /\ v \in Seq(Bytes) /\ Len(v) = Len(s) + Len(t)
      /\ \A i \in 1..(Len(s) + Len(t)) : v[i] = IF i <= Len(s) THEN s[i] ELSE t[i - Len(s)]
  BY ConcatProperties
<1>2. Len(s) \in Nat /\ Len(t) \in Nat
  OBVIOUS
<1> HIDE DEF v
<1>3. ASSUME NEW i \in 1..Len(v) PROVE v[i] # <<>>
  <2>1. CASE i <= Len(s)
    <3>1. i \in 1..Len(s)
      BY <1>1, <1>2, <2>1
    <3> QED BY <1>1, <2>1, <3>1
  <2>2. CASE ~(i <= Len(s))
    <3>1. i - Len(s) \in 1..Len(t)
      BY <1>1, <1>2, <2>2
    <3> QED BY <1>1, <2>2, <3>1
  <2> QED BY <2>1, <2>2
<1> QED BY <1>1, <1>3 DEF v

\* Bytes appended to a buffer are its last ones.
LEMMA PutPlainFacts ==
  ASSUME NEW b, BufferInv(b), NEW s \in Bytes, b.used + Len(s) <= b.size
  PROVE  LET c == PutPlain(b, s)
         IN /\ BufferInv(c)
            /\ Data(c) = Data(b) \o s
            /\ c.addr = b.addr /\ c.size = b.size
            /\ c.used = b.used + Len(s)
<1> DEFINE c == PutPlain(b, s)
<1>1. /\ b.iov \in Seq(Bytes) /\ Data(b) \in Bytes /\ Len(Data(b)) \in Nat
      /\ b.used \in Nat /\ b.size \in Nat /\ b.enc \in BOOLEAN /\ b.open \in BOOLEAN
  BY BufferData
<1>2. s \in Seq(Nat) /\ Len(s) \in Nat
  BY DEF Bytes
<1>3. CASE s = <<>>
  <2>1. c = b
    BY <1>3 DEF PutPlain
  <2>2. Data(b) \o s = Data(b)
    BY <1>1, <1>3, BytesFacts
  <2>3. b.used + Len(s) = b.used
    BY <1>1, <1>3
  <2> QED BY <2>1, <2>2, <2>3
<1>4. CASE s # <<>>
  <2> DEFINE n == Len(b.iov)
             grow == b.iov # <<>> /\ (b.open \/ ~b.enc)
             v == IF grow THEN Lengthened(b.iov, s) ELSE Append(b.iov, s)
             u == b.used + Len(s)
  <2>1. Len(s) > 0
    BY <1>2, <1>4
  <2>2. c = [b EXCEPT !.used = u, !.open = TRUE, !.iov = v]
    BY <1>4, Zenon DEF PutPlain
  <2>3. /\ v \in Seq(Bytes) /\ v # <<>>
        /\ \A i \in 1..Len(v) : v[i] # <<>>
        /\ FlattenSeq(v) = FlattenSeq(b.iov) \o s
        /\ ~b.enc => Len(v) <= 1
    <3>1. CASE grow
      <4>1. n \in 1..n /\ n \in Nat
        BY <1>1, <3>1
      <4>2. b.iov[n] \in Bytes
        BY <1>1, <4>1
      <4> DEFINE x == b.iov[n] \o s
      <4>3. x \in Bytes /\ Len(x) = Len(b.iov[n]) + Len(s) /\ Len(b.iov[n]) \in Nat
        BY <4>2, BytesFacts
      <4>4. x # <<>>
        <5>1. Len(x) # 0
          BY <1>2, <2>1, <4>3
        <5> HIDE DEF x
        <5> QED BY <5>1
      <4>5. v = [b.iov EXCEPT ![n] = x]
        BY <3>1 DEF Lengthened
      <4>6. x = b.iov[n] \o s
        OBVIOUS
      <4> HIDE DEF x, v
      <4>7. /\ v \in Seq(Bytes) /\ Len(v) = n
            /\ \A j \in 1..n : v[j] = IF j = n THEN x ELSE b.iov[j]
        BY <1>1, <4>1, <4>3, <4>5, ExceptSeq
      <4>8. FlattenSeq(v) = FlattenSeq(b.iov) \o s
        <5>1. \A i \in 1..(n - 1) : v[i] = b.iov[i]
          BY <4>1, <4>7
        <5>2. v[n] = b.iov[n] \o s /\ b.iov # <<>>
          BY <3>1, <4>1, <4>6, <4>7
        <5> QED BY <1>1, <4>7, <5>1, <5>2, FlattenLast
      <4>9. \A i \in 1..Len(v) : v[i] # <<>>
        BY <4>4, <4>7 DEF BufferInv
      <4>10. ~b.enc => Len(v) <= 1
        BY <4>7 DEF BufferInv
      <4>11. v # <<>>
        BY <4>1, <4>7
      <4> QED BY <4>7, <4>8, <4>9, <4>10, <4>11
    <3>2. CASE ~grow
      <4>1. v = Append(b.iov, s)
        BY <3>2
      <4> HIDE DEF v
      <4>2. /\ v \in Seq(Bytes) /\ Len(v) = n + 1 /\ v # <<>> /\ v[n + 1] = s
            /\ \A i \in 1..n : v[i] = b.iov[i]
        BY <1>1, <4>1, AppendProperties
      <4>3. FlattenSeq(v) = FlattenSeq(b.iov) \o s
        BY <1>1, <4>1, FlattenAppend
      <4>4. \A i \in 1..Len(v) : v[i] # <<>>
        <5> TAKE i \in 1..Len(v)
        <5>1. CASE i = n + 1
          BY <1>4, <4>2, <5>1
        <5>2. CASE i # n + 1
          <6>1. i \in 1..n
            BY <1>1, <4>2, <5>2
          <6> QED BY <4>2, <6>1 DEF BufferInv
        <5> QED BY <5>1, <5>2
      <4>5. ~b.enc => Len(v) <= 1
        <5>1. ~b.enc => b.iov = <<>>
          BY <3>2
        <5>2. b.iov = <<>> => n = 0
          OBVIOUS
        <5> QED BY <4>2, <5>1, <5>2
      <4> QED BY <4>2, <4>3, <4>4, <4>5
    <3> QED BY <3>1, <3>2
  <2>4. u \in Nat /\ u # 0 /\ u <= b.size
    BY <1>1, <1>2, <2>1
  <2> HIDE DEF v, u, c
  <2>5. /\ c \in Buffer /\ c.addr = b.addr /\ c.enc = b.enc /\ c.size = b.size
        /\ c.used = u /\ c.iov = v
    <3> DEFINE o == TRUE
    <3>1. b \in Buffer /\ o \in BOOLEAN
      BY DEF BufferInv
    <3>2. c = Changed(b, u, o, v)
      BY <2>2, Zenon DEF Changed
    <3> HIDE DEF o
    <3>3. u \in Nat /\ v \in Seq(Bytes)
      BY <2>3, <2>4, Zenon
    <3>4. /\ Changed(b, u, o, v) \in Buffer
          /\ Changed(b, u, o, v).addr = b.addr
          /\ Changed(b, u, o, v).enc = b.enc
          /\ Changed(b, u, o, v).size = b.size
          /\ Changed(b, u, o, v).used = u
          /\ Changed(b, u, o, v).iov = v
      BY <3>1, <3>3, BufferIntro
    <3> QED BY <3>2, <3>4, Zenon
  <2>6. Data(c) = Data(b) \o s
    BY <2>3, <2>5 DEF Data
  <2>7. ~c.enc => c.used = Len(Data(c)) /\ Len(c.iov) <= 1
    <3>1. Len(Data(b) \o s) = Len(Data(b)) + Len(s)
      BY <1>1, BytesFacts
    <3>2. ~b.enc => b.used = Len(Data(b))
      BY DEF BufferInv
    <3> QED BY <2>3, <2>5, <2>6, <3>1, <3>2 DEF u
  <2>8. BufferInv(c)
    BY <2>3, <2>4, <2>5, <2>7 DEF BufferInv
  <2> QED BY <2>5, <2>6, <2>8 DEF c, u
<1> QED BY <1>3, <1>4

\* A reference stands for its prefix, its string and its CRLF.
Triple == {s \in Bytes : Len(s) = 3}

\* A reference appended to an encoded buffer stands for its last three bytes.
LEMMA PutRefFacts ==
  ASSUME NEW b, BufferInv(b), b.enc = TRUE, b.used < b.size, NEW s \in Triple
  PROVE  LET c == PutRef(b, s)
         IN /\ BufferInv(c)
            /\ Data(c) = Data(b) \o s
            /\ c.addr = b.addr /\ c.size = b.size
            /\ c.used = b.used + 1
<1> DEFINE c == PutRef(b, s)
           t == << <<s[1]>>, <<s[2]>>, <<s[3]>> >>
           v == b.iov \o t
           u == b.used + 1
<1>1. /\ b.iov \in Seq(Bytes) /\ Data(b) \in Bytes
      /\ b.used \in Nat /\ b.size \in Nat /\ b.enc \in BOOLEAN
  BY BufferData
<1>2. s \in Seq(Nat) /\ Len(s) = 3 /\ s[1] \in Nat /\ s[2] \in Nat /\ s[3] \in Nat
  <2>1. s \in Seq(Nat) /\ Len(s) = 3
    BY DEF Bytes, Triple
  <2>2. \A i \in 1..Len(s) : s[i] \in Nat
    BY <2>1, ElementOfSeq
  <2>3. 1 \in 1..Len(s) /\ 2 \in 1..Len(s) /\ 3 \in 1..Len(s)
    BY <2>1
  <2> QED BY <2>1, <2>2, <2>3
<1>3. <<s[1]>> \in Bytes /\ <<s[2]>> \in Bytes /\ <<s[3]>> \in Bytes
  BY <1>2 DEF Bytes
<1>4. t \in Seq(Bytes) /\ Len(t) = 3 /\ \A i \in 1..3 : t[i] # <<>>
  BY <1>3
<1>5. FlattenSeq(t) = s
  <2> DEFINE x == <<s[1]>>
             y == <<s[2]>>
             z == <<s[3]>>
  <2>1. t = Append(<<x, y>>, z) /\ <<x, y>> = Append(<<x>>, y)
    OBVIOUS
  <2>2. (x \o y) \o z = s
    BY <1>2
  <2>3. x \in Bytes /\ y \in Bytes /\ z \in Bytes
    BY <1>3
  <2> HIDE DEF x, y, z, t
  <2>4. FlattenSeq(<<x, y>>) = x \o y
    <3>1. <<x>> \in Seq(Bytes)
      BY <2>3
    <3>2. FlattenSeq(Append(<<x>>, y)) = FlattenSeq(<<x>>) \o y
      BY <2>3, <3>1, FlattenAppend
    <3> QED BY <2>1, <2>3, <3>2, FlattenOne
  <2>5. <<x, y>> \in Seq(Bytes)
    BY <2>3
  <2>6. FlattenSeq(t) = FlattenSeq(<<x, y>>) \o z
    BY <2>1, <2>3, <2>5, FlattenAppend
  <2> QED BY <2>2, <2>4, <2>6
<1>6. c = [b EXCEPT !.used = u, !.open = FALSE, !.iov = v]
  BY DEF PutRef
<1> HIDE DEF t
<1>7. /\ v \in Seq(Bytes) /\ Len(v) = Len(b.iov) + Len(t)
      /\ \A i \in 1..Len(v) : v[i] # <<>>
  <2>1. \A i \in 1..Len(b.iov) : b.iov[i] # <<>>
    BY DEF BufferInv
  <2> DEFINE w == b.iov
  <2>2. w \in Seq(Bytes) /\ \A i \in 1..Len(w) : w[i] # <<>>
    BY <1>1, <2>1
  <2>3. t \in Seq(Bytes) /\ \A i \in 1..Len(t) : t[i] # <<>>
    BY <1>4
  <2> HIDE DEF w
  <2>4. /\ w \o t \in Seq(Bytes) /\ Len(w \o t) = Len(w) + Len(t)
        /\ \A i \in 1..Len(w \o t) : (w \o t)[i] # <<>>
    BY <2>2, <2>3, EntriesJoined, Zenon
  <2> QED BY <2>4 DEF w
<1>8. FlattenSeq(v) = FlattenSeq(b.iov) \o s
  BY <1>1, <1>4, <1>5, FlattenConcat
<1> HIDE DEF v, u, c
<1>10. v # <<>>
  <2>1. Len(b.iov) \in Nat
    BY <1>1
  <2> QED BY <1>4, <1>7, <2>1
<1>11. u \in Nat /\ u # 0 /\ u <= b.size
  BY <1>1 DEF u
<1>12. /\ c \in Buffer /\ c.addr = b.addr /\ c.enc = b.enc /\ c.size = b.size
       /\ c.used = u /\ c.iov = v
  <2> DEFINE o == FALSE
  <2>1. b \in Buffer /\ o \in BOOLEAN
    BY DEF BufferInv
  <2>2. c = Changed(b, u, o, v)
    BY <1>6, Zenon DEF Changed
  <2> HIDE DEF o
  <2>3. u \in Nat /\ v \in Seq(Bytes)
    BY <1>7, <1>11, Zenon
  <2>4. /\ Changed(b, u, o, v) \in Buffer
        /\ Changed(b, u, o, v).addr = b.addr
        /\ Changed(b, u, o, v).enc = b.enc
        /\ Changed(b, u, o, v).size = b.size
        /\ Changed(b, u, o, v).used = u
        /\ Changed(b, u, o, v).iov = v
    BY <2>1, <2>3, BufferIntro
  <2> QED BY <2>2, <2>4, Zenon
<1>13. BufferInv(c)
  BY <1>7, <1>10, <1>11, <1>12 DEF BufferInv
<1>14. Data(c) = Data(b) \o s
  BY <1>8, <1>12 DEF Data
<1> QED BY <1>12, <1>13, <1>14 DEF c, u

\* Bytes put in front of a plain block are its first ones.
LEMMA PrefixedFacts ==
  ASSUME NEW b, BufferInv(b), ~b.enc, NEW s \in Bytes, s # <<>>, b.used + Len(s) <= b.size
  PROVE  LET c == Prefixed(b, s)
         IN /\ BufferInv(c)
            /\ Data(c) = s \o Data(b)
            /\ c.addr = b.addr /\ c.used = b.used + Len(s) /\ c.used > 0
<1> DEFINE c == Prefixed(b, s)
           x == s \o Data(b)
           v == <<x>>
           u == b.used + Len(s)
<1>1. /\ Data(b) \in Bytes /\ Len(Data(b)) \in Nat
      /\ b.used \in Nat /\ b.size \in Nat /\ b.used = Len(Data(b))
  BY BufferData DEF BufferInv
<1>2. Len(s) \in Nat /\ Len(s) > 0
  BY DEF Bytes
<1>3. x \in Bytes /\ Len(x) = Len(s) + Len(Data(b))
  BY <1>1, BytesFacts
<1>4. c = [b EXCEPT !.used = u, !.iov = v]
  BY DEF Prefixed
<1> HIDE DEF x
<1>5. x # <<>>
  <2>1. Len(x) # 0
    BY <1>1, <1>2, <1>3
  <2> QED BY <2>1
<1>6. v \in Seq(Bytes) /\ Len(v) = 1 /\ v[1] = x /\ v # <<>>
  BY <1>3
<1>7. FlattenSeq(v) = x
  BY <1>3, FlattenOne
<1>8. u \in Nat /\ u # 0 /\ u > 0 /\ u <= b.size
  BY <1>1, <1>2
<1> HIDE DEF v, u, c
<1>9. /\ c \in Buffer /\ c.addr = b.addr /\ c.enc = b.enc /\ c.size = b.size
      /\ c.used = u /\ c.iov = v
  BY <1>4, <1>6, <1>8 DEF BufferInv, Buffer
<1>10. Data(c) = x
  BY <1>7, <1>9 DEF Data
<1>11. c.used = Len(Data(c))
  BY <1>1, <1>2, <1>3, <1>9, <1>10 DEF u
<1>12. BufferInv(c)
  <2>1. \A i \in 1..Len(c.iov) : c.iov[i] # <<>>
    <3>1. c.iov = v /\ Len(v) = 1 /\ v[1] = x
      BY <1>6, <1>9, Zenon
    <3>2. \A i \in 1..1 : i = 1
      OBVIOUS
    <3> QED BY <1>5, <3>1, <3>2, Zenon
  <2>2. c.used <= c.size /\ Len(c.iov) <= 1
    <3>1. /\ c.used = u /\ c.size = b.size /\ u <= b.size
          /\ Len(c.iov) = 1
      BY <1>6, <1>8, <1>9, Zenon
    <3>2. c.used <= c.size
      BY <3>1, Zenon
    <3> QED BY <3>1, <3>2
  <2>3. c.used # 0 /\ c.iov # <<>>
    BY <1>6, <1>8, <1>9
  <2> QED BY <1>9, <1>11, <2>1, <2>2, <2>3 DEF BufferInv
<1> QED BY <1>8, <1>9, <1>10, <1>12 DEF c, u, x

-----------------------------------------------------------------------------
(* What the operations on the list do to its content.                      *)

\* The parts of GoodList.
LEMMA GoodFacts ==
  ASSUME NEW r, NEW a, GoodList(r, a)
  PROVE  /\ Len(r) \in Nat /\ r \in Seq(Buffer)
         /\ \A i \in 1..Len(r) :
              /\ r[i] \in Buffer /\ BufferInv(r[i])
              /\ r[i].addr = NoAddr <=> r[i].used = 0
              /\ r[i].addr # a
              /\ Data(r[i]) \in Bytes
         /\ \A i, j \in 1..Len(r) : r[i].addr = r[j].addr => i = j
<1>1. r \in Seq(Buffer) /\ Len(r) \in Nat
  BY DEF GoodList
<1>2. \A i \in 1..Len(r) : BufferInv(r[i])
  BY DEF GoodList
<1>3. \A i \in 1..Len(r) : Data(r[i]) \in Bytes
  BY <1>2, BufferData
<1>4. \A i \in 1..Len(r) : r[i] \in Buffer
  BY <1>1
<1>5. \A i \in 1..Len(r) : (r[i].addr = NoAddr <=> r[i].used = 0) /\ r[i].addr # a
  BY DEF GoodList
<1>6. \A i, j \in 1..Len(r) : r[i].addr = r[j].addr => i = j
  BY DEF GoodList
<1> QED BY <1>1, <1>2, <1>3, <1>4, <1>5, <1>6, Zenon

\* The pieces of a list are byte strings.
LEMMA PiecesFacts ==
  ASSUME NEW r, NEW a, GoodList(r, a), NEW d \in Bytes
  PROVE  /\ Pieces(r, d) \in Seq(Bytes) /\ Len(Pieces(r, d)) = Len(r)
         /\ \A i \in 1..Len(r) :
              Pieces(r, d)[i] = IF r[i].addr = NoAddr THEN d ELSE Data(r[i])
         /\ Held(r, d) \in Bytes
<1>1. Len(r) \in Nat /\ \A i \in 1..Len(r) : Data(r[i]) \in Bytes
  BY GoodFacts
<1>2. \A i \in 1..Len(r) : (IF r[i].addr = NoAddr THEN d ELSE Data(r[i])) \in Bytes
  BY <1>1
<1>3. /\ Pieces(r, d) \in Seq(Bytes) /\ Len(Pieces(r, d)) = Len(r)
      /\ \A i \in 1..Len(r) :
           Pieces(r, d)[i] = IF r[i].addr = NoAddr THEN d ELSE Data(r[i])
  BY <1>1, <1>2 DEF Pieces
<1>4. Held(r, d) \in Bytes
  BY <1>3, FlattenType DEF Held
<1> QED BY <1>3, <1>4

\* Two sequences of one length with the same elements are one.
LEMMA SameEntries ==
  ASSUME NEW s \in Seq(Bytes), NEW t \in Seq(Bytes), Len(t) = Len(s),
         \A i \in 1..Len(s) : t[i] = s[i]
  PROVE  t = s
BY SeqEqual

\* A block with a new address at the end.
LEMMA ListAppended ==
  ASSUME NEW r, NEW a, GoodList(r, a), NEW d \in Bytes, NEW b, BufferInv(b),
         b.addr = NoAddr <=> b.used = 0, b.addr # a,
         \A i \in 1..Len(r) : r[i].addr # b.addr
  PROVE  /\ GoodList(Append(r, b), a)
         /\ Len(Append(r, b)) = Len(r) + 1
         /\ \A i \in 1..Len(r) : Append(r, b)[i] = r[i]
         /\ Append(r, b)[Len(r) + 1] = b
         /\ Held(Append(r, b), d) = Held(r, d) \o (IF b.addr = NoAddr THEN d ELSE Data(b))
<1> DEFINE t == Append(r, b)
           n == Len(r)
           x == IF b.addr = NoAddr THEN d ELSE Data(b)
<1>1. /\ n \in Nat /\ r \in Seq(Buffer)
      /\ \A i \in 1..n : r[i] \in Buffer /\ BufferInv(r[i])
      /\ \A i \in 1..n : r[i].addr = NoAddr <=> r[i].used = 0
      /\ \A i \in 1..n : r[i].addr # a
      /\ \A i, j \in 1..n : r[i].addr = r[j].addr => i = j
  BY GoodFacts
<1>2. b \in Buffer /\ Data(b) \in Bytes /\ x \in Bytes
  <2>1. b \in Buffer
    BY DEF BufferInv
  <2>2. Data(b) \in Bytes
    BY BufferData
  <2> QED BY <2>1, <2>2
<1>3. /\ t \in Seq(Buffer) /\ Len(t) = n + 1 /\ t[n + 1] = b
      /\ \A i \in 1..n : t[i] = r[i]
  BY <1>1, <1>2, AppendProperties
<1> HIDE DEF t
<1>4. \A i \in 1..Len(t) : i \in 1..n \/ i = n + 1
  BY <1>1, <1>3
<1>5. GoodList(t, a)
  <2>1. \A i \in 1..Len(t) : BufferInv(t[i])
    BY <1>1, <1>3, <1>4
  <2>2. \A i \in 1..Len(t) : t[i].addr = NoAddr <=> t[i].used = 0
    BY <1>1, <1>3, <1>4, ZenonT(30)
  <2>3. \A i \in 1..Len(t) : t[i].addr # a
    BY <1>1, <1>3, <1>4
  <2>4. ASSUME NEW i \in 1..Len(t), NEW j \in 1..Len(t), t[i].addr = t[j].addr
        PROVE  i = j
    <3>1. CASE i \in 1..n /\ j \in 1..n
      BY <1>1, <1>3, <2>4, <3>1
    <3>2. CASE i \in 1..n /\ j = n + 1
      <4>1. r[i].addr = b.addr
        BY <1>3, <2>4, <3>2
      <4> QED BY <3>2, <4>1
    <3>3. CASE j \in 1..n /\ i = n + 1
      <4>1. r[j].addr = b.addr
        BY <1>3, <2>4, <3>3
      <4> QED BY <3>3, <4>1
    <3> QED BY <1>4, <3>1, <3>2, <3>3
  <2> QED BY <1>3, <2>1, <2>2, <2>3, <2>4 DEF GoodList
<1>6. Held(t, d) = Held(r, d) \o x
  <2> DEFINE P == Pieces(r, d)
             Q == Pieces(t, d)
  <2>1. /\ P \in Seq(Bytes) /\ Len(P) = n
        /\ \A i \in 1..n : P[i] = IF r[i].addr = NoAddr THEN d ELSE Data(r[i])
    BY PiecesFacts
  <2>2. /\ Q \in Seq(Bytes) /\ Len(Q) = n + 1
        /\ \A i \in 1..Len(t) : Q[i] = IF t[i].addr = NoAddr THEN d ELSE Data(t[i])
    BY <1>3, <1>5, PiecesFacts
  <2>3. /\ Append(P, x) \in Seq(Bytes) /\ Len(Append(P, x)) = n + 1
        /\ Append(P, x)[n + 1] = x /\ \A i \in 1..n : Append(P, x)[i] = P[i]
    BY <1>2, <2>1, AppendProperties
  <2> HIDE DEF P, Q
  <2>4. \A i \in 1..(n + 1) : Q[i] = Append(P, x)[i]
    <3> TAKE i \in 1..(n + 1)
    <3>1. CASE i \in 1..n
      <4>1. i \in 1..Len(t)
        BY <1>1, <1>3, <3>1
      <4>2. Q[i] = IF r[i].addr = NoAddr THEN d ELSE Data(r[i])
        BY <1>3, <2>2, <3>1, <4>1
      <4> QED BY <2>1, <2>3, <3>1, <4>2
    <3>2. CASE i = n + 1
      <4>1. i \in 1..Len(t) /\ t[i] = b
        BY <1>1, <1>3, <3>2
      <4>2. Q[i] = x
        BY <2>2, <4>1
      <4> QED BY <2>3, <3>2, <4>2
    <3>3. i \in 1..n \/ i = n + 1
      BY <1>1
    <3> QED BY <3>1, <3>2, <3>3
  <2>5. Q = Append(P, x)
    <3> DEFINE R == Append(P, x)
    <3>1. R \in Seq(Bytes) /\ Len(R) = Len(Q) /\ \A i \in 1..Len(R) : Q[i] = R[i]
      BY <2>2, <2>3, <2>4
    <3> HIDE DEF R
    <3>2. Q = R
      BY <2>2, <3>1, SameEntries
    <3> QED BY <3>2 DEF R
  <2>6. FlattenSeq(Q) = FlattenSeq(P) \o x
    BY <1>2, <2>1, <2>5, FlattenAppend
  <2> QED BY <2>6 DEF Held, P, Q
<1> QED BY <1>3, <1>5, <1>6 DEF t

\* A block replaced by one with the same or with a new address.
Put(r, p, c) == [r EXCEPT ![p] = c]

\* A block replaced by one whose address no other block has.
LEMMA ListReplaced ==
  ASSUME NEW r, NEW a, GoodList(r, a), NEW p \in 1..Len(r), NEW c, BufferInv(c),
         c.addr = NoAddr <=> c.used = 0, c.addr # a,
         \A i \in 1..Len(r) : i # p => r[i].addr # c.addr,
         NEW t, t = Put(r, p, c)
  PROVE  /\ GoodList(t, a)
         /\ Len(t) = Len(r)
         /\ t[p] = c
         /\ \A i \in 1..Len(r) : i # p => t[i] = r[i]
<1> DEFINE n == Len(r)
<1>1. /\ n \in Nat /\ r \in Seq(Buffer)
      /\ \A i \in 1..n : r[i] \in Buffer /\ BufferInv(r[i])
      /\ \A i \in 1..n : r[i].addr = NoAddr <=> r[i].used = 0
      /\ \A i \in 1..n : r[i].addr # a
      /\ \A i, j \in 1..n : r[i].addr = r[j].addr => i = j
  BY GoodFacts
<1>2. c \in Buffer
  BY DEF BufferInv
<1>3. /\ t \in Seq(Buffer) /\ Len(t) = n
      /\ \A i \in 1..n : t[i] = IF i = p THEN c ELSE r[i]
  BY <1>1, <1>2, ExceptSeq DEF Put
<1>4. t[p] = c /\ \A i \in 1..n : i # p => t[i] = r[i]
  BY <1>3
<1>5. GoodList(t, a)
  <2>1. \A i \in 1..Len(t) : BufferInv(t[i])
    BY <1>1, <1>3, <1>4
  <2>2. \A i \in 1..Len(t) : t[i].addr = NoAddr <=> t[i].used = 0
    BY <1>1, <1>3, <1>4, Zenon
  <2>3. \A i \in 1..Len(t) : t[i].addr # a
    BY <1>1, <1>3, <1>4
  <2>4. ASSUME NEW i \in 1..Len(t), NEW j \in 1..Len(t), t[i].addr = t[j].addr
        PROVE  i = j
    <3>1. CASE i # p /\ j # p
      BY <1>1, <1>3, <1>4, <2>4, <3>1
    <3>2. CASE i # p /\ j = p
      <4>1. r[i].addr = c.addr /\ i \in 1..n
        BY <1>3, <1>4, <2>4, <3>2
      <4> QED BY <3>2, <4>1
    <3>3. CASE i = p /\ j # p
      <4>1. r[j].addr = c.addr /\ j \in 1..n
        BY <1>3, <1>4, <2>4, <3>3
      <4> QED BY <3>3, <4>1
    <3> QED BY <3>1, <3>2, <3>3
  <2> QED BY <1>3, <2>1, <2>2, <2>3, <2>4 DEF GoodList
<1> QED BY <1>3, <1>4, <1>5

\* The last block lengthened by s.
LEMMA HeldTail ==
  ASSUME NEW r, NEW a, GoodList(r, a), NEW t, GoodList(t, a), Len(t) = Len(r),
         NEW d \in Bytes, NEW s \in Bytes, Len(r) > 0,
         r[Len(r)].addr # NoAddr, t[Len(r)].addr # NoAddr,
         Data(t[Len(r)]) = Data(r[Len(r)]) \o s,
         \A i \in 1..Len(r) : i # Len(r) => t[i] = r[i]
  PROVE  Held(t, d) = Held(r, d) \o s
<1> DEFINE P == Pieces(r, d)
           Q == Pieces(t, d)
           n == Len(r)
<1>1. /\ P \in Seq(Bytes) /\ Len(P) = n
      /\ \A i \in 1..n : P[i] = IF r[i].addr = NoAddr THEN d ELSE Data(r[i])
  BY PiecesFacts
<1>2. /\ Q \in Seq(Bytes) /\ Len(Q) = n
      /\ \A i \in 1..n : Q[i] = IF t[i].addr = NoAddr THEN d ELSE Data(t[i])
  BY PiecesFacts
<1>3. n \in Nat /\ n \in 1..n
  BY GoodFacts
<1> HIDE DEF P, Q
<1>4. Q[n] = P[n] \o s
  BY <1>1, <1>2, <1>3
<1>5. \A i \in 1..(n - 1) : Q[i] = P[i]
  <2> TAKE i \in 1..(n - 1)
  <2>1. i \in 1..n /\ i # n
    BY <1>3
  <2>2. t[i] = r[i]
    BY <2>1
  <2> QED BY <1>1, <1>2, <2>1, <2>2
<1>6. P # <<>>
  BY <1>1, <1>3
<1>7. FlattenSeq(Q) = FlattenSeq(P) \o s
  <2>1. /\ P \in Seq(Bytes) /\ Q \in Seq(Bytes) /\ Len(Q) = Len(P)
        /\ Q[Len(P)] = P[Len(P)] \o s
        /\ \A i \in 1..(Len(P) - 1) : Q[i] = P[i]
    BY <1>1, <1>2, <1>4, <1>5
  <2> QED BY <1>6, <2>1, FlattenLast
<1> QED BY <1>7 DEF Held, P, Q

\* The bytes f are d and then e.
Splits(f, d, e) == f = d \o e

\* The head of the deferred bytes moved into the block before the placeholder.
LEMMA HeldShiftedLeft ==
  ASSUME NEW r, NEW a, GoodList(r, a), NEW t, GoodList(t, a), Len(t) = Len(r),
         NEW p \in 2..Len(r), r[p].addr = NoAddr, t[p].addr = NoAddr,
         NEW d \in Bytes, NEW e \in Bytes, NEW f \in Bytes, Splits(f, d, e),
         t[p - 1].addr # NoAddr, Splits(Data(t[p - 1]), Data(r[p - 1]), d),
         \A i \in 1..Len(r) : i # p - 1 => t[i] = r[i]
  PROVE  Held(t, e) = Held(r, f)
<1>0. f = d \o e /\ Data(t[p - 1]) = Data(r[p - 1]) \o d
  BY DEF Splits
<1> DEFINE P == Pieces(r, f)
           Q == Pieces(t, e)
           n == Len(r)
<1>1. /\ n \in Nat
      /\ \A i \in 1..n : Data(r[i]) \in Bytes
      /\ \A i, j \in 1..n : r[i].addr = r[j].addr => i = j
  BY GoodFacts
<1>2. /\ p \in 1..n /\ p - 1 \in 1..n /\ p - 1 # p /\ p - 1 \in 1..(n - 1) /\ (p - 1) + 1 = p
  BY <1>1
<1>3. /\ P \in Seq(Bytes) /\ Len(P) = n
      /\ \A i \in 1..n : P[i] = IF r[i].addr = NoAddr THEN f ELSE Data(r[i])
  BY PiecesFacts
<1>4. /\ Q \in Seq(Bytes) /\ Len(Q) = n
      /\ \A i \in 1..n : Q[i] = IF t[i].addr = NoAddr THEN e ELSE Data(t[i])
  BY PiecesFacts
<1> HIDE DEF P, Q
<1>5. r[p - 1].addr # NoAddr
  BY <1>1, <1>2
<1>6. P[p - 1] = Data(r[p - 1]) /\ P[p] = f
  BY <1>2, <1>3, <1>5
<1>7. Q[p - 1] = Data(r[p - 1]) \o d /\ Q[p] = e
  BY <1>0, <1>2, <1>4
<1>8. Q[p - 1] \o Q[p] = P[p - 1] \o P[p]
  <2>1. Data(r[p - 1]) \in Bytes
    BY <1>1, <1>2
  <2>2. (Data(r[p - 1]) \o d) \o e = Data(r[p - 1]) \o (d \o e)
    BY <2>1, BytesFacts
  <2> QED BY <1>0, <1>6, <1>7, <2>2
<1>9. \A i \in 1..n : i # p - 1 /\ i # (p - 1) + 1 => Q[i] = P[i]
  <2> TAKE i \in 1..n
  <2> SUFFICES ASSUME i # p - 1, i # (p - 1) + 1 PROVE Q[i] = P[i]
    OBVIOUS
  <2>1. t[i] = r[i] /\ i # p
    BY <1>2
  <2>2. r[i].addr # NoAddr
    BY <1>1, <1>2, <2>1
  <2> QED BY <1>3, <1>4, <2>1, <2>2
<1>10. FlattenSeq(Q) = FlattenSeq(P)
  <2> DEFINE k == p - 1
  <2>1. k \in 1..(Len(P) - 1) /\ Q[k] \o Q[k + 1] = P[k] \o P[k + 1]
    BY <1>2, <1>3, <1>8
  <2>2. \A i \in 1..Len(P) : i # k /\ i # k + 1 => Q[i] = P[i]
    BY <1>3, <1>9
  <2>3. P \in Seq(Bytes) /\ Q \in Seq(Bytes) /\ Len(Q) = Len(P)
    BY <1>3, <1>4
  <2> HIDE DEF k
  <2> QED BY <2>1, <2>2, <2>3, FlattenMove
<1> QED BY <1>10 DEF Held, P, Q

\* The deferred bytes moved into the block behind the placeholder.
LEMMA HeldShiftedRight ==
  ASSUME NEW r, NEW a, GoodList(r, a), NEW t, GoodList(t, a), Len(t) = Len(r),
         NEW p \in 1..(Len(r) - 1), r[p].addr = NoAddr, t[p].addr = NoAddr,
         NEW d \in Bytes,
         t[p + 1].addr # NoAddr, Splits(Data(t[p + 1]), d, Data(r[p + 1])),
         \A i \in 1..Len(r) : i # p + 1 => t[i] = r[i]
  PROVE  Held(t, <<>>) = Held(r, d)
<1>0. Data(t[p + 1]) = d \o Data(r[p + 1])
  BY DEF Splits
<1> DEFINE z == <<>>
           P == Pieces(r, d)
           Q == Pieces(t, z)
           n == Len(r)
<1>1. /\ n \in Nat
      /\ \A i \in 1..n : Data(r[i]) \in Bytes
      /\ \A i, j \in 1..n : r[i].addr = r[j].addr => i = j
  BY GoodFacts
<1>2. p \in 1..n /\ p + 1 \in 1..n /\ p + 1 # p
  BY <1>1
<1>3. /\ P \in Seq(Bytes) /\ Len(P) = n
      /\ \A i \in 1..n : P[i] = IF r[i].addr = NoAddr THEN d ELSE Data(r[i])
  BY PiecesFacts
<1>4. /\ Q \in Seq(Bytes) /\ Len(Q) = n
      /\ \A i \in 1..n : Q[i] = IF t[i].addr = NoAddr THEN z ELSE Data(t[i])
  <2>1. z \in Bytes
    BY BytesFacts
  <2> HIDE DEF z
  <2> QED BY <2>1, PiecesFacts
<1>5. r[p + 1].addr # NoAddr
  BY <1>1, <1>2
<1> HIDE DEF P, Q
<1>6. P[p] = d /\ P[p + 1] = Data(r[p + 1])
  BY <1>2, <1>3, <1>5
<1>7. Q[p] = z /\ Q[p + 1] = d \o Data(r[p + 1])
  BY <1>0, <1>2, <1>4
<1>8. Q[p] \o Q[p + 1] = P[p] \o P[p + 1]
  <2>1. Data(r[p + 1]) \in Bytes
    BY <1>1, <1>2
  <2>2. d \o Data(r[p + 1]) \in Bytes
    BY <2>1, BytesFacts
  <2>3. z \o (d \o Data(r[p + 1])) = d \o Data(r[p + 1])
    BY <2>2, BytesFacts
  <2> QED BY <1>6, <1>7, <2>3
<1>9. \A i \in 1..Len(P) : i # p /\ i # p + 1 => Q[i] = P[i]
  <2> TAKE i \in 1..Len(P)
  <2> SUFFICES ASSUME i # p, i # p + 1 PROVE Q[i] = P[i]
    OBVIOUS
  <2>1. i \in 1..n /\ t[i] = r[i]
    BY <1>3
  <2>2. r[i].addr # NoAddr
    BY <1>1, <1>2, <2>1
  <2> QED BY <1>3, <1>4, <2>1, <2>2
<1>10. FlattenSeq(Q) = FlattenSeq(P)
  BY <1>3, <1>4, <1>8, <1>9, FlattenMove
<1> QED BY <1>10 DEF Held, P, Q

\* The deferred bytes in a block of their own, where the placeholder was.
LEMMA HeldFilled ==
  ASSUME NEW r, NEW a, GoodList(r, a), NEW t, GoodList(t, a), Len(t) = Len(r),
         NEW p \in 1..Len(r), r[p].addr = NoAddr, t[p].addr # NoAddr,
         NEW d \in Bytes, Data(t[p]) = d,
         \A i \in 1..Len(r) : i # p => t[i] = r[i]
  PROVE  Held(t, <<>>) = Held(r, d)
<1> DEFINE z == <<>>
           P == Pieces(r, d)
           Q == Pieces(t, z)
           n == Len(r)
<1>1. n \in Nat /\ \A i, j \in 1..n : r[i].addr = r[j].addr => i = j
  BY GoodFacts
<1>3. /\ P \in Seq(Bytes) /\ Len(P) = n
      /\ \A i \in 1..n : P[i] = IF r[i].addr = NoAddr THEN d ELSE Data(r[i])
  BY PiecesFacts
<1>4. /\ Q \in Seq(Bytes) /\ Len(Q) = n
      /\ \A i \in 1..n : Q[i] = IF t[i].addr = NoAddr THEN z ELSE Data(t[i])
  <2>1. z \in Bytes
    BY BytesFacts
  <2> HIDE DEF z
  <2> QED BY <2>1, PiecesFacts
<1> HIDE DEF P, Q, z
<1>5. ASSUME NEW i \in 1..Len(P) PROVE Q[i] = P[i]
  <2>1. i \in 1..n
    BY <1>3
  <2>2. CASE i = p
    BY <1>3, <1>4, <2>1, <2>2
  <2>3. CASE i # p
    <3>1. r[i].addr # NoAddr /\ t[i] = r[i]
      BY <1>1, <2>1, <2>3
    <3> QED BY <1>3, <1>4, <2>1, <3>1
  <2> QED BY <2>2, <2>3
<1>6. Q = P
  BY <1>3, <1>4, <1>5, SameEntries
<1> QED BY <1>6 DEF Held, P, Q, z

\* What RemoveAt and a cut leave, element by element.
LEMMA RemovedFacts ==
  ASSUME NEW S, NEW s \in Seq(S), NEW p \in 1..Len(s)
  PROVE  /\ RemoveAt(s, p) \in Seq(S) /\ Len(RemoveAt(s, p)) = Len(s) - 1
         /\ \A i \in 1..(Len(s) - 1) : RemoveAt(s, p)[i] = IF i < p THEN s[i] ELSE s[i + 1]
<1> DEFINE n == Len(s)
           x == SubSeq(s, 1, p - 1)
           y == SubSeq(s, p + 1, n)
           t == x \o y
<1>1. RemoveAt(s, p) = t
  BY DEF RemoveAt
<1>2. n \in Nat /\ p \in Nat /\ p >= 1 /\ p <= n
  OBVIOUS
<1>3. x \in Seq(S) /\ Len(x) = p - 1 /\ \A i \in 1..(p - 1) : x[i] = s[i]
  BY <1>2
<1>4. y \in Seq(S) /\ Len(y) = n - p /\ \A i \in 1..(n - p) : y[i] = s[p + i]
  BY <1>2
<1> HIDE DEF x, y
<1>5. /\ t \in Seq(S) /\ Len(t) = Len(x) + Len(y)
      /\ \A i \in 1..(Len(x) + Len(y)) : t[i] = IF i <= Len(x) THEN x[i] ELSE y[i - Len(x)]
  BY <1>3, <1>4, ConcatProperties
<1>6. Len(x) + Len(y) = n - 1
  BY <1>2, <1>3, <1>4
<1> HIDE DEF t
<1>7. ASSUME NEW i \in 1..(n - 1) PROVE t[i] = IF i < p THEN s[i] ELSE s[i + 1]
  <2>1. t[i] = IF i <= p - 1 THEN x[i] ELSE y[i - (p - 1)]
    BY <1>3, <1>5, <1>6
  <2>2. CASE i < p
    <3>1. i <= p - 1 /\ i \in 1..(p - 1)
      BY <1>2, <2>2
    <3> QED BY <1>3, <2>1, <2>2, <3>1
  <2>3. CASE ~(i < p)
    <3>1. ~(i <= p - 1) /\ i - (p - 1) \in 1..(n - p) /\ p + (i - (p - 1)) = i + 1
      BY <1>2, <2>3
    <3>2. y[i - (p - 1)] = s[p + (i - (p - 1))]
      BY <1>4, <3>1
    <3> QED BY <2>1, <2>3, <3>1, <3>2
  <2> QED BY <2>2, <2>3
<1> QED BY <1>1, <1>5, <1>6, <1>7

\* What SubSeq leaves behind the first k.
LEMMA CutFacts ==
  ASSUME NEW S, NEW s \in Seq(S), NEW k \in 0..Len(s)
  PROVE  /\ SubSeq(s, k + 1, Len(s)) \in Seq(S)
         /\ Len(SubSeq(s, k + 1, Len(s))) = Len(s) - k
         /\ \A i \in 1..(Len(s) - k) : SubSeq(s, k + 1, Len(s))[i] = s[k + i]
<1>1. Len(s) \in Nat /\ k \in Nat /\ k <= Len(s)
  OBVIOUS
<1> QED BY <1>1

\* The placeholder taken out.
LEMMA ListRemoved ==
  ASSUME NEW r, NEW a, GoodList(r, a), NEW p \in 1..Len(r), r[p].addr = NoAddr
  PROVE  /\ GoodList(RemoveAt(r, p), a)
         /\ Len(RemoveAt(r, p)) = Len(r) - 1
         /\ \A i \in 1..(p - 1) : RemoveAt(r, p)[i] = r[i]
         /\ ~HasPlaceholder(RemoveAt(r, p))
         /\ Held(RemoveAt(r, p), <<>>) = Held(r, <<>>)
<1> DEFINE n == Len(r)
           t == RemoveAt(r, p)
           z == <<>>
<1>1. /\ n \in Nat /\ r \in Seq(Buffer)
      /\ \A i \in 1..n : r[i] \in Buffer /\ BufferInv(r[i])
      /\ \A i \in 1..n : r[i].addr = NoAddr <=> r[i].used = 0
      /\ \A i \in 1..n : r[i].addr # a
      /\ \A i, j \in 1..n : r[i].addr = r[j].addr => i = j
  BY GoodFacts
<1>2. /\ t \in Seq(Buffer) /\ Len(t) = n - 1
      /\ \A i \in 1..(n - 1) : t[i] = IF i < p THEN r[i] ELSE r[i + 1]
  BY <1>1, RemovedFacts
<1> DEFINE at(i) == IF i < p THEN i ELSE i + 1
<1>3. /\ \A i \in 1..(n - 1) : at(i) \in 1..n /\ at(i) # p
      /\ \A i, j \in 1..(n - 1) : at(i) = at(j) => i = j
  BY <1>1
<1>4. \A i \in 1..(n - 1) : t[i] = r[at(i)]
  BY <1>2
<1> HIDE DEF t, at
<1>5. GoodList(t, a)
  <2>1. \A i \in 1..Len(t) : BufferInv(t[i])
    BY <1>1, <1>2, <1>3, <1>4
  <2>2. \A i \in 1..Len(t) : t[i].addr = NoAddr <=> t[i].used = 0
    <3> TAKE i \in 1..Len(t)
    <3>1. at(i) \in 1..n /\ t[i] = r[at(i)]
      BY <1>2, <1>3, <1>4
    <3>2. r[at(i)].addr = NoAddr <=> r[at(i)].used = 0
      BY <1>1, <3>1
    <3> QED BY <3>1, <3>2
  <2>3. \A i \in 1..Len(t) : t[i].addr # a
    BY <1>1, <1>2, <1>3, <1>4
  <2>4. \A i, j \in 1..Len(t) : t[i].addr = t[j].addr => i = j
    BY <1>1, <1>2, <1>3, <1>4
  <2> QED BY <1>2, <2>1, <2>2, <2>3, <2>4 DEF GoodList
<1>6. \A i \in 1..Len(t) : t[i].addr # NoAddr
  BY <1>1, <1>2, <1>3, <1>4
<1>7. ~HasPlaceholder(t)
  BY <1>6 DEF HasPlaceholder
<1>8. Held(t, z) = Held(r, z)
  <2> DEFINE P == Pieces(r, z)
             Q == Pieces(t, z)
             R == RemoveAt(P, p)
  <2>1. z \in Bytes
    BY BytesFacts
  <2> HIDE DEF z
  <2>2. /\ P \in Seq(Bytes) /\ Len(P) = n
        /\ \A i \in 1..n : P[i] = IF r[i].addr = NoAddr THEN z ELSE Data(r[i])
    BY <2>1, PiecesFacts
  <2>3. /\ Q \in Seq(Bytes) /\ Len(Q) = n - 1
        /\ \A i \in 1..Len(t) : Q[i] = IF t[i].addr = NoAddr THEN z ELSE Data(t[i])
    BY <1>2, <1>5, <2>1, PiecesFacts
  <2> HIDE DEF P, Q
  <2>4. /\ R \in Seq(Bytes) /\ Len(R) = n - 1
        /\ \A i \in 1..(n - 1) : R[i] = IF i < p THEN P[i] ELSE P[i + 1]
    <3>1. p \in 1..Len(P)
      BY <2>2
    <3> QED BY <2>2, <3>1, RemovedFacts
  <2>5. \A i \in 1..(n - 1) : R[i] = P[at(i)]
    BY <2>4 DEF at
  <2> HIDE DEF R
  <2>6. ASSUME NEW i \in 1..Len(R) PROVE Q[i] = R[i]
    <3>1. i \in 1..(n - 1) /\ i \in 1..Len(t)
      BY <1>2, <2>4
    <3>2. t[i] = r[at(i)] /\ at(i) \in 1..n
      BY <1>3, <1>4, <3>1
    <3>3. Q[i] = P[at(i)]
      BY <2>2, <2>3, <3>1, <3>2
    <3> QED BY <2>5, <3>1, <3>3
  <2>7. Q = R
    BY <2>3, <2>4, <2>6, SameEntries
  <2>8. FlattenSeq(R) = FlattenSeq(P)
    <3>1. p \in 1..Len(P) /\ P[p] = <<>>
      BY <2>2 DEF z
    <3> QED BY <2>2, <3>1, FlattenDrop DEF R
  <2> QED BY <2>7, <2>8 DEF Held, P, Q
<1>9. \A i \in 1..(p - 1) : t[i] = r[i]
  BY <1>1, <1>2
<1> QED BY <1>2, <1>5, <1>7, <1>8, <1>9 DEF t, z

\* The first k blocks released.
LEMMA ListCut ==
  ASSUME NEW r, NEW a, GoodList(r, a), NEW k \in 0..Len(r), NEW d \in Bytes
  PROVE  LET t == SubSeq(r, k + 1, Len(r))
         IN /\ GoodList(t, a)
            /\ Len(t) = Len(r) - k
            /\ \A i \in 1..(Len(r) - k) : t[i] = r[k + i]
            /\ Held(t, d) = Suffix(Pieces(r, d), k)
<1> DEFINE n == Len(r)
           t == SubSeq(r, k + 1, Len(r))
<1>1. /\ n \in Nat /\ r \in Seq(Buffer)
      /\ \A i \in 1..n : r[i] \in Buffer /\ BufferInv(r[i])
      /\ \A i \in 1..n : r[i].addr = NoAddr <=> r[i].used = 0
      /\ \A i \in 1..n : r[i].addr # a
      /\ \A i, j \in 1..n : r[i].addr = r[j].addr => i = j
  BY GoodFacts
<1>2. t \in Seq(Buffer) /\ Len(t) = n - k /\ \A i \in 1..(n - k) : t[i] = r[k + i]
  BY <1>1, CutFacts
<1>3. /\ \A i \in 1..(n - k) : k + i \in 1..n
      /\ \A i, j \in 1..(n - k) : k + i = k + j => i = j
  BY <1>1
<1> HIDE DEF t
<1>5. GoodList(t, a)
  <2>1. \A i \in 1..Len(t) : BufferInv(t[i])
    BY <1>1, <1>2, <1>3
  <2>2. \A i \in 1..Len(t) : t[i].addr = NoAddr <=> t[i].used = 0
    <3> TAKE i \in 1..Len(t)
    <3>1. k + i \in 1..n /\ t[i] = r[k + i]
      BY <1>2, <1>3
    <3>2. r[k + i].addr = NoAddr <=> r[k + i].used = 0
      BY <1>1, <3>1
    <3> QED BY <3>1, <3>2
  <2>3. \A i \in 1..Len(t) : t[i].addr # a
    BY <1>1, <1>2, <1>3
  <2>4. \A i, j \in 1..Len(t) : t[i].addr = t[j].addr => i = j
    BY <1>1, <1>2, <1>3
  <2> QED BY <1>2, <2>1, <2>2, <2>3, <2>4 DEF GoodList
<1>6. Held(t, d) = Suffix(Pieces(r, d), k)
  <2> DEFINE P == Pieces(r, d)
             Q == Pieces(t, d)
             R == SubSeq(P, k + 1, Len(P))
  <2>1. /\ P \in Seq(Bytes) /\ Len(P) = n
        /\ \A i \in 1..n : P[i] = IF r[i].addr = NoAddr THEN d ELSE Data(r[i])
    BY PiecesFacts
  <2>2. /\ Q \in Seq(Bytes) /\ Len(Q) = n - k
        /\ \A i \in 1..Len(t) : Q[i] = IF t[i].addr = NoAddr THEN d ELSE Data(t[i])
    BY <1>2, <1>5, PiecesFacts
  <2> HIDE DEF P, Q
  <2>3. R \in Seq(Bytes) /\ Len(R) = n - k /\ \A i \in 1..(n - k) : R[i] = P[k + i]
    <3>1. k \in 0..Len(P)
      BY <2>1
    <3> QED BY <2>1, <3>1, CutFacts
  <2> HIDE DEF R
  <2>4. ASSUME NEW i \in 1..Len(R) PROVE Q[i] = R[i]
    <3>1. i \in 1..(n - k) /\ i \in 1..Len(t) /\ k + i \in 1..n
      BY <1>2, <1>3, <2>3
    <3>2. t[i] = r[k + i]
      BY <1>2, <3>1
    <3>3. Q[i] = P[k + i]
      BY <2>1, <2>2, <3>1, <3>2
    <3> QED BY <2>3, <3>1, <3>3
  <2>5. Q = R
    BY <2>2, <2>3, <2>4, SameEntries
  <2> QED BY <2>5 DEF Held, P, Q, R, Suffix
<1> QED BY <1>2, <1>5, <1>6 DEF t

-----------------------------------------------------------------------------
(* The pieces of the actions: a new buffer, a flag changed, bytes added.   *)

\* A record with its field enc changed.
LEMMA RecordWithEnc ==
  ASSUME NEW a, NEW f, NEW o, NEW u, NEW n, NEW v, NEW e
  PROVE  [[addr |-> a, enc |-> f, open |-> o, used |-> u, size |-> n, iov |-> v] EXCEPT !.enc = e]
           = [addr |-> a, enc |-> e, open |-> o, used |-> u, size |-> n, iov |-> v]
OBVIOUS

\* A new buffer, encoded.
LEMMA EmptyEncoded ==
  ASSUME NEW a, NEW n, NEW e
  PROVE  [EmptyBuffer(a, n) EXCEPT !.enc = e]
           = [addr |-> a, enc |-> e, open |-> FALSE, used |-> 0, size |-> n, iov |-> <<>>]
<1> DEFINE f == FALSE
           u == 0
           v == <<>>
<1>1. EmptyBuffer(a, n)
        = [addr |-> a, enc |-> f, open |-> f, used |-> u, size |-> n, iov |-> v]
  BY DEF EmptyBuffer
<1> HIDE DEF f, u, v
<1>2. [EmptyBuffer(a, n) EXCEPT !.enc = e]
        = [addr |-> a, enc |-> e, open |-> f, used |-> u, size |-> n, iov |-> v]
  BY <1>1, RecordWithEnc
<1> QED BY <1>2 DEF f, u, v

\* A new buffer, plain.
LEMMA EmptyPlain ==
  ASSUME NEW a, NEW n
  PROVE  [EmptyBuffer(a, n) EXCEPT !.enc = FALSE] = EmptyBuffer(a, n)
BY EmptyEncoded, Zenon DEF EmptyBuffer

\* A record with the fields of a buffer is one.
LEMMA RecordInBuffer ==
  ASSUME NEW a \in Addrs \cup {NoAddr}, NEW n \in Nat, NEW e \in BOOLEAN, NEW o \in BOOLEAN,
         NEW u \in Nat, NEW v \in Seq(Bytes)
  PROVE  LET b == [addr |-> a, enc |-> e, open |-> o, used |-> u, size |-> n, iov |-> v]
         IN /\ b \in Buffer
            /\ b.addr = a /\ b.enc = e /\ b.used = u /\ b.size = n /\ b.iov = v
BY DEF Buffer

\* A new buffer holds nothing.
LEMMA EmptyFacts ==
  ASSUME NEW a \in Addrs \cup {NoAddr}, NEW n \in Nat, NEW e \in BOOLEAN
  PROVE  LET b == [EmptyBuffer(a, n) EXCEPT !.enc = e]
         IN /\ BufferInv(b) /\ Data(b) = <<>>
            /\ b.addr = a /\ b.used = 0 /\ b.size = n /\ b.enc = e
<1> DEFINE b == [EmptyBuffer(a, n) EXCEPT !.enc = e]
           o == FALSE
           u == 0
           v == <<>>
<1>1. b = [addr |-> a, enc |-> e, open |-> o, used |-> u, size |-> n, iov |-> v]
  BY EmptyEncoded, Zenon
<1>2. v \in Seq(Bytes) /\ Len(v) = 0 /\ u \in Nat /\ o \in BOOLEAN
  OBVIOUS
<1> HIDE DEF o, u, v, b
<1>3. /\ b \in Buffer
      /\ b.addr = a /\ b.enc = e /\ b.used = u /\ b.size = n /\ b.iov = v
  <2> DEFINE c == [addr |-> a, enc |-> e, open |-> o, used |-> u, size |-> n, iov |-> v]
  <2>1. /\ c \in Buffer
        /\ c.addr = a /\ c.enc = e /\ c.used = u /\ c.size = n /\ c.iov = v
    BY <1>2, RecordInBuffer, ZenonT(40)
  <2> HIDE DEF c
  <2>2. b = c
    BY <1>1 DEF c
  <2> QED BY <2>1, <2>2, Zenon
<1>5. Data(b) = <<>>
  BY <1>3, FlattenEmpty DEF Data, v
<1>6. BufferInv(b)
  <2>1. b.used <= b.size /\ b.used = Len(Data(b)) /\ Len(b.iov) <= 1
    BY <1>2, <1>3, <1>5 DEF u
  <2>2. \A i \in 1..Len(b.iov) : b.iov[i] # <<>>
    BY <1>2, <1>3
  <2>3. b.used = 0 <=> b.iov = <<>>
    BY <1>3 DEF u, v
  <2> QED BY <1>3, <2>1, <2>2, <2>3, Zenon DEF BufferInv
<1> QED BY <1>3, <1>5, <1>6, Zenon DEF b, u

\* The flag open and, in an empty buffer, the flag enc are free.
WithOpen(b, o) == [b EXCEPT !.open = o]
WithEnc(b, e) == [b EXCEPT !.enc = e]

\* Forgetting the last chunk header changes no content.
LEMMA WithOpenFacts ==
  ASSUME NEW b, BufferInv(b), NEW o \in BOOLEAN
  PROVE  /\ BufferInv(WithOpen(b, o)) /\ Data(WithOpen(b, o)) = Data(b)
         /\ WithOpen(b, o).addr = b.addr /\ WithOpen(b, o).used = b.used
         /\ WithOpen(b, o).size = b.size /\ WithOpen(b, o).enc = b.enc
<1> DEFINE c == WithOpen(b, o)
<1>1. b \in Buffer
  BY DEF BufferInv
<1>2. c \in Buffer
  BY <1>1 DEF WithOpen, Buffer
<1>3. c.addr = b.addr /\ c.used = b.used /\ c.size = b.size /\ c.enc = b.enc /\ c.iov = b.iov
  BY <1>1 DEF WithOpen, Buffer
<1> HIDE DEF c
<1>4. Data(c) = Data(b)
  BY <1>3 DEF Data
<1>5. BufferInv(c)
  BY <1>2, <1>3, <1>4, Zenon DEF BufferInv
<1> QED BY <1>3, <1>4, <1>5 DEF c

\* Nor does the encoding of an empty buffer.
LEMMA WithEncFacts ==
  ASSUME NEW b, BufferInv(b), b.used = 0, NEW e \in BOOLEAN
  PROVE  /\ BufferInv(WithEnc(b, e)) /\ Data(WithEnc(b, e)) = Data(b)
         /\ WithEnc(b, e).addr = b.addr /\ WithEnc(b, e).used = b.used
         /\ WithEnc(b, e).size = b.size /\ WithEnc(b, e).enc = e
<1> DEFINE c == WithEnc(b, e)
<1>1. b \in Buffer
  BY DEF BufferInv
<1>2. c \in Buffer
  BY <1>1 DEF WithEnc, Buffer
<1>3. c.addr = b.addr /\ c.used = b.used /\ c.size = b.size /\ c.enc = e /\ c.iov = b.iov
  BY <1>1 DEF WithEnc, Buffer
<1> HIDE DEF c
<1>4. Data(c) = Data(b)
  BY <1>3 DEF Data
<1>5. b.iov = <<>> /\ Data(b) = <<>>
  <2>1. b.iov = <<>>
    BY DEF BufferInv
  <2> QED BY <2>1, BufferData
<1>6. c.used = Len(Data(c)) /\ Len(c.iov) <= 1
  BY <1>3, <1>4, <1>5
<1>7. /\ c.used <= c.size
      /\ \A i \in 1..Len(c.iov) : c.iov[i] # <<>>
      /\ c.used = 0 <=> c.iov = <<>>
  BY <1>3, Zenon DEF BufferInv
<1>8. BufferInv(c)
  BY <1>2, <1>6, <1>7, Zenon DEF BufferInv
<1> QED BY <1>3, <1>4, <1>8 DEF c

\* n more bytes of the stream behind those from lo to add.
LEMMA StreamGrown ==
  ASSUME NEW lo \in Nat, NEW add \in Nat, lo <= add, NEW n \in Nat
  PROVE  Interval(lo, add - lo) \o Interval(add, n) = Interval(lo, (add + n) - lo)
<1> DEFINE k == add - lo
<1>1. k \in Nat /\ lo + k = add /\ k + n = (add + n) - lo
  OBVIOUS
<1> HIDE DEF k
<1>2. Interval(lo, k) \o Interval(lo + k, n) = Interval(lo, k + n)
  BY <1>1, IntervalJoin, ZenonT(40)
<1> QED BY <1>1, <1>2 DEF k

\* New bytes are the next of the stream.
LEMMA FreshInterval == ASSUME NEW n PROVE Fresh(n) = Interval(added, n)
BY DEF Fresh, Interval

\* A free address.
LEMMA FreeFacts ==
  ASSUME NEW a \in FreeAddrs
  PROVE  /\ a \in Addrs /\ a # NoAddr /\ a # buf.addr
         /\ \A i \in 1..Len(reply) : reply \in Seq(Buffer) => reply[i].addr # a
<1>1. a \in Addrs /\ a # buf.addr /\ a # NoAddr
  BY OutputAssumption DEF FreeAddrs
<1>2. ASSUME NEW i \in 1..Len(reply), reply \in Seq(Buffer) PROVE reply[i].addr # a
  <2>1. i \in DOMAIN reply
    BY <1>2
  <2> QED BY <2>1 DEF FreeAddrs
<1> QED BY <1>1, <1>2

\* The bookmark stays valid while its buffer only grows.
LEMMA MarkKept ==
  ASSUME NEW m, NEW b, NEW r, Marks(m, b, r), NEW c, NEW t,
         b.used \in Nat, c.used \in Nat, Len(Data(b)) \in Nat, Len(Data(c)) \in Nat,
         c.addr = b.addr, Len(Data(b)) <= Len(Data(c)),
         b.used > 0 => c.used > 0,
         c.used > 0 /\ b.used = 0 => Len(r) = 0,
         m # NoMark /\ b.used = 0 /\ m.buf = r[1].addr /\ Len(r) > 0 =>
           /\ Len(t) > 0 /\ t[1].addr = r[1].addr
           /\ Len(Data(r[1])) \in Nat /\ Len(Data(t[1])) \in Nat
           /\ Len(Data(r[1])) <= Len(Data(t[1]))
  PROVE  Marks(m, c, t)
<1>1. m = [buf |-> m.buf, bufpos |-> 0, data |-> m.data] /\ m.data \in Nat
  BY DEF Marks
<1>2. ASSUME m # NoMark
      PROVE  /\ m.buf \in Addrs /\ m.data > 0
             /\ c.used > 0 => m.buf = c.addr /\ m.data < Len(Data(c))
             /\ c.used = 0 => Len(t) > 0 /\ m.buf = t[1].addr /\ m.data < Len(Data(t[1]))
  <2>1. m.buf \in Addrs /\ m.data > 0
    BY <1>2 DEF Marks
  <2>2. CASE b.used > 0
    <3>1. m.buf = b.addr /\ m.data < Len(Data(b))
      BY <1>2, <2>2 DEF Marks
    <3>2. c.used # 0 /\ m.data < Len(Data(c))
      BY <1>1, <2>2, <3>1
    <3> QED BY <2>1, <3>1, <3>2
  <2>3. CASE b.used = 0
    <3>1. Len(r) > 0 /\ m.buf = r[1].addr /\ m.data < Len(Data(r[1]))
      BY <1>2, <2>3 DEF Marks
    <3>2. ~(c.used > 0)
      BY <2>3, <3>1
    <3>3. /\ Len(t) > 0 /\ t[1].addr = r[1].addr
          /\ Len(Data(r[1])) \in Nat /\ Len(Data(t[1])) \in Nat
          /\ Len(Data(r[1])) <= Len(Data(t[1]))
      BY <1>2, <2>3, <3>1
    <3>4. m.data < Len(Data(t[1]))
      BY <1>1, <3>1, <3>3
    <3> QED BY <2>1, <3>1, <3>2, <3>3, <3>4
  <2> QED BY <2>2, <2>3
<1> QED BY <1>1, <1>2 DEF Marks

\* Bytes put into a block that has room for them.
LEMMA BlockFilled ==
  ASSUME NEW r, NEW a, GoodList(r, a), NEW p \in 1..Len(r), r[p].addr # NoAddr,
         NEW x \in Bytes, r[p].used + Len(x) <= r[p].size,
         NEW t, t = Put(r, p, PutPlain(r[p], x))
  PROVE  /\ GoodList(t, a) /\ Len(t) = Len(r)
         /\ Data(t[p]) = Data(r[p]) \o x /\ t[p].addr = r[p].addr
         /\ Len(Data(r[p])) <= Len(Data(t[p]))
         /\ \A i \in 1..Len(r) : i # p => t[i] = r[i]
<1> DEFINE b == r[p]
           c == PutPlain(r[p], x)
<1>1. /\ BufferInv(b) /\ b.addr # a /\ b.used # 0
      /\ \A i \in 1..Len(r) : i # p => r[i].addr # b.addr
  BY GoodFacts
<1>2. Len(x) \in Nat /\ b.used \in Nat /\ Data(b) \in Bytes
  BY <1>1, BufferData, BytesFacts
<1> HIDE DEF b
<1>3. /\ BufferInv(PutPlain(b, x)) /\ Data(PutPlain(b, x)) = Data(b) \o x
      /\ PutPlain(b, x).addr = b.addr /\ PutPlain(b, x).used = b.used + Len(x)
  <2>1. b.used + Len(x) <= b.size
    BY DEF b
  <2> QED BY <1>1, <2>1, PutPlainFacts
<1>4. c = PutPlain(b, x)
  BY DEF b
<1> HIDE DEF c
<1>5. BufferInv(c) /\ Data(c) = Data(b) \o x /\ c.addr = b.addr /\ c.used = b.used + Len(x)
  BY <1>3, <1>4, Zenon
<1>6. c.used # 0 /\ c.addr # NoAddr
  <2>1. b.addr # NoAddr
    BY DEF b
  <2> QED BY <1>1, <1>2, <1>5, <2>1
<1>7. /\ GoodList(t, a) /\ Len(t) = Len(r) /\ t[p] = c
      /\ \A i \in 1..Len(r) : i # p => t[i] = r[i]
  <2>1. t = Put(r, p, c)
    BY DEF c
  <2>2. c.addr # a /\ \A i \in 1..Len(r) : i # p => r[i].addr # c.addr
    BY <1>1, <1>5
  <2>3. BufferInv(c) /\ (c.addr = NoAddr <=> c.used = 0)
    BY <1>5, <1>6
  <2> QED BY <2>1, <2>2, <2>3, ListReplaced
<1>8. Len(Data(c)) = Len(Data(b)) + Len(x) /\ Len(Data(b)) \in Nat
  BY <1>2, <1>5, BytesFacts
<1>9. Len(Data(b)) <= Len(Data(c))
  BY <1>2, <1>8
<1> QED BY <1>5, <1>7, <1>9 DEF b

\* The list t goes on where r ended: r's first block is t's, and has not shrunk.
Continues(r, t) ==
  /\ HasPlaceholder(t) <=> HasPlaceholder(r)
  /\ Len(r) > 0 => /\ Len(t) > 0 /\ t[1].addr = r[1].addr
                   /\ Len(Data(r[1])) <= Len(Data(t[1]))

\* Lists with the same addresses have the placeholder in common.
LEMMA SamePlaceholder ==
  ASSUME NEW r, NEW t, Len(t) = Len(r), \A i \in 1..Len(r) : t[i].addr = r[i].addr
  PROVE  HasPlaceholder(t) <=> HasPlaceholder(r)
BY DEF HasPlaceholder

\* A block with content and a new address at the end.
LEMMA BlockAdded ==
  ASSUME NEW r, NEW a, GoodList(r, a), NEW d \in Bytes, NEW b, BufferInv(b),
         b.addr # NoAddr, b.used # 0, b.addr # a,
         \A i \in 1..Len(r) : r[i].addr # b.addr
  PROVE  /\ GoodList(Append(r, b), a)
         /\ Held(Append(r, b), d) = Held(r, d) \o Data(b)
         /\ Continues(r, Append(r, b))
<1> DEFINE t == Append(r, b)
           n == Len(r)
<1>1. /\ GoodList(t, a) /\ Len(t) = n + 1
      /\ \A i \in 1..n : t[i] = r[i]
      /\ t[n + 1] = b
      /\ Held(t, d) = Held(r, d) \o (IF b.addr = NoAddr THEN d ELSE Data(b))
  BY ListAppended
<1>2. n \in Nat /\ \A i \in 1..n : Data(r[i]) \in Bytes
  BY GoodFacts
<1> HIDE DEF t
<1>3. HasPlaceholder(t) <=> HasPlaceholder(r)
  <2>1. \A i \in 1..Len(t) : i \in 1..n \/ i = n + 1
    BY <1>1, <1>2
  <2>2. \A i \in 1..n : i \in 1..Len(t)
    BY <1>1, <1>2
  <2> QED BY <1>1, <2>1, <2>2 DEF HasPlaceholder
<1>4. ASSUME n > 0 PROVE Len(t) > 0 /\ t[1] = r[1] /\ Len(Data(r[1])) <= Len(Data(t[1]))
  <2>1. 1 \in 1..n
    BY <1>2, <1>4
  <2>2. Len(Data(r[1])) \in Nat
    BY <1>2, <2>1, BytesFacts
  <2>3. t[1] = r[1] /\ Len(t) > 0
    BY <1>1, <1>2, <2>1
  <2> QED BY <2>2, <2>3
<1> QED BY <1>1, <1>3, <1>4 DEF Continues, t

\* A list goes on from itself.
LEMMA ContinuesSame ==
  ASSUME NEW r, NEW a, GoodList(r, a)
  PROVE  Continues(r, r)
<1>1. Len(r) \in Nat /\ \A i \in 1..Len(r) : Data(r[i]) \in Bytes
  BY GoodFacts
<1>2. ASSUME Len(r) > 0 PROVE Len(Data(r[1])) <= Len(Data(r[1]))
  <2>1. 1 \in 1..Len(r)
    BY <1>1, <1>2
  <2>2. Len(Data(r[1])) \in Nat
    BY <1>1, <2>1, BytesFacts
  <2> QED BY <2>2
<1> QED BY <1>2 DEF Continues

\* The last block filled, the placeholder and the first block are where they were.
LEMMA TailFilled ==
  ASSUME NEW r, NEW a, GoodList(r, a), NEW d \in Bytes, NEW x \in Bytes,
         Len(r) > 0, r[Len(r)].addr # NoAddr,
         NEW t, GoodList(t, a), Len(t) = Len(r),
         Data(t[Len(r)]) = Data(r[Len(r)]) \o x, t[Len(r)].addr = r[Len(r)].addr,
         \A i \in 1..Len(r) : i # Len(r) => t[i] = r[i]
  PROVE  Held(t, d) = Held(r, d) \o x /\ Continues(r, t)
<1> DEFINE n == Len(r)
<1>1. n \in Nat /\ \A i \in 1..n : Data(r[i]) \in Bytes
  BY GoodFacts
<1>2. n \in 1..n /\ 1 \in 1..n
  BY <1>1
<1>3. Held(t, d) = Held(r, d) \o x
  <2>1. t[n].addr # NoAddr
    OBVIOUS
  <2> QED BY <2>1, HeldTail, ZenonT(40)
<1>4. \A i \in 1..n : t[i].addr = r[i].addr
  OBVIOUS
<1>5. HasPlaceholder(t) <=> HasPlaceholder(r)
  BY <1>4, SamePlaceholder
<1>6. Len(Data(r[1])) <= Len(Data(t[1]))
  <2>1. Data(r[1]) \in Bytes /\ Len(Data(r[1])) \in Nat /\ Len(x) \in Nat
    BY <1>1, <1>2, BytesFacts
  <2>2. CASE n = 1
    <3>1. Len(Data(t[1])) = Len(Data(r[1])) + Len(x)
      BY <2>1, <2>2, BytesFacts
    <3> QED BY <2>1, <3>1
  <2>3. CASE n # 1
    BY <1>2, <2>1, <2>3
  <2> QED BY <2>2, <2>3
<1> QED BY <1>2, <1>3, <1>4, <1>5, <1>6 DEF Continues

\* And from what it went on from.
LEMMA ContinuesOn ==
  ASSUME NEW r, NEW a, GoodList(r, a), NEW t, GoodList(t, a), NEW u, GoodList(u, a),
         Continues(r, t), Continues(t, u)
  PROVE  Continues(r, u)
<1>1. HasPlaceholder(u) <=> HasPlaceholder(r)
  BY DEF Continues
<1>2. ASSUME Len(r) > 0
      PROVE  Len(u) > 0 /\ u[1].addr = r[1].addr /\ Len(Data(r[1])) <= Len(Data(u[1]))
  <2>1. /\ Len(t) > 0 /\ t[1].addr = r[1].addr /\ Len(Data(r[1])) <= Len(Data(t[1]))
    BY <1>2 DEF Continues
  <2>2. /\ Len(u) > 0 /\ u[1].addr = t[1].addr /\ Len(Data(t[1])) <= Len(Data(u[1]))
    BY <2>1 DEF Continues
  <2>3. 1 \in 1..Len(r) /\ 1 \in 1..Len(t) /\ 1 \in 1..Len(u)
    BY <1>2, <2>1, <2>2, GoodFacts
  <2>4. Data(r[1]) \in Bytes /\ Data(t[1]) \in Bytes /\ Data(u[1]) \in Bytes
    BY <2>3, GoodFacts
  <2>5. Len(Data(r[1])) \in Nat /\ Len(Data(t[1])) \in Nat /\ Len(Data(u[1])) \in Nat
    BY <2>4, BytesFacts
  <2> QED BY <2>1, <2>2, <2>5
<1> QED BY <1>1, <1>2 DEF Continues

\* A new block of at least BlockSize with the bytes x.
LEMMA NewBlock ==
  ASSUME NEW a \in Addrs, NEW x \in Bytes, x # <<>>, NEW n \in Nat, Len(x) <= n
  PROVE  LET b == PutPlain(EmptyBuffer(a, n), x)
         IN BufferInv(b) /\ Data(b) = x /\ b.addr = a /\ b.used # 0
<1> DEFINE e == EmptyBuffer(a, n)
<1>1. BufferInv(e) /\ Data(e) = <<>> /\ e.addr = a /\ e.used = 0 /\ e.size = n
  <2> DEFINE f == FALSE
             c == [EmptyBuffer(a, n) EXCEPT !.enc = f]
  <2>1. f \in BOOLEAN /\ a \in Addrs \cup {NoAddr}
    OBVIOUS
  <2>2. c = e
    BY EmptyPlain
  <2> HIDE DEF f
  <2>3. BufferInv(c) /\ Data(c) = <<>> /\ c.addr = a /\ c.used = 0 /\ c.size = n
    BY <2>1, EmptyFacts
  <2> HIDE DEF c, e
  <2> QED BY <2>2, <2>3
<1>2. Len(x) \in Nat /\ Len(x) # 0
  BY DEF Bytes
<1> HIDE DEF e
<1>3. e.used + Len(x) <= e.size
  BY <1>1, <1>2
<1> DEFINE b == PutPlain(e, x)
<1>4. /\ BufferInv(b) /\ Data(b) = Data(e) \o x
      /\ b.addr = e.addr /\ b.used = e.used + Len(x)
  BY <1>1, <1>3, PutPlainFacts
<1> HIDE DEF b
<1>5. Data(b) = x
  BY <1>1, <1>4, BytesFacts
<1>6. b.used # 0
  BY <1>1, <1>2, <1>4
<1> QED BY <1>1, <1>4, <1>5, <1>6 DEF b, e

\* _addReplyPayloadToList() with plain bytes: they are the new end of the list.
LEMMA PlainAdded ==
  ASSUME GoodList(reply, buf.addr), NEW d \in Bytes, NEW s \in Bytes,
         PlainToList(s)
  PROVE  /\ GoodList(reply', buf.addr)
         /\ Held(reply', d) = Held(reply, d) \o s
         /\ Continues(reply, reply')
<1>1. Held(reply, d) \in Bytes /\ Len(reply) \in Nat /\ reply \in Seq(Buffer)
  BY PiecesFacts, GoodFacts
<1>2. CASE s = <<>>
  <2>1. reply' = reply
    BY <1>2 DEF PlainToList
  <2>2. Held(reply, d) \o s = Held(reply, d)
    BY <1>1, <1>2, BytesFacts
  <2> QED BY <2>1, <2>2, ContinuesSame
<1>3. CASE s # <<>>
  <2> DEFINE n    == Len(reply)
             fit  == IF n = 0 \/ reply[n].addr = NoAddr THEN 0
                     ELSE Least(Avail(reply[n]), Len(s))
             x    == SubSeq(s, 1, fit)
             rest == SubSeq(s, fit + 1, Len(s))
             head == IF fit = 0 THEN reply ELSE Put(reply, n, PutPlain(reply[n], x))
  <2>1. \/ rest = <<>> /\ reply' = head
        \/ /\ rest # <<>>
           /\ \E a \in FreeAddrs :
                LET size == IF Len(rest) < BlockSize THEN BlockSize ELSE Len(rest)
                IN reply' = Append(head, PutPlain(EmptyBuffer(a, size), rest))
    BY <1>3, Zenon DEF PlainToList, Put
  <2>2. Len(s) \in Nat
    BY BytesFacts
  <2>3. /\ fit \in 0..Len(s)
        /\ fit # 0 => n > 0 /\ reply[n].addr # NoAddr /\ reply[n].used + fit <= reply[n].size
    <3>1. CASE n = 0 \/ reply[n].addr = NoAddr
      BY <2>2, <3>1
    <3>2. CASE ~(n = 0 \/ reply[n].addr = NoAddr)
      <4>1. n \in 1..n
        BY <1>1, <3>2
      <4>2. BufferInv(reply[n])
        BY <4>1, GoodFacts
      <4>3. reply[n].used \in Nat /\ reply[n].size \in Nat
        BY <4>2, BufferData
      <4>4. reply[n].used <= reply[n].size
        BY <4>2 DEF BufferInv
      <4>5. fit = Least(Avail(reply[n]), Len(s))
        BY <3>2
      <4> HIDE DEF fit
      <4> QED BY <1>1, <2>2, <3>2, <4>3, <4>4, <4>5 DEF Least, Avail
    <3> QED BY <3>1, <3>2
  <2> HIDE DEF fit
  <2>4. x \in Bytes /\ Len(x) = fit /\ rest \in Bytes /\ x \o rest = s
    BY <2>3, BytesCut
  <2> HIDE DEF x, rest
  <2>5. GoodList(head, buf.addr) /\ Held(head, d) = Held(reply, d) \o x /\ Continues(reply, head)
        /\ \A i \in 1..Len(head) : \E j \in 1..n : head[i].addr = reply[j].addr
    <3>1. CASE fit = 0
      <4>1. head = reply
        BY <3>1
      <4>2. x = <<>>
        BY <2>4, <3>1 DEF Bytes
      <4>3. Held(reply, d) \o x = Held(reply, d)
        BY <1>1, <4>2, BytesFacts
      <4> QED BY <4>1, <4>3, ContinuesSame
    <3>2. CASE fit # 0
      <4> DEFINE k == n
                 t == Put(reply, k, PutPlain(reply[k], x))
      <4>1. head = t
        BY <3>2
      <4>2. n \in 1..n /\ reply[n].addr # NoAddr /\ reply[n].used + Len(x) <= reply[n].size
        BY <1>1, <2>3, <2>4, <3>2
      <4> HIDE DEF head
      <4>3. /\ GoodList(t, buf.addr) /\ Len(t) = n
            /\ Data(t[n]) = Data(reply[n]) \o x /\ t[n].addr = reply[n].addr
            /\ \A i \in 1..n : i # n => t[i] = reply[i]
        <5>1. k \in 1..Len(reply) /\ reply[k].addr # NoAddr /\ reply[k].used + Len(x) <= reply[k].size
          BY <4>2
        <5>4. x \in Bytes
          BY <2>4
        <5> HIDE DEF k
        <5>2. t = Put(reply, k, PutPlain(reply[k], x))
          OBVIOUS
        <5> HIDE DEF t
        <5>3. /\ GoodList(t, buf.addr) /\ Len(t) = Len(reply)
              /\ Data(t[k]) = Data(reply[k]) \o x /\ t[k].addr = reply[k].addr
              /\ \A i \in 1..Len(reply) : i # k => t[i] = reply[i]
          BY <5>1, <5>2, <5>4, BlockFilled
        <5> QED BY <5>3 DEF k
      <4> HIDE DEF t
      <4>4. Held(t, d) = Held(reply, d) \o x /\ Continues(reply, t)
        <5>1. n > 0
          BY <1>1, <4>2
        <5> QED BY <2>4, <4>2, <4>3, <5>1, TailFilled
      <4>5. \A i \in 1..Len(t) : t[i].addr = reply[i].addr
        BY <4>3
      <4> QED BY <4>1, <4>3, <4>4, <4>5
    <3> QED BY <3>1, <3>2
  <2> HIDE DEF head
  <2>6. Held(reply, d) \o s = (Held(reply, d) \o x) \o rest
    <3>1. (Held(reply, d) \o x) \o rest = Held(reply, d) \o (x \o rest)
      BY <1>1, <2>4, BytesAssoc, ZenonT(30)
    <3> QED BY <2>4, <3>1
  <2>7. CASE rest = <<>> /\ reply' = head
    <3>1. (Held(reply, d) \o x) \o rest = Held(reply, d) \o x
      <4>1. Held(reply, d) \o x \in Bytes
        BY <1>1, <2>4, BytesFacts
      <4> QED BY <2>7, <4>1, BytesFacts
    <3> QED BY <2>5, <2>6, <2>7, <3>1
  <2>8. CASE /\ rest # <<>>
             /\ \E a \in FreeAddrs :
                  LET size == IF Len(rest) < BlockSize THEN BlockSize ELSE Len(rest)
                  IN reply' = Append(head, PutPlain(EmptyBuffer(a, size), rest))
    <3> DEFINE size == IF Len(rest) < BlockSize THEN BlockSize ELSE Len(rest)
    <3>1. PICK a \in FreeAddrs : reply' = Append(head, PutPlain(EmptyBuffer(a, size), rest))
      BY <2>8
    <3>2. /\ a \in Addrs /\ a # NoAddr /\ a # buf.addr
          /\ \A i \in 1..n : reply[i].addr # a
      BY <1>1, FreeFacts
    <3>3. size \in Nat /\ Len(rest) <= size
      <4>1. Len(rest) \in Nat /\ BlockSize \in Nat
        BY <2>4, BytesFacts, OutputAssumption
      <4> QED BY <4>1
    <3> HIDE DEF size
    <3> DEFINE b == PutPlain(EmptyBuffer(a, size), rest)
    <3>4. BufferInv(b) /\ Data(b) = rest /\ b.addr = a /\ b.used # 0
      BY <2>4, <2>8, <3>2, <3>3, NewBlock
    <3>5. reply' = Append(head, b)
      BY <3>1
    <3> HIDE DEF b
    <3>6. \A i \in 1..Len(head) : head[i].addr # b.addr
      BY <2>5, <3>2, <3>4
    <3>7. /\ GoodList(Append(head, b), buf.addr)
          /\ Held(Append(head, b), d) = Held(head, d) \o Data(b)
          /\ Continues(head, Append(head, b))
      <4>1. b.addr # NoAddr /\ b.addr # buf.addr
        BY <3>2, <3>4
      <4>2. BufferInv(b) /\ b.used # 0 /\ GoodList(head, buf.addr)
        BY <2>5, <3>4
      <4> QED BY <3>6, <4>1, <4>2, BlockAdded
    <3>8. Continues(reply, Append(head, b))
      BY <2>5, <3>7, ContinuesOn
    <3> QED BY <2>5, <2>6, <3>4, <3>5, <3>7, <3>8
  <2> QED BY <2>1, <2>7, <2>8
<1> QED BY <1>2, <1>3

\* A reference put into an encoded block that has room for it.
TakesRef(b) == b.enc = TRUE /\ b.used < b.size

\* A reference put into the encoded tail of the list.
LEMMA BlockReferenced ==
  ASSUME NEW r, NEW a, GoodList(r, a), NEW p \in 1..Len(r), r[p].addr # NoAddr,
         TakesRef(r[p]), NEW x \in Triple,
         NEW t, t = Put(r, p, PutRef(r[p], x))
  PROVE  /\ GoodList(t, a) /\ Len(t) = Len(r)
         /\ Data(t[p]) = Data(r[p]) \o x /\ t[p].addr = r[p].addr
         /\ \A i \in 1..Len(r) : i # p => t[i] = r[i]
<1> DEFINE b == r[p]
           c == PutRef(r[p], x)
<1>1. /\ BufferInv(b) /\ b.addr # a
      /\ \A i \in 1..Len(r) : i # p => r[i].addr # b.addr
  BY GoodFacts
<1>2. b.used \in Nat
  BY <1>1, BufferData
<1> HIDE DEF b
<1>3. /\ BufferInv(PutRef(b, x)) /\ Data(PutRef(b, x)) = Data(b) \o x
      /\ PutRef(b, x).addr = b.addr /\ PutRef(b, x).used = b.used + 1
  <2>1. b.enc = TRUE /\ b.used < b.size
    BY DEF b, TakesRef
  <2> QED BY <1>1, <2>1, PutRefFacts
<1>4. c = PutRef(b, x)
  BY DEF b
<1> HIDE DEF c
<1>5. BufferInv(c) /\ Data(c) = Data(b) \o x /\ c.addr = b.addr /\ c.used = b.used + 1
  BY <1>3, <1>4, Zenon
<1>6. c.used # 0 /\ c.addr # NoAddr
  <2>1. b.addr # NoAddr
    BY DEF b
  <2> QED BY <1>2, <1>5, <2>1
<1>7. /\ GoodList(t, a) /\ Len(t) = Len(r) /\ t[p] = c
      /\ \A i \in 1..Len(r) : i # p => t[i] = r[i]
  <2>1. t = Put(r, p, c)
    BY DEF c
  <2>2. c.addr # a /\ \A i \in 1..Len(r) : i # p => r[i].addr # c.addr
    BY <1>1, <1>5
  <2>3. BufferInv(c) /\ (c.addr = NoAddr <=> c.used = 0)
    BY <1>5, <1>6
  <2> QED BY <2>1, <2>2, <2>3, ListReplaced
<1> QED BY <1>5, <1>7 DEF b

\* _addReplyPayloadToList() with a reference.
LEMMA RefAdded ==
  ASSUME GoodList(reply, buf.addr), NEW d \in Bytes, NEW s \in Triple, RefToList(s)
  PROVE  /\ GoodList(reply', buf.addr)
         /\ Held(reply', d) = Held(reply, d) \o s
         /\ Continues(reply, reply')
<1> DEFINE n == Len(reply)
<1>1. Len(reply) \in Nat /\ reply \in Seq(Buffer)
  BY GoodFacts
<1>2. CASE n > 0 /\ reply[n].addr # NoAddr /\ reply[n].enc /\ Avail(reply[n]) > 0
  <2>1. n \in 1..n
    BY <1>1, <1>2
  <2>2. BufferInv(reply[n])
    BY <2>1, GoodFacts
  <2>3. reply[n].used \in Nat /\ reply[n].size \in Nat /\ reply[n].enc \in BOOLEAN
    BY <2>2, BufferData
  <2> DEFINE k == n
             t == Put(reply, k, PutRef(reply[k], s))
  <2>4. reply' = t
    BY <1>2, Zenon DEF RefToList, Put
  <2>5. reply[n].addr # NoAddr
    BY <1>2, Zenon
  <2>6. reply[n].enc = TRUE
    <3>1. reply[n].enc
      BY <1>2, Zenon
    <3> QED BY <2>3, <3>1, Zenon
  <2>7. reply[n].used < reply[n].size
    <3>1. Avail(reply[n]) > 0
      BY <1>2, Zenon
    <3>2. reply[n].used \in Nat /\ reply[n].size \in Nat
      BY <2>3, Zenon
    <3> QED BY <3>1, <3>2 DEF Avail
  <2>8. /\ GoodList(t, buf.addr) /\ Len(t) = n
        /\ Data(t[n]) = Data(reply[n]) \o s /\ t[n].addr = reply[n].addr
        /\ \A i \in 1..n : i # n => t[i] = reply[i]
    <3>1. k \in 1..Len(reply) /\ reply[k].addr # NoAddr
      BY <2>1, <2>5
    <3>4. TakesRef(reply[k])
      BY <2>6, <2>7 DEF TakesRef
    <3> HIDE DEF k
    <3>2. t = Put(reply, k, PutRef(reply[k], s))
      OBVIOUS
    <3> HIDE DEF t
    <3>3. /\ GoodList(t, buf.addr) /\ Len(t) = Len(reply)
          /\ Data(t[k]) = Data(reply[k]) \o s /\ t[k].addr = reply[k].addr
          /\ \A i \in 1..Len(reply) : i # k => t[i] = reply[i]
      BY <3>1, <3>2, <3>4, BlockReferenced
    <3> QED BY <3>3 DEF k
  <2> HIDE DEF t
  <2>9. Held(t, d) = Held(reply, d) \o s /\ Continues(reply, t)
    <3>1. n > 0 /\ s \in Bytes
      BY <1>1, <2>1 DEF Triple
    <3> QED BY <2>5, <2>8, <3>1, TailFilled
  <2> QED BY <2>4, <2>8, <2>9
<1>3. CASE ~(n > 0 /\ reply[n].addr # NoAddr /\ reply[n].enc /\ Avail(reply[n]) > 0)
  <2> DEFINE e(a) == [EmptyBuffer(a, BlockSize) EXCEPT !.enc = TRUE]
  <2>1. PICK a \in FreeAddrs : reply' = Append(reply, PutRef(e(a), s))
    BY <1>3, Zenon DEF RefToList
  <2>2. /\ a \in Addrs /\ a # NoAddr /\ a # buf.addr
        /\ \A i \in 1..n : reply[i].addr # a
    BY <1>1, FreeFacts
  <2>3. BlockSize \in Nat /\ BlockSize > 0
    BY OutputAssumption
  <2> DEFINE c == e(a)
  <2>4. BufferInv(c) /\ Data(c) = <<>> /\ c.addr = a /\ c.used = 0 /\ c.size = BlockSize /\ c.enc = TRUE
    <3> DEFINE f == TRUE
    <3>1. f \in BOOLEAN /\ a \in Addrs \cup {NoAddr}
      BY <2>2
    <3>2. c = [EmptyBuffer(a, BlockSize) EXCEPT !.enc = f]
      OBVIOUS
    <3> HIDE DEF f, c
    <3>3. BufferInv(c) /\ Data(c) = <<>> /\ c.addr = a /\ c.used = 0 /\ c.size = BlockSize /\ c.enc = f
      BY <2>3, <3>1, <3>2, EmptyFacts, SMTT(30)
    <3> QED BY <3>3 DEF f
  <2> DEFINE b == PutRef(c, s)
  <2>5. reply' = Append(reply, b)
    BY <2>1
  <2> HIDE DEF c, e
  <2>6. BufferInv(b) /\ Data(b) = Data(c) \o s /\ b.addr = c.addr /\ b.used = c.used + 1
    <3>1. c.used < c.size
      BY <2>3, <2>4
    <3>2. BufferInv(c) /\ c.enc = TRUE
      BY <2>4
    <3> QED BY <3>1, <3>2, PutRefFacts
  <2> HIDE DEF b
  <2>7. /\ BufferInv(b) /\ b.used # 0 /\ b.addr # NoAddr /\ b.addr # buf.addr
        /\ \A i \in 1..n : reply[i].addr # b.addr
    BY <2>2, <2>4, <2>6
  <2>8. Data(b) = s
    BY <2>4, <2>6, BytesFacts DEF Triple
  <2>9. /\ GoodList(Append(reply, b), buf.addr)
        /\ Held(Append(reply, b), d) = Held(reply, d) \o Data(b)
        /\ Continues(reply, Append(reply, b))
    BY <2>7, BlockAdded
  <2> QED BY <2>5, <2>8, <2>9
<1> QED BY <1>2, <1>3

-----------------------------------------------------------------------------
(* The actions preserve the invariant.                                     *)

\* What the invariant says, with the types of what it is about.
LEMMA InvFacts ==
  ASSUME Inv
  PROVE  /\ BufferInv(buf) /\ buf.addr \in Addrs /\ buf.size <= BufSize
         /\ peak \in Nat /\ buf.used <= peak /\ peak <= BufSize /\ BufSize \in Nat
         /\ buf.used \in Nat /\ buf.size \in Nat /\ buf.used <= buf.size
         /\ Data(buf) \in Bytes /\ Len(Data(buf)) \in Nat
         /\ GoodList(reply, buf.addr) /\ Len(reply) \in Nat /\ reply \in Seq(Buffer)
         /\ deferred # <<>> <=> HasPlaceholder(reply)
         /\ Marks(mark, buf, reply) /\ mark.data \in Nat
         /\ deferred \in Bytes /\ wire \in Bytes /\ Len(wire) \in Nat
         /\ added \in Nat /\ added <= MaxBytes /\ MaxBytes \in Nat
         /\ wire = Interval(0, Len(wire))
         /\ mark.data <= Len(wire) /\ Len(wire) - mark.data <= added
         /\ Len(wire) - mark.data \in Nat
         /\ Held(reply, deferred) \in Bytes
         /\ Data(buf) \o Held(reply, deferred)
              = Interval(Len(wire) - mark.data, added - (Len(wire) - mark.data))
<1>1. BufInv /\ ListInv /\ MarkInv /\ StreamInv
  BY DEF Inv
<1>2. /\ BufferInv(buf) /\ buf.addr \in Addrs /\ buf.size <= BufSize
      /\ peak \in Nat /\ buf.used <= peak /\ peak <= BufSize
  BY <1>1 DEF BufInv
<1>3. BufSize \in Nat /\ MaxBytes \in Nat
  BY OutputAssumption
<1>4. buf.used \in Nat /\ buf.size \in Nat /\ Data(buf) \in Bytes /\ Len(Data(buf)) \in Nat
  BY <1>2, BufferData
<1>5. buf.used <= buf.size
  BY <1>2 DEF BufferInv
<1>6. GoodList(reply, buf.addr) /\ (deferred # <<>> <=> HasPlaceholder(reply))
  BY <1>1 DEF ListInv
<1>7. Len(reply) \in Nat /\ reply \in Seq(Buffer)
  BY <1>6, GoodFacts
<1>8. Marks(mark, buf, reply)
  BY <1>1 DEF MarkInv
<1>9. mark.data \in Nat
  BY <1>8 DEF Marks
<1>10. /\ deferred \in Bytes /\ wire \in Bytes
       /\ added \in Nat /\ added <= MaxBytes
       /\ wire = Interval(0, Len(wire))
       /\ mark.data <= Len(wire) /\ Len(wire) - mark.data <= added
       /\ Data(buf) \o Held(reply, deferred)
            = Interval(Len(wire) - mark.data, added - (Len(wire) - mark.data))
  BY <1>1 DEF StreamInv
<1>11. Len(wire) \in Nat
  BY <1>10, BytesFacts
<1>13. Len(wire) - mark.data \in Nat
  BY <1>9, <1>10, <1>11
<1>12. Held(reply, deferred) \in Bytes
  BY <1>6, <1>10, PiecesFacts
<1> QED BY <1>2, <1>3, <1>4, <1>5, <1>6, <1>7, <1>8, <1>9, <1>10, <1>11, <1>12, <1>13, Zenon

\* Bytes added to the static buffer or to the list, or to both if the list was empty.
LEMMA StreamExtended ==
  ASSUME NEW D \in Bytes, NEW H \in Bytes, NEW x \in Bytes, NEW y \in Bytes,
         NEW lo \in Nat, NEW add \in Nat, lo <= add, NEW n \in Nat,
         x = <<>> \/ H = <<>>,
         Joins(D, H, lo, add - lo), Joins(x, y, add, n)
  PROVE  Joins(D \o x, H \o y, lo, (add + n) - lo)
<1>1. (D \o x) \o (H \o y) = (D \o H) \o (x \o y)
  <2>1. CASE x = <<>>
    <3>1. D \o x = D /\ x \o y = y
      BY <2>1, BytesFacts
    <3>2. (D \o H) \o y = D \o (H \o y)
      BY BytesAssoc
    <3> QED BY <3>1, <3>2
  <2>2. CASE H = <<>>
    <3>1. D \o H = D /\ H \o y = y
      BY <2>2, BytesFacts
    <3>2. (D \o x) \o y = D \o (x \o y)
      BY BytesAssoc
    <3> QED BY <3>1, <3>2
  <2> QED BY <2>1, <2>2
<1>2. Interval(lo, add - lo) \o Interval(add, n) = Interval(lo, (add + n) - lo)
  BY StreamGrown
<1>3. D \o H = Interval(lo, add - lo) /\ x \o y = Interval(add, n)
  BY DEF Joins
<1>4. (D \o x) \o (H \o y) = Interval(lo, (add + n) - lo)
  BY <1>1, <1>2, <1>3, Zenon
<1> QED BY <1>4 DEF Joins

\* The empty list holds nothing.
LEMMA HeldNone == ASSUME NEW d PROVE Held(<<>>, d) = <<>>
<1>1. Pieces(<<>>, d) = <<>>
  BY DEF Pieces
<1> QED BY <1>1, FlattenEmpty DEF Held

\* n bytes were added, x to the static buffer and y to the list.
LEMMA InvAfterAdding ==
  ASSUME Inv, NEW n \in Nat, added + n <= MaxBytes, added' = added + n,
         NEW x \in Bytes, NEW y \in Bytes, Joins(x, y, added, n),
         BufferInv(buf'), buf'.addr = buf.addr, buf'.size = buf.size,
         buf.used <= buf'.used, buf'.used <= peak', peak' \in Nat, peak' <= BufSize,
         Data(buf') = Data(buf) \o x,
         x # <<>> => reply = <<>>, buf'.used # buf.used => reply = <<>>,
         GoodList(reply', buf.addr), Held(reply', deferred) = Held(reply, deferred) \o y,
         Continues(reply, reply'),
         mark' = mark, deferred' = deferred, wire' = wire
  PROVE  Inv'
<1>1. /\ BufferInv(buf) /\ buf.addr \in Addrs /\ buf.size <= BufSize
      /\ buf.used \in Nat /\ Data(buf) \in Bytes /\ Len(Data(buf)) \in Nat
      /\ GoodList(reply, buf.addr) /\ Len(reply) \in Nat
      /\ deferred # <<>> <=> HasPlaceholder(reply)
      /\ Marks(mark, buf, reply) /\ mark.data \in Nat
      /\ deferred \in Bytes /\ wire \in Bytes /\ Len(wire) \in Nat
      /\ added \in Nat /\ wire = Interval(0, Len(wire))
      /\ mark.data <= Len(wire) /\ Len(wire) - mark.data <= added
      /\ Len(wire) - mark.data \in Nat
      /\ Held(reply, deferred) \in Bytes
      /\ Data(buf) \o Held(reply, deferred)
           = Interval(Len(wire) - mark.data, added - (Len(wire) - mark.data))
  BY InvFacts
<1>2. BufInv'
  BY <1>1 DEF BufInv
<1>3. ListInv'
  <2>1. HasPlaceholder(reply') <=> HasPlaceholder(reply)
    BY DEF Continues
  <2>2. deferred' # <<>> <=> HasPlaceholder(reply')
    BY <1>1, <2>1
  <2>3. GoodList(reply', buf'.addr)
    OBVIOUS
  <2> QED BY <2>2, <2>3 DEF ListInv
<1>4. buf'.used \in Nat /\ Len(Data(buf')) \in Nat
  BY BufferData
<1>5. MarkInv'
  <2>1. Len(Data(buf)) <= Len(Data(buf'))
    <3>1. Len(Data(buf')) = Len(Data(buf)) + Len(x) /\ Len(x) \in Nat
      BY <1>1, BytesFacts
    <3> QED BY <1>1, <3>1
  <2>2. buf.used > 0 => buf'.used > 0
    BY <1>1, <1>4
  <2>3. buf'.used > 0 /\ buf.used = 0 => Len(reply) = 0
    BY <1>1, <1>4
  <2>4. ASSUME Len(reply) > 0
        PROVE  /\ Len(reply') > 0 /\ reply'[1].addr = reply[1].addr
               /\ Len(Data(reply[1])) \in Nat /\ Len(Data(reply'[1])) \in Nat
               /\ Len(Data(reply[1])) <= Len(Data(reply'[1]))
    <3>1. /\ Len(reply') > 0 /\ reply'[1].addr = reply[1].addr
          /\ Len(Data(reply[1])) <= Len(Data(reply'[1]))
      BY <2>4 DEF Continues
    <3>2. 1 \in 1..Len(reply) /\ 1 \in 1..Len(reply')
      <4>1. Len(reply) \in Nat /\ Len(reply') \in Nat
        BY <1>1, GoodFacts
      <4> QED BY <2>4, <3>1, <4>1
    <3>3. Data(reply[1]) \in Bytes /\ Data(reply'[1]) \in Bytes
      BY <1>1, <3>2, GoodFacts
    <3> QED BY <3>1, <3>3, BytesFacts
  <2>5. Marks(mark, buf', reply')
    BY <1>1, <1>4, <2>1, <2>2, <2>3, <2>4, MarkKept
  <2>6. Marks(mark', buf', reply')
    BY <2>5
  <2> QED BY <2>6 DEF MarkInv
<1>6. StreamInv'
  <2> DEFINE lo == Len(wire) - mark.data
             H == Held(reply, deferred)
  <2>1. lo \in Nat /\ lo <= added
    BY <1>1, Zenon
  <2>2. x = <<>> \/ H = <<>>
    BY HeldNone
  <2>3. /\ H \in Bytes /\ Data(buf) \in Bytes /\ added \in Nat
        /\ Joins(Data(buf), H, lo, added - lo)
    BY <1>1, Zenon DEF Joins
  <2> HIDE DEF lo, H
  <2>4. Joins(Data(buf) \o x, H \o y, lo, (added + n) - lo)
    BY <2>1, <2>2, <2>3, StreamExtended
  <2>5. Data(buf') \o Held(reply', deferred) = Interval(lo, (added + n) - lo)
    BY <2>4 DEF H, Joins
  <2>6. Len(wire) - mark.data <= added + n
    BY <1>1
  <2>7. added' \in Nat /\ added' <= MaxBytes
    BY <1>1
  <2> QED BY <1>1, <2>5, <2>6, <2>7 DEF StreamInv, lo
<1> QED BY <1>2, <1>3, <1>5, <1>6 DEF Inv

\* The initial states.
LEMMA InitInv == ASSUME Init PROVE Inv
<1>1. PICK a \in Addrs : buf = EmptyBuffer(a, BufSize)
  BY DEF Init
<1>2. /\ peak = BufSize /\ reply = <<>> /\ mark = NoMark /\ deferred = <<>> /\ added = 0
      /\ wire = <<>>
  BY DEF Init
<1>3. BufSize \in Nat /\ MaxBytes \in Nat
  BY OutputAssumption
<1>4. BufferInv(buf) /\ Data(buf) = <<>> /\ buf.addr = a /\ buf.used = 0 /\ buf.size = BufSize
  <2> DEFINE f == FALSE
             c == [EmptyBuffer(a, BufSize) EXCEPT !.enc = f]
  <2>1. f \in BOOLEAN /\ a \in Addrs \cup {NoAddr}
    OBVIOUS
  <2>2. c = buf
    BY <1>1, EmptyPlain
  <2> HIDE DEF f
  <2>3. BufferInv(c) /\ Data(c) = <<>> /\ c.addr = a /\ c.used = 0 /\ c.size = BufSize
    BY <1>3, <2>1, EmptyFacts
  <2> HIDE DEF c
  <2> QED BY <2>2, <2>3
<1>5. BufInv
  BY <1>2, <1>3, <1>4 DEF BufInv
<1>6. ListInv
  <2>1. Len(reply) = 0 /\ reply \in Seq(Buffer)
    BY <1>2
  <2>2. GoodList(reply, buf.addr)
    BY <2>1 DEF GoodList
  <2>3. ~HasPlaceholder(reply)
    BY <2>1 DEF HasPlaceholder
  <2> QED BY <1>2, <2>2, <2>3 DEF ListInv
<1>7. MarkInv
  <2>1. mark = [buf |-> mark.buf, bufpos |-> 0, data |-> mark.data] /\ mark.data \in Nat
    BY <1>2 DEF NoMark
  <2> QED BY <1>2, <2>1 DEF MarkInv, Marks
<1>8. StreamInv
  <2>1. deferred \in Bytes /\ wire \in Bytes /\ Len(wire) = 0
    BY <1>2, BytesFacts
  <2>2. mark.data = 0
    BY <1>2 DEF NoMark
  <2>3. Interval(0, 0) = <<>>
    BY DEF Interval
  <2>4. Data(buf) \o Held(reply, deferred) = <<>>
    <3>1. Held(reply, deferred) = <<>>
      BY <1>2, HeldNone
    <3> QED BY <1>4, <3>1, BytesFacts
  <2>5. wire = Interval(0, Len(wire))
    BY <1>2, <2>1, <2>3
  <2>6. Len(wire) - mark.data = 0 /\ added - (Len(wire) - mark.data) = 0
    <3>1. Len(wire) = 0 /\ mark.data = 0 /\ added = 0
      BY <1>2, <2>1, <2>2, Zenon
    <3> QED BY <3>1
  <2>7. added \in Nat /\ added <= MaxBytes /\ mark.data <= Len(wire) /\ Len(wire) - mark.data <= added
    BY <1>2, <1>3, <2>1, <2>2
  <2> QED BY <2>1, <2>3, <2>4, <2>5, <2>6, <2>7, Zenon DEF StreamInv
<1> QED BY <1>5, <1>6, <1>7, <1>8 DEF Inv

\* _addReplyToBufferOrList(): the new bytes follow those before them.
LEMMA AddReplyInv ==
  ASSUME Inv, NEW n \in 1..MaxPlain, AddReply(n)
  PROVE  Inv'
<1> DEFINE s   == Fresh(n)
           b   == IF buf.used = 0 THEN WithEnc(buf, FALSE) ELSE buf
           fit == IF reply # <<>> THEN 0 ELSE Least(Avail(b), n)
           x   == SubSeq(s, 1, fit)
           y   == SubSeq(s, fit + 1, n)
           c   == PutPlain(b, x)
           o   == c.open /\ fit = n
<1>1. /\ added + n <= MaxBytes /\ added' = added + n
      /\ buf' = WithOpen(c, o) /\ peak' = PeakAfter(fit, buf.used + fit)
      /\ PlainToList(y)
      /\ mark' = mark /\ deferred' = deferred /\ wire' = wire
  BY Zenon DEF AddReply, WithEnc, WithOpen
<1>2. n \in Nat /\ n > 0
  BY OutputAssumption
<1>3. /\ BufferInv(buf) /\ buf.size <= BufSize /\ BufSize \in Nat
      /\ peak \in Nat /\ buf.used <= peak /\ peak <= BufSize
      /\ buf.used \in Nat /\ buf.size \in Nat /\ buf.used <= buf.size
      /\ GoodList(reply, buf.addr) /\ added \in Nat /\ deferred \in Bytes
  BY InvFacts
<1>4. s = Interval(added, n) /\ s \in Bytes /\ Len(s) = n
  BY <1>2, <1>3, FreshInterval, IntervalFacts
<1>5. BufferInv(b) /\ Data(b) = Data(buf) /\ b.addr = buf.addr /\ b.used = buf.used /\ b.size = buf.size
  <2>1. CASE buf.used = 0
    <3> DEFINE f == FALSE
               w == WithEnc(buf, f)
    <3>1. f \in BOOLEAN /\ b = w
      BY <2>1
    <3> HIDE DEF f, b
    <3>2. BufferInv(w) /\ Data(w) = Data(buf) /\ w.addr = buf.addr /\ w.used = buf.used /\ w.size = buf.size
      BY <1>3, <2>1, <3>1, WithEncFacts
    <3> HIDE DEF w
    <3> QED BY <3>1, <3>2
  <2>2. CASE buf.used # 0
    BY <1>3, <2>2
  <2> QED BY <2>1, <2>2
<1> HIDE DEF b, s
<1>6. fit \in 0..n /\ (fit # 0 => reply = <<>>) /\ b.used + fit <= b.size
  <2>1. CASE reply # <<>>
    BY <1>2, <1>3, <1>5, <2>1
  <2>2. CASE reply = <<>>
    <3>1. fit = Least(Avail(b), n)
      BY <2>2
    <3> HIDE DEF fit
    <3> QED BY <1>2, <1>3, <1>5, <2>2, <3>1 DEF Least, Avail
  <2> QED BY <2>1, <2>2
<1> HIDE DEF fit
<1>7. x \in Bytes /\ Len(x) = fit /\ y \in Bytes /\ x \o y = s
  <2>1. fit \in 0..Len(s)
    BY <1>4, <1>6
  <2>2. /\ SubSeq(s, 1, fit) \in Bytes /\ Len(SubSeq(s, 1, fit)) = fit
        /\ SubSeq(s, fit + 1, Len(s)) \in Bytes
        /\ SubSeq(s, 1, fit) \o SubSeq(s, fit + 1, Len(s)) = s
    BY <1>4, <2>1, BytesCut
  <2> QED BY <1>4, <2>2
<1>8. Joins(x, y, added, n)
  BY <1>4, <1>7 DEF Joins
<1> HIDE DEF x, y
<1>9. BufferInv(c) /\ Data(c) = Data(b) \o x /\ c.addr = b.addr /\ c.size = b.size /\ c.used = b.used + fit
  <2>1. b.used + Len(x) <= b.size
    BY <1>6, <1>7
  <2>2. /\ BufferInv(c) /\ Data(c) = Data(b) \o x /\ c.addr = b.addr /\ c.size = b.size
        /\ c.used = b.used + Len(x)
    BY <1>5, <1>7, <2>1, PutPlainFacts
  <2> HIDE DEF c
  <2> QED BY <1>7, <2>2
<1> HIDE DEF c
<1>10. /\ BufferInv(buf') /\ Data(buf') = Data(c) /\ buf'.addr = c.addr /\ buf'.used = c.used
       /\ buf'.size = c.size
  <2>1. o \in BOOLEAN
    OBVIOUS
  <2> HIDE DEF o
  <2> DEFINE w == WithOpen(c, o)
  <2>2. BufferInv(w) /\ Data(w) = Data(c) /\ w.addr = c.addr /\ w.used = c.used /\ w.size = c.size
    BY <1>9, <2>1, WithOpenFacts
  <2>3. buf' = w
    BY <1>1
  <2> HIDE DEF w
  <2> QED BY <2>2, <2>3
<1>11. /\ BufferInv(buf') /\ Data(buf') = Data(buf) \o x /\ buf'.addr = buf.addr
       /\ buf'.size = buf.size /\ buf'.used = buf.used + fit
  BY <1>5, <1>9, <1>10, Zenon
<1>12. buf'.used <= peak' /\ peak' \in Nat /\ peak' <= BufSize /\ buf.used <= buf'.used
  <2>1. peak' = PeakAfter(fit, buf.used + fit) /\ buf'.used = buf.used + fit
    BY <1>1, <1>11
  <2>2. buf.used + fit <= buf.size /\ fit \in Nat
    BY <1>5, <1>6
  <2> QED BY <1>3, <2>1, <2>2 DEF PeakAfter
<1>13. /\ GoodList(reply', buf.addr)
       /\ Held(reply', deferred) = Held(reply, deferred) \o y
       /\ Continues(reply, reply')
  <2>1. PlainToList(y) /\ y \in Bytes /\ GoodList(reply, buf.addr) /\ deferred \in Bytes
    BY <1>1, <1>3, <1>7
  <2> QED BY <2>1, PlainAdded
<1>14. x # <<>> => reply = <<>>
  <2>1. ASSUME fit = 0 PROVE x = <<>>
    BY <1>7, <2>1 DEF Bytes
  <2> QED BY <1>6, <2>1
<1>15. buf'.used # buf.used => reply = <<>>
  <2>1. fit = 0 => buf'.used = buf.used
    BY <1>3, <1>11
  <2> QED BY <1>6, <2>1
<1>16. /\ added + n <= MaxBytes /\ added' = added + n
       /\ mark' = mark /\ deferred' = deferred /\ wire' = wire /\ x \in Bytes /\ y \in Bytes
  BY <1>1, <1>7
<1> QED BY <1>2, <1>8, <1>11, <1>12, <1>13, <1>14, <1>15, <1>16, InvAfterAdding

\* _addBulkStrRefToBufferOrList(): so do the three bytes of a reference.
LEMMA AddBulkRefInv ==
  ASSUME Inv, AddBulkRef
  PROVE  Inv'
<1> DEFINE s == Fresh(3)
           b == IF buf.used = 0 THEN WithEnc(buf, TRUE) ELSE buf
<1>1. /\ added + 3 <= MaxBytes /\ added' = added + 3
      /\ mark' = mark /\ deferred' = deferred /\ wire' = wire
  BY DEF AddBulkRef
<1>2. \/ /\ b.enc /\ reply = <<>> /\ Avail(b) > 0
         /\ buf' = PutRef(b, s) /\ peak' = PeakAfter(1, buf.used + 1) /\ reply' = reply
      \/ buf' = WithOpen(b, FALSE) /\ RefToList(s) /\ peak' = peak
  BY Zenon DEF AddBulkRef, WithEnc, WithOpen
<1>3. /\ BufferInv(buf) /\ buf.size <= BufSize /\ BufSize \in Nat
      /\ peak \in Nat /\ buf.used <= peak /\ peak <= BufSize
      /\ buf.used \in Nat /\ buf.size \in Nat /\ buf.used <= buf.size
      /\ GoodList(reply, buf.addr) /\ added \in Nat /\ deferred \in Bytes
      /\ Data(buf) \in Bytes /\ Held(reply, deferred) \in Bytes
  BY InvFacts
<1>4. s = Interval(added, 3) /\ s \in Bytes /\ s \in Triple
  <2>1. s = Interval(added, 3)
    BY FreshInterval
  <2>2. s \in Bytes /\ Len(s) = 3
    BY <1>3, <2>1, IntervalFacts, ZenonT(40)
  <2> QED BY <2>1, <2>2 DEF Triple
<1>5. BufferInv(b) /\ Data(b) = Data(buf) /\ b.addr = buf.addr /\ b.used = buf.used /\ b.size = buf.size
  <2>1. CASE buf.used = 0
    <3> DEFINE f == TRUE
               w == WithEnc(buf, f)
    <3>1. f \in BOOLEAN /\ b = w
      BY <2>1
    <3> HIDE DEF f, b
    <3>2. BufferInv(w) /\ Data(w) = Data(buf) /\ w.addr = buf.addr /\ w.used = buf.used /\ w.size = buf.size
      BY <1>3, <2>1, <3>1, WithEncFacts
    <3> HIDE DEF w
    <3> QED BY <3>1, <3>2
  <2>2. CASE buf.used # 0
    BY <1>3, <2>2
  <2> QED BY <2>1, <2>2
<1> HIDE DEF b, s
<1> DEFINE z == <<>>
<1>6. z \in Bytes /\ Data(buf) \o z = Data(buf) /\ Held(reply, deferred) \o z = Held(reply, deferred)
      /\ s \o z = s /\ z \o s = s
  BY <1>3, <1>4, BytesFacts
<1>7. CASE /\ b.enc /\ reply = <<>> /\ Avail(b) > 0
           /\ buf' = PutRef(b, s) /\ peak' = PeakAfter(1, buf.used + 1) /\ reply' = reply
  <2>1. /\ reply = <<>> /\ Avail(b) > 0 /\ b.enc
        /\ buf' = PutRef(b, s) /\ peak' = PeakAfter(1, buf.used + 1) /\ reply' = reply
    BY <1>7, Zenon
  <2>2. b.enc = TRUE
    <3>1. b.enc \in BOOLEAN
      BY <1>5, BufferData
    <3> QED BY <2>1, <3>1, Zenon
  <2>3. b.used < b.size
    <3>1. Avail(b) > 0
      BY <2>1, Zenon
    <3> QED BY <1>3, <1>5, <3>1 DEF Avail
  <2> DEFINE c == PutRef(b, s)
  <2>4. BufferInv(c) /\ Data(c) = Data(b) \o s /\ c.addr = b.addr /\ c.size = b.size /\ c.used = b.used + 1
    BY <1>4, <1>5, <2>2, <2>3, PutRefFacts
  <2>5. buf' = c
    BY <2>1, Zenon
  <2> HIDE DEF c
  <2>6. /\ BufferInv(buf') /\ Data(buf') = Data(buf) \o s /\ buf'.addr = buf.addr
        /\ buf'.size = buf.size /\ buf'.used = buf.used + 1
    BY <1>5, <2>4, <2>5, Zenon
  <2>7. buf'.used <= peak' /\ peak' \in Nat /\ peak' <= BufSize /\ buf.used <= buf'.used
    <3>1. peak' = PeakAfter(1, buf.used + 1)
      BY <2>1, Zenon
    <3>2. buf.used < buf.size
      BY <1>5, <2>3
    <3> QED BY <1>3, <2>6, <3>1, <3>2 DEF PeakAfter
  <2>8. GoodList(reply', buf.addr) /\ Held(reply', deferred) = Held(reply, deferred) \o z
        /\ Continues(reply, reply')
    <3>1. reply' = reply
      BY <2>1, Zenon
    <3> HIDE DEF z
    <3> QED BY <1>3, <1>6, <3>1, ContinuesSame
  <2>9. reply = <<>> /\ Joins(s, z, added, 3)
    BY <1>4, <1>6, <2>1, Zenon DEF Joins
  <2>10. s \in Bytes /\ z \in Bytes /\ 3 \in Nat
    BY <1>4, <1>6
  <2> HIDE DEF z
  <2> QED BY <1>1, <2>6, <2>7, <2>8, <2>9, <2>10, InvAfterAdding
<1>8. CASE buf' = WithOpen(b, FALSE) /\ RefToList(s) /\ peak' = peak
  <2>1. /\ BufferInv(buf') /\ Data(buf') = Data(b) /\ buf'.addr = b.addr /\ buf'.used = b.used
        /\ buf'.size = b.size
    <3> DEFINE f == FALSE
               w == WithOpen(b, f)
    <3>1. f \in BOOLEAN /\ buf' = w
      BY <1>8
    <3> HIDE DEF f
    <3>2. BufferInv(w) /\ Data(w) = Data(b) /\ w.addr = b.addr /\ w.used = b.used /\ w.size = b.size
      BY <1>5, <3>1, WithOpenFacts
    <3> HIDE DEF w
    <3> QED BY <3>1, <3>2
  <2>2. /\ BufferInv(buf') /\ Data(buf') = Data(buf) \o z /\ buf'.addr = buf.addr
        /\ buf'.size = buf.size /\ buf'.used = buf.used
    BY <1>5, <1>6, <2>1
  <2>3. /\ GoodList(reply', buf.addr)
        /\ Held(reply', deferred) = Held(reply, deferred) \o s
        /\ Continues(reply, reply')
    <3>1. GoodList(reply, buf.addr) /\ deferred \in Bytes /\ s \in Triple /\ RefToList(s)
      BY <1>3, <1>4, <1>8, Zenon
    <3> QED BY <3>1, RefAdded
  <2>4. buf.used <= buf'.used /\ buf'.used <= peak' /\ peak' \in Nat /\ peak' <= BufSize
    <3>1. /\ peak' = peak /\ buf'.used = buf.used /\ buf.used \in Nat /\ buf.used <= peak
          /\ peak \in Nat /\ peak <= BufSize
      BY <1>3, <1>8, <2>2, Zenon
    <3> QED BY <3>1
  <2>5. Joins(z, s, added, 3)
    BY <1>4, <1>6 DEF Joins
  <2>6. s \in Bytes /\ z \in Bytes /\ 3 \in Nat /\ (z # <<>> => reply = <<>>)
    BY <1>4, <1>6
  <2> HIDE DEF z
  <2> QED BY <1>1, <2>2, <2>3, <2>4, <2>5, <2>6, InvAfterAdding
<1> QED BY <1>2, <1>7, <1>8

\* Without a placeholder the deferred bytes do not matter.
LEMMA HeldWithout ==
  ASSUME NEW r, NEW a, GoodList(r, a), ~HasPlaceholder(r), NEW d, NEW e
  PROVE  Held(r, d) = Held(r, e)
<1>1. \A i \in 1..Len(r) : r[i].addr # NoAddr
  BY DEF HasPlaceholder
<1>2. Pieces(r, d) = [i \in 1..Len(r) |-> Data(r[i])]
  BY <1>1 DEF Pieces
<1>3. Pieces(r, e) = [i \in 1..Len(r) |-> Data(r[i])]
  BY <1>1 DEF Pieces
<1> QED BY <1>2, <1>3 DEF Held

\* A trimmed block holds what it held.
LEMMA TrimmedFacts ==
  ASSUME NEW b, BufferInv(b), NEW a \in Addrs
  PROVE  /\ BufferInv(Trimmed(b, a)) /\ Data(Trimmed(b, a)) = Data(b)
         /\ Trimmed(b, a).addr = a /\ Trimmed(b, a).used = b.used
<1> DEFINE c == Trimmed(b, a)
<1>1. b \in Buffer
  BY DEF BufferInv
<1>2. c \in Buffer
  BY <1>1 DEF Trimmed, Buffer
<1>3. c.addr = a /\ c.used = b.used /\ c.size = b.used /\ c.enc = b.enc /\ c.iov = b.iov
  BY <1>1 DEF Trimmed, Buffer
<1> HIDE DEF c
<1>4. Data(c) = Data(b)
  BY <1>3 DEF Data
<1>5. c.used <= c.size
  <2>1. b.used \in Nat /\ c.used = b.used /\ c.size = b.used
    BY <1>3, BufferData
  <2> QED BY <2>1
<1>6. BufferInv(c)
  BY <1>2, <1>3, <1>4, <1>5, Zenon DEF BufferInv
<1> QED BY <1>3, <1>4, <1>6 DEF c

\* trimReplyUnusedTailSpace() keeps the content, and the bookmarked block.
LEMMA TailTrimmed ==
  ASSUME Inv, NEW n, n = Len(reply), n > 0, reply[n].addr # NoAddr, reply[n].addr # mark.buf,
         NEW a \in FreeAddrs \cup {reply[n].addr},
         NEW t, t = Put(reply, n, Trimmed(reply[n], a))
  PROVE  /\ GoodList(t, buf.addr) /\ Len(t) = n
         /\ \A d \in Bytes : Held(t, d) = Held(reply, d)
         /\ \A i \in 1..n : t[i].addr = NoAddr => reply[i].addr = NoAddr
         /\ reply[1].addr = mark.buf => t[1] = reply[1]
<1>1. GoodList(reply, buf.addr) /\ n \in Nat /\ reply \in Seq(Buffer)
  BY InvFacts
<1>2. n \in 1..n /\ 1 \in 1..n
  BY <1>1
<1>3. /\ BufferInv(reply[n]) /\ reply[n].addr # buf.addr
      /\ reply[n].addr = NoAddr <=> reply[n].used = 0
      /\ \A i \in 1..n : i # n => reply[i].addr # reply[n].addr
      /\ Data(reply[n]) \in Bytes /\ reply[n] \in Buffer
  BY <1>1, <1>2, GoodFacts
<1>4. a \in Addrs /\ a # buf.addr /\ a # NoAddr /\ \A i \in 1..n : i # n => reply[i].addr # a
  <2>1. CASE a \in FreeAddrs
    BY <1>1, <2>1, FreeFacts
  <2>2. CASE a = reply[n].addr
    <3>1. a \in Addrs
      <4>1. reply[n].addr \in Addrs \cup {NoAddr}
        BY <1>3 DEF Buffer
      <4> QED BY <2>2, <4>1
    <3> QED BY <1>3, <2>2, <3>1
  <2> QED BY <2>1, <2>2
<1> DEFINE b == reply[n]
           c == Trimmed(b, a)
<1>5. BufferInv(c) /\ Data(c) = Data(b) /\ c.addr = a /\ c.used = b.used
  BY <1>3, <1>4, TrimmedFacts
<1>6. t = Put(reply, n, c)
  OBVIOUS
<1> HIDE DEF b, c
<1>7. /\ GoodList(t, buf.addr) /\ Len(t) = n /\ t[n] = c
      /\ \A i \in 1..n : i # n => t[i] = reply[i]
  <2>1. c.addr # buf.addr /\ \A i \in 1..Len(reply) : i # n => reply[i].addr # c.addr
    BY <1>4, <1>5
  <2>2. c.addr = NoAddr <=> c.used = 0
    BY <1>3, <1>4, <1>5 DEF b
  <2>3. BufferInv(c) /\ n \in 1..Len(reply) /\ GoodList(reply, buf.addr)
    BY <1>1, <1>2, <1>5
  <2> QED BY <1>6, <2>1, <2>2, <2>3, ListReplaced
<1>8. ASSUME NEW d \in Bytes PROVE Held(t, d) = Held(reply, d)
  <2> DEFINE z == <<>>
  <2>1. z \in Bytes /\ Data(reply[n]) \o z = Data(reply[n])
    BY <1>3, BytesFacts
  <2>2. Held(reply, d) \in Bytes
    BY <1>1, PiecesFacts
  <2>3. Held(reply, d) \o z = Held(reply, d)
    BY <2>2, BytesFacts
  <2> HIDE DEF z
  <2>4. t[Len(reply)].addr # NoAddr /\ Data(t[Len(reply)]) = Data(reply[Len(reply)]) \o z
    BY <1>4, <1>5, <1>7, <2>1 DEF b
  <2>5. /\ GoodList(reply, buf.addr) /\ GoodList(t, buf.addr) /\ Len(t) = Len(reply)
        /\ Len(reply) > 0 /\ reply[Len(reply)].addr # NoAddr
        /\ \A i \in 1..Len(reply) : i # Len(reply) => t[i] = reply[i]
    BY <1>1, <1>7
  <2>6. Held(t, d) = Held(reply, d) \o z
    BY <2>1, <2>4, <2>5, HeldTail
  <2> QED BY <2>3, <2>6
<1>9. \A i \in 1..n : t[i].addr = NoAddr => reply[i].addr = NoAddr
  BY <1>4, <1>5, <1>7
<1>10. reply[1].addr = mark.buf => t[1] = reply[1]
  BY <1>2, <1>7
<1> QED BY <1>7, <1>8, <1>9, <1>10

\* The list with or without its tail trimmed, and the placeholder behind it.
LEMMA AddReplyDeferredLenInv ==
  ASSUME Inv, NEW len \in 1..MaxDefer, AddReplyDeferredLen(len)
  PROVE  Inv'
<1> DEFINE n == Len(reply)
           d == Fresh(len)
           H == Held(reply, deferred)
<1>1. /\ deferred = <<>> /\ added + len <= MaxBytes /\ deferred' = d /\ added' = added + len
      /\ buf' = buf /\ peak' = peak /\ mark' = mark /\ wire' = wire
  BY DEF AddReplyDeferredLen
<1>2. /\ BufferInv(buf) /\ buf.addr \in Addrs
      /\ buf.used \in Nat /\ Data(buf) \in Bytes /\ Len(Data(buf)) \in Nat
      /\ GoodList(reply, buf.addr) /\ n \in Nat
      /\ deferred # <<>> <=> HasPlaceholder(reply)
      /\ Marks(mark, buf, reply) /\ mark.data \in Nat
      /\ deferred \in Bytes /\ wire \in Bytes /\ Len(wire) \in Nat
      /\ added \in Nat /\ wire = Interval(0, Len(wire))
      /\ mark.data <= Len(wire) /\ Len(wire) - mark.data <= added
      /\ Len(wire) - mark.data \in Nat
      /\ H \in Bytes
      /\ Data(buf) \o H = Interval(Len(wire) - mark.data, added - (Len(wire) - mark.data))
  BY InvFacts
<1>3. len \in Nat /\ len > 0
  BY OutputAssumption
<1>4. d = Interval(added, len) /\ d \in Bytes /\ Len(d) = len
  BY <1>2, <1>3, FreshInterval, IntervalFacts
<1>5. d # <<>>
  <2> HIDE DEF d
  <2> QED BY <1>3, <1>4
<1>6. ~HasPlaceholder(reply)
  BY <1>1, <1>2
<1>7. \E t : /\ reply' = Append(t, Placeholder)
             /\ GoodList(t, buf.addr) /\ Len(t) = n
             /\ \A e \in Bytes : Held(t, e) = Held(reply, e)
             /\ \A i \in 1..n : t[i].addr # NoAddr
             /\ reply[1].addr = mark.buf => t[1] = reply[1]
  <2>1. \A i \in 1..n : reply[i].addr # NoAddr
    BY <1>6 DEF HasPlaceholder
  <2>2. CASE n > 0 /\ Trimmable(reply[n])
    <3>1. PICK a \in FreeAddrs \cup {reply[n].addr} :
            reply' = Append(Put(reply, n, Trimmed(reply[n], a)), Placeholder)
      BY <2>2, Zenon DEF AddReplyDeferredLen, Put
    <3>2. n > 0 /\ reply[n].addr # NoAddr /\ reply[n].addr # mark.buf
      BY <2>2, Zenon DEF Trimmable
    <3> DEFINE t == Put(reply, n, Trimmed(reply[n], a))
    <3>3. /\ GoodList(t, buf.addr) /\ Len(t) = n
          /\ \A e \in Bytes : Held(t, e) = Held(reply, e)
          /\ \A i \in 1..n : t[i].addr = NoAddr => reply[i].addr = NoAddr
          /\ reply[1].addr = mark.buf => t[1] = reply[1]
      <4> DEFINE k == n
      <4>1. k = Len(reply) /\ k > 0 /\ reply[k].addr # NoAddr /\ reply[k].addr # mark.buf
            /\ a \in FreeAddrs \cup {reply[k].addr} /\ t = Put(reply, k, Trimmed(reply[k], a))
        BY <3>2
      <4> HIDE DEF k, t
      <4>2. /\ GoodList(t, buf.addr) /\ Len(t) = k
            /\ \A e \in Bytes : Held(t, e) = Held(reply, e)
            /\ \A i \in 1..k : t[i].addr = NoAddr => reply[i].addr = NoAddr
            /\ reply[1].addr = mark.buf => t[1] = reply[1]
        BY <4>1, TailTrimmed
      <4> QED BY <4>1, <4>2
    <3>4. reply' = Append(t, Placeholder)
      BY <3>1
    <3> HIDE DEF t
    <3> QED BY <2>1, <3>3, <3>4
  <2>3. CASE ~(n > 0 /\ Trimmable(reply[n]))
    <3>1. reply' = Append(reply, Placeholder)
      BY <2>3, Zenon DEF AddReplyDeferredLen
    <3> QED BY <1>2, <2>1, <3>1
  <2> QED BY <2>2, <2>3
<1>8. PICK t : /\ reply' = Append(t, Placeholder)
               /\ GoodList(t, buf.addr) /\ Len(t) = n
               /\ \A e \in Bytes : Held(t, e) = Held(reply, e)
               /\ \A i \in 1..n : t[i].addr # NoAddr
               /\ reply[1].addr = mark.buf => t[1] = reply[1]
  BY <1>7
<1> DEFINE b == Placeholder
<1>9. BufferInv(b) /\ b.addr = NoAddr /\ b.used = 0
  <2> DEFINE f == FALSE
             z == 0
             v == NoAddr
             c == [EmptyBuffer(v, z) EXCEPT !.enc = f]
  <2>1. f \in BOOLEAN /\ v \in Addrs \cup {NoAddr} /\ z \in Nat
    OBVIOUS
  <2>2. c = b
    BY EmptyPlain DEF Placeholder
  <2> HIDE DEF f, z, v
  <2>3. BufferInv(c) /\ c.addr = v /\ c.used = 0
    BY <2>1, EmptyFacts
  <2> HIDE DEF c
  <2> QED BY <2>2, <2>3 DEF v
<1> HIDE DEF b, d, H
<1>10. NoAddr # buf.addr
  BY <1>2, OutputAssumption
<1>11. /\ GoodList(reply', buf.addr) /\ Len(reply') = n + 1
       /\ \A i \in 1..n : reply'[i] = t[i]
       /\ reply'[n + 1] = b
       /\ Held(reply', d) = Held(t, d) \o d
  <2>1. /\ b.addr = NoAddr <=> b.used = 0
        /\ b.addr # buf.addr /\ \A i \in 1..Len(t) : t[i].addr # b.addr
    BY <1>8, <1>9, <1>10
  <2>2. GoodList(t, buf.addr) /\ BufferInv(b) /\ d \in Bytes
    BY <1>4, <1>8, <1>9
  <2> DEFINE u == Append(t, b)
  <2>3. /\ GoodList(u, buf.addr) /\ Len(u) = Len(t) + 1
        /\ \A i \in 1..Len(t) : u[i] = t[i]
        /\ u[Len(t) + 1] = b
        /\ Held(u, d) = Held(t, d) \o (IF b.addr = NoAddr THEN d ELSE Data(b))
    BY <2>1, <2>2, ListAppended
  <2>4. reply' = u
    BY <1>8 DEF b
  <2> HIDE DEF u
  <2> QED BY <1>8, <1>9, <2>3, <2>4
<1>12. BufInv'
  <2>1. BufInv
    BY DEF Inv
  <2> QED BY <1>1, <2>1 DEF BufInv
<1>13. ListInv'
  <2>1. n + 1 \in 1..Len(reply') /\ reply'[n + 1].addr = NoAddr
    BY <1>2, <1>9, <1>11
  <2>2. HasPlaceholder(reply')
    BY <2>1 DEF HasPlaceholder
  <2> QED BY <1>1, <1>5, <1>11, <2>2 DEF ListInv
<1>14. MarkInv'
  <2>1. ASSUME Len(reply) > 0, mark.buf = reply[1].addr
        PROVE  /\ Len(reply') > 0 /\ reply'[1].addr = reply[1].addr
               /\ Len(Data(reply[1])) \in Nat /\ Len(Data(reply'[1])) \in Nat
               /\ Len(Data(reply[1])) <= Len(Data(reply'[1]))
    <3>1. 1 \in 1..n
      BY <1>2, <2>1
    <3>2. reply'[1] = reply[1]
      BY <1>8, <1>11, <2>1, <3>1
    <3>3. Data(reply[1]) \in Bytes
      BY <1>2, <3>1, GoodFacts
    <3>4. Len(Data(reply[1])) \in Nat
      BY <3>3, BytesFacts
    <3>5. Len(reply') > 0
      BY <1>2, <1>11
    <3> QED BY <3>2, <3>4, <3>5
  <2>2. /\ Marks(mark, buf, reply) /\ buf.used \in Nat /\ Len(Data(buf)) \in Nat
        /\ Len(Data(buf)) <= Len(Data(buf))
    BY <1>2
  <2>3. buf.used = 0 => ~(buf.used > 0)
    BY <2>2
  <2>4. Marks(mark, buf, reply')
    BY <2>1, <2>2, <2>3, MarkKept
  <2>5. Marks(mark', buf', reply')
    BY <1>1, <2>4
  <2> QED BY <2>5 DEF MarkInv
<1>15. StreamInv'
  <2> DEFINE lo == Len(wire) - mark.data
             z == <<>>
  <2>1. lo \in Nat /\ lo <= added
    BY <1>2, Zenon
  <2>2. /\ z \in Bytes /\ (z = <<>> \/ H = <<>>) /\ z \o d = d /\ Data(buf) \o z = Data(buf)
    BY <1>2, <1>4, BytesFacts
  <2>3. /\ H \in Bytes /\ Data(buf) \in Bytes /\ added \in Nat
        /\ Joins(Data(buf), H, lo, added - lo)
    BY <1>2, Zenon DEF Joins
  <2>4. Joins(z, d, added, len)
    BY <1>4, <2>2 DEF Joins
  <2> HIDE DEF lo, z
  <2>5. Joins(Data(buf) \o z, H \o d, lo, (added + len) - lo)
    BY <1>3, <1>4, <2>1, <2>2, <2>3, <2>4, StreamExtended
  <2>6. Held(reply', d) = H \o d
    <3>1. Held(t, d) = Held(reply, d)
      BY <1>4, <1>8
    <3>2. Held(reply, d) = H
      BY <1>2, <1>6, HeldWithout DEF H
    <3> QED BY <1>11, <3>1, <3>2
  <2>7. Data(buf') \o Held(reply', deferred') = Interval(lo, (added + len) - lo)
    <3>1. (Data(buf) \o z) \o (H \o d) = Interval(lo, (added + len) - lo)
      BY <2>5 DEF Joins
    <3> QED BY <1>1, <2>2, <2>6, <3>1
  <2>8. added' \in Nat /\ added' <= MaxBytes /\ Len(wire) - mark.data <= added'
    BY <1>1, <1>2, <1>3
  <2>9. deferred' \in Bytes /\ wire' \in Bytes
    BY <1>1, <1>2, <1>4
  <2> QED BY <1>1, <1>2, <2>7, <2>8, <2>9, Zenon DEF StreamInv, lo
<1> QED BY <1>12, <1>13, <1>14, <1>15 DEF Inv

-----------------------------------------------------------------------------
(* setDeferredReply().                                                     *)

\* The block at p - 1 took the first k bytes of the header.
FirstPart(k) == SubSeq(deferred, 1, k)
Rest(k) == SubSeq(deferred, k + 1, Len(deferred))
PreviousFilled(p, k) ==
  IF k = 0 THEN reply ELSE Put(reply, p - 1, PutPlain(reply[p - 1], FirstPart(k)))

\* The block before the placeholder p may take k bytes of it.
PreviousTakes(p, k) ==
  k > 0 => /\ p > 1 /\ reply[p - 1].addr # NoAddr /\ reply[p - 1].addr # mark.buf
           /\ reply[p - 1].used + k <= reply[p - 1].size

\* The part of the header that the previous block takes moves to the left.
LEMMA HeaderToPrevious ==
  ASSUME Inv, NEW p \in 1..Len(reply), reply[p].addr = NoAddr,
         NEW k \in 0..Len(deferred),
         PreviousTakes(p, k), NEW t, t = PreviousFilled(p, k)
  PROVE  /\ GoodList(t, buf.addr) /\ Len(t) = Len(reply)
         /\ \A i \in 1..Len(reply) : t[i].addr = reply[i].addr
         /\ \A i \in 1..Len(reply) : i >= p => t[i] = reply[i]
         /\ Rest(k) \in Bytes
         /\ Held(t, Rest(k)) = Held(reply, deferred)
         /\ reply[1].addr = mark.buf => t[1] = reply[1]
<1> DEFINE n == Len(reply)
           d == FirstPart(k)
           e == Rest(k)
<1>1. GoodList(reply, buf.addr) /\ n \in Nat /\ deferred \in Bytes /\ Len(deferred) \in Nat
  BY InvFacts, BytesFacts
<1>2. /\ d \in Bytes /\ Len(d) = k /\ e \in Bytes /\ d \o e = deferred
  BY <1>1, BytesCut DEF FirstPart, Rest
<1>3. CASE k = 0
  <2>1. t = reply
    BY <1>3 DEF PreviousFilled
  <2>2. e = deferred
    BY <1>1, <1>3 DEF Rest, Bytes
  <2> QED BY <1>1, <1>2, <2>1, <2>2
<1>4. CASE k # 0
  <2> DEFINE q == p - 1
  <2>1. k > 0 /\ k \in Nat
    BY <1>1, <1>4
  <2>2. p \in 2..n /\ q \in 1..n /\ q # p
    BY <1>1, <2>1 DEF PreviousTakes
  <2>3. /\ reply[q].addr # NoAddr /\ reply[q].addr # mark.buf
        /\ reply[q].used + Len(d) <= reply[q].size
    BY <1>2, <2>1 DEF PreviousTakes
  <2>4. t = Put(reply, q, PutPlain(reply[q], d))
    BY <1>4 DEF PreviousFilled
  <2> HIDE DEF d, e, q
  <2>5. /\ GoodList(t, buf.addr) /\ Len(t) = n
        /\ Data(t[q]) = Data(reply[q]) \o d /\ t[q].addr = reply[q].addr
        /\ \A i \in 1..n : i # q => t[i] = reply[i]
    <3>1. GoodList(reply, buf.addr) /\ d \in Bytes /\ q \in 1..Len(reply)
      BY <1>1, <1>2, <2>2, Zenon
    <3> QED BY <2>3, <2>4, <3>1, BlockFilled, SMTT(30)
  <2>6. t[p] = reply[p]
    BY <2>2, <2>5
  <2>8. Held(t, e) = Held(reply, deferred)
    <3>1. t[p].addr = NoAddr /\ t[p - 1].addr # NoAddr
          /\ Splits(Data(t[p - 1]), Data(reply[p - 1]), d)
          /\ \A i \in 1..Len(reply) : i # p - 1 => t[i] = reply[i]
      BY <2>3, <2>5, <2>6 DEF q, Splits
    <3>2. Splits(deferred, d, e)
      BY <1>2 DEF Splits
    <3>3. GoodList(reply, buf.addr) /\ GoodList(t, buf.addr) /\ Len(t) = Len(reply)
          /\ p \in 2..Len(reply) /\ d \in Bytes /\ e \in Bytes /\ deferred \in Bytes
      BY <1>1, <1>2, <2>2, <2>5, Zenon
    <3> QED BY <3>1, <3>2, <3>3, HeldShiftedLeft
  <2>9. \A i \in 1..n : i >= p => t[i] = reply[i]
    BY <2>2, <2>5 DEF q
  <2>10. \A i \in 1..n : t[i].addr = reply[i].addr
    BY <2>2, <2>5
  <2>11. reply[1].addr = mark.buf => t[1] = reply[1]
    BY <2>2, <2>3, <2>5 DEF q
  <2> QED BY <1>2, <2>5, <2>8, <2>9, <2>10, <2>11 DEF e
<1> QED BY <1>3, <1>4

\* A block that may take the bytes d in front of its own.
TakesHeader(b, d) ==
  b.addr # NoAddr /\ b.enc = FALSE /\ d # <<>> /\ b.used + Len(d) <= b.size

\* The header in front of the next block's content.
LEMMA HeaderToNext ==
  ASSUME NEW r, NEW a, GoodList(r, a), NEW p \in 1..Len(r), r[p].addr = NoAddr,
         NEW q \in 1..Len(r), q = p + 1, NEW d \in Bytes, TakesHeader(r[q], d),
         NEW t, t = Put(r, q, Prefixed(r[q], d))
  PROVE  /\ GoodList(t, a) /\ Len(t) = Len(r)
         /\ \A i \in 1..Len(r) : i # q => t[i] = r[i]
         /\ Held(t, <<>>) = Held(r, d)
<1> DEFINE b == r[q]
           c == Prefixed(b, d)
<1>1. Len(r) \in Nat /\ p \in 1..(Len(r) - 1) /\ p # q
  BY GoodFacts
<1>2. /\ BufferInv(b) /\ b.addr # a
      /\ \A i \in 1..Len(r) : i # q => r[i].addr # b.addr
  BY <1>1, GoodFacts
<1>3. b.addr # NoAddr /\ ~b.enc /\ b.used + Len(d) <= b.size /\ t = Put(r, q, c) /\ d # <<>>
  BY DEF TakesHeader
<1> HIDE DEF b
<1>4. /\ BufferInv(c) /\ Data(c) = d \o Data(b) /\ c.addr = b.addr /\ c.used > 0
  BY <1>2, <1>3, PrefixedFacts
<1> HIDE DEF c
<1>5. /\ GoodList(t, a) /\ Len(t) = Len(r) /\ t[q] = c
      /\ \A i \in 1..Len(r) : i # q => t[i] = r[i]
  <2>1. c.addr # a /\ \A i \in 1..Len(r) : i # q => r[i].addr # c.addr
    BY <1>2, <1>4
  <2>2. c.addr = NoAddr <=> c.used = 0
    BY <1>3, <1>4
  <2>3. BufferInv(c) /\ q \in 1..Len(r) /\ GoodList(r, a) /\ t = Put(r, q, c)
    BY <1>1, <1>3, <1>4
  <2> QED BY <2>1, <2>2, <2>3, ListReplaced
<1>6. t[p].addr = NoAddr /\ t[p + 1].addr # NoAddr
  BY <1>1, <1>3, <1>4, <1>5
<1>7. Splits(Data(t[p + 1]), d, Data(r[p + 1]))
  BY <1>4, <1>5 DEF Splits, b
<1>8. \A i \in 1..Len(r) : i # p + 1 => t[i] = r[i]
  BY <1>5
<1>9. Held(t, <<>>) = Held(r, d)
  BY <1>1, <1>5, <1>6, <1>7, <1>8, HeldShiftedRight
<1> QED BY <1>5, <1>8, <1>9

\* The header in a block of its own.
LEMMA HeaderInBlock ==
  ASSUME NEW r, NEW a, GoodList(r, a), NEW p \in 1..Len(r), r[p].addr = NoAddr,
         NEW d \in Bytes, d # <<>>, NEW x \in Addrs, x # NoAddr, x # a,
         \A i \in 1..Len(r) : r[i].addr # x,
         NEW t, t = Put(r, p, PutPlain(EmptyBuffer(x, Len(d)), d))
  PROVE  /\ GoodList(t, a) /\ Len(t) = Len(r) /\ t[p].addr # NoAddr
         /\ \A i \in 1..Len(r) : i # p => t[i] = r[i]
         /\ Held(t, <<>>) = Held(r, d)
<1> DEFINE n == Len(d)
           c == PutPlain(EmptyBuffer(x, n), d)
<1>1. n \in Nat /\ n <= n
  BY BytesFacts
<1>2. t = Put(r, p, c) /\ Len(d) <= n
  BY <1>1
<1> HIDE DEF n
<1>3. BufferInv(c) /\ Data(c) = d /\ c.addr = x /\ c.used # 0
  BY <1>1, <1>2, NewBlock
<1> HIDE DEF c
<1>4. /\ GoodList(t, a) /\ Len(t) = Len(r) /\ t[p] = c
      /\ \A i \in 1..Len(r) : i # p => t[i] = r[i]
  <2>1. /\ c.addr # a /\ \A i \in 1..Len(r) : i # p => r[i].addr # c.addr
        /\ c.addr = NoAddr <=> c.used = 0
    BY <1>3
  <2> QED BY <1>2, <1>3, <2>1, ListReplaced
<1>5. t[p].addr # NoAddr /\ Data(t[p]) = d
  BY <1>3, <1>4
<1>6. Held(t, <<>>) = Held(r, d)
  BY <1>4, <1>5, HeldFilled
<1> QED BY <1>4, <1>5, <1>6

\* The list t holds what reply and the deferred bytes hold, and has no placeholder; a
\* bookmarked first block stays where it is.
Settled(t) ==
  /\ GoodList(t, buf.addr) /\ ~HasPlaceholder(t)
  /\ Held(t, <<>>) = Held(reply, deferred)
  /\ reply[1].addr = mark.buf /\ mark.buf # NoAddr => Len(t) > 0 /\ t[1] = reply[1]

\* The placeholder leaves a list that holds the header elsewhere.
LEMMA PlaceholderGone ==
  ASSUME Inv, NEW p \in 1..Len(reply), reply[p].addr = NoAddr,
         NEW r, GoodList(r, buf.addr), Len(r) = Len(reply), r[p].addr = NoAddr,
         Held(r, <<>>) = Held(reply, deferred),
         reply[1].addr = mark.buf /\ mark.buf # NoAddr => r[1] = reply[1],
         NEW t, t = RemoveAt(r, p)
  PROVE  Settled(t)
<1>1. Len(reply) \in Nat
  BY InvFacts
<1>2. /\ GoodList(t, buf.addr) /\ Len(t) = Len(r) - 1
      /\ \A i \in 1..(p - 1) : t[i] = r[i]
      /\ ~HasPlaceholder(t) /\ Held(t, <<>>) = Held(r, <<>>)
  BY ListRemoved
<1>3. ASSUME reply[1].addr = mark.buf, mark.buf # NoAddr
      PROVE  Len(t) > 0 /\ t[1] = reply[1]
  <2>1. p # 1
    BY <1>3
  <2>2. 1 \in 1..(p - 1) /\ Len(t) > 0
    BY <1>1, <1>2, <2>1
  <2> QED BY <1>2, <1>3, <2>2
<1> QED BY <1>2, <1>3 DEF Settled

\* setDeferredReply() leaves the header between what was before and behind it.
LEMMA HeaderSettled ==
  ASSUME Inv, SetDeferredReply
  PROVE  Settled(reply')
<1> DEFINE n == Len(reply)
           fit(p) == IF p > 1 /\ Mutable(reply[p - 1])
                       THEN Least(Avail(reply[p - 1]), Len(deferred)) ELSE 0
<1>1. PICK p \in DOMAIN reply :
        /\ reply[p].addr = NoAddr
        /\ \/ Rest(fit(p)) = <<>> /\ reply' = RemoveAt(PreviousFilled(p, fit(p)), p)
           \/ /\ Rest(fit(p)) # <<>>
              /\ p < n /\ Prefixable(reply[p + 1], Len(Rest(fit(p))))
              /\ reply' = RemoveAt(Put(PreviousFilled(p, fit(p)), p + 1,
                                       Prefixed(PreviousFilled(p, fit(p))[p + 1], Rest(fit(p)))), p)
           \/ /\ Rest(fit(p)) # <<>>
              /\ \E a \in FreeAddrs :
                   reply' = Put(PreviousFilled(p, fit(p)), p,
                                PutPlain(EmptyBuffer(a, Len(Rest(fit(p)))), Rest(fit(p))))
  BY Zenon DEF SetDeferredReply, PreviousFilled, FirstPart, Rest, Put
<1> DEFINE k == fit(p)
           r == PreviousFilled(p, k)
           d == Rest(k)
<1>2. /\ GoodList(reply, buf.addr) /\ n \in Nat /\ reply \in Seq(Buffer)
      /\ deferred \in Bytes /\ Len(deferred) \in Nat
  BY InvFacts, BytesFacts
<1>3. p \in 1..n
  BY <1>1, <1>2
<1>4. k \in 0..Len(deferred) /\ PreviousTakes(p, k)
  <2>1. CASE p > 1 /\ Mutable(reply[p - 1])
    <3>1. p - 1 \in 1..n
      BY <1>2, <1>3, <2>1
    <3>2. BufferInv(reply[p - 1]) /\ reply[p - 1].used \in Nat /\ reply[p - 1].size \in Nat
          /\ reply[p - 1].used <= reply[p - 1].size
      <4>1. BufferInv(reply[p - 1])
        BY <1>2, <3>1, GoodFacts
      <4> QED BY <4>1, BufferData DEF BufferInv
    <3>3. k = Least(Avail(reply[p - 1]), Len(deferred))
      BY <2>1
    <3>4. reply[p - 1].addr # NoAddr /\ reply[p - 1].addr # mark.buf /\ p > 1
      BY <2>1, Zenon DEF Mutable
    <3> HIDE DEF k
    <3>5. k \in Nat /\ k <= Len(deferred) /\ k <= reply[p - 1].size - reply[p - 1].used
      BY <1>2, <3>2, <3>3 DEF Least, Avail
    <3>6. reply[p - 1].used + k <= reply[p - 1].size
      BY <3>2, <3>5
    <3> QED BY <1>2, <3>4, <3>5, <3>6 DEF PreviousTakes
  <2>2. CASE ~(p > 1 /\ Mutable(reply[p - 1]))
    <3>1. k = 0
      BY <2>2
    <3> QED BY <1>2, <3>1 DEF PreviousTakes
  <2> QED BY <2>1, <2>2
<1> HIDE DEF k
<1>5. /\ GoodList(r, buf.addr) /\ Len(r) = n
      /\ \A i \in 1..n : r[i].addr = reply[i].addr
      /\ \A i \in 1..n : i >= p => r[i] = reply[i]
      /\ d \in Bytes
      /\ Held(r, d) = Held(reply, deferred)
      /\ reply[1].addr = mark.buf => r[1] = reply[1]
  BY <1>1, <1>3, <1>4, HeaderToPrevious
<1>6. \/ d = <<>> /\ reply' = RemoveAt(r, p)
      \/ /\ d # <<>> /\ p < n /\ Prefixable(reply[p + 1], Len(d))
         /\ reply' = RemoveAt(Put(r, p + 1, Prefixed(r[p + 1], d)), p)
      \/ /\ d # <<>>
         /\ \E a \in FreeAddrs : reply' = Put(r, p, PutPlain(EmptyBuffer(a, Len(d)), d))
  BY <1>1, Zenon DEF k
<1> HIDE DEF d, r
<1>7. r[p].addr = NoAddr
  BY <1>1, <1>3, <1>5
<1>8. CASE d = <<>> /\ reply' = RemoveAt(r, p)
  <2>1. Held(r, <<>>) = Held(reply, deferred)
    BY <1>5, <1>8
  <2> QED BY <1>1, <1>3, <1>5, <1>7, <1>8, <2>1, PlaceholderGone
<1>9. CASE /\ d # <<>> /\ p < n /\ Prefixable(reply[p + 1], Len(d))
           /\ reply' = RemoveAt(Put(r, p + 1, Prefixed(r[p + 1], d)), p)
  <2> DEFINE u == Put(r, p + 1, Prefixed(r[p + 1], d))
  <2>1. /\ reply[p + 1].addr # NoAddr /\ reply[p + 1].addr # mark.buf
        /\ ~reply[p + 1].enc /\ Avail(reply[p + 1]) >= Len(d)
    BY <1>9, Zenon DEF Prefixable, Mutable
  <2>2. p + 1 \in 1..n /\ p \in 1..(n - 1)
    BY <1>2, <1>3, <1>9
  <2>3. r[p + 1] = reply[p + 1]
    BY <1>3, <1>5, <2>2
  <2>4. BufferInv(reply[p + 1])
    BY <1>2, <2>2, GoodFacts
  <2>5. reply[p + 1].enc = FALSE
    <3>1. reply[p + 1].enc \in BOOLEAN
      BY <2>4 DEF BufferInv, Buffer
    <3> QED BY <2>1, <3>1, Zenon
  <2>6. reply[p + 1].used + Len(d) <= reply[p + 1].size
    <3>1. reply[p + 1].used \in Nat /\ reply[p + 1].size \in Nat /\ Len(d) \in Nat
      BY <1>5, <2>4, BufferData, BytesFacts
    <3> QED BY <2>1, <3>1 DEF Avail
  <2>7. /\ r[p + 1].addr # NoAddr /\ r[p + 1].enc = FALSE
        /\ r[p + 1].used + Len(d) <= r[p + 1].size
    BY <2>1, <2>3, <2>5, <2>6
  <2>8. u = Put(r, p + 1, Prefixed(r[p + 1], d)) /\ d # <<>> /\ p \in 1..(Len(r) - 1)
    BY <1>5, <1>9, <2>2
  <2> HIDE DEF u
  <2>9. /\ GoodList(u, buf.addr) /\ Len(u) = Len(r)
        /\ \A i \in 1..Len(r) : i # p + 1 => u[i] = r[i]
        /\ Held(u, <<>>) = Held(r, d)
    <3> DEFINE q == p + 1
    <3>1. GoodList(r, buf.addr) /\ r[p].addr = NoAddr /\ d \in Bytes
      BY <1>5, <1>7, Zenon
    <3>2. TakesHeader(r[q], d) /\ u = Put(r, q, Prefixed(r[q], d)) /\ q = p + 1
      BY <2>7, <2>8, Zenon DEF TakesHeader
    <3>4. p \in 1..Len(r) /\ q \in 1..Len(r)
      BY <1>3, <1>5, <2>2
    <3> HIDE DEF q
    <3>3. /\ GoodList(u, buf.addr) /\ Len(u) = Len(r)
          /\ \A i \in 1..Len(r) : i # q => u[i] = r[i]
          /\ Held(u, <<>>) = Held(r, d)
      BY <3>1, <3>2, <3>4, HeaderToNext
    <3> QED BY <3>3 DEF q
  <2>10. u[p].addr = NoAddr /\ Len(u) = n
    <3>1. p # p + 1 /\ p \in 1..Len(r)
      BY <1>2, <1>3, <1>5
    <3>2. u[p] = r[p]
      BY <2>9, <3>1
    <3> QED BY <1>5, <1>7, <2>9, <3>2
  <2>11. reply[1].addr = mark.buf => u[1] = reply[1]
    <3> SUFFICES ASSUME reply[1].addr = mark.buf PROVE u[1] = reply[1]
      OBVIOUS
    <3>1. p + 1 # 1 /\ 1 \in 1..n
      BY <1>2, <1>3
    <3> QED BY <1>5, <2>9, <3>1
  <2>12. Held(u, <<>>) = Held(reply, deferred)
    BY <1>5, <2>9
  <2>13. reply' = RemoveAt(u, p)
    BY <1>9 DEF u
  <2> QED BY <1>1, <1>3, <2>9, <2>10, <2>11, <2>12, <2>13, PlaceholderGone
<1>10. CASE /\ d # <<>>
            /\ \E a \in FreeAddrs : reply' = Put(r, p, PutPlain(EmptyBuffer(a, Len(d)), d))
  <2>1. PICK a \in FreeAddrs : reply' = Put(r, p, PutPlain(EmptyBuffer(a, Len(d)), d))
    BY <1>10
  <2>2. a \in Addrs /\ a # NoAddr /\ a # buf.addr /\ \A i \in 1..n : reply[i].addr # a
    BY <1>2, FreeFacts
  <2>3. \A i \in 1..Len(r) : r[i].addr # a
    BY <1>5, <2>2
  <2>4. GoodList(r, buf.addr) /\ p \in 1..Len(r) /\ d \in Bytes /\ d # <<>>
    BY <1>3, <1>5, <1>10
  <2>5. /\ GoodList(reply', buf.addr) /\ Len(reply') = Len(r) /\ reply'[p].addr # NoAddr
        /\ \A i \in 1..Len(r) : i # p => reply'[i] = r[i]
        /\ Held(reply', <<>>) = Held(r, d)
    BY <1>7, <2>1, <2>2, <2>3, <2>4, HeaderInBlock
  <2>6. Held(reply', <<>>) = Held(reply, deferred)
    BY <1>5, <2>5
  <2>7. ~HasPlaceholder(reply')
    <3>1. \A i \in 1..n : i # p => r[i].addr # NoAddr
      BY <1>5, <1>7, <2>4, GoodFacts
    <3> QED BY <1>5, <2>5, <3>1 DEF HasPlaceholder
  <2>8. ASSUME reply[1].addr = mark.buf, mark.buf # NoAddr
        PROVE  Len(reply') > 0 /\ reply'[1] = reply[1]
    <3>1. p # 1 /\ 1 \in 1..n
      BY <1>1, <1>2, <1>3, <2>8
    <3> QED BY <1>2, <1>5, <2>5, <2>8, <3>1
  <2> QED BY <2>5, <2>6, <2>7, <2>8 DEF Settled
<1> QED BY <1>6, <1>8, <1>9, <1>10

\* The header is placed, and the stream is the same.
LEMMA SetDeferredReplyInv ==
  ASSUME Inv, SetDeferredReply
  PROVE  Inv'
<1>1. /\ deferred' = <<>>
      /\ buf' = buf /\ peak' = peak /\ mark' = mark /\ added' = added /\ wire' = wire
  BY DEF SetDeferredReply
<1>2. /\ buf.addr \in Addrs
      /\ buf.used \in Nat /\ Data(buf) \in Bytes /\ Len(Data(buf)) \in Nat
      /\ GoodList(reply, buf.addr) /\ Len(reply) \in Nat
      /\ Marks(mark, buf, reply) /\ mark.data \in Nat
      /\ wire \in Bytes /\ added \in Nat /\ added <= MaxBytes /\ wire = Interval(0, Len(wire))
      /\ mark.data <= Len(wire) /\ Len(wire) - mark.data <= added
      /\ Data(buf) \o Held(reply, deferred)
           = Interval(Len(wire) - mark.data, added - (Len(wire) - mark.data))
  BY InvFacts, Zenon
<1>3. Settled(reply')
  BY HeaderSettled
<1>4. /\ GoodList(reply', buf.addr) /\ ~HasPlaceholder(reply')
      /\ Held(reply', <<>>) = Held(reply, deferred)
      /\ reply[1].addr = mark.buf /\ mark.buf # NoAddr =>
           Len(reply') > 0 /\ reply'[1] = reply[1]
  BY <1>3, Zenon DEF Settled
<1>5. BufInv'
  <2>1. BufInv
    BY DEF Inv
  <2> QED BY <1>1, <2>1 DEF BufInv
<1>6. ListInv'
  BY <1>1, <1>4 DEF ListInv
<1>7. MarkInv'
  <2>1. ASSUME mark # NoMark, Len(reply) > 0, mark.buf = reply[1].addr
        PROVE  /\ Len(reply') > 0 /\ reply'[1].addr = reply[1].addr
               /\ Len(Data(reply[1])) \in Nat /\ Len(Data(reply'[1])) \in Nat
               /\ Len(Data(reply[1])) <= Len(Data(reply'[1]))
    <3>1. mark.buf # NoAddr
      <4>1. mark.buf \in Addrs
        BY <1>2, <2>1 DEF Marks
      <4> QED BY <4>1, OutputAssumption
    <3>2. Len(reply') > 0 /\ reply'[1] = reply[1]
      BY <1>4, <2>1, <3>1
    <3>3. 1 \in 1..Len(reply)
      BY <1>2, <2>1
    <3>4. Data(reply[1]) \in Bytes
      BY <1>2, <3>3, GoodFacts
    <3>5. Len(Data(reply[1])) \in Nat
      BY <3>4, BytesFacts
    <3> QED BY <3>2, <3>5
  <2>2. /\ Marks(mark, buf, reply) /\ buf.used \in Nat /\ Len(Data(buf)) \in Nat
        /\ Len(Data(buf)) <= Len(Data(buf))
    BY <1>2
  <2>3. buf.used = 0 => ~(buf.used > 0)
    BY <2>2
  <2>4. Marks(mark, buf, reply')
    BY <2>1, <2>2, <2>3, MarkKept
  <2>5. Marks(mark', buf', reply')
    BY <1>1, <2>4
  <2> QED BY <2>5 DEF MarkInv
<1>8. StreamInv'
  <2>1. Data(buf') \o Held(reply', deferred')
          = Interval(Len(wire) - mark.data, added - (Len(wire) - mark.data))
    BY <1>1, <1>2, <1>4
  <2>2. deferred' \in Bytes
    BY <1>1, BytesFacts
  <2> QED BY <1>1, <1>2, <2>1, <2>2, Zenon DEF StreamInv
<1> QED BY <1>5, <1>6, <1>7, <1>8 DEF Inv

-----------------------------------------------------------------------------
(* The static buffer at another address, with another size.                *)

\* The new size has room for what the buffer holds.
LEMMA NewSizeFits ==
  ASSUME Inv
  PROVE  NewSize \in Nat /\ buf.used <= NewSize /\ NewSize <= BufSize
<1>1. /\ buf.used \in Nat /\ buf.size \in Nat /\ buf.used <= buf.size /\ buf.size <= BufSize
      /\ peak \in Nat /\ buf.used <= peak /\ peak <= BufSize /\ BufSize \in Nat
  BY InvFacts, Zenon
<1>2. MinBufSize \in Nat
  BY OutputAssumption
<1> DEFINE half == buf.size \div 2
<1>3. half \in Nat /\ 2 * half <= buf.size
  BY <1>1
<1>4. NewSize = IF half >= MinBufSize /\ peak < half
                  THEN IF peak + 1 < MinBufSize THEN MinBufSize ELSE peak + 1
                ELSE IF buf.size < BufSize /\ peak = buf.size THEN Least(BufSize, 2 * buf.size)
                ELSE buf.size
  BY DEF NewSize
<1> HIDE DEF half
<1>5. CASE half >= MinBufSize /\ peak < half
  BY <1>1, <1>2, <1>3, <1>4, <1>5
<1>6. CASE ~(half >= MinBufSize /\ peak < half)
  BY <1>1, <1>2, <1>3, <1>4, <1>6 DEF Least
<1> QED BY <1>5, <1>6

\* A buffer with another address and size holds what it held.
Moved(b, a, n) == [b EXCEPT !.addr = a, !.size = n]

\* It satisfies the invariant of a buffer if the new size has room.
LEMMA MovedFacts ==
  ASSUME NEW b, BufferInv(b), NEW a \in Addrs, NEW n \in Nat, b.used <= n
  PROVE  LET c == Moved(b, a, n)
         IN /\ BufferInv(c) /\ Data(c) = Data(b)
            /\ c.addr = a /\ c.used = b.used /\ c.size = n
<1> DEFINE c == Moved(b, a, n)
<1>1. b \in Buffer
  BY DEF BufferInv
<1>2. c \in Buffer
  BY <1>1 DEF Moved, Buffer
<1>3. c.addr = a /\ c.used = b.used /\ c.size = n /\ c.enc = b.enc /\ c.iov = b.iov
  BY <1>1 DEF Moved, Buffer
<1> HIDE DEF c
<1>4. Data(c) = Data(b)
  BY <1>3 DEF Data
<1>5. c.used <= c.size
  BY <1>3
<1>6. BufferInv(c)
  BY <1>2, <1>3, <1>4, <1>5, Zenon DEF BufferInv
<1> QED BY <1>3, <1>4, <1>6 DEF c

\* The static buffer moved to a: the list has no block there, and the bookmark follows.
LEMMA BufferMoved ==
  ASSUME Inv, NEW a \in FreeAddrs, NEW c, c.addr = a, c.used = buf.used, Data(c) = Data(buf)
  PROVE  GoodList(reply, a) /\ Marks(MovedMark(a), c, reply) /\ MovedMark(a).data = mark.data
<1>1. /\ GoodList(reply, buf.addr) /\ Len(reply) \in Nat /\ reply \in Seq(Buffer)
      /\ Marks(mark, buf, reply) /\ buf.used \in Nat /\ buf.addr \in Addrs
  BY InvFacts, Zenon
<1>2. a \in Addrs /\ a # NoAddr /\ a # buf.addr /\ \A i \in 1..Len(reply) : reply[i].addr # a
  BY <1>1, FreeFacts
<1>3. GoodList(reply, a)
  BY <1>1, <1>2, Zenon DEF GoodList
<1>4. mark = [buf |-> mark.buf, bufpos |-> 0, data |-> mark.data] /\ mark.data \in Nat
  BY <1>1 DEF Marks
<1>5. CASE mark.buf = buf.addr
  <2> DEFINE m == [buf |-> a, bufpos |-> 0, data |-> mark.data]
  <2>1. MovedMark(a) = m
    BY <1>4, <1>5 DEF MovedMark
  <2>2. mark # NoMark
    <3>1. buf.addr # NoAddr
      BY <1>1, OutputAssumption
    <3> QED BY <1>5, <3>1 DEF NoMark
  <2>3. buf.used # 0
    <3>1. ASSUME buf.used = 0 PROVE FALSE
      <4>1. Len(reply) > 0 /\ mark.buf = reply[1].addr
        BY <1>1, <2>2, <3>1 DEF Marks
      <4>2. 1 \in 1..Len(reply)
        BY <1>1, <4>1
      <4>3. reply[1].addr # buf.addr
        BY <1>1, <4>2, GoodFacts
      <4> QED BY <1>5, <4>1, <4>3
    <3> QED BY <3>1
  <2>4. mark.data > 0 /\ mark.data < Len(Data(buf))
    BY <1>1, <2>2, <2>3 DEF Marks
  <2>5. m = [buf |-> m.buf, bufpos |-> 0, data |-> m.data] /\ m.data = mark.data /\ m.buf = a
    OBVIOUS
  <2> HIDE DEF m
  <2>6. Marks(m, c, reply)
    BY <1>2, <1>4, <2>3, <2>4, <2>5 DEF Marks
  <2> QED BY <1>3, <2>1, <2>5, <2>6
<1>6. CASE mark.buf # buf.addr
  <2>1. MovedMark(a) = mark
    BY <1>6 DEF MovedMark
  <2>2. mark # NoMark => buf.used = 0
    BY <1>1, <1>6 DEF Marks
  <2>3. Marks(mark, c, reply)
    BY <1>1, <2>2 DEF Marks
  <2> QED BY <1>3, <2>1, <2>3
<1> QED BY <1>5, <1>6

\* clientsCronResizeOutputBuffer() moves no byte of the stream.
LEMMA ResizeOutputBufferInv ==
  ASSUME Inv, ResizeOutputBuffer
  PROVE  Inv'
<1>1. /\ deferred' = deferred /\ reply' = reply /\ added' = added /\ wire' = wire
      /\ peak' \in {peak, buf.used}
      /\ \/ \E a \in FreeAddrs : buf' = Moved(buf, a, NewSize) /\ mark' = MovedMark(a)
         \/ buf' = buf /\ mark' = mark
  BY Zenon DEF ResizeOutputBuffer, Moved
<1>2. /\ BufferInv(buf) /\ buf.addr \in Addrs /\ buf.size <= BufSize
      /\ peak \in Nat /\ buf.used <= peak /\ peak <= BufSize /\ BufSize \in Nat
      /\ buf.used \in Nat /\ buf.size \in Nat /\ buf.used <= buf.size
      /\ GoodList(reply, buf.addr)
      /\ deferred # <<>> <=> HasPlaceholder(reply)
      /\ Marks(mark, buf, reply)
  BY InvFacts, Zenon
<1>3. /\ BufferInv(buf') /\ buf'.addr \in Addrs /\ buf'.size <= BufSize /\ buf'.used = buf.used
      /\ Data(buf') = Data(buf) /\ GoodList(reply, buf'.addr)
      /\ Marks(mark', buf', reply) /\ mark'.data = mark.data
  <2>1. CASE buf' = buf /\ mark' = mark
    BY <1>2, <2>1
  <2>2. ASSUME NEW a \in FreeAddrs, buf' = Moved(buf, a, NewSize), mark' = MovedMark(a)
        PROVE  /\ BufferInv(buf') /\ buf'.addr \in Addrs /\ buf'.size <= BufSize
               /\ buf'.used = buf.used /\ Data(buf') = Data(buf) /\ GoodList(reply, buf'.addr)
               /\ Marks(mark', buf', reply) /\ mark'.data = mark.data
    <3> DEFINE n == NewSize
    <3>1. n \in Nat /\ buf.used <= n /\ n <= BufSize
      BY NewSizeFits
    <3>2. a \in Addrs
      BY DEF FreeAddrs
    <3>3. buf' = Moved(buf, a, n)
      BY <2>2
    <3> HIDE DEF n
    <3>4. /\ BufferInv(buf') /\ Data(buf') = Data(buf)
          /\ buf'.addr = a /\ buf'.used = buf.used /\ buf'.size = n
      BY <1>2, <3>1, <3>2, <3>3, MovedFacts
    <3>5. GoodList(reply, a) /\ Marks(MovedMark(a), buf', reply)
          /\ MovedMark(a).data = mark.data
      BY <3>4, BufferMoved
    <3> QED BY <2>2, <3>1, <3>2, <3>4, <3>5
  <2> QED BY <1>1, <2>1, <2>2, Zenon
<1>4. BufInv'
  <2>1. peak' \in Nat /\ buf.used <= peak' /\ peak' <= BufSize
    BY <1>1, <1>2
  <2> QED BY <1>3, <2>1 DEF BufInv
<1>5. ListInv'
  BY <1>1, <1>2, <1>3, Zenon DEF ListInv
<1>6. MarkInv'
  BY <1>1, <1>3 DEF MarkInv
<1>7. StreamInv'
  <2>1. StreamInv
    BY DEF Inv
  <2> QED BY <1>1, <1>3, <2>1, Zenon DEF StreamInv
<1> QED BY <1>4, <1>5, <1>6, <1>7 DEF Inv

-----------------------------------------------------------------------------
(* Writing.                                                                *)

\* The static buffer and then the list, in which no placeholder is left.
LEMMA BuffersFacts ==
  ASSUME Inv
  PROVE  /\ Buffers \in Seq(Buffer) /\ Len(Buffers) = Len(reply) + 1 /\ Buffers[1] = buf
         /\ \A i \in 1..Len(reply) : Buffers[i + 1] = reply[i]
         /\ \A i \in 2..Len(Buffers) : i - 1 \in 1..Len(reply) /\ Buffers[i] = reply[i - 1]
         /\ \A i \in 1..Len(Buffers) : BufferInv(Buffers[i])
         /\ \A i, j \in 1..Len(Buffers) : Buffers[i].addr = Buffers[j].addr => i = j
<1> DEFINE n == Len(reply)
           bs == <<buf>> \o reply
<1>1. GoodList(reply, buf.addr) /\ n \in Nat /\ reply \in Seq(Buffer) /\ BufferInv(buf)
  BY InvFacts, Zenon
<1>2. buf \in Buffer
  BY <1>1 DEF BufferInv
<1>3. <<buf>> \in Seq(Buffer) /\ Len(<<buf>>) = 1 /\ <<buf>>[1] = buf
  BY <1>2
<1>4. /\ bs \in Seq(Buffer) /\ Len(bs) = 1 + n
      /\ \A i \in 1..(1 + n) : bs[i] = IF i <= 1 THEN <<buf>>[i] ELSE reply[i - 1]
  BY <1>1, <1>3, ConcatProperties
<1>5. Buffers = bs
  BY DEF Buffers
<1> HIDE DEF bs
<1>6. bs[1] = buf
  BY <1>1, <1>3, <1>4
<1>7. \A i \in 2..Len(bs) : i - 1 \in 1..n /\ bs[i] = reply[i - 1]
  BY <1>1, <1>4
<1>8. \A i \in 1..n : bs[i + 1] = reply[i]
  <2> TAKE i \in 1..n
  <2>1. i + 1 \in 2..Len(bs) /\ (i + 1) - 1 = i
    BY <1>1, <1>4
  <2> QED BY <1>7, <2>1
<1>9. \A i \in 1..Len(bs) : i = 1 \/ i \in 2..Len(bs)
  BY <1>1, <1>4
<1>10. /\ \A i \in 1..n : BufferInv(reply[i]) /\ reply[i].addr # buf.addr
       /\ \A i, j \in 1..n : reply[i].addr = reply[j].addr => i = j
  BY <1>1, GoodFacts
<1>11. \A i \in 1..Len(bs) : BufferInv(bs[i])
  BY <1>1, <1>6, <1>7, <1>9, <1>10
<1>12. \A i \in 2..Len(bs) : bs[i].addr # bs[1].addr
  BY <1>6, <1>7, <1>10
<1>13. ASSUME NEW i \in 2..Len(bs), NEW j \in 2..Len(bs), bs[i].addr = bs[j].addr
       PROVE  i = j
  <2>1. i - 1 = j - 1
    BY <1>7, <1>10, <1>13
  <2> QED BY <1>1, <1>4, <2>1
<1>14. \A i, j \in 1..Len(bs) : bs[i].addr = bs[j].addr => i = j
  BY <1>9, <1>12, <1>13
<1>15. Len(bs) = n + 1
  BY <1>1, <1>4
<1> QED BY <1>4, <1>5, <1>6, <1>7, <1>8, <1>11, <1>14, <1>15

\* Their contents are the stream behind the bytes written.
LEMMA ContentsStream ==
  ASSUME Inv, deferred = <<>>
  PROVE  /\ Contents(Buffers) \in Seq(Bytes) /\ Len(Contents(Buffers)) = Len(reply) + 1
         /\ \A i \in 1..Len(Buffers) : Contents(Buffers)[i] = Data(Buffers[i])
         /\ Contents(Buffers) = <<Data(buf)>> \o Pieces(reply, <<>>)
         /\ FlattenSeq(Contents(Buffers)) = Data(buf) \o Held(reply, <<>>)
<1> DEFINE n == Len(reply)
           z == <<>>
           cs == Contents(Buffers)
           P == Pieces(reply, z)
           s == <<Data(buf)>>
<1>1. /\ GoodList(reply, buf.addr) /\ n \in Nat /\ Data(buf) \in Bytes
      /\ ~HasPlaceholder(reply)
  BY InvFacts, Zenon
<1>2. /\ Len(Buffers) = n + 1 /\ Buffers[1] = buf
      /\ \A i \in 2..Len(Buffers) : i - 1 \in 1..n /\ Buffers[i] = reply[i - 1]
      /\ \A i \in 1..Len(Buffers) : BufferInv(Buffers[i])
  BY BuffersFacts
<1>3. /\ cs \in Seq(Bytes) /\ Len(cs) = n + 1
      /\ \A i \in 1..(n + 1) : cs[i] = Data(Buffers[i])
  <2>1. Len(Buffers) \in Nat
    BY <1>1, <1>2
  <2> QED BY <1>2, <2>1, ContentsFacts
<1>4. /\ P \in Seq(Bytes) /\ Len(P) = n
      /\ \A i \in 1..n : P[i] = IF reply[i].addr = NoAddr THEN z ELSE Data(reply[i])
  <2>1. z \in Bytes
    BY BytesFacts
  <2> HIDE DEF z
  <2> QED BY <1>1, <2>1, PiecesFacts
<1>5. \A i \in 1..n : P[i] = Data(reply[i])
  BY <1>1, <1>4 DEF HasPlaceholder
<1>6. s \in Seq(Bytes) /\ Len(s) = 1 /\ s[1] = Data(buf)
  BY <1>1
<1> HIDE DEF P, s, cs
<1>7. /\ s \o P \in Seq(Bytes) /\ Len(s \o P) = 1 + n
      /\ \A i \in 1..(1 + n) : (s \o P)[i] = IF i <= 1 THEN s[i] ELSE P[i - 1]
  <2>1. s \in Seq(Bytes) /\ P \in Seq(Bytes)
    BY <1>4, <1>6
  <2>2. /\ s \o P \in Seq(Bytes) /\ Len(s \o P) = Len(s) + Len(P)
        /\ \A i \in 1..(Len(s) + Len(P)) :
             (s \o P)[i] = IF i <= Len(s) THEN s[i] ELSE P[i - Len(s)]
    BY <2>1, ConcatProperties
  <2>3. Len(s) = 1 /\ Len(P) = n
    BY <1>4, <1>6
  <2> QED BY <2>2, <2>3
<1>8. \A i \in 1..Len(cs) : (s \o P)[i] = cs[i]
  <2> TAKE i \in 1..Len(cs)
  <2>1. CASE i = 1
    BY <1>1, <1>2, <1>3, <1>6, <1>7, <2>1
  <2>2. CASE i # 1
    <3>1. i \in 2..Len(Buffers) /\ i \in 1..(n + 1) /\ i \in 1..(1 + n) /\ ~(i <= 1)
      BY <1>1, <1>2, <1>3, <2>2
    <3>2. cs[i] = Data(reply[i - 1]) /\ i - 1 \in 1..n
      BY <1>2, <1>3, <3>1
    <3> QED BY <1>5, <1>7, <3>1, <3>2
  <2> QED BY <2>1, <2>2
<1>9. s \o P = cs
  <2>1. Len(s \o P) = Len(cs)
    BY <1>1, <1>3, <1>7
  <2> QED BY <1>3, <1>7, <1>8, <2>1, SameEntries
<1>10. FlattenSeq(s \o P) = FlattenSeq(s) \o FlattenSeq(P)
  BY <1>4, <1>6, FlattenConcat
<1>11. FlattenSeq(s) = Data(buf)
  BY <1>1, FlattenOne DEF s
<1>12. FlattenSeq(cs) = Data(buf) \o Held(reply, z)
  BY <1>9, <1>10, <1>11, Zenon DEF Held, P
<1>13. \A i \in 1..Len(Buffers) : cs[i] = Data(Buffers[i])
  BY <1>2, <1>3
<1> QED BY <1>3, <1>9, <1>12, <1>13 DEF cs, P, s

\* How many of the buffers are empty: the static one, or none.
Off == IF buf.used > 0 THEN 0 ELSE 1

\* A write finds buffers it can gather, and the bookmark in the first of them.
LEMMA WritableNow ==
  ASSUME Inv, deferred = <<>>, Pending
  PROVE  Writable(Buffers, Off, mark.data)
<1> DEFINE n == Len(reply)
<1>1. /\ GoodList(reply, buf.addr) /\ n \in Nat /\ reply \in Seq(Buffer)
      /\ ~HasPlaceholder(reply) /\ buf.addr \in Addrs /\ buf.used \in Nat
      /\ Marks(mark, buf, reply) /\ mark.data \in Nat /\ BufferInv(buf)
  BY InvFacts, Zenon
<1>2. /\ Buffers \in Seq(Buffer) /\ Len(Buffers) = n + 1 /\ Buffers[1] = buf
      /\ \A i \in 2..Len(Buffers) : i - 1 \in 1..n /\ Buffers[i] = reply[i - 1]
      /\ \A i \in 1..Len(Buffers) : BufferInv(Buffers[i])
  BY BuffersFacts
<1>3. \A i \in 1..n : reply[i].addr \in Addrs /\ reply[i].used > 0
  <2> TAKE i \in 1..n
  <2>1. reply[i].addr # NoAddr
    BY <1>1 DEF HasPlaceholder
  <2>2. reply[i] \in Buffer /\ BufferInv(reply[i]) /\ reply[i].used # 0
    BY <1>1, <2>1, GoodFacts
  <2>3. reply[i].addr \in Addrs \cup {NoAddr} /\ reply[i].used \in Nat
    BY <2>2 DEF Buffer
  <2> QED BY <2>1, <2>2, <2>3
<1>4. \A i \in 2..Len(Buffers) : Buffers[i].addr \in Addrs /\ Buffers[i].used > 0
  BY <1>2, <1>3
<1>5. \A i \in 1..Len(Buffers) : i = 1 \/ i \in 2..Len(Buffers)
  BY <1>1, <1>2
<1>6. \A i \in 1..Len(Buffers) : Buffers[i].addr \in Addrs
  BY <1>1, <1>2, <1>4, <1>5
<1>7. CASE buf.used > 0
  <2>1. Off = 0
    BY <1>7 DEF Off
  <2>2. \A i \in 1..Len(Buffers) : ~(i <= 0) /\ i > 0 /\ Buffers[i].used > 0
    BY <1>2, <1>4, <1>5, <1>7
  <2>3. mark.data < Len(Data(Buffers[1]))
    <3>1. CASE mark = NoMark
      <4>1. mark.data = 0 /\ Len(Data(buf)) > 0
        BY <1>1, <1>7, <3>1, BufferData DEF NoMark
      <4> QED BY <1>2, <4>1
    <3>2. CASE mark # NoMark
      BY <1>1, <1>2, <1>7, <3>2 DEF Marks
    <3> QED BY <3>1, <3>2
  <2>4. 0 < Len(Buffers) /\ 0 + 1 = 1
    BY <1>1, <1>2
  <2> QED BY <1>1, <1>2, <1>6, <2>1, <2>2, <2>3, <2>4 DEF Writable
<1>8. CASE ~(buf.used > 0)
  <2>1. Off = 1 /\ buf.used = 0
    BY <1>1, <1>8 DEF Off
  <2>2. n > 0
    <3>1. reply # <<>>
      BY <1>8 DEF Pending
    <3> QED BY <1>1, <3>1
  <2>3. \A i \in 1..Len(Buffers) : /\ i <= 1 => Buffers[i].used = 0
                                   /\ i > 1 => Buffers[i].used > 0
    BY <1>1, <1>2, <1>4, <1>5, <2>1
  <2>4. 1 \in 1..n /\ 2 \in 2..Len(Buffers) /\ 2 - 1 = 1 /\ 1 + 1 = 2 /\ 1 < Len(Buffers)
    BY <1>1, <1>2, <2>2
  <2>5. Buffers[2] = reply[1]
    BY <1>2, <2>4
  <2>6. mark.data < Len(Data(Buffers[2]))
    <3>1. CASE mark = NoMark
      <4>1. BufferInv(reply[1]) /\ reply[1].used > 0
        BY <1>1, <1>3, <2>4, GoodFacts
      <4>2. mark.data = 0 /\ Len(Data(reply[1])) > 0
        BY <3>1, <4>1, BufferData DEF NoMark
      <4> QED BY <2>5, <4>2
    <3>2. CASE mark # NoMark
      BY <1>1, <2>1, <2>5, <3>2 DEF Marks
    <3> QED BY <3>1, <3>2
  <2> QED BY <1>1, <1>2, <1>6, <2>1, <2>3, <2>4, <2>6 DEF Writable
<1> QED BY <1>7, <1>8

\* Either path of _writeToClient() hands over the bytes behind the bookmark.
LEMMA GatheredCovers ==
  ASSUME Inv, deferred = <<>>, Pending
  PROVE  Covers(Buffers, Off, mark.data, Gathered)
<1>1. Writable(Buffers, Off, mark.data)
  BY WritableNow
<1>2. CASE WritesDirectly
  <2>1. reply = <<>> /\ ~buf.enc /\ Gathered = Direct
    BY <1>2 DEF WritesDirectly, Gathered
  <2>2. Off = 0
    BY <2>1 DEF Off, Pending
  <2>3. Covers(Buffers, 0, mark.data, Direct)
    BY <1>1, <2>1, <2>2, DirectCovers
  <2> QED BY <2>1, <2>2, <2>3
<1>3. CASE ~WritesDirectly
  <2>1. Gathered = Gather
    BY <1>3 DEF Gathered
  <2>2. IovMax \in Nat \ {0}
    BY OutputAssumption
  <2>3. Covers(Buffers, Off, mark.data, Gather)
    BY <1>1, <2>2, GatherCovers
  <2> QED BY <2>1, <2>3
<1> QED BY <1>2, <1>3

\* What is behind the first k + 1 of a sequence is what is behind k of its tail.
LEMMA SuffixOfTail ==
  ASSUME NEW x \in Bytes, NEW s \in Seq(Bytes), NEW k \in 0..Len(s),
         NEW u, Splits(u, <<x>>, s)
  PROVE  Suffix(u, k + 1) = Suffix(s, k)
<1> DEFINE n == Len(s)
           w == <<x>>
           v == SubSeq(u, (k + 1) + 1, Len(u))
           t == SubSeq(s, k + 1, n)
<1>0. u = w \o s
  BY DEF Splits
<1>1. n \in Nat /\ k \in Nat /\ k <= n
  OBVIOUS
<1>2. w \in Seq(Bytes) /\ Len(w) = 1
  OBVIOUS
<1> HIDE DEF w
<1>3. /\ u \in Seq(Bytes) /\ Len(u) = Len(w) + Len(s)
      /\ \A i \in 1..(Len(w) + Len(s)) : u[i] = IF i <= Len(w) THEN w[i] ELSE s[i - Len(w)]
  BY <1>0, <1>2, ConcatProperties
<1>4. /\ Len(u) = n + 1
      /\ \A i \in 1..(n + 1) : i > 1 => u[i] = s[i - 1]
  BY <1>1, <1>2, <1>3
<1>5. t \in Seq(Bytes) /\ Len(t) = n - k /\ \A i \in 1..(n - k) : t[i] = s[k + i]
  BY CutFacts
<1>6. /\ v \in Seq(Bytes) /\ Len(v) = n - k
      /\ \A i \in 1..(n - k) : v[i] = u[(k + 1) + i]
  <2> DEFINE j == k + 1
  <2>1. j \in 0..Len(u) /\ Len(u) - j = n - k
    BY <1>1, <1>4
  <2> HIDE DEF j
  <2>2. LET y == SubSeq(u, j + 1, Len(u))
        IN y \in Seq(Bytes) /\ Len(y) = Len(u) - j /\ \A i \in 1..(Len(u) - j) : y[i] = u[j + i]
    BY <1>3, <2>1, CutFacts
  <2> QED BY <2>1, <2>2 DEF j
<1> HIDE DEF v, t
<1>7. \A i \in 1..Len(t) : v[i] = t[i]
  <2> TAKE i \in 1..Len(t)
  <2>1. i \in 1..(n - k) /\ (k + 1) + i \in 1..(n + 1) /\ (k + 1) + i > 1
        /\ ((k + 1) + i) - 1 = k + i
    BY <1>1, <1>5
  <2> QED BY <1>4, <1>5, <1>6, <2>1
<1>8. v = t
  <2>1. Len(v) = Len(t)
    BY <1>5, <1>6
  <2> QED BY <1>5, <1>6, <1>7, <2>1, SameEntries
<1> QED BY <1>8 DEF Suffix, v, t

\* A write gathers at least one byte, and the next ones of the stream.
LEMMA GatheredBytes ==
  ASSUME Inv, deferred = <<>>, Pending
  PROVE  \E n \in Nat \ {0} : FlattenSeq(Gathered.iov) = Interval(Len(wire), n)
<1> DEFINE bytes == FlattenSeq(Gathered.iov)
           cs == Contents(Buffers)
           F == FlattenSeq(cs)
           sum == Taken(Buffers, Off, Gathered.meta)
           lo == Len(wire) - mark.data
           N == added - lo
           md == mark.data
           w == Len(wire)
<1>1. /\ lo \in Nat /\ md \in Nat /\ w \in Nat /\ added \in Nat /\ lo <= added /\ md <= w
      /\ wire = Interval(0, w)
      /\ Data(buf) \o Held(reply, <<>>) = Interval(lo, N)
  BY InvFacts, Zenon
<1>2. F = Interval(lo, N)
  BY <1>1, ContentsStream, Zenon
<1>3. /\ sum <= Len(F) /\ bytes = Slice(F, md, sum) /\ sum > md
      /\ Describes(Buffers, Off, Gathered.meta)
  BY GatheredCovers DEF Covers
<1>4. N \in Nat /\ lo + md = w
  BY <1>1
<1> HIDE DEF lo, N, md, w, bytes, F, sum
<1>5. Len(F) = N
  BY <1>1, <1>2, <1>4, IntervalFacts
<1>6. sum \in Nat
  <2>1. Writable(Buffers, Off, mark.data)
    BY WritableNow
  <2>2. Gathered.meta \in Seq(Meta) /\ Len(Gathered.meta) > 0 /\ Len(Gathered.meta) \in Nat
    BY <1>3, GatheredCovers DEF Covers, Describes
  <2> DEFINE k == Off + Len(Gathered.meta) - 1
  <2>3. /\ Len(Buffers) \in Nat /\ Off \in Nat /\ cs \in Seq(Bytes) /\ Len(cs) = Len(Buffers)
    BY <2>1, WritableFacts
  <2>4. Off + Len(Gathered.meta) <= Len(Buffers)
    BY <1>3 DEF Describes
  <2>5. k \in 0..Len(cs)
    BY <2>2, <2>3, <2>4
  <2> HIDE DEF k
  <2>6. Prefix(cs, k) \in Bytes
    BY <2>3, <2>5, FlattenCut
  <2>7. Len(Prefix(cs, k)) \in Nat
    BY <2>6, BytesFacts
  <2>8. Gathered.meta[Len(Gathered.meta)].data \in Nat
    <3>1. Gathered.meta[Len(Gathered.meta)] \in Meta
      BY <2>2
    <3> QED BY <3>1 DEF Meta
  <2>9. sum = Len(Prefix(cs, k)) + Gathered.meta[Len(Gathered.meta)].data
    BY <2>2 DEF sum, Taken, k
  <2> QED BY <2>7, <2>8, <2>9
<1>7. bytes = Interval(lo + md, sum - md) /\ sum - md \in Nat
  <2>1. md <= sum /\ sum <= N /\ sum - md \in Nat
    BY <1>1, <1>3, <1>5, <1>6
  <2>2. Slice(Interval(lo, N), md, sum) = Interval(lo + md, sum - md)
    BY <1>1, <1>4, <1>6, <2>1, SliceInterval
  <2> QED BY <1>2, <1>3, <2>1, <2>2
<1>8. bytes = Interval(w, sum - md) /\ sum - md \in Nat \ {0}
  <2>1. sum - md # 0
    BY <1>1, <1>3, <1>6
  <2> QED BY <1>4, <1>7, <2>1
<1> DEFINE n == sum - md
<1>9. n \in Nat \ {0} /\ bytes = Interval(w, n)
  BY <1>8
<1> HIDE DEF n
<1> QED BY <1>9 DEF w, bytes

\* The bytes that the host takes of it go on where the wire ends.
LEMMA WrittenBytes ==
  ASSUME Inv, deferred = <<>>, Pending, NEW tot \in 1..Len(FlattenSeq(Gathered.iov))
  PROVE  /\ tot \in Nat
         /\ wire \o SubSeq(FlattenSeq(Gathered.iov), 1, tot) = Interval(0, Len(wire) + tot)
<1> DEFINE bytes == FlattenSeq(Gathered.iov)
           w == Len(wire)
<1>1. w \in Nat /\ wire = Interval(0, w)
  BY InvFacts, Zenon
<1>2. PICK h \in Nat \ {0} : bytes = Interval(w, h)
  BY GatheredBytes
<1>3. h \in Nat
  OBVIOUS
<1> HIDE DEF w, bytes
<1>4. Len(bytes) = h
  BY <1>1, <1>2, <1>3, IntervalFacts
<1>5. tot \in Nat /\ tot <= h
  <2>1. tot \in 1..Len(bytes)
    BY DEF bytes
  <2> QED BY <1>3, <1>4, <2>1
<1>6. SubSeq(bytes, 1, tot) = Interval(w, tot)
  <2> DEFINE z == 0
  <2>1. z \in Nat /\ z <= tot /\ tot <= h /\ w + z = w /\ tot - z = tot /\ z + 1 = 1
    BY <1>1, <1>5
  <2> HIDE DEF z
  <2>2. Slice(Interval(w, h), z, tot) = Interval(w + z, tot - z)
    BY <1>1, <1>3, <1>5, <2>1, SliceInterval
  <2>3. Slice(bytes, z, tot) = SubSeq(bytes, 1, tot)
    BY <2>1 DEF Slice
  <2> QED BY <1>2, <2>1, <2>2, <2>3
<1>7. Interval(0, w) \o Interval(w, tot) = Interval(0, w + tot)
  <2> DEFINE z == 0
  <2>1. z \in Nat /\ z + w = w
    BY <1>1
  <2> HIDE DEF z
  <2>2. Interval(z, w) \o Interval(z + w, tot) = Interval(z, w + tot)
    BY <1>1, <1>5, <2>1, IntervalJoin
  <2> QED BY <2>1, <2>2 DEF z
<1>8. wire \o SubSeq(bytes, 1, tot) = Interval(0, w + tot)
  BY <1>1, <1>6, <1>7
<1> QED BY <1>5, <1>8 DEF w, bytes

\* What is left behind the first k buffers is the stream behind them.
LEMMA StreamLeft ==
  ASSUME Inv, deferred = <<>>, NEW k \in 0..Len(Buffers), NEW tot \in Nat, NEW e \in Nat,
         Len(Prefix(Contents(Buffers), k)) + e = tot + mark.data
  PROVE  LET lo == (Len(wire) + tot) - e
         IN /\ lo \in Nat /\ lo <= added
            /\ Suffix(Contents(Buffers), k) = Interval(lo, added - lo)
<1> DEFINE cs == Contents(Buffers)
           lo == Len(wire) - mark.data
           N == added - lo
           md == mark.data
           w == Len(wire)
           a == Prefix(cs, k)
           b == Suffix(cs, k)
<1>1. /\ lo \in Nat /\ md \in Nat /\ w \in Nat /\ added \in Nat /\ lo <= added /\ md <= w
      /\ Data(buf) \o Held(reply, <<>>) = Interval(lo, N)
  BY InvFacts, Zenon
<1>2. FlattenSeq(cs) = Interval(lo, N)
  BY <1>1, ContentsStream, Zenon
<1>3. cs \in Seq(Bytes) /\ Len(cs) = Len(Buffers)
  <2>1. cs \in Seq(Bytes) /\ Len(cs) = Len(reply) + 1
    BY ContentsStream, Zenon
  <2>2. Len(Buffers) = Len(reply) + 1
    BY BuffersFacts, Zenon
  <2> QED BY <2>1, <2>2
<1>4. a \in Bytes /\ b \in Bytes /\ FlattenSeq(cs) = a \o b
  BY <1>3, FlattenCut
<1>5. N \in Nat /\ lo + md = w
  <2>1. w \in Nat /\ md \in Nat /\ lo \in Nat /\ added \in Nat /\ lo <= added
    BY <1>1, Zenon
  <2> QED BY <2>1, SMTT(30)
<1>6. Len(a) + e = tot + md
  OBVIOUS
<1> HIDE DEF lo, N, md, w, a, b, cs
<1>7. Len(a) + Len(b) = N /\ b = Interval(lo + Len(a), Len(b))
  <2>1. Joins(a, b, lo, N)
    BY <1>2, <1>4 DEF Joins
  <2>2. a \in Bytes /\ b \in Bytes /\ lo \in Nat /\ N \in Nat
    BY <1>1, <1>4, <1>5, Zenon
  <2> QED BY <2>1, <2>2, IntervalSplit
<1>8. Len(a) \in Nat /\ Len(b) \in Nat
  BY <1>4, BytesFacts
<1>9. lo + Len(a) = (w + tot) - e
  BY <1>1, <1>5, <1>6, <1>8, SMTT(30)
<1>10. lo + Len(a) \in Nat /\ lo + Len(a) <= added /\ Len(b) = added - (lo + Len(a))
  <2>1. N = added - lo
    BY DEF N
  <2> QED BY <1>1, <1>7, <1>8, <2>1
<1>11. /\ (w + tot) - e \in Nat /\ (w + tot) - e <= added
       /\ b = Interval((w + tot) - e, added - ((w + tot) - e))
  BY <1>7, <1>9, <1>10
<1> QED BY <1>11 DEF w, b, cs

\* _postWriteToClient(): the static buffer, and the list, behind a write that ends at m.
Emptied(b) == [b EXCEPT !.used = 0, !.enc = FALSE, !.open = FALSE, !.iov = <<>>]
BufLeft(m) == IF BufWritten(m) THEN Emptied(buf) ELSE WithOpen(buf, FALSE)
ListLeft(m) == IF EndsInBuf(m) THEN reply ELSE Released(m)

\* A buffer that was written to its end holds nothing.
LEMMA EmptiedFacts ==
  ASSUME NEW b, BufferInv(b)
  PROVE  /\ BufferInv(Emptied(b)) /\ Data(Emptied(b)) = <<>>
         /\ Emptied(b).addr = b.addr /\ Emptied(b).size = b.size /\ Emptied(b).used = 0
<1> DEFINE c == Emptied(b)
<1>1. b \in Buffer
  BY DEF BufferInv
<1>2. c \in Buffer
  <2>1. <<>> \in Seq(Bytes)
    OBVIOUS
  <2> QED BY <1>1, <2>1 DEF Emptied, Buffer
<1>3. c.addr = b.addr /\ c.used = 0 /\ c.size = b.size /\ c.iov = <<>>
  BY <1>1 DEF Emptied, Buffer
<1> HIDE DEF c
<1>4. Data(c) = <<>>
  BY <1>3, FlattenEmpty DEF Data
<1>5. /\ c.used <= c.size /\ Len(c.iov) = 0 /\ Len(Data(c)) = 0
      /\ Len(c.iov) <= 1 /\ \A i \in 1..Len(c.iov) : FALSE
  <2>1. c.size \in Nat /\ c.used = 0 /\ Len(<<>>) = 0
    BY <1>2, <1>3 DEF Buffer
  <2> QED BY <1>3, <1>4, <2>1
<1>6. BufferInv(c)
  BY <1>2, <1>3, <1>4, <1>5 DEF BufferInv
<1> QED BY <1>3, <1>4, <1>6 DEF c

\* The buffers b and r with the bookmark m are what tot more bytes leave.
Leaves(b, r, m, tot) ==
  /\ BufferInv(b) /\ b.addr = buf.addr /\ b.size = buf.size /\ b.used <= buf.used
  /\ GoodList(r, buf.addr) /\ ~HasPlaceholder(r)
  /\ Marks(m, b, r)
  /\ \E k \in 0..Len(Buffers) :
       /\ Len(Prefix(Contents(Buffers), k)) + m.data = tot + mark.data
       /\ Data(b) \o Held(r, <<>>) = Suffix(Contents(Buffers), k)

\* Where the bookmark stays and where it goes.
LEMMA MarkGone ==
  ASSUME NEW m, NEW b, NEW r, b.used = 0, r \in Seq(Buffer), \A i \in 1..Len(r) : r[i].addr # m.buf
  PROVE  MarkAfter(m, b, r) = NoMark /\ Marks(NoMark, b, r) /\ NoMark.data = 0
<1>1. DOMAIN r = 1..Len(r)
  OBVIOUS
<1>2. MarkAfter(m, b, r) = NoMark
  BY <1>1 DEF MarkAfter
<1>3. NoMark = [buf |-> NoMark.buf, bufpos |-> 0, data |-> NoMark.data] /\ NoMark.data = 0
  BY DEF NoMark
<1>4. Marks(NoMark, b, r)
  BY <1>3 DEF Marks
<1> QED BY <1>2, <1>3, <1>4

\* A write that ends in the static buffer.
LEMMA EndsInBuffer ==
  ASSUME Inv, deferred = <<>>, buf.used > 0, NEW m, NEW tot \in Nat, NEW q, q = 1,
         SavedAt(Buffers, m, q, tot)
  PROVE  Leaves(BufLeft(m), ListLeft(m), MarkAfter(m, BufLeft(m), ListLeft(m)), tot)
<1> DEFINE cs == Contents(Buffers)
           b == BufLeft(m)
<1>1. /\ BufferInv(buf) /\ buf.used \in Nat /\ Data(buf) \in Bytes /\ Len(Data(buf)) \in Nat
      /\ GoodList(reply, buf.addr) /\ Len(reply) \in Nat /\ reply \in Seq(Buffer)
      /\ ~HasPlaceholder(reply) /\ buf.addr \in Addrs /\ mark.data \in Nat
  BY InvFacts, Zenon
<1>2. Buffers[1] = buf /\ Len(Buffers) = Len(reply) + 1
  BY BuffersFacts, Zenon
<1>3. /\ m.buf = buf.addr /\ m.data \in Nat /\ m.data > 0 /\ m.data <= Len(Data(buf))
      /\ tot + mark.data = Len(Prefix(cs, 0)) + m.data
      /\ m.bufpos = IF m.data = Len(Data(buf)) THEN buf.used ELSE 0
      /\ m = [buf |-> m.buf, bufpos |-> m.bufpos, data |-> m.data]
  <2>1. q - 1 = 0 /\ Buffers[q] = buf
    BY <1>2
  <2> QED BY <2>1 DEF SavedAt
<1>4. /\ cs \in Seq(Bytes) /\ Len(cs) = Len(reply) + 1
      /\ Splits(cs, <<Data(buf)>>, Pieces(reply, <<>>))
      /\ FlattenSeq(cs) = Data(buf) \o Held(reply, <<>>)
  BY ContentsStream, Zenon DEF Splits
<1>5. Prefix(cs, 0) = <<>> /\ Suffix(cs, 0) = FlattenSeq(cs) /\ Len(<<>>) = 0
  BY <1>4, PrefixEnds
<1>6. tot + mark.data = m.data
  BY <1>1, <1>3, <1>5
<1>7. ListLeft(m) = reply
  BY <1>3 DEF ListLeft, EndsInBuf
<1>8. \A i \in 1..Len(reply) : reply[i].addr # m.buf
  BY <1>1, <1>3, GoodFacts
<1> HIDE DEF cs
<1>9. CASE m.data = Len(Data(buf))
  <2>1. b = Emptied(buf)
    <3>1. m.bufpos = buf.used
      BY <1>3, <1>9
    <3>2. BufWritten(m)
      BY <3>1 DEF BufWritten
    <3> QED BY <3>2 DEF BufLeft
  <2>2. BufferInv(b) /\ Data(b) = <<>> /\ b.addr = buf.addr /\ b.size = buf.size /\ b.used = 0
    BY <1>1, <2>1, EmptiedFacts
  <2>3. MarkAfter(m, b, reply) = NoMark /\ Marks(NoMark, b, reply) /\ NoMark.data = 0
    BY <1>1, <1>8, <2>2, MarkGone
  <2> DEFINE k == 1
             z == <<>>
  <2>4. k \in 0..Len(Buffers)
    BY <1>1, <1>2
  <2>5. Len(Prefix(cs, k)) = Len(Data(buf))
    <3>1. 0 \in 0..(Len(cs) - 1) /\ 0 + 1 = 1
      BY <1>1, <1>4
    <3>2. Len(Prefix(cs, 0 + 1)) = Len(Prefix(cs, 0)) + Len(cs[0 + 1])
      BY <1>4, <3>1, PrefixNext
    <3>3. cs[1] = Data(buf)
      <4>1. 1 \in 1..Len(Buffers)
        BY <1>1, <1>2
      <4> QED BY <1>2, <4>1, ContentsStream DEF cs
    <3> QED BY <1>1, <1>5, <3>1, <3>2, <3>3
  <2>6. Suffix(cs, k) = Held(reply, <<>>)
    <3> DEFINE h == 0
               P == Pieces(reply, z)
               x == Data(buf)
    <3>1. P \in Seq(Bytes) /\ Len(P) = Len(reply)
      <4>1. z \in Bytes
        BY BytesFacts
      <4> HIDE DEF z
      <4> QED BY <1>1, <4>1, PiecesFacts
    <3>2. h \in 0..Len(P) /\ h + 1 = k /\ x \in Bytes /\ Splits(cs, <<x>>, P)
      BY <1>1, <1>4, <3>1
    <3>3. Suffix(P, h) = FlattenSeq(P)
      BY <3>1, PrefixEnds
    <3> HIDE DEF h, P, x, k
    <3>4. Suffix(cs, h + 1) = Suffix(P, h)
      BY <3>1, <3>2, SuffixOfTail
    <3> QED BY <3>2, <3>3, <3>4 DEF Held, P
  <2>7. Data(b) \o Held(reply, <<>>) = Suffix(cs, k)
    <3>1. Held(reply, <<>>) \in Bytes
      BY <1>1, BytesFacts, PiecesFacts
    <3>2. <<>> \o Held(reply, <<>>) = Held(reply, <<>>)
      BY <3>1, BytesFacts
    <3> QED BY <2>2, <2>6, <3>2
  <2>8. Len(Prefix(cs, k)) + NoMark.data = tot + mark.data
    BY <1>1, <1>6, <1>9, <2>3, <2>5
  <2>9. b.used <= buf.used
    BY <1>1, <2>2
  <2> HIDE DEF k, b
  <2>10. Leaves(b, reply, NoMark, tot)
    BY <1>1, <2>2, <2>3, <2>4, <2>7, <2>8, <2>9, Zenon DEF Leaves, cs
  <2> QED BY <1>7, <2>3, <2>10 DEF b
<1>10. CASE m.data # Len(Data(buf))
  <2>0. m.bufpos = 0
    BY <1>3, <1>10
  <2>1. b = WithOpen(buf, FALSE)
    <3>1. ~BufWritten(m)
      BY <1>1, <1>3, <2>0 DEF BufWritten
    <3> QED BY <3>1 DEF BufLeft
  <2>2. /\ BufferInv(b) /\ Data(b) = Data(buf)
        /\ b.addr = buf.addr /\ b.size = buf.size /\ b.used = buf.used
    <3> DEFINE f == FALSE
    <3>1. f \in BOOLEAN /\ b = WithOpen(buf, f)
      BY <2>1
    <3> HIDE DEF f, b
    <3> QED BY <1>1, <3>1, WithOpenFacts
  <2> HIDE DEF b
  <2>3. MarkAfter(m, b, reply) = m
    BY <1>3, <2>2 DEF MarkAfter
  <2>4. Marks(m, b, reply)
    <3>1. m = [buf |-> m.buf, bufpos |-> 0, data |-> m.data]
      BY <1>3, <2>0
    <3>2. m.data < Len(Data(b)) /\ ~(b.used = 0)
      BY <1>1, <1>3, <1>10, <2>2
    <3> QED BY <1>1, <1>3, <2>2, <3>1, <3>2 DEF Marks
  <2> DEFINE k == 0
  <2>5. k \in 0..Len(Buffers) /\ Len(Prefix(cs, k)) + m.data = tot + mark.data
    BY <1>1, <1>2, <1>3
  <2>6. Data(b) \o Held(reply, <<>>) = Suffix(cs, k)
    BY <1>4, <1>5, <2>2
  <2>7. b.used <= buf.used
    BY <1>1, <2>2
  <2> HIDE DEF k
  <2>8. Leaves(b, reply, m, tot)
    BY <1>1, <2>2, <2>4, <2>5, <2>6, <2>7, Zenon DEF Leaves, cs
  <2> QED BY <1>7, <2>3, <2>8 DEF b
<1> QED BY <1>9, <1>10

\* The first k blocks are released when the bookmark m is in the block p.
Releases(m, p, k) == k = IF reply[p].used = m.bufpos THEN p ELSE p - 1

\* The blocks up to the bookmarked one are released, that one if it is written.
LEMMA ReleasedFacts ==
  ASSUME Inv, NEW m, NEW p \in 1..Len(reply), m.buf = reply[p].addr, NEW k, Releases(m, p, k)
  PROVE  Released(m) = SubSeq(reply, k + 1, Len(reply))
<1> DEFINE n == Len(reply)
           Ends(i) == reply[i].addr = m.buf
           Stops(i) == /\ i = n + 1 \/ Ends(i)
                      /\ \A j \in 1..(i - 1) : ~Ends(j)
           last == CHOOSE i \in 1..(n + 1) : Stops(i)
<1>1. n \in Nat /\ GoodList(reply, buf.addr)
  BY InvFacts, Zenon
<1>2. \A i \in 1..n : Ends(i) <=> i = p
  BY <1>1, GoodFacts
<1>3. p \in 1..(n + 1) /\ Stops(p)
  <2>1. p \in 1..(n + 1) /\ \A j \in 1..(p - 1) : j \in 1..n /\ j # p
    BY <1>1
  <2> QED BY <1>2, <2>1
<1>4. \A i \in 1..(n + 1) : Stops(i) => i = p
  <2> SUFFICES ASSUME NEW i \in 1..(n + 1), Stops(i) PROVE i = p
    OBVIOUS
  <2>1. CASE i = n + 1
    <3>1. p \in 1..(i - 1)
      BY <1>1, <2>1
    <3>2. ~Ends(p)
      BY <3>1
    <3> QED BY <3>2
  <2>2. CASE i # n + 1
    <3>1. i \in 1..n /\ Ends(i)
      BY <1>1, <2>2
    <3> QED BY <1>2, <3>1
  <2> QED BY <2>1, <2>2
<1> HIDE DEF Stops
<1>5. last = p
  <2>1. last \in 1..(n + 1) /\ Stops(last)
    BY <1>3
  <2> QED BY <1>4, <2>1
<1>6. Released(m) = IF last = n + 1 THEN <<>>
                    ELSE SubSeq(reply, IF Ends(last) /\ reply[last].used # m.bufpos
                                         THEN last ELSE last + 1, n)
  BY Zenon DEF Released, Stops
<1> HIDE DEF last
<1>7. p # n + 1 /\ Ends(p)
  BY <1>1
<1>8. Released(m) = SubSeq(reply, IF reply[p].used # m.bufpos THEN p ELSE p + 1, n)
  BY <1>5, <1>6, <1>7, Zenon
<1>9. (IF reply[p].used # m.bufpos THEN p ELSE p + 1) = k + 1
  BY <1>1 DEF Releases
<1> QED BY <1>8, <1>9

\* A write that ends in the list.
LEMMA EndsInList ==
  ASSUME Inv, deferred = <<>>, NEW m, NEW tot \in Nat, NEW q \in 2..Len(Buffers),
         SavedAt(Buffers, m, q, tot)
  PROVE  Leaves(BufLeft(m), ListLeft(m), MarkAfter(m, BufLeft(m), ListLeft(m)), tot)
<1> DEFINE cs == Contents(Buffers)
           b == BufLeft(m)
           p == q - 1
           n == Len(reply)
           z == <<>>
           P == Pieces(reply, z)
           full == m.data = Len(Data(reply[p]))
           k == IF reply[p].used = m.bufpos THEN p ELSE p - 1
           r == SubSeq(reply, k + 1, n)
<1>1. /\ BufferInv(buf) /\ buf.used \in Nat /\ Data(buf) \in Bytes
      /\ GoodList(reply, buf.addr) /\ n \in Nat /\ reply \in Seq(Buffer)
      /\ ~HasPlaceholder(reply) /\ buf.addr \in Addrs /\ mark.data \in Nat
  BY InvFacts, Zenon
<1>2. p \in 1..n /\ Buffers[q] = reply[p] /\ Len(Buffers) = n + 1
  BY BuffersFacts
<1>3. /\ m.buf = reply[p].addr /\ m.data \in Nat /\ m.data > 0 /\ m.data <= Len(Data(reply[p]))
      /\ tot + mark.data = Len(Prefix(cs, p)) + m.data
      /\ m.bufpos = IF full THEN reply[p].used ELSE 0
      /\ m = [buf |-> m.buf, bufpos |-> m.bufpos, data |-> m.data]
  BY <1>2 DEF SavedAt
<1>4. /\ BufferInv(reply[p]) /\ reply[p].addr # buf.addr /\ reply[p].addr # NoAddr
      /\ reply[p].used # 0 /\ Data(reply[p]) \in Bytes /\ reply[p] \in Buffer
  <2>1. reply[p].addr # NoAddr
    BY <1>1, <1>2 DEF HasPlaceholder
  <2> QED BY <1>1, <1>2, <2>1, GoodFacts
<1>5. /\ BufferInv(b) /\ Data(b) = <<>> /\ b.addr = buf.addr /\ b.size = buf.size
      /\ b.used = 0
  <2>1. CASE BufWritten(m)
    <3>1. b = Emptied(buf)
      BY <2>1 DEF BufLeft
    <3> QED BY <1>1, <3>1, EmptiedFacts
  <2>2. CASE ~BufWritten(m)
    <3>1. buf.used = 0
      BY <1>1, <1>3, <1>4, <2>2 DEF BufWritten
    <3> DEFINE f == FALSE
    <3>2. f \in BOOLEAN /\ b = WithOpen(buf, f)
      BY <2>2 DEF BufLeft
    <3>3. Data(buf) = <<>>
      BY <1>1, <3>1, FlattenEmpty DEF Data, BufferInv
    <3> HIDE DEF f, b
    <3>4. /\ BufferInv(b) /\ Data(b) = Data(buf)
          /\ b.addr = buf.addr /\ b.used = buf.used /\ b.size = buf.size
      BY <1>1, <3>2, WithOpenFacts
    <3> QED BY <3>1, <3>3, <3>4
  <2> QED BY <2>1, <2>2
<1> HIDE DEF b
<1>6. k \in 0..n /\ (full => k = p) /\ (~full => k = p - 1)
  BY <1>1, <1>2, <1>3, <1>4, SMTT(30)
<1>7. ListLeft(m) = r
  <2>1. ~EndsInBuf(m)
    BY <1>3, <1>4 DEF EndsInBuf
  <2>2. ListLeft(m) = Released(m)
    BY <2>1 DEF ListLeft
  <2>3. Releases(m, p, k)
    BY DEF Releases
  <2>4. m.buf = reply[p].addr /\ p \in 1..Len(reply)
    BY <1>2, <1>3, Zenon
  <2> HIDE DEF k, p
  <2>5. Released(m) = SubSeq(reply, k + 1, Len(reply))
    BY <2>3, <2>4, ReleasedFacts
  <2> QED BY <2>2, <2>5
<1> HIDE DEF k
<1>8. z \in Bytes
  BY BytesFacts
<1> HIDE DEF z
<1>9. /\ GoodList(r, buf.addr) /\ Len(r) = n - k
      /\ \A i \in 1..(n - k) : r[i] = reply[k + i]
      /\ Held(r, z) = Suffix(P, k)
  BY <1>1, <1>6, <1>8, ListCut
<1>10. P \in Seq(Bytes) /\ Len(P) = n /\ \A i \in 1..n : P[i] = Data(reply[i])
  <2>1. /\ P \in Seq(Bytes) /\ Len(P) = n
        /\ \A i \in 1..n : P[i] = IF reply[i].addr = NoAddr THEN z ELSE Data(reply[i])
    BY <1>1, <1>8, PiecesFacts
  <2> QED BY <1>1, <2>1 DEF HasPlaceholder
<1>11. /\ cs \in Seq(Bytes) /\ Len(cs) = n + 1 /\ Splits(cs, <<Data(buf)>>, P)
       /\ cs[q] = Data(reply[p])
  <2>1. /\ cs \in Seq(Bytes) /\ Len(cs) = n + 1 /\ Splits(cs, <<Data(buf)>>, P)
        /\ \A i \in 1..Len(Buffers) : cs[i] = Data(Buffers[i])
    BY ContentsStream, Zenon DEF Splits, z
  <2>2. q \in 1..Len(Buffers)
    BY <1>1, <1>2
  <2> QED BY <1>2, <2>1, <2>2
<1> HIDE DEF cs, P, r
<1>12. Suffix(cs, k + 1) = Suffix(P, k)
  <2> DEFINE x == Data(buf)
  <2>1. x \in Bytes /\ P \in Seq(Bytes) /\ k \in 0..Len(P) /\ Splits(cs, <<x>>, P)
    BY <1>1, <1>6, <1>10, <1>11
  <2> HIDE DEF x
  <2> QED BY <2>1, SuffixOfTail
<1>13. Data(b) \o Held(r, <<>>) = Suffix(cs, k + 1)
  <2>1. Held(r, z) \in Bytes
    BY <1>8, <1>9, PiecesFacts
  <2>2. <<>> \o Held(r, z) = Held(r, z)
    BY <2>1, BytesFacts
  <2> QED BY <1>5, <1>9, <1>12, <2>2 DEF z
<1>14. ~HasPlaceholder(r) /\ r \in Seq(Buffer) /\ \A i \in 1..Len(r) : k + i \in 1..n
  <2>1. \A i \in 1..Len(r) : k + i \in 1..n
    BY <1>1, <1>6, <1>9
  <2>2. \A i \in 1..Len(r) : r[i].addr # NoAddr
    BY <1>1, <1>9, <2>1 DEF HasPlaceholder
  <2>3. r \in Seq(Buffer)
    BY <1>9, GoodFacts
  <2> QED BY <2>1, <2>2, <2>3 DEF HasPlaceholder
<1>15. k + 1 \in 0..Len(Buffers)
  BY <1>1, <1>2, <1>6
<1>16. b.used <= buf.used
  BY <1>1, <1>5
<1>17. CASE full
  <2>1. k = p
    BY <1>6, <1>17
  <2>2. \A i \in 1..Len(r) : r[i].addr # m.buf
    <3> TAKE i \in 1..Len(r)
    <3>0. /\ n \in Nat /\ p \in 1..n /\ Len(r) = n - k /\ i \in 1..(n - k)
          /\ k + i \in 1..n /\ r[i] = reply[k + i]
      BY <1>1, <1>2, <1>9, <1>14, Zenon
    <3>3. k + i # p
      <4> HIDE DEF p
      <4> QED BY <2>1, <3>0
    <3>1. r[i] = reply[k + i] /\ k + i \in 1..n /\ k + i # p
      BY <3>0, <3>3, Zenon
    <3>2. reply[k + i].addr # reply[p].addr
      BY <1>1, <1>2, <3>1, GoodFacts
    <3> QED BY <1>3, <3>1, <3>2
  <2>3. MarkAfter(m, b, r) = NoMark /\ Marks(NoMark, b, r) /\ NoMark.data = 0
    BY <1>5, <1>14, <2>2, MarkGone
  <2>4. Len(Prefix(cs, k + 1)) + NoMark.data = tot + mark.data
    <3>1. k \in 0..(Len(cs) - 1) /\ k + 1 = q
      BY <1>1, <1>2, <1>11, <2>1
    <3>2. Prefix(cs, k) \in Bytes /\ Len(Prefix(cs, k + 1)) = Len(Prefix(cs, k)) + Len(cs[k + 1])
      BY <1>11, <3>1, PrefixNext
    <3>3. Len(Prefix(cs, k)) \in Nat
      BY <3>2, BytesFacts
    <3>4. Len(cs[k + 1]) = m.data
      BY <1>11, <1>17, <3>1
    <3>5. Len(Prefix(cs, k)) + m.data = tot + mark.data
      BY <1>3, <2>1
    <3> QED BY <1>1, <1>3, <2>3, <3>2, <3>3, <3>4, <3>5
  <2> DEFINE j == k + 1
  <2>5. /\ j \in 0..Len(Buffers) /\ Len(Prefix(cs, j)) + NoMark.data = tot + mark.data
        /\ Data(b) \o Held(r, <<>>) = Suffix(cs, j)
    BY <1>13, <1>15, <2>4, Zenon
  <2> HIDE DEF j
  <2>6. Leaves(b, r, NoMark, tot)
    BY <1>5, <1>9, <1>14, <1>16, <2>3, <2>5, Zenon DEF Leaves, cs
  <2> QED BY <1>7, <2>3, <2>6 DEF b
<1>18. CASE ~full
  <2>1. k = p - 1 /\ k + 1 = p /\ m.bufpos = 0
    BY <1>2, <1>3, <1>6, <1>18
  <2>2. 1 \in 1..Len(r) /\ r[1] = reply[p] /\ Len(r) > 0
    BY <1>1, <1>2, <1>9, <2>1
  <2>3. MarkAfter(m, b, r) = m
    <3>1. 1 \in DOMAIN r /\ r[1].addr = m.buf
      BY <1>3, <1>14, <2>2
    <3> QED BY <3>1 DEF MarkAfter
  <2>4. Marks(m, b, r)
    <3>1. m = [buf |-> m.buf, bufpos |-> 0, data |-> m.data]
      BY <1>3, <2>1
    <3>2. m.data < Len(Data(r[1])) /\ m.buf = r[1].addr
      <4>1. Len(Data(reply[p])) \in Nat
        BY <1>4, BytesFacts
      <4> QED BY <1>3, <1>18, <2>2, <4>1
    <3>3. m.buf \in Addrs
      <4>1. reply[p].addr \in Addrs \cup {NoAddr}
        BY <1>4 DEF Buffer
      <4> QED BY <1>3, <1>4, <4>1
    <3>4. ~(b.used > 0)
      BY <1>5
    <3> QED BY <1>3, <2>2, <3>1, <3>2, <3>3, <3>4 DEF Marks
  <2>5. Len(Prefix(cs, k + 1)) + m.data = tot + mark.data
    BY <1>3, <2>1
  <2> DEFINE j == k + 1
  <2>6. /\ j \in 0..Len(Buffers) /\ Len(Prefix(cs, j)) + m.data = tot + mark.data
        /\ Data(b) \o Held(r, <<>>) = Suffix(cs, j)
    BY <1>13, <1>15, <2>5, Zenon
  <2> HIDE DEF j
  <2>7. Leaves(b, r, m, tot)
    BY <1>5, <1>9, <1>14, <1>16, <2>4, <2>6, Zenon DEF Leaves, cs
  <2> QED BY <1>7, <2>3, <2>7 DEF b
<1> QED BY <1>17, <1>18

\* writeToClient(): the bytes the host took leave the buffers and follow on the wire.
LEMMA WriteToClientInv ==
  ASSUME Inv, WriteToClient
  PROVE  Inv'
<1>1. /\ deferred = <<>> /\ Pending /\ deferred' = deferred /\ peak' = peak /\ added' = added
  BY DEF WriteToClient
<1>2. PICK tot \in 1..Len(FlattenSeq(Gathered.iov)) :
        /\ buf' = BufLeft(SaveLastWritten(Gathered, tot))
        /\ reply' = ListLeft(SaveLastWritten(Gathered, tot))
        /\ mark' = MarkAfter(SaveLastWritten(Gathered, tot),
                             BufLeft(SaveLastWritten(Gathered, tot)),
                             ListLeft(SaveLastWritten(Gathered, tot)))
        /\ wire' = wire \o SubSeq(FlattenSeq(Gathered.iov), 1, tot)
  BY Zenon DEF WriteToClient, BufLeft, ListLeft, Emptied, WithOpen
<1> DEFINE m == SaveLastWritten(Gathered, tot)
<1>3. tot \in Nat /\ wire' = Interval(0, Len(wire) + tot)
  BY <1>1, <1>2, WrittenBytes
<1>4. PICK q \in (Off + 1)..Len(Buffers) : SavedAt(Buffers, m, q, tot)
  <2>1. Writable(Buffers, Off, mark.data) /\ Covers(Buffers, Off, mark.data, Gathered)
    BY <1>1, WritableNow, GatheredCovers
  <2> QED BY <1>2, <2>1, SavedMark
<1>5. buf' = BufLeft(m) /\ reply' = ListLeft(m) /\ mark' = MarkAfter(m, BufLeft(m), ListLeft(m))
  BY <1>2
<1> HIDE DEF m
<1>6. Len(Buffers) \in Nat /\ buf.used \in Nat
  <2>1. Len(Buffers) = Len(reply) + 1
    BY BuffersFacts, Zenon
  <2>2. Len(reply) \in Nat /\ buf.used \in Nat
    BY InvFacts, Zenon
  <2> QED BY <2>1, <2>2
<1>7. Leaves(buf', reply', mark', tot)
  <2>1. CASE q = 1
    <3>1. buf.used > 0
      <4>1. Off = 0
        BY <1>6, <2>1 DEF Off
      <4> QED BY <4>1 DEF Off
    <3> QED BY <1>1, <1>3, <1>4, <1>5, <2>1, <3>1, EndsInBuffer
  <2>2. CASE q # 1
    <3>1. q \in 2..Len(Buffers)
      BY <1>6, <2>2 DEF Off
    <3> QED BY <1>1, <1>3, <1>4, <1>5, <3>1, EndsInList
  <2> QED BY <2>1, <2>2
<1>8. /\ BufferInv(buf') /\ buf'.addr = buf.addr /\ buf'.size = buf.size /\ buf'.used <= buf.used
      /\ GoodList(reply', buf.addr) /\ ~HasPlaceholder(reply')
      /\ Marks(mark', buf', reply')
  BY <1>7, Zenon DEF Leaves
<1>9. PICK k \in 0..Len(Buffers) :
        /\ Len(Prefix(Contents(Buffers), k)) + mark'.data = tot + mark.data
        /\ Data(buf') \o Held(reply', <<>>) = Suffix(Contents(Buffers), k)
  BY <1>7, Zenon DEF Leaves
<1>10. BufInv'
  <2>1. /\ buf.addr \in Addrs /\ buf.size <= BufSize
        /\ peak \in Nat /\ buf.used <= peak /\ peak <= BufSize /\ BufSize \in Nat
    BY InvFacts, Zenon
  <2>2. buf'.used \in Nat
    BY <1>8, BufferData
  <2>3. buf'.used <= peak
    BY <1>6, <1>8, <2>1, <2>2
  <2> QED BY <1>1, <1>8, <2>1, <2>3 DEF BufInv
<1>11. ListInv'
  BY <1>1, <1>8 DEF ListInv
<1>12. MarkInv'
  BY <1>8 DEF MarkInv
<1>13. StreamInv'
  <2> DEFINE e == mark'.data
             w == Len(wire) + tot
             lo == w - e
  <2>1. e \in Nat
    BY <1>8 DEF Marks
  <2>2. w \in Nat
    <3>1. Len(wire) \in Nat
      BY InvFacts, Zenon
    <3> QED BY <1>3, <3>1
  <2>3. /\ lo \in Nat /\ lo <= added
        /\ Suffix(Contents(Buffers), k) = Interval(lo, added - lo)
    <3>1. Len(Prefix(Contents(Buffers), k)) + e = tot + mark.data
      BY <1>9
    <3> HIDE DEF e
    <3> QED BY <1>1, <1>3, <2>1, <3>1, StreamLeft
  <2>4. wire' \in Bytes /\ Len(wire') = w
    <3> DEFINE z == 0
    <3>1. z \in Nat /\ wire' = Interval(z, w)
      BY <1>3
    <3> HIDE DEF z, w
    <3> QED BY <2>2, <3>1, IntervalFacts
  <2>5. wire' = Interval(0, Len(wire'))
    BY <1>3, <2>4
  <2>6. e <= w
    <3> HIDE DEF e, w
    <3> QED BY <2>1, <2>2, <2>3
  <2>7. Data(buf') \o Held(reply', deferred') = Interval(lo, added - lo)
    BY <1>1, <1>9, <2>3, Zenon
  <2>8. deferred' \in Bytes /\ added' = added /\ added \in Nat /\ added <= MaxBytes
    <3>1. deferred \in Bytes /\ added \in Nat /\ added <= MaxBytes
      BY InvFacts, Zenon
    <3> QED BY <1>1, <3>1
  <2> HIDE DEF w
  <2> QED BY <2>3, <2>4, <2>5, <2>6, <2>7, <2>8, Zenon DEF StreamInv
<1> QED BY <1>10, <1>11, <1>12, <1>13 DEF Inv

-----------------------------------------------------------------------------
(* The theorems.                                                           *)

\* The inductive invariant holds: for every size of the buffers and of the iovec, for
\* every write the host may cut short, and however many bytes the client is sent.
THEOREM Invariance == Spec => []Inv
<1>1. Init => Inv
  BY InitInv
<1>2. Inv /\ [Next]_vars => Inv'
  <2> SUFFICES ASSUME Inv, [Next]_vars PROVE Inv'
    OBVIOUS
  <2>1. ASSUME NEW n \in 1..MaxPlain, AddReply(n) PROVE Inv'
    BY <2>1, AddReplyInv
  <2>2. CASE AddBulkRef
    BY <2>2, AddBulkRefInv
  <2>3. ASSUME NEW n \in 1..MaxDefer, AddReplyDeferredLen(n) PROVE Inv'
    BY <2>3, AddReplyDeferredLenInv
  <2>4. CASE SetDeferredReply
    BY <2>4, SetDeferredReplyInv
  <2>5. CASE ResizeOutputBuffer
    BY <2>5, ResizeOutputBufferInv
  <2>6. CASE WriteToClient
    BY <2>6, WriteToClientInv
  <2>7. CASE UNCHANGED vars
    BY <2>7 DEF vars, Inv, BufInv, ListInv, MarkInv, StreamInv
  <2> QED BY <2>1, <2>2, <2>3, <2>4, <2>5, <2>6, <2>7 DEF Next
<1> QED BY <1>1, <1>2, PTL DEF Spec

\* The indices of the buffers.
LEMMA BuffersDomain == ASSUME Inv PROVE DOMAIN Buffers = 1..Len(Buffers)
<1>1. Buffers \in Seq(Buffer)
  BY BuffersFacts
<1> QED BY <1>1

\* The type invariant: no buffer holds more than its size, not even one that serverCron
\* shrank, and what a buffer says it holds is what it holds.
THEOREM TypeCorrect == Spec => []TypeOK
<1>1. Inv => TypeOK
  <2> SUFFICES ASSUME Inv PROVE TypeOK
    OBVIOUS
  <2>1. ASSUME NEW i \in DOMAIN Buffers
        PROVE  LET b == Buffers[i]
               IN /\ b.used \in 0..b.size /\ b.enc \in BOOLEAN /\ b.open \in BOOLEAN
                  /\ ~b.enc => b.used = Len(Data(b)) /\ Len(b.iov) <= 1
                  /\ b.used = 0 <=> b.iov = <<>>
    <3> DEFINE b == Buffers[i]
    <3>1. BufferInv(b)
      BY BuffersFacts, BuffersDomain
    <3> HIDE DEF b
    <3>2. b.used \in Nat /\ b.size \in Nat /\ b.enc \in BOOLEAN /\ b.open \in BOOLEAN
      BY <3>1, BufferData
    <3>3. b.used <= b.size
      BY <3>1 DEF BufferInv
    <3>4. b.used \in 0..b.size
      BY <3>2, <3>3
    <3>5. /\ ~b.enc => b.used = Len(Data(b)) /\ Len(b.iov) <= 1
          /\ b.used = 0 <=> b.iov = <<>>
      BY <3>1, Zenon DEF BufferInv
    <3> QED BY <3>2, <3>4, <3>5, Zenon DEF b
  <2>2. buf.addr \in Addrs /\ peak \in buf.used..BufSize
    <3>1. /\ buf.addr \in Addrs /\ peak \in Nat /\ buf.used <= peak /\ peak <= BufSize
          /\ BufSize \in Nat /\ buf.used \in Nat
      BY InvFacts, Zenon
    <3> QED BY <3>1
  <2>3. mark.buf \in Addrs \cup {NoAddr} /\ mark.bufpos \in Nat /\ mark.data \in Nat
    <3>1. Marks(mark, buf, reply)
      BY InvFacts, Zenon
    <3>2. mark = [buf |-> mark.buf, bufpos |-> 0, data |-> mark.data] /\ mark.data \in Nat
      BY <3>1 DEF Marks
    <3>3. mark.bufpos = 0
      BY <3>2
    <3>4. mark.buf \in Addrs \cup {NoAddr}
      BY <3>1 DEF Marks, NoMark
    <3> QED BY <3>2, <3>3, <3>4
  <2>4. added \in 0..MaxBytes
    <3>1. added \in Nat /\ added <= MaxBytes /\ MaxBytes \in Nat
      BY InvFacts, Zenon
    <3> QED BY <3>1
  <2> QED BY <2>1, <2>2, <2>3, <2>4 DEF TypeOK
<1> QED BY <1>1, Invariance, PTL

\* What the host has been given is a prefix of the reply stream, in order, wherever
\* writes were cut and whatever was added, moved, prefixed or resized in between.
THEOREM StreamInOrder == Spec => []WireInOrder
<1>1. Inv => WireInOrder
  <2> SUFFICES ASSUME Inv PROVE WireInOrder
    OBVIOUS
  <2> DEFINE w == Len(wire)
             z == 0
  <2>1. wire = Interval(z, w) /\ w \in Nat /\ wire \in Bytes
    BY InvFacts, Zenon
  <2>2. DOMAIN wire = 1..w
    BY <2>1 DEF Bytes
  <2>3. \A i \in 1..w : z + i = i
    BY <2>1
  <2>4. z \in Nat
    OBVIOUS
  <2> HIDE DEF w, z
  <2>5. \A i \in 1..w : Interval(z, w)[i] = z + i
    BY <2>1, <2>4, IntervalFacts
  <2>6. \A i \in 1..w : wire[i] = i
    BY <2>1, <2>3, <2>5
  <2> QED BY <2>2, <2>6 DEF WireInOrder
<1> QED BY <1>1, Invariance, PTL

\* The bookmark always names the first buffer that holds bytes, and a place inside it:
\* the assertions of _postWriteToClient() cannot fail, though addresses are reused.
THEOREM BookmarkStaysValid == Spec => []BookmarkValid
<1>1. Inv => BookmarkValid
  <2> SUFFICES ASSUME Inv, mark # NoMark
               PROVE  \E i \in DOMAIN Buffers :
                        /\ Buffers[i].addr = mark.buf
                        /\ \A j \in 1..(i - 1) : Buffers[j].used = 0
                        /\ mark.bufpos = 0
                        /\ mark.data > 0 /\ mark.data < Len(Data(Buffers[i]))
    BY DEF BookmarkValid
  <2>1. Marks(mark, buf, reply) /\ buf.used \in Nat /\ Len(reply) \in Nat
    BY InvFacts, Zenon
  <2>2. /\ mark = [buf |-> mark.buf, bufpos |-> 0, data |-> mark.data] /\ mark.data > 0
        /\ buf.used > 0 => mark.buf = buf.addr /\ mark.data < Len(Data(buf))
        /\ buf.used = 0 => Len(reply) > 0 /\ mark.buf = reply[1].addr
                           /\ mark.data < Len(Data(reply[1]))
    BY <2>1 DEF Marks
  <2>3. mark.bufpos = 0
    BY <2>2
  <2>4. /\ Len(Buffers) = Len(reply) + 1 /\ Buffers[1] = buf
        /\ \A i \in 1..Len(reply) : Buffers[i + 1] = reply[i]
    BY BuffersFacts, Zenon
  <2>5. CASE buf.used > 0
    <3>1. 1 \in DOMAIN Buffers
      BY <2>1, <2>4, BuffersDomain
    <3>2. \A j \in 1..(1 - 1) : Buffers[j].used = 0
      OBVIOUS
    <3> QED BY <2>2, <2>3, <2>4, <2>5, <3>1, <3>2
  <2>6. CASE buf.used = 0
    <3>1. 1 \in 1..Len(reply) /\ 1 + 1 = 2
      BY <2>1, <2>2, <2>6
    <3>2. 2 \in DOMAIN Buffers
      BY <2>1, <2>4, <3>1, BuffersDomain
    <3>3. Buffers[2] = reply[1]
      BY <2>4, <3>1
    <3>4. \A j \in 1..(2 - 1) : Buffers[j].used = 0
      <4>1. \A j \in 1..(2 - 1) : j = 1
        OBVIOUS
      <4> QED BY <2>4, <2>6, <4>1
    <3> QED BY <2>2, <2>3, <2>6, <3>2, <3>3, <3>4
  <2> QED BY <2>1, <2>5, <2>6
<1> QED BY <1>1, Invariance, PTL

\* Between commands the buffers hold all of the stream that the host has not been given,
\* and, in front of it, only what the bookmark skips.
THEOREM NothingIsDropped == Spec => []NothingDropped
<1>1. Inv => NothingDropped
  <2> SUFFICES ASSUME Inv, deferred = <<>>
               PROVE  FlattenSeq([i \in DOMAIN Buffers |-> Data(Buffers[i])])
                        = [i \in 1..(added - Len(wire) + mark.data) |-> Len(wire) - mark.data + i]
    BY DEF NothingDropped
  <2> DEFINE w == Len(wire)
             md == mark.data
  <2>1. /\ w \in Nat /\ md \in Nat /\ added \in Nat
        /\ Data(buf) \o Held(reply, deferred) = Interval(w - md, added - (w - md))
    BY InvFacts, Zenon
  <2>2. [i \in DOMAIN Buffers |-> Data(Buffers[i])] = Contents(Buffers)
    BY BuffersDomain DEF Contents
  <2>3. FlattenSeq(Contents(Buffers)) = Data(buf) \o Held(reply, deferred)
    BY ContentsStream, Zenon
  <2>4. FlattenSeq(Contents(Buffers)) = Interval(w - md, added - (w - md))
    BY <2>1, <2>3, Zenon
  <2>5. added - (w - md) = added - w + md
    <3>1. w \in Nat /\ md \in Nat /\ added \in Nat
      BY <2>1, Zenon
    <3> HIDE DEF w, md
    <3> QED BY <3>1
  <2> HIDE DEF w, md
  <2>6. Interval(w - md, added - (w - md)) = [i \in 1..(added - w + md) |-> w - md + i]
    BY <2>5, Zenon DEF Interval
  <2> QED BY <2>2, <2>4, <2>6, Zenon DEF w, md
<1> QED BY <1>1, Invariance, PTL

\* Whenever something is pending and no header is deferred, a write has at least one
\* byte to hand over: the write handler cannot fire for ever without progress.
THEOREM WritesMakeProgress == Spec => []WritesProgress
<1>1. Inv => WritesProgress
  <2> SUFFICES ASSUME Inv, Pending, deferred = <<>> PROVE FlattenSeq(Gathered.iov) # <<>>
    BY DEF WritesProgress
  <2>1. PICK n \in Nat \ {0} : FlattenSeq(Gathered.iov) = Interval(Len(wire), n)
    BY GatheredBytes
  <2>2. Len(wire) \in Nat
    BY InvFacts, Zenon
  <2>3. n \in Nat /\ n # 0
    OBVIOUS
  <2>4. Len(Interval(Len(wire), n)) = n
    BY <2>2, <2>3, IntervalFacts
  <2>5. Len(<<>>) = 0
    OBVIOUS
  <2> QED BY <2>1, <2>3, <2>4, <2>5
<1> QED BY <1>1, Invariance, PTL

=============================================================================
