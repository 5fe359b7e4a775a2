------------------------- MODULE RecordCodecProofs -------------------------
(***************************************************************************)
(* The bytes of the records, for all keys, all numbers and all targets.    *)
(* An encoding puts the fields one behind the other (FlattenParts); data   *)
(* that carries a record so, whatever is behind it, decodes to it          *)
(* (DecodeCarried); and one type's data is a record of the other's only    *)
(* where a byte of the voter's key reads as a tag (OnlyItsOwn).  CodecInv, *)
(* that each account carries what was written to it in the space it was    *)
(* created with, or in that case what was there and the max record written *)
(* over it, is then inductive.                                             *)
(***************************************************************************)
EXTENDS RecordCodec, TLAPS, WellFoundedInduction

-----------------------------------------------------------------------------
(***************************************************************************)
(* Recursive functions on 1 .. n.  What holds of all their values is       *)
(* proved by looking at the first value without it.                        *)
(***************************************************************************)

\* A set of numbers from 1 to n has an element whose predecessor it does not have.
LEMMA First ==
    ASSUME NEW n \in Nat, NEW T, T \subseteq 1 .. n, T # {}
    PROVE  \E i \in T : /\ i \in 1 .. n
                        /\ i # 1 => i \in 2 .. n /\ i - 1 \in (1 .. n) \ T
<1> DEFINE R == OpToRel(<, Nat)
<1>1. IsWellFoundedOn(R, Nat)
  BY NatLessThanWellFounded
<1>2. \A i, j \in Nat : i < j => <<i, j>> \in R
  BY DEF OpToRel
<1> HIDE DEF R
<1>3. T \subseteq Nat
  OBVIOUS
<1>4. PICK i \in T : \A j \in T : <<j, i>> \notin R
  BY <1>1, <1>3, WFMin
<1>5. i - 1 \notin T
  <2> SUFFICES ASSUME i - 1 \in T PROVE FALSE
    OBVIOUS
  <2>1. i - 1 \in Nat /\ i \in Nat /\ i - 1 < i
    BY <1>3
  <2> QED
    BY <1>2, <1>4, <2>1
<1> QED
  BY <1>5

\* g[i] maps what is in V to what is in V.
Keeps(g, V, n) == \A i \in 2 .. n, v \in V : g[i][v] \in V

\* f starts with a and goes on by g.
Follows(f, a, g, V, n) == /\ f \in [1 .. n -> V]
                          /\ f[1] = a
                          /\ \A i \in 2 .. n : f[i] = g[i][f[i - 1]]

\* A function given by its first value and by each value from the one before exists.
LEMMA Recursion ==
    ASSUME NEW n \in Nat \ {0}, NEW V, NEW a \in V, NEW g, Keeps(g, V, n)
    PROVE  \E f : Follows(f, a, g, V, n)
<1> USE DEF Keeps, Follows
<1> DEFINE Is(f, m) == Follows(f, a, g, V, m)
           Bad == {m \in 1 .. n : ~ \E f : Is(f, m)}
<1>1. ASSUME Bad # {} PROVE FALSE
  <2>1. PICK m \in Bad : m \in 1 .. n /\ (m # 1 => m \in 2 .. n /\ m - 1 \in (1 .. n) \ Bad)
    <3>1. Bad \subseteq 1 .. n
      OBVIOUS
    <3> HIDE DEF Bad
    <3> QED
      BY <1>1, <3>1, First
  <2>2. CASE m = 1
    <3> DEFINE f == [i \in 1 .. 1 |-> a]
    <3>1. Is(f, 1)
      OBVIOUS
    <3> QED
      BY <2>2, <3>1
  <2>3. CASE m # 1
    <3>1. PICK f : Is(f, m - 1)
      <4> HIDE DEF Is, Follows
      <4> QED
        BY <2>1, <2>3
    <3> DEFINE h == [i \in 1 .. m |-> IF i = m THEN g[m][f[m - 1]] ELSE f[i]]
    <3>2. /\ m \in 2 .. n /\ m - 1 \in 1 .. m - 1
          /\ f[m - 1] \in V /\ g[m][f[m - 1]] \in V
      BY <2>1, <2>3, <3>1
    <3>3. \A i \in 1 .. m - 1 : h[i] = f[i]
      BY <3>2
    <3>4. h \in [1 .. m -> V] /\ h[1] = a /\ h[m] = g[m][h[m - 1]]
      BY <3>1, <3>2, <3>3
    <3>5. ASSUME NEW i \in 2 .. m PROVE h[i] = g[i][h[i - 1]]
      <4> HIDE DEF h
      <4>1. CASE i = m
        BY <3>4, <4>1
      <4>2. CASE i # m
        <5>1. i \in 2 .. m - 1 /\ i - 1 \in 1 .. m - 1 /\ i \in 1 .. m - 1
          BY <3>2, <4>2
        <5>2. h[i] = f[i] /\ h[i - 1] = f[i - 1]
          BY <3>3, <5>1
        <5> QED
          BY <3>1, <5>1, <5>2
      <4> QED
        BY <4>1, <4>2
    <3>6. Is(h, m)
      BY <3>4, <3>5
    <3> HIDE DEF Is, Follows
    <3> QED
      BY <3>6
  <2> QED
    BY <2>2, <2>3
<1>2. \E f : Is(f, n)
  <2> HIDE DEF Is, Follows
  <2>1. n \in 1 .. n
    OBVIOUS
  <2> QED
    BY <1>1, <2>1
<1> QED
  BY <1>2

\* start has the offsets of the fields as they are read.
Advances(start, layout, buf) ==
    /\ start[1] = 0
    /\ \A i \in 1 .. Len(layout) : start[i + 1] = start[i] + Span(layout[i], buf, start[i])

\* The first n fields take a number of bytes wherever they are read.
Spans(layout, buf, n) == \A i \in 1 .. n, o \in Nat : Span(layout[i], buf, o) \in Nat

\* Offsets is such a start.
LEMMA OffsetsRecursion ==
    ASSUME NEW layout, NEW n \in Nat, Len(layout) = n, NEW buf, Spans(layout, buf, n)
    PROVE  Advances(Offsets(layout, buf), layout, buf)
<1> DEFINE Is(f) == f = [i \in 1 .. n + 1 |->
                           IF i = 1 THEN 0
                           ELSE f[i - 1] + Span(layout[i - 1], buf, f[i - 1])]
           g == [i \in 2 .. n + 1 |-> [o \in Nat |-> o + Span(layout[i - 1], buf, o)]]
<1>1. ASSUME NEW i \in 2 .. n + 1, NEW o \in Nat
      PROVE  g[i][o] = o + Span(layout[i - 1], buf, o) /\ g[i][o] \in Nat
  <2>1. i - 1 \in 1 .. n
    OBVIOUS
  <2>2. PICK w \in Nat : w = Span(layout[i - 1], buf, o)
    BY <2>1 DEF Spans
  <2>3. g[i][o] = o + Span(layout[i - 1], buf, o)
    OBVIOUS
  <2> HIDE DEF g
  <2>4. o + w \in Nat
    OBVIOUS
  <2> QED
    BY <2>2, <2>3, <2>4
<1> HIDE DEF g
<1>2. PICK f : Follows(f, 0, g, Nat, n + 1)
  <2>1. n + 1 \in Nat \ {0} /\ 0 \in Nat
    OBVIOUS
  <2>2. Keeps(g, Nat, n + 1)
    BY <1>1 DEF Keeps
  <2> QED
    BY <2>1, <2>2, Recursion
<1>3. Is(f)
  <2>1. ASSUME NEW i \in 1 .. n + 1, i # 1
        PROVE  f[i] = f[i - 1] + Span(layout[i - 1], buf, f[i - 1])
    <3>1. i \in 2 .. n + 1 /\ i - 1 \in 1 .. n + 1
      BY <2>1
    <3>2. f[i - 1] \in Nat /\ f[i] = g[i][f[i - 1]]
      BY <1>2, <3>1 DEF Follows
    <3> QED
      BY <1>1, <3>1, <3>2
  <2> QED
    BY <1>2, <2>1 DEF Follows
<1> DEFINE start == CHOOSE s : Is(s)
<1>4. Is(start)
  <2> HIDE DEF Is, Follows
  <2> QED
    BY <1>3
<1>5. Offsets(layout, buf) = start
  BY DEF Offsets
<1> HIDE DEF start
<1>6. start[1] = 0
  BY <1>4
<1>7. ASSUME NEW i \in 1 .. n
      PROVE  start[i + 1] = start[i] + Span(layout[i], buf, start[i])
  <2>1. i + 1 \in 1 .. n + 1 /\ i + 1 # 1 /\ (i + 1) - 1 = i
    OBVIOUS
  <2>2. start[i + 1] = start[(i + 1) - 1]
                         + Span(layout[(i + 1) - 1], buf, start[(i + 1) - 1])
    BY <1>4, <2>1
  <2> QED
    BY <2>1, <2>2
<1> QED
  BY <1>5, <1>6, <1>7 DEF Advances

\* What FlattenSeq puts together, part by part.
Grows(f, part, n) == /\ f \in [1 .. n -> Seq(Byte)]
                     /\ f[1] = part[1]
                     /\ \A i \in 2 .. n : f[i] = f[i - 1] \o part[i]

\* FlattenSeq is the last of these.
LEMMA FlattenRecursion ==
    ASSUME NEW n \in Nat \ {0}, NEW part \in [1 .. n -> Seq(Byte)]
    PROVE  \E f : Grows(f, part, n) /\ FlattenSeq(part) = f[n]
<1> DEFINE Is(f) == f = [i \in 1 .. n |-> IF i = 1 THEN part[i] ELSE f[i - 1] \o part[i]]
           g == [i \in 2 .. n |-> [s \in Seq(Byte) |-> s \o part[i]]]
<1>1. \A i \in 2 .. n, s \in Seq(Byte) : g[i][s] = s \o part[i] /\ g[i][s] \in Seq(Byte)
  <2>1. \A i \in 2 .. n : part[i] \in Seq(Byte)
    OBVIOUS
  <2>2. \A s, t \in Seq(Byte) : s \o t \in Seq(Byte)
    OBVIOUS
  <2> QED
    BY <2>1, <2>2
<1> HIDE DEF g
<1>2. PICK f : Follows(f, part[1], g, Seq(Byte), n)
  <2>1. part[1] \in Seq(Byte)
    OBVIOUS
  <2>2. Keeps(g, Seq(Byte), n)
    BY <1>1 DEF Keeps
  <2> QED
    BY <2>1, <2>2, Recursion
<1>3. Grows(f, part, n)
  <2>1. f \in [1 .. n -> Seq(Byte)] /\ f[1] = part[1]
    BY <1>2 DEF Follows
  <2>2. ASSUME NEW i \in 2 .. n
        PROVE  f[i] = f[i - 1] \o part[i]
    <3>1. i - 1 \in 1 .. n
      OBVIOUS
    <3>2. f[i - 1] \in Seq(Byte) /\ f[i] = g[i][f[i - 1]]
      BY <1>2, <3>1 DEF Follows
    <3> QED
      BY <1>1, <3>2
  <2> QED
    BY <2>1, <2>2 DEF Grows
<1>4. Is(f)
  <2>1. DOMAIN f = 1 .. n /\ f = [i \in 1 .. n |-> f[i]]
    BY <1>3 DEF Grows
  <2>2. ASSUME NEW i \in 1 .. n
        PROVE  f[i] = IF i = 1 THEN part[i] ELSE f[i - 1] \o part[i]
    <3>1. i # 1 => i \in 2 .. n
      OBVIOUS
    <3> QED
      BY <1>3, <3>1 DEF Grows
  <2> QED
    BY <2>1, <2>2
<1> DEFINE F == CHOOSE s : Is(s)
<1>5. Is(F)
  <2> HIDE DEF Is
  <2> QED
    BY <1>4
<1>6. FlattenSeq(part) = F[n]
  <2>1. Len(part) = n
    OBVIOUS
  <2> QED
    BY <2>1 DEF FlattenSeq
<1> HIDE DEF F
<1>7. ASSUME NEW i \in 1 .. n
      PROVE  F[i] = IF i = 1 THEN part[i] ELSE F[i - 1] \o part[i]
  BY <1>5
<1> DEFINE Bad == {i \in 1 .. n : F[i] # f[i]}
<1>8. ASSUME Bad # {} PROVE FALSE
  <2>1. PICK i \in Bad : i \in 1 .. n /\ (i # 1 => i \in 2 .. n /\ i - 1 \in (1 .. n) \ Bad)
    <3>1. Bad \subseteq 1 .. n
      OBVIOUS
    <3> HIDE DEF Bad
    <3> QED
      BY <1>8, <3>1, First
  <2>2. F[i] # f[i]
    BY <2>1
  <2>3. CASE i = 1
    BY <1>3, <1>7, <2>1, <2>2, <2>3 DEF Grows
  <2>4. CASE i # 1
    <3>1. F[i - 1] = f[i - 1]
      BY <2>1, <2>4
    <3>2. F[i] = F[i - 1] \o part[i] /\ f[i] = f[i - 1] \o part[i]
      BY <1>3, <1>7, <2>1, <2>4 DEF Grows
    <3> QED
      BY <2>2, <3>1, <3>2
  <2> QED
    BY <2>3, <2>4
<1>9. F[n] = f[n]
  <2>1. n \in 1 .. n
    OBVIOUS
  <2> QED
    BY <1>8, <2>1
<1> QED
  BY <1>3, <1>6, <1>9

\* Bytes are integers.
LEMMA BytesAreInts ==
    ASSUME NEW s \in Seq(Byte)
    PROVE  s \in Seq(Int) /\ Len(s) \in Nat
<1>1. Len(s) \in Nat /\ s \in [1 .. Len(s) -> Byte]
  OBVIOUS
<1>2. Byte \subseteq Int
  BY DEF Byte
<1>3. s \in [1 .. Len(s) -> Int]
  BY <1>1, <1>2
<1> QED
  BY <1>1, <1>3

\* s is in buf at pos.
At(s, buf, pos) == /\ pos + Len(s) <= Len(buf)
                   /\ \A p \in 1 .. Len(s) : buf[pos + p] = s[p]

\* What is in a sequence stays there when another is appended, which is then behind it.
LEMMA AtAppended ==
    ASSUME NEW s \in Seq(Int), NEW t \in Seq(Int), NEW u \in Seq(Int), NEW pos \in Nat
    PROVE  /\ At(u, s, pos) => At(u, s \o t, pos)
           /\ At(t, s \o t, Len(s))
<1>1. Len(s) \in Nat /\ Len(t) \in Nat /\ Len(u) \in Nat /\ Len(s \o t) = Len(s) + Len(t)
  OBVIOUS
<1>2. \A q \in 1 .. Len(s) : (s \o t)[q] = s[q]
  OBVIOUS
<1>3. \A q \in 1 .. Len(t) : (s \o t)[Len(s) + q] = t[q]
  OBVIOUS
<1>4. ASSUME At(u, s, pos), NEW p \in 1 .. Len(u)
      PROVE  (s \o t)[pos + p] = u[p]
  <2>1. pos + p \in 1 .. Len(s)
    BY <1>1, <1>4 DEF At
  <2> QED
    BY <1>2, <1>4, <2>1 DEF At
<1>5. At(u, s, pos) => pos + Len(u) <= Len(s \o t)
  BY <1>1 DEF At
<1> QED
  BY <1>1, <1>3, <1>4, <1>5 DEF At

\* Positions of the parts.
Places(pos, part, n) == /\ pos \in [1 .. n + 1 -> Nat]
                        /\ pos[1] = 0
                        /\ \A i \in 1 .. n : pos[i + 1] = pos[i] + Len(part[i])

\* The parts lie one behind the other.
LEMMA FlattenParts ==
    ASSUME NEW n \in Nat \ {0}, NEW part \in [1 .. n -> Seq(Byte)]
    PROVE  /\ FlattenSeq(part) \in Seq(Byte)
           /\ \E pos : /\ Places(pos, part, n)
                       /\ pos[n + 1] = Len(FlattenSeq(part))
                       /\ \A i \in 1 .. n : At(part[i], FlattenSeq(part), pos[i])
<1>1. PICK f : Grows(f, part, n) /\ FlattenSeq(part) = f[n]
  BY FlattenRecursion
<1>2. /\ f[1] = part[1]
      /\ \A i \in 1 .. n : f[i] \in Seq(Byte) /\ part[i] \in Seq(Byte)
      /\ \A i \in 1 .. n : f[i] \in Seq(Int) /\ part[i] \in Seq(Int)
      /\ \A i \in 1 .. n : Len(f[i]) \in Nat /\ Len(part[i]) \in Nat
      /\ \A i \in 2 .. n : f[i] = f[i - 1] \o part[i]
  <2> QED
    BY <1>1, BytesAreInts DEF Grows
<1> DEFINE pos == [i \in 1 .. n + 1 |-> IF i = 1 THEN 0 ELSE Len(f[i - 1])]
<1>3. \A i \in 1 .. n : pos[i + 1] = Len(f[i])
  OBVIOUS
<1>4. pos \in [1 .. n + 1 -> Nat] /\ pos[1] = 0
  <2>1. \A i \in 1 .. n + 1 : i # 1 => i - 1 \in 1 .. n
    OBVIOUS
  <2> QED
    BY <1>2, <2>1
<1> HIDE DEF pos
<1>5. ASSUME NEW i \in 2 .. n
      PROVE  /\ i - 1 \in 1 .. n
             /\ pos[i] = Len(f[i - 1])
             /\ Len(f[i]) = Len(f[i - 1]) + Len(part[i])
  <2>1. i - 1 \in 1 .. n /\ (i - 1) + 1 = i /\ i \in 1 .. n
    OBVIOUS
  <2>2. pos[(i - 1) + 1] = Len(f[i - 1])
    BY <1>3, <2>1
  <2>3. f[i] = f[i - 1] \o part[i] /\ f[i - 1] \in Seq(Int) /\ part[i] \in Seq(Int)
    BY <1>2, <2>1
  <2>4. Len(f[i]) = Len(f[i - 1]) + Len(part[i])
    BY <2>3
  <2> QED
    BY <2>1, <2>2, <2>4
<1>6. ASSUME NEW i \in 1 .. n
      PROVE  pos[i + 1] = pos[i] + Len(part[i])
  <2>1. CASE i = 1
    BY <1>2, <1>3, <1>4, <2>1
  <2>2. CASE i # 1
    <3>1. i \in 2 .. n
      BY <2>2
    <3> QED
      BY <1>3, <1>5, <3>1
  <2> QED
    BY <2>1, <2>2
<1> DEFINE Laid(m) == \A i \in 1 .. m : At(part[i], f[m], pos[i])
           Bad == {m \in 1 .. n : ~Laid(m)}
<1>7. ASSUME Bad # {} PROVE FALSE
  <2>1. PICK m \in Bad : m \in 1 .. n /\ (m # 1 => m \in 2 .. n /\ m - 1 \in (1 .. n) \ Bad)
    <3>1. Bad \subseteq 1 .. n
      OBVIOUS
    <3> HIDE DEF Bad
    <3> QED
      BY <1>7, <3>1, First
  <2>2. CASE m = 1
    <3>1. At(part[1], f[1], pos[1])
      BY <1>2, <1>4 DEF At
    <3> QED
      BY <2>1, <2>2, <3>1
  <2>3. CASE m # 1
    <3>1. m \in 2 .. n /\ m - 1 \in 1 .. n
      BY <2>1, <2>3
    <3>2. \A i \in 1 .. m - 1 : At(part[i], f[m - 1], pos[i])
      BY <2>1, <2>3
    <3>3. /\ f[m] = f[m - 1] \o part[m] /\ f[m - 1] \in Seq(Int) /\ part[m] \in Seq(Int)
          /\ pos[m] = Len(f[m - 1])
      BY <1>2, <1>5, <3>1
    <3>4. ASSUME NEW i \in 1 .. m
          PROVE  At(part[i], f[m], pos[i])
      <4>1. CASE i = m
        BY <3>3, <4>1, AtAppended
      <4>2. CASE i # m
        <5>1. i \in 1 .. m - 1 /\ i \in 1 .. n /\ i \in 1 .. n + 1
          BY <3>1, <4>2
        <5>2. part[i] \in Seq(Int) /\ pos[i] \in Nat
          BY <1>2, <1>4, <5>1
        <5> QED
          BY <3>2, <3>3, <5>1, <5>2, AtAppended
      <4> QED
        BY <4>1, <4>2
    <3> QED
      BY <2>1, <3>4
  <2> QED
    BY <2>2, <2>3
<1>8. n \in 1 .. n
  OBVIOUS
<1>9. Laid(n)
  BY <1>7, <1>8
<1>10. Places(pos, part, n) /\ pos[n + 1] = Len(f[n])
  BY <1>3, <1>4, <1>6, <1>8 DEF Places
<1> QED
  BY <1>1, <1>2, <1>8, <1>9, <1>10

-----------------------------------------------------------------------------
(***************************************************************************)
(* Fields.                                                                 *)
(***************************************************************************)

\* The names of all fields.
FieldName == {"account_discriminator", "realm", "governing_token_mint",
              "governing_token_owner", "voter_weight", "voter_weight_expiry",
              "weight_action", "weight_action_target", "max_voter_weight",
              "max_voter_weight_expiry", "discriminator", "governance_program_id",
              "min_trust_score", "max_verification_age", "reserved"}

\* A field of a layout.
Field == [name : FieldName, size : Nat \ {0}, optional : BOOLEAN, values : SUBSET Byte]

\* What a field may hold.
Holds(field, v) == IF field.optional THEN v \in field.values \union {None} ELSE v \in Byte

\* The bytes of a field.
LEMMA FieldBytesAre ==
    ASSUME NEW field \in Field, NEW v, Holds(field, v)
    PROVE  /\ FieldBytes(field, v) \in Seq(Byte)
           /\ ~field.optional =>
                 /\ Len(FieldBytes(field, v)) = field.size
                 /\ \A p \in 1 .. field.size : FieldBytes(field, v)[p] = v
           /\ (field.optional /\ v = None) =>
                 /\ Len(FieldBytes(field, v)) = 1
                 /\ FieldBytes(field, v)[1] = 0
           /\ (field.optional /\ v # None) =>
                 /\ Len(FieldBytes(field, v)) = 1 + field.size
                 /\ FieldBytes(field, v)[1] = 1
                 /\ \A p \in 1 .. field.size : FieldBytes(field, v)[1 + p] = v
<1> DEFINE n == field.size
<1>1. n \in Nat \ {0} /\ field.optional \in BOOLEAN /\ field.values \subseteq Byte
  BY DEF Field
<1> HIDE DEF n
<1>2. 0 \in Byte /\ 1 \in Byte
  BY DEF Byte
<1>3. v \in Byte => /\ Repeat(v, n) \in Seq(Byte)
                    /\ Len(Repeat(v, n)) = n
                    /\ \A p \in 1 .. n : Repeat(v, n)[p] = v
  BY <1>1 DEF Repeat
<1>4. CASE ~field.optional
  <2>1. FieldBytes(field, v) = Repeat(v, n) /\ v \in Byte
    BY <1>4 DEF FieldBytes, Holds, n
  <2> QED
    BY <1>3, <1>4, <2>1 DEF n
<1>5. CASE field.optional /\ v = None
  <2>1. FieldBytes(field, v) = <<0>>
    BY <1>5 DEF FieldBytes
  <2> QED
    BY <1>2, <1>5, <2>1
<1>6. CASE field.optional /\ v # None
  <2>1. FieldBytes(field, v) = <<1>> \o Repeat(v, n) /\ v \in Byte
    BY <1>1, <1>6 DEF FieldBytes, Holds, n
  <2> DEFINE r == Repeat(v, n)
  <2>2. r \in Seq(Byte) /\ Len(r) = n /\ \A p \in 1 .. n : r[p] = v
    BY <1>3, <2>1
  <2> HIDE DEF r
  <2>3. <<1>> \in Seq(Byte) /\ Len(<<1>>) = 1
    BY <1>2
  <2>4. /\ <<1>> \o r \in Seq(Byte)
        /\ Len(<<1>> \o r) = 1 + n
        /\ (<<1>> \o r)[1] = 1
        /\ \A p \in 1 .. n : (<<1>> \o r)[1 + p] = r[p]
    BY <1>1, <2>2, <2>3
  <2> QED
    BY <1>6, <2>1, <2>2, <2>4 DEF n, r
<1> QED
  BY <1>1, <1>4, <1>5, <1>6

\* A byte of the data, by its offset.
LEMMA ByteReads ==
    ASSUME NEW buf \in Seq(Int), NEW o \in Nat, o + 1 <= Len(buf)
    PROVE  ByteAt(buf, o) = buf[o + 1]
  BY DEF ByteAt

\* A value that is there is read.
LEMMA ValueReads ==
    ASSUME NEW buf \in Seq(Int), NEW o \in Nat, NEW n \in Nat \ {0}, NEW v,
           o + n <= Len(buf), \A p \in 1 .. n : buf[o + p] = v
    PROVE  ValueAt(buf, o, n) = v
<1>1. Len(buf) \in Nat
  OBVIOUS
<1>2. ASSUME NEW i \in 0 .. n - 1
      PROVE  ByteAt(buf, o + i) = v
  <2>1. o + i \in Nat /\ (o + i) + 1 <= Len(buf) /\ (o + i) + 1 = o + (i + 1)
    BY <1>1
  <2>2. i + 1 \in 1 .. n
    OBVIOUS
  <2> QED
    BY <2>1, <2>2, ByteReads
<1>3. ByteAt(buf, o) = v
  <2>1. 0 \in 0 .. n - 1 /\ o + 0 = o
    OBVIOUS
  <2> QED
    BY <1>2, <2>1
<1>4. \A i \in 1 .. n - 1 : ByteAt(buf, o + i) = v
  <2>1. \A i \in 1 .. n - 1 : i \in 0 .. n - 1
    OBVIOUS
  <2> QED
    BY <1>2, <2>1
<1> QED
  BY <1>3, <1>4 DEF ValueAt

\* A field whose bytes are there is read, and no other bytes are.
LEMMA FieldReads ==
    ASSUME NEW field \in Field, NEW v, Holds(field, v), NEW buf \in Seq(Int), NEW pos \in Nat,
           At(FieldBytes(field, v), buf, pos)
    PROVE  /\ Span(field, buf, pos) = Len(FieldBytes(field, v))
           /\ FieldAt(field, buf, pos) = v
           /\ field.optional => ByteAt(buf, pos) \in {0, 1}
<1> DEFINE s == FieldBytes(field, v)
           n == field.size
<1>1. n \in Nat \ {0} /\ field.optional \in BOOLEAN
  BY DEF Field
<1>2. /\ Len(s) \in Nat
      /\ pos + Len(s) <= Len(buf)
      /\ \A p \in 1 .. Len(s) : buf[pos + p] = s[p]
      /\ Len(buf) \in Nat
  BY FieldBytesAre DEF At
<1>3. CASE ~field.optional
  <2>1. Len(s) = n /\ \A p \in 1 .. n : s[p] = v
    BY <1>3, FieldBytesAre
  <2> HIDE DEF s, n
  <2>2. pos + n <= Len(buf) /\ \A p \in 1 .. n : buf[pos + p] = v
    BY <1>2, <2>1
  <2>3. ValueAt(buf, pos, n) = v
    BY <1>1, <2>2, ValueReads
  <2> QED
    BY <1>3, <2>1, <2>3 DEF Span, FieldAt, s, n
<1>4. CASE field.optional /\ v = None
  <2>1. Len(s) = 1 /\ s[1] = 0
    BY <1>4, FieldBytesAre
  <2> HIDE DEF s, n
  <2>2. ByteAt(buf, pos) = 0
    BY <1>2, <2>1, ByteReads
  <2> QED
    BY <1>4, <2>1, <2>2 DEF Span, FieldAt, OptionAt, s
<1>5. CASE field.optional /\ v # None
  <2>1. Len(s) = 1 + n /\ s[1] = 1 /\ \A p \in 1 .. n : s[1 + p] = v
    BY <1>5, FieldBytesAre
  <2> HIDE DEF s, n
  <2>2. ByteAt(buf, pos) = 1
    <3>1. 1 \in 1 .. Len(s) /\ pos + 1 <= Len(buf)
      BY <1>1, <1>2, <2>1
    <3>2. buf[pos + 1] = 1
      BY <1>2, <2>1, <3>1
    <3> QED
      BY <3>1, <3>2, ByteReads
  <2>3. (pos + 1) + n <= Len(buf) /\ pos + 1 \in Nat
    BY <1>1, <1>2, <2>1
  <2>4. ASSUME NEW p \in 1 .. n
        PROVE  buf[(pos + 1) + p] = v
    <3>1. 1 + p \in 1 .. Len(s) /\ pos + (1 + p) = (pos + 1) + p
      BY <1>1, <2>1
    <3> QED
      BY <1>2, <2>1, <3>1
  <2>5. ValueAt(buf, pos + 1, n) = v
    BY <1>1, <2>3, <2>4, ValueReads
  <2> QED
    BY <1>5, <2>1, <2>2, <2>5 DEF Span, FieldAt, OptionAt, s, n
<1> QED
  BY <1>1, <1>3, <1>4, <1>5

-----------------------------------------------------------------------------
(***************************************************************************)
(* Records.                                                                *)
(***************************************************************************)

\* A layout names its fields apart.
IsLayout(layout) == /\ layout \in Seq(Field)
                    /\ Len(layout) # 0
                    /\ \A i, j \in 1 .. Len(layout) : layout[i].name = layout[j].name => i = j

\* The names of its fields.
Names(layout) == {layout[i].name : i \in DOMAIN layout}

\* A record with these fields.
Fits(layout, record) ==
    /\ record = [name \in Names(layout) |-> record[name]]
    /\ \A i \in 1 .. Len(layout) : Holds(layout[i], record[layout[i].name])

\* The bytes of each field.
Parts(layout, record) == [i \in DOMAIN layout |-> FieldBytes(layout[i], record[layout[i].name])]

\* The record is in the data, its fields at pos.
Carries(layout, record, buf, pos) ==
    /\ Places(pos, Parts(layout, record), Len(layout))
    /\ pos[Len(layout) + 1] <= Len(buf)
    /\ \A i \in 1 .. Len(layout) :
          At(FieldBytes(layout[i], record[layout[i].name]), buf, pos[i])

\* The parts are bytes.
LEMMA PartsAre ==
    ASSUME NEW layout, IsLayout(layout), NEW record, Fits(layout, record)
    PROVE  /\ Len(layout) \in Nat \ {0}
           /\ DOMAIN layout = 1 .. Len(layout)
           /\ \A i \in 1 .. Len(layout) :
                 /\ layout[i] \in Field
                 /\ Parts(layout, record)[i] = FieldBytes(layout[i], record[layout[i].name])
           /\ Parts(layout, record) \in [1 .. Len(layout) -> Seq(Byte)]
<1>1. /\ Len(layout) \in Nat \ {0}
      /\ DOMAIN layout = 1 .. Len(layout)
      /\ \A i \in 1 .. Len(layout) : layout[i] \in Field
  BY DEF IsLayout
<1>2. \A i \in 1 .. Len(layout) : FieldBytes(layout[i], record[layout[i].name]) \in Seq(Byte)
  BY <1>1, FieldBytesAre DEF Fits
<1> QED
  BY <1>1, <1>2 DEF Parts

\* An encoding carries its record, whatever is behind it.
LEMMA EncodeCarries ==
    ASSUME NEW layout, IsLayout(layout), NEW record, Fits(layout, record),
           NEW rest \in Seq(Byte)
    PROVE  /\ Encode(layout, record) \in Seq(Byte)
           /\ \E pos : /\ Carries(layout, record, Encode(layout, record) \o rest, pos)
                       /\ pos[Len(layout) + 1] = Len(Encode(layout, record))
<1> DEFINE n == Len(layout)
           part == Parts(layout, record)
           bytes == Encode(layout, record)
<1>1. n \in Nat \ {0} /\ part \in [1 .. n -> Seq(Byte)]
  BY PartsAre
<1>2. bytes = FlattenSeq(part)
  BY DEF Encode, Parts
<1> HIDE DEF n, part, bytes
<1>3. bytes \in Seq(Byte)
  BY <1>1, <1>2, FlattenParts
<1>4. PICK pos : /\ Places(pos, part, n)
                 /\ pos[n + 1] = Len(bytes)
                 /\ \A i \in 1 .. n : At(part[i], bytes, pos[i])
  BY <1>1, <1>2, FlattenParts
<1>5. bytes \in Seq(Int) /\ rest \in Seq(Int) /\ Len(bytes) <= Len(bytes \o rest)
  <2>1. bytes \in Seq(Int) /\ rest \in Seq(Int)
    BY <1>3, BytesAreInts
  <2> QED
    BY <2>1
<1>6. ASSUME NEW i \in 1 .. n
      PROVE  At(FieldBytes(layout[i], record[layout[i].name]), bytes \o rest, pos[i])
  <2>1. part[i] = FieldBytes(layout[i], record[layout[i].name])
    BY PartsAre DEF n, part
  <2>2. part[i] \in Seq(Int)
    BY <1>1, BytesAreInts
  <2>3. pos[i] \in Nat
    <3>1. i \in 1 .. n + 1
      BY <1>1
    <3> QED
      BY <1>4, <3>1 DEF Places
  <2>4. At(part[i], bytes \o rest, pos[i])
    BY <1>4, <1>5, <2>2, <2>3, AtAppended
  <2> QED
    BY <2>1, <2>4
<1>7. Carries(layout, record, bytes \o rest, pos)
  BY <1>4, <1>5, <1>6 DEF Carries, n, part
<1> QED
  BY <1>3, <1>4, <1>7 DEF n, bytes

\* A field of what was decoded.
LEMMA DecodeField ==
    ASSUME NEW layout, IsLayout(layout), NEW buf, NEW i \in 1 .. Len(layout),
           Decode(layout, buf) # None
    PROVE  /\ Decode(layout, buf)[layout[i].name] =
                 FieldAt(layout[i], buf, Offsets(layout, buf)[i])
           /\ layout[i].optional => ByteAt(buf, Offsets(layout, buf)[i]) \in {0, 1}
<1> DEFINE index(name) == CHOOSE j \in DOMAIN layout : layout[j].name = name
<1>1. DOMAIN layout = 1 .. Len(layout)
  BY DEF IsLayout
<1>2. index(layout[i].name) = i
  BY <1>1 DEF IsLayout
<1> HIDE DEF index
<1>3. /\ Decode(layout, buf) = [name \in Names(layout) |->
            FieldAt(layout[index(name)], buf, Offsets(layout, buf)[index(name)])]
      /\ \A j \in DOMAIN layout : layout[j].optional =>
            ByteAt(buf, Offsets(layout, buf)[j]) \in {0, 1}
  BY DEF Decode, index, Names
<1>4. layout[i].name \in Names(layout)
  BY <1>1 DEF Names
<1> QED
  BY <1>1, <1>2, <1>3, <1>4

\* Spans are numbers.
LEMMA SpanNat ==
    ASSUME NEW field \in Field, NEW buf, NEW o
    PROVE  Span(field, buf, o) \in Nat
<1>1. field.size \in Nat
  BY DEF Field
<1> QED
  BY <1>1 DEF Span

\* Where the fields of a layout start.
LEMMA LayoutOffsets ==
    ASSUME NEW layout, IsLayout(layout), NEW buf
    PROVE  Advances(Offsets(layout, buf), layout, buf)
<1>1. Len(layout) \in Nat /\ \A i \in 1 .. Len(layout) : layout[i] \in Field
  BY DEF IsLayout
<1>2. PICK n \in Nat : Len(layout) = n
  BY <1>1
<1>3. Spans(layout, buf, n)
  BY <1>1, <1>2, SpanNat DEF Spans
<1> QED
  BY <1>2, <1>3, OffsetsRecursion

\* The fields of the record are read from the data, at pos.
Reads(layout, record, buf, pos) ==
    /\ record = [name \in Names(layout) |-> record[name]]
    /\ pos[1] = 0
    /\ pos[Len(layout) + 1] <= Len(buf)
    /\ \A i \in 1 .. Len(layout) :
          /\ pos[i + 1] = pos[i] + Span(layout[i], buf, pos[i])
          /\ FieldAt(layout[i], buf, pos[i]) = record[layout[i].name]
          /\ layout[i].optional =>
                /\ ByteAt(buf, pos[i]) \in {0, 1}
                /\ record[layout[i].name] \in layout[i].values \union {None, -1}

\* A record whose fields are read is the one that is decoded.
LEMMA DecodeReads ==
    ASSUME NEW layout, IsLayout(layout), NEW record, NEW buf, NEW pos,
           Reads(layout, record, buf, pos)
    PROVE  Decode(layout, buf) = record
<1> DEFINE n == Len(layout)
           start == Offsets(layout, buf)
           value(i) == record[layout[i].name]
<1>1. n \in Nat \ {0} /\ DOMAIN layout = 1 .. n
  BY DEF IsLayout
<1>2. /\ start[1] = 0
      /\ \A i \in 1 .. n : start[i + 1] = start[i] + Span(layout[i], buf, start[i])
  <2>1. Advances(start, layout, buf)
    BY LayoutOffsets
  <2> HIDE DEF start
  <2> QED
    BY <2>1 DEF Advances
<1>3. /\ pos[1] = 0
      /\ pos[n + 1] <= Len(buf)
      /\ \A i \in 1 .. n : pos[i + 1] = pos[i] + Span(layout[i], buf, pos[i])
  BY DEF Reads
<1>4. ASSUME NEW i \in 1 .. n
      PROVE  /\ FieldAt(layout[i], buf, pos[i]) = value(i)
             /\ layout[i].optional => /\ ByteAt(buf, pos[i]) \in {0, 1}
                                      /\ value(i) \in layout[i].values \union {None, -1}
  BY DEF Reads
<1> HIDE DEF start, n, value
<1> DEFINE Bad == {i \in 1 .. n + 1 : start[i] # pos[i]}
<1>5. ASSUME Bad # {} PROVE FALSE
  <2>1. PICK m \in Nat : m = n + 1
    BY <1>1
  <2>2. PICK i \in Bad : i \in 1 .. m /\ (i # 1 => i \in 2 .. m /\ i - 1 \in (1 .. m) \ Bad)
    <3>1. Bad \subseteq 1 .. m
      BY <2>1
    <3> HIDE DEF Bad
    <3> QED
      BY <1>5, <2>1, <3>1, First
  <2>3. start[i] # pos[i]
    BY <2>2
  <2>4. CASE i = 1
    BY <1>2, <1>3, <2>3, <2>4
  <2>5. CASE i # 1
    <3>1. PICK j \in 1 .. n : i = j + 1
      <4>1. i - 1 \in 1 .. n /\ i = (i - 1) + 1
        BY <1>1, <2>1, <2>2, <2>5
      <4> QED
        BY <4>1
    <3>2. start[j] = pos[j]
      BY <1>1, <2>1, <2>2, <2>5, <3>1
    <3> QED
      BY <1>2, <1>3, <2>3, <3>1, <3>2
  <2> QED
    BY <2>4, <2>5
<1>6. \A i \in 1 .. n + 1 : start[i] = pos[i]
  BY <1>5
<1>7. \A i \in 1 .. n : i \in 1 .. n + 1 /\ start[i] = pos[i]
  BY <1>1, <1>6
<1>8. start[n + 1] <= Len(buf)
  <2>1. n + 1 \in 1 .. n + 1
    BY <1>1
  <2> QED
    BY <1>3, <1>6, <2>1
<1>9. \A i \in 1 .. n : layout[i].optional =>
         /\ ByteAt(buf, start[i]) \in {0, 1}
         /\ FieldAt(layout[i], buf, start[i]) \in layout[i].values \union {None, -1}
  BY <1>4, <1>7
<1> DEFINE index(name) == CHOOSE j \in DOMAIN layout : layout[j].name = name
<1>10. Decode(layout, buf) =
         [name \in Names(layout) |-> FieldAt(layout[index(name)], buf, start[index(name)])]
  BY <1>1, <1>8, <1>9 DEF Decode, Names, start, n
<1>11. ASSUME NEW name \in Names(layout)
       PROVE  FieldAt(layout[index(name)], buf, start[index(name)]) = record[name]
  <2>1. \E j \in DOMAIN layout : layout[j].name = name
    BY DEF Names
  <2>2. index(name) \in 1 .. n /\ layout[index(name)].name = name
    BY <1>1, <2>1
  <2> HIDE DEF index
  <2> QED
    BY <1>4, <1>7, <2>2 DEF value
<1> HIDE DEF index
<1> QED
  BY <1>10, <1>11 DEF Reads

\* Each field of a record that the data carries is read.
LEMMA CarriedReads ==
    ASSUME NEW layout, IsLayout(layout), NEW record, Fits(layout, record),
           NEW buf \in Seq(Int), NEW here \in Nat, NEW i \in 1 .. Len(layout),
           At(FieldBytes(layout[i], record[layout[i].name]), buf, here)
    PROVE  /\ Span(layout[i], buf, here) = Len(FieldBytes(layout[i], record[layout[i].name]))
           /\ FieldAt(layout[i], buf, here) = record[layout[i].name]
           /\ layout[i].optional =>
                 /\ ByteAt(buf, here) \in {0, 1}
                 /\ record[layout[i].name] \in layout[i].values \union {None, -1}
<1> DEFINE field == layout[i]
           v == record[layout[i].name]
<1>1. field \in Field /\ Holds(field, v)
  BY PartsAre DEF Fits
<1> HIDE DEF field, v
<1>2. At(FieldBytes(field, v), buf, here)
  BY DEF field, v
<1>3. /\ Span(field, buf, here) = Len(FieldBytes(field, v))
      /\ FieldAt(field, buf, here) = v
      /\ field.optional => ByteAt(buf, here) \in {0, 1}
  BY <1>1, <1>2, FieldReads
<1>4. field.optional => v \in field.values \union {None, -1}
  BY <1>1 DEF Holds
<1> QED
  BY <1>3, <1>4 DEF field, v

\* Data that carries a record decodes to it.
LEMMA DecodeCarried ==
    ASSUME NEW layout, IsLayout(layout), NEW record, Fits(layout, record),
           NEW buf \in Seq(Int), NEW pos, Carries(layout, record, buf, pos)
    PROVE  Decode(layout, buf) = record
<1> DEFINE n == Len(layout)
           bytes(i) == FieldBytes(layout[i], record[layout[i].name])
<1>1. n \in Nat \ {0}
  BY PartsAre
<1>2. /\ pos[1] = 0
      /\ pos[n + 1] <= Len(buf)
      /\ \A i \in 1 .. n + 1 : pos[i] \in Nat
      /\ \A i \in 1 .. n : pos[i + 1] = pos[i] + Len(bytes(i)) /\ At(bytes(i), buf, pos[i])
  BY PartsAre DEF Carries, Places
<1>3. ASSUME NEW i \in 1 .. n
      PROVE  /\ pos[i + 1] = pos[i] + Span(layout[i], buf, pos[i])
             /\ FieldAt(layout[i], buf, pos[i]) = record[layout[i].name]
             /\ layout[i].optional =>
                   /\ ByteAt(buf, pos[i]) \in {0, 1}
                   /\ record[layout[i].name] \in layout[i].values \union {None, -1}
  <2>1. pos[i] \in Nat
    <3>1. i \in 1 .. n + 1
      BY <1>1
    <3> QED
      BY <1>2, <3>1
  <2> QED
    BY <1>2, <2>1, CarriedReads
<1>4. record = [name \in Names(layout) |-> record[name]]
  BY DEF Fits
<1>5. Reads(layout, record, buf, pos)
  BY <1>2, <1>3, <1>4 DEF Reads
<1> QED
  BY <1>5, DecodeReads

-----------------------------------------------------------------------------
(***************************************************************************)
(* The voter weight record and the max voter weight record.                *)
(***************************************************************************)

\* The voter weight records.
VoterFields == [account_discriminator : Byte,
                realm : Byte,
                governing_token_mint : Byte,
                governing_token_owner : Byte,
                voter_weight : Byte,
                voter_weight_expiry : Byte \union {None},
                weight_action : 0 .. 4 \union {None},
                weight_action_target : Byte \union {None},
                reserved : Byte]

\* A plain field is a field.
LEMMA PlainIs ==
    ASSUME NEW name \in FieldName, NEW size \in Nat \ {0}
    PROVE  Plain(name, size) \in Field
<1>1. Byte \in SUBSET Byte
  OBVIOUS
<1> QED
  BY <1>1 DEF Plain, Field

\* So is an optional one.
LEMMA OptionalIs ==
    ASSUME NEW name \in FieldName, NEW size \in Nat \ {0}, NEW values \in SUBSET Byte
    PROVE  Optional(name, size, values) \in Field
  BY DEF Optional, Field

\* The fields of the voter weight record.
LEMMA VoterLayoutIs ==
    /\ Len(VoterLayout) = 9
    /\ VoterLayout[1] = Plain("account_discriminator", 8)
    /\ VoterLayout[2] = Plain("realm", 32)
    /\ VoterLayout[3] = Plain("governing_token_mint", 32)
    /\ VoterLayout[4] = Plain("governing_token_owner", 32)
    /\ VoterLayout[5] = Plain("voter_weight", 8)
    /\ VoterLayout[6] = Optional("voter_weight_expiry", 8, Byte)
    /\ VoterLayout[7] = Optional("weight_action", 1, 0 .. 4)
    /\ VoterLayout[8] = Optional("weight_action_target", 32, Byte)
    /\ VoterLayout[9] = Plain("reserved", 8)
  BY DEF VoterLayout

\* The fields of the max voter weight record.
LEMMA MaxLayoutIs ==
    /\ Len(MaxLayout) = 6
    /\ MaxLayout[1] = Plain("account_discriminator", 8)
    /\ MaxLayout[2] = Plain("realm", 32)
    /\ MaxLayout[3] = Plain("governing_token_mint", 32)
    /\ MaxLayout[4] = Plain("max_voter_weight", 8)
    /\ MaxLayout[5] = Optional("max_voter_weight_expiry", 8, Byte)
    /\ MaxLayout[6] = Plain("reserved", 8)
  BY DEF MaxLayout

\* The voter weight record's layout names its fields apart.
LEMMA VoterIsLayout == IsLayout(VoterLayout)
<1>1. DOMAIN VoterLayout = 1 .. 9 /\ VoterLayout = [i \in 1 .. 9 |-> VoterLayout[i]]
  BY DEF VoterLayout
<1>2. (0 .. 4) \in SUBSET Byte /\ Byte \in SUBSET Byte
  BY DEF Byte
<1>3. 1 \in Nat \ {0} /\ 8 \in Nat \ {0} /\ 32 \in Nat \ {0}
  OBVIOUS
<1>4. \A i \in 1 .. 9 : VoterLayout[i] \in Field
  <2>1. /\ VoterLayout[1] \in Field /\ VoterLayout[2] \in Field /\ VoterLayout[3] \in Field
        /\ VoterLayout[4] \in Field /\ VoterLayout[5] \in Field /\ VoterLayout[9] \in Field
    BY <1>3, VoterLayoutIs, PlainIs DEF FieldName
  <2>2. VoterLayout[6] \in Field /\ VoterLayout[7] \in Field /\ VoterLayout[8] \in Field
    BY <1>2, <1>3, VoterLayoutIs, OptionalIs DEF FieldName
  <2> QED
    BY <2>1, <2>2
<1>5. /\ VoterLayout[1].name = "account_discriminator"
      /\ VoterLayout[2].name = "realm"
      /\ VoterLayout[3].name = "governing_token_mint"
      /\ VoterLayout[4].name = "governing_token_owner"
      /\ VoterLayout[5].name = "voter_weight"
      /\ VoterLayout[6].name = "voter_weight_expiry"
      /\ VoterLayout[7].name = "weight_action"
      /\ VoterLayout[8].name = "weight_action_target"
      /\ VoterLayout[9].name = "reserved"
  BY VoterLayoutIs DEF Plain, Optional
<1>6. \A i, j \in 1 .. 9 : VoterLayout[i].name = VoterLayout[j].name => i = j
  BY <1>5
<1>7. VoterLayout \in Seq(Field)
  BY <1>1, <1>4
<1> QED
  BY <1>6, <1>7, VoterLayoutIs DEF IsLayout

\* The max voter weight record's layout names its fields apart.
LEMMA MaxIsLayout == IsLayout(MaxLayout)
<1>1. DOMAIN MaxLayout = 1 .. 6 /\ MaxLayout = [i \in 1 .. 6 |-> MaxLayout[i]]
  BY DEF MaxLayout
<1>2. Byte \in SUBSET Byte
  OBVIOUS
<1>3. 8 \in Nat \ {0} /\ 32 \in Nat \ {0}
  OBVIOUS
<1>4. \A i \in 1 .. 6 : MaxLayout[i] \in Field
  <2>1. /\ MaxLayout[1] \in Field /\ MaxLayout[2] \in Field /\ MaxLayout[3] \in Field
        /\ MaxLayout[4] \in Field /\ MaxLayout[6] \in Field
    BY <1>3, MaxLayoutIs, PlainIs DEF FieldName
  <2>2. MaxLayout[5] \in Field
    BY <1>2, <1>3, MaxLayoutIs, OptionalIs DEF FieldName
  <2> QED
    BY <2>1, <2>2
<1>5. /\ MaxLayout[1].name = "account_discriminator"
      /\ MaxLayout[2].name = "realm"
      /\ MaxLayout[3].name = "governing_token_mint"
      /\ MaxLayout[4].name = "max_voter_weight"
      /\ MaxLayout[5].name = "max_voter_weight_expiry"
      /\ MaxLayout[6].name = "reserved"
  BY MaxLayoutIs DEF Plain, Optional
<1>6. \A i, j \in 1 .. 6 : MaxLayout[i].name = MaxLayout[j].name => i = j
  BY <1>5
<1>7. MaxLayout \in Seq(Field)
  BY <1>1, <1>4
<1> QED
  BY <1>6, <1>7, MaxLayoutIs DEF IsLayout

\* A voter weight record fits its layout.
LEMMA VoterFits ==
    ASSUME NEW record \in VoterFields
    PROVE  Fits(VoterLayout, record)
<1>1. Names(VoterLayout) = DOMAIN record
  <2>1. DOMAIN VoterLayout = 1 .. 9
    BY DEF VoterLayout
  <2>2. Names(VoterLayout) =
          {"account_discriminator", "realm", "governing_token_mint",
           "governing_token_owner", "voter_weight", "voter_weight_expiry",
           "weight_action", "weight_action_target", "reserved"}
    BY <2>1, VoterLayoutIs DEF Names, Plain, Optional
  <2> QED
    BY <2>2 DEF VoterFields
<1>2. record = [name \in DOMAIN record |-> record[name]]
  BY DEF VoterFields
<1>3. ASSUME NEW i \in 1 .. 9
      PROVE  Holds(VoterLayout[i], record[VoterLayout[i].name])
  BY VoterLayoutIs DEF Holds, Plain, Optional, VoterFields
<1> QED
  BY <1>1, <1>2, <1>3, VoterLayoutIs DEF Fits

\* A max voter weight record fits its layout.
LEMMA MaxFits ==
    ASSUME NEW record \in MaxFields
    PROVE  Fits(MaxLayout, record)
<1>1. Names(MaxLayout) = DOMAIN record
  <2>1. DOMAIN MaxLayout = 1 .. 6
    BY DEF MaxLayout
  <2>2. Names(MaxLayout) =
          {"account_discriminator", "realm", "governing_token_mint",
           "max_voter_weight", "max_voter_weight_expiry", "reserved"}
    BY <2>1, MaxLayoutIs DEF Names, Plain, Optional
  <2> QED
    BY <2>2 DEF MaxFields
<1>2. record = [name \in DOMAIN record |-> record[name]]
  BY DEF MaxFields
<1>3. ASSUME NEW i \in 1 .. 6
      PROVE  Holds(MaxLayout[i], record[MaxLayout[i].name])
  BY MaxLayoutIs DEF Holds, Plain, Optional, MaxFields
<1> QED
  BY <1>1, <1>2, <1>3, MaxLayoutIs DEF Fits

-----------------------------------------------------------------------------
(***************************************************************************)
(* Where the fields lie.                                                   *)
(***************************************************************************)

\* A field of n bytes, and an optional one, with the value v, from `here` to `next`.
PlainIn(buf, here, next, n, v) ==
    /\ next = here + n
    /\ ValueAt(buf, here, n) = v
    /\ \A p \in 0 .. n - 1 : ByteAt(buf, here + p) = v

OptionIn(buf, here, next, n, v) ==
    /\ next = here + (IF v = None THEN 1 ELSE 1 + n)
    /\ OptionAt(buf, here, n) = v
    /\ ByteAt(buf, here) \in {0, 1}

\* In data that carries a record a field is read as its value, and the next field
\* comes right behind it.
LEMMA CarriedField ==
    ASSUME NEW layout, IsLayout(layout), NEW record, Fits(layout, record),
           NEW buf \in Seq(Int), NEW pos, Carries(layout, record, buf, pos),
           NEW i \in 1 .. Len(layout)
    PROVE  /\ pos[1] = 0 /\ pos[i] \in Nat
           /\ ~layout[i].optional =>
                 PlainIn(buf, pos[i], pos[i + 1], layout[i].size, record[layout[i].name])
           /\ layout[i].optional =>
                 OptionIn(buf, pos[i], pos[i + 1], layout[i].size, record[layout[i].name])
<1> DEFINE field == layout[i]
           v == record[layout[i].name]
           s == FieldBytes(field, v)
<1>1. field \in Field /\ Holds(field, v) /\ Parts(layout, record)[i] = s /\ Len(layout) \in Nat
  BY PartsAre DEF Fits
<1>2. i \in 1 .. Len(layout) + 1
  BY <1>1
<1>3. pos[1] = 0 /\ pos[i] \in Nat /\ pos[i + 1] = pos[i] + Len(s) /\ At(s, buf, pos[i])
  BY <1>1, <1>2 DEF Carries, Places
<1>4. field.size \in Nat \ {0} /\ field.optional \in BOOLEAN
  BY <1>1 DEF Field
<1> HIDE DEF field, v
<1>5. Len(s) = IF ~field.optional THEN field.size ELSE IF v = None THEN 1 ELSE 1 + field.size
  BY <1>1, <1>4, FieldBytesAre
<1>6. /\ FieldAt(field, buf, pos[i]) = v
      /\ field.optional => ByteAt(buf, pos[i]) \in {0, 1}
  BY <1>1, <1>3, FieldReads
<1>7. ASSUME ~field.optional, NEW p \in 0 .. field.size - 1
      PROVE  ByteAt(buf, pos[i] + p) = v
  <2> DEFINE n == field.size
             here == pos[i]
  <2>1. Len(s) = n /\ \A q \in 1 .. n : s[q] = v
    BY <1>1, <1>7, FieldBytesAre
  <2>2. here + Len(s) <= Len(buf) /\ \A q \in 1 .. Len(s) : buf[here + q] = s[q]
    BY <1>3 DEF At
  <2>3. n \in Nat \ {0} /\ here \in Nat /\ Len(buf) \in Nat /\ p \in 0 .. n - 1
    BY <1>3, <1>4, <1>7
  <2> HIDE DEF s, n, here
  <2>4. /\ p + 1 \in 1 .. n
        /\ here + p \in Nat
        /\ (here + p) + 1 = here + (p + 1)
        /\ (here + p) + 1 <= Len(buf)
    BY <2>1, <2>2, <2>3
  <2>5. buf[here + (p + 1)] = v
    BY <2>1, <2>2, <2>4
  <2>6. ByteAt(buf, here + p) = v
    BY <2>4, <2>5, ByteReads
  <2> QED
    BY <2>6 DEF here
<1> HIDE DEF s
<1>8. ~field.optional => PlainIn(buf, pos[i], pos[i + 1], field.size, v)
  BY <1>3, <1>5, <1>6, <1>7 DEF PlainIn, FieldAt
<1>9. field.optional => OptionIn(buf, pos[i], pos[i + 1], field.size, v)
  BY <1>3, <1>5, <1>6 DEF OptionIn, FieldAt
<1> QED
  BY <1>3, <1>8, <1>9 DEF field, v

\* The discriminator, the realm and the mint are the first 72 bytes of either record.
HasFront(buf, record) ==
    /\ \A p \in 0 .. 7 : ByteAt(buf, p) = record.account_discriminator
    /\ \A p \in 0 .. 31 : ByteAt(buf, 8 + p) = record.realm
    /\ \A p \in 0 .. 31 : ByteAt(buf, 40 + p) = record.governing_token_mint

\* Three fields one behind the other are that front.
LEMMA FrontIs ==
    ASSUME NEW record, NEW buf \in Seq(Int), NEW pos, pos[1] = 0,
           PlainIn(buf, pos[1], pos[2], 8, record.account_discriminator),
           PlainIn(buf, pos[2], pos[3], 32, record.realm),
           PlainIn(buf, pos[3], pos[4], 32, record.governing_token_mint)
    PROVE  HasFront(buf, record) /\ pos[2] = 8 /\ pos[3] = 40 /\ pos[4] = 72
<1>1. pos[2] = 8 /\ pos[3] = 40 /\ pos[4] = 72
  BY DEF PlainIn
<1>2. /\ \A p \in 0 .. 7 : ByteAt(buf, 0 + p) = record.account_discriminator
      /\ \A p \in 0 .. 31 : ByteAt(buf, 8 + p) = record.realm
      /\ \A p \in 0 .. 31 : ByteAt(buf, 40 + p) = record.governing_token_mint
  BY <1>1 DEF PlainIn
<1>3. \A p \in 0 .. 7 : 0 + p = p
  OBVIOUS
<1> QED
  BY <1>1, <1>2, <1>3 DEF HasFront

\* So the fields are read from it.
LEMMA FrontValues ==
    ASSUME NEW record, NEW buf, HasFront(buf, record)
    PROVE  /\ ValueAt(buf, 0, 8) = record.account_discriminator
           /\ ValueAt(buf, 8, 32) = record.realm
           /\ ValueAt(buf, 40, 32) = record.governing_token_mint
<1>1. ValueAt(buf, 0, 8) = record.account_discriminator
  <2>1. \A i \in 0 .. 7 : ByteAt(buf, i) = record.account_discriminator
    BY DEF HasFront
  <2>2. 0 \in 0 .. 7 /\ \A i \in 1 .. 8 - 1 : i \in 0 .. 7 /\ 0 + i = i
    OBVIOUS
  <2> QED
    BY <2>1, <2>2 DEF ValueAt
<1>2. ASSUME NEW o \in Nat, NEW v, \A i \in 0 .. 31 : ByteAt(buf, o + i) = v
      PROVE  ValueAt(buf, o, 32) = v
  <2>1. 0 \in 0 .. 31 /\ o + 0 = o /\ \A i \in 1 .. 32 - 1 : i \in 0 .. 31
    OBVIOUS
  <2>2. ByteAt(buf, o) = v
    BY <1>2, <2>1
  <2> QED
    BY <1>2, <2>1, <2>2 DEF ValueAt
<1>3. /\ \A i \in 0 .. 31 : ByteAt(buf, 8 + i) = record.realm
      /\ \A i \in 0 .. 31 : ByteAt(buf, 40 + i) = record.governing_token_mint
  BY DEF HasFront
<1>4. ValueAt(buf, 8, 32) = record.realm /\ ValueAt(buf, 40, 32) = record.governing_token_mint
  BY <1>2, <1>3
<1> QED
  BY <1>1, <1>4

\* Data with the same front is the same for 72 bytes.
LEMMA FrontAgrees ==
    ASSUME NEW a, NEW b, NEW r, NEW s, HasFront(a, r), HasFront(b, s),
           r.account_discriminator = s.account_discriminator, r.realm = s.realm,
           r.governing_token_mint = s.governing_token_mint
    PROVE  \A p \in 0 .. 71 : ByteAt(a, p) = ByteAt(b, p)
<1> SUFFICES ASSUME NEW p \in 0 .. 71 PROVE ByteAt(a, p) = ByteAt(b, p)
  OBVIOUS
<1>1. CASE p \in 0 .. 7
  BY <1>1 DEF HasFront
<1>2. CASE p \in 8 .. 39
  <2>1. p - 8 \in 0 .. 31 /\ p = 8 + (p - 8)
    BY <1>2
  <2> QED
    BY <2>1 DEF HasFront
<1>3. CASE p \in 40 .. 71
  <2>1. p - 40 \in 0 .. 31 /\ p = 40 + (p - 40)
    BY <1>3
  <2> QED
    BY <2>1 DEF HasFront
<1> QED
  BY <1>1, <1>2, <1>3

\* The fields of a voter weight record: all offsets up to the expiry's are fixed, and
\* the space is enough whatever the options hold.
LEMMA VoterPlaces ==
    ASSUME NEW record \in VoterFields, NEW buf \in Seq(Int), NEW pos,
           Carries(VoterLayout, record, buf, pos)
    PROVE  /\ \A p \in 0 .. 31 : ByteAt(buf, 72 + p) = record.governing_token_owner
           /\ ValueAt(buf, 8, 32) = record.realm
           /\ ValueAt(buf, 72, 32) = record.governing_token_owner
           /\ ValueAt(buf, 104, 8) = record.voter_weight
           /\ OptionAt(buf, 112, 8) = record.voter_weight_expiry
           /\ record.voter_weight_expiry # None =>
                 /\ OptionAt(buf, 121, 1) = record.weight_action
                 /\ OptionAt(buf, IF record.weight_action = None THEN 122 ELSE 123, 32)
                      = record.weight_action_target
           /\ pos[10] <= VoterSpace
           /\ HasFront(buf, record)
           /\ pos[1] = 0 /\ pos[2] = 8 /\ pos[3] = 40 /\ pos[4] = 72
           /\ \A i \in 5 .. 9 : pos[i] >= 104
           /\ pos[5] = 104
<1>1. pos[1] = 0
  BY DEF Carries, Places
<1>2. ASSUME NEW i \in 1 .. 9
      PROVE  /\ ~VoterLayout[i].optional =>
                   PlainIn(buf, pos[i], pos[i + 1], VoterLayout[i].size,
                           record[VoterLayout[i].name])
             /\ VoterLayout[i].optional =>
                   OptionIn(buf, pos[i], pos[i + 1], VoterLayout[i].size,
                            record[VoterLayout[i].name])
  BY VoterIsLayout, VoterFits, VoterLayoutIs, CarriedField
<1>3. PlainIn(buf, pos[1], pos[2], 8, record.account_discriminator)
  BY <1>2, VoterLayoutIs DEF Plain
<1>4. PlainIn(buf, pos[2], pos[3], 32, record.realm)
  BY <1>2, VoterLayoutIs DEF Plain
<1>5. PlainIn(buf, pos[3], pos[4], 32, record.governing_token_mint)
  BY <1>2, VoterLayoutIs DEF Plain
<1>6. PlainIn(buf, pos[4], pos[5], 32, record.governing_token_owner)
  BY <1>2, VoterLayoutIs DEF Plain
<1>7. PlainIn(buf, pos[5], pos[6], 8, record.voter_weight)
  BY <1>2, VoterLayoutIs DEF Plain
<1>8. OptionIn(buf, pos[6], pos[7], 8, record.voter_weight_expiry)
  BY <1>2, VoterLayoutIs DEF Optional
<1>9. OptionIn(buf, pos[7], pos[8], 1, record.weight_action)
  BY <1>2, VoterLayoutIs DEF Optional
<1>10. OptionIn(buf, pos[8], pos[9], 32, record.weight_action_target)
  BY <1>2, VoterLayoutIs DEF Optional
<1>11. PlainIn(buf, pos[9], pos[10], 8, record.reserved)
  BY <1>2, VoterLayoutIs DEF Plain
<1>12. pos[2] = 8 /\ pos[3] = 40 /\ pos[4] = 72 /\ pos[5] = 104 /\ pos[6] = 112
  BY <1>1, <1>3, <1>4, <1>5, <1>6, <1>7 DEF PlainIn
<1>13. pos[7] = IF record.voter_weight_expiry = None THEN 113 ELSE 121
  BY <1>8, <1>12 DEF OptionIn
<1>14. pos[10] <= VoterSpace
  <2>1. pos[8] = pos[7] + 1 \/ pos[8] = pos[7] + 2
    BY <1>9 DEF OptionIn
  <2>2. pos[9] = pos[8] + 1 \/ pos[9] = pos[8] + 33
    BY <1>10 DEF OptionIn
  <2>3. pos[10] = pos[9] + 8
    BY <1>11 DEF PlainIn
  <2> QED
    BY <1>13, <2>1, <2>2, <2>3 DEF VoterSpace
<1>15. /\ ValueAt(buf, 8, 32) = record.realm
       /\ ValueAt(buf, 72, 32) = record.governing_token_owner
       /\ ValueAt(buf, 104, 8) = record.voter_weight
       /\ OptionAt(buf, 112, 8) = record.voter_weight_expiry
       /\ \A p \in 0 .. 31 : ByteAt(buf, 72 + p) = record.governing_token_owner
  BY <1>4, <1>6, <1>7, <1>8, <1>12 DEF PlainIn, OptionIn
<1>16. ASSUME record.voter_weight_expiry # None
       PROVE  /\ OptionAt(buf, 121, 1) = record.weight_action
              /\ OptionAt(buf, IF record.weight_action = None THEN 122 ELSE 123, 32)
                   = record.weight_action_target
  <2>1. pos[7] = 121 /\ pos[8] = IF record.weight_action = None THEN 122 ELSE 123
    BY <1>9, <1>13, <1>16 DEF OptionIn
  <2> QED
    BY <1>9, <1>10, <2>1 DEF OptionIn
<1>17. HasFront(buf, record)
  BY <1>1, <1>3, <1>4, <1>5, FrontIs
<1>18. \A i \in 5 .. 9 : pos[i] >= 104
  <2>1. pos[7] = 113 \/ pos[7] = 121
    BY <1>13
  <2>2. pos[8] = pos[7] + 1 \/ pos[8] = pos[7] + 2
    BY <1>9 DEF OptionIn
  <2>3. pos[9] = pos[8] + 1 \/ pos[9] = pos[8] + 33
    BY <1>10 DEF OptionIn
  <2>4. pos[5] >= 104 /\ pos[6] >= 104
    BY <1>12
  <2>5. pos[7] \in Nat /\ pos[7] >= 104
    BY <2>1
  <2>6. pos[8] \in Nat /\ pos[8] >= 104
    BY <2>2, <2>5
  <2>7. pos[9] >= 104
    BY <2>3, <2>6
  <2> QED
    BY <2>4, <2>5, <2>6, <2>7
<1> QED
  BY <1>1, <1>12, <1>14, <1>15, <1>16, <1>17, <1>18

\* The fields of a max voter weight record.
LEMMA MaxPlaces ==
    ASSUME NEW record \in MaxFields, NEW buf \in Seq(Int), NEW pos,
           Carries(MaxLayout, record, buf, pos)
    PROVE  /\ ByteAt(buf, 80) \in {0, 1}
           /\ ValueAt(buf, 72, 8) = record.max_voter_weight
           /\ OptionAt(buf, 80, 8) = record.max_voter_weight_expiry
           /\ pos[7] <= MaxSpace
           /\ HasFront(buf, record)
           /\ ByteAt(buf, 72) = record.max_voter_weight
           /\ record.max_voter_weight_expiry = None =>
                 ByteAt(buf, 80) = 0 /\ pos[7] = 89
<1>1. pos[1] = 0
  BY DEF Carries, Places
<1>2. ASSUME NEW i \in 1 .. 6
      PROVE  /\ ~MaxLayout[i].optional =>
                   PlainIn(buf, pos[i], pos[i + 1], MaxLayout[i].size,
                           record[MaxLayout[i].name])
             /\ MaxLayout[i].optional =>
                   OptionIn(buf, pos[i], pos[i + 1], MaxLayout[i].size,
                            record[MaxLayout[i].name])
  BY MaxIsLayout, MaxFits, MaxLayoutIs, CarriedField
<1>3. PlainIn(buf, pos[1], pos[2], 8, record.account_discriminator)
  BY <1>2, MaxLayoutIs DEF Plain
<1>4. PlainIn(buf, pos[2], pos[3], 32, record.realm)
  BY <1>2, MaxLayoutIs DEF Plain
<1>5. PlainIn(buf, pos[3], pos[4], 32, record.governing_token_mint)
  BY <1>2, MaxLayoutIs DEF Plain
<1>6. PlainIn(buf, pos[4], pos[5], 8, record.max_voter_weight)
  BY <1>2, MaxLayoutIs DEF Plain
<1>7. OptionIn(buf, pos[5], pos[6], 8, record.max_voter_weight_expiry)
  BY <1>2, MaxLayoutIs DEF Optional
<1>8. PlainIn(buf, pos[6], pos[7], 8, record.reserved)
  BY <1>2, MaxLayoutIs DEF Plain
<1>9. pos[2] = 8 /\ pos[3] = 40 /\ pos[4] = 72 /\ pos[5] = 80
  BY <1>1, <1>3, <1>4, <1>5, <1>6 DEF PlainIn
<1>10. pos[7] <= MaxSpace
  <2>1. pos[6] = 81 \/ pos[6] = 89
    BY <1>7, <1>9 DEF OptionIn
  <2>2. pos[7] = pos[6] + 8
    BY <1>8 DEF PlainIn
  <2> QED
    BY <2>1, <2>2 DEF MaxSpace
<1>11. HasFront(buf, record)
  BY <1>1, <1>3, <1>4, <1>5, FrontIs
<1>12. ByteAt(buf, 72 + 0) = record.max_voter_weight
  BY <1>6, <1>9 DEF PlainIn
<1>13. ASSUME record.max_voter_weight_expiry = None
       PROVE  ByteAt(buf, 80) = 0 /\ pos[7] = 89
  <2>1. pos[6] = 81 /\ pos[7] = pos[6] + 8
    BY <1>7, <1>8, <1>9, <1>13 DEF PlainIn, OptionIn
  <2>2. OptionAt(buf, 80, 8) = None /\ ByteAt(buf, 80) \in {0, 1}
    BY <1>7, <1>9, <1>13 DEF OptionIn
  <2>3. ValueAt(buf, 81, 8) # None
    <3>1. ValueAt(buf, 81, 8) = -1 \/ ValueAt(buf, 81, 8) = ByteAt(buf, 81)
      BY DEF ValueAt
    <3>2. ByteAt(buf, 81) \in Int
      <4>1. 81 + 1 <= Len(buf) => 82 \in 1 .. Len(buf)
        OBVIOUS
      <4> QED
        BY <4>1 DEF ByteAt
    <3> QED
      BY <3>1, <3>2, ByteAssumption
  <2>4. ByteAt(buf, 80) # 1
    BY <2>2, <2>3 DEF OptionAt
  <2> QED
    BY <2>1, <2>2, <2>4
<1> QED
  BY <1>6, <1>7, <1>9, <1>10, <1>11, <1>12, <1>13 DEF PlainIn, OptionIn

-----------------------------------------------------------------------------
(***************************************************************************)
(* The records an account holds.                                           *)
(***************************************************************************)

\* A voter weight record of this realm, with an expiry.
VoterHeld(buf, record) ==
    /\ record \in VoterFields
    /\ record.realm = Realm
    /\ record.voter_weight_expiry # None
    /\ Len(buf) = VoterSpace
    /\ \E pos : Carries(VoterLayout, record, buf, pos)

\* The max voter weight record.
MaxHeld(buf, record) ==
    /\ record \in MaxFields
    /\ Len(buf) = MaxSpace
    /\ \E pos : Carries(MaxLayout, record, buf, pos)

\* The data after a save.
Over(bytes, buf) == bytes \o SubSeq(buf, Len(bytes) + 1, Len(buf))

\* What is behind the first n bytes is kept.
KeepsEnd(new, buf, n) == \A p \in n + 1 .. Len(buf) : new[p] = buf[p]

\* The end of the data is kept.
LEMMA OverIs ==
    ASSUME NEW bytes \in Seq(Byte), NEW buf \in Seq(Byte), Len(bytes) <= Len(buf)
    PROVE  /\ SubSeq(buf, Len(bytes) + 1, Len(buf)) \in Seq(Byte)
           /\ Over(bytes, buf) \in Seq(Byte)
           /\ Len(Over(bytes, buf)) = Len(buf)
           /\ \A p \in 1 .. Len(bytes) : Over(bytes, buf)[p] = bytes[p]
           /\ KeepsEnd(Over(bytes, buf), buf, Len(bytes))
<1> DEFINE rest == SubSeq(buf, Len(bytes) + 1, Len(buf))
<1>1. Len(bytes) \in Nat /\ Len(buf) \in Nat
  OBVIOUS
<1>2. rest \in Seq(Byte) /\ Len(rest) = Len(buf) - Len(bytes)
  BY <1>1
<1>3. \A p \in 1 .. Len(rest) : rest[p] = buf[Len(bytes) + p]
  BY <1>1
<1> HIDE DEF rest
<1>4. bytes \o rest \in Seq(Byte) /\ Len(bytes \o rest) = Len(bytes) + Len(rest)
  BY <1>2
<1>5. \A p \in 1 .. Len(bytes) : (bytes \o rest)[p] = bytes[p]
  BY <1>1, <1>2
<1>6. ASSUME NEW p \in Len(bytes) + 1 .. Len(buf)
      PROVE  (bytes \o rest)[p] = buf[p]
  <2>1. p - Len(bytes) \in 1 .. Len(rest) /\ Len(bytes) + (p - Len(bytes)) = p
    BY <1>1, <1>2
  <2>2. (bytes \o rest)[p] = rest[p - Len(bytes)]
    BY <1>1, <1>2, <2>1
  <2> QED
    BY <1>3, <2>1, <2>2
<1> QED
  BY <1>1, <1>2, <1>4, <1>5, <1>6 DEF Over, KeepsEnd, rest

\* A voter weight record always fits the space of its account, and is held after it is saved.
LEMMA VoterSaved ==
    ASSUME NEW record \in VoterFields, NEW buf \in Seq(Byte), Len(buf) = VoterSpace,
           record.realm = Realm, record.voter_weight_expiry # None
    PROVE  /\ ~(Len(VoterBytes(record)) > Len(buf))
           /\ Over(VoterBytes(record), buf) \in Seq(Byte)
           /\ VoterHeld(Over(VoterBytes(record), buf), record)
<1> DEFINE bytes == Encode(VoterLayout, record)
           rest == SubSeq(buf, Len(bytes) + 1, Len(buf))
<1>1. IsLayout(VoterLayout) /\ Fits(VoterLayout, record) /\ <<>> \in Seq(Byte)
  BY VoterIsLayout, VoterFits
<1>2. Len(bytes) <= Len(buf) /\ bytes \in Seq(Byte)
  <2>1. bytes \in Seq(Byte)
    BY <1>1, EncodeCarries
  <2>2. PICK pos : /\ Carries(VoterLayout, record, bytes \o <<>>, pos)
                   /\ pos[Len(VoterLayout) + 1] = Len(bytes)
    BY <1>1, EncodeCarries
  <2>3. bytes \o <<>> \in Seq(Int)
    <3> HIDE DEF bytes
    <3>1. bytes \o <<>> \in Seq(Byte)
      BY <2>1
    <3> QED
      BY <3>1, BytesAreInts
  <2>4. pos[10] <= VoterSpace
    BY <2>2, <2>3, VoterPlaces
  <2>5. Len(VoterLayout) + 1 = 10
    BY VoterLayoutIs
  <2> QED
    BY <2>1, <2>2, <2>4, <2>5
<1> HIDE DEF bytes
<1>3. rest \in Seq(Byte) /\ Over(bytes, buf) \in Seq(Byte) /\ Len(Over(bytes, buf)) = VoterSpace
  BY <1>2, OverIs
<1> HIDE DEF rest
<1>4. \E pos : Carries(VoterLayout, record, bytes \o rest, pos)
  BY <1>1, <1>3, EncodeCarries DEF bytes
<1>5. Over(bytes, buf) = bytes \o rest /\ VoterBytes(record) = bytes
  BY DEF Over, rest, VoterBytes, bytes
<1>6. ~(Len(bytes) > Len(buf))
  <2>1. Len(bytes) \in Nat /\ Len(buf) \in Nat
    BY <1>2
  <2> QED
    BY <1>2, <2>1
<1> QED
  BY <1>3, <1>4, <1>5, <1>6 DEF VoterHeld

\* A max voter weight record fits it and any longer one, and is carried after it is saved.
LEMMA MaxOver ==
    ASSUME NEW record \in MaxFields, NEW buf \in Seq(Byte), MaxSpace <= Len(buf)
    PROVE  /\ MaxBytes(record) \in Seq(Byte)
           /\ Len(MaxBytes(record)) <= Len(buf)
           /\ ~(Len(MaxBytes(record)) > Len(buf))
           /\ record.max_voter_weight_expiry = None => Len(MaxBytes(record)) = 89
           /\ \E pos : Carries(MaxLayout, record, Over(MaxBytes(record), buf), pos)
<1> DEFINE bytes == Encode(MaxLayout, record)
           rest == SubSeq(buf, Len(bytes) + 1, Len(buf))
<1>1. IsLayout(MaxLayout) /\ Fits(MaxLayout, record) /\ <<>> \in Seq(Byte)
  BY MaxIsLayout, MaxFits
<1>2. /\ Len(bytes) <= Len(buf) /\ bytes \in Seq(Byte)
      /\ record.max_voter_weight_expiry = None => Len(bytes) = 89
  <2>1. bytes \in Seq(Byte)
    BY <1>1, EncodeCarries
  <2>2. PICK pos : /\ Carries(MaxLayout, record, bytes \o <<>>, pos)
                   /\ pos[Len(MaxLayout) + 1] = Len(bytes)
    BY <1>1, EncodeCarries
  <2>3. bytes \o <<>> \in Seq(Int)
    <3> HIDE DEF bytes
    <3>1. bytes \o <<>> \in Seq(Byte)
      BY <2>1
    <3> QED
      BY <3>1, BytesAreInts
  <2>4. pos[7] <= MaxSpace /\ (record.max_voter_weight_expiry = None => pos[7] = 89)
    BY <2>2, <2>3, MaxPlaces
  <2>5. Len(MaxLayout) + 1 = 7
    BY MaxLayoutIs
  <2>6. pos[7] = Len(bytes)
    BY <2>2, <2>5
  <2> HIDE DEF bytes
  <2>7. Len(bytes) \in Nat /\ Len(buf) \in Nat /\ MaxSpace \in Nat
    BY <2>1 DEF MaxSpace
  <2> QED
    BY <2>1, <2>4, <2>6, <2>7
<1> HIDE DEF bytes
<1>3. rest \in Seq(Byte)
  BY <1>2, OverIs
<1> HIDE DEF rest
<1>4. \E pos : Carries(MaxLayout, record, bytes \o rest, pos)
  BY <1>1, <1>3, EncodeCarries DEF bytes
<1>5. Over(bytes, buf) = bytes \o rest /\ MaxBytes(record) = bytes
  BY DEF Over, rest, MaxBytes, bytes
<1>6. ~(Len(bytes) > Len(buf))
  <2>1. Len(bytes) \in Nat /\ Len(buf) \in Nat
    BY <1>2
  <2> QED
    BY <1>2, <2>1
<1> QED
  BY <1>2, <1>4, <1>5, <1>6

\* So it is held by its account.
LEMMA MaxSaved ==
    ASSUME NEW record \in MaxFields, NEW buf \in Seq(Byte), Len(buf) = MaxSpace
    PROVE  /\ ~(Len(MaxBytes(record)) > Len(buf))
           /\ Over(MaxBytes(record), buf) \in Seq(Byte)
           /\ MaxHeld(Over(MaxBytes(record), buf), record)
<1>1. MaxSpace <= Len(buf)
  BY DEF MaxSpace
<1>2. /\ MaxBytes(record) \in Seq(Byte)
      /\ Len(MaxBytes(record)) <= Len(buf)
      /\ ~(Len(MaxBytes(record)) > Len(buf))
      /\ \E pos : Carries(MaxLayout, record, Over(MaxBytes(record), buf), pos)
  BY <1>1, MaxOver
<1>3. Over(MaxBytes(record), buf) \in Seq(Byte) /\ Len(Over(MaxBytes(record), buf)) = Len(buf)
  BY <1>2, OverIs
<1> QED
  BY <1>2, <1>3 DEF MaxHeld

\* A new account decodes to the record of zeroes.
ZeroVoter == [account_discriminator |-> 0, realm |-> 0, governing_token_mint |-> 0,
              governing_token_owner |-> 0, voter_weight |-> 0,
              voter_weight_expiry |-> None, weight_action |-> None,
              weight_action_target |-> None, reserved |-> 0]

ZeroMax == [account_discriminator |-> 0, realm |-> 0, governing_token_mint |-> 0,
            max_voter_weight |-> 0, max_voter_weight_expiry |-> None, reserved |-> 0]

\* In zeroes every field is found: 0, or no value.
LEMMA ZeroesCarry ==
    ASSUME NEW m \in Nat, NEW field \in Field, NEW here \in Nat, NEW v,
           IF field.optional THEN v = None /\ here + 1 <= m
                             ELSE v = 0 /\ here + field.size <= m
    PROVE  /\ At(FieldBytes(field, v), Repeat(0, m), here)
           /\ Len(FieldBytes(field, v)) = IF field.optional THEN 1 ELSE field.size
<1> DEFINE s == FieldBytes(field, v)
           buf == Repeat(0, m)
<1>1. Len(buf) = m /\ \A q \in 1 .. m : buf[q] = 0
  BY DEF Repeat
<1>2. field.size \in Nat \ {0} /\ field.optional \in BOOLEAN
  BY DEF Field
<1>3. Holds(field, v)
  BY <1>2 DEF Holds, Byte
<1>4. /\ Len(s) = IF field.optional THEN 1 ELSE field.size
      /\ \A p \in 1 .. Len(s) : s[p] = 0
  BY <1>2, <1>3, FieldBytesAre
<1> HIDE DEF s, buf
<1>5. Len(s) \in Nat /\ here + Len(s) <= m
  BY <1>2, <1>4
<1>6. \A p \in 1 .. Len(s) : buf[here + p] = s[p]
  <2>1. \A p \in 1 .. Len(s) : here + p \in 1 .. m
    BY <1>5
  <2> QED
    BY <1>1, <1>4, <2>1
<1> QED
  BY <1>1, <1>4, <1>5, <1>6 DEF At, s, buf

\* What a new voter weight record account decodes to.
LEMMA ZeroVoterDecoded ==
    /\ Repeat(0, VoterSpace) \in Seq(Byte)
    /\ Len(Repeat(0, VoterSpace)) = VoterSpace
    /\ VoterRecord(Repeat(0, VoterSpace)) = ZeroVoter
    /\ ZeroVoter \in VoterFields
<1> DEFINE buf == Repeat(0, VoterSpace)
           bytes(i) == FieldBytes(VoterLayout[i], ZeroVoter[VoterLayout[i].name])
<1>1. VoterSpace = 164
  BY DEF VoterSpace
<1>2. buf \in Seq(Byte) /\ Len(buf) = 164
  BY <1>1 DEF Repeat, Byte
<1>3. ZeroVoter \in VoterFields
  BY DEF ZeroVoter, VoterFields, Byte
<1>4. IsLayout(VoterLayout) /\ Fits(VoterLayout, ZeroVoter)
  BY <1>3, VoterIsLayout, VoterFits
<1>5. PICK pos : pos = <<0, 8, 40, 72, 104, 112, 113, 114, 115, 123>>
  OBVIOUS
<1>6. pos \in [1 .. 10 -> Nat] /\ pos[1] = 0 /\ pos[10] = 123
  BY <1>5
<1>7. ASSUME NEW i \in 1 .. 9
      PROVE  At(bytes(i), buf, pos[i]) /\ pos[i + 1] = pos[i] + Len(bytes(i))
  <2> DEFINE field == VoterLayout[i]
             v == ZeroVoter[VoterLayout[i].name]
             here == pos[i]
  <2>1. field \in Field /\ here \in Nat
    <3>1. field \in Field
      BY <1>4, PartsAre, VoterLayoutIs
    <3>2. i \in 1 .. 10
      OBVIOUS
    <3> QED
      BY <1>6, <3>1, <3>2
  <2>2. /\ field.optional => v = None /\ here + 1 <= 164 /\ pos[i + 1] = here + 1
        /\ ~field.optional => /\ v = 0
                              /\ here + field.size <= 164
                              /\ pos[i + 1] = here + field.size
    BY <1>5, VoterLayoutIs DEF Plain, Optional, ZeroVoter
  <2> HIDE DEF field, v, here
  <2>3. /\ At(FieldBytes(field, v), Repeat(0, 164), here)
        /\ Len(FieldBytes(field, v)) = IF field.optional THEN 1 ELSE field.size
    BY <2>1, <2>2, ZeroesCarry
  <2> QED
    BY <1>1, <2>2, <2>3 DEF field, v, here
<1>8. ASSUME NEW i \in 1 .. 9
      PROVE  Parts(VoterLayout, ZeroVoter)[i] = bytes(i)
  BY <1>4, PartsAre, VoterLayoutIs
<1>9. Carries(VoterLayout, ZeroVoter, buf, pos)
  <2>1. Len(VoterLayout) = 9
    BY VoterLayoutIs
  <2> DEFINE part == Parts(VoterLayout, ZeroVoter)
  <2>2. Places(pos, part, 9)
    <3>1. \A i \in 1 .. 9 : pos[i + 1] = pos[i] + Len(part[i])
      BY <1>7, <1>8
    <3> HIDE DEF part
    <3> QED
      BY <1>6, <3>1 DEF Places
  <2> HIDE DEF buf
  <2>3. pos[10] <= Len(buf)
    BY <1>2, <1>6
  <2> QED
    BY <1>7, <2>1, <2>2, <2>3 DEF Carries
<1>10. Decode(VoterLayout, buf) = ZeroVoter
  BY <1>2, <1>4, <1>9, BytesAreInts, DecodeCarried
<1> QED
  BY <1>1, <1>2, <1>3, <1>10 DEF VoterRecord

\* What a new max voter weight record account decodes to.
LEMMA ZeroMaxDecoded ==
    /\ Repeat(0, MaxSpace) \in Seq(Byte)
    /\ Len(Repeat(0, MaxSpace)) = MaxSpace
    /\ MaxRecord(Repeat(0, MaxSpace)) = ZeroMax
    /\ ZeroMax \in MaxFields
<1> DEFINE buf == Repeat(0, MaxSpace)
           bytes(i) == FieldBytes(MaxLayout[i], ZeroMax[MaxLayout[i].name])
<1>1. MaxSpace = 97
  BY DEF MaxSpace
<1>2. buf \in Seq(Byte) /\ Len(buf) = 97
  BY <1>1 DEF Repeat, Byte
<1>3. ZeroMax \in MaxFields
  BY DEF ZeroMax, MaxFields, Byte
<1>4. IsLayout(MaxLayout) /\ Fits(MaxLayout, ZeroMax)
  BY <1>3, MaxIsLayout, MaxFits
<1>5. PICK pos : pos = <<0, 8, 40, 72, 80, 81, 89>>
  OBVIOUS
<1>6. pos \in [1 .. 7 -> Nat] /\ pos[1] = 0 /\ pos[7] = 89
  BY <1>5
<1>7. ASSUME NEW i \in 1 .. 6
      PROVE  At(bytes(i), buf, pos[i]) /\ pos[i + 1] = pos[i] + Len(bytes(i))
  <2> DEFINE field == MaxLayout[i]
             v == ZeroMax[MaxLayout[i].name]
             here == pos[i]
  <2>1. field \in Field /\ here \in Nat
    <3>1. field \in Field
      BY <1>4, PartsAre, MaxLayoutIs
    <3>2. i \in 1 .. 7
      OBVIOUS
    <3> QED
      BY <1>6, <3>1, <3>2
  <2>2. /\ field.optional => v = None /\ here + 1 <= 97 /\ pos[i + 1] = here + 1
        /\ ~field.optional => /\ v = 0
                              /\ here + field.size <= 97
                              /\ pos[i + 1] = here + field.size
    BY <1>5, MaxLayoutIs DEF Plain, Optional, ZeroMax
  <2> HIDE DEF field, v, here
  <2>3. /\ At(FieldBytes(field, v), Repeat(0, 97), here)
        /\ Len(FieldBytes(field, v)) = IF field.optional THEN 1 ELSE field.size
    BY <2>1, <2>2, ZeroesCarry
  <2> QED
    BY <1>1, <2>2, <2>3 DEF field, v, here
<1>8. ASSUME NEW i \in 1 .. 6
      PROVE  Parts(MaxLayout, ZeroMax)[i] = bytes(i)
  BY <1>4, PartsAre, MaxLayoutIs
<1>9. Carries(MaxLayout, ZeroMax, buf, pos)
  <2>1. Len(MaxLayout) = 6
    BY MaxLayoutIs
  <2> DEFINE part == Parts(MaxLayout, ZeroMax)
  <2>2. Places(pos, part, 6)
    <3>1. \A i \in 1 .. 6 : pos[i + 1] = pos[i] + Len(part[i])
      BY <1>7, <1>8
    <3> HIDE DEF part
    <3> QED
      BY <1>6, <3>1 DEF Places
  <2> HIDE DEF buf
  <2>3. pos[7] <= Len(buf)
    BY <1>2, <1>6
  <2> QED
    BY <1>7, <2>1, <2>2, <2>3 DEF Carries
<1>10. Decode(MaxLayout, buf) = ZeroMax
  BY <1>2, <1>4, <1>9, BytesAreInts, DecodeCarried
<1> QED
  BY <1>1, <1>2, <1>3, <1>10 DEF MaxRecord

-----------------------------------------------------------------------------
(***************************************************************************)
(* What an account of one type is to the code of another.                  *)
(***************************************************************************)

\* The plain fields in front are at the same offsets in all data.
LEMMA FrontOffsets ==
    ASSUME NEW buf
    PROVE  /\ Offsets(VoterLayout, buf)[2] = 8
           /\ Offsets(MaxLayout, buf)[1] = 0
           /\ Offsets(MaxLayout, buf)[2] = 8
           /\ Offsets(MaxLayout, buf)[3] = 40
           /\ Offsets(MaxLayout, buf)[5] = 80
           /\ Offsets(MaxLayout, buf)[6] \in {81, 89}
<1>1. Offsets(VoterLayout, buf)[2] = 8
  <2> DEFINE start == Offsets(VoterLayout, buf)
  <2>1. /\ start[1] = 0
        /\ \A i \in 1 .. 9 : start[i + 1] = start[i] + Span(VoterLayout[i], buf, start[i])
    <3>1. Advances(start, VoterLayout, buf)
      BY VoterIsLayout, LayoutOffsets
    <3> HIDE DEF start
    <3> QED
      BY <3>1, VoterLayoutIs DEF Advances
  <2> HIDE DEF start
  <2>2. \A o : Span(VoterLayout[1], buf, o) = 8
    BY VoterLayoutIs DEF Span, Plain
  <2>3. start[2] = start[1] + 8
    BY <2>1, <2>2
  <2> QED
    BY <2>1, <2>3 DEF start
<1>2. /\ Offsets(MaxLayout, buf)[1] = 0
      /\ Offsets(MaxLayout, buf)[2] = 8
      /\ Offsets(MaxLayout, buf)[3] = 40
      /\ Offsets(MaxLayout, buf)[5] = 80
      /\ Offsets(MaxLayout, buf)[6] \in {81, 89}
  <2> DEFINE start == Offsets(MaxLayout, buf)
  <2>1. /\ start[1] = 0
        /\ \A i \in 1 .. 6 : start[i + 1] = start[i] + Span(MaxLayout[i], buf, start[i])
    <3>1. Advances(start, MaxLayout, buf)
      BY MaxIsLayout, LayoutOffsets
    <3> HIDE DEF start
    <3> QED
      BY <3>1, MaxLayoutIs DEF Advances
  <2> HIDE DEF start
  <2>2. \A o : /\ Span(MaxLayout[1], buf, o) = 8
               /\ Span(MaxLayout[2], buf, o) = 32
               /\ Span(MaxLayout[3], buf, o) = 32
               /\ Span(MaxLayout[4], buf, o) = 8
               /\ Span(MaxLayout[5], buf, o) \in {1, 9}
    BY MaxLayoutIs DEF Span, Plain, Optional
  <2>3. /\ start[2] = start[1] + 8 /\ start[3] = start[2] + 32
        /\ start[4] = start[3] + 32 /\ start[5] = start[4] + 8
    BY <2>1, <2>2
  <2>4. start[6] = start[5] + 1 \/ start[6] = start[5] + 9
    BY <2>1, <2>2
  <2> QED
    BY <2>1, <2>3, <2>4 DEF start
<1> QED
  BY <1>1, <1>2

\* A voter weight record takes 123 bytes without its options.
LEMMA VoterLength ==
    ASSUME NEW buf
    PROVE  Offsets(VoterLayout, buf)[10] \in Nat /\ Offsets(VoterLayout, buf)[10] >= 123
<1> DEFINE start == Offsets(VoterLayout, buf)
<1>1. /\ start[1] = 0
      /\ \A i \in 1 .. 9 : start[i + 1] = start[i] + Span(VoterLayout[i], buf, start[i])
  <2>1. Advances(start, VoterLayout, buf)
    BY VoterIsLayout, LayoutOffsets
  <2> HIDE DEF start
  <2> QED
    BY <2>1, VoterLayoutIs DEF Advances
<1> HIDE DEF start
<1>2. \A o : /\ Span(VoterLayout[1], buf, o) = 8
             /\ Span(VoterLayout[2], buf, o) = 32
             /\ Span(VoterLayout[3], buf, o) = 32
             /\ Span(VoterLayout[4], buf, o) = 32
             /\ Span(VoterLayout[5], buf, o) = 8
             /\ Span(VoterLayout[6], buf, o) \in {1, 9}
             /\ Span(VoterLayout[7], buf, o) \in {1, 2}
             /\ Span(VoterLayout[8], buf, o) \in {1, 33}
             /\ Span(VoterLayout[9], buf, o) = 8
  BY VoterLayoutIs DEF Span, Plain, Optional
<1>3. start[2] = 8 /\ start[3] = 40 /\ start[4] = 72
  BY <1>1, <1>2
<1>4. start[5] = 104 /\ start[6] = 112
  BY <1>1, <1>2, <1>3
<1>5. start[7] \in Nat /\ start[7] >= 113
  <2>1. start[7] = start[6] + 1 \/ start[7] = start[6] + 9
    BY <1>1, <1>2
  <2> QED
    BY <1>4, <2>1
<1>6. start[8] \in Nat /\ start[8] >= 114
  <2>1. start[8] = start[7] + 1 \/ start[8] = start[7] + 2
    BY <1>1, <1>2
  <2> QED
    BY <1>5, <2>1
<1>7. start[9] \in Nat /\ start[9] >= 115
  <2>1. start[9] = start[8] + 1 \/ start[9] = start[8] + 33
    BY <1>1, <1>2
  <2> QED
    BY <1>6, <2>1
<1>8. start[10] = start[9] + 8
  BY <1>1, <1>2
<1> QED
  BY <1>7, <1>8 DEF start

\* Data whose byte 8 is not the realm's is neither record of this realm.
LEMMA OtherRealm ==
    ASSUME NEW buf, ByteAt(buf, 8) # Realm
    PROVE  /\ ~IsVoterRecord(VoterRecord(buf))
           /\ MaxRecord(buf) # None => MaxRecord(buf).realm # Realm
<1>1. Realm # -1
  BY ByteAssumption DEF Byte
<1>2. ValueAt(buf, 8, 32) # Realm
  BY <1>1 DEF ValueAt
<1>3. Decode(VoterLayout, buf) # None => Decode(VoterLayout, buf).realm # Realm
  <2> HAVE Decode(VoterLayout, buf) # None
  <2>1. Decode(VoterLayout, buf)["realm"] = FieldAt(VoterLayout[2], buf, 8)
    <3>1. 2 \in 1 .. Len(VoterLayout) /\ VoterLayout[2].name = "realm"
      BY VoterLayoutIs DEF Plain
    <3> QED
      BY <3>1, VoterIsLayout, DecodeField, FrontOffsets
  <2> QED
    BY <1>2, <2>1, VoterLayoutIs DEF FieldAt, Plain
<1>4. Decode(MaxLayout, buf) # None => Decode(MaxLayout, buf).realm # Realm
  <2> HAVE Decode(MaxLayout, buf) # None
  <2>1. Decode(MaxLayout, buf)["realm"] = FieldAt(MaxLayout[2], buf, 8)
    <3>1. 2 \in 1 .. Len(MaxLayout) /\ MaxLayout[2].name = "realm"
      BY MaxLayoutIs DEF Plain
    <3> QED
      BY <3>1, MaxIsLayout, DecodeField, FrontOffsets
  <2> QED
    BY <1>2, <2>1, MaxLayoutIs DEF FieldAt, Plain
<1> QED
  BY <1>3, <1>4 DEF IsVoterRecord, VoterRecord, MaxRecord

\* A max voter weight record's account is too short for a voter's record.
LEMMA MaxIsNoVoter ==
    ASSUME NEW buf, NEW record, MaxHeld(buf, record)
    PROVE  ~IsVoterRecord(VoterRecord(buf))
<1>1. Len(buf) = 97
  BY DEF MaxHeld, MaxSpace
<1>2. Decode(VoterLayout, buf) # None => Offsets(VoterLayout, buf)[10] <= Len(buf)
  <2>1. Len(VoterLayout) + 1 = 10
    BY VoterLayoutIs
  <2> QED
    BY <2>1 DEF Decode
<1>3. ~(Offsets(VoterLayout, buf)[10] <= 97)
  <2> DEFINE end == Offsets(VoterLayout, buf)[10]
  <2>1. end \in Nat /\ end >= 123
    BY VoterLength
  <2> HIDE DEF end
  <2>2. ~(end <= 97)
    BY <2>1
  <2> QED
    BY <2>2 DEF end
<1> QED
  BY <1>1, <1>2, <1>3 DEF IsVoterRecord, VoterRecord

\* A voter's record has a byte of the owner where a max record has a tag.
LEMMA VoterIsNoMax ==
    ASSUME NEW buf \in Seq(Byte), NEW record, VoterHeld(buf, record),
           record.governing_token_owner \notin {0, 1}
    PROVE  MaxRecord(buf) = None
<1>1. PICK pos : Carries(VoterLayout, record, buf, pos)
  BY DEF VoterHeld
<1>2. \A p \in 0 .. 31 : ByteAt(buf, 72 + p) = record.governing_token_owner
  BY <1>1, BytesAreInts, VoterPlaces DEF VoterHeld
<1>3. ByteAt(buf, 72 + 8) = record.governing_token_owner
  BY <1>2
<1>4. ASSUME Decode(MaxLayout, buf) # None
      PROVE  FALSE
  <2>1. 5 \in 1 .. Len(MaxLayout) /\ MaxLayout[5].optional
    BY MaxLayoutIs DEF Optional
  <2>2. ByteAt(buf, 80) \in {0, 1}
    BY <1>4, <2>1, MaxIsLayout, DecodeField, FrontOffsets
  <2> QED
    BY <1>3, <2>2
<1> QED
  BY <1>4 DEF MaxRecord

\* The fields that the two types of record have in common.
SameFront(a, b) == /\ a.account_discriminator = b.account_discriminator
                   /\ a.realm = b.realm
                   /\ a.governing_token_mint = b.governing_token_mint

\* A max record with this weight and no expiry.
Set(record, weight) == [record EXCEPT !.max_voter_weight = weight,
                                      !.max_voter_weight_expiry = None]

\* What a voter's record is to code that takes it for a max record: the fields in front
\* are its own, and what is reserved is bytes of the owner.
LEMMA VoterAsMax ==
    ASSUME NEW buf \in Seq(Byte), NEW record, VoterHeld(buf, record),
           MaxRecord(buf) # None, NEW weight \in Byte
    PROVE  /\ Set(MaxRecord(buf), weight) \in MaxFields
           /\ SameFront(Set(MaxRecord(buf), weight), record)
<1> DEFINE start == Offsets(MaxLayout, buf)
           max == MaxRecord(buf)
<1>1. PICK pos : Carries(VoterLayout, record, buf, pos)
  BY DEF VoterHeld
<1>2. /\ HasFront(buf, record)
      /\ \A p \in 0 .. 31 : ByteAt(buf, 72 + p) = record.governing_token_owner
  BY <1>1, BytesAreInts, VoterPlaces DEF VoterHeld
<1>3. ASSUME NEW i \in 1 .. 6
      PROVE  max[MaxLayout[i].name] = FieldAt(MaxLayout[i], buf, start[i])
  <2>1. i \in 1 .. Len(MaxLayout)
    BY MaxLayoutIs
  <2>2. max = Decode(MaxLayout, buf) /\ max # None
    BY DEF MaxRecord
  <2> HIDE DEF max
  <2>3. Decode(MaxLayout, buf)[MaxLayout[i].name] = FieldAt(MaxLayout[i], buf, start[i])
    BY <2>1, <2>2, MaxIsLayout, DecodeField
  <2> QED
    BY <2>2, <2>3
<1>4. start[1] = 0 /\ start[2] = 8 /\ start[3] = 40 /\ start[6] \in {81, 89}
  BY FrontOffsets
<1> HIDE DEF start
<1>5. /\ max["account_discriminator"] = ValueAt(buf, 0, 8)
      /\ max["realm"] = ValueAt(buf, 8, 32)
      /\ max["governing_token_mint"] = ValueAt(buf, 40, 32)
      /\ max["reserved"] = ValueAt(buf, start[6], 8)
  BY <1>3, <1>4, MaxLayoutIs DEF FieldAt, Plain
<1>6. ValueAt(buf, 0, 8) = record.account_discriminator
  BY <1>2, FrontValues
<1>7. ValueAt(buf, 8, 32) = record.realm /\ ValueAt(buf, 40, 32) = record.governing_token_mint
  BY <1>2, FrontValues
<1>8. ValueAt(buf, start[6], 8) = record.governing_token_owner
  <2>1. \A i \in 0 .. 7 : ByteAt(buf, start[6] + i) = record.governing_token_owner
    <3>1. CASE start[6] = 81
      <4>1. \A i \in 0 .. 7 : 9 + i \in 0 .. 31 /\ 72 + (9 + i) = 81 + i
        OBVIOUS
      <4> QED
        BY <1>2, <3>1, <4>1
    <3>2. CASE start[6] = 89
      <4>1. \A i \in 0 .. 7 : 17 + i \in 0 .. 31 /\ 72 + (17 + i) = 89 + i
        OBVIOUS
      <4> QED
        BY <1>2, <3>2, <4>1
    <3> QED
      BY <1>4, <3>1, <3>2
  <2>2. start[6] + 0 = start[6]
    BY <1>4
  <2>3. ByteAt(buf, start[6]) = record.governing_token_owner
    BY <2>1, <2>2
  <2> QED
    BY <2>1, <2>3 DEF ValueAt
<1>9. max = [name \in Names(MaxLayout) |-> max[name]]
  BY DEF MaxRecord, Decode, Names
<1>10. Names(MaxLayout) = {"account_discriminator", "realm", "governing_token_mint",
                           "max_voter_weight", "max_voter_weight_expiry", "reserved"}
  <2>1. DOMAIN MaxLayout = 1 .. 6
    BY DEF MaxLayout
  <2> QED
    BY <2>1, MaxLayoutIs DEF Names, Plain, Optional
<1> HIDE DEF max
<1>11. /\ record.account_discriminator \in Byte /\ record.realm \in Byte
       /\ record.governing_token_mint \in Byte /\ record.governing_token_owner \in Byte
  BY DEF VoterHeld, VoterFields
<1>12. /\ max.account_discriminator = record.account_discriminator
       /\ max.realm = record.realm
       /\ max.governing_token_mint = record.governing_token_mint
       /\ max.reserved = record.governing_token_owner
  BY <1>5, <1>6, <1>7, <1>8
<1>13. Set(max, weight) \in MaxFields /\ SameFront(Set(max, weight), record)
  BY <1>9, <1>10, <1>11, <1>12 DEF Set, SameFront, MaxFields
<1> QED
  BY <1>13 DEF max

\* A max record that update_max_voter_weight_record writes over a voter's record.
Overwrites(set, record) == /\ set \in MaxFields
                           /\ SameFront(set, record)
                           /\ set.max_voter_weight > 0
                           /\ set.max_voter_weight_expiry = None

\* The data agrees but for the owner.
Elsewhere(buf, old) == /\ Len(buf) = Len(old)
                       /\ \A p \in 1 .. Len(old) : p <= 72 \/ p > 104 => buf[p] = old[p]

\* A voter's record with a max record written over it: the end of the data is as before,
\* the max record is carried, and the owner's bytes are no longer alike.
LEMMA WrittenOver ==
    ASSUME NEW old \in Seq(Byte), NEW record, VoterHeld(old, record),
           NEW set, Overwrites(set, record)
    PROVE  LET buf == Over(MaxBytes(set), old)
           IN  /\ buf \in Seq(Byte)
               /\ ~(Len(MaxBytes(set)) > Len(old))
               /\ Len(MaxBytes(set)) = 89
               /\ Elsewhere(buf, old)
               /\ \A p \in 90 .. Len(old) : buf[p] = old[p]
               /\ MaxRecord(buf) = set
               /\ ByteAt(buf, 72) # ByteAt(buf, 72 + 8)
<1> DEFINE bytes == MaxBytes(set)
           buf == Over(MaxBytes(set), old)
<1>1. Len(old) = 164
  BY DEF VoterHeld, VoterSpace
<1>2. /\ bytes \in Seq(Byte) /\ Len(bytes) <= Len(old) /\ ~(Len(bytes) > Len(old))
      /\ Len(bytes) = 89
      /\ \E pos : Carries(MaxLayout, set, buf, pos)
  <2>1. set \in MaxFields /\ set.max_voter_weight_expiry = None
    BY DEF Overwrites
  <2> HIDE DEF bytes
  <2>2. MaxSpace <= Len(old)
    BY <1>1 DEF MaxSpace
  <2>3. Len(bytes) = 89
    BY <2>1, <2>2, MaxOver DEF bytes
  <2>4. /\ bytes \in Seq(Byte) /\ Len(bytes) <= Len(old) /\ ~(Len(bytes) > Len(old))
        /\ \E pos : Carries(MaxLayout, set, buf, pos)
    BY <2>1, <2>2, MaxOver DEF bytes
  <2> QED
    BY <2>3, <2>4
<1>3. /\ buf \in Seq(Byte) /\ Len(buf) = 164
      /\ \A p \in 90 .. 164 : buf[p] = old[p]
  <2> HIDE DEF bytes, buf
  <2>1. /\ Over(bytes, old) \in Seq(Byte) /\ Len(Over(bytes, old)) = Len(old)
        /\ KeepsEnd(Over(bytes, old), old, Len(bytes))
    BY <1>2, OverIs
  <2> QED
    BY <1>1, <1>2, <2>1 DEF bytes, buf, KeepsEnd
<1>4. PICK pos : Carries(MaxLayout, set, buf, pos)
  BY <1>2
<1> HIDE DEF buf, bytes
<1>5. buf \in Seq(Int) /\ old \in Seq(Int)
  BY <1>3, BytesAreInts
<1>6. MaxRecord(buf) = set
  BY <1>4, <1>5, MaxIsLayout, MaxFits, DecodeCarried DEF MaxRecord, Overwrites
<1>7. HasFront(buf, set) /\ ByteAt(buf, 72) = set.max_voter_weight /\ ByteAt(buf, 80) = 0
  <2>1. set \in MaxFields /\ set.max_voter_weight_expiry = None
    BY DEF Overwrites
  <2> QED
    BY <1>4, <1>5, <2>1, MaxPlaces
<1>8. HasFront(old, record)
  BY <1>5, VoterPlaces DEF VoterHeld
<1>9. \A p \in 0 .. 71 : ByteAt(buf, p) = ByteAt(old, p)
  BY <1>7, <1>8, FrontAgrees DEF SameFront, Overwrites
<1>10. ASSUME NEW p \in 1 .. 72
       PROVE  buf[p] = old[p]
  <2>1. p - 1 \in 0 .. 71 /\ p - 1 < 164 /\ (p - 1) + 1 = p
    OBVIOUS
  <2>2. ByteAt(buf, p - 1) = buf[p] /\ ByteAt(old, p - 1) = old[p]
    BY <1>1, <1>3, <2>1 DEF ByteAt
  <2> QED
    BY <1>9, <2>1, <2>2
<1>11. Elsewhere(buf, old)
  <2>1. ASSUME NEW p \in 1 .. 164, p <= 72 \/ p > 104
        PROVE  buf[p] = old[p]
    <3>1. p \in 1 .. 72 \/ p \in 90 .. 164
      BY <2>1
    <3> QED
      BY <1>3, <1>10, <3>1
  <2> QED
    BY <1>1, <1>3, <2>1 DEF Elsewhere
<1>12. ByteAt(buf, 72) # ByteAt(buf, 72 + 8)
  <2>1. 72 + 8 = 80 /\ set.max_voter_weight # 0
    BY DEF Overwrites
  <2> QED
    BY <1>7, <2>1
<1> QED
  BY <1>1, <1>2, <1>3, <1>6, <1>11, <1>12 DEF buf, bytes

\* The record with its owner lost.
Lost(record) == [record EXCEPT !.governing_token_owner = -1]

\* Data that agrees with a voter's record but for the owner is read as it but for the owner.
LEMMA OwnerLost ==
    ASSUME NEW old \in Seq(Byte), NEW record, VoterHeld(old, record),
           NEW buf \in Seq(Byte), Elsewhere(buf, old), ByteAt(buf, 72) # ByteAt(buf, 72 + 8)
    PROVE  VoterRecord(buf) = Lost(record)
<1> DEFINE layout == VoterLayout
           name(i) == VoterLayout[i].name
           bytes(i) == FieldBytes(layout[i], record[name(i)])
<1>1. PICK pos : Carries(layout, record, old, pos)
  BY DEF VoterHeld
<1>2. IsLayout(layout) /\ Fits(layout, record) /\ Len(layout) = 9 /\ record \in VoterFields
  BY VoterIsLayout, VoterFits, VoterLayoutIs DEF VoterHeld
<1>3. buf \in Seq(Int) /\ old \in Seq(Int) /\ Len(old) = 164 /\ Len(buf) = 164
  BY BytesAreInts DEF VoterHeld, VoterSpace, Elsewhere
<1>4. /\ pos[1] = 0 /\ pos[2] = 8 /\ pos[3] = 40 /\ pos[4] = 72 /\ pos[5] = 104
      /\ \A i \in 5 .. 9 : pos[i] >= 104
  BY <1>1, <1>2, <1>3, VoterPlaces
<1>5. /\ pos[10] <= 164
      /\ \A i \in 1 .. 10 : pos[i] \in Nat
      /\ \A i \in 1 .. 9 : pos[i + 1] = pos[i] + Len(bytes(i)) /\ At(bytes(i), old, pos[i])
  <2> DEFINE n == Len(layout)
  <2>1. /\ pos[n + 1] <= Len(old)
        /\ \A i \in 1 .. n + 1 : pos[i] \in Nat
        /\ \A i \in 1 .. n : pos[i + 1] = pos[i] + Len(bytes(i)) /\ At(bytes(i), old, pos[i])
    <3>1. IsLayout(layout) /\ Fits(layout, record)
      BY <1>2
    <3> HIDE DEF layout
    <3> QED
      BY <1>1, <3>1, PartsAre DEF Carries, Places, layout
  <2>2. n = 9
    BY <1>2
  <2> HIDE DEF n, bytes, layout
  <2>3. n + 1 = 10
    BY <2>2
  <2> QED
    BY <1>3, <2>1, <2>2, <2>3
<1>6. ASSUME NEW i \in 1 .. 9
      PROVE  Len(bytes(i)) \in Nat
  BY <1>2, PartsAre, FieldBytesAre DEF Fits
<1> HIDE DEF bytes
<1>7. ASSUME NEW i \in 1 .. 9, i # 4
      PROVE  At(bytes(i), buf, pos[i])
  <2> DEFINE b == bytes(i)
             here == pos[i]
  <2>1. /\ here \in Nat /\ Len(b) \in Nat /\ here + Len(b) <= 164
        /\ \A q \in 1 .. Len(b) : old[here + q] = b[q]
    <3>1. i \in 1 .. 10
      OBVIOUS
    <3>2. here \in Nat /\ Len(b) \in Nat /\ At(b, old, here)
      BY <1>5, <1>6, <3>1
    <3> HIDE DEF b, here
    <3> QED
      BY <1>3, <3>2 DEF At
  <2>2. here + Len(b) <= 72 \/ here >= 104
    <3>1. CASE i \in 1 .. 3
      <4>1. pos[i + 1] \in {8, 40, 72}
        BY <1>4, <3>1
      <4>2. pos[i + 1] = here + Len(b)
        BY <1>5
      <4> QED
        BY <4>1, <4>2
    <3>2. CASE i \in 5 .. 9
      BY <1>4, <3>2
    <3> QED
      BY <1>7, <3>1, <3>2
  <2> HIDE DEF b, here
  <2>3. ASSUME NEW q \in 1 .. Len(b)
        PROVE  buf[here + q] = b[q]
    <3>1. /\ here + q \in 1 .. 164
          /\ here + q <= 72 \/ here + q > 104
      BY <2>1, <2>2
    <3>2. buf[here + q] = old[here + q]
      BY <1>3, <3>1 DEF Elsewhere
    <3> QED
      BY <2>1, <3>2
  <2> QED
    BY <1>3, <2>1, <2>3 DEF At, b, here
<1>8. ASSUME NEW i \in 1 .. 9, i # 4
      PROVE  /\ pos[i + 1] = pos[i] + Span(layout[i], buf, pos[i])
             /\ FieldAt(layout[i], buf, pos[i]) = record[name(i)]
             /\ layout[i].optional =>
                   /\ ByteAt(buf, pos[i]) \in {0, 1}
                   /\ record[name(i)] \in layout[i].values \union {None, -1}
  <2> HIDE DEF layout
  <2>1. i \in 1 .. Len(layout) /\ pos[i] \in Nat
    <3>1. i \in 1 .. 10
      OBVIOUS
    <3> QED
      BY <1>2, <1>5, <3>1
  <2>2. At(FieldBytes(layout[i], record[layout[i].name]), buf, pos[i])
    BY <1>7, <1>8 DEF bytes, layout
  <2>3. /\ Span(layout[i], buf, pos[i]) = Len(FieldBytes(layout[i], record[layout[i].name]))
        /\ FieldAt(layout[i], buf, pos[i]) = record[layout[i].name]
        /\ layout[i].optional =>
              /\ ByteAt(buf, pos[i]) \in {0, 1}
              /\ record[layout[i].name] \in layout[i].values \union {None, -1}
    <3>1. IsLayout(layout) /\ Fits(layout, record) /\ buf \in Seq(Int)
      BY <1>2, <1>3
    <3> QED
      BY <2>1, <2>2, <3>1, CarriedReads
  <2> QED
    BY <1>5, <2>3 DEF bytes, layout
<1>9. layout[4] = Plain("governing_token_owner", 32)
  BY VoterLayoutIs
<1>10. FieldAt(layout[4], buf, 72) = -1 /\ Span(layout[4], buf, 72) = 32
  <2>1. 8 \in 1 .. 32 - 1
    OBVIOUS
  <2>2. ValueAt(buf, 72, 32) = -1
    BY <2>1 DEF ValueAt
  <2>3. ~layout[4].optional /\ layout[4].size = 32
    BY <1>9 DEF Plain
  <2> HIDE DEF layout
  <2> QED
    BY <2>2, <2>3 DEF FieldAt, Span
<1>11. /\ Lost(record) = [n \in Names(layout) |-> Lost(record)[n]]
       /\ Lost(record).governing_token_owner = -1
       /\ \A n \in Names(layout) : n # "governing_token_owner" => Lost(record)[n] = record[n]
  <2>1. record = [n \in Names(layout) |-> record[n]]
    BY <1>2 DEF Fits
  <2>2. layout[4].name = "governing_token_owner" /\ 4 \in DOMAIN layout
    BY <1>9 DEF VoterLayout, Plain
  <2>3. "governing_token_owner" \in Names(layout)
    BY <2>2 DEF Names
  <2> HIDE DEF layout
  <2> QED
    BY <2>1, <2>3 DEF Lost
<1>12. ASSUME NEW i \in 1 .. 9, i # 4
       PROVE  Lost(record)[name(i)] = record[name(i)]
  <2>1. name(i) # name(4) /\ name(4) = "governing_token_owner"
    BY <1>2, <1>9, <1>12 DEF IsLayout, Plain
  <2>2. name(i) \in Names(layout)
    <3>1. DOMAIN layout = 1 .. 9
      BY DEF VoterLayout
    <3> QED
      BY <3>1 DEF Names
  <2> QED
    BY <1>11, <2>1, <2>2
<1>13. ASSUME NEW i \in 1 .. 9
       PROVE  /\ pos[i + 1] = pos[i] + Span(layout[i], buf, pos[i])
              /\ FieldAt(layout[i], buf, pos[i]) = Lost(record)[name(i)]
              /\ layout[i].optional =>
                    /\ ByteAt(buf, pos[i]) \in {0, 1}
                    /\ Lost(record)[name(i)] \in layout[i].values \union {None, -1}
  <2>1. CASE i # 4
    BY <1>8, <1>12, <2>1
  <2>2. CASE i = 4
    <3>1. ~layout[4].optional /\ name(4) = "governing_token_owner"
      BY <1>9 DEF Plain
    <3>2. pos[4 + 1] = pos[4] + Span(layout[4], buf, pos[4])
      BY <1>4, <1>10
    <3>3. FieldAt(layout[4], buf, pos[4]) = Lost(record)["governing_token_owner"]
      BY <1>4, <1>10, <1>11
    <3> QED
      BY <2>2, <3>1, <3>2, <3>3
  <2> QED
    BY <2>1, <2>2
<1>14. Reads(layout, Lost(record), buf, pos)
  <2> HIDE DEF layout
  <2>1. pos[Len(layout) + 1] <= Len(buf)
    BY <1>2, <1>3, <1>5
  <2> QED
    BY <1>2, <1>4, <1>11, <1>13, <2>1 DEF Reads, layout
<1> QED
  BY <1>2, <1>14, DecodeReads DEF VoterRecord

\* What a client reads behind the owner is the same.
LEMMA ReadsElsewhere ==
    ASSUME NEW old \in Seq(Byte), NEW buf \in Seq(Byte), Elsewhere(buf, old), Len(old) = 164,
           NEW o \in 104 .. 163, NEW n \in 1 .. 32
    PROVE  ValueAt(buf, o, n) = ValueAt(old, o, n) /\ OptionAt(buf, o, n) = OptionAt(old, o, n)
<1>1. ASSUME NEW q \in Nat, q >= 104
      PROVE  ByteAt(buf, q) = ByteAt(old, q)
  <2>1. CASE q < 164
    <3>1. q + 1 \in 1 .. Len(old) /\ q + 1 > 104
      BY <1>1, <2>1
    <3>2. buf[q + 1] = old[q + 1] /\ Len(buf) = 164
      BY <3>1 DEF Elsewhere
    <3> QED
      BY <2>1, <3>2 DEF ByteAt
  <2>2. CASE ~(q < 164)
    BY <2>2 DEF ByteAt, Elsewhere
  <2> QED
    BY <2>1, <2>2
<1>2. ASSUME NEW q \in Nat, q >= 104
      PROVE  ValueAt(buf, q, n) = ValueAt(old, q, n)
  <2>1. \A i \in 1 .. n - 1 : q + i \in Nat /\ q + i >= 104
    BY <1>2
  <2>2. \A i \in 1 .. n - 1 : ByteAt(buf, q + i) = ByteAt(old, q + i)
    BY <1>1, <2>1
  <2>3. ByteAt(buf, q) = ByteAt(old, q)
    BY <1>1, <1>2
  <2> QED
    BY <2>2, <2>3 DEF ValueAt
<1>3. o \in Nat /\ o >= 104 /\ o + 1 \in Nat /\ o + 1 >= 104
  OBVIOUS
<1>4. ByteAt(buf, o) = ByteAt(old, o) /\ ValueAt(buf, o + 1, n) = ValueAt(old, o + 1, n)
  BY <1>1, <1>2, <1>3
<1> QED
  BY <1>2, <1>3, <1>4 DEF OptionAt

\* The record an account holds is the one it decodes to.
LEMMA HeldIsRead ==
    ASSUME NEW buf \in Seq(Byte), NEW record
    PROVE  /\ VoterHeld(buf, record) => VoterRecord(buf) = record
           /\ MaxHeld(buf, record) => MaxRecord(buf) = record
<1>1. buf \in Seq(Int)
  BY BytesAreInts
<1>2. VoterHeld(buf, record) => VoterRecord(buf) = record
  BY <1>1, VoterIsLayout, VoterFits, DecodeCarried DEF VoterHeld, VoterRecord
<1>3. MaxHeld(buf, record) => MaxRecord(buf) = record
  BY <1>1, MaxIsLayout, MaxFits, DecodeCarried DEF MaxHeld, MaxRecord
<1> QED
  BY <1>2, <1>3

\* The registrar: the governance program's key is where a record has the realm's.
LEMMA RegistrarBytes ==
    ASSUME NEW score \in Byte, NEW age \in Byte,
           NEW registrar, registrar = [discriminator |-> RegistrarTag,
                                       governance_program_id |-> GovernanceProgram,
                                       realm |-> Realm,
                                       governing_token_mint |-> Mint,
                                       min_trust_score |-> score,
                                       max_verification_age |-> age,
                                       reserved |-> 0]
    PROVE  /\ Encode(RegistrarLayout, registrar) \in Seq(Byte)
           /\ ByteAt(Encode(RegistrarLayout, registrar), 8) = GovernanceProgram
<1> DEFINE layout == RegistrarLayout
           buf == Encode(RegistrarLayout, registrar)
<1>1. /\ Len(layout) = 7 /\ DOMAIN layout = 1 .. 7
      /\ layout = [i \in 1 .. 7 |-> layout[i]]
      /\ layout[1] = Plain("discriminator", 8)
      /\ layout[2] = Plain("governance_program_id", 32)
      /\ layout[3] = Plain("realm", 32)
      /\ layout[4] = Plain("governing_token_mint", 32)
      /\ layout[5] = Plain("min_trust_score", 2)
      /\ layout[6] = Plain("max_verification_age", 8)
      /\ layout[7] = Plain("reserved", 64)
  BY DEF RegistrarLayout
<1> HIDE DEF layout
<1>2. /\ layout[1].name = "discriminator"
      /\ layout[2].name = "governance_program_id"
      /\ layout[3].name = "realm"
      /\ layout[4].name = "governing_token_mint"
      /\ layout[5].name = "min_trust_score"
      /\ layout[6].name = "max_verification_age"
      /\ layout[7].name = "reserved"
      /\ \A i \in 1 .. 7 : ~layout[i].optional
      /\ layout[1].size = 8
      /\ layout[2].size = 32
  BY <1>1 DEF Plain
<1>3. IsLayout(layout)
  <2>1. 2 \in Nat \ {0} /\ 8 \in Nat \ {0} /\ 32 \in Nat \ {0} /\ 64 \in Nat \ {0}
    OBVIOUS
  <2>2. \A i \in 1 .. 7 : layout[i] \in Field
    <3>1. layout[1] \in Field /\ layout[2] \in Field /\ layout[3] \in Field
      BY <1>1, <2>1, PlainIs DEF FieldName
    <3>2. layout[4] \in Field /\ layout[5] \in Field
      BY <1>1, <2>1, PlainIs DEF FieldName
    <3>3. layout[6] \in Field /\ layout[7] \in Field
      BY <1>1, <2>1, PlainIs DEF FieldName
    <3> QED
      BY <3>1, <3>2, <3>3
  <2>3. layout \in Seq(Field)
    BY <1>1, <2>2
  <2>4. \A i, j \in 1 .. 7 : layout[i].name = layout[j].name => i = j
    BY <1>2
  <2> QED
    BY <1>1, <2>3, <2>4 DEF IsLayout
<1>4. Fits(layout, registrar)
  <2>1. {RegistrarTag, GovernanceProgram, Realm, Mint, score, age, 0} \subseteq Byte
    BY ByteAssumption DEF Byte
  <2>2. Names(layout) = DOMAIN registrar
    <3>1. Names(layout) = {"discriminator", "governance_program_id", "realm",
                           "governing_token_mint", "min_trust_score",
                           "max_verification_age", "reserved"}
      BY <1>1, <1>2 DEF Names
    <3> QED
      BY <3>1
  <2>3. registrar = [name \in DOMAIN registrar |-> registrar[name]]
    OBVIOUS
  <2>4. ASSUME NEW i \in 1 .. 7
        PROVE  registrar[layout[i].name] \in Byte
    BY <1>2, <2>1
  <2> QED
    BY <1>1, <1>2, <2>2, <2>3, <2>4 DEF Fits, Holds
<1>5. <<>> \in Seq(Byte)
  OBVIOUS
<1>6. buf \in Seq(Byte) /\ \E pos : Carries(layout, registrar, buf \o <<>>, pos)
  BY <1>3, <1>4, <1>5, EncodeCarries DEF layout
<1> HIDE DEF buf
<1>7. buf \o <<>> = buf
  BY <1>6
<1>8. PICK pos : Carries(layout, registrar, buf, pos)
  BY <1>6, <1>7
<1>9. buf \in Seq(Int)
  BY <1>6, BytesAreInts
<1>10. ASSUME NEW i \in 1 .. 7
       PROVE  PlainIn(buf, pos[i], pos[i + 1], layout[i].size, registrar[layout[i].name])
  BY <1>1, <1>2, <1>3, <1>4, <1>8, <1>9, CarriedField
<1>11. pos[1] = 0
  BY <1>8 DEF Carries, Places
<1>12. pos[2] = 8
  <2>1. PlainIn(buf, pos[1], pos[2], 8, registrar.discriminator)
    BY <1>2, <1>10
  <2> QED
    BY <1>11, <2>1 DEF PlainIn
<1>13. PlainIn(buf, pos[2], pos[3], 32, GovernanceProgram)
  BY <1>2, <1>10
<1>14. ByteAt(buf, 8 + 0) = GovernanceProgram
  BY <1>12, <1>13 DEF PlainIn
<1> QED
  BY <1>6, <1>14 DEF buf

-----------------------------------------------------------------------------
(***************************************************************************)
(* A voter weight record with max voter weight records written over it.    *)
(***************************************************************************)
Overwritten(buf, record, set) ==
    /\ Overwrites(set, record)
    /\ \E old \in Seq(Byte) : VoterHeld(old, record) /\ buf = Over(MaxBytes(set), old)

\* It is read as either, but for its owner.
LEMMA OverwrittenIs ==
    ASSUME NEW buf, NEW record, NEW set, Overwritten(buf, record, set)
    PROVE  /\ buf \in Seq(Byte)
           /\ MaxRecord(buf) = set
           /\ VoterRecord(buf) = Lost(record)
<1>1. PICK old \in Seq(Byte) : VoterHeld(old, record) /\ buf = Over(MaxBytes(set), old)
  BY DEF Overwritten
<1>2. Overwrites(set, record)
  BY DEF Overwritten
<1>3. /\ buf \in Seq(Byte)
      /\ Elsewhere(buf, old)
      /\ MaxRecord(buf) = set
      /\ ByteAt(buf, 72) # ByteAt(buf, 72 + 8)
  BY <1>1, <1>2, WrittenOver
<1> QED
  BY <1>1, <1>3, OwnerLost

\* It can be written over again.
LEMMA OverwrittenAgain ==
    ASSUME NEW buf, NEW record, NEW set, Overwritten(buf, record, set),
           NEW again, Overwrites(again, record)
    PROVE  /\ ~(Len(MaxBytes(again)) > Len(buf))
           /\ Over(MaxBytes(again), buf) \in Seq(Byte)
           /\ Overwritten(Over(MaxBytes(again), buf), record, again)
<1>1. PICK old \in Seq(Byte) : VoterHeld(old, record) /\ buf = Over(MaxBytes(set), old)
  BY DEF Overwritten
<1>2. Overwrites(set, record)
  BY DEF Overwritten
<1>3. Len(old) = 164
  BY <1>1 DEF VoterHeld, VoterSpace
<1>4. buf \in Seq(Byte) /\ Len(buf) = 164 /\ \A p \in 90 .. 164 : buf[p] = old[p]
  <2>1. buf \in Seq(Byte) /\ Elsewhere(buf, old) /\ \A p \in 90 .. Len(old) : buf[p] = old[p]
    BY <1>1, <1>2, WrittenOver
  <2> QED
    BY <1>3, <2>1 DEF Elsewhere
<1>5. /\ Over(MaxBytes(again), old) \in Seq(Byte)
      /\ ~(Len(MaxBytes(again)) > Len(old))
      /\ Len(MaxBytes(again)) = 89
  BY <1>1, WrittenOver
<1>6. SubSeq(buf, 89 + 1, 164) = SubSeq(old, 89 + 1, 164)
  <2>1. /\ SubSeq(buf, 90, 164) = [i \in 1 .. 75 |-> buf[i + 89]]
        /\ SubSeq(old, 90, 164) = [i \in 1 .. 75 |-> old[i + 89]]
    BY <1>4
  <2>2. \A i \in 1 .. 75 : i + 89 \in 90 .. 164
    OBVIOUS
  <2>3. \A i \in 1 .. 75 : buf[i + 89] = old[i + 89]
    BY <1>4, <2>2
  <2> QED
    BY <2>1, <2>3
<1>7. Over(MaxBytes(again), buf) = Over(MaxBytes(again), old)
  BY <1>3, <1>4, <1>5, <1>6 DEF Over
<1> QED
  BY <1>1, <1>3, <1>4, <1>5, <1>7 DEF Overwritten

-----------------------------------------------------------------------------
(***************************************************************************)
(* The inductive invariant.                                                *)
(***************************************************************************)

\* What the voter's account holds, the owner's key being `key`.
VoterKept(buf, record, set, key) ==
    /\ record.governing_token_owner = key
    /\ set = None => VoterHeld(buf, record)
    /\ set # None => key \in {0, 1} /\ Overwritten(buf, record, set)

\* What is written: something for each type and account.
IsWritten(w) == w = [type \in Type |-> [a \in Account |-> w[type][a]]]

CodecInv ==
    /\ owner \in Byte
    /\ data \in [Account -> Seq(Byte)]
    /\ IsWritten(written)
    /\ ByteAt(data["registrar"], 8) = GovernanceProgram
    /\ \A type \in Type : written[type]["registrar"] = None
    /\ written["voter"]["max"] = None
    /\ data["voter"] = <<>> => written["max"]["voter"] = None
    /\ data["voter"] # <<>> =>
          VoterKept(data["voter"], written["voter"]["voter"], written["max"]["voter"], owner)
    /\ data["max"] # <<>> => MaxHeld(data["max"], written["max"]["max"])
    /\ outcome = "Ok"

\* The record of the type is noted for the account, and nothing else is changed.
Notes(new, w, type, account, record) ==
    /\ IsWritten(new)
    /\ new[type][account] = record
    /\ \A t \in Type, a \in Account : t # type \/ a # account => new[t][a] = w[t][a]

\* As a save does.
LEMMA WrittenExcept ==
    ASSUME NEW w, IsWritten(w), NEW type \in Type, NEW account \in Account, NEW record
    PROVE  Notes([w EXCEPT ![type][account] = record], w, type, account, record)
<1> DEFINE new == [w EXCEPT ![type][account] = record]
<1>1. \A t \in Type : w[t] = [a \in Account |-> w[t][a]]
  BY DEF IsWritten
<1>2. DOMAIN w = Type
  BY DEF IsWritten
<1>3. /\ new[type] = [w[type] EXCEPT ![account] = record]
      /\ \A t \in Type : t # type => new[t] = w[t]
      /\ new = [t \in Type |-> new[t]]
  BY <1>2
<1> HIDE DEF new
<1>4. DOMAIN w[type] = Account
  BY <1>1
<1>5. /\ new[type] = [a \in Account |-> new[type][a]]
      /\ new[type][account] = record
      /\ \A a \in Account : a # account => new[type][a] = w[type][a]
  BY <1>3, <1>4
<1>6. \A t \in Type : new[t] = [a \in Account |-> new[t][a]]
  BY <1>1, <1>3, <1>5
<1> QED
  BY <1>3, <1>5, <1>6 DEF IsWritten, Notes, new

\* A new registrar, and no records.
LEMMA CodecInitial == CodecInit => CodecInv
<1> SUFFICES ASSUME CodecInit PROVE CodecInv
  OBVIOUS
<1>1. PICK score \in Number, age \in Number \ {0} :
        data = [registrar |-> Encode(RegistrarLayout,
                                  [discriminator |-> RegistrarTag,
                                   governance_program_id |-> GovernanceProgram,
                                   realm |-> Realm,
                                   governing_token_mint |-> Mint,
                                   min_trust_score |-> score,
                                   max_verification_age |-> age,
                                   reserved |-> 0]),
                voter |-> <<>>,
                max |-> <<>>]
  BY DEF CodecInit
<1>2. score \in Byte /\ age \in Byte /\ owner \in Byte
  BY ByteAssumption DEF CodecInit
<1>3. /\ data["registrar"] \in Seq(Byte)
      /\ ByteAt(data["registrar"], 8) = GovernanceProgram
  BY <1>1, <1>2, RegistrarBytes
<1>4. data["voter"] = <<>> /\ data["max"] = <<>> /\ data \in [Account -> Seq(Byte)]
  <2>1. data["voter"] = <<>> /\ data["max"] = <<>> /\ <<>> \in Seq(Byte)
    BY <1>1
  <2>2. data = [a \in Account |-> data[a]]
    BY <1>1 DEF Account
  <2> QED
    BY <1>3, <2>1, <2>2 DEF Account
<1>5. IsWritten(written) /\ \A type \in Type, a \in Account : written[type][a] = None
  BY DEF CodecInit, IsWritten
<1> QED
  BY <1>2, <1>3, <1>4, <1>5 DEF CodecInit, CodecInv, Type, Account

\* Only the voter's account passes for a voter weight record of the voter, and only while no
\* max record is written over it; and it passes for a max record only if the voter's key
\* reads as a tag.
LEMMA OnlyItsOwn ==
    ASSUME CodecInv, NEW account \in Account
    PROVE  /\ IsVoterRecord(VoterRecord(data[account])) =>
                 /\ account = "voter" /\ data["voter"] # <<>>
                 /\ written["max"]["voter"] = None
           /\ (MaxRecord(data[account]) # None /\ MaxRecord(data[account]).realm = Realm) =>
                 \/ account = "max" /\ data["max"] # <<>>
                 \/ account = "voter" /\ data["voter"] # <<>> /\ owner \in {0, 1}
<1>1. Realm # GovernanceProgram /\ Realm # -1
  BY ByteAssumption DEF Byte
<1>2. ByteAt(<<>>, 8) # Realm
  <2>1. ByteAt(<<>>, 8) = -1
    BY DEF ByteAt
  <2> QED
    BY <1>1, <2>1
<1>3. CASE account = "registrar"
  BY <1>1, <1>3, OtherRealm DEF CodecInv
<1>4. CASE data[account] = <<>>
  BY <1>2, <1>4, OtherRealm
<1>5. CASE account = "voter" /\ data["voter"] # <<>>
  <2> DEFINE buf == data["voter"]
             record == written["voter"]["voter"]
             set == written["max"]["voter"]
  <2>1. buf \in Seq(Byte) /\ owner \in Byte /\ VoterKept(buf, record, set, owner)
    BY <1>5 DEF CodecInv, Account
  <2> HIDE DEF buf, record, set
  <2>2. ASSUME set # None
        PROVE  ~IsVoterRecord(VoterRecord(buf))
    <3>1. VoterRecord(buf) = Lost(record) /\ Overwrites(set, record)
      BY <2>1, <2>2, OverwrittenIs DEF VoterKept, Overwritten
    <3>2. record \in VoterFields
      BY <2>1, <2>2 DEF VoterKept, Overwritten, VoterHeld
    <3>3. Lost(record).governing_token_owner = -1
      BY <3>2 DEF Lost, VoterFields
    <3>4. owner # -1
      BY <2>1 DEF Byte
    <3> QED
      BY <3>1, <3>3, <3>4 DEF IsVoterRecord
  <2>3. ASSUME owner \notin {0, 1}
        PROVE  MaxRecord(buf) = None
    BY <2>1, <2>3, VoterIsNoMax DEF VoterKept
  <2> QED
    BY <1>5, <2>2, <2>3 DEF buf, set
<1>6. CASE account = "max" /\ data["max"] # <<>>
  BY <1>6, MaxIsNoVoter DEF CodecInv
<1> QED
  BY <1>3, <1>4, <1>5, <1>6 DEF Account

\* A voter weight record of the voter is saved.
LEMMA SaveVoter ==
    ASSUME CodecInv, written["max"]["voter"] = None,
           NEW buf \in Seq(Byte), Len(buf) = VoterSpace,
           NEW record \in VoterFields, record.realm = Realm,
           record.governing_token_owner = owner, record.voter_weight_expiry # None,
           Save("voter", "voter", buf, VoterBytes(record), record)
    PROVE  CodecInv'
<1> DEFINE new == Over(VoterBytes(record), buf)
<1>1. ~(Len(VoterBytes(record)) > Len(buf)) /\ new \in Seq(Byte) /\ VoterHeld(new, record)
  BY VoterSaved
<1>2. /\ outcome' = "Ok"
      /\ data' = [data EXCEPT !["voter"] = new]
      /\ written' = [written EXCEPT !["voter"]["voter"] = record]
      /\ owner' = owner
  BY <1>1 DEF Save, Over
<1> HIDE DEF new
<1>3. /\ data' \in [Account -> Seq(Byte)]
      /\ data'["voter"] = new
      /\ data'["registrar"] = data["registrar"] /\ data'["max"] = data["max"]
  BY <1>1, <1>2 DEF CodecInv, Account
<1>4. /\ IsWritten(written') /\ written'["voter"]["voter"] = record
      /\ \A type \in Type : written'[type]["registrar"] = written[type]["registrar"]
      /\ written'["voter"]["max"] = written["voter"]["max"]
      /\ written'["max"]["voter"] = None /\ written'["max"]["max"] = written["max"]["max"]
  <2>1. Notes(written', written, "voter", "voter", record)
    BY <1>2, WrittenExcept DEF CodecInv, Type, Account
  <2> QED
    BY <2>1 DEF Notes, Type, Account
<1>5. VoterKept(data'["voter"], written'["voter"]["voter"], written'["max"]["voter"], owner')
  BY <1>1, <1>2, <1>3, <1>4 DEF VoterKept
<1>6. data'["max"] # <<>> => MaxHeld(data'["max"], written'["max"]["max"])
  BY <1>3, <1>4 DEF CodecInv
<1> QED
  BY <1>2, <1>3, <1>4, <1>5, <1>6 DEF CodecInv, VoterKept, Overwritten, VoterHeld, MaxHeld

\* A max voter weight record is saved.
LEMMA SaveMax ==
    ASSUME CodecInv, NEW buf \in Seq(Byte), Len(buf) = MaxSpace, NEW record \in MaxFields,
           Save("max", "max", buf, MaxBytes(record), record)
    PROVE  CodecInv'
<1> DEFINE new == Over(MaxBytes(record), buf)
<1>1. ~(Len(MaxBytes(record)) > Len(buf)) /\ new \in Seq(Byte) /\ MaxHeld(new, record)
  BY MaxSaved
<1>2. /\ outcome' = "Ok"
      /\ data' = [data EXCEPT !["max"] = new]
      /\ written' = [written EXCEPT !["max"]["max"] = record]
      /\ owner' = owner
  BY <1>1 DEF Save, Over
<1> HIDE DEF new
<1>3. /\ data' \in [Account -> Seq(Byte)]
      /\ data'["max"] = new
      /\ data'["registrar"] = data["registrar"] /\ data'["voter"] = data["voter"]
  BY <1>1, <1>2 DEF CodecInv, Account
<1>4. /\ IsWritten(written') /\ written'["max"]["max"] = record
      /\ \A type \in Type : /\ written'[type]["registrar"] = written[type]["registrar"]
                             /\ written'[type]["voter"] = written[type]["voter"]
      /\ written'["voter"]["max"] = written["voter"]["max"]
  <2>1. Notes(written', written, "max", "max", record)
    BY <1>2, WrittenExcept DEF CodecInv, Type, Account
  <2> QED
    BY <2>1 DEF Notes, Type, Account
<1>5. /\ written'["voter"]["voter"] = written["voter"]["voter"]
      /\ written'["max"]["voter"] = written["max"]["voter"]
  BY <1>4 DEF Type
<1>6. data'["voter"] # <<>> =>
        VoterKept(data'["voter"], written'["voter"]["voter"], written'["max"]["voter"], owner')
  BY <1>2, <1>3, <1>5 DEF CodecInv
<1>7. MaxHeld(data'["max"], written'["max"]["max"])
  BY <1>1, <1>3, <1>4
<1> QED
  BY <1>2, <1>3, <1>4, <1>5, <1>6, <1>7
  DEF CodecInv, VoterKept, Overwritten, VoterHeld, MaxHeld

\* A max record is written over the voter's record.
LEMMA SaveOver ==
    ASSUME CodecInv, owner \in {0, 1}, NEW set, NEW new \in Seq(Byte), new # <<>>,
           written["voter"]["voter"].governing_token_owner = owner,
           Overwritten(new, written["voter"]["voter"], set),
           outcome' = "Ok", owner' = owner,
           data' = [data EXCEPT !["voter"] = new],
           written' = [written EXCEPT !["max"]["voter"] = set]
    PROVE  CodecInv'
<1>1. /\ data' \in [Account -> Seq(Byte)]
      /\ data'["voter"] = new
      /\ data'["registrar"] = data["registrar"] /\ data'["max"] = data["max"]
  BY DEF CodecInv, Account
<1>2. /\ IsWritten(written') /\ written'["max"]["voter"] = set
      /\ \A type \in Type : written'[type]["registrar"] = written[type]["registrar"]
      /\ written'["voter"]["voter"] = written["voter"]["voter"]
      /\ written'["voter"]["max"] = written["voter"]["max"]
      /\ written'["max"]["max"] = written["max"]["max"]
  <2>1. Notes(written', written, "max", "voter", set)
    BY WrittenExcept DEF CodecInv, Type, Account
  <2> QED
    BY <2>1 DEF Notes, Type, Account
<1>3. set # None
  BY ByteAssumption DEF Overwritten, Overwrites
<1>4. VoterKept(data'["voter"], written'["voter"]["voter"], written'["max"]["voter"], owner')
  BY <1>1, <1>2, <1>3 DEF VoterKept
<1>5. data'["max"] # <<>> => MaxHeld(data'["max"], written'["max"]["max"])
  BY <1>1, <1>2 DEF CodecInv
<1> QED
  BY <1>1, <1>2, <1>4, <1>5 DEF CodecInv, VoterKept, Overwritten, VoterHeld, MaxHeld

\* create_voter_weight_record.
LEMMA CreateVoter ==
    ASSUME CodecInv, create_voter_weight_record
    PROVE  CodecInv'
<1> DEFINE record == [ZeroVoter EXCEPT !.account_discriminator = VoterTag,
                                       !.realm = Realm,
                                       !.governing_token_mint = Mint,
                                       !.governing_token_owner = owner,
                                       !.voter_weight = 0,
                                       !.voter_weight_expiry = 0,
                                       !.weight_action = None,
                                       !.weight_action_target = None]
           zeroes == Repeat(0, VoterSpace)
<1>1. Save("voter", "voter", zeroes, VoterBytes(record), record)
  BY ZeroVoterDecoded DEF create_voter_weight_record
<1>2. {VoterTag, Realm, Mint, owner, 0} \subseteq Byte /\ 0 # None
  BY ByteAssumption DEF Byte, CodecInv
<1>3. ZeroVoter \in VoterFields
  BY ZeroVoterDecoded
<1>4. /\ record \in VoterFields
      /\ record.realm = Realm
      /\ record.governing_token_owner = owner
      /\ record.voter_weight_expiry # None
  BY <1>2, <1>3 DEF VoterFields
<1> HIDE DEF record
<1>5. zeroes \in Seq(Byte) /\ Len(zeroes) = VoterSpace
  BY ZeroVoterDecoded
<1> HIDE DEF zeroes
<1>6. written["max"]["voter"] = None
  BY DEF create_voter_weight_record, CodecInv
<1> QED
  BY <1>1, <1>4, <1>5, <1>6, SaveVoter

\* create_max_voter_weight_record.
LEMMA CreateMax ==
    ASSUME CodecInv, create_max_voter_weight_record
    PROVE  CodecInv'
<1> DEFINE record == [ZeroMax EXCEPT !.account_discriminator = MaxTag,
                                     !.realm = Realm,
                                     !.governing_token_mint = Mint,
                                     !.max_voter_weight = 0,
                                     !.max_voter_weight_expiry = 0]
           zeroes == Repeat(0, MaxSpace)
<1>1. Save("max", "max", zeroes, MaxBytes(record), record)
  BY ZeroMaxDecoded DEF create_max_voter_weight_record
<1>2. {MaxTag, Realm, Mint, 0} \subseteq Byte
  BY ByteAssumption DEF Byte
<1>3. ZeroMax \in MaxFields
  BY ZeroMaxDecoded
<1>4. record \in MaxFields
  BY <1>2, <1>3 DEF MaxFields
<1> HIDE DEF record
<1>5. zeroes \in Seq(Byte) /\ Len(zeroes) = MaxSpace
  BY ZeroMaxDecoded
<1> HIDE DEF zeroes
<1> QED
  BY <1>1, <1>4, <1>5, SaveMax

\* Either update.
LEMMA Update ==
    ASSUME CodecInv, NEW account \in Account, NEW expiry \in Number,
           NEW action \in 0 .. 4 \union {None}, NEW target \in Target \union {None},
           update(account, expiry, action, target)
    PROVE  CodecInv'
<1> DEFINE buf == data["voter"]
           record == written["voter"]["voter"]
           renewed == Renew(record, expiry, action, target)
<1>1. account = "voter" /\ buf # <<>> /\ written["max"]["voter"] = None
  BY OnlyItsOwn DEF update
<1>2. buf \in Seq(Byte) /\ VoterHeld(buf, record) /\ record.governing_token_owner = owner
  BY <1>1 DEF CodecInv, VoterKept, Account
<1>3. VoterRecord(buf) = record
  BY <1>2, HeldIsRead
<1>4. Save("voter", "voter", buf, VoterBytes(renewed), renewed)
  BY <1>1, <1>3 DEF update
<1>5. 1 \in Byte /\ expiry \in Byte /\ expiry # None /\ target \in Byte \union {None}
  BY ByteAssumption DEF Byte
<1> HIDE DEF buf, record
<1>6. /\ renewed \in VoterFields
      /\ renewed.realm = Realm
      /\ renewed.governing_token_owner = owner
      /\ renewed.voter_weight_expiry # None
  BY <1>2, <1>5 DEF Renew, VoterHeld, VoterFields
<1>7. Len(buf) = VoterSpace
  BY <1>2 DEF VoterHeld
<1> HIDE DEF renewed
<1> QED
  BY <1>1, <1>2, <1>4, <1>6, <1>7, SaveVoter

\* close_voter_weight_record.
LEMMA CloseVoter ==
    ASSUME CodecInv, NEW account \in Account, close_voter_weight_record(account)
    PROVE  CodecInv'
<1>1. account = "voter"
  BY OnlyItsOwn DEF close_voter_weight_record
<1>2. /\ outcome' = "Ok" /\ owner' = owner
      /\ data' = [data EXCEPT !["voter"] = <<>>]
      /\ written' = [type \in Type |-> [written[type] EXCEPT !["voter"] = None]]
  BY <1>1 DEF close_voter_weight_record
<1>3. /\ data' \in [Account -> Seq(Byte)]
      /\ data'["voter"] = <<>>
      /\ data'["registrar"] = data["registrar"] /\ data'["max"] = data["max"]
  <2>1. <<>> \in Seq(Byte)
    OBVIOUS
  <2> QED
    BY <1>2, <2>1 DEF CodecInv, Account
<1>4. \A type \in Type : /\ written'[type] = [a \in Account |-> written'[type][a]]
                         /\ written'[type]["voter"] = None
                         /\ written'[type]["registrar"] = written[type]["registrar"]
                         /\ written'[type]["max"] = written[type]["max"]
  <2>1. \A type \in Type : written[type] = [a \in Account |-> written[type][a]]
    BY DEF CodecInv, IsWritten
  <2> QED
    BY <1>2, <2>1 DEF Account
<1>5. /\ IsWritten(written')
      /\ written'["max"]["voter"] = None
      /\ written'["voter"]["max"] = written["voter"]["max"]
      /\ written'["max"]["max"] = written["max"]["max"]
  BY <1>2, <1>4 DEF IsWritten, Type
<1>6. data'["max"] # <<>> => MaxHeld(data'["max"], written'["max"]["max"])
  BY <1>3, <1>5 DEF CodecInv
<1> QED
  BY <1>2, <1>3, <1>4, <1>5, <1>6 DEF CodecInv, VoterKept, Overwritten, VoterHeld, MaxHeld

\* update_max_voter_weight_record.
LEMMA UpdateMax ==
    ASSUME CodecInv, NEW account \in Account, NEW weight \in Number,
           update_max_voter_weight_record(account, weight)
    PROVE  CodecInv'
<1>1. weight \in Byte /\ weight > 0
  BY ByteAssumption DEF update_max_voter_weight_record
<1>2. Save("max", account, data[account], MaxBytes(Set(MaxRecord(data[account]), weight)),
           Set(MaxRecord(data[account]), weight))
  BY DEF update_max_voter_weight_record, Set
<1>3. \/ account = "max" /\ data["max"] # <<>>
      \/ account = "voter" /\ data["voter"] # <<>> /\ owner \in {0, 1}
  BY OnlyItsOwn DEF update_max_voter_weight_record
<1>4. CASE account = "max" /\ data["max"] # <<>>
  <2> DEFINE buf == data["max"]
             record == written["max"]["max"]
             set == Set(record, weight)
  <2>1. buf \in Seq(Byte) /\ MaxHeld(buf, record)
    BY <1>4 DEF CodecInv, Account
  <2>2. MaxRecord(buf) = record
    BY <2>1, HeldIsRead
  <2>3. Save("max", "max", buf, MaxBytes(set), set)
    BY <1>2, <1>4, <2>2
  <2> HIDE DEF buf, record
  <2>4. set \in MaxFields
    BY <1>1, <2>1 DEF Set, MaxHeld, MaxFields
  <2>5. Len(buf) = MaxSpace
    BY <2>1 DEF MaxHeld
  <2> HIDE DEF set
  <2> QED
    BY <2>1, <2>3, <2>4, <2>5, SaveMax
<1>5. CASE account = "voter" /\ data["voter"] # <<>> /\ owner \in {0, 1}
  <2> DEFINE buf == data["voter"]
             record == written["voter"]["voter"]
             old == written["max"]["voter"]
             set == Set(MaxRecord(buf), weight)
             new == Over(MaxBytes(set), buf)
  <2>1. buf \in Seq(Byte) /\ VoterKept(buf, record, old, owner)
    BY <1>5 DEF CodecInv, Account
  <2>2. MaxRecord(buf) # None
    BY <1>5 DEF update_max_voter_weight_record
  <2>3. Save("max", "voter", buf, MaxBytes(set), set)
    BY <1>2, <1>5
  <2> HIDE DEF buf, record, old
  <2>4. Overwrites(set, record)
    <3>1. set \in MaxFields /\ SameFront(set, record)
      <4>1. CASE old = None
        BY <1>1, <2>1, <2>2, <4>1, VoterAsMax DEF VoterKept
      <4>2. CASE old # None
        <5>1. MaxRecord(buf) = old /\ Overwrites(old, record)
          BY <2>1, <4>2, OverwrittenIs DEF VoterKept, Overwritten
        <5> QED
          BY <1>1, <5>1 DEF Overwrites, SameFront, Set, MaxFields
      <4> QED
        BY <4>1, <4>2
    <3>2. set.max_voter_weight = weight /\ set.max_voter_weight_expiry = None
      <4>1. set \in MaxFields
        BY <3>1
      <4>2. /\ "max_voter_weight" \in DOMAIN set
            /\ "max_voter_weight_expiry" \in DOMAIN set
        BY <4>1 DEF MaxFields
      <4> QED
        BY <4>2 DEF Set
    <3> HIDE DEF set
    <3> QED
      BY <1>1, <3>1, <3>2 DEF Overwrites
  <2> HIDE DEF set
  <2>5. ~(Len(MaxBytes(set)) > Len(buf)) /\ new \in Seq(Byte) /\ Overwritten(new, record, set)
    <3>1. CASE old = None
      <4>1. VoterHeld(buf, record)
        BY <2>1, <3>1 DEF VoterKept
      <4>2. ~(Len(MaxBytes(set)) > Len(buf)) /\ new \in Seq(Byte)
        BY <2>1, <2>4, <4>1, WrittenOver
      <4> QED
        BY <2>1, <2>4, <4>1, <4>2 DEF Overwritten
    <3>2. CASE old # None
      <4>1. Overwritten(buf, record, old)
        BY <2>1, <3>2 DEF VoterKept
      <4> QED
        BY <2>4, <4>1, OverwrittenAgain
    <3> QED
      BY <3>1, <3>2
  <2>6. /\ outcome' = "Ok" /\ owner' = owner
        /\ data' = [data EXCEPT !["voter"] = new]
        /\ written' = [written EXCEPT !["max"]["voter"] = set]
    BY <2>3, <2>5 DEF Save, Over
  <2>7. new # <<>>
    <3>1. PICK w \in Seq(Byte) : VoterHeld(w, record) /\ new = Over(MaxBytes(set), w)
      BY <2>5 DEF Overwritten
    <3>2. Elsewhere(Over(MaxBytes(set), w), w)
      BY <2>4, <3>1, WrittenOver
    <3> HIDE DEF new
    <3>3. Len(new) = 164
      BY <3>1, <3>2 DEF Elsewhere, VoterHeld, VoterSpace
    <3>4. ASSUME new = <<>> PROVE FALSE
      <4>1. Len(new) = 0
        BY <3>4
      <4> QED
        BY <3>3, <4>1
    <3> QED
      BY <3>4
  <2>8. record.governing_token_owner = owner
    BY <2>1 DEF VoterKept
  <2> HIDE DEF new
  <2> QED
    BY <1>5, <2>5, <2>6, <2>7, <2>8, SaveOver DEF record
<1> QED
  BY <1>3, <1>4, <1>5

\* The invariant is inductive.
THEOREM CodecInductive == CodecSpec => []CodecInv
<1>1. CodecInit => CodecInv
  BY CodecInitial
<1>2. CodecInv /\ [CodecNext]_codecVars => CodecInv'
  <2> SUFFICES ASSUME CodecInv, [CodecNext]_codecVars
               PROVE  CodecInv'
    OBVIOUS
  <2>1. CASE create_voter_weight_record
    BY <2>1, CreateVoter
  <2>2. CASE create_max_voter_weight_record
    BY <2>2, CreateMax
  <2>3. ASSUME NEW account \in Account, NEW n \in Number, update(account, n, None, None)
        PROVE  CodecInv'
    BY <2>3, Update
  <2>4. ASSUME NEW account \in Account, NEW n \in Number,
               NEW action \in 0 .. 4, NEW target \in Target,
               update(account, n, action, target)
        PROVE  CodecInv'
    BY <2>4, Update
  <2>5. ASSUME NEW account \in Account, NEW n \in Number,
               update_max_voter_weight_record(account, n)
        PROVE  CodecInv'
    BY <2>5, UpdateMax
  <2>6. ASSUME NEW account \in Account, close_voter_weight_record(account)
        PROVE  CodecInv'
    BY <2>6, CloseVoter
  <2>7. CASE UNCHANGED codecVars
    BY <2>7 DEF codecVars, CodecInv, VoterKept, Overwritten, VoterHeld, MaxHeld
  <2> QED
    BY <2>1, <2>2, <2>3, <2>4, <2>5, <2>6, <2>7 DEF CodecNext
<1> QED
  BY <1>1, <1>2, PTL DEF CodecSpec

\* Whatever sequence of creates, updates and closes wrote it, an account reads back as the
\* record last written to it; only if the voter's key reads as a tag can the voter's record
\* also be written as a max record, and then it reads back as both but for its owner.  For
\* all keys, numbers and targets.
THEOREM ReadsBackUnlessTagInvariant == CodecSpec => []ReadsBackUnlessTag
<1>1. CodecInv => ReadsBackUnlessTag
  <2> SUFFICES ASSUME CodecInv PROVE ReadsBackUnlessTag
    OBVIOUS
  <2> DEFINE buf == data["voter"]
             record == written["voter"]["voter"]
             set == written["max"]["voter"]
  <2>1. buf \in Seq(Byte) /\ data["max"] \in Seq(Byte)
    BY DEF CodecInv, Account
  <2>2. data["max"] # <<>> => MaxRecord(data["max"]) = written["max"]["max"]
    BY <2>1, HeldIsRead DEF CodecInv
  <2>3. ASSUME buf # <<>>
        PROVE  IF set = None
                 THEN VoterRecord(buf) = record
                 ELSE /\ owner \in {0, 1}
                      /\ MaxRecord(buf) = set
                      /\ VoterRecord(buf) = Lost(record)
    <3>1. VoterKept(buf, record, set, owner)
      BY <2>3 DEF CodecInv
    <3> HIDE DEF buf, record, set
    <3>2. CASE set = None
      BY <2>1, <3>1, <3>2, HeldIsRead DEF VoterKept
    <3>3. CASE set # None
      BY <3>1, <3>3, OverwrittenIs DEF VoterKept
    <3> QED
      BY <3>2, <3>3
  <2> QED
    BY <2>2, <2>3 DEF CodecInv, ReadsBackUnlessTag, Lost
<1> QED
  BY <1>1, CodecInductive, PTL

\* get_space is enough for every record: no save ever fails.
THEOREM AlwaysFitsInvariant == CodecSpec => []AlwaysFits
<1>1. CodecInv => AlwaysFits
  BY DEF CodecInv, AlwaysFits
<1> QED
  BY <1>1, CodecInductive, PTL

\* What a client reads of a voter's record.
Seen(buf, record) ==
    /\ ValueAt(buf, 8, 32) = Realm
    /\ ValueAt(buf, 104, 8) = record.voter_weight
    /\ OptionAt(buf, 112, 8) = record.voter_weight_expiry
    /\ OptionAt(buf, 121, 1) = record.weight_action
    /\ OptionAt(buf, IF record.weight_action = None THEN 122 ELSE 123, 32)
         = record.weight_action_target

\* A client that reads the records at fixed offsets sees what was written, but for the owner
\* of a record that was written as a max record too.
THEOREM ClientOffsetsInvariant == CodecSpec => []ClientOffsets
<1>1. ASSUME NEW buf \in Seq(Byte), NEW record, VoterHeld(buf, record)
      PROVE  Seen(buf, record) /\ ValueAt(buf, 72, 32) = record.governing_token_owner
  <2>1. PICK pos : Carries(VoterLayout, record, buf, pos)
    BY <1>1 DEF VoterHeld
  <2>2. buf \in Seq(Int) /\ record \in VoterFields /\ record.realm = Realm
        /\ record.voter_weight_expiry # None
    BY <1>1, BytesAreInts DEF VoterHeld
  <2> QED
    BY <2>1, <2>2, VoterPlaces DEF Seen
<1>2. ASSUME NEW buf \in Seq(Byte), NEW record, NEW set, Overwritten(buf, record, set)
      PROVE  Seen(buf, record)
  <2>1. PICK old \in Seq(Byte) : VoterHeld(old, record) /\ buf = Over(MaxBytes(set), old)
    BY <1>2 DEF Overwritten
  <2>2. Overwrites(set, record) /\ Len(old) = 164 /\ record.realm = Realm
    BY <1>2, <2>1 DEF Overwritten, VoterHeld, VoterSpace
  <2>3. Elsewhere(buf, old) /\ MaxRecord(buf) = set
    BY <2>1, <2>2, WrittenOver
  <2>4. Seen(old, record)
    BY <1>1, <2>1
  <2>5. ASSUME NEW o \in 104 .. 163, NEW n \in 1 .. 32
        PROVE  ValueAt(buf, o, n) = ValueAt(old, o, n) /\ OptionAt(buf, o, n) = OptionAt(old, o, n)
    BY <2>2, <2>3, ReadsElsewhere
  <2>6. /\ 104 \in 104 .. 163 /\ 112 \in 104 .. 163 /\ 121 \in 104 .. 163
        /\ 122 \in 104 .. 163 /\ 123 \in 104 .. 163
        /\ 1 \in 1 .. 32 /\ 8 \in 1 .. 32 /\ 32 \in 1 .. 32
    OBVIOUS
  <2>7. /\ ValueAt(buf, 104, 8) = ValueAt(old, 104, 8)
        /\ OptionAt(buf, 112, 8) = OptionAt(old, 112, 8)
        /\ OptionAt(buf, 121, 1) = OptionAt(old, 121, 1)
        /\ OptionAt(buf, 122, 32) = OptionAt(old, 122, 32)
        /\ OptionAt(buf, 123, 32) = OptionAt(old, 123, 32)
    BY <2>5, <2>6
  <2>8. ValueAt(buf, 8, 32) = Realm
    <3>1. ValueAt(buf, 8, 32) = ValueAt(old, 8, 32)
      <4>1. ASSUME NEW q \in 8 .. 39
            PROVE  ByteAt(buf, q) = ByteAt(old, q)
        <5>1. q + 1 \in 1 .. Len(old) /\ q + 1 <= 72
          BY <2>2
        <5>2. buf[q + 1] = old[q + 1] /\ Len(buf) = 164
          BY <2>2, <2>3, <5>1 DEF Elsewhere
        <5> QED
          BY <2>2, <5>2 DEF ByteAt
      <4>2. 8 \in 8 .. 39 /\ \A i \in 1 .. 32 - 1 : 8 + i \in 8 .. 39
        OBVIOUS
      <4>3. ByteAt(buf, 8) = ByteAt(old, 8)
        BY <4>1, <4>2
      <4>4. \A i \in 1 .. 32 - 1 : ByteAt(buf, 8 + i) = ByteAt(old, 8 + i)
        BY <4>1, <4>2
      <4> QED
        BY <4>3, <4>4 DEF ValueAt
    <3> QED
      BY <2>4, <3>1 DEF Seen
  <2> QED
    BY <2>4, <2>7, <2>8 DEF Seen
<1>3. CodecInv => ClientOffsets
  <2> SUFFICES ASSUME CodecInv PROVE ClientOffsets
    OBVIOUS
  <2>1. data["voter"] \in Seq(Byte) /\ data["max"] \in Seq(Byte)
    BY DEF CodecInv, Account
  <2>2. ASSUME data["voter"] # <<>>
        PROVE  /\ Seen(data["voter"], written["voter"]["voter"])
               /\ written["max"]["voter"] = None => ValueAt(data["voter"], 72, 32) = owner
    <3> DEFINE buf == data["voter"]
               record == written["voter"]["voter"]
               set == written["max"]["voter"]
    <3>1. buf \in Seq(Byte) /\ VoterKept(buf, record, set, owner)
      BY <2>1, <2>2 DEF CodecInv
    <3> HIDE DEF buf, record, set
    <3>2. CASE set = None
      BY <1>1, <3>1, <3>2 DEF VoterKept, buf, record, set
    <3>3. CASE set # None
      BY <1>2, <3>1, <3>3 DEF VoterKept, buf, record, set
    <3> QED
      BY <3>2, <3>3
  <2>3. ASSUME data["max"] # <<>>
        PROVE  /\ ValueAt(data["max"], 72, 8) = written["max"]["max"].max_voter_weight
               /\ OptionAt(data["max"], 80, 8) = written["max"]["max"].max_voter_weight_expiry
    <3>1. MaxHeld(data["max"], written["max"]["max"]) /\ data["max"] \in Seq(Int)
      BY <2>1, <2>3, BytesAreInts DEF CodecInv
    <3> QED
      BY <3>1, MaxPlaces DEF MaxHeld
  <2> QED
    BY <2>2, <2>3 DEF ClientOffsets, Seen
<1> QED
  BY <1>3, CodecInductive, PTL
=============================================================================
