--------------------------- MODULE SchedulerProofs ---------------------------
(***************************************************************************)
(* Machine-checked properties of Scheduler, for every graph of threads and *)
(* every size of the queues.                                               *)
(***************************************************************************)
EXTENDS Scheduler, FiniteSetTheorems, SequenceTheorems, WellFoundedInduction, TLAPS

(* Induction over a set of naturals.                                       *)
LEMMA NatSet ==
  ASSUME NEW S \in SUBSET Nat, 0 \in S, \A n \in S : n + 1 \in S
  PROVE  S = Nat
<1>1. SUFFICES ASSUME Nat \ S # {} PROVE FALSE
    OBVIOUS
<1>2. PICK x \in Nat \ S : \A y \in Nat \ S : ~ (<<y, x>> \in OpToRel(<, Nat))
    BY <1>1, NatLessThanWellFounded, WFMin
<1>3. x # 0 /\ x - 1 \in Nat /\ x - 1 < x
    OBVIOUS
<1>4. x - 1 \in S
    BY <1>2, <1>3 DEF OpToRel
<1>5. x - 1 + 1 = x
    OBVIOUS
<1>6. QED
    BY <1>2, <1>4, <1>5

(* A finite set that is not empty has an element of least value.           *)
LEMMA LeastAt ==
  ASSUME NEW T, NEW v \in [T -> Int], IsFiniteSet(T), T # {}
  PROVE  \E t \in T : \A u \in T : v[t] <= v[u]
<1> DEFINE S == {n \in Nat : \A U \in SUBSET T :
                   (IsFiniteSet(U) /\ Cardinality(U) = n + 1) => \E t \in U : \A u \in U : v[t] <= v[u]}
<1>1. 0 \in S
    <2>1. SUFFICES ASSUME NEW U \in SUBSET T, IsFiniteSet(U), Cardinality(U) = 1
                   PROVE  \E t \in U : \A u \in U : v[t] <= v[u]
        OBVIOUS
    <2>2. PICK x : U = {x}
        BY <2>1, FS_Singleton
    <2>3. v[x] \in Int
        BY <2>2
    <2>4. QED
        BY <2>2, <2>3
<1>2. ASSUME NEW n \in S PROVE n + 1 \in S
    <2>1. SUFFICES ASSUME NEW U \in SUBSET T, IsFiniteSet(U), Cardinality(U) = n + 1 + 1
                   PROVE  \E t \in U : \A u \in U : v[t] <= v[u]
        OBVIOUS
    <2>2. U # {}
        BY <2>1, FS_EmptySet
    <2>3. PICK x \in U : TRUE
        BY <2>2
    <2>4. IsFiniteSet(U \ {x}) /\ Cardinality(U \ {x}) = Cardinality(U) - 1
        BY <2>1, FS_RemoveElement
    <2>5. Cardinality(U \ {x}) = n + 1
        BY <2>1, <2>4
    <2>6. PICK t \in U \ {x} : \A u \in U \ {x} : v[t] <= v[u]
        BY <2>4, <2>5
    <2>7. v[t] \in Int /\ v[x] \in Int /\ \A u \in U : v[u] \in Int
        BY <2>3, <2>6
    <2>8. CASE v[t] <= v[x]
        BY <2>6, <2>8
    <2>9. CASE ~(v[t] <= v[x])
        <3>1. \A u \in U : v[x] <= v[u]
            BY <2>6, <2>7, <2>9
        <3>2. QED
            BY <3>1
    <2>10. QED
        BY <2>8, <2>9
<1> HIDE DEF S
<1>3. S = Nat
    <2>1. S \in SUBSET Nat
        BY DEF S
    <2>2. QED
        BY <1>1, <1>2, <2>1, NatSet
<1>4. Cardinality(T) \in Nat /\ Cardinality(T) # 0
    BY FS_CardinalityType, FS_EmptySet
<1>5. Cardinality(T) - 1 \in Nat /\ Cardinality(T) = Cardinality(T) - 1 + 1
    BY <1>4
<1>6. QED
    BY <1>3, <1>5 DEF S

(* A finite set of integers that is not empty has a least element. *)
LEMMA LeastOf ==
  ASSUME NEW T \in SUBSET Int, IsFiniteSet(T), T # {}
  PROVE  \E t \in T : \A u \in T : t <= u
<1> DEFINE v == [t \in T |-> t]
<1>1. v \in [T -> Int] /\ \A t \in T : v[t] = t
    OBVIOUS
<1> HIDE DEF v
<1>2. PICK t \in T : \A u \in T : v[t] <= v[u]
    BY <1>1, LeastAt
<1>3. QED
    BY <1>1, <1>2

(* A finite set makes a sequence of its elements.                          *)
LEMMA SetToSeqType ==
  ASSUME NEW S, IsFiniteSet(S)
  PROVE  SetToSeq(S) \in Seq(S)
<1>1. Cardinality(S) \in Nat /\ ExistsBijection(1 .. Cardinality(S), S)
    BY FS_CardinalityType
<1>2. \E f \in [1 .. Cardinality(S) -> S] : IsInjective(f)
    BY <1>1 DEF ExistsBijection, Bijection, Injection
<1>3. SetToSeq(S) \in [1 .. Cardinality(S) -> S]
    BY <1>2 DEF SetToSeq
<1>4. QED
    BY <1>1, <1>3

(* The elements of flat are those of the first n parts of s: row and col   *)
(* tell of each the part and the place it comes from; every place is met   *)
(* exactly once.                                                           *)
Locates(s, n, flat, row, col) ==
  /\ \A p \in DOMAIN flat :
       /\ row[p] \in 1 .. n /\ col[p] \in 1 .. Len(s[row[p]])
       /\ flat[p] = s[row[p]][col[p]]
  /\ \A p, q \in DOMAIN flat : (row[p] = row[q] /\ col[p] = col[q]) => p = q
  /\ \A i \in 1 .. n : \A j \in 1 .. Len(s[i]) : \E p \in DOMAIN flat : row[p] = i /\ col[p] = j

(* The place of every element is known one sequence further on. *)
LEMMA LocatesNext ==
  ASSUME NEW T, NEW s \in Seq(Seq(T)), NEW n \in 1 .. Len(s) - 1, NEW flat \in Seq(T),
         NEW row, NEW col, Locates(s, n, flat, row, col)
  PROVE  \E row2, col2 : Locates(s, n + 1, flat \o s[n + 1], row2, col2)
<1> DEFINE a == Len(flat)
           b == Len(s[n + 1])
           row2 == [p \in 1 .. a + b |-> IF p <= a THEN row[p] ELSE n + 1]
           col2 == [p \in 1 .. a + b |-> IF p <= a THEN col[p] ELSE p - a]
           flat2 == flat \o s[n + 1]
<1>1. /\ n + 1 \in 1 .. Len(s) /\ s[n + 1] \in Seq(T) /\ a \in Nat /\ b \in Nat /\ n \in Nat
      /\ DOMAIN flat = 1 .. a
    <2>1. n + 1 \in 1 .. Len(s) /\ n \in Nat
        OBVIOUS
    <2>2. s[n + 1] \in Seq(T)
        BY <2>1, ElementOfSeq
    <2>3. QED
        BY <2>1, <2>2
<1>2. /\ DOMAIN flat2 = 1 .. a + b
      /\ \A p \in 1 .. a : flat2[p] = flat[p]
      /\ \A p \in a + 1 .. a + b : flat2[p] = s[n + 1][p - a]
    <2>1. flat2 \in Seq(T) /\ Len(flat2) = a + b
          /\ \A p \in 1 .. a + b : flat2[p] = IF p <= a THEN flat[p] ELSE s[n + 1][p - a]
        BY <1>1, ConcatProperties
    <2> HIDE DEF flat2, a, b
    <2>2. DOMAIN flat2 = 1 .. a + b
        BY <2>1
    <2>3. (1 .. a) \subseteq 1 .. a + b /\ (a + 1 .. a + b) \subseteq 1 .. a + b
        BY <1>1
    <2>4. ASSUME NEW p \in 1 .. a PROVE flat2[p] = flat[p]
        <3>1. p <= a
            BY <1>1
        <3>2. QED
            BY <2>1, <2>3, <3>1
    <2>5. ASSUME NEW p \in a + 1 .. a + b PROVE flat2[p] = s[n + 1][p - a]
        <3>1. ~(p <= a)
            BY <1>1
        <3>2. QED
            BY <2>1, <2>3, <3>1
    <2>6. QED
        BY <2>2, <2>4, <2>5
<1>3. /\ \A p \in 1 .. a : row2[p] = row[p] /\ col2[p] = col[p]
      /\ \A p \in a + 1 .. a + b : row2[p] = n + 1 /\ col2[p] = p - a
    BY <1>1, SMTT(30)
<1>4. \A p \in 1 .. a : row[p] \in 1 .. n /\ col[p] \in 1 .. Len(s[row[p]])
                        /\ flat[p] = s[row[p]][col[p]]
    BY <1>1 DEF Locates
<1>h. 1 .. a + b = (1 .. a) \cup (a + 1 .. a + b) /\ (1 .. n) \subseteq 1 .. n + 1
    BY <1>1
<1> HIDE DEF row2, col2, flat2, a, b
<1>5. ASSUME NEW p \in DOMAIN flat2
      PROVE  /\ row2[p] \in 1 .. n + 1 /\ col2[p] \in 1 .. Len(s[row2[p]])
             /\ flat2[p] = s[row2[p]][col2[p]]
    <2>1. CASE p \in 1 .. a
        BY <1>2, <1>3, <1>4, <1>h, <2>1
    <2>2. CASE p \in a + 1 .. a + b
        <3>1. row2[p] = n + 1 /\ col2[p] = p - a /\ flat2[p] = s[n + 1][p - a]
            BY <1>2, <1>3, <2>2
        <3>2. p - a \in 1 .. b /\ n + 1 \in 1 .. n + 1
            BY <1>1, <2>2
        <3>3. QED
            BY <3>1, <3>2 DEF b
    <2>3. QED
        BY <1>h, <1>2, <2>1, <2>2
<1>6. ASSUME NEW p \in DOMAIN flat2, NEW q \in DOMAIN flat2, row2[p] = row2[q], col2[p] = col2[q]
      PROVE  p = q
    <2>1. CASE p \in 1 .. a /\ q \in 1 .. a
        <3>1. row[p] = row[q] /\ col[p] = col[q]
            BY <1>3, <1>6, <2>1
        <3>2. p \in DOMAIN flat /\ q \in DOMAIN flat
            BY <1>1, <2>1
        <3>3. QED
            BY <3>1, <3>2 DEF Locates
    <2>2. CASE p \in a + 1 .. a + b /\ q \in a + 1 .. a + b
        <3>1. p - a = q - a
            BY <1>3, <1>6, <2>2
        <3>2. QED
            BY <1>1, <2>2, <3>1
    <2>3. ASSUME NEW x \in 1 .. a, NEW y \in a + 1 .. a + b PROVE row2[x] # row2[y]
        <3>1. row2[x] \in 1 .. n /\ row2[y] = n + 1
            BY <1>3, <1>4
        <3>2. QED
            BY <1>1, <3>1
    <2>4. QED
        BY <1>h, <1>2, <1>6, <2>1, <2>2, <2>3
<1>7. ASSUME NEW i \in 1 .. n + 1, NEW j \in 1 .. Len(s[i])
      PROVE  \E p \in DOMAIN flat2 : row2[p] = i /\ col2[p] = j
    <2>1. CASE i \in 1 .. n
        <3>1. PICK p \in DOMAIN flat : row[p] = i /\ col[p] = j
            BY <2>1 DEF Locates
        <3>2. p \in 1 .. a
            BY <1>1
        <3>3. QED
            BY <1>h, <1>2, <1>3, <3>1, <3>2
    <2>2. CASE i = n + 1
        <3>1. j \in 1 .. b
            BY <2>2 DEF b
        <3>2. PICK p \in a + 1 .. a + b : p - a = j
            <4> DEFINE q == j + a
            <4>1. q \in a + 1 .. a + b /\ q - a = j
                BY <1>1, <3>1
            <4> HIDE DEF q
            <4>2. QED
                BY <4>1
        <3>3. row2[p] = n + 1 /\ col2[p] = p - a
            BY <1>3
        <3>4. p \in DOMAIN flat2
            BY <1>h, <1>2
        <3>5. QED
            BY <2>2, <3>2, <3>3, <3>4
    <2>3. QED
        BY <1>1, <2>1, <2>2
<1>8. Locates(s, n + 1, flat2, row2, col2)
    BY <1>5, <1>6, <1>7 DEF Locates
<1>9. QED
    BY <1>8 DEF flat2

Flattening(s, n, f) == f = [i \in 1 .. n |-> IF i = 1 THEN s[i] ELSE f[i - 1] \o s[i]]

(* Sequences of sequences can be flattened one after the other. *)
LEMMA FlatteningExists ==
  ASSUME NEW s, NEW l \in Nat \ {0}
  PROVE  \E f : Flattening(s, l, f)
<1> DEFINE S == {n \in Nat : \E f : Flattening(s, n + 1, f)}
<1>1. 0 \in S
    <2> DEFINE f == [i \in 1 .. 1 |-> s[1]]
    <2>1. f = [i \in 1 .. 1 |-> IF i = 1 THEN s[i] ELSE f[i - 1] \o s[i]]
        OBVIOUS
    <2> HIDE DEF f
    <2>2. Flattening(s, 0 + 1, f)
        BY <2>1 DEF Flattening
    <2>3. QED
        BY <2>2
<1>2. ASSUME NEW n \in S PROVE n + 1 \in S
    <2>1. SUFFICES \E f : Flattening(s, n + 1 + 1, f)
        OBVIOUS
    <2>2. PICK f : Flattening(s, n + 1, f)
        OBVIOUS
    <2> DEFINE g == [i \in 1 .. n + 1 + 1 |-> IF i <= n + 1 THEN f[i] ELSE f[n + 1] \o s[i]]
    <2>3. n \in Nat
        OBVIOUS
    <2>4. \A i \in 1 .. n + 1 : g[i] = f[i]
        BY <2>3
    <2>5. g[n + 1 + 1] = f[n + 1] \o s[n + 1 + 1]
        <3>1. n + 1 + 1 \in 1 .. n + 1 + 1 /\ ~(n + 1 + 1 <= n + 1)
            BY <2>3
        <3>2. QED
            BY <3>1
    <2>6. DOMAIN g = 1 .. n + 1 + 1 /\ g = [i \in 1 .. n + 1 + 1 |-> g[i]]
        OBVIOUS
    <2> HIDE DEF g
    <2>7. ASSUME NEW i \in 1 .. n + 1 + 1 PROVE g[i] = IF i = 1 THEN s[i] ELSE g[i - 1] \o s[i]
        <3>1. CASE i <= n + 1
            <4>1. i \in 1 .. n + 1 /\ (i # 1 => i - 1 \in 1 .. n + 1)
                BY <2>3, <3>1
            <4>2. f[i] = IF i = 1 THEN s[i] ELSE f[i - 1] \o s[i]
                BY <2>2, <4>1 DEF Flattening
            <4>3. QED
                BY <2>4, <4>1, <4>2
        <3>2. CASE i = n + 1 + 1
            <4>1. i # 1 /\ i - 1 = n + 1 /\ n + 1 \in 1 .. n + 1
                BY <2>3, <3>2
            <4>2. g[n + 1] = f[n + 1]
                BY <2>4, <4>1
            <4>3. QED
                BY <2>5, <3>2, <4>1, <4>2
        <3>3. QED
            BY <2>3, <3>1, <3>2
    <2>8. Flattening(s, n + 1 + 1, g)
        BY <2>6, <2>7 DEF Flattening
    <2>9. QED
        BY <2>8
<1>3. S = Nat
    <2>1. S \in SUBSET Nat
        OBVIOUS
    <2> HIDE DEF S
    <2>2. QED
        BY <1>1, <1>2, <2>1, NatSet
<1>4. l - 1 \in Nat /\ l - 1 + 1 = l
    OBVIOUS
<1>5. \E f : Flattening(s, l - 1 + 1, f)
    BY <1>3, <1>4
<1>6. QED
    BY <1>4, <1>5

(* FlattenSeq gives the parts of a sequence one after the other.           *)
LEMMA FlattenLocates ==
  ASSUME NEW T, NEW s \in Seq(Seq(T))
  PROVE  /\ FlattenSeq(s) \in Seq(T)
         /\ \E row, col : Locates(s, Len(s), FlattenSeq(s), row, col)
<1>0. Len(s) \in Nat
    OBVIOUS
<1>1. CASE Len(s) = 0
    <2>1. s = <<>> /\ FlattenSeq(s) = <<>>
        BY <1>1 DEF FlattenSeq
    <2>2. Locates(s, Len(s), FlattenSeq(s), <<>>, <<>>)
        <3>1. 1 .. Len(s) = {} /\ DOMAIN FlattenSeq(s) = {}
            BY <1>1, <2>1
        <3>2. QED
            BY <3>1 DEF Locates
    <2>3. FlattenSeq(s) \in Seq(T)
        BY <2>1, EmptySeq
    <2>4. QED
        BY <2>2, <2>3
<1>2. CASE Len(s) # 0
    <2> DEFINE flatten == CHOOSE f : Flattening(s, Len(s), f)
    <2>1. Flattening(s, Len(s), flatten)
        BY <1>0, <1>2, FlatteningExists
    <2>2. FlattenSeq(s) = flatten[Len(s)]
        BY <1>2 DEF FlattenSeq, Flattening
    <2> HIDE DEF flatten
    <2>3. \A i \in 1 .. Len(s) : flatten[i] = IF i = 1 THEN s[i] ELSE flatten[i - 1] \o s[i]
        BY <2>1 DEF Flattening
    <2> DEFINE Known(n) == /\ flatten[n] \in Seq(T)
                           /\ \E row, col : Locates(s, n, flatten[n], row, col)
               S == {n \in Nat : n + 1 <= Len(s) => Known(n + 1)}
    <2>4. 0 \in S
        <3>1. 1 \in 1 .. Len(s)
            BY <1>0, <1>2
        <3>2. s[1] \in Seq(T)
            BY <3>1, ElementOfSeq
        <3>3. flatten[1] = s[1]
            BY <2>3, <3>1
        <3> DEFINE row == [p \in DOMAIN s[1] |-> 1]
                   col == [p \in DOMAIN s[1] |-> p]
        <3>4. \A p \in DOMAIN s[1] : row[p] = 1 /\ col[p] = p
            OBVIOUS
        <3>5. DOMAIN s[1] = 1 .. Len(s[1]) /\ 1 .. 1 = {1}
            BY <3>2
        <3> HIDE DEF row, col
        <3>6. Locates(s, 1, s[1], row, col)
            BY <3>4, <3>5 DEF Locates
        <3>7. Known(1)
            BY <3>2, <3>3, <3>6
        <3> HIDE DEF Known
        <3>8. QED
            BY <3>7
    <2>5. ASSUME NEW n \in S PROVE n + 1 \in S
        <3>1. SUFFICES ASSUME n + 1 + 1 <= Len(s) PROVE Known(n + 1 + 1)
            BY <2>5
        <3>2. /\ n + 1 \in 1 .. Len(s) - 1 /\ n + 1 + 1 \in 1 .. Len(s) /\ n + 1 + 1 # 1
              /\ n + 1 + 1 - 1 = n + 1 /\ n + 1 <= Len(s)
            BY <1>0, <3>1
        <3>3. Known(n + 1)
            BY <3>2
        <3>4. PICK row, col : Locates(s, n + 1, flatten[n + 1], row, col)
            BY <3>3
        <3>5. flatten[n + 1 + 1] = flatten[n + 1] \o s[n + 1 + 1]
            <4>1. \A k \in 1 .. Len(s) : k # 1 => flatten[k] = flatten[k - 1] \o s[k]
                BY <2>3
            <4>2. PICK k \in 1 .. Len(s) : k = n + 1 + 1
                BY <3>2
            <4>3. flatten[k] = flatten[k - 1] \o s[k]
                BY <3>2, <4>1, <4>2
            <4>4. k - 1 = n + 1
                BY <3>2, <4>2
            <4>5. QED
                BY <4>2, <4>3, <4>4, Zenon
        <3>6. s[n + 1 + 1] \in Seq(T)
            BY <3>2, ElementOfSeq
        <3>7. flatten[n + 1 + 1] \in Seq(T)
            BY <3>3, <3>5, <3>6, ConcatProperties
        <3>8. \E row2, col2 : Locates(s, n + 1 + 1, flatten[n + 1] \o s[n + 1 + 1], row2, col2)
            BY <3>2, <3>3, <3>4, LocatesNext
        <3>9. QED
            BY <3>5, <3>7, <3>8
    <2> HIDE DEF Known
    <2>6. S = Nat
        <3>1. S \in SUBSET Nat
            OBVIOUS
        <3> HIDE DEF S
        <3>2. QED
            BY <2>4, <2>5, <3>1, NatSet
    <2>7. Len(s) - 1 \in Nat /\ Len(s) - 1 + 1 = Len(s)
        BY <1>0, <1>2
    <2>8. Len(s) - 1 \in S
        BY <2>6, <2>7
    <2>9. Known(Len(s))
        BY <1>0, <2>7, <2>8
    <2>10. QED
        BY <2>2, <2>9 DEF Known
<1>3. QED
    BY <1>1, <1>2

Dests == DOMAIN graph.src
GraphIs == \E name \in DOMAIN Graphs : graph = Built(name)

(* Building the state of a graph keeps its description, which is well typed. *)
LEMMA BuiltFacts ==
  ASSUME NEW name \in DOMAIN Graphs, graph = Built(name)
  PROVE  LET g == Graphs[name]
         IN  /\ GraphTypeOK(g)
             /\ graph.name = name /\ graph.kind = g.kind /\ graph.out = g.out /\ graph.file = g.file
             /\ graph.gen = g.gen /\ graph.trim = g.trim /\ graph.limit = g.limit
             /\ Nodes = DOMAIN g.kind
             /\ \A kind \in Kinds : OfKind(kind) = {n \in Nodes : graph.kind[n] = kind}
             /\ \A n \in Nodes : Dsts(n) = FlattenSeq(graph.out[n])
             /\ Dests = UNION {Range(Dsts(n)) : n \in Nodes}
             /\ \A n \in Nodes : Inputs(n) = {dst[2] : dst \in {d \in Dests : d[1] = n}}
             /\ Streams = {dst \in Dests : graph.kind[dst[1]] = "mux"}
             /\ \A dst \in Dests : SrcOf(dst) = CHOOSE n \in Nodes : dst \in Range(Dsts(n))
<1> DEFINE g == Graphs[name]
           dsts == [n \in DOMAIN g.kind |-> FlattenSeq(g.out[n])]
           all == UNION {Range(dsts[n]) : n \in DOMAIN g.kind}
<1>1. GraphTypeOK(g)
    BY GraphsAssumption
<1>2. /\ graph.name = name /\ graph.kind = g.kind /\ graph.out = g.out /\ graph.file = g.file
      /\ graph.gen = g.gen /\ graph.trim = g.trim /\ graph.limit = g.limit
      /\ graph.dsts = dsts
      /\ graph.of = [kind \in Kinds |-> {n \in DOMAIN g.kind : g.kind[n] = kind}]
      /\ graph.streams = {dst \in all : g.kind[dst[1]] = "mux"}
      /\ graph.inputs = [n \in DOMAIN g.kind |-> {dst[2] : dst \in {d \in all : d[1] = n}}]
      /\ graph.src = [dst \in all |-> CHOOSE n \in DOMAIN g.kind : dst \in Range(dsts[n])]
    BY DEF Built
<1>3. Nodes = DOMAIN g.kind /\ \A n \in Nodes : Dsts(n) = dsts[n]
    BY <1>2 DEF Nodes, Dsts
<1>4. Dests = all
    BY <1>2 DEF Dests
<1>5. all = UNION {Range(Dsts(n)) : n \in Nodes}
    BY <1>3
<1>6. \A n \in Nodes : Dsts(n) = FlattenSeq(graph.out[n])
    BY <1>2, <1>3
<1> HIDE DEF all
<1>7. \A kind \in Kinds : OfKind(kind) = {n \in Nodes : graph.kind[n] = kind}
    BY <1>2, <1>3 DEF OfKind
<1>8. \A n \in Nodes : Inputs(n) = {dst[2] : dst \in {d \in Dests : d[1] = n}}
    BY <1>2, <1>3, <1>4 DEF Inputs
<1>9. Streams = {dst \in Dests : graph.kind[dst[1]] = "mux"}
    BY <1>2, <1>4 DEF Streams
<1>10. \A dst \in Dests : SrcOf(dst) = CHOOSE n \in Nodes : dst \in Range(Dsts(n))
    <2>1. ASSUME NEW dst \in Dests PROVE SrcOf(dst) = CHOOSE n \in Nodes : dst \in Range(Dsts(n))
        <3>1. SrcOf(dst) = CHOOSE n \in DOMAIN g.kind : dst \in Range(dsts[n])
            BY <1>2, <1>4 DEF SrcOf
        <3>2. \A n \in DOMAIN g.kind : (dst \in Range(dsts[n])) <=> (dst \in Range(Dsts(n)))
            BY <1>3
        <3>3. (CHOOSE n \in DOMAIN g.kind : dst \in Range(dsts[n]))
              = (CHOOSE n \in DOMAIN g.kind : dst \in Range(Dsts(n)))
            BY <1>3, Zenon
        <3>4. QED
            BY <1>3, <3>1, <3>3
    <2>2. QED
        BY <2>1
<1>11. QED
    BY <1>1, <1>2, <1>3, <1>4, <1>5, <1>6, <1>7, <1>8, <1>9, <1>10

(* What GraphTypeOK says of the graph that was built.                      *)
LEMMA GraphShape ==
  ASSUME GraphIs
  PROVE  /\ IsFiniteSet(Nodes) /\ graph.limit \in Nat
         /\ \A n \in Nodes : graph.kind[n] \in Kinds /\ graph.out[n] \in Seq(Seq(Nodes \X Nat))
         /\ \A n \in Nodes : \A o \in 1 .. Len(graph.out[n]) : graph.out[n][o] # <<>>
         /\ \A n \in Nodes : \A o \in 1 .. Len(graph.out[n]) : \A k \in 1 .. Len(graph.out[n][o]) :
              /\ <<graph.kind[n], graph.kind[graph.out[n][o][k][1]]>> \in Ways
              /\ graph.kind[graph.out[n][o][k][1]] \in {"dec", "enc"} => graph.out[n][o][k][2] = 1
              /\ graph.kind[graph.out[n][o][k][1]] = "filter" =>
                   graph.trim[graph.out[n][o][k][1]][graph.out[n][o][k][2]] \in Nat
         /\ \A n \in Nodes :
              /\ graph.kind[n] = "enc" => Len(graph.out[n]) = 1
              /\ graph.kind[n] = "demux" => graph.file[n] \in Seq((1 .. Len(graph.out[n])) \X Nat)
              /\ graph.kind[n] = "filter" => graph.gen[n] \in Nat
<1>1. PICK name \in DOMAIN Graphs : graph = Built(name)
    BY DEF GraphIs
<1> DEFINE g == Graphs[name]
<1>2. GraphTypeOK(g)
    BY <1>1, BuiltFacts
<1>3. /\ graph.kind = g.kind /\ graph.out = g.out /\ graph.file = g.file /\ graph.gen = g.gen
      /\ graph.trim = g.trim /\ graph.limit = g.limit /\ Nodes = DOMAIN g.kind
    BY <1>1, BuiltFacts, SMTT(30)
<1> HIDE DEF g
<1>4. IsFiniteSet(Nodes) /\ graph.limit \in Nat
    <2>1. IsFiniteSet(DOMAIN g.kind) /\ g.limit \in Nat
        BY <1>2, Zenon DEF GraphTypeOK
    <2>2. QED
        BY <1>3, <2>1
<1>5. ASSUME NEW n \in Nodes
      PROVE  /\ graph.kind[n] \in Kinds /\ graph.out[n] \in Seq(Seq(Nodes \X Nat))
             /\ graph.kind[n] = "enc" => Len(graph.out[n]) = 1
             /\ graph.kind[n] = "demux" => graph.file[n] \in Seq((1 .. Len(graph.out[n])) \X Nat)
             /\ graph.kind[n] = "filter" => graph.gen[n] \in Nat
    BY <1>2, <1>3, ZenonT(30) DEF GraphTypeOK
<1>6. ASSUME NEW n \in Nodes, NEW o \in 1 .. Len(graph.out[n])
      PROVE  graph.out[n][o] # <<>>
    <2>1. \A a \in DOMAIN g.kind : \A b \in 1 .. Len(g.out[a]) : g.out[a][b] # <<>>
        BY <1>2, Zenon DEF GraphTypeOK
    <2>2. QED
        BY <1>3, <2>1
<1>7. ASSUME NEW n \in Nodes, NEW o \in 1 .. Len(graph.out[n]), NEW k \in 1 .. Len(graph.out[n][o])
      PROVE  /\ <<graph.kind[n], graph.kind[graph.out[n][o][k][1]]>> \in Ways
             /\ graph.kind[graph.out[n][o][k][1]] \in {"dec", "enc"} => graph.out[n][o][k][2] = 1
             /\ graph.kind[graph.out[n][o][k][1]] = "filter" =>
                  graph.trim[graph.out[n][o][k][1]][graph.out[n][o][k][2]] \in Nat
    <2>1. \A a \in DOMAIN g.kind : \A b \in 1 .. Len(g.out[a]) : \A c \in 1 .. Len(g.out[a][b]) :
            /\ <<g.kind[a], g.kind[g.out[a][b][c][1]]>> \in Ways
            /\ g.kind[g.out[a][b][c][1]] \in {"dec", "enc"} => g.out[a][b][c][2] = 1
            /\ g.kind[g.out[a][b][c][1]] = "filter" =>
                 g.trim[g.out[a][b][c][1]][g.out[a][b][c][2]] \in Nat
        BY <1>2, Zenon DEF GraphTypeOK
    <2>2. n \in DOMAIN g.kind /\ o \in 1 .. Len(g.out[n]) /\ k \in 1 .. Len(g.out[n][o])
        BY <1>3
    <2>3. /\ <<g.kind[n], g.kind[g.out[n][o][k][1]]>> \in Ways
          /\ g.kind[g.out[n][o][k][1]] \in {"dec", "enc"} => g.out[n][o][k][2] = 1
          /\ g.kind[g.out[n][o][k][1]] = "filter" =>
               g.trim[g.out[n][o][k][1]][g.out[n][o][k][2]] \in Nat
        BY <2>1, <2>2, Zenon
    <2>4. QED
        BY <1>3, <2>3, Zenon
<1>8. QED
    BY <1>4, <1>5, <1>6, <1>7, Zenon

(* A destination is sent to from one place of one output of one thread. *)
LEMMA OnePlace ==
  ASSUME GraphIs
  PROVE  \A m, n \in Nodes : \A o \in 1 .. Len(graph.out[m]), p \in 1 .. Len(graph.out[n]) :
           \A k \in 1 .. Len(graph.out[m][o]), l \in 1 .. Len(graph.out[n][p]) :
             graph.out[m][o][k] = graph.out[n][p][l] => m = n /\ o = p /\ k = l
<1>1. PICK name \in DOMAIN Graphs : graph = Built(name)
    BY DEF GraphIs
<1> DEFINE g == Graphs[name]
<1>2. GraphTypeOK(g)
    BY <1>1, BuiltFacts
<1>3. graph.out = g.out /\ Nodes = DOMAIN g.kind
    BY <1>1, BuiltFacts
<1>4. \A a, b \in DOMAIN g.kind : \A c \in 1 .. Len(g.out[a]), d \in 1 .. Len(g.out[b]) :
        \A e \in 1 .. Len(g.out[a][c]), f \in 1 .. Len(g.out[b][d]) :
          g.out[a][c][e] = g.out[b][d][f] => a = b /\ c = d /\ e = f
    BY <1>2, Zenon DEF GraphTypeOK
<1> HIDE DEF g
<1>5. SUFFICES ASSUME NEW m \in Nodes, NEW n \in Nodes,
                      NEW o \in 1 .. Len(graph.out[m]), NEW p \in 1 .. Len(graph.out[n]),
                      NEW k \in 1 .. Len(graph.out[m][o]), NEW l \in 1 .. Len(graph.out[n][p]),
                      graph.out[m][o][k] = graph.out[n][p][l]
               PROVE  m = n /\ o = p /\ k = l
    OBVIOUS
<1>6. /\ m \in DOMAIN g.kind /\ n \in DOMAIN g.kind
      /\ o \in 1 .. Len(g.out[m]) /\ p \in 1 .. Len(g.out[n])
      /\ k \in 1 .. Len(g.out[m][o]) /\ l \in 1 .. Len(g.out[n][p])
      /\ g.out[m][o][k] = g.out[n][p][l]
    BY <1>3, <1>5
<1>7. \A c \in 1 .. Len(g.out[m]), d \in 1 .. Len(g.out[n]) :
        \A e \in 1 .. Len(g.out[m][c]), f \in 1 .. Len(g.out[n][d]) :
          g.out[m][c][e] = g.out[n][d][f] => m = n /\ c = d /\ e = f
    BY <1>4, <1>6, Zenon
<1>8. \A e \in 1 .. Len(g.out[m][o]), f \in 1 .. Len(g.out[n][p]) :
        g.out[m][o][e] = g.out[n][p][f] => m = n /\ o = p /\ e = f
    BY <1>6, <1>7, ZenonT(30)
<1>9. QED
    BY <1>6, <1>8, Zenon

(* What Built adds to it.                                                  *)
LEMMA GraphMakes ==
  ASSUME GraphIs
  PROVE  /\ graph.name \in DOMAIN Graphs
         /\ \A kind \in Kinds : OfKind(kind) = {n \in Nodes : graph.kind[n] = kind}
         /\ \A n \in Nodes : Dsts(n) = FlattenSeq(graph.out[n])
         /\ Dests = UNION {Range(Dsts(n)) : n \in Nodes}
         /\ \A n \in Nodes : Inputs(n) = {dst[2] : dst \in {d \in Dests : d[1] = n}}
         /\ Streams = {dst \in Dests : graph.kind[dst[1]] = "mux"}
         /\ \A dst \in Dests : SrcOf(dst) = CHOOSE n \in Nodes : dst \in Range(Dsts(n))
<1>1. PICK name \in DOMAIN Graphs : graph = Built(name)
    BY DEF GraphIs
<1>2. graph.name = name
    BY <1>1, BuiltFacts
<1>3. QED
    BY <1>1, <1>2, BuiltFacts

(* The threads of a kind, and what the file of a demuxer may hold. *)
LEMMA NodeFacts ==
  ASSUME GraphIs
  PROVE  /\ \A kind \in {"demux", "dec", "filter", "enc", "mux"} :
              OfKind(kind) = {n \in Nodes : graph.kind[n] = kind}
         /\ \A n \in Demuxers : graph.file[n] \in Seq((1 .. Len(graph.out[n])) \X Nat)
         /\ \A n \in Filters : graph.gen[n] \in Nat
         /\ Nodes = Demuxers \cup OfKind("dec") \cup Filters \cup OfKind("enc") \cup Muxers
         /\ Receivers = OfKind("dec") \cup Filters \cup OfKind("enc") \cup Muxers
<1>1. \A kind \in {"demux", "dec", "filter", "enc", "mux"} :
        OfKind(kind) = {n \in Nodes : graph.kind[n] = kind}
    BY GraphMakes DEF Kinds
<1>2. \A n \in Nodes : graph.kind[n] \in {"demux", "dec", "filter", "enc", "mux"}
    BY GraphShape, ZenonT(30) DEF Kinds
<1>3. /\ \A n \in Demuxers : graph.file[n] \in Seq((1 .. Len(graph.out[n])) \X Nat)
      /\ \A n \in Filters : graph.gen[n] \in Nat
    BY <1>1, GraphShape, Zenon DEF Demuxers, Filters
<1>4. QED
    BY <1>1, <1>2, <1>3 DEF Demuxers, Filters, Muxers, Receivers

(* The outputs of a node, one after the other, are its destinations; each  *)
(* comes once.                                                             *)
LEMMA DstsFacts ==
  ASSUME GraphIs, NEW n \in Nodes
  PROVE  /\ graph.out[n] \in Seq(Seq(Nodes \X Nat)) /\ Dsts(n) \in Seq(Nodes \X Nat)
         /\ \A k, l \in 1 .. Len(Dsts(n)) : Dsts(n)[k] = Dsts(n)[l] => k = l
         /\ \A o \in 1 .. Len(graph.out[n]) :
              /\ graph.out[n][o] \in Seq(Nodes \X Nat) /\ Len(graph.out[n][o]) # 0
              /\ \A k \in 1 .. Len(graph.out[n][o]) : graph.out[n][o][k] \in Range(Dsts(n))
         /\ \A dst \in Range(Dsts(n)) :
              \E o \in 1 .. Len(graph.out[n]) : \E k \in 1 .. Len(graph.out[n][o]) :
                dst = graph.out[n][o][k]
<1> DEFINE s == graph.out[n]
<1> HIDE DEF s
<1>1. ASSUME NEW o \in 1 .. Len(s), NEW p \in 1 .. Len(s),
             NEW k \in 1 .. Len(s[o]), NEW l \in 1 .. Len(s[p]), s[o][k] = s[p][l]
      PROVE  o = p /\ k = l
    <2>1. \A c, d \in 1 .. Len(graph.out[n]) :
            \A e \in 1 .. Len(graph.out[n][c]), f \in 1 .. Len(graph.out[n][d]) :
              graph.out[n][c][e] = graph.out[n][d][f] => n = n /\ c = d /\ e = f
        BY OnePlace, Zenon
    <2>2. QED
        BY <1>1, <2>1, SMTT(30) DEF s
<1>2. /\ s \in Seq(Seq(Nodes \X Nat)) /\ Dsts(n) = FlattenSeq(s)
      /\ \A o \in 1 .. Len(s) : s[o] # <<>>
    BY GraphShape, GraphMakes, Zenon DEF s
<1>3. \A o \in 1 .. Len(s) : s[o] \in Seq(Nodes \X Nat)
    BY <1>2, ElementOfSeq
<1>4. PICK row, col : Locates(s, Len(s), Dsts(n), row, col)
    BY <1>2, FlattenLocates
<1>5. Dsts(n) \in Seq(Nodes \X Nat)
    BY <1>2, FlattenLocates
<1>6. DOMAIN Dsts(n) = 1 .. Len(Dsts(n))
    BY <1>5
<1>7. ASSUME NEW k \in 1 .. Len(Dsts(n)), NEW l \in 1 .. Len(Dsts(n)), Dsts(n)[k] = Dsts(n)[l]
      PROVE  k = l
    <2>1. s[row[k]][col[k]] = s[row[l]][col[l]]
          /\ row[k] \in 1 .. Len(s) /\ col[k] \in 1 .. Len(s[row[k]])
          /\ row[l] \in 1 .. Len(s) /\ col[l] \in 1 .. Len(s[row[l]])
        BY <1>4, <1>6, <1>7 DEF Locates
    <2>2. row[k] = row[l] /\ col[k] = col[l]
        <3>1. PICK o \in 1 .. Len(s) : o = row[k]
            BY <2>1
        <3>2. PICK p \in 1 .. Len(s) : p = row[l]
            BY <2>1
        <3>3. PICK x \in 1 .. Len(s[o]) : x = col[k]
            BY <2>1, <3>1
        <3>4. PICK y \in 1 .. Len(s[p]) : y = col[l]
            BY <2>1, <3>2
        <3>5. s[o][x] = s[p][y]
            BY <2>1, <3>1, <3>2, <3>3, <3>4
        <3>6. o = p /\ x = y
            BY <1>1, <3>5
        <3>7. QED
            BY <3>1, <3>2, <3>3, <3>4, <3>6
    <2>3. QED
        BY <1>4, <1>6, <2>2 DEF Locates
<1>8. ASSUME NEW o \in 1 .. Len(s), NEW k \in 1 .. Len(s[o]) PROVE s[o][k] \in Range(Dsts(n))
    <2>1. PICK p \in DOMAIN Dsts(n) : row[p] = o /\ col[p] = k
        BY <1>4 DEF Locates
    <2>2. Dsts(n)[p] = s[o][k]
        BY <1>4, <2>1 DEF Locates
    <2>3. QED
        BY <2>2 DEF Range
<1>9. ASSUME NEW dst \in Range(Dsts(n))
      PROVE  \E o \in 1 .. Len(s) : \E k \in 1 .. Len(s[o]) : dst = s[o][k]
    <2>1. PICK p \in DOMAIN Dsts(n) : dst = Dsts(n)[p]
        BY DEF Range
    <2>2. row[p] \in 1 .. Len(s) /\ col[p] \in 1 .. Len(s[row[p]]) /\ dst = s[row[p]][col[p]]
        BY <1>4, <2>1 DEF Locates
    <2>3. QED
        BY <2>2
<1>10. ASSUME NEW o \in 1 .. Len(s) PROVE Len(s[o]) # 0
    BY <1>2, <1>3
<1>11. QED
    BY <1>2, <1>3, <1>5, <1>7, <1>8, <1>9, <1>10 DEF s

(* A destination belongs to one source only.                               *)
LEMMA DestFacts ==
  ASSUME GraphIs, NEW n \in Nodes, NEW dst \in Range(Dsts(n))
  PROVE  /\ dst \in Dests /\ SrcOf(dst) = n
         /\ dst \in Nodes \X Nat /\ dst = <<dst[1], dst[2]>> /\ dst[1] \in Nodes /\ dst[2] \in Nat
         /\ dst[2] \in Inputs(dst[1])
         /\ <<graph.kind[n], graph.kind[dst[1]]>> \in Ways
         /\ graph.kind[dst[1]] \in {"dec", "enc"} => dst[2] = 1
         /\ graph.kind[dst[1]] = "filter" => graph.trim[dst[1]][dst[2]] \in Nat
<1>2. dst \in Dests
    BY GraphMakes
<1>3. dst \in Nodes \X Nat
    <2>1. PICK k \in DOMAIN Dsts(n) : dst = Dsts(n)[k]
        BY DEF Range
    <2>2. Dsts(n) \in Seq(Nodes \X Nat)
        BY DstsFacts
    <2>3. k \in 1 .. Len(Dsts(n))
        BY <2>2
    <2>4. QED
        BY <2>1, <2>2, <2>3, ElementOfSeq
<1>4. dst = <<dst[1], dst[2]>> /\ dst[1] \in Nodes /\ dst[2] \in Nat
    BY <1>3
<1>5. dst[2] \in Inputs(dst[1])
    <2>1. ASSUME NEW m \in Nodes, NEW d \in Dests, d[1] = m PROVE d[2] \in Inputs(m)
        BY <2>1, GraphMakes
    <2>2. QED
        BY <1>2, <1>4, <2>1
<1>6. PICK o \in 1 .. Len(graph.out[n]) : \E k \in 1 .. Len(graph.out[n][o]) : dst = graph.out[n][o][k]
    BY DstsFacts, ZenonT(30)
<1>11. PICK k \in 1 .. Len(graph.out[n][o]) : dst = graph.out[n][o][k]
    BY <1>6
<1>7. /\ <<graph.kind[n], graph.kind[dst[1]]>> \in Ways
      /\ graph.kind[dst[1]] \in {"dec", "enc"} => dst[2] = 1
      /\ graph.kind[dst[1]] = "filter" => graph.trim[dst[1]][dst[2]] \in Nat
    <2>1. /\ <<graph.kind[n], graph.kind[graph.out[n][o][k][1]]>> \in Ways
          /\ graph.kind[graph.out[n][o][k][1]] \in {"dec", "enc"} => graph.out[n][o][k][2] = 1
          /\ graph.kind[graph.out[n][o][k][1]] = "filter" =>
               graph.trim[graph.out[n][o][k][1]][graph.out[n][o][k][2]] \in Nat
        BY GraphShape, Zenon
    <2>2. QED
        BY <1>11, <2>1, Zenon
<1>8. ASSUME NEW m \in Nodes, dst \in Range(Dsts(m)) PROVE m = n
    <2>1. PICK p \in 1 .. Len(graph.out[m]) :
            \E l \in 1 .. Len(graph.out[m][p]) : dst = graph.out[m][p][l]
        BY <1>8, DstsFacts
    <2>2. PICK l \in 1 .. Len(graph.out[m][p]) : dst = graph.out[m][p][l]
        BY <2>1
    <2>3. graph.out[m][p][l] = graph.out[n][o][k]
        BY <1>11, <2>2
    <2>4. \A a \in 1 .. Len(graph.out[m]), b \in 1 .. Len(graph.out[n]) :
            \A e \in 1 .. Len(graph.out[m][a]), f \in 1 .. Len(graph.out[n][b]) :
              graph.out[m][a][e] = graph.out[n][b][f] => m = n /\ a = b /\ e = f
        BY OnePlace, Zenon
    <2>5. \A e \in 1 .. Len(graph.out[m][p]), f \in 1 .. Len(graph.out[n][o]) :
            graph.out[m][p][e] = graph.out[n][o][f] => m = n /\ p = o /\ e = f
        BY <1>6, <2>1, <2>4, ZenonT(30)
    <2>6. QED
        BY <1>11, <2>2, <2>3, <2>5, Zenon
<1>9. SrcOf(dst) = n
    <2>1. SrcOf(dst) = CHOOSE m \in Nodes : dst \in Range(Dsts(m))
        BY <1>2, GraphMakes
    <2>2. QED
        BY <1>8, <2>1
<1>10. QED
    BY <1>2, <1>3, <1>4, <1>5, <1>7, <1>9

(* SrcOf names a thread that sends to the destination. *)
LEMMA SourceOfDest ==
  ASSUME GraphIs, NEW dst \in Dests
  PROVE  SrcOf(dst) \in Nodes /\ dst \in Range(Dsts(SrcOf(dst)))
<1>2. PICK n \in Nodes : dst \in Range(Dsts(n))
    BY GraphMakes
<1>3. SrcOf(dst) = n
    BY <1>2, DestFacts
<1>4. QED
    BY <1>2, <1>3

(* A thread has finitely many inputs, and each is the end of some connection. *)
LEMMA InputFacts ==
  ASSUME GraphIs, NEW n \in Nodes
  PROVE  /\ IsFiniteSet(Inputs(n)) /\ Inputs(n) \in SUBSET Nat
         /\ \A i \in Inputs(n) : <<n, i>> \in Dests
<1>2. IsFiniteSet(Nodes)
    BY GraphShape, Zenon
<1>3. IsFiniteSet(Dests)
    <2> DEFINE parts == {Range(Dsts(m)) : m \in Nodes}
    <2>1. IsFiniteSet(parts)
        <3> DEFINE f == [m \in Nodes |-> Range(Dsts(m))]
        <3>1. f \in Surjection(Nodes, parts)
            BY DEF Surjection
        <3>2. QED
            BY <1>2, <3>1, FS_Surjection
    <2>2. ASSUME NEW m \in Nodes PROVE IsFiniteSet(Range(Dsts(m)))
        <3>1. Dsts(m) \in Seq(Nodes \X Nat)
            BY DstsFacts
        <3>2. Len(Dsts(m)) \in Nat /\ DOMAIN Dsts(m) = 1 .. Len(Dsts(m))
            BY <3>1
        <3> DEFINE f == [k \in 1 .. Len(Dsts(m)) |-> Dsts(m)[k]]
        <3>3. f \in Surjection(1 .. Len(Dsts(m)), Range(Dsts(m)))
            BY <3>2 DEF Surjection, Range
        <3>4. IsFiniteSet(1 .. Len(Dsts(m)))
            BY <3>2, FS_Interval
        <3>5. QED
            BY <3>3, <3>4, FS_Surjection
    <2>3. IsFiniteSet(UNION parts)
        BY <2>1, <2>2, FS_UNION
    <2>4. QED
        BY <2>3, GraphMakes
<1>4. Inputs(n) = {dst[2] : dst \in {d \in Dests : d[1] = n}}
    BY GraphMakes
<1>5. IsFiniteSet(Inputs(n))
    <2> DEFINE mine == {d \in Dests : d[1] = n}
               f == [dst \in mine |-> dst[2]]
    <2>1. IsFiniteSet(mine)
        BY <1>3, FS_Subset
    <2>2. f \in Surjection(mine, Inputs(n))
        BY <1>4 DEF Surjection
    <2>3. QED
        BY <2>1, <2>2, FS_Surjection
<1>6. ASSUME NEW i \in Inputs(n) PROVE i \in Nat /\ <<n, i>> \in Dests
    <2>1. PICK dst \in Dests : dst[1] = n /\ dst[2] = i
        BY <1>4
    <2>2. dst = <<dst[1], dst[2]>> /\ dst[2] \in Nat
        BY SourceOfDest, DestFacts
    <2>3. QED
        BY <2>1, <2>2
<1>7. QED
    BY <1>5, <1>6

(* Where the stream of an encoder goes.                                    *)
LEMMA EncoderFacts ==
  ASSUME GraphIs, NEW e \in OfKind("enc")
  PROVE  /\ e \in Nodes /\ StreamOf(e) \in Range(Dsts(e)) /\ StreamOf(e) \in Streams
         /\ StreamOf(e)[1] \in Muxers /\ StreamOf(e)[2] \in Inputs(StreamOf(e)[1])
         /\ StreamOf(e) = <<StreamOf(e)[1], StreamOf(e)[2]>>
<1>3. e \in Nodes /\ graph.kind[e] = "enc"
    BY NodeFacts
<1>4. Len(graph.out[e]) = 1
    BY <1>3, GraphShape, Zenon
<1>5. Len(graph.out[e][1]) # 0 /\ graph.out[e][1] \in Seq(Nodes \X Nat)
    <2>1. 1 \in 1 .. Len(graph.out[e])
        BY <1>4
    <2>2. QED
        BY <1>3, <2>1, DstsFacts, Zenon
<1>6. graph.out[e][1][1] \in Range(Dsts(e))
    <2>1. 1 \in 1 .. Len(graph.out[e][1])
        BY <1>5
    <2>2. 1 \in 1 .. Len(graph.out[e])
        BY <1>4
    <2>3. QED
        BY <1>3, <2>1, <2>2, DstsFacts, Zenon
<1>7. Dsts(e) \in Seq(Nodes \X Nat) /\ Dsts(e) # <<>>
    <2>1. Dsts(e) \in Seq(Nodes \X Nat)
        BY <1>3, DstsFacts
    <2>2. QED
        BY <1>6, <2>1 DEF Range
<1>8. StreamOf(e) \in Range(Dsts(e))
    <2>1. Head(Dsts(e)) = Dsts(e)[1] /\ 1 \in DOMAIN Dsts(e)
        BY <1>7
    <2>2. QED
        BY <2>1 DEF StreamOf, Range
<1>9. /\ StreamOf(e) \in Dests /\ StreamOf(e)[1] \in Nodes
      /\ StreamOf(e) = <<StreamOf(e)[1], StreamOf(e)[2]>>
      /\ StreamOf(e)[2] \in Inputs(StreamOf(e)[1])
      /\ <<"enc", graph.kind[StreamOf(e)[1]]>> \in Ways
    BY <1>3, <1>8, DestFacts
<1>10. graph.kind[StreamOf(e)[1]] = "mux"
    BY <1>9 DEF Ways
<1>11. StreamOf(e) \in Streams
    BY <1>9, <1>10, GraphMakes
<1>12. StreamOf(e)[1] \in Muxers
    BY <1>9, <1>10, NodeFacts DEF Muxers
<1>13. QED
    BY <1>3, <1>8, <1>9, <1>11, <1>12

(* Who receives what from whom.                                            *)
LEMMA WayFacts ==
  ASSUME GraphIs, NEW n \in Nodes, NEW dst \in Range(Dsts(n))
  PROVE  /\ dst[1] \in Receivers
         /\ dst[1] \in Muxers <=> dst \in Streams
         /\ n \in Demuxers => dst[1] \in Muxers \/ dst[1] \in OfKind("dec")
         /\ n \in OfKind("dec") => dst[1] \in Filters
         /\ n \in Filters => dst[1] \in OfKind("enc")
         /\ n \in OfKind("enc") => dst[1] \in Muxers
         /\ n \notin Muxers
<1>2. \A kind \in {"demux", "dec", "filter", "enc", "mux"} :
        OfKind(kind) = {m \in Nodes : graph.kind[m] = kind}
    BY NodeFacts
<1>3. dst[1] \in Nodes /\ dst \in Dests /\ <<graph.kind[n], graph.kind[dst[1]]>> \in Ways
    BY DestFacts
<1>4. dst[1] \in Muxers <=> dst \in Streams
    BY <1>2, <1>3, GraphMakes DEF Muxers
<1>5. \/ graph.kind[n] = "demux" /\ graph.kind[dst[1]] = "dec"
      \/ graph.kind[n] = "demux" /\ graph.kind[dst[1]] = "mux"
      \/ graph.kind[n] = "dec" /\ graph.kind[dst[1]] = "filter"
      \/ graph.kind[n] = "filter" /\ graph.kind[dst[1]] = "enc"
      \/ graph.kind[n] = "enc" /\ graph.kind[dst[1]] = "mux"
    BY <1>3 DEF Ways
<1>6. QED
    BY <1>2, <1>3, <1>4, <1>5 DEF Receivers, Demuxers, Filters, Muxers

(* A decoder and an encoder have one input, numbered 1. *)
LEMMA OneInput ==
  ASSUME GraphIs, NEW n \in OfKind("dec") \cup OfKind("enc"), NEW i \in Inputs(n)
  PROVE  i = 1 /\ <<n, 1>> \in Dests
<1>1. n \in Nodes /\ graph.kind[n] \in {"dec", "enc"}
    BY NodeFacts
<1>2. <<n, i>> \in Dests
    BY <1>1, InputFacts
<1>3. SrcOf(<<n, i>>) \in Nodes /\ <<n, i>> \in Range(Dsts(SrcOf(<<n, i>>)))
    BY <1>2, SourceOfDest
<1>4. i = 1
    BY <1>1, <1>3, DestFacts
<1>5. QED
    BY <1>2, <1>4

Ats == {"run", "wait", "reap", "request", "close", "eof", "done", "ended"}

QueueT(n) == [items : {s \in Seq(Inputs(n) \X Int) : Len(s) <= QueueSize}, choked : BOOLEAN,
              sent : SUBSET Inputs(n), closed : SUBSET Inputs(n)]
MuxT(m) == [state : {"unready", "flushing", "started"}, ready : SUBSET Inputs(m),
            pre : [Inputs(m) -> Seq(Int)], written : [Inputs(m) -> Seq(Int)]]
SchedT == [last : [Streams -> Int], done : SUBSET Streams, exited : SUBSET Sources,
           best : [Filters -> Nat], sent : SUBSET Dests, received : SUBSET Dests]
FgtT(f) == [next_in : Nat, held : [Inputs(f) -> Seq(Int)], over : SUBSET Inputs(f), made : Nat,
            sink : Seq(Int), got : BOOLEAN]

(* The jobs a thread may have before it.                                   *)
Jobs(n) ==
  [do : {"send", "finish"}, dst : Range(Dsts(n)), t : Int]
  \cup [do : {"report"}, dst : Streams \cup (IF n \in Filters THEN {n} \X Inputs(n) ELSE {}), t : Int]
  \cup [do : {"flush"}, dst : Muxers \X {0}, t : Int]
  \cup [do : {"exit", "choke"}, dst : {<<n, 0>>}, t : Int]
Positions == Nat \ {0}
TaskT(n) == [at : Ats, todo : Seq(Jobs(n)), pos : Positions, finished : SUBSET Range(Dsts(n)),
             failed : BOOLEAN]

(* The types of the variables, given the graph.                            *)
QueueTyped(q) == DOMAIN q = Receivers /\ \A n \in Receivers : q[n] \in QueueT(n)
MuxTyped(x) == /\ DOMAIN x = Muxers
               /\ \A m \in Muxers : /\ x[m] \in MuxT(m)
                                    /\ x[m].state = "unready" <=> x[m].ready # Inputs(m)
FgtTyped(x) == DOMAIN x = Filters /\ \A f \in Filters : x[f] \in FgtT(f)
TaskTyped(x) == DOMAIN x = Nodes /\ \A n \in Nodes : x[n] \in TaskT(n)

(* Who starts a muxer has found all its streams ready.                     *)
FlushTyped(x, y) ==
  \A n \in Nodes : \A job \in Range(x[n].todo) :
    job.do = "flush" => y[job.dst[1]].state # "unready"

TypeInv ==
  /\ GraphIs
  /\ QueueTyped(queue) /\ MuxTyped(mux) /\ FgtTyped(fgt) /\ TaskTyped(task) /\ FlushTyped(task, mux)
  /\ choked \in [Sources -> BOOLEAN] /\ sched \in SchedT
  /\ update.unchoke \cap update.choke = {}
  /\ main \in {"start", "wait", "stop", "join", "stopped"}
  /\ terminate \in BOOLEAN

(* A step that leaves the graph alone is typed by what it was.             *)
LEMMA TypedNext ==
  ASSUME UNCHANGED graph, GraphIs,
         QueueTyped(queue'), MuxTyped(mux'), FgtTyped(fgt'), TaskTyped(task'), FlushTyped(task', mux'),
         choked' \in [Sources -> BOOLEAN], sched' \in SchedT,
         update'.unchoke \cap update'.choke = {},
         main' \in {"start", "wait", "stop", "join", "stopped"}, terminate' \in BOOLEAN
  PROVE  TypeInv'
<1> USE DEF Nodes, OfKind, Demuxers, Filters, Muxers, Sources, Receivers, Dsts, Inputs, Streams, Dests
<1>1. GraphIs'
    BY DEF GraphIs
<1>2. QueueTyped(queue)'
    BY DEF QueueTyped, QueueT
<1>3. MuxTyped(mux)'
    BY DEF MuxTyped, MuxT
<1>4. FgtTyped(fgt)'
    BY DEF FgtTyped, FgtT
<1>5. TaskTyped(task)'
    BY SMTT(30) DEF TaskTyped, TaskT, Jobs
<1>6. FlushTyped(task, mux)'
    BY DEF FlushTyped
<1>7. choked' \in [Sources' -> BOOLEAN] /\ sched' \in SchedT'
    BY DEF SchedT
<1>8. QED
    BY <1>1, <1>2, <1>3, <1>4, <1>5, <1>6, <1>7 DEF TypeInv

-----------------------------------------------------------------------------
(* The operators the actions are made of.                                  *)

(* Replacing the head of a sequence of jobs leaves a sequence of jobs. *)
LEMMA Shift ==
  ASSUME NEW S, NEW js \in Seq(S), NEW s \in Seq(S), s # <<>>
  PROVE  js \o Tail(s) \in Seq(S) /\ Range(js \o Tail(s)) \subseteq Range(js) \cup Range(s)
<1>1. Tail(s) \in Seq(S) /\ Len(Tail(s)) = Len(s) - 1
      /\ \A i \in 1 .. Len(Tail(s)) : Tail(s)[i] = s[i + 1]
    BY HeadTailProperties
<1>2. /\ js \o Tail(s) \in Seq(S) /\ Len(js \o Tail(s)) = Len(js) + Len(Tail(s))
      /\ \A i \in 1 .. Len(js) + Len(Tail(s)) :
           (js \o Tail(s))[i] = IF i <= Len(js) THEN js[i] ELSE Tail(s)[i - Len(js)]
    BY <1>1, ConcatProperties
<1> DEFINE r == js \o Tail(s)
<1> HIDE DEF r
<1>3. ASSUME NEW i \in 1 .. Len(r) PROVE r[i] \in Range(js) \cup Range(s)
    <2>1. CASE i <= Len(js)
        <3>1. r[i] = js[i] /\ i \in DOMAIN js
            BY <1>1, <1>2, <2>1 DEF r
        <3>2. QED
            BY <3>1 DEF Range
    <2>2. CASE ~(i <= Len(js))
        <3>1. i - Len(js) \in 1 .. Len(Tail(s)) /\ i - Len(js) + 1 \in DOMAIN s
            BY <1>1, <1>2, <2>2 DEF r
        <3>2. r[i] = Tail(s)[i - Len(js)]
            BY <1>1, <1>2, <2>2 DEF r
        <3>3. r[i] = s[i - Len(js) + 1]
            BY <1>1, <3>1, <3>2
        <3>4. QED
            BY <3>1, <3>3 DEF Range
    <2>3. QED
        BY <2>1, <2>2
<1>4. r \in Seq(S) /\ Range(r) \subseteq Range(js) \cup Range(s)
    <2>1. r \in Seq(S)
        BY <1>2 DEF r
    <2>2. DOMAIN r = 1 .. Len(r)
        BY <2>1
    <2>3. QED
        BY <1>3, <2>1, <2>2 DEF Range
<1>5. QED
    BY <1>4 DEF r

(* The head of a sequence is one of its elements. *)
LEMMA HeadIn ==
  ASSUME NEW S, NEW s \in Seq(S), s # <<>>
  PROVE  Head(s) \in S /\ Head(s) \in Range(s) /\ Tail(s) \in Seq(S)
<1>1. Head(s) = s[1] /\ 1 \in DOMAIN s /\ Tail(s) \in Seq(S) /\ Head(s) \in S
    OBVIOUS
<1>2. QED
    BY <1>1 DEF Range

(* What a thread has to do comes from what it had, and from jobs.          *)
NewJobs(n, jobs) ==
  \A x \in Nodes : Range(task'[x].todo) \subseteq
                     Range(task[x].todo) \cup (IF x = n THEN jobs ELSE {})

(* Become leaves the tasks well typed. *)
LEMMA BecomeTyped ==
  ASSUME TaskTyped(task), NEW n \in Nodes, NEW at \in Ats, NEW jobs \in Seq(Jobs(n)),
         task' = Become(n, at, jobs)
  PROVE  TaskTyped(task') /\ NewJobs(n, Range(jobs))
<1>1. task' = [task EXCEPT ![n].at = at, ![n].todo = jobs]
    BY DEF Become
<1>2. TaskTyped(task')
    BY <1>1, ZenonT(30) DEF TaskTyped, TaskT
<1>3. task'[n].todo = jobs /\ \A x \in Nodes \ {n} : task'[x].todo = task[x].todo
    BY <1>1 DEF TaskTyped, TaskT
<1>4. QED
    BY <1>2, <1>3 DEF NewJobs

(* Done leaves the tasks well typed. *)
LEMMA DoneTyped ==
  ASSUME TaskTyped(task), NEW n \in Nodes, task[n].todo # <<>>, NEW jobs \in Seq(Jobs(n)),
         Done(n, jobs)
  PROVE  TaskTyped(task') /\ NewJobs(n, Range(jobs))
<1>1. task' = [task EXCEPT ![n].todo = jobs \o Tail(@)]
    BY DEF Done
<1>2. task[n].todo \in Seq(Jobs(n))
    BY DEF TaskTyped, TaskT
<1>3. /\ jobs \o Tail(task[n].todo) \in Seq(Jobs(n))
      /\ Range(jobs \o Tail(task[n].todo)) \subseteq Range(jobs) \cup Range(task[n].todo)
    BY <1>2, Shift
<1>4. TaskTyped(task')
    BY <1>1, <1>3 DEF TaskTyped, TaskT
<1>5. task'[n].todo = jobs \o Tail(task[n].todo) /\ \A x \in Nodes \ {n} : task'[x].todo = task[x].todo
    BY <1>1 DEF TaskTyped, TaskT
<1>6. QED
    BY <1>3, <1>4, <1>5 DEF NewJobs

(* Marking a destination finished leaves the tasks well typed. *)
LEMMA FinishTyped ==
  ASSUME TaskTyped(task), NEW n \in Nodes, task[n].todo # <<>>, NEW jobs \in Seq(Jobs(n)),
         NEW dst \in Range(Dsts(n)),
         task' = [task EXCEPT ![n].todo = jobs \o Tail(@), ![n].finished = @ \cup {dst}]
  PROVE  TaskTyped(task') /\ NewJobs(n, Range(jobs))
<1>2. task[n].todo \in Seq(Jobs(n))
    BY DEF TaskTyped, TaskT
<1>3. /\ jobs \o Tail(task[n].todo) \in Seq(Jobs(n))
      /\ Range(jobs \o Tail(task[n].todo)) \subseteq Range(jobs) \cup Range(task[n].todo)
    BY <1>2, Shift
<1>4. TaskTyped(task')
    BY <1>3 DEF TaskTyped, TaskT
<1>5. task'[n].todo = jobs \o Tail(task[n].todo) /\ \A x \in Nodes \ {n} : task'[x].todo = task[x].todo
    BY DEF TaskTyped, TaskT
<1>6. QED
    BY <1>3, <1>4, <1>5 DEF NewJobs

(* The jobs there are.                                                     *)
LEMMA JobTypes ==
  ASSUME GraphIs, NEW n \in Nodes
  PROVE  /\ \A dst \in Range(Dsts(n)) : \A t \in Int :
              Job("send", dst, t) \in Jobs(n) /\ Finish(dst) \in Jobs(n)
         /\ \A ms \in Streams : \A t \in Int : Report(ms, t) \in Jobs(n)
         /\ n \in Filters => \A i \in Inputs(n) : Report(<<n, i>>, NoTime) \in Jobs(n)
         /\ \A m \in Muxers : Job("flush", <<m, 0>>, NoTime) \in Jobs(n)
         /\ Exit(n) \in Jobs(n) /\ Choke(n) \in Jobs(n)
BY DEF Job, Finish, Report, Exit, Choke, Jobs, NoTime

(* The clean-up of a task closes its destinations and ends it. *)
LEMMA CleanupTyped ==
  ASSUME GraphIs, NEW n \in Nodes
  PROVE  Cleanup(n) \in Seq(Jobs(n)) /\ \A job \in Range(Cleanup(n)) : job.do \in {"finish", "exit"}
<1> DEFINE a == IF n \in Muxers THEN <<>> ELSE [k \in 1 .. Len(Dsts(n)) |-> Finish(Dsts(n)[k])]
           ends == {job \in Jobs(n) : job.do \in {"finish", "exit"}}
<1>1. Dsts(n) \in Seq(Nodes \X Nat)
    BY DstsFacts
<1>2. \A k \in 1 .. Len(Dsts(n)) : Finish(Dsts(n)[k]) \in ends
    <2>1. ASSUME NEW k \in 1 .. Len(Dsts(n)) PROVE Finish(Dsts(n)[k]) \in ends
        <3>1. Dsts(n)[k] \in Range(Dsts(n))
            BY <1>1 DEF Range
        <3>2. Finish(Dsts(n)[k]) \in Jobs(n)
            BY <3>1, JobTypes DEF NoTime
        <3>3. Finish(Dsts(n)[k]).do = "finish"
            BY DEF Finish, Job
        <3>4. QED
            BY <3>2, <3>3
    <2>2. QED
        BY <2>1
<1>3. Exit(n) \in ends
    BY JobTypes DEF Exit, Job
<1> HIDE DEF ends
<1>4. a \in Seq(ends)
    <2>1. Len(Dsts(n)) \in Nat
        BY <1>1
    <2>2. QED
        BY <1>2, <2>1
<1>5. <<Exit(n)>> \in Seq(ends)
    BY <1>3
<1> HIDE DEF a
<1>6. a \o <<Exit(n)>> \in Seq(ends)
    BY <1>4, <1>5, ConcatProperties
<1>7. Cleanup(n) \in Seq(ends)
    BY <1>6 DEF Cleanup, a
<1>8. Range(Cleanup(n)) \subseteq ends
    BY <1>7, RangeOfSeq
<1>9. ends \subseteq Jobs(n)
    BY DEF ends
<1>10. Cleanup(n) \in Seq(Jobs(n))
    BY <1>7, <1>9, SeqMonotonic
<1>11. QED
    BY <1>8, <1>10 DEF ends

(* The end of a thread leaves tasks and queues well typed. *)
LEMMA EndTyped ==
  ASSUME GraphIs, TaskTyped(task), QueueTyped(queue), NEW n \in Nodes, NEW failed \in BOOLEAN,
         End(n, failed)
  PROVE  TaskTyped(task') /\ QueueTyped(queue') /\ NewJobs(n, Range(Cleanup(n)))
<1>1. task' = [task EXCEPT ![n].at = "done", ![n].todo = Cleanup(n), ![n].failed = failed]
    BY DEF End
<1>2. Cleanup(n) \in Seq(Jobs(n))
    BY CleanupTyped
<1>3. TaskTyped(task')
    BY <1>1, <1>2, ZenonT(30) DEF TaskTyped, TaskT, Ats
<1>4. task'[n].todo = Cleanup(n) /\ \A x \in Nodes \ {n} : task'[x].todo = task[x].todo
    BY <1>1 DEF TaskTyped, TaskT
<1>5. NewJobs(n, Range(Cleanup(n)))
    BY <1>4 DEF NewJobs
<1>6. QueueTyped(queue')
    <2>1. CASE queue' = queue
        BY <2>1
    <2>2. CASE n \in Receivers /\ queue' = [queue EXCEPT ![n].closed = Inputs(n)]
        BY <2>2 DEF QueueTyped, QueueT
    <2>3. QED
        BY <2>1, <2>2 DEF End, Receivers
<1>7. QED
    BY <1>3, <1>5, <1>6

(* The queues of the receivers.                                            *)
LEMMA QueueIs ==
  ASSUME QueueTyped(queue), NEW n \in Receivers
  PROVE  /\ queue[n].items \in Seq(Inputs(n) \X Int) /\ Len(queue[n].items) <= QueueSize
         /\ queue[n].choked \in BOOLEAN
         /\ queue[n].sent \in SUBSET Inputs(n) /\ queue[n].closed \in SUBSET Inputs(n)
BY DEF QueueTyped, QueueT

(* Put keeps the queues well typed when there is room. *)
LEMMA PutTyped ==
  ASSUME QueueTyped(queue), NEW n \in Receivers, NEW i \in Inputs(n), NEW t \in Int, HasRoom(n)
  PROVE  QueueTyped(Put(n, i, t))
<1>1. queue[n].items \in Seq(Inputs(n) \X Int) /\ Len(queue[n].items) < QueueSize
    BY QueueIs DEF HasRoom
<1>2. <<i, t>> \in Inputs(n) \X Int
    OBVIOUS
<1>3. /\ Append(queue[n].items, <<i, t>>) \in Seq(Inputs(n) \X Int)
      /\ Len(Append(queue[n].items, <<i, t>>)) = Len(queue[n].items) + 1
    BY <1>1, <1>2, AppendProperties
<1>4. Len(Append(queue[n].items, <<i, t>>)) <= QueueSize
    BY <1>1, <1>3, BoundsAssumption
<1>5. Put(n, i, t) = [queue EXCEPT ![n].items = Append(queue[n].items, <<i, t>>)]
    BY DEF Put
<1> DEFINE s == Append(queue[n].items, <<i, t>>)
<1> HIDE DEF s
<1>6. QueueTyped([queue EXCEPT ![n].items = s])
    BY <1>3, <1>4 DEF QueueTyped, QueueT, s
<1>7. QED
    BY <1>5, <1>6 DEF s

(* SendFinished keeps the queues well typed. *)
LEMMA SendFinishedTyped ==
  ASSUME QueueTyped(queue), NEW n \in Receivers, NEW i \in Inputs(n)
  PROVE  QueueTyped(SendFinished(n, i))
BY DEF QueueTyped, QueueT, SendFinished

(* First is the place of the first item of an input that is still open. *)
LEMMA FirstWanted ==
  ASSUME QueueTyped(queue), NEW n \in Receivers, Wanted(n) # {}
  PROVE  /\ First(n) \in 1 .. Len(queue[n].items) /\ First(n) \in Wanted(n)
         /\ \A k \in Wanted(n) : First(n) <= k
         /\ Item(n) = queue[n].items[First(n)]
         /\ Item(n) \in Inputs(n) \X Int /\ Item(n) = <<Item(n)[1], Item(n)[2]>>
         /\ Item(n)[1] \in Inputs(n) /\ Item(n)[2] \in Int /\ Item(n)[1] \notin queue[n].closed
<1>1. queue[n].items \in Seq(Inputs(n) \X Int)
    BY QueueIs
<1>2. DOMAIN queue[n].items = 1 .. Len(queue[n].items) /\ Len(queue[n].items) \in Nat
    BY <1>1
<1>3. Wanted(n) \in SUBSET (1 .. Len(queue[n].items))
    BY <1>2 DEF Wanted
<1>4. IsFiniteSet(Wanted(n)) /\ Wanted(n) \in SUBSET Int
    <2>1. IsFiniteSet(1 .. Len(queue[n].items))
        BY <1>2, FS_Interval
    <2>2. IsFiniteSet(Wanted(n))
        BY <1>3, <2>1, FS_Subset
    <2>3. QED
        BY <1>3, <2>2
<1>5. \E k \in Wanted(n) : \A l \in Wanted(n) : k <= l
    BY <1>4, LeastOf
<1>6. First(n) \in Wanted(n) /\ \A k \in Wanted(n) : First(n) <= k
    BY <1>5 DEF First
<1>7. First(n) \in 1 .. Len(queue[n].items) /\ queue[n].items[First(n)] \in Inputs(n) \X Int
    BY <1>1, <1>3, <1>6
<1>8. queue[n].items[First(n)][1] \notin queue[n].closed
    BY <1>6 DEF Wanted
<1>9. QED
    BY <1>6, <1>7, <1>8 DEF Item

(* Taking an item keeps the queues well typed. *)
LEMMA TakenTyped ==
  ASSUME QueueTyped(queue), NEW n \in Receivers, Wanted(n) # {}
  PROVE  /\ QueueTyped(Taken(n))
         /\ \A c \in SUBSET Inputs(n) : QueueTyped([Taken(n) EXCEPT ![n].closed = @ \cup c])
<1> DEFINE s == queue[n].items
           r == SubSeq(s, First(n) + 1, Len(s))
<1>1. s \in Seq(Inputs(n) \X Int) /\ Len(s) <= QueueSize /\ First(n) \in 1 .. Len(s) /\ Len(s) \in Nat
    BY QueueIs, FirstWanted
<1> HIDE DEF s
<1>2. r \in Seq(Inputs(n) \X Int) /\ Len(r) <= Len(s) /\ Len(r) \in Nat
    <2>1. First(n) + 1 \in 1 .. Len(s) + 1 /\ Len(s) \in 0 .. Len(s)
        BY <1>1
    <2>2. /\ r \in Seq(Inputs(n) \X Int)
          /\ Len(r) = IF First(n) + 1 <= Len(s) THEN Len(s) - (First(n) + 1) + 1 ELSE 0
        BY <1>1, <2>1, SubSeqProperties
    <2>3. QED
        BY <1>1, <2>1, <2>2
<1>3. Len(r) <= QueueSize
    BY <1>1, <1>2, BoundsAssumption
<1>4. Taken(n) = [queue EXCEPT ![n].items = r]
    BY DEF Taken, s
<1> HIDE DEF r
<1>7. QueueTyped([queue EXCEPT ![n].items = r])
    BY <1>2, <1>3 DEF QueueTyped, QueueT
<1>5. QueueTyped(Taken(n))
    BY <1>4, <1>7
<1>6. ASSUME NEW c \in SUBSET Inputs(n)
      PROVE  QueueTyped([Taken(n) EXCEPT ![n].closed = @ \cup c])
    BY <1>5 DEF QueueTyped, QueueT
<1>8. QED
    BY <1>5, <1>6

(* Emptying a queue keeps the queues well typed. *)
LEMMA EmptiedTyped ==
  ASSUME QueueTyped(queue), NEW n \in Receivers
  PROVE  QueueTyped(Emptied(n))
<1>1. <<>> \in Seq(Inputs(n) \X Int) /\ Len(<<>>) <= QueueSize
    BY BoundsAssumption
<1>2. QED
    BY <1>1 DEF QueueTyped, QueueT, Emptied

(* Closing inputs keeps the queues well typed. *)
LEMMA ClosedTyped ==
  ASSUME QueueTyped(queue), NEW n \in Receivers, NEW c \in SUBSET Inputs(n)
  PROVE  /\ QueueTyped([queue EXCEPT ![n].closed = @ \cup c])
         /\ QueueTyped([queue EXCEPT ![n].closed = c])
BY ZenonT(30) DEF QueueTyped, QueueT

(* Choking or unchoking the queues of a source keeps the queues well typed. *)
LEMMA ChokedTyped ==
  ASSUME QueueTyped(queue), NEW d, NEW v \in BOOLEAN
  PROVE  QueueTyped(ChokeQueues(d, v))
BY DEF QueueTyped, QueueT, ChokeQueues

(* What is sent to the destinations of an output.                          *)
LEMMA SendAllTyped ==
  ASSUME GraphIs, NEW n \in Nodes, NEW o \in 1 .. Len(graph.out[n]), NEW t \in Int
  PROVE  /\ SendAll(n, o, t) \in Seq(Jobs(n))
         /\ \A job \in Range(SendAll(n, o, t)) : job.do = "send" /\ job.t = t
<1> DEFINE sends == {job \in Jobs(n) : job.do = "send" /\ job.t = t}
<1>1. ASSUME NEW k \in 1 .. Len(graph.out[n][o]) PROVE Job("send", graph.out[n][o][k], t) \in sends
    <2>1. graph.out[n][o][k] \in Range(Dsts(n))
        BY DstsFacts
    <2>2. Job("send", graph.out[n][o][k], t) \in Jobs(n)
        BY <2>1, JobTypes
    <2>3. QED
        BY <2>2 DEF Job
<1>2. Len(graph.out[n][o]) \in Nat
    <2>1. graph.out[n][o] \in Seq(Nodes \X Nat)
        BY DstsFacts
    <2>2. QED
        BY <2>1
<1> HIDE DEF sends
<1>3. SendAll(n, o, t) \in Seq(sends)
    BY <1>1, <1>2 DEF SendAll
<1>4. Range(SendAll(n, o, t)) \subseteq sends
    BY <1>3, RangeOfSeq
<1>5. sends \subseteq Jobs(n)
    BY DEF sends
<1>6. SendAll(n, o, t) \in Seq(Jobs(n))
    BY <1>3, <1>5, SeqMonotonic
<1>7. QED
    BY <1>4, <1>6 DEF sends

(* schedule_lock: what it protects stays typed, and so does the decision.  *)
LEMMA RescheduleTyped ==
  ASSUME NEW n, NEW s \in SchedT, Reschedule(n, s)
  PROVE  sched' \in SchedT /\ update'.unchoke \cap update'.choke = {}
<1>1. PICK next \in {Unchoked(s)} :
        update' = IF terminate \/ {x \in next : choked[x]} \cup {x \in Sources \ next : ~choked[x]} = {}
                  THEN Nobody
                  ELSE [by |-> n, unchoke |-> {x \in next : choked[x]},
                        choke |-> {x \in Sources \ next : ~choked[x]}]
    BY DEF Reschedule
<1>2. Nobody.unchoke \cap Nobody.choke = {}
    BY DEF Nobody
<1>3. CASE update' = Nobody
    BY <1>2, <1>3 DEF Reschedule
<1>4. CASE update' # Nobody
    <2>1. update' = [by |-> n, unchoke |-> {x \in next : choked[x]},
                     choke |-> {x \in Sources \ next : ~choked[x]}]
        BY <1>1, <1>4
    <2>2. QED
        BY <2>1 DEF Reschedule
<1>5. QED
    BY <1>3, <1>4

(* What a filter graph makes.                                              *)
LEMMA FilterIs ==
  ASSUME FgtTyped(fgt), NEW f \in Filters
  PROVE  /\ fgt[f] \in FgtT(f) /\ fgt[f].next_in \in Nat /\ fgt[f].held \in [Inputs(f) -> Seq(Int)]
         /\ fgt[f].over \in SUBSET Inputs(f) /\ fgt[f].made \in Nat /\ fgt[f].sink \in Seq(Int)
BY DEF FgtTyped, FgtT

(* NextTime is the least of the times a filter graph could put out next. *)
LEMMA NextTimeIs ==
  ASSUME GraphIs, FgtTyped(fgt), NEW f \in Filters, CanMake(f)
  PROVE  /\ NextTime(f) \in Int
         /\ \A i \in Held(f) : NextTime(f) <= Head(fgt[f].held[i])
         /\ OwnLeft(f) => NextTime(f) <= fgt[f].made + 1
         /\ \/ \E i \in Held(f) : NextTime(f) = Head(fgt[f].held[i])
            \/ OwnLeft(f) /\ NextTime(f) = fgt[f].made + 1
<1> DEFINE heads == {Head(fgt[f].held[i]) : i \in Held(f)}
           own == IF OwnLeft(f) THEN {fgt[f].made + 1} ELSE {}
           v == [i \in Held(f) |-> Head(fgt[f].held[i])]
           times == heads \cup own
<1>1. f \in Nodes
    BY NodeFacts
<1>2. IsFiniteSet(Inputs(f)) /\ Held(f) \in SUBSET Inputs(f)
    BY <1>1, InputFacts DEF Held
<1>3. IsFiniteSet(Held(f))
    BY <1>2, FS_Subset
<1>4. \A i \in Held(f) : Head(fgt[f].held[i]) \in Int
    <2>1. ASSUME NEW i \in Held(f) PROVE Head(fgt[f].held[i]) \in Int
        <3>1. fgt[f].held[i] \in Seq(Int) /\ fgt[f].held[i] # <<>>
            BY <1>2, FilterIs DEF Held
        <3>2. QED
            BY <3>1, HeadIn
    <2>2. QED
        BY <2>1
<1>5. v \in [Held(f) -> Int] /\ \A i \in Held(f) : v[i] = Head(fgt[f].held[i])
    BY <1>4
<1>6. own \in SUBSET Int
    BY FilterIs
<1>7. \E t \in times : \A u \in times : t <= u
    <2>1. CASE Held(f) = {}
        <3>1. times = {fgt[f].made + 1} /\ fgt[f].made \in Nat
            BY <2>1, FilterIs DEF CanMake
        <3>2. QED
            <4> HIDE DEF times
            <4>1. QED
                BY <3>1
    <2>2. CASE Held(f) # {}
        <3>1. PICK i \in Held(f) : \A j \in Held(f) : v[i] <= v[j]
            <4> HIDE DEF v
            <4>1. QED
                BY <1>3, <1>5, <2>2, LeastAt
        <3>2. \A u \in heads : v[i] <= u
            BY <1>5, <3>1
        <3>3. v[i] \in heads /\ v[i] \in Int
            BY <1>5
        <3>4. CASE \A u \in own : v[i] <= u
            BY <3>2, <3>3, <3>4
        <3>5. CASE ~(\A u \in own : v[i] <= u)
            <4>1. PICK w \in own : ~(v[i] <= w)
                BY <3>5
            <4>2. w \in Int /\ \A u \in own : u = w
                BY <1>6, <4>1
            <4>3. \A u \in heads : u \in Int
                BY <1>4
            <4>4. \A u \in heads : w <= u
                <5> HIDE DEF v, heads
                <5>1. QED
                    BY <3>2, <3>3, <4>1, <4>2, <4>3
            <4>5. QED
                BY <4>1, <4>2, <4>4
        <3>6. QED
            BY <3>4, <3>5
    <2>3. QED
        BY <2>1, <2>2
<1>8. NextTime(f) = CHOOSE t \in times : \A u \in times : t <= u
    BY DEF NextTime
<1>9. NextTime(f) \in times /\ \A u \in times : NextTime(f) <= u
    BY <1>7, <1>8
<1>10. times \in SUBSET Int
    BY <1>4, <1>6
<1>11. QED
    BY <1>9, <1>10

(* Putting out a frame keeps the filter graphs well typed. *)
LEMMA MadeTyped ==
  ASSUME GraphIs, FgtTyped(fgt), NEW f \in Filters, CanMake(f)
  PROVE  /\ FgtTyped([fgt EXCEPT ![f] = [Made(f) EXCEPT !.got = TRUE]])
         /\ FgtTyped([fgt EXCEPT ![f] = [Made(f) EXCEPT !.sink = <<NextTime(f)>>, !.next_in = NoInput]])
<1> DEFINE held == [i \in Inputs(f) |-> IF i \in Held(f) /\ Head(fgt[f].held[i]) = NextTime(f)
                                        THEN Tail(fgt[f].held[i]) ELSE fgt[f].held[i]]
           made == IF OwnLeft(f) /\ NextTime(f) = fgt[f].made + 1 THEN fgt[f].made + 1 ELSE fgt[f].made
<1>1. Made(f) = [fgt[f] EXCEPT !.held = held, !.made = made]
    BY FilterIs DEF Made, FgtT
<1>2. held \in [Inputs(f) -> Seq(Int)]
    <2>1. ASSUME NEW i \in Inputs(f)
          PROVE  (IF i \in Held(f) /\ Head(fgt[f].held[i]) = NextTime(f)
                  THEN Tail(fgt[f].held[i]) ELSE fgt[f].held[i]) \in Seq(Int)
        <3>1. fgt[f].held[i] \in Seq(Int)
            BY FilterIs
        <3>2. i \in Held(f) => Tail(fgt[f].held[i]) \in Seq(Int)
            BY <3>1, HeadIn DEF Held
        <3>3. QED
            BY <3>1, <3>2
    <2>2. QED
        BY <2>1
<1>3. made \in Nat
    BY FilterIs
<1>4. <<NextTime(f)>> \in Seq(Int) /\ NoInput \in Nat
    BY NextTimeIs DEF NoInput
<1> HIDE DEF held, made
<1>5. [Made(f) EXCEPT !.got = TRUE] \in FgtT(f)
    BY <1>1, <1>2, <1>3, FilterIs DEF FgtT
<1>6. [Made(f) EXCEPT !.sink = <<NextTime(f)>>, !.next_in = NoInput] \in FgtT(f)
    BY <1>1, <1>2, <1>3, <1>4, FilterIs DEF FgtT
<1>7. ASSUME NEW x \in FgtT(f) PROVE FgtTyped([fgt EXCEPT ![f] = x])
    BY DEF FgtTyped
<1>8. QED
    BY <1>5, <1>6, <1>7

(* The next packet that is moved when a muxer starts.                      *)
LEMMA MuxIs ==
  ASSUME MuxTyped(mux), NEW m \in Muxers
  PROVE  /\ mux[m] \in MuxT(m)
         /\ mux[m].ready \in SUBSET Inputs(m)
         /\ mux[m].pre \in [Inputs(m) -> Seq(Int)] /\ mux[m].written \in [Inputs(m) -> Seq(Int)]
         /\ mux[m].state = "unready" <=> mux[m].ready # Inputs(m)
BY DEF MuxTyped, MuxT

(* NextPre is an input whose pre-mux queue holds something. *)
LEMMA NextPreIs ==
  ASSUME GraphIs, MuxTyped(mux), NEW m \in Muxers, \E j \in Inputs(m) : mux[m].pre[j] # <<>>
  PROVE  /\ NextPre(m) \in Inputs(m) /\ mux[m].pre[NextPre(m)] # <<>>
         /\ mux[m].pre[NextPre(m)] \in Seq(Int)
<1> DEFINE heads == {i \in Inputs(m) : mux[m].pre[i] # <<>>}
           ends == {i \in heads : Head(mux[m].pre[i]) = EofFrame}
           v == [i \in heads |-> Head(mux[m].pre[i])]
           least == IF ends # {} THEN ends
                    ELSE {i \in heads : \A j \in heads : Head(mux[m].pre[i]) <= Head(mux[m].pre[j])}
<1>1. m \in Nodes
    BY NodeFacts
<1>2. IsFiniteSet(heads) /\ heads \in SUBSET Int /\ heads # {} /\ heads \in SUBSET Inputs(m)
    <2>1. IsFiniteSet(Inputs(m)) /\ Inputs(m) \in SUBSET Nat
        BY <1>1, InputFacts
    <2>2. QED
        BY <2>1, FS_Subset
<1>3. v \in [heads -> Int] /\ \A i \in heads : v[i] = Head(mux[m].pre[i])
    <2>1. ASSUME NEW i \in heads PROVE Head(mux[m].pre[i]) \in Int
        <3>1. mux[m].pre[i] \in Seq(Int) /\ mux[m].pre[i] # <<>>
            BY MuxIs
        <3>2. QED
            BY <3>1, HeadIn
    <2>2. QED
        BY <2>1
<1>4. least \in SUBSET heads /\ least # {}
    <2>1. CASE ends # {}
        BY <2>1
    <2>2. CASE ends = {}
        <3>1. PICK i \in heads : \A j \in heads : v[i] <= v[j]
            <4> HIDE DEF v, heads
            <4>1. QED
                BY <1>2, <1>3, LeastAt
        <3>2. \A j \in heads : Head(mux[m].pre[i]) <= Head(mux[m].pre[j])
            <4> HIDE DEF v
            <4>1. QED
                BY <1>3, <3>1
        <3>3. QED
            BY <2>2, <3>1, <3>2
    <2>3. QED
        BY <2>1, <2>2
<1>5. NextPre(m) = CHOOSE i \in least : \A j \in least : i <= j
    BY DEF NextPre
<1> HIDE DEF least
<1>6. IsFiniteSet(least) /\ least \in SUBSET Int
    BY <1>2, <1>4, FS_Subset
<1>7. \E i \in least : \A j \in least : i <= j
    BY <1>4, <1>6, LeastOf
<1>8. NextPre(m) \in heads
    BY <1>4, <1>5, <1>7
<1>9. QED
    BY <1>8, MuxIs

(* Jobs one after the other.                                               *)
LEMMA FlattenJobs ==
  ASSUME NEW S, NEW s \in Seq(Seq(S))
  PROVE  FlattenSeq(s) \in Seq(S)
BY FlattenLocates

(* Who starts a muxer keeps finding it started, whoever takes a step.      *)
LEMMA FlushKeeps ==
  ASSUME TaskTyped(task), FlushTyped(task, mux), NEW n \in Nodes, NEW jobs, NewJobs(n, jobs),
         \A job \in jobs : job.do = "flush" => mux'[job.dst[1]].state # "unready",
         \A m \in Muxers : mux[m].state # "unready" => mux'[m].state # "unready"
  PROVE  FlushTyped(task', mux')
<1> SUFFICES ASSUME NEW x \in Nodes, NEW job \in Range(task'[x].todo), job.do = "flush"
             PROVE  mux'[job.dst[1]].state # "unready"
    BY DEF FlushTyped
<1>1. CASE job \in Range(task[x].todo)
    <2>1. task[x].todo \in Seq(Jobs(x))
        BY DEF TaskTyped, TaskT
    <2>2. job \in Jobs(x)
        BY <1>1, <2>1, RangeOfSeq
    <2>3. job.dst[1] \in Muxers
        BY <2>2 DEF Jobs
    <2>4. mux[job.dst[1]].state # "unready"
        BY <1>1 DEF FlushTyped
    <2>5. QED
        BY <2>3, <2>4
<1>2. CASE job \notin Range(task[x].todo)
    <2>1. job \in jobs
        BY <1>2 DEF NewJobs
    <2>2. QED
        BY <2>1
<1>3. QED
    BY <1>1, <1>2

(* Where nothing else changes.                                             *)
LEMMA SameMux ==
  ASSUME TypeInv, UNCHANGED mux
  PROVE  /\ MuxTyped(mux')
         /\ \A m \in Muxers : mux[m].state # "unready" => mux'[m].state # "unready"
BY DEF TypeInv

(* A step of a thread is typed when its parts are.                         *)
Locked == sched' \in SchedT /\ update'.unchoke \cap update'.choke = {}
Monotone == MuxTyped(mux') /\ \A m \in Muxers : mux[m].state # "unready" => mux'[m].state # "unready"

Works(n) ==
  /\ TaskTyped(task')
  /\ \E jobs : /\ NewJobs(n, jobs)
               /\ \A job \in jobs : job.do = "flush" => mux'[job.dst[1]].state # "unready"

(* A step that does the work of one thread keeps the type invariant. *)
LEMMA WorkTyped ==
  ASSUME TypeInv, UNCHANGED <<graph, choked, main, terminate>>, NEW n \in Nodes, Works(n),
         QueueTyped(queue'), Monotone, FgtTyped(fgt'), Locked
  PROVE  TypeInv'
<1>1. FlushTyped(task', mux')
    BY FlushKeeps DEF TypeInv, Monotone, Works
<1>2. QED
    BY <1>1, TypedNext DEF TypeInv, Monotone, Locked, Works

(* Finishing a job is the work of one thread. *)
LEMMA DoneWorks ==
  ASSUME TypeInv, NEW n \in Nodes, task[n].todo # <<>>, NEW jobs \in Seq(Jobs(n)), Done(n, jobs),
         \A job \in Range(jobs) : job.do = "flush" => mux'[job.dst[1]].state # "unready"
  PROVE  Works(n)
BY DoneTyped DEF TypeInv, Works

(* Taking up new jobs is the work of one thread. *)
LEMMA BecomeWorks ==
  ASSUME TypeInv, NEW n \in Nodes, NEW at \in Ats, NEW jobs \in Seq(Jobs(n)),
         task' = Become(n, at, jobs), \A job \in Range(jobs) : job.do # "flush"
  PROVE  Works(n)
BY BecomeTyped DEF TypeInv, Works

(* Closing a destination is the work of one thread. *)
LEMMA FinishWorks ==
  ASSUME TypeInv, NEW n \in Nodes, task[n].todo # <<>>, NEW jobs \in Seq(Jobs(n)),
         NEW dst \in Range(Dsts(n)),
         task' = [task EXCEPT ![n].todo = jobs \o Tail(@), ![n].finished = @ \cup {dst}],
         \A job \in Range(jobs) : job.do # "flush"
  PROVE  Works(n)
BY FinishTyped DEF TypeInv, Works

(* The end of a thread is the work of one thread. *)
LEMMA EndWorks ==
  ASSUME TypeInv, NEW n \in Nodes, NEW failed \in BOOLEAN, End(n, failed)
  PROVE  Works(n) /\ QueueTyped(queue')
<1>1. TaskTyped(task') /\ QueueTyped(queue') /\ NewJobs(n, Range(Cleanup(n)))
    BY EndTyped DEF TypeInv
<1>2. \A job \in Range(Cleanup(n)) : job.do # "flush"
    BY CleanupTyped DEF TypeInv
<1>3. QED
    BY <1>1, <1>2 DEF Works

(* A step that leaves the schedule alone leaves it well typed. *)
LEMMA SameLock == TypeInv /\ UNCHANGED <<sched, update>> => Locked
BY DEF TypeInv, Locked

(* A step that leaves the muxers alone undoes no start. *)
LEMMA SameStreams == TypeInv /\ UNCHANGED mux => Monotone
BY DEF TypeInv, Monotone

(* The job a thread has before it.                                         *)
LEMMA JobIs ==
  ASSUME TypeInv, NEW n \in Nodes, task[n].todo # <<>>
  PROVE  /\ Head(task[n].todo) \in Jobs(n)
         /\ Head(task[n].todo) \in Range(task[n].todo)
         /\ task[n].todo \in Seq(Jobs(n))
<1>1. task[n].todo \in Seq(Jobs(n))
    BY DEF TypeInv, TaskTyped, TaskT
<1>2. QED
    BY <1>1, HeadIn

(* A destination of a thread is an input of a thread that receives. *)
LEMMA DestIs ==
  ASSUME TypeInv, NEW n \in Nodes, NEW dst \in Range(Dsts(n))
  PROVE  /\ dst[1] \in Receivers /\ dst[2] \in Inputs(dst[1]) /\ dst = <<dst[1], dst[2]>> /\ dst \in Dests
         /\ dst[1] \in Muxers => dst \in Streams
BY DestFacts, WayFacts DEF TypeInv

(* The empty sequence. *)
LEMMA Empty ==
  ASSUME NEW S
  PROVE  <<>> \in Seq(S) /\ Range(<<>>) = {}
BY DEF Range

(* A sequence of one element. *)
LEMMA Single ==
  ASSUME NEW S, NEW x \in S
  PROVE  <<x>> \in Seq(S) /\ Range(<<x>>) = {x}
BY DEF Range

(* sch_send keeps the type invariant. *)
LEMMA StepSend ==
  ASSUME TypeInv, NEW n \in Nodes, task[n].todo # <<>>, NEW dst \in Range(Dsts(n)), NEW t \in Int,
         Send(n, dst, t), UNCHANGED <<graph, choked, sched, update, fgt, main, stopper, terminate>>
  PROVE  TypeInv'
<1> DEFINE x == dst[1]
           i == dst[2]
           then == IF x \in Muxers THEN <<Report(dst, t)>> ELSE <<>>
<1>1. /\ GraphIs /\ QueueTyped(queue) /\ MuxTyped(mux) /\ FgtTyped(fgt')
      /\ UNCHANGED <<graph, choked, main, terminate>> /\ Locked
    BY SameLock DEF TypeInv
<1>2. x \in Receivers /\ i \in Inputs(x) /\ (x \in Muxers => dst \in Streams)
    BY DestIs
<1>3. then \in Seq(Jobs(n)) /\ \A job \in Range(then) : job.do = "report"
    <2>1. CASE x \in Muxers
        <3>1. Report(dst, t) \in Jobs(n) /\ Report(dst, t).do = "report"
            BY <1>1, <1>2, <2>1, JobTypes DEF Report, Job
        <3>2. QED
            BY <2>1, <3>1, Single
    <2>2. CASE x \notin Muxers
        BY <2>2, Empty
    <2>3. QED
        BY <2>1, <2>2
<1> HIDE DEF then
<1>4. ASSUME Works(n), QueueTyped(queue'), Monotone PROVE TypeInv'
    BY <1>1, <1>4, WorkTyped
<1>5. CASE Done(n, <<>>) /\ UNCHANGED <<queue, mux>>
    <2>1. Works(n)
        BY <1>5, DoneWorks, Empty
    <2>2. QED
        BY <1>1, <1>4, <1>5, <2>1, SameStreams
<1>6. CASE Done(n, then) /\ (UNCHANGED queue \/ (HasRoom(x) /\ queue' = Put(x, i, t))) /\ UNCHANGED mux
    <2>1. QueueTyped(queue')
        BY <1>1, <1>2, <1>6, PutTyped
    <2>2. Works(n)
        BY <1>3, <1>6, DoneWorks
    <2>3. QED
        BY <1>4, <1>6, <2>1, <2>2, SameStreams
<1>7. CASE /\ x \in Muxers /\ Done(n, then) /\ UNCHANGED queue
           /\ mux' = [mux EXCEPT ![x].pre[i] = Append(@, t)]
    <2>1. Append(mux[x].pre[i], t) \in Seq(Int)
        BY <1>1, <1>2, <1>7, MuxIs, SMTT(30)
    <2>2. Monotone
        BY <1>1, <1>2, <1>7, <2>1, ZenonT(30) DEF Monotone, MuxTyped, MuxT
    <2>3. Works(n)
        BY <1>3, <1>7, DoneWorks
    <2>4. QED
        BY <1>1, <1>4, <1>7, <2>2, <2>3
<1>8. CASE End(n, TRUE) /\ UNCHANGED mux
    BY <1>4, <1>8, EndWorks, SameStreams
<1>9. CASE Done(n, <<Finish(dst)>>) /\ UNCHANGED <<queue, mux>>
    <2>1. Finish(dst) \in Jobs(n) /\ Finish(dst).do = "finish"
        BY <1>1, JobTypes DEF Finish, Job, NoTime
    <2>2. <<Finish(dst)>> \in Seq(Jobs(n)) /\ Range(<<Finish(dst)>>) = {Finish(dst)}
        BY <2>1, Single
    <2>3. Works(n)
        BY <1>9, <2>1, <2>2, DoneWorks
    <2>4. QED
        BY <1>1, <1>4, <1>9, <2>3, SameStreams
<1>10. QED
    BY <1>5, <1>6, <1>7, <1>8, <1>9 DEF Send, then

(* Opening an encoder keeps the type invariant. *)
LEMMA StepOpen ==
  ASSUME TypeInv, NEW n \in Nodes, task[n].todo # <<>>, NEW dst \in Range(Dsts(n)), NEW t \in Int,
         OpenEncoder(n, dst, t), UNCHANGED <<graph, choked, sched, update, fgt, main, stopper, terminate>>
  PROVE  TypeInv'
<1> DEFINE m == StreamOf(dst[1])[1]
           i == StreamOf(dst[1])[2]
           start == mux[m].ready \cup {i} = Inputs(m)
           flush == IF start THEN <<Job("flush", <<m, 0>>, NoTime)>> ELSE <<>>
           frame == IF t = NoTime THEN <<>> ELSE <<Job("send", dst, t)>>
<1>1. /\ GraphIs /\ MuxTyped(mux) /\ QueueTyped(queue') /\ FgtTyped(fgt')
      /\ UNCHANGED <<graph, choked, main, terminate>> /\ Locked
    BY SameLock DEF TypeInv, OpenEncoder
<1>2. dst[1] \in OfKind("enc")
    BY <1>1, DestIs, NodeFacts DEF OpenEncoder, Receivers
<1>3. m \in Muxers /\ i \in Inputs(m)
    BY <1>1, <1>2, EncoderFacts
<1>4. /\ i \notin mux[m].ready /\ mux[m].state # "flushing"
      /\ mux' = [mux EXCEPT ![m].ready = @ \cup {i}, ![m].state = IF start THEN "flushing" ELSE @]
      /\ Done(n, flush \o frame)
    BY <1>3, SMTT(30) DEF OpenEncoder, Flushing
<1> DEFINE y == [mux[m] EXCEPT !.ready = @ \cup {i}, !.state = IF start THEN "flushing" ELSE @]
<1>5. y \in MuxT(m) /\ (y.state = "unready" <=> y.ready # Inputs(m)) /\ (start => y.state # "unready")
    <2>1. mux[m] \in MuxT(m) /\ (mux[m].state = "unready" <=> mux[m].ready # Inputs(m))
        BY <1>1, <1>3, MuxIs
    <2>2. mux[m].state = "unready"
        BY <1>3, <1>4, <2>1, SMTT(30)
    <2>3. QED
        BY <1>3, <2>1, <2>2, Zenon DEF MuxT
<1>6. mux' = [mux EXCEPT ![m] = y]
    BY <1>4, Zenon
<1> HIDE DEF y
<1>7. Monotone /\ (start => mux'[m].state # "unready")
    <2>1. mux'[m] = y /\ DOMAIN mux' = Muxers /\ \A k \in Muxers \ {m} : mux'[k] = mux[k]
        BY <1>1, <1>3, <1>6 DEF MuxTyped
    <2>2. mux[m].state = "unready"
        BY <1>1, <1>3, <1>4, MuxIs
    <2>3. QED
        BY <1>1, <1>3, <1>5, <2>1, <2>2 DEF Monotone, MuxTyped
<1> DEFINE good == {job \in Jobs(n) : job.do = "flush" => mux'[job.dst[1]].state # "unready"}
<1>8. flush \in Seq(good)
    <2>1. CASE start
        <3>1. Job("flush", <<m, 0>>, NoTime) \in Jobs(n)
            BY <1>1, <1>3, JobTypes
        <3>2. Job("flush", <<m, 0>>, NoTime).dst[1] = m
            BY DEF Job
        <3>3. Job("flush", <<m, 0>>, NoTime) \in good
            BY <1>7, <2>1, <3>1, <3>2
        <3>4. QED
            <4> HIDE DEF good
            <4>1. QED
                BY <2>1, <3>3, Single
    <2>2. CASE ~start
        BY <2>2, Empty
    <2>3. QED
        BY <2>1, <2>2
<1>9. frame \in Seq(good)
    <2>1. CASE t # NoTime
        <3>1. Job("send", dst, t) \in Jobs(n) /\ Job("send", dst, t).do # "flush"
            BY <1>1, JobTypes DEF Job
        <3>2. Job("send", dst, t) \in good
            BY <3>1
        <3>3. QED
            <4> HIDE DEF good
            <4>1. QED
                BY <2>1, <3>2, Single
    <2>2. CASE t = NoTime
        BY <2>2, Empty
    <2>3. QED
        BY <2>1, <2>2
<1>10. good \in SUBSET Jobs(n) /\ \A job \in good : job.do = "flush" => mux'[job.dst[1]].state # "unready"
    OBVIOUS
<1> HIDE DEF good, flush, frame
<1>11. flush \o frame \in Seq(good)
    BY <1>8, <1>9, ConcatProperties
<1> DEFINE jobs == flush \o frame
<1> HIDE DEF jobs
<1>12. jobs \in Seq(Jobs(n)) /\ Range(jobs) \subseteq good
    BY <1>10, <1>11, SeqMonotonic, RangeOfSeq, Zenon DEF jobs
<1>13. Works(n)
    BY <1>4, <1>10, <1>12, DoneWorks, Zenon DEF jobs
<1>14. QED
    BY <1>1, <1>7, <1>13, WorkTyped

(* Sending on a packet of a pre-mux queue keeps the type invariant. *)
LEMMA StepFlush ==
  ASSUME TypeInv, NEW n \in Nodes, task[n].todo # <<>>, NEW m \in Muxers, mux[m].state # "unready",
         Flush(n, m), UNCHANGED <<graph, choked, sched, update, fgt, main, stopper, terminate>>
  PROVE  TypeInv'
<1> DEFINE i == NextPre(m)
           t == Head(mux[m].pre[i])
<1>1. /\ GraphIs /\ MuxTyped(mux) /\ QueueTyped(queue) /\ FgtTyped(fgt')
      /\ UNCHANGED <<graph, choked, main, terminate>> /\ Locked
    BY SameLock DEF TypeInv
<1>2. ASSUME NEW y \in MuxT(m), y.state # "unready", y.ready = mux[m].ready,
             mux' = [mux EXCEPT ![m] = y]
      PROVE  Monotone
    <2>1. mux'[m] = y /\ DOMAIN mux' = Muxers /\ \A k \in Muxers \ {m} : mux'[k] = mux[k]
        BY <1>1, <1>2 DEF MuxTyped
    <2>2. mux[m].ready = Inputs(m)
        BY <1>1, MuxIs
    <2>3. QED
        BY <1>1, <1>2, <2>1, <2>2 DEF Monotone, MuxTyped
<1>3. CASE \A j \in Inputs(m) : mux[m].pre[j] = <<>>
    <2> DEFINE y == [mux[m] EXCEPT !.state = "started"]
    <2>1. mux' = [mux EXCEPT ![m] = y] /\ Done(n, <<>>) /\ UNCHANGED queue
        BY <1>3 DEF Flush
    <2>2. y \in MuxT(m) /\ y.state # "unready" /\ y.ready = mux[m].ready
        BY <1>1, MuxIs DEF MuxT
    <2> HIDE DEF y
    <2>3. Monotone
        BY <1>2, <2>1, <2>2
    <2>4. Works(n)
        BY <2>1, DoneWorks, Empty
    <2>5. QED
        BY <1>1, <2>1, <2>3, <2>4, WorkTyped
<1>4. CASE ~(\A j \in Inputs(m) : mux[m].pre[j] = <<>>)
    <2> DEFINE p == [mux[m].pre EXCEPT ![i] = Tail(mux[m].pre[i])]
               y == [mux[m] EXCEPT !.pre = p]
    <2>0. /\ mux' = [mux EXCEPT ![m].pre[i] = Tail(@)]
          /\ queue' = IF t = EofFrame THEN SendFinished(m, i)
                      ELSE IF i \in queue[m].closed THEN queue ELSE Put(m, i, t)
          /\ (t # EofFrame /\ i \notin queue[m].closed) => HasRoom(m)
          /\ UNCHANGED task
        <3> HIDE DEF y, p
        <3>1. QED
            BY <1>4 DEF Flush
    <2>1. mux' = [mux EXCEPT ![m] = y]
        <3> HIDE DEF i
        <3>1. QED
            BY <2>0
    <2>2. i \in Inputs(m) /\ mux[m].pre[i] # <<>> /\ mux[m].pre[i] \in Seq(Int)
        BY <1>1, <1>4, NextPreIs
    <2>3. t \in Int /\ Tail(mux[m].pre[i]) \in Seq(Int)
        BY <2>2, HeadIn
    <2>4. mux[m] \in MuxT(m)
        BY <1>1, MuxIs
    <2> HIDE DEF i, t
    <2>12. p \in [Inputs(m) -> Seq(Int)]
        BY <2>2, <2>3, <2>4 DEF MuxT
    <2> HIDE DEF p
    <2>5. y \in MuxT(m) /\ y.state # "unready" /\ y.ready = mux[m].ready
        BY <2>4, <2>12 DEF MuxT
    <2> HIDE DEF y
    <2>6. Monotone
        BY <1>2, <2>1, <2>5
    <2>7. m \in Receivers
        BY <1>1, NodeFacts
    <2>8. QueueTyped(queue')
        BY <1>1, <2>0, <2>2, <2>3, <2>7, PutTyped, SendFinishedTyped
    <2>9. FlushTyped(task', mux')
        BY <2>0, <2>6 DEF TypeInv, FlushTyped, Monotone, TaskTyped, TaskT
    <2>10. TaskTyped(task')
        BY <2>0 DEF TypeInv
    <2>11. QED
        BY <1>1, <2>6, <2>8, <2>9, <2>10, TypedNext DEF TypeInv, Monotone, Locked
<1>5. QED
    BY <1>3, <1>4

(* Recording an end at either side of a connection keeps the schedule well typed. *)
LEMMA SchedIs ==
  ASSUME TypeInv
  PROVE  /\ sched \in SchedT
         /\ \A d \in SUBSET Dests : /\ [sched EXCEPT !.sent = @ \cup d] \in SchedT
                                    /\ [sched EXCEPT !.received = @ \cup d] \in SchedT
         /\ \A d \in SUBSET Streams : [sched EXCEPT !.done = @ \cup d] \in SchedT
         /\ \A d \in SUBSET Sources : [sched EXCEPT !.exited = @ \cup d] \in SchedT
         /\ \A ms \in Streams : \A t \in Int : [sched EXCEPT !.last[ms] = t] \in SchedT
         /\ \A f \in Filters : \A k \in Nat : [sched EXCEPT !.best[f] = k] \in SchedT
BY SMTT(30) DEF TypeInv, SchedT

(* Closing a destination keeps the type invariant. *)
LEMMA StepFinish ==
  ASSUME TypeInv, NEW n \in Nodes, task[n].todo # <<>>, NEW dst \in Range(Dsts(n)),
         FinishDst(n, dst), UNCHANGED <<graph, choked, fgt, main, stopper, terminate>>
  PROVE  TypeInv'
<1> DEFINE x == dst[1]
           i == dst[2]
           jobs(js) == task' = [task EXCEPT ![n].todo = js \o Tail(@), ![n].finished = @ \cup {dst}]
<1>1. /\ GraphIs /\ QueueTyped(queue) /\ MuxTyped(mux) /\ FgtTyped(fgt')
      /\ UNCHANGED <<graph, choked, main, terminate>>
    BY DEF TypeInv
<1>2. x \in Receivers /\ i \in Inputs(x) /\ (x \in Muxers => dst \in Streams) /\ dst \in Dests
    BY DestIs
<1>3. ASSUME Works(n), QueueTyped(queue'), Monotone, Locked PROVE TypeInv'
    BY <1>1, <1>3, WorkTyped
<1>4. ASSUME dst \in Streams
      PROVE  /\ <<Report(dst, EofFrame)>> \in Seq(Jobs(n))
             /\ \A job \in Range(<<Report(dst, EofFrame)>>) : job.do # "flush"
    <2>1. Report(dst, EofFrame) \in Jobs(n) /\ Report(dst, EofFrame).do = "report"
        BY <1>1, <1>4, JobTypes DEF Report, Job, EofFrame
    <2>2. QED
        BY <2>1, Single
<1>5. <<>> \in Seq(Jobs(n)) /\ \A job \in Range(<<>>) : job.do # "flush"
    BY Empty
<1>6. CASE Done(n, <<>>) /\ UNCHANGED <<queue, mux, sched, update>>
    <2>1. Works(n)
        BY <1>6, DoneWorks, Empty
    <2>2. QED
        BY <1>1, <1>3, <1>6, <2>1, SameStreams, SameLock
<1>7. CASE /\ x \in Muxers /\ mux' = [mux EXCEPT ![x].pre[i] = Append(@, EofFrame)]
           /\ jobs(<<Report(dst, EofFrame)>>) /\ UNCHANGED <<queue, sched, update>>
    <2>1. Append(mux[x].pre[i], EofFrame) \in Seq(Int)
        BY <1>1, <1>2, <1>7, MuxIs, SMTT(30) DEF EofFrame
    <2>2. Monotone
        BY <1>1, <1>2, <1>7, <2>1, ZenonT(30) DEF Monotone, MuxTyped, MuxT
    <2>3. Works(n)
        BY <1>2, <1>4, <1>7, FinishWorks
    <2>4. QED
        BY <1>1, <1>3, <1>7, <2>2, <2>3, SameLock
<1>8. CASE jobs(<<>>) /\ UNCHANGED <<queue, mux, sched, update>>
    <2>1. Works(n)
        BY <1>5, <1>8, FinishWorks
    <2>2. QED
        BY <1>1, <1>3, <1>8, <2>1, SameStreams, SameLock
<1>9. CASE /\ queue' = SendFinished(x, i) /\ UNCHANGED mux
           /\ jobs(IF x \in Muxers THEN <<Report(dst, EofFrame)>> ELSE <<>>)
           /\ IF x \in Filters THEN Reschedule(n, [sched EXCEPT !.sent = @ \cup {dst}])
              ELSE UNCHANGED <<sched, update>>
    <2>1. Works(n)
        <3>1. CASE x \in Muxers
            BY <1>2, <1>4, <1>9, <3>1, FinishWorks
        <3>2. CASE x \notin Muxers
            BY <1>5, <1>9, <3>2, FinishWorks
        <3>3. QED
            BY <3>1, <3>2
    <2>2. QueueTyped(queue')
        BY <1>1, <1>2, <1>9, SendFinishedTyped
    <2>3. Locked
        <3>1. CASE x \in Filters
            <4>1. [sched EXCEPT !.sent = @ \cup {dst}] \in SchedT
                BY <1>2, SchedIs
            <4>2. QED
                BY <1>9, <3>1, <4>1, RescheduleTyped DEF Locked
        <3>2. CASE x \notin Filters
            BY <1>9, <3>2, SameLock
        <3>3. QED
            BY <3>1, <3>2
    <2>4. QED
        BY <1>3, <1>9, <2>1, <2>2, <2>3, SameStreams
<1>10. QED
    BY <1>6, <1>7, <1>8, <1>9, Zenon DEF FinishDst

(* Reporting that a destination is done keeps the type invariant. *)
LEMMA StepReport ==
  ASSUME TypeInv, NEW n \in Nodes, task[n].todo # <<>>,
         NEW dst, dst \in Streams \/ (n \in Filters /\ dst \in {n} \X Inputs(n)), NEW t \in Int,
         ReportDst(n, dst, t), UNCHANGED <<graph, choked, fgt, main, stopper, terminate>>
  PROVE  TypeInv'
<1>1. /\ GraphIs /\ QueueTyped(queue) /\ MuxTyped(mux) /\ FgtTyped(fgt')
      /\ UNCHANGED <<graph, choked, main, terminate>>
    BY DEF TypeInv
<1>2. Works(n)
    BY DoneWorks, Empty DEF ReportDst
<1>3. Monotone
    BY SameStreams DEF ReportDst
<1>4. CASE dst[1] \in Filters
    <2>1. dst \in {n} \X Inputs(n) /\ n \in Filters
        <3>1. dst \notin Streams
            BY <1>1, <1>4, GraphMakes, NodeFacts DEF Filters
        <3>2. QED
            BY <3>1
    <2>2. dst[1] = n /\ dst[2] \in Inputs(n) /\ dst \in Dests /\ n \in Receivers
        BY <1>1, <2>1, InputFacts, NodeFacts
    <2>3. QueueTyped(queue')
        BY <1>1, <1>4, <2>2, ClosedTyped DEF ReportDst
    <2>4. [sched EXCEPT !.received = @ \cup {dst}] \in SchedT
        BY <2>2, SchedIs
    <2>5. Locked
        BY <1>4, <2>4, RescheduleTyped DEF ReportDst, Locked
    <2>6. QED
        BY <1>1, <1>2, <1>3, <2>3, <2>5, WorkTyped
<1>5. CASE dst[1] \notin Filters
    <2>1. dst \in Streams
        BY <1>5
    <2>2. QueueTyped(queue')
        BY <1>1, <1>5 DEF ReportDst
    <2>3. [sched EXCEPT !.done = @ \cup {dst}] \in SchedT /\ [sched EXCEPT !.last[dst] = t] \in SchedT
        BY <2>1, SchedIs
    <2>4. Locked
        <3>1. CASE t = EofFrame
            BY <1>5, <2>3, <3>1, RescheduleTyped DEF ReportDst, Locked
        <3>2. CASE t # EofFrame
            BY <1>5, <2>3, <3>2, RescheduleTyped DEF ReportDst, Locked
        <3>3. QED
            BY <3>1, <3>2
    <2>5. QED
        BY <1>1, <1>2, <1>3, <2>2, <2>4, WorkTyped
<1>6. QED
    BY <1>4, <1>5

(* The exit of a thread keeps the type invariant. *)
LEMMA StepExit ==
  ASSUME TypeInv, NEW n \in Nodes,
         ExitTask(n), UNCHANGED <<graph, choked, fgt, main, stopper, terminate>>
  PROVE  TypeInv'
<1>1. /\ GraphIs /\ QueueTyped(queue) /\ MuxTyped(mux) /\ FgtTyped(fgt')
      /\ UNCHANGED <<graph, choked, main, terminate>>
    BY DEF TypeInv
<1>2. Works(n)
    <2>1. task' = Become(n, "ended", <<>>) /\ "ended" \in Ats
        BY DEF ExitTask, Ats
    <2>2. QED
        BY <2>1, BecomeWorks, Empty
<1>3. Monotone
    BY SameStreams DEF ExitTask
<1>4. QueueTyped(queue')
    <2>1. n \in Muxers => n \in Receivers
        BY <1>1, NodeFacts
    <2>2. QED
        BY <1>1, <2>1, ClosedTyped DEF ExitTask
<1>5. Locked
    <2>1. CASE n \in Sources
        <3>1. [sched EXCEPT !.exited = @ \cup {n}] \in SchedT
            BY <2>1, SchedIs
        <3>2. QED
            BY <2>1, <3>1, RescheduleTyped DEF ExitTask, Locked
    <2>2. CASE n \notin Sources /\ n \in Muxers
        <3>1. [sched EXCEPT !.done = @ \cup {ms \in Streams : ms[1] = n}] \in SchedT
            BY SchedIs
        <3>2. QED
            BY <2>2, <3>1, RescheduleTyped DEF ExitTask, Locked
    <2>3. CASE n \notin Sources /\ n \notin Muxers
        BY <2>3, SameLock DEF ExitTask
    <2>4. QED
        BY <2>1, <2>2, <2>3
<1>6. QED
    BY <1>1, <1>2, <1>3, <1>4, <1>5, WorkTyped

(* A filter graph that chokes its inputs keeps the type invariant. *)
LEMMA StepChoke ==
  ASSUME TypeInv, NEW n \in Nodes, task[n].todo # <<>>,
         ChokeInputs(n), UNCHANGED <<graph, choked, fgt, main, stopper, terminate>>
  PROVE  TypeInv'
<1>1. /\ GraphIs /\ QueueTyped(queue') /\ FgtTyped(fgt')
      /\ UNCHANGED <<graph, mux, choked, main, terminate>>
    BY DEF TypeInv, ChokeInputs
<1>2. Works(n)
    BY <1>1, Empty, DoneWorks DEF ChokeInputs
<1>3. [sched EXCEPT !.best[n] = NoInput] \in SchedT
    BY SchedIs DEF SchedT, NoInput
<1>4. Locked
    BY <1>3, RescheduleTyped DEF ChokeInputs, Locked
<1>5. QED
    BY <1>1, <1>2, <1>4, SameStreams, WorkTyped

(* Every job keeps the type invariant. *)
LEMMA StepJob ==
  ASSUME TypeInv, NEW n \in Nodes, DoJob(n)
  PROVE  TypeInv'
<1> DEFINE job == Head(task[n].todo)
<1>1. job \in Jobs(n) /\ job \in Range(task[n].todo) /\ task[n].todo # <<>>
      /\ UNCHANGED <<graph, choked, fgt, main, stopper, terminate>>
    BY JobIs DEF DoJob
<1>2. /\ job.t \in Int
      /\ job.do \in {"send", "finish"} => job.dst \in Range(Dsts(n))
      /\ job.do = "report" => job.dst \in Streams \/ (n \in Filters /\ job.dst \in {n} \X Inputs(n))
      /\ job.do = "flush" => job.dst[1] \in Muxers /\ mux[job.dst[1]].state # "unready"
    <2>1. job.do = "flush" => mux[job.dst[1]].state # "unready"
        BY <1>1 DEF TypeInv, FlushTyped
    <2> HIDE DEF job
    <2>2. QED
        BY <1>1, <2>1 DEF Jobs
<1> HIDE DEF job
<1>3. CASE /\ job.do = "send" /\ (Send(n, job.dst, job.t) \/ OpenEncoder(n, job.dst, job.t))
           /\ UNCHANGED <<sched, update>>
    BY <1>1, <1>2, <1>3, StepSend, StepOpen
<1>4. CASE job.do = "flush" /\ Flush(n, job.dst[1]) /\ UNCHANGED <<sched, update>>
    BY <1>1, <1>2, <1>4, StepFlush
<1>5. CASE job.do = "finish" /\ FinishDst(n, job.dst)
    BY <1>1, <1>2, <1>5, StepFinish
<1>6. CASE job.do = "report" /\ ReportDst(n, job.dst, job.t)
    BY <1>1, <1>2, <1>6, StepReport
<1>7. CASE job.do = "exit" /\ ExitTask(n)
    BY <1>1, <1>7, StepExit
<1>8. CASE job.do = "choke" /\ ChokeInputs(n)
    BY <1>1, <1>8, StepChoke
<1>9. QED
    BY <1>3, <1>4, <1>5, <1>6, <1>7, <1>8 DEF DoJob, job

(* A step of the loop of a thread leaves the muxers and the lock alone.    *)
LEMMA LoopTyped ==
  ASSUME TypeInv, UNCHANGED <<graph, mux, choked, sched, update, main, terminate>>, NEW n \in Nodes,
         Works(n), QueueTyped(queue'), FgtTyped(fgt')
  PROVE  TypeInv'
BY WorkTyped, SameStreams, SameLock

(* An item that is taken comes from an input of the thread and has a time. *)
LEMMA HasItemIs ==
  ASSUME TypeInv, NEW n \in Receivers, HasItem(n)
  PROVE  /\ QueueTyped(Taken(n))
         /\ \A c \in SUBSET Inputs(n) : QueueTyped([Taken(n) EXCEPT ![n].closed = @ \cup c])
         /\ Item(n)[1] \in Inputs(n) /\ Item(n)[2] \in Int
BY TakenTyped, FirstWanted DEF HasItem, TypeInv

(* Sending to all destinations of an output is the work of one thread. *)
LEMMA SendsWork ==
  ASSUME TypeInv, NEW n \in Nodes, NEW at \in Ats, NEW o \in 1 .. Len(graph.out[n]), NEW t \in Int,
         task' = Become(n, at, SendAll(n, o, t))
  PROVE  Works(n)
<1>1. SendAll(n, o, t) \in Seq(Jobs(n)) /\ \A job \in Range(SendAll(n, o, t)) : job.do # "flush"
    BY SendAllTyped DEF TypeInv
<1>2. QED
    BY <1>1, BecomeWorks

(* A change of place without jobs is the work of one thread. *)
LEMMA IdleWorks ==
  ASSUME TypeInv, NEW n \in Nodes, NEW at \in Ats, task' = Become(n, at, <<>>)
  PROVE  Works(n)
BY BecomeWorks, Empty

(* Nobody has anything new to do.                                          *)
LEMMA SameWorks ==
  ASSUME TaskTyped(task'), NEW n \in Nodes, \A x \in Nodes : task'[x].todo = task[x].todo
  PROVE  Works(n)
<1>1. NewJobs(n, {})
    BY DEF NewJobs
<1>2. QED
    BY <1>1 DEF Works

(* The parts of the type invariant, for the steps that follow. *)
LEMMA TypesOf ==
  ASSUME TypeInv
  PROVE  GraphIs /\ QueueTyped(queue) /\ MuxTyped(mux) /\ FgtTyped(fgt) /\ TaskTyped(task)
BY DEF TypeInv

(* The five kinds of thread and what they do. *)
LEMMA Kinds5 ==
  ASSUME TypeInv
  PROVE  /\ Demuxers \in SUBSET Nodes /\ Sources \in SUBSET Nodes
         /\ OfKind("dec") \in SUBSET Receivers /\ Filters \in SUBSET Receivers
         /\ OfKind("enc") \in SUBSET Receivers /\ Muxers \in SUBSET Receivers
         /\ Receivers \in SUBSET Nodes
<1>1. /\ Nodes = Demuxers \cup OfKind("dec") \cup Filters \cup OfKind("enc") \cup Muxers
      /\ Receivers = OfKind("dec") \cup Filters \cup OfKind("enc") \cup Muxers
    BY NodeFacts, TypesOf
<1>2. QED
    BY <1>1 DEF Sources

(* WaiterWait keeps the type invariant. *)
LEMMA StepWait ==
  ASSUME TypeInv, NEW n \in Sources, WaiterWait(n)
  PROVE  TypeInv'
<1>1. n \in Nodes /\ (n \in Filters => n \in Receivers)
    BY Kinds5
<1>2. Works(n)
    BY <1>1, IdleWorks DEF WaiterWait, Ats
<1>3. QueueTyped(queue')
    BY <1>1, TypesOf, EmptiedTyped DEF WaiterWait
<1>4. UNCHANGED <<others, sched, fgt>>
    BY DEF WaiterWait
<1>5. QED
    BY <1>1, <1>2, <1>3, <1>4, LoopTyped, TypesOf DEF others

(* Demux keeps the type invariant. *)
LEMMA StepDemux ==
  ASSUME TypeInv, NEW d \in Demuxers, Demux(d)
  PROVE  TypeInv'
<1>1. d \in Nodes /\ GraphIs /\ TaskTyped(task) /\ QueueTyped(queue) /\ FgtTyped(fgt)
    BY Kinds5, TypesOf
<1>2. UNCHANGED <<others, sched, fgt>>
    BY DEF Demux
<1>3. ASSUME Works(d), QueueTyped(queue') PROVE TypeInv'
    BY <1>1, <1>2, <1>3, LoopTyped DEF others
<1>4. CASE End(d, FALSE)
    BY <1>1, <1>3, <1>4, EndWorks
<1>5. CASE task' = [task EXCEPT ![d].pos = @ + 1] /\ UNCHANGED queue
    <2>3. task[d].pos + 1 \in Positions
        BY <1>1 DEF TaskTyped, TaskT, Positions
    <2>1. TaskTyped(task') /\ \A x \in Nodes : task'[x].todo = task[x].todo
        BY <1>1, <1>5, <2>3 DEF TaskTyped, TaskT
    <2>2. Works(d)
        BY <1>1, <2>1, SameWorks
    <2>4. QED
        BY <1>1, <1>3, <1>5, <2>2
<1>6. CASE /\ ~AtEnd(d) /\ UNCHANGED queue
           /\ task' = [task EXCEPT ![d].pos = @ + 1, ![d].at = "run",
                                   ![d].todo = SendAll(d, Packet(d)[1], Packet(d)[2])]
    <2>1. graph.file[d] \in Seq((1 .. Len(graph.out[d])) \X Nat)
        BY <1>1, NodeFacts
    <2>2. task[d] \in TaskT(d)
        BY <1>1 DEF TaskTyped
    <2>3. task[d].pos \in Nat \ {0} /\ ~(task[d].pos > Len(graph.file[d]))
        BY <1>6, <2>2 DEF AtEnd, TaskT, Positions
    <2>4. Packet(d) \in (1 .. Len(graph.out[d])) \X Nat
        BY <2>1, <2>3 DEF Packet
    <2>5. Packet(d)[1] \in 1 .. Len(graph.out[d]) /\ Packet(d)[2] \in Int
        BY <2>4
    <2> DEFINE jobs == SendAll(d, Packet(d)[1], Packet(d)[2])
    <2>6. jobs \in Seq(Jobs(d)) /\ \A job \in Range(jobs) : job.do = "send"
        BY <1>1, <2>5, SendAllTyped, SMTT(30)
    <2>7. task' = [task EXCEPT ![d].pos = @ + 1, ![d].at = "run", ![d].todo = jobs]
        BY <1>6
    <2>13. task[d].pos + 1 \in Positions
        BY <2>3 DEF Positions
    <2> HIDE DEF jobs
    <2>8. TaskTyped(task')
        BY <1>1, <2>6, <2>7, <2>13, ZenonT(30) DEF TaskTyped, TaskT, Ats
    <2>9. task'[d].todo = jobs /\ \A x \in Nodes \ {d} : task'[x].todo = task[x].todo
        BY <1>1, <2>7 DEF TaskTyped, TaskT
    <2>10. NewJobs(d, Range(jobs))
        BY <2>9 DEF NewJobs
    <2>11. Works(d)
        BY <2>6, <2>8, <2>10 DEF Works
    <2>12. QED
        BY <1>1, <1>3, <1>6, <2>11
<1>7. QED
    BY <1>4, <1>5, <1>6 DEF Demux

(* Decode keeps the type invariant. *)
LEMMA StepDecode ==
  ASSUME TypeInv, NEW c \in OfKind("dec"), Decode(c)
  PROVE  TypeInv'
<1>1. c \in Nodes /\ c \in Receivers /\ GraphIs /\ QueueTyped(queue) /\ FgtTyped(fgt)
    BY Kinds5, TypesOf
<1>2. UNCHANGED <<others, sched, fgt>>
    BY DEF Decode
<1>3. ASSUME Works(c), QueueTyped(queue') PROVE TypeInv'
    BY <1>1, <1>2, <1>3, LoopTyped DEF others
<1>4. CASE End(c, FALSE)
    BY <1>1, <1>3, <1>4, EndWorks
<1>5. ASSUME ~AllFinished(c) PROVE 1 \in 1 .. Len(graph.out[c])
    <2>1. Range(Dsts(c)) # {}
        BY <1>5 DEF AllFinished
    <2>2. PICK o \in 1 .. Len(graph.out[c]) : TRUE
        BY <1>1, <2>1, DstsFacts
    <2>3. Len(graph.out[c]) \in Nat
        BY <1>1, DstsFacts
    <2>4. QED
        BY <2>2, <2>3
<1>6. CASE /\ ~AllFinished(c) /\ HasItem(c) /\ queue' = Taken(c)
           /\ task' = Become(c, "run", SendAll(c, 1, Item(c)[2]))
    BY <1>1, <1>3, <1>5, <1>6, HasItemIs, SendsWork DEF Ats
<1>7. CASE /\ ~AllFinished(c) /\ queue' = Emptied(c)
           /\ task' = Become(c, "eof", SendAll(c, 1, EofFrame))
    BY <1>1, <1>3, <1>5, <1>7, EmptiedTyped, SendsWork DEF Ats, EofFrame
<1>8. QED
    BY <1>4, <1>6, <1>7 DEF Decode

(* Encode keeps the type invariant. *)
LEMMA StepEncode ==
  ASSUME TypeInv, NEW e \in OfKind("enc"), Encode(e)
  PROVE  TypeInv'
<1>1. e \in Nodes /\ e \in Receivers /\ GraphIs /\ QueueTyped(queue) /\ FgtTyped(fgt)
    BY Kinds5, TypesOf
<1>2. UNCHANGED <<others, sched, fgt>>
    BY DEF Encode
<1>3. ASSUME Works(e), QueueTyped(queue') PROVE TypeInv'
    BY <1>1, <1>2, <1>3, LoopTyped DEF others
<1>4. CASE \E failed \in BOOLEAN : End(e, failed)
    BY <1>1, <1>3, <1>4, EndWorks
<1>5. CASE HasItem(e) /\ queue' = Taken(e) /\ task' = Become(e, "run", SendAll(e, 1, Item(e)[2]))
    <2>1. graph.kind[e] = "enc"
        BY <1>1, NodeFacts
    <2>2. 1 \in 1 .. Len(graph.out[e])
        <3>1. Len(graph.out[e]) = 1
            BY <1>1, <2>1, GraphShape, Zenon
        <3>2. QED
            BY <3>1
    <2>3. QED
        BY <1>1, <1>3, <1>5, <2>2, HasItemIs, SendsWork DEF Ats
<1>6. QED
    BY <1>4, <1>5 DEF Encode

(* Mux keeps the type invariant. *)
LEMMA StepMux ==
  ASSUME TypeInv, NEW m \in Muxers, Mux(m)
  PROVE  TypeInv'
<1>1. m \in Nodes /\ m \in Receivers /\ GraphIs /\ QueueTyped(queue) /\ FgtTyped(fgt) /\ MuxTyped(mux)
    BY Kinds5, TypesOf
<1> DEFINE i == Item(m)[1]
           t == Item(m)[2]
<1>2. UNCHANGED <<graph, choked, sched, update, fgt, main, stopper, terminate>> /\ HasItem(m)
    BY DEF Mux
<1>3. i \in Inputs(m) /\ t \in Int /\ <<m, i>> \in Streams
    <2>1. i \in Inputs(m) /\ t \in Int
        BY <1>1, <1>2, HasItemIs
    <2>2. <<m, i>> \in Dests /\ graph.kind[m] = "mux"
        BY <1>1, <2>1, InputFacts, NodeFacts DEF Muxers
    <2>3. QED
        BY <1>1, <2>1, <2>2, GraphMakes
<1>4. CASE mux' = [mux EXCEPT ![m].written[i] = Append(@, t)] /\ queue' = Taken(m) /\ UNCHANGED task
    <2>1. Append(mux[m].written[i], t) \in Seq(Int)
        BY <1>1, <1>3, MuxIs
    <2> HIDE DEF i, t
    <2>2. Monotone
        BY <1>1, <1>3, <1>4, <2>1, ZenonT(30) DEF Monotone, MuxTyped, MuxT
    <2>3. Works(m)
        <3>1. TaskTyped(task') /\ \A x \in Nodes : task'[x].todo = task[x].todo
            BY <1>4, TypesOf
        <3>2. QED
            BY <1>1, <3>1, SameWorks
    <2>4. QueueTyped(queue')
        BY <1>1, <1>2, <1>4, HasItemIs
    <2>5. QED
        BY <1>1, <1>2, <2>2, <2>3, <2>4, WorkTyped, SameLock
<1>5. CASE /\ queue' = [Taken(m) EXCEPT ![m].closed = @ \cup {i}] /\ UNCHANGED mux
           /\ task' = Become(m, "run", <<Report(<<m, i>>, EofFrame)>>)
    <2>1. QueueTyped(queue')
        <3>1. {i} \in SUBSET Inputs(m)
            BY <1>3
        <3> HIDE DEF i
        <3>2. QED
            BY <1>1, <1>2, <1>5, <3>1, HasItemIs
    <2>2. Report(<<m, i>>, EofFrame) \in Jobs(m) /\ Report(<<m, i>>, EofFrame).do = "report"
        BY <1>1, <1>3, JobTypes DEF Report, Job, EofFrame
    <2>3. Works(m)
        BY <1>1, <1>5, <2>2, Single, BecomeWorks DEF Ats
    <2>4. QED
        BY <1>1, <1>2, <1>5, <2>1, <2>3, LoopTyped
<1>6. QED
    BY <1>4, <1>5 DEF Mux

(* MuxEof keeps the type invariant. *)
LEMMA StepMuxEof ==
  ASSUME TypeInv, NEW m \in Muxers, MuxEof(m)
  PROVE  TypeInv'
<1>1. m \in Nodes
    BY Kinds5
<1>2. End(m, FALSE) /\ UNCHANGED <<others, sched, fgt>>
    BY DEF MuxEof
<1>3. QED
    BY <1>1, <1>2, EndWorks, LoopTyped, TypesOf DEF others

(* The failure of a thread keeps the type invariant. *)
LEMMA StepFail ==
  ASSUME TypeInv, NEW n \in Nodes, Fail(n)
  PROVE  TypeInv'
<1>1. End(n, TRUE) /\ UNCHANGED <<others, sched, fgt>>
    BY DEF Fail
<1>2. QED
    BY <1>1, EndWorks, LoopTyped, TypesOf DEF others

(* Discard keeps the type invariant. *)
LEMMA StepDiscard ==
  ASSUME TypeInv, NEW n \in Filters \cup Muxers, Discard(n)
  PROVE  TypeInv'
<1>1. n \in Nodes /\ n \in Receivers
    BY Kinds5
<1>2. queue' = Emptied(n) /\ UNCHANGED <<others, sched, task, fgt>>
    BY DEF Discard
<1>3. Works(n)
    <2>1. TaskTyped(task') /\ \A x \in Nodes : task'[x].todo = task[x].todo
        BY <1>2, TypesOf
    <2>2. QED
        BY <1>1, <2>1, SameWorks
<1>4. QED
    BY <1>1, <1>2, <1>3, EmptiedTyped, LoopTyped, TypesOf DEF others

(* Filter graphs.                                                          *)
LEMMA FilterTyped ==
  ASSUME TypeInv, NEW f \in Filters, UNCHANGED <<others, sched>>, Works(f),
         QueueTyped(queue'), FgtTyped(fgt')
  PROVE  TypeInv'
BY LoopTyped, Kinds5 DEF others

(* FilterAsk keeps the type invariant. *)
LEMMA StepAsk ==
  ASSUME TypeInv, NEW f \in Filters, FilterAsk(f)
  PROVE  TypeInv'
<1>1. f \in Nodes /\ QueueTyped(queue) /\ FgtTyped(fgt) /\ TaskTyped(task)
    BY Kinds5, TypesOf
<1>2. /\ Reschedule(f, [sched EXCEPT !.best[f] = fgt[f].next_in])
      /\ UNCHANGED <<graph, queue, mux, choked, task, fgt, main, stopper, terminate>>
    BY DEF FilterAsk
<1>3. [sched EXCEPT !.best[f] = fgt[f].next_in] \in SchedT
    BY <1>1, FilterIs, SchedIs
<1>4. Locked
    BY <1>2, <1>3, RescheduleTyped DEF Locked
<1>5. Works(f)
    BY <1>1, <1>2, SameWorks
<1>6. QED
    BY <1>1, <1>2, <1>4, <1>5, WorkTyped, SameStreams

(* FilterReceive keeps the type invariant. *)
LEMMA StepReceive ==
  ASSUME TypeInv, NEW f \in Filters, FilterReceive(f)
  PROVE  TypeInv'
<1> DEFINE i == Item(f)[1]
           t == Item(f)[2]
<1>1. f \in Nodes /\ f \in Receivers /\ FgtTyped(fgt)
    BY Kinds5, TypesOf
<1>2. /\ HasItem(f) /\ queue' = Taken(f)
      /\ \E jobs \in {<<>>, <<Choke(f)>>} : task' = Become(f, ReadFrames(f), jobs)
      /\ UNCHANGED <<others, sched>>
      /\ \/ fgt' = [fgt EXCEPT ![f].over = @ \cup {i}]
         \/ fgt' = [fgt EXCEPT ![f].held[i] = Append(@, t)]
    BY DEF FilterReceive
<1>3. QueueTyped(queue') /\ i \in Inputs(f) /\ t \in Int
    BY <1>1, <1>2, HasItemIs
<1> HIDE DEF i, t
<1>4. FgtTyped(fgt')
    <2>1. CASE fgt' = [fgt EXCEPT ![f].over = @ \cup {i}]
        BY <1>1, <1>3, <2>1, ZenonT(30) DEF FgtTyped, FgtT
    <2>2. CASE fgt' = [fgt EXCEPT ![f].held[i] = Append(@, t)]
        <3>1. Append(fgt[f].held[i], t) \in Seq(Int)
            BY <1>1, <1>3, FilterIs
        <3>2. QED
            BY <1>1, <1>3, <2>2, <3>1, ZenonT(30) DEF FgtTyped, FgtT
    <2>3. QED
        BY <1>2, <2>1, <2>2
<1>5. Works(f)
    <2>1. ReadFrames(f) \in Ats
        BY DEF ReadFrames, Ats
    <2>2. PICK jobs \in {<<>>, <<Choke(f)>>} : task' = Become(f, ReadFrames(f), jobs)
        BY <1>2
    <2>3. jobs \in Seq(Jobs(f)) /\ \A job \in Range(jobs) : job.do # "flush"
        <3>1. CASE jobs = <<>>
            BY <3>1, Empty
        <3>2. CASE jobs = <<Choke(f)>>
            <4>1. Choke(f) \in Jobs(f) /\ Choke(f).do # "flush" /\ GraphIs
                <5>1. GraphIs
                    BY TypesOf
                <5>2. QED
                    BY <1>1, <5>1, JobTypes DEF Choke, Job
            <4>2. QED
                BY <3>2, <4>1, Single
        <3>3. QED
            BY <2>2, <3>1, <3>2
    <2>4. QED
        BY <1>1, <2>1, <2>2, <2>3, BecomeWorks
<1>6. QED
    BY <1>2, <1>3, <1>4, <1>5, FilterTyped

(* FilterProceed and FilterEof keep the type invariant. *)
LEMMA StepProceed ==
  ASSUME TypeInv, NEW f \in Filters, FilterProceed(f) \/ FilterEof(f)
  PROVE  TypeInv'
<1>1. f \in Nodes /\ f \in Receivers /\ FgtTyped(fgt) /\ QueueTyped(queue)
    BY Kinds5, TypesOf
<1>2. /\ \E at \in Ats : task' = Become(f, at, <<>>)
      /\ queue' = Emptied(f) \/ UNCHANGED queue
      /\ UNCHANGED <<others, sched, fgt>>
    <2>1. CASE FilterProceed(f)
        <3>1. (IF MustEnd(f) THEN "close" ELSE ReadFrames(f)) \in Ats
            BY DEF ReadFrames, Ats
        <3>2. QED
            BY <2>1, <3>1 DEF FilterProceed
    <2>2. CASE FilterEof(f)
        BY <2>2 DEF FilterEof, Ats
    <2>3. QED
        BY <2>1, <2>2
<1>3. Works(f)
    BY <1>1, <1>2, IdleWorks
<1>4. QueueTyped(queue')
    BY <1>1, <1>2, EmptiedTyped
<1>5. QED
    BY <1>1, <1>2, <1>3, <1>4, FilterTyped

(* FilterReap keeps the type invariant. *)
LEMMA StepReap ==
  ASSUME TypeInv, NEW f \in Filters, FilterReap(f)
  PROVE  TypeInv'
<1> DEFINE sends(t) == [o \in 1 .. Len(graph.out[f]) |-> SendAll(f, o, t)]
           good == {job \in Jobs(f) : job.do = "send"}
<1>1. f \in Nodes /\ f \in Receivers /\ FgtTyped(fgt) /\ QueueTyped(queue) /\ GraphIs
    BY Kinds5, TypesOf
<1>2. UNCHANGED <<others, sched, queue>>
    BY DEF FilterReap
<1>3. ASSUME NEW t \in Int
      PROVE  FlattenSeq(sends(t)) \in Seq(Jobs(f)) /\ \A job \in Range(FlattenSeq(sends(t))) : job.do # "flush"
    <2>1. ASSUME NEW o \in 1 .. Len(graph.out[f]) PROVE SendAll(f, o, t) \in Seq(good)
        <3>1. SendAll(f, o, t) \in Seq(Jobs(f)) /\ \A job \in Range(SendAll(f, o, t)) : job.do = "send"
            BY <1>1, SendAllTyped
        <3>2. \A k \in 1 .. Len(SendAll(f, o, t)) : SendAll(f, o, t)[k] \in good
            BY <3>1 DEF Range
        <3> HIDE DEF good
        <3>3. QED
            BY <3>1, <3>2
    <2>2. Len(graph.out[f]) \in Nat
        BY <1>1, DstsFacts
    <2>3. sends(t) \in Seq(Seq(good))
        <3> HIDE DEF good
        <3>1. QED
            BY <2>1, <2>2
    <2>4. good \in SUBSET Jobs(f) /\ \A job \in good : job.do # "flush"
        OBVIOUS
    <2> HIDE DEF sends, good
    <2>5. FlattenSeq(sends(t)) \in Seq(good)
        BY <2>3, FlattenJobs
    <2>6. Range(FlattenSeq(sends(t))) \subseteq good /\ FlattenSeq(sends(t)) \in Seq(Jobs(f))
        BY <2>4, <2>5, RangeOfSeq, SeqMonotonic
    <2>7. QED
        BY <2>4, <2>6
<1> DEFINE send(t) == FlattenSeq(sends(t))
<1>4. /\ \/ /\ fgt[f].sink # <<>>
            /\ task' = Become(f, "reap", send(Head(fgt[f].sink)))
            /\ fgt' = [fgt EXCEPT ![f].sink = <<>>, ![f].got = TRUE]
         \/ /\ CanMake(f)
            /\ task' = Become(f, "reap", send(NextTime(f)))
            /\ fgt' = [fgt EXCEPT ![f] = [Made(f) EXCEPT !.got = TRUE]]
         \/ /\ task' = Become(f, "request", <<>>)
            /\ UNCHANGED fgt
    BY DEF FilterReap
<1>5. ASSUME NEW t \in Int, task' = Become(f, "reap", send(t)) PROVE Works(f)
    BY <1>1, <1>3, <1>5, BecomeWorks DEF Ats
<1> HIDE DEF send
<1>6. ASSUME Works(f), FgtTyped(fgt') PROVE TypeInv'
    BY <1>1, <1>2, <1>6, FilterTyped
<1>7. CASE /\ fgt[f].sink # <<>>
           /\ task' = Become(f, "reap", send(Head(fgt[f].sink)))
           /\ fgt' = [fgt EXCEPT ![f].sink = <<>>, ![f].got = TRUE]
    <2>1. Head(fgt[f].sink) \in Int
        BY <1>1, <1>7, FilterIs, HeadIn
    <2>2. <<>> \in Seq(Int)
        BY Empty
    <2>3. FgtTyped(fgt')
        BY <1>1, <1>7, <2>2 DEF FgtTyped, FgtT
    <2>4. QED
        BY <1>5, <1>6, <1>7, <2>1, <2>3
<1>8. CASE /\ CanMake(f)
           /\ task' = Become(f, "reap", send(NextTime(f)))
           /\ fgt' = [fgt EXCEPT ![f] = [Made(f) EXCEPT !.got = TRUE]]
    BY <1>1, <1>5, <1>6, <1>8, NextTimeIs, MadeTyped
<1>9. CASE task' = Become(f, "request", <<>>) /\ UNCHANGED fgt
    BY <1>1, <1>6, <1>9, IdleWorks DEF Ats
<1>10. QED
    BY <1>4, <1>7, <1>8, <1>9

(* What a filter graph reports of the inputs that are over.                *)
Reports(f) ==
  {Report(<<f, i>>, NoTime) :
     i \in {j \in fgt[f].over : Configured(f) /\ <<f, j>> \notin sched.received}}

(* The inputs a filter graph reports make a sequence of report jobs. *)
LEMMA ReportsAre ==
  ASSUME TypeInv, NEW f \in Filters
  PROVE  /\ SetToSeq(Reports(f)) \in Seq(Jobs(f))
         /\ \A job \in Range(SetToSeq(Reports(f))) : job.do = "report"
<1> DEFINE over == {j \in fgt[f].over : Configured(f) /\ <<f, j>> \notin sched.received}
           reports == {Report(<<f, i>>, NoTime) : i \in over}
           closes == SetToSeq(reports)
<1>1. f \in Nodes /\ FgtTyped(fgt) /\ GraphIs
    BY Kinds5, TypesOf
<1>2. over \in SUBSET Inputs(f) /\ IsFiniteSet(over)
    <2>1. IsFiniteSet(Inputs(f)) /\ fgt[f].over \in SUBSET Inputs(f)
        BY <1>1, InputFacts, FilterIs
    <2>2. QED
        BY <2>1, FS_Subset
<1>3. IsFiniteSet(reports)
    <2> DEFINE r == [i \in over |-> Report(<<f, i>>, NoTime)]
    <2>1. r \in Surjection(over, reports)
        BY DEF Surjection
    <2>2. QED
        BY <1>2, <2>1, FS_Surjection
<1>4. reports \in SUBSET Jobs(f) /\ \A job \in reports : job.do = "report"
    <2>1. ASSUME NEW i \in over
          PROVE  Report(<<f, i>>, NoTime) \in Jobs(f) /\ Report(<<f, i>>, NoTime).do = "report"
        BY <1>1, <1>2, JobTypes DEF Report, Job
    <2> HIDE DEF over
    <2>2. \A job \in reports : job \in Jobs(f) /\ job.do = "report"
        BY <2>1
    <2>3. QED
        BY <2>2
<1> HIDE DEF reports
<1>5. closes \in Seq(Jobs(f)) /\ \A job \in Range(closes) : job.do = "report"
    <2>1. closes \in Seq(reports)
        BY <1>3, SetToSeqType
    <2>2. QED
        BY <1>4, <2>1, RangeOfSeq, SeqMonotonic
<1>6. QED
    BY <1>5 DEF reports, Reports

(* FilterRequest keeps the type invariant. *)
LEMMA StepRequest ==
  ASSUME TypeInv, NEW f \in Filters, FilterRequest(f)
  PROVE  TypeInv'
<1> DEFINE closes == SetToSeq(Reports(f))
<1>1. f \in Nodes /\ f \in Receivers /\ FgtTyped(fgt) /\ QueueTyped(queue) /\ GraphIs
    BY Kinds5, TypesOf
<1>2. UNCHANGED <<others, sched, queue>>
    BY DEF FilterRequest
<1>3. closes \in Seq(Jobs(f)) /\ \A job \in Range(closes) : job.do # "flush"
    BY ReportsAre
<1>4. \/ /\ CanMake(f)
         /\ fgt' = [fgt EXCEPT ![f] = [Made(f) EXCEPT !.sink = <<NextTime(f)>>,
                                                      !.next_in = NoInput]]
         /\ task' = Become(f, "run", closes)
      \/ task' = Become(f, "close", <<>>) /\ UNCHANGED fgt
      \/ /\ \E i \in Lacking(f) : fgt' = [fgt EXCEPT ![f].next_in = i]
         /\ task' = Become(f, "run", closes)
    <2>1. Asked(f) \subseteq Lacking(f)
        BY DEF Asked
    <2>2. QED
        BY <2>1 DEF FilterRequest, Reports
<1> HIDE DEF closes
<1>5. Works(f)
    <2>1. CASE task' = Become(f, "run", closes)
        BY <1>1, <1>3, <2>1, BecomeWorks DEF Ats
    <2>2. CASE task' = Become(f, "close", <<>>)
        BY <1>1, <2>2, IdleWorks DEF Ats
    <2>3. QED
        BY <1>4, <2>1, <2>2
<1>6. FgtTyped(fgt')
    <2>1. ASSUME NEW i \in Lacking(f), fgt' = [fgt EXCEPT ![f].next_in = i] PROVE FgtTyped(fgt')
        <3>1. i \in Nat
            BY <1>1, InputFacts DEF Lacking
        <3>2. QED
            BY <1>1, <2>1, <3>1 DEF FgtTyped, FgtT
    <2>2. QED
        BY <1>1, <1>4, <2>1, MadeTyped
<1>7. QED
    BY <1>1, <1>2, <1>5, <1>6, FilterTyped

(* FilterClose keeps the type invariant. *)
LEMMA StepClose ==
  ASSUME TypeInv, NEW f \in Filters, FilterClose(f)
  PROVE  TypeInv'
<1> DEFINE open(dst) == IF fgt[f].got THEN <<>> ELSE <<Job("send", dst, NoTime)>>
           close(dst) == open(dst) \o <<Finish(dst)>>
           closes == [k \in 1 .. Len(Dsts(f)) |-> close(Dsts(f)[k])]
           good == {job \in Jobs(f) : job.do \in {"send", "finish"}}
<1>1. f \in Nodes /\ f \in Receivers /\ FgtTyped(fgt) /\ QueueTyped(queue) /\ GraphIs
    BY Kinds5, TypesOf
<1>2. UNCHANGED <<others, sched, fgt>>
    BY DEF FilterClose
<1>3. CASE End(f, FALSE)
    BY <1>1, <1>2, <1>3, EndWorks, FilterTyped
<1>4. CASE task' = Become(f, "eof", FlattenSeq(closes)) /\ UNCHANGED queue
    <2>1. ASSUME NEW dst \in Range(Dsts(f)) PROVE close(dst) \in Seq(good)
        <3>1. Job("send", dst, NoTime) \in good /\ Finish(dst) \in good
            <4>1. Job("send", dst, NoTime) \in Jobs(f) /\ Finish(dst) \in Jobs(f)
                BY <1>1, JobTypes DEF NoTime
            <4>2. QED
                BY <4>1 DEF Finish, Job
        <3> HIDE DEF good
        <3>2. <<Job("send", dst, NoTime)>> \in Seq(good) /\ <<Finish(dst)>> \in Seq(good)
            BY <3>1, Single
        <3>3. open(dst) \in Seq(good)
            BY <3>2, Empty
        <3> HIDE DEF open
        <3>4. QED
            BY <3>2, <3>3, ConcatProperties
    <2>2. Dsts(f) \in Seq(Nodes \X Nat)
        BY <1>1, DstsFacts
    <2>3. \A k \in 1 .. Len(Dsts(f)) : Dsts(f)[k] \in Range(Dsts(f))
        BY <2>2 DEF Range
    <2>4. Len(Dsts(f)) \in Nat
        BY <2>2
    <2>5. good \in SUBSET Jobs(f) /\ \A job \in good : job.do # "flush"
        OBVIOUS
    <2>6. closes \in Seq(Seq(good))
        <3> HIDE DEF good, close
        <3>1. QED
            BY <2>1, <2>3, <2>4
    <2> HIDE DEF closes, good
    <2>7. FlattenSeq(closes) \in Seq(good)
        BY <2>6, FlattenJobs
    <2>8. Range(FlattenSeq(closes)) \subseteq good /\ FlattenSeq(closes) \in Seq(Jobs(f))
        BY <2>5, <2>7, RangeOfSeq, SeqMonotonic
    <2>9. Works(f)
        BY <1>1, <1>4, <2>5, <2>8, BecomeWorks DEF Ats
    <2>10. QED
        BY <1>1, <1>2, <1>4, <2>9, FilterTyped
<1>5. QED
    BY <1>3, <1>4 DEF FilterClose

(* Every step of a filter graph keeps the type invariant. *)
LEMMA StepFilter ==
  ASSUME TypeInv, NEW f \in Filters, Filter(f)
  PROVE  TypeInv'
BY StepAsk, StepReceive, StepProceed, StepReap, StepRequest, StepClose DEF Filter

(* The threads of the client.                                              *)
LEMMA StepMain ==
  ASSUME TypeInv, Start \/ Stop \/ ChokeAll \/ Join \/ RequestStop \/ RequestWalk \/ Apply
  PROVE  TypeInv'
<1>1. /\ GraphIs /\ QueueTyped(queue) /\ MuxTyped(mux) /\ FgtTyped(fgt) /\ TaskTyped(task)
      /\ FlushTyped(task, mux) /\ choked \in [Sources -> BOOLEAN]
    BY DEF TypeInv
<1>2. ASSUME UNCHANGED <<graph, mux, fgt, task>>, QueueTyped(queue'), choked' \in [Sources -> BOOLEAN],
             Locked, main' \in {"start", "wait", "stop", "join", "stopped"}, terminate' \in BOOLEAN
      PROVE  TypeInv'
    BY <1>1, <1>2, TypedNext DEF Locked
<1>3. CASE Start
    <2>1. Locked
        BY <1>3, RescheduleTyped, SchedIs DEF Start, Locked
    <2>2. QED
        BY <1>1, <1>2, <1>3, <2>1 DEF Start, TypeInv
<1>4. CASE Stop \/ Join \/ RequestStop
    <2>1. /\ UNCHANGED <<graph, mux, fgt, task, queue, choked, sched, update>>
          /\ main' \in {"start", "wait", "stop", "join", "stopped"} /\ terminate' \in BOOLEAN
        BY <1>4 DEF Stop, Join, RequestStop, rest, TypeInv
    <2>2. QED
        BY <1>1, <1>2, <2>1, SameLock
<1>5. CASE ChokeAll
    <2>1. QueueTyped(queue')
        BY <1>1, <1>5, ChokedTyped DEF ChokeAll
    <2>2. QED
        BY <1>1, <1>2, <1>5, <2>1, SameLock DEF ChokeAll, rest, TypeInv
<1>6. CASE RequestWalk
    <2>1. QueueTyped(queue')
        BY <1>1, <1>6, ChokedTyped DEF RequestWalk
    <2>2. choked' \in [Sources -> BOOLEAN]
        BY <1>1, <1>6 DEF RequestWalk
    <2>3. UNCHANGED <<graph, mux, fgt, task, sched, update, main, terminate>>
        BY <1>6 DEF RequestWalk, rest
    <2>4. QED
        BY <1>2, <2>1, <2>2, <2>3, SameLock DEF TypeInv
<1>7. CASE Apply
    <2> PICK x \in update.unchoke \cup update.choke :
               /\ choked' = [choked EXCEPT ![x] = x \in update.choke]
               /\ queue' = ChokeQueues({x} \cap Demuxers, x \in update.choke)
               /\ update' = IF update.unchoke \cup update.choke = {x} THEN Nobody
                            ELSE [update EXCEPT !.unchoke = @ \ {x}, !.choke = @ \ {x}]
        BY <1>7 DEF Apply
    <2>1. QueueTyped(queue') /\ choked' \in [Sources -> BOOLEAN]
        <3> DEFINE v == x \in update.choke
        <3>1. v \in BOOLEAN
            BY SMT
        <3> HIDE DEF v
        <3>2. choked' = [choked EXCEPT ![x] = v] /\ queue' = ChokeQueues({x} \cap Demuxers, v)
            BY Zenon DEF v
        <3>3. QED
            BY <1>1, <3>1, <3>2, ChokedTyped
    <2>3. Locked
        <3>1. update'.unchoke \cap update'.choke = {}
            BY DEF Nobody, TypeInv
        <3>2. QED
            BY <1>7, <3>1 DEF Apply, Locked, TypeInv
    <2>4. QED
        BY <1>2, <1>7, <2>1, <2>3 DEF Apply, TypeInv
<1>8. QED
    BY <1>3, <1>4, <1>5, <1>6, <1>7

(* Every step keeps the type invariant. *)
LEMMA StepTypeInv == TypeInv /\ [Next]_vars => TypeInv'
<1> SUFFICES ASSUME TypeInv, [Next]_vars PROVE TypeInv'
    OBVIOUS
<1>1. CASE UNCHANGED vars
    BY <1>1, TypedNext DEF vars, TypeInv
<1>2. CASE \E n \in Nodes : DoJob(n)
    BY <1>2, StepJob
<1>3. CASE \E n \in Sources : WaiterWait(n)
    BY <1>3, StepWait
<1>4. CASE \E d \in Demuxers : Demux(d)
    BY <1>4, StepDemux
<1>5. CASE \E c \in OfKind("dec") : Decode(c)
    BY <1>5, StepDecode
<1>6. CASE \E f \in Filters : Filter(f)
    BY <1>6, StepFilter
<1>7. CASE \E e \in OfKind("enc") : Encode(e)
    BY <1>7, StepEncode
<1>8. CASE \E m \in Muxers : Mux(m) \/ MuxEof(m)
    BY <1>8, StepMux, StepMuxEof
<1>9. CASE \E n \in Filters \cup Muxers : Discard(n)
    BY <1>9, StepDiscard
<1>10. CASE \E n \in Nodes : Fail(n)
    BY <1>10, StepFail
<1>11. QED
    BY <1>1, <1>2, <1>3, <1>4, <1>5, <1>6, <1>7, <1>8, <1>9, <1>10, StepMain
    DEF Next, Progress, Finished

(* The type invariant holds at the start. *)
LEMMA InitTypeInv == Init => TypeInv
<1> SUFFICES ASSUME Init PROVE TypeInv
    OBVIOUS
<1>1. GraphIs
    BY DEF Init, GraphIs
<1>2. QueueTyped(queue)
    <2>1. \A n \in Receivers : <<>> \in Seq(Inputs(n) \X Int) /\ Len(<<>>) <= QueueSize
        BY Empty, BoundsAssumption
    <2>2. QED
        BY <2>1 DEF Init, QueueTyped, QueueT
<1>3. MuxTyped(mux)
    <2> DEFINE ready(m) == {i \in Inputs(m) : IsCopy(<<m, i>>)}
               pre(m) == [i \in Inputs(m) |-> <<>>]
    <2>1. mux = [m \in Muxers |-> [state |-> IF ready(m) = Inputs(m) THEN "started" ELSE "unready",
                                   ready |-> ready(m), pre |-> pre(m), written |-> pre(m)]]
        BY DEF Init
    <2>2. \A m \in Muxers : ready(m) \in SUBSET Inputs(m) /\ pre(m) \in [Inputs(m) -> Seq(Int)]
        BY Empty
    <2> HIDE DEF ready, pre
    <2>3. QED
        BY <2>1, <2>2 DEF MuxTyped, MuxT
<1>4. FgtTyped(fgt)
    <2> DEFINE held(f) == [i \in Inputs(f) |-> <<>>]
    <2>1. fgt = [f \in Filters |-> [next_in |-> IF Inputs(f) = {} THEN NoInput ELSE 1, held |-> held(f),
                                    over |-> {}, made |-> 0, sink |-> <<>>, got |-> FALSE]]
        BY DEF Init
    <2>2. \A f \in Filters : held(f) \in [Inputs(f) -> Seq(Int)]
        BY Empty
    <2>3. <<>> \in Seq(Int)
        BY Empty
    <2> HIDE DEF held
    <2>4. QED
        BY <2>1, <2>2, <2>3 DEF FgtTyped, FgtT, NoInput
<1>5. task = [n \in Nodes |-> [at |-> "run", todo |-> <<>>, pos |-> 1, finished |-> {}, failed |-> FALSE]]
    BY DEF Init
<1>6. TaskTyped(task)
    <2>1. \A n \in Nodes : <<>> \in Seq(Jobs(n))
        BY Empty
    <2>2. 1 \in Positions
        BY DEF Positions
    <2>3. QED
        BY <1>5, <2>1, <2>2 DEF TaskTyped, TaskT, Ats
<1>7. FlushTyped(task, mux)
    BY <1>5 DEF FlushTyped, Range
<1>8. sched \in SchedT
    BY DEF Init, SchedT, NoTime, NoInput
<1>9. choked \in [Sources -> BOOLEAN] /\ main = "start" /\ update = Nobody /\ terminate \in BOOLEAN
    <2>1. terminate \in {FALSE, (graph.name \in MayStop)}
        BY DEF Init
    <2>2. terminate \in BOOLEAN
        <3>1. CASE terminate = FALSE
            BY <3>1
        <3>2. CASE terminate = (graph.name \in MayStop)
            <4>1. (graph.name \in MayStop) \in BOOLEAN
                BY SMT
            <4>2. QED
                BY <3>2, <4>1, Zenon
        <3>3. QED
            BY <2>1, <3>1, <3>2, Zenon
    <2>3. QED
        BY <2>2 DEF Init
<1>10. update.unchoke \cap update.choke = {}
    BY <1>9 DEF Nobody
<1>11. QED
    BY <1>1, <1>2, <1>3, <1>4, <1>6, <1>7, <1>8, <1>9, <1>10 DEF TypeInv

(* The type invariant proved here contains the one the runs check. *)
LEMMA TypeInvIs == TypeInv => TypeOK
<1> SUFFICES ASSUME TypeInv PROVE TypeOK
    OBVIOUS
<1>1. graph.name \in DOMAIN Graphs
    BY GraphMakes DEF TypeInv
<1>2. \A n \in Receivers : /\ Len(queue[n].items) <= QueueSize
                           /\ queue[n].sent \cup queue[n].closed \subseteq Inputs(n)
    BY TypesOf, QueueIs
<1>3. \A m \in Muxers : /\ mux[m].state \in {"unready", "flushing", "started"}
                        /\ mux[m].ready \subseteq Inputs(m)
                        /\ mux[m].state = "unready" <=> mux[m].ready # Inputs(m)
    BY DEF TypeInv, MuxTyped, MuxT
<1>4. sched.done \subseteq Streams /\ sched.exited \subseteq Sources
    BY DEF TypeInv, SchedT
<1>5. \A n \in Nodes : /\ task[n].at \in {"run", "wait", "reap", "request", "close", "eof", "done", "ended"}
                       /\ task[n].finished \subseteq Range(Dsts(n))
    BY DEF TypeInv, TaskTyped, TaskT, Ats
<1>6. QED
    BY <1>1, <1>2, <1>3, <1>4, <1>5 DEF TypeOK, TypeInv

(* For every graph of threads and every size of the queues, the state keeps*)
(* its type: no queue holds more than its size, and a muxer is started     *)
(* when and only when all its streams are ready, whichever threads make    *)
(* them so and whatever is sent meanwhile.                                 *)
THEOREM TypeCorrect == Spec => []TypeOK
<1>1. Spec => []TypeInv
    BY InitTypeInv, StepTypeInv, PTL DEF Spec
<1>2. QED
    BY <1>1, TypeInvIs, PTL

-----------------------------------------------------------------------------
(* What sch_request_stop and sch_stop begin is not undone.                 *)

(* The waiters and the queues there are.                                   *)
Shapes ==
  /\ DOMAIN queue = Receivers /\ \A n \in Receivers : "choked" \in DOMAIN queue[n]
  /\ DOMAIN choked = Sources

(* Only the queues that demuxers feed are choked; whoever stops has said   *)
(* so; once the sources are choked for good, nobody has a decision left to *)
(* apply.                                                                  *)
ChokedAreFed == \A n \in Receivers : queue[n].choked => n \in QueuesOf(Demuxers)
Stopping ==
  /\ main \in {"stop", "join", "stopped"} => terminate
  /\ main \in {"join", "stopped"} => update = Nobody

StopInv == Shapes /\ ChokedAreFed /\ Stopping /\ StopIsFinal

(* At the start nothing is choked and nobody has stopped. *)
LEMMA InitStopInv == Init => StopInv
<1> SUFFICES ASSUME Init PROVE StopInv
    OBVIOUS
<1>1. /\ queue = [n \in Receivers |->
                    [items |-> <<>>, choked |-> FALSE, sent |-> {}, closed |-> {}]]
      /\ choked = [x \in Sources |-> FALSE] /\ main = "start"
    BY DEF Init
<1>2. \A n \in Receivers : "choked" \in DOMAIN queue[n] /\ ~queue[n].choked
    BY <1>1
<1>3. Shapes
    BY <1>1, <1>2 DEF Shapes
<1>4. QED
    BY <1>1, <1>2, <1>3 DEF StopInv, ChokedAreFed, Stopping, StopIsFinal

(* The calls of the thread queue choke no queue: they change one of these. *)
Edits ==
  \/ UNCHANGED queue
  \/ \E n, v : queue' = [queue EXCEPT ![n].items = v]
  \/ \E n, v : queue' = [queue EXCEPT ![n].closed = v]
  \/ \E n, v, w : queue' = [[queue EXCEPT ![n].items = v] EXCEPT ![n].closed = w]
  \/ \E n, v : queue' = [queue EXCEPT ![n].sent = v, ![n].choked = FALSE]

Tamer ==
  /\ DOMAIN queue' = DOMAIN queue
  /\ \A n \in Receivers :
       /\ "choked" \in DOMAIN queue'[n]
       /\ queue'[n].choked => queue[n].choked

(* Such a change adds no queue and chokes none. *)
LEMMA EditsTame ==
  ASSUME Shapes, Edits
  PROVE  Tamer
<1> USE DEF Shapes, Tamer
<1>1. CASE UNCHANGED queue
    BY <1>1
<1>2. ASSUME NEW n, NEW v, queue' = [queue EXCEPT ![n].items = v] PROVE Tamer
    BY <1>2
<1>3. ASSUME NEW n, NEW v, queue' = [queue EXCEPT ![n].closed = v] PROVE Tamer
    BY <1>3
<1>4. ASSUME NEW n, NEW v, NEW w,
             queue' = [[queue EXCEPT ![n].items = v] EXCEPT ![n].closed = w]
      PROVE  Tamer
    BY <1>4
<1>5. ASSUME NEW n, NEW v, queue' = [queue EXCEPT ![n].sent = v, ![n].choked = FALSE]
      PROVE  Tamer
    BY <1>5
<1>6. QED
    BY <1>1, <1>2, <1>3, <1>4, <1>5 DEF Edits

(* The calls are such changes. *)
LEMMA CallsEdit ==
  /\ \A n, i, t : queue' = Put(n, i, t) => Edits
  /\ \A n, i : queue' = SendFinished(n, i) => Edits
  /\ \A n : queue' = Taken(n) \/ queue' = Emptied(n) => Edits
  /\ \A n, failed : End(n, failed) => Edits
<1>1. ASSUME NEW n, NEW i, NEW t, queue' = Put(n, i, t) PROVE Edits
    BY <1>1 DEF Put, Edits
<1>2. ASSUME NEW n, NEW i, queue' = SendFinished(n, i) PROVE Edits
    BY <1>2 DEF SendFinished, Edits
<1>3. ASSUME NEW n, queue' = Taken(n) \/ queue' = Emptied(n) PROVE Edits
    BY <1>3 DEF Taken, Emptied, Edits
<1>4. ASSUME NEW n, NEW failed, End(n, failed) PROVE Edits
    BY <1>4 DEF End, Edits
<1>5. QED
    BY <1>1, <1>2, <1>3, <1>4

(* The steps of the threads of the graph do not reach the waiters, and once*)
(* the scheduler is terminate they decide nothing any more.                 *)
Threads ==
  \E n : \/ DoJob(n) \/ WaiterWait(n) \/ Discard(n) \/ Fail(n)
         \/ Demux(n) \/ Decode(n) \/ Filter(n) \/ Encode(n) \/ Mux(n) \/ MuxEof(n)

Stops == Stop \/ ChokeAll \/ Join \/ RequestStop \/ RequestWalk

OutOfReach == <<graph, choked, main, stopper, terminate>>

(* Once the run is being ended Reschedule leaves no update behind. *)
LEMMA RescheduleTells ==
  \A n, s : Reschedule(n, s) => (terminate => update' = Nobody)
BY DEF Reschedule

(* A job leaves what only the main thread may change alone. *)
LEMMA JobsKeep ==
  ASSUME NEW n, DoJob(n)
  PROVE  /\ UNCHANGED OutOfReach /\ Edits
         /\ UNCHANGED update \/ (terminate => update' = Nobody)
<1> DEFINE job == Head(task[n].todo)
<1>1. UNCHANGED OutOfReach
    BY DEF DoJob, OutOfReach
<1>2. CASE UNCHANGED update /\ (Send(n, job.dst, job.t) \/ OpenEncoder(n, job.dst, job.t))
    <2>1. Edits
        BY <1>2, CallsEdit, Zenon DEF Send, OpenEncoder, Edits
    <2>2. QED
        BY <1>1, <1>2, <2>1, SMTT(30)
<1>3. CASE UNCHANGED update /\ Flush(n, job.dst[1])
    <2>1. Edits
        BY <1>3, CallsEdit, ZenonT(30) DEF Flush, Edits
    <2>2. QED
        BY <1>1, <1>3, <2>1, SMTT(30)
<1>4. CASE FinishDst(n, job.dst)
    <2>1. Edits
        BY <1>4, CallsEdit, ZenonT(30) DEF FinishDst, Edits
    <2>2. UNCHANGED update \/ (terminate => update' = Nobody)
        BY <1>4, RescheduleTells, Zenon DEF FinishDst
    <2>3. QED
        BY <1>1, <2>1, <2>2
<1>5. CASE ReportDst(n, job.dst, job.t)
    <2>1. Edits
        BY <1>5, Zenon DEF ReportDst, Edits
    <2>2. QED
        BY <1>1, <1>5, <2>1, RescheduleTells, SMTT(30) DEF ReportDst
<1>6. CASE ExitTask(n)
    <2>1. Edits
        BY <1>6 DEF ExitTask, Edits
    <2>2. QED
        BY <1>1, <1>6, <2>1, RescheduleTells DEF ExitTask
<1>7. CASE ChokeInputs(n)
    BY <1>1, <1>7, RescheduleTells DEF ChokeInputs, Edits
<1>8. QED
    BY <1>2, <1>3, <1>4, <1>5, <1>6, <1>7 DEF DoJob

(* So does every step of a thread. *)
LEMMA ThreadsKeep ==
  ASSUME Threads
  PROVE  /\ UNCHANGED OutOfReach /\ Edits
         /\ UNCHANGED update \/ (terminate => update' = Nobody)
<1> DEFINE Keeps == UNCHANGED OutOfReach /\ Edits /\ UNCHANGED update
<1>1. ASSUME NEW n, WaiterWait(n) \/ Discard(n) \/ Fail(n) PROVE Keeps
    <2>1. UNCHANGED OutOfReach /\ UNCHANGED update
        BY <1>1 DEF WaiterWait, Discard, Fail, others, OutOfReach
    <2>2. Edits
        BY <1>1, CallsEdit DEF WaiterWait, Discard, Fail, Edits
    <2>3. QED
        BY <2>1, <2>2
<1>2. ASSUME NEW n, Demux(n) \/ Decode(n) \/ Encode(n) PROVE Keeps
    <2>1. UNCHANGED OutOfReach /\ UNCHANGED update
        BY <1>2 DEF Demux, Decode, Encode, others, OutOfReach
    <2>2. Edits
        BY <1>2, CallsEdit DEF Demux, Decode, Encode, Edits
    <2>3. QED
        BY <2>1, <2>2
<1>3. ASSUME NEW n, Mux(n) \/ MuxEof(n) PROVE Keeps
    <2>1. UNCHANGED OutOfReach /\ UNCHANGED update
        BY <1>3 DEF Mux, MuxEof, others, OutOfReach
    <2>2. Edits
        <3>1. CASE MuxEof(n)
            BY <3>1, CallsEdit DEF MuxEof
        <3>2. CASE Mux(n) /\ queue' = Taken(n)
            BY <3>2, CallsEdit
        <3>3. CASE Mux(n) /\ \E w : queue' = [Taken(n) EXCEPT ![n].closed = w]
            BY <3>3 DEF Taken, Edits
        <3>4. QED
            BY <1>3, <3>1, <3>2, <3>3 DEF Mux
    <2>3. QED
        BY <2>1, <2>2
<1>4. ASSUME NEW f, Filter(f)
      PROVE  /\ UNCHANGED OutOfReach /\ Edits
             /\ UNCHANGED update \/ (terminate => update' = Nobody)
    <2>1. UNCHANGED OutOfReach
        BY <1>4, Zenon DEF Filter, FilterAsk, FilterReceive, FilterProceed, FilterEof,
                    FilterReap,
                    FilterRequest, FilterClose, others, OutOfReach
    <2>2. Edits
        BY <1>4, CallsEdit, Zenon DEF Filter, FilterAsk, FilterReceive, FilterProceed,
                               FilterEof,
           FilterReap, FilterRequest, FilterClose, Edits
    <2>3. UNCHANGED update \/ (terminate => update' = Nobody)
        BY <1>4, RescheduleTells DEF Filter, FilterAsk, FilterReceive, FilterProceed,
                                     FilterEof,
           FilterReap, FilterRequest, FilterClose, others
    <2>4. QED
        BY <2>1, <2>2, <2>3
<1>5. QED
    BY <1>1, <1>2, <1>3, <1>4, JobsKeep DEF Threads

(* A step is one of a thread, of the stop, of an update, of the start, or none. *)
LEMMA NextIs == [Next]_vars => Threads \/ Stops \/ Apply \/ Start \/ UNCHANGED vars
BY DEF Next, Progress, Threads, Stops, Finished

(* No step changes the graph. *)
LEMMA StepGraph == [Next]_vars => UNCHANGED graph
<1>1. Threads => UNCHANGED graph
    BY ThreadsKeep DEF OutOfReach
<1>2. Stops \/ Apply \/ Start \/ UNCHANGED vars => UNCHANGED graph
    BY DEF Stops, Stop, ChokeAll, Join, RequestStop, RequestWalk, Apply, Start,
           rest, vars
<1>3. QED
    BY <1>1, <1>2, NextIs

(* What depends on the graph only does not change. *)
LEMMA GraphKeeps ==
  ASSUME UNCHANGED graph
  PROVE  /\ Receivers' = Receivers /\ Sources' = Sources /\ Demuxers' = Demuxers
         /\ \A d : QueuesOf(d)' = QueuesOf(d)
BY DEF Receivers, Nodes, Sources, Demuxers, Filters, Muxers, OfKind, QueuesOf

(* A queue that becomes choked is one a demuxer feeds, and only whoever    *)
(* applies a decision chokes one.                                          *)
LEMMA StepQueues ==
  ASSUME Shapes, [Next]_vars
  PROVE  /\ DOMAIN queue' = Receivers
         /\ \A n \in Receivers :
              /\ "choked" \in DOMAIN queue'[n]
              /\ queue'[n].choked => queue[n].choked
                  \/ (Apply /\ n \in QueuesOf(Demuxers))
<1> DEFINE Goal ==
         /\ DOMAIN queue' = Receivers
         /\ \A n \in Receivers :
              /\ "choked" \in DOMAIN queue'[n]
              /\ queue'[n].choked => queue[n].choked
                  \/ (Apply /\ n \in QueuesOf(Demuxers))
<1>1. ASSUME Edits PROVE Goal
    <2>1. Tamer
        BY <1>1, EditsTame
    <2>2. DOMAIN queue' = Receivers
        BY <2>1 DEF Tamer, Shapes
    <2>3. ASSUME NEW n \in Receivers
          PROVE  "choked" \in DOMAIN queue'[n] /\ (queue'[n].choked => queue[n].choked)
        BY <2>1 DEF Tamer
    <2>4. QED
        BY <2>2, <2>3
<1>2. CASE Apply
    <2>1. PICK x : queue' = ChokeQueues({x} \cap Demuxers, x \in update.choke)
        BY <1>2 DEF Apply
    <2>2. DOMAIN queue' = Receivers
        BY <2>1 DEF ChokeQueues, Shapes
    <2>3. ASSUME NEW n \in Receivers
          PROVE  /\ "choked" \in DOMAIN queue'[n]
                 /\ queue'[n].choked => queue[n].choked \/ n \in QueuesOf({x} \cap Demuxers)
        BY <2>1, <2>3 DEF ChokeQueues, Shapes
    <2>4. QueuesOf({x} \cap Demuxers) \subseteq QueuesOf(Demuxers)
        BY DEF QueuesOf
    <2>5. QED
        BY <1>2, <2>2, <2>3, <2>4
<1>3. ASSUME NEW d, queue' = ChokeQueues(d, FALSE) PROVE Goal
    BY <1>3 DEF ChokeQueues, Shapes
<1>4. CASE Threads
    BY <1>1, <1>4, ThreadsKeep
<1>5. CASE UNCHANGED queue
    BY <1>1, <1>5 DEF Edits
<1>6. CASE Stops
    BY <1>3, <1>5, <1>6 DEF Stops, Stop, ChokeAll, Join, RequestStop, RequestWalk
<1>7. CASE Start \/ UNCHANGED vars
    BY <1>5, <1>7 DEF Start, vars
<1>8. QED
    BY <1>2, <1>4, <1>6, <1>7, NextIs

(* Only an update unchokes a source. *)
LEMMA StepWaiters ==
  ASSUME Shapes, [Next]_vars
  PROVE  /\ DOMAIN choked' = Sources
         /\ Apply \/ \A x \in Sources : choked[x] => choked'[x]
<1>1. CASE UNCHANGED choked
    BY <1>1 DEF Shapes
<1>2. CASE Apply
    BY <1>2 DEF Apply, Shapes
<1>3. CASE ChokeAll
    BY <1>3 DEF ChokeAll
<1>4. CASE RequestWalk
    BY <1>1, <1>4 DEF RequestWalk, Shapes
<1>5. Threads => UNCHANGED choked
    BY ThreadsKeep DEF OutOfReach
<1>6. QED
    BY <1>1, <1>2, <1>3, <1>4, <1>5, NextIs DEF Stops, Stop, Join, RequestStop, Start,
                                                rest, vars

(* There is nothing to apply once nobody has decided. *)
LEMMA NothingToApply == Apply => update # Nobody
BY DEF Apply, Nobody

(* A stop that has begun goes on. *)
LEMMA StepStopping ==
  ASSUME Stopping, [Next]_vars
  PROVE  Stopping'
<1>1. CASE Threads
    BY <1>1, ThreadsKeep DEF OutOfReach, Stopping
<1>2. CASE Stops
    BY <1>2 DEF Stops, Stop, ChokeAll, Join, RequestStop, RequestWalk, rest,
                Stopping
<1>3. CASE Apply \/ UNCHANGED vars
    <2>1. UNCHANGED <<main, terminate>>
        BY <1>3 DEF Apply, vars
    <2>2. Apply \/ UNCHANGED update
        BY <1>3 DEF vars
    <2>3. QED
        BY <2>1, <2>2, NothingToApply DEF Stopping
<1>4. CASE Start
    BY <1>4 DEF Start, Stopping
<1>5. QED
    BY <1>1, <1>2, <1>3, <1>4, NextIs

(* Every step keeps the invariant of the stop. *)
LEMMA StepStopInv == StopInv /\ [Next]_vars => StopInv'
<1> SUFFICES ASSUME StopInv, [Next]_vars PROVE StopInv'
    OBVIOUS
<1> USE DEF StopInv
<1>1. /\ Receivers' = Receivers /\ Sources' = Sources
      /\ QueuesOf(Demuxers)' = QueuesOf(Demuxers)
    BY StepGraph, GraphKeeps
<1>2. Shapes'
    BY <1>1, StepQueues, StepWaiters DEF Shapes
<1>3. ChokedAreFed'
    BY <1>1, StepQueues DEF ChokedAreFed
<1>4. Stopping'
    BY StepStopping
<1>5. StopIsFinal'
    <2>1. SUFFICES ASSUME main' \in {"join", "stopped"}
                   PROVE  /\ \A x \in Sources : choked'[x]
                          /\ \A n \in Receivers : ~queue'[n].choked
        BY <1>1 DEF StopIsFinal
    <2>2. CASE ChokeAll
        <3>1. \A x \in Sources : choked'[x]
            BY <2>2 DEF ChokeAll
        <3>2. ASSUME NEW n \in Receivers PROVE ~queue'[n].choked
            BY <2>2 DEF ChokeAll, ChokeQueues, Shapes, ChokedAreFed
        <3>3. QED
            BY <3>1, <3>2
    <2>3. CASE ~ChokeAll
        <3>1. main \in {"join", "stopped"}
            BY <2>1, <2>3, NextIs, ThreadsKeep
            DEF OutOfReach, Stops, Stop, Join, RequestStop, RequestWalk, rest,
                Apply, Start, vars
        <3>2. ~Apply
            BY <3>1, NothingToApply DEF Stopping
        <3>3. QED
            BY <3>1, <3>2, StepQueues, StepWaiters DEF StopIsFinal
    <2>4. QED
        BY <2>2, <2>3
<1>6. QED
    BY <1>2, <1>3, <1>4, <1>5

(* StopIsFinal: once sch_stop has choked the sources they stay choked and  *)
(* no queue is frozen, however a request to stop walks over the waiters    *)
(* without the lock and whatever decision a thread was applying: for every *)
(* graph of threads and every size of the queues.                          *)
THEOREM StoppedForGood == Spec => []StopIsFinal
<1>1. StopInv => StopIsFinal
    BY DEF StopInv
<1>2. QED
    BY <1>1, InitStopInv, StepStopInv, PTL DEF Spec

-----------------------------------------------------------------------------
(* Order.  What was sent to a destination, and has not been dropped, is in *)
(* one line: what is written, what is queued, what waits for the muxer to  *)
(* start, and what the source has yet to send.  A place in it is a slot.   *)
Slots == (1 .. 4) \X Int
Below(a, b) == a[1] < b[1] \/ (a[1] = b[1] /\ a[2] < b[2])

Has(qu, mx, th, dst, a, t) ==
  \/ /\ a[1] = 1 /\ dst[1] \in Muxers /\ a[2] \in DOMAIN mx[dst[1]].written[dst[2]]
     /\ t = mx[dst[1]].written[dst[2]][a[2]]
  \/ a[1] = 2 /\ a[2] \in DOMAIN qu[dst[1]].items /\ qu[dst[1]].items[a[2]] = <<dst[2], t>>
  \/ /\ a[1] = 3 /\ dst[1] \in Muxers /\ a[2] \in DOMAIN mx[dst[1]].pre[dst[2]]
     /\ t = mx[dst[1]].pre[dst[2]][a[2]] /\ t # EofFrame
  \/ /\ a[1] = 4 /\ dst \notin th[SrcOf(dst)].finished /\ a[2] \in DOMAIN th[SrcOf(dst)].todo
     /\ th[SrcOf(dst)].todo[a[2]] = Job("send", dst, t) /\ t # NoTime

(* A packet or a frame comes after another; nothing comes after the last.  *)
Before(u, t) == u # EofFrame /\ (t = EofFrame \/ u < t)
Timed(dst, t) == t \in Nat \/ (t = EofFrame /\ SrcOf(dst) \in OfKind("dec"))

(* What is on its way to a destination comes after v.                      *)
LineAfter(qu, mx, th, dst, v) ==
  \A a \in Slots : \A t \in Int : (a[1] # 1 /\ Has(qu, mx, th, dst, a, t)) => Before(v, t)

(* What a filter graph will make comes after v, when what it gets at the   *)
(* destinations in A does.                                                 *)
FilterAfter(fg, f, A, v) ==
  /\ \A i \in Inputs(f) : \A k \in DOMAIN fg[f].held[i] : v < fg[f].held[i][k]
  /\ fg[f].made < graph.gen[f] => v < fg[f].made + 1
  /\ \A i \in Inputs(f) \ fg[f].over : <<f, i>> \in A

Going(th, n) == th[n].at \notin {"close", "eof", "done", "ended"}

FileAfter(th, d, dst, v) ==
  \A k \in th[d].pos .. Len(graph.file[d]) :
    dst \in Range(graph.out[d][graph.file[d][k][1]]) => v < graph.file[d][k][2]

(* What the source of a destination has not yet begun to send comes after v.*)
SourceAfter(th, fg, dst, A, v) ==
  (dst \notin th[SrcOf(dst)].finished /\ Going(th, SrcOf(dst))) =>
    /\ v # EofFrame
    /\ SrcOf(dst) \in Demuxers => FileAfter(th, SrcOf(dst), dst, v)
    /\ SrcOf(dst) \in Filters => /\ \A k \in DOMAIN fg[SrcOf(dst)].sink : v < fg[SrcOf(dst)].sink[k]
                                 /\ FilterAfter(fg, SrcOf(dst), A, v)
    /\ SrcOf(dst) \in OfKind("dec") \cup OfKind("enc") => <<SrcOf(dst), 1>> \in A

(* The destinations in A get only what comes after v, as far upstream as it*)
(* matters.                                                                *)
Safe(qu, mx, th, fg, A, v) ==
  \A dst \in A : LineAfter(qu, mx, th, dst, v) /\ SourceAfter(th, fg, dst, A, v)

(* All the destinations that get only what comes after v.                  *)
After(qu, mx, th, fg, v) == UNION {A \in SUBSET Dests : Safe(qu, mx, th, fg, A, v)}

Sorted(qu, mx, th, dst) ==
  \A a, b \in Slots : \A u, t \in Int :
    (Has(qu, mx, th, dst, a, u) /\ Has(qu, mx, th, dst, b, t) /\ Below(a, b)) => Before(u, t)
InLine(qu, mx, th, fg, dst) ==
  \A a \in Slots : \A t \in Int : Has(qu, mx, th, dst, a, t) =>
    Timed(dst, t) /\ SourceAfter(th, fg, dst, After(qu, mx, th, fg, t), t)

(* The frames a filter graph holds are in order; an input that is over gets*)
(* nothing the graph would take; a frame in the sink precedes the others.  *)
Holds(qu, mx, th, fg, f) ==
  \A i \in Inputs(f) : \A k \in DOMAIN fg[f].held[i] :
    /\ fg[f].held[i][k] \in Nat /\ <<f, i>> \in After(qu, mx, th, fg, fg[f].held[i][k])
    /\ \A l \in DOMAIN fg[f].held[i] : k < l => fg[f].held[i][k] < fg[f].held[i][l]
Overs(qu, mx, th, fg, f) ==
  \A i \in fg[f].over :
    \E t \in Int : (t = EofFrame \/ t >= graph.trim[f][i]) /\ <<f, i>> \in After(qu, mx, th, fg, t)
Sinks(qu, mx, th, fg, f) ==
  \A k \in DOMAIN fg[f].sink :
    /\ fg[f].sink[k] \in Nat
    /\ FilterAfter(fg, f, After(qu, mx, th, fg, fg[f].sink[k]), fg[f].sink[k])

Ordered(qu, mx, th, fg) ==
  /\ \A dst \in Dests : Sorted(qu, mx, th, dst) /\ InLine(qu, mx, th, fg, dst)
  /\ \A f \in Filters : Holds(qu, mx, th, fg, f) /\ Overs(qu, mx, th, fg, f) /\ Sinks(qu, mx, th, fg, f)

(* Who opens an encoder.  A thread has one thing to send to a destination; *)
(* the empty frame at the end of a filter graph goes to an encoder that is *)
(* not open yet; a muxer that has started has nothing waiting.             *)
Opened(mx, e) == StreamOf(e)[2] \in mx[StreamOf(e)[1]].ready
Distinct(th) ==
  \A n \in Nodes : \A p, q \in DOMAIN th[n].todo :
    (th[n].todo[p].do = "send" /\ th[n].todo[q].do = "send" /\ th[n].todo[p].dst = th[n].todo[q].dst) => p = q
Empties(mx, th) ==
  \A n \in Nodes : \A p \in DOMAIN th[n].todo :
    (th[n].todo[p].do = "send" /\ th[n].todo[p].t = NoTime /\ th[n].todo[p].dst \notin th[n].finished)
      => n \in Filters /\ ~Opened(mx, th[n].todo[p].dst[1])
Idle(mx, th, fg) ==
  \A f \in Filters : (~fg[f].got /\ th[f].at \notin {"eof", "done", "ended"}) =>
    /\ \A p \in DOMAIN th[f].todo : th[f].todo[p].do # "send"
    /\ \A dst \in Range(Dsts(f)) : ~Opened(mx, dst[1])
Flushed(mx) == \A m \in Muxers : mx[m].state = "started" => \A i \in Inputs(m) : mx[m].pre[i] = <<>>
Opening(mx, th, fg) == Distinct(th) /\ Empties(mx, th) /\ Idle(mx, th, fg) /\ Flushed(mx)

(* The packets of an output of a demuxer are in order.                     *)
FilesInOrder ==
  \A d \in Demuxers : \A j, k \in 1 .. Len(graph.file[d]) :
    (j < k /\ graph.file[d][j][1] = graph.file[d][k][1]) => graph.file[d][j][2] < graph.file[d][k][2]

OrderInv == TypeInv /\ FilesInOrder /\ Opening(mux, task, fgt) /\ Ordered(queue, mux, task, fgt)

(* The same before and after a step.                                       *)
HasNow(dst, a, t) == Has(queue, mux, task, dst, a, t)
HasNext(dst, a, t) == Has(queue', mux', task', dst, a, t)
LineNow(dst, v) == LineAfter(queue, mux, task, dst, v)
LineNext(dst, v) == LineAfter(queue', mux', task', dst, v)
SourceNow(dst, A, v) == SourceAfter(task, fgt, dst, A, v)
SourceNext(dst, A, v) == SourceAfter(task', fgt', dst, A, v)
SafeNow(A, v) == Safe(queue, mux, task, fgt, A, v)
SafeNext(A, v) == Safe(queue', mux', task', fgt', A, v)
AfterNow(v) == After(queue, mux, task, fgt, v)
AfterNext(v) == After(queue', mux', task', fgt', v)

(* What is after a time stays so for a larger set of destinations. *)
LEMMA SourceMonotone ==
  ASSUME NEW dst, NEW A, NEW B, A \subseteq B, NEW v
  PROVE  /\ SourceNow(dst, A, v) => SourceNow(dst, B, v)
         /\ SourceNext(dst, A, v) => SourceNext(dst, B, v)
         /\ \A f : FilterAfter(fgt, f, A, v) => FilterAfter(fgt, f, B, v)
         /\ \A f : FilterAfter(fgt', f, A, v) => FilterAfter(fgt', f, B, v)
<1>1. \A f : FilterAfter(fgt, f, A, v) => FilterAfter(fgt, f, B, v)
    BY Zenon DEF FilterAfter
<1>2. \A f : FilterAfter(fgt', f, A, v) => FilterAfter(fgt', f, B, v)
    BY Zenon DEF FilterAfter
<1>3. QED
    BY <1>1, <1>2 DEF SourceNow, SourceNext, SourceAfter

(* The largest safe set is safe.                                           *)
LEMMA AfterSafe ==
  ASSUME NEW v
  PROVE  AfterNow(v) \in SUBSET Dests /\ SafeNow(AfterNow(v), v)
<1>1. AfterNow(v) \in SUBSET Dests
    BY DEF AfterNow, After
<1>2. ASSUME NEW dst \in AfterNow(v)
      PROVE  LineNow(dst, v) /\ SourceNow(dst, AfterNow(v), v)
    <2>1. PICK A \in SUBSET Dests : dst \in A /\ SafeNow(A, v)
        BY DEF AfterNow, After, SafeNow
    <2>2. A \subseteq AfterNow(v)
        BY <2>1 DEF AfterNow, After, SafeNow
    <2>3. LineNow(dst, v) /\ SourceNow(dst, A, v)
        BY <2>1 DEF SafeNow, Safe, LineNow, SourceNow
    <2>4. QED
        BY <2>2, <2>3, SourceMonotone
<1>3. QED
    BY <1>1, <1>2 DEF SafeNow, Safe, LineNow, SourceNow

(* The set After contains every safe set. *)
LEMMA AfterHas ==
  ASSUME NEW v, NEW A \in SUBSET Dests
  PROVE  /\ SafeNow(A, v) => A \subseteq AfterNow(v)
         /\ SafeNext(A, v) => A \subseteq AfterNext(v)
BY DEF AfterNow, AfterNext, After, SafeNow, SafeNext

(* What comes after a time comes after an earlier one.                     *)
LEMMA AfterEarlier ==
  ASSUME NEW v \in Nat, NEW u \in Nat, u <= v, TypeInv
  PROVE  AfterNow(v) \subseteq AfterNow(u)
<1> DEFINE A == AfterNow(v)
<1>1. A \in SUBSET Dests /\ SafeNow(A, v)
    BY AfterSafe
<1> HIDE DEF A
<1>2. ASSUME NEW dst \in A PROVE LineNow(dst, u)
    <2>1. LineNow(dst, v)
        BY <1>1 DEF SafeNow, Safe, LineNow
    <2>2. QED
        BY <2>1 DEF LineNow, LineAfter, Before, EofFrame
<1>3. ASSUME NEW dst \in A PROVE SourceNow(dst, A, u)
    <2>0. SrcOf(dst) \in Nodes
        BY <1>1, SourceOfDest DEF TypeInv
    <2>1. SourceNow(dst, A, v)
        BY <1>1 DEF SafeNow, Safe, SourceNow
    <2>2. ASSUME SrcOf(dst) \in Demuxers, FileAfter(task, SrcOf(dst), dst, v)
          PROVE  FileAfter(task, SrcOf(dst), dst, u)
        <3>1. graph.file[SrcOf(dst)] \in Seq((1 .. Len(graph.out[SrcOf(dst)])) \X Nat)
            BY <2>2, NodeFacts DEF TypeInv
        <3>2. \A k \in 1 .. Len(graph.file[SrcOf(dst)]) : graph.file[SrcOf(dst)][k][2] \in Nat
            BY <3>1
        <3>3. task[SrcOf(dst)].pos \in Nat \ {0}
            BY <2>0 DEF TypeInv, TaskTyped, TaskT, Positions
        <3>4. QED
            BY <2>2, <3>1, <3>2, <3>3, SMTT(30) DEF FileAfter
    <2>3. ASSUME NEW f \in Filters
          PROVE  /\ \A i \in Inputs(f) : \A k \in DOMAIN fgt[f].held[i] : fgt[f].held[i][k] \in Int
                 /\ \A k \in DOMAIN fgt[f].sink : fgt[f].sink[k] \in Int
                 /\ fgt[f].made \in Nat
        <3>1. fgt[f] \in FgtT(f)
            BY <2>3 DEF TypeInv, FgtTyped
        <3>2. fgt[f].made \in Nat /\ fgt[f].sink \in Seq(Int) /\ fgt[f].held \in [Inputs(f) -> Seq(Int)]
            BY <3>1 DEF FgtT
        <3>3. QED
            BY <3>2
    <2>4. ASSUME NEW f \in Filters, FilterAfter(fgt, f, A, v)
          PROVE  FilterAfter(fgt, f, A, u)
        BY <2>3, <2>4 DEF FilterAfter
    <2>5. ASSUME SrcOf(dst) \in Filters, \A k \in DOMAIN fgt[SrcOf(dst)].sink : v < fgt[SrcOf(dst)].sink[k]
          PROVE  \A k \in DOMAIN fgt[SrcOf(dst)].sink : u < fgt[SrcOf(dst)].sink[k]
        BY <2>3, <2>5
    <2>6. u # EofFrame
        BY DEF EofFrame
    <2>7. QED
        BY <2>1, <2>2, <2>4, <2>5, <2>6, Zenon DEF SourceNow, SourceAfter
<1>4. SafeNow(A, u)
    BY <1>2, <1>3 DEF SafeNow, Safe, LineNow, SourceNow
<1>5. QED
    BY <1>1, <1>4, AfterHas DEF A

(* In a step, what is on its way to a destination moves on, and nothing is *)
(* overtaken; or the source begins to send something that comes after it.  *)
Carried(dst) ==
  \E from \in [Slots -> Slots] :
    /\ \A a \in Slots : \A t \in Int :
         HasNext(dst, a, t) => HasNow(dst, from[a], t) /\ (a[1] # 1 => from[a][1] # 1)
    /\ \A a, b \in Slots : \A u, t \in Int :
         (HasNext(dst, a, u) /\ HasNext(dst, b, t) /\ Below(a, b)) => Below(from[a], from[b])

Emitted(dst, t) ==
  /\ \A a \in Slots : \A u \in Int :
       HasNext(dst, a, u) => IF a[1] = 4 THEN u = t ELSE HasNow(dst, a, u)
  /\ \A a, b \in Slots : \A u, w \in Int :
       (HasNext(dst, a, u) /\ HasNext(dst, b, w) /\ a[1] = 4 /\ b[1] = 4) => a = b

Follows(dst, t) ==
  \A A \in SUBSET Dests : \A v \in Int : (SafeNow(A, v) /\ SourceNow(dst, A, v)) => Before(v, t)

Begun(dst) ==
  \E t \in Int : /\ Emitted(dst, t)
                 /\ (\E a \in Slots : \E u \in Int : a[1] = 4 /\ HasNext(dst, a, u)) => Follows(dst, t)

SourcesKept ==
  \A A \in SUBSET Dests : \A v \in Int : SafeNow(A, v) =>
    \A dst \in Dests : SourceNow(dst, A, v) => SourceNext(dst, A, v)

(* A line whose entries come from the line before stays after a time. *)
LEMMA LinesKept ==
  ASSUME NEW dst, Carried(dst) \/ Begun(dst), NEW A \in SUBSET Dests, NEW v \in Int,
         SafeNow(A, v), SourceNow(dst, A, v), LineNow(dst, v)
  PROVE  LineNext(dst, v)
<1>1. SUFFICES ASSUME NEW a \in Slots, NEW t \in Int, a[1] # 1, HasNext(dst, a, t)
               PROVE  Before(v, t)
    BY DEF LineNext, LineAfter, HasNext
<1>2. \A b \in Slots : \A u \in Int : (b[1] # 1 /\ HasNow(dst, b, u)) => Before(v, u)
    BY DEF LineNow, LineAfter, HasNow
<1>3. CASE Carried(dst)
    <2>1. PICK from \in [Slots -> Slots] :
            \A b \in Slots : \A u \in Int :
              HasNext(dst, b, u) => HasNow(dst, from[b], u) /\ (b[1] # 1 => from[b][1] # 1)
        BY <1>3 DEF Carried
    <2>2. from[a] \in Slots /\ HasNow(dst, from[a], t) /\ from[a][1] # 1
        BY <1>1, <2>1
    <2>3. QED
        BY <1>1, <1>2, <2>2
<1>4. CASE Begun(dst)
    <2>1. PICK w \in Int : /\ Emitted(dst, w)
                           /\ (\E b \in Slots : \E u \in Int : b[1] = 4 /\ HasNext(dst, b, u)) => Follows(dst, w)
        BY <1>4 DEF Begun
    <2>2. CASE a[1] = 4
        <3>1. t = w
            BY <1>1, <2>1, <2>2 DEF Emitted
        <3>2. QED
            BY <1>1, <2>1, <2>2, <3>1 DEF Follows
    <2>3. CASE a[1] # 4
        <3>1. HasNow(dst, a, t)
            BY <1>1, <2>1, <2>3 DEF Emitted
        <3>2. QED
            BY <1>1, <1>2, <3>1
    <2>4. QED
        BY <2>2, <2>3
<1>5. QED
    BY <1>3, <1>4

(* A set that is safe stays safe when every line goes on or is begun. *)
LEMMA SafeKept ==
  ASSUME \A dst \in Dests : Carried(dst) \/ Begun(dst), SourcesKept,
         NEW A \in SUBSET Dests, NEW v \in Int, SafeNow(A, v)
  PROVE  SafeNext(A, v)
<1>1. ASSUME NEW dst \in A PROVE LineNext(dst, v) /\ SourceNext(dst, A, v)
    <2>1. LineNow(dst, v) /\ SourceNow(dst, A, v)
        BY DEF SafeNow, Safe, LineNow, SourceNow
    <2>2. QED
        BY <2>1, LinesKept DEF SourcesKept
<1>2. QED
    BY <1>1 DEF SafeNext, Safe, LineNext, SourceNext

(* The set After only grows when every line goes on or is begun. *)
LEMMA AfterKept ==
  ASSUME \A dst \in Dests : Carried(dst) \/ Begun(dst), SourcesKept, NEW v \in Int
  PROVE  /\ AfterNow(v) \subseteq AfterNext(v)
         /\ \A dst \in Dests : SourceNow(dst, AfterNow(v), v) => SourceNext(dst, AfterNext(v), v)
<1>1. AfterNow(v) \in SUBSET Dests /\ SafeNow(AfterNow(v), v)
    BY AfterSafe
<1>2. SafeNext(AfterNow(v), v)
    BY <1>1, SafeKept
<1>3. AfterNow(v) \subseteq AfterNext(v)
    BY <1>1, <1>2, AfterHas
<1>4. ASSUME NEW dst \in Dests, SourceNow(dst, AfterNow(v), v)
      PROVE  SourceNext(dst, AfterNext(v), v)
    <2>1. SourceNext(dst, AfterNow(v), v)
        BY <1>1, <1>4 DEF SourcesKept
    <2>2. QED
        BY <1>3, <2>1, SourceMonotone
<1>5. QED
    BY <1>3, <1>4

(* A line that goes on, or is begun, stays sorted. *)
LEMMA SortedKept ==
  ASSUME Ordered(queue, mux, task, fgt), NEW dst \in Dests, Carried(dst) \/ Begun(dst)
  PROVE  Sorted(queue', mux', task', dst)
<1>1. SUFFICES ASSUME NEW a \in Slots, NEW b \in Slots, NEW u \in Int, NEW t \in Int,
                      HasNext(dst, a, u), HasNext(dst, b, t), Below(a, b)
               PROVE  Before(u, t)
    BY DEF Sorted, HasNext
<1>2. \A c, d \in Slots : \A v, w \in Int : (HasNow(dst, c, v) /\ HasNow(dst, d, w) /\ Below(c, d)) => Before(v, w)
    BY DEF Ordered, Sorted, HasNow
<1>3. CASE Carried(dst)
    <2>1. PICK from \in [Slots -> Slots] :
            /\ \A c \in Slots : \A v \in Int : HasNext(dst, c, v) => HasNow(dst, from[c], v)
            /\ \A c, d \in Slots : \A v, w \in Int :
                 (HasNext(dst, c, v) /\ HasNext(dst, d, w) /\ Below(c, d)) => Below(from[c], from[d])
        BY <1>3 DEF Carried
    <2>2. from[a] \in Slots /\ from[b] \in Slots /\ HasNow(dst, from[a], u) /\ HasNow(dst, from[b], t)
        BY <1>1, <2>1
    <2>3. Below(from[a], from[b])
        BY <1>1, <2>1
    <2>4. QED
        BY <1>1, <1>2, <2>2, <2>3
<1>4. CASE Begun(dst)
    <2>1. PICK w \in Int : /\ Emitted(dst, w)
                           /\ (\E c \in Slots : \E v \in Int : c[1] = 4 /\ HasNext(dst, c, v)) => Follows(dst, w)
        BY <1>4 DEF Begun
    <2>2. a[1] \in 1 .. 4 /\ b[1] \in 1 .. 4 /\ a[2] \in Int /\ b[2] \in Int
        BY <1>1 DEF Slots
    <2>3. CASE a[1] = 4
        <3>1. b[1] = 4 /\ a[2] < b[2]
            BY <1>1, <2>2, <2>3 DEF Below
        <3>2. a = b
            BY <1>1, <2>1, <2>3, <3>1 DEF Emitted
        <3>3. QED
            BY <2>2, <3>1, <3>2
    <2>4. CASE a[1] # 4 /\ b[1] = 4
        <3>1. HasNow(dst, a, u) /\ t = w
            BY <1>1, <2>1, <2>4 DEF Emitted
        <3>2. SourceNow(dst, AfterNow(u), u)
            BY <1>1, <3>1 DEF Ordered, InLine, HasNow, SourceNow, AfterNow
        <3>3. AfterNow(u) \in SUBSET Dests /\ SafeNow(AfterNow(u), u)
            BY AfterSafe
        <3>4. Follows(dst, w)
            BY <1>1, <2>1, <2>4
        <3>5. QED
            BY <1>1, <3>1, <3>2, <3>3, <3>4 DEF Follows
    <2>5. CASE a[1] # 4 /\ b[1] # 4
        <3>1. HasNow(dst, a, u) /\ HasNow(dst, b, t)
            BY <1>1, <2>1, <2>5 DEF Emitted
        <3>2. QED
            BY <1>1, <1>2, <3>1
    <2>6. QED
        BY <2>3, <2>4, <2>5
<1>5. QED
    BY <1>3, <1>4

(* What stands in a line was in it before, and its source is still after it. *)
LEMMA InLineKept ==
  ASSUME Ordered(queue, mux, task, fgt), \A dst \in Dests : Carried(dst) \/ Begun(dst), SourcesKept,
         NEW dst \in Dests, NEW a \in Slots, NEW t \in Int, HasNext(dst, a, t),
         Carried(dst) \/ a[1] # 4
  PROVE  Timed(dst, t) /\ SourceNext(dst, AfterNext(t), t)
<1>1. \E b \in Slots : HasNow(dst, b, t)
    <2>1. CASE Carried(dst)
        <3>1. PICK from \in [Slots -> Slots] :
                \A c \in Slots : \A v \in Int : HasNext(dst, c, v) => HasNow(dst, from[c], v)
            BY <2>1 DEF Carried
        <3>2. from[a] \in Slots /\ HasNow(dst, from[a], t)
            BY <3>1
        <3>3. QED
            BY <3>2
    <2>2. CASE Begun(dst) /\ a[1] # 4
        <3>1. PICK w \in Int : Emitted(dst, w)
            BY <2>2 DEF Begun
        <3>2. HasNow(dst, a, t)
            BY <2>2, <3>1 DEF Emitted
        <3>3. QED
            BY <3>2
    <2>3. QED
        BY <2>1, <2>2
<1>2. Timed(dst, t) /\ SourceNow(dst, AfterNow(t), t)
    BY <1>1 DEF Ordered, InLine, HasNow, SourceNow, AfterNow
<1>3. QED
    BY <1>2, AfterKept

(* What remains to be shown of a step.                                     *)
LEMMA OrderedNext ==
  ASSUME Ordered(queue, mux, task, fgt), \A dst \in Dests : Carried(dst) \/ Begun(dst), SourcesKept,
         \A dst \in Dests : Carried(dst) \/
           \A a \in Slots : \A t \in Int : (a[1] = 4 /\ HasNext(dst, a, t)) =>
             Timed(dst, t) /\ SourceNext(dst, AfterNext(t), t),
         \A f \in Filters : /\ Holds(queue', mux', task', fgt', f) /\ Overs(queue', mux', task', fgt', f)
                            /\ Sinks(queue', mux', task', fgt', f)
  PROVE  Ordered(queue', mux', task', fgt')
<1>1. ASSUME NEW dst \in Dests
      PROVE  Sorted(queue', mux', task', dst) /\ InLine(queue', mux', task', fgt', dst)
    <2>1. Sorted(queue', mux', task', dst)
        BY SortedKept
    <2>2. ASSUME NEW a \in Slots, NEW t \in Int, HasNext(dst, a, t)
          PROVE  Timed(dst, t) /\ SourceNext(dst, AfterNext(t), t)
        BY <2>2, InLineKept
    <2>3. QED
        BY <2>1, <2>2 DEF InLine, HasNext, SourceNext, AfterNext
<1>2. QED
    BY <1>1 DEF Ordered

(* A filter graph that is left alone.                                      *)
LEMMA FilterKept ==
  ASSUME Ordered(queue, mux, task, fgt), \A dst \in Dests : Carried(dst) \/ Begun(dst), SourcesKept,
         NEW f \in Filters, TypeInv,
         fgt'[f].held = fgt[f].held, fgt'[f].over = fgt[f].over, fgt'[f].made = fgt[f].made
  PROVE  /\ Holds(queue', mux', task', fgt', f) /\ Overs(queue', mux', task', fgt', f)
         /\ fgt'[f].sink = fgt[f].sink => Sinks(queue', mux', task', fgt', f)
<1>0. fgt[f] \in FgtT(f)
    BY DEF TypeInv, FgtTyped
<1>1. Holds(queue, mux, task, fgt, f) /\ Overs(queue, mux, task, fgt, f) /\ Sinks(queue, mux, task, fgt, f)
    BY DEF Ordered
<1>2. \A v \in Int : AfterNow(v) \subseteq AfterNext(v)
    BY AfterKept
<1>3. Holds(queue', mux', task', fgt', f)
    <2>1. \A i \in Inputs(f) : \A k \in DOMAIN fgt[f].held[i] :
            /\ fgt[f].held[i][k] \in Nat /\ <<f, i>> \in AfterNow(fgt[f].held[i][k])
            /\ \A l \in DOMAIN fgt[f].held[i] : k < l => fgt[f].held[i][k] < fgt[f].held[i][l]
        BY <1>1, Zenon DEF Holds, AfterNow
    <2>2. \A i \in Inputs(f) : \A k \in DOMAIN fgt[f].held[i] : <<f, i>> \in AfterNext(fgt[f].held[i][k])
        BY <1>2, <2>1
    <2>3. QED
        BY <2>1, <2>2 DEF Holds, AfterNext
<1>4. Overs(queue', mux', task', fgt', f)
    <2>1. ASSUME NEW i \in fgt[f].over
          PROVE  \E t \in Int : (t = EofFrame \/ t >= graph.trim[f][i]) /\ <<f, i>> \in AfterNext(t)
        <3>1. PICK t \in Int : (t = EofFrame \/ t >= graph.trim[f][i]) /\ <<f, i>> \in AfterNow(t)
            BY <1>1 DEF Overs, AfterNow
        <3>2. QED
            BY <1>2, <3>1
    <2>2. QED
        BY <2>1 DEF Overs, AfterNext
<1>5. ASSUME fgt'[f].sink = fgt[f].sink PROVE Sinks(queue', mux', task', fgt', f)
    <2>1. ASSUME NEW k \in DOMAIN fgt[f].sink
          PROVE  /\ fgt[f].sink[k] \in Nat
                 /\ FilterAfter(fgt', f, AfterNext(fgt[f].sink[k]), fgt[f].sink[k])
        <3>1. fgt[f].sink[k] \in Nat /\ FilterAfter(fgt, f, AfterNow(fgt[f].sink[k]), fgt[f].sink[k])
            BY <1>1 DEF Sinks, AfterNow
        <3>2. AfterNow(fgt[f].sink[k]) \subseteq AfterNext(fgt[f].sink[k])
            BY <1>2, <3>1
        <3>3. FilterAfter(fgt, f, AfterNext(fgt[f].sink[k]), fgt[f].sink[k])
            BY <3>1, <3>2, SourceMonotone
        <3>4. QED
            BY <3>1, <3>3 DEF FilterAfter
    <2>2. QED
        BY <1>5, <2>1 DEF Sinks, AfterNext
<1>6. QED
    BY <1>3, <1>4, <1>5

(* The threads go on.                                                      *)
GoesOn(n) ==
  /\ task[n].finished \subseteq task'[n].finished /\ task[n].pos <= task'[n].pos
  /\ Going(task', n) => Going(task, n)

(* A source whose frames are left alone only goes on.                      *)
LEMMA SourceKept ==
  ASSUME TypeInv, NEW dst \in Dests, GoesOn(SrcOf(dst)), TaskTyped(task'),
         NEW A, NEW v, SourceNow(dst, A, v),
         SrcOf(dst) \in Filters => 
            /\ \A k \in DOMAIN fgt'[SrcOf(dst)].sink : v < fgt'[SrcOf(dst)].sink[k]
            /\ FilterAfter(fgt', SrcOf(dst), A, v)
  PROVE  SourceNext(dst, A, v)
<1>1. SrcOf(dst) \in Nodes
    BY SourceOfDest DEF TypeInv
<1>2. SUFFICES ASSUME dst \notin task'[SrcOf(dst)].finished, Going(task', SrcOf(dst))
               PROVE  /\ v # EofFrame
                      /\ SrcOf(dst) \in Demuxers => FileAfter(task', SrcOf(dst), dst, v)
                      /\ SrcOf(dst) \in OfKind("dec") \cup OfKind("enc") => <<SrcOf(dst), 1>> \in A
    BY DEF SourceNext, SourceAfter
<1>3. /\ v # EofFrame
      /\ SrcOf(dst) \in Demuxers => FileAfter(task, SrcOf(dst), dst, v)
      /\ SrcOf(dst) \in OfKind("dec") \cup OfKind("enc") => <<SrcOf(dst), 1>> \in A
    BY <1>2 DEF SourceNow, SourceAfter, GoesOn
<1>4. ASSUME SrcOf(dst) \in Demuxers PROVE FileAfter(task', SrcOf(dst), dst, v)
    <2>1. task[SrcOf(dst)].pos \in Nat \ {0} /\ task'[SrcOf(dst)].pos \in Nat \ {0}
        BY <1>1 DEF TypeInv, TaskTyped, TaskT, Positions
    <2>2. graph.file[SrcOf(dst)] \in Seq((1 .. Len(graph.out[SrcOf(dst)])) \X Nat)
        BY <1>4, NodeFacts DEF TypeInv
    <2>3. Len(graph.file[SrcOf(dst)]) \in Nat
        BY <2>2
    <2>4. task[SrcOf(dst)].pos <= task'[SrcOf(dst)].pos
        BY DEF GoesOn
    <2>5. QED
        BY <1>3, <1>4, <2>1, <2>3, <2>4 DEF FileAfter
<1>5. QED
    BY <1>3, <1>4

(* A step in which the filter graphs are left alone.                       *)
LEMMA CalmSources ==
  ASSUME TypeInv, TaskTyped(task'), \A n \in Nodes : GoesOn(n), 
         \A f \in Filters : /\ fgt'[f].held = fgt[f].held /\ fgt'[f].over = fgt[f].over
                            /\ fgt'[f].made = fgt[f].made
                            /\ fgt'[f].sink \in {fgt[f].sink, <<>>}
  PROVE  SourcesKept
<1>1. SUFFICES ASSUME NEW A \in SUBSET Dests, NEW v \in Int, NEW dst \in Dests, SourceNow(dst, A, v)
               PROVE  SourceNext(dst, A, v)
    BY DEF SourcesKept
<1>2. SrcOf(dst) \in Nodes
    BY SourceOfDest DEF TypeInv
<1>3. CASE dst \notin task'[SrcOf(dst)].finished /\ Going(task', SrcOf(dst))
    <2>1. GoesOn(SrcOf(dst))
        BY <1>2
    <2>2. dst \notin task[SrcOf(dst)].finished /\ Going(task, SrcOf(dst))
        BY <1>3, <2>1 DEF GoesOn
    <2>3. ASSUME SrcOf(dst) \in Filters
          PROVE  /\ \A k \in DOMAIN fgt'[SrcOf(dst)].sink : v < fgt'[SrcOf(dst)].sink[k]
                 /\ FilterAfter(fgt', SrcOf(dst), A, v)
        <3>1. /\ \A k \in DOMAIN fgt[SrcOf(dst)].sink : v < fgt[SrcOf(dst)].sink[k]
              /\ FilterAfter(fgt, SrcOf(dst), A, v)
            BY <1>1, <2>2, <2>3 DEF SourceNow, SourceAfter
        <3>2. FilterAfter(fgt', SrcOf(dst), A, v)
            BY <2>3, <3>1 DEF FilterAfter
        <3>3. fgt'[SrcOf(dst)].sink \in {fgt[SrcOf(dst)].sink, <<>>}
            BY <2>3
        <3>4. QED
            BY <3>1, <3>2, <3>3
    <2>4. QED
        BY <1>1, <2>1, <2>3, SourceKept
<1>4. CASE ~(dst \notin task'[SrcOf(dst)].finished /\ Going(task', SrcOf(dst)))
    BY <1>4 DEF SourceNext, SourceAfter
<1>5. QED
    BY <1>3, <1>4

(* A step in which all lines go on and no filter moves keeps the order. *)
LEMMA CalmStep ==
  ASSUME TypeInv, Ordered(queue, mux, task, fgt), TaskTyped(task'), \A n \in Nodes : GoesOn(n),
         \A f \in Filters : /\ fgt'[f].held = fgt[f].held /\ fgt'[f].over = fgt[f].over
                            /\ fgt'[f].made = fgt[f].made /\ fgt'[f].sink = fgt[f].sink,
         \A dst \in Dests : Carried(dst)
  PROVE  Ordered(queue', mux', task', fgt')
<1>1. SourcesKept
    BY CalmSources
<1>2. QED
    BY <1>1, FilterKept, OrderedNext

-----------------------------------------------------------------------------
(* How a line moves on: every slot but one is where it was, or nearer to   *)
(* the front.                                                              *)
By(d, e, c, a) ==
  <<a[1], a[2] + (IF a[1] = 2 THEN d ELSE IF a[1] = 3 THEN e ELSE IF a[1] = 4 THEN c ELSE 0)>>
None == <<0, 0>>

WrittenBy(dst, new) ==
  dst[1] \in Muxers =>
    \A k \in DOMAIN mux'[dst[1]].written[dst[2]] : <<1, k>> # new =>
      /\ k \in DOMAIN mux[dst[1]].written[dst[2]]
      /\ mux[dst[1]].written[dst[2]][k] = mux'[dst[1]].written[dst[2]][k]
QueueBy(dst, new, d) ==
  \A k \in DOMAIN queue'[dst[1]].items : (<<2, k>> # new /\ queue'[dst[1]].items[k][1] = dst[2]) =>
    k + d \in DOMAIN queue[dst[1]].items /\ queue[dst[1]].items[k + d] = queue'[dst[1]].items[k]
PreBy(dst, new, e) ==
  dst[1] \in Muxers =>
    \A k \in DOMAIN mux'[dst[1]].pre[dst[2]] : (<<3, k>> # new /\ mux'[dst[1]].pre[dst[2]][k] # EofFrame) =>
      /\ k + e \in DOMAIN mux[dst[1]].pre[dst[2]]
      /\ mux[dst[1]].pre[dst[2]][k + e] = mux'[dst[1]].pre[dst[2]][k]
TodoBy(n, c) ==
  /\ task[n].finished \subseteq task'[n].finished
  /\ \A k \in DOMAIN task'[n].todo : (task'[n].todo[k].do = "send" /\ task'[n].todo[k].t # NoTime) =>
       k + c \in DOMAIN task[n].todo /\ task[n].todo[k + c] = task'[n].todo[k]
MovesBy(dst, new, d, e, c) ==
  WrittenBy(dst, new) /\ QueueBy(dst, new, d) /\ PreBy(dst, new, e) /\ TodoBy(SrcOf(dst), c)

(* What a line holds after a move it held before, one place further on. *)
LEMMA ByHas ==
  ASSUME NEW dst, NEW new, NEW d \in Int, NEW e \in Int, NEW c \in Int, MovesBy(dst, new, d, e, c),
         NEW a \in Slots, a # new, NEW t \in Int, HasNext(dst, a, t)
  PROVE  HasNow(dst, By(d, e, c, a), t) /\ By(d, e, c, a) \in Slots
<1>1. PICK p \in 1 .. 4, k \in Int : a = <<p, k>>
    BY DEF Slots
<1>2. a[1] = p /\ a[2] = k
    BY <1>1
<1>3. CASE p = 1
    <2>1. By(d, e, c, a) = <<1, k>>
        BY <1>1, <1>3 DEF By
    <2>2. dst[1] \in Muxers /\ k \in DOMAIN mux'[dst[1]].written[dst[2]] /\ t = mux'[dst[1]].written[dst[2]][k]
        BY <1>2, <1>3 DEF HasNext, Has
    <2>3. k \in DOMAIN mux[dst[1]].written[dst[2]] /\ mux[dst[1]].written[dst[2]][k] = t
        BY <1>1, <1>3, <2>2 DEF MovesBy, WrittenBy
    <2>4. <<1, k>>[1] = 1 /\ <<1, k>>[2] = k
        OBVIOUS
    <2>5. HasNow(dst, <<1, k>>, t)
        BY <2>2, <2>3, <2>4 DEF HasNow, Has
    <2>6. QED
        BY <2>1, <2>5 DEF Slots
<1>4. CASE p = 2
    <2>1. By(d, e, c, a) = <<2, k + d>> /\ k + d \in Int
        BY <1>1, <1>4 DEF By
    <2>2. k \in DOMAIN queue'[dst[1]].items /\ queue'[dst[1]].items[k] = <<dst[2], t>>
        BY <1>2, <1>4 DEF HasNext, Has
    <2>3. queue'[dst[1]].items[k][1] = dst[2]
        BY <2>2
    <2>4. k + d \in DOMAIN queue[dst[1]].items /\ queue[dst[1]].items[k + d] = <<dst[2], t>>
        BY <1>1, <1>4, <2>2, <2>3 DEF MovesBy, QueueBy
    <2>5. <<2, k + d>>[1] = 2 /\ <<2, k + d>>[2] = k + d
        OBVIOUS
    <2>6. HasNow(dst, <<2, k + d>>, t)
        BY <2>4, <2>5 DEF HasNow, Has
    <2>7. QED
        BY <2>1, <2>6 DEF Slots
<1>5. CASE p = 3
    <2>1. By(d, e, c, a) = <<3, k + e>> /\ k + e \in Int
        BY <1>1, <1>5 DEF By
    <2>2. /\ dst[1] \in Muxers /\ k \in DOMAIN mux'[dst[1]].pre[dst[2]] /\ t = mux'[dst[1]].pre[dst[2]][k]
          /\ t # EofFrame
        BY <1>2, <1>5 DEF HasNext, Has
    <2>3. k + e \in DOMAIN mux[dst[1]].pre[dst[2]] /\ mux[dst[1]].pre[dst[2]][k + e] = t
        BY <1>1, <1>5, <2>2 DEF MovesBy, PreBy
    <2>4. <<3, k + e>>[1] = 3 /\ <<3, k + e>>[2] = k + e
        OBVIOUS
    <2>5. HasNow(dst, <<3, k + e>>, t)
        BY <2>2, <2>3, <2>4 DEF HasNow, Has
    <2>6. QED
        BY <2>1, <2>5 DEF Slots
<1>6. CASE p = 4
    <2>1. By(d, e, c, a) = <<4, k + c>> /\ k + c \in Int
        BY <1>1, <1>6 DEF By
    <2> DEFINE n == SrcOf(dst)
    <2>2. /\ dst \notin task'[n].finished /\ k \in DOMAIN task'[n].todo
          /\ task'[n].todo[k] = Job("send", dst, t) /\ t # NoTime
        BY <1>2, <1>6 DEF HasNext, Has
    <2> HIDE DEF n
    <2>3. Job("send", dst, t).do = "send" /\ Job("send", dst, t).t = t
        BY DEF Job
    <2>4. TodoBy(n, c)
        BY DEF MovesBy, n
    <2>5. k + c \in DOMAIN task[n].todo /\ task[n].todo[k + c] = Job("send", dst, t) /\ dst \notin task[n].finished
        BY <2>2, <2>3, <2>4 DEF TodoBy
    <2>6. <<4, k + c>>[1] = 4 /\ <<4, k + c>>[2] = k + c
        OBVIOUS
    <2>7. HasNow(dst, <<4, k + c>>, t)
        BY <2>2, <2>5, <2>6 DEF HasNow, Has, n
    <2>8. QED
        BY <2>1, <2>7 DEF Slots
<1>7. QED
    BY <1>3, <1>4, <1>5, <1>6

(* Moving along a line keeps who stands below whom. *)
LEMMA ByBelow ==
  ASSUME NEW d \in Int, NEW e \in Int, NEW c \in Int, NEW a \in Slots, NEW b \in Slots, Below(a, b)
  PROVE  Below(By(d, e, c, a), By(d, e, c, b))
<1>1. PICK p \in 1 .. 4, k \in Int : a = <<p, k>>
    BY DEF Slots
<1>2. PICK q \in 1 .. 4, l \in Int : b = <<q, l>>
    BY DEF Slots
<1>3. p < q \/ (p = q /\ k < l)
    BY <1>1, <1>2 DEF Below
<1>4. QED
    BY <1>1, <1>2, <1>3 DEF Below, By

(* A move that puts nothing into a line carries it on. *)
LEMMA QuietMove ==
  ASSUME NEW dst, NEW d \in Int, NEW e \in Int, NEW c \in Int, MovesBy(dst, None, d, e, c)
  PROVE  Carried(dst)
<1> DEFINE from == [a \in Slots |-> IF By(d, e, c, a) \in Slots THEN By(d, e, c, a) ELSE a]
<1>1. \A a \in Slots : a # None /\ By(d, e, c, a) \in Slots /\ By(d, e, c, a)[1] = a[1]
    <2>1. ASSUME NEW a \in Slots PROVE a # None /\ By(d, e, c, a) \in Slots /\ By(d, e, c, a)[1] = a[1]
        <3>1. PICK p \in 1 .. 4, k \in Int : a = <<p, k>>
            BY DEF Slots
        <3>2. QED
            BY <3>1 DEF None, By, Slots
    <2>2. QED
        BY <2>1
<1>2. from \in [Slots -> Slots] /\ \A a \in Slots : from[a] = By(d, e, c, a)
    BY <1>1
<1> HIDE DEF from
<1>3. \A a \in Slots : \A t \in Int :
        HasNext(dst, a, t) => HasNow(dst, from[a], t) /\ (a[1] # 1 => from[a][1] # 1)
    BY <1>1, <1>2, ByHas
<1>4. \A a, b \in Slots : Below(a, b) => Below(from[a], from[b])
    BY <1>2, ByBelow
<1>5. QED
    BY <1>2, <1>3, <1>4 DEF Carried

(* A move of one entry to its place in the line carries the line on. *)
LEMMA MoveTo ==
  ASSUME NEW dst, NEW new \in Slots, NEW old \in Slots, new[1] # 1 => old[1] # 1,
         NEW d \in Int, NEW e \in Int, NEW c \in Int, MovesBy(dst, new, d, e, c),
         \A t \in Int : HasNext(dst, new, t) => HasNow(dst, old, t),
         \A a \in Slots : \A t \in Int : (HasNext(dst, a, t) /\ a # new) =>
           /\ Below(a, new) => Below(By(d, e, c, a), old)
           /\ Below(new, a) => Below(old, By(d, e, c, a))
  PROVE  Carried(dst)
<1> DEFINE from == [a \in Slots |-> IF a = new THEN old ELSE By(d, e, c, a)]
<1>1. \A a \in Slots : By(d, e, c, a) \in Slots /\ By(d, e, c, a)[1] = a[1] /\ ~Below(a, a)
    <2>1. ASSUME NEW a \in Slots PROVE By(d, e, c, a) \in Slots /\ By(d, e, c, a)[1] = a[1] /\ ~Below(a, a)
        <3>1. PICK p \in 1 .. 4, k \in Int : a = <<p, k>>
            BY DEF Slots
        <3>2. QED
            BY <3>1 DEF By, Slots, Below
    <2>2. QED
        BY <2>1
<1>2. /\ from \in [Slots -> Slots] /\ from[new] = old
      /\ \A a \in Slots : a # new => from[a] = By(d, e, c, a)
    BY <1>1
<1> HIDE DEF from
<1>3. ASSUME NEW a \in Slots, NEW t \in Int, HasNext(dst, a, t)
      PROVE  HasNow(dst, from[a], t) /\ (a[1] # 1 => from[a][1] # 1)
    <2>1. CASE a = new
        BY <1>2, <1>3, <2>1
    <2>2. CASE a # new
        BY <1>1, <1>2, <1>3, <2>2, ByHas
    <2>3. QED
        BY <2>1, <2>2
<1>4. ASSUME NEW a \in Slots, NEW b \in Slots, NEW u \in Int, NEW t \in Int,
             HasNext(dst, a, u), HasNext(dst, b, t), Below(a, b)
      PROVE  Below(from[a], from[b])
    <2>1. CASE a = new /\ b = new
        BY <1>1, <1>4, <2>1
    <2>2. CASE a = new /\ b # new
        BY <1>2, <1>4, <2>2
    <2>3. CASE a # new /\ b = new
        BY <1>2, <1>4, <2>3
    <2>4. CASE a # new /\ b # new
        BY <1>2, <1>4, <2>4, ByBelow
    <2>5. QED
        BY <2>1, <2>2, <2>3, <2>4
<1>5. QED
    BY <1>2, <1>3, <1>4 DEF Carried

(* A slot by its place.                                                    *)
LEMMA SlotIs ==
  ASSUME NEW a \in Slots, NEW d \in Int, NEW e \in Int, NEW c \in Int
  PROVE  /\ a[1] \in 1 .. 4 /\ a[2] \in Int
         /\ By(d, e, c, a)[1] = a[1]
         /\ By(d, e, c, a)[2] = a[2] + (IF a[1] = 2 THEN d ELSE IF a[1] = 3 THEN e
                                        ELSE IF a[1] = 4 THEN c ELSE 0)
BY DEF Slots, By

(* What a thread had to send is put into the queue.                        *)
LEMMA PutMove ==
  ASSUME NEW dst, NEW t \in Int, HasNow(dst, <<4, 1>>, t), NEW c \in Int, NEW l \in Nat,
         MovesBy(dst, <<2, l + 1>>, 0, 0, c),
         \A k \in DOMAIN task'[SrcOf(dst)].todo : task'[SrcOf(dst)].todo[k].do = "send" => 1 < k + c,
         \A k \in DOMAIN queue'[dst[1]].items : k <= l + 1,
         queue'[dst[1]].items[l + 1] = <<dst[2], t>>,
         dst[1] \in Muxers => mux'[dst[1]].pre[dst[2]] = <<>>
  PROVE  Carried(dst)
<1> DEFINE new == <<2, l + 1>>
           old == <<4, 1>>
<1>1. new \in Slots /\ old \in Slots /\ new[1] = 2 /\ new[2] = l + 1 /\ old[1] = 4 /\ old[2] = 1
    BY DEF Slots
<1> HIDE DEF new, old
<1>2. ASSUME NEW u \in Int, HasNext(dst, new, u) PROVE HasNow(dst, old, u)
    <2>1. queue'[dst[1]].items[l + 1] = <<dst[2], u>>
        BY <1>1, <1>2 DEF HasNext, Has
    <2>2. u = t
        BY <2>1
    <2>3. QED
        BY <2>2 DEF old
<1>3. ASSUME NEW a \in Slots, NEW u \in Int, HasNext(dst, a, u), a # new
      PROVE  /\ Below(a, new) => Below(By(0, 0, c, a), old)
             /\ Below(new, a) => Below(old, By(0, 0, c, a))
    <2>1. /\ a[1] \in 1 .. 4 /\ a[2] \in Int
          /\ By(0, 0, c, a)[1] = a[1]
          /\ By(0, 0, c, a)[2] = a[2] + (IF a[1] = 2 THEN 0 ELSE IF a[1] = 3 THEN 0
                                         ELSE IF a[1] = 4 THEN c ELSE 0)
        BY DEF Slots, By
    <2>2. a[1] # 3
        BY <1>3 DEF HasNext, Has
    <2>3. a[1] = 2 => a[2] <= l + 1
        BY <1>3 DEF HasNext, Has
    <2>4. a[1] = 4 => 1 < a[2] + c
        <3>1. ASSUME a[1] = 4 PROVE a[2] \in DOMAIN task'[SrcOf(dst)].todo /\ task'[SrcOf(dst)].todo[a[2]].do = "send"
            BY <1>3, <3>1 DEF HasNext, Has, Job
        <3>2. QED
            BY <3>1
    <2>5. QED
        BY <1>1, <2>1, <2>2, <2>3, <2>4 DEF Below
<1>4. MovesBy(dst, new, 0, 0, c)
    BY DEF new
<1>5. new[1] # 1 => old[1] # 1
    BY <1>1
<1>6. \A u \in Int : HasNext(dst, new, u) => HasNow(dst, old, u)
    BY <1>2
<1>7. \A a \in Slots : \A u \in Int : (HasNext(dst, a, u) /\ a # new) =>
        /\ Below(a, new) => Below(By(0, 0, c, a), old)
        /\ Below(new, a) => Below(old, By(0, 0, c, a))
    BY <1>3
<1>8. QED
    BY <1>1, <1>4, <1>5, <1>6, <1>7, MoveTo, 1 \in Int, 0 \in Int, Zenon

(* It waits for the muxer to start.                                        *)
LEMMA PutPreMove ==
  ASSUME NEW dst, NEW t \in Int, HasNow(dst, <<4, 1>>, t), NEW c \in Int, NEW l \in Nat,
         MovesBy(dst, <<3, l + 1>>, 0, 0, c),
         \A k \in DOMAIN task'[SrcOf(dst)].todo : task'[SrcOf(dst)].todo[k].do = "send" => 1 < k + c,
         \A k \in DOMAIN mux'[dst[1]].pre[dst[2]] : k <= l + 1,
         mux'[dst[1]].pre[dst[2]][l + 1] = t
  PROVE  Carried(dst)
<1> DEFINE new == <<3, l + 1>>
           old == <<4, 1>>
<1>1. new \in Slots /\ old \in Slots /\ new[1] = 3 /\ new[2] = l + 1 /\ old[1] = 4 /\ old[2] = 1
    BY DEF Slots
<1> HIDE DEF new, old
<1>2. ASSUME NEW u \in Int, HasNext(dst, new, u) PROVE HasNow(dst, old, u)
    <2>1. u = mux'[dst[1]].pre[dst[2]][l + 1]
        BY <1>1, <1>2 DEF HasNext, Has
    <2>3. QED
        BY <2>1 DEF old
<1>3. ASSUME NEW a \in Slots, NEW u \in Int, HasNext(dst, a, u), a # new
      PROVE  /\ Below(a, new) => Below(By(0, 0, c, a), old)
             /\ Below(new, a) => Below(old, By(0, 0, c, a))
    <2>1. /\ a[1] \in 1 .. 4 /\ a[2] \in Int
          /\ By(0, 0, c, a)[1] = a[1]
          /\ By(0, 0, c, a)[2] = a[2] + (IF a[1] = 2 THEN 0 ELSE IF a[1] = 3 THEN 0
                                         ELSE IF a[1] = 4 THEN c ELSE 0)
        BY DEF Slots, By
    <2>3. a[1] = 3 => a[2] <= l + 1
        BY <1>3 DEF HasNext, Has
    <2>4. a[1] = 4 => 1 < a[2] + c
        <3>1. ASSUME a[1] = 4 PROVE a[2] \in DOMAIN task'[SrcOf(dst)].todo /\ task'[SrcOf(dst)].todo[a[2]].do = "send"
            BY <1>3, <3>1 DEF HasNext, Has, Job
        <3>2. QED
            BY <3>1
    <2>5. QED
        BY <1>1, <2>1, <2>3, <2>4 DEF Below
<1>4. MovesBy(dst, new, 0, 0, c)
    BY DEF new
<1>5. new[1] # 1 => old[1] # 1
    BY <1>1
<1>6. \A u \in Int : HasNext(dst, new, u) => HasNow(dst, old, u)
    BY <1>2
<1>7. \A a \in Slots : \A u \in Int : (HasNext(dst, a, u) /\ a # new) =>
        /\ Below(a, new) => Below(By(0, 0, c, a), old)
        /\ Below(new, a) => Below(old, By(0, 0, c, a))
    BY <1>3
<1>8. QED
    BY <1>1, <1>4, <1>5, <1>6, <1>7, MoveTo, 1 \in Int, 0 \in Int, Zenon

(* The muxer starts: what waited for it is put into its queue.             *)
LEMMA FlushMove ==
  ASSUME NEW dst, NEW t \in Int, HasNow(dst, <<3, 1>>, t), NEW l \in Nat,
         MovesBy(dst, <<2, l + 1>>, 0, 1, 0),
         \A k \in DOMAIN mux'[dst[1]].pre[dst[2]] : 1 <= k,
         \A k \in DOMAIN queue'[dst[1]].items : k <= l + 1,
         queue'[dst[1]].items[l + 1] = <<dst[2], t>>
  PROVE  Carried(dst)
<1> DEFINE new == <<2, l + 1>>
           old == <<3, 1>>
<1>1. new \in Slots /\ old \in Slots /\ new[1] = 2 /\ new[2] = l + 1 /\ old[1] = 3 /\ old[2] = 1
    BY DEF Slots
<1> HIDE DEF new, old
<1>2. ASSUME NEW u \in Int, HasNext(dst, new, u) PROVE HasNow(dst, old, u)
    <2>1. queue'[dst[1]].items[l + 1] = <<dst[2], u>>
        BY <1>1, <1>2 DEF HasNext, Has
    <2>2. u = t
        BY <2>1
    <2>3. QED
        BY <2>2 DEF old
<1>3. ASSUME NEW a \in Slots, NEW u \in Int, HasNext(dst, a, u), a # new
      PROVE  /\ Below(a, new) => Below(By(0, 1, 0, a), old)
             /\ Below(new, a) => Below(old, By(0, 1, 0, a))
    <2>1. /\ a[1] \in 1 .. 4 /\ a[2] \in Int
          /\ By(0, 1, 0, a)[1] = a[1]
          /\ By(0, 1, 0, a)[2] = a[2] + (IF a[1] = 2 THEN 0 ELSE IF a[1] = 3 THEN 1
                                         ELSE IF a[1] = 4 THEN 0 ELSE 0)
        BY DEF Slots, By
    <2>2. a[1] = 3 => 1 <= a[2]
        BY <1>3 DEF HasNext, Has
    <2>3. a[1] = 2 => a[2] <= l + 1
        BY <1>3 DEF HasNext, Has
    <2>5. QED
        BY <1>1, <2>1, <2>2, <2>3 DEF Below
<1>4. MovesBy(dst, new, 0, 1, 0)
    BY DEF new
<1>5. new[1] # 1 => old[1] # 1
    BY <1>1
<1>6. \A u \in Int : HasNext(dst, new, u) => HasNow(dst, old, u)
    BY <1>2
<1>7. \A a \in Slots : \A u \in Int : (HasNext(dst, a, u) /\ a # new) =>
        /\ Below(a, new) => Below(By(0, 1, 0, a), old)
        /\ Below(new, a) => Below(old, By(0, 1, 0, a))
    BY <1>3
<1>8. QED
    BY <1>1, <1>4, <1>5, <1>6, <1>7, MoveTo, 1 \in Int, 0 \in Int, Zenon

(* A muxer writes what it takes from its queue.                            *)
LEMMA WriteMove ==
  ASSUME NEW dst, NEW t \in Int, NEW f \in Int, HasNow(dst, <<2, f>>, t), NEW l \in Nat,
         MovesBy(dst, <<1, l + 1>>, f, 0, 0), dst[1] \in Muxers,
         \A k \in DOMAIN mux'[dst[1]].written[dst[2]] : k <= l + 1,
         mux'[dst[1]].written[dst[2]][l + 1] = t,
         \A k \in DOMAIN queue'[dst[1]].items : 1 <= k
  PROVE  Carried(dst)
<1> DEFINE new == <<1, l + 1>>
           old == <<2, f>>
<1>1. new \in Slots /\ old \in Slots /\ new[1] = 1 /\ new[2] = l + 1 /\ old[1] = 2 /\ old[2] = f
    BY DEF Slots
<1> HIDE DEF new, old
<1>2. ASSUME NEW u \in Int, HasNext(dst, new, u) PROVE HasNow(dst, old, u)
    <2>1. u = mux'[dst[1]].written[dst[2]][l + 1]
        BY <1>1, <1>2 DEF HasNext, Has
    <2>3. QED
        BY <2>1 DEF old
<1>3. ASSUME NEW a \in Slots, NEW u \in Int, HasNext(dst, a, u), a # new
      PROVE  /\ Below(a, new) => Below(By(f, 0, 0, a), old)
             /\ Below(new, a) => Below(old, By(f, 0, 0, a))
    <2>1. /\ a[1] \in 1 .. 4 /\ a[2] \in Int
          /\ By(f, 0, 0, a)[1] = a[1]
          /\ By(f, 0, 0, a)[2] = a[2] + (IF a[1] = 2 THEN f ELSE IF a[1] = 3 THEN 0
                                         ELSE IF a[1] = 4 THEN 0 ELSE 0)
        BY DEF Slots, By
    <2>2. a[1] = 2 => 1 <= a[2]
        BY <1>3 DEF HasNext, Has
    <2>3. a[1] = 1 => a[2] <= l + 1
        BY <1>3 DEF HasNext, Has
    <2>5. QED
        BY <1>1, <2>1, <2>2, <2>3 DEF Below
<1>4. MovesBy(dst, new, f, 0, 0)
    BY DEF new
<1>5. new[1] # 1 => old[1] # 1
    BY <1>1
<1>6. \A u \in Int : HasNext(dst, new, u) => HasNow(dst, old, u)
    BY <1>2
<1>7. \A a \in Slots : \A u \in Int : (HasNext(dst, a, u) /\ a # new) =>
        /\ Below(a, new) => Below(By(f, 0, 0, a), old)
        /\ Below(new, a) => Below(old, By(f, 0, 0, a))
    BY <1>3
<1>8. QED
    BY <1>1, <1>4, <1>5, <1>6, <1>7, MoveTo, 1 \in Int, 0 \in Int, Zenon

-----------------------------------------------------------------------------
(* What the parts of a step do to the lines.                               *)
LEMMA TypedAfter ==
  ASSUME TypeInv', UNCHANGED graph
  PROVE  QueueTyped(queue') /\ MuxTyped(mux') /\ FgtTyped(fgt') /\ TaskTyped(task')
<1> USE DEF Nodes, OfKind, Demuxers, Filters, Muxers, Sources, Receivers, Dsts, Inputs, Streams, Dests
<1>2. QueueTyped(queue')
    BY DEF TypeInv, QueueTyped, QueueT
<1>3. MuxTyped(mux')
    BY DEF TypeInv, MuxTyped, MuxT
<1>4. FgtTyped(fgt')
    BY DEF TypeInv, FgtTyped, FgtT
<1>5. TaskTyped(task')
    BY ZenonT(30) DEF TypeInv, TaskTyped, TaskT, Jobs
<1>6. QED
    BY <1>2, <1>3, <1>4, <1>5

(* What a thread has to send it had to send before, c places further on.   *)
TodoKeeps(n, c) ==
  /\ task[n].finished \subseteq task'[n].finished
  /\ \A k \in DOMAIN task'[n].todo : task'[n].todo[k].do = "send" =>
       k + c \in DOMAIN task[n].todo /\ task[n].todo[k + c] = task'[n].todo[k]
Leaves(at) == at \in {"eof", "done", "ended"}
Carries(n) == (\E c \in Int : TodoKeeps(n, c)) /\ GoesOn(n) /\ (Leaves(task[n].at) => Leaves(task'[n].at))

(* A thread that does nothing carries its jobs on. *)
LEMMA StillCarries ==
  ASSUME TypeInv, NEW n \in Nodes, task'[n] = task[n]
  PROVE  Carries(n) /\ TodoKeeps(n, 0)
<1>1. task[n].todo \in Seq(Jobs(n)) /\ task[n].pos \in Int
    BY DEF TypeInv, TaskTyped, TaskT, Positions
<1>2. \A k \in DOMAIN task[n].todo : k + 0 = k
    BY <1>1
<1>3. TodoKeeps(n, 0)
    BY <1>2 DEF TodoKeeps
<1>4. GoesOn(n)
    BY <1>1 DEF GoesOn, Going
<1>5. QED
    BY <1>3, <1>4 DEF Carries

(* Finishing a job with jobs that send nothing carries the others on. *)
LEMMA DoneCarries ==
  ASSUME TypeInv, NEW n \in Nodes, task[n].todo # <<>>, NEW jobs \in Seq(Jobs(n)),
         \A job \in Range(jobs) : job.do # "send",
         NEW f \in SUBSET Range(Dsts(n)),
         task' = [task EXCEPT ![n].todo = jobs \o Tail(@), ![n].finished = @ \cup f]
  PROVE  /\ \A x \in Nodes : Carries(x)
         /\ \E c \in Int : TodoKeeps(n, c) /\ \A k \in DOMAIN task'[n].todo : task'[n].todo[k].do = "send" => 1 < k + c
<1> DEFINE s == task[n].todo
           r == jobs \o Tail(s)
<1>1. s \in Seq(Jobs(n)) /\ task[n] \in TaskT(n) /\ DOMAIN task = Nodes
    BY DEF TypeInv, TaskTyped, TaskT
<1>2. /\ task'[n].todo = r /\ task'[n].finished = task[n].finished \cup f
      /\ task'[n].at = task[n].at /\ task'[n].pos = task[n].pos
      /\ \A x \in Nodes \ {n} : task'[x] = task[x]
    BY <1>1 DEF TaskT
<1>3. s # <<>>
    OBVIOUS
<1> HIDE DEF s
<1>4. /\ Tail(s) \in Seq(Jobs(n)) /\ Len(Tail(s)) = Len(s) - 1 /\ Len(s) \in Nat
      /\ \A k \in 1 .. Len(Tail(s)) : Tail(s)[k] = s[k + 1]
    BY <1>1, <1>3, HeadTailProperties
<1>5. /\ r \in Seq(Jobs(n)) /\ Len(r) = Len(jobs) + Len(Tail(s)) /\ Len(jobs) \in Nat
      /\ \A k \in 1 .. Len(jobs) + Len(Tail(s)) : r[k] = IF k <= Len(jobs) THEN jobs[k] ELSE Tail(s)[k - Len(jobs)]
    BY <1>4, ConcatProperties
<1> HIDE DEF r
<1>6. ASSUME NEW k \in DOMAIN r, r[k].do = "send"
      PROVE  k + (1 - Len(jobs)) \in DOMAIN s /\ s[k + (1 - Len(jobs))] = r[k] /\ 1 < k + (1 - Len(jobs))
    <2>1. k \in 1 .. Len(jobs) + Len(Tail(s)) /\ DOMAIN s = 1 .. Len(s)
        BY <1>1, <1>5
    <2>2. ~(k <= Len(jobs))
        <3>1. ASSUME k <= Len(jobs) PROVE FALSE
            <4>1. r[k] = jobs[k] /\ k \in DOMAIN jobs
                BY <1>5, <2>1, <3>1
            <4>2. r[k] \in Range(jobs)
                BY <4>1 DEF Range
            <4>3. QED
                BY <1>6, <4>2
        <3>2. QED
            BY <3>1
    <2>3. k - Len(jobs) \in 1 .. Len(Tail(s)) /\ r[k] = Tail(s)[k - Len(jobs)]
        BY <1>4, <1>5, <2>1, <2>2
    <2>4. r[k] = s[k - Len(jobs) + 1]
        BY <1>4, <2>3
    <2>5. k - Len(jobs) + 1 = k + (1 - Len(jobs))
        BY <1>5, <2>1
    <2>6. k + (1 - Len(jobs)) \in 1 .. Len(s) /\ 1 < k + (1 - Len(jobs))
        BY <1>4, <1>5, <2>1, <2>2
    <2>7. QED
        BY <2>1, <2>4, <2>5, <2>6
<1> DEFINE c == 1 - Len(jobs)
<1>7. c \in Int
    BY <1>5
<1> HIDE DEF c
<1>8. TodoKeeps(n, c)
    BY <1>2, <1>6 DEF TodoKeeps, s, c
<1>9. GoesOn(n)
    <2>1. task[n].pos \in Int
        BY <1>1 DEF TaskT, Positions
    <2>2. task'[n].finished = task[n].finished \cup f /\ task'[n].pos = task[n].pos
        BY <1>2, Zenon
    <2>3. task[n].finished \subseteq task'[n].finished
        BY <2>2, Zenon
    <2>4. task[n].pos <= task'[n].pos
        BY <2>1, <2>2
    <2>5. Going(task', n) => Going(task, n)
        BY <1>2 DEF Going
    <2>6. QED
        BY <2>3, <2>4, <2>5 DEF GoesOn
<1>10. Carries(n)
    BY <1>2, <1>7, <1>8, <1>9 DEF Carries
<1>11. \A x \in Nodes : Carries(x)
    BY <1>2, <1>10, StillCarries
<1>12. \A k \in DOMAIN task'[n].todo : task'[n].todo[k].do = "send" => 1 < k + c
    BY <1>2, <1>6 DEF c
<1>13. QED
    BY <1>7, <1>8, <1>11, <1>12

(* The same, when no destination is finished.                              *)
LEMMA JobCarries ==
  ASSUME TypeInv, NEW n \in Nodes, task[n].todo # <<>>, NEW jobs \in Seq(Jobs(n)),
         \A job \in Range(jobs) : job.do # "send", Done(n, jobs)
  PROVE  /\ \A x \in Nodes : Carries(x)
         /\ \E c \in Int : TodoKeeps(n, c) /\ \A k \in DOMAIN task'[n].todo : task'[n].todo[k].do = "send" => 1 < k + c
<1>1. task[n] \in TaskT(n) /\ DOMAIN task = Nodes
    BY DEF TypeInv, TaskTyped
<1> DEFINE r == jobs \o Tail(task[n].todo)
<1>2. task' = [task EXCEPT ![n].todo = r]
    BY DEF Done
<1> HIDE DEF r
<1>3. task' = [task EXCEPT ![n].todo = r, ![n].finished = @ \cup {}]
    BY <1>1, <1>2 DEF TaskT
<1>4. task' = [task EXCEPT ![n].todo = jobs \o Tail(@), ![n].finished = @ \cup {}]
    BY <1>3 DEF r
<1>5. {} \in SUBSET Range(Dsts(n))
    OBVIOUS
<1>6. QED
    BY <1>4, <1>5, DoneCarries

(* A thread that has nothing to send.                                      *)
LEMMA BecomeCarries ==
  ASSUME TypeInv, NEW n \in Nodes, NEW at, NEW jobs,
         \A job \in Range(jobs) : job.do # "send",
         task'[n].at = at, task'[n].todo = jobs, task'[n].finished = task[n].finished,
         task[n].pos <= task'[n].pos, \A x \in Nodes \ {n} : task'[x] = task[x],
         Leaves(task[n].at) => Leaves(at), ~Going(task, n) => at \in {"close", "eof", "done", "ended"}
  PROVE  \A x \in Nodes : Carries(x)
<1>1. TodoKeeps(n, 0)
    BY DEF TodoKeeps, Range
<1>2. GoesOn(n)
    BY DEF GoesOn, Going
<1>3. QED
    BY <1>1, <1>2, StillCarries DEF Carries

(* The end of a thread carries on: it sends nothing more. *)
LEMMA EndCarries ==
  ASSUME TypeInv, NEW n \in Nodes, NEW failed, End(n, failed)
  PROVE  \A x \in Nodes : Carries(x)
<1>1. task[n] \in TaskT(n) /\ DOMAIN task = Nodes
    BY DEF TypeInv, TaskTyped
<1>2. /\ task'[n].at = "done" /\ task'[n].todo = Cleanup(n) /\ task'[n].finished = task[n].finished
      /\ task'[n].pos = task[n].pos /\ \A x \in Nodes \ {n} : task'[x] = task[x]
    BY <1>1 DEF End, TaskT
<1>3. task[n].pos \in Int
    BY <1>1 DEF TaskT, Positions
<1>4. \A job \in Range(Cleanup(n)) : job.do # "send"
    BY CleanupTyped DEF TypeInv
<1>5. QED
    BY <1>2, <1>3, <1>4, BecomeCarries DEF Leaves

(* Jobs that are kept are moved by their distance. *)
LEMMA KeepsBy ==
  ASSUME NEW n, NEW c, TodoKeeps(n, c)
  PROVE  TodoBy(n, c)
BY DEF TodoKeeps, TodoBy

(* The queues and the streams that are left alone.                         *)
LEMMA QueueStill ==
  ASSUME TypeInv, NEW dst \in Dests, queue'[dst[1]].items \in {queue[dst[1]].items, <<>>}
  PROVE  QueueBy(dst, None, 0)
<1>1. dst[1] \in Receivers
    BY SourceOfDest, WayFacts DEF TypeInv
<1>2. queue[dst[1]].items \in Seq(Inputs(dst[1]) \X Int)
    BY <1>1, QueueIs DEF TypeInv
<1>3. \A k \in DOMAIN queue[dst[1]].items : k + 0 = k
    BY <1>2
<1>4. DOMAIN <<>> = {}
    OBVIOUS
<1>5. QED
    BY <1>3, <1>4 DEF QueueBy

(* A stream of a muxer that is left alone carries on what it holds. *)
LEMMA MuxStill ==
  ASSUME TypeInv, NEW dst \in Dests,
         dst[1] \in Muxers => /\ mux'[dst[1]].written[dst[2]] = mux[dst[1]].written[dst[2]]
                              /\ mux'[dst[1]].pre[dst[2]] = mux[dst[1]].pre[dst[2]]
  PROVE  WrittenBy(dst, None) /\ PreBy(dst, None, 0)
<1>1. WrittenBy(dst, None)
    BY DEF WrittenBy
<1>2. SrcOf(dst) \in Nodes /\ dst \in Range(Dsts(SrcOf(dst)))
    BY SourceOfDest DEF TypeInv
<1>3. dst[2] \in Inputs(dst[1])
    BY <1>2, DestIs
<1>4. dst[1] \in Muxers => mux[dst[1]].pre[dst[2]] \in Seq(Int)
    BY <1>3, MuxIs DEF TypeInv
<1>5. dst[1] \in Muxers => \A k \in DOMAIN mux[dst[1]].pre[dst[2]] : k + 0 = k
    BY <1>4
<1>6. PreBy(dst, None, 0)
    BY <1>5 DEF PreBy
<1>7. QED
    BY <1>1, <1>6

(* When nothing else moves, what is to be sent moves up.                   *)
LEMMA StillCarried ==
  ASSUME TypeInv, NEW dst \in Dests, \A n \in Nodes : Carries(n),
         queue'[dst[1]].items \in {queue[dst[1]].items, <<>>},
         dst[1] \in Muxers => /\ mux'[dst[1]].written[dst[2]] = mux[dst[1]].written[dst[2]]
                              /\ mux'[dst[1]].pre[dst[2]] = mux[dst[1]].pre[dst[2]]
  PROVE  Carried(dst)
<1>1. SrcOf(dst) \in Nodes
    BY SourceOfDest DEF TypeInv
<1>2. PICK c \in Int : TodoKeeps(SrcOf(dst), c)
    BY <1>1 DEF Carries
<1>3. TodoBy(SrcOf(dst), c)
    BY <1>2, KeepsBy
<1>4. MovesBy(dst, None, 0, 0, c)
    BY <1>3, QueueStill, MuxStill DEF MovesBy
<1>5. QED
    BY <1>2, <1>4, 0 \in Int, QuietMove

(* Who opens an encoder does not change either.                            *)
LEMMA OpeningKept ==
  ASSUME TypeInv, TaskTyped(task'), Opening(mux, task, fgt), \A n \in Nodes : Carries(n), Flushed(mux'),
         \A m \in Muxers : mux'[m].ready = mux[m].ready,
         \A f \in Filters : fgt[f].got => fgt'[f].got
  PROVE  Opening(mux', task', fgt')
<1>0. Filters \subseteq Nodes
    BY NodeFacts DEF TypeInv
<1>1. Distinct(task')
    <2>1. SUFFICES ASSUME NEW n \in Nodes, NEW p \in DOMAIN task'[n].todo, NEW q \in DOMAIN task'[n].todo,
                          task'[n].todo[p].do = "send", task'[n].todo[q].do = "send",
                          task'[n].todo[p].dst = task'[n].todo[q].dst
                   PROVE  p = q
        BY Zenon DEF Distinct
    <2>2. PICK c \in Int : TodoKeeps(n, c)
        BY DEF Carries
    <2>3. /\ p + c \in DOMAIN task[n].todo /\ task[n].todo[p + c] = task'[n].todo[p]
          /\ q + c \in DOMAIN task[n].todo /\ task[n].todo[q + c] = task'[n].todo[q]
        BY <2>1, <2>2 DEF TodoKeeps
    <2>4. p + c = q + c
        BY <2>1, <2>3, ZenonT(30) DEF Opening, Distinct
    <2>5. p \in Int /\ q \in Int
        <3>1. task'[n].todo \in Seq(Jobs(n))
            BY DEF TaskTyped, TaskT
        <3>2. QED
            BY <2>1, <3>1
    <2>6. QED
        BY <2>4, <2>5
<1>2. \A f \in Filters : \A dst \in Range(Dsts(f)) : Opened(mux', dst[1]) => Opened(mux, dst[1])
    <2>1. ASSUME NEW f \in Filters, NEW dst \in Range(Dsts(f)), Opened(mux', dst[1])
          PROVE  Opened(mux, dst[1])
        <3>1. dst[1] \in OfKind("enc")
            BY <1>0, WayFacts DEF TypeInv
        <3>2. StreamOf(dst[1])[1] \in Muxers
            BY <3>1, EncoderFacts DEF TypeInv
        <3>3. QED
            BY <2>1, <3>2 DEF Opened
    <2>2. QED
        BY <2>1
<1>3. Empties(mux', task')
    <2>1. SUFFICES ASSUME NEW f \in Nodes, NEW p \in DOMAIN task'[f].todo,
                          task'[f].todo[p].do = "send", task'[f].todo[p].t = NoTime,
                          task'[f].todo[p].dst \notin task'[f].finished
                   PROVE  f \in Filters /\ ~Opened(mux', task'[f].todo[p].dst[1])
        BY DEF Empties
    <2>2. PICK c \in Int : TodoKeeps(f, c)
        BY DEF Carries
    <2>3. /\ p + c \in DOMAIN task[f].todo /\ task[f].todo[p + c] = task'[f].todo[p]
          /\ task'[f].todo[p].dst \notin task[f].finished
        BY <2>1, <2>2 DEF TodoKeeps
    <2>4. task[f].todo[p + c] \in Jobs(f)
        <3>1. task[f].todo \in Seq(Jobs(f))
            BY DEF TypeInv, TaskTyped, TaskT
        <3>2. QED
            BY <2>3, <3>1
    <2>5. task'[f].todo[p].dst \in Range(Dsts(f))
        BY <2>1, <2>3, <2>4 DEF Jobs
    <2>6. Empties(mux, task)
        BY DEF Opening
    <2>7. f \in Filters /\ ~Opened(mux, task[f].todo[p + c].dst[1])
        BY <2>1, <2>3, <2>6 DEF Empties
    <2>8. QED
        BY <1>2, <2>3, <2>5, <2>7
<1>4. Idle(mux', task', fgt')
    <2>1. SUFFICES ASSUME NEW f \in Filters, ~fgt'[f].got, ~Leaves(task'[f].at)
                   PROVE  /\ \A p \in DOMAIN task'[f].todo : task'[f].todo[p].do # "send"
                          /\ \A dst \in Range(Dsts(f)) : ~Opened(mux', dst[1])
        BY DEF Idle, Leaves
    <2>2. ~fgt[f].got /\ ~Leaves(task[f].at)
        BY <1>0, <2>1 DEF Carries
    <2>3. /\ \A p \in DOMAIN task[f].todo : task[f].todo[p].do # "send"
          /\ \A dst \in Range(Dsts(f)) : ~Opened(mux, dst[1])
        BY <2>2 DEF Opening, Idle, Leaves
    <2>4. PICK c \in Int : TodoKeeps(f, c)
        BY <1>0 DEF Carries
    <2>5. QED
        BY <1>2, <2>3, <2>4 DEF TodoKeeps
<1>5. QED
    BY <1>1, <1>3, <1>4 DEF Opening

-----------------------------------------------------------------------------
(* The jobs keep the order.                                                *)
OrderNext == Ordered(queue', mux', task', fgt') /\ Opening(mux', task', fgt')

(* A step in which all lines go on and the filters stand keeps the invariant. *)
LEMMA CalmKeeps ==
  ASSUME OrderInv, TypeInv', UNCHANGED <<graph, fgt>>, \A n \in Nodes : Carries(n),
         \A dst \in Dests : Carried(dst), Flushed(mux'), \A m \in Muxers : mux'[m].ready = mux[m].ready
  PROVE  OrderNext
<1>1. TaskTyped(task')
    BY TypedAfter
<1>2. \A n \in Nodes : GoesOn(n)
    BY DEF Carries
<1>3. Ordered(queue', mux', task', fgt')
    BY <1>1, <1>2, CalmStep DEF OrderInv
<1>4. Opening(mux', task', fgt')
    BY <1>1, OpeningKept DEF OrderInv
<1>5. QED
    BY <1>3, <1>4 DEF OrderNext

(* Only threads move.                                                      *)
LEMMA ThreadKeeps ==
  ASSUME OrderInv, TypeInv', UNCHANGED <<graph, fgt, mux>>, \A n \in Nodes : Carries(n),
         \A n \in Receivers : queue'[n].items \in {queue[n].items, <<>>}
  PROVE  OrderNext
<1>1. ASSUME NEW dst \in Dests PROVE Carried(dst)
    <2>1. dst[1] \in Receivers
        BY SourceOfDest, WayFacts DEF OrderInv, TypeInv
    <2>2. QED
        BY <2>1, StillCarried DEF OrderInv
<1>2. Flushed(mux')
    BY DEF OrderInv, Opening
<1>3. QED
    BY <1>1, <1>2, CalmKeeps

(* The packet about to be sent stands first among those still to send. *)
LEMMA HeadSlot ==
  ASSUME TypeInv, NEW n \in Nodes, NEW dst \in Range(Dsts(n)), NEW t \in Int, task[n].todo # <<>>,
         Head(task[n].todo) = Job("send", dst, t), dst \notin task[n].finished, t # NoTime
  PROVE  HasNow(dst, <<4, 1>>, t)
<1>1. task[n].todo \in Seq(Jobs(n))
    BY JobIs
<1>2. 1 \in DOMAIN task[n].todo /\ task[n].todo[1] = Job("send", dst, t)
    BY <1>1
<1>3. SrcOf(dst) = n
    BY DestFacts DEF TypeInv
<1>4. <<4, 1>>[1] = 4 /\ <<4, 1>>[2] = 1
    OBVIOUS
<1>5. QED
    BY <1>2, <1>3, <1>4 DEF HasNow, Has

(* An empty frame is not put into a queue.                                 *)
LEMMA NotEmpty ==
  ASSUME OrderInv, NEW n \in Nodes, NEW dst \in Range(Dsts(n)), NEW t \in Int, task[n].todo # <<>>,
         Head(task[n].todo) = Job("send", dst, t), dst \notin task[n].finished,
         graph.kind[dst[1]] = "enc" => Opened(mux, dst[1])
  PROVE  t # NoTime
<1>1. task[n].todo \in Seq(Jobs(n))
    BY JobIs DEF OrderInv
<1>2. 1 \in DOMAIN task[n].todo /\ task[n].todo[1] = Job("send", dst, t)
    BY <1>1
<1>3. Job("send", dst, t).do = "send" /\ Job("send", dst, t).dst = dst /\ Job("send", dst, t).t = t
    BY DEF Job
<1>4. SUFFICES ASSUME t = NoTime PROVE FALSE
    OBVIOUS
<1>5. n \in Filters /\ ~Opened(mux, dst[1])
    <2>1. Empties(mux, task)
        BY DEF OrderInv, Opening
    <2>2. QED
        BY <1>2, <1>3, <1>4, <2>1 DEF Empties
<1>6. dst[1] \in OfKind("enc")
    BY <1>5, WayFacts DEF OrderInv, TypeInv
<1>7. graph.kind[dst[1]] = "enc"
    BY <1>6, NodeFacts DEF OrderInv, TypeInv
<1>8. QED
    BY <1>5, <1>7

(* What an input of the same queue gets does not move another one.         *)
LEMMA PutBy ==
  ASSUME TypeInv, NEW dst \in Dests, NEW i, NEW t, queue' = Put(dst[1], i, t)
  PROVE  /\ Len(queue[dst[1]].items) \in Nat
         /\ \A k \in DOMAIN queue'[dst[1]].items : k <= Len(queue[dst[1]].items) + 1
         /\ queue'[dst[1]].items[Len(queue[dst[1]].items) + 1] = <<i, t>>
         /\ QueueBy(dst, <<2, Len(queue[dst[1]].items) + 1>>, 0)
         /\ i # dst[2] => QueueBy(dst, None, 0)
<1> DEFINE x == dst[1]
           s == queue[x].items
           r == Append(s, <<i, t>>)
<1>1. x \in Receivers
    BY SourceOfDest, WayFacts DEF TypeInv
<1>2. s \in Seq(Inputs(x) \X Int)
    BY <1>1, QueueIs DEF TypeInv
<1>3. queue'[x].items = r
    BY <1>1 DEF Put, TypeInv, QueueTyped, QueueT
<1> HIDE DEF s, x
<1>4. /\ Len(s) \in Nat /\ DOMAIN s = 1 .. Len(s) /\ DOMAIN r = 1 .. Len(s) + 1
      /\ r[Len(s) + 1] = <<i, t>> /\ \A k \in 1 .. Len(s) : r[k] = s[k]
    BY <1>2
<1> HIDE DEF r
<1>5. ASSUME NEW k \in DOMAIN r, k # Len(s) + 1
      PROVE  k + 0 \in DOMAIN s /\ s[k + 0] = r[k]
    BY <1>4, <1>5
<1>6. \A k \in DOMAIN r : <<2, k>> # <<2, Len(s) + 1>> => k # Len(s) + 1
    OBVIOUS
<1>7. r[Len(s) + 1][1] = i
    BY <1>4
<1>8. QueueBy(dst, <<2, Len(s) + 1>>, 0)
    BY <1>3, <1>5, <1>6 DEF QueueBy, s, x
<1>9. ASSUME i # dst[2] PROVE QueueBy(dst, None, 0)
    BY <1>3, <1>5, <1>7, <1>9 DEF QueueBy, s, x
<1>10. QED
    BY <1>3, <1>4, <1>8, <1>9 DEF s, x

(* A thread puts what it had to send into a queue.                         *)
LEMMA OrderPut ==
  ASSUME OrderInv, TypeInv', UNCHANGED <<graph, fgt, mux>>, NEW n \in Nodes, NEW dst \in Range(Dsts(n)),
         NEW t \in Int, task[n].todo # <<>>, Head(task[n].todo) = Job("send", dst, t),
         dst \notin task[n].finished,
         dst[1] \in Muxers => ~Waiting(dst[1]), graph.kind[dst[1]] = "enc" => Opened(mux, dst[1]),
         queue' = Put(dst[1], dst[2], t),
         NEW jobs \in Seq(Jobs(n)), \A job \in Range(jobs) : job.do # "send", Done(n, jobs)
  PROVE  OrderNext
<1> DEFINE x == dst[1]
           l == Len(queue[x].items)
<1>0. TypeInv /\ GraphIs
    BY DEF OrderInv, TypeInv
<1>1. /\ \A k \in Nodes : Carries(k)
      /\ \E c \in Int : TodoKeeps(n, c) /\ \A k \in DOMAIN task'[n].todo : task'[n].todo[k].do = "send" => 1 < k + c
    BY <1>0, JobCarries
<1>2. dst \in Dests /\ SrcOf(dst) = n /\ dst = <<dst[1], dst[2]>> /\ x \in Receivers
    BY <1>0, DestFacts, WayFacts
<1>3. Carried(dst)
    <2>1. PICK c \in Int : TodoKeeps(n, c) /\ \A k \in DOMAIN task'[n].todo : task'[n].todo[k].do = "send" => 1 < k + c
        BY <1>1
    <2>2. HasNow(dst, <<4, 1>>, t)
        BY <1>0, NotEmpty, HeadSlot, SMTT(30)
    <2>3. /\ l \in Nat /\ \A k \in DOMAIN queue'[x].items : k <= l + 1
          /\ queue'[x].items[l + 1] = <<dst[2], t>> /\ QueueBy(dst, <<2, l + 1>>, 0)
        <3>1. queue' = Put(dst[1], dst[2], t)
            OBVIOUS
        <3>2. dst \in Dests /\ TypeInv
            BY <1>0, <1>2
        <3>3. Len(queue[dst[1]].items) \in Nat
            BY <3>1, <3>2, PutBy
        <3>4. \A k \in DOMAIN queue'[dst[1]].items : k <= Len(queue[dst[1]].items) + 1
            BY <3>1, <3>2, PutBy
        <3>5. queue'[dst[1]].items[Len(queue[dst[1]].items) + 1] = <<dst[2], t>>
            BY <3>1, <3>2, PutBy, ZenonT(30)
        <3>6. QueueBy(dst, <<2, Len(queue[dst[1]].items) + 1>>, 0)
            BY <3>1, <3>2, PutBy
        <3>7. QED
            BY <3>3, <3>4, <3>5, <3>6
    <2>4. WrittenBy(dst, <<2, l + 1>>) /\ PreBy(dst, <<2, l + 1>>, 0)
        <3>1. WrittenBy(dst, None) /\ PreBy(dst, None, 0)
            BY <1>0, <1>2, MuxStill
        <3>2. \A k : <<1, k>> # None /\ <<3, k>> # None
            BY DEF None
        <3>3. QED
            BY <3>1, <3>2 DEF WrittenBy, PreBy
    <2>5. TodoBy(n, c)
        BY <2>1, KeepsBy
    <2>6. dst[1] \in Muxers => mux'[dst[1]].pre[dst[2]] = <<>>
        <3>1. dst[2] \in Inputs(dst[1])
            BY <1>0, DestFacts
        <3>2. QED
            BY <3>1 DEF Waiting, OrderInv, Opening, Flushed
    <2> HIDE DEF l, x
    <2>7. MovesBy(dst, <<2, l + 1>>, 0, 0, c)
        BY <1>2, <2>3, <2>4, <2>5 DEF MovesBy
    <2>8. QED
        BY <1>2, <2>1, <2>2, <2>3, <2>6, <2>7, PutMove DEF x
<1>4. ASSUME NEW d \in Dests, d # dst PROVE Carried(d)
    <2>1. d = <<d[1], d[2]>> /\ d[1] \in Receivers
        BY <1>0, SourceOfDest, DestFacts, WayFacts
    <2>2. CASE d[1] = x
        <3>1. dst[2] # d[2]
            BY <1>2, <1>4, <2>1, <2>2
        <3>2. QueueBy(d, None, 0)
            BY <1>0, <2>2, <3>1, PutBy
        <3>3. SrcOf(d) \in Nodes
            BY <1>0, SourceOfDest
        <3>4. PICK c \in Int : TodoKeeps(SrcOf(d), c)
            BY <1>1, <3>3 DEF Carries
        <3>5. MovesBy(d, None, 0, 0, c)
            BY <1>0, <3>2, <3>4, KeepsBy, MuxStill DEF MovesBy
        <3>6. QED
            BY <3>4, <3>5, 0 \in Int, QuietMove
    <2>3. CASE d[1] # x
        <3>1. queue'[d[1]].items = queue[d[1]].items
            BY <1>0, <1>2, <2>1, <2>3 DEF Put, TypeInv, QueueTyped
        <3>2. QED
            BY <1>0, <1>1, <3>1, StillCarried
    <2>4. QED
        BY <2>2, <2>3
<1>5. Flushed(mux')
    BY DEF OrderInv, Opening
<1>6. QED
    BY <1>1, <1>3, <1>4, <1>5, CalmKeeps

(* A packet waits for the muxer to start.                                  *)
LEMMA OrderPutPre ==
  ASSUME OrderInv, TypeInv', UNCHANGED <<graph, fgt, queue>>, NEW n \in Nodes, NEW dst \in Range(Dsts(n)),
         NEW t \in Int, task[n].todo # <<>>, dst \notin task[n].finished,
         t = EofFrame \/ Head(task[n].todo) = Job("send", dst, t),
         dst[1] \in Muxers, Waiting(dst[1]),
         mux' = [mux EXCEPT ![dst[1]].pre[dst[2]] = Append(@, t)],
         NEW jobs \in Seq(Jobs(n)), \A job \in Range(jobs) : job.do # "send",
         NEW f \in SUBSET Range(Dsts(n)),
         task' = [task EXCEPT ![n].todo = jobs \o Tail(@), ![n].finished = @ \cup f]
  PROVE  OrderNext
<1> DEFINE x == dst[1]
           i == dst[2]
           s == mux[x].pre[i]
           r == Append(s, t)
<1>0. TypeInv /\ GraphIs
    BY DEF OrderInv, TypeInv
<1>1. /\ \A k \in Nodes : Carries(k)
      /\ \E c \in Int : TodoKeeps(n, c) /\ \A k \in DOMAIN task'[n].todo : task'[n].todo[k].do = "send" => 1 < k + c
    BY <1>0, DoneCarries
<1>2. dst \in Dests /\ SrcOf(dst) = n /\ dst = <<dst[1], dst[2]>> /\ x \in Receivers /\ i \in Inputs(x)
    BY <1>0, DestFacts, WayFacts
<1>3. s \in Seq(Int) /\ x \in Muxers /\ mux[x] \in MuxT(x)
    BY <1>0, <1>2, MuxIs DEF TypeInv
<1>4. /\ mux'[x].pre[i] = r /\ mux'[x].state = mux[x].state /\ mux'[x].written = mux[x].written
      /\ mux'[x].ready = mux[x].ready /\ \A j \in Inputs(x) \ {i} : mux'[x].pre[j] = mux[x].pre[j]
      /\ \A m \in Muxers \ {x} : mux'[m] = mux[m]
    <2> HIDE DEF i, x, s
    <2>1. mux' = [mux EXCEPT ![x].pre[i] = r]
        BY DEF s, x, i
    <2> HIDE DEF r
    <2>2. DOMAIN mux = Muxers
        BY <1>0 DEF TypeInv, MuxTyped
    <2>3. QED
        BY <1>2, <1>3, <2>1, <2>2 DEF MuxT
<1>5. /\ Len(s) \in Nat /\ DOMAIN s = 1 .. Len(s) /\ DOMAIN r = 1 .. Len(s) + 1
      /\ r[Len(s) + 1] = t /\ \A k \in 1 .. Len(s) : r[k] = s[k]
    <2> HIDE DEF s
    <2>1. QED
        BY <1>3
<1> DEFINE l == Len(s)
<1>6. \A k \in DOMAIN r : k # l + 1 => k + 0 \in DOMAIN s /\ s[k + 0] = r[k]
    <2> HIDE DEF s, r
    <2>1. QED
        BY <1>5
<1> HIDE DEF s, r, l
<1>7. \A k : <<1, k>> # None /\ <<2, k>> # None /\ <<3, k>> # None
    BY DEF None
<1>8. Carried(dst)
    <2>1. PICK c \in Int : TodoKeeps(n, c) /\ \A k \in DOMAIN task'[n].todo : task'[n].todo[k].do = "send" => 1 < k + c
        BY <1>1
    <2>2. TodoBy(n, c)
        BY <2>1, KeepsBy
    <2>3. \A y : WrittenBy(dst, y) /\ QueueBy(dst, y, 0)
        <3>1. QueueBy(dst, None, 0)
            BY <1>0, <1>2, QueueStill
        <3>2. \A y : QueueBy(dst, y, 0)
            BY <1>7, <3>1 DEF QueueBy
        <3>3. \A y : WrittenBy(dst, y)
            BY <1>4 DEF WrittenBy, x
        <3>4. QED
            BY <3>2, <3>3
    <2>4. CASE t = EofFrame
        <3>1. PreBy(dst, None, 0)
            <4>1. \A k \in DOMAIN r : r[k] # EofFrame => k # l + 1
                BY <1>5, <2>4 DEF l
            <4>2. QED
                BY <1>3, <1>4, <1>6, <4>1 DEF PreBy, s, x, i
        <3>2. MovesBy(dst, None, 0, 0, c)
            BY <1>2, <2>2, <2>3, <3>1, SMTT(30) DEF MovesBy
        <3>3. QED
            BY <2>1, <3>2, 0 \in Int, QuietMove
    <2>5. CASE t # EofFrame
        <3>1. dst[1] \in Muxers /\ dst[1] \notin OfKind("enc")
            BY <1>0, <1>3, NodeFacts DEF Muxers, x
        <3>2. graph.kind[dst[1]] # "enc"
            BY <1>0, <1>3, NodeFacts DEF Muxers, x
        <3>3. t # NoTime
            BY <2>5, <3>2, NotEmpty
        <3>4. HasNow(dst, <<4, 1>>, t)
            BY <1>0, <2>5, <3>3, HeadSlot
        <3>5. \A k : <<3, k>> # <<3, l + 1>> => k # l + 1
            BY SMTT(30)
        <3>6. PreBy(dst, <<3, l + 1>>, 0)
            BY <1>3, <1>4, <1>6, <3>5 DEF PreBy, s, x, i
        <3>7. MovesBy(dst, <<3, l + 1>>, 0, 0, c)
            BY <1>2, <2>2, <2>3, <3>6 DEF MovesBy
        <3>8. /\ \A k \in DOMAIN mux'[dst[1]].pre[dst[2]] : k <= l + 1
              /\ mux'[dst[1]].pre[dst[2]][l + 1] = t /\ l \in Nat
            BY <1>4, <1>5, SMTT(30) DEF x, i, l
        <3>9. QED
            BY <1>2, <2>1, <3>4, <3>7, <3>8, PutPreMove
    <2>6. QED
        BY <2>4, <2>5
<1>9. ASSUME NEW d \in Dests, d # dst PROVE Carried(d)
    <2>1. d = <<d[1], d[2]>> /\ d[1] \in Receivers /\ d[2] \in Inputs(d[1])
        BY <1>0, SourceOfDest, DestFacts, WayFacts
    <2>2. d[1] # x \/ d[2] # i
        BY <1>2, <1>9, <2>1 DEF x, i
    <2>3. d[1] \in Muxers => /\ mux'[d[1]].written[d[2]] = mux[d[1]].written[d[2]]
                             /\ mux'[d[1]].pre[d[2]] = mux[d[1]].pre[d[2]]
        BY <1>4, <2>1, <2>2
    <2>4. QED
        BY <1>0, <1>1, <2>3, StillCarried
<1>10. Flushed(mux')
    BY <1>4 DEF OrderInv, Opening, Flushed, Waiting, x
<1>11. \A m \in Muxers : mux'[m].ready = mux[m].ready
    BY <1>4
<1>12. QED
    BY <1>1, <1>8, <1>9, <1>10, <1>11, CalmKeeps

(* sch_send keeps the order. *)
LEMMA OrderSend ==
  ASSUME OrderInv, TypeInv', UNCHANGED <<graph, fgt>>, NEW n \in Nodes, NEW dst \in Range(Dsts(n)),
         NEW t \in Int, task[n].todo # <<>>, Head(task[n].todo) = Job("send", dst, t), Send(n, dst, t)
  PROVE  OrderNext
<1> DEFINE x == dst[1]
           i == dst[2]
           then == IF x \in Muxers THEN <<Report(dst, t)>> ELSE <<>>
<1>1. TypeInv /\ GraphIs
    BY DEF OrderInv, TypeInv
<1>2. x \in Receivers /\ i \in Inputs(x) /\ (x \in Muxers => dst \in Streams)
    BY <1>1, DestIs
<1>3. then \in Seq(Jobs(n)) /\ \A job \in Range(then) : job.do # "send"
    <2>1. CASE x \in Muxers
        <3>1. Report(dst, t) \in Jobs(n) /\ Report(dst, t).do = "report"
            BY <1>1, <1>2, <2>1, JobTypes DEF Report, Job
        <3>2. QED
            BY <2>1, <3>1, Single
    <2>2. CASE x \notin Muxers
        BY <2>2, Empty
    <2>3. QED
        BY <2>1, <2>2
<1> HIDE DEF then
<1>4. ASSUME NEW jobs \in Seq(Jobs(n)), \A job \in Range(jobs) : job.do # "send", Done(n, jobs),
             UNCHANGED <<queue, mux>>
      PROVE  OrderNext
    <2>1. \A k \in Nodes : Carries(k)
        BY <1>1, <1>4, JobCarries
    <2>2. QED
        BY <1>4, <2>1, ThreadKeeps
<1>5. CASE Done(n, <<>>) /\ UNCHANGED <<queue, mux>>
    BY <1>4, <1>5, Empty
<1>6. CASE /\ dst \notin task[n].finished /\ x \in Muxers /\ Waiting(x) /\ Done(n, then)
           /\ mux' = [mux EXCEPT ![x].pre[i] = Append(@, t)] /\ UNCHANGED queue
    <2> HIDE DEF x, i
    <2>1. task[n] \in TaskT(n) /\ DOMAIN task = Nodes
        BY <1>1 DEF TypeInv, TaskTyped
    <2>2. {} \in SUBSET Range(Dsts(n))
        OBVIOUS
    <2> DEFINE todo == then \o Tail(task[n].todo)
    <2>3. task' = [task EXCEPT ![n].todo = todo]
        BY <1>6 DEF Done
    <2> HIDE DEF todo
    <2>4. task' = [task EXCEPT ![n].todo = todo, ![n].finished = @ \cup {}]
        BY <2>1, <2>3 DEF TaskT
    <2>5. task' = [task EXCEPT ![n].todo = then \o Tail(@), ![n].finished = @ \cup {}]
        BY <2>4 DEF todo
    <2>6. QED
        BY <1>3, <1>6, <2>2, <2>5, OrderPutPre DEF x, i
<1>7. CASE End(n, TRUE) /\ UNCHANGED mux
    <2>1. \A k \in Nodes : Carries(k)
        BY <1>1, <1>7, EndCarries
    <2>2. \A k \in Receivers : queue'[k].items = queue[k].items
        BY <1>1, <1>7 DEF End, TypeInv, QueueTyped, QueueT
    <2>3. QED
        BY <1>7, <2>1, <2>2, ThreadKeeps
<1>8. CASE /\ dst \notin task[n].finished /\ (x \in Muxers => ~Waiting(x))
           /\ graph.kind[x] = "enc" => StreamOf(x)[2] \in mux[StreamOf(x)[1]].ready
           /\ queue' = Put(x, i, t) /\ Done(n, then) /\ UNCHANGED mux
    <2>1. graph.kind[dst[1]] = "enc" => Opened(mux, dst[1])
        BY <1>8 DEF Opened
    <2>2. QED
        BY <1>3, <1>8, <2>1, OrderPut
<1>9. CASE Done(n, <<Finish(dst)>>) /\ UNCHANGED <<queue, mux>>
    <2>1. Finish(dst) \in Jobs(n) /\ Finish(dst).do = "finish"
        BY <1>1, JobTypes DEF Finish, Job, NoTime
    <2>2. <<Finish(dst)>> \in Seq(Jobs(n)) /\ \A job \in Range(<<Finish(dst)>>) : job.do # "send"
        BY <2>1, Single
    <2>3. QED
        BY <1>4, <1>9, <2>2
<1>10. QED
    BY <1>5, <1>6, <1>7, <1>8, <1>9 DEF Send, then

(* An encoder has one input and one stream, and no other has this stream.  *)
LEMMA OneEncoder ==
  ASSUME GraphIs, NEW n \in Nodes, NEW dst \in Range(Dsts(n)), NEW x \in Nodes, NEW d \in Range(Dsts(x)),
         dst[1] \in OfKind("enc"), d[1] \in OfKind("enc"), StreamOf(dst[1]) = StreamOf(d[1])
  PROVE  dst = d /\ n = x
<1>1. /\ StreamOf(dst[1]) \in Range(Dsts(dst[1])) /\ StreamOf(d[1]) \in Range(Dsts(d[1]))
      /\ dst[1] \in Nodes /\ d[1] \in Nodes
    BY EncoderFacts
<1>2. SrcOf(StreamOf(dst[1])) = dst[1] /\ SrcOf(StreamOf(d[1])) = d[1]
    BY <1>1, DestFacts
<1>3. dst[1] = d[1]
    BY <1>2
<1>4. graph.kind[dst[1]] = "enc" /\ graph.kind[d[1]] = "enc"
    BY NodeFacts
<1>5. dst[2] = 1 /\ d[2] = 1 /\ dst = <<dst[1], dst[2]>> /\ d = <<d[1], d[2]>>
    BY <1>4, DestFacts
<1>6. dst = d
    BY <1>3, <1>5
<1>7. SrcOf(dst) = n /\ SrcOf(d) = x
    BY DestFacts
<1>8. QED
    BY <1>6, <1>7

(* The frame that has opened the encoder is still to be sent.              *)
LEMMA FrameCarries ==
  ASSUME TypeInv, NEW n \in Nodes, task[n].todo # <<>>, NEW jobs \in Seq(Jobs(n)),
         \A job \in Range(jobs) : job.do # "send",
         Done(n, jobs \o <<Head(task[n].todo)>>)
  PROVE  \A x \in Nodes : Carries(x)
<1> DEFINE s == task[n].todo
           js == jobs \o <<Head(s)>>
           r == js \o Tail(s)
<1>1. s \in Seq(Jobs(n)) /\ task[n] \in TaskT(n) /\ DOMAIN task = Nodes
    BY DEF TypeInv, TaskTyped, TaskT
<1>2. /\ task'[n].todo = r /\ task'[n].finished = task[n].finished
      /\ task'[n].at = task[n].at /\ task'[n].pos = task[n].pos
      /\ \A x \in Nodes \ {n} : task'[x] = task[x]
    <2>1. task' = [task EXCEPT ![n].todo = r]
        BY DEF Done
    <2> HIDE DEF r
    <2>2. QED
        BY <1>1, <2>1 DEF TaskT
<1>3. s # <<>>
    OBVIOUS
<1> HIDE DEF s
<1>4. /\ Tail(s) \in Seq(Jobs(n)) /\ Len(Tail(s)) = Len(s) - 1 /\ Len(s) \in Nat
      /\ \A k \in 1 .. Len(Tail(s)) : Tail(s)[k] = s[k + 1]
      /\ Head(s) = s[1] /\ Head(s) \in Jobs(n) /\ Len(s) >= 1
    BY <1>1, <1>3, HeadTailProperties
<1>5. <<Head(s)>> \in Seq(Jobs(n)) /\ Len(<<Head(s)>>) = 1 /\ <<Head(s)>>[1] = s[1]
    BY <1>4
<1>6. /\ js \in Seq(Jobs(n)) /\ Len(js) = Len(jobs) + 1 /\ Len(jobs) \in Nat
      /\ \A k \in 1 .. Len(jobs) + 1 : js[k] = IF k <= Len(jobs) THEN jobs[k] ELSE <<Head(s)>>[k - Len(jobs)]
    BY <1>5, ConcatProperties
<1> HIDE DEF js
<1>7. /\ r \in Seq(Jobs(n)) /\ Len(r) = Len(js) + Len(Tail(s))
      /\ \A k \in 1 .. Len(js) + Len(Tail(s)) : r[k] = IF k <= Len(js) THEN js[k] ELSE Tail(s)[k - Len(js)]
    BY <1>4, <1>6, ConcatProperties, ZenonT(30)
<1> HIDE DEF r
<1>8. ASSUME NEW k \in DOMAIN r, r[k].do = "send"
      PROVE  k + (0 - Len(jobs)) \in DOMAIN s /\ s[k + (0 - Len(jobs))] = r[k]
    <2>1. k \in 1 .. Len(js) + Len(Tail(s)) /\ DOMAIN s = 1 .. Len(s)
        BY <1>1, <1>7
    <2>2. ~(k <= Len(jobs))
        <3>1. ASSUME k <= Len(jobs) PROVE FALSE
            <4>1. k \in 1 .. Len(js) + Len(Tail(s)) /\ k <= Len(js) /\ k \in 1 .. Len(jobs) + 1 /\ k \in 1 .. Len(jobs)
                <5>1. Len(js) = Len(jobs) + 1 /\ Len(jobs) \in Nat /\ Len(Tail(s)) \in Nat
                    BY <1>4, <1>6
                <5>2. k \in Int /\ 1 <= k
                    BY <2>1, <5>1
                <5>3. k \in 1 .. Len(jobs)
                    BY <3>1, <5>1, <5>2
                <5>4. k <= Len(js) /\ k \in 1 .. Len(jobs) + 1
                    BY <3>1, <5>1, <5>2
                <5>5. QED
                    BY <2>1, <5>3, <5>4
            <4>4. r[k] = js[k] /\ js[k] = jobs[k]
                BY <1>6, <1>7, <3>1, <4>1
            <4>5. DOMAIN jobs = 1 .. Len(jobs)
                OBVIOUS
            <4>6. r[k] = jobs[k] /\ k \in DOMAIN jobs
                BY <4>1, <4>4, <4>5
            <4>2. r[k] \in Range(jobs)
                BY <4>6 DEF Range
            <4>3. QED
                BY <1>8, <4>2
        <3>2. QED
            BY <3>1
    <2>3. CASE k = Len(jobs) + 1
        <3>0. k <= Len(js) /\ k \in 1 .. Len(jobs) + 1
            BY <1>6, <2>3
        <3>1. r[k] = js[k]
            BY <1>7, <2>1, <3>0
        <3>2. js[k] = <<Head(s)>>[k - Len(jobs)] /\ k - Len(jobs) = 1
            BY <1>6, <2>3, <3>0
        <3>3. r[k] = s[1] /\ k + (0 - Len(jobs)) = 1
            BY <1>5, <1>6, <2>3, <3>1, <3>2
        <3>4. QED
            BY <1>4, <2>1, <3>3
    <2>4. CASE k # Len(jobs) + 1
        <3>1. ~(k <= Len(js)) /\ k - Len(js) \in 1 .. Len(Tail(s))
            BY <1>4, <1>6, <2>1, <2>2, <2>4
        <3>2. r[k] = Tail(s)[k - Len(js)]
            BY <1>7, <2>1, <3>1
        <3>3. r[k] = s[k - Len(js) + 1]
            BY <1>4, <3>1, <3>2
        <3>4. k - Len(js) + 1 = k + (0 - Len(jobs)) /\ k + (0 - Len(jobs)) \in 1 .. Len(s)
            BY <1>4, <1>6, <2>1, <3>1
        <3>5. QED
            BY <2>1, <3>3, <3>4
    <2>5. QED
        BY <2>3, <2>4
<1>9. 0 - Len(jobs) \in Int
    BY <1>6
<1>10. TodoKeeps(n, 0 - Len(jobs))
    BY <1>2, <1>8 DEF TodoKeeps, s
<1>11. GoesOn(n)
    <2>1. task[n].pos \in Int
        BY <1>1 DEF TaskT, Positions
    <2>2. QED
        BY <1>2, <2>1 DEF GoesOn, Going
<1>12. Carries(n)
    BY <1>2, <1>9, <1>10, <1>11 DEF Carries
<1>13. QED
    BY <1>2, <1>12, StillCarries

(* Opening an encoder, which may start a muxer, keeps the order. *)
LEMMA OrderOpen ==
  ASSUME OrderInv, TypeInv', UNCHANGED <<graph, fgt>>, NEW n \in Nodes, NEW dst \in Range(Dsts(n)),
         NEW t \in Int, task[n].todo # <<>>, Head(task[n].todo) = Job("send", dst, t), OpenEncoder(n, dst, t)
  PROVE  OrderNext
<1> DEFINE m == StreamOf(dst[1])[1]
           i == StreamOf(dst[1])[2]
           start == mux[m].ready \cup {i} = Inputs(m)
           flush == IF start THEN <<Job("flush", <<m, 0>>, NoTime)>> ELSE <<>>
           frame == IF t = NoTime THEN <<>> ELSE <<Job("send", dst, t)>>
<1>1. TypeInv /\ GraphIs
    BY DEF OrderInv, TypeInv
<1>2. dst[1] \in OfKind("enc")
    BY <1>1, DestIs, NodeFacts DEF OpenEncoder, Receivers
<1>3. m \in Muxers /\ i \in Inputs(m) /\ StreamOf(dst[1]) = <<m, i>>
    BY <1>1, <1>2, EncoderFacts
<1>4. /\ mux' = [mux EXCEPT ![m].ready = @ \cup {i}, ![m].state = IF start THEN "flushing" ELSE @]
      /\ Done(n, flush \o frame) /\ dst \notin task[n].finished /\ UNCHANGED queue
    BY DEF OpenEncoder
<1>5. flush \in Seq(Jobs(n)) /\ \A job \in Range(flush) : job.do # "send"
    <2>1. CASE start
        <3>1. Job("flush", <<m, 0>>, NoTime) \in Jobs(n)
            BY <1>1, <1>3, JobTypes
        <3>2. Job("flush", <<m, 0>>, NoTime).do = "flush"
            BY DEF Job
        <3>3. QED
            BY <2>1, <3>1, <3>2, Single
    <2>2. CASE ~start
        BY <2>2, Empty
    <2>3. QED
        BY <2>1, <2>2
<1>6. /\ mux'[m].ready = mux[m].ready \cup {i} /\ mux'[m].state \in {mux[m].state, "flushing"}
      /\ mux'[m].pre = mux[m].pre /\ mux'[m].written = mux[m].written
      /\ \A k \in Muxers \ {m} : mux'[k] = mux[k]
    <2> HIDE DEF m, i, start
    <2>1. mux[m] \in MuxT(m) /\ DOMAIN mux = Muxers
        BY <1>1, <1>3 DEF TypeInv, MuxTyped
    <2>2. QED
        BY <1>3, <1>4, <2>1 DEF MuxT
<1> HIDE DEF flush
<1>7. /\ \A k \in Nodes : Carries(k)
      /\ t = NoTime => \E c \in Int : TodoKeeps(n, c) /\
                         \A k \in DOMAIN task'[n].todo : task'[n].todo[k].do = "send" => 1 < k + c
    <2>1. CASE t = NoTime
        <3>1. flush \o frame = flush
            BY <1>5, <2>1, ConcatEmptySeq
        <3>2. Done(n, flush)
            BY <1>4, <3>1
        <3>3. QED
            BY <1>1, <1>5, <3>2, JobCarries
    <2>2. CASE t # NoTime
        <3>1. frame = <<Head(task[n].todo)>>
            BY <2>2
        <3>2. Done(n, flush \o <<Head(task[n].todo)>>)
            BY <1>4, <3>1
        <3>3. QED
            BY <1>1, <1>5, <2>2, <3>2, FrameCarries
    <2>3. QED
        BY <2>1, <2>2
<1> HIDE DEF frame
<1>8. ASSUME NEW x \in Nodes, NEW d \in Range(Dsts(x)), d[1] \in OfKind("enc"), Opened(mux', d[1])
      PROVE  Opened(mux, d[1]) \/ (d = dst /\ x = n)
    <2>1. StreamOf(d[1])[1] \in Muxers /\ StreamOf(d[1]) = <<StreamOf(d[1])[1], StreamOf(d[1])[2]>>
        BY <1>1, <1>8, EncoderFacts
    <2>2. CASE StreamOf(d[1]) = StreamOf(dst[1])
        BY <1>1, <1>2, <1>8, <2>2, OneEncoder
    <2>3. CASE StreamOf(d[1]) # StreamOf(dst[1])
        <3>1. StreamOf(d[1])[1] # m \/ StreamOf(d[1])[2] # i
            BY <1>3, <2>1, <2>3
        <3>2. Opened(mux, d[1])
            BY <1>6, <1>8, <2>1, <3>1 DEF Opened
        <3>3. QED
            BY <3>2
    <2>4. QED
        BY <2>2, <2>3
<1> HIDE DEF m, i, start
<1>9. Ordered(queue', mux', task', fgt')
    <2>1. ASSUME NEW d \in Dests PROVE Carried(d)
        <3>1. queue'[d[1]].items = queue[d[1]].items
            BY <1>4
        <3>2. d[1] \in Muxers => /\ mux'[d[1]].written[d[2]] = mux[d[1]].written[d[2]]
                                 /\ mux'[d[1]].pre[d[2]] = mux[d[1]].pre[d[2]]
            BY <1>6
        <3>3. QED
            BY <1>1, <1>7, <3>1, <3>2, StillCarried
    <2>2. TaskTyped(task') /\ \A k \in Nodes : GoesOn(k)
        BY <1>7, TypedAfter DEF Carries
    <2>3. QED
        BY <1>1, <2>1, <2>2, CalmStep DEF OrderInv
<1>10. Distinct(task) /\ Empties(mux, task) /\ Idle(mux, task, fgt) /\ Flushed(mux) /\ Filters \subseteq Nodes
    BY <1>1, NodeFacts DEF OrderInv, Opening
<1>11. /\ task[n].todo \in Seq(Jobs(n)) /\ 1 \in DOMAIN task[n].todo
       /\ task[n].todo[1] = Job("send", dst, t)
       /\ Job("send", dst, t).do = "send" /\ Job("send", dst, t).dst = dst /\ Job("send", dst, t).t = t
    <2>1. task[n].todo \in Seq(Jobs(n))
        BY <1>1, JobIs
    <2>2. QED
        BY <2>1 DEF Job
<1>12. Distinct(task')
    <2>1. SUFFICES ASSUME NEW x \in Nodes, NEW p \in DOMAIN task'[x].todo, NEW q \in DOMAIN task'[x].todo,
                          task'[x].todo[p].do = "send", task'[x].todo[q].do = "send",
                          task'[x].todo[p].dst = task'[x].todo[q].dst
                   PROVE  p = q
        BY Zenon DEF Distinct
    <2>2. PICK c \in Int : TodoKeeps(x, c)
        BY <1>7 DEF Carries
    <2>3. /\ p + c \in DOMAIN task[x].todo /\ task[x].todo[p + c] = task'[x].todo[p]
          /\ q + c \in DOMAIN task[x].todo /\ task[x].todo[q + c] = task'[x].todo[q]
        BY <2>1, <2>2 DEF TodoKeeps
    <2>4. p + c = q + c
        BY <1>10, <2>1, <2>3, Zenon DEF Distinct
    <2>5. p \in Int /\ q \in Int
        <3>1. task'[x].todo \in Seq(Jobs(x))
            BY TypedAfter DEF TaskTyped, TaskT
        <3>2. QED
            BY <2>1, <3>1
    <2>6. QED
        BY <2>4, <2>5
<1>13. Empties(mux', task')
    <2>1. SUFFICES ASSUME NEW x \in Nodes, NEW p \in DOMAIN task'[x].todo,
                          task'[x].todo[p].do = "send", task'[x].todo[p].t = NoTime,
                          task'[x].todo[p].dst \notin task'[x].finished
                   PROVE  x \in Filters /\ ~Opened(mux', task'[x].todo[p].dst[1])
        BY DEF Empties
    <2>2. PICK c \in Int : TodoKeeps(x, c) /\ ((x = n /\ t = NoTime) =>
                             \A k \in DOMAIN task'[n].todo : task'[n].todo[k].do = "send" => 1 < k + c)
        BY <1>7 DEF Carries
    <2>3. /\ p + c \in DOMAIN task[x].todo /\ task[x].todo[p + c] = task'[x].todo[p]
          /\ task'[x].todo[p].dst \notin task[x].finished
        BY <2>1, <2>2 DEF TodoKeeps
    <2> DEFINE d == task'[x].todo[p].dst
    <2>4. x \in Filters /\ ~Opened(mux, d[1])
        BY <1>10, <2>1, <2>3 DEF Empties
    <2>5. d \in Range(Dsts(x))
        <3>1. task[x].todo \in Seq(Jobs(x))
            BY <1>1 DEF TypeInv, TaskTyped, TaskT
        <3>2. task[x].todo[p + c] \in Jobs(x)
            BY <2>3, <3>1
        <3>3. QED
            BY <2>1, <2>3, <3>2 DEF Jobs
    <2>6. d[1] \in OfKind("enc")
        BY <1>1, <2>4, <2>5, WayFacts
    <2> HIDE DEF d
    <2>7. ASSUME Opened(mux', d[1]) PROVE FALSE
        <3>1. d = dst /\ x = n
            BY <1>8, <2>4, <2>5, <2>6, <2>7
        <3>2. p + c = 1
            BY <1>10, <1>11, <2>1, <2>3, <3>1, Zenon DEF Distinct, d
        <3>3. t = NoTime
            BY <1>11, <2>1, <2>3, <3>1, <3>2
        <3>4. 1 < p + c
            BY <2>1, <2>2, <3>1, <3>3
        <3>5. QED
            BY <3>2, <3>4
    <2>8. QED
        BY <2>4, <2>7 DEF d
<1>14. Idle(mux', task', fgt')
    <2>1. SUFFICES ASSUME NEW f \in Filters, ~fgt'[f].got, ~Leaves(task'[f].at)
                   PROVE  /\ \A p \in DOMAIN task'[f].todo : task'[f].todo[p].do # "send"
                          /\ \A d \in Range(Dsts(f)) : ~Opened(mux', d[1])
        BY DEF Idle, Leaves
    <2>2. ~fgt[f].got /\ ~Leaves(task[f].at) /\ f \in Nodes
        BY <1>7, <1>10, <2>1 DEF Carries
    <2>3. /\ \A p \in DOMAIN task[f].todo : task[f].todo[p].do # "send"
          /\ \A d \in Range(Dsts(f)) : ~Opened(mux, d[1])
        BY <1>10, <2>2 DEF Idle, Leaves
    <2>4. PICK c \in Int : TodoKeeps(f, c)
        BY <1>7, <2>2 DEF Carries
    <2>5. f # n
        BY <1>11, <2>3
    <2>6. ASSUME NEW d \in Range(Dsts(f)) PROVE ~Opened(mux', d[1])
        <3>1. d[1] \in OfKind("enc")
            BY <1>1, <2>2, WayFacts
        <3>2. QED
            BY <1>8, <2>2, <2>3, <2>5, <3>1
    <2>7. QED
        BY <2>3, <2>4, <2>6 DEF TodoKeeps
<1>15. Flushed(mux')
    BY <1>6, <1>10 DEF Flushed
<1>16. QED
    BY <1>9, <1>12, <1>13, <1>14, <1>15 DEF OrderNext, Opening

(* What is put into a queue, and its end, leave the other queues alone.    *)
LEMMA OtherItems ==
  ASSUME QueueTyped(queue), NEW m \in Receivers, NEW i
  PROVE  /\ queue' = SendFinished(m, i) => \A k \in Receivers : queue'[k].items = queue[k].items
         /\ \A t : queue' = Put(m, i, t) => \A k \in Receivers \ {m} : queue'[k] = queue[k]
<1>1. DOMAIN queue = Receivers /\ queue[m] \in QueueT(m)
    BY DEF QueueTyped
<1>2. ASSUME queue' = SendFinished(m, i) PROVE \A k \in Receivers : queue'[k].items = queue[k].items
    BY <1>1, <1>2 DEF SendFinished, QueueT
<1>3. QED
    BY <1>1, <1>2 DEF Put

(* The muxer starts: what waited for it goes into its queue.               *)
LEMMA OrderFlushOne ==
  ASSUME OrderInv, TypeInv', UNCHANGED <<graph, fgt, task>>, NEW m \in Muxers, NEW i \in Inputs(m),
         mux[m].pre[i] # <<>>, mux' = [mux EXCEPT ![m].pre[i] = Tail(@)],
         queue' = IF Head(mux[m].pre[i]) = EofFrame THEN SendFinished(m, i)
                  ELSE IF i \in queue[m].closed THEN queue ELSE Put(m, i, Head(mux[m].pre[i]))
  PROVE  OrderNext
<1> DEFINE s == mux[m].pre[i]
           r == Tail(s)
           t == Head(s)
           dst == <<m, i>>
           l == Len(queue[m].items)
<1>1. TypeInv /\ GraphIs /\ QueueTyped(queue) /\ MuxTyped(mux)
    BY DEF OrderInv, TypeInv
<1>2. m \in Nodes /\ m \in Receivers
    BY <1>1, NodeFacts
<1>3. dst \in Dests /\ dst[1] = m /\ dst[2] = i
    BY <1>1, <1>2, InputFacts
<1>4. s \in Seq(Int) /\ s # <<>> /\ mux[m] \in MuxT(m)
    BY <1>1, MuxIs
<1> HIDE DEF s
<1>5. /\ t \in Int /\ t = s[1] /\ r \in Seq(Int) /\ Len(r) = Len(s) - 1 /\ Len(s) \in Nat /\ Len(s) >= 1
      /\ \A k \in 1 .. Len(r) : r[k] = s[k + 1]
    BY <1>4, HeadTailProperties
<1>6. /\ mux'[m].pre[i] = r /\ mux'[m].state = mux[m].state /\ mux'[m].written = mux[m].written
      /\ mux'[m].ready = mux[m].ready /\ \A j \in Inputs(m) \ {i} : mux'[m].pre[j] = mux[m].pre[j]
      /\ \A k \in Muxers \ {m} : mux'[k] = mux[k]
    <2>1. mux' = [mux EXCEPT ![m].pre[i] = r]
        BY DEF s
    <2> HIDE DEF r
    <2>2. DOMAIN mux = Muxers
        BY <1>1 DEF MuxTyped
    <2>3. QED
        BY <1>4, <2>1, <2>2 DEF MuxT
<1>7. queue' = IF t = EofFrame THEN SendFinished(m, i) ELSE IF i \in queue[m].closed THEN queue ELSE Put(m, i, t)
    BY DEF s
<1> HIDE DEF r, t
<1>8. \A k \in DOMAIN r : k + 1 \in DOMAIN s /\ s[k + 1] = r[k] /\ 1 <= k
    <2>1. DOMAIN r = 1 .. Len(s) - 1 /\ DOMAIN s = 1 .. Len(s)
        BY <1>4, <1>5
    <2>2. ASSUME NEW k \in DOMAIN r PROVE k + 1 \in DOMAIN s /\ s[k + 1] = r[k] /\ 1 <= k
        <3>1. k \in Int /\ 1 <= k /\ k <= Len(s) - 1
            BY <1>5, <2>1
        <3>2. k \in 1 .. Len(r)
            BY <1>5, <2>1
        <3>3. QED
            BY <1>5, <2>1, <3>1, <3>2
    <2>3. QED
        BY <2>2
<1> HIDE DEF dst, l
<1>9. \A k \in Nodes : Carries(k) /\ TodoKeeps(k, 0) /\ TodoBy(k, 0)
    BY <1>1, StillCarries, KeepsBy
<1>10. SrcOf(dst) \in Nodes
    BY <1>1, <1>3, SourceOfDest
<1>11. \A y : WrittenBy(dst, y)
    BY <1>3, <1>6 DEF WrittenBy
<1>12. \A y : PreBy(dst, y, 1)
    BY <1>3, <1>6, <1>8 DEF PreBy, s
<1>13. Carried(dst)
    <2>1. CASE t # EofFrame /\ i \notin queue[m].closed
        <3>1. queue' = Put(m, i, t)
            BY <1>7, <2>1
        <3>2. queue' = Put(dst[1], i, t)
            BY <1>3, <3>1, SMTT(30)
        <3>3. Len(queue[dst[1]].items) \in Nat
            BY <1>1, <1>3, <3>2, PutBy, ZenonT(30)
        <3>4. \A k \in DOMAIN queue'[dst[1]].items : k <= Len(queue[dst[1]].items) + 1
            BY <1>1, <1>3, <3>2, PutBy, ZenonT(30)
        <3>5. queue'[dst[1]].items[Len(queue[dst[1]].items) + 1] = <<i, t>>
            BY <1>1, <1>3, <3>2, PutBy, ZenonT(30)
        <3>6. QueueBy(dst, <<2, Len(queue[dst[1]].items) + 1>>, 0)
            BY <1>1, <1>3, <3>2, PutBy, ZenonT(30)
        <3>7. /\ l \in Nat /\ \A k \in DOMAIN queue'[dst[1]].items : k <= l + 1
              /\ queue'[dst[1]].items[l + 1] = <<dst[2], t>>
              /\ QueueBy(dst, <<2, l + 1>>, 0)
            BY <1>3, <3>3, <3>4, <3>5, <3>6, ZenonT(30) DEF l
        <3>8. MovesBy(dst, <<2, l + 1>>, 0, 1, 0)
            BY <1>9, <1>10, <1>11, <1>12, <3>7, Zenon DEF MovesBy
        <3>9. HasNow(dst, <<3, 1>>, t)
            <4>1. <<3, 1>>[1] = 3 /\ <<3, 1>>[2] = 1 /\ 1 \in DOMAIN s
                BY <1>4, <1>5
            <4>2. QED
                BY <1>3, <1>5, <2>1, <4>1 DEF HasNow, Has, s
        <3>10. \A k \in DOMAIN mux'[dst[1]].pre[dst[2]] : 1 <= k
            BY <1>3, <1>6, <1>8
        <3>11. QED
            BY <1>5, <3>7, <3>8, <3>9, <3>10, FlushMove, Zenon
    <2>2. CASE ~(t # EofFrame /\ i \notin queue[m].closed)
        <3>1. queue'[dst[1]].items = queue[dst[1]].items
            <4>1. queue' = SendFinished(m, i) \/ queue' = queue
                BY <1>7, <2>2, SMTT(30)
            <4>2. QED
                BY <1>1, <1>2, <1>3, <4>1, OtherItems
        <3>2. QueueBy(dst, None, 0)
            BY <1>1, <1>3, <3>1, QueueStill
        <3>3. MovesBy(dst, None, 0, 1, 0)
            BY <1>9, <1>10, <1>11, <1>12, <3>2 DEF MovesBy
        <3>4. QED
            BY <3>3, 0 \in Int, 1 \in Int, QuietMove
    <2>3. QED
        BY <2>1, <2>2, SMTT(30)
<1>14. ASSUME NEW d \in Dests, d # dst PROVE Carried(d)
    <2>1. d = <<d[1], d[2]>> /\ d[1] \in Receivers /\ d[2] \in Inputs(d[1]) /\ SrcOf(d) \in Nodes
        BY <1>1, SourceOfDest, DestFacts, WayFacts
    <2>2. d[1] # m \/ d[2] # i
        BY <1>14, <2>1 DEF dst
    <2>3. d[1] \in Muxers => /\ mux'[d[1]].written[d[2]] = mux[d[1]].written[d[2]]
                             /\ mux'[d[1]].pre[d[2]] = mux[d[1]].pre[d[2]]
        BY <1>6, <2>1, <2>2
    <2>4. CASE queue' = Put(m, i, t) /\ d[1] = m
        <3>1. QueueBy(d, None, 0)
            BY <1>1, <2>2, <2>4, PutBy, Zenon
        <3>2. WrittenBy(d, None) /\ PreBy(d, None, 0)
            BY <1>1, <2>3, MuxStill
        <3>3. MovesBy(d, None, 0, 0, 0)
            BY <1>9, <2>1, <3>1, <3>2, SMTT(30) DEF MovesBy
        <3>4. QED
            BY <3>3, 0 \in Int, QuietMove, Zenon
    <2>5. CASE ~(queue' = Put(m, i, t) /\ d[1] = m)
        <3>1. queue'[d[1]].items = queue[d[1]].items
            BY <1>1, <1>2, <1>7, <2>1, <2>5, OtherItems
        <3>2. QED
            BY <1>1, <1>9, <2>3, <3>1, StillCarried, Zenon
    <2>6. QED
        BY <2>4, <2>5
<1>15. Flushed(mux')
    <2>1. mux[m].state # "started"
        BY <1>4 DEF OrderInv, Opening, Flushed, s
    <2>2. QED
        BY <1>6, <2>1 DEF OrderInv, Opening, Flushed
<1>16. \A k \in Muxers : mux'[k].ready = mux[k].ready
    BY <1>6
<1>17. QED
    BY <1>9, <1>13, <1>14, <1>15, <1>16, CalmKeeps

(* Sending on a packet of a pre-mux queue keeps the order. *)
LEMMA OrderFlush ==
  ASSUME OrderInv, TypeInv', UNCHANGED <<graph, fgt>>, NEW n \in Nodes, task[n].todo # <<>>,
         NEW m \in Muxers, Flush(n, m)
  PROVE  OrderNext
<1>1. TypeInv /\ GraphIs /\ MuxTyped(mux)
    BY DEF OrderInv, TypeInv
<1>2. CASE \A j \in Inputs(m) : mux[m].pre[j] = <<>>
    <2>1. mux' = [mux EXCEPT ![m].state = "started"] /\ Done(n, <<>>) /\ UNCHANGED queue
        BY <1>2 DEF Flush
    <2>2. \A k \in Nodes : Carries(k)
        BY <1>1, <2>1, JobCarries, Empty
    <2>3. /\ mux'[m].pre = mux[m].pre /\ mux'[m].written = mux[m].written /\ mux'[m].ready = mux[m].ready
          /\ \A k \in Muxers \ {m} : mux'[k] = mux[k]
        BY <1>1, <2>1 DEF MuxTyped, MuxT
    <2>4. Flushed(mux')
        BY <1>2, <2>3 DEF OrderInv, Opening, Flushed
    <2>5. \A dst \in Dests : Carried(dst)
        <3>1. ASSUME NEW dst \in Dests PROVE Carried(dst)
            <4>1. dst[1] \in Muxers => /\ mux'[dst[1]].written[dst[2]] = mux[dst[1]].written[dst[2]]
                                       /\ mux'[dst[1]].pre[dst[2]] = mux[dst[1]].pre[dst[2]]
                BY <2>3
            <4>2. queue'[dst[1]].items = queue[dst[1]].items
                BY <2>1
            <4>3. QED
                BY <1>1, <2>2, <4>1, <4>2, StillCarried
        <3>2. QED
            BY <3>1
    <2>6. \A k \in Muxers : mux'[k].ready = mux[k].ready
        BY <2>3
    <2>7. QED
        BY <2>2, <2>4, <2>5, <2>6, CalmKeeps
<1>3. CASE ~(\A j \in Inputs(m) : mux[m].pre[j] = <<>>)
    <2>1. NextPre(m) \in Inputs(m) /\ mux[m].pre[NextPre(m)] # <<>>
        BY <1>1, <1>3, NextPreIs
    <2> DEFINE i == NextPre(m)
    <2>2. /\ mux' = [mux EXCEPT ![m].pre[i] = Tail(@)]
          /\ queue' = IF Head(mux[m].pre[i]) = EofFrame THEN SendFinished(m, i)
                      ELSE IF i \in queue[m].closed THEN queue ELSE Put(m, i, Head(mux[m].pre[i]))
          /\ UNCHANGED task
        BY <1>3 DEF Flush
    <2> HIDE DEF i
    <2>3. i \in Inputs(m) /\ mux[m].pre[i] # <<>>
        BY <2>1, SMTT(30) DEF i
    <2>4. QED
        BY <2>2, <2>3, OrderFlushOne
<1>4. QED
    BY <1>2, <1>3

(* A destination gets no more.                                             *)
LEMMA OrderFinish ==
  ASSUME OrderInv, TypeInv', UNCHANGED <<graph, fgt>>, NEW n \in Nodes, task[n].todo # <<>>,
         NEW dst \in Range(Dsts(n)), FinishDst(n, dst)
  PROVE  OrderNext
<1> DEFINE x == dst[1]
           i == dst[2]
           jobs(js) == task' = [task EXCEPT ![n].todo = js \o Tail(@), ![n].finished = @ \cup {dst}]
           last == IF x \in Muxers THEN <<Report(dst, EofFrame)>> ELSE <<>>
<1>1. TypeInv /\ GraphIs /\ QueueTyped(queue) /\ {dst} \in SUBSET Range(Dsts(n))
    BY DEF OrderInv, TypeInv
<1>2. x \in Receivers /\ i \in Inputs(x) /\ (x \in Muxers => dst \in Streams)
    BY <1>1, DestIs
<1>3. <<>> \in Seq(Jobs(n)) /\ \A job \in Range(<<>>) : job.do # "send"
    BY Empty
<1>4. last \in Seq(Jobs(n)) /\ \A job \in Range(last) : job.do # "send"
    <2>1. CASE x \in Muxers
        <3>1. Report(dst, EofFrame) \in Jobs(n) /\ Report(dst, EofFrame).do = "report"
            BY <1>1, <1>2, <2>1, JobTypes DEF Report, Job, EofFrame
        <3>2. QED
            BY <2>1, <3>1, Single
    <2>2. CASE x \notin Muxers
        BY <2>2, Empty
    <2>3. QED
        BY <2>1, <2>2
<1>5. CASE Done(n, <<>>) /\ UNCHANGED <<queue, mux>>
    <2>1. \A k \in Nodes : Carries(k)
        BY <1>1, <1>3, <1>5, JobCarries
    <2>2. QED
        BY <1>5, <2>1, ThreadKeeps
<1>6. CASE /\ dst \notin task[n].finished /\ x \in Muxers /\ Waiting(x)
           /\ mux' = [mux EXCEPT ![x].pre[i] = Append(@, EofFrame)]
           /\ jobs(<<Report(dst, EofFrame)>>) /\ UNCHANGED queue
    <2>1. last = <<Report(dst, EofFrame)>> /\ EofFrame \in Int
        BY <1>6 DEF EofFrame
    <2> HIDE DEF last
    <2>2. jobs(last)
        BY <1>6, <2>1
    <2>3. QED
        BY <1>1, <1>4, <1>6, <2>1, <2>2, OrderPutPre
<1>7. ASSUME NEW js \in Seq(Jobs(n)), \A job \in Range(js) : job.do # "send", jobs(js), UNCHANGED mux,
             \A k \in Receivers : queue'[k].items = queue[k].items
      PROVE  OrderNext
    <2>1. \A k \in Nodes : Carries(k)
        BY <1>1, <1>7, DoneCarries
    <2>2. QED
        BY <1>7, <2>1, ThreadKeeps
<1> HIDE DEF last
<1>8. CASE jobs(<<>>) /\ UNCHANGED <<queue, mux>>
    BY <1>3, <1>7, <1>8
<1>9. CASE queue' = SendFinished(x, i) /\ jobs(last) /\ UNCHANGED mux
    <2>1. \A k \in Receivers : queue'[k].items = queue[k].items
        BY <1>1, <1>2, <1>9, OtherItems
    <2>2. QED
        BY <1>4, <1>7, <1>9, <2>1
<1>10. QED
    BY <1>5, <1>6, <1>8, <1>9, Zenon DEF FinishDst, last

(* Reporting that a destination is done keeps the order. *)
LEMMA OrderReport ==
  ASSUME OrderInv, TypeInv', UNCHANGED <<graph, fgt>>, NEW n \in Nodes, task[n].todo # <<>>,
         NEW dst, NEW t, ReportDst(n, dst, t)
  PROVE  OrderNext
<1>1. TypeInv
    BY DEF OrderInv
<1>2. \A k \in Nodes : Carries(k)
    BY <1>1, Empty, JobCarries DEF ReportDst
<1>3. \A k \in Receivers : queue'[k].items = queue[k].items
    BY <1>1, TypesOf DEF ReportDst, QueueTyped, QueueT
<1>4. QED
    BY <1>2, <1>3, ThreadKeeps DEF ReportDst

(* The exit of a thread keeps the order. *)
LEMMA OrderExit ==
  ASSUME OrderInv, TypeInv', UNCHANGED <<graph, fgt>>, NEW n \in Nodes, ExitTask(n)
  PROVE  OrderNext
<1>1. TypeInv /\ task[n] \in TaskT(n) /\ DOMAIN task = Nodes
    BY DEF OrderInv, TypeInv, TaskTyped
<1>2. /\ task'[n].at = "ended" /\ task'[n].todo = <<>> /\ task'[n].finished = task[n].finished
      /\ task'[n].pos = task[n].pos /\ \A x \in Nodes \ {n} : task'[x] = task[x]
    BY <1>1 DEF ExitTask, Become, TaskT
<1>3. task[n].pos \in Int
    BY <1>1 DEF TaskT, Positions
<1>4. \A k \in Nodes : Carries(k)
    BY <1>1, <1>2, <1>3, Empty, BecomeCarries DEF Leaves
<1>5. \A k \in Receivers : queue'[k].items = queue[k].items
    BY <1>1, TypesOf DEF ExitTask, QueueTyped, QueueT
<1>6. QED
    BY <1>4, <1>5, ThreadKeeps DEF ExitTask

(* A filter graph that chokes its inputs keeps the order. *)
LEMMA OrderChoke ==
  ASSUME OrderInv, TypeInv', UNCHANGED <<graph, fgt>>, NEW n \in Nodes, task[n].todo # <<>>,
         ChokeInputs(n)
  PROVE  OrderNext
<1>1. \A k \in Nodes : Carries(k)
    BY Empty, JobCarries DEF ChokeInputs, OrderInv
<1>2. QED
    BY <1>1, ThreadKeeps DEF ChokeInputs

(* Every job keeps the order. *)
LEMMA OrderJob ==
  ASSUME OrderInv, TypeInv', NEW n \in Nodes, DoJob(n)
  PROVE  OrderNext
<1> DEFINE job == Head(task[n].todo)
<1>1. job \in Jobs(n) /\ task[n].todo # <<>> /\ UNCHANGED <<graph, fgt>>
    BY JobIs DEF DoJob, OrderInv
<1>2. /\ job.t \in Int
      /\ job.do \in {"send", "finish"} => job.dst \in Range(Dsts(n))
      /\ job.do = "flush" => job.dst[1] \in Muxers
      /\ job.do = "send" => job = Job("send", job.dst, job.t)
    <2> HIDE DEF job
    <2>2. QED
        BY <1>1 DEF Jobs, Job
<1>3. \/ job.do = "send" /\ (Send(n, job.dst, job.t) \/ OpenEncoder(n, job.dst, job.t))
      \/ job.do = "flush" /\ Flush(n, job.dst[1])
      \/ job.do = "finish" /\ FinishDst(n, job.dst)
      \/ job.do = "report" /\ ReportDst(n, job.dst, job.t)
      \/ job.do = "exit" /\ ExitTask(n)
      \/ ChokeInputs(n)
    BY DEF DoJob
<1>4. CASE job.do = "send" /\ Send(n, job.dst, job.t)
    BY <1>1, <1>2, <1>4, OrderSend
<1>5. CASE job.do = "send" /\ OpenEncoder(n, job.dst, job.t)
    BY <1>1, <1>2, <1>5, OrderOpen
<1>6. CASE job.do = "flush" /\ Flush(n, job.dst[1])
    BY <1>1, <1>2, <1>6, OrderFlush
<1>7. CASE job.do = "finish" /\ FinishDst(n, job.dst)
    BY <1>1, <1>2, <1>7, OrderFinish
<1>8. CASE job.do = "report" /\ ReportDst(n, job.dst, job.t)
    BY <1>1, <1>8, OrderReport
<1>9. CASE job.do = "exit" /\ ExitTask(n)
    BY <1>1, <1>9, OrderExit
<1>10. CASE ChokeInputs(n)
    BY <1>1, <1>10, OrderChoke
<1>11. QED
    BY <1>3, <1>4, <1>5, <1>6, <1>7, <1>8, <1>9, <1>10

-----------------------------------------------------------------------------
(* The threads keep the order: first what sends nothing.                   *)
LEMMA EmptiedItems ==
  ASSUME TypeInv, NEW n \in Receivers, queue' = Emptied(n) \/ UNCHANGED queue
  PROVE  \A k \in Receivers : queue'[k].items \in {queue[k].items, <<>>}
<1>1. DOMAIN queue = Receivers /\ queue[n] \in QueueT(n)
    BY DEF TypeInv, QueueTyped
<1>2. QED
    BY <1>1 DEF Emptied, QueueT

(* The end of a thread keeps the order. *)
LEMMA EndKeeps ==
  ASSUME OrderInv, TypeInv', UNCHANGED <<graph, fgt, mux>>, NEW n \in Nodes, NEW failed, End(n, failed)
  PROVE  OrderNext
<1>1. TypeInv /\ QueueTyped(queue)
    BY DEF OrderInv, TypeInv
<1>2. \A k \in Nodes : Carries(k)
    BY <1>1, EndCarries
<1>3. \A k \in Receivers : queue'[k].items = queue[k].items
    BY <1>1 DEF End, QueueTyped, QueueT
<1>4. QED
    BY <1>2, <1>3, ThreadKeeps

(* What is known of the task of a thread. *)
LEMMA TaskIs ==
  ASSUME TypeInv, NEW n \in Nodes
  PROVE  /\ task[n] \in TaskT(n) /\ DOMAIN task = Nodes /\ task[n].pos \in Nat \ {0}
         /\ task[n].finished \in SUBSET Range(Dsts(n)) /\ task[n].todo \in Seq(Jobs(n))
BY DEF TypeInv, TaskTyped, TaskT, Positions

(* What Become changes and what it leaves. *)
LEMMA BecomeIs ==
  ASSUME TypeInv, NEW n \in Nodes, NEW at, NEW jobs, task' = Become(n, at, jobs)
  PROVE  /\ task'[n].at = at /\ task'[n].todo = jobs /\ task'[n].finished = task[n].finished
         /\ task'[n].pos = task[n].pos /\ \A x \in Nodes \ {n} : task'[x] = task[x]
BY TaskIs DEF Become, TaskT

(* A thread that takes up jobs that send nothing carries on. *)
LEMMA BecomeMoves ==
  ASSUME TypeInv, NEW n \in Nodes, NEW at, NEW jobs, \A job \in Range(jobs) : job.do # "send",
         task' = Become(n, at, jobs), Going(task, n)
  PROVE  \A k \in Nodes : Carries(k)
<1>1. /\ task'[n].at = at /\ task'[n].todo = jobs /\ task'[n].finished = task[n].finished
      /\ task'[n].pos = task[n].pos /\ \A x \in Nodes \ {n} : task'[x] = task[x]
    BY BecomeIs
<1>2. task[n].pos \in Int
    BY TaskIs
<1>3. ~Leaves(task[n].at)
    BY DEF Going, Leaves
<1>4. QED
    BY <1>1, <1>2, <1>3, BecomeCarries

(* Taking up jobs that send nothing keeps the order. *)
LEMMA BecomeKeeps ==
  ASSUME OrderInv, TypeInv', UNCHANGED <<graph, fgt, mux>>, NEW n \in Nodes, NEW at, NEW jobs,
         \A job \in Range(jobs) : job.do # "send", task' = Become(n, at, jobs), Going(task, n),
         \A k \in Receivers : queue'[k].items \in {queue[k].items, <<>>}
  PROVE  OrderNext
<1>1. \A k \in Nodes : Carries(k)
    BY BecomeMoves DEF OrderInv
<1>2. QED
    BY <1>1, ThreadKeeps

(* WaiterWait keeps the order. *)
LEMMA OrderWait ==
  ASSUME OrderInv, TypeInv', NEW n \in Sources, WaiterWait(n)
  PROVE  OrderNext
<1>1. TypeInv /\ n \in Nodes /\ (n \in Filters => n \in Receivers)
    BY Kinds5 DEF OrderInv
<1>2. /\ Going(task, n) /\ task' = Become(n, "wait", <<>>) /\ UNCHANGED <<graph, fgt, mux>>
      /\ queue' = IF n \in Filters THEN Emptied(n) ELSE queue
    BY DEF WaiterWait, At, Going, others
<1>3. \A k \in Receivers : queue'[k].items \in {queue[k].items, <<>>}
    BY <1>1, <1>2, EmptiedItems
<1>4. QED
    BY <1>1, <1>2, <1>3, BecomeKeeps, Empty

(* MuxEof keeps the order. *)
LEMMA OrderMuxEof ==
  ASSUME OrderInv, TypeInv', NEW m \in Muxers, MuxEof(m)
  PROVE  OrderNext
<1>1. m \in Nodes
    BY Kinds5 DEF OrderInv
<1>2. End(m, FALSE) /\ UNCHANGED <<graph, fgt, mux>>
    BY DEF MuxEof, others
<1>3. QED
    BY <1>1, <1>2, EndKeeps

(* The failure of a thread keeps the order. *)
LEMMA OrderFail ==
  ASSUME OrderInv, TypeInv', NEW n \in Nodes, Fail(n)
  PROVE  OrderNext
<1>1. End(n, TRUE) /\ UNCHANGED <<graph, fgt, mux>>
    BY DEF Fail, others
<1>2. QED
    BY <1>1, EndKeeps

(* A step that only empties queues keeps the order. *)
LEMMA StandsStill ==
  ASSUME OrderInv, TypeInv', UNCHANGED <<graph, fgt, mux, task>>,
         \A k \in Receivers : queue'[k].items \in {queue[k].items, <<>>}
  PROVE  OrderNext
<1>1. \A k \in Nodes : Carries(k)
    BY StillCarries DEF OrderInv
<1>2. QED
    BY <1>1, ThreadKeeps

(* Discard keeps the order. *)
LEMMA OrderDiscard ==
  ASSUME OrderInv, TypeInv', NEW n \in Filters \cup Muxers, Discard(n)
  PROVE  OrderNext
<1>1. TypeInv /\ n \in Receivers
    BY Kinds5 DEF OrderInv
<1>2. queue' = Emptied(n) /\ UNCHANGED <<graph, fgt, mux, task>>
    BY DEF Discard, others
<1>3. QED
    BY <1>1, <1>2, EmptiedItems, StandsStill

(* A thread takes what it still wants from its queue.                      *)
LEMMA TakenItems ==
  ASSUME TypeInv, NEW n \in Receivers, Wanted(n) # {},
         \A k \in Receivers \ {n} : queue'[k] = queue[k],
         queue'[n].items = SubSeq(queue[n].items, First(n) + 1, Len(queue[n].items))
  PROVE  /\ First(n) \in Int /\ Item(n)[1] \in Inputs(n) /\ Item(n)[2] \in Int /\ <<n, Item(n)[1]>> \in Dests
         /\ HasNow(<<n, Item(n)[1]>>, <<2, First(n)>>, Item(n)[2])
         /\ \A k \in DOMAIN queue'[n].items : k \in Int /\ 1 <= k
         /\ \A dst : dst[1] = n => QueueBy(dst, None, First(n))
<1> DEFINE s == queue[n].items
           r == SubSeq(s, First(n) + 1, Len(s))
<1>1. QueueTyped(queue) /\ GraphIs /\ n \in Nodes
    BY Kinds5 DEF TypeInv
<1>2. s \in Seq(Inputs(n) \X Int)
    BY <1>1, QueueIs
<1>3. /\ First(n) \in 1 .. Len(s) /\ Item(n) = s[First(n)] /\ Item(n) = <<Item(n)[1], Item(n)[2]>>
      /\ Item(n)[1] \in Inputs(n) /\ Item(n)[2] \in Int
    BY <1>1, FirstWanted
<1>4. <<n, Item(n)[1]>> \in Dests
    BY <1>1, <1>3, InputFacts
<1>5. queue'[n].items = r
    OBVIOUS
<1> DEFINE f == First(n)
<1>6. f \in 1 .. Len(s)
    BY <1>3, SMTT(30)
<1> HIDE DEF s, f
<1>7. /\ Len(s) \in Nat /\ f \in Int /\ DOMAIN s = 1 .. Len(s)
      /\ DOMAIN SubSeq(s, f + 1, Len(s)) = 1 .. Len(s) - f
      /\ \A k \in 1 .. Len(s) - f : SubSeq(s, f + 1, Len(s))[k] = s[k + f]
    <2>1. Len(s) \in Nat /\ f \in Int /\ DOMAIN s = 1 .. Len(s)
        BY <1>2, <1>6
    <2> DEFINE q == SubSeq(s, f + 1, Len(s))
    <2>2. \A k \in f + 1 .. Len(s) : s[k] \in Inputs(n) \X Int
        BY <1>2, <1>6
    <2>3. /\ q \in Seq(Inputs(n) \X Int)
          /\ Len(q) = IF f + 1 <= Len(s) THEN Len(s) - (f + 1) + 1 ELSE 0
          /\ \A i \in 1 .. Len(s) - (f + 1) + 1 : q[i] = s[(f + 1) + i - 1]
        BY <1>2, <1>6, <2>1, <2>2, SubSeqProperties
    <2> HIDE DEF q
    <2>4. Len(q) = Len(s) - f /\ DOMAIN q = 1 .. Len(s) - f
        <3>1. f <= Len(s)
            BY <1>6, <2>1
        <3>2. Len(q) = IF f + 1 <= Len(s) THEN Len(s) - (f + 1) + 1 ELSE 0
            BY <2>3
        <3>6. Len(s) \in Int /\ f \in Int
            BY <2>1
        <3>7. Len(s) - (f + 1) + 1 = Len(s) - f /\ (~(f + 1 <= Len(s)) => Len(s) - f = 0)
            BY <3>1, <3>6
        <3>3. Len(q) = Len(s) - f
            BY <3>2, <3>7
        <3>4. DOMAIN q = 1 .. Len(q)
            BY <2>3
        <3>5. QED
            BY <3>3, <3>4
    <2>5. ASSUME NEW k \in 1 .. Len(s) - f PROVE q[k] = s[k + f]
        <3>1. k \in 1 .. Len(s) - (f + 1) + 1 /\ (f + 1) + k - 1 = k + f
            BY <2>1
        <3>2. QED
            BY <2>3, <3>1
    <2>6. QED
        BY <2>1, <2>4, <2>5 DEF q
<1>8. r = SubSeq(s, f + 1, Len(s))
    BY DEF f
<1> HIDE DEF r
<1>9. ASSUME NEW k \in DOMAIN r
      PROVE  k \in Int /\ 1 <= k /\ k + f \in DOMAIN s /\ s[k + f] = r[k]
    <2>1. k \in 1 .. Len(s) - f
        BY <1>7, <1>8
    <2>2. k + f \in 1 .. Len(s)
        BY <1>6, <1>7, <2>1
    <2>3. QED
        BY <1>7, <1>8, <2>1, <2>2
<1>10. ASSUME NEW dst, dst[1] = n PROVE QueueBy(dst, None, f)
    BY <1>5, <1>9, <1>10 DEF QueueBy, s
<1>11. HasNow(<<n, Item(n)[1]>>, <<2, f>>, Item(n)[2])
    <2>1. <<2, f>>[1] = 2 /\ <<2, f>>[2] = f /\ <<n, Item(n)[1]>>[1] = n /\ <<n, Item(n)[1]>>[2] = Item(n)[1]
        OBVIOUS
    <2>2. f \in DOMAIN s /\ s[f] = <<Item(n)[1], Item(n)[2]>>
        BY <1>3, <1>6, <1>7 DEF f
    <2>3. QED
        BY <2>1, <2>2 DEF HasNow, Has, s
<1>12. QED
    BY <1>3, <1>4, <1>5, <1>7, <1>9, <1>10, <1>11 DEF f

(* What a thread takes leaves the lines in order, when it sends nothing.   *)
LEMMA TakenCarried ==
  ASSUME TypeInv, UNCHANGED mux, NEW n \in Receivers, Wanted(n) # {},
         \A k \in Receivers \ {n} : queue'[k] = queue[k],
         queue'[n].items = SubSeq(queue[n].items, First(n) + 1, Len(queue[n].items)),
         NEW dst \in Dests, Carries(SrcOf(dst))
  PROVE  Carried(dst)
<1>1. First(n) \in Int /\ (dst[1] = n => QueueBy(dst, None, First(n)))
    BY TakenItems
<1>2. PICK c \in Int : TodoKeeps(SrcOf(dst), c)
    BY DEF Carries
<1>3. WrittenBy(dst, None) /\ PreBy(dst, None, 0)
    BY MuxStill
<1>4. TodoBy(SrcOf(dst), c)
    BY <1>2, KeepsBy
<1>5. CASE dst[1] = n
    <2>1. MovesBy(dst, None, First(n), 0, c)
        BY <1>1, <1>3, <1>4, <1>5 DEF MovesBy
    <2>2. QED
        BY <1>1, <1>2, <2>1, 0 \in Int, QuietMove
<1>6. CASE dst[1] # n
    <2>1. dst[1] \in Receivers
        BY SourceOfDest, WayFacts DEF TypeInv
    <2>2. QueueBy(dst, None, 0)
        BY <1>6, <2>1, QueueStill
    <2>3. MovesBy(dst, None, 0, 0, c)
        BY <1>3, <1>4, <2>2 DEF MovesBy
    <2>4. QED
        BY <1>2, <2>3, 0 \in Int, QuietMove
<1>7. QED
    BY <1>5, <1>6

(* Writing the packet that was taken keeps the order. *)
LEMMA OrderWrite ==
  ASSUME OrderInv, TypeInv', UNCHANGED <<graph, fgt, task>>, NEW m \in Muxers, Wanted(m) # {},
         queue' = Taken(m),
         mux' = [mux EXCEPT ![m].written[Item(m)[1]] = Append(@, Item(m)[2])]
  PROVE  OrderNext
<1> DEFINE i == Item(m)[1]
           t == Item(m)[2]
           dst == <<m, i>>
           w == mux[m].written[i]
           r == Append(w, t)
           l == Len(w)
<1>1. TypeInv /\ QueueTyped(queue) /\ MuxTyped(mux) /\ m \in Receivers
    BY Kinds5 DEF OrderInv, TypeInv
<1>2. /\ \A k \in Receivers \ {m} : queue'[k] = queue[k]
      /\ queue'[m].items = SubSeq(queue[m].items, First(m) + 1, Len(queue[m].items))
    BY <1>1 DEF Taken, QueueTyped, QueueT
<1>3. /\ First(m) \in Int /\ i \in Inputs(m) /\ t \in Int /\ dst \in Dests
      /\ HasNow(dst, <<2, First(m)>>, t)
      /\ \A k \in DOMAIN queue'[m].items : k \in Int /\ 1 <= k
      /\ \A d : d[1] = m => QueueBy(d, None, First(m))
    BY <1>1, <1>2, TakenItems
<1>4. dst[1] = m /\ dst[2] = i
    OBVIOUS
<1> HIDE DEF dst
<1>5. mux[m] \in MuxT(m) /\ w \in Seq(Int)
    BY <1>1, <1>3, MuxIs
<1>6. /\ mux'[m].written[i] = r /\ mux'[m].state = mux[m].state /\ mux'[m].pre = mux[m].pre
      /\ mux'[m].ready = mux[m].ready /\ \A j \in Inputs(m) \ {i} : mux'[m].written[j] = mux[m].written[j]
      /\ \A k \in Muxers \ {m} : mux'[k] = mux[k]
    <2> HIDE DEF i, t, w
    <2>1. mux' = [mux EXCEPT ![m].written[i] = r]
        BY DEF w, i, t
    <2> HIDE DEF r
    <2>2. DOMAIN mux = Muxers
        BY <1>1 DEF MuxTyped
    <2>3. QED
        BY <1>3, <1>5, <2>1, <2>2 DEF MuxT
<1> HIDE DEF i, t, w
<1>7. /\ Len(w) \in Nat /\ DOMAIN w = 1 .. Len(w) /\ DOMAIN r = 1 .. Len(w) + 1
      /\ r[Len(w) + 1] = t /\ \A k \in 1 .. Len(w) : r[k] = w[k]
    BY <1>3, <1>5
<1> HIDE DEF r
<1>8. \A k \in DOMAIN r : k <= l + 1 /\ (k # l + 1 => k \in DOMAIN w /\ w[k] = r[k])
    BY <1>7
<1> HIDE DEF l
<1>9. \A k : <<1, k>> # None /\ <<2, k>> # None /\ <<3, k>> # None /\ (<<1, k>> # <<1, l + 1>> => k # l + 1)
    BY DEF None
<1>10. \A k \in Nodes : Carries(k) /\ TodoKeeps(k, 0) /\ TodoBy(k, 0)
    BY <1>1, StillCarries, KeepsBy
<1>11. Carried(dst)
    <2>1. SrcOf(dst) \in Nodes
        BY <1>1, <1>3, SourceOfDest DEF TypeInv
    <2>2. WrittenBy(dst, <<1, l + 1>>)
        BY <1>4, <1>6, <1>8, <1>9 DEF WrittenBy, w
    <2>3. QueueBy(dst, <<1, l + 1>>, First(m))
        <3>1. QueueBy(dst, None, First(m))
            BY <1>3, <1>4
        <3>2. \A k : <<2, k>> # <<1, l + 1>>
            OBVIOUS
        <3>3. QED
            BY <1>9, <3>1, <3>2 DEF QueueBy
    <2>4. PreBy(dst, <<1, l + 1>>, 0)
        <3>1. mux[m].pre[i] \in Seq(Int)
            BY <1>3, <1>5 DEF MuxT
        <3>2. \A k \in DOMAIN mux[m].pre[i] : k + 0 = k
            BY <3>1
        <3>3. QED
            BY <1>4, <1>6, <3>2 DEF PreBy
    <2>5. MovesBy(dst, <<1, l + 1>>, First(m), 0, 0)
        BY <1>10, <2>1, <2>2, <2>3, <2>4 DEF MovesBy
    <2>6. /\ \A k \in DOMAIN mux'[dst[1]].written[dst[2]] : k <= l + 1
          /\ mux'[dst[1]].written[dst[2]][l + 1] = t /\ l \in Nat
        BY <1>4, <1>6, <1>7, <1>8 DEF l
    <2>7. dst[1] \in Muxers /\ \A k \in DOMAIN queue'[dst[1]].items : 1 <= k
        BY <1>3, <1>4
    <2>8. QED
        BY <1>3, <2>5, <2>6, <2>7, WriteMove
<1>12. ASSUME NEW d \in Dests, d # dst PROVE Carried(d)
    <2>1. d = <<d[1], d[2]>> /\ d[1] \in Receivers /\ d[2] \in Inputs(d[1]) /\ SrcOf(d) \in Nodes
        BY <1>1, SourceOfDest, DestFacts, WayFacts DEF TypeInv
    <2>2. d[1] # m \/ d[2] # i
        BY <1>12, <2>1 DEF dst
    <2>3. d[1] \in Muxers => /\ mux'[d[1]].written[d[2]] = mux[d[1]].written[d[2]]
                             /\ mux'[d[1]].pre[d[2]] = mux[d[1]].pre[d[2]]
        BY <1>6, <2>1, <2>2
    <2>4. CASE d[1] = m
        <3>1. WrittenBy(d, None) /\ PreBy(d, None, 0)
            BY <1>1, <2>3, MuxStill
        <3>2. QueueBy(d, None, First(m))
            BY <1>3, <2>4
        <3>3. MovesBy(d, None, First(m), 0, 0)
            BY <1>10, <2>1, <3>1, <3>2 DEF MovesBy
        <3>4. QED
            BY <1>3, <3>3, 0 \in Int, QuietMove
    <2>5. CASE d[1] # m
        <3>1. queue'[d[1]].items = queue[d[1]].items
            BY <1>2, <2>1, <2>5
        <3>2. QED
            BY <1>1, <1>10, <2>3, <3>1, StillCarried
    <2>6. QED
        BY <2>4, <2>5
<1>13. Flushed(mux')
    BY <1>6 DEF OrderInv, Opening, Flushed
<1>14. \A k \in Muxers : mux'[k].ready = mux[k].ready
    BY <1>6
<1>15. QED
    BY <1>10, <1>11, <1>12, <1>13, <1>14, CalmKeeps

(* Mux keeps the order. *)
LEMMA OrderMux ==
  ASSUME OrderInv, TypeInv', NEW m \in Muxers, Mux(m)
  PROVE  OrderNext
<1>1. TypeInv /\ m \in Receivers /\ m \in Nodes /\ QueueTyped(queue)
    BY Kinds5 DEF OrderInv, TypeInv
<1>2. /\ UNCHANGED <<graph, fgt>> /\ Wanted(m) # {} /\ task[m].at = "run"
    BY DEF Mux, HasItem, At
<1>3. CASE /\ mux' = [mux EXCEPT ![m].written[Item(m)[1]] = Append(@, Item(m)[2])]
           /\ queue' = Taken(m) /\ UNCHANGED task
    BY <1>2, <1>3, OrderWrite
<1>4. CASE /\ queue' = [Taken(m) EXCEPT ![m].closed = @ \cup {Item(m)[1]}]
           /\ task' = Become(m, "run", <<Report(<<m, Item(m)[1]>>, EofFrame)>>)
           /\ UNCHANGED mux
    <2>1. Going(task, m)
        BY <1>2 DEF Going
    <2> DEFINE report == Report(<<m, Item(m)[1]>>, EofFrame)
    <2>2. \A job \in Range(<<report>>) : job.do # "send"
        <3>1. report.do = "report"
            BY DEF Report, Job
        <3> HIDE DEF report
        <3>2. QED
            BY <3>1, Single
    <2> HIDE DEF report
    <2>3. task' = Become(m, "run", <<report>>)
        BY <1>4 DEF report
    <2>4. \A k \in Nodes : Carries(k)
        BY <1>1, <2>1, <2>2, <2>3, BecomeMoves
    <2>5. /\ \A k \in Receivers \ {m} : queue'[k] = queue[k]
          /\ queue'[m].items = SubSeq(queue[m].items, First(m) + 1, Len(queue[m].items))
        BY <1>1, <1>4 DEF Taken, QueueTyped, QueueT
    <2>6. ASSUME NEW dst \in Dests PROVE Carried(dst)
        <3>1. SrcOf(dst) \in Nodes
            BY <1>1, SourceOfDest DEF TypeInv
        <3>2. QED
            BY <1>1, <1>2, <1>4, <2>4, <2>5, <3>1, TakenCarried
    <2>7. Flushed(mux') /\ \A k \in Muxers : mux'[k].ready = mux[k].ready
        BY <1>4 DEF OrderInv, Opening
    <2>8. QED
        BY <1>2, <2>4, <2>6, <2>7, CalmKeeps
<1>5. QED
    BY <1>3, <1>4 DEF Mux

(* The other steps in which a thread sends nothing.                        *)
LEMMA OrderSkip ==
  ASSUME OrderInv, TypeInv', UNCHANGED <<graph, fgt, mux, queue>>, NEW d \in Nodes,
         task' = [task EXCEPT ![d].pos = @ + 1], task[d].todo = <<>>
  PROVE  OrderNext
<1>1. TypeInv /\ task[d] \in TaskT(d) /\ DOMAIN task = Nodes /\ task[d].pos \in Nat
    BY TaskIs DEF OrderInv
<1>2. /\ task'[d].at = task[d].at /\ task'[d].todo = <<>> /\ task'[d].finished = task[d].finished
      /\ task'[d].pos = task[d].pos + 1 /\ \A x \in Nodes \ {d} : task'[x] = task[x]
    BY <1>1 DEF TaskT
<1>3. task[d].pos <= task'[d].pos
    BY <1>1, <1>2
<1>4. \A job \in Range(<<>>) : job.do # "send"
    BY Empty
<1>5. \A n \in Nodes : Carries(n)
    BY <1>1, <1>2, <1>3, <1>4, BecomeCarries DEF Going
<1>6. QED
    BY <1>5, ThreadKeeps

(* FilterAsk keeps the order. *)
LEMMA OrderAsk ==
  ASSUME OrderInv, TypeInv', NEW f \in Filters, FilterAsk(f)
  PROVE  OrderNext
<1>1. UNCHANGED <<graph, fgt, mux, task, queue>>
    BY DEF FilterAsk
<1>2. QED
    BY <1>1, StandsStill

(* FilterProceed and FilterEof keep the order. *)
LEMMA OrderProceed ==
  ASSUME OrderInv, TypeInv', NEW f \in Filters, FilterProceed(f) \/ FilterEof(f)
  PROVE  OrderNext
<1>1. TypeInv /\ f \in Nodes /\ f \in Receivers
    BY Kinds5 DEF OrderInv
<1>2. /\ \E at : task' = Become(f, at, <<>>)
      /\ queue' = Emptied(f) \/ UNCHANGED queue
      /\ UNCHANGED <<graph, fgt, mux>>
    BY DEF FilterProceed, FilterEof, others
<1>3. Going(task, f)
    BY DEF FilterProceed, FilterEof, MayProceed, At, Going
<1>4. \A k \in Receivers : queue'[k].items \in {queue[k].items, <<>>}
    BY <1>1, <1>2, EmptiedItems
<1>5. QED
    BY <1>1, <1>2, <1>3, <1>4, BecomeKeeps, Empty

(* A change of place without jobs keeps the order. *)
LEMMA OrderIdle ==
  ASSUME OrderInv, TypeInv', UNCHANGED <<graph, fgt, mux, queue>>, NEW f \in Nodes, NEW at,
         task' = Become(f, at, <<>>), Going(task, f)
  PROVE  OrderNext
BY BecomeKeeps, Empty

(* The input a filter graph waits for does not matter to the order.        *)
LEMMA OrderWaitsFor ==
  ASSUME OrderInv, TypeInv', UNCHANGED <<graph, mux, queue>>, NEW f \in Filters, NEW at, NEW jobs,
         \A job \in Range(jobs) : job.do # "send", task' = Become(f, at, jobs), Going(task, f),
         NEW i, fgt' = [fgt EXCEPT ![f].next_in = i]
  PROVE  OrderNext
<1>1. TypeInv /\ f \in Nodes /\ FgtTyped(fgt)
    BY Kinds5, TypesOf DEF OrderInv
<1>2. \A k \in Nodes : Carries(k)
    BY <1>1, BecomeMoves
<1>3. ASSUME NEW g \in Filters
      PROVE  /\ fgt'[g].held = fgt[g].held /\ fgt'[g].over = fgt[g].over /\ fgt'[g].made = fgt[g].made
             /\ fgt'[g].sink = fgt[g].sink /\ fgt'[g].got = fgt[g].got
    BY <1>1 DEF FgtTyped, FgtT
<1>4. ASSUME NEW dst \in Dests PROVE Carried(dst)
    <2>1. dst[1] \in Receivers
        BY <1>1, SourceOfDest, WayFacts DEF TypeInv
    <2>2. QED
        BY <1>1, <1>2, <2>1, StillCarried
<1>5. TaskTyped(task')
    BY TypedAfter
<1>6. \A n \in Nodes : GoesOn(n)
    BY <1>2 DEF Carries
<1>7. Ordered(queue', mux', task', fgt')
    BY <1>1, <1>3, <1>4, <1>5, <1>6, CalmStep DEF OrderInv
<1>8. Opening(mux', task', fgt')
    BY <1>1, <1>2, <1>3, <1>5, OpeningKept DEF OrderInv, Opening
<1>9. QED
    BY <1>7, <1>8 DEF OrderNext

-----------------------------------------------------------------------------
(* A thread begins to send something, to each destination at most once.    *)
Sent(n, dst) == \E p \in DOMAIN task'[n].todo : task'[n].todo[p].dst = dst
Once(n, t) ==
  /\ \A p \in DOMAIN task'[n].todo : task'[n].todo[p].do = "send" /\ task'[n].todo[p].t = t
  /\ \A p, q \in DOMAIN task'[n].todo : task'[n].todo[p].dst = task'[n].todo[q].dst => p = q
Begins(n, t) ==
  /\ UNCHANGED <<graph, mux>>
  /\ \A k \in Receivers \ {n} : queue'[k].items = queue[k].items
  /\ \E d \in Int : \A dst \in Dests : dst[1] = n => QueueBy(dst, None, d)
  /\ \A x \in Nodes \ {n} : task'[x] = task[x]
  /\ task'[n].finished = task[n].finished /\ Once(n, t)

(* When a thread begins to send, the lines of the others go on. *)
LEMMA BeginsCarried ==
  ASSUME TypeInv, NEW n \in Nodes, NEW t, Begins(n, t), NEW dst \in Dests, SrcOf(dst) # n
  PROVE  Carried(dst)
<1>1. SrcOf(dst) \in Nodes /\ dst[1] \in Receivers
    BY SourceOfDest, WayFacts DEF TypeInv
<1>2. TodoBy(SrcOf(dst), 0)
    BY <1>1, StillCarries, KeepsBy DEF Begins
<1>3. WrittenBy(dst, None) /\ PreBy(dst, None, 0)
    BY MuxStill DEF Begins
<1>4. \E d \in Int : QueueBy(dst, None, d)
    <2>1. CASE dst[1] = n
        BY <2>1 DEF Begins
    <2>2. CASE dst[1] # n
        BY <1>1, <2>2, QueueStill, 0 \in Int DEF Begins
    <2>3. QED
        BY <2>1, <2>2
<1>5. PICK d \in Int : QueueBy(dst, None, d)
    BY <1>4
<1>6. MovesBy(dst, None, d, 0, 0)
    BY <1>2, <1>3, <1>5 DEF MovesBy
<1>7. QED
    BY <1>6, 0 \in Int, QuietMove

(* When a thread begins to send, its own lines are begun with one packet. *)
LEMMA BeginsBegun ==
  ASSUME TypeInv, NEW n \in Nodes, NEW t \in Int, Begins(n, t), NEW dst \in Dests, SrcOf(dst) = n,
         (dst \notin task[n].finished /\ Sent(n, dst)) => Follows(dst, t)
  PROVE  Begun(dst)
<1>1. dst[1] \in Receivers /\ dst[1] # n
    <2>1. dst[1] \in Receivers /\ <<graph.kind[n], graph.kind[dst[1]]>> \in Ways
        BY SourceOfDest, WayFacts, DestFacts DEF TypeInv
    <2>2. QED
        BY <2>1 DEF Ways
<1>2. /\ queue'[dst[1]].items = queue[dst[1]].items /\ UNCHANGED mux
      /\ task'[n].finished = task[n].finished
    BY <1>1 DEF Begins
<1>3. ASSUME NEW a \in Slots, NEW u \in Int, HasNext(dst, a, u)
      PROVE  /\ a[1] # 4 => HasNow(dst, a, u)
             /\ a[1] = 4 => /\ u = t /\ a[2] \in DOMAIN task'[n].todo
                            /\ task'[n].todo[a[2]].dst = dst /\ dst \notin task[n].finished
    <2>1. CASE a[1] # 4
        BY <1>2, <1>3, <2>1 DEF HasNext, HasNow, Has
    <2>2. CASE a[1] = 4
        <3>1. /\ dst \notin task'[n].finished /\ a[2] \in DOMAIN task'[n].todo
              /\ task'[n].todo[a[2]] = Job("send", dst, u)
            BY <1>3, <2>2 DEF HasNext, Has
        <3>2. task'[n].todo[a[2]].t = t
            BY <3>1 DEF Begins, Once
        <3>3. QED
            BY <1>2, <2>2, <3>1, <3>2 DEF Job
    <2>3. QED
        BY <2>1, <2>2, SMTT(30)
<1>4. Emitted(dst, t)
    <2>1. ASSUME NEW a \in Slots, NEW b \in Slots, NEW u \in Int, NEW w \in Int,
                 HasNext(dst, a, u), HasNext(dst, b, w), a[1] = 4, b[1] = 4
          PROVE  a = b
        <3>1. /\ a[2] \in DOMAIN task'[n].todo /\ task'[n].todo[a[2]].dst = dst
              /\ b[2] \in DOMAIN task'[n].todo /\ task'[n].todo[b[2]].dst = dst
            BY <1>3, <2>1
        <3>2. a[2] = b[2]
            BY <3>1 DEF Begins, Once
        <3>3. QED
            BY <2>1, <3>2 DEF Slots
    <2>2. QED
        BY <1>3, <2>1, Zenon DEF Emitted
<1>5. ASSUME \E a \in Slots : \E u \in Int : a[1] = 4 /\ HasNext(dst, a, u)
      PROVE  Follows(dst, t)
    BY <1>3, <1>5 DEF Sent
<1>6. QED
    BY <1>4, <1>5 DEF Begun

(* So every line goes on or is begun. *)
LEMMA BeginsLines ==
  ASSUME TypeInv, NEW n \in Nodes, NEW t \in Int, Begins(n, t),
         \A dst \in Range(Dsts(n)) \ task[n].finished : Sent(n, dst) => Follows(dst, t)
  PROVE  \A dst \in Dests : Carried(dst) \/ Begun(dst)
<1>1. SUFFICES ASSUME NEW dst \in Dests PROVE Carried(dst) \/ Begun(dst)
    OBVIOUS
<1>2. CASE SrcOf(dst) # n
    BY <1>2, BeginsCarried
<1>3. CASE SrcOf(dst) = n
    <2>1. dst \in Range(Dsts(n))
        BY <1>3, SourceOfDest DEF TypeInv
    <2>2. QED
        BY <1>3, <2>1, BeginsBegun
<1>4. QED
    BY <1>2, <1>3

(* What a thread begins to send keeps the order when it comes after all    *)
(* that was sent, and before all that will be.                             *)
LEMMA OrderEmit ==
  ASSUME OrderInv, TypeInv', NEW n \in Nodes, NEW t \in Int, t # NoTime, Begins(n, t), SourcesKept,
         \A dst \in Range(Dsts(n)) \ task[n].finished : Sent(n, dst) =>
           Follows(dst, t) /\ Timed(dst, t) /\ SourceNext(dst, AfterNext(t), t),
         \A f \in Filters \ {n} : fgt'[f] = fgt[f],
         n \in Filters => /\ fgt'[n].got
                          /\ Holds(queue', mux', task', fgt', n) /\ Overs(queue', mux', task', fgt', n)
                          /\ Sinks(queue', mux', task', fgt', n)
  PROVE  OrderNext
<1>1. TypeInv /\ Ordered(queue, mux, task, fgt) /\ Opening(mux, task, fgt)
    BY DEF OrderInv
<1>2. \A dst \in Dests : Carried(dst) \/ Begun(dst)
    BY <1>1, BeginsLines
<1>3. ASSUME NEW dst \in Dests, NEW a \in Slots, NEW u \in Int, a[1] = 4, HasNext(dst, a, u), ~Carried(dst)
      PROVE  Timed(dst, u) /\ SourceNext(dst, AfterNext(u), u)
    <2>1. SrcOf(dst) = n
        BY <1>1, <1>3, BeginsCarried
    <2>2. dst \in Range(Dsts(n))
        BY <1>1, <2>1, SourceOfDest DEF TypeInv
    <2>3. /\ dst \notin task'[n].finished /\ a[2] \in DOMAIN task'[n].todo
          /\ task'[n].todo[a[2]] = Job("send", dst, u)
        BY <1>3, <2>1 DEF HasNext, Has
    <2>4. dst \notin task[n].finished /\ task'[n].todo[a[2]].t = t
        BY <2>3 DEF Begins, Once
    <2>5. u = t /\ Sent(n, dst)
        BY <2>3, <2>4 DEF Sent, Job
    <2>6. QED
        BY <2>2, <2>4, <2>5
<1>4. ASSUME NEW f \in Filters
      PROVE  /\ Holds(queue', mux', task', fgt', f) /\ Overs(queue', mux', task', fgt', f)
             /\ Sinks(queue', mux', task', fgt', f)
    <2>1. CASE f = n
        BY <2>1
    <2>2. CASE f # n
        BY <1>1, <1>2, <2>2, FilterKept
    <2>3. QED
        BY <2>1, <2>2
<1>5. Ordered(queue', mux', task', fgt')
    BY <1>1, <1>2, <1>3, <1>4, OrderedNext
<1>6. Distinct(task')
    <2>1. SUFFICES ASSUME NEW m \in Nodes, NEW p \in DOMAIN task'[m].todo, NEW q \in DOMAIN task'[m].todo,
                          task'[m].todo[p].do = "send", task'[m].todo[q].do = "send",
                          task'[m].todo[p].dst = task'[m].todo[q].dst
                   PROVE  p = q
        BY Zenon DEF Distinct
    <2>2. CASE m = n
        BY <2>1, <2>2 DEF Begins, Once
    <2>3. CASE m # n
        <3>1. task'[m] = task[m]
            BY <2>3 DEF Begins
        <3>2. Distinct(task)
            BY <1>1 DEF Opening
        <3>3. QED
            BY <2>1, <3>1, <3>2 DEF Distinct
    <2>4. QED
        BY <2>2, <2>3
<1>7. Empties(mux', task')
    <2>1. SUFFICES ASSUME NEW m \in Nodes, NEW p \in DOMAIN task'[m].todo, task'[m].todo[p].do = "send",
                          task'[m].todo[p].t = NoTime, task'[m].todo[p].dst \notin task'[m].finished
                   PROVE  m \in Filters /\ ~Opened(mux', task'[m].todo[p].dst[1])
        BY DEF Empties
    <2>2. m # n
        BY <2>1 DEF Begins, Once
    <2>3. task'[m] = task[m] /\ mux' = mux
        BY <2>2 DEF Begins
    <2>4. Empties(mux, task)
        BY <1>1 DEF Opening
    <2>5. QED
        BY <2>1, <2>3, <2>4 DEF Empties
<1>8. Idle(mux', task', fgt')
    <2>1. SUFFICES ASSUME NEW f \in Filters, ~fgt'[f].got, task'[f].at \notin {"eof", "done", "ended"}
                   PROVE  /\ \A p \in DOMAIN task'[f].todo : task'[f].todo[p].do # "send"
                          /\ \A dst \in Range(Dsts(f)) : ~Opened(mux', dst[1])
        BY DEF Idle
    <2>2. f \in Nodes \ {n}
        BY <1>1, <2>1, Kinds5
    <2>3. task'[f] = task[f] /\ mux' = mux /\ fgt'[f] = fgt[f]
        BY <2>2 DEF Begins
    <2>4. Idle(mux, task, fgt)
        BY <1>1 DEF Opening
    <2>5. QED
        BY <2>1, <2>3, <2>4 DEF Idle
<1>9. Flushed(mux')
    BY <1>1 DEF Opening, Begins
<1>10. QED
    BY <1>5, <1>6, <1>7, <1>8, <1>9 DEF OrderNext, Opening

(* After a thread has taken something, its input gets what comes after it. *)
LEMMA TakenLine ==
  ASSUME OrderInv, UNCHANGED mux, NEW n \in Receivers, Wanted(n) # {},
         queue'[n].items = SubSeq(queue[n].items, First(n) + 1, Len(queue[n].items)),
         \A k \in Receivers \ {n} : queue'[k] = queue[k],
         NEW dst, dst = <<n, Item(n)[1]>>, task'[SrcOf(dst)] = task[SrcOf(dst)]
  PROVE  LineNext(dst, Item(n)[2])
<1>1. TypeInv /\ \A d \in Dests : Sorted(queue, mux, task, d)
    BY DEF OrderInv, Ordered
<1>2. /\ First(n) \in Int /\ Item(n)[2] \in Int /\ dst \in Dests /\ dst[1] = n
      /\ HasNow(dst, <<2, First(n)>>, Item(n)[2])
      /\ \A k \in DOMAIN queue'[n].items : k \in Int /\ 1 <= k
      /\ QueueBy(dst, None, First(n))
    BY <1>1, TakenItems
<1> DEFINE t == Item(n)[2]
           f == First(n)
<1> HIDE DEF t, f
<1>3. f \in Int /\ t \in Int /\ HasNow(dst, <<2, f>>, t) /\ QueueBy(dst, None, f)
    BY <1>2 DEF t, f
<1>4. SrcOf(dst) \in Nodes
    BY <1>1, <1>2, SourceOfDest DEF TypeInv
<1>5. SUFFICES ASSUME NEW a \in Slots, NEW u \in Int, a[1] # 1, HasNext(dst, a, u)
               PROVE  Before(t, u)
    BY DEF LineNext, LineAfter, HasNext, t
<1>6. MovesBy(dst, None, f, 0, 0)
    <2>1. WrittenBy(dst, None) /\ PreBy(dst, None, 0)
        BY <1>1, <1>2, MuxStill
    <2>2. TodoBy(SrcOf(dst), 0)
        BY <1>1, <1>4, StillCarries, KeepsBy
    <2>3. QED
        BY <1>3, <2>1, <2>2 DEF MovesBy
<1> DEFINE b == By(f, 0, 0, a)
<1>7. a \in Slots /\ a # None /\ a[1] \in 1 .. 4 /\ a[2] \in Int
    BY <1>5 DEF Slots, None
<1>8. b \in Slots /\ HasNow(dst, b, u)
    BY <1>3, <1>5, <1>6, <1>7, 0 \in Int, ByHas
<1>9. Below(<<2, f>>, b)
    <2>1. b[1] = a[1] /\ b[2] = a[2] + (IF a[1] = 2 THEN f ELSE 0)
        BY <1>3, <1>5, 0 \in Int, SlotIs
    <2>2. a[1] = 2 => 1 <= a[2]
        BY <1>2, <1>5 DEF HasNext, Has
    <2> HIDE DEF b
    <2>3. <<2, f>>[1] = 2 /\ <<2, f>>[2] = f
        OBVIOUS
    <2>4. CASE a[1] = 2
        <3>1. b[2] = a[2] + f /\ f < a[2] + f
            BY <1>3, <1>7, <2>1, <2>2, <2>4
        <3>2. QED
            BY <2>1, <2>3, <2>4, <3>1 DEF Below
    <2>5. CASE a[1] # 2
        <3>1. 2 < b[1]
            BY <1>5, <1>7, <2>1, <2>5
        <3>2. QED
            BY <2>3, <3>1 DEF Below
    <2>6. QED
        BY <2>4, <2>5
<1>10. <<2, f>> \in Slots
    BY <1>3 DEF Slots
<1>11. Sorted(queue, mux, task, dst)
    BY <1>1, <1>2
<1>12. QED
    BY <1>3, <1>5, <1>8, <1>9, <1>10, <1>11 DEF Sorted, HasNow

(* The item that is taken was in its line, and its source is after its time. *)
LEMMA TakenTime ==
  ASSUME OrderInv, NEW n \in Receivers, Wanted(n) # {}, NEW i, i = Item(n)[1], NEW t, t = Item(n)[2]
  PROVE  /\ First(n) \in Int /\ i \in Inputs(n) /\ t \in Int /\ <<n, i>> \in Dests
         /\ HasNow(<<n, i>>, <<2, First(n)>>, t)
         /\ Timed(<<n, i>>, t) /\ SourceNow(<<n, i>>, AfterNow(t), t)
<1>1. TypeInv /\ QueueTyped(queue) /\ \A d \in Dests : InLine(queue, mux, task, fgt, d)
    BY DEF OrderInv, Ordered, TypeInv
<1>2. /\ First(n) \in 1 .. Len(queue[n].items) /\ Item(n) = queue[n].items[First(n)]
      /\ Item(n) = <<i, t>> /\ i \in Inputs(n) /\ t \in Int
    BY <1>1, FirstWanted
<1>3. queue[n].items \in Seq(Inputs(n) \X Int)
    BY <1>1, QueueIs
<1>4. First(n) \in Int /\ First(n) \in DOMAIN queue[n].items
    BY <1>2, <1>3
<1>5. <<n, i>> \in Dests
    BY <1>1, <1>2, InputFacts, Kinds5 DEF TypeInv
<1>6. HasNow(<<n, i>>, <<2, First(n)>>, t)
    <2>1. <<n, i>>[1] = n /\ <<n, i>>[2] = i /\ <<2, First(n)>>[1] = 2 /\ <<2, First(n)>>[2] = First(n)
        OBVIOUS
    <2>2. QED
        BY <1>2, <1>4, <2>1 DEF HasNow, Has
<1>7. <<2, First(n)>> \in Slots
    BY <1>4 DEF Slots
<1>8. Timed(<<n, i>>, t) /\ SourceNow(<<n, i>>, AfterNow(t), t)
    BY <1>1, <1>2, <1>5, <1>6, <1>7 DEF InLine, HasNow, SourceNow, AfterNow
<1>9. QED
    BY <1>2, <1>4, <1>5, <1>6, <1>8

(* Once it is taken, only later items come to that input. *)
LEMMA TakenSafe ==
  ASSUME OrderInv, UNCHANGED mux, NEW n \in Receivers, Wanted(n) # {},
         queue'[n].items = SubSeq(queue[n].items, First(n) + 1, Len(queue[n].items)),
         \A k \in Receivers \ {n} : queue'[k] = queue[k],
         \A x \in Nodes \ {n} : task'[x] = task[x],
         \A dst \in Dests : Carried(dst) \/ Begun(dst), SourcesKept,
         NEW i, i = Item(n)[1], NEW t, t = Item(n)[2]
  PROVE  <<n, i>> \in AfterNext(t)
<1> DEFINE dst == <<n, i>>
           A == AfterNow(t)
           B == A \cup {dst}
<1>1. t \in Int /\ dst \in Dests /\ SourceNow(dst, A, t)
    BY TakenTime
<1>2. A \in SUBSET Dests /\ SafeNow(A, t)
    BY AfterSafe
<1> HIDE DEF A
<1>3. SafeNext(A, t)
    BY <1>1, <1>2, SafeKept
<1>4. SrcOf(dst) \in Nodes /\ SrcOf(dst) # n
    <2>1. /\ SrcOf(dst) \in Nodes /\ dst \in Range(Dsts(SrcOf(dst)))
          /\ <<graph.kind[SrcOf(dst)], graph.kind[dst[1]]>> \in Ways
        BY <1>1, SourceOfDest, DestFacts DEF OrderInv, TypeInv
    <2>2. dst[1] = n
        OBVIOUS
    <2>3. QED
        BY <2>1, <2>2 DEF Ways
<1>5. task'[SrcOf(dst)] = task[SrcOf(dst)]
    BY <1>4
<1>6. LineNext(dst, t)
    BY <1>5, TakenLine
<1> HIDE DEF dst
<1>7. SourceNext(dst, A, t)
    BY <1>1, <1>2 DEF SourcesKept
<1>8. A \subseteq B /\ B \in SUBSET Dests /\ dst \in B
    BY <1>1, <1>2
<1>9. ASSUME NEW d \in B PROVE LineNext(d, t) /\ SourceNext(d, B, t)
    <2>1. CASE d \in A
        <3>1. LineNext(d, t) /\ SourceNext(d, A, t)
            BY <1>3, <2>1 DEF SafeNext, Safe, LineNext, SourceNext
        <3>2. QED
            BY <1>8, <3>1, SourceMonotone
    <2>2. CASE d = dst
        BY <1>6, <1>7, <1>8, <2>2, SourceMonotone
    <2>3. QED
        BY <2>1, <2>2
<1>10. SafeNext(B, t)
    BY <1>9 DEF SafeNext, Safe, LineNext, SourceNext
<1>11. QED
    BY <1>8, <1>10, AfterHas DEF dst

(* An output has a destination once, and it has no other.                  *)
LEMMA OnePlaceIn ==
  ASSUME GraphIs, NEW n \in Nodes, NEW o \in 1 .. Len(graph.out[n]), NEW p \in 1 .. Len(graph.out[n]),
         NEW k \in 1 .. Len(graph.out[n][o]), NEW l \in 1 .. Len(graph.out[n][p]),
         graph.out[n][o][k] = graph.out[n][p][l]
  PROVE  o = p /\ k = l
<1>1. \A c, d \in 1 .. Len(graph.out[n]) :
        \A e \in 1 .. Len(graph.out[n][c]), f \in 1 .. Len(graph.out[n][d]) :
          graph.out[n][c][e] = graph.out[n][d][f] => n = n /\ c = d /\ e = f
    BY OnePlace, Zenon
<1>2. QED
    BY <1>1, SMTT(30)

(* A destination belongs to one output of a thread. *)
LEMMA OneOutput ==
  ASSUME GraphIs, NEW n \in Nodes, NEW o \in 1 .. Len(graph.out[n]), NEW p \in 1 .. Len(graph.out[n]),
         NEW dst, dst \in Range(graph.out[n][o]), dst \in Range(graph.out[n][p])
  PROVE  p = o
<1>1. graph.out[n][o] \in Seq(Nodes \X Nat) /\ graph.out[n][p] \in Seq(Nodes \X Nat)
    BY DstsFacts
<1>2. PICK k \in 1 .. Len(graph.out[n][o]) : dst = graph.out[n][o][k]
    BY <1>1, SMTT(30) DEF Range
<1>3. PICK l \in 1 .. Len(graph.out[n][p]) : dst = graph.out[n][p][l]
    BY <1>1 DEF Range
<1>4. QED
    BY <1>2, <1>3, OnePlaceIn, ZenonT(30)

(* A thread sends to the destinations of an output, to each once.          *)
LEMMA OutputOnce ==
  ASSUME TypeInv, NEW n \in Nodes, NEW o \in 1 .. Len(graph.out[n]), NEW t \in Int,
         task'[n].todo = SendAll(n, o, t)
  PROVE  /\ Once(n, t)
         /\ \A dst \in Range(Dsts(n)) : Sent(n, dst) => dst \in Range(graph.out[n][o])
<1>1. GraphIs /\ graph.out[n][o] \in Seq(Nodes \X Nat)
    BY DstsFacts DEF TypeInv
<1>2. DOMAIN graph.out[n][o] = 1 .. Len(graph.out[n][o])
    BY <1>1
<1>3. /\ DOMAIN task'[n].todo = 1 .. Len(graph.out[n][o])
      /\ \A p \in 1 .. Len(graph.out[n][o]) :
           /\ task'[n].todo[p].do = "send" /\ task'[n].todo[p].t = t
           /\ task'[n].todo[p].dst = graph.out[n][o][p]
    BY DEF SendAll, Job
<1>4. \A p, q \in 1 .. Len(graph.out[n][o]) : graph.out[n][o][p] = graph.out[n][o][q] => p = q
    BY <1>1, OnePlaceIn
<1>5. QED
    BY <1>2, <1>3, <1>4 DEF Once, Sent, Range

(* A thread is of one kind. *)
LEMMA KindOf ==
  ASSUME TypeInv, NEW n \in Nodes
  PROVE  /\ n \in Demuxers => n \notin Filters /\ n \notin OfKind("dec") \cup OfKind("enc")
         /\ n \in Filters => n \notin Demuxers /\ n \notin OfKind("dec") \cup OfKind("enc")
         /\ n \in OfKind("dec") \cup OfKind("enc") => n \notin Demuxers /\ n \notin Filters
BY NodeFacts, Zenon DEF TypeInv, Demuxers, Filters

(* Packets that are read.                                                  *)
LEMMA OrderRead ==
  ASSUME OrderInv, TypeInv', UNCHANGED <<graph, fgt, mux, queue>>, NEW d \in Demuxers, Going(task, d),
         ~AtEnd(d),
         task' = [task EXCEPT ![d].pos = @ + 1, ![d].at = "run",
                              ![d].todo = SendAll(d, Packet(d)[1], Packet(d)[2])]
  PROVE  OrderNext
<1> DEFINE o == Packet(d)[1]
           t == Packet(d)[2]
           file == graph.file[d]
           pos == task[d].pos
<1>1. TypeInv /\ GraphIs /\ d \in Nodes
    BY Kinds5, TypesOf DEF OrderInv
<1>2. file \in Seq((1 .. Len(graph.out[d])) \X Nat) /\ pos \in Nat \ {0} /\ Len(file) \in Nat
    <2>1. file \in Seq((1 .. Len(graph.out[d])) \X Nat)
        BY <1>1, NodeFacts
    <2>2. pos \in Nat \ {0}
        BY <1>1, TaskIs
    <2>3. QED
        BY <2>1, <2>2
<1>3. pos \in 1 .. Len(file) /\ Packet(d) = file[pos]
    BY <1>2 DEF AtEnd, Packet
<1>4. o \in 1 .. Len(graph.out[d]) /\ t \in Nat /\ o = file[pos][1] /\ t = file[pos][2]
    <2>1. Packet(d) \in (1 .. Len(graph.out[d])) \X Nat
        BY <1>2, <1>3, SMTT(30)
    <2>2. QED
        BY <1>3, <2>1
<1>5. /\ task'[d].pos = pos + 1 /\ task'[d].at = "run" /\ task'[d].todo = SendAll(d, o, t)
      /\ task'[d].finished = task[d].finished /\ \A x \in Nodes \ {d} : task'[x] = task[x]
    BY <1>1, TaskIs DEF TaskT
<1> HIDE DEF o, t, file, pos
<1>6. Once(d, t) /\ \A dst \in Range(Dsts(d)) : Sent(d, dst) => dst \in Range(graph.out[d][o])
    <2>1. t \in Int /\ o \in 1 .. Len(graph.out[d]) /\ task'[d].todo = SendAll(d, o, t)
        BY <1>4, <1>5
    <2>2. Once(d, t)
        BY <1>1, <2>1, OutputOnce
    <2>3. \A dst \in Range(Dsts(d)) : Sent(d, dst) => dst \in Range(graph.out[d][o])
        BY <1>1, <2>1, OutputOnce
    <2>4. QED
        BY <2>2, <2>3
<1>7. Begins(d, t)
    <2>1. \A dst \in Dests : QueueBy(dst, None, 0)
        BY <1>1, QueueStill
    <2>2. \E e \in Int : \A dst \in Dests : dst[1] = d => QueueBy(dst, None, e)
        BY <2>1, 0 \in Int
    <2>3. QED
        BY <1>5, <1>6, <2>2 DEF Begins
<1>8. SourcesKept
    <2>1. TaskTyped(task')
        BY TypedAfter
    <2>2. \A n \in Nodes : GoesOn(n)
        <3>1. GoesOn(d)
            BY <1>2, <1>5 DEF GoesOn, pos
        <3>2. \A n \in Nodes \ {d} : GoesOn(n)
            BY <1>1, <1>5, StillCarries DEF Carries
        <3>3. QED
            BY <3>1, <3>2
    <2>3. QED
        BY <1>1, <2>1, <2>2, CalmSources
<1>9. ASSUME NEW dst \in Range(Dsts(d)) \ task[d].finished, Sent(d, dst)
      PROVE  Follows(dst, t) /\ Timed(dst, t) /\ SourceNext(dst, AfterNext(t), t)
    <2>1. SrcOf(dst) = d /\ dst \in Range(graph.out[d][o])
        BY <1>1, <1>6, <1>9, DestFacts
    <2>2. Timed(dst, t)
        BY <1>4 DEF Timed
    <2>3. Follows(dst, t)
        <3>1. SUFFICES ASSUME NEW A \in SUBSET Dests, NEW v \in Int, SourceNow(dst, A, v)
                       PROVE  Before(v, t)
            BY DEF Follows
        <3>2. v # EofFrame /\ FileAfter(task, d, dst, v)
            BY <1>9, <2>1, <3>1 DEF SourceNow, SourceAfter
        <3>3. pos \in pos .. Len(file) /\ dst \in Range(graph.out[d][file[pos][1]])
            BY <1>2, <1>3, <1>4, <2>1, SMTT(30)
        <3>4. v < t
            BY <1>4, <3>2, <3>3, Zenon DEF FileAfter, file, pos
        <3>5. QED
            BY <3>2, <3>4 DEF Before
    <2>4. SourceNext(dst, AfterNext(t), t)
        <3>1. t # EofFrame
            BY <1>4 DEF EofFrame
        <3>2. d \notin Filters /\ d \notin OfKind("dec") \cup OfKind("enc")
            BY <1>1, KindOf
        <3>3. FileAfter(task', d, dst, t)
            <4>1. SUFFICES ASSUME NEW k \in pos + 1 .. Len(file), dst \in Range(graph.out[d][file[k][1]])
                           PROVE  t < file[k][2]
                BY <1>5 DEF FileAfter, file
            <4>2. k \in 1 .. Len(file) /\ pos < k
                BY <1>2, <1>3, SMTT(30)
            <4>3. file[k][1] \in 1 .. Len(graph.out[d])
                BY <1>2, <4>2
            <4>4. file[k][1] = o
                BY <1>1, <1>4, <2>1, <4>1, <4>3, OneOutput
            <4>5. QED
                BY <1>3, <1>4, <4>2, <4>4, SMTT(30) DEF OrderInv, FilesInOrder, file
        <3>4. QED
            BY <2>1, <3>1, <3>2, <3>3 DEF SourceNext, SourceAfter
    <2>5. QED
        BY <2>2, <2>3, <2>4
<1>10. t \in Int /\ t # NoTime
    BY <1>4 DEF NoTime
<1>11. d \notin Filters
    BY <1>1, KindOf
<1>12. QED
    BY <1>1, <1>7, <1>8, <1>9, <1>10, <1>11, OrderEmit

(* Demux keeps the order. *)
LEMMA OrderDemux ==
  ASSUME OrderInv, TypeInv', NEW d \in Demuxers, Demux(d)
  PROVE  OrderNext
<1>1. d \in Nodes /\ UNCHANGED <<graph, fgt, mux>>
    BY Kinds5 DEF Demux, others, OrderInv
<1>2. CASE End(d, FALSE)
    BY <1>1, <1>2, EndKeeps
<1>3. CASE At(d, "run") /\ task' = [task EXCEPT ![d].pos = @ + 1] /\ UNCHANGED queue
    BY <1>1, <1>3, OrderSkip DEF At
<1>4. CASE /\ MayProceed(d) /\ ~AtEnd(d) /\ UNCHANGED queue
           /\ task' = [task EXCEPT ![d].pos = @ + 1, ![d].at = "run",
                                   ![d].todo = SendAll(d, Packet(d)[1], Packet(d)[2])]
    <2>1. Going(task, d)
        BY <1>4 DEF MayProceed, At, Going
    <2>2. QED
        BY <1>1, <1>4, <2>1, OrderRead
<1>5. QED
    BY <1>2, <1>3, <1>4 DEF Demux

(* A codec makes one frame or packet of each it takes.                     *)
LEMMA TakenRest ==
  ASSUME TypeInv, NEW n \in Receivers, queue' = Taken(n)
  PROVE  /\ queue'[n].items = SubSeq(queue[n].items, First(n) + 1, Len(queue[n].items))
         /\ \A k \in Receivers \ {n} : queue'[k] = queue[k]
BY DEF Taken, TypeInv, QueueTyped, QueueT

(* A decoder or encoder that passes on what it took keeps the order. *)
LEMMA OrderCode ==
  ASSUME OrderInv, TypeInv', UNCHANGED <<graph, fgt, mux>>, NEW c \in OfKind("dec") \cup OfKind("enc"),
         Wanted(c) # {}, Going(task, c), 1 \in 1 .. Len(graph.out[c]),
         queue' = Taken(c), task' = Become(c, "run", SendAll(c, 1, Item(c)[2]))
  PROVE  OrderNext
<1> DEFINE t == Item(c)[2]
           in == <<c, 1>>
<1>1. TypeInv /\ c \in Receivers /\ c \in Nodes /\ GraphIs
    BY Kinds5, TypesOf DEF OrderInv
<1>2. c \notin Demuxers /\ c \notin Filters
    BY <1>1, KindOf
<1>3. /\ queue'[c].items = SubSeq(queue[c].items, First(c) + 1, Len(queue[c].items))
      /\ \A k \in Receivers \ {c} : queue'[k] = queue[k]
    BY <1>1, TakenRest
<1>4. /\ First(c) \in Int /\ t \in Int /\ HasNow(in, <<2, First(c)>>, t) /\ Timed(in, t)
      /\ in = <<c, Item(c)[1]>> /\ in \in Dests
    <2>1. Item(c)[1] \in Inputs(c)
        BY <1>1, TakenTime
    <2>2. Item(c)[1] = 1
        BY <1>1, <2>1, OneInput
    <2>3. QED
        BY <1>1, <2>2, TakenTime
<1>5. t \in Nat
    <2>1. SrcOf(in) \notin OfKind("dec")
        <3>1. /\ SrcOf(in) \in Nodes /\ in \in Range(Dsts(SrcOf(in))) /\ in[1] = c
            BY <1>1, <1>4, SourceOfDest
        <3>2. c \notin Filters
            BY <1>2
        <3>3. SrcOf(in) \in OfKind("dec") => in[1] \in Filters
            BY <1>1, <3>1, WayFacts
        <3>4. QED
            BY <3>1, <3>2, <3>3
    <2>2. QED
        BY <1>4, <2>1 DEF Timed
<1>6. /\ task'[c].at = "run" /\ task'[c].todo = SendAll(c, 1, t) /\ task'[c].finished = task[c].finished
      /\ task'[c].pos = task[c].pos /\ \A x \in Nodes \ {c} : task'[x] = task[x]
    BY <1>1, BecomeIs
<1> HIDE DEF t, in
<1>7. Once(c, t)
    BY <1>1, <1>4, <1>6, OutputOnce
<1>8. Begins(c, t)
    <2>1. First(c) \in Int /\ \A dst : dst[1] = c => QueueBy(dst, None, First(c))
        BY <1>1, <1>3, TakenItems
    <2>2. \E d \in Int : \A dst \in Dests : dst[1] = c => QueueBy(dst, None, d)
        BY <2>1
    <2>3. QED
        BY <1>3, <1>6, <1>7, <2>2 DEF Begins
<1>9. SourcesKept
    <2>1. TaskTyped(task')
        BY TypedAfter
    <2>2. \A n \in Nodes : GoesOn(n)
        <3>1. task[c].pos \in Int
            BY <1>1, TaskIs
        <3>2. GoesOn(c)
            BY <1>6, <3>1 DEF GoesOn
        <3>3. \A n \in Nodes \ {c} : GoesOn(n)
            BY <1>1, <1>6, StillCarries DEF Carries
        <3>4. QED
            BY <3>2, <3>3
    <2>3. QED
        BY <1>1, <2>1, <2>2, CalmSources
<1>10. ASSUME NEW dst \in Range(Dsts(c)) \ task[c].finished
       PROVE  SrcOf(dst) = c /\ Follows(dst, t) /\ Timed(dst, t)
    <2>1. SrcOf(dst) = c
        BY <1>1, DestFacts
    <2>2. Timed(dst, t)
        BY <1>5 DEF Timed
    <2>3. Follows(dst, t)
        <3>1. SUFFICES ASSUME NEW A \in SUBSET Dests, NEW v \in Int, SafeNow(A, v), SourceNow(dst, A, v)
                       PROVE  Before(v, t)
            BY DEF Follows
        <3>2. in \in A
            BY <1>10, <2>1, <3>1 DEF SourceNow, SourceAfter, in
        <3>3. LineNow(in, v)
            BY <3>1, <3>2 DEF SafeNow, Safe, LineNow
        <3>4. <<2, First(c)>> \in Slots /\ <<2, First(c)>>[1] # 1
            BY <1>4 DEF Slots
        <3>5. QED
            BY <1>4, <3>3, <3>4 DEF LineNow, LineAfter, HasNow
    <2>4. QED
        BY <2>1, <2>2, <2>3
<1>11. in \in AfterNext(t)
    <2>1. \A dst \in Dests : Carried(dst) \/ Begun(dst)
        BY <1>1, <1>4, <1>8, <1>10, BeginsLines
    <2>2. <<c, Item(c)[1]>> \in AfterNext(Item(c)[2])
        BY <1>1, <1>3, <1>6, <1>9, <2>1, TakenSafe
    <2>3. QED
        BY <1>4, <2>2 DEF t
<1>12. ASSUME NEW dst \in Range(Dsts(c)) \ task[c].finished
       PROVE  SourceNext(dst, AfterNext(t), t)
    <2>1. t # EofFrame
        BY <1>5 DEF EofFrame
    <2>2. QED
        BY <1>2, <1>10, <1>11, <2>1 DEF SourceNext, SourceAfter, in
<1>13. t # NoTime
    BY <1>5 DEF NoTime
<1>14. QED
    BY <1>1, <1>2, <1>4, <1>8, <1>9, <1>10, <1>12, <1>13, OrderEmit

(* The end of what a decoder gets goes on as an empty frame.               *)
LEMMA OrderCodeEnd ==
  ASSUME OrderInv, TypeInv', UNCHANGED <<graph, fgt, mux>>, NEW c \in OfKind("dec"), Going(task, c),
         1 \in 1 .. Len(graph.out[c]), queue' = Emptied(c), task' = Become(c, "eof", SendAll(c, 1, EofFrame))
  PROVE  OrderNext
<1>1. TypeInv /\ c \in Receivers /\ c \in Nodes /\ GraphIs /\ EofFrame \in Int /\ EofFrame # NoTime
    BY Kinds5, TypesOf DEF OrderInv, EofFrame, NoTime
<1>2. c \notin Filters
    BY <1>1, KindOf
<1>3. /\ task'[c].at = "eof" /\ task'[c].todo = SendAll(c, 1, EofFrame)
      /\ task'[c].finished = task[c].finished
      /\ task'[c].pos = task[c].pos /\ \A x \in Nodes \ {c} : task'[x] = task[x]
    BY <1>1, BecomeIs
<1>4. Once(c, EofFrame)
    BY <1>1, <1>3, OutputOnce
<1>5. \A k \in Receivers : queue'[k].items \in {queue[k].items, <<>>}
    BY <1>1, EmptiedItems
<1>6. Begins(c, EofFrame)
    <2>1. \A k \in Receivers \ {c} : queue'[k].items = queue[k].items
        BY <1>1 DEF Emptied, TypeInv, QueueTyped
    <2>2. ASSUME NEW dst \in Dests, dst[1] = c PROVE QueueBy(dst, None, 0)
        BY <1>1, <1>5, <2>2, QueueStill
    <2>3. \E d \in Int : \A dst \in Dests : dst[1] = c => QueueBy(dst, None, d)
        BY <2>2, 0 \in Int
    <2>4. QED
        BY <1>3, <1>4, <2>1, <2>3 DEF Begins
<1>7. SourcesKept
    <2>1. TaskTyped(task')
        BY TypedAfter
    <2>2. \A n \in Nodes : GoesOn(n)
        <3>1. task[c].pos \in Int
            BY <1>1, TaskIs
        <3>2. GoesOn(c)
            BY <1>3, <3>1 DEF GoesOn
        <3>3. \A n \in Nodes \ {c} : GoesOn(n)
            BY <1>1, <1>3, StillCarries DEF Carries
        <3>4. QED
            BY <3>2, <3>3
    <2>3. QED
        BY <1>1, <2>1, <2>2, CalmSources
<1>8. ASSUME NEW dst \in Range(Dsts(c)) \ task[c].finished
      PROVE  Follows(dst, EofFrame) /\ Timed(dst, EofFrame) /\ SourceNext(dst, AfterNext(EofFrame), EofFrame)
    <2>1. SrcOf(dst) = c
        BY <1>1, DestFacts
    <2>2. Timed(dst, EofFrame)
        BY <2>1 DEF Timed
    <2>3. Follows(dst, EofFrame)
        BY <1>8, <2>1 DEF Follows, SourceNow, SourceAfter, Before
    <2>4. SourceNext(dst, AfterNext(EofFrame), EofFrame)
        BY <1>3, <2>1 DEF SourceNext, SourceAfter, Going
    <2>5. QED
        BY <2>2, <2>3, <2>4
<1>9. QED
    BY <1>1, <1>2, <1>6, <1>7, <1>8, OrderEmit

(* A thread that still has someone to send to has an output. *)
LEMMA HasOutput ==
  ASSUME TypeInv, NEW c \in Nodes, ~AllFinished(c)
  PROVE  1 \in 1 .. Len(graph.out[c])
<1>1. Range(Dsts(c)) # {}
    BY DEF AllFinished
<1>2. PICK o \in 1 .. Len(graph.out[c]) : TRUE
    BY <1>1, DstsFacts DEF TypeInv
<1>3. Len(graph.out[c]) \in Nat
    BY DstsFacts DEF TypeInv
<1>4. QED
    BY <1>2, <1>3

(* Decode keeps the order. *)
LEMMA OrderDecode ==
  ASSUME OrderInv, TypeInv', NEW c \in OfKind("dec"), Decode(c)
  PROVE  OrderNext
<1>1. TypeInv /\ c \in Nodes /\ UNCHANGED <<graph, fgt, mux>>
    BY Kinds5 DEF Decode, others, OrderInv
<1>2. CASE End(c, FALSE)
    BY <1>1, <1>2, EndKeeps
<1>3. CASE /\ At(c, "run") /\ ~AllFinished(c) /\ HasItem(c) /\ queue' = Taken(c)
           /\ task' = Become(c, "run", SendAll(c, 1, Item(c)[2]))
    BY <1>1, <1>3, HasOutput, OrderCode DEF HasItem, At, Going
<1>4. CASE /\ At(c, "run") /\ ~AllFinished(c) /\ queue' = Emptied(c)
           /\ task' = Become(c, "eof", SendAll(c, 1, EofFrame))
    BY <1>1, <1>4, HasOutput, OrderCodeEnd DEF At, Going
<1>5. QED
    BY <1>2, <1>3, <1>4 DEF Decode

(* Encode keeps the order. *)
LEMMA OrderEncode ==
  ASSUME OrderInv, TypeInv', NEW e \in OfKind("enc"), Encode(e)
  PROVE  OrderNext
<1>1. TypeInv /\ e \in Nodes /\ UNCHANGED <<graph, fgt, mux>>
    BY Kinds5 DEF Encode, others, OrderInv
<1>2. CASE \E failed : End(e, failed)
    BY <1>1, <1>2, EndKeeps
<1>3. CASE /\ At(e, "run") /\ HasItem(e) /\ queue' = Taken(e)
           /\ task' = Become(e, "run", SendAll(e, 1, Item(e)[2]))
    <2>1. 1 \in 1 .. Len(graph.out[e])
        <3>1. graph.kind[e] = "enc"
            BY <1>1, NodeFacts DEF TypeInv
        <3>2. Len(graph.out[e]) = 1
            BY <1>1, <3>1, GraphShape, Zenon DEF TypeInv
        <3>3. QED
            BY <3>2
    <2>2. QED
        BY <1>1, <1>3, <2>1, OrderCode DEF HasItem, At, Going
<1>4. QED
    BY <1>2, <1>3 DEF Encode

(* A filter graph makes a frame.  It comes after all that came before what *)
(* the graph held, and before all the graph holds then.                    *)
Makes(f) == /\ CanMake(f) /\ fgt'[f].held = Made(f).held /\ fgt'[f].made = Made(f).made
            /\ fgt'[f].over = fgt[f].over

(* What Made changes and what it leaves. *)
LEMMA MadeParts ==
  ASSUME FgtTyped(fgt), NEW f \in Filters
  PROVE  /\ Made(f).held = [i \in Inputs(f) |-> IF i \in Held(f) /\ Head(fgt[f].held[i]) = NextTime(f)
                                               THEN Tail(fgt[f].held[i]) ELSE fgt[f].held[i]]
         /\ Made(f).made = IF OwnLeft(f) /\ NextTime(f) = fgt[f].made + 1
                           THEN fgt[f].made + 1 ELSE fgt[f].made
         /\ Made(f).over = fgt[f].over /\ Made(f).sink = fgt[f].sink /\ Made(f).got = fgt[f].got
         /\ DOMAIN Made(f) = {"next_in", "held", "over", "made", "sink", "got"}
<1>1. fgt[f] \in FgtT(f)
    BY FilterIs
<1>2. DOMAIN fgt[f] = {"next_in", "held", "over", "made", "sink", "got"}
    BY <1>1 DEF FgtT
<1>3. QED
    BY <1>2 DEF Made

(* What is left of the frames of an input.                                 *)
LEMMA MadeHeld ==
  ASSUME OrderInv, NEW f \in Filters, Makes(f), NEW i \in Inputs(f)
  PROVE  /\ \E d \in Nat : \A k \in DOMAIN fgt'[f].held[i] :
              /\ k \in Int /\ k + d \in DOMAIN fgt[f].held[i]
              /\ fgt'[f].held[i][k] = fgt[f].held[i][k + d]
         /\ \A k \in DOMAIN fgt'[f].held[i] : NextTime(f) < fgt'[f].held[i][k]
<1> DEFINE h == fgt[f].held[i]
           r == fgt'[f].held[i]
           t == NextTime(f)
<1>1. FgtTyped(fgt) /\ GraphIs /\ h \in Seq(Int)
    BY TypesOf, FilterIs DEF OrderInv
<1>2. \A k, l \in DOMAIN h : k < l => h[k] < h[l]
    BY Zenon DEF OrderInv, Ordered, Holds
<1>3. t \in Int /\ (h # <<>> => t <= Head(h))
    <2>1. CanMake(f)
        BY DEF Makes
    <2>2. t \in Int /\ \A j \in Held(f) : t <= Head(fgt[f].held[j])
        BY <1>1, <2>1, NextTimeIs
    <2>3. QED
        BY <2>2 DEF Held
<1>4. r = IF h # <<>> /\ Head(h) = t THEN Tail(h) ELSE h
    <2>1. fgt'[f].held = [j \in Inputs(f) |-> IF j \in Held(f) /\ Head(fgt[f].held[j]) = NextTime(f)
                                              THEN Tail(fgt[f].held[j]) ELSE fgt[f].held[j]]
        BY <1>1, MadeParts DEF Makes
    <2>2. QED
        BY <2>1 DEF Held
<1> HIDE DEF h, r, t
<1>5. CASE h # <<>> /\ Head(h) = t
    <2>1. /\ DOMAIN r = 1 .. Len(h) - 1 /\ DOMAIN h = 1 .. Len(h) /\ Len(h) \in Nat /\ h[1] = t
          /\ \A k \in 1 .. Len(h) - 1 : r[k] = h[k + 1]
        BY <1>1, <1>4, <1>5
    <2>2. ASSUME NEW k \in DOMAIN r
          PROVE  k \in Int /\ k + 1 \in DOMAIN h /\ r[k] = h[k + 1] /\ t < r[k]
        <3>1. k \in Int /\ k + 1 \in DOMAIN h /\ r[k] = h[k + 1] /\ 1 \in DOMAIN h /\ 1 < k + 1
            BY <2>1
        <3>2. QED
            BY <1>2, <2>1, <3>1
    <2>3. 1 \in Nat
        OBVIOUS
    <2>4. QED
        BY <2>2, <2>3 DEF h, r, t
<1>6. CASE ~(h # <<>> /\ Head(h) = t)
    <2>1. r = h /\ DOMAIN h = 1 .. Len(h) /\ Len(h) \in Nat
        BY <1>1, <1>4, <1>6
    <2>2. ASSUME NEW k \in DOMAIN r
          PROVE  k \in Int /\ k + 0 \in DOMAIN h /\ r[k] = h[k + 0] /\ t < r[k]
        <3>1. k \in 1 .. Len(h) /\ k + 0 = k /\ h # <<>>
            BY <1>1, <2>1
        <3>2. h[1] = Head(h) /\ t < h[1] /\ h[1] \in Int /\ 1 \in DOMAIN h
            BY <1>1, <1>3, <1>6, <2>1, <3>1
        <3>3. h[k] \in Int
            BY <1>1, <2>1, <3>1
        <3>4. CASE k = 1
            BY <2>1, <3>1, <3>2, <3>4
        <3>5. CASE k # 1
            <4>1. 1 < k
                BY <2>1, <3>1, <3>5
            <4>2. h[1] < h[k]
                BY <1>2, <2>1, <3>1, <3>2, <4>1
            <4>3. t < h[k]
                BY <1>3, <3>2, <3>3, <4>2
            <4>4. QED
                BY <2>1, <3>1, <4>3
        <3>6. QED
            BY <3>4, <3>5
    <2>3. 0 \in Nat
        OBVIOUS
    <2>4. QED
        BY <2>2, <2>3 DEF h, r, t
<1>7. QED
    BY <1>5, <1>6

(* The frames a filter graph makes of its own are numbered upwards. *)
LEMMA MadeOwn ==
  ASSUME OrderInv, NEW f \in Filters, Makes(f)
  PROVE  /\ NextTime(f) \in Nat
         /\ fgt[f].made \in Nat /\ fgt'[f].made \in Nat /\ fgt[f].made <= fgt'[f].made
         /\ fgt'[f].made < graph.gen[f] => fgt[f].made < graph.gen[f] /\ NextTime(f) < fgt'[f].made + 1
<1>1. FgtTyped(fgt) /\ GraphIs /\ fgt[f].made \in Nat /\ fgt[f].held \in [Inputs(f) -> Seq(Int)]
    BY TypesOf, FilterIs DEF OrderInv
<1>2. CanMake(f)
    BY DEF Makes
<1>3. /\ NextTime(f) \in Int
      /\ OwnLeft(f) => NextTime(f) <= fgt[f].made + 1
      /\ \/ \E i \in Held(f) : NextTime(f) = Head(fgt[f].held[i])
         \/ OwnLeft(f) /\ NextTime(f) = fgt[f].made + 1
    BY <1>1, <1>2, NextTimeIs
<1>4. fgt'[f].made = IF OwnLeft(f) /\ NextTime(f) = fgt[f].made + 1 THEN fgt[f].made + 1 ELSE fgt[f].made
    BY <1>1, MadeParts DEF Makes
<1>5. NextTime(f) \in Nat
    <2>1. ASSUME NEW i \in Held(f) PROVE Head(fgt[f].held[i]) \in Nat
        <3>1. i \in Inputs(f) /\ fgt[f].held[i] # <<>>
            BY DEF Held
        <3>2. fgt[f].held[i] \in Seq(Int)
            BY <1>1, <3>1
        <3>3. 1 \in DOMAIN fgt[f].held[i] /\ Head(fgt[f].held[i]) = fgt[f].held[i][1]
            BY <3>1, <3>2
        <3>4. QED
            BY <3>1, <3>3, Zenon DEF OrderInv, Ordered, Holds
    <2>2. QED
        BY <1>1, <1>3, <2>1
<1>6. fgt[f].made < graph.gen[f] <=> OwnLeft(f)
    BY DEF OwnLeft
<1>7. graph.gen[f] \in Nat
    BY <1>1, NodeFacts
<1> DEFINE m == fgt[f].made
           n == fgt'[f].made
           g == graph.gen[f]
           t == NextTime(f)
<1> HIDE DEF m, n, g, t
<1>8. /\ m \in Nat /\ g \in Nat /\ t \in Nat /\ (m < g <=> OwnLeft(f)) /\ (OwnLeft(f) => t <= m + 1)
      /\ n = IF OwnLeft(f) /\ t = m + 1 THEN m + 1 ELSE m
    BY <1>1, <1>3, <1>4, <1>5, <1>6, <1>7 DEF m, n, g, t
<1>9. n \in Nat /\ m <= n /\ (n < g => m < g /\ t < n + 1)
    BY <1>8
<1>10. QED
    BY <1>8, <1>9 DEF m, n, g, t

(* What a filter graph puts out is after a time that it was after. *)
LEMMA MadeKeeps ==
  ASSUME OrderInv, NEW f \in Filters, Makes(f), NEW A, NEW v \in Int, FilterAfter(fgt, f, A, v)
  PROVE  v < NextTime(f) /\ FilterAfter(fgt', f, A, v)
<1>1. FgtTyped(fgt) /\ GraphIs /\ CanMake(f)
    BY TypesOf DEF OrderInv, Makes
<1>2. v < NextTime(f)
    <2>1. ASSUME NEW i \in Held(f) PROVE v < Head(fgt[f].held[i])
        <3>1. i \in Inputs(f) /\ fgt[f].held[i] # <<>> /\ fgt[f].held[i] \in Seq(Int)
            BY <1>1, FilterIs DEF Held
        <3>2. 1 \in DOMAIN fgt[f].held[i] /\ Head(fgt[f].held[i]) = fgt[f].held[i][1]
            BY <3>1
        <3>3. QED
            BY <3>1, <3>2 DEF FilterAfter
    <2>2. OwnLeft(f) => v < fgt[f].made + 1
        BY DEF OwnLeft, FilterAfter
    <2>3. \/ \E i \in Held(f) : NextTime(f) = Head(fgt[f].held[i])
          \/ OwnLeft(f) /\ NextTime(f) = fgt[f].made + 1
        BY <1>1, NextTimeIs
    <2>4. QED
        BY <2>1, <2>2, <2>3
<1>3. ASSUME NEW i \in Inputs(f), NEW k \in DOMAIN fgt'[f].held[i] PROVE v < fgt'[f].held[i][k]
    <2>1. \E d \in Nat : \A l \in DOMAIN fgt'[f].held[i] :
            l + d \in DOMAIN fgt[f].held[i] /\ fgt'[f].held[i][l] = fgt[f].held[i][l + d]
        BY MadeHeld
    <2>2. PICK l \in DOMAIN fgt[f].held[i] : fgt'[f].held[i][k] = fgt[f].held[i][l]
        BY <2>1
    <2>3. QED
        BY <2>2 DEF FilterAfter
<1>4. ASSUME fgt'[f].made < graph.gen[f] PROVE v < fgt'[f].made + 1
    <2>1. /\ fgt[f].made \in Nat /\ fgt'[f].made \in Nat /\ fgt[f].made <= fgt'[f].made
          /\ fgt[f].made < graph.gen[f]
        BY <1>4, MadeOwn
    <2>2. v < fgt[f].made + 1
        BY <2>1 DEF FilterAfter
    <2>3. QED
        BY <2>1, <2>2
<1>5. QED
    BY <1>2, <1>3, <1>4 DEF FilterAfter, Makes

(* After a frame is put out the filter graph is after its time. *)
LEMMA MadeAfter ==
  ASSUME OrderInv, NEW f \in Filters, Makes(f), \A dst \in Dests : Carried(dst) \/ Begun(dst), SourcesKept
  PROVE  /\ FilterAfter(fgt', f, AfterNext(NextTime(f)), NextTime(f))
         /\ Holds(queue', mux', task', fgt', f) /\ Overs(queue', mux', task', fgt', f)
<1> DEFINE t == NextTime(f)
<1>1. TypeInv /\ FgtTyped(fgt) /\ CanMake(f) /\ GraphIs
    BY TypesOf DEF OrderInv, Makes
<1>2. /\ Holds(queue, mux, task, fgt, f) /\ Overs(queue, mux, task, fgt, f)
      /\ fgt[f].held \in [Inputs(f) -> Seq(Int)] /\ fgt[f].over \in SUBSET Inputs(f)
    BY <1>1, FilterIs DEF OrderInv, Ordered
<1>3. \A v \in Int : AfterNow(v) \subseteq AfterNext(v)
    BY AfterKept
<1>4. \A i \in Inputs(f) : \A k \in DOMAIN fgt[f].held[i] :
        fgt[f].held[i][k] \in Nat /\ <<f, i>> \in AfterNow(fgt[f].held[i][k])
    BY <1>2, Zenon DEF Holds, AfterNow
<1>5. t \in Nat /\ (fgt'[f].made < graph.gen[f] => t < fgt'[f].made + 1)
    BY MadeOwn
<1>6. ASSUME NEW i \in Inputs(f) \ fgt'[f].over PROVE <<f, i>> \in AfterNext(t)
    <2>1. fgt[f].held[i] # <<>> /\ fgt[f].held[i] \in Seq(Int)
        BY <1>1, <1>2, <1>6 DEF CanMake, Lacking, Makes
    <2>2. 1 \in DOMAIN fgt[f].held[i] /\ Head(fgt[f].held[i]) = fgt[f].held[i][1] /\ i \in Held(f)
        BY <2>1 DEF Held
    <2> DEFINE h == fgt[f].held[i][1]
    <2>3. h \in Nat /\ <<f, i>> \in AfterNow(h)
        BY <1>4, <2>2
    <2>4. t <= h
        BY <1>1, <2>2, NextTimeIs
    <2> HIDE DEF h, t
    <2>5. AfterNow(h) \subseteq AfterNow(t)
        BY <1>1, <1>5, <2>3, <2>4, AfterEarlier
    <2>6. t \in Int
        BY <1>5
    <2>7. QED
        BY <1>3, <2>3, <2>5, <2>6
<1>7. \A i \in Inputs(f) : \A k \in DOMAIN fgt'[f].held[i] : t < fgt'[f].held[i][k]
    BY MadeHeld
<1>8. FilterAfter(fgt', f, AfterNext(t), t)
    BY <1>5, <1>6, <1>7 DEF FilterAfter
<1>9. Holds(queue', mux', task', fgt', f)
    <2>1. SUFFICES ASSUME NEW i \in Inputs(f), NEW k \in DOMAIN fgt'[f].held[i]
                   PROVE  /\ fgt'[f].held[i][k] \in Nat /\ <<f, i>> \in AfterNext(fgt'[f].held[i][k])
                          /\ \A l \in DOMAIN fgt'[f].held[i] :
                               k < l => fgt'[f].held[i][k] < fgt'[f].held[i][l]
        BY Zenon DEF Holds, AfterNext
    <2>2. PICK d \in Nat : \A l \in DOMAIN fgt'[f].held[i] :
            /\ l \in Int /\ l + d \in DOMAIN fgt[f].held[i]
            /\ fgt'[f].held[i][l] = fgt[f].held[i][l + d]
        BY MadeHeld
    <2>3. fgt'[f].held[i][k] \in Nat /\ <<f, i>> \in AfterNow(fgt'[f].held[i][k])
        BY <1>4, <2>2
    <2>4. <<f, i>> \in AfterNext(fgt'[f].held[i][k])
        BY <1>3, <2>3
    <2>5. ASSUME NEW l \in DOMAIN fgt'[f].held[i], k < l
          PROVE  fgt'[f].held[i][k] < fgt'[f].held[i][l]
        <3>1. \A a, b \in DOMAIN fgt[f].held[i] : a < b => fgt[f].held[i][a] < fgt[f].held[i][b]
            BY <1>2, Zenon DEF Holds
        <3>2. k + d \in DOMAIN fgt[f].held[i] /\ l + d \in DOMAIN fgt[f].held[i] /\ k + d < l + d
            BY <2>2, <2>5
        <3>3. QED
            BY <2>2, <3>1, <3>2
    <2>6. QED
        BY <2>3, <2>4, <2>5
<1>10. Overs(queue', mux', task', fgt', f)
    <2>1. ASSUME NEW i \in fgt[f].over
          PROVE  \E v \in Int : (v = EofFrame \/ v >= graph.trim[f][i]) /\ <<f, i>> \in AfterNext(v)
        <3>1. PICK v \in Int : (v = EofFrame \/ v >= graph.trim[f][i]) /\ <<f, i>> \in AfterNow(v)
            BY <1>2 DEF Overs, AfterNow
        <3>2. QED
            BY <1>3, <3>1
    <2>2. QED
        BY <2>1 DEF Overs, AfterNext, Makes
<1>11. QED
    BY <1>8, <1>9, <1>10

(* The sources are kept when a filter graph keeps what comes after a time. *)
LEMMA FilterSources ==
  ASSUME TypeInv, TaskTyped(task'), \A n \in Nodes : GoesOn(n), NEW f \in Filters,
         \A g \in Filters \ {f} : fgt'[g] = fgt[g],
         \A A \in SUBSET Dests : \A v \in Int :
           (SafeNow(A, v) /\ FilterAfter(fgt, f, A, v) /\ \A k \in DOMAIN fgt[f].sink : v < fgt[f].sink[k]) =>
             FilterAfter(fgt', f, A, v) /\ \A k \in DOMAIN fgt'[f].sink : v < fgt'[f].sink[k]
  PROVE  SourcesKept
<1>1. SUFFICES ASSUME NEW A \in SUBSET Dests, NEW v \in Int, SafeNow(A, v), NEW dst \in Dests,
                      SourceNow(dst, A, v)
               PROVE  SourceNext(dst, A, v)
    BY DEF SourcesKept
<1>2. SrcOf(dst) \in Nodes /\ GoesOn(SrcOf(dst))
    BY SourceOfDest DEF TypeInv
<1>3. CASE dst \notin task'[SrcOf(dst)].finished /\ Going(task', SrcOf(dst))
    <2>1. dst \notin task[SrcOf(dst)].finished /\ Going(task, SrcOf(dst))
        BY <1>2, <1>3 DEF GoesOn
    <2>2. ASSUME SrcOf(dst) \in Filters
          PROVE  /\ \A k \in DOMAIN fgt'[SrcOf(dst)].sink : v < fgt'[SrcOf(dst)].sink[k]
                 /\ FilterAfter(fgt', SrcOf(dst), A, v)
        <3>1. /\ \A k \in DOMAIN fgt[SrcOf(dst)].sink : v < fgt[SrcOf(dst)].sink[k]
              /\ FilterAfter(fgt, SrcOf(dst), A, v)
            BY <1>1, <2>1, <2>2 DEF SourceNow, SourceAfter
        <3>2. CASE SrcOf(dst) = f
            BY <1>1, <3>1, <3>2
        <3>3. CASE SrcOf(dst) # f
            BY <2>2, <3>1, <3>3 DEF FilterAfter
        <3>4. QED
            BY <3>2, <3>3
    <2>3. QED
        BY <1>1, <1>2, <2>2, SourceKept
<1>4. CASE ~(dst \notin task'[SrcOf(dst)].finished /\ Going(task', SrcOf(dst)))
    BY <1>4 DEF SourceNext, SourceAfter
<1>5. QED
    BY <1>3, <1>4

(* A frame goes to all the outputs of a filter graph.                      *)
SendFrame(f, t) == FlattenSeq([o \in 1 .. Len(graph.out[f]) |-> SendAll(f, o, t)])

(* A frame is sent to each destination once. *)
LEMMA FrameOnce ==
  ASSUME TypeInv, NEW f \in Nodes, NEW t \in Int, task'[f].todo = SendFrame(f, t)
  PROVE  Once(f, t)
<1> DEFINE s == [o \in 1 .. Len(graph.out[f]) |-> SendAll(f, o, t)]
           flat == task'[f].todo
<1>1. GraphIs /\ Len(graph.out[f]) \in Nat
    BY DstsFacts DEF TypeInv
<1>2. \A o \in 1 .. Len(graph.out[f]) : SendAll(f, o, t) \in Seq(Jobs(f))
    BY <1>1, SendAllTyped
<1>3. s \in Seq(Seq(Jobs(f))) /\ Len(s) = Len(graph.out[f])
    BY <1>1, <1>2, SMTT(30)
<1>4. ASSUME NEW o \in 1 .. Len(graph.out[f])
      PROVE  /\ Len(s[o]) = Len(graph.out[f][o])
             /\ \A k \in 1 .. Len(s[o]) : /\ s[o][k].do = "send" /\ s[o][k].t = t
                                          /\ s[o][k].dst = graph.out[f][o][k]
    <2>1. Len(graph.out[f][o]) \in Nat
        <3>1. graph.out[f][o] \in Seq(Nodes \X Nat)
            BY <1>1, DstsFacts
        <3>2. QED
            BY <3>1
    <2>2. s[o] = SendAll(f, o, t)
        OBVIOUS
    <2>3. QED
        BY <2>1, <2>2 DEF SendAll, Job
<1>5. flat = FlattenSeq(s)
    BY DEF SendFrame
<1> HIDE DEF s, flat
<1>6. PICK row, col : Locates(s, Len(s), flat, row, col)
    BY <1>3, <1>5, FlattenLocates
<1>7. ASSUME NEW p \in DOMAIN flat
      PROVE  /\ row[p] \in 1 .. Len(graph.out[f]) /\ col[p] \in 1 .. Len(graph.out[f][row[p]])
             /\ flat[p].do = "send" /\ flat[p].t = t /\ flat[p].dst = graph.out[f][row[p]][col[p]]
    <2>1. row[p] \in 1 .. Len(s) /\ col[p] \in 1 .. Len(s[row[p]]) /\ flat[p] = s[row[p]][col[p]]
        BY <1>6 DEF Locates
    <2>2. row[p] \in 1 .. Len(graph.out[f])
        BY <1>3, <2>1
    <2>3. /\ col[p] \in 1 .. Len(graph.out[f][row[p]]) /\ s[row[p]][col[p]].do = "send"
          /\ s[row[p]][col[p]].t = t /\ s[row[p]][col[p]].dst = graph.out[f][row[p]][col[p]]
        BY <1>4, <2>1, <2>2
    <2>4. QED
        BY <2>1, <2>2, <2>3
<1>8. ASSUME NEW p \in DOMAIN flat, NEW q \in DOMAIN flat, flat[p].dst = flat[q].dst
      PROVE  p = q
    <2>1. /\ row[p] \in 1 .. Len(graph.out[f]) /\ col[p] \in 1 .. Len(graph.out[f][row[p]])
          /\ row[q] \in 1 .. Len(graph.out[f]) /\ col[q] \in 1 .. Len(graph.out[f][row[q]])
          /\ graph.out[f][row[p]][col[p]] = graph.out[f][row[q]][col[q]]
        BY <1>7, <1>8
    <2>2. PICK o \in 1 .. Len(graph.out[f]) : o = row[p]
        BY <2>1
    <2>3. PICK r \in 1 .. Len(graph.out[f]) : r = row[q]
        BY <2>1
    <2>4. PICK k \in 1 .. Len(graph.out[f][o]) : k = col[p]
        BY <2>1, <2>2
    <2>5. PICK l \in 1 .. Len(graph.out[f][r]) : l = col[q]
        BY <2>1, <2>3
    <2>6. o = r /\ k = l
        <3>1. graph.out[f][o][k] = graph.out[f][r][l]
            BY <2>1, <2>2, <2>3, <2>4, <2>5
        <3>2. GraphIs
            BY <1>1
        <3>3. o = r
            BY <3>1, <3>2, OnePlaceIn, Zenon
        <3>4. k = l
            <4>1. l \in 1 .. Len(graph.out[f][o]) /\ graph.out[f][o][k] = graph.out[f][o][l]
                BY <3>1, <3>3
            <4>2. QED
                BY <3>2, <4>1, OnePlaceIn
        <3>5. QED
            BY <3>3, <3>4
    <2>7. row[p] = row[q] /\ col[p] = col[q]
        BY <2>2, <2>3, <2>4, <2>5, <2>6
    <2>8. QED
        BY <1>6, <2>7 DEF Locates
<1>9. QED
    BY <1>7, <1>8 DEF Once, flat

(* Sending a frame of a filter graph keeps the order. *)
LEMMA OrderFrame ==
  ASSUME OrderInv, TypeInv', UNCHANGED <<graph, mux, queue>>, NEW f \in Filters, Going(task, f),
         NEW t \in Nat, task' = Become(f, "reap", SendFrame(f, t)),
         \A g \in Filters \ {f} : fgt'[g] = fgt[g], fgt'[f].got, fgt'[f].sink = <<>>, SourcesKept,
         \A A \in SUBSET Dests : \A v \in Int :
           (FilterAfter(fgt, f, A, v) /\ \A k \in DOMAIN fgt[f].sink : v < fgt[f].sink[k]) => v < t,
         (\A dst \in Dests : Carried(dst) \/ Begun(dst)) =>
           /\ FilterAfter(fgt', f, AfterNext(t), t)
           /\ Holds(queue', mux', task', fgt', f) /\ Overs(queue', mux', task', fgt', f)
  PROVE  OrderNext
<1>1. /\ TypeInv /\ f \in Nodes /\ GraphIs /\ t \in Int /\ t # NoTime /\ t # EofFrame
      /\ f \notin Demuxers /\ f \notin OfKind("dec") \cup OfKind("enc")
    BY Kinds5, KindOf, TypesOf DEF OrderInv, NoTime, EofFrame
<1>2. /\ task'[f].todo = SendFrame(f, t) /\ task'[f].finished = task[f].finished
      /\ \A x \in Nodes \ {f} : task'[x] = task[x]
    BY <1>1, BecomeIs
<1>3. Once(f, t)
    BY <1>1, <1>2, FrameOnce
<1>4. Begins(f, t)
    <2>1. \A dst \in Dests : QueueBy(dst, None, 0)
        BY <1>1, QueueStill
    <2>2. \E d \in Int : \A dst \in Dests : dst[1] = f => QueueBy(dst, None, d)
        BY <2>1, 0 \in Int
    <2>3. QED
        BY <1>2, <1>3, <2>2 DEF Begins
<1>5. ASSUME NEW dst \in Range(Dsts(f)) \ task[f].finished
      PROVE  SrcOf(dst) = f /\ Follows(dst, t)
    <2>1. SrcOf(dst) = f
        BY <1>1, DestFacts
    <2>2. ASSUME NEW A \in SUBSET Dests, NEW v \in Int, SourceNow(dst, A, v)
          PROVE  Before(v, t)
        <3>1. /\ v # EofFrame /\ FilterAfter(fgt, f, A, v)
              /\ \A k \in DOMAIN fgt[f].sink : v < fgt[f].sink[k]
            BY <1>5, <2>1, <2>2 DEF SourceNow, SourceAfter
        <3>2. v < t
            BY <3>1
        <3>3. QED
            BY <3>1, <3>2 DEF Before
    <2>3. QED
        BY <2>1, <2>2 DEF Follows
<1>6. \A dst \in Dests : Carried(dst) \/ Begun(dst)
    BY <1>1, <1>4, <1>5, BeginsLines
<1>7. /\ FilterAfter(fgt', f, AfterNext(t), t)
      /\ Holds(queue', mux', task', fgt', f) /\ Overs(queue', mux', task', fgt', f)
    BY <1>6
<1>8. Sinks(queue', mux', task', fgt', f)
    BY DEF Sinks
<1>9. ASSUME NEW dst \in Range(Dsts(f)) \ task[f].finished
      PROVE  Timed(dst, t) /\ SourceNext(dst, AfterNext(t), t)
    <2>1. Timed(dst, t)
        BY DEF Timed
    <2>2. \A k \in DOMAIN fgt'[f].sink : t < fgt'[f].sink[k]
        OBVIOUS
    <2>3. SourceNext(dst, AfterNext(t), t)
        BY <1>1, <1>5, <1>7, <2>2 DEF SourceNext, SourceAfter
    <2>4. QED
        BY <2>1, <2>3
<1>10. QED
    BY <1>1, <1>4, <1>5, <1>7, <1>8, <1>9, OrderEmit

(* A thread that takes up jobs goes on. *)
LEMMA BecomeGoesOn ==
  ASSUME TypeInv, TypeInv', UNCHANGED graph, NEW n \in Nodes, NEW at, NEW jobs, task' = Become(n, at, jobs),
         Going(task, n)
  PROVE  TaskTyped(task') /\ \A x \in Nodes : GoesOn(x)
<1>1. TaskTyped(task')
    BY TypedAfter
<1>2. /\ task'[n].finished = task[n].finished /\ task'[n].pos = task[n].pos
      /\ \A x \in Nodes \ {n} : task'[x] = task[x]
    BY BecomeIs
<1>3. \A x \in Nodes : task[x].pos \in Int
    BY TaskIs
<1>4. QED
    BY <1>1, <1>2, <1>3 DEF GoesOn, Going

(* FilterReap keeps the order. *)
LEMMA OrderReap ==
  ASSUME OrderInv, TypeInv', NEW f \in Filters, FilterReap(f)
  PROVE  OrderNext
<1>1. TypeInv /\ f \in Nodes /\ FgtTyped(fgt) /\ UNCHANGED <<graph, mux, queue>> /\ Going(task, f)
    BY Kinds5, TypesOf DEF FilterReap, others, OrderInv, At, Going
<1>2. \A at, jobs : task' = Become(f, at, jobs) => TaskTyped(task') /\ \A x \in Nodes : GoesOn(x)
    BY <1>1, BecomeGoesOn
<1>3. CASE /\ fgt[f].sink # <<>>
           /\ task' = Become(f, "reap", SendFrame(f, Head(fgt[f].sink)))
           /\ fgt' = [fgt EXCEPT ![f].sink = <<>>, ![f].got = TRUE]
    <2> DEFINE t == Head(fgt[f].sink)
    <2>1. /\ fgt'[f].held = fgt[f].held /\ fgt'[f].over = fgt[f].over /\ fgt'[f].made = fgt[f].made
          /\ fgt'[f].sink = <<>> /\ fgt'[f].got /\ \A g \in Filters \ {f} : fgt'[g] = fgt[g]
        BY <1>1, <1>3 DEF FgtTyped, FgtT
    <2>2. 1 \in DOMAIN fgt[f].sink /\ t = fgt[f].sink[1]
        <3>1. fgt[f].sink \in Seq(Int)
            BY <1>1, FilterIs
        <3>2. QED
            BY <1>3, <3>1
    <2>3. t \in Nat /\ FilterAfter(fgt, f, AfterNow(t), t)
        BY <2>2, Zenon DEF OrderInv, Ordered, Sinks, AfterNow
    <2>4. SourcesKept
        <3>1. TaskTyped(task') /\ \A x \in Nodes : GoesOn(x)
            BY <1>2, <1>3
        <3>2. QED
            BY <1>1, <2>1, <3>1, CalmSources
    <2> HIDE DEF t
    <2>5. ASSUME \A dst \in Dests : Carried(dst) \/ Begun(dst)
          PROVE  /\ FilterAfter(fgt', f, AfterNext(t), t)
                 /\ Holds(queue', mux', task', fgt', f) /\ Overs(queue', mux', task', fgt', f)
        <3>1. Holds(queue', mux', task', fgt', f) /\ Overs(queue', mux', task', fgt', f)
            BY <1>1, <2>1, <2>4, <2>5, FilterKept DEF OrderInv
        <3>2. AfterNow(t) \subseteq AfterNext(t)
            BY <2>3, <2>4, <2>5, AfterKept
        <3>3. FilterAfter(fgt, f, AfterNext(t), t)
            BY <2>3, <3>2, SourceMonotone
        <3>4. FilterAfter(fgt', f, AfterNext(t), t)
            BY <2>1, <3>3 DEF FilterAfter
        <3>5. QED
            BY <3>1, <3>4
    <2>6. task' = Become(f, "reap", SendFrame(f, t))
        BY <1>3 DEF t
    <2>7. QED
        BY <1>1, <2>1, <2>2, <2>3, <2>4, <2>5, <2>6, OrderFrame
<1>4. CASE /\ fgt[f].sink = <<>> /\ CanMake(f)
           /\ task' = Become(f, "reap", SendFrame(f, NextTime(f)))
           /\ fgt' = [fgt EXCEPT ![f] = [Made(f) EXCEPT !.got = TRUE]]
    <2> DEFINE t == NextTime(f)
    <2>1. /\ Makes(f) /\ fgt'[f].sink = <<>> /\ fgt'[f].got /\ \A g \in Filters \ {f} : fgt'[g] = fgt[g]
        <3>1. /\ Made(f).over = fgt[f].over /\ Made(f).sink = fgt[f].sink
              /\ DOMAIN Made(f) = {"next_in", "held", "over", "made", "sink", "got"}
            BY <1>1, MadeParts
        <3>2. DOMAIN fgt = Filters
            BY <1>1 DEF FgtTyped
        <3> DEFINE m == Made(f)
        <3>3. fgt' = [fgt EXCEPT ![f] = [m EXCEPT !.got = TRUE]]
            BY <1>4
        <3> HIDE DEF m
        <3>4. fgt'[f] = [m EXCEPT !.got = TRUE] /\ \A g \in Filters \ {f} : fgt'[g] = fgt[g]
            BY <3>2, <3>3
        <3>5. DOMAIN m = {"next_in", "held", "over", "made", "sink", "got"}
            BY <3>1 DEF m
        <3>6. /\ fgt'[f].held = m.held /\ fgt'[f].made = m.made /\ fgt'[f].over = m.over
              /\ fgt'[f].sink = m.sink /\ fgt'[f].got = TRUE
            BY <3>4, <3>5
        <3>7. QED
            BY <1>4, <3>1, <3>4, <3>6 DEF m, Makes
    <2>2. t \in Nat
        BY <2>1, MadeOwn
    <2>3. SourcesKept
        <3>1. TaskTyped(task') /\ \A x \in Nodes : GoesOn(x)
            BY <1>2, <1>4
        <3>2. ASSUME NEW A \in SUBSET Dests, NEW v \in Int, FilterAfter(fgt, f, A, v)
              PROVE  FilterAfter(fgt', f, A, v) /\ \A k \in DOMAIN fgt'[f].sink : v < fgt'[f].sink[k]
            BY <2>1, <3>2, MadeKeeps
        <3>3. QED
            BY <1>1, <2>1, <3>1, <3>2, FilterSources
    <2>4. ASSUME NEW A \in SUBSET Dests, NEW v \in Int, FilterAfter(fgt, f, A, v) PROVE v < t
        BY <2>1, <2>4, MadeKeeps
    <2>5. ASSUME \A dst \in Dests : Carried(dst) \/ Begun(dst)
          PROVE  /\ FilterAfter(fgt', f, AfterNext(t), t)
                 /\ Holds(queue', mux', task', fgt', f) /\ Overs(queue', mux', task', fgt', f)
        BY <2>1, <2>3, <2>5, MadeAfter
    <2> HIDE DEF t
    <2>6. task' = Become(f, "reap", SendFrame(f, t))
        BY <1>4 DEF t
    <2>7. QED
        BY <1>1, <2>1, <2>2, <2>3, <2>4, <2>5, <2>6, OrderFrame
<1>5. CASE task' = Become(f, "request", <<>>) /\ UNCHANGED fgt
    BY <1>1, <1>5, OrderIdle
<1>6. QED
    BY <1>3, <1>4, <1>5 DEF FilterReap, SendFrame

(* A step of a filter graph in which it sends nothing.                     *)
LEMMA OrderQuiet ==
  ASSUME OrderInv, TypeInv', UNCHANGED <<graph, mux>>, NEW f \in Filters, \A n \in Nodes : Carries(n),
         \A dst \in Dests : Carried(dst), \A g \in Filters \ {f} : fgt'[g] = fgt[g],
         fgt[f].got => fgt'[f].got, SourcesKept,
         Holds(queue', mux', task', fgt', f), Overs(queue', mux', task', fgt', f),
         Sinks(queue', mux', task', fgt', f)
  PROVE  OrderNext
<1>1. TypeInv /\ Ordered(queue, mux, task, fgt) /\ Opening(mux, task, fgt) /\ TaskTyped(task')
    BY TypedAfter DEF OrderInv
<1>2. ASSUME NEW g \in Filters
      PROVE  /\ Holds(queue', mux', task', fgt', g) /\ Overs(queue', mux', task', fgt', g)
             /\ Sinks(queue', mux', task', fgt', g)
    <2>1. CASE g = f
        BY <2>1
    <2>2. CASE g # f
        BY <1>1, <2>2, FilterKept
    <2>3. QED
        BY <2>1, <2>2
<1>3. Ordered(queue', mux', task', fgt')
    BY <1>1, <1>2, OrderedNext
<1>4. \A g \in Filters : fgt[g].got => fgt'[g].got
    OBVIOUS
<1>5. Flushed(mux') /\ \A m \in Muxers : mux'[m].ready = mux[m].ready
    BY <1>1 DEF Opening
<1>6. Opening(mux', task', fgt')
    BY <1>1, <1>4, <1>5, OpeningKept
<1>7. QED
    BY <1>3, <1>6 DEF OrderNext

(* Putting a frame into the sink on request keeps the order. *)
LEMMA OrderAskedFor ==
  ASSUME OrderInv, TypeInv', UNCHANGED <<graph, mux, queue>>, NEW f \in Filters, Going(task, f), CanMake(f),
         fgt' = [fgt EXCEPT ![f] = [Made(f) EXCEPT !.sink = <<NextTime(f)>>, !.next_in = NoInput]],
         NEW jobs, \A job \in Range(jobs) : job.do # "send", task' = Become(f, "run", jobs)
  PROVE  OrderNext
<1> DEFINE t == NextTime(f)
<1>1. TypeInv /\ f \in Nodes /\ FgtTyped(fgt)
    BY Kinds5, TypesOf DEF OrderInv
<1>2. /\ Makes(f) /\ fgt'[f].sink = <<t>> /\ fgt'[f].got = fgt[f].got
      /\ \A g \in Filters \ {f} : fgt'[g] = fgt[g]
    <2>1. /\ Made(f).over = fgt[f].over /\ Made(f).got = fgt[f].got
          /\ DOMAIN Made(f) = {"next_in", "held", "over", "made", "sink", "got"}
        BY <1>1, MadeParts
    <2>2. DOMAIN fgt = Filters
        BY <1>1 DEF FgtTyped
    <2> DEFINE m == Made(f)
               s == <<t>>
               z == NoInput
    <2>3. fgt' = [fgt EXCEPT ![f] = [m EXCEPT !.sink = s, !.next_in = z]]
        OBVIOUS
    <2>5. DOMAIN m = {"next_in", "held", "over", "made", "sink", "got"}
        BY <2>1
    <2> HIDE DEF m, t, s, z
    <2> DEFINE e == [m EXCEPT !.sink = s, !.next_in = z]
    <2>6. /\ e.held = m.held /\ e.made = m.made /\ e.over = m.over
          /\ e.sink = s /\ e.got = m.got
        BY <2>5
    <2> HIDE DEF e
    <2>4. fgt'[f] = e /\ \A g \in Filters \ {f} : fgt'[g] = fgt[g]
        BY <2>2, <2>3 DEF e
    <2>8. /\ fgt'[f].held = m.held /\ fgt'[f].made = m.made /\ fgt'[f].over = m.over
          /\ fgt'[f].sink = s /\ fgt'[f].got = m.got
        BY <2>4, <2>6
    <2>7. QED
        BY <2>1, <2>4, <2>8 DEF m, s, Makes
<1>3. t \in Nat
    BY <1>2, MadeOwn
<1>4. \A n \in Nodes : Carries(n)
    BY <1>1, BecomeMoves
<1>5. ASSUME NEW dst \in Dests PROVE Carried(dst)
    <2>1. dst[1] \in Receivers
        BY <1>1, SourceOfDest, WayFacts DEF TypeInv
    <2>2. QED
        BY <1>1, <1>4, <2>1, StillCarried
<1>6. SourcesKept
    <2>1. TaskTyped(task') /\ \A x \in Nodes : GoesOn(x)
        BY <1>1, BecomeGoesOn
    <2>2. ASSUME NEW A \in SUBSET Dests, NEW v \in Int, FilterAfter(fgt, f, A, v)
          PROVE  FilterAfter(fgt', f, A, v) /\ \A k \in DOMAIN fgt'[f].sink : v < fgt'[f].sink[k]
        <3>1. v < t /\ FilterAfter(fgt', f, A, v)
            BY <1>2, <2>2, MadeKeeps
        <3>2. \A k \in DOMAIN fgt'[f].sink : fgt'[f].sink[k] = t
            BY <1>2
        <3>3. QED
            BY <3>1, <3>2
    <2>3. QED
        BY <1>1, <1>2, <2>1, <2>2, FilterSources
<1>7. /\ FilterAfter(fgt', f, AfterNext(t), t)
      /\ Holds(queue', mux', task', fgt', f) /\ Overs(queue', mux', task', fgt', f)
    BY <1>2, <1>5, <1>6, MadeAfter
<1>8. Sinks(queue', mux', task', fgt', f)
    <2>1. \A k \in DOMAIN fgt'[f].sink : fgt'[f].sink[k] = t
        BY <1>2
    <2>2. QED
        BY <1>3, <1>7, <2>1 DEF Sinks, AfterNext
<1>9. QED
    BY <1>2, <1>4, <1>5, <1>6, <1>7, <1>8, OrderQuiet

(* FilterRequest keeps the order. *)
LEMMA OrderRequest ==
  ASSUME OrderInv, TypeInv', NEW f \in Filters, FilterRequest(f)
  PROVE  OrderNext
<1> DEFINE closes == SetToSeq(Reports(f))
<1>1. f \in Nodes /\ UNCHANGED <<graph, mux, queue>> /\ Going(task, f)
    BY Kinds5 DEF FilterRequest, others, At, Going, OrderInv
<1>2. \A job \in Range(closes) : job.do # "send"
    BY ReportsAre DEF OrderInv
<1>3. \/ /\ CanMake(f)
         /\ fgt' = [fgt EXCEPT ![f] = [Made(f) EXCEPT !.sink = <<NextTime(f)>>, !.next_in = NoInput]]
         /\ task' = Become(f, "run", closes)
      \/ task' = Become(f, "close", <<>>) /\ UNCHANGED fgt
      \/ /\ \E i \in Lacking(f) : fgt' = [fgt EXCEPT ![f].next_in = i]
         /\ task' = Become(f, "run", closes)
    <2>1. Asked(f) \subseteq Lacking(f)
        BY DEF Asked
    <2>2. QED
        BY <2>1 DEF FilterRequest, Reports
<1> HIDE DEF closes
<1>4. CASE /\ CanMake(f)
           /\ fgt' = [fgt EXCEPT ![f] = [Made(f) EXCEPT !.sink = <<NextTime(f)>>, !.next_in = NoInput]]
           /\ task' = Become(f, "run", closes)
    BY <1>1, <1>2, <1>4, OrderAskedFor
<1>5. CASE task' = Become(f, "close", <<>>) /\ UNCHANGED fgt
    BY <1>1, <1>5, OrderIdle
<1>6. CASE /\ \E i \in Lacking(f) : fgt' = [fgt EXCEPT ![f].next_in = i]
           /\ task' = Become(f, "run", closes)
    BY <1>1, <1>2, <1>6, OrderWaitsFor
<1>7. QED
    BY <1>3, <1>4, <1>5, <1>6

(* A filter graph takes a frame from its queue.  It comes after what all   *)
(* that the input gets comes after; so an input that is over has none that *)
(* the graph would take.                                                   *)
Late(f, i, t) == t = EofFrame \/ t >= graph.trim[f][i]
Takes(f, i, t) ==
  /\ fgt'[f].made = fgt[f].made /\ fgt'[f].sink = fgt[f].sink /\ fgt'[f].got = fgt[f].got
  /\ \A g \in Filters \ {f} : fgt'[g] = fgt[g]
  /\ Late(f, i, t) => fgt'[f].over = fgt[f].over \cup {i} /\ fgt'[f].held = fgt[f].held
  /\ ~Late(f, i, t) => /\ fgt'[f].over = fgt[f].over /\ fgt'[f].held[i] = Append(fgt[f].held[i], t)
                       /\ \A j \in Inputs(f) \ {i} : fgt'[f].held[j] = fgt[f].held[j]

(* What is taken from a safe input is after the time. *)
LEMMA BeforeTaken ==
  ASSUME OrderInv, NEW n \in Receivers, Wanted(n) # {}, NEW i, i = Item(n)[1], NEW t, t = Item(n)[2],
         NEW A, NEW v, SafeNow(A, v), <<n, i>> \in A
  PROVE  Before(v, t)
<1>1. HasNow(<<n, i>>, <<2, First(n)>>, t) /\ t \in Int /\ First(n) \in Int
    BY TakenTime
<1>2. <<2, First(n)>> \in Slots /\ <<2, First(n)>>[1] # 1
    BY <1>1 DEF Slots
<1>3. LineNow(<<n, i>>, v)
    BY DEF SafeNow, Safe, LineNow
<1>4. QED
    BY <1>1, <1>2, <1>3 DEF LineNow, LineAfter, HasNow

(* The time at which an input is cut off is a natural number. *)
LEMMA TrimIs ==
  ASSUME TypeInv, NEW f \in Filters, NEW i \in Inputs(f)
  PROVE  graph.trim[f][i] \in Nat
<1>1. f \in Nodes /\ GraphIs /\ graph.kind[f] = "filter"
    BY Kinds5, NodeFacts, TypesOf DEF Filters
<1>2. <<f, i>> \in Dests
    BY <1>1, InputFacts
<1>3. SrcOf(<<f, i>>) \in Nodes /\ <<f, i>> \in Range(Dsts(SrcOf(<<f, i>>)))
    BY <1>1, <1>2, SourceOfDest
<1>4. QED
    BY <1>1, <1>3, DestFacts

(* An input whose frame is not late is not over. *)
LEMMA NotOver ==
  ASSUME OrderInv, NEW f \in Filters, Wanted(f) # {}, NEW i, i = Item(f)[1], NEW t, t = Item(f)[2],
         ~Late(f, i, t)
  PROVE  i \notin fgt[f].over /\ t \in Nat
<1>1. TypeInv /\ f \in Receivers
    BY Kinds5 DEF OrderInv
<1>2. t \in Int /\ i \in Inputs(f) /\ Timed(<<f, i>>, t)
    BY <1>1, TakenTime
<1>3. t \in Nat
    BY <1>2 DEF Timed, Late
<1>4. graph.trim[f][i] \in Nat
    BY <1>1, <1>2, TrimIs
<1>5. ASSUME i \in fgt[f].over PROVE FALSE
    <2>1. PICK w \in Int : (w = EofFrame \/ w >= graph.trim[f][i]) /\ <<f, i>> \in AfterNow(w)
        BY <1>5 DEF OrderInv, Ordered, Overs, AfterNow
    <2>2. SafeNow(AfterNow(w), w)
        BY AfterSafe
    <2>3. Before(w, t)
        BY <1>1, <2>1, <2>2, BeforeTaken
    <2>4. QED
        BY <1>3, <1>4, <2>1, <2>3 DEF Before, Late
<1>6. QED
    BY <1>3, <1>5

(* A filter graph that takes a frame stays after every time it was after. *)
LEMMA ReceiveKeeps ==
  ASSUME OrderInv, NEW f \in Filters, Wanted(f) # {}, NEW i, i = Item(f)[1], NEW t, t = Item(f)[2],
         Takes(f, i, t), NEW A, NEW v \in Int, SafeNow(A, v), FilterAfter(fgt, f, A, v)
  PROVE  FilterAfter(fgt', f, A, v)
<1>1. TypeInv /\ f \in Receivers /\ FgtTyped(fgt)
    BY Kinds5, TypesOf DEF OrderInv
<1>2. i \in Inputs(f) /\ fgt[f].held \in [Inputs(f) -> Seq(Int)]
    BY <1>1, TakenTime, FilterIs, Zenon
<1>3. CASE Late(f, i, t)
    BY <1>3 DEF Takes, FilterAfter
<1>4. CASE ~Late(f, i, t)
    <2>1. i \notin fgt[f].over /\ t \in Nat
        BY <1>4, NotOver
    <2>2. <<f, i>> \in A
        BY <1>2, <2>1 DEF FilterAfter
    <2>3. Before(v, t)
        BY <1>1, <2>2, BeforeTaken
    <2>4. v < t
        BY <2>1, <2>3 DEF Before, EofFrame
    <2>5. ASSUME NEW j \in Inputs(f), NEW k \in DOMAIN fgt'[f].held[j] PROVE v < fgt'[f].held[j][k]
        <3>1. CASE j # i
            BY <1>4, <2>5, <3>1 DEF Takes, FilterAfter
        <3>2. CASE j = i
            <4>1. fgt'[f].held[i] = Append(fgt[f].held[i], t) /\ fgt[f].held[i] \in Seq(Int)
                BY <1>2, <1>4, Zenon DEF Takes
            <4>2. \A l \in DOMAIN fgt[f].held[i] : v < fgt[f].held[i][l]
                BY <1>2, SMTT(30) DEF FilterAfter
            <4> DEFINE h == fgt[f].held[i]
                       r == fgt'[f].held[i]
            <4> HIDE DEF h, r
            <4>3. r = Append(h, t) /\ h \in Seq(Int) /\ \A l \in DOMAIN h : v < h[l]
                BY <4>1, <4>2, Zenon DEF h, r
            <4>4. \A l \in DOMAIN r : v < r[l]
                BY <2>4, <4>3
            <4>5. QED
                BY <2>5, <3>2, <4>4, SMTT(30) DEF r
        <3>3. QED
            BY <3>1, <3>2, SMTT(30)
    <2>6. QED
        BY <1>4, <2>5, Zenon DEF Takes, FilterAfter
<1>5. QED
    BY <1>3, <1>4

(* What it holds then is in order.                                         *)
LEMMA TakenHolds ==
  ASSUME OrderInv, NEW f \in Filters, Wanted(f) # {}, NEW i, i = Item(f)[1], NEW t, t = Item(f)[2],
         Takes(f, i, t), \A dst \in Dests : Carried(dst) \/ Begun(dst), SourcesKept, <<f, i>> \in AfterNext(t)
  PROVE  Holds(queue', mux', task', fgt', f)
<1>1. TypeInv /\ f \in Receivers /\ FgtTyped(fgt)
    BY Kinds5, TypesOf DEF OrderInv
<1>2. i \in Inputs(f) /\ fgt[f].held \in [Inputs(f) -> Seq(Int)]
    BY <1>1, TakenTime, FilterIs
<1>3. \A v \in Int : AfterNow(v) \subseteq AfterNext(v)
    BY AfterKept
<1>4. \A j \in Inputs(f) : \A k \in DOMAIN fgt[f].held[j] :
        /\ fgt[f].held[j][k] \in Nat /\ <<f, j>> \in AfterNow(fgt[f].held[j][k])
        /\ \A l \in DOMAIN fgt[f].held[j] : k < l => fgt[f].held[j][k] < fgt[f].held[j][l]
    BY Zenon DEF OrderInv, Ordered, Holds, AfterNow
<1>5. ASSUME NEW j \in Inputs(f), fgt'[f].held[j] = fgt[f].held[j], NEW k \in DOMAIN fgt'[f].held[j]
      PROVE  /\ fgt'[f].held[j][k] \in Nat /\ <<f, j>> \in AfterNext(fgt'[f].held[j][k])
             /\ \A l \in DOMAIN fgt'[f].held[j] : k < l => fgt'[f].held[j][k] < fgt'[f].held[j][l]
    <2>1. /\ fgt'[f].held[j][k] \in Nat /\ <<f, j>> \in AfterNow(fgt'[f].held[j][k])
          /\ \A l \in DOMAIN fgt'[f].held[j] : k < l => fgt'[f].held[j][k] < fgt'[f].held[j][l]
        BY <1>4, <1>5
    <2>2. fgt'[f].held[j][k] \in Int
        BY <2>1
    <2>3. <<f, j>> \in AfterNext(fgt'[f].held[j][k])
        BY <1>3, <2>1, <2>2
    <2>4. QED
        BY <2>1, <2>3
<1>6. ASSUME ~Late(f, i, t), NEW k \in DOMAIN fgt'[f].held[i]
      PROVE  /\ fgt'[f].held[i][k] \in Nat /\ <<f, i>> \in AfterNext(fgt'[f].held[i][k])
             /\ \A l \in DOMAIN fgt'[f].held[i] : k < l => fgt'[f].held[i][k] < fgt'[f].held[i][l]
    <2> DEFINE h == fgt[f].held[i]
               r == fgt'[f].held[i]
    <2>1. r = Append(h, t) /\ h \in Seq(Int) /\ t \in Nat
        BY <1>2, <1>6, NotOver, Zenon DEF Takes
    <2>2. \A l \in DOMAIN h : h[l] \in Nat /\ <<f, i>> \in AfterNow(h[l])
        BY <1>2, <1>4
    <2>3. \A a, b \in DOMAIN h : a < b => h[a] < h[b]
        BY <1>2, <1>4
    <2>4. \A l \in DOMAIN h : h[l] < t
        <3>1. SUFFICES ASSUME NEW l \in DOMAIN h PROVE h[l] < t
            OBVIOUS
        <3> DEFINE v == h[l]
        <3>2. v \in Nat /\ <<f, i>> \in AfterNow(v)
            BY <2>2
        <3> HIDE DEF v
        <3>3. SafeNow(AfterNow(v), v)
            BY AfterSafe
        <3>4. Before(v, t)
            BY <1>1, <3>2, <3>3, BeforeTaken, SMTT(30)
        <3>5. v < t
            BY <2>1, <3>4 DEF Before, EofFrame
        <3>6. QED
            BY <3>5 DEF v
    <2>5. k \in DOMAIN r
        BY <1>6
    <2> HIDE DEF h, r
    <2>6. /\ DOMAIN r = 1 .. Len(h) + 1 /\ DOMAIN h = 1 .. Len(h) /\ Len(h) \in Nat
          /\ r[Len(h) + 1] = t /\ \A l \in DOMAIN h : r[l] = h[l]
        BY <2>1
    <2>7. r[k] \in Nat /\ \A l \in DOMAIN r : k < l => r[k] < r[l]
        BY <2>1, <2>2, <2>3, <2>4, <2>5, <2>6
    <2>8. <<f, i>> \in AfterNext(r[k])
        <3>1. CASE k = Len(h) + 1
            BY <2>6, <3>1
        <3>2. CASE k # Len(h) + 1
            <4>1. k \in DOMAIN h
                BY <2>5, <2>6, <3>2
            <4>2. r[k] \in Int /\ <<f, i>> \in AfterNow(r[k])
                BY <2>2, <2>6, <4>1
            <4>3. QED
                BY <1>3, <4>2
        <3>3. QED
            BY <3>1, <3>2
    <2>9. QED
        BY <2>7, <2>8, SMTT(30) DEF r
<1>7. ASSUME NEW j \in Inputs(f), NEW k \in DOMAIN fgt'[f].held[j]
      PROVE  /\ fgt'[f].held[j][k] \in Nat /\ <<f, j>> \in AfterNext(fgt'[f].held[j][k])
             /\ \A l \in DOMAIN fgt'[f].held[j] : k < l => fgt'[f].held[j][k] < fgt'[f].held[j][l]
    <2>1. CASE Late(f, i, t) \/ j # i
        <3>1. fgt'[f].held[j] = fgt[f].held[j]
            BY <1>7, <2>1 DEF Takes
        <3>2. QED
            BY <1>5, <1>7, <3>1, Zenon
    <2>2. CASE ~Late(f, i, t) /\ j = i
        BY <1>6, <1>7, <2>2
    <2>3. QED
        BY <2>1, <2>2
<1>8. QED
    BY <1>7, Zenon DEF Holds, AfterNext

(* FilterReceive keeps the order. *)
LEMMA OrderReceive ==
  ASSUME OrderInv, TypeInv', NEW f \in Filters, FilterReceive(f)
  PROVE  OrderNext
<1> DEFINE i == Item(f)[1]
           t == Item(f)[2]
<1>1. /\ TypeInv /\ f \in Nodes /\ f \in Receivers /\ FgtTyped(fgt) /\ UNCHANGED <<graph, mux>>
      /\ Going(task, f) /\ Wanted(f) # {} /\ queue' = Taken(f)
      /\ \E jobs \in {<<>>, <<Choke(f)>>} : task' = Become(f, ReadFrames(f), jobs)
    BY Kinds5, TypesOf DEF FilterReceive, others, OrderInv, At, Going, HasItem
<1>2. /\ queue'[f].items = SubSeq(queue[f].items, First(f) + 1, Len(queue[f].items))
      /\ \A k \in Receivers \ {f} : queue'[k] = queue[k]
    BY <1>1, TypesOf DEF Taken, QueueTyped, QueueT
<1>3. Takes(f, i, t) /\ i \in Inputs(f)
    <2>1. i \in Inputs(f) /\ fgt[f] \in FgtT(f) /\ DOMAIN fgt = Filters
        BY <1>1, TakenTime, FilterIs DEF FgtTyped
    <2>2. fgt' = IF Late(f, i, t) THEN [fgt EXCEPT ![f].over = @ \cup {i}]
                 ELSE [fgt EXCEPT ![f].held[i] = Append(@, t)]
        BY DEF FilterReceive, Late
    <2> HIDE DEF i, t
    <2>3. QED
        BY <2>1, <2>2 DEF Takes, FgtT
<1> HIDE DEF i, t
<1>4. i = Item(f)[1] /\ t = Item(f)[2]
    BY DEF i, t
<1>5. /\ \A n \in Nodes : Carries(n)
      /\ TaskTyped(task') /\ \A x \in Nodes : GoesOn(x)
      /\ \A x \in Nodes \ {f} : task'[x] = task[x]
    <2>1. PICK jobs \in {<<>>, <<Choke(f)>>} : task' = Become(f, ReadFrames(f), jobs)
        BY <1>1
    <2>2. \A job \in Range(jobs) : job.do # "send"
        <3>1. Choke(f).do = "choke"
            BY DEF Choke, Job
        <3>2. QED
            BY <2>1, <3>1, Empty, Single
    <2>3. QED
        BY <1>1, <2>1, <2>2, BecomeMoves, BecomeGoesOn, BecomeIs
<1>6. ASSUME NEW dst \in Dests PROVE Carried(dst)
    <2>1. Carries(SrcOf(dst))
        BY <1>1, <1>5, SourceOfDest, TypesOf
    <2>2. QED
        BY <1>1, <1>2, <2>1, TakenCarried
<1>7. SourcesKept
    <2>1. ASSUME NEW A \in SUBSET Dests, NEW v \in Int, SafeNow(A, v), FilterAfter(fgt, f, A, v)
          PROVE  FilterAfter(fgt', f, A, v)
        BY <1>1, <1>3, <1>4, <2>1, ReceiveKeeps
    <2>2. fgt'[f].sink = fgt[f].sink /\ \A g \in Filters \ {f} : fgt'[g] = fgt[g]
        BY <1>3 DEF Takes
    <2>3. QED
        BY <1>1, <1>5, <2>1, <2>2, FilterSources
<1>8. <<f, i>> \in AfterNext(t)
    BY <1>1, <1>2, <1>4, <1>5, <1>6, <1>7, TakenSafe
<1>9. \A v \in Int : AfterNow(v) \subseteq AfterNext(v)
    BY <1>6, <1>7, AfterKept
<1>10. Holds(queue', mux', task', fgt', f)
    BY <1>1, <1>3, <1>4, <1>6, <1>7, <1>8, TakenHolds
<1>11. Overs(queue', mux', task', fgt', f)
    <2>1. ASSUME NEW j \in fgt'[f].over
          PROVE  \E w \in Int : (w = EofFrame \/ w >= graph.trim[f][j]) /\ <<f, j>> \in AfterNext(w)
        <3>1. CASE j \in fgt[f].over
            <4>1. PICK w \in Int : (w = EofFrame \/ w >= graph.trim[f][j]) /\ <<f, j>> \in AfterNow(w)
                BY <3>1 DEF OrderInv, Ordered, Overs, AfterNow
            <4>2. QED
                BY <1>9, <4>1
        <3>2. CASE j = i /\ Late(f, i, t)
            <4>1. t \in Int
                BY <1>1, <1>4, TakenTime
            <4>2. QED
                BY <1>8, <3>2, <4>1 DEF Late
        <3>3. QED
            BY <1>3, <2>1, <3>1, <3>2 DEF Takes
    <2>2. QED
        BY <1>1, <2>1 DEF Overs, AfterNext
<1>12. Sinks(queue', mux', task', fgt', f)
    <2>1. ASSUME NEW k \in DOMAIN fgt[f].sink
          PROVE  /\ fgt[f].sink[k] \in Nat
                 /\ FilterAfter(fgt', f, AfterNext(fgt[f].sink[k]), fgt[f].sink[k])
        <3> DEFINE v == fgt[f].sink[k]
        <3>1. v \in Nat /\ FilterAfter(fgt, f, AfterNow(v), v)
            BY <2>1, Zenon DEF OrderInv, Ordered, Sinks, AfterNow
        <3> HIDE DEF v
        <3>2. v \in Int /\ SafeNow(AfterNow(v), v)
            BY <3>1, AfterSafe
        <3>3. FilterAfter(fgt', f, AfterNow(v), v)
            BY <1>1, <1>3, <1>4, <3>1, <3>2, ReceiveKeeps
        <3>4. FilterAfter(fgt', f, AfterNext(v), v)
            BY <1>9, <3>2, <3>3, SourceMonotone
        <3>5. QED
            BY <3>1, <3>4 DEF v
    <2>2. QED
        BY <1>3, <2>1 DEF Sinks, AfterNext, Takes
<1>13. \A g \in Filters \ {f} : fgt'[g] = fgt[g]
    BY <1>3 DEF Takes
<1>14. fgt[f].got => fgt'[f].got
    BY <1>3 DEF Takes
<1>15. QED
    BY <1>1, <1>5, <1>6, <1>7, <1>10, <1>11, <1>12, <1>13, <1>14, OrderQuiet

(* At its end a filter graph that has seen no frame sends every output an  *)
(* empty one; whoever gets it is not open yet.                             *)
Closing(f, dst) ==
  (IF fgt[f].got THEN <<>> ELSE <<Job("send", dst, NoTime)>>) \o <<Finish(dst)>>
Closings(f) == FlattenSeq([k \in 1 .. Len(Dsts(f)) |-> Closing(f, Dsts(f)[k])])

(* Two jobs, one after the other. *)
LEMMA TwoJobs ==
  ASSUME NEW s, NEW e
  PROVE  Len(<<s>> \o <<e>>) = 2 /\ (<<s>> \o <<e>>)[1] = s /\ (<<s>> \o <<e>>)[2] = e
<1> DEFINE S == {s, e}
           a == <<s>>
           b == <<e>>
<1>1. s \in S /\ e \in S
    OBVIOUS
<1> HIDE DEF S
<1>2. a \in Seq(S) /\ b \in Seq(S)
    BY <1>1, Single
<1>3. Len(a) = 1 /\ Len(b) = 1 /\ a[1] = s /\ b[1] = e
    OBVIOUS
<1> HIDE DEF a, b
<1>4. /\ Len(a \o b) = 1 + 1
      /\ \A i \in 1 .. 1 + 1 : (a \o b)[i] = IF i <= 1 THEN a[i] ELSE b[i - 1]
    BY <1>2, <1>3, ConcatProperties
<1>5. Len(a \o b) = 2 /\ (a \o b)[1] = s /\ (a \o b)[2] = e
    BY <1>3, <1>4
<1>6. QED
    BY <1>5 DEF a, b

(* The only thing a filter graph that closes sends is an empty frame. *)
LEMMA ClosingIs ==
  ASSUME NEW f, NEW dst, NEW k \in 1 .. Len(Closing(f, dst)), Closing(f, dst)[k].do = "send"
  PROVE  ~fgt[f].got /\ k = 1 /\ Closing(f, dst)[k] = Job("send", dst, NoTime)
<1>1. CASE fgt[f].got
    <2>1. Closing(f, dst) = <<Finish(dst)>>
        BY <1>1 DEF Closing
    <2>2. k = 1 /\ Closing(f, dst)[k] = Finish(dst)
        BY <2>1
    <2>3. QED
        BY <2>2 DEF Finish, Job
<1>2. CASE ~fgt[f].got
    <2> DEFINE s == Job("send", dst, NoTime)
               e == Finish(dst)
    <2>0. s.do = "send" /\ e.do = "finish"
        BY DEF Finish, Job
    <2>1. Closing(f, dst) = <<s>> \o <<e>>
        BY <1>2 DEF Closing
    <2> HIDE DEF s, e
    <2>2. Len(<<s>> \o <<e>>) = 2 /\ (<<s>> \o <<e>>)[1] = s /\ (<<s>> \o <<e>>)[2] = e
        BY TwoJobs
    <2>3. Len(Closing(f, dst)) = 2 /\ Closing(f, dst)[1] = s /\ Closing(f, dst)[2] = e
        BY <2>1, <2>2
    <2>4. k = 1 /\ Closing(f, dst)[k] = s
        BY <2>0, <2>3
    <2>5. QED
        BY <1>2, <2>4 DEF s
<1>3. QED
    BY <1>1, <1>2

(* It sends one to each destination, and only if it never sent a frame. *)
LEMMA ClosingsAre ==
  ASSUME TypeInv, NEW f \in Nodes, NEW todo, todo = Closings(f)
  PROVE  /\ \A p \in DOMAIN todo : todo[p].do = "send" =>
              ~fgt[f].got /\ todo[p].t = NoTime /\ todo[p].dst \in Range(Dsts(f))
         /\ \A p, q \in DOMAIN todo :
              (todo[p].do = "send" /\ todo[q].do = "send" /\ todo[p].dst = todo[q].dst) => p = q
<1> DEFINE s == [k \in 1 .. Len(Dsts(f)) |-> Closing(f, Dsts(f)[k])]
           T == {Job("send", dst, NoTime) : dst \in Range(Dsts(f))} \cup {Finish(dst) : dst \in Range(Dsts(f))}
<1>1. /\ Dsts(f) \in Seq(Nodes \X Nat) /\ Len(Dsts(f)) \in Nat
      /\ \A k, l \in 1 .. Len(Dsts(f)) : Dsts(f)[k] = Dsts(f)[l] => k = l
      /\ \A k \in 1 .. Len(Dsts(f)) : Dsts(f)[k] \in Range(Dsts(f))
    <2>1. Dsts(f) \in Seq(Nodes \X Nat) /\ \A k, l \in 1 .. Len(Dsts(f)) : Dsts(f)[k] = Dsts(f)[l] => k = l
        BY DstsFacts, TypesOf
    <2>2. QED
        BY <2>1 DEF Range
<1>2. s \in Seq(Seq(T)) /\ Len(s) = Len(Dsts(f)) /\ \A k \in 1 .. Len(Dsts(f)) : s[k] = Closing(f, Dsts(f)[k])
    <2>1. ASSUME NEW dst \in Range(Dsts(f)) PROVE Closing(f, dst) \in Seq(T)
        <3>1. Job("send", dst, NoTime) \in T /\ Finish(dst) \in T
            OBVIOUS
        <3> HIDE DEF T
        <3>2. <<Job("send", dst, NoTime)>> \in Seq(T) /\ <<Finish(dst)>> \in Seq(T)
            BY <3>1, Single
        <3>3. QED
            BY <3>2, Empty, ConcatProperties DEF Closing
    <2> HIDE DEF T
    <2>2. QED
        BY <1>1, <2>1
<1> HIDE DEF s, T
<1>3. todo = FlattenSeq(s)
    BY DEF Closings, s
<1>4. PICK row, col : Locates(s, Len(s), todo, row, col)
    BY <1>2, <1>3, FlattenLocates
<1>5. ASSUME NEW p \in DOMAIN todo, todo[p].do = "send"
      PROVE  /\ row[p] \in 1 .. Len(Dsts(f)) /\ col[p] = 1 /\ ~fgt[f].got
             /\ todo[p].t = NoTime /\ todo[p].dst = Dsts(f)[row[p]]
    <2>1. row[p] \in 1 .. Len(s) /\ col[p] \in 1 .. Len(s[row[p]]) /\ todo[p] = s[row[p]][col[p]]
        BY <1>4 DEF Locates
    <2>2. PICK dst : dst = Dsts(f)[row[p]]
        OBVIOUS
    <2>3. /\ row[p] \in 1 .. Len(Dsts(f)) /\ col[p] \in 1 .. Len(Closing(f, dst))
          /\ todo[p] = Closing(f, dst)[col[p]]
        BY <1>2, <2>1, <2>2
    <2>4. ~fgt[f].got /\ col[p] = 1 /\ todo[p] = Job("send", dst, NoTime)
        BY <1>5, <2>3, ClosingIs
    <2>5. QED
        BY <2>2, <2>3, <2>4 DEF Job
<1>6. ASSUME NEW p \in DOMAIN todo, NEW q \in DOMAIN todo, todo[p].do = "send", todo[q].do = "send",
             todo[p].dst = todo[q].dst
      PROVE  p = q
    <2>1. /\ row[p] \in 1 .. Len(Dsts(f)) /\ row[q] \in 1 .. Len(Dsts(f))
          /\ Dsts(f)[row[p]] = Dsts(f)[row[q]] /\ col[p] = col[q]
        BY <1>5, <1>6
    <2>2. row[p] = row[q]
        BY <1>1, <2>1
    <2>3. QED
        BY <1>4, <2>1, <2>2 DEF Locates
<1>7. QED
    BY <1>1, <1>5, <1>6

(* Taking up the jobs of the close keeps the order. *)
LEMMA OrderClosing ==
  ASSUME OrderInv, TypeInv', UNCHANGED <<graph, fgt, mux, queue>>, NEW f \in Filters, task[f].at = "close",
         task' = Become(f, "eof", Closings(f))
  PROVE  OrderNext
<1>1. /\ TypeInv /\ f \in Nodes /\ Ordered(queue, mux, task, fgt) /\ TaskTyped(task')
      /\ Distinct(task) /\ Empties(mux, task) /\ Idle(mux, task, fgt) /\ Flushed(mux)
    BY Kinds5, TypedAfter DEF OrderInv, Opening
<1>2. /\ task'[f].at = "eof" /\ task'[f].todo = Closings(f) /\ task'[f].finished = task[f].finished
      /\ task'[f].pos = task[f].pos /\ \A x \in Nodes \ {f} : task'[x] = task[x]
    BY <1>1, BecomeIs
<1> DEFINE todo == task'[f].todo
<1>3. /\ \A p \in DOMAIN todo : todo[p].do = "send" =>
           ~fgt[f].got /\ todo[p].t = NoTime /\ todo[p].dst \in Range(Dsts(f))
      /\ \A p, q \in DOMAIN todo :
           (todo[p].do = "send" /\ todo[q].do = "send" /\ todo[p].dst = todo[q].dst) => p = q
    BY <1>1, <1>2, ClosingsAre
<1>4. ASSUME NEW n \in Nodes PROVE GoesOn(n) /\ TodoBy(n, 0)
    <2>1. CASE n = f
        <3>1. task[f].pos \in Nat \ {0}
            BY <1>1, TaskIs
        <3>2. GoesOn(f)
            BY <1>2, <3>1 DEF GoesOn, Going
        <3>3. TodoBy(f, 0)
            BY <1>2, <1>3 DEF TodoBy
        <3>4. QED
            BY <2>1, <3>2, <3>3
    <2>2. CASE n # f
        <3>1. Carries(n) /\ TodoKeeps(n, 0)
            BY <1>1, <1>2, <2>2, StillCarries
        <3>2. QED
            BY <3>1, KeepsBy DEF Carries
    <2>3. QED
        BY <2>1, <2>2
<1>5. ASSUME NEW dst \in Dests PROVE Carried(dst)
    <2>1. QueueBy(dst, None, 0) /\ WrittenBy(dst, None) /\ PreBy(dst, None, 0)
        BY <1>1, QueueStill, MuxStill
    <2>2. TodoBy(SrcOf(dst), 0)
        BY <1>1, <1>4, SourceOfDest, TypesOf
    <2>3. QED
        BY <2>1, <2>2, 0 \in Int, QuietMove DEF MovesBy
<1>6. Ordered(queue', mux', task', fgt')
    BY <1>1, <1>4, <1>5, CalmStep
<1>7. Distinct(task')
    <2>1. SUFFICES ASSUME NEW m \in Nodes, NEW p \in DOMAIN task'[m].todo, NEW q \in DOMAIN task'[m].todo,
                          task'[m].todo[p].do = "send", task'[m].todo[q].do = "send",
                          task'[m].todo[p].dst = task'[m].todo[q].dst
                   PROVE  p = q
        BY Zenon DEF Distinct
    <2>2. CASE m = f
        BY <1>3, <2>1, <2>2
    <2>3. CASE m # f
        BY <1>1, <1>2, <2>1, <2>3 DEF Distinct
    <2>4. QED
        BY <2>2, <2>3
<1>8. Empties(mux', task')
    <2>1. SUFFICES ASSUME NEW m \in Nodes, NEW p \in DOMAIN task'[m].todo, task'[m].todo[p].do = "send",
                          task'[m].todo[p].t = NoTime, task'[m].todo[p].dst \notin task'[m].finished
                   PROVE  m \in Filters /\ ~Opened(mux', task'[m].todo[p].dst[1])
        BY DEF Empties
    <2>2. CASE m = f
        <3>1. ~fgt[f].got /\ todo[p].dst \in Range(Dsts(f))
            BY <1>3, <2>1, <2>2
        <3>2. ~Opened(mux, todo[p].dst[1])
            BY <1>1, <3>1 DEF Idle
        <3>3. QED
            BY <2>2, <3>2
    <2>3. CASE m # f
        BY <1>1, <1>2, <2>1, <2>3 DEF Empties
    <2>4. QED
        BY <2>2, <2>3
<1>9. Idle(mux', task', fgt')
    <2>1. SUFFICES ASSUME NEW g \in Filters, ~fgt'[g].got, task'[g].at \notin {"eof", "done", "ended"}
                   PROVE  /\ \A p \in DOMAIN task'[g].todo : task'[g].todo[p].do # "send"
                          /\ \A dst \in Range(Dsts(g)) : ~Opened(mux', dst[1])
        BY DEF Idle
    <2>2. g # f /\ g \in Nodes
        BY <1>1, <1>2, <2>1, Kinds5
    <2>3. task'[g] = task[g]
        BY <1>2, <2>2
    <2>4. QED
        BY <1>1, <2>1, <2>3 DEF Idle
<1>10. QED
    BY <1>1, <1>6, <1>7, <1>8, <1>9 DEF OrderNext, Opening

(* FilterClose keeps the order. *)
LEMMA OrderClose ==
  ASSUME OrderInv, TypeInv', NEW f \in Filters, FilterClose(f)
  PROVE  OrderNext
<1>1. f \in Nodes /\ UNCHANGED <<graph, fgt, mux>>
    BY Kinds5 DEF FilterClose, others, OrderInv
<1>2. CASE End(f, FALSE)
    BY <1>1, <1>2, EndKeeps
<1>3. CASE task[f].at = "close" /\ task' = Become(f, "eof", Closings(f)) /\ UNCHANGED queue
    BY <1>1, <1>3, OrderClosing
<1>4. QED
    BY <1>2, <1>3 DEF FilterClose, At, Closings, Closing

(* Every step of a filter graph keeps the order. *)
LEMMA OrderFilter ==
  ASSUME OrderInv, TypeInv', NEW f \in Filters, Filter(f)
  PROVE  OrderNext
BY OrderAsk, OrderReceive, OrderProceed, OrderReap, OrderRequest, OrderClose DEF Filter

(* The client and the decisions of the scheduler move nothing.             *)
LEMMA OrderMain ==
  ASSUME OrderInv, TypeInv', Start \/ Stop \/ ChokeAll \/ Join \/ RequestStop \/ RequestWalk \/ Apply
  PROVE  OrderNext
<1>1. QueueTyped(queue)
    BY DEF OrderInv, TypeInv
<1>2. \A d, v : \A k \in Receivers : ChokeQueues(d, v)[k].items = queue[k].items
    BY <1>1 DEF ChokeQueues, QueueTyped, QueueT
<1>3. UNCHANGED <<graph, fgt, mux, task>>
    BY DEF Start, Stop, ChokeAll, Join, RequestStop, RequestWalk, Apply, rest
<1>4. CASE Start \/ Stop \/ Join \/ RequestStop
    <2>1. UNCHANGED queue
        BY <1>4 DEF Start, Stop, Join, RequestStop
    <2>2. QED
        BY <1>3, <2>1, StandsStill
<1>5. CASE ChokeAll \/ RequestWalk
    <2>1. UNCHANGED queue \/ \E d, v : queue' = ChokeQueues(d, v)
        BY <1>5 DEF ChokeAll, RequestWalk
    <2>2. QED
        BY <1>2, <1>3, <2>1, StandsStill
<1>6. CASE Apply
    <2>1. \E d, v : queue' = ChokeQueues(d, v)
        BY <1>6, Zenon DEF Apply
    <2>2. QED
        BY <1>2, <1>3, <2>1, StandsStill
<1>7. QED
    BY <1>4, <1>5, <1>6

(* The graph being the same, the order that a step leaves is that of the   *)
(* next state.                                                             *)
LEMMA OrderPrimed ==
  ASSUME UNCHANGED graph, TypeInv', FilesInOrder, OrderNext
  PROVE  OrderInv'
<1> USE DEF Nodes, OfKind, Demuxers, Filters, Muxers, Dsts, Inputs, Dests, SrcOf, StreamOf
<1>1. FilesInOrder'
    BY DEF FilesInOrder
<1>2. Opening(mux, task, fgt)'
    <2>1. Distinct(task')
        BY DEF OrderNext, Opening
    <2>2. Distinct(task)'
        BY <2>1 DEF Distinct
    <2>3. Empties(mux', task')
        BY SMTT(30) DEF OrderNext, Opening
    <2>4. Empties(mux, task)'
        BY <2>3, Zenon DEF Empties, Opened
    <2>5. Idle(mux', task', fgt')
        BY DEF OrderNext, Opening
    <2>6. Idle(mux, task, fgt)'
        BY <2>5 DEF Idle, Opened
    <2>7. Flushed(mux')
        BY DEF OrderNext, Opening
    <2>8. Flushed(mux)'
        BY <2>7 DEF Flushed
    <2>9. QED
        BY <2>2, <2>4, <2>6, <2>8 DEF Opening
<1>3. ASSUME NEW dst, NEW a, NEW t
      PROVE  Has(queue, mux, task, dst, a, t)' <=> Has(queue', mux', task', dst, a, t)
    BY DEF Has
<1>4. ASSUME NEW f, NEW A, NEW v
      PROVE  FilterAfter(fgt, f, A, v)' <=> FilterAfter(fgt', f, A, v)
    BY DEF FilterAfter
<1>5. ASSUME NEW d, NEW dst, NEW v
      PROVE  FileAfter(task, d, dst, v)' <=> FileAfter(task', d, dst, v)
    BY DEF FileAfter
<1>6. ASSUME NEW dst, NEW A, NEW v
      PROVE  SourceAfter(task, fgt, dst, A, v)' <=> SourceAfter(task', fgt', dst, A, v)
    BY <1>4, <1>5 DEF SourceAfter, Going
<1>7. ASSUME NEW A, NEW v
      PROVE  Safe(queue, mux, task, fgt, A, v)' <=> Safe(queue', mux', task', fgt', A, v)
    BY <1>3, <1>6 DEF Safe, LineAfter
<1>8. ASSUME NEW v
      PROVE  After(queue, mux, task, fgt, v)' = After(queue', mux', task', fgt', v)
    BY <1>7 DEF After
<1>9. Ordered(queue, mux, task, fgt)'
    <2>1. Ordered(queue', mux', task', fgt')
        BY DEF OrderNext
    <2>2. ASSUME NEW dst \in Dests
          PROVE  Sorted(queue, mux, task, dst)' /\ InLine(queue, mux, task, fgt, dst)'
        <3>1. Sorted(queue', mux', task', dst) /\ InLine(queue', mux', task', fgt', dst)
            BY <2>1, <2>2 DEF Ordered
        <3>2. Sorted(queue, mux, task, dst)'
            BY <1>3, <3>1 DEF Sorted
        <3>3. InLine(queue, mux, task, fgt, dst)'
            BY <1>3, <1>6, <1>8, <3>1 DEF InLine, Timed
        <3>4. QED
            BY <3>2, <3>3
    <2>3. ASSUME NEW f \in Filters
          PROVE  /\ Holds(queue, mux, task, fgt, f)' /\ Overs(queue, mux, task, fgt, f)'
                 /\ Sinks(queue, mux, task, fgt, f)'
        <3>1. /\ Holds(queue', mux', task', fgt', f) /\ Overs(queue', mux', task', fgt', f)
              /\ Sinks(queue', mux', task', fgt', f)
            BY <2>1, <2>3 DEF Ordered
        <3>2. Holds(queue, mux, task, fgt, f)'
            BY <1>8, <3>1 DEF Holds
        <3>3. Overs(queue, mux, task, fgt, f)'
            BY <1>8, <3>1 DEF Overs
        <3>4. Sinks(queue, mux, task, fgt, f)'
            BY <1>4, <1>8, <3>1 DEF Sinks
        <3>5. QED
            BY <3>2, <3>3, <3>4
    <2>4. Dests' = Dests /\ Filters' = Filters
        OBVIOUS
    <2>5. QED
        BY <2>2, <2>3, <2>4 DEF Ordered
<1>10. QED
    BY <1>1, <1>2, <1>9 DEF OrderInv

(* Every step keeps the invariant of the order. *)
LEMMA StepOrderInv == OrderInv /\ [Next]_vars => OrderInv'
<1> SUFFICES ASSUME OrderInv, [Next]_vars PROVE OrderInv'
    OBVIOUS
<1>0. TypeInv' /\ UNCHANGED graph
    <2>1. TypeInv'
        BY StepTypeInv DEF OrderInv
    <2>2. UNCHANGED graph
        BY StepGraph
    <2>3. QED
        BY <2>1, <2>2
<1>1. OrderNext
    <2>1. CASE UNCHANGED vars
        BY <1>0, <2>1, StandsStill DEF vars
    <2>2. CASE \E n \in Nodes : DoJob(n)
        BY <1>0, <2>2, OrderJob
    <2>3. CASE \E n \in Sources : WaiterWait(n)
        BY <1>0, <2>3, OrderWait
    <2>4. CASE \E d \in Demuxers : Demux(d)
        BY <1>0, <2>4, OrderDemux
    <2>5. CASE \E c \in OfKind("dec") : Decode(c)
        BY <1>0, <2>5, OrderDecode
    <2>6. CASE \E f \in Filters : Filter(f)
        BY <1>0, <2>6, OrderFilter
    <2>7. CASE \E e \in OfKind("enc") : Encode(e)
        BY <1>0, <2>7, OrderEncode
    <2>8. CASE \E m \in Muxers : Mux(m) \/ MuxEof(m)
        BY <1>0, <2>8, OrderMux, OrderMuxEof
    <2>9. CASE \E n \in Filters \cup Muxers : Discard(n)
        BY <1>0, <2>9, OrderDiscard
    <2>10. CASE \E n \in Nodes : Fail(n)
        BY <1>0, <2>10, OrderFail
    <2>11. CASE Start \/ Stop \/ ChokeAll \/ Join \/ RequestStop \/ RequestWalk \/ Apply
        BY <1>0, <2>11, OrderMain
    <2>12. QED
        BY <2>1, <2>2, <2>3, <2>4, <2>5, <2>6, <2>7, <2>8, <2>9, <2>10, <2>11 DEF Next, Progress, Finished
<1>2. QED
    BY <1>0, <1>1, OrderPrimed DEF OrderInv

(* The invariant of the order holds at the start. *)
LEMMA InitOrder == Init /\ FilesInOrder => OrderInv
<1> SUFFICES ASSUME Init, FilesInOrder PROVE OrderInv
    OBVIOUS
<1>1. TypeInv /\ GraphIs
    BY InitTypeInv DEF TypeInv
<1>2. /\ \A n \in Receivers : queue[n].items = <<>>
      /\ \A m \in Muxers : mux[m].ready = {i \in Inputs(m) : IsCopy(<<m, i>>)}
      /\ \A m \in Muxers : \A i \in Inputs(m) : mux[m].pre[i] = <<>> /\ mux[m].written[i] = <<>>
      /\ \A n \in Nodes : task[n].todo = <<>>
      /\ \A f \in Filters : /\ fgt[f].over = {} /\ fgt[f].sink = <<>>
                            /\ \A i \in Inputs(f) : fgt[f].held[i] = <<>>
    BY DEF Init
<1>3. ASSUME NEW dst \in Dests, NEW a, NEW t, HasNow(dst, a, t) PROVE FALSE
    <2>1. SrcOf(dst) \in Nodes /\ dst \in Range(Dsts(SrcOf(dst)))
        BY <1>1, SourceOfDest
    <2>2. dst[1] \in Receivers /\ dst[2] \in Inputs(dst[1])
        BY <1>1, <2>1, WayFacts, DestFacts
    <2>3. DOMAIN <<>> = {}
        OBVIOUS
    <2>4. QED
        BY <1>2, <1>3, <2>1, <2>2, <2>3 DEF HasNow, Has
<1>4. Ordered(queue, mux, task, fgt)
    <2>1. ASSUME NEW dst \in Dests
          PROVE  Sorted(queue, mux, task, dst) /\ InLine(queue, mux, task, fgt, dst)
        BY <1>3 DEF Sorted, InLine, HasNow
    <2>2. ASSUME NEW f \in Filters
          PROVE  /\ Holds(queue, mux, task, fgt, f) /\ Overs(queue, mux, task, fgt, f)
                 /\ Sinks(queue, mux, task, fgt, f)
        BY <1>2 DEF Holds, Overs, Sinks
    <2>3. QED
        BY <2>1, <2>2 DEF Ordered
<1>5. ASSUME NEW f \in Filters, NEW dst \in Range(Dsts(f)) PROVE ~Opened(mux, dst[1])
    <2>1. f \in Nodes
        BY <1>1, Kinds5
    <2>2. dst[1] \in OfKind("enc")
        BY <1>1, <2>1, WayFacts
    <2> DEFINE e == dst[1]
    <2>3. /\ e \in Nodes /\ StreamOf(e) \in Range(Dsts(e)) /\ StreamOf(e)[1] \in Muxers
          /\ StreamOf(e) = <<StreamOf(e)[1], StreamOf(e)[2]>>
        BY <1>1, <2>2, EncoderFacts
    <2>4. SrcOf(StreamOf(e)) = e
        BY <1>1, <2>3, DestFacts
    <2>5. e \notin Demuxers
        BY <1>1, <2>2, <2>3, KindOf
    <2> HIDE DEF e
    <2>6. ~Opened(mux, e)
        BY <1>2, <2>3, <2>4, <2>5 DEF Opened, IsCopy
    <2>7. QED
        BY <2>6 DEF e
<1>6. Opening(mux, task, fgt)
    <2>1. Distinct(task) /\ Empties(mux, task)
        BY <1>2 DEF Distinct, Empties
    <2>2. Idle(mux, task, fgt)
        <3>1. \A f \in Filters : f \in Nodes
            BY <1>1, Kinds5
        <3>2. QED
            BY <1>2, <1>5, <3>1 DEF Idle
    <2>3. Flushed(mux)
        BY <1>2 DEF Flushed
    <2>4. QED
        BY <2>1, <2>2, <2>3 DEF Opening
<1>7. QED
    BY <1>1, <1>4, <1>6 DEF OrderInv

(* What the muxers have written is then in order. *)
LEMMA OrderedIs == OrderInv => WrittenInOrder
<1> SUFFICES ASSUME OrderInv, NEW m \in Muxers, NEW i \in Inputs(m),
                    NEW j \in DOMAIN mux[m].written[i], NEW k \in DOMAIN mux[m].written[i], j < k
             PROVE  mux[m].written[i][j] < mux[m].written[i][k]
    BY DEF WrittenInOrder
<1> DEFINE dst == <<m, i>>
           u == mux[m].written[i][j]
           t == mux[m].written[i][k]
<1>1. GraphIs /\ m \in Nodes /\ MuxTyped(mux) /\ m \in Muxers
    BY Kinds5, TypesOf DEF OrderInv
<1>2. dst \in Dests /\ dst[1] = m /\ dst[2] = i
    BY <1>1, InputFacts
<1>3. mux[m].written[i] \in Seq(Int)
    BY <1>1 DEF MuxTyped, MuxT
<1>4. u \in Int /\ t \in Int /\ j \in Int /\ k \in Int
    BY <1>3
<1>5. HasNow(dst, <<1, j>>, u) /\ HasNow(dst, <<1, k>>, t)
    BY <1>2 DEF HasNow, Has
<1>6. SrcOf(dst) \notin OfKind("dec")
    <2>1. SrcOf(dst) \in Nodes /\ dst \in Range(Dsts(SrcOf(dst)))
        BY <1>1, <1>2, SourceOfDest
    <2>2. SrcOf(dst) \in OfKind("dec") => m \in Filters
        BY <1>1, <1>2, <2>1, WayFacts
    <2>3. m \notin Filters
        BY <1>1, NodeFacts DEF Muxers, Filters
    <2>4. QED
        BY <2>2, <2>3
<1> HIDE DEF dst, u, t
<1>7. <<1, j>> \in Slots /\ <<1, k>> \in Slots /\ Below(<<1, j>>, <<1, k>>)
    BY <1>4 DEF Slots, Below
<1>8. Sorted(queue, mux, task, dst) /\ InLine(queue, mux, task, fgt, dst)
    BY <1>2 DEF OrderInv, Ordered
<1>9. Before(u, t)
    BY <1>4, <1>5, <1>7, <1>8 DEF Sorted, HasNow
<1>10. Timed(dst, t)
    BY <1>4, <1>5, <1>7, <1>8 DEF InLine, HasNow
<1>11. u < t
    BY <1>6, <1>9, <1>10 DEF Before, Timed, EofFrame
<1>12. QED
    BY <1>11 DEF u, t

(* A stream is written in the order it was sent, whoever sends it, however *)
(* late its muxer starts and whichever threads end early or fail: the      *)
(* times a muxer has written of a stream increase, when those of the       *)
(* packets of every output of a demuxer do.                                *)
THEOREM InOrder == Spec /\ FilesInOrder => []WrittenInOrder
<1>1. Init /\ FilesInOrder => OrderInv
    BY InitOrder
<1>2. OrderInv /\ [Next]_vars => OrderInv'
    BY StepOrderInv
<1>3. OrderInv => WrittenInOrder
    BY OrderedIs
<1>4. QED
    BY <1>1, <1>2, <1>3, PTL DEF Spec

=============================================================================
