--------------------------- MODULE UserListProofs ---------------------------
(***************************************************************************)
(* The memory behind the list of users, for any number of blocks, threads  *)
(* and requests: what a walk visits, and what each handler does to the     *)
(* links.                                                                  *)
(***************************************************************************)
EXTENDS UserListProperties, Integers, SequenceTheorems, FiniteSetTheorems,
        WellFoundedInduction, TLAPS
-----------------------------------------------------------------------------
(***************************************************************************)
(* Walks.                                                                  *)
(***************************************************************************)
LEMMA PrimeroExiste ==
  ASSUME NEW T \in SUBSET Nat, T # {}
  PROVE  \E x \in T : \A y \in T : x <= y
  <1> DEFINE R == OpToRel(<, Nat)
  <1>1. \E x \in T : \A y \in T : ~(<<y, x>> \in R)
    BY NatLessThanWellFounded, WFMin
  <1>2. \A x, y \in Nat : x < y => <<x, y>> \in R
    BY DEF OpToRel
  <1> HIDE DEF R
  <1>3. PICK x \in T : \A y \in T : ~(<<y, x>> \in R)
    BY <1>1
  <1>4. ASSUME NEW y \in T PROVE x <= y
    <2>1. x \in Nat /\ y \in Nat /\ ~(y < x)
      BY <1>2, <1>3
    <2>2. QED
      BY <2>1
  <1>5. QED
    BY <1>4

(* g is the function that Cadena is computed with, up to n steps. *)
Visita(g, mem, p, n) ==
  g = [k \in 0..n |-> IF k = 0 THEN <<>> ELSE Visitar(mem, p, g[k - 1])]

LEMMA VisitaDe ==
  ASSUME NEW g, NEW mem, NEW p, NEW n \in Nat, Visita(g, mem, p, n)
  PROVE  /\ g[0] = <<>>
         /\ \A k \in 1..n : g[k] = Visitar(mem, p, g[k - 1])
  <1> DEFINE h == [k \in 0..n |-> IF k = 0 THEN <<>> ELSE Visitar(mem, p, g[k - 1])]
  <1>1. \A k \in 0..n : h[k] = IF k = 0 THEN <<>> ELSE Visitar(mem, p, g[k - 1])
    OBVIOUS
  <1>2. g = h
    BY DEF Visita
  <1> HIDE DEF h
  <1>3. \A k \in 0..n : g[k] = IF k = 0 THEN <<>> ELSE Visitar(mem, p, g[k - 1])
    BY <1>1, <1>2
  <1>4. 0 \in 0..n /\ \A k \in 1..n : k \in 0..n /\ k # 0
    OBVIOUS
  <1>5. QED
    BY <1>3, <1>4

LEMMA VisitaCrece ==
  ASSUME NEW mem, NEW p, NEW n \in Nat, NEW g, Visita(g, mem, p, n)
  PROVE  \E h : Visita(h, mem, p, n + 1)
  <1> DEFINE v == Visitar(mem, p, g[n])
             h == [k \in 0..(n + 1) |-> IF k = n + 1 THEN v ELSE g[k]]
             f == [k \in 0..(n + 1) |-> IF k = 0 THEN <<>> ELSE Visitar(mem, p, h[k - 1])]
  <1>1. \A k \in 0..(n + 1) : h[k] = IF k = n + 1 THEN v ELSE g[k]
    OBVIOUS
  <1>2. \A k \in 0..(n + 1) : f[k] = IF k = 0 THEN <<>> ELSE Visitar(mem, p, h[k - 1])
    OBVIOUS
  <1>3. h = [k \in 0..(n + 1) |-> h[k]] /\ f = [k \in 0..(n + 1) |-> f[k]]
    OBVIOUS
  <1>4. f = [k \in 0..(n + 1) |-> IF k = 0 THEN <<>> ELSE Visitar(mem, p, h[k - 1])]
    OBVIOUS
  <1>5. v = Visitar(mem, p, g[n])
    OBVIOUS
  <1>6. g[0] = <<>> /\ \A k \in 1..n : g[k] = Visitar(mem, p, g[k - 1])
    BY VisitaDe
  <1> HIDE DEF v, h, f
  <1>7. ASSUME NEW k \in 0..(n + 1) PROVE h[k] = f[k]
    <2>1. CASE k = 0
      BY <1>1, <1>2, <1>6, <2>1
    <2>2. CASE k = n + 1
      <3>1. k # 0 /\ k - 1 = n /\ n \in 0..(n + 1) /\ n # n + 1
        BY <2>2
      <3>2. h[k - 1] = g[n]
        BY <1>1, <3>1
      <3>3. QED
        BY <1>1, <1>2, <1>5, <2>2, <3>1, <3>2
    <2>3. CASE k # 0 /\ k # n + 1
      <3>1. k \in 1..n /\ k - 1 \in 0..(n + 1) /\ k - 1 # n + 1
        BY <2>3
      <3>2. h[k - 1] = g[k - 1] /\ h[k] = g[k]
        BY <1>1, <2>3, <3>1
      <3>3. QED
        BY <1>2, <1>6, <2>3, <3>1, <3>2
    <2>4. QED
      BY <2>1, <2>2, <2>3
  <1>8. h = f
    BY <1>3, <1>7
  <1>9. QED
    BY <1>4, <1>8 DEF Visita

LEMMA VisitaExiste ==
  ASSUME NEW mem, NEW p, NEW n \in Nat
  PROVE  \E g : Visita(g, mem, p, n)
  <1> DEFINE Malos == {k \in Nat : ~ \E g : Visita(g, mem, p, k)}
  <1> SUFFICES ASSUME Malos # {} PROVE FALSE
    OBVIOUS
  <1>1. PICK k \in Malos : \A y \in Malos : k <= y
    <2>1. Malos \in SUBSET Nat
      OBVIOUS
    <2> HIDE DEF Malos
    <2>2. QED
      BY <2>1, PrimeroExiste
  <1>2. k # 0
    <2> DEFINE g == [i \in 0..0 |-> <<>>]
               h == [i \in 0..0 |-> IF i = 0 THEN <<>> ELSE Visitar(mem, p, g[i - 1])]
    <2>1. \A i \in 0..0 : i = 0
      OBVIOUS
    <2>2. g = h
      BY <2>1
    <2>3. Visita(g, mem, p, 0)
      BY <2>2 DEF Visita
    <2>4. QED
      BY <2>3
  <1>3. k - 1 \in Nat /\ k - 1 \notin Malos
    <2>1. k \in Nat /\ k - 1 \in Nat /\ ~(k <= k - 1)
      BY <1>2
    <2>2. QED
      BY <1>1, <2>1
  <1>4. PICK g : Visita(g, mem, p, k - 1)
    BY <1>3
  <1>5. \E h : Visita(h, mem, p, (k - 1) + 1)
    BY <1>3, <1>4, VisitaCrece
  <1>6. (k - 1) + 1 = k
    BY <1>3
  <1>7. QED
    BY <1>5, <1>6

(* c follows the links from p; it cannot go on. *)
Camino(mem, p, c) ==
  /\ c \in Seq(DOMAIN mem)
  /\ \A i \in 1..Len(c) : c[i] = IF i = 1 THEN p ELSE mem[c[i - 1]].next

Agotado(mem, p, c) == (IF c = <<>> THEN p ELSE mem[Last(c)].next) \notin DOMAIN mem

LEMMA CaminoPaso ==
  ASSUME NEW mem, NEW p, NEW c, Camino(mem, p, c)
  PROVE  /\ Agotado(mem, p, c) => Visitar(mem, p, c) = c
         /\ ~Agotado(mem, p, c) => /\ Camino(mem, p, Visitar(mem, p, c))
                                   /\ Len(Visitar(mem, p, c)) = Len(c) + 1
  <1> DEFINE q == IF c = <<>> THEN p ELSE mem[Last(c)].next
             d == Append(c, q)
  <1>1. c \in Seq(DOMAIN mem) /\ Len(c) \in Nat
    BY LenProperties DEF Camino
  <1>2. Visitar(mem, p, c) = IF q \in DOMAIN mem THEN d ELSE c
    BY DEF Visitar
  <1>3. Agotado(mem, p, c) <=> q \notin DOMAIN mem
    BY DEF Agotado
  <1>4. q = IF Len(c) = 0 THEN p ELSE mem[c[Len(c)]].next
    <2>1. c = <<>> <=> Len(c) = 0
      BY <1>1, EmptySeq
    <2>2. QED
      BY <2>1 DEF Last
  <1> HIDE DEF q
  <1>5. ASSUME q \in DOMAIN mem
        PROVE  Camino(mem, p, d) /\ Len(d) = Len(c) + 1
    <2>1. /\ d \in Seq(DOMAIN mem) /\ Len(d) = Len(c) + 1
          /\ \A i \in 1..Len(c) : d[i] = c[i]
          /\ d[Len(c) + 1] = q
      BY <1>1, <1>5, AppendProperties
    <2> HIDE DEF d
    <2>2. ASSUME NEW i \in 1..Len(d)
          PROVE  d[i] = IF i = 1 THEN p ELSE mem[d[i - 1]].next
      <3>1. CASE i = Len(c) + 1
        <4>1. i # 1 => i - 1 \in 1..Len(c) /\ i - 1 = Len(c) /\ Len(c) # 0
          BY <1>1, <3>1
        <4>2. i = 1 => Len(c) = 0
          BY <1>1, <3>1
        <4>3. QED
          BY <1>4, <2>1, <3>1, <4>1, <4>2
      <3>2. CASE i # Len(c) + 1
        <4>1. i \in 1..Len(c) /\ (i # 1 => i - 1 \in 1..Len(c))
          BY <1>1, <2>1, <3>2
        <4>2. c[i] = IF i = 1 THEN p ELSE mem[c[i - 1]].next
          BY <4>1 DEF Camino
        <4>3. QED
          BY <2>1, <4>1, <4>2
      <3>3. QED
        BY <3>1, <3>2
    <2>3. QED
      BY <2>1, <2>2 DEF Camino
  <1>6. QED
    BY <1>2, <1>3, <1>5

(* The walk is a path that either cannot go on or has used up its steps. *)
LEMMA CadenaEs ==
  ASSUME NEW mem, NEW p, IsFiniteSet(DOMAIN mem)
  PROVE  /\ Camino(mem, p, Cadena(mem, p))
         /\ \/ Agotado(mem, p, Cadena(mem, p))
            \/ Len(Cadena(mem, p)) = Cardinality(DOMAIN mem)
  <1> DEFINE n == Cardinality(DOMAIN mem)
             g == CHOOSE h : h = [k \in 0..n |-> IF k = 0 THEN <<>> ELSE Visitar(mem, p, h[k - 1])]
             Bien(k) == /\ Camino(mem, p, g[k])
                        /\ Agotado(mem, p, g[k]) \/ Len(g[k]) = k
             Malos == {k \in 0..n : ~Bien(k)}
  <1>1. n \in Nat
    BY FS_CardinalityType
  <1>2. Cadena(mem, p) = g[n]
    BY DEF Cadena
  <1> HIDE DEF n
  <1>3. Visita(g, mem, p, n)
    <2>1. \E h : Visita(h, mem, p, n)
      BY <1>1, VisitaExiste
    <2>2. \E h : h = [k \in 0..n |-> IF k = 0 THEN <<>> ELSE Visitar(mem, p, h[k - 1])]
      BY <2>1 DEF Visita
    <2>3. g = [k \in 0..n |-> IF k = 0 THEN <<>> ELSE Visitar(mem, p, g[k - 1])]
      BY <2>2
    <2>4. QED
      BY <2>3 DEF Visita
  <1> HIDE DEF g
  <1>4. g[0] = <<>> /\ \A k \in 1..n : g[k] = Visitar(mem, p, g[k - 1])
    BY <1>1, <1>3, VisitaDe
  <1>5. Malos = {}
    <2> SUFFICES ASSUME Malos # {} PROVE FALSE
      OBVIOUS
    <2>1. PICK k \in Malos : \A y \in Malos : k <= y
      <3>1. Malos \in SUBSET Nat
        BY <1>1
      <3> HIDE DEF Malos
      <3>2. QED
        BY <3>1, PrimeroExiste
    <2>2. k # 0
      <3>1. <<>> \in Seq(DOMAIN mem) /\ Len(<<>>) = 0
        BY EmptySeq
      <3>2. Camino(mem, p, <<>>)
        BY <3>1 DEF Camino
      <3>3. Bien(0)
        BY <1>4, <3>1, <3>2
      <3>4. QED
        BY <3>3
    <2>3. k \in 1..n /\ k - 1 \in 0..n /\ ~(k <= k - 1)
      BY <1>1, <2>2
    <2>4. Bien(k - 1)
      BY <2>1, <2>3
    <2>5. g[k] = Visitar(mem, p, g[k - 1])
      BY <1>4, <2>3
    <2>6. Bien(k)
      <3>1. CASE Agotado(mem, p, g[k - 1])
        BY <2>4, <2>5, <3>1, CaminoPaso
      <3>2. CASE ~Agotado(mem, p, g[k - 1])
        <4>1. Camino(mem, p, g[k]) /\ Len(g[k]) = Len(g[k - 1]) + 1 /\ Len(g[k - 1]) = k - 1
          BY <2>4, <2>5, <3>2, CaminoPaso
        <4>2. QED
          BY <2>3, <4>1
      <3>3. QED
        BY <3>1, <3>2
    <2>7. QED
      BY <2>6
  <1>6. Bien(n)
    <2>1. n \in 0..n
      BY <1>1
    <2>2. QED
      BY <1>5, <2>1
  <1>7. QED
    BY <1>2, <1>6 DEF n

(* Links with no two to the same block, and none to p, where a walk starts. *)
Raiz(mem, p) ==
  /\ \A k, l \in DOMAIN mem :
       mem[k].next = mem[l].next /\ mem[k].next \in DOMAIN mem => k = l
  /\ \A k \in DOMAIN mem : mem[k].next = p => p \notin DOMAIN mem

(* Such a walk never comes back to a block. *)
LEMMA CaminoSinVueltas ==
  ASSUME NEW mem, NEW p, NEW c, Raiz(mem, p), Camino(mem, p, c)
  PROVE  \A i, j \in 1..Len(c) : c[i] = c[j] => i = j
  <1> DEFINE Malos == {i \in 1..Len(c) : \E j \in 1..Len(c) : i < j /\ c[i] = c[j]}
  <1>1. c \in Seq(DOMAIN mem) /\ Len(c) \in Nat /\ \A i \in 1..Len(c) : c[i] \in DOMAIN mem
    BY LenProperties, ElementOfSeq DEF Camino
  <1>2. Malos = {}
    <2> SUFFICES ASSUME Malos # {} PROVE FALSE
      OBVIOUS
    <2>1. PICK i \in Malos : \A y \in Malos : i <= y
      <3>1. Malos \in SUBSET Nat
        BY <1>1
      <3> HIDE DEF Malos
      <3>2. QED
        BY <3>1, PrimeroExiste
    <2>2. PICK j \in 1..Len(c) : i < j /\ c[i] = c[j]
      OBVIOUS
    <2>3. i \in 1..Len(c) /\ j - 1 \in 1..Len(c) /\ j # 1 /\ c[j] = mem[c[j - 1]].next
      <3>1. i \in 1..Len(c) /\ j - 1 \in 1..Len(c) /\ j # 1
        BY <1>1, <2>2
      <3>2. QED
        BY <3>1 DEF Camino
    <2>4. CASE i = 1
      <3>1. c[i] = p
        BY <2>3, <2>4 DEF Camino
      <3>2. QED
        BY <1>1, <2>2, <2>3, <3>1 DEF Raiz
    <2>5. CASE i # 1
      <3>1. i - 1 \in 1..Len(c) /\ i - 1 < j - 1 /\ ~(i <= i - 1)
        BY <1>1, <2>2, <2>3, <2>5
      <3>2. c[i] = mem[c[i - 1]].next
        BY <2>3, <2>5 DEF Camino
      <3>3. c[i - 1] = c[j - 1]
        BY <1>1, <2>2, <2>3, <3>1, <3>2 DEF Raiz
      <3>4. i - 1 \in Malos
        BY <2>3, <3>1, <3>3
      <3>5. QED
        BY <2>1, <3>1, <3>4
    <2>6. QED
      BY <2>4, <2>5
  <1>3. ASSUME NEW i \in 1..Len(c), NEW j \in 1..Len(c), c[i] = c[j] PROVE i = j
    <2>1. ~(i < j) /\ ~(j < i)
      BY <1>2, <1>3
    <2>2. QED
      BY <1>1, <2>1
  <1>4. QED
    BY <1>3

(* And so as many steps as there are blocks are enough. *)
LEMMA CadenaCompleta ==
  ASSUME NEW mem, NEW p, IsFiniteSet(DOMAIN mem), Raiz(mem, p)
  PROVE  Agotado(mem, p, Cadena(mem, p))
  <1> DEFINE c == Cadena(mem, p)
             n == Len(c)
             q == IF c = <<>> THEN p ELSE mem[Last(c)].next
  <1>1. /\ Camino(mem, p, c)
        /\ Agotado(mem, p, c) \/ n = Cardinality(DOMAIN mem)
    BY CadenaEs
  <1> SUFFICES ASSUME n = Cardinality(DOMAIN mem), ~Agotado(mem, p, c) PROVE FALSE
    BY <1>1
  <1>2. q \in DOMAIN mem
    BY DEF Agotado
  <1>3. /\ c \in Seq(DOMAIN mem) /\ n \in Nat /\ c \in [1..n -> DOMAIN mem]
        /\ \A i \in 1..n : c[i] \in DOMAIN mem
        /\ c = <<>> <=> n = 0
    BY <1>1, LenProperties, ElementOfSeq, EmptySeq DEF Camino
  <1>4. \A i, j \in 1..n : c[i] = c[j] => i = j
    BY <1>1, CaminoSinVueltas
  <1>5. \A x \in DOMAIN mem : \E i \in 1..n : c[i] = x
    <2> HIDE DEF c
    <2>1. c \in Injection(1..n, DOMAIN mem)
      BY <1>3, <1>4 DEF Injection, IsInjective
    <2>2. Cardinality(1..n) = n
      BY <1>3, FS_Interval
    <2>3. c \in Surjection(1..n, DOMAIN mem)
      BY <2>1, <2>2, FS_Injection
    <2>4. QED
      BY <2>3 DEF Surjection
  <1>6. PICK i \in 1..n : c[i] = q
    BY <1>2, <1>5
  <1>7. n # 0 /\ n \in 1..n /\ q = mem[c[n]].next
    BY <1>3 DEF Last
  <1> HIDE DEF q
  <1>8. CASE i = 1
    <2>1. q = p
      BY <1>1, <1>6, <1>8 DEF Camino
    <2>2. QED
      BY <1>2, <1>3, <1>7, <2>1 DEF Raiz
  <1>9. CASE i # 1
    <2>1. i - 1 \in 1..n /\ i - 1 # n
      BY <1>3, <1>9
    <2>2. c[i] = mem[c[i - 1]].next
      BY <1>1, <1>9 DEF Camino
    <2>3. c[i - 1] = c[n]
      BY <1>2, <1>3, <1>6, <1>7, <2>1, <2>2 DEF Raiz
    <2>4. QED
      BY <1>4, <1>7, <2>1, <2>3
  <1>10. QED
    BY <1>8, <1>9

(* The blocks of a chain: each is the first or behind another of them. *)
LEMMA EnCadena ==
  ASSUME NEW mem, NEW p, IsFiniteSet(DOMAIN mem), NEW c, c = Cadena(mem, p)
  PROVE  /\ c \in Seq(DOMAIN mem) /\ Len(c) \in Nat /\ DOMAIN c = 1..Len(c)
         /\ \A i \in 1..Len(c) : c[i] \in DOMAIN mem
         /\ \A i \in 1..Len(c) : c[i] = IF i = 1 THEN p ELSE mem[c[i - 1]].next
         /\ Range(c) \subseteq DOMAIN mem
         /\ \A x \in Range(c) : x = p \/ \E k \in Range(c) : mem[k].next = x
  <1>1. /\ c \in Seq(DOMAIN mem)
        /\ \A i \in 1..Len(c) : c[i] = IF i = 1 THEN p ELSE mem[c[i - 1]].next
    BY CadenaEs DEF Camino
  <1>2. /\ Len(c) \in Nat /\ DOMAIN c = 1..Len(c) /\ Range(c) \subseteq DOMAIN mem
        /\ \A i \in 1..Len(c) : c[i] \in DOMAIN mem
    BY <1>1, LenProperties, RangeOfSeq, ElementOfSeq
  <1>3. ASSUME NEW x \in Range(c)
        PROVE  x = p \/ \E k \in Range(c) : mem[k].next = x
    <2>1. PICK i \in 1..Len(c) : x = c[i]
      BY <1>2 DEF Range
    <2>2. CASE i = 1
      BY <1>1, <2>1, <2>2
    <2>3. CASE i # 1
      <3>1. i - 1 \in 1..Len(c)
        BY <1>2, <2>3
      <3>2. c[i - 1] \in Range(c) /\ mem[c[i - 1]].next = x
        BY <1>1, <1>2, <2>1, <2>3, <3>1 DEF Range
      <3>3. QED
        BY <3>2
    <2>4. QED
      BY <2>2, <2>3
  <1>4. QED
    BY <1>1, <1>2, <1>3

(* Whatever holds of its start and goes from a block to the next. *)
LEMMA CadenaMinima ==
  ASSUME NEW mem, NEW p, IsFiniteSet(DOMAIN mem), NEW S,
         p \in DOMAIN mem => p \in S,
         \A k \in DOMAIN mem : k \in S /\ mem[k].next \in DOMAIN mem => mem[k].next \in S
  PROVE  Range(Cadena(mem, p)) \subseteq S
  <1> DEFINE c == Cadena(mem, p)
             Malos == {i \in 1..Len(c) : c[i] \notin S}
  <1>1. /\ Len(c) \in Nat /\ DOMAIN c = 1..Len(c)
        /\ \A i \in 1..Len(c) : c[i] \in DOMAIN mem
        /\ \A i \in 1..Len(c) : c[i] = IF i = 1 THEN p ELSE mem[c[i - 1]].next
    BY EnCadena
  <1> HIDE DEF c
  <1>2. Malos = {}
    <2> SUFFICES ASSUME Malos # {} PROVE FALSE
      OBVIOUS
    <2>1. PICK i \in Malos : \A y \in Malos : i <= y
      <3>1. Malos \in SUBSET Nat
        BY <1>1
      <3> HIDE DEF Malos
      <3>2. QED
        BY <3>1, PrimeroExiste
    <2>2. i # 1
      BY <1>1
    <2>3. i \in 1..Len(c) /\ i - 1 \in 1..Len(c) /\ ~(i <= i - 1)
      BY <1>1, <2>2
    <2>4. c[i - 1] \in S
      BY <2>1, <2>3
    <2>5. c[i] \in S
      BY <1>1, <2>2, <2>3, <2>4
    <2>6. QED
      BY <2>5
  <1>3. QED
    BY <1>1, <1>2 DEF Range, c

LEMMA CadenaCerrada ==
  ASSUME NEW mem, NEW p, IsFiniteSet(DOMAIN mem), Raiz(mem, p), NEW c, c = Cadena(mem, p)
  PROVE  /\ c = <<>> <=> p \notin DOMAIN mem
         /\ p \in DOMAIN mem => p \in Range(c)
         /\ c # <<>> => Last(c) \in Range(c) /\ mem[Last(c)].next \notin DOMAIN mem
         /\ \A k \in Range(c) : mem[k].next \in DOMAIN mem => mem[k].next \in Range(c)
  <1>1. /\ c \in Seq(DOMAIN mem) /\ Len(c) \in Nat /\ DOMAIN c = 1..Len(c)
        /\ \A i \in 1..Len(c) : c[i] \in DOMAIN mem
        /\ \A i \in 1..Len(c) : c[i] = IF i = 1 THEN p ELSE mem[c[i - 1]].next
    BY EnCadena
  <1>2. (IF c = <<>> THEN p ELSE mem[Last(c)].next) \notin DOMAIN mem
    BY CadenaCompleta DEF Agotado
  <1>3. c = <<>> <=> Len(c) = 0
    BY <1>1, EmptySeq
  <1>4. c # <<>> => 1 \in 1..Len(c) /\ Len(c) \in 1..Len(c)
    BY <1>1, <1>3
  <1>5. c # <<>> => p \in DOMAIN mem /\ p \in Range(c)
    BY <1>1, <1>4 DEF Range
  <1>6. c # <<>> => Last(c) \in Range(c) /\ mem[Last(c)].next \notin DOMAIN mem
    BY <1>1, <1>2, <1>4 DEF Last, Range
  <1>7. c = <<>> => p \notin DOMAIN mem
    BY <1>2
  <1>8. ASSUME NEW k \in Range(c), mem[k].next \in DOMAIN mem
        PROVE  mem[k].next \in Range(c)
    <2>1. PICK i \in 1..Len(c) : k = c[i]
      BY <1>1 DEF Range
    <2>2. c # <<>>
      BY <1>1, <1>3, <2>1
    <2>3. i # Len(c)
      BY <1>6, <1>8, <2>1, <2>2 DEF Last
    <2>4. i + 1 \in 1..Len(c) /\ i + 1 # 1 /\ (i + 1) - 1 = i
      <3>1. Len(c) \in Nat
        BY <1>1
      <3>2. QED
        BY <2>3, <3>1
    <2>5. c[i + 1] = mem[k].next
      BY <1>1, <2>1, <2>4
    <2>6. QED
      BY <1>1, <2>4, <2>5 DEF Range
  <1>9. QED
    BY <1>5, <1>6, <1>7, <1>8
-----------------------------------------------------------------------------
(***************************************************************************)
(* Pointers.                                                               *)
(***************************************************************************)
LEMMA Lugares ==
  /\ \A a, b : /\ EnNodo(a) = EnNodo(b) => a = b
               /\ EnCola(a) = EnCola(b) => a = b
               /\ EnHilo(a) = EnHilo(b) => a = b
               /\ EnCola(a) # EnNodo(b) /\ EnHilo(a) # EnNodo(b) /\ EnCola(a) # EnHilo(b)
  /\ \A a : EnHead # EnNodo(a)
  <1>1. ASSUME NEW a, NEW b
        PROVE  /\ EnNodo(a) = EnNodo(b) => a = b
               /\ EnCola(a) = EnCola(b) => a = b
               /\ EnHilo(a) = EnHilo(b) => a = b
               /\ EnCola(a) # EnNodo(b) /\ EnHilo(a) # EnNodo(b) /\ EnCola(a) # EnHilo(b)
    BY DEF EnNodo, EnCola, EnHilo
  <1>2. ASSUME NEW a PROVE EnHead # EnNodo(a)
    BY DEF EnHead, EnNodo
  <1>3. QED
    BY <1>1, <1>2

LEMMA PunterosMensajeDe ==
  ASSUME NEW us, NEW ms, NEW hs, NEW f, f = PunterosMensaje(us, ms, hs)
  PROVE  /\ \A x : x \in DOMAIN f <=> \/ \E u \in DOMAIN us : x = EnCola(u)
                                      \/ \E k \in DOMAIN ms : x = EnNodo(k)
                                      \/ \E t \in DOMAIN hs : x = EnHilo(t)
         /\ \A u \in DOMAIN us : EnCola(u) \in DOMAIN f /\ f[EnCola(u)] = us[u].mensajes
         /\ \A k \in DOMAIN ms : EnNodo(k) \in DOMAIN f /\ f[EnNodo(k)] = ms[k].next
         /\ \A t \in DOMAIN hs : EnHilo(t) \in DOMAIN f /\ f[EnHilo(t)] = hs[t].act
         /\ \A k : EnNodo(k) \in DOMAIN f => k \in DOMAIN ms
         /\ f = [x \in DOMAIN f |-> f[x]]
  <1> DEFINE X == {EnCola(u) : u \in DOMAIN us} \cup {EnNodo(k) : k \in DOMAIN ms}
                    \cup {EnHilo(t) : t \in DOMAIN hs}
             v(x) == CASE x[1] = "cola" -> us[x[2]].mensajes
                       [] x[1] = "nodo" -> ms[x[2]].next
                       [] x[1] = "hilo" -> hs[x[2]].act
  <1>1. f = [x \in X |-> v(x)]
    BY DEF PunterosMensaje
  <1>2. ASSUME NEW a PROVE /\ v(EnCola(a)) = us[a].mensajes
                           /\ v(EnNodo(a)) = ms[a].next
                           /\ v(EnHilo(a)) = hs[a].act
    BY DEF EnCola, EnNodo, EnHilo
  <1> HIDE DEF v
  <1>3. DOMAIN f = X /\ \A x \in X : f[x] = v(x)
    BY <1>1
  <1>4. \A x : x \in DOMAIN f <=> \/ \E u \in DOMAIN us : x = EnCola(u)
                                  \/ \E k \in DOMAIN ms : x = EnNodo(k)
                                  \/ \E t \in DOMAIN hs : x = EnHilo(t)
    BY <1>3
  <1>5. \A u \in DOMAIN us : EnCola(u) \in DOMAIN f /\ f[EnCola(u)] = us[u].mensajes
    BY <1>2, <1>3
  <1>6. \A k \in DOMAIN ms : EnNodo(k) \in DOMAIN f /\ f[EnNodo(k)] = ms[k].next
    BY <1>2, <1>3
  <1>7. \A t \in DOMAIN hs : EnHilo(t) \in DOMAIN f /\ f[EnHilo(t)] = hs[t].act
    BY <1>2, <1>3
  <1>8. \A k : EnNodo(k) \in DOMAIN f => k \in DOMAIN ms
    BY <1>4, Lugares
  <1>9. f = [x \in DOMAIN f |-> f[x]]
    BY <1>1
  <1>10. QED
    BY <1>4, <1>5, <1>6, <1>7, <1>8, <1>9

LEMMA PunterosUsuarioDe ==
  ASSUME NEW p, NEW us, NEW f, f = PunterosUsuario(p, us)
  PROVE  /\ \A x : x \in DOMAIN f <=> x = EnHead \/ \E k \in DOMAIN us : x = EnNodo(k)
         /\ EnHead \in DOMAIN f /\ f[EnHead] = p
         /\ \A k \in DOMAIN us : EnNodo(k) \in DOMAIN f /\ f[EnNodo(k)] = us[k].next
         /\ \A k : EnNodo(k) \in DOMAIN f => k \in DOMAIN us
  <1> DEFINE X == {EnHead} \cup {EnNodo(u) : u \in DOMAIN us}
             v(x) == IF x[1] = "head" THEN p ELSE us[x[2]].next
  <1>1. f = [x \in X |-> v(x)]
    BY DEF PunterosUsuario
  <1>2. v(EnHead) = p /\ \A a : v(EnNodo(a)) = us[a].next
    BY DEF EnHead, EnNodo
  <1> HIDE DEF v
  <1>3. DOMAIN f = X /\ \A x \in X : f[x] = v(x)
    BY <1>1
  <1>4. \A x : x \in DOMAIN f <=> x = EnHead \/ \E k \in DOMAIN us : x = EnNodo(k)
    BY <1>3
  <1>5. EnHead \in DOMAIN f /\ f[EnHead] = p
    BY <1>2, <1>3
  <1>6. \A k \in DOMAIN us : EnNodo(k) \in DOMAIN f /\ f[EnNodo(k)] = us[k].next
    BY <1>2, <1>3
  <1>7. \A k : EnNodo(k) \in DOMAIN f => k \in DOMAIN us
    BY <1>4, Lugares
  <1>8. QED
    BY <1>4, <1>5, <1>6, <1>7

(* The places of a set D of nodes, and of what leads to them. *)
Nodos(f, D) == \A k : EnNodo(k) \in DOMAIN f <=> k \in D

(* A pointer in one of the nodes of S, or in none of those of D. *)
Activo(S, D, x) == \A k \in D : x = EnNodo(k) => k \in S

(* S has whatever is reached from the users, the threads or head. *)
Contiene(S, f, D) == \A x \in DOMAIN f : Activo(S, D, x) => f[x] \in S \cup {NULL}

(* Every node is reached. *)
Alcanzado(f, D) == \A S : Contiene(S, f, D) => D \subseteq S

(***************************************************************************)
(* What the handlers do to the pointers: b goes between x and what it led  *)
(* to (a new user, a new message); k, which x led to, is left out and      *)
(* freed; y is emptied into x; the chain F from x is freed.                *)
(***************************************************************************)
Insertar(f, g, D, x, b) ==
  /\ x \in DOMAIN f /\ b \notin D \cup {NULL}
  /\ DOMAIN g = DOMAIN f \cup {EnNodo(b)}
  /\ g[x] = b /\ g[EnNodo(b)] = f[x]
  /\ \A z \in DOMAIN f \ {x} : g[z] = f[z]

Saltar(f, g, D, x, k) ==
  /\ x \in DOMAIN f /\ f[x] = k /\ k \in D /\ x # EnNodo(k)
  /\ DOMAIN g = DOMAIN f \ {EnNodo(k)}
  /\ g[x] = f[EnNodo(k)]
  /\ \A z \in DOMAIN g \ {x} : g[z] = f[z]

Mover(f, g, x, y) ==
  /\ x \in DOMAIN f /\ y \in DOMAIN f /\ x # y /\ f[x] = NULL
  /\ DOMAIN g = DOMAIN f
  /\ g[x] = f[y] /\ g[y] = NULL
  /\ \A z \in DOMAIN f \ {x, y} : g[z] = f[z]

(* The place x goes with its user or is set to NULL. *)
Soltar(f, g, D, x, F) ==
  /\ x \in DOMAIN f /\ x \notin {EnNodo(k) : k \in D} /\ F \subseteq D
  /\ f[x] \in F \cup {NULL}
  /\ \A k \in F : f[EnNodo(k)] \in F \cup {NULL}
  /\ \A k \in F : f[x] = k \/ \E j \in F : f[EnNodo(j)] = k
  /\ \A z : z \in DOMAIN g \/ z = x <=> z \in DOMAIN f /\ z \notin {EnNodo(k) : k \in F}
  /\ x \in DOMAIN g => g[x] = NULL
  /\ \A z \in DOMAIN g \ {x} : g[z] = f[z]

(* Only its own nodes, and x, lead to a node of F. *)
SoloDesde(f, x, F) == \A z \in DOMAIN f \ {x} : f[z] \in F => \E j \in F : z = EnNodo(j)

LEMMA InsertarBien ==
  ASSUME NEW f, NEW g, NEW D, NEW x, NEW b, Insertar(f, g, D, x, b), Nodos(f, D)
  PROVE  /\ Encadenado(f, D) => Encadenado(g, D \cup {b})
         /\ Alcanzado(f, D) => Alcanzado(g, D \cup {b})
  <1>1. EnNodo(b) \notin DOMAIN f /\ EnNodo(b) # x
    BY DEF Insertar, Nodos
  <1>2. ASSUME Encadenado(f, D) PROVE Encadenado(g, D \cup {b})
    BY <1>1, <1>2 DEF Encadenado, Insertar
  <1>3. ASSUME Alcanzado(f, D), NEW S, Contiene(S, g, D \cup {b})
        PROVE  D \cup {b} \subseteq S
    <2>1. ASSUME NEW z \in DOMAIN f, Activo(S, D, z)
          PROVE  Activo(S, D \cup {b}, z) /\ z \in DOMAIN g
      BY <1>1, <2>1 DEF Activo, Insertar
    <2>2. ASSUME NEW z \in DOMAIN f, Activo(S, D, z)
          PROVE  f[z] \in S \cup {NULL}
      <3>1. g[z] \in S \cup {NULL}
        BY <1>3, <2>1, <2>2 DEF Contiene
      <3>2. CASE z # x
        BY <3>1, <3>2 DEF Insertar
      <3>3. CASE z = x
        <4>1. b \in S
          BY <3>1, <3>3 DEF Insertar
        <4>2. Activo(S, D \cup {b}, EnNodo(b)) /\ EnNodo(b) \in DOMAIN g
          BY <4>1, Lugares DEF Activo, Insertar
        <4>3. QED
          BY <1>3, <3>3, <4>2 DEF Contiene, Insertar
      <3>4. QED
        BY <3>2, <3>3
    <2>3. D \subseteq S
      BY <1>3, <2>2 DEF Alcanzado, Contiene
    <2>4. Activo(S, D, x)
      BY <2>3 DEF Activo
    <2>5. g[x] \in S \cup {NULL}
      BY <1>3, <2>1, <2>4 DEF Contiene, Insertar
    <2>6. QED
      BY <2>3, <2>5 DEF Insertar
  <1>4. QED
    BY <1>2, <1>3 DEF Alcanzado

LEMMA SaltarBien ==
  ASSUME NEW f, NEW g, NEW D, NEW x, NEW k, Saltar(f, g, D, x, k), Nodos(f, D),
         Encadenado(f, D)
  PROVE  /\ Encadenado(g, D \ {k})
         /\ Alcanzado(f, D) => Alcanzado(g, D \ {k})
  <1>1. EnNodo(k) \in DOMAIN f /\ k # NULL
    BY DEF Saltar, Nodos, Encadenado
  <1>2. \A z \in DOMAIN f : f[z] = k => z = x
    BY <1>1 DEF Saltar, Encadenado
  <1>3. Encadenado(g, D \ {k})
    BY <1>1, <1>2 DEF Encadenado, Saltar
  <1>4. ASSUME Alcanzado(f, D), NEW S, Contiene(S, g, D \ {k})
        PROVE  D \ {k} \subseteq S
    <2>1. CASE Activo(S, D \ {k}, x)
      <3> DEFINE T == S \cup {k}
      <3>1. ASSUME NEW z \in DOMAIN f, Activo(T, D, z)
            PROVE  f[z] \in T \cup {NULL}
        <4>1. CASE z = x
          BY <4>1 DEF Saltar
        <4>2. CASE z = EnNodo(k)
          <5>1. g[x] \in S \cup {NULL}
            BY <1>4, <2>1 DEF Contiene, Saltar
          <5>2. QED
            BY <4>2, <5>1 DEF Saltar
        <4>3. CASE z # x /\ z # EnNodo(k)
          <5>1. z \in DOMAIN g /\ g[z] = f[z]
            BY <4>3 DEF Saltar
          <5>2. Activo(S, D \ {k}, z)
            BY <3>1, <4>3 DEF Activo
          <5>3. QED
            BY <1>4, <5>1, <5>2 DEF Contiene
        <4>4. QED
          BY <4>1, <4>2, <4>3
      <3>2. D \subseteq T
        <4> HIDE DEF T
        <4>1. QED
          BY <1>4, <3>1 DEF Alcanzado, Contiene
      <3>3. QED
        BY <3>2
    <2>2. CASE ~Activo(S, D \ {k}, x)
      <3> DEFINE T == S \ {k}
      <3>1. ASSUME NEW z \in DOMAIN f, Activo(T, D, z)
            PROVE  f[z] \in T \cup {NULL}
        <4>1. z # EnNodo(k)
          BY <3>1 DEF Activo, Saltar
        <4>2. z # x
          BY <2>2, <3>1 DEF Activo
        <4>3. z \in DOMAIN g /\ g[z] = f[z] /\ f[z] # k
          BY <1>2, <4>1, <4>2 DEF Saltar
        <4>4. Activo(S, D \ {k}, z)
          BY <3>1 DEF Activo
        <4>5. QED
          BY <1>4, <4>3, <4>4 DEF Contiene
      <3>2. D \subseteq T
        <4> HIDE DEF T
        <4>1. QED
          BY <1>4, <3>1 DEF Alcanzado, Contiene
      <3>3. QED
        BY <3>2
    <2>3. QED
      BY <2>1, <2>2
  <1>5. QED
    BY <1>3, <1>4 DEF Alcanzado

(* Without a leak when the place x is reached without y. *)
LEMMA MoverBien ==
  ASSUME NEW f, NEW g, NEW D, NEW x, NEW y, Mover(f, g, x, y)
  PROVE  /\ Encadenado(f, D) => Encadenado(g, D)
         /\ Alcanzado(f, D) /\ (\A S : Contiene(S, g, D) => Activo(S, D, x))
              => Alcanzado(g, D)
  <1>1. ASSUME Encadenado(f, D) PROVE Encadenado(g, D)
    BY <1>1 DEF Encadenado, Mover
  <1>2. ASSUME Alcanzado(f, D), NEW S, Contiene(S, g, D), Activo(S, D, x)
        PROVE  D \subseteq S
    <2>1. ASSUME NEW z \in DOMAIN f, Activo(S, D, z)
          PROVE  f[z] \in S \cup {NULL}
      <3>1. g[z] \in S \cup {NULL} /\ g[x] \in S \cup {NULL}
        BY <1>2, <2>1 DEF Contiene, Mover
      <3>2. QED
        BY <3>1 DEF Mover
    <2>2. QED
      BY <1>2, <2>1 DEF Alcanzado, Contiene
  <1>3. QED
    BY <1>1, <1>2 DEF Alcanzado

LEMMA SoltarBien ==
  ASSUME NEW f, NEW g, NEW D, NEW x, NEW F, Soltar(f, g, D, x, F), Nodos(f, D),
         Encadenado(f, D)
  PROVE  /\ Encadenado(g, D \ F)
         /\ Alcanzado(f, D) => Alcanzado(g, D \ F)
         /\ SoloDesde(f, x, F)
  <1>1. \A z \in DOMAIN f \ {x} : f[z] \in F => \E j \in F : z = EnNodo(j)
    <2>1. \A j \in F : EnNodo(j) \in DOMAIN f /\ j # NULL
      BY DEF Soltar, Nodos, Encadenado
    <2>2. QED
      BY <2>1 DEF Soltar, Encadenado
  <1>2. Encadenado(g, D \ F)
    <2>1. \A z \in DOMAIN g : /\ z \in DOMAIN f /\ z \notin {EnNodo(j) : j \in F}
                              /\ g[z] = IF z = x THEN NULL ELSE f[z]
      BY DEF Soltar
    <2>2. \A z \in DOMAIN g : g[z] \in (D \ F) \cup {NULL}
      BY <1>1, <2>1 DEF Encadenado
    <2>3. QED
      BY <2>1, <2>2 DEF Encadenado
  <1>3. ASSUME Alcanzado(f, D), NEW S, Contiene(S, g, D \ F)
        PROVE  D \ F \subseteq S
    <2> DEFINE T == S \cup F
    <2>1. ASSUME NEW z \in DOMAIN f, Activo(T, D, z)
          PROVE  f[z] \in T \cup {NULL}
      <3>1. CASE z = x
        BY <3>1 DEF Soltar
      <3>2. CASE z \in {EnNodo(j) : j \in F}
        BY <3>2 DEF Soltar
      <3>3. CASE z # x /\ z \notin {EnNodo(j) : j \in F}
        <4>1. z \in DOMAIN g /\ g[z] = f[z]
          BY <3>3 DEF Soltar
        <4>2. Activo(S, D \ F, z)
          BY <2>1, <3>3 DEF Activo
        <4>3. QED
          BY <1>3, <4>1, <4>2 DEF Contiene
      <3>4. QED
        BY <3>1, <3>2, <3>3
    <2>2. D \subseteq T
      <3> HIDE DEF T
      <3>1. QED
        BY <1>3, <2>1 DEF Alcanzado, Contiene
    <2>3. QED
      BY <2>2
  <1>4. QED
    BY <1>1, <1>2, <1>3 DEF Alcanzado, SoloDesde
-----------------------------------------------------------------------------
(***************************************************************************)
(* Walks and pointers: the chain from a place that is in no node.          *)
(***************************************************************************)
Enlaza(f, mem) ==
  /\ Nodos(f, DOMAIN mem)
  /\ \A k \in DOMAIN mem : f[EnNodo(k)] = mem[k].next

Raices(f, D) == DOMAIN f \ {EnNodo(k) : k \in D}

LEMMA CadenaDe ==
  ASSUME NEW f, NEW mem, IsFiniteSet(DOMAIN mem), Enlaza(f, mem),
         Encadenado(f, DOMAIN mem), NEW x \in Raices(f, DOMAIN mem),
         NEW c, c = Cadena(mem, f[x])
  PROVE  /\ c = <<>> <=> f[x] = NULL
         /\ f[x] \in Range(c) \cup {NULL}
         /\ c # <<>> => /\ Last(c) \in Range(c)
                        /\ f[EnNodo(Last(c))] = NULL
         /\ Range(c) \subseteq DOMAIN mem
         /\ \A k \in Range(c) : f[EnNodo(k)] \in Range(c) \cup {NULL}
         /\ \A k \in Range(c) : f[x] = k \/ \E j \in Range(c) : f[EnNodo(j)] = k
  <1> DEFINE D == DOMAIN mem
             p == f[x]
  <1>1. p \in D \cup {NULL} /\ NULL \notin D
    BY DEF Encadenado, Raices
  <1>2. \A k \in D : /\ EnNodo(k) \in DOMAIN f /\ f[EnNodo(k)] = mem[k].next
                     /\ mem[k].next \in D \cup {NULL}
    BY DEF Enlaza, Nodos, Encadenado
  <1>3. Raiz(mem, p)
    <2>1. \A k, l \in D : mem[k].next = mem[l].next /\ mem[k].next \in D => k = l
      BY <1>1, <1>2, Lugares DEF Encadenado
    <2>2. \A k \in D : mem[k].next = p => p \notin D
      BY <1>1, <1>2 DEF Encadenado, Raices
    <2>3. QED
      BY <2>1, <2>2 DEF Raiz
  <1>4. /\ c = <<>> <=> p \notin D
        /\ p \in D => p \in Range(c)
        /\ c # <<>> => Last(c) \in Range(c) /\ mem[Last(c)].next \notin D
        /\ \A k \in Range(c) : mem[k].next \in D => mem[k].next \in Range(c)
    BY <1>3, CadenaCerrada
  <1>5. /\ Range(c) \subseteq D
        /\ \A y \in Range(c) : y = p \/ \E k \in Range(c) : mem[k].next = y
    BY EnCadena
  <1> HIDE DEF D, p
  <1>6. c = <<>> <=> p = NULL
    BY <1>1, <1>4
  <1>7. p \in Range(c) \cup {NULL}
    BY <1>1, <1>4
  <1>8. c # <<>> => Last(c) \in Range(c) /\ f[EnNodo(Last(c))] = NULL
    BY <1>2, <1>4, <1>5
  <1>9. \A k \in Range(c) : f[EnNodo(k)] \in Range(c) \cup {NULL}
    BY <1>2, <1>4, <1>5
  <1>10. \A k \in Range(c) : p = k \/ \E j \in Range(c) : f[EnNodo(j)] = k
    BY <1>2, <1>5
  <1>11. QED
    BY <1>5, <1>6, <1>7, <1>8, <1>9, <1>10 DEF D, p

(* Nothing else leads to it. *)
LEMMA CadenaSola ==
  ASSUME NEW f, NEW mem, IsFiniteSet(DOMAIN mem), Enlaza(f, mem),
         Encadenado(f, DOMAIN mem), NEW x \in Raices(f, DOMAIN mem),
         NEW c, c = Cadena(mem, f[x])
  PROVE  \A z \in DOMAIN f :
           f[z] \in Range(c) => z = x \/ \E j \in Range(c) : z = EnNodo(j)
  <1>1. /\ Range(c) \subseteq DOMAIN mem
        /\ \A k \in Range(c) : f[x] = k \/ \E j \in Range(c) : f[EnNodo(j)] = k
    BY CadenaDe
  <1> TAKE z \in DOMAIN f
  <1> HAVE f[z] \in Range(c)
  <1>2. x \in DOMAIN f /\ f[z] # NULL /\ \A j \in Range(c) : EnNodo(j) \in DOMAIN f
    BY <1>1 DEF Raices, Encadenado, Enlaza, Nodos
  <1>3. \A y \in DOMAIN f : f[z] = f[y] => z = y
    BY <1>2 DEF Encadenado
  <1>4. f[x] = f[z] \/ \E j \in Range(c) : f[EnNodo(j)] = f[z]
    BY <1>1
  <1>5. QED
    BY <1>2, <1>3, <1>4

(* Where the pointer to a node of the chain is: x, or the node before. *)
LEMMA CadenaAntes ==
  ASSUME NEW f, NEW mem, IsFiniteSet(DOMAIN mem), Enlaza(f, mem),
         Encadenado(f, DOMAIN mem), NEW x \in Raices(f, DOMAIN mem),
         NEW c, c = Cadena(mem, f[x]), NEW i \in 1..Len(c)
  PROVE  /\ Len(c) \in Nat /\ c[i] \in Range(c) /\ c[i] \in DOMAIN mem
         /\ i = 1 => f[x] = c[i]
         /\ i # 1 => /\ i - 1 \in 1..Len(c) /\ c[i - 1] \in Range(c)
                     /\ mem[c[i - 1]].next = c[i]
                     /\ f[EnNodo(c[i - 1])] = c[i] /\ c[i - 1] # c[i]
  <1>1. /\ Len(c) \in Nat /\ DOMAIN c = 1..Len(c)
        /\ \A j \in 1..Len(c) : c[j] \in DOMAIN mem
        /\ \A j \in 1..Len(c) : c[j] = IF j = 1 THEN f[x] ELSE mem[c[j - 1]].next
    BY EnCadena
  <1>2. \A j \in 1..Len(c) : c[j] \in Range(c)
    BY <1>1 DEF Range
  <1>3. ASSUME i # 1
        PROVE  /\ i - 1 \in 1..Len(c) /\ c[i - 1] \in Range(c)
               /\ mem[c[i - 1]].next = c[i]
               /\ f[EnNodo(c[i - 1])] = c[i] /\ c[i - 1] # c[i]
    <2>1. i - 1 \in 1..Len(c) /\ i - 1 # i
      <3>1. Len(c) \in Nat
        BY <1>1
      <3>2. QED
        BY <1>3, <3>1
    <2>2. c[i] = mem[c[i - 1]].next /\ c[i - 1] \in DOMAIN mem
      BY <1>1, <1>3, <2>1
    <2>3. f[EnNodo(c[i - 1])] = c[i]
      BY <2>2 DEF Enlaza
    <2>4. Raiz(mem, f[x])
      <3>1. \A k \in DOMAIN mem : /\ EnNodo(k) \in DOMAIN f /\ f[EnNodo(k)] = mem[k].next
                                  /\ x # EnNodo(k)
        BY DEF Enlaza, Nodos, Raices
      <3>2. x \in DOMAIN f /\ NULL \notin DOMAIN mem
        BY DEF Raices, Encadenado
      <3>3. QED
        BY <3>1, <3>2, Lugares DEF Raiz, Encadenado
    <2>5. Camino(mem, f[x], c)
      BY CadenaEs
    <2>6. c[i - 1] # c[i]
      BY <2>1, <2>4, <2>5, CaminoSinVueltas
    <2>7. QED
      BY <1>2, <2>1, <2>2, <2>3, <2>6
  <1>4. QED
    BY <1>1, <1>2, <1>3

(* What has its first node, and the next of each of its nodes, has it all. *)
LEMMA CadenaDentro ==
  ASSUME NEW f, NEW mem, IsFiniteSet(DOMAIN mem), Enlaza(f, mem),
         Encadenado(f, DOMAIN mem), NEW x \in Raices(f, DOMAIN mem),
         NEW c, c = Cadena(mem, f[x]),
         NEW S, f[x] \in S \cup {NULL},
         \A k \in Range(c) : k \in S => f[EnNodo(k)] \in S \cup {NULL}
  PROVE  Range(c) \subseteq S
  <1> DEFINE T == S \cap Range(c)
  <1>1. /\ f[x] \in Range(c) \cup {NULL}
        /\ Range(c) \subseteq DOMAIN mem
        /\ \A k \in Range(c) : f[EnNodo(k)] \in Range(c) \cup {NULL}
    BY CadenaDe
  <1>2. NULL \notin DOMAIN mem
    BY DEF Encadenado
  <1>3. f[x] \in DOMAIN mem => f[x] \in T
    BY <1>1, <1>2
  <1>4. \A k \in DOMAIN mem : k \in T /\ mem[k].next \in DOMAIN mem => mem[k].next \in T
    BY <1>1, <1>2 DEF Enlaza
  <1> HIDE DEF T
  <1>5. Range(c) \subseteq T
    BY <1>3, <1>4, CadenaMinima
  <1>6. QED
    BY <1>5 DEF T

(* Nothing leaks: every node is in a chain. *)
LEMMA AlcanzadoEs ==
  ASSUME NEW f, NEW mem, IsFiniteSet(DOMAIN mem), Enlaza(f, mem),
         Encadenado(f, DOMAIN mem)
  PROVE  Alcanzado(f, DOMAIN mem) <=>
           \A k \in DOMAIN mem : \E x \in Raices(f, DOMAIN mem) :
             k \in Range(Cadena(mem, f[x]))
  <1> DEFINE D == DOMAIN mem
             R == Raices(f, D)
             F(x) == Range(Cadena(mem, f[x]))
  <1>1. ASSUME NEW x \in R
        PROVE  /\ f[x] \in F(x) \cup {NULL} /\ F(x) \subseteq D
               /\ \A k \in F(x) : f[EnNodo(k)] \in F(x) \cup {NULL}
    BY CadenaDe
  <1>2. ASSUME NEW x \in R, NEW S, f[x] \in S \cup {NULL},
               \A k \in F(x) : k \in S => f[EnNodo(k)] \in S \cup {NULL}
        PROVE  F(x) \subseteq S
    BY <1>2, CadenaDentro
  <1>3. \A k \in D : EnNodo(k) \in DOMAIN f
    BY DEF Enlaza, Nodos
  <1>4. \A z \in DOMAIN f : z \in R \/ \E k \in D : z = EnNodo(k)
    BY DEF Raices
  <1>5. \A z \in R : z \in DOMAIN f /\ \A k \in D : z # EnNodo(k)
    BY DEF Raices
  <1> HIDE DEF D, R, F
  <1>6. ASSUME Alcanzado(f, D), NEW k \in D PROVE \E x \in R : k \in F(x)
    <2> DEFINE S == {j \in D : \E x \in R : j \in F(x)}
    <2>1. ASSUME NEW z \in DOMAIN f, Activo(S, D, z) PROVE f[z] \in S \cup {NULL}
      <3>1. CASE z \in R
        BY <1>1, <3>1
      <3>2. CASE \E j \in D : z = EnNodo(j)
        <4>1. PICK j \in D : z = EnNodo(j)
          BY <3>2
        <4>2. j \in S
          BY <2>1, <4>1 DEF Activo
        <4>3. PICK x \in R : j \in F(x)
          BY <4>2
        <4>4. QED
          BY <1>1, <4>1, <4>3
      <3>3. QED
        BY <1>4, <3>1, <3>2
    <2>2. D \subseteq S
      <3> HIDE DEF S
      <3>1. QED
        BY <1>6, <2>1 DEF Alcanzado, Contiene
    <2>3. QED
      BY <2>2
  <1>7. ASSUME \A k \in D : \E x \in R : k \in F(x), NEW S, Contiene(S, f, D)
        PROVE  D \subseteq S
    <2>1. ASSUME NEW x \in R PROVE F(x) \subseteq S
      <3>1. f[x] \in S \cup {NULL}
        BY <1>5, <1>7 DEF Contiene, Activo
      <3>2. ASSUME NEW k \in F(x), k \in S PROVE f[EnNodo(k)] \in S \cup {NULL}
        <4>1. k \in D /\ EnNodo(k) \in DOMAIN f
          BY <1>1, <1>3
        <4>2. Activo(S, D, EnNodo(k))
          BY <3>2, Lugares DEF Activo
        <4>3. QED
          BY <1>7, <4>1, <4>2 DEF Contiene
      <3>3. QED
        BY <1>2, <3>1, <3>2
    <2>2. QED
      BY <1>7, <2>1
  <1>8. Alcanzado(f, D) <=> \A k \in D : \E x \in R : k \in F(x)
    BY <1>6, <1>7 DEF Alcanzado
  <1>9. QED
    BY <1>8 DEF D, R, F
-----------------------------------------------------------------------------
(***************************************************************************)
(* The pointers of a state.                                                *)
(***************************************************************************)
LEMMA Memoria ==
  ASSUME TypeOK
  PROVE  /\ IsFiniteSet(DOMAIN usuarios) /\ IsFiniteSet(DOMAIN mensajes)
         /\ NULL \notin DOMAIN usuarios /\ NULL \notin DOMAIN mensajes
         /\ Enlaza(AMensaje, mensajes) /\ Enlaza(AUsuario, usuarios)
         /\ \A u \in DOMAIN usuarios : /\ EnCola(u) \in Raices(AMensaje, DOMAIN mensajes)
                                       /\ AMensaje[EnCola(u)] = usuarios[u].mensajes
         /\ \A t \in Hilos : /\ EnHilo(t) \in Raices(AMensaje, DOMAIN mensajes)
                             /\ AMensaje[EnHilo(t)] = hilo[t].act
         /\ EnHead \in Raices(AUsuario, DOMAIN usuarios) /\ AUsuario[EnHead] = head
  <1> DEFINE f == AMensaje
             g == AUsuario
  <1>1. /\ IsFiniteSet(DOMAIN usuarios) /\ IsFiniteSet(DOMAIN mensajes)
        /\ NULL \notin DOMAIN usuarios /\ NULL \notin DOMAIN mensajes
    BY ConstantesUserList, FS_Subset DEF TypeOK
  <1>2. DOMAIN hilo = Hilos
    BY DEF TypeOK
  <1>3. f = PunterosMensaje(usuarios, mensajes, hilo) /\ g = PunterosUsuario(head, usuarios)
    BY DEF AMensaje, AUsuario
  <1> HIDE DEF f, g
  <1>4. /\ \A u \in DOMAIN usuarios : EnCola(u) \in DOMAIN f /\ f[EnCola(u)] = usuarios[u].mensajes
        /\ \A k \in DOMAIN mensajes : EnNodo(k) \in DOMAIN f /\ f[EnNodo(k)] = mensajes[k].next
        /\ \A t \in Hilos : EnHilo(t) \in DOMAIN f /\ f[EnHilo(t)] = hilo[t].act
        /\ \A k : EnNodo(k) \in DOMAIN f => k \in DOMAIN mensajes
    BY <1>2, <1>3, PunterosMensajeDe
  <1>5. /\ EnHead \in DOMAIN g /\ g[EnHead] = head
        /\ \A k \in DOMAIN usuarios : EnNodo(k) \in DOMAIN g /\ g[EnNodo(k)] = usuarios[k].next
        /\ \A k : EnNodo(k) \in DOMAIN g => k \in DOMAIN usuarios
    BY <1>3, PunterosUsuarioDe
  <1>6. Enlaza(f, mensajes) /\ Enlaza(g, usuarios)
    BY <1>4, <1>5 DEF Enlaza, Nodos
  <1>7. \A u \in DOMAIN usuarios : /\ EnCola(u) \in Raices(f, DOMAIN mensajes)
                                   /\ f[EnCola(u)] = usuarios[u].mensajes
    BY <1>4, Lugares DEF Raices
  <1>8. \A t \in Hilos : EnHilo(t) \in Raices(f, DOMAIN mensajes) /\ f[EnHilo(t)] = hilo[t].act
    BY <1>4, Lugares DEF Raices
  <1>9. EnHead \in Raices(g, DOMAIN usuarios) /\ g[EnHead] = head
    BY <1>5, Lugares DEF Raices
  <1>10. QED
    BY <1>1, <1>6, <1>7, <1>8, <1>9 DEF f, g

(* The nodes of the queues and of the chains in hand. *)
EnAlgunaCadena(us, ms, hs) ==
  (UNION {Range(Cadena(ms, us[u].mensajes)) : u \in DOMAIN us})
    \cup (UNION {Range(Cadena(ms, hs[t].act)) : t \in DOMAIN hs})

(* SinFugas, for the pointers. *)
LEMMA MensajesAlcanzados ==
  ASSUME NEW us, NEW ms, NEW hs, NEW f, f = PunterosMensaje(us, ms, hs),
         IsFiniteSet(DOMAIN ms), Encadenado(f, DOMAIN ms)
  PROVE  Alcanzado(f, DOMAIN ms) <=> DOMAIN ms = EnAlgunaCadena(us, ms, hs)
  <1> DEFINE D == DOMAIN ms
             R == Raices(f, D)
             C(p) == Range(Cadena(ms, p))
             U == (UNION {C(us[u].mensajes) : u \in DOMAIN us})
                    \cup (UNION {C(hs[t].act) : t \in DOMAIN hs})
  <1>1. /\ \A x : x \in DOMAIN f <=> \/ \E u \in DOMAIN us : x = EnCola(u)
                                     \/ \E k \in DOMAIN ms : x = EnNodo(k)
                                     \/ \E t \in DOMAIN hs : x = EnHilo(t)
        /\ \A u \in DOMAIN us : EnCola(u) \in DOMAIN f /\ f[EnCola(u)] = us[u].mensajes
        /\ \A k \in DOMAIN ms : EnNodo(k) \in DOMAIN f /\ f[EnNodo(k)] = ms[k].next
        /\ \A t \in DOMAIN hs : EnHilo(t) \in DOMAIN f /\ f[EnHilo(t)] = hs[t].act
        /\ \A k : EnNodo(k) \in DOMAIN f => k \in DOMAIN ms
    BY PunterosMensajeDe
  <1>2. Enlaza(f, ms)
    BY <1>1 DEF Enlaza, Nodos
  <1>3. \A x : x \in R <=> \/ \E u \in DOMAIN us : x = EnCola(u)
                           \/ \E t \in DOMAIN hs : x = EnHilo(t)
    BY <1>1, Lugares DEF Raices
  <1>4. Alcanzado(f, D) <=> \A k \in D : \E x \in R : k \in C(f[x])
    BY <1>2, AlcanzadoEs
  <1>5. ASSUME NEW p PROVE C(p) \subseteq D
    BY EnCadena
  <1> HIDE DEF C, R
  <1>6. \A k : k \in U <=> \/ \E u \in DOMAIN us : k \in C(us[u].mensajes)
                           \/ \E t \in DOMAIN hs : k \in C(hs[t].act)
    OBVIOUS
  <1>7. \A k : (\E x \in R : k \in C(f[x])) <=> k \in U
    <2> HIDE DEF U
    <2>1. ASSUME NEW k PROVE (\E x \in R : k \in C(f[x])) <=> k \in U
      <3>1. ASSUME NEW x \in R, k \in C(f[x]) PROVE k \in U
        <4>1. CASE \E u \in DOMAIN us : x = EnCola(u)
          BY <1>1, <1>6, <3>1, <4>1
        <4>2. CASE \E t \in DOMAIN hs : x = EnHilo(t)
          BY <1>1, <1>6, <3>1, <4>2
        <4>3. QED
          BY <1>3, <4>1, <4>2
      <3>2. ASSUME k \in U PROVE \E x \in R : k \in C(f[x])
        <4>1. CASE \E u \in DOMAIN us : k \in C(us[u].mensajes)
          BY <1>1, <1>3, <4>1
        <4>2. CASE \E t \in DOMAIN hs : k \in C(hs[t].act)
          BY <1>1, <1>3, <4>2
        <4>3. QED
          BY <1>6, <3>2, <4>1, <4>2
      <3>3. QED
        BY <3>1, <3>2
    <2>2. QED
      BY <2>1
  <1>8. U \subseteq D
    BY <1>5, <1>6
  <1>9. Alcanzado(f, D) <=> D = U
    <2> HIDE DEF U, D
    <2>1. QED
      BY <1>4, <1>7, <1>8
  <1>10. QED
    BY <1>9 DEF D, U, C, EnAlgunaCadena

LEMMA UsuariosAlcanzados ==
  ASSUME NEW p, NEW us, NEW f, f = PunterosUsuario(p, us),
         IsFiniteSet(DOMAIN us), Encadenado(f, DOMAIN us)
  PROVE  Alcanzado(f, DOMAIN us) <=> DOMAIN us = Range(Cadena(us, p))
  <1> DEFINE D == DOMAIN us
             R == Raices(f, D)
             C(q) == Range(Cadena(us, q))
  <1>1. /\ \A x : x \in DOMAIN f <=> x = EnHead \/ \E k \in DOMAIN us : x = EnNodo(k)
        /\ EnHead \in DOMAIN f /\ f[EnHead] = p
        /\ \A k \in DOMAIN us : EnNodo(k) \in DOMAIN f /\ f[EnNodo(k)] = us[k].next
        /\ \A k : EnNodo(k) \in DOMAIN f => k \in DOMAIN us
    BY PunterosUsuarioDe
  <1>2. Enlaza(f, us)
    BY <1>1 DEF Enlaza, Nodos
  <1>3. \A x : x \in R <=> x = EnHead
    BY <1>1, Lugares DEF Raices
  <1>4. Alcanzado(f, D) <=> \A k \in D : \E x \in R : k \in C(f[x])
    BY <1>2, AlcanzadoEs
  <1>5. C(p) \subseteq D
    BY EnCadena
  <1> HIDE DEF C, R
  <1>6. Alcanzado(f, D) <=> D = C(p)
    <2> HIDE DEF D
    <2>1. QED
      BY <1>1, <1>3, <1>4, <1>5
  <1>7. QED
    BY <1>6 DEF D, C

(* What of the pointers the handlers keep, whatever the types. *)
Sano ==
  /\ Encadenado(AMensaje, DOMAIN mensajes)
  /\ proceso = Vivo => /\ Alcanzado(AMensaje, DOMAIN mensajes)
                       /\ Encadenado(AUsuario, DOMAIN usuarios)
                       /\ Alcanzado(AUsuario, DOMAIN usuarios)

LEMMA SanoDeIInv ==
  ASSUME IInv, proceso = Vivo
  PROVE  Sano /\ SigFiel
  <1> DEFINE f == AMensaje
             g == AUsuario
  <1>1. /\ TypeOK /\ Encadenado(f, DOMAIN mensajes) /\ Encadenado(g, DOMAIN usuarios)
        /\ SigFiel
    BY DEF IInv
  <1>2. f = PunterosMensaje(usuarios, mensajes, hilo) /\ g = PunterosUsuario(head, usuarios)
    BY DEF AMensaje, AUsuario
  <1>3. /\ IsFiniteSet(DOMAIN usuarios) /\ IsFiniteSet(DOMAIN mensajes)
        /\ DOMAIN hilo = Hilos
    BY <1>1, Memoria DEF TypeOK
  <1> HIDE DEF f, g
  <1>4. ASSUME proceso = Vivo
        PROVE  Alcanzado(f, DOMAIN mensajes) /\ Alcanzado(g, DOMAIN usuarios)
    <2>1. /\ DOMAIN usuarios = Range(Cadena(usuarios, head))
          /\ DOMAIN mensajes = EnAlgunaCadena(usuarios, mensajes, hilo)
      BY <1>3, <1>4 DEF IInv, SinFugas, Lista, ColaDe, EnMano, EnAlgunaCadena
    <2>2. Alcanzado(f, DOMAIN mensajes)
      BY <1>1, <1>2, <1>3, <2>1, MensajesAlcanzados
    <2>3. Alcanzado(g, DOMAIN usuarios)
      BY <1>1, <1>2, <1>3, <1>4, <2>1, UsuariosAlcanzados
    <2>4. QED
      BY <2>2, <2>3
  <1>5. QED
    BY <1>1, <1>4 DEF Sano, f, g

LEMMA FugasDeSano ==
  ASSUME TypeOK, Sano
  PROVE  SinFugas
  <1> DEFINE f == AMensaje
             g == AUsuario
  <1>1. f = PunterosMensaje(usuarios, mensajes, hilo) /\ g = PunterosUsuario(head, usuarios)
    BY DEF AMensaje, AUsuario
  <1>2. /\ IsFiniteSet(DOMAIN usuarios) /\ IsFiniteSet(DOMAIN mensajes)
        /\ DOMAIN hilo = Hilos
    BY Memoria DEF TypeOK
  <1> SUFFICES ASSUME proceso = Vivo
               PROVE  /\ DOMAIN usuarios = Range(Lista)
                      /\ DOMAIN mensajes = (UNION {Range(ColaDe(u)) : u \in DOMAIN usuarios})
                                             \cup (UNION {Range(EnMano(t)) : t \in Hilos})
    BY DEF SinFugas
  <1>3. /\ Encadenado(f, DOMAIN mensajes) /\ Alcanzado(f, DOMAIN mensajes)
        /\ Encadenado(g, DOMAIN usuarios) /\ Alcanzado(g, DOMAIN usuarios)
    BY DEF Sano
  <1> HIDE DEF f, g
  <1>4. DOMAIN mensajes = EnAlgunaCadena(usuarios, mensajes, hilo)
    BY <1>1, <1>2, <1>3, MensajesAlcanzados
  <1>5. DOMAIN usuarios = Range(Cadena(usuarios, head))
    BY <1>1, <1>2, <1>3, UsuariosAlcanzados
  <1>6. QED
    BY <1>2, <1>4, <1>5 DEF Lista, ColaDe, EnMano, EnAlgunaCadena

LEMMA Encontrado ==
  ASSUME TypeOK, NEW n, Existe(n)
  PROVE  find_user(n) \in DOMAIN usuarios /\ find_user(n) \in Range(Lista)
  <1>1. \E u \in Range(Lista) : usuarios[u].userName = n
    BY DEF Existe, find_user
  <1>2. find_user(n) \in Range(Lista)
    <2>1. find_user(n) = CHOOSE u \in Range(Lista) : usuarios[u].userName = n
      BY <1>1 DEF find_user
    <2>2. QED
      BY <1>1, <2>1
  <1>3. Range(Lista) \subseteq DOMAIN usuarios
    BY Memoria, EnCadena DEF Lista
  <1>4. QED
    BY <1>2, <1>3
-----------------------------------------------------------------------------
(***************************************************************************)
(* What each handler does to the pointers.                                 *)
(***************************************************************************)
(* A new user has no queue. *)
LEMMA RaizBien ==
  ASSUME NEW f, NEW g, NEW D, NEW x, \A k \in D : x # EnNodo(k), x \notin DOMAIN f,
         DOMAIN g = DOMAIN f \cup {x}, g[x] = NULL, \A z \in DOMAIN f : g[z] = f[z]
  PROVE  /\ Encadenado(f, D) => Encadenado(g, D)
         /\ Alcanzado(f, D) => Alcanzado(g, D)
  <1>1. ASSUME Encadenado(f, D) PROVE Encadenado(g, D)
    BY <1>1 DEF Encadenado
  <1>2. ASSUME NEW S, Contiene(S, g, D) PROVE Contiene(S, f, D)
    BY <1>2 DEF Contiene
  <1>3. QED
    BY <1>1, <1>2 DEF Alcanzado

LEMMA MismosUsuarios ==
  ASSUME NEW p, NEW us, NEW vs, DOMAIN vs = DOMAIN us,
         \A u \in DOMAIN us : vs[u].next = us[u].next
  PROVE  PunterosUsuario(p, vs) = PunterosUsuario(p, us)
  <1> DEFINE f == PunterosUsuario(p, us)
             g == PunterosUsuario(p, vs)
  <1>1. f = [x \in DOMAIN f |-> f[x]] /\ g = [x \in DOMAIN g |-> g[x]]
    BY DEF PunterosUsuario
  <1>2. /\ \A x : x \in DOMAIN f <=> x = EnHead \/ \E k \in DOMAIN us : x = EnNodo(k)
        /\ f[EnHead] = p
        /\ \A k \in DOMAIN us : f[EnNodo(k)] = us[k].next
    BY PunterosUsuarioDe
  <1>3. /\ \A x : x \in DOMAIN g <=> x = EnHead \/ \E k \in DOMAIN vs : x = EnNodo(k)
        /\ g[EnHead] = p
        /\ \A k \in DOMAIN vs : g[EnNodo(k)] = vs[k].next
    BY PunterosUsuarioDe
  <1> HIDE DEF f, g
  <1>4. DOMAIN f = DOMAIN g
    BY <1>2, <1>3
  <1>5. ASSUME NEW x \in DOMAIN f PROVE g[x] = f[x]
    BY <1>2, <1>3
  <1>6. g = f
    BY <1>1, <1>4, <1>5
  <1>7. QED
    BY <1>6 DEF f, g

LEMMA MismosMensajes ==
  ASSUME NEW us, NEW vs, NEW ms, NEW ns, NEW hs, NEW is,
         DOMAIN vs = DOMAIN us, \A u \in DOMAIN us : vs[u].mensajes = us[u].mensajes,
         DOMAIN ns = DOMAIN ms, \A k \in DOMAIN ms : ns[k].next = ms[k].next,
         DOMAIN is = DOMAIN hs, \A t \in DOMAIN hs : is[t].act = hs[t].act
  PROVE  PunterosMensaje(vs, ns, is) = PunterosMensaje(us, ms, hs)
  <1> DEFINE f == PunterosMensaje(us, ms, hs)
             g == PunterosMensaje(vs, ns, is)
  <1>1. f = [x \in DOMAIN f |-> f[x]] /\ g = [x \in DOMAIN g |-> g[x]]
    BY PunterosMensajeDe
  <1>2. /\ \A x : x \in DOMAIN f <=> \/ \E u \in DOMAIN us : x = EnCola(u)
                                     \/ \E k \in DOMAIN ms : x = EnNodo(k)
                                     \/ \E t \in DOMAIN hs : x = EnHilo(t)
        /\ \A u \in DOMAIN us : f[EnCola(u)] = us[u].mensajes
        /\ \A k \in DOMAIN ms : f[EnNodo(k)] = ms[k].next
        /\ \A t \in DOMAIN hs : f[EnHilo(t)] = hs[t].act
    BY PunterosMensajeDe
  <1>3. /\ \A x : x \in DOMAIN g <=> \/ \E u \in DOMAIN vs : x = EnCola(u)
                                     \/ \E k \in DOMAIN ns : x = EnNodo(k)
                                     \/ \E t \in DOMAIN is : x = EnHilo(t)
        /\ \A u \in DOMAIN vs : g[EnCola(u)] = vs[u].mensajes
        /\ \A k \in DOMAIN ns : g[EnNodo(k)] = ns[k].next
        /\ \A t \in DOMAIN is : g[EnHilo(t)] = is[t].act
    BY PunterosMensajeDe
  <1> HIDE DEF f, g
  <1>4. DOMAIN f = DOMAIN g
    BY <1>2, <1>3
  <1>5. ASSUME NEW x \in DOMAIN f PROVE g[x] = f[x]
    <2>1. CASE \E u \in DOMAIN us : x = EnCola(u)
      BY <1>2, <1>3, <2>1
    <2>2. CASE \E k \in DOMAIN ms : x = EnNodo(k)
      BY <1>2, <1>3, <2>2
    <2>3. CASE \E t \in DOMAIN hs : x = EnHilo(t)
      BY <1>2, <1>3, <2>3
    <2>4. QED
      BY <1>2, <2>1, <2>2, <2>3
  <1>6. g = f
    BY <1>1, <1>4, <1>5
  <1>7. QED
    BY <1>6 DEF f, g

(* A thread that is not concerned keeps its sig. *)
LEMMA SigSigue ==
  ASSUME TypeOK, SigFiel, NEW s \in Hilos, hilo'[s] = hilo[s],
         hilo[s].act # NULL => mensajes'[hilo[s].act].next = mensajes[hilo[s].act].next
  PROVE  hilo'[s].sig = IF hilo'[s].pc \in {"liberar", "reencolar"}
                        THEN mensajes'[hilo'[s].act].next ELSE NULL
  <1>1. hilo[s].sig = IF hilo[s].pc \in {"liberar", "reencolar"}
                      THEN mensajes[hilo[s].act].next ELSE NULL
    BY DEF SigFiel
  <1>2. hilo[s] \in {HiloLibre} \cup Entrega \cup Envio
    BY DEF TypeOK
  <1>3. hilo[s].pc \in {"liberar", "reencolar"} => hilo[s].act # NULL
    BY <1>2, ConstantesUserList DEF HiloLibre, Entrega, Envio
  <1>4. QED
    BY <1>1, <1>3

(* Where the pointers are, before and after a step. *)
LEMMA Antes ==
  ASSUME TypeOK
  PROVE  /\ \A x : x \in DOMAIN AMensaje <=> \/ \E u \in DOMAIN usuarios : x = EnCola(u)
                                             \/ \E k \in DOMAIN mensajes : x = EnNodo(k)
                                             \/ \E t \in Hilos : x = EnHilo(t)
         /\ \A u \in DOMAIN usuarios : /\ EnCola(u) \in DOMAIN AMensaje
                                       /\ AMensaje[EnCola(u)] = usuarios[u].mensajes
         /\ \A k \in DOMAIN mensajes : /\ EnNodo(k) \in DOMAIN AMensaje
                                       /\ AMensaje[EnNodo(k)] = mensajes[k].next
         /\ \A t \in Hilos : /\ EnHilo(t) \in DOMAIN AMensaje
                             /\ AMensaje[EnHilo(t)] = hilo[t].act
  <1>1. DOMAIN hilo = Hilos
    BY DEF TypeOK
  <1>2. QED
    BY <1>1, PunterosMensajeDe DEF AMensaje

LEMMA Despues ==
  ASSUME TypeOK'
  PROVE  /\ \A x : x \in DOMAIN AMensaje' <=> \/ \E u \in DOMAIN usuarios' : x = EnCola(u)
                                              \/ \E k \in DOMAIN mensajes' : x = EnNodo(k)
                                              \/ \E t \in Hilos : x = EnHilo(t)
         /\ \A u \in DOMAIN usuarios' : /\ EnCola(u) \in DOMAIN AMensaje'
                                        /\ AMensaje'[EnCola(u)] = usuarios'[u].mensajes
         /\ \A k \in DOMAIN mensajes' : /\ EnNodo(k) \in DOMAIN AMensaje'
                                        /\ AMensaje'[EnNodo(k)] = mensajes'[k].next
         /\ \A t \in Hilos : /\ EnHilo(t) \in DOMAIN AMensaje'
                             /\ AMensaje'[EnHilo(t)] = hilo'[t].act
  <1>1. DOMAIN hilo' = Hilos
    BY DEF TypeOK
  <1>2. QED
    BY <1>1, PunterosMensajeDe DEF AMensaje

LEMMA MismosLugares ==
  ASSUME TypeOK, TypeOK', DOMAIN usuarios' = DOMAIN usuarios, DOMAIN mensajes' = DOMAIN mensajes
  PROVE  DOMAIN AMensaje' = DOMAIN AMensaje
  <1>1. \A x : x \in DOMAIN AMensaje' <=> x \in DOMAIN AMensaje
    BY Antes, Despues
  <1>2. QED
    BY <1>1
-----------------------------------------------------------------------------
(***************************************************************************)
(* Types.                                                                  *)
(***************************************************************************)
TipoUsuarios == DOMAIN usuarios \subseteq NodosUsuario /\ usuarios \in [DOMAIN usuarios -> Usuario]
TipoMensajes == DOMAIN mensajes \subseteq NodosMensaje /\ mensajes \in [DOMAIN mensajes -> Mensaje]
TipoHilo == hilo \in [Hilos -> {HiloLibre} \cup Entrega \cup Envio]

(* A function with some of its blocks left. *)
LEMMA QuitarBloques ==
  ASSUME NEW mem, NEW N, NEW T, DOMAIN mem \subseteq N, mem \in [DOMAIN mem -> T], NEW S
  PROVE  LET r == Restrict(mem, DOMAIN mem \ S)
         IN  /\ DOMAIN r = DOMAIN mem \ S /\ r \in [DOMAIN r -> T]
             /\ \A k \in DOMAIN r : r[k] = mem[k]
  BY DEF Restrict

(* The node that eliminar_mensaje_cola unlinks is one of a queue. *)
LEMMA EliminarCasos ==
  ASSUME TypeOK, NEW t \in Hilos, eliminar_mensaje_cola(t)
  PROVE  \/ UNCHANGED <<usuarios, mensajes>>
         \/ \E u \in DOMAIN usuarios : \E i \in 1..Len(ColaDe(u)) :
              LET k == ColaDe(u)[i]
                  sinNodo == Restrict(mensajes, DOMAIN mensajes \ {k})
              IN  \/ /\ i = 1
                     /\ usuarios' = [usuarios EXCEPT ![u].mensajes = mensajes[k].next]
                     /\ mensajes' = sinNodo
                  \/ /\ i # 1
                     /\ mensajes' = [sinNodo EXCEPT ![ColaDe(u)[i - 1]].next = mensajes[k].next]
                     /\ UNCHANGED usuarios
  <1> DEFINE u == find_user(hilo[t].destino)
             c == ColaDe(u)
             i == SelectInSeq(c, LAMBDA m : mensajes[m].id = hilo[t].id)
             resto == mensajes[c[i]].next
             sinNodo == Restrict(mensajes, DOMAIN mensajes \ {c[i]})
  <1>1. \/ UNCHANGED <<usuarios, mensajes>>
        \/ /\ Existe(hilo[t].destino) /\ i = 1
           /\ usuarios' = [usuarios EXCEPT ![u].mensajes = resto]
           /\ mensajes' = sinNodo
        \/ /\ Existe(hilo[t].destino) /\ i > 1
           /\ mensajes' = [sinNodo EXCEPT ![c[i - 1]].next = resto]
           /\ UNCHANGED usuarios
    BY DEF eliminar_mensaje_cola, Avanza
  <1>2. Existe(hilo[t].destino) => u \in DOMAIN usuarios
    BY Encontrado
  <1>3. Len(c) \in Nat
    BY Memoria, EnCadena DEF ColaDe
  <1>4. i \in 0..Len(c)
    <2> DEFINE I == {j \in 1..Len(c) : mensajes[c[j]].id = hilo[t].id}
    <2>1. i = IF I # {} THEN Min(I) ELSE 0
      BY DEF SelectInSeq
    <2>2. I \in SUBSET Nat /\ I \subseteq 0..Len(c) /\ 0 \in 0..Len(c)
      <3> HIDE DEF c
      <3>1. QED
        BY <1>3
    <2> HIDE DEF I, c, i
    <2>3. ASSUME I # {} PROVE Min(I) \in I
      <3>1. \E x \in I : \A y \in I : x <= y
        BY <2>2, <2>3, PrimeroExiste
      <3>2. QED
        BY <3>1 DEF Min
    <2>4. QED
      BY <2>1, <2>2, <2>3
  <1> HIDE DEF i
  <1>5. i = 1 \/ i > 1 => i \in 1..Len(c)
    BY <1>3, <1>4
  <1>6. i > 1 => i # 1
    BY <1>4
  <1> HIDE DEF u
  <1>7. QED
    BY <1>1, <1>2, <1>5, <1>6

LEMMA TipoTerminar ==
  ASSUME TipoHilo, NEW t \in Hilos, Terminar(t)
  PROVE  /\ TipoHilo'
         /\ hilo'[t] = HiloLibre /\ \A s \in Hilos \ {t} : hilo'[s] = hilo[s]
  BY DEF TipoHilo, Terminar

LEMMA TipoHiloLibre ==
  ASSUME TipoHilo, NEW t \in Hilos
  PROVE  /\ hilo[t].act \in NodosMensaje \cup {NULL} /\ hilo[t].sig \in NodosMensaje \cup {NULL}
         /\ hilo[t].pc \in {"libre", "enviado"} => hilo[t].act = NULL /\ hilo[t].sig = NULL
         /\ hilo[t].pc = "libre" => hilo[t] = HiloLibre
         /\ hilo[t].pc = "enviado" => hilo[t] \in Envio
         /\ hilo[t].pc \in {"entregar", "liberar", "reencolar"} =>
              hilo[t] \in Entrega /\ hilo[t].act \in NodosMensaje /\ hilo[t].act # NULL
  <1>1. hilo[t] \in {HiloLibre} \cup Entrega \cup Envio
    BY DEF TipoHilo
  <1>2. CASE hilo[t] = HiloLibre
    BY <1>2 DEF HiloLibre
  <1>3. CASE hilo[t] \in Entrega
    BY <1>3, ConstantesUserList DEF Entrega
  <1>4. CASE hilo[t] \in Envio
    BY <1>4 DEF Envio
  <1>5. QED
    BY <1>1, <1>2, <1>3, <1>4

(* SIGINT, and what comes after it. *)
LEMMA ProcesoSigue ==
  ASSUME TypeOK, Next
  PROVE  /\ proceso' \in {Vivo, Fin, Indefinido} \cup Recorridos
         /\ tardios' \in 0..MaxTardios
         /\ proceso' = Vivo => proceso = Vivo
  <1>1. /\ proceso \in {Vivo, Fin, Indefinido} \cup Recorridos
        /\ tardios \in 0..MaxTardios /\ MaxTardios \in Nat
        /\ head \in NodosUsuario \cup {NULL}
    BY ConstantesUserList DEF TypeOK
  <1>2. Vivo \notin Recorridos /\ Vivo # Fin /\ Vivo # Indefinido
        /\ (Liberando => proceso \in Recorridos)
    BY <1>1 DEF Vivo, Fin, Indefinido, Recorridos, Liberando
  <1>3. \A p \in NodosUsuario \cup {NULL} : Recorrido(p) \in Recorridos
    BY DEF Recorrido, Recorridos
  <1>4. CASE Avanza
    BY <1>1, <1>4 DEF Avanza
  <1>5. CASE handle_sigint
    BY <1>1, <1>3, <1>5 DEF handle_sigint
  <1>6. CASE free_user_list
    <2>1. proceso \in Recorridos /\ proceso # Vivo
      BY <1>2, <1>6 DEF free_user_list, Liberando
    <2>2. /\ \A u \in DOMAIN usuarios : /\ usuarios[u].next \in NodosUsuario \cup {NULL}
                                         /\ usuarios[u].mensajes \in NodosMensaje \cup {NULL}
          /\ \A m \in DOMAIN mensajes : mensajes[m].next \in NodosMensaje \cup {NULL}
      BY DEF TypeOK, Usuario, Mensaje
    <2>3. proceso' \in Recorridos
      <3>1. ASSUME proceso.current \in DOMAIN usuarios,
                   proceso' = [proceso EXCEPT !.pc = "mensajes",
                                             !.next_user = usuarios[proceso.current].next]
            PROVE  proceso' \in Recorridos
        BY <2>1, <2>2, <3>1 DEF Recorridos
      <3>2. ASSUME proceso.current \in DOMAIN usuarios,
                   proceso' = [proceso EXCEPT !.pc = "mensaje",
                                             !.msg_actual = usuarios[proceso.current].mensajes]
            PROVE  proceso' \in Recorridos
        BY <2>1, <2>2, <3>2 DEF Recorridos
      <3>3. ASSUME proceso.msg_actual \in DOMAIN mensajes,
                   proceso' = [proceso EXCEPT !.pc = "free",
                                             !.next_msg = mensajes[proceso.msg_actual].next]
            PROVE  proceso' \in Recorridos
        BY <2>1, <2>2, <3>3 DEF Recorridos
      <3>4. ASSUME proceso' = [proceso EXCEPT !.pc = "mensaje", !.msg_actual = proceso.next_msg,
                                             !.next_msg = NULL]
            PROVE  proceso' \in Recorridos
        BY <2>1, <3>4 DEF Recorridos
      <3>5. ASSUME proceso' = Recorrido(proceso.next_user) PROVE proceso' \in Recorridos
        BY <1>3, <2>1, <3>5 DEF Recorridos
      <3>6. QED
        BY <1>6, <3>1, <3>2, <3>3, <3>4, <3>5 DEF free_user_list
    <2>4. tardios' = tardios
      BY <1>6 DEF free_user_list
    <2>5. QED
      BY <1>1, <1>2, <2>1, <2>3, <2>4
  <1>7. CASE salir \/ tropezar
    BY <1>1, <1>2, <1>7 DEF salir, tropezar, Acabar
  <1>8. CASE Acabado
    BY <1>1, <1>8 DEF Acabado, vars
  <1>9. QED
    BY <1>4, <1>5, <1>6, <1>7, <1>8
       DEF Next, procesar_register, procesar_unregister, procesar_disconnect, procesar_connect,
           procesar_envio_comun, eliminar_mensaje_cola, desconectar_destino, entregar_pendiente,
           liberar_entregado, reencolar

LEMMA TipoSigue ==
  ASSUME TypeOK, Next
  PROVE  TypeOK'
  <1>1. /\ TipoUsuarios /\ TipoMensajes /\ TipoHilo
        /\ head \in NodosUsuario \cup {NULL}
    BY DEF TypeOK, TipoUsuarios, TipoMensajes, TipoHilo
  <1> DEFINE TiposPrima ==
               /\ TipoUsuarios' /\ TipoMensajes' /\ TipoHilo'
               /\ head' \in NodosUsuario \cup {NULL}
  <1>2. TiposPrima => TypeOK'
    BY ProcesoSigue DEF TypeOK, TipoUsuarios, TipoMensajes, TipoHilo
  <1>3. UNCHANGED usuarios => TipoUsuarios'
    BY <1>1 DEF TipoUsuarios
  <1>4. UNCHANGED mensajes => TipoMensajes'
    BY <1>1 DEF TipoMensajes
  <1>5. UNCHANGED hilo => TipoHilo'
    BY <1>1 DEF TipoHilo
  <1>6. \A n : Existe(n) => find_user(n) \in DOMAIN usuarios
    BY Encontrado
  <1>7. ASSUME NEW S, mensajes' = Restrict(mensajes, DOMAIN mensajes \ S) PROVE TipoMensajes'
    BY <1>1, <1>7, QuitarBloques DEF TipoMensajes
  <1>8. \A t \in Hilos : Terminar(t) => TipoHilo'
    BY <1>1, TipoTerminar
  <1>9. \A u \in DOMAIN usuarios, b \in BOOLEAN :
          usuarios' = [usuarios EXCEPT ![u].conectado = b] => TipoUsuarios'
    BY <1>1 DEF TipoUsuarios, Usuario
  <1>10. \A u \in DOMAIN usuarios, b \in BOOLEAN, k \in NodosMensaje \cup {NULL} :
           usuarios' = [usuarios EXCEPT ![u].conectado = b, ![u].mensajes = k] => TipoUsuarios'
    BY <1>1 DEF TipoUsuarios, Usuario
  <1>11. \A u \in DOMAIN usuarios, k \in NodosMensaje \cup {NULL} :
           usuarios' = [usuarios EXCEPT ![u].mensajes = k] => TipoUsuarios'
    BY <1>1 DEF TipoUsuarios, Usuario
  <1>12. ASSUME NEW n \in Nombres, procesar_register(n) PROVE TypeOK'
    <2>1. PICK b \in NodosUsuario \ DOMAIN usuarios : add_user(n, b)
      BY <1>12 DEF procesar_register, Avanza
    <2>2. DOMAIN usuarios' = DOMAIN usuarios \cup {b} /\ head' = b
      BY <2>1 DEF add_user
    <2>3. ASSUME NEW u \in DOMAIN usuarios' PROVE usuarios'[u] \in Usuario
      <3>1. CASE u = b
        BY <1>1, <2>1, <3>1 DEF add_user, Usuario
      <3>2. CASE u # b
        <4>1. u \in DOMAIN usuarios /\ usuarios'[u] = usuarios[u]
          BY <2>1, <2>2, <3>2 DEF add_user
        <4>2. QED
          BY <1>1, <4>1 DEF TipoUsuarios
      <3>3. QED
        BY <3>1, <3>2
    <2>4. usuarios' = [u \in DOMAIN usuarios' |-> usuarios'[u]]
      BY <2>1 DEF add_user
    <2>5. TipoUsuarios'
      BY <1>1, <2>2, <2>3, <2>4 DEF TipoUsuarios
    <2>6. QED
      BY <1>1, <1>2, <1>4, <1>5, <1>12, <2>2, <2>5 DEF procesar_register, Avanza
  <1>13. ASSUME NEW n \in Nombres, procesar_unregister(n) PROVE TypeOK'
    <2> DEFINE u == find_user(n)
               sinNodo == Restrict(usuarios, DOMAIN usuarios \ {u})
    <2>1. u \in DOMAIN usuarios
      BY <1>6, <1>13 DEF procesar_unregister, Avanza
    <2>2. usuarios[u] \in Usuario
      BY <1>1, <2>1 DEF TipoUsuarios
    <2>3. /\ head' = IF head = u THEN usuarios[u].next ELSE head
          /\ usuarios' = [v \in DOMAIN sinNodo |->
                            IF sinNodo[v].next = u
                            THEN [sinNodo[v] EXCEPT !.next = usuarios[u].next]
                            ELSE sinNodo[v]]
          /\ mensajes' = Restrict(mensajes, DOMAIN mensajes \ Range(ColaDe(u)))
          /\ UNCHANGED <<hilo, proceso>>
      BY <1>13 DEF procesar_unregister, remove_user, Avanza
    <2>4. /\ DOMAIN sinNodo \subseteq NodosUsuario
          /\ \A v \in DOMAIN sinNodo : sinNodo[v] \in Usuario
      BY <1>1 DEF TipoUsuarios, Restrict
    <2> HIDE DEF sinNodo, u
    <2>5. TipoUsuarios'
      <3>1. DOMAIN usuarios' = DOMAIN sinNodo
        BY <2>3
      <3>2. ASSUME NEW v \in DOMAIN sinNodo PROVE usuarios'[v] \in Usuario
        BY <2>2, <2>3, <2>4 DEF Usuario
      <3>3. usuarios' = [v \in DOMAIN usuarios' |-> usuarios'[v]]
        BY <2>3
      <3>4. QED
        BY <2>4, <3>1, <3>2, <3>3 DEF TipoUsuarios
    <2>6. head' \in NodosUsuario \cup {NULL}
      BY <1>1, <2>2, <2>3 DEF Usuario
    <2>7. QED
      BY <1>1, <1>2, <1>5, <1>7, <2>3, <2>5, <2>6
  <1>14. ASSUME NEW n \in Nombres, procesar_disconnect(n) PROVE TypeOK'
    <2>1. find_user(n) \in DOMAIN usuarios
      BY <1>6, <1>14 DEF procesar_disconnect, Avanza
    <2>2. QED
      BY <1>1, <1>2, <1>4, <1>5, <1>9, <1>14, <2>1 DEF procesar_disconnect, Avanza
  <1>15. ASSUME NEW t \in Hilos, NEW n \in Nombres, procesar_connect(t, n) PROVE TypeOK'
    <2> DEFINE u == find_user(n)
    <2>1. u \in DOMAIN usuarios
      BY <1>6, <1>15 DEF procesar_connect, Avanza
    <2>2. usuarios[u].mensajes \in NodosMensaje \cup {NULL}
      BY <1>1, <2>1 DEF TipoUsuarios, Usuario
    <2>3. /\ usuarios' = [usuarios EXCEPT ![u].conectado = TRUE, ![u].mensajes = NULL]
          /\ hilo' = IF usuarios[u].mensajes = NULL THEN hilo
                     ELSE [hilo EXCEPT ![t] = [pc |-> "entregar", act |-> usuarios[u].mensajes,
                                               sig |-> NULL, dest_name |-> n]]
          /\ UNCHANGED <<mensajes, head, proceso>>
      BY <1>15 DEF procesar_connect, Avanza
    <2> HIDE DEF u
    <2>4. TipoUsuarios'
      BY <1>10, <2>1, <2>3
    <2>5. TipoHilo'
      <3>1. CASE usuarios[u].mensajes = NULL
        BY <1>5, <2>3, <3>1
      <3>2. CASE usuarios[u].mensajes # NULL
        <4>1. [pc |-> "entregar", act |-> usuarios[u].mensajes, sig |-> NULL, dest_name |-> n]
                \in Entrega
          BY <2>2, <3>2 DEF Entrega
        <4>2. QED
          BY <1>1, <2>3, <3>2, <4>1 DEF TipoHilo
      <3>3. QED
        BY <3>1, <3>2
    <2>6. QED
      BY <1>1, <1>2, <1>4, <2>3, <2>4, <2>5
  <1>16. ASSUME NEW t \in Hilos, NEW n \in Nombres, NEW id \in Ids, procesar_envio_comun(t, n, id)
         PROVE  TypeOK'
    <2> DEFINE u == find_user(n)
               c == ColaDe(u)
    <2>1. u \in DOMAIN usuarios
      BY <1>6, <1>16 DEF procesar_envio_comun, Avanza
    <2>2. PICK b \in NodosMensaje \ DOMAIN mensajes :
            /\ mensajes' = [m \in DOMAIN mensajes \cup {b} |->
                 IF m = b THEN [id |-> id, next |-> NULL]
                 ELSE IF c # <<>> /\ m = Last(c)
                      THEN [mensajes[m] EXCEPT !.next = b] ELSE mensajes[m]]
            /\ usuarios' = IF c = <<>> THEN [usuarios EXCEPT ![u].mensajes = b] ELSE usuarios
      BY <1>16 DEF procesar_envio_comun, Avanza
    <2>3. /\ hilo' = IF usuarios[u].conectado
                     THEN [hilo EXCEPT ![t] = [pc |-> "enviado", act |-> NULL, sig |-> NULL,
                                               destino |-> n, id |-> id]]
                     ELSE hilo
          /\ UNCHANGED <<head, proceso>>
      BY <1>16 DEF procesar_envio_comun, Avanza
    <2> HIDE DEF u, c
    <2>4. TipoUsuarios'
      BY <1>3, <1>11, <2>1, <2>2
    <2>5. TipoMensajes'
      <3>1. ASSUME NEW m \in DOMAIN mensajes' PROVE mensajes'[m] \in Mensaje
        <4>1. \A k \in DOMAIN mensajes : mensajes[k] \in Mensaje
          BY <1>1 DEF TipoMensajes
        <4>2. CASE m = b
          BY <2>2, <4>2 DEF Mensaje
        <4>3. CASE m # b
          BY <2>2, <4>1, <4>3 DEF Mensaje
        <4>4. QED
          BY <4>2, <4>3
      <3>2. /\ DOMAIN mensajes' = DOMAIN mensajes \cup {b}
            /\ mensajes' = [m \in DOMAIN mensajes' |-> mensajes'[m]]
        BY <2>2
      <3>3. QED
        BY <1>1, <3>1, <3>2 DEF TipoMensajes
    <2>6. TipoHilo'
      <3>1. [pc |-> "enviado", act |-> NULL, sig |-> NULL, destino |-> n, id |-> id] \in Envio
        BY DEF Envio
      <3>2. QED
        BY <1>1, <2>3, <3>1 DEF TipoHilo
    <2>7. QED
      BY <1>1, <1>2, <2>3, <2>4, <2>5, <2>6
  <1>17. ASSUME NEW t \in Hilos, eliminar_mensaje_cola(t) PROVE TypeOK'
    <2>1. Terminar(t) /\ UNCHANGED <<head, proceso>>
      BY <1>17 DEF eliminar_mensaje_cola, Avanza
    <2>2. CASE UNCHANGED <<usuarios, mensajes>>
      BY <1>1, <1>2, <1>3, <1>4, <1>8, <2>1, <2>2
    <2>3. ASSUME NEW u \in DOMAIN usuarios, NEW i \in 1..Len(ColaDe(u)), NEW k,
                 k = ColaDe(u)[i], NEW r, r = Restrict(mensajes, DOMAIN mensajes \ {k}),
                 \/ /\ usuarios' = [usuarios EXCEPT ![u].mensajes = mensajes[k].next]
                    /\ mensajes' = r
                 \/ /\ \E j : mensajes' = [r EXCEPT ![j].next = mensajes[k].next]
                    /\ UNCHANGED usuarios
          PROVE  TypeOK'
      <3>1. k \in DOMAIN mensajes
        BY <2>3, Memoria, EnCadena DEF ColaDe
      <3>2. mensajes[k].next \in NodosMensaje \cup {NULL}
        BY <1>1, <3>1 DEF TipoMensajes, Mensaje
      <3>3. DOMAIN r \subseteq NodosMensaje /\ r \in [DOMAIN r -> Mensaje]
        BY <1>1, <2>3 DEF TipoMensajes, Restrict
      <3>4. TipoUsuarios'
        BY <1>3, <1>11, <2>3, <3>2
      <3>5. TipoMensajes'
        <4>1. mensajes' = r => TipoMensajes'
          BY <3>3 DEF TipoMensajes
        <4>2. ASSUME NEW j, mensajes' = [r EXCEPT ![j].next = mensajes[k].next]
              PROVE  TipoMensajes'
          <5>1. DOMAIN mensajes' = DOMAIN r /\ mensajes' = [x \in DOMAIN r |-> mensajes'[x]]
            BY <4>2
          <5>2. ASSUME NEW x \in DOMAIN r PROVE mensajes'[x] \in Mensaje
            <6>1. r[x] \in Mensaje
              BY <3>3
            <6>2. mensajes'[x] = IF x = j THEN [r[x] EXCEPT !.next = mensajes[k].next] ELSE r[x]
              BY <4>2
            <6>3. QED
              BY <3>2, <6>1, <6>2 DEF Mensaje
          <5>3. QED
            BY <3>3, <5>1, <5>2 DEF TipoMensajes
        <4>3. QED
          BY <2>3, <4>1, <4>2
      <3>6. QED
        BY <1>1, <1>2, <1>8, <2>1, <3>4, <3>5
    <2>4. QED
      BY <1>17, <2>2, <2>3, EliminarCasos
  <1>18. ASSUME NEW t \in Hilos, desconectar_destino(t) PROVE TypeOK'
    <2>1. TipoUsuarios'
      BY <1>3, <1>6, <1>9, <1>18 DEF desconectar_destino, Avanza
    <2>2. Terminar(t) /\ UNCHANGED <<mensajes, head, proceso>>
      BY <1>18 DEF desconectar_destino, Avanza
    <2>3. QED
      BY <1>1, <1>2, <1>4, <1>8, <2>1, <2>2
  <1>19. ASSUME NEW t \in Hilos, entregar_pendiente(t) PROVE TypeOK'
    <2>1. /\ hilo[t].pc = "entregar" /\ UNCHANGED <<usuarios, mensajes, head, proceso>>
          /\ \E punto \in {"liberar", "reencolar"} :
               hilo' = [hilo EXCEPT ![t].pc = punto, ![t].sig = mensajes[hilo[t].act].next]
      BY <1>19 DEF entregar_pendiente, Avanza
    <2>2. hilo[t] \in Entrega /\ hilo[t].act \in DOMAIN mensajes
      BY <1>1, <1>19, TipoHiloLibre DEF entregar_pendiente, EnUso
    <2>3. mensajes[hilo[t].act].next \in NodosMensaje \cup {NULL}
      BY <1>1, <2>2 DEF TipoMensajes, Mensaje
    <2>4. TipoHilo'
      <3>1. PICK punto \in {"liberar", "reencolar"} :
              hilo' = [hilo EXCEPT ![t].pc = punto, ![t].sig = mensajes[hilo[t].act].next]
        BY <2>1
      <3>2. [hilo[t] EXCEPT !.pc = punto, !.sig = mensajes[hilo[t].act].next] \in Entrega
        BY <2>2, <2>3 DEF Entrega
      <3>3. hilo' = [hilo EXCEPT ![t] = [hilo[t] EXCEPT !.pc = punto,
                                                       !.sig = mensajes[hilo[t].act].next]]
        BY <3>1
      <3>4. QED
        BY <1>1, <3>2, <3>3 DEF TipoHilo
    <2>5. QED
      BY <1>1, <1>2, <1>3, <1>4, <2>1, <2>4
  <1>20. ASSUME NEW t \in Hilos, liberar_entregado(t) PROVE TypeOK'
    <2>1. /\ hilo[t].pc = "liberar"
          /\ mensajes' = Restrict(mensajes, DOMAIN mensajes \ {hilo[t].act})
          /\ UNCHANGED <<usuarios, head, proceso>>
      BY <1>20 DEF liberar_entregado, Avanza
    <2>2. TipoHilo'
      <3>1. CASE hilo[t].sig = NULL
        BY <1>8, <1>20, <3>1 DEF liberar_entregado, Avanza
      <3>2. CASE hilo[t].sig # NULL
        <4>1. hilo' = [hilo EXCEPT ![t].pc = "entregar", ![t].act = hilo[t].sig, ![t].sig = NULL]
          BY <1>20, <3>2 DEF liberar_entregado, Avanza
        <4>2. hilo[t] \in Entrega /\ hilo[t].sig \in NodosMensaje
          BY <1>1, <2>1, <3>2, TipoHiloLibre
        <4>3. [hilo[t] EXCEPT !.pc = "entregar", !.act = hilo[t].sig, !.sig = NULL] \in Entrega
          BY <4>2 DEF Entrega
        <4>4. hilo' = [hilo EXCEPT ![t] = [hilo[t] EXCEPT !.pc = "entregar", !.act = hilo[t].sig,
                                                         !.sig = NULL]]
          BY <4>1
        <4>5. QED
          BY <1>1, <4>3, <4>4 DEF TipoHilo
      <3>3. QED
        BY <3>1, <3>2
    <2>3. QED
      BY <1>1, <1>2, <1>3, <1>7, <2>1, <2>2
  <1>21. ASSUME NEW t \in Hilos, reencolar(t) PROVE TypeOK'
    <2> DEFINE u == find_user(hilo[t].dest_name)
               c == ColaDe(u)
    <2>1. hilo[t].pc = "reencolar" /\ Terminar(t) /\ UNCHANGED <<head, proceso>>
      BY <1>21 DEF reencolar, Avanza
    <2>2. \/ /\ mensajes' = Restrict(mensajes, DOMAIN mensajes
                                        \ Range(Cadena(mensajes, hilo[t].act)))
             /\ UNCHANGED usuarios
          \/ /\ Existe(hilo[t].dest_name)
             /\ usuarios' = [usuarios EXCEPT ![u].conectado = FALSE, ![u].mensajes = hilo[t].act]
             /\ UNCHANGED mensajes
          \/ /\ Existe(hilo[t].dest_name)
             /\ usuarios' = [usuarios EXCEPT ![u].conectado = FALSE]
             /\ mensajes' = [mensajes EXCEPT ![Last(c)].next = hilo[t].act]
      BY <1>21 DEF reencolar, Avanza
    <2>3. hilo[t].act \in NodosMensaje
      BY <1>1, <2>1, TipoHiloLibre
    <2>4. Existe(hilo[t].dest_name) => u \in DOMAIN usuarios
      BY <1>6
    <2> HIDE DEF u, c
    <2>5. TipoUsuarios'
      BY <1>3, <1>9, <1>10, <2>2, <2>3, <2>4
    <2>6. mensajes' = [mensajes EXCEPT ![Last(c)].next = hilo[t].act] => TipoMensajes'
      BY <1>1, <2>3 DEF TipoMensajes, Mensaje
    <2>7. TipoMensajes'
      BY <1>4, <1>7, <2>2, <2>6
    <2>8. QED
      BY <1>1, <1>2, <1>8, <2>1, <2>5, <2>7
  <1>22. ASSUME handle_sigint PROVE TypeOK'
    BY <1>1, <1>2, <1>3, <1>4, <1>5, <1>22 DEF handle_sigint
  <1>23. ASSUME free_user_list PROVE TypeOK'
    <2>1. /\ usuarios' = usuarios \/ usuarios' = Restrict(usuarios, DOMAIN usuarios \ {proceso.current})
          /\ mensajes' = mensajes \/ mensajes' = Restrict(mensajes, DOMAIN mensajes \ {proceso.msg_actual})
          /\ UNCHANGED <<head, hilo>>
      BY <1>23 DEF free_user_list
    <2>2. TipoUsuarios'
      BY <1>1, <2>1 DEF TipoUsuarios, Restrict
    <2>3. QED
      BY <1>1, <1>2, <1>4, <1>5, <1>7, <2>1, <2>2
  <1>24. ASSUME salir \/ tropezar \/ Acabado PROVE TypeOK'
    <2>1. CASE Acabado
      BY <1>1, <1>2, <1>3, <1>4, <1>5, <2>1 DEF Acabado, vars
    <2>2. CASE salir \/ tropezar
      <3>1. usuarios' = <<>> /\ mensajes' = <<>> /\ head' = NULL /\ hilo' = [t \in Hilos |-> HiloLibre]
        BY <2>2 DEF salir, tropezar, Acabar
      <3>2. DOMAIN usuarios' = {} /\ DOMAIN mensajes' = {}
        BY <3>1
      <3>3. TipoUsuarios' /\ TipoMensajes'
        BY <3>1, <3>2 DEF TipoUsuarios, TipoMensajes
      <3>4. QED
        BY <1>2, <3>1, <3>3 DEF TipoHilo
    <2>3. QED
      BY <1>24, <2>1, <2>2
  <1>25. QED
    BY <1>12, <1>13, <1>14, <1>15, <1>16, <1>17, <1>18, <1>19, <1>20, <1>21, <1>22, <1>23,
       <1>24 DEF Next
-----------------------------------------------------------------------------
(***************************************************************************)
(* The handlers: a step keeps every pointer on a block in use, no two on   *)
(* the same one, no block lost, and sig what it was read as.               *)
(***************************************************************************)
LEMMA UsuariosIguales ==
  ASSUME head' = head, DOMAIN usuarios' = DOMAIN usuarios,
         \A u \in DOMAIN usuarios : usuarios'[u].next = usuarios[u].next
  PROVE  AUsuario' = AUsuario
  BY MismosUsuarios DEF AUsuario

(* The pointers to the messages change, and no other. *)
LEMMA SanoPrima ==
  ASSUME Sano, proceso' = Vivo => proceso = Vivo,
         AUsuario' = AUsuario, DOMAIN usuarios' = DOMAIN usuarios,
         Encadenado(AMensaje', DOMAIN mensajes'),
         Alcanzado(AMensaje, DOMAIN mensajes) => Alcanzado(AMensaje', DOMAIN mensajes')
  PROVE  Sano'
  <1>1. ASSUME proceso' = Vivo
        PROVE  /\ Alcanzado(AMensaje', DOMAIN mensajes')
               /\ Encadenado(AUsuario', DOMAIN usuarios')
               /\ Alcanzado(AUsuario', DOMAIN usuarios')
    BY <1>1 DEF Sano
  <1>2. QED
    BY <1>1 DEF Sano

(* Nothing that leads to a block changes: DISCONNECT, a failed delivery,   *)
(* reading sig.                                                            *)
LEMMA IgualSano ==
  ASSUME TypeOK, TypeOK', Sano, proceso' = Vivo => proceso = Vivo,
         mensajes' = mensajes, head' = head, DOMAIN usuarios' = DOMAIN usuarios,
         \A u \in DOMAIN usuarios : /\ usuarios'[u].next = usuarios[u].next
                                    /\ usuarios'[u].mensajes = usuarios[u].mensajes,
         \A t \in Hilos : hilo'[t].act = hilo[t].act
  PROVE  Sano'
  <1>1. AUsuario' = AUsuario
    BY UsuariosIguales
  <1>2. DOMAIN hilo = Hilos /\ DOMAIN hilo' = Hilos
    BY DEF TypeOK
  <1>3. AMensaje' = AMensaje
    BY <1>2, MismosMensajes DEF AMensaje
  <1>4. Encadenado(AMensaje', DOMAIN mensajes')
    BY <1>3 DEF Sano
  <1>5. Alcanzado(AMensaje, DOMAIN mensajes) => Alcanzado(AMensaje', DOMAIN mensajes')
    BY <1>3
  <1>6. QED
    BY <1>1, <1>4, <1>5, SanoPrima

LEMMA DesconectarSano ==
  ASSUME TypeOK, TypeOK', Sano, SigFiel,
         \/ \E n \in Nombres : procesar_disconnect(n)
         \/ \E t \in Hilos : desconectar_destino(t)
  PROVE  Sano' /\ SigFiel'
  <1>1. /\ mensajes' = mensajes /\ head' = head /\ proceso' = proceso
        /\ usuarios' = usuarios \/ \E u : usuarios' = [usuarios EXCEPT ![u].conectado = FALSE]
    BY DEF procesar_disconnect, desconectar_destino, Avanza
  <1>2. /\ DOMAIN usuarios' = DOMAIN usuarios
        /\ \A v \in DOMAIN usuarios : /\ usuarios'[v].next = usuarios[v].next
                                      /\ usuarios'[v].mensajes = usuarios[v].mensajes
    <2>1. CASE usuarios' = usuarios
      BY <2>1
    <2>2. ASSUME NEW u, usuarios' = [usuarios EXCEPT ![u].conectado = FALSE],
                 NEW v \in DOMAIN usuarios
          PROVE  usuarios'[v].next = usuarios[v].next /\ usuarios'[v].mensajes = usuarios[v].mensajes
      <3>1. usuarios[v] \in Usuario
        BY DEF TypeOK
      <3>2. QED
        BY <2>2, <3>1 DEF Usuario
    <2>3. QED
      BY <1>1, <2>1, <2>2
  <1>3. \A s \in Hilos : hilo'[s] = hilo[s] \/ (hilo'[s] = HiloLibre /\ hilo[s].act = NULL)
    <2>1. CASE \E n \in Nombres : procesar_disconnect(n)
      BY <2>1 DEF procesar_disconnect, Avanza
    <2>2. ASSUME NEW t \in Hilos, desconectar_destino(t), NEW s \in Hilos
          PROVE  hilo'[s] = hilo[s] \/ (hilo'[s] = HiloLibre /\ hilo[s].act = NULL)
      <3>1. TipoHilo /\ Terminar(t) /\ hilo[t].pc = "enviado"
        BY <2>2 DEF TypeOK, TipoHilo, desconectar_destino, Avanza
      <3>2. hilo'[t] = HiloLibre /\ hilo[t].act = NULL /\ (s # t => hilo'[s] = hilo[s])
        BY <3>1, TipoTerminar, TipoHiloLibre
      <3>3. QED
        BY <3>2
    <2>3. QED
      BY <2>1, <2>2
  <1>4. \A s \in Hilos : hilo'[s].act = hilo[s].act
    BY <1>3 DEF HiloLibre
  <1>5. SigFiel'
    <2>1. ASSUME NEW s \in Hilos
          PROVE  hilo'[s].sig = IF hilo'[s].pc \in {"liberar", "reencolar"}
                                THEN mensajes'[hilo'[s].act].next ELSE NULL
      BY <1>1, <1>3, SigSigue DEF HiloLibre
    <2>2. QED
      BY <2>1 DEF SigFiel
  <1>6. QED
    BY <1>1, <1>2, <1>4, <1>5, IgualSano

LEMMA EntregarSano ==
  ASSUME TypeOK, TypeOK', Sano, SigFiel, NEW t \in Hilos, entregar_pendiente(t)
  PROVE  Sano' /\ SigFiel'
  <1>1. UNCHANGED <<usuarios, mensajes, head, proceso>>
    BY DEF entregar_pendiente, Avanza
  <1>2. PICK punto \in {"liberar", "reencolar"} :
          hilo' = [hilo EXCEPT ![t].pc = punto, ![t].sig = mensajes[hilo[t].act].next]
    BY DEF entregar_pendiente, Avanza
  <1>3. hilo[t] \in Entrega
    BY TipoHiloLibre DEF entregar_pendiente, TypeOK, TipoHilo, Avanza
  <1>4. /\ hilo'[t].pc = punto /\ hilo'[t].act = hilo[t].act
        /\ hilo'[t].sig = mensajes[hilo[t].act].next
        /\ \A s \in Hilos \ {t} : hilo'[s] = hilo[s]
    <2>1. t \in DOMAIN hilo
      BY DEF TypeOK
    <2>2. hilo'[t] = [hilo[t] EXCEPT !.pc = punto, !.sig = mensajes[hilo[t].act].next]
      BY <1>2, <2>1
    <2>3. \A s \in Hilos \ {t} : hilo'[s] = hilo[s]
      BY <1>2 DEF TypeOK
    <2>4. QED
      BY <1>3, <2>2, <2>3 DEF Entrega
  <1>5. SigFiel'
    <2>1. ASSUME NEW s \in Hilos
          PROVE  hilo'[s].sig = IF hilo'[s].pc \in {"liberar", "reencolar"}
                                THEN mensajes'[hilo'[s].act].next ELSE NULL
      <3>1. CASE s = t
        BY <1>1, <1>4, <3>1
      <3>2. CASE s # t
        BY <1>1, <1>4, <3>2, SigSigue
      <3>3. QED
        BY <3>1, <3>2
    <2>2. QED
      BY <2>1 DEF SigFiel
  <1>6. Sano'
    BY <1>1, <1>4, IgualSano
  <1>7. QED
    BY <1>5, <1>6

(* CONNECT: the queue goes from the user to the thread. *)
LEMMA ConectarSano ==
  ASSUME TypeOK, TypeOK', Sano, SigFiel, NEW t \in Hilos, NEW n \in Nombres,
         procesar_connect(t, n)
  PROVE  Sano' /\ SigFiel'
  <1> DEFINE u == find_user(n)
             f == AMensaje
             g == AMensaje'
             D == DOMAIN mensajes
  <1>1. u \in DOMAIN usuarios
    BY Encontrado DEF procesar_connect, Avanza
  <1>2. hilo[t] = HiloLibre /\ hilo[t].act = NULL
    BY TipoHiloLibre DEF procesar_connect, TypeOK, TipoHilo, HiloLibre, Avanza
  <1>3. /\ usuarios' = [usuarios EXCEPT ![u].conectado = TRUE, ![u].mensajes = NULL]
        /\ hilo' = IF usuarios[u].mensajes = NULL THEN hilo
                   ELSE [hilo EXCEPT ![t] = [pc |-> "entregar", act |-> usuarios[u].mensajes,
                                             sig |-> NULL, dest_name |-> n]]
        /\ UNCHANGED <<mensajes, head, proceso>>
    BY DEF procesar_connect, Avanza
  <1> HIDE DEF u
  <1>4. /\ DOMAIN usuarios' = DOMAIN usuarios /\ usuarios'[u].mensajes = NULL
        /\ \A v \in DOMAIN usuarios : usuarios'[v].next = usuarios[v].next
        /\ \A v \in DOMAIN usuarios \ {u} : usuarios'[v] = usuarios[v]
    <2>1. \A v \in DOMAIN usuarios : usuarios[v] \in Usuario
      BY DEF TypeOK
    <2>2. QED
      BY <1>1, <1>3, <2>1 DEF Usuario
  <1>5. /\ hilo'[t].act = usuarios[u].mensajes /\ hilo'[t].sig = NULL
        /\ hilo'[t].pc \notin {"liberar", "reencolar"}
        /\ \A s \in Hilos \ {t} : hilo'[s] = hilo[s]
    <2>1. t \in DOMAIN hilo
      BY DEF TypeOK
    <2>2. QED
      BY <1>2, <1>3, <2>1 DEF HiloLibre
  <1>6. Mover(f, g, EnHilo(t), EnCola(u))
    <2>1. EnHilo(t) \in DOMAIN f /\ EnCola(u) \in DOMAIN f /\ EnHilo(t) # EnCola(u)
      BY <1>1, Antes, Lugares
    <2>2. f[EnHilo(t)] = NULL /\ g[EnHilo(t)] = f[EnCola(u)] /\ g[EnCola(u)] = NULL
      BY <1>1, <1>2, <1>4, <1>5, Antes, Despues
    <2>3. DOMAIN g = DOMAIN f
      BY <1>3, <1>4, MismosLugares
    <2>4. ASSUME NEW z \in DOMAIN f, z # EnHilo(t), z # EnCola(u) PROVE g[z] = f[z]
      <3>1. CASE \E v \in DOMAIN usuarios : z = EnCola(v)
        BY <1>4, <2>4, <3>1, Antes, Despues
      <3>2. CASE \E k \in DOMAIN mensajes : z = EnNodo(k)
        BY <1>3, <3>2, Antes, Despues
      <3>3. CASE \E s \in Hilos : z = EnHilo(s)
        BY <1>5, <2>4, <3>3, Antes, Despues
      <3>4. QED
        BY <3>1, <3>2, <3>3, Antes
    <2>5. QED
      BY <2>1, <2>2, <2>3, <2>4 DEF Mover
  <1>7. \A S : Activo(S, D, EnHilo(t))
    BY Lugares DEF Activo
  <1>8. Encadenado(g, D) /\ (Alcanzado(f, D) => Alcanzado(g, D))
    <2>1. Encadenado(f, D)
      BY DEF Sano
    <2> HIDE DEF f, g, D
    <2>2. QED
      BY <1>6, <1>7, <2>1, MoverBien
  <1>9. AUsuario' = AUsuario
    BY <1>3, <1>4, UsuariosIguales
  <1>10. Sano'
    BY <1>3, <1>4, <1>8, <1>9, SanoPrima
  <1>11. SigFiel'
    <2>1. ASSUME NEW s \in Hilos
          PROVE  hilo'[s].sig = IF hilo'[s].pc \in {"liberar", "reencolar"}
                                THEN mensajes'[hilo'[s].act].next ELSE NULL
      <3>1. CASE s = t
        BY <1>5, <3>1
      <3>2. CASE s # t
        BY <1>3, <1>5, <3>2, SigSigue
      <3>3. QED
        BY <3>1, <3>2
    <2>2. QED
      BY <2>1 DEF SigFiel
  <1>12. QED
    BY <1>10, <1>11

(* REGISTER: a user without a queue, at the head of the list. *)
LEMMA RegistrarSano ==
  ASSUME TypeOK, TypeOK', Sano, SigFiel, NEW n \in Nombres, procesar_register(n)
  PROVE  Sano' /\ SigFiel'
  <1> DEFINE f == AMensaje
             g == AMensaje'
             D == DOMAIN mensajes
  <1>1. UNCHANGED <<mensajes, hilo, proceso>>
    BY DEF procesar_register, Avanza
  <1>2. PICK b \in NodosUsuario \ DOMAIN usuarios : add_user(n, b)
    BY DEF procesar_register, Avanza
  <1>3. /\ DOMAIN usuarios' = DOMAIN usuarios \cup {b} /\ head' = b
        /\ usuarios'[b].mensajes = NULL /\ usuarios'[b].next = head
        /\ \A u \in DOMAIN usuarios : usuarios'[u] = usuarios[u]
    BY <1>2 DEF add_user
  <1>4. /\ EnCola(b) \notin DOMAIN f /\ DOMAIN g = DOMAIN f \cup {EnCola(b)}
        /\ g[EnCola(b)] = NULL
        /\ \A k \in D : EnCola(b) # EnNodo(k)
    <2>1. EnCola(b) \notin DOMAIN f /\ \A k \in D : EnCola(b) # EnNodo(k)
      BY <1>2, Antes, Lugares
    <2>2. \A x : x \in DOMAIN g <=> x \in DOMAIN f \/ x = EnCola(b)
      BY <1>1, <1>3, Antes, Despues
    <2>3. g[EnCola(b)] = NULL
      BY <1>3, Despues
    <2>4. DOMAIN g = DOMAIN f \cup {EnCola(b)}
      BY <2>2
    <2>5. QED
      BY <2>1, <2>3, <2>4
  <1>5. ASSUME NEW z \in DOMAIN f PROVE g[z] = f[z]
    <2>1. CASE \E v \in DOMAIN usuarios : z = EnCola(v)
      BY <1>3, <2>1, Antes, Despues
    <2>2. CASE \E k \in DOMAIN mensajes : z = EnNodo(k)
      BY <1>1, <2>2, Antes, Despues
    <2>3. CASE \E s \in Hilos : z = EnHilo(s)
      BY <1>1, <2>3, Antes, Despues
    <2>4. QED
      BY <2>1, <2>2, <2>3, Antes
  <1>6. Encadenado(g, D) /\ (Alcanzado(f, D) => Alcanzado(g, D))
    <2>1. Encadenado(f, D)
      BY DEF Sano
    <2> HIDE DEF f, g, D
    <2>2. QED
      BY <1>4, <1>5, <2>1, RaizBien
  <1>7. ASSUME proceso' = Vivo
        PROVE  /\ Encadenado(AUsuario', DOMAIN usuarios')
               /\ Alcanzado(AUsuario', DOMAIN usuarios')
    <2> DEFINE p == AUsuario
               q == AUsuario'
               E == DOMAIN usuarios
    <2>1. Nodos(p, E)
      BY Memoria DEF Enlaza
    <2>2. /\ Encadenado(p, E) /\ Alcanzado(p, E)
      BY <1>1, <1>7 DEF Sano
    <2>3. /\ \A x : x \in DOMAIN p <=> x = EnHead \/ \E k \in E : x = EnNodo(k)
          /\ p[EnHead] = head /\ \A k \in E : p[EnNodo(k)] = usuarios[k].next
      BY PunterosUsuarioDe DEF AUsuario
    <2>4. /\ \A x : x \in DOMAIN q <=> x = EnHead \/ \E k \in DOMAIN usuarios' : x = EnNodo(k)
          /\ q[EnHead] = head' /\ \A k \in DOMAIN usuarios' : q[EnNodo(k)] = usuarios'[k].next
      BY PunterosUsuarioDe DEF AUsuario
    <2>5. b \notin E \cup {NULL}
      BY <1>2, ConstantesUserList
    <2> HIDE DEF p, q, E
    <2>6. DOMAIN q = DOMAIN p \cup {EnNodo(b)}
      <3>1. \A x : x \in DOMAIN q <=> x \in DOMAIN p \/ x = EnNodo(b)
        BY <1>3, <2>3, <2>4 DEF E
      <3>2. QED
        BY <3>1
    <2>7. \A z \in DOMAIN p \ {EnHead} : q[z] = p[z]
      BY <1>3, <2>3, <2>4 DEF E
    <2>8. Insertar(p, q, E, EnHead, b)
      BY <1>3, <2>3, <2>4, <2>5, <2>6, <2>7 DEF Insertar, E
    <2>9. Encadenado(q, E \cup {b}) /\ Alcanzado(q, E \cup {b})
      BY <2>1, <2>2, <2>8, InsertarBien
    <2>10. QED
      BY <1>3, <2>9 DEF q, E
  <1>8. Sano'
    BY <1>1, <1>6, <1>7 DEF Sano
  <1>9. SigFiel'
    BY <1>1 DEF SigFiel
  <1>10. QED
    BY <1>8, <1>9

(* The queue of a user, or the chain in hand, is freed. *)
LEMMA LiberarCadena ==
  ASSUME TypeOK, TypeOK', Sano, NEW x \in Raices(AMensaje, DOMAIN mensajes),
         NEW c, c = Cadena(mensajes, AMensaje[x]),
         mensajes' = Restrict(mensajes, DOMAIN mensajes \ Range(c)),
         \A u \in DOMAIN usuarios' : u \in DOMAIN usuarios,
         \A u \in DOMAIN usuarios : EnCola(u) # x =>
           u \in DOMAIN usuarios' /\ usuarios'[u].mensajes = usuarios[u].mensajes,
         \A u \in DOMAIN usuarios' : EnCola(u) # x,
         \A t \in Hilos : hilo'[t].act = IF EnHilo(t) = x THEN NULL ELSE hilo[t].act
  PROVE  /\ Encadenado(AMensaje', DOMAIN mensajes')
         /\ Alcanzado(AMensaje, DOMAIN mensajes) => Alcanzado(AMensaje', DOMAIN mensajes')
         /\ \A t \in Hilos : EnHilo(t) # x /\ hilo[t].act # NULL =>
              mensajes'[hilo[t].act].next = mensajes[hilo[t].act].next
  <1> DEFINE f == AMensaje
             g == AMensaje'
             D == DOMAIN mensajes
             F == Range(c)
  <1>1. /\ IsFiniteSet(D) /\ Enlaza(f, mensajes) /\ Encadenado(f, D) /\ Nodos(f, D)
    BY Memoria DEF Sano, Enlaza
  <1>2. /\ f[x] \in F \cup {NULL} /\ F \subseteq D
        /\ \A k \in F : f[EnNodo(k)] \in F \cup {NULL}
        /\ \A k \in F : f[x] = k \/ \E j \in F : f[EnNodo(j)] = k
    BY <1>1, CadenaDe
  <1>3. DOMAIN mensajes' = D \ F /\ \A k \in D \ F : mensajes'[k] = mensajes[k]
    BY DEF Restrict
  <1>4. x \in DOMAIN f /\ x \notin {EnNodo(k) : k \in D}
    BY DEF Raices
  <1>5. \A z : z \in DOMAIN g \/ z = x <=> z \in DOMAIN f /\ z \notin {EnNodo(k) : k \in F}
    <2>1. \A z : z \in {EnNodo(k) : k \in F} <=> \E k \in F : z = EnNodo(k)
      OBVIOUS
    <2>2. ASSUME NEW z \in DOMAIN g
          PROVE  z \in DOMAIN f /\ ~\E k \in F : z = EnNodo(k)
      <3>1. CASE \E v \in DOMAIN usuarios' : z = EnCola(v)
        BY <3>1, Antes, Lugares
      <3>2. CASE \E k \in DOMAIN mensajes' : z = EnNodo(k)
        BY <1>3, <3>2, Antes, Lugares
      <3>3. CASE \E s \in Hilos : z = EnHilo(s)
        BY <3>3, Antes, Lugares
      <3>4. QED
        BY <3>1, <3>2, <3>3, Despues
    <2>3. ASSUME NEW z \in DOMAIN f, z # x, ~\E k \in F : z = EnNodo(k)
          PROVE  z \in DOMAIN g
      <3>1. CASE \E v \in DOMAIN usuarios : z = EnCola(v)
        BY <2>3, <3>1, Despues
      <3>2. CASE \E k \in DOMAIN mensajes : z = EnNodo(k)
        BY <1>3, <2>3, <3>2, Despues
      <3>3. CASE \E s \in Hilos : z = EnHilo(s)
        BY <3>3, Despues
      <3>4. QED
        BY <3>1, <3>2, <3>3, Antes
    <2>4. ~\E k \in F : x = EnNodo(k)
      BY <1>2, <1>4
    <2> HIDE DEF f, g, F, D
    <2>5. QED
      BY <1>4, <2>1, <2>2, <2>3, <2>4
  <1>6. x \in DOMAIN g => g[x] = NULL
    <2> SUFFICES ASSUME x \in DOMAIN g PROVE g[x] = NULL
      OBVIOUS
    <2>1. CASE \E v \in DOMAIN usuarios' : x = EnCola(v)
      BY <2>1
    <2>2. CASE \E k \in DOMAIN mensajes' : x = EnNodo(k)
      BY <1>3, <1>4, <2>2
    <2>3. CASE \E s \in Hilos : x = EnHilo(s)
      BY <2>3, Despues
    <2>4. QED
      BY <2>1, <2>2, <2>3, Despues
  <1>7. ASSUME NEW z \in DOMAIN g, z # x PROVE g[z] = f[z]
    <2>1. CASE \E v \in DOMAIN usuarios' : z = EnCola(v)
      BY <1>7, <2>1, Antes, Despues
    <2>2. CASE \E k \in DOMAIN mensajes' : z = EnNodo(k)
      <3>1. PICK k \in DOMAIN mensajes' : z = EnNodo(k)
        BY <2>2
      <3>2. k \in D /\ mensajes'[k] = mensajes[k]
        BY <1>3
      <3>3. g[z] = mensajes'[k].next /\ f[z] = mensajes[k].next
        BY <3>1, <3>2, Antes, Despues
      <3>4. QED
        BY <3>2, <3>3
    <2>3. CASE \E s \in Hilos : z = EnHilo(s)
      BY <1>7, <2>3, Antes, Despues
    <2>4. QED
      BY <2>1, <2>2, <2>3, Despues
  <1>8. \A t \in Hilos : EnHilo(t) \in DOMAIN f /\ f[EnHilo(t)] = hilo[t].act
    BY Antes
  <1> HIDE DEF f, g, D, F
  <1>9. Soltar(f, g, D, x, F)
    BY <1>2, <1>4, <1>5, <1>6, <1>7 DEF Soltar
  <1>10. /\ Encadenado(g, D \ F)
         /\ Alcanzado(f, D) => Alcanzado(g, D \ F)
         /\ SoloDesde(f, x, F)
    <2>1. Nodos(f, D) /\ Encadenado(f, D)
      BY <1>1
    <2>2. QED
      BY <1>9, <2>1, SoltarBien
  <1>11. ASSUME NEW t \in Hilos, EnHilo(t) # x, hilo[t].act # NULL
         PROVE  mensajes'[hilo[t].act].next = mensajes[hilo[t].act].next
    <2>1. f[EnHilo(t)] \in D \cup {NULL}
      BY <1>1, <1>8 DEF Encadenado
    <2>2. f[EnHilo(t)] \notin F
      <3>1. EnHilo(t) \in DOMAIN f \ {x}
        BY <1>8, <1>11
      <3>2. \A j \in F : EnHilo(t) # EnNodo(j)
        BY Lugares
      <3>3. QED
        BY <1>10, <3>1, <3>2 DEF SoloDesde
    <2>3. hilo[t].act \in D \ F
      BY <1>8, <1>11, <2>1, <2>2
    <2>4. QED
      BY <1>3, <2>3
  <1>12. QED
    BY <1>3, <1>10, <1>11 DEF f, g, D

(* UNREGISTER: the user goes with the queue, the list closes behind it. *)
LEMMA BorrarSano ==
  ASSUME TypeOK, TypeOK', Sano, SigFiel, NEW n \in Nombres, procesar_unregister(n)
  PROVE  Sano' /\ SigFiel'
  <1> DEFINE u == find_user(n)
             sinNodo == Restrict(usuarios, DOMAIN usuarios \ {u})
             p == AUsuario
             q == AUsuario'
             E == DOMAIN usuarios
  <1>1. u \in E /\ u \in Range(Lista)
    BY Encontrado DEF procesar_unregister, Avanza
  <1>2. /\ head' = IF head = u THEN usuarios[u].next ELSE head
        /\ usuarios' = [v \in DOMAIN sinNodo |->
                          IF sinNodo[v].next = u
                          THEN [sinNodo[v] EXCEPT !.next = usuarios[u].next]
                          ELSE sinNodo[v]]
        /\ mensajes' = Restrict(mensajes, DOMAIN mensajes \ Range(ColaDe(u)))
        /\ UNCHANGED <<hilo, proceso>>
    BY DEF procesar_unregister, remove_user, Avanza
  <1>3. DOMAIN sinNodo = E \ {u} /\ \A v \in E \ {u} : sinNodo[v] = usuarios[v]
    BY DEF Restrict
  <1>4. \A v \in E : usuarios[v] \in Usuario
    BY DEF TypeOK
  <1> HIDE DEF u, sinNodo
  <1>5. /\ DOMAIN usuarios' = E \ {u}
        /\ \A v \in E \ {u} : /\ usuarios'[v].mensajes = usuarios[v].mensajes
                              /\ usuarios'[v].next = IF usuarios[v].next = u THEN usuarios[u].next
                                                     ELSE usuarios[v].next
    <2>1. DOMAIN usuarios' = E \ {u}
      BY <1>2, <1>3
    <2>2. ASSUME NEW v \in E \ {u}
          PROVE  /\ usuarios'[v].mensajes = usuarios[v].mensajes
                 /\ usuarios'[v].next = IF usuarios[v].next = u THEN usuarios[u].next
                                        ELSE usuarios[v].next
      <3>1. usuarios'[v] = IF usuarios[v].next = u
                           THEN [usuarios[v] EXCEPT !.next = usuarios[u].next]
                           ELSE usuarios[v]
        BY <1>2, <1>3
      <3>2. usuarios[v] \in Usuario
        BY <1>4
      <3>3. QED
        BY <3>1, <3>2 DEF Usuario
    <2>3. QED
      BY <2>1, <2>2
  <1>6. /\ Encadenado(AMensaje', DOMAIN mensajes')
        /\ Alcanzado(AMensaje, DOMAIN mensajes) => Alcanzado(AMensaje', DOMAIN mensajes')
        /\ \A t \in Hilos : hilo[t].act # NULL =>
             mensajes'[hilo[t].act].next = mensajes[hilo[t].act].next
    <2>1. /\ EnCola(u) \in Raices(AMensaje, DOMAIN mensajes)
          /\ ColaDe(u) = Cadena(mensajes, AMensaje[EnCola(u)])
      BY <1>1, Memoria DEF ColaDe
    <2>2. /\ \A v \in DOMAIN usuarios' : v \in DOMAIN usuarios
          /\ \A v \in DOMAIN usuarios : EnCola(v) # EnCola(u) =>
               v \in DOMAIN usuarios' /\ usuarios'[v].mensajes = usuarios[v].mensajes
          /\ \A v \in DOMAIN usuarios' : EnCola(v) # EnCola(u)
      BY <1>5, Lugares
    <2>3. \A t \in Hilos : /\ EnHilo(t) # EnCola(u)
                           /\ hilo'[t].act = IF EnHilo(t) = EnCola(u) THEN NULL ELSE hilo[t].act
      BY <1>2, Lugares
    <2>4. QED
      BY <1>2, <2>1, <2>2, <2>3, LiberarCadena
  <1>7. ASSUME proceso' = Vivo
        PROVE  Encadenado(q, DOMAIN usuarios') /\ Alcanzado(q, DOMAIN usuarios')
    <2>1. /\ IsFiniteSet(E) /\ Enlaza(p, usuarios) /\ Nodos(p, E)
          /\ EnHead \in Raices(p, E) /\ p[EnHead] = head
      BY Memoria DEF Enlaza
    <2>2. Encadenado(p, E) /\ Alcanzado(p, E)
      BY <1>2, <1>7 DEF Sano
    <2>3. PICK i \in 1..Len(Lista) : u = Lista[i]
      BY <1>1, <2>1, EnCadena DEF Range, Lista
    <2>4. /\ i = 1 => head = u
          /\ i # 1 => /\ Lista[i - 1] \in E /\ Lista[i - 1] # u
                      /\ p[EnNodo(Lista[i - 1])] = u
      <3>1. Lista = Cadena(usuarios, p[EnHead])
        BY <2>1 DEF Lista
      <3>2. Range(Lista) \subseteq E
        BY <2>1, EnCadena DEF Lista
      <3>3. QED
        BY <2>1, <2>2, <2>3, <3>1, <3>2, CadenaAntes
    <2>5. /\ \A x : x \in DOMAIN p <=> x = EnHead \/ \E k \in E : x = EnNodo(k)
          /\ \A k \in E : p[EnNodo(k)] = usuarios[k].next
      BY PunterosUsuarioDe DEF AUsuario
    <2>6. /\ \A x : x \in DOMAIN q <=> x = EnHead \/ \E k \in E \ {u} : x = EnNodo(k)
          /\ q[EnHead] = head' /\ \A k \in E \ {u} : q[EnNodo(k)] = usuarios'[k].next
      BY <1>5, PunterosUsuarioDe DEF AUsuario
    <2> HIDE DEF p, q, E
    <2>7. DOMAIN q = DOMAIN p \ {EnNodo(u)}
      <3>1. \A x : x \in DOMAIN q <=> x \in DOMAIN p /\ x # EnNodo(u)
        BY <2>5, <2>6, Lugares
      <3>2. QED
        BY <3>1
    <2>8. ASSUME NEW z \in DOMAIN q
          PROVE  q[z] = IF p[z] = u THEN p[EnNodo(u)] ELSE p[z]
      <3>1. CASE z = EnHead
        BY <1>1, <1>2, <2>1, <2>5, <2>6, <3>1
      <3>2. CASE \E k \in E \ {u} : z = EnNodo(k)
        BY <1>1, <1>5, <2>5, <2>6, <3>2 DEF E
      <3>3. QED
        BY <2>6, <2>8, <3>1, <3>2
    <2>9. PICK x \in DOMAIN q : p[x] = u
      <3>1. CASE i = 1
        BY <2>1, <2>4, <2>6, <3>1
      <3>2. CASE i # 1
        BY <2>4, <2>6, <3>2
      <3>3. QED
        BY <3>1, <3>2
    <2>10. Saltar(p, q, E, x, u)
      <3>1. x \in DOMAIN p /\ x # EnNodo(u) /\ q[x] = p[EnNodo(u)]
        BY <2>7, <2>8, <2>9
      <3>2. \A z \in DOMAIN q \ {x} : q[z] = p[z]
        <4>1. u # NULL
          BY <1>1, <2>2 DEF Encadenado, E
        <4>2. \A z \in DOMAIN q \ {x} : p[z] # u
          BY <2>2, <2>7, <2>9, <4>1 DEF Encadenado
        <4>3. QED
          BY <2>8, <4>2
      <3>3. u \in E
        BY <1>1 DEF E
      <3>4. QED
        BY <2>7, <2>9, <3>1, <3>2, <3>3 DEF Saltar
    <2>11. Encadenado(q, E \ {u}) /\ Alcanzado(q, E \ {u})
      BY <2>1, <2>2, <2>10, SaltarBien
    <2>12. QED
      BY <1>5, <2>11 DEF E
  <1>8. Sano'
    BY <1>2, <1>6, <1>7 DEF Sano
  <1>9. SigFiel'
    <2>1. ASSUME NEW s \in Hilos
          PROVE  hilo'[s].sig = IF hilo'[s].pc \in {"liberar", "reencolar"}
                                THEN mensajes'[hilo'[s].act].next ELSE NULL
      BY <1>2, <1>6, SigSigue
    <2>2. QED
      BY <2>1 DEF SigFiel
  <1>10. QED
    BY <1>8, <1>9

(* A thread that ends lets go of its chain; the others keep theirs. *)
LEMMA SigTerminar ==
  ASSUME TypeOK, SigFiel, NEW t \in Hilos, Terminar(t),
         \A s \in Hilos \ {t} : hilo[s].act # NULL =>
           mensajes'[hilo[s].act].next = mensajes[hilo[s].act].next
  PROVE  SigFiel'
  <1>1. hilo'[t] = HiloLibre /\ \A s \in Hilos \ {t} : hilo'[s] = hilo[s]
    BY TipoTerminar DEF TypeOK, TipoHilo
  <1>2. ASSUME NEW s \in Hilos
        PROVE  hilo'[s].sig = IF hilo'[s].pc \in {"liberar", "reencolar"}
                              THEN mensajes'[hilo'[s].act].next ELSE NULL
    <2>1. CASE s = t
      BY <1>1, <2>1 DEF HiloLibre
    <2>2. CASE s # t
      BY <1>1, <2>2, SigSigue
    <2>3. QED
      BY <2>1, <2>2
  <1>3. QED
    BY <1>2 DEF SigFiel

(* The chain in hand is hooked at x, which led nowhere. *)
LEMMA EngancharSano ==
  ASSUME TypeOK, TypeOK', Sano, SigFiel, NEW t \in Hilos, Terminar(t),
         NEW x \in DOMAIN AMensaje, x # EnHilo(t), AMensaje[x] = NULL,
         proceso' = proceso, head' = head,
         DOMAIN usuarios' = DOMAIN usuarios, DOMAIN mensajes' = DOMAIN mensajes,
         \A v \in DOMAIN usuarios : usuarios'[v].next = usuarios[v].next,
         \A v \in DOMAIN usuarios :
           usuarios'[v].mensajes = IF EnCola(v) = x THEN hilo[t].act ELSE usuarios[v].mensajes,
         \A k \in DOMAIN mensajes :
           mensajes'[k].next = IF EnNodo(k) = x THEN hilo[t].act ELSE mensajes[k].next,
         \A s \in Hilos : EnHilo(s) # x,
         \A S : Contiene(S, AMensaje', DOMAIN mensajes) => Activo(S, DOMAIN mensajes, x),
         \A s \in Hilos \ {t} : hilo[s].act # NULL => EnNodo(hilo[s].act) # x
  PROVE  Sano' /\ SigFiel'
  <1> DEFINE f == AMensaje
             g == AMensaje'
             D == DOMAIN mensajes
  <1>1. hilo'[t] = HiloLibre /\ \A s \in Hilos \ {t} : hilo'[s] = hilo[s]
    BY TipoTerminar DEF TypeOK, TipoHilo
  <1>2. DOMAIN g = DOMAIN f
    BY MismosLugares
  <1>3. EnHilo(t) \in DOMAIN f /\ g[EnHilo(t)] = NULL /\ f[EnHilo(t)] = hilo[t].act
    BY <1>1, Antes, Despues DEF HiloLibre
  <1>4. ASSUME NEW z \in DOMAIN f, z # EnHilo(t)
        PROVE  g[z] = IF z = x THEN f[EnHilo(t)] ELSE f[z]
    <2>1. CASE \E v \in DOMAIN usuarios : z = EnCola(v)
      <3>1. PICK v \in DOMAIN usuarios : z = EnCola(v)
        BY <2>1
      <3>2. g[z] = usuarios'[v].mensajes /\ f[z] = usuarios[v].mensajes
        BY <3>1, Antes, Despues
      <3>3. QED
        BY <1>3, <3>1, <3>2
    <2>2. CASE \E k \in DOMAIN mensajes : z = EnNodo(k)
      <3>1. PICK k \in DOMAIN mensajes : z = EnNodo(k)
        BY <2>2
      <3>2. g[z] = mensajes'[k].next /\ f[z] = mensajes[k].next
        BY <3>1, Antes, Despues
      <3>3. QED
        BY <1>3, <3>1, <3>2
    <2>3. CASE \E s \in Hilos : z = EnHilo(s)
      <3>1. PICK s \in Hilos : z = EnHilo(s)
        BY <2>3
      <3>2. g[z] = hilo'[s].act /\ f[z] = hilo[s].act
        BY <3>1, Antes, Despues
      <3>3. QED
        BY <1>1, <1>4, <3>1, <3>2
    <2>4. QED
      BY <2>1, <2>2, <2>3, Antes
  <1>5. Mover(f, g, x, EnHilo(t))
    <2>1. x \in DOMAIN f /\ f[x] = NULL
      OBVIOUS
    <2> HIDE DEF f, g
    <2>2. QED
      BY <1>2, <1>3, <1>4, <2>1 DEF Mover
  <1>6. Encadenado(g, D) /\ (Alcanzado(f, D) => Alcanzado(g, D))
    <2>1. Encadenado(f, D)
      BY DEF Sano
    <2>2. \A S : Contiene(S, g, D) => Activo(S, D, x)
      OBVIOUS
    <2> HIDE DEF f, g, D
    <2>3. QED
      BY <1>5, <2>1, <2>2, MoverBien
  <1>7. AUsuario' = AUsuario
    BY UsuariosIguales
  <1>8. Sano'
    BY <1>6, <1>7, SanoPrima
  <1>9. ASSUME NEW s \in Hilos \ {t}, hilo[s].act # NULL
        PROVE  mensajes'[hilo[s].act].next = mensajes[hilo[s].act].next
    <2>1. f[EnHilo(s)] \in D \cup {NULL} /\ f[EnHilo(s)] = hilo[s].act
      BY Antes DEF Sano, Encadenado
    <2>2. hilo[s].act \in DOMAIN mensajes /\ EnNodo(hilo[s].act) # x
      BY <1>9, <2>1
    <2>3. QED
      BY <2>2
  <1>10. SigFiel'
    BY <1>9, SigTerminar
  <1>11. QED
    BY <1>8, <1>10

(* reencolar: the rest of the chain goes behind the queue, or is freed. *)
LEMMA ReencolarSano ==
  ASSUME TypeOK, TypeOK', Sano, SigFiel, NEW t \in Hilos, reencolar(t)
  PROVE  Sano' /\ SigFiel'
  <1> DEFINE u == find_user(hilo[t].dest_name)
             c == ColaDe(u)
             f == AMensaje
             D == DOMAIN mensajes
  <1>1. Terminar(t) /\ head' = head /\ proceso' = proceso
    BY DEF reencolar, Avanza
  <1>2. hilo'[t] = HiloLibre /\ \A s \in Hilos \ {t} : hilo'[s] = hilo[s]
    BY <1>1, TipoTerminar DEF TypeOK, TipoHilo
  <1>3. CASE ~Existe(hilo[t].dest_name)
    <2>1. /\ mensajes' = Restrict(mensajes, D \ Range(Cadena(mensajes, hilo[t].act)))
          /\ usuarios' = usuarios
      BY <1>3 DEF reencolar, Avanza
    <2>2. EnHilo(t) \in Raices(f, D) /\ f[EnHilo(t)] = hilo[t].act
      BY Memoria
    <2>3. /\ \A v \in DOMAIN usuarios : EnCola(v) # EnHilo(t)
          /\ \A s \in Hilos : hilo'[s].act = IF EnHilo(s) = EnHilo(t) THEN NULL ELSE hilo[s].act
          /\ \A s \in Hilos \ {t} : EnHilo(s) # EnHilo(t)
      BY <1>2, Lugares DEF HiloLibre
    <2>4. /\ Encadenado(AMensaje', DOMAIN mensajes')
          /\ Alcanzado(AMensaje, DOMAIN mensajes) => Alcanzado(AMensaje', DOMAIN mensajes')
          /\ \A s \in Hilos : EnHilo(s) # EnHilo(t) /\ hilo[s].act # NULL =>
               mensajes'[hilo[s].act].next = mensajes[hilo[s].act].next
      BY <2>1, <2>2, <2>3, LiberarCadena
    <2>5. AUsuario' = AUsuario
      BY <1>1, <2>1, UsuariosIguales
    <2>6. QED
      BY <1>1, <2>1, <2>3, <2>4, <2>5, SanoPrima, SigTerminar
  <1>4. CASE Existe(hilo[t].dest_name)
    <2>1. u \in DOMAIN usuarios
      BY <1>4, Encontrado
    <2>2. \/ /\ c = <<>> /\ mensajes' = mensajes
             /\ usuarios' = [usuarios EXCEPT ![u].conectado = FALSE, ![u].mensajes = hilo[t].act]
          \/ /\ c # <<>>
             /\ usuarios' = [usuarios EXCEPT ![u].conectado = FALSE]
             /\ mensajes' = [mensajes EXCEPT ![Last(c)].next = hilo[t].act]
      BY <1>4 DEF reencolar, Avanza
    <2> HIDE DEF u
    <2>3. /\ IsFiniteSet(D) /\ Enlaza(f, mensajes) /\ Encadenado(f, D)
          /\ EnCola(u) \in Raices(f, D) /\ f[EnCola(u)] = usuarios[u].mensajes
          /\ c = Cadena(mensajes, f[EnCola(u)])
      BY <2>1, Memoria DEF Sano, ColaDe
    <2> HIDE DEF c
    <2>4. \A v \in DOMAIN usuarios : usuarios[v] \in Usuario
      BY DEF TypeOK
    <2>5. \A k \in D : mensajes[k] \in Mensaje
      BY DEF TypeOK
    <2>6. CASE c = <<>>
      <3>0. /\ mensajes' = mensajes
            /\ usuarios' = [usuarios EXCEPT ![u].conectado = FALSE, ![u].mensajes = hilo[t].act]
        BY <2>2, <2>6
      <3>1. f[EnCola(u)] = NULL
        <4>1. c = <<>> <=> f[EnCola(u)] = NULL
          BY <2>3, CadenaDe
        <4>2. QED
          BY <2>6, <4>1
      <3>2. /\ DOMAIN usuarios' = DOMAIN usuarios
            /\ \A v \in DOMAIN usuarios :
                 /\ usuarios'[v].next = usuarios[v].next
                 /\ usuarios'[v].mensajes = IF v = u THEN hilo[t].act ELSE usuarios[v].mensajes
        BY <2>1, <2>4, <3>0 DEF Usuario
      <3>3. /\ \A v \in DOMAIN usuarios :
                 usuarios'[v].mensajes = IF EnCola(v) = EnCola(u) THEN hilo[t].act
                                         ELSE usuarios[v].mensajes
            /\ \A k : EnNodo(k) # EnCola(u)
            /\ \A s \in Hilos : EnHilo(s) # EnCola(u)
        BY <3>2, Lugares
      <3>4. \A S : Activo(S, D, EnCola(u))
        BY <3>3 DEF Activo
      <3>5. EnCola(u) \in DOMAIN f /\ mensajes' = mensajes
        BY <2>3, <3>0 DEF Raices
      <3>6. QED
        BY <1>1, <3>1, <3>2, <3>3, <3>4, <3>5, EngancharSano
    <2>7. CASE c # <<>>
      <3> DEFINE k == Last(c)
                 x == EnNodo(k)
                 F == Range(c)
      <3>1. k \in F /\ f[x] = NULL /\ F \subseteq D
        BY <2>3, <2>7, CadenaDe
      <3>2. /\ usuarios' = [usuarios EXCEPT ![u].conectado = FALSE]
            /\ mensajes' = [mensajes EXCEPT ![k].next = hilo[t].act]
        BY <2>2, <2>7
      <3> HIDE DEF k, F
      <3>3. /\ DOMAIN usuarios' = DOMAIN usuarios
            /\ \A v \in DOMAIN usuarios : /\ usuarios'[v].next = usuarios[v].next
                                          /\ usuarios'[v].mensajes = usuarios[v].mensajes
        BY <2>1, <2>4, <3>2 DEF Usuario
      <3>4. /\ DOMAIN mensajes' = D
            /\ \A j \in D : mensajes'[j].next = IF j = k THEN hilo[t].act ELSE mensajes[j].next
        BY <2>5, <3>1, <3>2 DEF Mensaje
      <3>5. /\ \A j \in D : mensajes'[j].next = IF EnNodo(j) = x THEN hilo[t].act
                                               ELSE mensajes[j].next
            /\ \A v : EnCola(v) # x
            /\ \A s : EnHilo(s) # x
        BY <3>4, Lugares
      <3>6. x \in DOMAIN f /\ EnCola(u) \in DOMAIN f
        BY <2>3, <3>1 DEF Enlaza, Nodos, Raices
      <3>7. ASSUME NEW S, Contiene(S, AMensaje', D) PROVE Activo(S, D, x)
        <4>1. AMensaje'[EnCola(u)] = f[EnCola(u)] /\ EnCola(u) \in DOMAIN AMensaje'
          BY <2>1, <2>3, <3>3, Despues
        <4>2. \A j \in D : /\ EnNodo(j) \in DOMAIN AMensaje'
                           /\ j # k => AMensaje'[EnNodo(j)] = f[EnNodo(j)]
          BY <3>4, Antes, Despues
        <4>3. f[EnCola(u)] \in S \cup {NULL}
          <5>1. Activo(S, D, EnCola(u))
            BY Lugares DEF Activo
          <5>2. QED
            BY <3>7, <4>1, <5>1 DEF Contiene
        <4>4. ASSUME NEW j \in F, j \in S PROVE f[EnNodo(j)] \in S \cup {NULL}
          <5>1. CASE j = k
            BY <3>1, <5>1
          <5>2. CASE j # k
            <6>1. Activo(S, D, EnNodo(j))
              BY <4>4, Lugares DEF Activo
            <6>2. QED
              BY <3>1, <3>7, <4>2, <5>2, <6>1 DEF Contiene
          <5>3. QED
            BY <5>1, <5>2
        <4>5. F \subseteq S
          BY <2>3, <4>3, <4>4, CadenaDentro DEF F
        <4>6. QED
          BY <3>1, <4>5, Lugares DEF Activo
      <3>8. ASSUME NEW s \in Hilos PROVE EnNodo(hilo[s].act) # x
        <4>1. EnHilo(s) \in DOMAIN f /\ f[EnHilo(s)] = hilo[s].act
          BY Antes
        <4>2. f[EnHilo(s)] \in F => EnHilo(s) = EnCola(u) \/ \E j \in F : EnHilo(s) = EnNodo(j)
          BY <2>3, <4>1, CadenaSola DEF F
        <4>3. hilo[s].act # k
          BY <3>1, <4>1, <4>2, Lugares
        <4>4. QED
          BY <4>3, Lugares
      <3>9. x # EnHilo(t)
        BY <3>5
      <3> HIDE DEF x
      <3>10. QED
        BY <1>1, <3>1, <3>3, <3>4, <3>5, <3>6, <3>7, <3>8, <3>9, EngancharSano
    <2>8. QED
      BY <2>6, <2>7
  <1>5. QED
    BY <1>3, <1>4

(* SEND: a message behind the queue of the receiver. *)
LEMMA EnviarSano ==
  ASSUME TypeOK, TypeOK', Sano, SigFiel, NEW t \in Hilos, NEW n \in Nombres, NEW id \in Ids,
         procesar_envio_comun(t, n, id)
  PROVE  Sano' /\ SigFiel'
  <1> DEFINE u == find_user(n)
             c == ColaDe(u)
             f == AMensaje
             g == AMensaje'
             D == DOMAIN mensajes
  <1>1. u \in DOMAIN usuarios
    BY Encontrado DEF procesar_envio_comun, Avanza
  <1>2. PICK b \in NodosMensaje \ D :
          /\ mensajes' = [m \in D \cup {b} |->
               IF m = b THEN [id |-> id, next |-> NULL]
               ELSE IF c # <<>> /\ m = Last(c)
                    THEN [mensajes[m] EXCEPT !.next = b] ELSE mensajes[m]]
          /\ usuarios' = IF c = <<>> THEN [usuarios EXCEPT ![u].mensajes = b] ELSE usuarios
    BY DEF procesar_envio_comun, Avanza
  <1>3. /\ hilo' = IF usuarios[u].conectado
                   THEN [hilo EXCEPT ![t] = [pc |-> "enviado", act |-> NULL, sig |-> NULL,
                                             destino |-> n, id |-> id]]
                   ELSE hilo
        /\ UNCHANGED <<head, proceso>>
    BY DEF procesar_envio_comun, Avanza
  <1>4. hilo[t].act = NULL /\ hilo[t].sig = NULL /\ hilo[t].pc = "libre"
    BY TipoHiloLibre DEF procesar_envio_comun, TypeOK, TipoHilo, HiloLibre, Avanza
  <1> HIDE DEF u
  <1>5. /\ \A s \in Hilos : hilo'[s].act = hilo[s].act
        /\ \A s \in Hilos \ {t} : hilo'[s] = hilo[s]
        /\ hilo'[t].sig = NULL /\ hilo'[t].pc \notin {"liberar", "reencolar"}
    <2>1. t \in DOMAIN hilo
      BY DEF TypeOK
    <2>2. QED
      BY <1>3, <1>4, <2>1
  <1>6. /\ IsFiniteSet(D) /\ Enlaza(f, mensajes) /\ Encadenado(f, D) /\ Nodos(f, D)
        /\ EnCola(u) \in Raices(f, D) /\ f[EnCola(u)] = usuarios[u].mensajes
        /\ c = Cadena(mensajes, f[EnCola(u)])
    BY <1>1, Memoria DEF Sano, ColaDe, Enlaza
  <1> HIDE DEF c
  <1>7. b \notin D \cup {NULL}
    BY <1>2, ConstantesUserList
  <1>8. PICK x \in DOMAIN f :
          /\ f[x] = NULL
          /\ \A s : EnHilo(s) # x
          /\ \A s \in Hilos : EnNodo(hilo[s].act) # x
          /\ DOMAIN usuarios' = DOMAIN usuarios
          /\ \A v \in DOMAIN usuarios :
               /\ usuarios'[v].next = usuarios[v].next
               /\ usuarios'[v].mensajes = IF EnCola(v) = x THEN b ELSE usuarios[v].mensajes
          /\ DOMAIN mensajes' = D \cup {b} /\ mensajes'[b].next = NULL
          /\ \A k \in D : mensajes'[k].next = IF EnNodo(k) = x THEN b ELSE mensajes[k].next
    <2>1. \A v \in DOMAIN usuarios : usuarios[v] \in Usuario
      BY DEF TypeOK
    <2>2. \A k \in D : mensajes[k] \in Mensaje
      BY DEF TypeOK
    <2>3. CASE c = <<>>
      <3>1. /\ usuarios' = [usuarios EXCEPT ![u].mensajes = b]
            /\ mensajes' = [m \in D \cup {b} |->
                 IF m = b THEN [id |-> id, next |-> NULL] ELSE mensajes[m]]
        BY <1>2, <2>3
      <3>2. f[EnCola(u)] = NULL
        <4>1. c = <<>> <=> f[EnCola(u)] = NULL
          BY <1>6, CadenaDe
        <4>2. QED
          BY <2>3, <4>1
      <3>3. /\ DOMAIN usuarios' = DOMAIN usuarios
            /\ \A v \in DOMAIN usuarios :
                 /\ usuarios'[v].next = usuarios[v].next
                 /\ usuarios'[v].mensajes = IF EnCola(v) = EnCola(u) THEN b
                                            ELSE usuarios[v].mensajes
        BY <1>1, <2>1, <3>1, Lugares DEF Usuario
      <3>4. /\ DOMAIN mensajes' = D \cup {b} /\ mensajes'[b].next = NULL
            /\ \A k \in D : mensajes'[k].next = IF EnNodo(k) = EnCola(u) THEN b
                                               ELSE mensajes[k].next
        BY <1>7, <3>1, Lugares
      <3>5. /\ EnCola(u) \in DOMAIN f /\ \A s : EnHilo(s) # EnCola(u)
            /\ \A s \in Hilos : EnNodo(hilo[s].act) # EnCola(u)
        BY <1>6, Lugares DEF Raices
      <3>6. QED
        BY <3>2, <3>3, <3>4, <3>5
    <2>4. CASE c # <<>>
      <3> DEFINE l == Last(c)
                 F == Range(c)
      <3>1. l \in F /\ f[EnNodo(l)] = NULL /\ F \subseteq D
        BY <1>6, <2>4, CadenaDe
      <3>2. /\ usuarios' = usuarios
            /\ mensajes' = [m \in D \cup {b} |->
                 IF m = b THEN [id |-> id, next |-> NULL]
                 ELSE IF m = l THEN [mensajes[m] EXCEPT !.next = b] ELSE mensajes[m]]
        BY <1>2, <2>4
      <3> HIDE DEF l, F
      <3>3. /\ DOMAIN mensajes' = D \cup {b} /\ mensajes'[b].next = NULL
            /\ \A k \in D : mensajes'[k].next = IF k = l THEN b ELSE mensajes[k].next
        BY <1>7, <2>2, <3>2 DEF Mensaje
      <3>4. ASSUME NEW s \in Hilos PROVE hilo[s].act # l
        <4>1. EnHilo(s) \in DOMAIN f /\ f[EnHilo(s)] = hilo[s].act
          BY Antes
        <4>2. f[EnHilo(s)] \in F => EnHilo(s) = EnCola(u) \/ \E j \in F : EnHilo(s) = EnNodo(j)
          BY <1>6, <4>1, CadenaSola DEF F
        <4>3. QED
          BY <3>1, <4>1, <4>2, Lugares
      <3>5. /\ EnNodo(l) \in DOMAIN f
            /\ \A s : EnHilo(s) # EnNodo(l)
            /\ \A s \in Hilos : EnNodo(hilo[s].act) # EnNodo(l)
        BY <1>6, <3>1, <3>4, Lugares DEF Nodos
      <3>6. /\ \A v \in DOMAIN usuarios :
                 usuarios'[v].mensajes = IF EnCola(v) = EnNodo(l) THEN b ELSE usuarios[v].mensajes
            /\ \A k \in D : mensajes'[k].next = IF EnNodo(k) = EnNodo(l) THEN b
                                               ELSE mensajes[k].next
        BY <3>2, <3>3, Lugares
      <3>7. QED
        BY <3>1, <3>2, <3>3, <3>5, <3>6
    <2>5. QED
      BY <2>3, <2>4
  <1>9. ASSUME NEW z \in DOMAIN f PROVE g[z] = IF z = x THEN b ELSE f[z]
    <2>1. CASE \E v \in DOMAIN usuarios : z = EnCola(v)
      <3>1. PICK v \in DOMAIN usuarios : z = EnCola(v)
        BY <2>1
      <3>2. g[z] = usuarios'[v].mensajes /\ f[z] = usuarios[v].mensajes
        BY <1>8, <3>1, Antes, Despues
      <3>3. QED
        BY <1>8, <3>1, <3>2
    <2>2. CASE \E k \in D : z = EnNodo(k)
      <3>1. PICK k \in D : z = EnNodo(k)
        BY <2>2
      <3>2. g[z] = mensajes'[k].next /\ f[z] = mensajes[k].next
        BY <1>8, <3>1, Antes, Despues
      <3>3. QED
        BY <1>8, <3>1, <3>2
    <2>3. CASE \E s \in Hilos : z = EnHilo(s)
      BY <1>5, <1>8, <2>3, Antes, Despues
    <2>4. QED
      BY <2>1, <2>2, <2>3, Antes
  <1>10. DOMAIN g = DOMAIN f \cup {EnNodo(b)} /\ g[EnNodo(b)] = NULL
    <2>1. \A z : z \in DOMAIN g <=> z \in DOMAIN f \/ z = EnNodo(b)
      BY <1>8, Antes, Despues
    <2>2. g[EnNodo(b)] = NULL
      BY <1>8, Despues
    <2>3. QED
      BY <2>1, <2>2
  <1>11. Encadenado(g, D \cup {b}) /\ (Alcanzado(f, D) => Alcanzado(g, D \cup {b}))
    <2>1. x \in DOMAIN f /\ f[x] = NULL
      BY <1>8
    <2> HIDE DEF f, g, D
    <2>2. Insertar(f, g, D, x, b)
      BY <1>7, <1>9, <1>10, <2>1 DEF Insertar
    <2>3. QED
      BY <1>6, <2>2, InsertarBien
  <1>12. AUsuario' = AUsuario
    BY <1>3, <1>8, UsuariosIguales
  <1>13. Sano'
    BY <1>3, <1>8, <1>11, <1>12, SanoPrima
  <1>14. SigFiel'
    <2>1. ASSUME NEW s \in Hilos
          PROVE  hilo'[s].sig = IF hilo'[s].pc \in {"liberar", "reencolar"}
                                THEN mensajes'[hilo'[s].act].next ELSE NULL
      <3>1. CASE s = t
        BY <1>5, <3>1
      <3>2. CASE s # t
        <4>1. f[EnHilo(s)] = hilo[s].act /\ f[EnHilo(s)] \in D \cup {NULL}
          BY <1>6, Antes DEF Encadenado
        <4>2. hilo[s].act # NULL => mensajes'[hilo[s].act].next = mensajes[hilo[s].act].next
          BY <1>8, <4>1
        <4>3. QED
          BY <1>5, <3>2, <4>2, SigSigue
      <3>3. QED
        BY <3>1, <3>2
    <2>2. QED
      BY <2>1 DEF SigFiel
  <1>15. QED
    BY <1>13, <1>14

(* The node behind x is left out and freed. *)
LEMMA QuitarSano ==
  ASSUME TypeOK, TypeOK', Sano,
         NEW x \in DOMAIN AMensaje, NEW k \in DOMAIN mensajes, AMensaje[x] = k, x # EnNodo(k),
         proceso' = proceso, head' = head, DOMAIN usuarios' = DOMAIN usuarios,
         DOMAIN mensajes' = DOMAIN mensajes \ {k},
         \A v \in DOMAIN usuarios : usuarios'[v].next = usuarios[v].next,
         \A v \in DOMAIN usuarios :
           usuarios'[v].mensajes = IF EnCola(v) = x THEN mensajes[k].next ELSE usuarios[v].mensajes,
         \A j \in DOMAIN mensajes \ {k} :
           mensajes'[j].next = IF EnNodo(j) = x THEN mensajes[k].next ELSE mensajes[j].next,
         \A s \in Hilos : hilo'[s].act = IF EnHilo(s) = x THEN mensajes[k].next ELSE hilo[s].act,
         \A s \in Hilos : EnNodo(hilo[s].act) # x
  PROVE  /\ Sano'
         /\ \A s \in Hilos : EnHilo(s) # x /\ hilo[s].act # NULL =>
              mensajes'[hilo[s].act].next = mensajes[hilo[s].act].next
  <1> DEFINE f == AMensaje
             g == AMensaje'
             D == DOMAIN mensajes
  <1>1. Encadenado(f, D) /\ Nodos(f, D) /\ f[EnNodo(k)] = mensajes[k].next
    BY Memoria DEF Sano, Enlaza
  <1>2. DOMAIN g = DOMAIN f \ {EnNodo(k)}
    <2>1. ASSUME NEW z \in DOMAIN g PROVE z \in DOMAIN f /\ z # EnNodo(k)
      <3>1. CASE \E v \in DOMAIN usuarios' : z = EnCola(v)
        BY <3>1, Antes, Lugares
      <3>2. CASE \E j \in DOMAIN mensajes' : z = EnNodo(j)
        BY <3>2, Antes, Lugares
      <3>3. CASE \E s \in Hilos : z = EnHilo(s)
        BY <3>3, Antes, Lugares
      <3>4. QED
        BY <3>1, <3>2, <3>3, Despues
    <2>2. ASSUME NEW z \in DOMAIN f, z # EnNodo(k) PROVE z \in DOMAIN g
      <3>1. CASE \E v \in DOMAIN usuarios : z = EnCola(v)
        BY <3>1, Despues
      <3>2. CASE \E j \in D : z = EnNodo(j)
        BY <2>2, <3>2, Despues
      <3>3. CASE \E s \in Hilos : z = EnHilo(s)
        BY <3>3, Despues
      <3>4. QED
        BY <3>1, <3>2, <3>3, Antes
    <2> HIDE DEF f, g
    <2>3. \A z : z \in DOMAIN g <=> z \in DOMAIN f /\ z # EnNodo(k)
      BY <2>1, <2>2
    <2>4. QED
      BY <2>3
  <1>3. ASSUME NEW z \in DOMAIN g PROVE g[z] = IF z = x THEN f[EnNodo(k)] ELSE f[z]
    <2>1. CASE \E v \in DOMAIN usuarios' : z = EnCola(v)
      <3>1. PICK v \in DOMAIN usuarios' : z = EnCola(v)
        BY <2>1
      <3>2. g[z] = usuarios'[v].mensajes /\ f[z] = usuarios[v].mensajes
        BY <3>1, Antes, Despues
      <3>3. QED
        BY <1>1, <3>1, <3>2
    <2>2. CASE \E j \in DOMAIN mensajes' : z = EnNodo(j)
      <3>1. PICK j \in DOMAIN mensajes' : z = EnNodo(j)
        BY <2>2
      <3>2. g[z] = mensajes'[j].next /\ f[z] = mensajes[j].next
        BY <3>1, Antes, Despues
      <3>3. QED
        BY <1>1, <3>1, <3>2
    <2>3. CASE \E s \in Hilos : z = EnHilo(s)
      BY <1>1, <2>3, Antes, Despues
    <2>4. QED
      BY <2>1, <2>2, <2>3, Despues
  <1>4. Encadenado(g, D \ {k}) /\ (Alcanzado(f, D) => Alcanzado(g, D \ {k}))
    <2>1. x \in DOMAIN f /\ f[x] = k /\ k \in D /\ x # EnNodo(k)
      OBVIOUS
    <2> HIDE DEF f, g, D
    <2>2. Saltar(f, g, D, x, k)
      BY <1>2, <1>3, <2>1 DEF Saltar
    <2>3. QED
      BY <1>1, <2>2, SaltarBien
  <1>5. AUsuario' = AUsuario
    BY UsuariosIguales
  <1>6. Sano'
    BY <1>4, <1>5, SanoPrima
  <1>7. ASSUME NEW s \in Hilos, EnHilo(s) # x, hilo[s].act # NULL
        PROVE  mensajes'[hilo[s].act].next = mensajes[hilo[s].act].next
    <2>1. EnHilo(s) \in DOMAIN f /\ f[EnHilo(s)] = hilo[s].act
      BY Antes
    <2>2. hilo[s].act \in D /\ hilo[s].act # k
      BY <1>1, <1>7, <2>1 DEF Encadenado
    <2>3. QED
      BY <2>2
  <1>8. QED
    BY <1>6, <1>7

(* free(act); act = sig. *)
LEMMA LiberarSano ==
  ASSUME TypeOK, TypeOK', Sano, SigFiel, NEW t \in Hilos, liberar_entregado(t)
  PROVE  Sano' /\ SigFiel'
  <1> DEFINE k == hilo[t].act
             x == EnHilo(t)
  <1>1. /\ hilo[t].pc = "liberar" /\ UNCHANGED <<usuarios, head, proceso>>
        /\ mensajes' = Restrict(mensajes, DOMAIN mensajes \ {k})
    BY DEF liberar_entregado, Avanza
  <1>2. hilo[t] \in Entrega /\ k # NULL
    BY <1>1, TipoHiloLibre DEF TypeOK, TipoHilo
  <1>3. x \in DOMAIN AMensaje /\ AMensaje[x] = k /\ k \in DOMAIN mensajes
    BY <1>2, Antes DEF Sano, Encadenado
  <1>4. hilo[t].sig = mensajes[k].next
    BY <1>1 DEF SigFiel
  <1>5. /\ hilo'[t].act = mensajes[k].next /\ hilo'[t].sig = NULL
        /\ hilo'[t].pc \notin {"liberar", "reencolar"}
        /\ \A s \in Hilos \ {t} : hilo'[s] = hilo[s]
    <2>1. CASE hilo[t].sig = NULL
      <3>1. Terminar(t)
        BY <2>1 DEF liberar_entregado, Avanza
      <3>2. hilo'[t] = HiloLibre /\ \A s \in Hilos \ {t} : hilo'[s] = hilo[s]
        BY <3>1, TipoTerminar DEF TypeOK, TipoHilo
      <3>3. QED
        BY <1>4, <2>1, <3>2 DEF HiloLibre
    <2>2. CASE hilo[t].sig # NULL
      <3>1. hilo' = [hilo EXCEPT ![t].pc = "entregar", ![t].act = hilo[t].sig, ![t].sig = NULL]
        BY <2>2 DEF liberar_entregado, Avanza
      <3>2. t \in DOMAIN hilo /\ DOMAIN hilo = Hilos
        BY DEF TypeOK
      <3>3. hilo'[t] = [hilo[t] EXCEPT !.pc = "entregar", !.act = hilo[t].sig, !.sig = NULL]
        BY <3>1, <3>2
      <3>4. \A s \in Hilos \ {t} : hilo'[s] = hilo[s]
        BY <3>1, <3>2
      <3>5. QED
        BY <1>2, <1>4, <3>3, <3>4 DEF Entrega
    <2>3. QED
      BY <2>1, <2>2
  <1>6. /\ DOMAIN mensajes' = DOMAIN mensajes \ {k}
        /\ \A j \in DOMAIN mensajes \ {k} : mensajes'[j] = mensajes[j]
    BY <1>1 DEF Restrict
  <1> HIDE DEF k
  <1>7. /\ \A v : EnCola(v) # x /\ EnNodo(v) # x
        /\ \A s \in Hilos : EnHilo(s) = x <=> s = t
    BY Lugares
  <1> HIDE DEF x
  <1>8. /\ Sano'
        /\ \A s \in Hilos : EnHilo(s) # x /\ hilo[s].act # NULL =>
             mensajes'[hilo[s].act].next = mensajes[hilo[s].act].next
    <2>1. x # EnNodo(k) /\ \A s \in Hilos : EnNodo(hilo[s].act) # x
      BY <1>7
    <2>2. proceso' = proceso /\ head' = head /\ DOMAIN usuarios' = DOMAIN usuarios
      BY <1>1
    <2>3. \A v \in DOMAIN usuarios : usuarios'[v].next = usuarios[v].next
      BY <1>1
    <2>4. \A v \in DOMAIN usuarios :
            usuarios'[v].mensajes = IF EnCola(v) = x THEN mensajes[k].next ELSE usuarios[v].mensajes
      BY <1>1, <1>7
    <2>5. \A j \in DOMAIN mensajes \ {k} :
            mensajes'[j].next = IF EnNodo(j) = x THEN mensajes[k].next ELSE mensajes[j].next
      BY <1>6, <1>7
    <2>6. \A s \in Hilos : hilo'[s].act = IF EnHilo(s) = x THEN mensajes[k].next ELSE hilo[s].act
      BY <1>5, <1>7
    <2>7. DOMAIN mensajes' = DOMAIN mensajes \ {k}
      BY <1>6
    <2>8. QED
      BY <1>3, <2>1, <2>2, <2>3, <2>4, <2>5, <2>6, <2>7, QuitarSano
  <1>9. SigFiel'
    <2>1. ASSUME NEW s \in Hilos
          PROVE  hilo'[s].sig = IF hilo'[s].pc \in {"liberar", "reencolar"}
                                THEN mensajes'[hilo'[s].act].next ELSE NULL
      <3>1. CASE s = t
        BY <1>5, <3>1
      <3>2. CASE s # t
        BY <1>5, <1>7, <1>8, <3>2, SigSigue
      <3>3. QED
        BY <3>1, <3>2
    <2>2. QED
      BY <2>1 DEF SigFiel
  <1>10. QED
    BY <1>8, <1>9

(* A message that was sent at once leaves the queue. *)
LEMMA EliminarSano ==
  ASSUME TypeOK, TypeOK', Sano, SigFiel, NEW t \in Hilos, eliminar_mensaje_cola(t)
  PROVE  Sano' /\ SigFiel'
  <1> DEFINE f == AMensaje
             D == DOMAIN mensajes
  <1>1. Terminar(t) /\ head' = head /\ proceso' = proceso /\ hilo[t].pc = "enviado"
    BY DEF eliminar_mensaje_cola, Avanza
  <1>2. \A s \in Hilos : hilo'[s].act = hilo[s].act
    <2>1. hilo'[t] = HiloLibre /\ \A s \in Hilos \ {t} : hilo'[s] = hilo[s]
      BY <1>1, TipoTerminar DEF TypeOK, TipoHilo
    <2>2. hilo[t].act = NULL
      BY <1>1, TipoHiloLibre DEF TypeOK, TipoHilo
    <2>3. QED
      BY <2>1, <2>2 DEF HiloLibre
  <1>3. CASE UNCHANGED <<usuarios, mensajes>>
    <2>1. Sano'
      BY <1>1, <1>2, <1>3, IgualSano
    <2>2. SigFiel'
      BY <1>1, <1>3, SigTerminar
    <2>3. QED
      BY <2>1, <2>2
  <1>4. ASSUME NEW u \in DOMAIN usuarios, NEW c, c = ColaDe(u), NEW i \in 1..Len(c),
               NEW k, k = c[i], NEW r, r = Restrict(mensajes, D \ {k}),
               \/ /\ i = 1
                  /\ usuarios' = [usuarios EXCEPT ![u].mensajes = mensajes[k].next]
                  /\ mensajes' = r
               \/ /\ i # 1
                  /\ mensajes' = [r EXCEPT ![c[i - 1]].next = mensajes[k].next]
                  /\ UNCHANGED usuarios
        PROVE  Sano' /\ SigFiel'
    <2>1. /\ IsFiniteSet(D) /\ Enlaza(f, mensajes) /\ Encadenado(f, D)
          /\ EnCola(u) \in Raices(f, D) /\ c = Cadena(mensajes, f[EnCola(u)])
      BY <1>4, Memoria DEF Sano, ColaDe
    <2>2. /\ k \in D /\ (i = 1 => f[EnCola(u)] = k)
          /\ i # 1 => /\ c[i - 1] \in Range(c)
                      /\ f[EnNodo(c[i - 1])] = k /\ c[i - 1] # k
      BY <1>4, <2>1, CadenaAntes
    <2>3. DOMAIN r = D \ {k} /\ \A j \in D \ {k} : r[j] = mensajes[j]
      BY <1>4 DEF Restrict
    <2>4. \A v \in DOMAIN usuarios : usuarios[v] \in Usuario
      BY DEF TypeOK
    <2>5. \A j \in D : mensajes[j] \in Mensaje
      BY DEF TypeOK
    <2>6. CASE i = 1
      <3> DEFINE x == EnCola(u)
      <3>1. usuarios' = [usuarios EXCEPT ![u].mensajes = mensajes[k].next] /\ mensajes' = r
        BY <1>4, <2>6
      <3>2. /\ \A v : EnNodo(v) # x /\ EnHilo(v) # x
            /\ \A v : EnCola(v) = x <=> v = u
        BY Lugares
      <3>3. x \in DOMAIN f /\ f[x] = k
        BY <2>1, <2>2, <2>6 DEF Raices
      <3> HIDE DEF x
      <3>4. /\ DOMAIN usuarios' = DOMAIN usuarios
            /\ \A v \in DOMAIN usuarios : usuarios'[v].next = usuarios[v].next
            /\ \A v \in DOMAIN usuarios :
                 usuarios'[v].mensajes = IF EnCola(v) = x THEN mensajes[k].next
                                         ELSE usuarios[v].mensajes
        BY <2>4, <3>1, <3>2 DEF Usuario
      <3>5. /\ Sano'
            /\ \A s \in Hilos : EnHilo(s) # x /\ hilo[s].act # NULL =>
                 mensajes'[hilo[s].act].next = mensajes[hilo[s].act].next
        BY <1>1, <1>2, <2>2, <2>3, <3>1, <3>2, <3>3, <3>4, QuitarSano
      <3>6. SigFiel'
        BY <1>1, <3>2, <3>5, SigTerminar
      <3>7. QED
        BY <3>5, <3>6
    <2>7. CASE i # 1
      <3> DEFINE j == c[i - 1]
                 x == EnNodo(j)
                 F == Range(c)
      <3>1. mensajes' = [r EXCEPT ![j].next = mensajes[k].next] /\ usuarios' = usuarios
        BY <1>4, <2>7
      <3>2. j \in F /\ F \subseteq D /\ f[x] = k /\ j # k
        BY <2>1, <2>2, <2>7, CadenaDe
      <3>3. ASSUME NEW s \in Hilos PROVE hilo[s].act # j
        <4>1. EnHilo(s) \in DOMAIN f /\ f[EnHilo(s)] = hilo[s].act
          BY Antes
        <4>2. f[EnHilo(s)] \in F => EnHilo(s) = EnCola(u) \/ \E l \in F : EnHilo(s) = EnNodo(l)
          BY <2>1, <4>1, CadenaSola
        <4> HIDE DEF j, F
        <4>3. QED
          BY <3>2, <4>1, <4>2, Lugares
      <3> HIDE DEF j, F
      <3>4. /\ \A v : EnCola(v) # x /\ EnHilo(v) # x
            /\ \A v : EnNodo(v) = x <=> v = j
            /\ x # EnNodo(k)
        BY <3>2, Lugares
      <3>5. x \in DOMAIN f
        BY <2>1, <3>2 DEF Enlaza, Nodos
      <3> HIDE DEF x
      <3>6. DOMAIN mensajes' = D \ {k}
        BY <2>3, <3>1
      <3>7. ASSUME NEW l \in D \ {k}
            PROVE  mensajes'[l].next = IF EnNodo(l) = x THEN mensajes[k].next ELSE mensajes[l].next
        <4>1. mensajes'[l] = IF l = j THEN [r[l] EXCEPT !.next = mensajes[k].next] ELSE r[l]
          BY <2>3, <3>1
        <4>2. r[l] = mensajes[l] /\ mensajes[l] \in Mensaje
          BY <2>3, <2>5
        <4>3. QED
          BY <3>4, <4>1, <4>2 DEF Mensaje
      <3>8. \A s \in Hilos : EnNodo(hilo[s].act) # x
        BY <3>3, <3>4
      <3>9. /\ Sano'
            /\ \A s \in Hilos : EnHilo(s) # x /\ hilo[s].act # NULL =>
                 mensajes'[hilo[s].act].next = mensajes[hilo[s].act].next
        BY <1>1, <1>2, <2>2, <3>1, <3>2, <3>4, <3>5, <3>6, <3>7, <3>8, QuitarSano
      <3>10. SigFiel'
        BY <1>1, <3>4, <3>9, SigTerminar
      <3>11. QED
        BY <3>9, <3>10
    <2>8. QED
      BY <2>6, <2>7
  <1>5. QED
    BY <1>3, <1>4, EliminarCasos
-----------------------------------------------------------------------------
(***************************************************************************)
(* The theorems.                                                           *)
(***************************************************************************)
LEMMA InicioSano ==
  ASSUME Init
  PROVE  TypeOK /\ Sano /\ SigFiel
  <1>1. /\ usuarios = <<>> /\ mensajes = <<>> /\ head = NULL /\ proceso = Vivo
        /\ hilo = [t \in Hilos |-> HiloLibre]
    BY DEF Init
  <1>2. DOMAIN usuarios = {} /\ DOMAIN mensajes = {}
    BY <1>1
  <1>3. TypeOK
    <2>1. usuarios \in [DOMAIN usuarios -> Usuario] /\ mensajes \in [DOMAIN mensajes -> Mensaje]
      BY <1>1, <1>2
    <2>2. tardios \in 0..MaxTardios
      BY ConstantesUserList DEF Init
    <2>3. QED
      BY <1>1, <1>2, <2>1, <2>2 DEF TypeOK
  <1>4. \A t \in Hilos : hilo[t] = HiloLibre
    BY <1>1
  <1>5. \A x \in DOMAIN AMensaje : AMensaje[x] = NULL
    BY <1>2, <1>3, <1>4, Antes DEF HiloLibre
  <1>6. \A x \in DOMAIN AUsuario : AUsuario[x] = NULL
    BY <1>1, <1>2, PunterosUsuarioDe DEF AUsuario
  <1>7. Sano
    <2>1. Encadenado(AMensaje, {}) /\ Encadenado(AUsuario, {})
      BY <1>5, <1>6 DEF Encadenado
    <2>2. Alcanzado(AMensaje, {}) /\ Alcanzado(AUsuario, {})
      BY DEF Alcanzado
    <2>3. QED
      BY <1>2, <2>1, <2>2 DEF Sano
  <1>8. SigFiel
    BY <1>4 DEF SigFiel, HiloLibre
  <1>9. QED
    BY <1>3, <1>7, <1>8

(* From SIGINT on only the types are claimed. *)
Bien ==
  /\ TypeOK
  /\ proceso = Vivo => Sano /\ SigFiel

LEMMA PasoSano ==
  ASSUME TypeOK, Sano, SigFiel, TypeOK', proceso' = Vivo, Next
  PROVE  Sano' /\ SigFiel'
  <1>1. CASE \E n \in Nombres : procesar_register(n)
    BY <1>1, RegistrarSano
  <1>2. CASE \E n \in Nombres : procesar_unregister(n)
    BY <1>2, BorrarSano
  <1>3. CASE \/ \E n \in Nombres : procesar_disconnect(n)
             \/ \E t \in Hilos : desconectar_destino(t)
    BY <1>3, DesconectarSano
  <1>4. CASE \E t \in Hilos, n \in Nombres : procesar_connect(t, n)
    BY <1>4, ConectarSano
  <1>5. CASE \E t \in Hilos, n \in Nombres, id \in Ids : procesar_envio_comun(t, n, id)
    BY <1>5, EnviarSano
  <1>6. CASE \E t \in Hilos : eliminar_mensaje_cola(t)
    BY <1>6, EliminarSano
  <1>7. CASE \E t \in Hilos : entregar_pendiente(t)
    BY <1>7, EntregarSano
  <1>8. CASE \E t \in Hilos : liberar_entregado(t)
    BY <1>8, LiberarSano
  <1>9. CASE \E t \in Hilos : reencolar(t)
    BY <1>9, ReencolarSano
  <1>10. CASE handle_sigint \/ free_user_list \/ salir \/ tropezar
    <2>1. proceso' # Vivo
      BY <1>10 DEF handle_sigint, free_user_list, salir, tropezar, Acabar, Recorrido, Vivo, Fin,
                   Indefinido
    <2>2. QED
      BY <2>1
  <1>11. CASE Acabado
    <2>1. proceso # Vivo /\ UNCHANGED vars
      BY <1>11 DEF Acabado, EnMarcha
    <2>2. QED
      BY <2>1 DEF vars
  <1>12. QED
    BY <1>1, <1>2, <1>3, <1>4, <1>5, <1>6, <1>7, <1>8, <1>9, <1>10, <1>11 DEF Next

LEMMA BienSigue ==
  ASSUME Bien, [Next]_vars
  PROVE  Bien'
  <1>1. CASE UNCHANGED vars
    BY <1>1 DEF vars, Bien, TypeOK, Sano, SigFiel, AMensaje, AUsuario
  <1>2. CASE Next
    <2>1. TypeOK' /\ (proceso' = Vivo => proceso = Vivo)
      BY <1>2, TipoSigue, ProcesoSigue DEF Bien
    <2>2. ASSUME proceso' = Vivo PROVE Sano' /\ SigFiel'
      BY <1>2, <2>1, <2>2, PasoSano DEF Bien
    <2>3. QED
      BY <2>1, <2>2 DEF Bien
  <1>3. QED
    BY <1>1, <1>2

LEMMA IInvDeBien ==
  ASSUME Bien
  PROVE  IInv
  <1>1. SinFugas
    <2>1. CASE proceso = Vivo
      BY <2>1, FugasDeSano DEF Bien
    <2>2. CASE proceso # Vivo
      BY <2>2 DEF SinFugas
    <2>3. QED
      BY <2>1, <2>2
  <1>2. QED
    BY <1>1 DEF Bien, IInv, Sano

(* Until SIGINT every pointer to a block leads to a block in use, no two   *)
(* of them to the same one, and none is lost, whatever handlers run, in    *)
(* any order, for any number of blocks, threads and names (linked_list.c,  *)
(* operaciones.c:143-250).                                                 *)
THEOREM Invariante == Spec => []IInv
  <1>1. Init => Bien
    BY InicioSano DEF Bien
  <1>2. Bien /\ [Next]_vars => Bien'
    BY BienSigue
  <1>3. Bien => IInv
    BY IInvDeBien
  <1>4. QED
    BY <1>1, <1>2, <1>3, PTL DEF Spec

(* A user, a message and a delivery have their types, and a thread that    *)
(* delivers has a message in hand.                                         *)
THEOREM TipoCorrecto == Spec => []TypeOK
  <1>1. IInv => TypeOK
    BY DEF IInv
  <1>2. QED
    BY <1>1, Invariante, PTL

(* Until SIGINT no handler, and no thread that walks a detached chain      *)
(* without the mutex, is left with a pointer to a freed block              *)
(* (operaciones.c:143-250, linked_list.c).                                 *)
THEOREM NadieColgado == Spec => []SinColgantes
  <1>1. IInv => SinColgantes
    <2> SUFFICES ASSUME IInv, proceso = Vivo PROVE SinColgantes
      BY DEF SinColgantes
    <2>1. TypeOK /\ Sano /\ SigFiel
      BY SanoDeIInv DEF IInv
    <2>2. /\ \A u \in DOMAIN usuarios : usuarios[u].mensajes \in DOMAIN mensajes \cup {NULL}
          /\ \A k \in DOMAIN mensajes : mensajes[k].next \in DOMAIN mensajes \cup {NULL}
          /\ \A t \in Hilos : hilo[t].act \in DOMAIN mensajes \cup {NULL}
      BY <2>1, Antes DEF Sano, Encadenado
    <2>3. ListaSana
      <3>1. Encadenado(AUsuario, DOMAIN usuarios)
        BY <2>1 DEF Sano
      <3>2. /\ EnHead \in DOMAIN AUsuario /\ AUsuario[EnHead] = head
            /\ \A u \in DOMAIN usuarios : /\ EnNodo(u) \in DOMAIN AUsuario
                                          /\ AUsuario[EnNodo(u)] = usuarios[u].next
        BY PunterosUsuarioDe DEF AUsuario
      <3>3. QED
        BY <2>2, <3>1, <3>2 DEF ListaSana, Encadenado
    <2>4. ASSUME NEW t \in Hilos PROVE hilo[t].sig \in DOMAIN mensajes \cup {NULL}
      <3>1. hilo[t].sig = IF hilo[t].pc \in {"liberar", "reencolar"}
                          THEN mensajes[hilo[t].act].next ELSE NULL
        BY <2>1 DEF SigFiel
      <3>2. hilo[t].pc \in {"liberar", "reencolar"} => hilo[t].act \in DOMAIN mensajes
        BY <2>1, <2>2, TipoHiloLibre DEF TypeOK, TipoHilo
      <3>3. QED
        BY <2>2, <3>1, <3>2
    <2>5. QED
      BY <2>2, <2>3, <2>4 DEF SinColgantes
  <1>2. QED
    BY <1>1, Invariante, PTL

(* No handler loses a block: until SIGINT whatever is allocated is still   *)
(* reached from head, a queue or a thread (linked_list.c, remove_user;     *)
(* operaciones.c, entregar_pendientes and eliminar_mensaje_cola).          *)
THEOREM NadaPerdido == Spec => []SinFugas
  <1>1. IInv => SinFugas
    BY DEF IInv
  <1>2. QED
    BY <1>1, Invariante, PTL

(* Until SIGINT, what one thread frees, no queue and no other thread still *)
(* leads to (operaciones.c:224, 435-437, linked_list.c).                   *)
THEOREM SinCompartir == Spec => []UnSoloEnlace
  <1>1. IInv => UnSoloEnlace
    <2> SUFFICES ASSUME IInv, proceso = Vivo, NEW m \in DOMAIN mensajes
                 PROVE  Cardinality(Enlaces(m)) <= 1
      BY DEF UnSoloEnlace
    <2>1. Encadenado(AMensaje, DOMAIN mensajes)
      BY DEF IInv
    <2>2. \A x, y \in Enlaces(m) : x = y
      BY <2>1 DEF Enlaces, Encadenado
    <2>3. CASE Enlaces(m) = {}
      <3>1. Cardinality(Enlaces(m)) = 0
        BY <2>3, FS_EmptySet
      <3>2. QED
        BY <3>1
    <2>4. ASSUME NEW x \in Enlaces(m) PROVE Cardinality(Enlaces(m)) <= 1
      <3>1. Enlaces(m) = {x}
        BY <2>2
      <3>2. Cardinality(Enlaces(m)) = 1
        BY <3>1, FS_Singleton
      <3>3. QED
        BY <3>2
    <2>5. QED
      BY <2>3, <2>4
  <1>2. QED
    BY <1>1, Invariante, PTL
=============================================================================
