--------------------------- MODULE FramingProofs ---------------------------
(***************************************************************************)
(* Theorems about the framing of the requests, for any number of fields,   *)
(* of any length, with line feeds or without, and for buffers of any size  *)
(* at both ends.                                                           *)
(***************************************************************************)
EXTENDS Framing, SequenceTheorems, WellFoundedInduction, TLAPS

-----------------------------------------------------------------------------
(***************************************************************************)
(* The request as one sequence of bytes.  FlattenSeq is a recursive        *)
(* function of the place: what is proved of every place is proved of the   *)
(* first one where it would fail.                                          *)
(***************************************************************************)
LEMMA PrimeroExiste ==
  ASSUME NEW T \in SUBSET Nat, T # {}
  PROVE  \E x \in T : \A y \in T : x <= y
  <1> DEFINE R == OpToRel(<, Nat)
  <1>1. \E x \in T : \A y \in T : ~(<<y, x>> \in R)
    BY NatLessThanWellFounded, WFMin
  <1>2. \A x, y \in Nat : x < y => <<x, y>> \in R
    BY DEF OpToRel
  <1> HIDE DEF R
  <1>3. PICK x \in T : \A y \in T : ~(<<y, x>> \in R)
    BY <1>1
  <1>4. ASSUME NEW y \in T PROVE x <= y
    <2>1. x \in Nat /\ y \in Nat /\ ~(y < x)
      BY <1>2, <1>3
    <2>2. QED
      BY <2>1
  <1>5. QED
    BY <1>4

(* g is the function that FlattenSeq is computed with, up to place n. *)
Plana(g, s, n) ==
  g = [i \in 1..n |-> IF i = 1 THEN s[i] ELSE g[i - 1] \o s[i]]

LEMMA PlanaDe ==
  ASSUME NEW g, NEW s, NEW n \in Nat, Plana(g, s, n)
  PROVE  /\ DOMAIN g = 1..n
         /\ \A i \in 1..n : g[i] = IF i = 1 THEN s[i] ELSE g[i - 1] \o s[i]
  <1> DEFINE h == [i \in 1..n |-> IF i = 1 THEN s[i] ELSE g[i - 1] \o s[i]]
  <1>1. /\ DOMAIN h = 1..n
        /\ \A i \in 1..n : h[i] = IF i = 1 THEN s[i] ELSE g[i - 1] \o s[i]
    OBVIOUS
  <1>2. g = h
    BY DEF Plana
  <1> HIDE DEF h
  <1>3. QED
    BY <1>1, <1>2

LEMMA PlanaCrece ==
  ASSUME NEW s, NEW n \in Nat, NEW g, Plana(g, s, n)
  PROVE  \E h : Plana(h, s, n + 1)
  <1> DEFINE v == IF n = 0 THEN s[1] ELSE g[n] \o s[n + 1]
             h == [i \in 1..(n + 1) |-> IF i = n + 1 THEN v ELSE g[i]]
             k == [i \in 1..(n + 1) |-> IF i = 1 THEN s[i] ELSE h[i - 1] \o s[i]]
  <1>1. \A i \in 1..(n + 1) : h[i] = IF i = n + 1 THEN v ELSE g[i]
    OBVIOUS
  <1>2. \A i \in 1..(n + 1) : k[i] = IF i = 1 THEN s[i] ELSE h[i - 1] \o s[i]
    OBVIOUS
  <1>3. h = [i \in 1..(n + 1) |-> h[i]] /\ k = [i \in 1..(n + 1) |-> k[i]]
    OBVIOUS
  <1>4. n = 0 => v = s[1]
    OBVIOUS
  <1>5. n # 0 => v = g[n] \o s[n + 1]
    OBVIOUS
  <1>6. k = [i \in 1..(n + 1) |-> IF i = 1 THEN s[i] ELSE h[i - 1] \o s[i]]
    OBVIOUS
  <1>a. \A i \in 1..n : g[i] = IF i = 1 THEN s[i] ELSE g[i - 1] \o s[i]
    BY PlanaDe
  <1> HIDE DEF v, h, k
  <1>7. ASSUME NEW i \in 1..(n + 1) PROVE h[i] = k[i]
    <2>1. CASE i = n + 1 /\ n = 0
      BY <1>1, <1>2, <1>4, <2>1
    <2>2. CASE i = n + 1 /\ n # 0
      <3>1. n \in 1..(n + 1) /\ n # n + 1 /\ (n + 1) - 1 = n /\ i # 1
        BY <2>2
      <3>2. h[i - 1] = g[n]
        BY <1>1, <2>2, <3>1
      <3>3. QED
        BY <1>1, <1>2, <1>5, <2>2, <3>1, <3>2
    <2>3. CASE i # n + 1 /\ i = 1
      <3>1. i \in 1..n
        BY <2>3
      <3>2. QED
        BY <1>1, <1>2, <1>a, <2>3, <3>1
    <2>4. CASE i # n + 1 /\ i # 1
      <3>1. i \in 1..n /\ i - 1 \in 1..(n + 1) /\ i - 1 # n + 1
        BY <2>4
      <3>2. h[i] = g[i] /\ h[i - 1] = g[i - 1]
        BY <1>1, <2>4, <3>1
      <3>3. g[i] = g[i - 1] \o s[i]
        BY <1>a, <2>4, <3>1
      <3>4. QED
        BY <1>2, <2>4, <3>2, <3>3
    <2>5. QED
      BY <2>1, <2>2, <2>3, <2>4
  <1>8. h = k
    BY <1>3, <1>7
  <1>9. QED
    BY <1>6, <1>8 DEF Plana

LEMMA PlanaExiste ==
  ASSUME NEW s, NEW n \in Nat
  PROVE  \E g : Plana(g, s, n)
  <1> DEFINE Malos == {k \in Nat : ~ \E g : Plana(g, s, k)}
  <1> SUFFICES ASSUME Malos # {} PROVE FALSE
    OBVIOUS
  <1>1. PICK k \in Malos : \A y \in Malos : k <= y
    <2>1. Malos \in SUBSET Nat
      OBVIOUS
    <2> HIDE DEF Malos
    <2>2. QED
      BY <2>1, PrimeroExiste
  <1>2. k # 0
    <2> DEFINE g == [i \in 1..0 |-> s[i]]
               h == [i \in 1..0 |-> IF i = 1 THEN s[i] ELSE g[i - 1] \o s[i]]
    <2>1. 1..0 = {}
      OBVIOUS
    <2>2. g = h
      BY <2>1
    <2>3. Plana(g, s, 0)
      BY <2>2 DEF Plana
    <2>4. QED
      BY <2>3
  <1>3. k - 1 \in Nat /\ k - 1 \notin Malos
    <2>1. k \in Nat /\ k - 1 \in Nat /\ ~(k <= k - 1)
      BY <1>2
    <2>2. QED
      BY <1>1, <2>1
  <1>4. PICK g : Plana(g, s, k - 1)
    BY <1>3
  <1>5. \E h : Plana(h, s, (k - 1) + 1)
    BY <1>3, <1>4, PlanaCrece
  <1>6. (k - 1) + 1 = k
    BY <1>3
  <1>7. QED
    BY <1>5, <1>6

(* It depends on the sequences up to the place, and on nothing else. *)
LEMMA PlanaUnica ==
  ASSUME NEW s, NEW r, NEW n \in Nat, NEW m \in Nat, m <= n,
         \A i \in 1..m : r[i] = s[i],
         NEW g, Plana(g, s, n), NEW h, Plana(h, r, m)
  PROVE  \A i \in 1..m : h[i] = g[i]
  <1> DEFINE Malos == {i \in 1..m : h[i] # g[i]}
  <1> SUFFICES ASSUME Malos # {} PROVE FALSE
    OBVIOUS
  <1>1. PICK k \in Malos : \A y \in Malos : k <= y
    <2>1. Malos \in SUBSET Nat
      OBVIOUS
    <2> HIDE DEF Malos
    <2>2. QED
      BY <2>1, PrimeroExiste
  <1>2. k \in 1..m /\ k \in 1..n /\ h[k] # g[k]
    OBVIOUS
  <1>3. /\ g[k] = IF k = 1 THEN s[k] ELSE g[k - 1] \o s[k]
        /\ h[k] = IF k = 1 THEN r[k] ELSE h[k - 1] \o r[k]
    BY <1>2, PlanaDe
  <1>4. k # 1
    BY <1>2, <1>3
  <1>5. k - 1 \in 1..m /\ ~(k <= k - 1)
    BY <1>2, <1>4
  <1>6. h[k - 1] = g[k - 1]
    BY <1>1, <1>5
  <1>7. QED
    BY <1>2, <1>3, <1>4, <1>6

(* FlattenSeq step by step. *)
LEMMA AplanarVacia ==
  ASSUME NEW s, NEW n \in Nat, n = 0
  PROVE  FlattenSeq([j \in 1..n |-> s[j]]) = <<>>
  <1> DEFINE q == [j \in 1..n |-> s[j]]
  <1>1. q = <<>> /\ Len(q) = 0
    OBVIOUS
  <1> HIDE DEF q
  <1>2. FlattenSeq(q) = <<>>
    BY <1>1 DEF FlattenSeq
  <1>3. QED
    BY <1>2 DEF q

LEMMA AplanarEs ==
  ASSUME NEW s, NEW n \in Nat \ {0}, NEW m \in Nat, n <= m, NEW g, Plana(g, s, m)
  PROVE  FlattenSeq([j \in 1..n |-> s[j]]) = g[n]
  <1> DEFINE q == [j \in 1..n |-> s[j]]
             f == CHOOSE h : h = [i \in 1..Len(q) |-> IF i = 1 THEN q[i] ELSE h[i - 1] \o q[i]]
  <1>1. Len(q) = n /\ \A j \in 1..n : q[j] = s[j]
    OBVIOUS
  <1>2. FlattenSeq(q) = f[Len(q)]
    <2>1. Len(q) # 0
      BY <1>1
    <2> HIDE DEF q
    <2>2. QED
      BY <2>1 DEF FlattenSeq
  <1> HIDE DEF q
  <1>3. Plana(f, q, n)
    <2>1. \E h : Plana(h, q, n)
      BY PlanaExiste
    <2>2. \E h : h = [i \in 1..Len(q) |-> IF i = 1 THEN q[i] ELSE h[i - 1] \o q[i]]
      BY <1>1, <2>1 DEF Plana
    <2>3. f = [i \in 1..Len(q) |-> IF i = 1 THEN q[i] ELSE f[i - 1] \o q[i]]
      BY <2>2
    <2>4. QED
      BY <1>1, <2>3 DEF Plana
  <1> HIDE DEF f
  <1>4. \A i \in 1..n : f[i] = g[i]
    <2>1. n \in Nat /\ m \in Nat /\ n <= m /\ \A i \in 1..n : q[i] = s[i]
      BY <1>1
    <2>2. QED
      BY <1>3, <2>1, PlanaUnica
  <1>5. QED
    BY <1>1, <1>2, <1>4 DEF q

LEMMA TextoEsSeq ==
  ASSUME NEW x \in Textos
  PROVE  x \in Seq(Letras)
  <1>1. PICK k \in 0..MaxLargo : x \in [1..k -> Letras]
    BY DEF Textos
  <1>2. k \in Nat
    BY ConstantesFraming
  <1>3. QED
    BY <1>1, <1>2

LEMMA TramoEs ==
  ASSUME NEW x \in Tramos
  PROVE  /\ x.texto \in Seq(Letras) /\ x.fin \in Finales
         /\ Append(x.texto, x.fin) \in Seq(Byte)
         /\ Len(x.texto) \in Nat /\ Len(Append(x.texto, x.fin)) = Len(x.texto) + 1
         /\ \A i \in 1..Len(x.texto) :
              Append(x.texto, x.fin)[i] = x.texto[i] /\ x.texto[i] \in Letras
         /\ Append(x.texto, x.fin)[Len(x.texto) + 1] = x.fin
  <1>1. x.texto \in Seq(Letras) /\ x.fin \in Finales
    BY TextoEsSeq DEF Tramos
  <1>2. x.texto \in Seq(Byte) /\ x.fin \in Byte
    BY <1>1, SeqMonotonic DEF Byte
  <1>3. Len(x.texto) \in Nat /\ \A i \in 1..Len(x.texto) : x.texto[i] \in Letras
    BY <1>1, ElementOfSeq, LenProperties
  <1>4. QED
    BY <1>1, <1>2, <1>3, AppendProperties

(* One field more. *)
LEMMA HastaPaso ==
  ASSUME NEW c \in [1..NumTramos -> Tramos]
  PROVE  /\ Hasta(c, 0) = <<>>
         /\ \A k \in 1..NumTramos : Hasta(c, k) = Hasta(c, k - 1) \o Append(c[k].texto, c[k].fin)
  <1> DEFINE n == NumTramos
             s == [j \in 1..n |-> Append(c[j].texto, c[j].fin)]
  <1>1. n \in Nat /\ n \in Nat \ {0}
    BY ConstantesFraming
  <1>2. \A j \in 1..n : s[j] = Append(c[j].texto, c[j].fin) /\ s[j] \in Seq(Byte)
    BY TramoEs
  <1>3. ASSUME NEW k \in 0..n
        PROVE  Hasta(c, k) = FlattenSeq([j \in 1..k |-> s[j]])
    <2>1. [j \in 1..k |-> s[j]] = [j \in 1..k |-> Append(c[j].texto, c[j].fin)]
      BY <1>1, <1>2
    <2>2. QED
      BY <2>1 DEF Hasta
  <1> HIDE DEF s, n
  <1>4. PICK g : Plana(g, s, n)
    BY <1>1, PlanaExiste
  <1>5. \A i \in 1..n : g[i] = IF i = 1 THEN s[i] ELSE g[i - 1] \o s[i]
    BY <1>1, <1>4, PlanaDe
  <1>6. ASSUME NEW k \in 1..n PROVE Hasta(c, k) = g[k]
    <2>1. k \in Nat \ {0} /\ k <= n /\ k \in 0..n
      BY <1>1
    <2>2. FlattenSeq([j \in 1..k |-> s[j]]) = g[k]
      BY <1>1, <1>4, <2>1, AplanarEs
    <2>3. QED
      BY <1>3, <2>1, <2>2
  <1>7. Hasta(c, 0) = <<>>
    <2>1. 0 \in 0..n /\ 0 \in Nat
      BY <1>1
    <2>2. FlattenSeq([j \in 1..0 |-> s[j]]) = <<>>
      BY <2>1, AplanarVacia
    <2>3. QED
      BY <1>3, <2>1, <2>2
  <1>8. ASSUME NEW k \in 1..n
        PROVE  Hasta(c, k) = Hasta(c, k - 1) \o Append(c[k].texto, c[k].fin)
    <2>1. CASE k = 1
      <3>1. s[1] = Append(c[1].texto, c[1].fin) /\ s[1] \in Seq(Byte) /\ g[1] = s[1]
        BY <1>2, <1>5, <2>1
      <3>2. <<>> \o s[1] = s[1]
        BY <3>1, ConcatEmptySeq
      <3>3. k - 1 = 0
        BY <2>1
      <3>4. QED
        BY <1>6, <1>7, <2>1, <3>1, <3>2, <3>3
    <2>2. CASE k # 1
      <3>1. k - 1 \in 1..n
        BY <1>1, <2>2
      <3>2. g[k] = g[k - 1] \o s[k]
        BY <1>5, <2>2
      <3>3. QED
        BY <1>2, <1>6, <3>1, <3>2
    <2>3. QED
      BY <2>1, <2>2
  <1>9. QED
    BY <1>7, <1>8 DEF n

(* q goes on where p ends. *)
Extiende(p, q) == Len(p) <= Len(q) /\ \A x \in 1..Len(p) : q[x] = p[x]

LEMMA ExtiendeConcat ==
  ASSUME NEW S, NEW p \in Seq(S), NEW q \in Seq(S), NEW r \in Seq(S), Extiende(p, q)
  PROVE  Extiende(p, q \o r)
  <1>1. Len(p) \in Nat /\ Len(q) \in Nat /\ Len(r) \in Nat
    BY LenProperties
  <1>2. /\ Len(q \o r) = Len(q) + Len(r)
        /\ \A i \in 1..Len(q) + Len(r) : (q \o r)[i] = IF i <= Len(q) THEN q[i] ELSE r[i - Len(q)]
    BY ConcatProperties
  <1> DEFINE t == q \o r
  <1> HIDE DEF t
  <1>3. \A x \in 1..Len(p) : x \in 1..Len(q) + Len(r) /\ x <= Len(q)
    BY <1>1 DEF Extiende
  <1>4. QED
    BY <1>1, <1>2, <1>3 DEF Extiende, t

Ordenado(c, k) ==
  Hasta(c, k) \in Seq(Byte) /\ \A j \in 0..k : Extiende(Hasta(c, j), Hasta(c, k))

(* The request is made of bytes, and each field is behind the former ones. *)
LEMMA HastaOrdenado ==
  ASSUME NEW c \in [1..NumTramos -> Tramos]
  PROVE  \A k \in 0..NumTramos : Ordenado(c, k)
  <1> DEFINE Malos == {k \in 0..NumTramos : ~Ordenado(c, k)}
  <1> SUFFICES ASSUME Malos # {} PROVE FALSE
    OBVIOUS
  <1>0. NumTramos \in Nat
    BY ConstantesFraming
  <1>1. PICK k \in Malos : \A y \in Malos : k <= y
    <2>1. Malos \in SUBSET Nat
      BY <1>0
    <2> HIDE DEF Malos
    <2>2. QED
      BY <2>1, PrimeroExiste
  <1>2. k # 0
    <2>1. Hasta(c, 0) = <<>> /\ <<>> \in Seq(Byte) /\ Len(<<>>) = 0
      BY HastaPaso, EmptySeq
    <2>2. Extiende(Hasta(c, 0), Hasta(c, 0))
      BY <2>1 DEF Extiende
    <2>3. \A j \in 0..0 : j = 0
      OBVIOUS
    <2>4. Ordenado(c, 0)
      BY <2>1, <2>2, <2>3 DEF Ordenado
    <2>5. QED
      BY <2>4
  <1>3. /\ k \in 1..NumTramos /\ k - 1 \in 0..NumTramos /\ ~(k <= k - 1)
        /\ \A j \in 0..k : j = k \/ j \in 0..(k - 1)
    BY <1>0, <1>2
  <1>4. Ordenado(c, k - 1)
    BY <1>1, <1>3
  <1> DEFINE p == Hasta(c, k - 1)
             x == Append(c[k].texto, c[k].fin)
  <1>5. p \in Seq(Byte) /\ x \in Seq(Byte) /\ Hasta(c, k) = p \o x
    BY <1>3, <1>4, HastaPaso, TramoEs DEF Ordenado
  <1>6. Hasta(c, k) \in Seq(Byte)
    BY <1>5, ConcatProperties
  <1>7. ASSUME NEW j \in 0..k PROVE Extiende(Hasta(c, j), Hasta(c, k))
    <2>1. CASE j = k
      <3>1. Len(Hasta(c, k)) \in Nat
        BY <1>6, LenProperties
      <3>2. QED
        BY <2>1, <3>1 DEF Extiende
    <2>2. CASE j \in 0..(k - 1)
      <3>1. j \in 0..NumTramos /\ j \in Nat /\ ~(k <= j)
        BY <1>0, <1>3, <2>2
      <3>2. Ordenado(c, j)
        BY <1>1, <3>1
      <3>3. Hasta(c, j) \in Seq(Byte) /\ Extiende(Hasta(c, j), p)
        BY <1>4, <2>2, <3>2 DEF Ordenado
      <3> HIDE DEF p, x
      <3>4. QED
        BY <1>5, <3>3, ExtiendeConcat
    <2>3. QED
      BY <1>3, <2>1, <2>2
  <1>8. Ordenado(c, k)
    BY <1>6, <1>7 DEF Ordenado
  <1>9. QED
    BY <1>8

(* What is behind the first r letters of the i-th field, if anything is. *)
LEMMA ByteDe ==
  ASSUME NEW c \in [1..NumTramos -> Tramos], NEW i \in 1..NumTramos, NEW m \in 0..NumTramos,
         NEW r \in 0..Len(c[i].texto), Len(Hasta(c, i - 1)) + r < Len(Hasta(c, m))
  PROVE  Hasta(c, m)[Len(Hasta(c, i - 1)) + r + 1] = Append(c[i].texto, c[i].fin)[r + 1]
  <1> DEFINE p == Hasta(c, i - 1)
             x == Append(c[i].texto, c[i].fin)
             e == Hasta(c, m)
             f == Hasta(c, i)
  <1>1. /\ NumTramos \in Nat /\ i - 1 \in 0..NumTramos /\ i \in 0..NumTramos
        /\ m <= i - 1 => m \in 0..(i - 1)
        /\ i <= m => i \in 0..m
    BY ConstantesFraming
  <1>2. Ordenado(c, i - 1) /\ Ordenado(c, i) /\ Ordenado(c, m)
    BY <1>1, HastaOrdenado
  <1>3. /\ p \in Seq(Byte) /\ e \in Seq(Byte) /\ f \in Seq(Byte)
        /\ x \in Seq(Byte) /\ Len(c[i].texto) \in Nat /\ Len(x) = Len(c[i].texto) + 1
        /\ f = p \o x
    BY <1>2, HastaPaso, TramoEs DEF Ordenado
  <1>4. Len(p) \in Nat /\ Len(e) \in Nat /\ Len(f) \in Nat /\ Len(p) + r < Len(e)
    BY <1>3, LenProperties
  <1>5. m <= i - 1 => Extiende(e, p)
    BY <1>1, <1>2 DEF Ordenado
  <1>6. i <= m => Extiende(f, e)
    BY <1>1, <1>2 DEF Ordenado
  <1> HIDE DEF p, x, e, f
  <1>7. /\ Len(f) = Len(p) + Len(x)
        /\ \A j \in 1..Len(p) + Len(x) : f[j] = IF j <= Len(p) THEN p[j] ELSE x[j - Len(p)]
    BY <1>3, ConcatProperties
  <1>8. i <= m
    BY <1>1, <1>4, <1>5 DEF Extiende
  <1> DEFINE j == Len(p) + r + 1
  <1>9. j \in 1..Len(p) + Len(x) /\ ~(j <= Len(p)) /\ j - Len(p) = r + 1
    BY <1>3, <1>4
  <1>10. f[j] = x[r + 1]
    BY <1>7, <1>9
  <1>11. e[j] = f[j]
    BY <1>6, <1>7, <1>8, <1>9 DEF Extiende
  <1>12. QED
    BY <1>10, <1>11 DEF p, x, e

(* And its length. *)
LEMMA LargoHasta ==
  ASSUME NEW c \in [1..NumTramos -> Tramos], NEW i \in 1..NumTramos
  PROVE  /\ Len(Hasta(c, i - 1)) \in Nat /\ c[i].texto \in Seq(Letras) /\ Len(c[i].texto) \in Nat
         /\ Len(Hasta(c, i)) = Len(Hasta(c, i - 1)) + Len(c[i].texto) + 1
  <1>1. i - 1 \in 0..NumTramos
    BY ConstantesFraming
  <1>2. Hasta(c, i - 1) \in Seq(Byte) /\ Len(Hasta(c, i - 1)) \in Nat
    BY <1>1, HastaOrdenado, LenProperties DEF Ordenado
  <1> DEFINE x == Append(c[i].texto, c[i].fin)
  <1>3. /\ c[i].texto \in Seq(Letras) /\ Len(c[i].texto) \in Nat
        /\ x \in Seq(Byte) /\ Len(x) = Len(c[i].texto) + 1
    BY TramoEs
  <1>4. Hasta(c, i) = Hasta(c, i - 1) \o x
    BY HastaPaso
  <1> HIDE DEF x
  <1>5. Len(Hasta(c, i)) = Len(Hasta(c, i - 1)) + Len(x)
    BY <1>2, <1>3, <1>4, ConcatProperties
  <1> DEFINE h == Len(Hasta(c, i - 1))
             l == Len(c[i].texto)
             m == Len(Hasta(c, i))
  <1>6. h \in Nat /\ l \in Nat /\ Len(x) = l + 1 /\ m = h + Len(x)
    BY <1>2, <1>3, <1>5
  <1> HIDE DEF h, l, m
  <1>7. m = h + l + 1
    BY <1>6
  <1>8. QED
    BY <1>3, <1>6, <1>7 DEF h, l, m

(* A field ends within the request. *)
LEMMA FinDeCampoEsta ==
  ASSUME NEW c \in [1..NumTramos -> Tramos], c[NumTramos].fin = CERO, NEW k \in 1..NumTramos
  PROVE  FinDeCampo(c, k) \in k..NumTramos
  <1> DEFINE T == {j \in k..NumTramos : c[j].fin = CERO}
  <1>1. NumTramos \in Nat /\ k \in Nat /\ NumTramos \in k..NumTramos
    BY ConstantesFraming
  <1>2. T \in SUBSET Nat /\ T # {} /\ T \subseteq k..NumTramos
    BY <1>1
  <1> HIDE DEF T
  <1>3. \E x \in T : \A y \in T : x <= y
    BY <1>2, PrimeroExiste
  <1>4. Min(T) \in T
    BY <1>3 DEF Min
  <1>5. FinDeCampo(c, k) = Min(T)
    BY DEF FinDeCampo, T
  <1>6. QED
    BY <1>2, <1>4, <1>5

(* What q has behind p. *)
LEMMA Detras ==
  ASSUME NEW p \in Seq(Byte), NEW q \in Seq(Byte), Extiende(p, q)
  PROVE  /\ SubSeq(q, Len(p) + 1, Len(q)) \in Seq(Byte)
         /\ q = p \o SubSeq(q, Len(p) + 1, Len(q))
  <1> DEFINE n == Len(p)
             m == Len(q)
             a == SubSeq(q, 1, n)
             b == SubSeq(q, n + 1, m)
  <1>1. n \in Nat /\ m \in Nat /\ n <= m /\ \A x \in 1..n : q[x] = p[x]
    BY LenProperties DEF Extiende
  <1>2. \A i \in 1..m : q[i] \in Byte
    BY ElementOfSeq
  <1> HIDE DEF n, m
  <1>3. (\A i \in 1..n : q[i] \in Byte) /\ (\A i \in n + 1..m : q[i] \in Byte)
    BY <1>1, <1>2
  <1>4. 1 \in Int /\ n \in Int /\ n + 1 \in Int /\ m \in Int
    BY <1>1
  <1>5. /\ a \in Seq(Byte) /\ Len(a) = IF 1 <= n THEN n - 1 + 1 ELSE 0
        /\ \A i \in 1..n - 1 + 1 : a[i] = q[1 + i - 1]
    BY <1>3, <1>4, SubSeqProperties
  <1>6. b \in Seq(Byte)
    BY <1>3, <1>4, SubSeqProperties
  <1> HIDE DEF a
  <1>7. Len(a) = n /\ \A i \in 1..n : a[i] = p[i]
    BY <1>1, <1>5
  <1>8. Len(p) = n
    BY DEF n
  <1>9. a = p
    BY <1>5, <1>7, <1>8, SeqEqual
  <1>10. 1 \in 1..m + 1 /\ n \in (1 - 1)..m /\ m \in n..m
    BY <1>1
  <1>11. SubSeq(q, 1, n) \o SubSeq(q, n + 1, m) = SubSeq(q, 1, m)
    <2>1. m = Len(q)
      BY DEF m
    <2>2. 1 \in 1..Len(q) + 1 /\ n \in (1 - 1)..Len(q) /\ m \in n..Len(q)
      BY <1>10, <2>1
    <2>3. QED
      BY <2>2, ConcatAdjacentSubSeq
  <1>12. SubSeq(q, 1, m) = q
    BY SubSeqFull DEF m
  <1>13. QED
    BY <1>6, <1>9, <1>11, <1>12 DEF a, b, n, m

-----------------------------------------------------------------------------
(***************************************************************************)
(* What readLine keeps of a field.                                         *)
(***************************************************************************)
Corte(r) == IF r < N THEN r ELSE N - 1

LEMMA Trozo ==
  ASSUME NEW x \in Seq(Letras), NEW n \in 0..Len(x)
  PROVE  /\ SubSeq(x, 1, n) \in Seq(Letras) /\ Len(SubSeq(x, 1, n)) = n
         /\ \A i \in 1..n : SubSeq(x, 1, n)[i] = x[i]
  <1>1. Len(x) \in Nat /\ \A i \in 1..Len(x) : x[i] \in Letras
    BY LenProperties, ElementOfSeq
  <1>2. \A i \in 1..n : x[i] \in Letras
    BY <1>1
  <1>3. /\ SubSeq(x, 1, n) \in Seq(Letras)
        /\ Len(SubSeq(x, 1, n)) = IF 1 <= n THEN n - 1 + 1 ELSE 0
        /\ \A i \in 1..n - 1 + 1 : SubSeq(x, 1, n)[i] = x[1 + i - 1]
    <2>1. n \in Int /\ 1 \in Int
      BY <1>1
    <2>2. QED
      BY <1>2, <2>1, SubSeqProperties
  <1> DEFINE s == SubSeq(x, 1, n)
  <1> HIDE DEF s
  <1>4. /\ s \in Seq(Letras) /\ Len(s) = IF 1 <= n THEN n - 1 + 1 ELSE 0
        /\ \A i \in 1..n - 1 + 1 : s[i] = x[1 + i - 1]
    BY <1>3 DEF s
  <1>5. Len(s) = n /\ \A i \in 1..n : s[i] = x[i]
    BY <1>1, <1>4
  <1>6. QED
    BY <1>4, <1>5 DEF s

LEMMA TruncadoDe ==
  ASSUME NEW x \in Seq(Letras), NEW r \in 0..Len(x)
  PROVE  Corte(r) \in 0..Len(x) /\ Truncado(SubSeq(x, 1, r)) = SubSeq(x, 1, Corte(r))
  <1> DEFINE s == SubSeq(x, 1, r)
             n == Corte(r)
  <1>1. Len(x) \in Nat /\ r \in Nat /\ N \in Nat \ {0}
    BY LenProperties, ConstantesFraming
  <1>2. s \in Seq(Letras) /\ Len(s) = r /\ \A i \in 1..r : s[i] = x[i]
    BY Trozo
  <1> HIDE DEF s
  <1>3. n \in 0..Len(x) /\ n \in 0..r
    BY <1>1 DEF Corte
  <1>4. CASE r < N
    BY <1>2, <1>3, <1>4 DEF Truncado, Corte, s
  <1>5. CASE ~(r < N)
    <2>1. Truncado(s) = SubSeq(s, 1, n)
      BY <1>2, <1>5 DEF Truncado, Corte
    <2> HIDE DEF n
    <2>2. /\ SubSeq(s, 1, n) \in Seq(Letras) /\ Len(SubSeq(s, 1, n)) = n
          /\ \A i \in 1..n : SubSeq(s, 1, n)[i] = s[i]
      BY <1>2, <1>3, Trozo
    <2>3. /\ SubSeq(x, 1, n) \in Seq(Letras) /\ Len(SubSeq(x, 1, n)) = n
          /\ \A i \in 1..n : SubSeq(x, 1, n)[i] = x[i]
      BY <1>3, Trozo
    <2>4. \A i \in 1..n : i \in 1..r
      BY <1>1, <1>3
    <2>5. SubSeq(s, 1, n) = SubSeq(x, 1, n)
      BY <1>2, <2>2, <2>3, <2>4, SeqEqual
    <2>6. QED
      BY <1>3, <2>1, <2>5 DEF s, n
  <1>6. QED
    BY <1>4, <1>5

(* One letter more of the field: kept while there is room for it. *)
LEMMA TruncadoCrece ==
  ASSUME NEW x \in Seq(Letras), NEW r \in 0..(Len(x) - 1),
         NEW y, y = Truncado(SubSeq(x, 1, r))
  PROVE  /\ y \in Seq(Letras) /\ Len(y) \in Nat
         /\ Truncado(SubSeq(x, 1, r + 1)) = IF Len(y) < N - 1 THEN Append(y, x[r + 1]) ELSE y
  <1> DEFINE n == Corte(r)
             m == Corte(r + 1)
  <1>1. Len(x) \in Nat /\ N \in Nat \ {0}
    BY LenProperties, ConstantesFraming
  <1>2. r \in 0..Len(x) /\ r + 1 \in 0..Len(x) /\ r + 1 \in 1..Len(x)
    BY <1>1
  <1>3. n \in 0..Len(x) /\ y = SubSeq(x, 1, n)
    BY <1>2, TruncadoDe
  <1>4. m \in 0..Len(x) /\ Truncado(SubSeq(x, 1, r + 1)) = SubSeq(x, 1, m)
    BY <1>2, TruncadoDe
  <1>5. /\ n < N - 1 => n = r /\ m = n + 1
        /\ ~(n < N - 1) => m = n
    BY <1>1, <1>2 DEF Corte
  <1> HIDE DEF n, m
  <1>6. y \in Seq(Letras) /\ Len(y) = n /\ \A i \in 1..n : y[i] = x[i]
    BY <1>3, Trozo
  <1>7. n \in Nat
    BY <1>1, <1>3
  <1>8. CASE n < N - 1
    <2>1. n + 1 \in 1..Len(x) /\ m = n + 1 /\ n = r
      BY <1>2, <1>5, <1>8
    <2>2. x[n + 1] \in Letras
      BY <2>1, ElementOfSeq
    <2> DEFINE t == SubSeq(x, 1, m)
               u == Append(y, x[n + 1])
    <2>3. t \in Seq(Letras) /\ Len(t) = m /\ \A i \in 1..m : t[i] = x[i]
      BY <1>4, Trozo
    <2>4. /\ u \in Seq(Letras) /\ Len(u) = n + 1
          /\ \A i \in 1..n : u[i] = y[i]
          /\ u[n + 1] = x[n + 1]
      BY <1>6, <2>2, AppendProperties
    <2> HIDE DEF t, u
    <2>5. \A i \in 1..(n + 1) : i \in 1..n \/ i = n + 1
      BY <1>7
    <2>6. t = u
      BY <1>6, <2>1, <2>3, <2>4, <2>5, SeqEqual
    <2>7. QED
      BY <1>4, <1>6, <1>7, <1>8, <2>1, <2>6 DEF t, u
  <1>9. CASE ~(n < N - 1)
    BY <1>3, <1>4, <1>5, <1>6, <1>7, <1>9
  <1>10. QED
    BY <1>8, <1>9
-----------------------------------------------------------------------------
(***************************************************************************)
(* The bytes on their way, p, as the end of the request so far, e.         *)
(***************************************************************************)
Falta(p, e) == Len(e) - Len(p)

Sufijo(p, e) ==
  /\ Falta(p, e) \in Nat
  /\ \A j \in 1..Len(p) : p[j] = e[Falta(p, e) + j]

LEMMA SufijoCrece ==
  ASSUME NEW p \in Seq(Byte), NEW e \in Seq(Byte), NEW x \in Seq(Byte), Sufijo(p, e)
  PROVE  Sufijo(p \o x, e \o x) /\ Falta(p \o x, e \o x) = Falta(p, e)
  <1> DEFINE q == p \o x
             f == e \o x
             d == Falta(p, e)
  <1>1. Len(p) \in Nat /\ Len(e) \in Nat /\ Len(x) \in Nat
    BY LenProperties
  <1>2. /\ Len(q) = Len(p) + Len(x)
        /\ \A i \in 1..Len(p) + Len(x) : q[i] = IF i <= Len(p) THEN p[i] ELSE x[i - Len(p)]
    BY ConcatProperties
  <1>3. /\ Len(f) = Len(e) + Len(x)
        /\ \A i \in 1..Len(e) + Len(x) : f[i] = IF i <= Len(e) THEN e[i] ELSE x[i - Len(e)]
    BY ConcatProperties
  <1>4. d \in Nat /\ Len(e) = Len(p) + d /\ \A j \in 1..Len(p) : p[j] = e[d + j]
    BY <1>1 DEF Sufijo, Falta
  <1> HIDE DEF q, f, d
  <1>5. Len(f) - Len(q) = d
    BY <1>1, <1>2, <1>3, <1>4
  <1>6. ASSUME NEW j \in 1..Len(q) PROVE q[j] = f[d + j]
    <2>1. j \in 1..Len(p) + Len(x) /\ d + j \in 1..Len(e) + Len(x)
      BY <1>1, <1>2, <1>4
    <2>2. CASE j <= Len(p)
      BY <1>1, <1>2, <1>3, <1>4, <2>1, <2>2
    <2>3. CASE ~(j <= Len(p))
      <3>1. ~(d + j <= Len(e)) /\ (d + j) - Len(e) = j - Len(p)
        BY <1>1, <1>4, <2>1, <2>3
      <3>2. QED
        BY <1>2, <1>3, <2>1, <2>3, <3>1
    <2>4. QED
      BY <2>2, <2>3
  <1>7. QED
    BY <1>4, <1>5, <1>6 DEF Sufijo, Falta, q, f, d

LEMMA SufijoMengua ==
  ASSUME NEW p \in Seq(Byte), NEW e \in Seq(Byte), Sufijo(p, e), p # <<>>
  PROVE  /\ Sufijo(Tail(p), e) /\ Falta(Tail(p), e) = Falta(p, e) + 1
         /\ Falta(p, e) \in Nat /\ Falta(p, e) < Len(e)
         /\ Head(p) = e[Falta(p, e) + 1]
  <1> DEFINE q == Tail(p)
             d == Falta(p, e)
  <1>1. Len(p) \in Nat \ {0} /\ Len(e) \in Nat
    BY LenProperties, EmptySeq
  <1>2. q \in Seq(Byte) /\ Len(q) = Len(p) - 1 /\ \A i \in 1..Len(q) : q[i] = p[i + 1]
    BY HeadTailProperties
  <1>3. Head(p) = p[1]
    OBVIOUS
  <1>4. d \in Nat /\ Len(e) = Len(p) + d /\ \A j \in 1..Len(p) : p[j] = e[d + j]
    BY <1>1 DEF Sufijo, Falta
  <1> HIDE DEF q, d
  <1>5. Len(e) - Len(q) = d + 1
    BY <1>1, <1>2, <1>4
  <1>6. ASSUME NEW j \in 1..Len(q) PROVE q[j] = e[(d + 1) + j]
    <2>1. j + 1 \in 1..Len(p) /\ d + (j + 1) = (d + 1) + j
      BY <1>1, <1>2, <1>4
    <2>2. QED
      BY <1>2, <1>4, <2>1
  <1>7. d < Len(e) /\ Head(p) = e[d + 1]
    <2>1. 1 \in 1..Len(p)
      BY <1>1
    <2>2. QED
      BY <1>1, <1>3, <1>4, <2>1
  <1>8. d + 1 \in Nat
    BY <1>4
  <1>9. QED
    BY <1>4, <1>5, <1>6, <1>7, <1>8 DEF Sufijo, Falta, q, d

LEMMA SufijoEs ==
  ASSUME NEW p \in Seq(Byte), NEW e \in Seq(Byte), Sufijo(p, e)
  PROVE  IsSuffix(p, e)
  <1> DEFINE q == Reverse(p)
             f == Reverse(e)
             n == Len(p)
             d == Falta(p, e)
             a == SubSeq(q, 1, Len(q))
             b == SubSeq(f, 1, Len(q))
  <1>1. Len(p) \in Nat /\ Len(e) \in Nat
    BY LenProperties
  <1>2. d \in Nat /\ Len(e) = Len(p) + d /\ \A j \in 1..Len(p) : p[j] = e[d + j]
    BY <1>1 DEF Sufijo, Falta
  <1>3. Len(q) = Len(p) /\ \A i \in 1..Len(p) : q[i] = p[(Len(p) - i) + 1]
    BY <1>1 DEF Reverse
  <1>4. Len(f) = Len(e) /\ \A i \in 1..Len(e) : f[i] = e[(Len(e) - i) + 1]
    BY <1>1 DEF Reverse
  <1> HIDE DEF q, f, d
  <1>5. ASSUME NEW i \in 1..Len(p) PROVE q[i] = f[i] /\ q[i] \in Byte /\ f[i] \in Byte
    <2>1. /\ i \in 1..Len(e) /\ (Len(p) - i) + 1 \in 1..Len(p)
          /\ d + ((Len(p) - i) + 1) = (Len(e) - i) + 1
      BY <1>1, <1>2
    <2>2. q[i] = f[i]
      BY <1>2, <1>3, <1>4, <2>1
    <2>3. q[i] \in Byte
      BY <1>3, <2>1, ElementOfSeq
    <2>4. QED
      BY <2>2, <2>3
  <1>6. 1 \in Int /\ Len(q) \in Int /\ Len(p) <= Len(e)
    BY <1>1, <1>2, <1>3
  <1>7. \A i \in 1..Len(q) : q[i] \in Byte /\ f[i] \in Byte
    BY <1>3, <1>5
  <1>8. /\ a \in Seq(Byte) /\ Len(a) = IF 1 <= Len(q) THEN Len(q) - 1 + 1 ELSE 0
        /\ \A i \in 1..Len(q) - 1 + 1 : a[i] = q[1 + i - 1]
    BY <1>6, <1>7, SubSeqProperties
  <1>9. /\ b \in Seq(Byte) /\ Len(b) = IF 1 <= Len(q) THEN Len(q) - 1 + 1 ELSE 0
        /\ \A i \in 1..Len(q) - 1 + 1 : b[i] = f[1 + i - 1]
    BY <1>6, <1>7, SubSeqProperties
  <1> HIDE DEF a, b
  <1>10. Len(a) = n /\ Len(b) = n /\ \A i \in 1..n : a[i] = q[i] /\ b[i] = f[i]
    BY <1>1, <1>3, <1>8, <1>9
  <1>11. a = b
    BY <1>5, <1>8, <1>9, <1>10, SeqEqual
  <1>12. QED
    BY <1>3, <1>4, <1>6, <1>11 DEF IsSuffix, IsPrefix, q, f, a, b

LEMMA ColaConcat ==
  ASSUME NEW p \in Seq(Byte), NEW q \in Seq(Byte), p # <<>>
  PROVE  /\ p \o q # <<>> /\ Head(p \o q) = Head(p)
         /\ Tail(p \o q) = Tail(p) \o q
  <1> DEFINE t == p \o q
             a == Tail(p)
             b == Tail(t)
             u == a \o q
  <1>1. Len(p) \in Nat \ {0} /\ Len(q) \in Nat
    BY LenProperties, EmptySeq
  <1>2. /\ t \in Seq(Byte) /\ Len(t) = Len(p) + Len(q)
        /\ \A i \in 1..Len(p) + Len(q) : t[i] = IF i <= Len(p) THEN p[i] ELSE q[i - Len(p)]
    BY ConcatProperties
  <1> HIDE DEF t
  <1>3. t # <<>>
    BY <1>1, <1>2, EmptySeq
  <1>4. Head(t) = Head(p)
    <2>1. Head(t) = t[1] /\ Head(p) = p[1]
      OBVIOUS
    <2>2. 1 \in 1..Len(p) + Len(q) /\ 1 <= Len(p)
      BY <1>1
    <2>3. QED
      BY <1>2, <2>1, <2>2
  <1>5. a \in Seq(Byte) /\ Len(a) = Len(p) - 1 /\ \A i \in 1..Len(a) : a[i] = p[i + 1]
    BY HeadTailProperties
  <1>6. b \in Seq(Byte) /\ Len(b) = Len(t) - 1 /\ \A i \in 1..Len(b) : b[i] = t[i + 1]
    BY <1>2, <1>3, HeadTailProperties
  <1> HIDE DEF a, b
  <1>7. /\ u \in Seq(Byte) /\ Len(u) = Len(a) + Len(q)
        /\ \A i \in 1..Len(a) + Len(q) : u[i] = IF i <= Len(a) THEN a[i] ELSE q[i - Len(a)]
    BY <1>5, ConcatProperties
  <1> HIDE DEF u
  <1>8. Len(b) = Len(u)
    BY <1>1, <1>2, <1>5, <1>6, <1>7
  <1>9. ASSUME NEW i \in 1..Len(b) PROVE b[i] = u[i]
    <2>1. /\ i \in 1..Len(a) + Len(q) /\ i + 1 \in 1..Len(p) + Len(q) /\ b[i] = t[i + 1]
          /\ i <= Len(a) <=> i + 1 <= Len(p)
          /\ (i + 1) - Len(p) = i - Len(a)
          /\ i <= Len(a) => i \in 1..Len(a)
      BY <1>1, <1>2, <1>5, <1>6
    <2>2. QED
      BY <1>2, <1>5, <1>7, <2>1
  <1>10. b = u
    BY <1>6, <1>7, <1>8, <1>9, SeqEqual
  <1>11. QED
    BY <1>3, <1>4, <1>10 DEF t, a, b, u

(* What the reader has of a field is a piece of what it will get. *)
LEMMA PrefijoTruncado ==
  ASSUME NEW x \in Seq(Letras), NEW r \in 0..Len(x)
  PROVE  /\ IsPrefix(Truncado(SubSeq(x, 1, r)), Truncado(x))
         /\ Truncado(x) \in Seq(Letras) /\ Len(Truncado(x)) < N
         /\ Truncado(SubSeq(x, 1, Len(x))) = Truncado(x)
  <1> DEFINE n == Corte(r)
             m == Corte(Len(x))
             y == SubSeq(x, 1, n)
             z == SubSeq(x, 1, m)
  <1>1. Len(x) \in Nat /\ N \in Nat \ {0} /\ Len(x) \in 0..Len(x)
    BY LenProperties, ConstantesFraming
  <1>2. n \in 0..Len(x) /\ Truncado(SubSeq(x, 1, r)) = y
    BY TruncadoDe
  <1>3. m \in 0..Len(x) /\ Truncado(SubSeq(x, 1, Len(x))) = z
    BY <1>1, TruncadoDe
  <1>4. SubSeq(x, 1, Len(x)) = x
    BY SubSeqFull
  <1>5. n <= m /\ m < N
    BY <1>1 DEF Corte
  <1> HIDE DEF n, m
  <1>6. y \in Seq(Letras) /\ Len(y) = n /\ \A i \in 1..n : y[i] = x[i]
    BY <1>2, Trozo
  <1>7. z \in Seq(Letras) /\ Len(z) = m /\ \A i \in 1..m : z[i] = x[i]
    BY <1>3, Trozo
  <1> HIDE DEF y, z
  <1>8. n \in 0..Len(z) /\ n \in 0..Len(y)
    BY <1>1, <1>2, <1>3, <1>5, <1>6, <1>7
  <1> DEFINE a == SubSeq(y, 1, n)
             b == SubSeq(z, 1, n)
  <1>9. a \in Seq(Letras) /\ Len(a) = n /\ \A i \in 1..n : a[i] = y[i]
    BY <1>6, <1>8, Trozo
  <1>10. b \in Seq(Letras) /\ Len(b) = n /\ \A i \in 1..n : b[i] = z[i]
    BY <1>7, <1>8, Trozo
  <1> HIDE DEF a, b
  <1>11. \A i \in 1..n : i \in 1..m
    BY <1>1, <1>2, <1>3, <1>5
  <1>12. a = b
    BY <1>6, <1>7, <1>9, <1>10, <1>11, SeqEqual
  <1>13. IsPrefix(y, z)
    BY <1>5, <1>6, <1>7, <1>12 DEF IsPrefix, a, b
  <1>14. QED
    BY <1>2, <1>3, <1>4, <1>5, <1>7, <1>13
-----------------------------------------------------------------------------
(***************************************************************************)
(* The inductive invariant, step by step.                                  *)
(***************************************************************************)
UltimoTramo == IF TodoEscrito THEN NumTramos ELSE FinDeCampo(tramos, escritor.tramo)

(* What a state of the invariant gives to the steps. *)
LEMMA Bytes ==
  ASSUME IInv
  PROVE  /\ tramos \in [1..NumTramos -> Tramos]
         /\ escritor.tramo \in 1..(NumTramos + 1) /\ escritor.resto \in Seq(Byte)
         /\ canal \in Seq(Byte) /\ PorLeer \in Seq(Byte)
         /\ UltimoTramo \in 0..NumTramos /\ Enviado = Hasta(tramos, UltimoTramo)
         /\ Enviado \in Seq(Byte)
         /\ Sufijo(PorLeer, Enviado) /\ Leido = Falta(PorLeer, Enviado)
         /\ leidos \in Seq(Lectura) /\ Len(leidos) \in Nat /\ Len(leidos) <= NumLecturas
  <1>1. /\ tramos \in [1..NumTramos -> Tramos]
        /\ escritor.tramo \in 1..(NumTramos + 1) /\ escritor.resto \in Seq(Byte)
        /\ canal \in Seq(Byte)
    BY DEF IInv, TypeOK, Formas
  <1>2. PorLeer \in Seq(Byte)
    BY <1>1, ConcatProperties DEF PorLeer
  <1>3. UltimoTramo \in 0..NumTramos
    <2>0. NumTramos \in Nat
      BY ConstantesFraming
    <2>1. CASE TodoEscrito
      BY <2>0, <2>1 DEF UltimoTramo
    <2>2. CASE ~TodoEscrito
      <3>1. escritor.tramo \in 1..NumTramos
        BY <1>1, <2>0, <2>2 DEF TodoEscrito
      <3>2. tramos[NumTramos].fin = CERO
        BY DEF IInv, Formas
      <3>3. UltimoTramo \in escritor.tramo..NumTramos
        BY <1>1, <2>2, <3>1, <3>2, FinDeCampoEsta DEF UltimoTramo
      <3>4. QED
        BY <2>0, <3>1, <3>3
    <2>3. QED
      BY <2>1, <2>2
  <1>4. Enviado = Hasta(tramos, UltimoTramo)
    BY DEF Enviado, UltimoTramo
  <1>5. Enviado \in Seq(Byte)
    BY <1>1, <1>3, <1>4, HastaOrdenado DEF Ordenado
  <1>6. Leido = Falta(PorLeer, Enviado)
    BY DEF Leido, Falta
  <1>7. Sufijo(PorLeer, Enviado)
    BY <1>6 DEF IInv, EnOrden, Sufijo
  <1>8. leidos \in Seq(Lectura) /\ Len(leidos) <= NumLecturas
    BY DEF IInv, Formas
  <1>9. Len(leidos) \in Nat
    BY <1>8, LenProperties
  <1>10. QED
    BY <1>1, <1>2, <1>3, <1>4, <1>5, <1>6, <1>7, <1>8, <1>9

Turno == Len(leidos) + 1

Letra == Leido - Len(Hasta(tramos, Len(leidos)))

(* A step of the writer: x is what the request gets, and what is on its way. *)
LEMMA EscribirPaso ==
  ASSUME IInv, NEW x \in Seq(Byte),
         Enviado' = Enviado \o x, PorLeer' = PorLeer \o x
  PROVE  EnOrden' /\ Leido' = Leido
  <1>1. /\ PorLeer \in Seq(Byte) /\ Enviado \in Seq(Byte)
        /\ Sufijo(PorLeer, Enviado) /\ Leido = Falta(PorLeer, Enviado)
    BY Bytes
  <1>2. /\ Sufijo(PorLeer \o x, Enviado \o x)
        /\ Falta(PorLeer \o x, Enviado \o x) = Falta(PorLeer, Enviado)
    BY <1>1, SufijoCrece
  <1>3. Leido' = Falta(PorLeer \o x, Enviado \o x)
    BY DEF Leido, Falta
  <1>4. /\ Leido' \in Nat
        /\ \A j \in 1..Len(PorLeer') : PorLeer'[j] = Enviado'[Leido' + j]
    BY <1>2, <1>3 DEF Sufijo
  <1>5. EnOrden'
    BY <1>4 DEF EnOrden
  <1>6. QED
    BY <1>1, <1>2, <1>3, <1>5

(* A step that leaves the reader where it is. *)
LEMMA MismoLector ==
  ASSUME IInv, UNCHANGED <<tramos, lector, leidos>>, Leido' = Leido,
         SinMas => SinMas'
  PROVE  /\ Terminado' = Terminado /\ SinMezcla'
         /\ IF TodosEnteros' THEN EnSuTramo' ELSE SinMas'
  <1>1. Terminado' = Terminado
    BY DEF Terminado
  <1>2. SinMezcla'
    <2>1. SinMezcla
      BY DEF IInv
    <2>2. QED
      BY <2>1 DEF SinMezcla
  <1>3. TodosEnteros' = TodosEnteros
    BY DEF TodosEnteros
  <1>4. EnSuTramo => EnSuTramo'
    BY DEF EnSuTramo
  <1>5. IF TodosEnteros THEN EnSuTramo ELSE SinMas
    BY DEF IInv
  <1>6. QED
    BY <1>1, <1>2, <1>3, <1>4, <1>5

(* The last piece of the field that starts at the k-th. *)
Ultimo(c, k) == IF k > NumTramos THEN NumTramos ELSE FinDeCampo(c, k)

(* sendMessage goes to the field behind the k-th piece, or has no more to  *)
(* send.                                                                   *)
LEMMA CampoSiguiente ==
  ASSUME NEW c \in [1..NumTramos -> Tramos], c = tramos, c[NumTramos].fin = CERO,
         NEW k \in 0..NumTramos
  PROVE  /\ EnCampo(k + 1) \in [tramo : 1..(NumTramos + 1), resto : Seq(Byte)]
         /\ EnCampo(k + 1).tramo = k + 1
         /\ k + 1 > NumTramos => EnCampo(k + 1).resto = <<>>
         /\ Hasta(c, Ultimo(c, k + 1)) = Hasta(c, k) \o EnCampo(k + 1).resto
  <1>0. NumTramos \in Nat
    BY ConstantesFraming
  <1>1. Hasta(c, k) \in Seq(Byte)
    BY HastaOrdenado DEF Ordenado
  <1>2. CASE k + 1 > NumTramos
    <2>1. EnCampo(k + 1) = [tramo |-> k + 1, resto |-> <<>>] /\ k = NumTramos
      BY <1>0, <1>2 DEF EnCampo
    <2>2. <<>> \in Seq(Byte) /\ k + 1 \in 1..(NumTramos + 1)
      BY <1>0, <2>1, EmptySeq
    <2>3. Hasta(c, k) \o <<>> = Hasta(c, k)
      BY <1>1, ConcatEmptySeq
    <2>4. /\ EnCampo(k + 1) \in [tramo : 1..(NumTramos + 1), resto : Seq(Byte)]
          /\ EnCampo(k + 1).tramo = k + 1 /\ EnCampo(k + 1).resto = <<>>
      <3>1. \A v \in Seq(Byte) :
              [tramo |-> k + 1, resto |-> v] \in [tramo : 1..(NumTramos + 1), resto : Seq(Byte)]
        BY <2>2
      <3>2. [tramo |-> k + 1, resto |-> <<>>] \in [tramo : 1..(NumTramos + 1), resto : Seq(Byte)]
        BY <2>2, <3>1
      <3>3. EnCampo(k + 1) = [tramo |-> k + 1, resto |-> <<>>]
        BY <2>1
      <3>4. EnCampo(k + 1).tramo = k + 1 /\ EnCampo(k + 1).resto = <<>>
        BY <3>3
      <3>5. EnCampo(k + 1) \in [tramo : 1..(NumTramos + 1), resto : Seq(Byte)]
        BY <3>2, <3>3, Zenon
      <3>6. QED
        BY <3>4, <3>5
    <2>5. Hasta(c, Ultimo(c, k + 1)) = Hasta(c, k)
      BY <1>2, <2>1 DEF Ultimo
    <2>6. QED
      BY <2>3, <2>4, <2>5
  <1>3. CASE ~(k + 1 > NumTramos)
    <2> DEFINE f == FinDeCampo(c, k + 1)
               h == Hasta(c, f)
               p == Hasta(c, k)
               x == SubSeq(h, Len(p) + 1, Len(h))
    <2>1. k + 1 \in 1..NumTramos /\ k + 1 \in 1..(NumTramos + 1) /\ (k + 1) - 1 = k
      BY <1>0, <1>3
    <2>2. f \in (k + 1)..NumTramos
      BY <2>1, FinDeCampoEsta
    <2>3. f \in 0..NumTramos /\ k \in 0..f
      BY <1>0, <2>1, <2>2
    <2>4. h \in Seq(Byte) /\ Extiende(p, h)
      BY <2>3, HastaOrdenado DEF Ordenado
    <2>5. EnCampo(k + 1) = [tramo |-> k + 1, resto |-> x]
      BY <1>3, <2>1 DEF EnCampo
    <2> HIDE DEF h, p
    <2>6. x \in Seq(Byte) /\ h = p \o x
      BY <1>1, <2>4, Detras DEF p
    <2> HIDE DEF x
    <2>7. /\ EnCampo(k + 1) \in [tramo : 1..(NumTramos + 1), resto : Seq(Byte)]
          /\ EnCampo(k + 1).tramo = k + 1
          /\ EnCampo(k + 1).resto = x
      BY <2>1, <2>5, <2>6
    <2>8. Hasta(c, Ultimo(c, k + 1)) = h
      BY <1>3 DEF Ultimo, h
    <2>9. QED
      BY <1>3, <2>6, <2>7, <2>8 DEF p
  <1>4. QED
    BY <1>2, <1>3

LEMMA SendMessagePaso ==
  ASSUME IInv, sendMessage
  PROVE  IInv'
  <1>0. NumTramos \in Nat \ {0} /\ Capacidad \in Nat
    BY ConstantesFraming
  <1> DEFINE resto == escritor.resto
             k == FinDeCampo(tramos, escritor.tramo)
  <1>1. PICK r \in 1..Len(resto) :
          /\ conexion = "abierta"
          /\ Len(canal) + r <= Capacidad
          /\ canal' = canal \o SubSeq(resto, 1, r)
          /\ escritor' = IF r = Len(resto) THEN EnCampo(k + 1)
                         ELSE [escritor EXCEPT !.resto = SubSeq(@, r + 1, Len(@))]
    BY DEF sendMessage
  <1>2. UNCHANGED <<tramos, conexion, lector, leidos>>
    BY DEF sendMessage
  <1>3. /\ tramos \in [1..NumTramos -> Tramos]
        /\ resto \in Seq(Byte) /\ canal \in Seq(Byte) /\ tramos[NumTramos].fin = CERO
        /\ escritor \in [tramo : 1..(NumTramos + 1), resto : Seq(Byte)]
    BY Bytes DEF IInv, Formas
  <1>4. Len(resto) \in Nat /\ r \in Nat /\ Len(canal) \in Nat
    BY <1>3, LenProperties
  <1>5. resto # <<>> /\ ~TodoEscrito /\ escritor.tramo \in 1..NumTramos /\ k \in 1..NumTramos
    <2>1. resto # <<>>
      BY <1>1, <1>4, EmptySeq
    <2>2. ~TodoEscrito
      BY <2>1 DEF IInv, Formas
    <2>3. escritor.tramo \in 1..NumTramos
      BY <1>0, <1>3, <2>2 DEF TodoEscrito
    <2>4. k \in escritor.tramo..NumTramos
      BY <1>3, <2>3, FinDeCampoEsta
    <2>5. QED
      BY <1>0, <2>1, <2>2, <2>3, <2>4
  <1>6. Enviado = Hasta(tramos, k) /\ Enviado \in Seq(Byte)
    BY <1>5, Bytes DEF UltimoTramo
  <1> DEFINE a == SubSeq(resto, 1, r)
             b == SubSeq(resto, r + 1, Len(resto))
  <1> HIDE DEF resto, k
  <1>7. a \in Seq(Byte) /\ Len(a) = r /\ b \in Seq(Byte) /\ a \o b = resto
    <2>1. \A i \in 1..Len(resto) : resto[i] \in Byte
      BY <1>3, ElementOfSeq
    <2>2. \A i \in 1..r : resto[i] \in Byte
      BY <1>4, <2>1
    <2>3. \A i \in r + 1..Len(resto) : resto[i] \in Byte
      BY <1>4, <2>1
    <2>4. 1 \in Int /\ r \in Int /\ r + 1 \in Int /\ Len(resto) \in Int
      BY <1>4
    <2>5. a \in Seq(Byte) /\ Len(a) = IF 1 <= r THEN r - 1 + 1 ELSE 0
      BY <2>2, <2>4, SubSeqProperties
    <2>6. b \in Seq(Byte)
      BY <2>3, <2>4, SubSeqProperties
    <2>7. /\ 1 \in 1..Len(resto) + 1 /\ r \in (1 - 1)..Len(resto)
          /\ Len(resto) \in r..Len(resto)
      BY <1>4
    <2>8. a \o b = SubSeq(resto, 1, Len(resto))
      BY <1>3, <2>7, ConcatAdjacentSubSeq
    <2>9. SubSeq(resto, 1, Len(resto)) = resto
      BY <1>3, SubSeqFull
    <2> HIDE DEF a, b
    <2>10. Len(a) = r
      BY <1>4, <2>5
    <2>11. QED
      BY <2>5, <2>6, <2>8, <2>9, <2>10
  <1>8. canal' = canal \o a /\ Len(canal') = Len(canal) + r /\ canal' \in Seq(Byte)
    BY <1>1, <1>3, <1>7, ConcatProperties
  <1> HIDE DEF a, b
  <1>9. PICK x \in Seq(Byte) :
          /\ escritor' \in [tramo : 1..(NumTramos + 1), resto : Seq(Byte)]
          /\ escritor'.tramo > NumTramos => escritor'.resto = <<>>
          /\ canal' \o escritor'.resto = (canal \o resto) \o x
          /\ Hasta(tramos, Ultimo(tramos, escritor'.tramo)) = Hasta(tramos, k) \o x
    <2>1. CASE r = Len(resto)
      <3>1. escritor' = EnCampo(k + 1) /\ canal' = canal \o resto
        <4>1. a = resto
          BY <1>3, <2>1, SubSeqFull DEF a
        <4>2. QED
          BY <1>1, <1>8, <2>1, <4>1
      <3>2. /\ escritor' \in [tramo : 1..(NumTramos + 1), resto : Seq(Byte)]
            /\ escritor'.tramo = k + 1
            /\ k + 1 > NumTramos => escritor'.resto = <<>>
            /\ Hasta(tramos, Ultimo(tramos, k + 1)) = Hasta(tramos, k) \o escritor'.resto
        <4>1. k \in 0..NumTramos
          BY <1>0, <1>5
        <4>2. QED
          BY <1>3, <3>1, <4>1, CampoSiguiente
      <3>3. escritor'.resto \in Seq(Byte)
        BY <3>2
      <3>4. QED
        BY <3>1, <3>2, <3>3
    <2>2. CASE r # Len(resto)
      <3>1. escritor' = [escritor EXCEPT !.resto = b]
        BY <1>1, <2>2 DEF b, resto
      <3>2. /\ escritor' \in [tramo : 1..(NumTramos + 1), resto : Seq(Byte)]
            /\ escritor'.tramo = escritor.tramo /\ escritor'.resto = b
        BY <1>3, <1>7, <3>1
      <3>3. canal' \o escritor'.resto = (canal \o resto) \o <<>>
        <4>1. (canal \o a) \o b = canal \o (a \o b)
          <5>1. canal \in Seq(Byte) /\ a \in Seq(Byte) /\ b \in Seq(Byte)
            BY <1>3, <1>7
          <5>2. QED
            BY <5>1, ConcatAssociative
        <4>2. (canal \o resto) \in Seq(Byte)
          BY <1>3, ConcatProperties
        <4>3. (canal \o resto) \o <<>> = canal \o resto
          BY <4>2, ConcatEmptySeq
        <4>4. QED
          BY <1>7, <1>8, <3>2, <4>1, <4>3
      <3>4. Hasta(tramos, k) = Hasta(tramos, k) \o <<>>
        BY <1>6, ConcatEmptySeq
      <3>5. ~(escritor.tramo > NumTramos) /\ <<>> \in Seq(Byte)
        BY <1>0, <1>5, EmptySeq
      <3>6. Ultimo(tramos, escritor'.tramo) = k
        BY <3>2, <3>5 DEF Ultimo, k
      <3>7. QED
        BY <3>2, <3>3, <3>4, <3>5, <3>6
    <2>3. QED
      BY <2>1, <2>2
  <1>10. PorLeer' = PorLeer \o x
    BY <1>9 DEF PorLeer, resto
  <1>11. Enviado' = Enviado \o x
    <2>1. Enviado' = Hasta(tramos', Ultimo(tramos', escritor'.tramo))
      BY DEF Enviado, TodoEscrito, Ultimo
    <2>2. QED
      BY <1>2, <1>6, <1>9, <2>1
  <1>12. EnOrden' /\ Leido' = Leido
    BY <1>10, <1>11, EscribirPaso
  <1>13. SinMas => SinMas'
    BY <1>1, <1>2 DEF SinMas, Terminado
  <1>14. /\ Terminado' = Terminado /\ SinMezcla'
         /\ IF TodosEnteros' THEN EnSuTramo' ELSE SinMas'
    BY <1>2, <1>12, <1>13, MismoLector
  <1>15. TypeOK'
    <2>1. Range(escritor'.resto) \subseteq Byte /\ Range(canal') \subseteq Byte
      <3>1. escritor'.resto \in Seq(Byte)
        BY <1>9
      <3>2. QED
        BY <1>8, <3>1, RangeOfSeq
    <2>2. Len(canal') <= Capacidad /\ escritor'.tramo \in 1..(NumTramos + 1)
      BY <1>1, <1>8, <1>9
    <2>3. /\ conexion' = conexion /\ lector' = lector /\ leidos' = leidos /\ tramos' = tramos
          /\ TypeOK
      BY <1>2 DEF IInv
    <2>4. QED
      BY <2>1, <2>2, <2>3 DEF TypeOK
  <1>16. Formas'
    <2>1. TodoEscrito' => escritor'.resto = <<>>
      BY <1>9 DEF TodoEscrito
    <2>2. Terminado' => lector' = <<>>
      BY <1>2, <1>14 DEF IInv, Formas
    <2>3. leidos' \in Seq(Lectura) /\ Len(leidos') <= NumLecturas
      BY <1>2 DEF IInv, Formas
    <2>4. tramos'[NumTramos].fin = CERO
      BY <1>2, <1>3
    <2>5. QED
      BY <1>8, <1>9, <2>1, <2>2, <2>3, <2>4 DEF Formas
  <1>17. QED
    BY <1>12, <1>14, <1>15, <1>16 DEF IInv

LEMMA CerrarPaso ==
  ASSUME IInv, cerrar
  PROVE  IInv'
  <1>1. /\ conexion = "abierta" /\ conexion' \in {"cerrada", "rota"}
        /\ UNCHANGED <<tramos, escritor, canal, lector, leidos>>
    BY DEF cerrar, emisor
  <1>2. Enviado' = Enviado /\ PorLeer' = PorLeer
    BY <1>1 DEF Enviado, TodoEscrito, PorLeer
  <1>3. Leido' = Leido
    BY <1>2 DEF Leido
  <1>4. EnOrden'
    BY <1>2, <1>3 DEF IInv, EnOrden
  <1>5. SinMas => SinMas'
    BY <1>1 DEF SinMas, Terminado
  <1>6. /\ Terminado' = Terminado /\ SinMezcla'
        /\ IF TodosEnteros' THEN EnSuTramo' ELSE SinMas'
    BY <1>1, <1>3, <1>5, MismoLector
  <1>7. TypeOK'
    BY <1>1 DEF IInv, TypeOK
  <1>8. Formas'
    BY <1>1, <1>6 DEF IInv, Formas, TodoEscrito
  <1>9. QED
    BY <1>4, <1>6, <1>7, <1>8 DEF IInv

(* There is room for what the readLine at work will return. *)
LEMMA TurnoCabe ==
  ASSUME IInv, Leyendo
  PROVE  Turno \in 1..NumTramos /\ Turno <= NumLecturas
  <1>1. Len(leidos) \in Nat /\ Len(leidos) <= NumLecturas /\ NumLecturas \in 1..NumTramos
    BY Bytes, ConstantesFraming
  <1>2. Len(leidos) # NumLecturas /\ NumTramos \in Nat
    BY ConstantesFraming DEF Leyendo, Terminado
  <1>3. QED
    BY <1>1, <1>2 DEF Turno

(* While a readLine is at work and there are bytes, it is at its field. *)
LEMMA EnSuSitio ==
  ASSUME IInv, Leyendo, TodosEnteros
  PROVE  /\ Turno \in 1..NumTramos /\ Turno - 1 = Len(leidos)
         /\ tramos[Turno].texto \in Seq(Letras) /\ Len(tramos[Turno].texto) \in Nat
         /\ Letra \in 0..Len(tramos[Turno].texto)
         /\ lector = Truncado(SubSeq(tramos[Turno].texto, 1, Letra))
  <1>1. Len(leidos) \in Nat /\ NumTramos \in Nat /\ Turno \in 1..NumTramos
    BY Bytes, ConstantesFraming, TurnoCabe
  <1>2. Turno = Len(leidos) + 1
    BY DEF Turno
  <1>3. Turno \in 1..NumTramos /\ Turno - 1 = Len(leidos) /\ ~(Turno > NumTramos)
    BY <1>1, <1>2
  <1>4. tramos[Turno].texto \in Seq(Letras) /\ Len(tramos[Turno].texto) \in Nat
    BY <1>3, Bytes, LargoHasta
  <1>5. EnSuTramo
    BY DEF IInv
  <1>6. /\ Letra \in 0..Len(tramos[Turno].texto)
        /\ lector = Truncado(SubSeq(tramos[Turno].texto, 1, Letra))
    BY <1>3, <1>5 DEF EnSuTramo, Letra, Turno
  <1>7. QED
    BY <1>3, <1>4, <1>6

(* The byte that read returns is the one behind those already read. *)
LEMMA LeerPaso ==
  ASSUME IInv, NEW b, Leer(b), UNCHANGED emisor
  PROVE  /\ TodosEnteros
         /\ b = Append(tramos[Turno].texto, tramos[Turno].fin)[Letra + 1]
         /\ Enviado' = Enviado /\ EnOrden' /\ Leido' = Leido + 1
         /\ canal' \in Seq(Byte) /\ Len(canal') <= Capacidad
  <1>1. /\ Leyendo /\ canal # <<>> /\ b = Head(canal) /\ canal' = Tail(canal)
        /\ tramos' = tramos /\ escritor' = escritor
    BY DEF Leer, emisor
  <1>2. TodosEnteros
    BY <1>1 DEF IInv, SinMas, Leyendo
  <1>3. /\ tramos \in [1..NumTramos -> Tramos]
        /\ escritor.resto \in Seq(Byte) /\ canal \in Seq(Byte)
        /\ PorLeer \in Seq(Byte) /\ Enviado \in Seq(Byte)
        /\ UltimoTramo \in 0..NumTramos /\ Enviado = Hasta(tramos, UltimoTramo)
        /\ Sufijo(PorLeer, Enviado) /\ Leido = Falta(PorLeer, Enviado)
    BY Bytes
  <1>4. PorLeer # <<>> /\ Head(PorLeer) = b /\ PorLeer' = Tail(PorLeer)
    BY <1>1, <1>3, ColaConcat DEF PorLeer
  <1>5. Enviado' = Enviado
    BY <1>1 DEF Enviado, TodoEscrito
  <1>6. /\ Sufijo(Tail(PorLeer), Enviado)
        /\ Falta(Tail(PorLeer), Enviado) = Leido + 1
        /\ Leido \in Nat /\ Leido < Len(Enviado) /\ b = Enviado[Leido + 1]
    BY <1>3, <1>4, SufijoMengua
  <1>7. Leido' = Leido + 1
    BY <1>4, <1>5, <1>6 DEF Leido, Falta
  <1>8. EnOrden'
    <2>1. /\ Leido' \in Nat
          /\ \A j \in 1..Len(PorLeer') : PorLeer'[j] = Enviado'[Leido' + j]
      BY <1>4, <1>5, <1>6, <1>7 DEF Sufijo
    <2>2. QED
      BY <2>1 DEF EnOrden
  <1>9. b = Append(tramos[Turno].texto, tramos[Turno].fin)[Letra + 1]
    <2>1. /\ Turno \in 1..NumTramos /\ Turno - 1 = Len(leidos)
          /\ Letra \in 0..Len(tramos[Turno].texto) /\ Len(tramos[Turno].texto) \in Nat
      BY <1>1, <1>2, EnSuSitio
    <2>2. Len(Hasta(tramos, Turno - 1)) \in Nat
      BY <1>3, <2>1, LargoHasta
    <2>3. Leido = Len(Hasta(tramos, Turno - 1)) + Letra
      BY <1>6, <2>1, <2>2 DEF Letra
    <2>4. Len(Hasta(tramos, Turno - 1)) + Letra < Len(Hasta(tramos, UltimoTramo))
      BY <1>3, <1>6, <2>3
    <2>5. Hasta(tramos, UltimoTramo)[Len(Hasta(tramos, Turno - 1)) + Letra + 1]
            = Append(tramos[Turno].texto, tramos[Turno].fin)[Letra + 1]
      BY <1>3, <2>1, <2>4, ByteDe
    <2>6. QED
      BY <1>3, <1>6, <2>3, <2>5
  <1>10. canal' \in Seq(Byte) /\ Len(canal') <= Capacidad
    <2>1. Len(canal) <= Capacidad /\ Capacidad \in Nat /\ Len(canal) \in Nat
      BY <1>3, ConstantesFraming, LenProperties DEF IInv, TypeOK
    <2>2. canal' \in Seq(Byte) /\ Len(canal') = Len(canal) - 1
      BY <1>1, <1>3, HeadTailProperties
    <2>3. QED
      BY <2>1, <2>2
  <1>11. QED
    BY <1>2, <1>5, <1>7, <1>8, <1>9, <1>10

(* A letter: there was one more in the piece. *)
LEMMA LetraPaso ==
  ASSUME IInv, NEW ch \in Letras, readLine_letra(ch)
  PROVE  IInv'
  <1>1. /\ Leer(ch) /\ UNCHANGED emisor /\ UNCHANGED <<tramos, escritor, conexion, leidos>>
        /\ lector' = IF Len(lector) < N - 1 THEN Append(lector, ch) ELSE lector
    BY DEF readLine_letra, emisor
  <1>2. /\ TodosEnteros /\ ch = Append(tramos[Turno].texto, tramos[Turno].fin)[Letra + 1]
        /\ EnOrden' /\ Leido' = Leido + 1
        /\ canal' \in Seq(Byte) /\ Len(canal') <= Capacidad
    BY <1>1, LeerPaso
  <1>3. Leyendo
    BY <1>1 DEF Leer
  <1>4. /\ Turno \in 1..NumTramos /\ Turno - 1 = Len(leidos)
        /\ tramos[Turno].texto \in Seq(Letras) /\ Len(tramos[Turno].texto) \in Nat
        /\ Letra \in 0..Len(tramos[Turno].texto)
        /\ lector = Truncado(SubSeq(tramos[Turno].texto, 1, Letra))
    BY <1>2, <1>3, EnSuSitio
  <1> DEFINE x == tramos[Turno].texto
             f == tramos[Turno].fin
             r == Letra
  <1>5. /\ \A i \in 1..Len(x) : Append(x, f)[i] = x[i]
        /\ Append(x, f)[Len(x) + 1] = f /\ f \in Finales
    <2>1. tramos[Turno] \in Tramos
      BY <1>4, Bytes
    <2>2. QED
      BY <2>1, TramoEs
  <1>6. r < Len(x) /\ ch = x[r + 1]
    <2>1. r # Len(x)
      BY <1>2, <1>5, ConstantesFraming DEF Finales
    <2>2. r < Len(x) /\ r + 1 \in 1..Len(x)
      BY <1>4, <2>1
    <2>3. QED
      BY <1>2, <1>5, <2>2
  <1>7. r \in 0..(Len(x) - 1) /\ r + 1 \in 0..Len(x) /\ r \in Nat
    BY <1>4, <1>6
  <1>8. /\ lector \in Seq(Letras) /\ Len(lector) \in Nat
        /\ Truncado(SubSeq(x, 1, r + 1))
             = IF Len(lector) < N - 1 THEN Append(lector, x[r + 1]) ELSE lector
    BY <1>4, <1>7, TruncadoCrece
  <1>9. lector' = Truncado(SubSeq(x, 1, r + 1))
    BY <1>1, <1>6, <1>8
  <1>10. lector' \in Seq(Letras) /\ Len(lector') < N
    <2>1. lector \in Seq(Letras) /\ Len(lector) < N /\ N \in Nat
      BY ConstantesFraming DEF IInv, TypeOK
    <2>2. Append(lector, ch) \in Seq(Letras) /\ Len(Append(lector, ch)) = Len(lector) + 1
      BY <2>1, AppendProperties
    <2>3. QED
      BY <1>1, <1>8, <2>1, <2>2
  <1>11. TodosEnteros' /\ ~Terminado'
    BY <1>1, <1>2, <1>3 DEF TodosEnteros, Leyendo, Terminado
  <1>12. EnSuTramo'
    <2>1. Leido' - Len(Hasta(tramos, Len(leidos))) = r + 1
      <3>1. Len(Hasta(tramos, Turno - 1)) \in Nat
        BY <1>4, Bytes, LargoHasta
      <3>2. Leido \in Nat
        BY DEF IInv, EnOrden
      <3>3. QED
        BY <1>2, <1>4, <3>1, <3>2 DEF Letra
    <2>2. tramos' = tramos /\ leidos' = leidos /\ ~(Len(leidos) + 1 > NumTramos)
      BY <1>1, <1>4, ConstantesFraming DEF Turno
    <2>3. x = tramos[Len(leidos) + 1].texto
      BY DEF Turno
    <2> HIDE DEF x, r, f
    <2>4. QED
      BY <1>7, <1>9, <2>1, <2>2, <2>3 DEF EnSuTramo
  <1>13. TypeOK'
    <2>1. Range(canal') \subseteq Byte
      BY <1>2, RangeOfSeq
    <2>2. QED
      BY <1>1, <1>2, <1>10, <2>1 DEF IInv, TypeOK
  <1>14. Formas'
    BY <1>1, <1>2, <1>11 DEF IInv, Formas, TodoEscrito
  <1>15. SinMezcla'
    BY <1>1 DEF IInv, SinMezcla
  <1>16. QED
    BY <1>2, <1>11, <1>12, <1>13, <1>14, <1>15 DEF IInv

(* What a readLine may return as it ends. *)
Devuelve(ret, texto, fin) ==
  /\ ret \in -1..(N - 1) /\ texto \in Seq(Letras) \cup {Basura} /\ fin \in {"terminador", "eof", "error"}
  /\ fin = "terminador" => texto = Truncado(tramos[Turno].texto)
  /\ fin # "terminador" => texto = Basura \/ IsPrefix(texto, Truncado(tramos[Turno].texto))

LEMMA DevolverPaso ==
  ASSUME IInv, Leyendo, NEW ret, NEW texto, NEW fin,
         Devolver(ret, texto, fin), Devuelve(ret, texto, fin)
  PROVE  /\ leidos' \in Seq(Lectura) /\ Len(leidos') = Turno /\ Turno \in 1..NumTramos
         /\ SinMezcla' /\ lector' = <<>>
         /\ \A i \in DOMAIN leidos' : leidos'[i].ret \in -1..(N - 1)
         /\ TodosEnteros' <=> (TodosEnteros /\ fin = "terminador")
         /\ ret = -1 => Terminado'
  <1> DEFINE l == [ret |-> ret, texto |-> texto, fin |-> fin]
             n == Len(leidos)
  <1>1. leidos' = Append(leidos, l) /\ lector' = <<>> /\ tramos' = tramos
    BY DEF Devolver, emisor
  <1>2. leidos \in Seq(Lectura) /\ n \in Nat
    BY Bytes
  <1>3. n + 1 \in 1..NumTramos /\ Turno = n + 1
    <2>1. Turno = n + 1
      BY DEF Turno
    <2>2. QED
      BY <2>1, TurnoCabe
  <1>4. l \in Lectura /\ l.ret = ret /\ l.texto = texto /\ l.fin = fin
    BY DEF Devuelve, Lectura
  <1> HIDE DEF l
  <1>5. /\ leidos' \in Seq(Lectura) /\ Len(leidos') = n + 1
        /\ \A i \in 1..n : leidos'[i] = leidos[i]
        /\ leidos'[n + 1] = l
    BY <1>1, <1>2, <1>4, AppendProperties
  <1> HIDE DEF n
  <1>6. DOMAIN leidos' = 1..(n + 1) /\ DOMAIN leidos = 1..n
    <2>1. DOMAIN leidos' = 1..Len(leidos')
      BY <1>5, LenProperties
    <2>2. DOMAIN leidos = 1..Len(leidos)
      BY <1>2, LenProperties
    <2>3. QED
      BY <1>5, <2>1, <2>2 DEF n
  <1>7. \A i \in 1..(n + 1) : i \in 1..n \/ i = n + 1
    BY <1>2
  <1>8. 1..n \subseteq 1..(n + 1) /\ n + 1 \in 1..(n + 1)
    BY <1>2
  <1>9. SinMezcla'
    <2> DEFINE Bien(i, s) ==
          /\ s.fin = "terminador" => s.texto = Truncado(tramos[i].texto)
          /\ s.fin # "terminador" => s.texto = Basura \/ IsPrefix(s.texto, Truncado(tramos[i].texto))
    <2>1. \A i \in 1..n : Bien(i, leidos[i])
      BY <1>6 DEF IInv, SinMezcla
    <2>2. Bien(n + 1, l)
      BY <1>3, <1>4 DEF Devuelve
    <2>3. \A i \in 1..(n + 1) : Bien(i, leidos'[i])
      <3> HIDE DEF Bien
      <3>1. QED
        BY <1>5, <1>7, <2>1, <2>2
    <2>4. QED
      BY <1>1, <1>6, <2>3 DEF SinMezcla
  <1>10. \A i \in DOMAIN leidos' : leidos'[i].ret \in -1..(N - 1)
    <2>1. \A i \in 1..n : leidos[i].ret \in -1..(N - 1)
      BY <1>6 DEF IInv, TypeOK
    <2>2. l.ret \in -1..(N - 1)
      BY <1>4 DEF Devuelve
    <2>3. QED
      BY <1>5, <1>6, <1>7, <2>1, <2>2
  <1>11. TodosEnteros' <=> (TodosEnteros /\ fin = "terminador")
    BY <1>4, <1>5, <1>6, <1>7, <1>8 DEF TodosEnteros
  <1>12. ret = -1 => Terminado'
    BY <1>4, <1>5, <1>6, <1>8 DEF Terminado
  <1>13. QED
    BY <1>1, <1>3, <1>5, <1>9, <1>10, <1>11, <1>12

(* A zero byte or a line feed: the piece was whole, and the next readLine  *)
(* starts at the next one, also when part of this one was dropped.         *)
LEMMA FinPaso ==
  ASSUME IInv, NEW b \in Finales, readLine_fin(b)
  PROVE  IInv'
  <1>1. /\ Leer(b) /\ Devolver(Len(lector), lector, "terminador")
        /\ UNCHANGED emisor /\ UNCHANGED <<tramos, escritor, conexion>>
    BY DEF readLine_fin, Devolver, emisor
  <1>2. /\ TodosEnteros /\ b = Append(tramos[Turno].texto, tramos[Turno].fin)[Letra + 1]
        /\ EnOrden' /\ Leido' = Leido + 1
        /\ canal' \in Seq(Byte) /\ Len(canal') <= Capacidad
    BY <1>1, LeerPaso
  <1>3. Leyendo
    BY <1>1 DEF Leer
  <1>4. /\ Turno \in 1..NumTramos /\ Turno - 1 = Len(leidos)
        /\ tramos[Turno].texto \in Seq(Letras) /\ Len(tramos[Turno].texto) \in Nat
        /\ Letra \in 0..Len(tramos[Turno].texto)
        /\ lector = Truncado(SubSeq(tramos[Turno].texto, 1, Letra))
    BY <1>2, <1>3, EnSuSitio
  <1> DEFINE x == tramos[Turno].texto
             r == Letra
             f == tramos[Turno].fin
  <1>5. \A i \in 1..Len(x) : Append(x, f)[i] = x[i] /\ x[i] \in Letras
    <2>1. tramos[Turno] \in Tramos
      BY <1>4, Bytes
    <2>2. QED
      BY <2>1, TramoEs
  <1>6. r = Len(x)
    <2>1. ~(r + 1 \in 1..Len(x))
      BY <1>2, <1>5, ConstantesFraming DEF Finales
    <2>2. QED
      BY <1>4, <2>1
  <1>7. lector = Truncado(x)
    BY <1>4, <1>6, PrefijoTruncado
  <1>8. lector \in Seq(Letras) /\ Len(lector) \in 0..(N - 1)
    <2>1. lector \in Seq(Letras) /\ Len(lector) < N /\ N \in Nat
      BY ConstantesFraming DEF IInv, TypeOK
    <2>2. QED
      BY <2>1, LenProperties
  <1>9. Devuelve(Len(lector), lector, "terminador")
    BY <1>7, <1>8 DEF Devuelve
  <1>10. /\ leidos' \in Seq(Lectura) /\ Len(leidos') = Turno
         /\ SinMezcla' /\ lector' = <<>>
         /\ \A i \in DOMAIN leidos' : leidos'[i].ret \in -1..(N - 1)
         /\ TodosEnteros' <=> (TodosEnteros /\ "terminador" = "terminador")
    BY <1>1, <1>3, <1>9, DevolverPaso
  <1>11. Leido' - Len(Hasta(tramos, Turno)) = 0
    <2>1. tramos \in [1..NumTramos -> Tramos]
      BY Bytes
    <2>2. /\ Len(Hasta(tramos, Turno - 1)) \in Nat
          /\ Len(Hasta(tramos, Turno)) = Len(Hasta(tramos, Turno - 1)) + Len(tramos[Turno].texto) + 1
      BY <1>4, <2>1, LargoHasta
    <2>3. Leido \in Nat
      BY DEF IInv, EnOrden
    <2>4. r = Leido - Len(Hasta(tramos, Turno - 1))
      BY <1>4 DEF Letra
    <2>5. QED
      BY <1>2, <1>4, <1>6, <2>2, <2>3, <2>4
  <1>12. EnSuTramo'
    <2>1. ~(Turno + 1 > NumTramos) =>
            /\ 0 \in 0..Len(tramos[Turno + 1].texto)
            /\ <<>> = Truncado(SubSeq(tramos[Turno + 1].texto, 1, 0))
      <3>1. SUFFICES ASSUME ~(Turno + 1 > NumTramos)
                     PROVE  /\ 0 \in 0..Len(tramos[Turno + 1].texto)
                            /\ <<>> = Truncado(SubSeq(tramos[Turno + 1].texto, 1, 0))
        OBVIOUS
      <3>2. Turno + 1 \in 1..NumTramos
        BY <1>4, <3>1, ConstantesFraming
      <3>3. Len(tramos[Turno + 1].texto) \in Nat
        BY <3>2, Bytes, LargoHasta
      <3>4. SubSeq(tramos[Turno + 1].texto, 1, 0) = <<>>
        BY SubSeqEmpty
      <3>5. Len(<<>>) = 0 /\ N \in Nat \ {0}
        BY EmptySeq, ConstantesFraming
      <3>6. Truncado(<<>>) = <<>>
        BY <3>5 DEF Truncado
      <3>7. Truncado(SubSeq(tramos[Turno + 1].texto, 1, 0)) = <<>>
        BY <3>4, <3>6, Zenon
      <3>8. 0 \in 0..Len(tramos[Turno + 1].texto)
        BY <3>3
      <3>9. QED
        BY <3>7, <3>8
    <2>2. QED
      BY <1>1, <1>10, <1>11, <2>1 DEF EnSuTramo
  <1>13. TypeOK'
    <2>1. Range(canal') \subseteq Byte
      BY <1>2, RangeOfSeq
    <2>2. lector' \in Seq(Letras) /\ Len(lector') < N
      BY <1>10, EmptySeq, ConstantesFraming
    <2>3. QED
      BY <1>1, <1>2, <1>10, <2>1, <2>2 DEF IInv, TypeOK
  <1>14. Formas'
    <2>1. Len(leidos') <= NumLecturas
      BY <1>1, <1>3, <1>10, TurnoCabe
    <2>2. QED
      BY <1>1, <1>2, <1>10, <2>1 DEF IInv, Formas, TodoEscrito
  <1>15. QED
    BY <1>2, <1>10, <1>12, <1>13, <1>14 DEF IInv

(* A readLine that ends without a terminator: nothing is read after it.   *)
LEMMA SinFinPaso ==
  ASSUME IInv, Leyendo, NEW ret, NEW texto, NEW fin \in {"eof", "error"},
         Devolver(ret, texto, fin), Devuelve(ret, texto, fin), canal' = canal,
         (canal = <<>> /\ conexion = "cerrada") \/ ret = -1
  PROVE  IInv'
  <1>1. UNCHANGED <<tramos, escritor, conexion, canal>>
    BY DEF Devolver, emisor
  <1>2. /\ leidos' \in Seq(Lectura) /\ Len(leidos') = Turno /\ Turno \in 1..NumTramos
        /\ SinMezcla' /\ lector' = <<>>
        /\ \A i \in DOMAIN leidos' : leidos'[i].ret \in -1..(N - 1)
        /\ TodosEnteros' <=> (TodosEnteros /\ fin = "terminador")
        /\ ret = -1 => Terminado'
    BY DevolverPaso
  <1>3. ~TodosEnteros'
    BY <1>2
  <1>4. SinMas'
    BY <1>1, <1>2 DEF SinMas
  <1>5. Enviado' = Enviado /\ PorLeer' = PorLeer
    BY <1>1 DEF Enviado, TodoEscrito, PorLeer
  <1>6. EnOrden'
    <2>1. Leido' = Leido
      BY <1>5 DEF Leido
    <2>2. QED
      BY <1>5, <2>1 DEF IInv, EnOrden
  <1>7. TypeOK'
    <2>1. lector' \in Seq(Letras) /\ Len(lector') < N
      BY <1>2, EmptySeq, ConstantesFraming
    <2>2. QED
      BY <1>1, <1>2, <2>1 DEF IInv, TypeOK
  <1>8. Formas'
    <2>1. Len(leidos') <= NumLecturas
      BY <1>2, TurnoCabe
    <2>2. QED
      BY <1>1, <1>2, <2>1 DEF IInv, Formas, TodoEscrito
  <1>9. QED
    BY <1>2, <1>3, <1>4, <1>6, <1>7, <1>8 DEF IInv

LEMMA EofPaso ==
  ASSUME IInv, readLine_eof
  PROVE  IInv'
  <1> DEFINE texto == IF lector = <<>> THEN Basura ELSE lector
  <1>1. /\ Leyendo /\ canal = <<>> /\ conexion = "cerrada" /\ canal' = canal
        /\ Devolver(Len(lector), texto, "eof")
    BY DEF readLine_eof
  <1>2. lector \in Seq(Letras) /\ Len(lector) \in -1..(N - 1)
    <2>1. lector \in Seq(Letras) /\ Len(lector) < N /\ N \in Nat
      BY ConstantesFraming DEF IInv, TypeOK
    <2>2. QED
      BY <2>1, LenProperties
  <1>3. texto = Basura \/ IsPrefix(texto, Truncado(tramos[Turno].texto))
    <2>1. CASE TodosEnteros
      <3>1. /\ tramos[Turno].texto \in Seq(Letras) /\ Letra \in 0..Len(tramos[Turno].texto)
            /\ lector = Truncado(SubSeq(tramos[Turno].texto, 1, Letra))
        BY <1>1, <2>1, EnSuSitio
      <3>2. IsPrefix(lector, Truncado(tramos[Turno].texto))
        BY <3>1, PrefijoTruncado
      <3>3. QED
        BY <3>2
    <2>2. CASE ~TodosEnteros
      <3>1. lector = <<>>
        BY <2>2 DEF IInv, SinMas
      <3>2. QED
        BY <3>1
    <2>3. QED
      BY <2>1, <2>2
  <1>4. Devuelve(Len(lector), texto, "eof")
    BY <1>2, <1>3 DEF Devuelve
  <1> HIDE DEF texto
  <1>5. QED
    BY <1>1, <1>4, SinFinPaso

LEMMA ErrorPaso ==
  ASSUME IInv, readLine_error
  PROVE  IInv'
  <1>1. Leyendo /\ canal' = canal /\ Devolver(-1, Basura, "error")
    BY DEF readLine_error
  <1>2. Devuelve(-1, Basura, "error")
    BY ConstantesFraming DEF Devuelve
  <1>3. QED
    BY <1>1, <1>2, SinFinPaso

LEMMA QuietoPaso ==
  ASSUME IInv, UNCHANGED vars
  PROVE  IInv'
  <1>1. UNCHANGED <<tramos, escritor, conexion, canal, lector, leidos>>
    BY DEF vars
  <1>2. Enviado' = Enviado /\ PorLeer' = PorLeer
    BY <1>1 DEF Enviado, TodoEscrito, PorLeer
  <1>3. Leido' = Leido
    BY <1>2 DEF Leido
  <1>4. EnOrden'
    BY <1>2, <1>3 DEF IInv, EnOrden
  <1>5. SinMas => SinMas'
    BY <1>1 DEF SinMas, Terminado
  <1>6. /\ Terminado' = Terminado /\ SinMezcla'
        /\ IF TodosEnteros' THEN EnSuTramo' ELSE SinMas'
    BY <1>1, <1>3, <1>5, MismoLector
  <1>7. TypeOK' /\ Formas'
    BY <1>1, <1>6 DEF IInv, TypeOK, Formas, TodoEscrito
  <1>8. QED
    BY <1>4, <1>6, <1>7 DEF IInv

LEMMA PasoIInv ==
  ASSUME IInv, [Next]_vars
  PROVE  IInv'
  <1>1. CASE sendMessage
    BY <1>1, SendMessagePaso
  <1>2. CASE cerrar
    BY <1>2, CerrarPaso
  <1>3. CASE readLine
    <2>1. CASE \E ch \in Letras : readLine_letra(ch)
      BY <2>1, LetraPaso
    <2>2. CASE \E b \in Finales : readLine_fin(b)
      BY <2>2, FinPaso
    <2>3. CASE readLine_eof
      BY <2>3, EofPaso
    <2>4. CASE readLine_error
      BY <2>4, ErrorPaso
    <2>5. QED
      BY <1>3, <2>1, <2>2, <2>3, <2>4 DEF readLine
  <1>4. CASE Fin
    BY <1>4, QuietoPaso DEF Fin
  <1>5. CASE UNCHANGED vars
    BY <1>5, QuietoPaso
  <1>6. QED
    BY <1>1, <1>2, <1>3, <1>4, <1>5 DEF Next

LEMMA InicioIInv ==
  ASSUME Init
  PROVE  IInv
  <1>0. /\ NumTramos \in Nat \ {0} /\ N \in Nat \ {0} /\ Capacidad \in Nat \ {0}
        /\ 1 \in 1..NumTramos /\ 1 \in 1..(NumTramos + 1) /\ 0 \in 0..NumTramos /\ 0 + 1 = 1
        /\ ~(1 > NumTramos)
    BY ConstantesFraming
  <1>1. /\ tramos \in [1..NumTramos -> Tramos] /\ tramos[NumTramos].fin = CERO
        /\ escritor = EnCampo(1)
        /\ conexion = "abierta" /\ canal = <<>> /\ lector = <<>> /\ leidos = <<>>
    BY DEF Init
  <1> DEFINE x == EnCampo(1).resto
  <1>2. /\ EnCampo(1) \in [tramo : 1..(NumTramos + 1), resto : Seq(Byte)]
        /\ EnCampo(1).tramo = 1 /\ x \in Seq(Byte)
        /\ Hasta(tramos, Ultimo(tramos, 1)) = Hasta(tramos, 0) \o x
    <2>1. /\ EnCampo(0 + 1) \in [tramo : 1..(NumTramos + 1), resto : Seq(Byte)]
          /\ EnCampo(0 + 1).tramo = 0 + 1
          /\ Hasta(tramos, Ultimo(tramos, 0 + 1)) = Hasta(tramos, 0) \o EnCampo(0 + 1).resto
      BY <1>0, <1>1, CampoSiguiente
    <2>2. QED
      BY <1>0, <2>1
  <1>3. Hasta(tramos, 0) = <<>> /\ Len(Hasta(tramos, 0)) = 0
    <2>1. Hasta(tramos, 0) = <<>>
      BY <1>1, HastaPaso
    <2>2. QED
      BY <2>1, EmptySeq, Zenon
  <1> HIDE DEF x
  <1>4. escritor.tramo = 1 /\ escritor.resto = x
    BY <1>1, <1>2 DEF x
  <1>5. ~TodoEscrito
    BY <1>0, <1>4 DEF TodoEscrito
  <1>6. Enviado = x /\ PorLeer = x
    <2>1. <<>> \o x = x
      BY <1>2, ConcatEmptySeq
    <2>2. Hasta(tramos, Ultimo(tramos, 1)) = x
      BY <1>2, <1>3, <2>1, Zenon
    <2>3. Enviado = x
      BY <1>0, <1>4, <1>5, <2>2 DEF Enviado, Ultimo
    <2>4. QED
      BY <1>1, <1>4, <2>1, <2>3 DEF PorLeer
  <1>7. Len(x) \in Nat
    BY <1>2, LenProperties
  <1>8. Leido = 0
    BY <1>6, <1>7 DEF Leido
  <1>9. EnOrden
    <2>1. \A j \in 1..Len(x) : 0 + j = j
      BY <1>7
    <2>2. QED
      BY <1>6, <1>8, <2>1 DEF EnOrden
  <1>10. Len(<<>>) = 0 /\ DOMAIN leidos = {} /\ Len(leidos) = 0 /\ Len(canal) = 0 /\ Len(lector) = 0
    BY <1>1, EmptySeq
  <1>11. ~Terminado
    BY <1>10, ConstantesFraming DEF Terminado
  <1>12. TodosEnteros /\ SinMezcla
    BY <1>10 DEF TodosEnteros, SinMezcla
  <1>13. canal \in Seq(Byte) /\ leidos \in Seq(Lectura) /\ lector \in Seq(Letras)
    BY <1>1, EmptySeq
  <1>14. EnSuTramo
    <2>1. Len(tramos[1].texto) \in Nat
      BY <1>0, <1>1, LargoHasta
    <2>2. SubSeq(tramos[1].texto, 1, 0) = <<>>
      BY SubSeqEmpty
    <2>3. Truncado(<<>>) = <<>>
      BY <1>0, <1>10 DEF Truncado
    <2>4. Truncado(SubSeq(tramos[1].texto, 1, 0)) = lector
      BY <1>1, <2>2, <2>3, Zenon
    <2>5. Leido - Len(Hasta(tramos, Len(leidos))) = 0 /\ Len(leidos) + 1 = 1
      BY <1>3, <1>8, <1>10
    <2>6. 0 \in 0..Len(tramos[1].texto)
      BY <2>1
    <2>7. QED
      BY <1>0, <2>4, <2>5, <2>6 DEF EnSuTramo
  <1>15. TypeOK
    <2>1. Range(escritor.resto) \subseteq Byte /\ Range(canal) \subseteq Byte
      BY <1>2, <1>4, <1>13, RangeOfSeq
    <2>2. QED
      BY <1>0, <1>1, <1>4, <1>10, <1>13, <2>1 DEF TypeOK
  <1>16. Formas
    <2>1. escritor \in [tramo : 1..(NumTramos + 1), resto : Seq(Byte)]
      BY <1>1, <1>2
    <2>2. Len(leidos) <= NumLecturas
      BY <1>10, ConstantesFraming
    <2>3. QED
      BY <1>1, <1>5, <1>13, <2>1, <2>2 DEF Formas
  <1>17. QED
    BY <1>9, <1>12, <1>14, <1>15, <1>16 DEF IInv

(* The inductive invariant of mensajes.c: where in the request its reader  *)
(* is (mensajes.c:6-61).                                                 *)
THEOREM Invariante == Spec => []IInv
  <1>1. Init => IInv
    BY InicioIInv
  <1>2. IInv /\ [Next]_vars => IInv'
    BY PasoIInv
  <1>3. QED
    BY <1>1, <1>2, PTL DEF Spec

(* The socket never holds more than its buffer, and readLine never stores  *)
(* more than n - 1 letters, whatever the client sends.                     *)
THEOREM TipoCorrecto == Spec => []TypeOK
  <1>1. IInv => TypeOK
    BY DEF IInv
  <1>2. QED
    BY <1>1, Invariante, PTL

(* The i-th call of readLine gives the i-th piece of the request, between  *)
(* one zero byte or line feed and the next (mensajes.c:34-42): a piece     *)
(* longer than the buffer, or cut by a closed connection, never spills     *)
(* into the next.                                                          *)
THEOREM CamposSinMezclar == Spec => []SinMezcla
  <1>1. IInv => SinMezcla
    BY DEF IInv
  <1>2. QED
    BY <1>1, Invariante, PTL

(* The loop of sendMessage: however write splits the fields, nothing is    *)
(* lost, repeated or out of order.                                         *)
THEOREM BytesSiempreEnOrden == Spec => []BytesEnOrden
  <1>1. IInv => BytesEnOrden
    BY Bytes, SufijoEs DEF BytesEnOrden
  <1>2. QED
    BY <1>1, Invariante, PTL
============================================================================
