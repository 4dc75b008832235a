---------------------------- MODULE MessageStore ----------------------------
(***************************************************************************)
(* What the central server promises about messages, with the threads, the  *)
(* mutex, the user list and the network left out.  A message is accepted   *)
(* when the server answers 0 to a SEND; from then on the server keeps it   *)
(* until it can point to a delivery, or until the receiver's account is    *)
(* removed.                                                                *)
(*                                                                         *)
(* Messages are identified by their place in "aceptados".  The code only   *)
(* ever compares what it stores in mensaje_pendiente_t: the receiver's     *)
(* queue, the id, the sender and the attachment.  Two messages that agree  *)
(* on those are interchangeable to it, and so they are here.               *)
(***************************************************************************)
EXTENDS Integers, Sequences, SequenceTheorems, TLAPS

CONSTANTS
  Nombres,      (* user names *)
  Adjuntos,     (* what a message carries: a file name, or none *)
  MaxId         (* largest message id, UINT_MAX in the code *)

VARIABLES
  aceptados,    (* every message accepted so far, in order *)
  retenidos,    (* the accepted messages the server still holds *)
  entregados,   (* the messages written in full to some client *)
  cancelados    (* those whose receiver's account was removed since *)

vars == <<aceptados, retenidos, entregados, cancelados>>

Clave(m) == <<m.destino, m.remitente, m.id, m.adjunto>>

Dirigidos(u) == {i \in DOMAIN aceptados : aceptados[i].destino = u}

(* Message i is accounted for: it, or one the server cannot tell from it,  *)
(* was delivered, or the account it was for is gone.                       *)
Saldado(i) ==
  \/ i \in cancelados
  \/ \E j \in entregados : Clave(aceptados[j]) = Clave(aceptados[i])
-----------------------------------------------------------------------------
Init ==
  /\ aceptados = <<>>
  /\ retenidos = {}
  /\ entregados = {}
  /\ cancelados = {}

Aceptar(rem, dest, id, adj) ==
  LET i == Len(aceptados) + 1
      m == [id |-> id, remitente |-> rem, destino |-> dest,
            adjunto |-> adj, texto |-> i]
  IN  /\ aceptados' = Append(aceptados, m)
      /\ retenidos' = retenidos \cup {i}
      /\ UNCHANGED <<entregados, cancelados>>

(* A message may be written to a client more than once, and even after the *)
(* server has let go of it.                                                *)
Entregar(i) ==
  /\ entregados' = entregados \cup {i}
  /\ UNCHANGED <<aceptados, retenidos, cancelados>>

Soltar(S) ==
  /\ \A i \in S : Saldado(i)
  /\ retenidos' = retenidos \ S
  /\ UNCHANGED <<aceptados, entregados, cancelados>>

(* The account u is removed.  Its stored messages go with it, those that   *)
(* are being delivered at this moment may survive a while.                 *)
DarDeBaja(u) ==
  /\ cancelados' = cancelados \cup Dirigidos(u)
  /\ \E S \in SUBSET (retenidos \cap Dirigidos(u)) : retenidos' = retenidos \ S
  /\ UNCHANGED <<aceptados, entregados>>

Next ==
  \/ \E rem, dest \in Nombres, id \in 1..MaxId, adj \in Adjuntos :
       Aceptar(rem, dest, id, adj)
  \/ \E i \in DOMAIN aceptados : Entregar(i)
  \/ \E S \in SUBSET retenidos : Soltar(S)
  \/ \E u \in Nombres : DarDeBaja(u)

Spec == Init /\ [][Next]_vars
-----------------------------------------------------------------------------
(* No accepted message disappears: it is still held or it is accounted for. *)
NadaSePierde ==
  \A i \in DOMAIN aceptados : i \in retenidos \/ Saldado(i)
-----------------------------------------------------------------------------
(***************************************************************************)
(* The store keeps its promise, for any set of users and messages.         *)
(***************************************************************************)
Mensaje == [id : 1..MaxId, remitente : Nombres, destino : Nombres,
            adjunto : Adjuntos, texto : Nat \ {0}]

(* Type correctness: the three sets are sets of places of "aceptados". *)
TypeOK ==
  /\ aceptados \in Seq(Mensaje)
  /\ retenidos \subseteq DOMAIN aceptados
  /\ entregados \subseteq DOMAIN aceptados
  /\ cancelados \subseteq DOMAIN aceptados

(* A message keeps its place when another is accepted. *)
LEMMA AceptarConserva ==
  ASSUME TypeOK, NEW rem \in Nombres, NEW dest \in Nombres,
         NEW id \in 1..MaxId, NEW adj \in Adjuntos,
         Aceptar(rem, dest, id, adj)
  PROVE  /\ aceptados' \in Seq(Mensaje)
         /\ DOMAIN aceptados' = DOMAIN aceptados \cup {Len(aceptados) + 1}
         /\ \A i \in DOMAIN aceptados : aceptados'[i] = aceptados[i]
  <1> DEFINE i == Len(aceptados) + 1
             m == [id |-> id, remitente |-> rem, destino |-> dest,
                   adjunto |-> adj, texto |-> i]
  <1>1. Len(aceptados) \in Nat /\ DOMAIN aceptados = 1..Len(aceptados)
    BY LenProperties DEF TypeOK
  <1>2. m \in Mensaje
    BY <1>1 DEF Mensaje
  <1>3. aceptados' = Append(aceptados, m)
    BY DEF Aceptar
  <1>. HIDE DEF m
  <1>4. /\ aceptados' \in Seq(Mensaje)
        /\ Len(aceptados') = Len(aceptados) + 1
        /\ \A j \in 1..Len(aceptados) : aceptados'[j] = aceptados[j]
    BY <1>2, <1>3, AppendProperties DEF TypeOK
  <1>5. DOMAIN aceptados' = 1..Len(aceptados')
    BY <1>4, LenProperties
  <1>6. QED
    BY <1>1, <1>4, <1>5

(* Type correctness of the abstract store, by induction on its steps. *)
THEOREM Tipos == Spec => []TypeOK
  <1>1. Init => TypeOK
    BY EmptySeq DEF Init, TypeOK
  <1>2. TypeOK /\ [Next]_vars => TypeOK'
    <2> SUFFICES ASSUME TypeOK, [Next]_vars PROVE TypeOK'
      OBVIOUS
    <2>1. ASSUME NEW rem \in Nombres, NEW dest \in Nombres, NEW id \in 1..MaxId,
                 NEW adj \in Adjuntos, Aceptar(rem, dest, id, adj)
          PROVE  TypeOK'
      BY <2>1, AceptarConserva DEF TypeOK, Aceptar
    <2>2. ASSUME NEW i \in DOMAIN aceptados, Entregar(i) PROVE TypeOK'
      BY <2>2 DEF TypeOK, Entregar
    <2>3. ASSUME NEW S \in SUBSET retenidos, Soltar(S) PROVE TypeOK'
      BY <2>3 DEF TypeOK, Soltar
    <2>4. ASSUME NEW u \in Nombres, DarDeBaja(u) PROVE TypeOK'
      BY <2>4 DEF TypeOK, DarDeBaja, Dirigidos
    <2>5. CASE UNCHANGED vars
      BY <2>5 DEF TypeOK, vars
    <2>6. QED
      BY <2>1, <2>2, <2>3, <2>4, <2>5 DEF Next
  <1>3. QED
    BY <1>1, <1>2, PTL DEF Spec

(* Whatever is settled stays settled. *)
LEMMA SaldadoEstable ==
  ASSUME TypeOK, TypeOK', [Next]_vars, NEW i \in DOMAIN aceptados, Saldado(i)
  PROVE  Saldado(i)'
  <1>1. /\ entregados \subseteq entregados'
        /\ cancelados \subseteq cancelados'
    BY DEF Next, vars, Aceptar, Entregar, Soltar, DarDeBaja
  <1>2. \A j \in DOMAIN aceptados : aceptados'[j] = aceptados[j]
    BY AceptarConserva DEF Next, vars, Entregar, Soltar, DarDeBaja
  <1>3. QED
    BY <1>1, <1>2 DEF Saldado, Clave, TypeOK

(* No accepted message disappears unaccounted for. *)
THEOREM Conservacion == Spec => []NadaSePierde
  <1>1. Init => NadaSePierde
    BY DEF Init, NadaSePierde
  <1>2. TypeOK /\ TypeOK' /\ NadaSePierde /\ [Next]_vars => NadaSePierde'
    <2> SUFFICES ASSUME TypeOK, TypeOK', NadaSePierde, [Next]_vars,
                        NEW i \in DOMAIN aceptados'
                 PROVE  i \in retenidos' \/ Saldado(i)'
      BY DEF NadaSePierde
    <2>1. ASSUME NEW rem \in Nombres, NEW dest \in Nombres, NEW id \in 1..MaxId,
                 NEW adj \in Adjuntos, Aceptar(rem, dest, id, adj)
          PROVE  i \in retenidos' \/ Saldado(i)'
      <3>1. CASE i = Len(aceptados) + 1
        BY <2>1, <3>1 DEF Aceptar
      <3>2. CASE i \in DOMAIN aceptados
        BY <2>1, <3>2, SaldadoEstable DEF Aceptar, NadaSePierde
      <3>3. QED
        BY <2>1, <3>1, <3>2, AceptarConserva
    <2>2. ASSUME NEW j \in DOMAIN aceptados, Entregar(j)
          PROVE  i \in retenidos' \/ Saldado(i)'
      BY <2>2, SaldadoEstable DEF Entregar, NadaSePierde
    <2>3. ASSUME NEW S \in SUBSET retenidos, Soltar(S)
          PROVE  i \in retenidos' \/ Saldado(i)'
      BY <2>3, SaldadoEstable DEF Soltar, NadaSePierde
    <2>4. ASSUME NEW u \in Nombres, DarDeBaja(u)
          PROVE  i \in retenidos' \/ Saldado(i)'
      <3>1. i \in DOMAIN aceptados /\ aceptados' = aceptados
        BY <2>4 DEF DarDeBaja
      <3>2. CASE aceptados[i].destino = u
        BY <2>4, <3>1, <3>2 DEF DarDeBaja, Dirigidos, Saldado
      <3>3. CASE aceptados[i].destino # u
        BY <2>4, <3>1, <3>3, SaldadoEstable DEF DarDeBaja, Dirigidos, NadaSePierde
      <3>4. QED
        BY <3>2, <3>3
    <2>5. CASE UNCHANGED vars
      BY <2>5 DEF vars, NadaSePierde, Saldado, Clave
    <2>6. QED
      BY <2>1, <2>2, <2>3, <2>4, <2>5 DEF Next
  <1>3. QED
    BY <1>1, <1>2, Tipos, PTL DEF Spec
=============================================================================
