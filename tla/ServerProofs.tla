---------------------------- MODULE ServerProofs ----------------------------
(***************************************************************************)
(* Theorems about the central server, for any number of users, threads,    *)
(* addresses, requests and ids: the inductive invariant, and what the      *)
(* handler threads may rely on.  The mutex of the list of users protects   *)
(* what it should; each node of a queue has one owner; and no message is   *)
(* stranded in the queue of a connected user.                              *)
(***************************************************************************)
EXTENDS ServerProperties, SequenceTheorems, FiniteSetTheorems,
        WellFoundedInduction, TLAPS

(***************************************************************************)
(* The queue without a message.                                            *)
(***************************************************************************)
(* A set of natural numbers has a minimum, and Min returns it. *)
LEMMA MinimoExiste ==
  ASSUME NEW T \in SUBSET Nat, T # {}
  PROVE  Min(T) \in T /\ \A y \in T : Min(T) <= y
  <1> DEFINE R == OpToRel(<, Nat)
  <1>1. \E x \in T : \A y \in T : ~(<<y, x>> \in R)
    BY NatLessThanWellFounded, WFMin
  <1>2. \A x, y \in Nat : x < y => <<x, y>> \in R
    BY DEF OpToRel
  <1>. HIDE DEF R
  <1>3. PICK x \in T : \A y \in T : ~(<<y, x>> \in R)
    BY <1>1
  <1>4. ASSUME NEW y \in T PROVE x <= y
    <2>1. x \in Nat /\ y \in Nat /\ ~(y < x)
      BY <1>2, <1>3
    <2>2. QED
      BY <2>1
  <1>5. QED
    BY <1>4 DEF Min

(* SinMensaje takes one node that matches off the queue, and leaves the    *)
(* rest in place, or there is none (operaciones.c, eliminar_mensaje_cola). *)
LEMMA SinMensajeForma ==
  ASSUME NEW S, NEW cola \in Seq(S), NEW m
  PROVE  LET r == SinMensaje(cola, m) IN
         \/ r = cola /\ \A i \in DOMAIN cola : Clave(cola[i]) # Clave(m)
         \/ \E p \in DOMAIN cola :
              /\ Clave(cola[p]) = Clave(m)
              /\ r \in Seq(S)
              /\ DOMAIN r = 1..(Len(cola) - 1)
              /\ \A k \in 1..(Len(cola) - 1) :
                   r[k] = IF k <= p - 1 THEN cola[k] ELSE cola[k + 1]
  <1> DEFINE I == {i \in 1..Len(cola) : Clave(cola[i]) = Clave(m)}
             p == Min(I)
             r == SinMensaje(cola, m)
             izq == SubSeq(cola, 1, p - 1)
             der == SubSeq(cola, p + 1, Len(cola))
  <1>0. Len(cola) \in Nat /\ DOMAIN cola = 1..Len(cola)
    BY LenProperties
  <1>1. CASE I = {}
    <2>1. r = cola
      BY <1>1 DEF SinMensaje, RemoveFirstMatch
    <2>2. \A i \in DOMAIN cola : Clave(cola[i]) # Clave(m)
      BY <1>0, <1>1
    <2>3. QED
      BY <2>1, <2>2
  <1>2. CASE I # {}
    <2>1. p \in 1..Len(cola) /\ Clave(cola[p]) = Clave(m)
      <3>1. I \in SUBSET Nat
        BY <1>0
      <3>2. p \in I
        BY <1>2, <3>1, MinimoExiste
      <3>3. QED
        BY <3>2
    <2>2. r = izq \o der
      BY <1>2 DEF SinMensaje, RemoveFirstMatch, RemoveAt, SelectInSeq
    <2> HIDE DEF p, r
    <2>3. /\ izq \in Seq(S) /\ Len(izq) = p - 1
          /\ \A k \in 1..(p - 1) : izq[k] = cola[k]
      <3>1. \A k \in 1..(p - 1) : cola[k] \in S
        BY <1>0, <2>1, ElementOfSeq
      <3>2. QED
        BY <1>0, <2>1, <3>1, SubSeqProperties
    <2>4. /\ der \in Seq(S) /\ Len(der) = Len(cola) - p
          /\ \A k \in 1..(Len(cola) - p) : der[k] = cola[p + k]
      <3>1. \A k \in (p + 1)..Len(cola) : cola[k] \in S
        BY <1>0, <2>1, ElementOfSeq
      <3>2. p + 1 \in Int /\ Len(cola) \in Int
        BY <1>0, <2>1
      <3>3. /\ der \in Seq(S)
            /\ Len(der) = IF p + 1 <= Len(cola) THEN Len(cola) - (p + 1) + 1 ELSE 0
            /\ \A k \in 1..(Len(cola) - (p + 1) + 1) : der[k] = cola[p + 1 + k - 1]
        BY <3>1, <3>2, SubSeqProperties
      <3>. HIDE DEF der
      <3>4. Len(der) = Len(cola) - p
        <4>1. \A n \in Nat : \A q \in 1..n :
                (IF q + 1 <= n THEN n - (q + 1) + 1 ELSE 0) = n - q
          OBVIOUS
        <4>2. QED
          BY <1>0, <2>1, <3>3, <4>1
      <3>5. ASSUME NEW k \in 1..(Len(cola) - p) PROVE der[k] = cola[p + k]
        <4>1. k \in 1..(Len(cola) - (p + 1) + 1) /\ p + 1 + k - 1 = p + k
          BY <1>0, <2>1
        <4>2. QED
          BY <3>3, <4>1
      <3>6. QED
        BY <3>3, <3>4, <3>5
    <2> HIDE DEF izq, der
    <2>5. /\ r \in Seq(S) /\ Len(r) = Len(cola) - 1
          /\ \A k \in 1..(Len(cola) - 1) :
               r[k] = IF k <= p - 1 THEN izq[k] ELSE der[k - (p - 1)]
      <3>1. /\ izq \o der \in Seq(S)
            /\ Len(izq \o der) = Len(izq) + Len(der)
            /\ \A k \in 1..(Len(izq) + Len(der)) :
                 (izq \o der)[k] = IF k <= Len(izq) THEN izq[k] ELSE der[k - Len(izq)]
        BY <2>3, <2>4, ConcatProperties
      <3>2. Len(izq) = p - 1 /\ Len(izq) + Len(der) = Len(cola) - 1
        BY <1>0, <2>1, <2>3, <2>4
      <3>3. QED
        BY <2>2, <3>1, <3>2
    <2>6. \A k \in 1..(Len(cola) - 1) :
            r[k] = IF k <= p - 1 THEN cola[k] ELSE cola[k + 1]
      <3>1. SUFFICES ASSUME NEW k \in 1..(Len(cola) - 1)
                     PROVE  r[k] = IF k <= p - 1 THEN cola[k] ELSE cola[k + 1]
        OBVIOUS
      <3>2. p \in Int /\ Len(cola) \in Int /\ k \in Int
        BY <1>0, <2>1
      <3>3. CASE k <= p - 1
        <4>1. k \in 1..(p - 1)
          BY <3>2, <3>3
        <4>2. QED
          BY <2>3, <2>5, <3>3, <4>1
      <3>4. CASE ~(k <= p - 1)
        <4>1. k - (p - 1) \in 1..(Len(cola) - p) /\ p + (k - (p - 1)) = k + 1
          BY <3>2, <3>4
        <4>2. QED
          BY <2>4, <2>5, <3>4, <4>1
      <3>5. QED
        BY <3>3, <3>4
    <2>7. DOMAIN r = 1..(Len(cola) - 1)
      BY <2>5, LenProperties
    <2>8. QED
      BY <1>0, <2>1, <2>5, <2>6, <2>7 DEF r
  <1>3. QED
    BY <1>1, <1>2

LEMMA SinMensajePropiedades ==
  ASSUME NEW S, NEW cola \in Seq(S), NEW m
  PROVE  LET r == SinMensaje(cola, m) IN
         /\ r \in Seq(S)
         /\ \A k \in DOMAIN r : \E i \in DOMAIN cola : r[k] = cola[i]
         /\ \A i \in DOMAIN cola :
              Clave(cola[i]) = Clave(m) \/ \E k \in DOMAIN r : r[k] = cola[i]
  <1> DEFINE r == SinMensaje(cola, m)
  <1>0. Len(cola) \in Nat /\ DOMAIN cola = 1..Len(cola)
    BY LenProperties
  <1>1. CASE r = cola /\ \A i \in DOMAIN cola : Clave(cola[i]) # Clave(m)
    BY <1>1
  <1>2. ASSUME NEW p \in DOMAIN cola, Clave(cola[p]) = Clave(m), r \in Seq(S),
               DOMAIN r = 1..(Len(cola) - 1),
               \A k \in 1..(Len(cola) - 1) :
                 r[k] = IF k <= p - 1 THEN cola[k] ELSE cola[k + 1]
        PROVE  /\ r \in Seq(S)
               /\ \A k \in DOMAIN r : \E i \in DOMAIN cola : r[k] = cola[i]
               /\ \A i \in DOMAIN cola :
                    Clave(cola[i]) = Clave(m) \/ \E k \in DOMAIN r : r[k] = cola[i]
    <2> HIDE DEF r
    <2>1. \A i \in DOMAIN cola :
            Clave(cola[i]) = Clave(m) \/ \E k \in DOMAIN r : r[k] = cola[i]
      <3>1. SUFFICES ASSUME NEW i \in DOMAIN cola, i # p
                     PROVE  \E k \in DOMAIN r : r[k] = cola[i]
        BY <1>2
      <3>2. CASE i < p
        <4>1. i \in DOMAIN r /\ r[i] = cola[i]
          BY <1>0, <1>2, <3>2
        <4>2. QED
          BY <4>1
      <3>3. CASE i > p
        <4>1. i - 1 \in DOMAIN r /\ r[i - 1] = cola[i]
          BY <1>0, <1>2, <3>3
        <4>2. QED
          BY <4>1
      <3>4. QED
        BY <1>0, <3>1, <3>2, <3>3
    <2>2. \A k \in DOMAIN r : \E i \in DOMAIN cola : r[k] = cola[i]
      BY <1>0, <1>2
    <2>3. QED
      BY <1>2, <2>1, <2>2
  <1> HIDE DEF r
  <1>3. QED
    BY <1>1, <1>2, SinMensajeForma DEF r
-----------------------------------------------------------------------------
(***************************************************************************)
(* Facts about requests, ids and single threads.                           *)
(***************************************************************************)
LEMMA PeticionTipo ==
  \A p \in Peticion :
    /\ p.usuario \in Nombres
    /\ p.op \in Operaciones
    /\ p.op = "CONNECT" => p.dir \in Dirs
    /\ p.op = "SEND" => p.destino \in Nombres /\ p.adjunto \in Adjuntos
  BY DEF Peticion, Operaciones

(* The id of a message is never 0, and never more than MaxId, also when    *)
(* the counter wraps (operaciones.c:683-686).                              *)
LEMMA SiguienteIdTipo ==
  \A n \in 0..MaxId : SiguienteId(n) \in 1..MaxId
  BY ConstantesServer DEF SiguienteId

(* The history variables only grow. *)
HistoriaCrece ==
  /\ entregados \subseteq entregados'
  /\ \A i \in DOMAIN aceptados : i \in DOMAIN aceptados' /\ aceptados'[i] = aceptados[i]

(* A step of one thread does not disturb what is known of the others. *)
LEMMA OtrosHilos ==
  ASSUME TypeOK, HilosFieles, NEW t \in Hilos, HistoriaCrece, HiloFiel(hilo[t])',
         \A s \in Hilos \ {t} : hilo'[s] = hilo[s]
  PROVE  HilosFieles'
  <1> SUFFICES ASSUME NEW s \in Hilos, s # t PROVE HiloFiel(hilo[s])'
    BY DEF HilosFieles
  <1>1. hilo'[s] = hilo[s] /\ HiloFiel(hilo[s])
    BY DEF HilosFieles
  <1>2. ListaFiel(hilo[s])'
    BY <1>1 DEF HiloFiel, ListaFiel, Anotado, HistoriaCrece
  <1>3. Coherente(hilo[s])'
    BY <1>1 DEF HiloFiel, Coherente
  <1>4. EntregadoAntes(hilo[s])'
    BY <1>1 DEF HiloFiel, EntregadoAntes, HistoriaCrece
  <1>5. QED
    BY <1>2, <1>3, <1>4 DEF HiloFiel

(* A step that only moves one thread. *)
LEMMA SoloHilo ==
  ASSUME IInv, NEW t \in Hilos, hilo' \in [Hilos -> Hilo], HiloFiel(hilo[t])',
         \A s \in Hilos \ {t} : hilo'[s] = hilo[s],
         mutex' \in Hilos \cup {Nadie}, atendidas' \in 0..MaxPeticiones,
         UNCHANGED <<user, historia>>
  PROVE  IInv'
  <1>1. HistoriaCrece
    BY DEF HistoriaCrece, historia
  <1>2. HilosFieles'
    BY <1>1, OtrosHilos DEF IInv
  <1>3. TypeOK'
    BY DEF IInv, TypeOK, historia, Conectados, EstaConectado
  <1>4. ColasFieles' /\ DestinoVivo'
    BY DEF IInv, ColasFieles, DestinoVivo, Anotado, historia
  <1>5. QED
    BY <1>2, <1>3, <1>4 DEF IInv

(* A thread that has finished knows nothing. *)
LEMMA LibreFiel ==
  HiloLibre \in Hilo /\ HiloFiel(HiloLibre)
  <1>1. HiloLibre \in Hilo
    BY DEF HiloLibre, Hilo, Puntos
  <1>2. HiloFiel(HiloLibre)
    BY DEF HiloLibre, HiloFiel, ListaFiel, Coherente, EntregadoAntes,
           Operaciones, PuntosEnvio, PuntosConnect
  <1>3. QED
    BY <1>1, <1>2

LEMMA HiloDe ==
  ASSUME IInv, NEW t \in Hilos
  PROVE  /\ hilo \in [Hilos -> Hilo] /\ hilo[t] \in Hilo
         /\ ListaFiel(hilo[t]) /\ Coherente(hilo[t]) /\ EntregadoAntes(hilo[t])
  BY DEF IInv, TypeOK, HilosFieles, HiloFiel

LEMMA HiloLibreFiel ==
  ASSUME NEW t \in Hilos, hilo'[t] = HiloLibre
  PROVE  HiloFiel(hilo[t])'
  BY DEF HiloLibre, HiloFiel, ListaFiel, Coherente, EntregadoAntes,
         Operaciones, PuntosEnvio, PuntosConnect

(* Ending a request. *)
LEMMA TerminarTipos ==
  ASSUME IInv, NEW t \in Hilos, Terminar(t)
  PROVE  /\ hilo' \in [Hilos -> Hilo]
         /\ hilo'[t] = HiloLibre
         /\ HiloFiel(hilo[t])'
         /\ \A s \in Hilos \ {t} : hilo'[s] = hilo[s]
  <1>1. /\ hilo' \in [Hilos -> Hilo]
        /\ hilo'[t] = HiloLibre
        /\ \A s \in Hilos \ {t} : hilo'[s] = hilo[s]
    BY HiloDe, LibreFiel DEF Terminar
  <1>2. QED
    BY <1>1, HiloLibreFiel

(* Answering a request that carries no message. *)
LEMMA ContestarTipos ==
  ASSUME IInv, NEW t \in Hilos, hilo[t].pc \in Operaciones, NEW r \in Nat,
         Contestar(t, r)
  PROVE  /\ hilo' \in [Hilos -> Hilo]
         /\ HiloFiel(hilo[t])'
         /\ \A s \in Hilos \ {t} : hilo'[s] = hilo[s]
  <1>1. /\ hilo' \in [Hilos -> Hilo]
        /\ hilo'[t] = [hilo[t] EXCEPT !.pc = "responder", !.res = r]
        /\ \A s \in Hilos \ {t} : hilo'[s] = hilo[s]
    BY HiloDe DEF Contestar, Hilo, Puntos, PuntosConnect
  <1>2. hilo[t].lista = <<>> /\ hilo[t].pet \in Peticion
    BY HiloDe DEF Coherente, Operaciones, PuntosEnvio, PuntosConnect
  <1>3. hilo'[t].pc = "responder" /\ hilo'[t].lista = <<>> /\ hilo'[t].pet \in Peticion
    BY <1>1, <1>2, HiloDe DEF Hilo
  <1>4. HiloFiel(hilo[t])'
    BY <1>3 DEF HiloFiel, ListaFiel, Coherente, EntregadoAntes,
                Operaciones, PuntosEnvio, PuntosConnect
  <1>5. QED
    BY <1>1, <1>4

(* Going on with the same message and the same request. *)
LEMMA IrATipos ==
  ASSUME IInv, NEW t \in Hilos, NEW punto, IrA(t, punto), hilo[t].lista # <<>>,
         \/ hilo[t].pc \in PuntosEnvio /\ punto \in PuntosEnvio
         \/ hilo[t].pc \in PuntosConnect /\ punto \in PuntosConnect \ {"responder"},
         \/ punto \in {"entregar", "reencolar", "desconectar"}
         \/ Head(hilo[t].lista).texto \in entregados',
         HistoriaCrece
  PROVE  /\ hilo' \in [Hilos -> Hilo]
         /\ HiloFiel(hilo[t])'
         /\ \A s \in Hilos \ {t} : hilo'[s] = hilo[s]
  <1>1. /\ hilo' \in [Hilos -> Hilo]
        /\ hilo'[t] = [hilo[t] EXCEPT !.pc = punto]
        /\ \A s \in Hilos \ {t} : hilo'[s] = hilo[s]
    BY HiloDe DEF IrA, Hilo, Puntos
  <1>2. /\ hilo'[t].pc = punto
        /\ hilo'[t].lista = hilo[t].lista
        /\ hilo'[t].pet = hilo[t].pet
    BY <1>1, HiloDe DEF Hilo
  <1>3. ListaFiel(hilo[t])'
    BY <1>2, HiloDe DEF ListaFiel, Anotado, HistoriaCrece, PuntosEnvio, PuntosConnect
  <1>4. Coherente(hilo[t])'
    BY <1>2, HiloDe DEF Coherente, Operaciones, PuntosEnvio, PuntosConnect
  <1>5. EntregadoAntes(hilo[t])'
    BY <1>2 DEF EntregadoAntes
  <1>6. QED
    BY <1>1, <1>3, <1>4, <1>5 DEF HiloFiel
-----------------------------------------------------------------------------
(***************************************************************************)
(* Each action preserves the invariant: the ones that leave the list of    *)
(* users alone.                                                            *)
(***************************************************************************)
LEMMA procesar_peticion_Conserva ==
  ASSUME IInv, NEW t \in Hilos, NEW p \in Peticiones, procesar_peticion(t, p)
  PROVE  IInv'
  <1>1. p \in Peticion /\ p.op \in Operaciones
    BY ConstantesServer, PeticionTipo
  <1>2. hilo[t].lista = <<>>
    BY HiloDe DEF procesar_peticion, En, Coherente, Operaciones, PuntosEnvio, PuntosConnect
  <1>3. /\ hilo' \in [Hilos -> Hilo]
        /\ hilo'[t] = [hilo[t] EXCEPT !.pc = p.op, !.pet = p]
        /\ \A s \in Hilos \ {t} : hilo'[s] = hilo[s]
    BY <1>1, HiloDe DEF procesar_peticion, Hilo, Puntos
  <1>4. hilo'[t].pc = p.op /\ hilo'[t].pet = p /\ hilo'[t].lista = <<>>
    BY <1>2, <1>3, HiloDe DEF Hilo
  <1>5. HiloFiel(hilo[t])'
    BY <1>1, <1>4 DEF HiloFiel, ListaFiel, Coherente, EntregadoAntes,
                      Operaciones, PuntosEnvio, PuntosConnect
  <1>6. atendidas' \in 0..MaxPeticiones
    BY ConstantesServer DEF procesar_peticion, IInv, TypeOK
  <1>7. mutex' \in Hilos \cup {Nadie}
    BY DEF procesar_peticion, IInv, TypeOK
  <1>8. QED
    BY <1>3, <1>5, <1>6, <1>7, SoloHilo DEF procesar_peticion

LEMMA responder_Conserva ==
  ASSUME IInv, NEW t \in Hilos, responder(t)
  PROVE  IInv'
  <1>1. mutex' \in Hilos \cup {Nadie} /\ atendidas' \in 0..MaxPeticiones
    BY DEF responder, IInv, TypeOK
  <1>2. CASE hilo[t].lista = <<>>
    BY <1>1, <1>2, TerminarTipos, SoloHilo DEF responder
  <1>3. CASE hilo[t].lista # <<>>
    <2>1. HistoriaCrece
      BY DEF responder, historia, HistoriaCrece
    <2>2. IrA(t, "entregar") /\ hilo[t].pc \in PuntosConnect
      BY <1>3 DEF responder, En, PuntosConnect
    <2>3. "entregar" \in PuntosConnect \ {"responder"}
      BY DEF PuntosConnect
    <2>4. /\ hilo' \in [Hilos -> Hilo]
          /\ HiloFiel(hilo[t])'
          /\ \A s \in Hilos \ {t} : hilo'[s] = hilo[s]
      BY <1>3, <2>1, <2>2, <2>3, IrATipos
    <2>5. QED
      BY <1>1, <2>4, SoloHilo DEF responder
  <1>4. QED
    BY <1>2, <1>3

LEMMA procesar_users_Conserva ==
  ASSUME IInv, NEW t \in Hilos, procesar_users(t)
  PROVE  IInv'
  <1>1. mutex' \in Hilos \cup {Nadie} /\ atendidas' \in 0..MaxPeticiones
    BY DEF procesar_users, Retener, IInv, TypeOK
  <1>2. hilo[t].pc \in Operaciones /\ UNCHANGED <<user, historia>>
    BY DEF procesar_users, EnConMutexLibre, En, Operaciones
  <1>3. ASSUME NEW r \in Nat, Contestar(t, r) PROVE IInv'
    BY <1>1, <1>2, <1>3, ContestarTipos, SoloHilo
  <1>4. CASE hilo' = [hilo EXCEPT ![t].pc = "listar", ![t].res = Cardinality(Conectados)]
    <2>1. Cardinality(Conectados) \in Nat
      <3>1. Conectados \in SUBSET Nombres
        BY DEF Conectados, IInv, TypeOK
      <3>2. IsFiniteSet(Conectados)
        BY <3>1, ConstantesServer, FS_Subset
      <3>3. QED
        BY <3>2, FS_CardinalityType
    <2>2. /\ hilo' \in [Hilos -> Hilo]
          /\ hilo'[t] = [hilo[t] EXCEPT !.pc = "listar", !.res = Cardinality(Conectados)]
          /\ \A s \in Hilos \ {t} : hilo'[s] = hilo[s]
      BY <1>4, <2>1, HiloDe DEF Hilo, Puntos
    <2>3. hilo[t].lista = <<>> /\ hilo[t].pet \in Peticion
      BY <1>2, HiloDe DEF Coherente, Operaciones, PuntosEnvio, PuntosConnect
    <2>4. hilo'[t].pc = "listar" /\ hilo'[t].lista = <<>> /\ hilo'[t].pet \in Peticion
      BY <2>2, <2>3, HiloDe DEF Hilo
    <2>5. HiloFiel(hilo[t])'
      BY <2>4 DEF HiloFiel, ListaFiel, Coherente, EntregadoAntes,
                  Operaciones, PuntosEnvio, PuntosConnect
    <2>6. QED
      BY <1>1, <1>2, <2>2, <2>5, SoloHilo
  <1>5. QED
    BY <1>3, <1>4 DEF procesar_users

LEMMA listar_conectados_Conserva ==
  ASSUME IInv, NEW t \in Hilos, listar_conectados(t)
  PROVE  IInv'
  <1>1. mutex' \in Hilos \cup {Nadie} /\ atendidas' \in 0..MaxPeticiones
    BY DEF listar_conectados, IInv, TypeOK
  <1>2. QED
    BY <1>1, TerminarTipos, SoloHilo DEF listar_conectados

LEMMA responder_envio_Conserva ==
  ASSUME IInv, NEW t \in Hilos, responder_envio(t)
  PROVE  IInv'
  <1> DEFINE p == hilo[t].pet
             rem == IF EstaConectado(p.usuario) THEN user[p.usuario].dir ELSE SinDir
  <1>1. mutex' \in Hilos \cup {Nadie} /\ atendidas' \in 0..MaxPeticiones
    BY DEF responder_envio, IInv, TypeOK
  <1>2. CASE ~EstaConectado(p.destino)
    BY <1>1, <1>2, TerminarTipos, SoloHilo DEF responder_envio
  <1>3. CASE EstaConectado(p.destino)
    <2>1. user[p.destino].dir \in Dirs \cup {SinDir} /\ rem \in Dirs \cup {SinDir}
      BY <1>3 DEF EstaConectado, Conectados, IInv, TypeOK, Nodo
    <2>2. hilo' = [hilo EXCEPT ![t].pc = "envio_entregar",
                               ![t].dest = user[p.destino].dir, ![t].rem = rem]
      BY <1>3 DEF responder_envio
    <2> DEFINE dest == user[p.destino].dir
               h == [hilo[t] EXCEPT !.pc = "envio_entregar", !.dest = dest, !.rem = rem]
    <2> HIDE DEF rem, dest, p
    <2>3. /\ hilo' \in [Hilos -> Hilo]
          /\ hilo'[t] = h
          /\ \A s \in Hilos \ {t} : hilo'[s] = hilo[s]
      <3>1. h \in Hilo
        BY <2>1, HiloDe DEF Hilo, Puntos, PuntosEnvio, dest
      <3>2. hilo' = [hilo EXCEPT ![t] = h]
        BY <2>2, HiloDe DEF dest
      <3> HIDE DEF h
      <3>3. QED
        BY <3>1, <3>2, HiloDe
    <2>4. /\ hilo'[t].pc = "envio_entregar"
          /\ hilo'[t].lista = hilo[t].lista
          /\ hilo'[t].pet = hilo[t].pet
      BY <2>3, HiloDe DEF Hilo
    <2>5. hilo[t].pc = "responder_envio" /\ UNCHANGED <<user, historia>>
      BY DEF responder_envio, En
    <2>6. HiloFiel(hilo[t])'
      BY <2>4, <2>5, HiloDe DEF HiloFiel, ListaFiel, Coherente, EntregadoAntes, Anotado,
                           Operaciones, PuntosEnvio, PuntosConnect, historia
    <2>7. QED
      BY <1>1, <2>3, <2>5, <2>6, SoloHilo
  <1>4. QED
    BY <1>2, <1>3

LEMMA envio_ack_Conserva ==
  ASSUME IInv, NEW t \in Hilos, envio_ack(t)
  PROVE  IInv'
  <1>1. mutex' \in Hilos \cup {Nadie} /\ atendidas' \in 0..MaxPeticiones
    BY DEF envio_ack, IInv, TypeOK
  <1>2. HistoriaCrece /\ entregados' = entregados
    BY DEF envio_ack, historia, HistoriaCrece
  <1>3. /\ hilo[t].pc \in PuntosEnvio /\ "eliminar" \in PuntosEnvio
        /\ hilo[t].lista # <<>> /\ Head(hilo[t].lista).texto \in entregados
    BY HiloDe DEF envio_ack, En, Coherente, EntregadoAntes, PuntosEnvio
  <1>4. IrA(t, "eliminar")
    BY DEF envio_ack
  <1>5. /\ hilo' \in [Hilos -> Hilo]
        /\ HiloFiel(hilo[t])'
        /\ \A s \in Hilos \ {t} : hilo'[s] = hilo[s]
    BY <1>2, <1>3, <1>4, IrATipos
  <1>6. QED
    BY <1>1, <1>5, SoloHilo DEF envio_ack

(* The current message of a thread is one that was accepted. *)
LEMMA ActualAnotado ==
  ASSUME IInv, NEW t \in Hilos, hilo[t].lista # <<>>
  PROVE  /\ 1 \in DOMAIN hilo[t].lista
         /\ Head(hilo[t].lista) = hilo[t].lista[1]
         /\ Head(hilo[t].lista) \in Mensaje
         /\ Anotado(Head(hilo[t].lista))
  <1>1. hilo[t].lista \in Seq(Mensaje)
    BY HiloDe DEF Hilo
  <1>2. 1 \in DOMAIN hilo[t].lista /\ Head(hilo[t].lista) = hilo[t].lista[1]
    BY <1>1, LenProperties, EmptySeq
  <1>3. Head(hilo[t].lista) \in Mensaje
    BY <1>1, HeadTailProperties
  <1>4. Anotado(hilo[t].lista[1])
    BY <1>2, HiloDe DEF ListaFiel
  <1>5. QED
    BY <1>2, <1>3, <1>4

(* The outcome of writing the current message to its receiver. *)
LEMMA EntregaConserva ==
  ASSUME IInv, NEW t \in Hilos, hilo[t].lista # <<>>,
         \/ entregados' = entregados \cup {Head(hilo[t].lista).texto}
         \/ entregados' = entregados,
         UNCHANGED <<user, mutex, atendidas, aceptados, cancelados>>,
         NEW punto, IrA(t, punto),
         \/ hilo[t].pc \in PuntosEnvio /\ punto \in PuntosEnvio
         \/ hilo[t].pc \in PuntosConnect /\ punto \in PuntosConnect \ {"responder"},
         \/ punto \in {"entregar", "reencolar", "desconectar"}
         \/ Head(hilo[t].lista).texto \in entregados'
  PROVE  IInv'
  <1>1. HistoriaCrece
    BY DEF HistoriaCrece
  <1>2. /\ hilo' \in [Hilos -> Hilo]
        /\ HiloFiel(hilo[t])'
        /\ \A s \in Hilos \ {t} : hilo'[s] = hilo[s]
    BY <1>1, IrATipos
  <1>3. HilosFieles'
    BY <1>1, <1>2, OtrosHilos DEF IInv
  <1>4. entregados' \subseteq DOMAIN aceptados
    BY ActualAnotado DEF Anotado, IInv, TypeOK
  <1>5. TypeOK'
    BY <1>2, <1>4 DEF IInv, TypeOK, Conectados, EstaConectado
  <1>6. ColasFieles' /\ DestinoVivo'
    BY DEF IInv, ColasFieles, DestinoVivo, Anotado
  <1>7. QED
    BY <1>3, <1>5, <1>6 DEF IInv

LEMMA envio_entregar_Conserva ==
  ASSUME IInv, NEW t \in Hilos, envio_entregar(t)
  PROVE  IInv'
  <1>1. hilo[t].pc = "envio_entregar" /\ hilo[t].lista # <<>>
    BY HiloDe DEF envio_entregar, En, Coherente, PuntosEnvio
  <1>2. UNCHANGED <<user, mutex, atendidas, aceptados, cancelados>>
    BY DEF envio_entregar
  <1>3. ASSUME entregados' = entregados \cup {Head(hilo[t].lista).texto},
               NEW punto \in {"envio_ack", "eliminar"}, IrA(t, punto)
        PROVE  IInv'
    BY <1>1, <1>2, <1>3, EntregaConserva DEF PuntosEnvio
  <1>4. ASSUME entregados' = entregados, IrA(t, "desconectar") PROVE IInv'
    BY <1>1, <1>2, <1>4, EntregaConserva DEF PuntosEnvio
  <1>5. QED
    BY <1>3, <1>4 DEF envio_entregar

LEMMA entregar_pendiente_Conserva ==
  ASSUME IInv, NEW t \in Hilos, entregar_pendiente(t)
  PROVE  IInv'
  <1>1. hilo[t].pc = "entregar" /\ hilo[t].lista # <<>>
    BY HiloDe DEF entregar_pendiente, En, Coherente, PuntosConnect
  <1>2. UNCHANGED <<user, mutex, atendidas, aceptados, cancelados>>
    BY DEF entregar_pendiente
  <1>3. CASE /\ entregados' = entregados \cup {Head(hilo[t].lista).texto}
             /\ IrA(t, "buscar_rem")
    BY <1>1, <1>2, <1>3, EntregaConserva DEF PuntosConnect
  <1>4. CASE entregados' = entregados /\ IrA(t, "reencolar")
    BY <1>1, <1>2, <1>4, EntregaConserva DEF PuntosConnect
  <1>5. QED
    BY <1>3, <1>4 DEF entregar_pendiente

(* Leaving the delivered message behind. *)
LEMMA AvanzarConserva ==
  ASSUME IInv, NEW t \in Hilos, hilo[t].lista # <<>>,
         hilo[t].pc \in {"buscar_rem", "ack_pendiente"}, Avanzar(t),
         UNCHANGED <<user, mutex, atendidas, historia>>
  PROVE  IInv'
  <1> DEFINE resto == Tail(hilo[t].lista)
             h == [hilo[t] EXCEPT !.pc = "entregar", !.lista = resto, !.rem = SinDir]
  <1>1. mutex' \in Hilos \cup {Nadie} /\ atendidas' \in 0..MaxPeticiones
    BY DEF IInv, TypeOK
  <1>2. CASE resto = <<>>
    <2>1. Terminar(t)
      BY <1>2 DEF Avanzar
    <2>2. QED
      BY <1>1, <2>1, TerminarTipos, SoloHilo
  <1>3. CASE resto # <<>>
    <2>1. hilo[t].lista \in Seq(Mensaje)
      BY HiloDe DEF Hilo
    <2>2. /\ resto \in Seq(Mensaje)
          /\ \A i \in DOMAIN resto :
               i + 1 \in DOMAIN hilo[t].lista /\ resto[i] = hilo[t].lista[i + 1]
      <3>1. /\ resto \in Seq(Mensaje)
            /\ Len(resto) = Len(hilo[t].lista) - 1
            /\ \A i \in 1..Len(resto) : resto[i] = hilo[t].lista[i + 1]
        BY <2>1, HeadTailProperties
      <3>2. /\ DOMAIN resto = 1..Len(resto)
            /\ DOMAIN hilo[t].lista = 1..Len(hilo[t].lista)
            /\ Len(hilo[t].lista) \in Nat
        BY <2>1, <3>1, LenProperties
      <3> HIDE DEF resto
      <3>3. QED
        BY <3>1, <3>2
    <2>3. hilo' = [hilo EXCEPT ![t] = h]
      BY <1>3, HiloDe DEF Avanzar
    <2> HIDE DEF resto
    <2>4. h \in Hilo
      BY <2>2, HiloDe DEF Hilo, Puntos, PuntosConnect
    <2>5. h.pc = "entregar" /\ h.lista = resto /\ h.pet = hilo[t].pet
      BY HiloDe DEF Hilo
    <2> HIDE DEF h
    <2>6. /\ hilo' \in [Hilos -> Hilo]
          /\ hilo'[t] = h
          /\ \A s \in Hilos \ {t} : hilo'[s] = hilo[s]
      BY <2>3, <2>4, HiloDe
    <2>7. ListaFiel(hilo[t])'
      <3>1. \A i \in DOMAIN resto :
              Anotado(resto[i]) /\ resto[i].destino = hilo[t].pet.usuario
        BY <2>2, HiloDe DEF ListaFiel, PuntosEnvio
      <3>2. QED
        BY <2>5, <2>6, <3>1 DEF ListaFiel, Anotado, PuntosEnvio, historia
    <2>8. Coherente(hilo[t])' /\ EntregadoAntes(hilo[t])'
      BY <1>3, <2>5, <2>6, HiloDe DEF Coherente, EntregadoAntes, Operaciones,
                               PuntosEnvio, PuntosConnect
    <2>9. QED
      BY <1>1, <2>6, <2>7, <2>8, SoloHilo DEF HiloFiel
  <1>4. QED
    BY <1>2, <1>3

LEMMA buscar_remitente_Conserva ==
  ASSUME IInv, NEW t \in Hilos, buscar_remitente(t)
  PROVE  IInv'
  <1> DEFINE r == Head(hilo[t].lista).remitente
             d == user[r].dir
             h == [hilo[t] EXCEPT !.pc = "ack_pendiente", !.rem = d]
  <1>1. /\ hilo[t].pc = "buscar_rem" /\ hilo[t].lista # <<>>
        /\ Head(hilo[t].lista).texto \in entregados
    BY HiloDe DEF buscar_remitente, EnConMutexLibre, En, Coherente, EntregadoAntes,
                  PuntosConnect
  <1>2. UNCHANGED <<user, mutex, atendidas, historia>>
    BY DEF buscar_remitente
  <1>3. CASE ~EstaConectado(r)
    BY <1>1, <1>2, <1>3, AvanzarConserva DEF buscar_remitente
  <1>4. CASE EstaConectado(r)
    <2>1. d \in Dirs \cup {SinDir}
      BY <1>4 DEF EstaConectado, Conectados, IInv, TypeOK, Nodo
    <2>2. hilo' = [hilo EXCEPT ![t] = h]
      BY <1>4, HiloDe DEF buscar_remitente
    <2> HIDE DEF d
    <2>3. h \in Hilo
      BY <2>1, HiloDe DEF Hilo, Puntos, PuntosConnect
    <2>4. h.pc = "ack_pendiente" /\ h.lista = hilo[t].lista /\ h.pet = hilo[t].pet
      BY HiloDe DEF Hilo
    <2> HIDE DEF h
    <2>5. /\ hilo' \in [Hilos -> Hilo]
          /\ hilo'[t] = h
          /\ \A s \in Hilos \ {t} : hilo'[s] = hilo[s]
      BY <2>2, <2>3, HiloDe
    <2>6. HiloFiel(hilo[t])'
      BY <1>1, <1>2, <2>4, <2>5, HiloDe
      DEF HiloFiel, ListaFiel, Coherente, EntregadoAntes, Anotado, Operaciones,
          PuntosEnvio, PuntosConnect, historia
    <2>7. mutex' \in Hilos \cup {Nadie} /\ atendidas' \in 0..MaxPeticiones
      BY <1>2 DEF IInv, TypeOK
    <2>8. QED
      BY <1>2, <2>5, <2>6, <2>7, SoloHilo
  <1>5. QED
    BY <1>3, <1>4

LEMMA ack_pendiente_Conserva ==
  ASSUME IInv, NEW t \in Hilos, ack_pendiente(t)
  PROVE  IInv'
  <1>1. hilo[t].pc = "ack_pendiente" /\ hilo[t].lista # <<>>
    BY HiloDe DEF ack_pendiente, En, Coherente, PuntosConnect
  <1>2. QED
    BY <1>1, AvanzarConserva DEF ack_pendiente
-----------------------------------------------------------------------------
(***************************************************************************)
(* The actions that change the list of users.                              *)
(***************************************************************************)
(* A step that changes one account and moves one thread. *)
LEMMA CuentaCambia ==
  ASSUME IInv, NEW t \in Hilos, NEW u \in DOMAIN user,
         user' \in [DOMAIN user -> Nodo],
         \A v \in DOMAIN user \ {u} : user'[v] = user[v],
         user'[u].estado = CONECTADO <=> user'[u].dir # SinDir,
         \A i \in DOMAIN user'[u].mensajes :
           Anotado(user'[u].mensajes[i]) /\ user'[u].mensajes[i].destino = u,
         hilo' \in [Hilos -> Hilo], HiloFiel(hilo[t])',
         \A s \in Hilos \ {t} : hilo'[s] = hilo[s],
         UNCHANGED <<mutex, atendidas, historia>>
  PROVE  IInv'
  <1>1. HistoriaCrece
    BY DEF HistoriaCrece, historia
  <1>2. HilosFieles'
    BY <1>1, OtrosHilos DEF IInv
  <1>3. DOMAIN user' = DOMAIN user
    OBVIOUS
  <1>4. TypeOK'
    BY <1>3 DEF IInv, TypeOK, historia, Conectados, EstaConectado
  <1>5. ColasFieles'
    BY <1>3 DEF IInv, ColasFieles, Anotado, historia
  <1>6. DestinoVivo'
    BY <1>3 DEF IInv, DestinoVivo, historia
  <1>7. QED
    BY <1>2, <1>4, <1>5, <1>6 DEF IInv

LEMMA ColaDe ==
  ASSUME IInv, NEW u \in DOMAIN user
  PROVE  /\ user[u] \in Nodo
         /\ user[u].mensajes \in Seq(Mensaje)
         /\ \A i \in DOMAIN user[u].mensajes :
              Anotado(user[u].mensajes[i]) /\ user[u].mensajes[i].destino = u
  BY DEF IInv, TypeOK, ColasFieles, Nodo

(* Marking a user as disconnected does not touch its queue. *)
LEMMA MarcarDesconectadoTipos ==
  ASSUME IInv, NEW u \in DOMAIN user, user' = MarcarDesconectado(u)
  PROVE  /\ user' \in [DOMAIN user -> Nodo]
         /\ \A v \in DOMAIN user \ {u} : user'[v] = user[v]
         /\ user'[u].estado = DESCONECTADO
         /\ user'[u].estado = CONECTADO <=> user'[u].dir # SinDir
         /\ user'[u].mensajes = user[u].mensajes
  <1> DEFINE n == [user[u] EXCEPT !.estado = DESCONECTADO, !.dir = SinDir]
  <1>1. user \in [DOMAIN user -> Nodo] /\ user[u] \in Nodo
    BY DEF IInv, TypeOK
  <1>2. user' = [user EXCEPT ![u] = n]
    BY <1>1 DEF MarcarDesconectado
  <1>3. /\ n \in Nodo /\ n.estado = DESCONECTADO /\ n.dir = SinDir
        /\ n.mensajes = user[u].mensajes
    BY <1>1 DEF Nodo
  <1> HIDE DEF n
  <1>4. QED
    BY <1>1, <1>2, <1>3 DEF CONECTADO, DESCONECTADO

LEMMA procesar_register_Conserva ==
  ASSUME IInv, NEW t \in Hilos, procesar_register(t)
  PROVE  IInv'
  <1> DEFINE u == hilo[t].pet.usuario
             nuevo == [estado |-> DESCONECTADO, dir |-> SinDir,
                       ultimo_id_msg |-> 0, mensajes |-> <<>>]
  <1>1. mutex' \in Hilos \cup {Nadie} /\ atendidas' \in 0..MaxPeticiones
    BY DEF procesar_register, IInv, TypeOK
  <1>2. /\ hilo[t].pc \in Operaciones /\ UNCHANGED <<mutex, atendidas, historia>>
        /\ hilo[t].pc = "REGISTER"
    BY DEF procesar_register, EnConMutexLibre, En, Operaciones
  <1>3. u \in Nombres
    BY <1>2, HiloDe, PeticionTipo DEF Coherente
  <1>4. /\ hilo' \in [Hilos -> Hilo]
        /\ HiloFiel(hilo[t])'
        /\ \A s \in Hilos \ {t} : hilo'[s] = hilo[s]
    <2>1. ASSUME NEW r \in {0, 1}, Contestar(t, r)
          PROVE  /\ hilo' \in [Hilos -> Hilo]
                 /\ HiloFiel(hilo[t])'
                 /\ \A s \in Hilos \ {t} : hilo'[s] = hilo[s]
      BY <1>2, <2>1, ContestarTipos
    <2>2. QED
      BY <2>1 DEF procesar_register
  <1>5. CASE UNCHANGED user
    BY <1>1, <1>2, <1>4, <1>5, SoloHilo
  <1>6. CASE u \notin DOMAIN user /\ user' = add_user(u)
    <2>1. nuevo \in Nodo
      BY ConstantesServer, EmptySeq DEF Nodo
    <2>2. /\ DOMAIN user' = DOMAIN user \cup {u}
          /\ user'[u] = nuevo
          /\ \A v \in DOMAIN user : user'[v] = user[v]
      BY <1>6 DEF add_user
    <2>3. user' \in [DOMAIN user' -> Nodo]
      BY <1>6, <2>1, <2>2 DEF add_user, IInv, TypeOK
    <2>4. user'[u].estado # CONECTADO /\ user'[u].dir = SinDir /\ user'[u].mensajes = <<>>
      BY <2>2 DEF CONECTADO, DESCONECTADO
    <2>5. TypeOK'
      <3>1. DOMAIN user' \subseteq Nombres
        BY <1>3, <2>2 DEF IInv, TypeOK
      <3>2. \A v \in DOMAIN user' : EstaConectado(v)' <=> user'[v].dir # SinDir
        BY <2>2, <2>4 DEF IInv, TypeOK, EstaConectado, Conectados
      <3>3. QED
        BY <1>1, <1>2, <1>4, <2>3, <3>1, <3>2 DEF IInv, TypeOK, historia
    <2>6. HilosFieles'
      <3>1. HistoriaCrece
        BY <1>2 DEF HistoriaCrece, historia
      <3>2. QED
        BY <1>4, <3>1, OtrosHilos DEF IInv
    <2>7. ColasFieles'
      BY <1>2, <2>2, <2>4 DEF IInv, ColasFieles, Anotado, historia
    <2>8. DestinoVivo'
      BY <1>2, <2>2 DEF IInv, DestinoVivo, historia
    <2>9. QED
      BY <2>5, <2>6, <2>7, <2>8 DEF IInv
  <1>7. QED
    BY <1>5, <1>6 DEF procesar_register

LEMMA procesar_unregister_Conserva ==
  ASSUME IInv, NEW t \in Hilos, procesar_unregister(t)
  PROVE  IInv'
  <1> DEFINE u == hilo[t].pet.usuario
  <1>1. mutex' \in Hilos \cup {Nadie} /\ atendidas' \in 0..MaxPeticiones
    BY DEF procesar_unregister, IInv, TypeOK
  <1>2. hilo[t].pc \in Operaciones /\ UNCHANGED <<mutex, atendidas, aceptados, entregados>>
    BY DEF procesar_unregister, EnConMutexLibre, En, Operaciones
  <1>3. /\ hilo' \in [Hilos -> Hilo]
        /\ HiloFiel(hilo[t])'
        /\ \A s \in Hilos \ {t} : hilo'[s] = hilo[s]
    <2>1. ASSUME NEW r \in {0, 1}, Contestar(t, r)
          PROVE  /\ hilo' \in [Hilos -> Hilo]
                 /\ HiloFiel(hilo[t])'
                 /\ \A s \in Hilos \ {t} : hilo'[s] = hilo[s]
      BY <1>2, <2>1, ContestarTipos
    <2>2. QED
      BY <2>1 DEF procesar_unregister
  <1>4. CASE UNCHANGED <<user, cancelados>>
    BY <1>1, <1>2, <1>3, <1>4, SoloHilo DEF historia
  <1>5. CASE /\ user' = remove_user(u)
             /\ cancelados' = cancelados
                  \cup {i \in DOMAIN aceptados : aceptados[i].destino = u}
    <2>1. /\ DOMAIN user' = DOMAIN user \ {u}
          /\ \A v \in DOMAIN user' : user'[v] = user[v]
      BY <1>5 DEF remove_user, Restrict
    <2>2. user' \in [DOMAIN user' -> Nodo]
      BY <1>5, <2>1 DEF remove_user, Restrict, IInv, TypeOK
    <2>3. TypeOK'
      <3>1. DOMAIN user' \subseteq Nombres
        BY <2>1 DEF IInv, TypeOK
      <3>2. \A v \in DOMAIN user' : EstaConectado(v)' <=> user'[v].dir # SinDir
        BY <2>1 DEF IInv, TypeOK, EstaConectado, Conectados
      <3>3. cancelados' \subseteq DOMAIN aceptados'
        BY <1>2, <1>5 DEF IInv, TypeOK
      <3>4. QED
        BY <1>1, <1>2, <1>3, <2>2, <3>1, <3>2, <3>3 DEF IInv, TypeOK
    <2>4. HilosFieles'
      <3>1. HistoriaCrece
        BY <1>2 DEF HistoriaCrece
      <3>2. QED
        BY <1>3, <3>1, OtrosHilos DEF IInv
    <2>5. ColasFieles'
      BY <1>2, <2>1 DEF IInv, ColasFieles, Anotado
    <2>6. DestinoVivo'
      BY <1>2, <1>5, <2>1 DEF IInv, DestinoVivo
    <2>7. QED
      BY <2>3, <2>4, <2>5, <2>6 DEF IInv
  <1>6. QED
    BY <1>4, <1>5 DEF procesar_unregister

LEMMA procesar_connect_Conserva ==
  ASSUME IInv, NEW t \in Hilos, procesar_connect(t)
  PROVE  IInv'
  <1> DEFINE u == hilo[t].pet.usuario
             d == hilo[t].pet.dir
             cola == user[u].mensajes
             h == [hilo[t] EXCEPT !.pc = "responder", !.res = 0, !.lista = cola, !.dest = d]
             n == [user[u] EXCEPT !.estado = CONECTADO, !.dir = d, !.mensajes = <<>>]
  <1>1. mutex' \in Hilos \cup {Nadie} /\ atendidas' \in 0..MaxPeticiones
    BY DEF procesar_connect, IInv, TypeOK
  <1>2. /\ hilo[t].pc = "CONNECT" /\ hilo[t].pc \in Operaciones
        /\ UNCHANGED <<mutex, atendidas, historia>>
    BY DEF procesar_connect, EnConMutexLibre, En, Operaciones
  <1>3. hilo[t].pet \in Peticion /\ hilo[t].pet.op = "CONNECT" /\ d \in Dirs
    BY <1>2, HiloDe, PeticionTipo DEF Coherente
  <1>4. ASSUME NEW r \in {1, 2}, Contestar(t, r), UNCHANGED user PROVE IInv'
    BY <1>1, <1>2, <1>4, ContestarTipos, SoloHilo
  <1>5. CASE /\ u \in DOMAIN user
             /\ user' = Conectar(u, d)
             /\ hilo' = [hilo EXCEPT ![t].pc = "responder", ![t].res = 0,
                                     ![t].lista = user[u].mensajes, ![t].dest = d]
    <2>1. user \in [DOMAIN user -> Nodo] /\ user[u] \in Nodo
      BY <1>5 DEF IInv, TypeOK
    <2>2. user' = [user EXCEPT ![u] = n]
      BY <1>5, <2>1 DEF Conectar
    <2>3. n \in Nodo /\ n.estado = CONECTADO /\ n.dir = d /\ n.mensajes = <<>>
      BY <1>3, <2>1, EmptySeq DEF Nodo
    <2>4. cola \in Seq(Mensaje)
      BY <1>5, ColaDe
    <2>5. hilo' = [hilo EXCEPT ![t] = h]
      BY <1>5, HiloDe
    <2>6. h \in Hilo
      BY <1>3, <2>4, HiloDe DEF Hilo, Puntos, PuntosConnect
    <2>7. h.pc = "responder" /\ h.lista = cola /\ h.pet = hilo[t].pet
      BY HiloDe DEF Hilo
    <2> HIDE DEF h, n
    <2>8. /\ hilo' \in [Hilos -> Hilo]
          /\ hilo'[t] = h
          /\ \A s \in Hilos \ {t} : hilo'[s] = hilo[s]
      BY <2>5, <2>6, HiloDe
    <2>9. ListaFiel(hilo[t])'
      <3>1. \A i \in DOMAIN cola : Anotado(cola[i]) /\ cola[i].destino = u
        BY <1>5, ColaDe
      <3>2. "responder" \notin PuntosEnvio
        BY DEF PuntosEnvio
      <3> HIDE DEF cola
      <3>3. QED
        BY <1>2, <2>7, <2>8, <3>1, <3>2 DEF ListaFiel, Anotado, historia
    <2>10. Coherente(hilo[t])' /\ EntregadoAntes(hilo[t])'
      BY <1>3, <2>7, <2>8 DEF Coherente, EntregadoAntes, Operaciones,
                              PuntosEnvio, PuntosConnect
    <2>11. /\ user' \in [DOMAIN user -> Nodo]
           /\ \A v \in DOMAIN user \ {u} : user'[v] = user[v]
           /\ user'[u].estado = CONECTADO <=> user'[u].dir # SinDir
           /\ DOMAIN user'[u].mensajes = {}
      BY <1>3, <1>5, <2>1, <2>2, <2>3, ConstantesServer
    <2>12. QED
      BY <1>2, <1>5, <2>8, <2>9, <2>10, <2>11, CuentaCambia DEF HiloFiel
  <1>6. QED
    BY <1>4, <1>5 DEF procesar_connect

LEMMA procesar_disconnect_Conserva ==
  ASSUME IInv, NEW t \in Hilos, procesar_disconnect(t)
  PROVE  IInv'
  <1> DEFINE u == hilo[t].pet.usuario
  <1>1. mutex' \in Hilos \cup {Nadie} /\ atendidas' \in 0..MaxPeticiones
    BY DEF procesar_disconnect, IInv, TypeOK
  <1>2. hilo[t].pc \in Operaciones /\ UNCHANGED <<mutex, atendidas, historia>>
    BY DEF procesar_disconnect, EnConMutexLibre, En, Operaciones
  <1>3. ASSUME NEW r \in 1..3, Contestar(t, r), UNCHANGED user PROVE IInv'
    BY <1>1, <1>2, <1>3, ContestarTipos, SoloHilo
  <1>4. CASE EstaConectado(u) /\ Contestar(t, 0) /\ user' = MarcarDesconectado(u)
    <2>1. u \in DOMAIN user
      BY <1>4 DEF EstaConectado, Conectados
    <2>2. /\ hilo' \in [Hilos -> Hilo]
          /\ HiloFiel(hilo[t])'
          /\ \A s \in Hilos \ {t} : hilo'[s] = hilo[s]
      BY <1>2, <1>4, ContestarTipos
    <2>3. QED
      BY <1>2, <1>4, <2>1, <2>2, MarcarDesconectadoTipos, ColaDe, CuentaCambia
  <1>5. QED
    BY <1>3, <1>4 DEF procesar_disconnect

LEMMA eliminar_mensaje_cola_Conserva ==
  ASSUME IInv, NEW t \in Hilos, eliminar_mensaje_cola(t)
  PROVE  IInv'
  <1> DEFINE u == hilo[t].pet.destino
             cola == SinMensaje(user[u].mensajes, Head(hilo[t].lista))
             n == [user[u] EXCEPT !.mensajes = cola]
  <1>1. mutex' \in Hilos \cup {Nadie} /\ atendidas' \in 0..MaxPeticiones
    BY DEF eliminar_mensaje_cola, IInv, TypeOK
  <1>2. UNCHANGED <<mutex, atendidas, historia>> /\ Terminar(t)
    BY DEF eliminar_mensaje_cola
  <1>3. CASE u \notin DOMAIN user
    BY <1>1, <1>2, <1>3, TerminarTipos, SoloHilo DEF eliminar_mensaje_cola
  <1>4. CASE u \in DOMAIN user
    <2>1. user \in [DOMAIN user -> Nodo] /\ user[u] \in Nodo
      BY <1>4 DEF IInv, TypeOK
    <2>2. /\ cola \in Seq(Mensaje)
          /\ \A k \in DOMAIN cola : \E i \in DOMAIN user[u].mensajes :
               cola[k] = user[u].mensajes[i]
      BY <1>4, ColaDe, SinMensajePropiedades
    <2>3. user' = [user EXCEPT ![u] = n]
      BY <1>4, <2>1 DEF eliminar_mensaje_cola
    <2> HIDE DEF cola
    <2>4. n \in Nodo /\ n.estado = user[u].estado /\ n.dir = user[u].dir /\ n.mensajes = cola
      BY <2>1, <2>2 DEF Nodo
    <2> HIDE DEF n
    <2>5. /\ user' \in [DOMAIN user -> Nodo]
          /\ \A v \in DOMAIN user \ {u} : user'[v] = user[v]
          /\ user'[u] = n
      BY <1>4, <2>1, <2>3, <2>4
    <2>6. user'[u].estado = CONECTADO <=> user'[u].dir # SinDir
      BY <1>4, <2>4, <2>5 DEF IInv, TypeOK, EstaConectado, Conectados
    <2>7. \A i \in DOMAIN user'[u].mensajes :
            Anotado(user'[u].mensajes[i]) /\ user'[u].mensajes[i].destino = u
      BY <1>4, <2>2, <2>4, <2>5, ColaDe
    <2>8. QED
      BY <1>2, <1>4, <2>5, <2>6, <2>7, TerminarTipos, CuentaCambia
  <1>5. QED
    BY <1>3, <1>4

LEMMA desconectar_destino_Conserva ==
  ASSUME IInv, NEW t \in Hilos, desconectar_destino(t)
  PROVE  IInv'
  <1> DEFINE u == hilo[t].pet.destino
  <1>1. mutex' \in Hilos \cup {Nadie} /\ atendidas' \in 0..MaxPeticiones
    BY DEF desconectar_destino, IInv, TypeOK
  <1>2. UNCHANGED <<mutex, atendidas, historia>> /\ Terminar(t)
    BY DEF desconectar_destino
  <1>3. CASE u \notin DOMAIN user
    BY <1>1, <1>2, <1>3, TerminarTipos, SoloHilo DEF desconectar_destino
  <1>4. CASE u \in DOMAIN user
    <2>1. user' = MarcarDesconectado(u)
      BY <1>4 DEF desconectar_destino
    <2>2. QED
      BY <1>2, <1>4, <2>1, MarcarDesconectadoTipos, ColaDe, TerminarTipos, CuentaCambia
  <1>5. QED
    BY <1>3, <1>4

LEMMA reencolar_Conserva ==
  ASSUME IInv, NEW t \in Hilos, reencolar(t)
  PROVE  IInv'
  <1> DEFINE u == hilo[t].pet.usuario
             antes == user[u].mensajes
             lista == hilo[t].lista
             n == [user[u] EXCEPT !.estado = DESCONECTADO, !.dir = SinDir,
                                  !.mensajes = antes \o lista]
  <1>1. mutex' \in Hilos \cup {Nadie} /\ atendidas' \in 0..MaxPeticiones
    BY DEF reencolar, IInv, TypeOK
  <1>2. /\ UNCHANGED <<mutex, atendidas, historia>> /\ Terminar(t)
        /\ hilo[t].pc = "reencolar"
    BY DEF reencolar, EnConMutexLibre, En
  <1>3. CASE u \notin DOMAIN user
    BY <1>1, <1>2, <1>3, TerminarTipos, SoloHilo DEF reencolar
  <1>4. CASE u \in DOMAIN user
    <2>1. user \in [DOMAIN user -> Nodo] /\ user[u] \in Nodo
      BY <1>4 DEF IInv, TypeOK
    <2>2. /\ antes \in Seq(Mensaje)
          /\ \A i \in DOMAIN antes : Anotado(antes[i]) /\ antes[i].destino = u
      BY <1>4, ColaDe
    <2>3. /\ lista \in Seq(Mensaje)
          /\ \A i \in DOMAIN lista : Anotado(lista[i]) /\ lista[i].destino = u
      BY <1>2, HiloDe DEF Hilo, ListaFiel, PuntosEnvio
    <2>4. user' = [user EXCEPT ![u] = n]
      BY <1>4, <2>1 DEF reencolar, Devolver, MarcarDesconectado
    <2> HIDE DEF antes, lista
    <2>5. /\ antes \o lista \in Seq(Mensaje)
          /\ \A i \in DOMAIN (antes \o lista) :
               Anotado((antes \o lista)[i]) /\ (antes \o lista)[i].destino = u
      <3>1. /\ antes \o lista \in Seq(Mensaje)
            /\ Len(antes \o lista) = Len(antes) + Len(lista)
            /\ \A i \in 1..(Len(antes) + Len(lista)) :
                 (antes \o lista)[i] =
                   IF i <= Len(antes) THEN antes[i] ELSE lista[i - Len(antes)]
        BY <2>2, <2>3, ConcatProperties
      <3>2. /\ DOMAIN (antes \o lista) = 1..Len(antes \o lista)
            /\ DOMAIN antes = 1..Len(antes) /\ Len(antes) \in Nat
            /\ DOMAIN lista = 1..Len(lista) /\ Len(lista) \in Nat
        BY <2>2, <2>3, <3>1, LenProperties
      <3>3. ASSUME NEW i \in DOMAIN (antes \o lista)
            PROVE  Anotado((antes \o lista)[i]) /\ (antes \o lista)[i].destino = u
        <4>1. CASE i <= Len(antes)
          <5>1. i \in DOMAIN antes /\ (antes \o lista)[i] = antes[i]
            BY <3>1, <3>2, <4>1
          <5>2. QED
            BY <2>2, <5>1
        <4>2. CASE i > Len(antes)
          <5>1. i - Len(antes) \in DOMAIN lista /\ (antes \o lista)[i] = lista[i - Len(antes)]
            BY <3>1, <3>2, <4>2
          <5>2. QED
            BY <2>3, <5>1
        <4>3. QED
          BY <3>1, <3>2, <4>1, <4>2
      <3>4. QED
        BY <3>1, <3>3
    <2>6. /\ n \in Nodo /\ n.estado = DESCONECTADO /\ n.dir = SinDir
          /\ n.mensajes = antes \o lista
      BY <2>1, <2>5 DEF Nodo
    <2> HIDE DEF n
    <2>7. /\ user' \in [DOMAIN user -> Nodo]
          /\ \A v \in DOMAIN user \ {u} : user'[v] = user[v]
          /\ user'[u] = n
      BY <1>4, <2>1, <2>4, <2>6
    <2>8. /\ user'[u].estado = CONECTADO <=> user'[u].dir # SinDir
          /\ \A i \in DOMAIN user'[u].mensajes :
               Anotado(user'[u].mensajes[i]) /\ user'[u].mensajes[i].destino = u
      <3>1. /\ user'[u].mensajes = antes \o lista
            /\ user'[u].estado = DESCONECTADO /\ user'[u].dir = SinDir
        BY <2>6, <2>7
      <3>2. user'[u].estado = CONECTADO <=> user'[u].dir # SinDir
        BY <3>1 DEF CONECTADO, DESCONECTADO
      <3>3. \A i \in DOMAIN user'[u].mensajes :
              Anotado(user'[u].mensajes[i]) /\ user'[u].mensajes[i].destino = u
        BY <2>5, <3>1
      <3>4. QED
        BY <3>2, <3>3
    <2>9. QED
      BY <1>2, <1>4, <2>7, <2>8, TerminarTipos, CuentaCambia
  <1>5. QED
    BY <1>3, <1>4

(* One account takes the next id and one queue grows: nothing else changes. *)
LEMMA ColaCrece ==
  ASSUME IInv, NEW u \in DOMAIN user, NEW d \in DOMAIN user,
         NEW id \in 1..MaxId, NEW m \in Mensaje,
         user' = [[user EXCEPT ![u].ultimo_id_msg = id]
                    EXCEPT ![d].mensajes = Append(@, m)]
  PROVE  /\ user' \in [DOMAIN user -> Nodo]
         /\ user'[d].mensajes = Append(user[d].mensajes, m)
         /\ \A v \in DOMAIN user : user'[v].estado = user[v].estado /\ user'[v].dir = user[v].dir
         /\ \A v \in DOMAIN user \ {d} : user'[v].mensajes = user[v].mensajes
  <1> DEFINE conId == [user EXCEPT ![u].ultimo_id_msg = id]
             n == [conId[d] EXCEPT !.mensajes = Append(conId[d].mensajes, m)]
             g == [conId EXCEPT ![d] = n]
  <1>1. /\ conId \in [DOMAIN user -> Nodo]
        /\ \A v \in DOMAIN user : /\ conId[v].estado = user[v].estado
                                  /\ conId[v].dir = user[v].dir
                                  /\ conId[v].mensajes = user[v].mensajes
    <2>1. ASSUME NEW v \in DOMAIN user
          PROVE  /\ [user[v] EXCEPT !.ultimo_id_msg = id] \in Nodo
                 /\ [user[v] EXCEPT !.ultimo_id_msg = id].estado = user[v].estado
                 /\ [user[v] EXCEPT !.ultimo_id_msg = id].dir = user[v].dir
                 /\ [user[v] EXCEPT !.ultimo_id_msg = id].mensajes = user[v].mensajes
      <3>1. id \in 0..MaxId /\ user[v] \in Nodo
        BY ConstantesServer, ColaDe
      <3>2. QED
        BY <3>1 DEF Nodo
    <2>2. \A v \in DOMAIN user :
            conId[v] = IF v = u THEN [user[v] EXCEPT !.ultimo_id_msg = id] ELSE user[v]
      OBVIOUS
    <2>3. conId = [v \in DOMAIN user |-> conId[v]]
      OBVIOUS
    <2>4. ASSUME NEW v \in DOMAIN user
          PROVE  /\ conId[v] \in Nodo
                 /\ conId[v].estado = user[v].estado
                 /\ conId[v].dir = user[v].dir
                 /\ conId[v].mensajes = user[v].mensajes
      <3>1. user[v] \in Nodo
        BY ColaDe
      <3>2. CASE v = u
        BY <2>1, <2>2, <3>2
      <3>3. CASE v # u
        BY <2>2, <3>1, <3>3
      <3>4. QED
        BY <3>2, <3>3
    <2> HIDE DEF conId
    <2>5. QED
      BY <2>3, <2>4
  <1> HIDE DEF conId
  <1>2. conId[d] \in Nodo /\ Append(conId[d].mensajes, m) \in Seq(Mensaje)
    <2>1. conId[d] \in Nodo /\ conId[d].mensajes \in Seq(Mensaje)
      BY <1>1 DEF Nodo
    <2>2. QED
      BY <2>1, AppendProperties
  <1>3. /\ n \in Nodo /\ n.estado = conId[d].estado /\ n.dir = conId[d].dir
        /\ n.mensajes = Append(conId[d].mensajes, m)
    BY <1>2 DEF Nodo
  <1> HIDE DEF n
  <1>4. g \in [DOMAIN user -> Nodo] /\ g[d] = n /\ \A v \in DOMAIN user \ {d} : g[v] = conId[v]
    BY <1>1, <1>3
  <1>5. user' = g
    BY DEF conId, n
  <1> HIDE DEF g
  <1>6. g[d].mensajes = Append(user[d].mensajes, m)
    BY <1>1, <1>3, <1>4
  <1>7. ASSUME NEW v \in DOMAIN user
        PROVE  /\ g[v].estado = user[v].estado /\ g[v].dir = user[v].dir
               /\ v # d => g[v].mensajes = user[v].mensajes
    <2>1. CASE v = d
      BY <1>1, <1>3, <1>4, <2>1
    <2>2. CASE v # d
      BY <1>1, <1>4, <2>2
    <2>3. QED
      BY <2>1, <2>2
  <1>8. QED
    BY <1>4, <1>5, <1>6, <1>7

(* The thread of the SEND keeps a copy of its message. *)
LEMMA CopiaPropia ==
  ASSUME IInv, NEW t \in Hilos, NEW m \in Mensaje,
         hilo' = [hilo EXCEPT ![t].pc = "responder_envio", ![t].lista = <<m>>]
  PROVE  /\ hilo' \in [Hilos -> Hilo]
         /\ \A s \in Hilos \ {t} : hilo'[s] = hilo[s]
         /\ hilo'[t].pc = "responder_envio"
         /\ hilo'[t].lista = <<m>>
         /\ hilo'[t].pet = hilo[t].pet
  <1> DEFINE h == [hilo[t] EXCEPT !.pc = "responder_envio", !.lista = <<m>>]
             g == [hilo EXCEPT ![t] = h]
  <1>1. <<m>> \in Seq(Mensaje)
    OBVIOUS
  <1>2. h \in Hilo /\ h.pc = "responder_envio" /\ h.lista = <<m>> /\ h.pet = hilo[t].pet
    BY <1>1, HiloDe DEF Hilo, Puntos, PuntosEnvio
  <1>3. hilo' = g
    OBVIOUS
  <1> HIDE DEF h
  <1>4. g \in [Hilos -> Hilo] /\ g[t] = h /\ \A s \in Hilos \ {t} : g[s] = hilo[s]
    BY <1>2, HiloDe
  <1>5. QED
    BY <1>2, <1>3, <1>4

(* A SEND stores its message and keeps a copy of it. *)
LEMMA AceptarEnvio ==
  ASSUME IInv, NEW t \in Hilos, NEW m \in Mensaje,
         m.destino \in DOMAIN user, m.texto = Len(aceptados) + 1,
         hilo[t].pet.op = "SEND", hilo[t].pet \in Peticion,
         hilo[t].pet.destino = m.destino,
         user' \in [DOMAIN user -> Nodo],
         user'[m.destino].mensajes = Append(user[m.destino].mensajes, m),
         \A v \in DOMAIN user : user'[v].estado = user[v].estado /\ user'[v].dir = user[v].dir,
         \A v \in DOMAIN user \ {m.destino} : user'[v].mensajes = user[v].mensajes,
         aceptados' = Append(aceptados, m),
         hilo' \in [Hilos -> Hilo],
         \A s \in Hilos \ {t} : hilo'[s] = hilo[s],
         hilo'[t].pc = "responder_envio",
         hilo'[t].lista = <<m>>,
         hilo'[t].pet = hilo[t].pet,
         mutex' \in Hilos \cup {Nadie},
         UNCHANGED <<atendidas, entregados, cancelados>>
  PROVE  IInv'
  <1> DEFINE d == m.destino
             cola == user[d].mensajes
             Luego(x) == x.texto \in DOMAIN aceptados' /\ aceptados'[x.texto] = x
  <1>1. /\ aceptados \in Seq(Mensaje) /\ Len(aceptados) \in Nat
        /\ DOMAIN aceptados = 1..Len(aceptados)
    BY LenProperties DEF IInv, TypeOK
  <1>2. /\ aceptados' \in Seq(Mensaje)
        /\ DOMAIN aceptados' = DOMAIN aceptados \cup {Len(aceptados) + 1}
        /\ \A i \in DOMAIN aceptados : aceptados'[i] = aceptados[i]
        /\ aceptados'[Len(aceptados) + 1] = m
    <2>1. /\ aceptados' \in Seq(Mensaje)
          /\ Len(aceptados') = Len(aceptados) + 1
          /\ \A i \in 1..Len(aceptados) : aceptados'[i] = aceptados[i]
          /\ aceptados'[Len(aceptados) + 1] = m
      BY <1>1, AppendProperties
    <2>2. DOMAIN aceptados' = 1..Len(aceptados')
      BY <2>1, LenProperties
    <2>3. QED
      BY <1>1, <2>1, <2>2
  <1>3. HistoriaCrece
    BY <1>2 DEF HistoriaCrece
  <1>4. Luego(m) /\ \A x \in Mensaje : Anotado(x) => Luego(x)
    BY <1>2 DEF Anotado
  <1> HIDE DEF Luego
  <1>5. /\ cola \in Seq(Mensaje)
        /\ \A i \in DOMAIN cola : Anotado(cola[i]) /\ cola[i].destino = d
    BY ColaDe
  <1>6. \A i \in DOMAIN Append(cola, m) :
           Luego(Append(cola, m)[i]) /\ Append(cola, m)[i].destino = d
    <2>1. /\ Append(cola, m) \in Seq(Mensaje)
          /\ Len(Append(cola, m)) = Len(cola) + 1
          /\ \A i \in 1..Len(cola) : Append(cola, m)[i] = cola[i]
          /\ Append(cola, m)[Len(cola) + 1] = m
      BY <1>5, AppendProperties
    <2>2. /\ DOMAIN Append(cola, m) = 1..Len(Append(cola, m))
          /\ DOMAIN cola = 1..Len(cola) /\ Len(cola) \in Nat
      BY <1>5, <2>1, LenProperties
    <2>3. ASSUME NEW i \in DOMAIN cola
          PROVE  Luego(cola[i]) /\ cola[i].destino = d
      <3>1. cola[i] \in Mensaje
        BY <1>5, <2>2, ElementOfSeq
      <3>2. QED
        BY <1>4, <1>5, <3>1
    <2>4. QED
      BY <1>4, <2>1, <2>2, <2>3
  <1>7. DOMAIN user' = DOMAIN user
    OBVIOUS
  <1>8. HiloFiel(hilo[t])'
    <2>1. ListaFiel(hilo[t])'
      <3>1. \A i \in DOMAIN <<m>> : i = 1 /\ <<m>>[i] = m
        OBVIOUS
      <3>2. \A i \in DOMAIN hilo'[t].lista :
              Luego(hilo'[t].lista[i]) /\ hilo'[t].lista[i].destino = hilo'[t].pet.destino
        BY <1>4, <3>1
      <3>3. QED
        BY <3>2 DEF ListaFiel, PuntosEnvio, Anotado, Luego
    <2>2. Coherente(hilo[t])'
      <3>1. hilo'[t].lista # <<>>
        OBVIOUS
      <3>2. QED
        BY <3>1 DEF Coherente, Operaciones, PuntosEnvio, PuntosConnect
    <2>3. EntregadoAntes(hilo[t])'
      BY DEF EntregadoAntes
    <2>4. QED
      BY <2>1, <2>2, <2>3 DEF HiloFiel
  <1>9. TypeOK'
    <2>1. \A v \in DOMAIN user' : EstaConectado(v)' <=> user'[v].dir # SinDir
      <3>1. \A v \in DOMAIN user : user[v].estado = CONECTADO <=> user[v].dir # SinDir
        BY DEF IInv, TypeOK, EstaConectado, Conectados
      <3>2. QED
        BY <1>7, <3>1 DEF EstaConectado, Conectados
    <2>2. DOMAIN user' \subseteq Nombres /\ atendidas' \in 0..MaxPeticiones
      BY <1>7 DEF IInv, TypeOK
    <2>3. entregados' \subseteq DOMAIN aceptados' /\ cancelados' \subseteq DOMAIN aceptados'
      BY <1>2 DEF IInv, TypeOK
    <2>4. QED
      BY <1>2, <1>7, <2>1, <2>2, <2>3 DEF TypeOK
  <1>10. ColasFieles'
    <2>1. ASSUME NEW v \in DOMAIN user, v # d, NEW i \in DOMAIN user[v].mensajes
          PROVE  Luego(user[v].mensajes[i]) /\ user[v].mensajes[i].destino = v
      <3>1. user[v].mensajes \in Seq(Mensaje) /\ DOMAIN user[v].mensajes = 1..Len(user[v].mensajes)
        BY ColaDe, LenProperties
      <3>2. user[v].mensajes[i] \in Mensaje
        BY <3>1, ElementOfSeq
      <3>3. QED
        BY <1>4, <3>2, ColaDe
    <2>2. ASSUME NEW v \in DOMAIN user, NEW i \in DOMAIN user'[v].mensajes
          PROVE  Luego(user'[v].mensajes[i]) /\ user'[v].mensajes[i].destino = v
      <3>1. CASE v = d
        BY <1>6, <3>1
      <3>2. CASE v # d
        BY <2>1, <3>2
      <3>3. QED
        BY <3>1, <3>2
    <2>3. QED
      BY <1>7, <2>2 DEF ColasFieles, Anotado, Luego
  <1>11. DestinoVivo'
    BY <1>2, <1>7 DEF IInv, DestinoVivo
  <1>12. QED
    BY <1>3, <1>8, <1>9, <1>10, <1>11, OtrosHilos DEF IInv

LEMMA procesar_envio_comun_Conserva ==
  ASSUME IInv, NEW t \in Hilos, procesar_envio_comun(t)
  PROVE  IInv'
  <1> DEFINE p == hilo[t].pet
             u == p.usuario
             id == SiguienteId(user[u].ultimo_id_msg)
             m == [id |-> id, remitente |-> u, destino |-> p.destino,
                   adjunto |-> p.adjunto, texto |-> Len(aceptados) + 1]
             conId == [user EXCEPT ![u].ultimo_id_msg = id]
             existen == {u, p.destino} \subseteq DOMAIN user
  <1>1. mutex \in Hilos \cup {Nadie} /\ atendidas \in 0..MaxPeticiones
    BY DEF IInv, TypeOK
  <1>2. /\ hilo[t].pc = "SEND" /\ hilo[t].pc \in Operaciones
        /\ UNCHANGED <<atendidas, entregados, cancelados>>
    BY DEF procesar_envio_comun, EnConMutexLibre, En, Operaciones
  <1>3. /\ p \in Peticion /\ p.op = "SEND" /\ u \in Nombres
        /\ p.destino \in Nombres /\ p.adjunto \in Adjuntos
    BY <1>2, HiloDe, PeticionTipo DEF Coherente
  <1>4. CASE Contestar(t, 1) /\ UNCHANGED <<user, mutex, aceptados>>
    <2>1. /\ hilo' \in [Hilos -> Hilo]
          /\ HiloFiel(hilo[t])'
          /\ \A s \in Hilos \ {t} : hilo'[s] = hilo[s]
      BY <1>2, <1>4, ContestarTipos
    <2>2. QED
      BY <1>1, <1>2, <1>4, <2>1, SoloHilo DEF historia
  <1>5. CASE existen /\ user' = conId /\ Contestar(t, 2) /\ UNCHANGED <<mutex, aceptados>>
    <2> DEFINE n == [user[u] EXCEPT !.ultimo_id_msg = id]
    <2>1. /\ u \in DOMAIN user /\ user \in [DOMAIN user -> Nodo] /\ user[u] \in Nodo
          /\ user[u].ultimo_id_msg \in 0..MaxId
      BY <1>5 DEF IInv, TypeOK, Nodo
    <2>2. id \in 0..MaxId
      BY <2>1, SiguienteIdTipo
    <2>3. user' = [user EXCEPT ![u] = n]
      BY <1>5, <2>1
    <2> HIDE DEF id
    <2>4. /\ n \in Nodo /\ n.estado = user[u].estado /\ n.dir = user[u].dir
          /\ n.mensajes = user[u].mensajes
      BY <2>1, <2>2 DEF Nodo
    <2> HIDE DEF n
    <2>5. /\ user' \in [DOMAIN user -> Nodo]
          /\ \A v \in DOMAIN user \ {u} : user'[v] = user[v]
          /\ user'[u] = n
      BY <2>1, <2>3, <2>4
    <2>6. user'[u].estado = CONECTADO <=> user'[u].dir # SinDir
      BY <2>1, <2>4, <2>5 DEF IInv, TypeOK, EstaConectado, Conectados
    <2>7. \A i \in DOMAIN user'[u].mensajes :
            Anotado(user'[u].mensajes[i]) /\ user'[u].mensajes[i].destino = u
      BY <2>1, <2>4, <2>5, ColaDe
    <2>8. /\ hilo' \in [Hilos -> Hilo]
          /\ HiloFiel(hilo[t])'
          /\ \A s \in Hilos \ {t} : hilo'[s] = hilo[s]
      BY <1>2, <1>5, ContestarTipos
    <2>9. UNCHANGED <<mutex, atendidas, historia>>
      BY <1>2, <1>5 DEF historia
    <2>10. QED
      BY <2>1, <2>5, <2>6, <2>7, <2>8, <2>9, CuentaCambia
  <1>6. CASE /\ existen
             /\ user' = [conId EXCEPT ![p.destino].mensajes = Append(@, m)]
             /\ aceptados' = Append(aceptados, m)
             /\ Retener(t)
             /\ hilo' = [hilo EXCEPT ![t].pc = "responder_envio", ![t].lista = <<m>>]
    <2>1. user[u].ultimo_id_msg \in 0..MaxId /\ Len(aceptados) \in Nat
      BY <1>6, ColaDe, LenProperties DEF IInv, TypeOK, Nodo
    <2>2. id \in 1..MaxId
      BY <2>1, SiguienteIdTipo
    <2>3. /\ m.destino = p.destino /\ m.texto = Len(aceptados) + 1 /\ m.id = id
      OBVIOUS
    <2>4. mutex' \in Hilos \cup {Nadie} /\ u \in DOMAIN user /\ p.destino \in DOMAIN user
      BY <1>6 DEF Retener
    <2> HIDE DEF id
    <2>5. m \in Mensaje
      BY <1>3, <2>1, <2>2 DEF Mensaje
    <2> HIDE DEF m
    <2>6. /\ user' \in [DOMAIN user -> Nodo]
          /\ user'[p.destino].mensajes = Append(user[p.destino].mensajes, m)
          /\ \A v \in DOMAIN user : user'[v].estado = user[v].estado /\ user'[v].dir = user[v].dir
          /\ \A v \in DOMAIN user \ {p.destino} : user'[v].mensajes = user[v].mensajes
      <3>1. user' = [[user EXCEPT ![u].ultimo_id_msg = id]
                       EXCEPT ![p.destino].mensajes = Append(@, m)]
        BY <1>6
      <3> HIDE DEF u, p
      <3>2. QED
        BY <2>2, <2>4, <2>5, <3>1, ColaCrece
    <2>7. /\ hilo' \in [Hilos -> Hilo]
          /\ \A s \in Hilos \ {t} : hilo'[s] = hilo[s]
          /\ hilo'[t].pc = "responder_envio"
          /\ hilo'[t].lista = <<m>>
          /\ hilo'[t].pet = hilo[t].pet
      <3>1. hilo' = [hilo EXCEPT ![t].pc = "responder_envio", ![t].lista = <<m>>]
        BY <1>6
      <3>2. QED
        BY <3>1, <2>5, CopiaPropia
    <2>8. QED
      BY <1>2, <1>3, <1>6, <2>3, <2>4, <2>5, <2>6, <2>7, AceptarEnvio
  <1>7. QED
    BY <1>4, <1>5, <1>6 DEF procesar_envio_comun
-----------------------------------------------------------------------------
(***************************************************************************)
(* The invariant, and the theorems.                                        *)
(***************************************************************************)
LEMMA InitIInv ==
  Init => IInv
  <1> SUFFICES ASSUME Init PROVE IInv
    OBVIOUS
  <1>1. DOMAIN user = {} /\ DOMAIN aceptados = {}
    BY DEF Init
  <1>2. \A t \in Hilos : hilo[t] = HiloLibre
    BY DEF Init
  <1>3. TypeOK
    <2>1. user \in [DOMAIN user -> Nodo]
      BY <1>1 DEF Init
    <2>2. hilo \in [Hilos -> Hilo]
      BY LibreFiel DEF Init
    <2>3. atendidas \in 0..MaxPeticiones
      BY ConstantesServer DEF Init
    <2>4. QED
      BY <1>1, <2>1, <2>2, <2>3 DEF Init, TypeOK
  <1>4. HilosFieles
    BY <1>2, LibreFiel DEF HilosFieles
  <1>5. ColasFieles /\ DestinoVivo
    BY <1>1 DEF ColasFieles, DestinoVivo
  <1>6. QED
    BY <1>3, <1>4, <1>5 DEF IInv

(* Every step, of any thread, preserves the invariant. *)
LEMMA IInvInductivo ==
  IInv /\ [Next]_vars => IInv'
  <1> SUFFICES ASSUME IInv, [Next]_vars PROVE IInv'
    OBVIOUS
  <1>1. CASE UNCHANGED vars
    <2>1. TypeOK'
      BY <1>1 DEF IInv, TypeOK, EstaConectado, Conectados, vars
    <2>2. ColasFieles' /\ DestinoVivo'
      BY <1>1 DEF IInv, ColasFieles, DestinoVivo, Anotado, vars
    <2>3. HilosFieles'
      BY <1>1 DEF IInv, HilosFieles, HiloFiel, ListaFiel, Anotado, Coherente,
                  EntregadoAntes, vars
    <2>4. QED
      BY <2>1, <2>2, <2>3 DEF IInv
  <1>2. ASSUME NEW t \in Hilos, NEW p \in Peticiones, procesar_peticion(t, p)
        PROVE  IInv'
    BY <1>2, procesar_peticion_Conserva
  <1>3. ASSUME NEW t \in Hilos, Paso(t)
        PROVE  IInv'
    BY <1>3, procesar_register_Conserva, procesar_unregister_Conserva,
       procesar_connect_Conserva, procesar_disconnect_Conserva, responder_Conserva,
       procesar_users_Conserva, listar_conectados_Conserva,
       procesar_envio_comun_Conserva, responder_envio_Conserva,
       envio_entregar_Conserva, envio_ack_Conserva, eliminar_mensaje_cola_Conserva,
       desconectar_destino_Conserva, entregar_pendiente_Conserva,
       buscar_remitente_Conserva, ack_pendiente_Conserva, reencolar_Conserva
       DEF Paso
  <1>4. QED
    BY <1>1, <1>2, <1>3 DEF Next, EsperaEnAccept

(* In every behaviour, whatever the names, addresses, attachments, threads *)
(* and bounds: the queues hold accepted messages for their owner, a thread *)
(* that unlinks or frees a node has delivered what it carries, and every   *)
(* message not cancelled has a receiver (operaciones.c, all handlers).     *)
THEOREM Invariante == Spec => []IInv
  <1>1. QED
    BY InitIInv, IInvInductivo, PTL DEF Spec

(* The variables keep their ranges: ids in 1..UINT_MAX through the wrap,   *)
(* and a user is connected exactly when its address is not cleared.        *)
THEOREM TipoCorrecto == Spec => []TypeOK
  <1>1. IInv => TypeOK
    BY DEF IInv
  <1>2. QED
    BY <1>1, Invariante, PTL
-----------------------------------------------------------------------------
(***************************************************************************)
(* The sections that hold the mutex across a write.                        *)
(***************************************************************************)
Dentro == {"listar", "responder_envio"}

(* SeccionCritica makes UsersInstantanea inductive: while a thread lists   *)
(* the users, the mutex is its own, and the others wait.                   *)
ISeccion == SeccionCritica /\ UsersInstantanea

(* A thread that stays outside, and only touches the users if nobody is    *)
(* inside.                                                                 *)
LEMMA Fuera ==
  ASSUME ISeccion, NEW t \in Hilos, \A s \in Hilos \ {t} : hilo'[s] = hilo[s],
         hilo[t].pc \notin Dentro, hilo'[t].pc \notin Dentro,
         UNCHANGED mutex, mutex = Nadie \/ UNCHANGED user
  PROVE  ISeccion'
  <1>1. SeccionCritica'
    BY DEF ISeccion, SeccionCritica, Dentro
  <1>2. CASE mutex = Nadie
    <2>1. \A s \in Hilos : hilo'[s].pc # "listar"
      BY <1>1, <1>2, ConstantesServer DEF SeccionCritica
    <2>2. QED
      BY <1>1, <2>1 DEF ISeccion, UsersInstantanea, En
  <1>3. CASE UNCHANGED user
    <2>1. Conectados' = Conectados
      BY <1>3 DEF Conectados
    <2>2. UsersInstantanea'
      BY <2>1 DEF ISeccion, UsersInstantanea, En, Dentro
    <2>3. QED
      BY <1>1, <2>2 DEF ISeccion
  <1>4. QED
    BY <1>2, <1>3

LEMMA Entrar ==
  ASSUME ISeccion, NEW t \in Hilos, \A s \in Hilos \ {t} : hilo'[s] = hilo[s],
         mutex = Nadie, Retener(t), hilo'[t].pc \in Dentro,
         \/ hilo'[t].pc # "listar"
         \/ UNCHANGED user /\ hilo'[t].res = Cardinality(Conectados)
  PROVE  ISeccion'
  <1>1. \A s \in Hilos \ {t} : hilo'[s].pc \notin Dentro /\ mutex' # s
    BY ConstantesServer DEF ISeccion, SeccionCritica, Retener, Dentro
  <1>2. SeccionCritica'
    BY <1>1 DEF SeccionCritica, Retener, Dentro
  <1>3. UNCHANGED user => Conectados' = Conectados
    BY DEF Conectados
  <1>4. UsersInstantanea'
    BY <1>1, <1>3 DEF UsersInstantanea, En, Dentro
  <1>5. QED
    BY <1>2, <1>4 DEF ISeccion

LEMMA Salir ==
  ASSUME ISeccion, NEW t \in Hilos, \A s \in Hilos \ {t} : hilo'[s] = hilo[s],
         hilo[t].pc \in Dentro, hilo'[t].pc \notin Dentro, mutex' = Nadie
  PROVE  ISeccion'
  <1>1. mutex = t
    BY DEF ISeccion, SeccionCritica, Dentro
  <1>2. \A s \in Hilos : hilo'[s].pc \notin Dentro /\ mutex' # s
    BY <1>1, ConstantesServer DEF ISeccion, SeccionCritica, Dentro
  <1>3. QED
    BY <1>2 DEF ISeccion, SeccionCritica, UsersInstantanea, En, Dentro

(* Where a thread is after each way of moving on. *)
LEMMA PuntoTras ==
  ASSUME IInv, NEW t \in Hilos
  PROVE  /\ Terminar(t) => /\ hilo'[t].pc = "libre"
                           /\ \A s \in Hilos \ {t} : hilo'[s] = hilo[s]
         /\ \A punto : IrA(t, punto) => /\ hilo'[t].pc = punto
                                        /\ \A s \in Hilos \ {t} : hilo'[s] = hilo[s]
         /\ \A r : Contestar(t, r) => /\ hilo'[t].pc = "responder"
                                      /\ \A s \in Hilos \ {t} : hilo'[s] = hilo[s]
  <1>1. Terminar(t) => /\ hilo'[t].pc = "libre"
                       /\ \A s \in Hilos \ {t} : hilo'[s] = hilo[s]
    BY TerminarTipos DEF HiloLibre
  <1>2. ASSUME NEW punto, IrA(t, punto)
        PROVE  /\ hilo'[t].pc = punto
               /\ \A s \in Hilos \ {t} : hilo'[s] = hilo[s]
    <2>1. /\ hilo'[t] = [hilo[t] EXCEPT !.pc = punto]
          /\ \A s \in Hilos \ {t} : hilo'[s] = hilo[s]
      BY <1>2, HiloDe DEF IrA
    <2>2. QED
      BY <2>1, HiloDe DEF Hilo
  <1>3. ASSUME NEW r, Contestar(t, r)
        PROVE  /\ hilo'[t].pc = "responder"
               /\ \A s \in Hilos \ {t} : hilo'[s] = hilo[s]
    <2>1. /\ hilo'[t] = [hilo[t] EXCEPT !.pc = "responder", !.res = r]
          /\ \A s \in Hilos \ {t} : hilo'[s] = hilo[s]
      BY <1>3, HiloDe DEF Contestar
    <2>2. QED
      BY <2>1, HiloDe DEF Hilo
  <1>4. QED
    BY <1>1, <1>2, <1>3

(* Avanzar ends or goes back to the delivery of the next message. *)
LEMMA PuntoTrasAvanzar ==
  ASSUME IInv, NEW t \in Hilos, Avanzar(t)
  PROVE  /\ hilo'[t].pc \in {"libre", "entregar"}
         /\ \A s \in Hilos \ {t} : hilo'[s] = hilo[s]
  <1> DEFINE resto == Tail(hilo[t].lista)
  <1>1. CASE resto = <<>>
    BY <1>1, PuntoTras DEF Avanzar
  <1>2. CASE resto # <<>>
    <2> DEFINE h == [hilo[t] EXCEPT !.pc = "entregar", !.lista = resto, !.rem = SinDir]
    <2>1. hilo' = [hilo EXCEPT ![t] = h] /\ h.pc = "entregar"
      BY <1>2, HiloDe DEF Avanzar, Hilo
    <2> HIDE DEF h
    <2>2. QED
      BY <2>1, HiloDe
  <1>3. QED
    BY <1>1, <1>2
-----------------------------------------------------------------------------
LEMMA PasoSeccion ==
  ASSUME IInv, ISeccion, NEW t \in Hilos, Paso(t)
  PROVE  ISeccion'
  <1>1. CASE procesar_register(t)
    BY <1>1, PuntoTras, Fuera DEF procesar_register, EnConMutexLibre, En, Dentro
  <1>2. CASE procesar_unregister(t)
    BY <1>2, PuntoTras, Fuera DEF procesar_unregister, EnConMutexLibre, En, Dentro
  <1>3. CASE procesar_connect(t)
    <2> DEFINE u == hilo[t].pet.usuario
               d == hilo[t].pet.dir
               h == [hilo[t] EXCEPT !.pc = "responder", !.res = 0,
                                    !.lista = user[u].mensajes, !.dest = d]
    <2>1. /\ hilo[t].pc \notin Dentro /\ mutex = Nadie /\ UNCHANGED mutex
      BY <1>3 DEF procesar_connect, EnConMutexLibre, En, Dentro
    <2>2. ASSUME NEW r, Contestar(t, r) PROVE ISeccion'
      BY <2>1, <2>2, PuntoTras, Fuera DEF Dentro
    <2>3. CASE hilo' = [hilo EXCEPT ![t].pc = "responder", ![t].res = 0,
                                    ![t].lista = user[u].mensajes, ![t].dest = d]
      <3>1. hilo' = [hilo EXCEPT ![t] = h] /\ h.pc = "responder"
        BY <2>3, HiloDe DEF Hilo
      <3> HIDE DEF h
      <3>2. hilo'[t].pc = "responder" /\ \A s \in Hilos \ {t} : hilo'[s] = hilo[s]
        BY <3>1, HiloDe
      <3>3. QED
        BY <2>1, <3>2, Fuera DEF Dentro
    <2>4. QED
      BY <1>3, <2>2, <2>3 DEF procesar_connect
  <1>4. CASE procesar_disconnect(t)
    BY <1>4, PuntoTras, Fuera DEF procesar_disconnect, EnConMutexLibre, En, Dentro
  <1>5. CASE responder(t)
    BY <1>5, PuntoTras, Fuera DEF responder, En, Dentro
  <1>6. CASE procesar_users(t)
    <2> DEFINE c == Cardinality(Conectados)
               h == [hilo[t] EXCEPT !.pc = "listar", !.res = c]
    <2>1. /\ hilo[t].pc \notin Dentro /\ mutex = Nadie /\ UNCHANGED user
      BY <1>6 DEF procesar_users, EnConMutexLibre, En, Dentro
    <2>2. ASSUME NEW r, Contestar(t, r), UNCHANGED mutex PROVE ISeccion'
      BY <2>1, <2>2, PuntoTras, Fuera DEF Dentro
    <2>3. CASE Retener(t) /\ hilo' = [hilo EXCEPT ![t].pc = "listar", ![t].res = c]
      <3>1. hilo' = [hilo EXCEPT ![t] = h] /\ h.pc = "listar" /\ h.res = c
        BY <2>3, HiloDe DEF Hilo
      <3> HIDE DEF h
      <3>2. /\ hilo'[t].pc = "listar" /\ hilo'[t].res = c
            /\ \A s \in Hilos \ {t} : hilo'[s] = hilo[s]
        BY <3>1, HiloDe
      <3>3. QED
        BY <2>1, <2>3, <3>2, Entrar DEF Dentro
    <2>4. QED
      BY <1>6, <2>2, <2>3 DEF procesar_users
  <1>7. CASE listar_conectados(t)
    BY <1>7, PuntoTras, Salir DEF listar_conectados, En, Dentro
  <1>8. CASE procesar_envio_comun(t)
    <2>1. hilo[t].pc \notin Dentro /\ mutex = Nadie
      BY <1>8 DEF procesar_envio_comun, EnConMutexLibre, En, Dentro
    <2>2. ASSUME NEW r, Contestar(t, r), UNCHANGED mutex PROVE ISeccion'
      BY <2>1, <2>2, PuntoTras, Fuera DEF Dentro
    <2>3. ASSUME NEW m, Retener(t),
                 hilo' = [hilo EXCEPT ![t].pc = "responder_envio", ![t].lista = <<m>>]
          PROVE  ISeccion'
      <3> DEFINE h == [hilo[t] EXCEPT !.pc = "responder_envio", !.lista = <<m>>]
      <3>1. hilo' = [hilo EXCEPT ![t] = h] /\ h.pc = "responder_envio"
        BY <2>3, HiloDe DEF Hilo
      <3> HIDE DEF h
      <3>2. hilo'[t].pc = "responder_envio" /\ \A s \in Hilos \ {t} : hilo'[s] = hilo[s]
        BY <3>1, HiloDe
      <3>3. QED
        BY <2>1, <2>3, <3>2, Entrar DEF Dentro
    <2>4. QED
      BY <1>8, <2>2, <2>3 DEF procesar_envio_comun
  <1>9. CASE responder_envio(t)
    <2> DEFINE dest == user[hilo[t].pet.destino].dir
               rem == IF EstaConectado(hilo[t].pet.usuario)
                      THEN user[hilo[t].pet.usuario].dir ELSE SinDir
               h == [hilo[t] EXCEPT !.pc = "envio_entregar", !.dest = dest, !.rem = rem]
    <2>1. hilo[t].pc \in Dentro /\ mutex' = Nadie
      BY <1>9 DEF responder_envio, En, Dentro
    <2>2. CASE Terminar(t)
      BY <2>1, <2>2, PuntoTras, Salir DEF Dentro
    <2>3. CASE hilo' = [hilo EXCEPT ![t].pc = "envio_entregar", ![t].dest = dest,
                                    ![t].rem = rem]
      <3> HIDE DEF dest, rem
      <3>1. hilo' = [hilo EXCEPT ![t] = h] /\ h.pc = "envio_entregar"
        BY <2>3, HiloDe DEF Hilo
      <3> HIDE DEF h
      <3>2. hilo'[t].pc = "envio_entregar" /\ \A s \in Hilos \ {t} : hilo'[s] = hilo[s]
        BY <3>1, HiloDe
      <3>3. QED
        BY <2>1, <3>2, Salir DEF Dentro
    <2>4. QED
      BY <1>9, <2>2, <2>3 DEF responder_envio
  <1>10. CASE envio_entregar(t)
    <2>1. /\ hilo[t].pc \notin Dentro /\ UNCHANGED <<user, mutex>>
          /\ \E punto \in {"envio_ack", "eliminar", "desconectar"} : IrA(t, punto)
      BY <1>10 DEF envio_entregar, En, Dentro
    <2>2. QED
      BY <2>1, PuntoTras, Fuera DEF Dentro
  <1>11. CASE envio_ack(t)
    BY <1>11, PuntoTras, Fuera DEF envio_ack, En, Dentro
  <1>12. CASE eliminar_mensaje_cola(t)
    BY <1>12, PuntoTras, Fuera DEF eliminar_mensaje_cola, EnConMutexLibre, En, Dentro
  <1>13. CASE desconectar_destino(t)
    BY <1>13, PuntoTras, Fuera DEF desconectar_destino, EnConMutexLibre, En, Dentro
  <1>14. CASE entregar_pendiente(t)
    BY <1>14, PuntoTras, Fuera DEF entregar_pendiente, En, Dentro
  <1>15. CASE buscar_remitente(t)
    <2> DEFINE d == user[Head(hilo[t].lista).remitente].dir
               h == [hilo[t] EXCEPT !.pc = "ack_pendiente", !.rem = d]
    <2>1. hilo[t].pc \notin Dentro /\ UNCHANGED <<user, mutex>>
      BY <1>15 DEF buscar_remitente, EnConMutexLibre, En, Dentro
    <2>2. CASE Avanzar(t)
      BY <2>1, <2>2, PuntoTrasAvanzar, Fuera DEF Dentro
    <2>3. CASE hilo' = [hilo EXCEPT ![t].pc = "ack_pendiente", ![t].rem = d]
      <3> HIDE DEF d
      <3>1. hilo' = [hilo EXCEPT ![t] = h] /\ h.pc = "ack_pendiente"
        BY <2>3, HiloDe DEF Hilo
      <3> HIDE DEF h
      <3>2. hilo'[t].pc = "ack_pendiente" /\ \A s \in Hilos \ {t} : hilo'[s] = hilo[s]
        BY <3>1, HiloDe
      <3>3. QED
        BY <2>1, <3>2, Fuera DEF Dentro
    <2>4. QED
      BY <1>15, <2>2, <2>3 DEF buscar_remitente
  <1>16. CASE ack_pendiente(t)
    BY <1>16, PuntoTrasAvanzar, Fuera DEF ack_pendiente, En, Dentro
  <1>17. CASE reencolar(t)
    BY <1>17, PuntoTras, Fuera DEF reencolar, EnConMutexLibre, En, Dentro
  <1>18. QED
    BY <1>1, <1>2, <1>3, <1>4, <1>5, <1>6, <1>7, <1>8, <1>9, <1>10, <1>11,
       <1>12, <1>13, <1>14, <1>15, <1>16, <1>17 DEF Paso

LEMMA PeticionSeccion ==
  ASSUME IInv, ISeccion, NEW t \in Hilos, NEW p \in Peticiones, procesar_peticion(t, p)
  PROVE  ISeccion'
  <1>1. /\ hilo'[t] = [hilo[t] EXCEPT !.pc = p.op, !.pet = p]
        /\ \A s \in Hilos \ {t} : hilo'[s] = hilo[s]
    BY HiloDe DEF procesar_peticion
  <1>2. hilo'[t].pc = p.op /\ p.op \in Operaciones
    BY <1>1, HiloDe, ConstantesServer, PeticionTipo DEF Hilo
  <1>3. QED
    BY <1>1, <1>2, Fuera DEF procesar_peticion, En, Dentro, Operaciones

LEMMA SeccionInductiva ==
  IInv /\ ISeccion /\ [Next]_vars => ISeccion'
  <1> SUFFICES ASSUME IInv, ISeccion, [Next]_vars PROVE ISeccion'
    OBVIOUS
  <1>1. CASE UNCHANGED vars
    BY <1>1 DEF ISeccion, SeccionCritica, UsersInstantanea, En, Conectados, vars
  <1>2. ASSUME NEW t \in Hilos, NEW p \in Peticiones, procesar_peticion(t, p)
        PROVE  ISeccion'
    BY <1>2, PeticionSeccion
  <1>3. ASSUME NEW t \in Hilos, Paso(t) PROVE ISeccion'
    BY <1>3, PasoSeccion
  <1>4. QED
    BY <1>1, <1>2, <1>3 DEF Next, EsperaEnAccept

LEMMA SeccionInvariante == Spec => []ISeccion
  <1>1. Init => ISeccion
    BY ConstantesServer DEF Init, HiloLibre, ISeccion, SeccionCritica, UsersInstantanea, En
  <1>2. QED
    BY <1>1, SeccionInductiva, Invariante, PTL DEF Spec

(* At most one thread is inside a critical section that writes to its      *)
(* client, and it holds the mutex (operaciones.c:585-612, 732-755).        *)
THEOREM Exclusion == Spec => []SeccionCritica
  <1>1. ISeccion => SeccionCritica
    BY DEF ISeccion
  <1>2. QED
    BY <1>1, SeccionInvariante, PTL

(* USERS lists as many users as it said it would (operaciones.c:589-611).  *)
THEOREM ListaInstantanea == Spec => []UsersInstantanea
  <1>1. ISeccion => UsersInstantanea
    BY DEF ISeccion
  <1>2. QED
    BY <1>1, SeccionInvariante, PTL
-----------------------------------------------------------------------------
(***************************************************************************)
(* What is left of a queue.                                                *)
(***************************************************************************)
(* The nodes of r are nodes of q, in the places f, all different, of T. *)
Encaja(f, r, q, T) ==
  /\ f \in [DOMAIN r -> T]
  /\ \A i \in DOMAIN r : r[i] = q[f[i]]
  /\ \A i, j \in DOMAIN r : f[i] = f[j] => i = j

Parte(r, q) == \E f : Encaja(f, r, q, DOMAIN q)

LEMMA ParteIgual ==
  ASSUME NEW q
  PROVE  Parte(q, q)
  <1> DEFINE f == [i \in DOMAIN q |-> i]
  <1>1. f \in [DOMAIN q -> DOMAIN q] /\ \A i \in DOMAIN q : f[i] = i
    OBVIOUS
  <1> HIDE DEF f
  <1>2. QED
    BY <1>1 DEF Parte, Encaja

LEMMA ParteVacia ==
  ASSUME NEW q
  PROVE  Parte(<<>>, q)
  <1> DEFINE f == [i \in {} |-> i]
  <1>1. DOMAIN <<>> = {} /\ f \in [{} -> DOMAIN q]
    OBVIOUS
  <1> HIDE DEF f
  <1>2. QED
    BY <1>1 DEF Parte, Encaja

(* What is left repeats no message if the queue did not. *)
LEMMA ParteTextos ==
  ASSUME NEW r, NEW q, Parte(r, q)
  PROVE  /\ Textos(r) \subseteq Textos(q)
         /\ SinRepetir(q) => SinRepetir(r)
  <1>1. PICK f : /\ f \in [DOMAIN r -> DOMAIN q]
                  /\ \A i \in DOMAIN r : r[i] = q[f[i]]
                  /\ \A j, k \in DOMAIN r : f[j] = f[k] => j = k
    BY DEF Parte, Encaja
  <1>2. \A i \in DOMAIN r : f[i] \in DOMAIN q
    BY <1>1
  <1>3. Textos(r) \subseteq Textos(q)
    BY <1>1, <1>2 DEF Textos
  <1>4. SinRepetir(q) => SinRepetir(r)
    BY <1>1, <1>2 DEF SinRepetir
  <1>5. QED
    BY <1>3, <1>4

LEMMA ParteDeCola ==
  ASSUME NEW S, NEW q \in Seq(S), q # <<>>
  PROVE  Parte(Tail(q), q)
  <1> DEFINE r == Tail(q)
             f == [i \in DOMAIN r |-> i + 1]
  <1>1. /\ r \in Seq(S) /\ Len(r) = Len(q) - 1
        /\ \A i \in 1..Len(r) : r[i] = q[i + 1]
    BY HeadTailProperties
  <1>2. /\ DOMAIN r = 1..Len(r) /\ DOMAIN q = 1..Len(q) /\ Len(q) \in Nat
    BY <1>1, LenProperties
  <1> HIDE DEF r
  <1>3. \A i \in DOMAIN r : i + 1 \in DOMAIN q /\ i \in Int
    BY <1>1, <1>2
  <1>4. f \in [DOMAIN r -> DOMAIN q] /\ \A i \in DOMAIN r : f[i] = i + 1
    BY <1>3
  <1> HIDE DEF f
  <1>5. \A i \in DOMAIN r : r[i] = q[f[i]]
    BY <1>1, <1>2, <1>4
  <1>6. \A i, j \in DOMAIN r : f[i] = f[j] => i = j
    BY <1>3, <1>4
  <1>7. QED
    BY <1>4, <1>5, <1>6 DEF Parte, Encaja, r

(* The places of the nodes that are left, around the one that was taken. *)
LEMMA ParteAlQuitar ==
  ASSUME NEW q, NEW r, NEW n \in Nat, DOMAIN q = 1..n, NEW p \in 1..n,
         DOMAIN r = 1..(n - 1),
         \A k \in 1..(n - 1) : r[k] = IF k <= p - 1 THEN q[k] ELSE q[k + 1]
  PROVE  \E f : Encaja(f, r, q, DOMAIN q \ {p})
  <1> DEFINE f == [i \in 1..(n - 1) |-> IF i <= p - 1 THEN i ELSE i + 1]
  <1>1. \A i \in 1..(n - 1) : (IF i <= p - 1 THEN i ELSE i + 1) \in (1..n) \ {p}
    OBVIOUS
  <1>2. /\ f \in [1..(n - 1) -> (1..n) \ {p}]
        /\ \A i \in 1..(n - 1) : f[i] = IF i <= p - 1 THEN i ELSE i + 1
    BY <1>1
  <1> HIDE DEF f
  <1>3. \A i \in 1..(n - 1) : r[i] = q[f[i]]
    BY <1>2
  <1>4. \A i, j \in 1..(n - 1) : f[i] = f[j] => i = j
    BY <1>2
  <1>5. QED
    BY <1>2, <1>3, <1>4 DEF Encaja

LEMMA ParteSinMensaje ==
  ASSUME NEW S, NEW q \in Seq(S), NEW m
  PROVE  Parte(SinMensaje(q, m), q)
  <1> DEFINE r == SinMensaje(q, m)
  <1>1. Len(q) \in Nat /\ DOMAIN q = 1..Len(q)
    BY LenProperties
  <1>2. CASE r = q
    BY <1>2, ParteIgual
  <1>3. ASSUME NEW p \in DOMAIN q, DOMAIN r = 1..(Len(q) - 1),
               \A k \in 1..(Len(q) - 1) : r[k] = IF k <= p - 1 THEN q[k] ELSE q[k + 1]
        PROVE  Parte(r, q)
    <2> HIDE DEF r
    <2> DEFINE n == Len(q)
    <2>1. n \in Nat /\ DOMAIN q = 1..n /\ p \in 1..n
      BY <1>1, <1>3
    <2>2. /\ DOMAIN r = 1..(n - 1)
          /\ \A k \in 1..(n - 1) : r[k] = IF k <= p - 1 THEN q[k] ELSE q[k + 1]
      BY <1>3
    <2> HIDE DEF n
    <2>3. PICK f : Encaja(f, r, q, DOMAIN q \ {p})
      BY <2>1, <2>2, ParteAlQuitar
    <2>4. QED
      BY <2>3 DEF Parte, Encaja
  <1> HIDE DEF r
  <1>4. QED
    BY <1>2, <1>3, SinMensajeForma DEF r

(***************************************************************************)
(* How many messages like one there are in a queue.                        *)
(***************************************************************************)
IgualesEn(T, q, k) == {i \in T : Clave(q[i]) = k}

LEMMA IgualesFinito ==
  ASSUME NEW S, NEW q \in Seq(S), NEW k
  PROVE  IsFiniteSet(Iguales(q, k)) /\ Cardinality(Iguales(q, k)) \in Nat
  <1>1. Len(q) \in Nat /\ DOMAIN q = 1..Len(q)
    BY LenProperties
  <1>2. IsFiniteSet(1..Len(q))
    BY <1>1, FS_Interval
  <1>3. Iguales(q, k) \in SUBSET (1..Len(q))
    BY <1>1 DEF Iguales
  <1>4. IsFiniteSet(Iguales(q, k))
    BY <1>2, <1>3, FS_Subset
  <1>5. QED
    BY <1>4, FS_CardinalityType

(* Nodes that are found, each in a place of its own, among those of T. *)
LEMMA IgualesCaben ==
  ASSUME NEW r, NEW q, NEW k, NEW T, IsFiniteSet(T),
         NEW f, Encaja(f, r, q, T)
  PROVE  Cardinality(Iguales(r, k)) <= Cardinality(IgualesEn(T, q, k))
  <1> DEFINE A == Iguales(r, k)
             B == IgualesEn(T, q, k)
             g == [i \in A |-> f[i]]
  <1>1. IsFiniteSet(B)
    BY FS_Subset DEF IgualesEn
  <1>2. A \subseteq DOMAIN r /\ \A i \in A : Clave(r[i]) = k
    BY DEF Iguales
  <1>3. \A i \in A : f[i] \in B
    BY <1>2 DEF Encaja, IgualesEn
  <1> HIDE DEF A, B
  <1>4. g \in [A -> B] /\ \A i, j \in A : g[i] = g[j] => i = j
    BY <1>2, <1>3 DEF Encaja
  <1>5. g \in Injection(A, B)
    BY <1>4 DEF Injection, IsInjective
  <1>6. QED
    BY <1>1, <1>5, FS_Injection DEF A, B

LEMMA ParteIguales ==
  ASSUME NEW S, NEW q \in Seq(S), NEW r, Parte(r, q), NEW k
  PROVE  Cardinality(Iguales(r, k)) <= Cardinality(Iguales(q, k))
  <1>1. IsFiniteSet(DOMAIN q)
    <2>1. Len(q) \in Nat /\ DOMAIN q = 1..Len(q)
      BY LenProperties
    <2>2. QED
      BY <2>1, FS_Interval
  <1>2. PICK f : Encaja(f, r, q, DOMAIN q)
    BY DEF Parte
  <1>3. Iguales(q, k) = IgualesEn(DOMAIN q, q, k)
    BY DEF Iguales, IgualesEn
  <1>4. QED
    BY <1>1, <1>2, <1>3, IgualesCaben

(* Taking one away is taking one like it away. *)
LEMMA UnoMenos ==
  ASSUME NEW S, NEW q \in Seq(S), NEW m, Iguales(SinMensaje(q, m), Clave(m)) # {}
  PROVE  Cardinality(Iguales(SinMensaje(q, m), Clave(m)))
           <= Cardinality(Iguales(q, Clave(m))) - 1
  <1> DEFINE r == SinMensaje(q, m)
             k == Clave(m)
  <1>1. Len(q) \in Nat /\ DOMAIN q = 1..Len(q) /\ IsFiniteSet(DOMAIN q)
    BY LenProperties, FS_Interval
  <1>2. ~(r = q /\ \A i \in DOMAIN q : Clave(q[i]) # k)
    BY DEF Iguales
  <1>3. PICK p \in DOMAIN q :
               /\ Clave(q[p]) = k
               /\ DOMAIN r = 1..(Len(q) - 1)
               /\ \A i \in 1..(Len(q) - 1) : r[i] = IF i <= p - 1 THEN q[i] ELSE q[i + 1]
    BY <1>2, SinMensajeForma
  <1> DEFINE n == Len(q)
  <1>a. n \in Nat /\ DOMAIN q = 1..n /\ p \in 1..n
    BY <1>1, <1>3
  <1>b. /\ DOMAIN r = 1..(n - 1)
        /\ \A i \in 1..(n - 1) : r[i] = IF i <= p - 1 THEN q[i] ELSE q[i + 1]
    BY <1>3
  <1> HIDE DEF r, k, n
  <1>4. PICK f : Encaja(f, r, q, DOMAIN q \ {p})
    BY <1>a, <1>b, ParteAlQuitar
  <1>5. IsFiniteSet(DOMAIN q \ {p})
    BY <1>1, FS_RemoveElement
  <1>6. Cardinality(Iguales(r, k)) <= Cardinality(IgualesEn(DOMAIN q \ {p}, q, k))
    BY <1>4, <1>5, IgualesCaben
  <1>7. IgualesEn(DOMAIN q \ {p}, q, k) = Iguales(q, k) \ {p}
    BY DEF Iguales, IgualesEn
  <1>8. p \in Iguales(q, k) /\ IsFiniteSet(Iguales(q, k))
    BY <1>3, IgualesFinito DEF Iguales
  <1>9. Cardinality(Iguales(q, k) \ {p}) = Cardinality(Iguales(q, k)) - 1
    BY <1>8, FS_RemoveElement
  <1>10. QED
    BY <1>6, <1>7, <1>9 DEF r, k

LEMMA UnoMas ==
  ASSUME NEW S, NEW q \in Seq(S), NEW m \in S, NEW k
  PROVE  Cardinality(Iguales(Append(q, m), k)) =
           Cardinality(Iguales(q, k)) + (IF Clave(m) = k THEN 1 ELSE 0)
  <1> DEFINE r == Append(q, m)
             n == Len(q) + 1
  <1>1. /\ r \in Seq(S) /\ Len(r) = n /\ r[n] = m
        /\ \A i \in 1..Len(q) : r[i] = q[i]
    BY AppendProperties
  <1>2. /\ Len(q) \in Nat /\ DOMAIN q = 1..Len(q) /\ DOMAIN r = 1..Len(r)
    BY <1>1, LenProperties
  <1> HIDE DEF r
  <1>3. DOMAIN r = DOMAIN q \cup {n} /\ n \notin DOMAIN q
    BY <1>1, <1>2
  <1> HIDE DEF n
  <1>4. Iguales(r, k) = IF Clave(m) = k THEN Iguales(q, k) \cup {n} ELSE Iguales(q, k)
    <2>1. \A i \in DOMAIN q : r[i] = q[i]
      BY <1>1, <1>2
    <2>2. QED
      BY <1>1, <1>3, <2>1 DEF Iguales
  <1>5. IsFiniteSet(Iguales(q, k)) /\ n \notin Iguales(q, k)
    BY <1>3, IgualesFinito DEF Iguales
  <1>6. Cardinality(Iguales(q, k) \cup {n}) = Cardinality(Iguales(q, k)) + 1
    BY <1>5, FS_AddElement
  <1>7. Cardinality(Iguales(q, k)) \in Nat
    BY IgualesFinito
  <1>8. QED
    BY <1>4, <1>6, <1>7 DEF r
-----------------------------------------------------------------------------
(***************************************************************************)
(* The inductive invariant: IInv, with one owner for each node and a SEND  *)
(* thread for each message in the queue of a connected user.               *)
(***************************************************************************)
IDueno == UnSoloDueno /\ SinVarados

LEMMA SonTextos ==
  /\ \A u \in Nombres : EnCola(u) = Textos(Cola(u))
  /\ \A t \in Hilos : EnMano(t) = Textos(Mano(t))
  /\ Textos(<<>>) = {} /\ SinRepetir(<<>>)
  BY DEF EnCola, EnMano, Cola, Mano, Textos, SinRepetir

LEMMA SonTextosDespues ==
  /\ \A u \in Nombres : EnCola(u)' = Textos(Cola(u)')
  /\ \A t \in Hilos : EnMano(t)' = Textos(Mano(t)')
  /\ \A u \in Nombres : SinRepetir(Cola(u))' <=> SinRepetir(Cola(u)')
  /\ \A t \in Hilos : SinRepetir(Mano(t))' <=> SinRepetir(Mano(t)')
  BY DEF EnCola, EnMano, Cola, Mano, Textos, SinRepetir

LEMMA TipoColas ==
  ASSUME IInv
  PROVE  /\ \A u : Cola(u) \in Seq(Mensaje)
         /\ \A t \in Hilos : Mano(t) \in Seq(Mensaje)
  <1>1. <<>> \in Seq(Mensaje)
    BY EmptySeq
  <1>2. QED
    BY <1>1, ColaDe, HiloDe DEF Cola, Mano, Hilo

LEMMA EnvianFinito ==
  ASSUME NEW k
  PROVE  IsFiniteSet(Envian(k)) /\ Cardinality(Envian(k)) \in Nat
  <1>1. Envian(k) \in SUBSET Hilos
    BY DEF Envian
  <1>2. IsFiniteSet(Envian(k))
    BY <1>1, ConstantesServer, FS_Subset
  <1>3. QED
    BY <1>2, FS_CardinalityType

(* SinVarados also holds of what is not in the queue. *)
LEMMA VaradosDe ==
  ASSUME IInv, SinVarados, NEW u \in Conectados, NEW k
  PROVE  Cardinality(Iguales(Cola(u), k)) <= Cardinality(Envian(k))
  <1>1. CASE Iguales(Cola(u), k) = {}
    BY <1>1, EnvianFinito, FS_EmptySet
  <1>2. CASE Iguales(Cola(u), k) # {}
    <2>1. PICK i \in DOMAIN Cola(u) : Clave(Cola(u)[i]) = k
      BY <1>2 DEF Iguales
    <2>2. QED
      BY <2>1 DEF SinVarados
  <1>3. QED
    BY <1>1, <1>2

(* Queues and lists that only shrink. *)
LEMMA DuenoMengua ==
  ASSUME UnSoloDueno,
         \A u \in Nombres : Parte(Cola(u)', Cola(u)),
         \A t \in Hilos : Parte(Mano(t)', Mano(t))
  PROVE  UnSoloDueno'
  <1>1. ASSUME NEW u \in Nombres
        PROVE  EnCola(u)' \subseteq EnCola(u) /\ SinRepetir(Cola(u))'
    <2>1. /\ Textos(Cola(u)') \subseteq Textos(Cola(u))
          /\ SinRepetir(Cola(u)) => SinRepetir(Cola(u)')
      BY ParteTextos
    <2>2. QED
      BY <2>1, SonTextos, SonTextosDespues DEF UnSoloDueno
  <1>2. ASSUME NEW t \in Hilos
        PROVE  EnMano(t)' \subseteq EnMano(t) /\ SinRepetir(Mano(t))'
    <2>1. /\ Textos(Mano(t)') \subseteq Textos(Mano(t))
          /\ SinRepetir(Mano(t)) => SinRepetir(Mano(t)')
      BY ParteTextos
    <2>2. QED
      BY <2>1, SonTextos, SonTextosDespues DEF UnSoloDueno
  <1>3. (\A u \in Nombres : SinRepetir(Cola(u))') /\ (\A t \in Hilos : SinRepetir(Mano(t))')
    BY <1>1, <1>2
  <1>4. \A u, v \in Nombres : u # v => EnCola(u)' \cap EnCola(v)' = {}
    BY <1>1 DEF UnSoloDueno
  <1>5. \A u \in Nombres, t \in Hilos : EnCola(u)' \cap EnMano(t)' = {}
    BY <1>1, <1>2 DEF UnSoloDueno
  <1>6. \A s, t \in Hilos : s # t => EnMano(s)' \cap EnMano(t)' = {}
    BY <1>2 DEF UnSoloDueno
  <1>7. QED
    BY <1>3, <1>4, <1>5, <1>6 DEF UnSoloDueno

(* A SEND thread that stays one, or whose receiver is not connected, does  *)
(* not leave a message behind.                                             *)
LEMMA VaradosMengua ==
  ASSUME IInv, IInv', SinVarados, NEW t \in Hilos, \A s \in Hilos \ {t} : hilo'[s] = hilo[s],
         \A u \in Conectados' :
           Cola(u)' = <<>> \/ (u \in Conectados /\ Parte(Cola(u)', Cola(u))),
         \/ hilo[t].pc \notin PuntosEnvio
         \/ hilo'[t].pc \in PuntosEnvio /\ hilo'[t].lista = hilo[t].lista
         \/ hilo[t].pet.destino \notin Conectados'
  PROVE  SinVarados'
  <1> SUFFICES ASSUME NEW u \in Conectados', NEW i \in DOMAIN Cola(u)', NEW k,
                      k = Clave(Cola(u)[i])'
               PROVE  Cardinality(Iguales(Cola(u)', k)) <= Cardinality(Envian(k)')
    BY DEF SinVarados, Iguales, Envian
  <1>1. u \in Conectados /\ Parte(Cola(u)', Cola(u))
    <2>1. Cola(u)' # <<>>
      OBVIOUS
    <2>2. QED
      BY <2>1
  <1>2. u \in DOMAIN user' /\ k[1] = u
    BY DEF Conectados, Cola, IInv, ColasFieles, Clave
  <1>3. ASSUME NEW s \in Envian(k) PROVE s \in Envian(k)'
    <2>1. s \in Hilos /\ hilo[s].pc \in PuntosEnvio /\ Clave(Head(hilo[s].lista)) = k
      BY DEF Envian
    <2>2. CASE s # t
      BY <2>1, <2>2 DEF Envian
    <2>3. CASE s = t
      <3>1. hilo[t].lista # <<>>
        BY <2>1, <2>3, HiloDe DEF Coherente
      <3>2. Head(hilo[t].lista).destino = hilo[t].pet.destino
        BY <2>1, <2>3, <3>1, ActualAnotado, HiloDe DEF ListaFiel
      <3>3. Head(hilo[t].lista).destino = u
        BY <1>2, <2>1, <2>3 DEF Clave
      <3>4. QED
        BY <2>1, <2>3, <3>2, <3>3 DEF Envian
    <2>4. QED
      BY <2>2, <2>3
  <1>4. Envian(k) \subseteq Envian(k)' /\ IsFiniteSet(Envian(k)')
    <2>1. Envian(k)' \in SUBSET Hilos
      BY DEF Envian
    <2>2. IsFiniteSet(Envian(k)')
      BY <2>1, ConstantesServer, FS_Subset
    <2>3. QED
      BY <1>3, <2>2
  <1>5. Cardinality(Envian(k)) <= Cardinality(Envian(k)') /\ Cardinality(Envian(k)') \in Nat
    BY <1>4, FS_Subset, FS_CardinalityType
  <1>6. Cardinality(Iguales(Cola(u), k)) <= Cardinality(Envian(k))
    BY <1>1, VaradosDe
  <1>7. /\ Cardinality(Iguales(Cola(u)', k)) <= Cardinality(Iguales(Cola(u), k))
        /\ Cardinality(Iguales(Cola(u), k)) \in Nat
    BY <1>1, TipoColas, ParteIguales, IgualesFinito
  <1>8. Cardinality(Iguales(Cola(u)', k)) \in Nat
    <2>1. user'[u].mensajes \in Seq(Mensaje) /\ Cola(u)' = user'[u].mensajes
      BY <1>2 DEF Cola, IInv, TypeOK, Nodo
    <2>2. QED
      BY <2>1, IgualesFinito
  <1>9. Cardinality(Envian(k)) \in Nat
    BY EnvianFinito
  <1>10. QED
    BY <1>5, <1>6, <1>7, <1>8, <1>9

(* A step of a thread that leaves the queues as they are. *)
LEMMA Quietos ==
  ASSUME IInv, IInv', IDueno, NEW t \in Hilos, \A s \in Hilos \ {t} : hilo'[s] = hilo[s],
         \A u \in Nombres : Cola(u)' = Cola(u),
         Conectados' \subseteq Conectados,
         Parte(Mano(t)', Mano(t)),
         \/ hilo[t].pc \notin PuntosEnvio
         \/ hilo'[t].pc \in PuntosEnvio /\ hilo'[t].lista = hilo[t].lista
         \/ hilo[t].pet.destino \notin Conectados'
  PROVE  IDueno'
  <1>1. \A u \in Nombres : Parte(Cola(u)', Cola(u))
    BY ParteIgual
  <1>2. \A s \in Hilos : Parte(Mano(s)', Mano(s))
    <2>1. \A s \in Hilos \ {t} : Mano(s)' = Mano(s)
      BY DEF Mano
    <2>2. QED
      BY <2>1, ParteIgual
  <1>3. UnSoloDueno'
    BY <1>1, <1>2, DuenoMengua DEF IDueno
  <1>4. Conectados \subseteq Nombres
    BY DEF Conectados, IInv, TypeOK
  <1>5. SinVarados'
    BY <1>1, <1>4, VaradosMengua DEF IDueno
  <1>6. QED
    BY <1>3, <1>5 DEF IDueno
-----------------------------------------------------------------------------
(***************************************************************************)
(* What a thread has in its hands after each way of moving on.             *)
(***************************************************************************)
LEMMA ManoTrasContestar ==
  ASSUME IInv, NEW t \in Hilos, hilo[t].pc \in Operaciones, NEW r \in Nat, Contestar(t, r)
  PROVE  /\ Parte(Mano(t)', Mano(t))
         /\ hilo[t].pc \notin PuntosEnvio
         /\ \A s \in Hilos \ {t} : hilo'[s] = hilo[s]
  <1>1. hilo[t].lista = <<>> /\ hilo[t].pc \notin PuntosEnvio
    BY HiloDe DEF Coherente, Operaciones, PuntosEnvio, PuntosConnect
  <1>2. hilo'[t] = [hilo[t] EXCEPT !.pc = "responder", !.res = r]
    BY HiloDe DEF Contestar
  <1>3. hilo'[t].lista = <<>>
    BY <1>1, <1>2, HiloDe DEF Hilo
  <1>4. Mano(t)' = <<>>
    BY <1>3 DEF Mano
  <1>5. QED
    BY <1>1, <1>4, ParteVacia, ContestarTipos

LEMMA ManoTrasTerminar ==
  ASSUME IInv, NEW t \in Hilos, Terminar(t)
  PROVE  /\ Mano(t)' = <<>> /\ Parte(Mano(t)', Mano(t))
         /\ hilo'[t].pc = "libre"
         /\ \A s \in Hilos \ {t} : hilo'[s] = hilo[s]
  <1>1. hilo'[t] = HiloLibre /\ \A s \in Hilos \ {t} : hilo'[s] = hilo[s]
    BY TerminarTipos
  <1>2. Mano(t)' = <<>> /\ hilo'[t].pc = "libre"
    BY <1>1 DEF Mano, HiloLibre
  <1>3. QED
    BY <1>1, <1>2, ParteVacia

LEMMA ManoTrasIr ==
  ASSUME IInv, NEW t \in Hilos, NEW punto, IrA(t, punto),
         punto \in PuntosConnect <=> hilo[t].pc \in PuntosConnect
  PROVE  /\ Parte(Mano(t)', Mano(t))
         /\ hilo'[t].pc = punto /\ hilo'[t].lista = hilo[t].lista
         /\ \A s \in Hilos \ {t} : hilo'[s] = hilo[s]
  <1>1. /\ hilo'[t] = [hilo[t] EXCEPT !.pc = punto]
        /\ \A s \in Hilos \ {t} : hilo'[s] = hilo[s]
    BY HiloDe DEF IrA
  <1>2. hilo'[t].pc = punto /\ hilo'[t].lista = hilo[t].lista
    BY <1>1, HiloDe DEF Hilo
  <1>3. Mano(t)' = Mano(t)
    BY <1>2 DEF Mano
  <1>4. QED
    BY <1>1, <1>2, <1>3, ParteIgual

LEMMA ManoTrasAvanzar ==
  ASSUME IInv, NEW t \in Hilos, hilo[t].lista # <<>>, hilo[t].pc \in PuntosConnect, Avanzar(t)
  PROVE  /\ Parte(Mano(t)', Mano(t))
         /\ \A s \in Hilos \ {t} : hilo'[s] = hilo[s]
  <1> DEFINE resto == Tail(hilo[t].lista)
             h == [hilo[t] EXCEPT !.pc = "entregar", !.lista = resto, !.rem = SinDir]
  <1>1. CASE resto = <<>>
    BY <1>1, ManoTrasTerminar DEF Avanzar
  <1>2. CASE resto # <<>>
    <2>1. hilo' = [hilo EXCEPT ![t] = h] /\ h.pc = "entregar" /\ h.lista = resto
      BY <1>2, HiloDe DEF Avanzar, Hilo
    <2> HIDE DEF h
    <2>2. hilo'[t] = h /\ \A s \in Hilos \ {t} : hilo'[s] = hilo[s]
      BY <2>1, HiloDe
    <2>3. Mano(t)' = resto /\ Mano(t) = hilo[t].lista
      BY <2>1, <2>2 DEF Mano, PuntosConnect
    <2>4. hilo[t].lista \in Seq(Mensaje)
      BY HiloDe DEF Hilo
    <2>5. QED
      BY <2>2, <2>3, <2>4, ParteDeCola
  <1>3. QED
    BY <1>1, <1>2

(* An account marked as disconnected keeps its queue. *)
LEMMA ColasAlDesconectar ==
  ASSUME IInv, NEW u \in DOMAIN user, user' = MarcarDesconectado(u)
  PROVE  /\ \A v \in Nombres : Cola(v)' = Cola(v)
         /\ Conectados' = Conectados \ {u}
  <1>1. /\ DOMAIN user' = DOMAIN user
        /\ user'[u].estado = DESCONECTADO /\ user'[u].mensajes = user[u].mensajes
        /\ \A v \in DOMAIN user \ {u} : user'[v] = user[v]
    BY MarcarDesconectadoTipos
  <1>2. Conectados' = Conectados \ {u}
    BY <1>1 DEF Conectados, CONECTADO, DESCONECTADO
  <1>3. QED
    BY <1>1, <1>2 DEF Cola

LEMMA ColasQuietas ==
  ASSUME UNCHANGED user
  PROVE  (\A u \in Nombres : Cola(u)' = Cola(u)) /\ Conectados' = Conectados
  BY DEF Cola, Conectados
-----------------------------------------------------------------------------
(***************************************************************************)
(* The steps that leave the queues as they are.                            *)
(***************************************************************************)
LEMMA procesar_peticion_Dueno ==
  ASSUME IInv, IInv', IDueno, NEW t \in Hilos, NEW p \in Peticiones, procesar_peticion(t, p)
  PROVE  IDueno'
  <1>1. p.op \in Operaciones /\ hilo[t].pc = "libre"
    BY ConstantesServer, PeticionTipo DEF procesar_peticion, En
  <1>2. /\ hilo'[t] = [hilo[t] EXCEPT !.pc = p.op, !.pet = p]
        /\ \A s \in Hilos \ {t} : hilo'[s] = hilo[s]
    BY HiloDe DEF procesar_peticion
  <1>3. hilo'[t].pc = p.op
    BY <1>2, HiloDe DEF Hilo
  <1>4. Parte(Mano(t)', Mano(t))
    BY <1>1, <1>3, ParteIgual DEF Mano, Operaciones, PuntosConnect
  <1>5. QED
    BY <1>1, <1>2, <1>4, ColasQuietas, Quietos DEF procesar_peticion, PuntosEnvio

LEMMA procesar_register_Dueno ==
  ASSUME IInv, IInv', IDueno, NEW t \in Hilos, procesar_register(t)
  PROVE  IDueno'
  <1> DEFINE u == hilo[t].pet.usuario
  <1>1. hilo[t].pc \in Operaciones /\ \E r \in {0, 1} : Contestar(t, r)
    BY DEF procesar_register, EnConMutexLibre, En, Operaciones
  <1>2. (\A v \in Nombres : Cola(v)' = Cola(v)) /\ Conectados' \subseteq Conectados
    <2>1. CASE UNCHANGED user
      BY <2>1, ColasQuietas
    <2>2. CASE u \notin DOMAIN user /\ user' = add_user(u)
      <3>1. /\ DOMAIN user' = DOMAIN user \cup {u}
            /\ user'[u].mensajes = <<>> /\ user'[u].estado = DESCONECTADO
            /\ \A v \in DOMAIN user : user'[v] = user[v]
        BY <2>2 DEF add_user
      <3>2. QED
        BY <2>2, <3>1 DEF Cola, Conectados, CONECTADO, DESCONECTADO
    <2>3. QED
      BY <2>1, <2>2 DEF procesar_register
  <1>3. QED
    BY <1>1, <1>2, ManoTrasContestar, Quietos

LEMMA procesar_disconnect_Dueno ==
  ASSUME IInv, IInv', IDueno, NEW t \in Hilos, procesar_disconnect(t)
  PROVE  IDueno'
  <1> DEFINE u == hilo[t].pet.usuario
  <1>1. hilo[t].pc \in Operaciones /\ \E r \in 0..3 : Contestar(t, r)
    BY DEF procesar_disconnect, EnConMutexLibre, En, Operaciones
  <1>2. (\A v \in Nombres : Cola(v)' = Cola(v)) /\ Conectados' \subseteq Conectados
    <2>1. CASE UNCHANGED user
      BY <2>1, ColasQuietas
    <2>2. CASE u \in DOMAIN user /\ user' = MarcarDesconectado(u)
      BY <2>2, ColasAlDesconectar
    <2>3. QED
      BY <2>1, <2>2 DEF procesar_disconnect, EstaConectado, Conectados
  <1>3. QED
    BY <1>1, <1>2, ManoTrasContestar, Quietos

LEMMA responder_Dueno ==
  ASSUME IInv, IInv', IDueno, NEW t \in Hilos, responder(t)
  PROVE  IDueno'
  <1>1. hilo[t].pc = "responder" /\ hilo[t].pc \notin PuntosEnvio
    BY DEF responder, En, PuntosEnvio
  <1>2. Parte(Mano(t)', Mano(t)) /\ \A s \in Hilos \ {t} : hilo'[s] = hilo[s]
    <2>1. CASE Terminar(t)
      BY <2>1, ManoTrasTerminar
    <2>2. CASE IrA(t, "entregar")
      BY <1>1, <2>2, ManoTrasIr DEF PuntosConnect
    <2>3. QED
      BY <2>1, <2>2 DEF responder
  <1>3. QED
    BY <1>1, <1>2, ColasQuietas, Quietos DEF responder

LEMMA procesar_users_Dueno ==
  ASSUME IInv, IInv', IDueno, NEW t \in Hilos, procesar_users(t)
  PROVE  IDueno'
  <1> DEFINE c == Cardinality(Conectados)
             h == [hilo[t] EXCEPT !.pc = "listar", !.res = c]
  <1>1. /\ hilo[t].pc = "USERS" /\ hilo[t].pc \in Operaciones /\ UNCHANGED user
        /\ hilo[t].pc \notin PuntosEnvio
    BY DEF procesar_users, EnConMutexLibre, En, Operaciones, PuntosEnvio
  <1>2. ASSUME NEW r \in {1, 2}, Contestar(t, r) PROVE IDueno'
    BY <1>1, <1>2, ManoTrasContestar, ColasQuietas, Quietos
  <1>3. CASE hilo' = [hilo EXCEPT ![t].pc = "listar", ![t].res = c]
    <2>1. hilo' = [hilo EXCEPT ![t] = h] /\ h.pc = "listar"
      BY <1>3, HiloDe DEF Hilo
    <2> HIDE DEF h
    <2>2. hilo'[t].pc = "listar" /\ \A s \in Hilos \ {t} : hilo'[s] = hilo[s]
      BY <2>1, HiloDe
    <2>3. Parte(Mano(t)', Mano(t))
      BY <1>1, <2>2, ParteIgual DEF Mano, PuntosConnect
    <2>4. QED
      BY <1>1, <2>2, <2>3, ColasQuietas, Quietos
  <1>4. QED
    BY <1>2, <1>3 DEF procesar_users

LEMMA listar_conectados_Dueno ==
  ASSUME IInv, IInv', IDueno, NEW t \in Hilos, listar_conectados(t)
  PROVE  IDueno'
  BY ManoTrasTerminar, ColasQuietas, Quietos DEF listar_conectados, En, PuntosEnvio

(* A SEND that ends here found its receiver not connected. *)
LEMMA responder_envio_Dueno ==
  ASSUME IInv, IInv', IDueno, NEW t \in Hilos, responder_envio(t)
  PROVE  IDueno'
  <1> DEFINE p == hilo[t].pet
             dest == user[p.destino].dir
             rem == IF EstaConectado(p.usuario) THEN user[p.usuario].dir ELSE SinDir
             h == [hilo[t] EXCEPT !.pc = "envio_entregar", !.dest = dest, !.rem = rem]
  <1>1. hilo[t].pc = "responder_envio" /\ UNCHANGED user
    BY DEF responder_envio, En
  <1>2. CASE ~EstaConectado(p.destino) /\ Terminar(t)
    <2>1. p.destino \notin Conectados'
      BY <1>1, <1>2, ColasQuietas DEF EstaConectado
    <2>2. QED
      BY <1>1, <1>2, <2>1, ManoTrasTerminar, ColasQuietas, Quietos
  <1>3. CASE hilo' = [hilo EXCEPT ![t].pc = "envio_entregar", ![t].dest = dest,
                                  ![t].rem = rem]
    <2> HIDE DEF dest, rem
    <2>1. hilo' = [hilo EXCEPT ![t] = h] /\ h.pc = "envio_entregar" /\ h.lista = hilo[t].lista
      BY <1>3, HiloDe DEF Hilo
    <2> HIDE DEF h
    <2>2. hilo'[t] = h /\ \A s \in Hilos \ {t} : hilo'[s] = hilo[s]
      BY <2>1, HiloDe
    <2>3. Parte(Mano(t)', Mano(t))
      BY <1>1, <2>1, <2>2, ParteIgual DEF Mano, PuntosConnect
    <2>4. hilo'[t].pc \in PuntosEnvio /\ hilo'[t].lista = hilo[t].lista
      BY <2>1, <2>2 DEF PuntosEnvio
    <2>5. QED
      BY <1>1, <2>2, <2>3, <2>4, ColasQuietas, Quietos
  <1>4. QED
    BY <1>2, <1>3 DEF responder_envio

LEMMA envio_entregar_Dueno ==
  ASSUME IInv, IInv', IDueno, NEW t \in Hilos, envio_entregar(t)
  PROVE  IDueno'
  <1>1. hilo[t].pc = "envio_entregar" /\ UNCHANGED user
    BY DEF envio_entregar, En
  <1>2. PICK punto \in {"envio_ack", "eliminar", "desconectar"} : IrA(t, punto)
    BY DEF envio_entregar
  <1>3. QED
    BY <1>1, <1>2, ManoTrasIr, ColasQuietas, Quietos DEF PuntosEnvio, PuntosConnect

LEMMA envio_ack_Dueno ==
  ASSUME IInv, IInv', IDueno, NEW t \in Hilos, envio_ack(t)
  PROVE  IDueno'
  BY ManoTrasIr, ColasQuietas, Quietos DEF envio_ack, En, PuntosEnvio, PuntosConnect

(* This thread too ends with its receiver not connected. *)
LEMMA desconectar_destino_Dueno ==
  ASSUME IInv, IInv', IDueno, NEW t \in Hilos, desconectar_destino(t)
  PROVE  IDueno'
  <1> DEFINE u == hilo[t].pet.destino
  <1>1. Terminar(t)
    BY DEF desconectar_destino
  <1>2. /\ \A v \in Nombres : Cola(v)' = Cola(v)
        /\ Conectados' \subseteq Conectados /\ u \notin Conectados'
    <2>1. CASE u \in DOMAIN user /\ user' = MarcarDesconectado(u)
      BY <2>1, ColasAlDesconectar
    <2>2. CASE u \notin DOMAIN user /\ UNCHANGED user
      BY <2>2, ColasQuietas DEF Conectados
    <2>3. QED
      BY <2>1, <2>2 DEF desconectar_destino
  <1>3. QED
    BY <1>1, <1>2, ManoTrasTerminar, Quietos

LEMMA entregar_pendiente_Dueno ==
  ASSUME IInv, IInv', IDueno, NEW t \in Hilos, entregar_pendiente(t)
  PROVE  IDueno'
  <1>1. hilo[t].pc = "entregar" /\ UNCHANGED user
    BY DEF entregar_pendiente, En
  <1>2. PICK punto \in {"buscar_rem", "reencolar"} : IrA(t, punto)
    BY DEF entregar_pendiente
  <1>3. QED
    BY <1>1, <1>2, ManoTrasIr, ColasQuietas, Quietos DEF PuntosEnvio, PuntosConnect

LEMMA ack_pendiente_Dueno ==
  ASSUME IInv, IInv', IDueno, NEW t \in Hilos, ack_pendiente(t)
  PROVE  IDueno'
  <1>1. hilo[t].pc = "ack_pendiente" /\ hilo[t].lista # <<>>
    BY HiloDe DEF ack_pendiente, En, Coherente, PuntosConnect
  <1>2. QED
    BY <1>1, ManoTrasAvanzar, ColasQuietas, Quietos
    DEF ack_pendiente, PuntosEnvio, PuntosConnect

LEMMA buscar_remitente_Dueno ==
  ASSUME IInv, IInv', IDueno, NEW t \in Hilos, buscar_remitente(t)
  PROVE  IDueno'
  <1> DEFINE d == user[Head(hilo[t].lista).remitente].dir
             h == [hilo[t] EXCEPT !.pc = "ack_pendiente", !.rem = d]
  <1>1. hilo[t].pc = "buscar_rem" /\ hilo[t].lista # <<>> /\ UNCHANGED user
    BY HiloDe DEF buscar_remitente, EnConMutexLibre, En, Coherente, PuntosConnect
  <1>2. CASE Avanzar(t)
    BY <1>1, <1>2, ManoTrasAvanzar, ColasQuietas, Quietos DEF PuntosEnvio, PuntosConnect
  <1>3. CASE hilo' = [hilo EXCEPT ![t].pc = "ack_pendiente", ![t].rem = d]
    <2> HIDE DEF d
    <2>1. hilo' = [hilo EXCEPT ![t] = h] /\ h.pc = "ack_pendiente" /\ h.lista = hilo[t].lista
      BY <1>3, HiloDe DEF Hilo
    <2> HIDE DEF h
    <2>2. hilo'[t] = h /\ \A s \in Hilos \ {t} : hilo'[s] = hilo[s]
      BY <2>1, HiloDe
    <2>3. Parte(Mano(t)', Mano(t))
      BY <1>1, <2>1, <2>2, ParteIgual DEF Mano, PuntosConnect
    <2>4. QED
      BY <1>1, <2>2, <2>3, ColasQuietas, Quietos DEF PuntosEnvio
  <1>4. QED
    BY <1>2, <1>3 DEF buscar_remitente
-----------------------------------------------------------------------------
(***************************************************************************)
(* The steps in which nodes change hands.                                  *)
(***************************************************************************)
LEMMA procesar_unregister_Dueno ==
  ASSUME IInv, IInv', IDueno, NEW t \in Hilos, procesar_unregister(t)
  PROVE  IDueno'
  <1> DEFINE u == hilo[t].pet.usuario
  <1>1. hilo[t].pc \in Operaciones /\ \E r \in {0, 1} : Contestar(t, r)
    BY DEF procesar_unregister, EnConMutexLibre, En, Operaciones
  <1>2. /\ Parte(Mano(t)', Mano(t)) /\ hilo[t].pc \notin PuntosEnvio
        /\ \A s \in Hilos \ {t} : hilo'[s] = hilo[s]
    BY <1>1, ManoTrasContestar
  <1>3. CASE UNCHANGED user
    BY <1>2, <1>3, ColasQuietas, Quietos
  <1>4. CASE user' = remove_user(u)
    <2>1. /\ DOMAIN user' = DOMAIN user \ {u}
          /\ \A v \in DOMAIN user' : user'[v] = user[v]
      BY <1>4 DEF remove_user, Restrict
    <2>2. /\ \A v \in Nombres : Cola(v)' = IF v = u THEN <<>> ELSE Cola(v)
          /\ Conectados' = Conectados \ {u}
      BY <2>1 DEF Cola, Conectados
    <2>3. \A v \in Nombres : Parte(Cola(v)', Cola(v))
      BY <2>2, ParteIgual, ParteVacia
    <2>4. \A s \in Hilos : Parte(Mano(s)', Mano(s))
      <3>1. \A s \in Hilos \ {t} : Mano(s)' = Mano(s)
        BY <1>2 DEF Mano
      <3>2. QED
        BY <1>2, <3>1, ParteIgual
    <2>5. UnSoloDueno'
      BY <2>3, <2>4, DuenoMengua DEF IDueno
    <2>6. \A v \in Conectados' : v \in Conectados /\ Parte(Cola(v)', Cola(v))
      BY <2>2, <2>3 DEF Conectados, IInv, TypeOK
    <2>7. SinVarados'
      BY <1>2, <2>6, VaradosMengua DEF IDueno
    <2>8. QED
      BY <2>5, <2>7 DEF IDueno
  <1>5. QED
    BY <1>3, <1>4 DEF procesar_unregister

(* One queue and one list change: between them they hold what they held,   *)
(* and what is in N, which nobody holds.                                   *)
Intercambio(t, u, N) ==
  /\ \A v \in Nombres \ {u} : Cola(v)' = Cola(v)
  /\ \A s \in Hilos \ {t} : Mano(s)' = Mano(s)
  /\ SinRepetir(Cola(u)') /\ SinRepetir(Mano(t)')
  /\ Textos(Cola(u)') \cap Textos(Mano(t)') = {}
  /\ Textos(Cola(u)') \cup Textos(Mano(t)') \subseteq EnCola(u) \cup EnMano(t) \cup N

LEMMA DuenoCambia ==
  ASSUME UnSoloDueno, NEW t \in Hilos, NEW u \in Nombres, NEW N, Intercambio(t, u, N),
         \A v \in Nombres : EnCola(v) \cap N = {},
         \A s \in Hilos : EnMano(s) \cap N = {}
  PROVE  UnSoloDueno'
  <1>1. /\ \A v \in Nombres : EnCola(v)' = Textos(Cola(v)')
        /\ \A s \in Hilos : EnMano(s)' = Textos(Mano(s)')
        /\ \A v \in Nombres : SinRepetir(Cola(v))' <=> SinRepetir(Cola(v)')
        /\ \A s \in Hilos : SinRepetir(Mano(s))' <=> SinRepetir(Mano(s)')
    BY SonTextosDespues
  <1>2. /\ \A v \in Nombres \ {u} : EnCola(v)' = EnCola(v)
        /\ \A s \in Hilos \ {t} : EnMano(s)' = EnMano(s)
    BY <1>1, SonTextos DEF Intercambio
  <1>3. EnCola(u)' \cup EnMano(t)' \subseteq EnCola(u) \cup EnMano(t) \cup N
    BY <1>1 DEF Intercambio
  <1>4. \A v \in Nombres \ {u} : (EnCola(u)' \cup EnMano(t)') \cap EnCola(v) = {}
    BY <1>3 DEF UnSoloDueno
  <1>5. \A s \in Hilos \ {t} : (EnCola(u)' \cup EnMano(t)') \cap EnMano(s) = {}
    BY <1>3 DEF UnSoloDueno
  <1>6. \A v \in Nombres : SinRepetir(Cola(v))'
    BY <1>1 DEF UnSoloDueno, Intercambio
  <1>7. \A s \in Hilos : SinRepetir(Mano(s))'
    BY <1>1 DEF UnSoloDueno, Intercambio
  <1>8. \A v, w \in Nombres : v # w => EnCola(v)' \cap EnCola(w)' = {}
    BY <1>2, <1>4 DEF UnSoloDueno
  <1>9. \A v \in Nombres, s \in Hilos : EnCola(v)' \cap EnMano(s)' = {}
    BY <1>1, <1>2, <1>4, <1>5 DEF UnSoloDueno, Intercambio
  <1>10. \A r, s \in Hilos : r # s => EnMano(r)' \cap EnMano(s)' = {}
    BY <1>2, <1>5 DEF UnSoloDueno
  <1>11. QED
    BY <1>6, <1>7, <1>8, <1>9, <1>10 DEF UnSoloDueno

(* Only the account of u changes. *)
LEMMA SoloLaColaDe ==
  ASSUME NEW u \in DOMAIN user, DOMAIN user' = DOMAIN user,
         \A v \in DOMAIN user \ {u} : user'[v].mensajes = user[v].mensajes
  PROVE  /\ Cola(u) = user[u].mensajes /\ Cola(u)' = user'[u].mensajes
         /\ \A v \in Nombres \ {u} : Cola(v)' = Cola(v)
  BY DEF Cola

LEMMA procesar_connect_Dueno ==
  ASSUME IInv, IInv', IDueno, NEW t \in Hilos, procesar_connect(t)
  PROVE  IDueno'
  <1> SUFFICES ASSUME NEW u, u = hilo[t].pet.usuario PROVE IDueno'
    OBVIOUS
  <1> DEFINE d == hilo[t].pet.dir
             cola == user[u].mensajes
             n == [user[u] EXCEPT !.estado = CONECTADO, !.dir = d, !.mensajes = <<>>]
             h == [hilo[t] EXCEPT !.pc = "responder", !.res = 0, !.lista = cola, !.dest = d]
  <1>1. /\ hilo[t].pc = "CONNECT" /\ hilo[t].pc \in Operaciones
        /\ hilo[t].pc \notin PuntosEnvio
    BY DEF procesar_connect, EnConMutexLibre, En, Operaciones, PuntosEnvio
  <1>2. ASSUME NEW r \in {1, 2}, Contestar(t, r), UNCHANGED user PROVE IDueno'
    BY <1>1, <1>2, ManoTrasContestar, ColasQuietas, Quietos
  <1>3. CASE /\ u \in DOMAIN user
             /\ user' = Conectar(u, d)
             /\ hilo' = [hilo EXCEPT ![t].pc = "responder", ![t].res = 0,
                                     ![t].lista = user[u].mensajes, ![t].dest = d]
    <2>1. user \in [DOMAIN user -> Nodo] /\ user[u] \in Nodo /\ u \in Nombres
      BY <1>3 DEF IInv, TypeOK
    <2>2. user' = [user EXCEPT ![u] = n] /\ n.mensajes = <<>>
      BY <1>3, <2>1 DEF Conectar, Nodo
    <2>3. hilo' = [hilo EXCEPT ![t] = h] /\ h.pc = "responder" /\ h.lista = cola
      BY <1>3, HiloDe DEF Hilo
    <2> HIDE DEF n, h
    <2>4. /\ DOMAIN user' = DOMAIN user /\ user'[u].mensajes = <<>>
          /\ \A v \in DOMAIN user \ {u} : user'[v] = user[v]
      BY <1>3, <2>1, <2>2
    <2>5. hilo'[t] = h /\ \A s \in Hilos \ {t} : hilo'[s] = hilo[s]
      BY <2>3, HiloDe
    <2>6. Mano(t) = <<>> /\ Mano(t)' = Cola(u)
      BY <1>1, <1>3, <2>3, <2>5 DEF Mano, Cola, PuntosConnect
    <2>7. Cola(u)' = <<>> /\ \A v \in Nombres \ {u} : Cola(v)' = Cola(v)
      BY <1>3, <2>4, SoloLaColaDe
    <2>8. \A s \in Hilos \ {t} : Mano(s)' = Mano(s)
      BY <2>5 DEF Mano
    <2>9. UnSoloDueno'
      <3>1. SinRepetir(Cola(u)') /\ SinRepetir(Mano(t)')
        BY <2>1, <2>6, <2>7, SonTextos DEF IDueno, UnSoloDueno
      <3>2. Textos(Cola(u)') = {} /\ Textos(Mano(t)') = EnCola(u)
        BY <2>1, <2>6, <2>7, SonTextos
      <3>3. Intercambio(t, u, {})
        BY <2>7, <2>8, <3>1, <3>2 DEF Intercambio
      <3>4. QED
        BY <2>1, <3>3, DuenoCambia DEF IDueno
    <2>10. \A v \in Conectados' :
             Cola(v)' = <<>> \/ (v \in Conectados /\ Parte(Cola(v)', Cola(v)))
      <3>1. SUFFICES ASSUME NEW v \in Conectados', v # u
                     PROVE  v \in Conectados /\ Parte(Cola(v)', Cola(v))
        BY <2>7
      <3>2. v \in Conectados /\ v \in Nombres
        BY <2>4, <3>1 DEF Conectados, IInv, TypeOK
      <3>3. QED
        BY <2>7, <3>1, <3>2, ParteIgual
    <2>11. SinVarados'
      BY <1>1, <2>5, <2>10, VaradosMengua DEF IDueno
    <2>12. QED
      BY <2>9, <2>11 DEF IDueno
  <1>4. QED
    BY <1>2, <1>3 DEF procesar_connect

(* Two queues without messages in common, one behind the other. *)
LEMMA UnirSinRepetir ==
  ASSUME NEW q \in Seq(Mensaje), NEW r \in Seq(Mensaje), SinRepetir(q), SinRepetir(r),
         Textos(q) \cap Textos(r) = {}
  PROVE  /\ SinRepetir(q \o r)
         /\ Textos(q \o r) \subseteq Textos(q) \cup Textos(r)
  <1>1. /\ q \o r \in Seq(Mensaje)
        /\ Len(q \o r) = Len(q) + Len(r)
        /\ \A i \in 1..(Len(q) + Len(r)) :
             (q \o r)[i] = IF i <= Len(q) THEN q[i] ELSE r[i - Len(q)]
    BY ConcatProperties
  <1>2. /\ DOMAIN (q \o r) = 1..(Len(q) + Len(r))
        /\ DOMAIN q = 1..Len(q) /\ Len(q) \in Nat
        /\ DOMAIN r = 1..Len(r) /\ Len(r) \in Nat
    BY <1>1, LenProperties
  <1> DEFINE c == q \o r
  <1> HIDE DEF c
  <1>3. ASSUME NEW i \in DOMAIN c
        PROVE  \/ i \in DOMAIN q /\ c[i] = q[i]
               \/ i - Len(q) \in DOMAIN r /\ c[i] = r[i - Len(q)]
    <2>1. CASE i <= Len(q)
      BY <1>1, <1>2, <2>1 DEF c
    <2>2. CASE i > Len(q)
      BY <1>1, <1>2, <2>2 DEF c
    <2>3. QED
      BY <1>2, <2>1, <2>2 DEF c
  <1>4. \A i \in DOMAIN q, j \in DOMAIN r : q[i].texto # r[j].texto
    BY DEF Textos
  <1>5. ASSUME NEW i \in DOMAIN c, NEW j \in DOMAIN c, c[i].texto = c[j].texto
        PROVE  i = j
    <2>1. i \in Int /\ j \in Int
      BY <1>2 DEF c
    <2>2. CASE i \in DOMAIN q /\ c[i] = q[i] /\ j \in DOMAIN q /\ c[j] = q[j]
      BY <1>5, <2>2 DEF SinRepetir
    <2>3. CASE /\ i - Len(q) \in DOMAIN r /\ c[i] = r[i - Len(q)]
               /\ j - Len(q) \in DOMAIN r /\ c[j] = r[j - Len(q)]
      <3>1. i - Len(q) = j - Len(q)
        BY <1>5, <2>3 DEF SinRepetir
      <3>2. QED
        BY <1>2, <2>1, <3>1
    <2>4. QED
      BY <1>3, <1>4, <1>5, <2>2, <2>3
  <1>6. Textos(c) \subseteq Textos(q) \cup Textos(r)
    BY <1>3 DEF Textos
  <1>7. QED
    BY <1>5, <1>6 DEF SinRepetir, c

(* What could not be delivered goes back to one queue. *)
LEMMA reencolar_Dueno ==
  ASSUME IInv, IInv', IDueno, NEW t \in Hilos, reencolar(t)
  PROVE  IDueno'
  <1> SUFFICES ASSUME NEW u, u = hilo[t].pet.usuario PROVE IDueno'
    OBVIOUS
  <1> DEFINE antes == user[u].mensajes
             lista == hilo[t].lista
             n == [user[u] EXCEPT !.estado = DESCONECTADO, !.dir = SinDir,
                                  !.mensajes = antes \o lista]
  <1>1. /\ hilo[t].pc = "reencolar" /\ hilo[t].pc \notin PuntosEnvio /\ Terminar(t)
    BY DEF reencolar, EnConMutexLibre, En, PuntosEnvio
  <1>2. /\ Mano(t)' = <<>> /\ Parte(Mano(t)', Mano(t))
        /\ \A s \in Hilos \ {t} : hilo'[s] = hilo[s]
    BY <1>1, ManoTrasTerminar
  <1>3. CASE u \notin DOMAIN user
    BY <1>1, <1>2, <1>3, ColasQuietas, Quietos DEF reencolar
  <1>4. CASE u \in DOMAIN user
    <2>1. user \in [DOMAIN user -> Nodo] /\ user[u] \in Nodo /\ u \in Nombres
      BY <1>4 DEF IInv, TypeOK
    <2>2. /\ user' = [user EXCEPT ![u] = n]
          /\ n.mensajes = antes \o lista /\ n.estado = DESCONECTADO
      BY <1>4, <2>1 DEF reencolar, Devolver, MarcarDesconectado, Nodo
    <2> HIDE DEF n
    <2>3. /\ DOMAIN user' = DOMAIN user
          /\ user'[u].mensajes = antes \o lista /\ user'[u].estado = DESCONECTADO
          /\ \A v \in DOMAIN user \ {u} : user'[v] = user[v]
      BY <1>4, <2>1, <2>2
    <2>4. Cola(u) = antes /\ Mano(t) = lista
      BY <1>1, <1>4 DEF Cola, Mano, PuntosConnect
    <2>5. Cola(u)' = Cola(u) \o Mano(t)
      BY <1>4, <2>3, <2>4, SoloLaColaDe
    <2>6. \A v \in Nombres \ {u} : Cola(v)' = Cola(v)
      BY <1>4, <2>3, SoloLaColaDe
    <2>7. \A s \in Hilos \ {t} : Mano(s)' = Mano(s)
      BY <1>2 DEF Mano
    <2>8. UnSoloDueno'
      <3>1. UnSoloDueno
        BY DEF IDueno
      <3>2. /\ SinRepetir(Cola(u)) /\ SinRepetir(Mano(t))
            /\ Textos(Cola(u)) \cap Textos(Mano(t)) = {}
        BY <2>1, <3>1, SonTextos DEF UnSoloDueno
      <3>3. SinRepetir(Cola(u)') /\ Textos(Cola(u)') \subseteq EnCola(u) \cup EnMano(t)
        BY <2>1, <2>5, <3>2, TipoColas, UnirSinRepetir, SonTextos
      <3>4. SinRepetir(Mano(t)') /\ Textos(Mano(t)') = {}
        BY <1>2, SonTextos
      <3>5. Intercambio(t, u, {})
        BY <2>6, <2>7, <3>3, <3>4 DEF Intercambio
      <3>6. QED
        BY <2>1, <3>1, <3>5, DuenoCambia
    <2>9. Conectados' = Conectados \ {u}
      <3>1. CONECTADO # DESCONECTADO
        BY DEF CONECTADO, DESCONECTADO
      <3>2. ASSUME NEW v \in DOMAIN user
            PROVE  user'[v].estado = CONECTADO <=> user[v].estado = CONECTADO /\ v # u
        BY <2>3, <3>1, <1>4
      <3>3. QED
        BY <2>3, <3>2 DEF Conectados
    <2>10. \A v \in Conectados' : v \in Conectados /\ Parte(Cola(v)', Cola(v))
      <3>1. Conectados \subseteq Nombres
        BY DEF Conectados, IInv, TypeOK
      <3>2. QED
        BY <2>6, <2>9, <3>1, ParteIgual
    <2>11. SinVarados'
      BY <1>1, <1>2, <2>10, VaradosMengua DEF IDueno
    <2>12. QED
      BY <2>8, <2>11 DEF IDueno
  <1>5. QED
    BY <1>3, <1>4

(* The SEND that ends removes one message like its own, if there is one:   *)
(* one thread and one message less.                                        *)
LEMMA eliminar_mensaje_cola_Dueno ==
  ASSUME IInv, IInv', IDueno, NEW t \in Hilos, eliminar_mensaje_cola(t)
  PROVE  IDueno'
  <1> SUFFICES ASSUME NEW u, u = hilo[t].pet.destino PROVE IDueno'
    OBVIOUS
  <1> DEFINE m == Head(hilo[t].lista)
             antes == user[u].mensajes
             cola == SinMensaje(antes, m)
             n == [user[u] EXCEPT !.mensajes = cola]
  <1>1. hilo[t].pc = "eliminar" /\ hilo[t].pc \in PuntosEnvio /\ Terminar(t)
    BY DEF eliminar_mensaje_cola, EnConMutexLibre, En, PuntosEnvio
  <1>2. /\ Parte(Mano(t)', Mano(t)) /\ hilo'[t].pc = "libre"
        /\ \A s \in Hilos \ {t} : hilo'[s] = hilo[s]
    BY <1>1, ManoTrasTerminar
  <1>3. CASE u \notin DOMAIN user
    <2>1. UNCHANGED user
      BY <1>3 DEF eliminar_mensaje_cola
    <2>2. u \notin Conectados'
      BY <1>3, <2>1 DEF Conectados
    <2>3. QED
      BY <1>2, <2>1, <2>2, ColasQuietas, Quietos
  <1>4. CASE u \in DOMAIN user
    <2>1. user \in [DOMAIN user -> Nodo] /\ user[u] \in Nodo /\ u \in Nombres
      BY <1>4 DEF IInv, TypeOK
    <2>2. user' = [user EXCEPT ![u] = n]
      BY <1>4, <2>1 DEF eliminar_mensaje_cola
    <2> HIDE DEF cola
    <2>3. n.mensajes = cola /\ n.estado = user[u].estado
      BY <2>1 DEF Nodo
    <2> HIDE DEF n
    <2>4. /\ DOMAIN user' = DOMAIN user
          /\ user'[u].mensajes = cola /\ user'[u].estado = user[u].estado
          /\ \A v \in DOMAIN user \ {u} : user'[v] = user[v]
      BY <1>4, <2>1, <2>2, <2>3
    <2>5. /\ Cola(u)' = SinMensaje(Cola(u), m)
          /\ \A v \in Nombres \ {u} : Cola(v)' = Cola(v)
      BY <1>4, <2>4, SoloLaColaDe DEF cola
    <2>6. Conectados' = Conectados
      BY <2>4 DEF Conectados
    <2>7. \A v \in Nombres : Parte(Cola(v)', Cola(v))
      BY <2>5, ParteIgual, ParteSinMensaje, TipoColas
    <2>8. UnSoloDueno'
      <3>1. \A s \in Hilos : Parte(Mano(s)', Mano(s))
        <4>1. \A s \in Hilos \ {t} : Mano(s)' = Mano(s)
          BY <1>2 DEF Mano
        <4>2. QED
          BY <1>2, <4>1, ParteIgual
      <3>2. QED
        BY <2>7, <3>1, DuenoMengua DEF IDueno
    <2>9. ASSUME NEW v \in Conectados, NEW i \in DOMAIN Cola(v)', NEW k,
                 k = Clave(Cola(v)'[i])
          PROVE  Cardinality(Iguales(Cola(v)', k)) <= Cardinality(Envian(k)')
      <3> DEFINE a == Cardinality(Iguales(Cola(v), k))
                 b == Cardinality(Iguales(Cola(v)', k))
                 e == Cardinality(Envian(k))
      <3>0. v \in Nombres
        BY DEF Conectados, IInv, TypeOK
      <3>1. a <= e /\ a \in Nat /\ e \in Nat
        BY VaradosDe, TipoColas, IgualesFinito, EnvianFinito DEF IDueno
      <3>2. b <= a
        BY <2>7, <3>0, TipoColas, ParteIguales
      <3>3. b \in Nat
        <4>1. Cola(v)' \in Seq(Mensaje)
          BY <2>6 DEF Conectados, Cola, IInv, TypeOK, Nodo
        <4>2. QED
          BY <4>1, IgualesFinito
      <3>4. hilo[t].pc \in PuntosEnvio /\ t \notin Envian(k)'
            /\ \A s \in Hilos \ {t} : s \in Envian(k)' <=> s \in Envian(k)
        BY <1>1, <1>2 DEF Envian, PuntosEnvio
      <3>5. Envian(k)' = Envian(k) \ {t}
        BY <3>4 DEF Envian
      <3>6. IsFiniteSet(Envian(k))
        BY EnvianFinito
      <3>7. CASE k = Clave(m)
        <4>1. Cardinality(Envian(k) \ {t}) = e - 1
          <5>1. t \in Envian(k)
            BY <1>1, <3>7 DEF Envian
          <5>2. QED
            BY <3>6, <5>1, FS_RemoveElement
        <4>2. hilo[t].lista # <<>>
          BY <1>1, HiloDe DEF Coherente
        <4>3. m.destino = u
          BY <1>1, <4>2, ActualAnotado, HiloDe DEF ListaFiel
        <4>4. v \in DOMAIN user' /\ Cola(v)'[i].destino = v
          BY <2>6 DEF Conectados, Cola, IInv, ColasFieles
        <4>5. v = u
          BY <2>9, <3>7, <4>3, <4>4 DEF Clave
        <4>6. Iguales(Cola(v)', k) # {}
          BY <2>9 DEF Iguales
        <4>7. b <= a - 1
          <5>1. Cola(v)' = SinMensaje(Cola(v), m) /\ Cola(v) \in Seq(Mensaje)
            BY <2>5, <4>5, TipoColas
          <5>2. QED
            BY <3>7, <4>6, <5>1, UnoMenos
        <4> HIDE DEF a, b, e
        <4>8. b <= e - 1
          BY <3>1, <3>3, <4>7
        <4>9. QED
          BY <3>5, <4>1, <4>8 DEF b
      <3>8. CASE k # Clave(m)
        <4>1. t \notin Envian(k)
          BY <3>8 DEF Envian
        <4>2. Envian(k)' = Envian(k)
          BY <3>5, <4>1
        <4> HIDE DEF a, b, e
        <4>3. b <= e
          BY <3>1, <3>2, <3>3
        <4>4. QED
          BY <4>2, <4>3 DEF b, e
      <3>9. QED
        BY <3>7, <3>8
    <2>10. SinVarados'
      <3>1. \A k : Cardinality(Envian(k)') = Cardinality(Envian(k))'
        OBVIOUS
      <3>2. QED
        BY <2>6, <2>9 DEF SinVarados, Iguales, Envian
    <2>11. QED
      BY <2>8, <2>10 DEF IDueno
  <1>5. QED
    BY <1>3, <1>4

(* The node of an accepted message is new to everybody. *)
LEMMA TextoNuevo ==
  ASSUME IInv
  PROVE  /\ \A v \in Nombres : EnCola(v) \cap {Len(aceptados) + 1} = {}
         /\ \A s \in Hilos : EnMano(s) \cap {Len(aceptados) + 1} = {}
  <1>1. Len(aceptados) \in Nat /\ DOMAIN aceptados = 1..Len(aceptados)
    BY LenProperties DEF IInv, TypeOK
  <1>2. Len(aceptados) + 1 \notin DOMAIN aceptados
    BY <1>1
  <1>3. \A v \in Nombres : EnCola(v) \subseteq DOMAIN aceptados
    BY ColaDe DEF EnCola, Textos, Anotado
  <1>4. \A s \in Hilos : EnMano(s) \subseteq DOMAIN aceptados
    BY HiloDe DEF EnMano, Textos, ListaFiel, Anotado
  <1>5. QED
    BY <1>2, <1>3, <1>4

LEMMA AnadirSinRepetir ==
  ASSUME NEW q \in Seq(Mensaje), NEW m \in Mensaje, SinRepetir(q), m.texto \notin Textos(q)
  PROVE  /\ SinRepetir(Append(q, m))
         /\ Textos(Append(q, m)) = Textos(q) \cup {m.texto}
  <1> DEFINE r == Append(q, m)
             n == Len(q) + 1
  <1>1. /\ r \in Seq(Mensaje) /\ Len(r) = n /\ r[n] = m
        /\ \A i \in 1..Len(q) : r[i] = q[i]
    BY AppendProperties
  <1>2. /\ Len(q) \in Nat /\ DOMAIN q = 1..Len(q) /\ DOMAIN r = 1..Len(r)
    BY <1>1, LenProperties
  <1> HIDE DEF r
  <1>3. DOMAIN r = DOMAIN q \cup {n} /\ n \notin DOMAIN q
    BY <1>1, <1>2
  <1> HIDE DEF n
  <1>4. \A i \in DOMAIN q : r[i] = q[i]
    BY <1>1, <1>2
  <1>5. Textos(r) = Textos(q) \cup {m.texto}
    BY <1>1, <1>3, <1>4 DEF Textos
  <1>6. \A i \in DOMAIN q : q[i].texto # m.texto
    BY DEF Textos
  <1>7. SinRepetir(r)
    BY <1>1, <1>3, <1>4, <1>6 DEF SinRepetir
  <1>8. QED
    BY <1>5, <1>7 DEF r

(* A SEND stores a message and carries a copy: one message more, and one   *)
(* thread more that is to remove it.                                       *)
LEMMA AceptarDueno ==
  ASSUME IInv, IInv', IDueno, NEW t \in Hilos, NEW d \in DOMAIN user, NEW m \in Mensaje,
         m.texto = Len(aceptados) + 1, hilo[t].pc = "SEND",
         DOMAIN user' = DOMAIN user,
         user'[d].mensajes = Append(user[d].mensajes, m),
         \A v \in DOMAIN user : user'[v].estado = user[v].estado,
         \A v \in DOMAIN user \ {d} : user'[v].mensajes = user[v].mensajes,
         \A s \in Hilos \ {t} : hilo'[s] = hilo[s],
         hilo'[t].pc = "responder_envio", hilo'[t].lista = <<m>>
  PROVE  IDueno'
  <1>1. d \in Nombres /\ Conectados' = Conectados /\ Conectados \subseteq Nombres
    BY DEF Conectados, IInv, TypeOK
  <1>2. Cola(d)' = Append(Cola(d), m) /\ \A v \in Nombres \ {d} : Cola(v)' = Cola(v)
    BY SoloLaColaDe
  <1>3. Mano(t) = <<>> /\ Mano(t)' = <<>>
    BY DEF Mano, PuntosConnect
  <1>4. UnSoloDueno'
    <2>1. UnSoloDueno /\ SinRepetir(Cola(d)) /\ m.texto \notin Textos(Cola(d))
      BY <1>1, TextoNuevo, SonTextos DEF IDueno, UnSoloDueno
    <2>2. /\ SinRepetir(Cola(d)')
          /\ Textos(Cola(d)') = EnCola(d) \cup {Len(aceptados) + 1}
      BY <1>1, <1>2, <2>1, TipoColas, AnadirSinRepetir, SonTextos
    <2>3. SinRepetir(Mano(t)') /\ Textos(Mano(t)') = {}
      BY <1>3, SonTextos
    <2>4. \A s \in Hilos \ {t} : Mano(s)' = Mano(s)
      BY DEF Mano
    <2>5. Intercambio(t, d, {Len(aceptados) + 1})
      BY <1>2, <2>2, <2>3, <2>4 DEF Intercambio
    <2>6. QED
      BY <1>1, <2>1, <2>5, TextoNuevo, DuenoCambia
  <1>5. ASSUME NEW v \in Conectados, NEW k
        PROVE  Cardinality(Iguales(Cola(v)', k)) <= Cardinality(Envian(k)')
    <2> DEFINE a == Cardinality(Iguales(Cola(v), k))
               b == Cardinality(Iguales(Cola(v)', k))
               e == Cardinality(Envian(k))
               c == IF Clave(m) = k THEN 1 ELSE 0
    <2>1. a <= e /\ a \in Nat /\ e \in Nat
      BY VaradosDe, TipoColas, IgualesFinito, EnvianFinito DEF IDueno
    <2>2. b = a \/ b = a + c
      <3>1. CASE v = d
        <4>1. Cola(v)' = Append(Cola(v), m) /\ Cola(v) \in Seq(Mensaje)
          BY <1>2, <3>1, TipoColas
        <4>2. Cardinality(Iguales(Append(Cola(v), m), k)) = a + c
          BY <4>1, UnoMas
        <4>3. QED
          BY <4>1, <4>2
      <3>2. CASE v # d
        BY <1>1, <1>2, <3>2
      <3>3. QED
        BY <3>1, <3>2
    <2>3. Cardinality(Envian(k)') = e + c
      <3>1. t \notin Envian(k) /\ Head(<<m>>) = m
        <4>1. <<m>> \in Seq(Mensaje) /\ <<m>> # <<>> /\ <<m>>[1] = m
          OBVIOUS
        <4>2. Head(<<m>>) = m
          BY <4>1, HeadTailProperties
        <4>3. QED
          BY <4>2 DEF Envian, PuntosEnvio
      <3>2. t \in Envian(k)' <=> Clave(m) = k
        BY <3>1 DEF Envian, PuntosEnvio
      <3>3. \A s \in Hilos \ {t} : s \in Envian(k)' <=> s \in Envian(k)
        BY DEF Envian
      <3>4. Envian(k) \subseteq Hilos /\ Envian(k)' \subseteq Hilos
        BY DEF Envian
      <3>5. CASE Clave(m) = k
        <4>1. Envian(k)' = Envian(k) \cup {t}
          BY <3>2, <3>3, <3>4, <3>5
        <4>2. Cardinality(Envian(k)') = Cardinality(Envian(k) \cup {t})
          BY <4>1
        <4>3. Cardinality(Envian(k) \cup {t}) = e + 1
          BY <3>1, EnvianFinito, FS_AddElement
        <4>4. c = 1
          BY <3>5
        <4>5. QED
          BY <4>2, <4>3, <4>4
      <3>6. CASE Clave(m) # k
        <4>1. Envian(k)' = Envian(k)
          <5>1. \A s \in Hilos : s \in Envian(k)' <=> s \in Envian(k)
            BY <3>1, <3>2, <3>3, <3>6
          <5>2. QED
            BY <3>4, <5>1
        <4>2. Cardinality(Envian(k)') = e
          BY <4>1
        <4>3. c = 0
          BY <3>6
        <4> HIDE DEF c, e
        <4>4. e \in Nat /\ e + c = e
          BY <2>1, <4>3
        <4>5. QED
          BY <4>2, <4>4 DEF e
      <3>7. QED
        BY <3>5, <3>6
    <2>4. c \in {0, 1}
      OBVIOUS
    <2> HIDE DEF a, b, c, e
    <2>5. b <= e + c
      BY <2>1, <2>2, <2>4
    <2>6. QED
      BY <2>3, <2>5 DEF b
  <1>6. SinVarados'
    BY <1>1, <1>5 DEF SinVarados, Iguales, Envian
  <1>7. QED
    BY <1>4, <1>6 DEF IDueno

LEMMA procesar_envio_comun_Dueno ==
  ASSUME IInv, IInv', IDueno, NEW t \in Hilos, procesar_envio_comun(t)
  PROVE  IDueno'
  <1> DEFINE p == hilo[t].pet
             u == p.usuario
             id == SiguienteId(user[u].ultimo_id_msg)
             m == [id |-> id, remitente |-> u, destino |-> p.destino,
                   adjunto |-> p.adjunto, texto |-> Len(aceptados) + 1]
             conId == [user EXCEPT ![u].ultimo_id_msg = id]
             existen == {u, p.destino} \subseteq DOMAIN user
  <1>1. hilo[t].pc = "SEND" /\ hilo[t].pc \in Operaciones
    BY DEF procesar_envio_comun, EnConMutexLibre, En, Operaciones
  <1>2. /\ p \in Peticion /\ p.op = "SEND" /\ u \in Nombres
        /\ p.destino \in Nombres /\ p.adjunto \in Adjuntos
    BY <1>1, HiloDe, PeticionTipo DEF Coherente
  <1>3. CASE Contestar(t, 1) /\ UNCHANGED user
    BY <1>1, <1>3, ManoTrasContestar, ColasQuietas, Quietos
  <1>4. CASE existen /\ user' = conId /\ Contestar(t, 2)
    <2>1. u \in DOMAIN user /\ \A v \in DOMAIN user : user[v] \in Nodo
      BY <1>4, ColaDe
    <2> HIDE DEF id
    <2>2. /\ DOMAIN user' = DOMAIN user
          /\ \A v \in DOMAIN user :
               user'[v] = IF v = u THEN [user[v] EXCEPT !.ultimo_id_msg = id] ELSE user[v]
      BY <1>4, <2>1
    <2>3. ASSUME NEW v \in DOMAIN user
          PROVE  user'[v].mensajes = user[v].mensajes /\ user'[v].estado = user[v].estado
      BY <2>1, <2>2 DEF Nodo
    <2>4. Conectados' = Conectados
      BY <2>2, <2>3 DEF Conectados
    <2>5. \A v \in Nombres : Cola(v)' = Cola(v)
      BY <2>2, <2>3 DEF Cola
    <2>6. QED
      BY <1>1, <1>4, <2>4, <2>5, ManoTrasContestar, Quietos
  <1>5. CASE /\ existen
             /\ user' = [conId EXCEPT ![p.destino].mensajes = Append(@, m)]
             /\ hilo' = [hilo EXCEPT ![t].pc = "responder_envio", ![t].lista = <<m>>]
    <2>1. user[u].ultimo_id_msg \in 0..MaxId /\ Len(aceptados) \in Nat
      BY <1>5, ColaDe, LenProperties DEF IInv, TypeOK, Nodo
    <2>2. id \in 1..MaxId
      BY <2>1, SiguienteIdTipo
    <2>3. m.texto = Len(aceptados) + 1 /\ u \in DOMAIN user /\ p.destino \in DOMAIN user
      BY <1>5
    <2> HIDE DEF id
    <2>4. m \in Mensaje
      BY <1>2, <2>1, <2>2 DEF Mensaje
    <2> HIDE DEF m
    <2>5. /\ user' \in [DOMAIN user -> Nodo]
          /\ user'[p.destino].mensajes = Append(user[p.destino].mensajes, m)
          /\ \A v \in DOMAIN user : user'[v].estado = user[v].estado /\ user'[v].dir = user[v].dir
          /\ \A v \in DOMAIN user \ {p.destino} : user'[v].mensajes = user[v].mensajes
      <3>1. user' = [[user EXCEPT ![u].ultimo_id_msg = id]
                       EXCEPT ![p.destino].mensajes = Append(@, m)]
        BY <1>5
      <3> HIDE DEF u, p
      <3>2. QED
        BY <2>2, <2>3, <2>4, <3>1, ColaCrece
    <2>6. /\ \A s \in Hilos \ {t} : hilo'[s] = hilo[s]
          /\ hilo'[t].pc = "responder_envio" /\ hilo'[t].lista = <<m>>
      <3>1. hilo' = [hilo EXCEPT ![t].pc = "responder_envio", ![t].lista = <<m>>]
        BY <1>5
      <3>2. QED
        BY <2>4, <3>1, CopiaPropia
    <2>7. DOMAIN user' = DOMAIN user
      BY <2>5
    <2>8. QED
      BY <1>1, <2>3, <2>4, <2>5, <2>6, <2>7, AceptarDueno
  <1>6. QED
    BY <1>3, <1>4, <1>5 DEF procesar_envio_comun
-----------------------------------------------------------------------------
(***************************************************************************)
(* One owner for each node, and nobody's message stranded.                 *)
(***************************************************************************)
LEMMA InitDueno ==
  Init => IDueno
  <1> SUFFICES ASSUME Init PROVE IDueno
    OBVIOUS
  <1>1. DOMAIN user = {}
    BY DEF Init
  <1>2. /\ \A u \in Nombres : Cola(u) = <<>> /\ EnCola(u) = {}
        /\ \A t \in Hilos : Mano(t) = <<>> /\ EnMano(t) = {}
    BY <1>1 DEF Init, Cola, EnCola, Mano, EnMano, HiloLibre, PuntosConnect
  <1>3. UnSoloDueno
    BY <1>2, SonTextos DEF UnSoloDueno
  <1>4. SinVarados
    BY <1>1 DEF SinVarados, Conectados
  <1>5. QED
    BY <1>3, <1>4 DEF IDueno

LEMMA DuenoInductivo ==
  IInv /\ IInv' /\ IDueno /\ [Next]_vars => IDueno'
  <1> SUFFICES ASSUME IInv, IInv', IDueno, [Next]_vars PROVE IDueno'
    OBVIOUS
  <1>1. CASE UNCHANGED vars
    <2>1. UNCHANGED <<user, hilo>>
      BY <1>1 DEF vars
    <2>2. /\ \A u \in Nombres : Parte(Cola(u)', Cola(u))
          /\ \A t \in Hilos : Parte(Mano(t)', Mano(t))
      BY <2>1, ParteIgual DEF Cola, Mano
    <2>3. UnSoloDueno'
      BY <2>2, DuenoMengua DEF IDueno
    <2>4. SinVarados'
      BY <2>1 DEF IDueno, SinVarados, Conectados, Cola, Iguales, Envian
    <2>5. QED
      BY <2>3, <2>4 DEF IDueno
  <1>2. ASSUME NEW t \in Hilos, NEW p \in Peticiones, procesar_peticion(t, p)
        PROVE  IDueno'
    BY <1>2, procesar_peticion_Dueno
  <1>3. ASSUME NEW t \in Hilos, Paso(t)
        PROVE  IDueno'
    BY <1>3, procesar_register_Dueno, procesar_unregister_Dueno,
       procesar_connect_Dueno, procesar_disconnect_Dueno, responder_Dueno,
       procesar_users_Dueno, listar_conectados_Dueno, procesar_envio_comun_Dueno,
       responder_envio_Dueno, envio_entregar_Dueno, envio_ack_Dueno,
       eliminar_mensaje_cola_Dueno, desconectar_destino_Dueno,
       entregar_pendiente_Dueno, buscar_remitente_Dueno, ack_pendiente_Dueno,
       reencolar_Dueno
       DEF Paso
  <1>4. QED
    BY <1>1, <1>2, <1>3 DEF Next, EsperaEnAccept

(* A node of a queue has one owner, whatever the threads interleave: it is *)
(* in one place of one queue or of one list that a CONNECT detached, so    *)
(* that the free of eliminar_mensaje_cola, of entregar_pendientes and of   *)
(* remove_user is the only one it gets (operaciones.c, linked_list.c).     *)
THEOREM DuenoUnico == Spec => []UnSoloDueno
  <1>1. IDueno => UnSoloDueno
    BY DEF IDueno
  <1>2. QED
    BY <1>1, InitDueno, DuenoInductivo, Invariante, PTL DEF Spec

(* A connected user has no message in its queue that no SEND thread is to  *)
(* remove: had the delivery failed, the user would be disconnected, and    *)
(* get the message with its next CONNECT (procesar_envio_comun).           *)
THEOREM NadieVarado == Spec => []SinVarados
  <1>1. IDueno => SinVarados
    BY DEF IDueno
  <1>2. QED
    BY <1>1, InitDueno, DuenoInductivo, Invariante, PTL DEF Spec
=============================================================================
