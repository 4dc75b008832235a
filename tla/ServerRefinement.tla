-------------------------- MODULE ServerRefinement --------------------------
(***************************************************************************)
(* What the central server implements, for any number of users, threads,   *)
(* addresses, requests and ids: the message store (MessageStore), and the  *)
(* directory that the clients see (UserDirectory).                         *)
(***************************************************************************)
EXTENDS ServerProofs
-----------------------------------------------------------------------------
(***************************************************************************)
(* Each step of a thread is one step of the store, or changes nothing that *)
(* the store can see.                                                      *)
(***************************************************************************)
PasoAlmacen == [Almacen!Next]_(Almacen!vars)

(* Threads that move without touching a queue or a list in hand. *)
LEMMA RetenidosIguales ==
  ASSUME NEW t \in Hilos, \A s \in Hilos \ {t} : hilo'[s] = hilo[s],
         EnMano(t)' = EnMano(t), \A u \in Nombres : EnCola(u)' = EnCola(u)
  PROVE  Retenidos' = Retenidos
  <1>1. \A s \in Hilos : EnMano(s)' = EnMano(s)
    BY DEF EnMano
  <1>2. QED
    BY <1>1 DEF Retenidos

LEMMA PasoInvisible ==
  ASSUME Retenidos' = Retenidos, UNCHANGED historia
  PROVE  PasoAlmacen
  BY DEF PasoAlmacen, Almacen!vars, historia

(* Nothing is in the hands of a thread without messages. *)
LEMMA ManoVacia ==
  ASSUME NEW h, h.lista = <<>> \/ h.pc \notin PuntosConnect
  PROVE  (IF h.pc \in PuntosConnect THEN Textos(h.lista) ELSE {}) = {}
  BY DEF Textos

LEMMA ManoAlContestar ==
  ASSUME IInv, NEW t \in Hilos, hilo[t].pc \in Operaciones, NEW r \in Nat,
         Contestar(t, r)
  PROVE  /\ EnMano(t)' = EnMano(t)
         /\ \A s \in Hilos \ {t} : hilo'[s] = hilo[s]
  <1>1. hilo[t].lista = <<>>
    BY HiloDe DEF Coherente, Operaciones, PuntosEnvio, PuntosConnect
  <1>2. hilo'[t] = [hilo[t] EXCEPT !.pc = "responder", !.res = r]
    BY HiloDe DEF Contestar
  <1>3. hilo'[t].lista = <<>>
    BY <1>1, <1>2, HiloDe DEF Hilo
  <1>4. EnMano(t) = {}
    BY <1>1, ManoVacia DEF EnMano
  <1>5. EnMano(t)' = {}
    BY <1>3, ManoVacia DEF EnMano
  <1>6. QED
    BY <1>4, <1>5, ContestarTipos

LEMMA ManoAlTerminar ==
  ASSUME IInv, NEW t \in Hilos, Terminar(t)
  PROVE  /\ EnMano(t)' = {}
         /\ \A s \in Hilos \ {t} : hilo'[s] = hilo[s]
  <1>1. hilo'[t] = HiloLibre /\ \A s \in Hilos \ {t} : hilo'[s] = hilo[s]
    BY TerminarTipos
  <1>2. QED
    BY <1>1, ManoVacia DEF EnMano, HiloLibre, PuntosConnect

LEMMA ManoAlIr ==
  ASSUME IInv, NEW t \in Hilos, NEW punto, IrA(t, punto),
         punto \in PuntosConnect <=> hilo[t].pc \in PuntosConnect
  PROVE  /\ EnMano(t)' = EnMano(t)
         /\ \A s \in Hilos \ {t} : hilo'[s] = hilo[s]
  <1>1. /\ hilo'[t] = [hilo[t] EXCEPT !.pc = punto]
        /\ \A s \in Hilos \ {t} : hilo'[s] = hilo[s]
    BY HiloDe DEF IrA
  <1>2. hilo'[t].pc = punto /\ hilo'[t].lista = hilo[t].lista
    BY <1>1, HiloDe DEF Hilo
  <1>3. QED
    BY <1>1, <1>2 DEF EnMano

(* An account whose queue does not change. *)
LEMMA ColasIguales ==
  ASSUME DOMAIN user' = DOMAIN user,
         \A v \in DOMAIN user : user'[v].mensajes = user[v].mensajes
  PROVE  \A u \in Nombres : EnCola(u)' = EnCola(u)
  BY DEF EnCola
-----------------------------------------------------------------------------
(***************************************************************************)
(* The steps that the store cannot see.                                    *)
(***************************************************************************)
LEMMA procesar_peticion_Invisible ==
  ASSUME IInv, NEW t \in Hilos, NEW p \in Peticiones, procesar_peticion(t, p)
  PROVE  PasoAlmacen
  <1>1. p.op \in Operaciones
    BY ConstantesServer, PeticionTipo
  <1>2. /\ hilo'[t] = [hilo[t] EXCEPT !.pc = p.op, !.pet = p]
        /\ \A s \in Hilos \ {t} : hilo'[s] = hilo[s]
    BY HiloDe DEF procesar_peticion
  <1>3. hilo'[t].pc = p.op /\ hilo[t].pc = "libre"
    BY <1>2, HiloDe DEF Hilo, procesar_peticion, En
  <1>4. EnMano(t)' = EnMano(t)
    BY <1>1, <1>3 DEF EnMano, Operaciones, PuntosConnect
  <1>5. \A u \in Nombres : EnCola(u)' = EnCola(u)
    BY DEF procesar_peticion, EnCola
  <1>6. QED
    BY <1>2, <1>4, <1>5, RetenidosIguales, PasoInvisible DEF procesar_peticion

LEMMA procesar_register_Invisible ==
  ASSUME IInv, NEW t \in Hilos, procesar_register(t)
  PROVE  PasoAlmacen
  <1> DEFINE u == hilo[t].pet.usuario
  <1>1. /\ hilo[t].pc \in Operaciones
        /\ \E r \in {0, 1} : Contestar(t, r)
        /\ UNCHANGED historia
    BY DEF procesar_register, EnConMutexLibre, En, Operaciones
  <1>2. \A v \in Nombres : EnCola(v)' = EnCola(v)
    <2>1. CASE UNCHANGED user
      BY <2>1 DEF EnCola
    <2>2. CASE u \notin DOMAIN user /\ user' = add_user(u)
      <3>1. /\ DOMAIN user' = DOMAIN user \cup {u}
            /\ user'[u].mensajes = <<>>
            /\ \A v \in DOMAIN user : user'[v] = user[v]
        BY <2>2 DEF add_user
      <3>2. Textos(<<>>) = {}
        BY DEF Textos
      <3>3. QED
        BY <2>2, <3>1, <3>2 DEF EnCola
    <2>3. QED
      BY <2>1, <2>2 DEF procesar_register
  <1>3. QED
    BY <1>1, <1>2, ManoAlContestar, RetenidosIguales, PasoInvisible

LEMMA procesar_disconnect_Invisible ==
  ASSUME IInv, NEW t \in Hilos, procesar_disconnect(t)
  PROVE  PasoAlmacen
  <1> DEFINE u == hilo[t].pet.usuario
  <1>1. /\ hilo[t].pc \in Operaciones
        /\ \E r \in 0..3 : Contestar(t, r)
        /\ UNCHANGED historia
    BY DEF procesar_disconnect, EnConMutexLibre, En, Operaciones
  <1>2. \A v \in Nombres : EnCola(v)' = EnCola(v)
    <2>1. CASE UNCHANGED user
      BY <2>1 DEF EnCola
    <2>2. CASE u \in DOMAIN user /\ user' = MarcarDesconectado(u)
      BY <2>2, MarcarDesconectadoTipos, ColasIguales
    <2>3. QED
      BY <2>1, <2>2 DEF procesar_disconnect, EstaConectado, Conectados
  <1>3. QED
    BY <1>1, <1>2, ManoAlContestar, RetenidosIguales, PasoInvisible

LEMMA responder_Invisible ==
  ASSUME IInv, NEW t \in Hilos, responder(t)
  PROVE  PasoAlmacen
  <1>1. hilo[t].pc = "responder" /\ UNCHANGED <<user, historia>>
    BY DEF responder, En
  <1>2. \A u \in Nombres : EnCola(u)' = EnCola(u)
    BY <1>1 DEF EnCola
  <1>3. EnMano(t)' = EnMano(t) /\ \A s \in Hilos \ {t} : hilo'[s] = hilo[s]
    <2>1. CASE hilo[t].lista = <<>>
      <3>1. EnMano(t) = {}
        BY <2>1, ManoVacia DEF EnMano
      <3>2. QED
        BY <2>1, <3>1, ManoAlTerminar DEF responder
    <2>2. CASE hilo[t].lista # <<>>
      <3>1. IrA(t, "entregar")
        BY <2>2 DEF responder
      <3>2. QED
        BY <1>1, <3>1, ManoAlIr DEF PuntosConnect
    <2>3. QED
      BY <2>1, <2>2
  <1>4. QED
    BY <1>1, <1>2, <1>3, RetenidosIguales, PasoInvisible

LEMMA procesar_users_Invisible ==
  ASSUME IInv, NEW t \in Hilos, procesar_users(t)
  PROVE  PasoAlmacen
  <1>1. /\ hilo[t].pc = "USERS" /\ hilo[t].pc \in Operaciones
        /\ UNCHANGED <<user, historia>>
    BY DEF procesar_users, EnConMutexLibre, En, Operaciones
  <1>2. \A u \in Nombres : EnCola(u)' = EnCola(u)
    BY <1>1 DEF EnCola
  <1>3. EnMano(t)' = EnMano(t) /\ \A s \in Hilos \ {t} : hilo'[s] = hilo[s]
    <2>1. ASSUME NEW r \in {1, 2}, Contestar(t, r)
          PROVE  EnMano(t)' = EnMano(t) /\ \A s \in Hilos \ {t} : hilo'[s] = hilo[s]
      BY <1>1, <2>1, ManoAlContestar
    <2>2. CASE hilo' = [hilo EXCEPT ![t].pc = "listar",
                                    ![t].res = Cardinality(Conectados)]
      <3>1. /\ hilo'[t] = [hilo[t] EXCEPT !.pc = "listar", !.res = Cardinality(Conectados)]
            /\ \A s \in Hilos \ {t} : hilo'[s] = hilo[s]
        BY <2>2, HiloDe
      <3>2. hilo'[t].pc = "listar"
        BY <3>1, HiloDe DEF Hilo
      <3>3. QED
        BY <1>1, <3>1, <3>2 DEF EnMano, PuntosConnect
    <2>3. QED
      BY <2>1, <2>2 DEF procesar_users
  <1>4. QED
    BY <1>1, <1>2, <1>3, RetenidosIguales, PasoInvisible

(* A thread that ends with nothing in its hands. *)
LEMMA TerminarInvisible ==
  ASSUME IInv, NEW t \in Hilos, hilo[t].pc \notin PuntosConnect, Terminar(t),
         UNCHANGED historia, \A u \in Nombres : EnCola(u)' = EnCola(u)
  PROVE  PasoAlmacen
  BY ManoAlTerminar, RetenidosIguales, PasoInvisible DEF EnMano

LEMMA listar_conectados_Invisible ==
  ASSUME IInv, NEW t \in Hilos, listar_conectados(t)
  PROVE  PasoAlmacen
  <1>1. \A u \in Nombres : EnCola(u)' = EnCola(u)
    BY DEF listar_conectados, EnCola
  <1>2. QED
    BY <1>1, TerminarInvisible DEF listar_conectados, En, PuntosConnect

LEMMA responder_envio_Invisible ==
  ASSUME IInv, NEW t \in Hilos, responder_envio(t)
  PROVE  PasoAlmacen
  <1> DEFINE p == hilo[t].pet
             dest == user[p.destino].dir
             rem == IF EstaConectado(p.usuario) THEN user[p.usuario].dir ELSE SinDir
  <1>1. hilo[t].pc = "responder_envio" /\ UNCHANGED <<user, historia>>
    BY DEF responder_envio, En
  <1>2. \A u \in Nombres : EnCola(u)' = EnCola(u)
    BY <1>1 DEF EnCola
  <1>3. CASE Terminar(t)
    BY <1>1, <1>2, <1>3, TerminarInvisible DEF PuntosConnect
  <1>4. CASE hilo' = [hilo EXCEPT ![t].pc = "envio_entregar", ![t].dest = dest,
                                  ![t].rem = rem]
    <2> HIDE DEF dest, rem
    <2>1. /\ hilo'[t] = [hilo[t] EXCEPT !.pc = "envio_entregar", !.dest = dest, !.rem = rem]
          /\ \A s \in Hilos \ {t} : hilo'[s] = hilo[s]
      BY <1>4, HiloDe
    <2>2. hilo'[t].pc = "envio_entregar"
      BY <2>1, HiloDe DEF Hilo
    <2>3. EnMano(t)' = EnMano(t)
      BY <1>1, <2>2 DEF EnMano, PuntosConnect
    <2>4. QED
      BY <1>1, <1>2, <2>1, <2>3, RetenidosIguales, PasoInvisible
  <1>5. QED
    BY <1>3, <1>4 DEF responder_envio

LEMMA envio_ack_Invisible ==
  ASSUME IInv, NEW t \in Hilos, envio_ack(t)
  PROVE  PasoAlmacen
  <1>1. \A u \in Nombres : EnCola(u)' = EnCola(u)
    BY DEF envio_ack, EnCola
  <1>2. QED
    BY <1>1, ManoAlIr, RetenidosIguales, PasoInvisible DEF envio_ack, En, PuntosConnect

LEMMA desconectar_destino_Invisible ==
  ASSUME IInv, NEW t \in Hilos, desconectar_destino(t)
  PROVE  PasoAlmacen
  <1> DEFINE u == hilo[t].pet.destino
  <1>1. \A v \in Nombres : EnCola(v)' = EnCola(v)
    <2>1. CASE u \in DOMAIN user /\ user' = MarcarDesconectado(u)
      BY <2>1, MarcarDesconectadoTipos, ColasIguales
    <2>2. CASE UNCHANGED user
      BY <2>2 DEF EnCola
    <2>3. QED
      BY <2>1, <2>2 DEF desconectar_destino
  <1>2. QED
    BY <1>1, TerminarInvisible
    DEF desconectar_destino, EnConMutexLibre, En, PuntosConnect
-----------------------------------------------------------------------------
(***************************************************************************)
(* Deliveries.                                                             *)
(***************************************************************************)
LEMMA EntregaVisible ==
  ASSUME IInv, NEW t \in Hilos, hilo[t].lista # <<>>, UNCHANGED <<user, aceptados, cancelados>>,
         NEW punto, IrA(t, punto),
         punto \in PuntosConnect <=> hilo[t].pc \in PuntosConnect,
         \/ entregados' = entregados \cup {Head(hilo[t].lista).texto}
         \/ entregados' = entregados
  PROVE  PasoAlmacen
  <1>1. \A u \in Nombres : EnCola(u)' = EnCola(u)
    BY DEF EnCola
  <1>2. Retenidos' = Retenidos
    BY <1>1, ManoAlIr, RetenidosIguales
  <1>3. CASE entregados' = entregados
    BY <1>2, <1>3, PasoInvisible DEF historia
  <1>4. CASE entregados' = entregados \cup {Head(hilo[t].lista).texto}
    <2>1. Head(hilo[t].lista).texto \in DOMAIN aceptados
      BY ActualAnotado DEF Anotado
    <2>2. Almacen!Entregar(Head(hilo[t].lista).texto)
      BY <1>2, <1>4 DEF Almacen!Entregar
    <2>3. QED
      BY <2>1, <2>2 DEF PasoAlmacen, Almacen!Next
  <1>5. QED
    BY <1>3, <1>4

LEMMA envio_entregar_Visible ==
  ASSUME IInv, NEW t \in Hilos, envio_entregar(t)
  PROVE  PasoAlmacen
  <1>1. /\ hilo[t].pc = "envio_entregar" /\ hilo[t].lista # <<>>
        /\ UNCHANGED <<user, aceptados, cancelados>>
    BY HiloDe DEF envio_entregar, En, Coherente, PuntosEnvio
  <1>2. ASSUME NEW punto \in {"envio_ack", "eliminar", "desconectar"}, IrA(t, punto),
               \/ entregados' = entregados \cup {Head(hilo[t].lista).texto}
               \/ entregados' = entregados
        PROVE  PasoAlmacen
    BY <1>1, <1>2, EntregaVisible DEF PuntosConnect
  <1>3. QED
    BY <1>2 DEF envio_entregar

LEMMA entregar_pendiente_Visible ==
  ASSUME IInv, NEW t \in Hilos, entregar_pendiente(t)
  PROVE  PasoAlmacen
  <1>1. /\ hilo[t].pc = "entregar" /\ hilo[t].lista # <<>>
        /\ UNCHANGED <<user, aceptados, cancelados>>
    BY HiloDe DEF entregar_pendiente, En, Coherente, PuntosConnect
  <1>2. ASSUME NEW punto \in {"buscar_rem", "reencolar"}, IrA(t, punto),
               \/ entregados' = entregados \cup {Head(hilo[t].lista).texto}
               \/ entregados' = entregados
        PROVE  PasoAlmacen
    BY <1>1, <1>2, EntregaVisible DEF PuntosConnect
  <1>3. QED
    BY <1>2 DEF entregar_pendiente
-----------------------------------------------------------------------------
(***************************************************************************)
(* Queues that change hands, and nodes that are freed.                     *)
(***************************************************************************)
LEMMA RetenidosDe ==
  \A i : i \in Retenidos <=> \/ \E u \in Nombres : i \in EnCola(u)
                             \/ \E t \in Hilos : i \in EnMano(t)
  BY DEF Retenidos

(* A step after which the store holds nothing new, and what it holds no    *)
(* more was accounted for.                                                 *)
LEMMA PasoSoltar ==
  ASSUME NEW t \in Hilos, \A s \in Hilos \ {t} : hilo'[s] = hilo[s], UNCHANGED historia,
         \A u \in Nombres : EnCola(u)' \subseteq Retenidos,
         EnMano(t)' \subseteq Retenidos,
         \A u \in Nombres : \A i \in EnCola(u) : i \in Retenidos' \/ Almacen!Saldado(i),
         \A i \in EnMano(t) : i \in Retenidos' \/ Almacen!Saldado(i)
  PROVE  PasoAlmacen
  <1> DEFINE S == Retenidos \ Retenidos'
  <1>1. \A s \in Hilos \ {t} : EnMano(s)' = EnMano(s)
    BY DEF EnMano
  <1>2. Retenidos' \subseteq Retenidos
    <2>1. SUFFICES ASSUME NEW i \in Retenidos' PROVE i \in Retenidos
      OBVIOUS
    <2>2. CASE \E u \in Nombres : i \in EnCola(u)'
      BY <2>2
    <2>3. CASE \E s \in Hilos : i \in EnMano(s)'
      BY <1>1, <2>3, RetenidosDe
    <2>4. QED
      BY <2>1, <2>2, <2>3 DEF Retenidos
  <1>3. \A i \in S : Almacen!Saldado(i)
    <2>1. SUFFICES ASSUME NEW i \in Retenidos, i \notin Retenidos' PROVE Almacen!Saldado(i)
      OBVIOUS
    <2>2. \A s \in Hilos \ {t} : i \notin EnMano(s)
      BY <1>1, <2>1 DEF Retenidos
    <2>3. QED
      BY <2>1, <2>2, RetenidosDe
  <1>4. Almacen!Soltar(S)
    BY <1>2, <1>3 DEF Almacen!Soltar, historia
  <1>5. QED
    BY <1>4 DEF PasoAlmacen, Almacen!Next

(* Whatever agrees with a delivered message in all that the code compares  *)
(* is accounted for.                                                       *)
LEMMA EntregadoSaldado ==
  ASSUME NEW m \in Mensaje, NEW x \in Mensaje, Anotado(m), Anotado(x),
         m.texto \in entregados, Clave(x) = Clave(m)
  PROVE  Almacen!Saldado(x.texto)
  BY DEF Anotado, Almacen!Saldado, Almacen!Clave, Clave

LEMMA TextosDeConcatenar ==
  ASSUME NEW r \in Seq(Mensaje), NEW s \in Seq(Mensaje)
  PROVE  Textos(r \o s) = Textos(r) \cup Textos(s)
  <1>1. /\ r \o s \in Seq(Mensaje)
        /\ Len(r \o s) = Len(r) + Len(s)
        /\ \A i \in 1..(Len(r) + Len(s)) :
             (r \o s)[i] = IF i <= Len(r) THEN r[i] ELSE s[i - Len(r)]
    BY ConcatProperties
  <1>2. /\ DOMAIN (r \o s) = 1..(Len(r) + Len(s))
        /\ DOMAIN r = 1..Len(r) /\ Len(r) \in Nat
        /\ DOMAIN s = 1..Len(s) /\ Len(s) \in Nat
    BY <1>1, LenProperties
  <1>3. ASSUME NEW i \in DOMAIN (r \o s)
        PROVE  \/ \E j \in DOMAIN r : (r \o s)[i] = r[j]
               \/ \E j \in DOMAIN s : (r \o s)[i] = s[j]
    <2>1. CASE i <= Len(r)
      BY <1>1, <1>2, <2>1
    <2>2. CASE i > Len(r)
      <3>1. i - Len(r) \in DOMAIN s /\ (r \o s)[i] = s[i - Len(r)]
        BY <1>1, <1>2, <2>2
      <3>2. QED
        BY <3>1
    <2>3. QED
      BY <1>2, <2>1, <2>2
  <1>4. ASSUME NEW i \in DOMAIN r
        PROVE  i \in DOMAIN (r \o s) /\ (r \o s)[i] = r[i]
    BY <1>1, <1>2
  <1>5. ASSUME NEW i \in DOMAIN s
        PROVE  Len(r) + i \in DOMAIN (r \o s) /\ (r \o s)[Len(r) + i] = s[i]
    BY <1>1, <1>2
  <1>6. Textos(r \o s) \subseteq Textos(r) \cup Textos(s)
    BY <1>3 DEF Textos
  <1>7. Textos(r) \subseteq Textos(r \o s)
    BY <1>4 DEF Textos
  <1>8. Textos(s) \subseteq Textos(r \o s)
    BY <1>5 DEF Textos
  <1>9. QED
    BY <1>6, <1>7, <1>8

LEMMA TextosDeAnadir ==
  ASSUME NEW s \in Seq(Mensaje), NEW m \in Mensaje
  PROVE  Textos(Append(s, m)) = Textos(s) \cup {m.texto}
  <1>1. /\ Append(s, m) \in Seq(Mensaje)
        /\ Len(Append(s, m)) = Len(s) + 1
        /\ \A i \in 1..Len(s) : Append(s, m)[i] = s[i]
        /\ Append(s, m)[Len(s) + 1] = m
    BY AppendProperties
  <1>2. /\ DOMAIN Append(s, m) = 1..(Len(s) + 1)
        /\ DOMAIN s = 1..Len(s) /\ Len(s) \in Nat
    BY <1>1, LenProperties
  <1>3. DOMAIN Append(s, m) = DOMAIN s \cup {Len(s) + 1}
    BY <1>2
  <1>4. QED
    BY <1>1, <1>2, <1>3 DEF Textos

LEMMA procesar_connect_Visible ==
  ASSUME IInv, NEW t \in Hilos, procesar_connect(t)
  PROVE  PasoAlmacen
  <1> DEFINE u == hilo[t].pet.usuario
             d == hilo[t].pet.dir
             cola == user[u].mensajes
             n == [user[u] EXCEPT !.estado = CONECTADO, !.dir = d, !.mensajes = <<>>]
             h == [hilo[t] EXCEPT !.pc = "responder", !.res = 0, !.lista = cola, !.dest = d]
  <1>1. /\ hilo[t].pc = "CONNECT" /\ hilo[t].pc \in Operaciones /\ UNCHANGED historia
    BY DEF procesar_connect, EnConMutexLibre, En, Operaciones
  <1>2. ASSUME NEW r \in {1, 2}, Contestar(t, r), UNCHANGED user PROVE PasoAlmacen
    <2>1. \A v \in Nombres : EnCola(v)' = EnCola(v)
      BY <1>2 DEF EnCola
    <2>2. QED
      BY <1>1, <1>2, <2>1, ManoAlContestar, RetenidosIguales, PasoInvisible
  <1>3. CASE /\ u \in DOMAIN user
             /\ user' = Conectar(u, d)
             /\ hilo' = [hilo EXCEPT ![t].pc = "responder", ![t].res = 0,
                                     ![t].lista = user[u].mensajes, ![t].dest = d]
    <2>1. user \in [DOMAIN user -> Nodo] /\ user[u] \in Nodo /\ u \in Nombres
      BY <1>3 DEF IInv, TypeOK
    <2>2. user' = [user EXCEPT ![u] = n] /\ n.mensajes = <<>>
      BY <1>3, <2>1 DEF Conectar, Nodo
    <2>3. hilo' = [hilo EXCEPT ![t] = h] /\ h.pc = "responder" /\ h.lista = cola
      BY <1>3, HiloDe DEF Hilo
    <2> HIDE DEF n, h
    <2>4. /\ DOMAIN user' = DOMAIN user /\ user'[u].mensajes = <<>>
          /\ \A v \in DOMAIN user \ {u} : user'[v] = user[v]
      BY <1>3, <2>1, <2>2
    <2>5. hilo'[t] = h /\ \A s \in Hilos \ {t} : hilo'[s] = hilo[s]
      BY <2>3, HiloDe
    <2>6. EnMano(t)' = EnCola(u)
      BY <1>3, <2>3, <2>5 DEF EnMano, EnCola, PuntosConnect
    <2>7. EnMano(t) = {}
      BY <1>1 DEF EnMano, PuntosConnect
    <2>8. \A v \in Nombres : v = u => EnCola(v)' = {}
      <3>1. Textos(<<>>) = {}
        BY DEF Textos
      <3>2. QED
        BY <2>4, <3>1 DEF EnCola
    <2>9. \A v \in Nombres \ {u} : EnCola(v)' = EnCola(v)
      BY <2>4 DEF EnCola
    <2>10. \A v \in Nombres : EnCola(v)' \subseteq Retenidos
      BY <2>8, <2>9, RetenidosDe
    <2>11. EnMano(t)' \subseteq Retenidos
      BY <2>1, <2>6, RetenidosDe
    <2>12. \A v \in Nombres : \A i \in EnCola(v) : i \in Retenidos'
      BY <2>6, <2>9 DEF Retenidos
    <2>13. QED
      BY <1>1, <2>5, <2>7, <2>10, <2>11, <2>12, PasoSoltar
  <1>4. QED
    BY <1>2, <1>3 DEF procesar_connect

LEMMA AvanzarVisible ==
  ASSUME IInv, NEW t \in Hilos, hilo[t].lista # <<>>,
         hilo[t].pc \in {"buscar_rem", "ack_pendiente"}, Avanzar(t),
         UNCHANGED <<user, historia>>
  PROVE  PasoAlmacen
  <1> DEFINE resto == Tail(hilo[t].lista)
             h == [hilo[t] EXCEPT !.pc = "entregar", !.lista = resto, !.rem = SinDir]
  <1>1. hilo[t].lista \in Seq(Mensaje) /\ EnMano(t) = Textos(hilo[t].lista)
    BY HiloDe DEF Hilo, EnMano, PuntosConnect
  <1>2. /\ \A i \in DOMAIN resto :
             i + 1 \in DOMAIN hilo[t].lista /\ resto[i] = hilo[t].lista[i + 1]
        /\ \A j \in DOMAIN hilo[t].lista :
             j = 1 \/ (j - 1 \in DOMAIN resto /\ resto[j - 1] = hilo[t].lista[j])
    <2>1. /\ resto \in Seq(Mensaje)
          /\ Len(resto) = Len(hilo[t].lista) - 1
          /\ \A i \in 1..Len(resto) : resto[i] = hilo[t].lista[i + 1]
      BY <1>1, HeadTailProperties
    <2>2. /\ DOMAIN resto = 1..Len(resto)
          /\ DOMAIN hilo[t].lista = 1..Len(hilo[t].lista)
          /\ Len(hilo[t].lista) \in Nat
      BY <1>1, <2>1, LenProperties
    <2> HIDE DEF resto
    <2>3. QED
      BY <2>1, <2>2
  <1>3. Textos(resto) \subseteq Textos(hilo[t].lista)
    BY <1>2 DEF Textos
  <1>4. \A i \in Textos(hilo[t].lista) : i \in Textos(resto) \/ i = Head(hilo[t].lista).texto
    BY <1>2, ActualAnotado DEF Textos
  <1>5. Almacen!Saldado(Head(hilo[t].lista).texto)
    <2>1. Head(hilo[t].lista).texto \in entregados
      BY HiloDe DEF EntregadoAntes
    <2>2. QED
      BY <2>1, ActualAnotado, EntregadoSaldado
  <1>6. EnMano(t)' = Textos(resto) /\ \A s \in Hilos \ {t} : hilo'[s] = hilo[s]
    <2>1. CASE resto = <<>>
      <3>1. Terminar(t) /\ Textos(resto) = {}
        BY <2>1 DEF Avanzar, Textos
      <3>2. QED
        BY <3>1, ManoAlTerminar
    <2>2. CASE resto # <<>>
      <3>1. hilo' = [hilo EXCEPT ![t] = h] /\ h.pc = "entregar" /\ h.lista = resto
        BY <2>2, HiloDe DEF Avanzar, Hilo
      <3> HIDE DEF h, resto
      <3>2. hilo'[t] = h /\ \A s \in Hilos \ {t} : hilo'[s] = hilo[s]
        BY <3>1, HiloDe
      <3>3. QED
        BY <3>1, <3>2 DEF EnMano, PuntosConnect
    <2>3. QED
      BY <2>1, <2>2
  <1> HIDE DEF resto
  <1>7. \A u \in Nombres : EnCola(u)' = EnCola(u)
    BY DEF EnCola
  <1>8. /\ \A u \in Nombres : EnCola(u)' \subseteq Retenidos
        /\ EnMano(t)' \subseteq Retenidos
    BY <1>1, <1>3, <1>6, <1>7, RetenidosDe
  <1>9. \A u \in Nombres : \A i \in EnCola(u) : i \in Retenidos'
    BY <1>7 DEF Retenidos
  <1>10. \A i \in EnMano(t) : i \in Retenidos' \/ Almacen!Saldado(i)
    BY <1>1, <1>4, <1>5, <1>6 DEF Retenidos
  <1>11. QED
    BY <1>6, <1>8, <1>9, <1>10, PasoSoltar

LEMMA ack_pendiente_Visible ==
  ASSUME IInv, NEW t \in Hilos, ack_pendiente(t)
  PROVE  PasoAlmacen
  <1>1. hilo[t].pc = "ack_pendiente" /\ hilo[t].lista # <<>>
    BY HiloDe DEF ack_pendiente, En, Coherente, PuntosConnect
  <1>2. QED
    BY <1>1, AvanzarVisible DEF ack_pendiente

LEMMA buscar_remitente_Visible ==
  ASSUME IInv, NEW t \in Hilos, buscar_remitente(t)
  PROVE  PasoAlmacen
  <1> DEFINE r == Head(hilo[t].lista).remitente
             d == user[r].dir
             h == [hilo[t] EXCEPT !.pc = "ack_pendiente", !.rem = d]
  <1>1. hilo[t].pc = "buscar_rem" /\ hilo[t].lista # <<>> /\ UNCHANGED <<user, historia>>
    BY HiloDe DEF buscar_remitente, EnConMutexLibre, En, Coherente, PuntosConnect
  <1>2. CASE ~EstaConectado(r)
    BY <1>1, <1>2, AvanzarVisible DEF buscar_remitente
  <1>3. CASE EstaConectado(r)
    <2>1. /\ hilo' = [hilo EXCEPT ![t] = h]
          /\ h.pc = "ack_pendiente" /\ h.lista = hilo[t].lista
      BY <1>3, HiloDe DEF buscar_remitente, Hilo
    <2> HIDE DEF h
    <2>2. hilo'[t] = h /\ \A s \in Hilos \ {t} : hilo'[s] = hilo[s]
      BY <2>1, HiloDe
    <2>3. EnMano(t)' = EnMano(t)
      BY <1>1, <2>1, <2>2 DEF EnMano, PuntosConnect
    <2>4. \A u \in Nombres : EnCola(u)' = EnCola(u)
      BY <1>1 DEF EnCola
    <2>5. QED
      BY <1>1, <2>2, <2>3, <2>4, RetenidosIguales, PasoInvisible
  <1>4. QED
    BY <1>2, <1>3

LEMMA reencolar_Visible ==
  ASSUME IInv, NEW t \in Hilos, reencolar(t)
  PROVE  PasoAlmacen
  <1> DEFINE u == hilo[t].pet.usuario
             antes == user[u].mensajes
             lista == hilo[t].lista
             n == [user[u] EXCEPT !.estado = DESCONECTADO, !.dir = SinDir,
                                  !.mensajes = antes \o lista]
  <1>1. hilo[t].pc = "reencolar" /\ Terminar(t) /\ UNCHANGED historia
    BY DEF reencolar, EnConMutexLibre, En
  <1>2. /\ EnMano(t)' = {} /\ EnMano(t) = Textos(lista)
        /\ \A s \in Hilos \ {t} : hilo'[s] = hilo[s]
    BY <1>1, ManoAlTerminar DEF EnMano, PuntosConnect
  <1>3. /\ lista \in Seq(Mensaje)
        /\ \A i \in DOMAIN lista : Anotado(lista[i]) /\ lista[i].destino = u
    BY <1>1, HiloDe DEF Hilo, ListaFiel, PuntosEnvio
  <1>4. CASE u \in DOMAIN user
    <2>1. user \in [DOMAIN user -> Nodo] /\ user[u] \in Nodo /\ u \in Nombres
      BY <1>4 DEF IInv, TypeOK
    <2>2. user' = [user EXCEPT ![u] = n] /\ n.mensajes = antes \o lista
      BY <1>4, <2>1 DEF reencolar, Devolver, MarcarDesconectado, Nodo
    <2>3. /\ DOMAIN user' = DOMAIN user
          /\ user'[u].mensajes = antes \o lista
          /\ \A v \in DOMAIN user \ {u} : user'[v] = user[v]
      BY <1>4, <2>1, <2>2
    <2>4. Textos(antes \o lista) = Textos(antes) \cup Textos(lista)
      BY <1>3, <1>4, ColaDe, TextosDeConcatenar
    <2>5. \A v \in Nombres :
            EnCola(v)' = IF v = u THEN EnCola(v) \cup EnMano(t) ELSE EnCola(v)
      BY <1>2, <1>4, <2>3, <2>4 DEF EnCola
    <2>6. \A v \in Nombres : EnCola(v)' \subseteq Retenidos
      BY <2>5, RetenidosDe
    <2>7. /\ \A v \in Nombres : \A i \in EnCola(v) : i \in Retenidos'
          /\ \A i \in EnMano(t) : i \in Retenidos'
      BY <2>1, <2>5 DEF Retenidos
    <2>8. QED
      BY <1>1, <1>2, <2>6, <2>7, PasoSoltar
  <1>5. CASE u \notin DOMAIN user
    <2>1. \A v \in Nombres : EnCola(v)' = EnCola(v)
      BY <1>5 DEF reencolar, EnCola
    <2>2. \A v \in Nombres : EnCola(v)' \subseteq Retenidos
      BY <2>1, RetenidosDe
    <2>3. \A v \in Nombres : \A i \in EnCola(v) : i \in Retenidos'
      BY <2>1 DEF Retenidos
    <2>4. \A i \in EnMano(t) : Almacen!Saldado(i)
      BY <1>2, <1>3, <1>5 DEF Textos, Anotado, IInv, DestinoVivo, Almacen!Saldado
    <2>5. QED
      BY <1>1, <1>2, <2>2, <2>3, <2>4, PasoSoltar
  <1>6. QED
    BY <1>4, <1>5

LEMMA eliminar_mensaje_cola_Visible ==
  ASSUME IInv, NEW t \in Hilos, eliminar_mensaje_cola(t)
  PROVE  PasoAlmacen
  <1> DEFINE u == hilo[t].pet.destino
             m == Head(hilo[t].lista)
             antes == user[u].mensajes
             cola == SinMensaje(antes, m)
             n == [user[u] EXCEPT !.mensajes = cola]
  <1>1. /\ hilo[t].pc = "eliminar" /\ hilo[t].lista # <<>> /\ Terminar(t)
        /\ UNCHANGED historia
    BY HiloDe DEF eliminar_mensaje_cola, EnConMutexLibre, En, Coherente, PuntosEnvio
  <1>2. /\ EnMano(t)' = {} /\ EnMano(t) = {}
        /\ \A s \in Hilos \ {t} : hilo'[s] = hilo[s]
    BY <1>1, ManoAlTerminar DEF EnMano, PuntosConnect
  <1>3. m \in Mensaje /\ Anotado(m) /\ m.texto \in entregados
    BY <1>1, HiloDe, ActualAnotado DEF EntregadoAntes
  <1>4. CASE u \notin DOMAIN user
    <2>1. \A v \in Nombres : EnCola(v)' = EnCola(v)
      BY <1>4 DEF eliminar_mensaje_cola, EnCola
    <2>2. QED
      BY <1>1, <1>2, <2>1, RetenidosIguales, PasoInvisible
  <1>5. CASE u \in DOMAIN user
    <2>1. user \in [DOMAIN user -> Nodo] /\ user[u] \in Nodo /\ u \in Nombres
      BY <1>5 DEF IInv, TypeOK
    <2>2. /\ antes \in Seq(Mensaje)
          /\ \A i \in DOMAIN antes : Anotado(antes[i]) /\ antes[i] \in Mensaje
      BY <1>5, ColaDe, ElementOfSeq, LenProperties
    <2>3. user' = [user EXCEPT ![u] = n]
      BY <1>5, <2>1 DEF eliminar_mensaje_cola
    <2> HIDE DEF antes, m
    <2>4. /\ \A k \in DOMAIN cola : \E i \in DOMAIN antes : cola[k] = antes[i]
          /\ \A i \in DOMAIN antes :
               Clave(antes[i]) = Clave(m) \/ \E k \in DOMAIN cola : cola[k] = antes[i]
      BY <2>2, SinMensajePropiedades
    <2> HIDE DEF cola
    <2>5. n.mensajes = cola
      BY <2>1 DEF Nodo
    <2> HIDE DEF n
    <2>6. /\ DOMAIN user' = DOMAIN user
          /\ user'[u].mensajes = cola
          /\ \A v \in DOMAIN user \ {u} : user'[v] = user[v]
      BY <1>5, <2>1, <2>3, <2>5
    <2>7. Textos(cola) \subseteq Textos(antes)
      BY <2>4 DEF Textos
    <2>8. \A i \in Textos(antes) : i \in Textos(cola) \/ Almacen!Saldado(i)
      <3>1. SUFFICES ASSUME NEW k \in DOMAIN antes
                     PROVE  antes[k].texto \in Textos(cola) \/ Almacen!Saldado(antes[k].texto)
        BY DEF Textos
      <3>2. CASE Clave(antes[k]) = Clave(m)
        BY <1>3, <2>2, <3>2, EntregadoSaldado
      <3>3. CASE \E j \in DOMAIN cola : cola[j] = antes[k]
        BY <3>3 DEF Textos
      <3>4. QED
        BY <2>4, <3>2, <3>3
    <2>9. \A v \in Nombres : EnCola(v)' = IF v = u THEN Textos(cola) ELSE EnCola(v)
      BY <1>5, <2>6 DEF EnCola
    <2>10. EnCola(u) = Textos(antes)
      BY <1>5 DEF EnCola, antes
    <2>11. \A v \in Nombres : EnCola(v)' \subseteq Retenidos
      BY <2>1, <2>7, <2>9, <2>10, RetenidosDe
    <2>12. \A v \in Nombres : \A i \in EnCola(v) : i \in Retenidos' \/ Almacen!Saldado(i)
      BY <2>1, <2>8, <2>9, <2>10 DEF Retenidos
    <2>13. QED
      BY <1>1, <1>2, <2>11, <2>12, PasoSoltar
  <1>6. QED
    BY <1>4, <1>5
-----------------------------------------------------------------------------
(***************************************************************************)
(* New messages and removed accounts.                                      *)
(***************************************************************************)
LEMMA procesar_unregister_Visible ==
  ASSUME IInv, NEW t \in Hilos, procesar_unregister(t)
  PROVE  PasoAlmacen
  <1> DEFINE u == hilo[t].pet.usuario
             S == Retenidos \ Retenidos'
  <1>1. /\ hilo[t].pc = "UNREGISTER" /\ hilo[t].pc \in Operaciones
        /\ \E r \in {0, 1} : Contestar(t, r)
        /\ UNCHANGED <<aceptados, entregados>>
    BY DEF procesar_unregister, EnConMutexLibre, En, Operaciones
  <1>2. /\ EnMano(t)' = EnMano(t)
        /\ \A s \in Hilos \ {t} : hilo'[s] = hilo[s]
    BY <1>1, ManoAlContestar
  <1>3. CASE UNCHANGED <<user, cancelados>>
    <2>1. \A v \in Nombres : EnCola(v)' = EnCola(v)
      BY <1>3 DEF EnCola
    <2>2. QED
      BY <1>1, <1>2, <1>3, <2>1, RetenidosIguales, PasoInvisible DEF historia
  <1>4. CASE /\ u \in DOMAIN user
             /\ user' = remove_user(u)
             /\ cancelados' = cancelados
                  \cup {i \in DOMAIN aceptados : aceptados[i].destino = u}
    <2>1. /\ DOMAIN user' = DOMAIN user \ {u}
          /\ \A v \in DOMAIN user' : user'[v] = user[v]
      BY <1>4 DEF remove_user, Restrict
    <2>2. u \in Nombres
      BY <1>4 DEF IInv, TypeOK
    <2>3. \A v \in Nombres : EnCola(v)' = IF v = u THEN {} ELSE EnCola(v)
      BY <2>1 DEF EnCola
    <2>4. \A s \in Hilos : EnMano(s)' = EnMano(s)
      BY <1>2 DEF EnMano
    <2>5. Retenidos' \subseteq Retenidos
      <3>1. SUFFICES ASSUME NEW i \in Retenidos' PROVE i \in Retenidos
        OBVIOUS
      <3>2. \/ \E v \in Nombres : i \in EnCola(v)'
            \/ \E s \in Hilos : i \in EnMano(s)'
        BY <3>1 DEF Retenidos
      <3>3. QED
        BY <2>3, <2>4, <3>2, RetenidosDe
    <2>6. S \subseteq EnCola(u)
      <3>1. SUFFICES ASSUME NEW i \in Retenidos, i \notin Retenidos' PROVE i \in EnCola(u)
        OBVIOUS
      <3>2. /\ \A v \in Nombres : i \notin EnCola(v)'
            /\ \A s \in Hilos : i \notin EnMano(s)'
        BY <3>1 DEF Retenidos
      <3>3. QED
        BY <2>3, <2>4, <3>1, <3>2, RetenidosDe
    <2>7. EnCola(u) \subseteq Almacen!Dirigidos(u)
      BY <1>4, ColaDe DEF EnCola, Textos, Anotado, Almacen!Dirigidos
    <2>8. /\ S \in SUBSET (Retenidos \cap Almacen!Dirigidos(u))
          /\ Retenidos' = Retenidos \ S
      BY <2>5, <2>6, <2>7
    <2>9. cancelados' = cancelados \cup Almacen!Dirigidos(u)
      BY <1>4 DEF Almacen!Dirigidos
    <2> HIDE DEF S, u
    <2>10. Almacen!DarDeBaja(u)
      BY <1>1, <2>8, <2>9 DEF Almacen!DarDeBaja
    <2>11. QED
      BY <2>2, <2>10 DEF PasoAlmacen, Almacen!Next
  <1>5. QED
    BY <1>3, <1>4 DEF procesar_unregister

LEMMA procesar_envio_comun_Visible ==
  ASSUME IInv, NEW t \in Hilos, procesar_envio_comun(t)
  PROVE  PasoAlmacen
  <1> DEFINE p == hilo[t].pet
             u == p.usuario
             d == p.destino
             id == SiguienteId(user[u].ultimo_id_msg)
             m == [id |-> id, remitente |-> u, destino |-> d,
                   adjunto |-> p.adjunto, texto |-> Len(aceptados) + 1]
             conId == [user EXCEPT ![u].ultimo_id_msg = id]
             existen == {u, d} \subseteq DOMAIN user
  <1>1. /\ hilo[t].pc = "SEND" /\ hilo[t].pc \in Operaciones
        /\ UNCHANGED <<entregados, cancelados>>
    BY DEF procesar_envio_comun, EnConMutexLibre, En, Operaciones
  <1>2. /\ p \in Peticion /\ p.op = "SEND" /\ u \in Nombres
        /\ d \in Nombres /\ p.adjunto \in Adjuntos
    BY <1>1, HiloDe, PeticionTipo DEF Coherente
  <1>3. CASE Contestar(t, 1) /\ UNCHANGED <<user, aceptados>>
    <2>1. \A v \in Nombres : EnCola(v)' = EnCola(v)
      BY <1>3 DEF EnCola
    <2>2. QED
      BY <1>1, <1>3, <2>1, ManoAlContestar, RetenidosIguales, PasoInvisible DEF historia
  <1>4. ASSUME existen
        PROVE  /\ DOMAIN conId = DOMAIN user
               /\ \A v \in DOMAIN user : conId[v].mensajes = user[v].mensajes
               /\ id \in 1..MaxId
    <2>1. /\ user \in [DOMAIN user -> Nodo] /\ user[u] \in Nodo
          /\ user[u].ultimo_id_msg \in 0..MaxId
      BY <1>4 DEF IInv, TypeOK, Nodo
    <2>2. id \in 1..MaxId
      BY <2>1, SiguienteIdTipo
    <2> HIDE DEF id
    <2>3. [user[u] EXCEPT !.ultimo_id_msg = id].mensajes = user[u].mensajes
      BY <2>1 DEF Nodo
    <2>4. QED
      BY <2>1, <2>2, <2>3
  <1>5. CASE existen /\ user' = conId /\ Contestar(t, 2) /\ UNCHANGED aceptados
    <2>1. \A v \in Nombres : EnCola(v)' = EnCola(v)
      BY <1>4, <1>5, ColasIguales
    <2>2. QED
      BY <1>1, <1>5, <2>1, ManoAlContestar, RetenidosIguales, PasoInvisible DEF historia
  <1>6. CASE /\ existen
             /\ user' = [conId EXCEPT ![d].mensajes = Append(@, m)]
             /\ aceptados' = Append(aceptados, m)
             /\ hilo' = [hilo EXCEPT ![t].pc = "responder_envio", ![t].lista = <<m>>]
    <2> DEFINE cola == conId[d].mensajes
               n == [conId[d] EXCEPT !.mensajes = Append(cola, m)]
               h == [hilo[t] EXCEPT !.pc = "responder_envio", !.lista = <<m>>]
    <2>1. d \in DOMAIN user /\ cola = user[d].mensajes /\ cola \in Seq(Mensaje)
      BY <1>4, <1>6, ColaDe
    <2>2. Len(aceptados) \in Nat /\ id \in 1..MaxId
      BY <1>4, <1>6, LenProperties DEF IInv, TypeOK
    <2>3. user' = [conId EXCEPT ![d] = n]
      BY <1>6
    <2>4. n.mensajes = Append(cola, m)
      <3>1. user[d] \in Nodo /\ user[u] \in Nodo
        BY <1>6 DEF IInv, TypeOK
      <3>2. conId[d] = IF d = u THEN [user[d] EXCEPT !.ultimo_id_msg = id] ELSE user[d]
        BY <2>1
      <3>3. [user[d] EXCEPT !.ultimo_id_msg = id].mensajes = user[d].mensajes
        BY <3>1 DEF Nodo
      <3> HIDE DEF id, cola, m
      <3>4. QED
        BY <3>1, <3>2 DEF Nodo
    <2>5. hilo' = [hilo EXCEPT ![t] = h] /\ h.pc = "responder_envio"
      BY <1>6, HiloDe DEF Hilo
    <2>6. m \in Mensaje
      <3> HIDE DEF id
      <3>1. QED
        BY <1>2, <2>2 DEF Mensaje
    <2>7. Almacen!Aceptar(u, d, id, p.adjunto) <=>
            /\ aceptados' = Append(aceptados, m)
            /\ Retenidos' = Retenidos \cup {Len(aceptados) + 1}
            /\ UNCHANGED <<entregados, cancelados>>
      BY DEF Almacen!Aceptar
    <2>8. m.texto = Len(aceptados) + 1
      OBVIOUS
    <2> HIDE DEF m, id, h, n, cola, conId
    <2>9. /\ DOMAIN user' = DOMAIN user
          /\ user'[d].mensajes = Append(cola, m)
          /\ \A v \in DOMAIN user \ {d} : user'[v].mensajes = user[v].mensajes
      BY <1>4, <1>6, <2>1, <2>3, <2>4
    <2>10. hilo'[t] = h /\ \A s \in Hilos \ {t} : hilo'[s] = hilo[s]
      BY <2>5, HiloDe
    <2>11. Textos(Append(cola, m)) = Textos(cola) \cup {m.texto}
      BY <2>1, <2>6, TextosDeAnadir
    <2>12. \A v \in Nombres :
             EnCola(v)' = IF v = d THEN EnCola(v) \cup {m.texto} ELSE EnCola(v)
      BY <2>1, <2>9, <2>11 DEF EnCola
    <2>13. \A s \in Hilos : EnMano(s)' = EnMano(s)
      BY <1>1, <2>5, <2>10 DEF EnMano, PuntosConnect
    <2>14. Retenidos' = Retenidos \cup {m.texto}
      <3>1. \A i : i \in Retenidos' <=> \/ \E v \in Nombres : i \in EnCola(v)'
                                       \/ \E s \in Hilos : i \in EnMano(s)'
        BY DEF Retenidos
      <3>2. QED
        BY <1>2, <2>12, <2>13, <3>1, RetenidosDe
    <2>15. Almacen!Aceptar(u, d, id, p.adjunto)
      BY <1>1, <1>6, <2>7, <2>8, <2>14
    <2>16. QED
      BY <1>2, <2>2, <2>15 DEF PasoAlmacen, Almacen!Next
  <1>7. QED
    BY <1>3, <1>5, <1>6 DEF procesar_envio_comun
-----------------------------------------------------------------------------
LEMMA InitAlmacen ==
  Init => Almacen!Init
  <1> SUFFICES ASSUME Init PROVE Almacen!Init
    OBVIOUS
  <1>1. \A u \in Nombres : EnCola(u) = {}
    BY DEF Init, EnCola
  <1>2. \A t \in Hilos : EnMano(t) = {}
    BY DEF Init, EnMano, HiloLibre, PuntosConnect
  <1>3. Retenidos = {}
    BY <1>1, <1>2, RetenidosDe
  <1>4. QED
    BY <1>3 DEF Init, Almacen!Init

LEMMA PasoRefina ==
  IInv /\ [Next]_vars => PasoAlmacen
  <1> SUFFICES ASSUME IInv, [Next]_vars PROVE PasoAlmacen
    OBVIOUS
  <1>1. CASE UNCHANGED vars
    BY <1>1, PasoInvisible DEF vars, historia, Retenidos, EnCola, EnMano
  <1>2. ASSUME NEW t \in Hilos, NEW p \in Peticiones, procesar_peticion(t, p)
        PROVE  PasoAlmacen
    BY <1>2, procesar_peticion_Invisible
  <1>3. ASSUME NEW t \in Hilos, Paso(t)
        PROVE  PasoAlmacen
    BY <1>3, procesar_register_Invisible, procesar_unregister_Visible,
       procesar_connect_Visible, procesar_disconnect_Invisible, responder_Invisible,
       procesar_users_Invisible, listar_conectados_Invisible,
       procesar_envio_comun_Visible, responder_envio_Invisible,
       envio_entregar_Visible, envio_ack_Invisible, eliminar_mensaje_cola_Visible,
       desconectar_destino_Invisible, entregar_pendiente_Visible,
       buscar_remitente_Visible, ack_pendiente_Visible, reencolar_Visible
       DEF Paso
  <1>4. QED
    BY <1>1, <1>2, <1>3 DEF Next, EsperaEnAccept

(* The server implements the message store: what its seventeen kinds of    *)
(* steps do to the queues and to the lists that CONNECT threads detach is  *)
(* accept, deliver, let go of what is accounted for, or close an account   *)
(* (operaciones.c, every handler, in every interleaving).                  *)
THEOREM Refinamiento == Spec => AlmacenSpec
  <1>1. QED
    BY InitAlmacen, PasoRefina, Invariante, PTL
    DEF AlmacenSpec, PasoAlmacen, Spec, Almacen!Spec

(* What is proved of the store holds of the server: no message answered    *)
(* with a 0 is lost by any interleaving of deliveries, failures, sessions  *)
(* that come and go and accounts that are removed.                         *)
THEOREM NoSePierde == Spec => []NadaSePierde
  <1>1. AlmacenSpec => []Almacen!NadaSePierde
    BY Almacen!Conservacion DEF AlmacenSpec
  <1>2. Almacen!NadaSePierde <=> NadaSePierde
    BY DEF NadaSePierde
  <1>3. QED
    BY Refinamiento, <1>1, <1>2, PTL
-----------------------------------------------------------------------------
(***************************************************************************)
(* Each step of a thread opens or closes one account, begins or ends one   *)
(* session, or changes none.                                               *)
(***************************************************************************)
PasoDirectorio == [Directorio!Next]_Cuentas

LEMMA CuentasIguales ==
  ASSUME DOMAIN user' = DOMAIN user,
         \A v \in DOMAIN user : user'[v].dir = user[v].dir
  PROVE  PasoDirectorio
  <1>1. \A v \in Nombres : Cuenta(v)' = Cuenta(v)
    BY DEF Cuenta
  <1>2. QED
    BY <1>1 DEF PasoDirectorio, Cuentas

LEMMA ListaIgual ==
  ASSUME UNCHANGED user
  PROVE  PasoDirectorio
  BY CuentasIguales

(* One account changes. *)
LEMMA UnaCuenta ==
  ASSUME NEW u \in Nombres, NEW c, Cuenta(u)' = c,
         \A v \in Nombres \ {u} : Cuenta(v)' = Cuenta(v)
  PROVE  Cuentas' = [Cuentas EXCEPT ![u] = c]
  BY DEF Cuentas

LEMMA CuentaDe ==
  ASSUME NEW u \in Nombres
  PROVE  Cuentas[u] = Cuenta(u)
  BY DEF Cuentas

(* An account without a session cannot be told from one that was marked    *)
(* as disconnected: then the step changes nothing.                         *)
LEMMA SesionTermina ==
  ASSUME NEW u \in DOMAIN user, DOMAIN user \subseteq Nombres,
         DOMAIN user' = DOMAIN user, user'[u].dir = SinDir,
         \A v \in DOMAIN user \ {u} : user'[v] = user[v]
  PROVE  PasoDirectorio
  <1>1. CASE user[u].dir = SinDir
    BY <1>1, CuentasIguales
  <1>2. CASE user[u].dir # SinDir
    <2>1. Cuenta(u)' = {SinDir} /\ Cuenta(u) = {user[u].dir}
      BY DEF Cuenta
    <2>2. \A v \in Nombres \ {u} : Cuenta(v)' = Cuenta(v)
      BY DEF Cuenta
    <2>3. Cuentas' = [Cuentas EXCEPT ![u] = {SinDir}]
      BY <2>1, <2>2, UnaCuenta
    <2>4. Cuentas[u] \notin {{}, {SinDir}}
      BY <1>2, <2>1, CuentaDe
    <2>5. Directorio!DISCONNECT(u)
      BY <2>3, <2>4 DEF Directorio!DISCONNECT
    <2>6. QED
      BY <2>5 DEF PasoDirectorio, Directorio!Next
  <1>3. QED
    BY <1>1, <1>2
-----------------------------------------------------------------------------
(***************************************************************************)
(* The actions that change an account.                                     *)
(***************************************************************************)
LEMMA Alta ==
  ASSUME NEW u \in Nombres, u \notin DOMAIN user, user' = add_user(u)
  PROVE  PasoDirectorio
  <1>1. /\ DOMAIN user' = DOMAIN user \cup {u}
        /\ user'[u].dir = SinDir
        /\ \A v \in DOMAIN user : user'[v] = user[v]
    BY DEF add_user
  <1>2. Cuenta(u) = {} /\ Cuenta(u)' = {SinDir}
    BY <1>1 DEF Cuenta
  <1>3. \A v \in Nombres \ {u} : Cuenta(v)' = Cuenta(v)
    BY <1>1 DEF Cuenta
  <1>4. Cuentas[u] = {} /\ Cuentas' = [Cuentas EXCEPT ![u] = {SinDir}]
    BY <1>2, <1>3, UnaCuenta, CuentaDe
  <1>5. Directorio!REGISTER(u)
    BY <1>4 DEF Directorio!REGISTER
  <1>6. QED
    BY <1>5 DEF PasoDirectorio, Directorio!Next

LEMMA procesar_register_Directorio ==
  ASSUME IInv, NEW t \in Hilos, procesar_register(t)
  PROVE  PasoDirectorio
  <1>1. hilo[t].pet.usuario \in Nombres
    BY HiloDe, PeticionTipo
    DEF procesar_register, EnConMutexLibre, En, Coherente, Operaciones
  <1>2. QED
    BY <1>1, Alta, ListaIgual DEF procesar_register

LEMMA Baja ==
  ASSUME IInv, NEW u \in DOMAIN user, user' = remove_user(u)
  PROVE  PasoDirectorio
  <1>1. u \in Nombres
    BY DEF IInv, TypeOK
  <1>2. /\ DOMAIN user' = DOMAIN user \ {u}
        /\ \A v \in DOMAIN user \ {u} : user'[v] = user[v]
    BY DEF remove_user, Restrict
  <1>3. Cuenta(u) = {user[u].dir} /\ Cuenta(u)' = {}
    BY <1>2 DEF Cuenta
  <1>4. \A v \in Nombres \ {u} : Cuenta(v)' = Cuenta(v)
    BY <1>2 DEF Cuenta
  <1>5. Cuentas[u] # {} /\ Cuentas' = [Cuentas EXCEPT ![u] = {}]
    BY <1>1, <1>3, <1>4, UnaCuenta, CuentaDe
  <1>6. Directorio!UNREGISTER(u)
    BY <1>5 DEF Directorio!UNREGISTER
  <1>7. QED
    BY <1>1, <1>6 DEF PasoDirectorio, Directorio!Next

LEMMA procesar_unregister_Directorio ==
  ASSUME IInv, NEW t \in Hilos, procesar_unregister(t)
  PROVE  PasoDirectorio
  BY Baja, ListaIgual DEF procesar_unregister

(* Not connected is having no address: the one place where the invariant   *)
(* of the server is needed for more than a type.                           *)
LEMMA Conexion ==
  ASSUME IInv, NEW u \in DOMAIN user, NEW d \in Dirs, ~EstaConectado(u),
         user' = Conectar(u, d)
  PROVE  PasoDirectorio
  <1> DEFINE n == [user[u] EXCEPT !.estado = CONECTADO, !.dir = d, !.mensajes = <<>>]
  <1>1. /\ user \in [DOMAIN user -> Nodo] /\ user[u] \in Nodo
        /\ u \in Nombres /\ user[u].dir = SinDir
    BY DEF IInv, TypeOK
  <1>2. user' = [user EXCEPT ![u] = n]
    BY <1>1 DEF Conectar
  <1>3. n.dir = d
    BY <1>1 DEF Nodo
  <1> HIDE DEF n
  <1>4. /\ DOMAIN user' = DOMAIN user /\ user'[u].dir = d
        /\ \A v \in DOMAIN user \ {u} : user'[v] = user[v]
    BY <1>1, <1>2, <1>3
  <1>5. Cuenta(u) = {SinDir} /\ Cuenta(u)' = {d}
    BY <1>1, <1>4 DEF Cuenta
  <1>6. \A v \in Nombres \ {u} : Cuenta(v)' = Cuenta(v)
    BY <1>4 DEF Cuenta
  <1>7. Cuentas[u] = {SinDir} /\ Cuentas' = [Cuentas EXCEPT ![u] = {d}]
    BY <1>1, <1>5, <1>6, UnaCuenta, CuentaDe
  <1>8. Directorio!CONNECT(u, {d})
    BY <1>7 DEF Directorio!CONNECT
  <1>9. {d} \in {{x} : x \in Dirs}
    OBVIOUS
  <1>10. QED
    BY <1>1, <1>8, <1>9 DEF PasoDirectorio, Directorio!Next

LEMMA procesar_connect_Directorio ==
  ASSUME IInv, NEW t \in Hilos, procesar_connect(t)
  PROVE  PasoDirectorio
  <1>1. hilo[t].pet.op = "CONNECT" /\ hilo[t].pet \in Peticion
    BY HiloDe DEF procesar_connect, EnConMutexLibre, En, Coherente, Operaciones
  <1>2. hilo[t].pet.dir \in Dirs
    BY <1>1, PeticionTipo
  <1>3. QED
    BY <1>2, Conexion, ListaIgual DEF procesar_connect

(* Three handlers mark a user as disconnected. *)
LEMMA Marcado ==
  ASSUME IInv, NEW u \in DOMAIN user, user' = MarcarDesconectado(u)
  PROVE  PasoDirectorio
  <1> DEFINE n == [user[u] EXCEPT !.estado = DESCONECTADO, !.dir = SinDir]
  <1>1. user \in [DOMAIN user -> Nodo] /\ user[u] \in Nodo /\ DOMAIN user \subseteq Nombres
    BY DEF IInv, TypeOK
  <1>2. user' = [user EXCEPT ![u] = n]
    BY <1>1 DEF MarcarDesconectado
  <1>3. n.dir = SinDir
    BY <1>1 DEF Nodo
  <1> HIDE DEF n
  <1>4. QED
    BY <1>1, <1>2, <1>3, SesionTermina

LEMMA procesar_disconnect_Directorio ==
  ASSUME IInv, NEW t \in Hilos, procesar_disconnect(t)
  PROVE  PasoDirectorio
  BY Marcado, ListaIgual DEF procesar_disconnect, EstaConectado, Conectados

LEMMA desconectar_destino_Directorio ==
  ASSUME IInv, NEW t \in Hilos, desconectar_destino(t)
  PROVE  PasoDirectorio
  BY Marcado, ListaIgual DEF desconectar_destino

LEMMA reencolar_Directorio ==
  ASSUME IInv, NEW t \in Hilos, reencolar(t)
  PROVE  PasoDirectorio
  <1> DEFINE u == hilo[t].pet.usuario
             n == [user[u] EXCEPT !.estado = DESCONECTADO, !.dir = SinDir]
             cola == n.mensajes \o hilo[t].lista
             r == [n EXCEPT !.mensajes = cola]
  <1>1. CASE u \in DOMAIN user /\ user' = Devolver(u, hilo[t].lista)
    <2>1. user \in [DOMAIN user -> Nodo] /\ user[u] \in Nodo /\ DOMAIN user \subseteq Nombres
      BY <1>1 DEF IInv, TypeOK
    <2>2. MarcarDesconectado(u) = [user EXCEPT ![u] = n]
      BY <1>1, <2>1 DEF MarcarDesconectado
    <2>3. /\ r.dir = n.dir /\ n.dir = SinDir
      BY <2>1 DEF Nodo
    <2> DEFINE lista == hilo[t].lista
               m == MarcarDesconectado(u)
    <2>4. user' = [m EXCEPT ![u].mensajes = m[u].mensajes \o lista]
      BY <1>1 DEF Devolver
    <2>5. /\ DOMAIN m = DOMAIN user /\ m[u] = n
          /\ \A v \in DOMAIN user \ {u} : m[v] = user[v]
      BY <1>1, <2>1, <2>2
    <2> HIDE DEF m, n
    <2>6. user' = [m EXCEPT ![u] = r]
      BY <2>4, <2>5
    <2> HIDE DEF r
    <2>7. /\ DOMAIN user' = DOMAIN user /\ user'[u].dir = SinDir
          /\ \A v \in DOMAIN user \ {u} : user'[v] = user[v]
      BY <1>1, <2>3, <2>5, <2>6
    <2>8. QED
      BY <1>1, <2>1, <2>7, SesionTermina
  <1>2. CASE UNCHANGED user
    BY <1>2, ListaIgual
  <1>3. QED
    BY <1>1, <1>2 DEF reencolar
-----------------------------------------------------------------------------
(***************************************************************************)
(* The actions that change a queue or a counter.                           *)
(***************************************************************************)
LEMMA eliminar_mensaje_cola_Directorio ==
  ASSUME IInv, NEW t \in Hilos, eliminar_mensaje_cola(t)
  PROVE  PasoDirectorio
  <1> DEFINE u == hilo[t].pet.destino
             cola == SinMensaje(user[u].mensajes, Head(hilo[t].lista))
             n == [user[u] EXCEPT !.mensajes = cola]
  <1>1. CASE u \in DOMAIN user
    <2>1. user \in [DOMAIN user -> Nodo] /\ user[u] \in Nodo
      BY <1>1 DEF IInv, TypeOK
    <2>2. user' = [user EXCEPT ![u] = n]
      BY <1>1, <2>1 DEF eliminar_mensaje_cola
    <2>3. n.dir = user[u].dir
      BY <2>1 DEF Nodo
    <2> HIDE DEF n
    <2>4. QED
      BY <1>1, <2>1, <2>2, <2>3, CuentasIguales
  <1>2. CASE u \notin DOMAIN user
    BY <1>2, ListaIgual DEF eliminar_mensaje_cola
  <1>3. QED
    BY <1>1, <1>2

LEMMA procesar_envio_comun_Directorio ==
  ASSUME IInv, NEW t \in Hilos, procesar_envio_comun(t)
  PROVE  PasoDirectorio
  <1> DEFINE p == hilo[t].pet
             u == p.usuario
             d == p.destino
             id == SiguienteId(user[u].ultimo_id_msg)
             m == [id |-> id, remitente |-> u, destino |-> d,
                   adjunto |-> p.adjunto, texto |-> Len(aceptados) + 1]
             a == [user[u] EXCEPT !.ultimo_id_msg = id]
             conId == [user EXCEPT ![u].ultimo_id_msg = id]
  <1>1. ASSUME {u, d} \subseteq DOMAIN user
        PROVE  /\ DOMAIN conId = DOMAIN user
               /\ \A v \in DOMAIN user : conId[v] \in Nodo \/ v = u
               /\ \A v \in DOMAIN user : conId[v].dir = user[v].dir
    <2>1. user \in [DOMAIN user -> Nodo] /\ user[u] \in Nodo
      BY <1>1 DEF IInv, TypeOK
    <2>2. conId = [user EXCEPT ![u] = a]
      BY <1>1, <2>1
    <2>3. a.dir = user[u].dir
      BY <2>1 DEF Nodo
    <2> HIDE DEF a, id
    <2>4. QED
      BY <1>1, <2>1, <2>2, <2>3
  <1>2. CASE {u, d} \subseteq DOMAIN user /\ user' = conId
    BY <1>1, <1>2, CuentasIguales
  <1>3. CASE /\ {u, d} \subseteq DOMAIN user
             /\ user' = [conId EXCEPT ![d].mensajes = Append(@, m)]
    <2> DEFINE cola == Append(conId[d].mensajes, m)
               n == [conId[d] EXCEPT !.mensajes = cola]
    <2>1. user' = [conId EXCEPT ![d] = n]
      BY <1>3
    <2>2. n.dir = conId[d].dir
      OBVIOUS
    <2> HIDE DEF n, conId
    <2>3. QED
      BY <1>1, <1>3, <2>1, <2>2, CuentasIguales
  <1>4. CASE UNCHANGED user
    BY <1>4, ListaIgual
  <1>5. QED
    BY <1>2, <1>3, <1>4 DEF procesar_envio_comun
-----------------------------------------------------------------------------
LEMMA InitDirectorio ==
  Init => Directorio!Init
  BY DEF Init, Directorio!Init, Cuentas, Cuenta

LEMMA PasoDeDirectorio ==
  IInv /\ [Next]_vars => PasoDirectorio
  <1> SUFFICES ASSUME IInv, [Next]_vars PROVE PasoDirectorio
    OBVIOUS
  <1>1. CASE UNCHANGED user
    BY <1>1, ListaIgual
  <1>2. ASSUME NEW t \in Hilos, Paso(t)
        PROVE  PasoDirectorio \/ UNCHANGED user
    BY <1>2, procesar_register_Directorio, procesar_unregister_Directorio,
       procesar_connect_Directorio, procesar_disconnect_Directorio,
       procesar_envio_comun_Directorio, eliminar_mensaje_cola_Directorio,
       desconectar_destino_Directorio, reencolar_Directorio
    DEF Paso, responder, procesar_users, listar_conectados, responder_envio,
        envio_entregar, envio_ack, entregar_pendiente, buscar_remitente, ack_pendiente
  <1>3. QED
    BY <1>1, <1>2 DEF Next, EsperaEnAccept, procesar_peticion, vars

(* The server is the directory that ClientSession takes it for: whatever   *)
(* its threads interleave, an account is opened and closed, and a session  *)
(* begins only where there is none (operaciones.c, every handler, with the *)
(* disconnections that failed deliveries make).                            *)
THEOREM EsDirectorio == Spec => DirectorioSpec
  <1>1. QED
    BY InitDirectorio, PasoDeDirectorio, Invariante, PTL
    DEF DirectorioSpec, PasoDirectorio, Spec, Directorio!Spec
=============================================================================
