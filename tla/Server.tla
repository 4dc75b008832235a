------------------------------- MODULE Server -------------------------------
(***************************************************************************)
(* The central messaging server: server.c, operaciones.c, linked_list.c.   *)
(*                                                                         *)
(* main() accepts connections for ever and starts one detached thread per  *)
(* connection; procesar_peticion reads one request and calls its handler.  *)
(* The list of users, with each user's queue of pending messages, is the   *)
(* only shared data and one mutex protects it.  The handlers never talk to *)
(* other clients while they hold the mutex: they copy addresses or detach  *)
(* a queue, unlock, do the network work, and lock again to record how it   *)
(* went.  What may happen in those windows is what this module is about.   *)
(*                                                                         *)
(* A critical section that writes to no socket is one action, enabled when *)
(* the mutex is free.  The two sections that write to their client before  *)
(* unlocking (USERS, SEND) are two actions with the mutex held in between. *)
(***************************************************************************)
EXTENDS Integers, Sequences, FiniteSets, SequencesExt

CONSTANTS
  Nombres,        (* user names *)
  Hilos,          (* handler threads that can exist at the same time *)
  Dirs,           (* listening addresses of clients: an IP and a port *)
  Ip,             (* the IP of each address *)
  Adjuntos,       (* attachment of a message: a file name, or none (SEND) *)
  Peticiones,     (* the requests clients may send, a subset of Peticion *)
  MaxPeticiones,  (* bound: requests handled in one behaviour *)
  MaxId,          (* UINT_MAX, the largest value of ultimo_id_msg *)
  FalloMemoria,   (* TRUE if malloc may return NULL *)
  SinDir,         (* ip and puerto cleared with memset *)
  Nadie           (* no thread *)

Ips == {Ip[d] : d \in Dirs}

(* What procesar_peticion and the handlers read from the socket.  SEND and *)
(* SENDATTACH are the same handler, told apart by the attachment.          *)
Peticion ==
  [op : {"REGISTER", "UNREGISTER", "USERS"}, usuario : Nombres]
    \cup [op : {"CONNECT"}, usuario : Nombres, dir : Dirs]
    \cup [op : {"DISCONNECT"}, usuario : Nombres, ip : Ips]
    \cup [op : {"SEND"}, usuario : Nombres, destino : Nombres, adjunto : Adjuntos]

ASSUME ConstantesServer ==
  /\ Peticiones \subseteq Peticion
  /\ Ip \in [Dirs -> Ips]
  /\ MaxId \in Nat \ {0}
  /\ MaxPeticiones \in Nat
  /\ FalloMemoria \in BOOLEAN
  /\ SinDir \notin Dirs
  /\ Nadie \notin Hilos
  /\ IsFiniteSet(Hilos)
  /\ IsFiniteSet(Nombres)

VARIABLES
  user,         (* the list of user_node_t, by userName *)
  mutex,        (* mutex_usuarios: the thread that holds it, or Nadie *)
  hilo,         (* the handler threads: program point and local variables *)
  atendidas,    (* how many requests have been accepted, for MaxPeticiones *)
  aceptados,    (* history: every message stored by a SEND, in order *)
  entregados,   (* history: the messages written in full to an address *)
  cancelados    (* history: messages whose receiver was removed since *)

vars == <<user, mutex, hilo, atendidas, aceptados, entregados, cancelados>>
historia == <<aceptados, entregados, cancelados>>
-----------------------------------------------------------------------------
(***************************************************************************)
(* The data: user_node_t, mensaje_pendiente_t, the locals of a handler.    *)
(***************************************************************************)
DESCONECTADO == 0
CONECTADO == 1

(* "texto" stands for the node as well as for its text: each SEND carries  *)
(* a different one.  "destino" is not a field of the C struct, it records  *)
(* whose queue the node was made for.                                      *)
Mensaje == [id : 1..MaxId, remitente : Nombres, destino : Nombres,
            adjunto : Adjuntos, texto : Nat \ {0}]

Nodo == [estado : {DESCONECTADO, CONECTADO}, dir : Dirs \cup {SinDir},
         ultimo_id_msg : 0..MaxId, mensajes : Seq(Mensaje)]

SinPeticion == [op |-> "NINGUNA"]

PuntosConnect == {"responder", "entregar", "buscar_rem", "ack_pendiente", "reencolar"}
PuntosEnvio == {"responder_envio", "envio_entregar", "envio_ack", "eliminar", "desconectar"}
Operaciones == {"REGISTER", "UNREGISTER", "CONNECT", "DISCONNECT", "USERS", "SEND"}
Puntos == {"libre", "listar"} \cup Operaciones \cup PuntosConnect \cup PuntosEnvio

(* pc: where the thread is.  pet: what it read.  lista: the messages it is *)
(* to deliver (mensajes_a_enviar in a CONNECT, the copy of its own message *)
(* in a SEND), the current one first.  dest, rem: the addresses it copied  *)
(* under the mutex.  res: resultado, or num_conectados in USERS.           *)
Hilo == [pc : Puntos, pet : Peticion \cup {SinPeticion}, lista : Seq(Mensaje),
         dest : Dirs \cup {SinDir}, rem : Dirs \cup {SinDir}, res : Nat]

HiloLibre == [pc |-> "libre", pet |-> SinPeticion, lista |-> <<>>,
              dest |-> SinDir, rem |-> SinDir, res |-> 0]

Textos(s) == {s[i].texto : i \in DOMAIN s}

Conectados == {u \in DOMAIN user : user[u].estado = CONECTADO}

EstaConectado(u) == u \in Conectados

Init ==
  /\ user = <<>>
  /\ mutex = Nadie
  /\ hilo = [t \in Hilos |-> HiloLibre]
  /\ atendidas = 0
  /\ aceptados = <<>>
  /\ entregados = {}
  /\ cancelados = {}
-----------------------------------------------------------------------------
(***************************************************************************)
(* The list of users and the queues.  An operator whose name has a suffix  *)
(* after "_" and which no action uses is the operator of that name with a  *)
(* plausible mistake, kept to show that the properties notice it.          *)
(***************************************************************************)
add_user(u) ==
  [n \in DOMAIN user \cup {u} |->
     IF n = u THEN [estado |-> DESCONECTADO, dir |-> SinDir,
                    ultimo_id_msg |-> 0, mensajes |-> <<>>]
              ELSE user[n]]

remove_user(u) == Restrict(user, DOMAIN user \ {u})

Conectar_SinVaciar(u, d) ==
  [user EXCEPT ![u].estado = CONECTADO, ![u].dir = d]

Conectar(u, d) ==
  [user EXCEPT ![u].estado = CONECTADO, ![u].dir = d, ![u].mensajes = <<>>]

(* What the code does to a user it could not reach, or that disconnects. *)
MarcarDesconectado(u) ==
  [user EXCEPT ![u].estado = DESCONECTADO, ![u].dir = SinDir]

Devolver_Pisando(u, lista) ==
  [MarcarDesconectado(u) EXCEPT ![u].mensajes = lista]

Devolver_SinDesconectar(u, lista) ==
  [user EXCEPT ![u].mensajes = @ \o lista]

(* A CONNECT gives back what it could not deliver. *)
Devolver(u, lista) ==
  [MarcarDesconectado(u) EXCEPT ![u].mensajes = @ \o lista]

SiguienteId_SinSalto(n) == (n + 1) % (MaxId + 1)

(* unsigned arithmetic: one past MaxId is 0, which the code turns into 1. *)
SiguienteId(n) ==
  LET s == (n + 1) % (MaxId + 1) IN IF s = 0 THEN 1 ELSE s

Clave(m) == <<m.destino, m.remitente, m.id, m.adjunto>>

SinMensaje_SoloId(cola, m) == RemoveFirstMatch(cola, LAMBDA x : x.id = m.id)

(* The first node whose id, attachment and sender match m is unlinked. *)
SinMensaje(cola, m) == RemoveFirstMatch(cola, LAMBDA x : Clave(x) = Clave(m))
-----------------------------------------------------------------------------
(***************************************************************************)
(* One handler thread.                                                     *)
(***************************************************************************)
En(t, punto) == hilo[t].pc = punto

EnConMutexLibre(t, punto) == En(t, punto) /\ mutex = Nadie

Retener_Soltando(t) == mutex' = Nadie

(* The thread locks, and has not unlocked yet at the end of the step. *)
Retener(t) == mutex' = t

Terminar(t) == hilo' = [hilo EXCEPT ![t] = HiloLibre]

IrA(t, punto) == hilo' = [hilo EXCEPT ![t].pc = punto]

Contestar(t, codigo) ==
  hilo' = [hilo EXCEPT ![t].pc = "responder", ![t].res = codigo]

(* A connection is accepted, its thread started, the request read and      *)
(* logged by RPC.  The thread is now about to lock the mutex.  p is any    *)
(* request: readLine returns 0 at an early end of file and leaves the      *)
(* buffer as it was, which the handlers take for a request too.            *)
procesar_peticion(t, p) ==
  /\ En(t, "libre")
  /\ atendidas < MaxPeticiones
  /\ atendidas' = atendidas + 1
  /\ hilo' = [hilo EXCEPT ![t].pc = p.op, ![t].pet = p]
  /\ UNCHANGED <<user, mutex, historia>>

(* add_user returns NULL when malloc fails; the handler does not look. *)
procesar_register(t) ==
  LET u == hilo[t].pet.usuario IN
  /\ EnConMutexLibre(t, "REGISTER")
  /\ \/ /\ u \in DOMAIN user
        /\ Contestar(t, 1)
        /\ UNCHANGED user
     \/ /\ u \notin DOMAIN user
        /\ Contestar(t, 0)
        /\ user' = add_user(u) \/ (FalloMemoria /\ UNCHANGED user)
  /\ UNCHANGED <<mutex, atendidas, historia>>

procesar_unregister(t) ==
  LET u == hilo[t].pet.usuario IN
  /\ EnConMutexLibre(t, "UNREGISTER")
  /\ \/ /\ u \notin DOMAIN user
        /\ Contestar(t, 1)
        /\ UNCHANGED <<user, cancelados>>
     \/ /\ u \in DOMAIN user
        /\ Contestar(t, 0)
        /\ user' = remove_user(u)
        /\ cancelados' = cancelados
             \cup {i \in DOMAIN aceptados : aceptados[i].destino = u}
  /\ UNCHANGED <<mutex, atendidas, aceptados, entregados>>

procesar_connect_SinComprobar(t) ==
  LET u == hilo[t].pet.usuario
      d == hilo[t].pet.dir
  IN
  /\ EnConMutexLibre(t, "CONNECT")
  /\ \/ /\ u \notin DOMAIN user
        /\ Contestar(t, 1)
        /\ UNCHANGED user
     \/ /\ u \in DOMAIN user
        /\ user' = Conectar(u, d)
        /\ hilo' = [hilo EXCEPT ![t].pc = "responder", ![t].res = 0,
                                ![t].lista = user[u].mensajes, ![t].dest = d]
  /\ UNCHANGED <<mutex, atendidas, historia>>

(* On success the queue is detached: the thread owns its nodes from here. *)
procesar_connect(t) ==
  LET u == hilo[t].pet.usuario
      d == hilo[t].pet.dir
  IN
  /\ EnConMutexLibre(t, "CONNECT")
  /\ \/ /\ u \notin DOMAIN user
        /\ Contestar(t, 1)
        /\ UNCHANGED user
     \/ /\ EstaConectado(u)
        /\ Contestar(t, 2)
        /\ UNCHANGED user
     \/ /\ u \in DOMAIN user /\ ~EstaConectado(u)
        /\ user' = Conectar(u, d)
        /\ hilo' = [hilo EXCEPT ![t].pc = "responder", ![t].res = 0,
                                ![t].lista = user[u].mensajes, ![t].dest = d]
  /\ UNCHANGED <<mutex, atendidas, historia>>

procesar_disconnect(t) ==
  LET u == hilo[t].pet.usuario IN
  /\ EnConMutexLibre(t, "DISCONNECT")
  /\ \/ /\ u \notin DOMAIN user
        /\ Contestar(t, 1)
        /\ UNCHANGED user
     \/ /\ u \in DOMAIN user /\ ~EstaConectado(u)
        /\ Contestar(t, 2)
        /\ UNCHANGED user
     \/ /\ EstaConectado(u) /\ Ip[user[u].dir] # hilo[t].pet.ip
        /\ Contestar(t, 3)
        /\ UNCHANGED user
     \/ /\ EstaConectado(u) /\ Ip[user[u].dir] = hilo[t].pet.ip
        /\ Contestar(t, 0)
        /\ user' = MarcarDesconectado(u)
  /\ UNCHANGED <<mutex, atendidas, historia>>

(* The result byte is written after unlocking.  A write that fails is only *)
(* reported, so it is not told apart.  A CONNECT goes on to deliver.       *)
responder(t) ==
  /\ En(t, "responder")
  /\ IF hilo[t].lista = <<>> THEN Terminar(t) ELSE IrA(t, "entregar")
  /\ UNCHANGED <<user, mutex, atendidas, historia>>
-----------------------------------------------------------------------------
(* USERS: the result and the number of connected users are written, then   *)
(* the list is walked again for their addresses, all under the mutex.      *)
procesar_users(t) ==
  LET u == hilo[t].pet.usuario IN
  /\ EnConMutexLibre(t, "USERS")
  /\ \/ /\ u \notin DOMAIN user
        /\ Contestar(t, 2)
        /\ UNCHANGED mutex
     \/ /\ u \in DOMAIN user /\ ~EstaConectado(u)
        /\ Contestar(t, 1)
        /\ UNCHANGED mutex
     \/ /\ EstaConectado(u)
        /\ Retener(t)
        /\ hilo' = [hilo EXCEPT ![t].pc = "listar",
                                ![t].res = Cardinality(Conectados)]
  /\ UNCHANGED <<user, atendidas, historia>>

listar_conectados(t) ==
  /\ En(t, "listar")
  /\ mutex' = Nadie
  /\ Terminar(t)
  /\ UNCHANGED <<user, atendidas, historia>>
-----------------------------------------------------------------------------
(***************************************************************************)
(* SEND and SENDATTACH.  The id is taken before the node is allocated, so  *)
(* a failed malloc leaves a gap.                                           *)
(***************************************************************************)
procesar_envio_comun(t) ==
  LET p == hilo[t].pet
      id == SiguienteId(user[p.usuario].ultimo_id_msg)
      m == [id |-> id, remitente |-> p.usuario, destino |-> p.destino,
            adjunto |-> p.adjunto, texto |-> Len(aceptados) + 1]
      conId == [user EXCEPT ![p.usuario].ultimo_id_msg = id]
      existen == {p.usuario, p.destino} \subseteq DOMAIN user
  IN
  /\ EnConMutexLibre(t, "SEND")
  /\ \/ /\ ~existen
        /\ Contestar(t, 1)
        /\ UNCHANGED <<user, mutex, aceptados>>
     \/ /\ existen /\ FalloMemoria
        /\ user' = conId
        /\ Contestar(t, 2)
        /\ UNCHANGED <<mutex, aceptados>>
     \/ /\ existen
        /\ user' = [conId EXCEPT ![p.destino].mensajes = Append(@, m)]
        /\ aceptados' = Append(aceptados, m)
        /\ Retener(t)
        /\ hilo' = [hilo EXCEPT ![t].pc = "responder_envio", ![t].lista = <<m>>]
  /\ UNCHANGED <<atendidas, entregados, cancelados>>

(* Still under the mutex: 0 and the id are written to the sender, the      *)
(* addresses are copied if the receiver is connected, the mutex released.  *)
responder_envio(t) ==
  LET p == hilo[t].pet IN
  /\ En(t, "responder_envio")
  /\ mutex' = Nadie
  /\ \/ /\ EstaConectado(p.destino)
        /\ hilo' = [hilo EXCEPT
                      ![t].pc = "envio_entregar",
                      ![t].dest = user[p.destino].dir,
                      ![t].rem = IF EstaConectado(p.usuario)
                                 THEN user[p.usuario].dir ELSE SinDir]
     \/ /\ ~EstaConectado(p.destino)
        /\ Terminar(t)
  /\ UNCHANGED <<user, atendidas, historia>>

(* connect() to the copied address and four or five writes.  Whether they  *)
(* succeed depends on who listens there by now.                            *)
envio_entregar(t) ==
  /\ En(t, "envio_entregar")
  /\ \/ /\ entregados' = entregados \cup {Head(hilo[t].lista).texto}
        /\ IrA(t, IF hilo[t].rem # SinDir THEN "envio_ack" ELSE "eliminar")
     \/ /\ IrA(t, "desconectar")
        /\ UNCHANGED entregados
  /\ UNCHANGED <<user, mutex, atendidas, aceptados, cancelados>>

(* enviar_ack_remitente ignores every failure. *)
envio_ack(t) ==
  /\ En(t, "envio_ack")
  /\ IrA(t, "eliminar")
  /\ UNCHANGED <<user, mutex, atendidas, historia>>

eliminar_mensaje_cola(t) ==
  LET u == hilo[t].pet.destino IN
  /\ EnConMutexLibre(t, "eliminar")
  /\ IF u \in DOMAIN user
     THEN user' = [user EXCEPT ![u].mensajes = SinMensaje(@, Head(hilo[t].lista))]
     ELSE UNCHANGED user
  /\ Terminar(t)
  /\ UNCHANGED <<mutex, atendidas, historia>>

(* The delivery failed: the message stays stored, and whoever has the      *)
(* receiver's name now is marked as disconnected.                          *)
desconectar_destino(t) ==
  LET u == hilo[t].pet.destino IN
  /\ EnConMutexLibre(t, "desconectar")
  /\ user' = IF u \in DOMAIN user THEN MarcarDesconectado(u) ELSE user
  /\ Terminar(t)
  /\ UNCHANGED <<mutex, atendidas, historia>>
-----------------------------------------------------------------------------
(***************************************************************************)
(* entregar_pendientes, the rest of a successful CONNECT.                  *)
(***************************************************************************)
entregar_pendiente_SinReiniciar(t) ==
  /\ En(t, "entregar")
  /\ entregados' = entregados \/ entregados' = entregados \cup {Head(hilo[t].lista).texto}
  /\ IrA(t, "buscar_rem")
  /\ UNCHANGED <<user, mutex, atendidas, aceptados, cancelados>>

entregar_pendiente(t) ==
  /\ En(t, "entregar")
  /\ \/ /\ entregados' = entregados \cup {Head(hilo[t].lista).texto}
        /\ IrA(t, "buscar_rem")
     \/ /\ IrA(t, "reencolar")
        /\ UNCHANGED entregados
  /\ UNCHANGED <<user, mutex, atendidas, aceptados, cancelados>>

Avanzar_SinAvanzar(t) == IrA(t, "entregar")

(* free(act); act = sig. *)
Avanzar(t) ==
  LET resto == Tail(hilo[t].lista) IN
  IF resto = <<>> THEN Terminar(t)
  ELSE hilo' = [hilo EXCEPT ![t].pc = "entregar", ![t].lista = resto,
                            ![t].rem = SinDir]

buscar_remitente(t) ==
  LET r == Head(hilo[t].lista).remitente IN
  /\ EnConMutexLibre(t, "buscar_rem")
  /\ IF EstaConectado(r)
     THEN hilo' = [hilo EXCEPT ![t].pc = "ack_pendiente", ![t].rem = user[r].dir]
     ELSE Avanzar(t)
  /\ UNCHANGED <<user, mutex, atendidas, historia>>

ack_pendiente(t) ==
  /\ En(t, "ack_pendiente")
  /\ Avanzar(t)
  /\ UNCHANGED <<user, mutex, atendidas, historia>>

(* The first failure ends the loop: the user is marked as disconnected and *)
(* gets the rest of the list back behind whatever was queued meanwhile, or *)
(* the list is freed if there is no such user any more.                    *)
reencolar(t) ==
  LET u == hilo[t].pet.usuario IN
  /\ EnConMutexLibre(t, "reencolar")
  /\ user' = IF u \in DOMAIN user
             THEN Devolver(u, hilo[t].lista)
             ELSE user
  /\ Terminar(t)
  /\ UNCHANGED <<mutex, atendidas, historia>>
-----------------------------------------------------------------------------
Paso(t) ==
  \/ procesar_register(t)
  \/ procesar_unregister(t)
  \/ procesar_connect(t)
  \/ procesar_disconnect(t)
  \/ responder(t)
  \/ procesar_users(t)
  \/ listar_conectados(t)
  \/ procesar_envio_comun(t)
  \/ responder_envio(t)
  \/ envio_entregar(t)
  \/ envio_ack(t)
  \/ eliminar_mensaje_cola(t)
  \/ desconectar_destino(t)
  \/ entregar_pendiente(t)
  \/ buscar_remitente(t)
  \/ ack_pendiente(t)
  \/ reencolar(t)

(* MaxPeticiones requests have come and gone; the server waits in accept. *)
EsperaEnAccept ==
  /\ atendidas = MaxPeticiones
  /\ \A t \in Hilos : En(t, "libre")
  /\ UNCHANGED vars

Next ==
  \/ \E t \in Hilos, p \in Peticiones : procesar_peticion(t, p)
  \/ \E t \in Hilos : Paso(t)
  \/ EsperaEnAccept

Spec == Init /\ [][Next]_vars

(* A thread that can run does run.  Nothing is assumed of the clients, nor *)
(* of who gets the mutex: with finitely many requests no thread is passed  *)
(* over for ever.                                                          *)
FairSpec == Spec /\ \A t \in Hilos : WF_vars(Paso(t))
=============================================================================
