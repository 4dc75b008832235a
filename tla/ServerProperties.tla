-------------------------- MODULE ServerProperties --------------------------
(***************************************************************************)
(* What the central server guarantees, whatever its threads interleave and *)
(* whoever is or is not listening at the other end.                        *)
(***************************************************************************)
EXTENDS Server

(***************************************************************************)
(* The server holds a message while it is in a queue or in the list that a *)
(* CONNECT thread detached.  The copy a SEND thread has of its own message *)
(* does not count: nobody would put it back.                               *)
(***************************************************************************)
EnCola(u) == IF u \in DOMAIN user THEN Textos(user[u].mensajes) ELSE {}

EnMano(t) == IF hilo[t].pc \in PuntosConnect THEN Textos(hilo[t].lista) ELSE {}

Retenidos ==
  (UNION {EnCola(u) : u \in Nombres}) \cup (UNION {EnMano(t) : t \in Hilos})

Almacen == INSTANCE MessageStore WITH retenidos <- Retenidos
-----------------------------------------------------------------------------
(* Type correctness.  Beyond the ranges: a user is connected exactly when  *)
(* it has an address (the two are always written together), and the places *)
(* in the history variables exist.                                         *)
TypeOK ==
  /\ DOMAIN user \subseteq Nombres
  /\ user \in [DOMAIN user -> Nodo]
  /\ \A u \in DOMAIN user : EstaConectado(u) <=> user[u].dir # SinDir
  /\ mutex \in Hilos \cup {Nadie}
  /\ hilo \in [Hilos -> Hilo]
  /\ atendidas \in 0..MaxPeticiones
  /\ aceptados \in Seq(Mensaje)
  /\ entregados \subseteq DOMAIN aceptados
  /\ cancelados \subseteq DOMAIN aceptados

(* No message accepted with a 0 is ever dropped: it is in a queue or in    *)
(* the hands of a CONNECT thread, or one that the server cannot tell from  *)
(* it was delivered, or its receiver's account was removed.  Threads drop  *)
(* nodes in four places (eliminar_mensaje_cola, the free of a delivered    *)
(* node, the free of a detached list, remove_user), each on what it saw    *)
(* before it last released the mutex.                                      *)
NadaSePierde == Almacen!NadaSePierde

(* Every step of the threads is a step of the message store or none.       *)
AlmacenSpec == Almacen!Spec

(***************************************************************************)
(* The accounts: no account, an account without a session ({SinDir}), or   *)
(* the address of its session ({d}).                                       *)
(***************************************************************************)
Cuenta(u) == IF u \in DOMAIN user THEN {user[u].dir} ELSE {}

Cuentas == [u \in Nombres |-> Cuenta(u)]

Directorio ==
  INSTANCE UserDirectory WITH
    cuenta <- Cuentas, Dirs <- {{d} : d \in Dirs}, SinDir <- {SinDir}, Ausente <- {}

(* What the clients rely on: each step of a thread changes one account at  *)
(* most, and never puts one session in the place of another.  The address  *)
(* is written by five handlers, two of them on what they saw earlier.      *)
DirectorioSpec == Directorio!Spec

(* The nodes of a queue, and those of the list that a CONNECT detached. *)
Cola(u) == IF u \in DOMAIN user THEN user[u].mensajes ELSE <<>>

Mano(t) == IF hilo[t].pc \in PuntosConnect THEN hilo[t].lista ELSE <<>>

SinRepetir(q) == \A i, j \in DOMAIN q : q[i].texto = q[j].texto => i = j

(* A pending_message node has one owner: no node is linked in two queues,  *)
(* twice in one, or both in a queue and in a detached list, or in the      *)
(* lists of two CONNECT threads.  Whoever frees it then frees it once.     *)
UnSoloDueno ==
  /\ \A u \in Nombres : SinRepetir(Cola(u))
  /\ \A t \in Hilos : SinRepetir(Mano(t))
  /\ \A u, v \in Nombres : u # v => EnCola(u) \cap EnCola(v) = {}
  /\ \A u \in Nombres, t \in Hilos : EnCola(u) \cap EnMano(t) = {}
  /\ \A s, t \in Hilos : s # t => EnMano(s) \cap EnMano(t) = {}

(* Where a queue has messages that the server cannot tell apart. *)
Iguales(q, k) == {j \in DOMAIN q : Clave(q[j]) = k}

(* The SEND threads that carry a message like that. *)
Envian(k) == {t \in Hilos : hilo[t].pc \in PuntosEnvio /\ Clave(Head(hilo[t].lista)) = k}

(* No message is stranded in the queue of a connected user, where only the *)
(* next CONNECT would look: for each message there is a SEND thread yet to *)
(* remove one like it, or to mark the user as disconnected.                *)
SinVarados ==
  \A u \in Conectados : \A i \in DOMAIN Cola(u) :
    LET k == Clave(Cola(u)[i])
    IN  Cardinality(Iguales(Cola(u), k)) <= Cardinality(Envian(k))

(* The number that USERS has sent is the number of users it goes on to     *)
(* list: nobody connects, disconnects, registers or is dropped in between. *)
UsersInstantanea ==
  \A t \in Hilos : En(t, "listar") => hilo[t].res = Cardinality(Conectados)

(* The mutex is held exactly by a thread that is writing to its client     *)
(* half way through a critical section, and that goes on to release it: so *)
(* never by two, nor by one that has ended or waits for it again.          *)
SeccionCritica ==
  \A t \in Hilos : hilo[t].pc \in {"listar", "responder_envio"} <=> mutex = t
-----------------------------------------------------------------------------
(***************************************************************************)
(* The inductive invariant behind NadaSePierde and the refinement.         *)
(***************************************************************************)
(* m is the record of a message that was accepted. *)
Anotado(m) == m.texto \in DOMAIN aceptados /\ aceptados[m.texto] = m

(* What a queue holds was sent to its owner. *)
ColasFieles ==
  \A u \in DOMAIN user : \A i \in DOMAIN user[u].mensajes :
    /\ Anotado(user[u].mensajes[i])
    /\ user[u].mensajes[i].destino = u

(* What a thread carries was sent to the user it is to be delivered to. *)
ListaFiel(h) ==
  \A i \in DOMAIN h.lista :
    /\ Anotado(h.lista[i])
    /\ h.lista[i].destino = IF h.pc \in PuntosEnvio THEN h.pet.destino ELSE h.pet.usuario

(* Each handler runs on a request of its own kind, and carries a message   *)
(* exactly while it has one to deliver.                                    *)
Coherente(h) ==
  /\ h.pc # "libre" => h.pet \in Peticion
  /\ h.pc \in Operaciones => h.pet.op = h.pc
  /\ h.pc \in PuntosEnvio => h.pet.op = "SEND"
  /\ h.pc \in PuntosEnvio \cup (PuntosConnect \ {"responder"}) => h.lista # <<>>
  /\ h.pc \notin PuntosEnvio \cup PuntosConnect => h.lista = <<>>

(* A node is removed or freed by a thread only after its delivery. *)
EntregadoAntes(h) ==
  h.pc \in {"envio_ack", "eliminar", "buscar_rem", "ack_pendiente"}
    => Head(h.lista).texto \in entregados

HiloFiel(h) == ListaFiel(h) /\ Coherente(h) /\ EntregadoAntes(h)

HilosFieles == \A t \in Hilos : HiloFiel(hilo[t])

(* The receiver of a message that was not cancelled still has an account. *)
DestinoVivo ==
  \A i \in DOMAIN aceptados :
    i \notin cancelados => aceptados[i].destino \in DOMAIN user

(* All of it together: what every step of the server preserves. *)
IInv ==
  /\ TypeOK
  /\ ColasFieles
  /\ HilosFieles
  /\ DestinoVivo

-----------------------------------------------------------------------------
(* Every request accepted is finished: no thread waits for ever for the    *)
(* mutex or goes round the delivery loop for ever.                         *)
TodaPeticionTermina ==
  \A t \in Hilos : ~En(t, "libre") ~> En(t, "libre")

(* A message does not stay for ever in the queue of a user who stays       *)
(* connected: it is delivered and removed, or the user is marked as        *)
(* disconnected and the next CONNECT takes it.                             *)
PendienteSeMueve ==
  \A u \in Nombres, i \in 1..MaxPeticiones :
    (EstaConectado(u) /\ i \in EnCola(u)) ~> ~(EstaConectado(u) /\ i \in EnCola(u))
-----------------------------------------------------------------------------
(***************************************************************************)
(* What comments of the code say of it, and does not hold.                 *)
(***************************************************************************)
(* The step in which t leaves a program point and finishes. *)
Acaba(t, punto) == En(t, punto) /\ hilo'[t].pc = "libre"

(* operaciones.c:91, eliminar_mensaje_cola looks for the message "por su   *)
(* ID exacto para evitar condiciones de carrera": the node it removes is   *)
(* the one that this SEND has just delivered.                              *)
EliminaElEntregado ==
  [][\A t \in Hilos, u \in Nombres :
       Acaba(t, "eliminar") /\ u = hilo[t].pet.destino
         => EnCola(u) \ EnCola(u)' \subseteq Textos(hilo[t].lista)]_vars

(* linked_list.c:72, "Cuando un usuario se da de baja, se borrarán todos   *)
(* los mensajes que no se le han entregado": nothing sent to the account   *)
(* before it was removed is in the queue of a later account of that name.  *)
BajaBorraTodo == \A u \in DOMAIN user : EnCola(u) \cap cancelados = {}

(* operaciones.c:217, the user is marked "como desconectado por fallo de   *)
(* red": if it was connected, it is its address that could not be reached. *)
DesconexionJusta ==
  [][\A t \in Hilos :
       LET u == IF En(t, "reencolar") THEN hilo[t].pet.usuario ELSE hilo[t].pet.destino
       IN  (Acaba(t, "reencolar") \/ Acaba(t, "desconectar")) /\ u \in Conectados
             => user[u].dir = hilo[t].dest]_vars
=============================================================================
