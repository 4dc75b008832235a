------------------------- MODULE UserListProperties -------------------------
(***************************************************************************)
(* What must hold of the memory behind the list of users.                  *)
(***************************************************************************)
EXTENDS UserList

(* A thread delivers the chain from act, or has sent one message. *)
Entrega == [pc : {"entregar", "liberar", "reencolar"}, act : NodosMensaje,
            sig : NodosMensaje \cup {NULL}, dest_name : Nombres]

Envio == [pc : {"enviado"}, act : {NULL}, sig : {NULL}, destino : Nombres, id : Ids]

Recorridos ==
  [pc : {"usuario", "mensajes", "mensaje", "free"},
   current : NodosUsuario \cup {NULL}, next_user : NodosUsuario \cup {NULL},
   msg_actual : NodosMensaje \cup {NULL}, next_msg : NodosMensaje \cup {NULL}]

(* Every variable has its type, and a delivery in progress has a message. *)
TypeOK ==
  /\ DOMAIN usuarios \subseteq NodosUsuario /\ usuarios \in [DOMAIN usuarios -> Usuario]
  /\ DOMAIN mensajes \subseteq NodosMensaje /\ mensajes \in [DOMAIN mensajes -> Mensaje]
  /\ head \in NodosUsuario \cup {NULL}
  /\ hilo \in [Hilos -> {HiloLibre} \cup Entrega \cup Envio]
  /\ proceso \in {Vivo, Fin, Indefinido} \cup Recorridos
  /\ tardios \in 0..MaxTardios

(* No dangling pointer: until SIGINT every link of the list and of the     *)
(* queues leads to a block in use, and so do the pointers act and sig of   *)
(* each delivery in progress, which are not protected by the mutex         *)
(* (operaciones.c:143-250).                                                *)
SinColgantes ==
  proceso = Vivo =>
    /\ ListaSana
    /\ \A t \in Hilos : {hilo[t].act, hilo[t].sig} \subseteq DOMAIN mensajes \cup {NULL}

(* The chain that a delivery in progress holds. *)
EnMano(t) == Cadena(mensajes, hilo[t].act)

(* No leak: until SIGINT every block in use can still be reached, from     *)
(* head, from a queue, or from a thread that is delivering it.             *)
SinFugas ==
  proceso = Vivo =>
    /\ DOMAIN usuarios = Range(Lista)
    /\ DOMAIN mensajes = (UNION {Range(ColaDe(u)) : u \in DOMAIN usuarios})
                           \cup (UNION {Range(EnMano(t)) : t \in Hilos})

(***************************************************************************)
(* The pointers to the blocks, by where they are: in a user, in the node   *)
(* before, in a thread, or in head.                                        *)
(***************************************************************************)
EnCola(u) == <<"cola", u>>
EnNodo(k) == <<"nodo", k>>
EnHilo(t) == <<"hilo", t>>
EnHead    == <<"head">>

PunterosMensaje(us, ms, hs) ==
  [x \in {EnCola(u) : u \in DOMAIN us} \cup {EnNodo(k) : k \in DOMAIN ms}
           \cup {EnHilo(t) : t \in DOMAIN hs} |->
     CASE x[1] = "cola" -> us[x[2]].mensajes
       [] x[1] = "nodo" -> ms[x[2]].next
       [] x[1] = "hilo" -> hs[x[2]].act]

PunterosUsuario(p, us) ==
  [x \in {EnHead} \cup {EnNodo(u) : u \in DOMAIN us} |->
     IF x[1] = "head" THEN p ELSE us[x[2]].next]

AMensaje == PunterosMensaje(usuarios, mensajes, hilo)
AUsuario == PunterosUsuario(head, usuarios)

Enlaces(m) == {x \in DOMAIN AMensaje : AMensaje[x] = m}

(* Until SIGINT no two chains share a block: whatever one thread frees, no *)
(* queue and no other thread still walks through it (operaciones.c:224 and *)
(* 435-437).                                                               *)
UnSoloEnlace ==
  proceso = Vivo => \A m \in DOMAIN mensajes : Cardinality(Enlaces(m)) <= 1

(***************************************************************************)
(* The inductive invariant behind the three of them: until SIGINT every    *)
(* pointer leads to a block in use, and no two of them to the same one.    *)
(***************************************************************************)
Encadenado(f, D) ==
  /\ NULL \notin D
  /\ \A x \in DOMAIN f : f[x] \in D \cup {NULL}
  /\ \A x, y \in DOMAIN f : f[x] = f[y] => x = y \/ f[x] = NULL

(* sig, read before the mutex is taken, is still the node behind act when  *)
(* it is used.                                                             *)
SigFiel ==
  \A t \in Hilos :
    hilo[t].sig = IF hilo[t].pc \in {"liberar", "reencolar"}
                  THEN mensajes[hilo[t].act].next ELSE NULL

IInv ==
  /\ TypeOK
  /\ proceso = Vivo => /\ Encadenado(AMensaje, DOMAIN mensajes)
                       /\ Encadenado(AUsuario, DOMAIN usuarios)
                       /\ SigFiel
  /\ SinFugas
-----------------------------------------------------------------------------
IdsDe(c) == [i \in DOMAIN c |-> mensajes[c[i]].id]

Cuentas == LET l == Lista IN
  [i \in DOMAIN l |-> [nombre |-> usuarios[l[i]].userName, cola |-> IdsDe(ColaDe(l[i]))]]

Mano(t) ==
  IF hilo[t].act = NULL THEN [para |-> NULL, cola |-> <<>>]
  ELSE [para |-> hilo[t].dest_name, cola |-> IdsDe(EnMano(t))]

(* The accounts and what the threads hold, read from the memory. *)
Colas == INSTANCE UserQueues WITH
  Nadie   <- NULL,
  cuentas <- IF proceso = Vivo THEN Cuentas ELSE <<>>,
  mano    <- [t \in Hilos |-> IF proceso = Vivo THEN Mano(t)
                              ELSE [para |-> NULL, cola |-> <<>>]]

(* Until SIGINT the chains of nodes are the queues they stand for: what a  *)
(* handler does to the pointers changes the queue of one user, in one of   *)
(* the ways UserQueues lists, and keeps the order of the rest.             *)
ColasSpec == Colas!Spec
=============================================================================
