------------------------------ MODULE UserList ------------------------------
(***************************************************************************)
(* The list of users and their queues as they are in memory: linked_list.c *)
(* and the code of operaciones.c that walks, detaches, hooks back and      *)
(* frees the chains of nodes, for any number of requests.                  *)
(*                                                                         *)
(* A critical section is one step, as in Server; what a thread does to the *)
(* chain that it has detached is not protected by the mutex, and is a step *)
(* of its own each time.  SIGINT walks the list and frees it, one read or  *)
(* free at a time and without the mutex, while the threads go on; whoever  *)
(* would then read or free a block that is not allocated may do anything,  *)
(* and the model ends there.                                               *)
(***************************************************************************)
EXTENDS Naturals, Sequences, FiniteSets, SequencesExt

CONSTANTS
  Nombres,        (* user names *)
  Ids,            (* what eliminar_mensaje_cola compares of a message *)
  Hilos,          (* handler threads *)
  NodosUsuario,   (* blocks of memory for a user_node_t *)
  NodosMensaje,   (* blocks of memory for a mensaje_pendiente_t *)
  MaxTardios,     (* bound: steps of the threads after SIGINT *)
  NULL

ASSUME ConstantesUserList ==
  /\ NULL \notin NodosUsuario \cup NodosMensaje
  /\ IsFiniteSet(NodosUsuario) /\ IsFiniteSet(NodosMensaje)
  /\ MaxTardios \in Nat

VARIABLES
  usuarios,     (* the allocated user_node_t, by their address *)
  mensajes,     (* the allocated mensaje_pendiente_t, by their address *)
  head,         (* the first user, or NULL *)
  hilo,         (* the threads that deliver: program point and pointers *)
  proceso,      (* the process: alive, in free_user_list, ended, or undefined *)
  tardios       (* how many steps the threads have taken since SIGINT *)

vars == <<usuarios, mensajes, head, hilo, proceso, tardios>>
-----------------------------------------------------------------------------
Usuario == [userName : Nombres, conectado : BOOLEAN,
            mensajes : NodosMensaje \cup {NULL}, next : NodosUsuario \cup {NULL}]

Mensaje == [id : Ids, next : NodosMensaje \cup {NULL}]

HiloLibre == [pc |-> "libre", act |-> NULL, sig |-> NULL]

Vivo == [pc |-> "vivo"]
Fin == [pc |-> "exit"]
Indefinido == [pc |-> "indefinido"]

(* The walk of free_user_list: what it does next, and its local variables, *)
(* NULL when they have no value or it is not used again.                   *)
Recorrido(p) == [pc |-> "usuario", current |-> p, next_user |-> NULL,
                 msg_actual |-> NULL, next_msg |-> NULL]

(* One step of a walk from p that has visited c: it stops at NULL, or at a *)
(* block that is not allocated.                                            *)
Visitar(mem, p, c) ==
  LET q == IF c = <<>> THEN p ELSE mem[Last(c)].next
  IN  IF q \in DOMAIN mem THEN Append(c, q) ELSE c

(* The nodes that a walk visits in as many steps as there are blocks. *)
Cadena(mem, p) ==
  LET n == Cardinality(DOMAIN mem)
      visita[k \in 0..n] == IF k = 0 THEN <<>> ELSE Visitar(mem, p, visita[k - 1])
  IN  visita[n]

Lista == Cadena(usuarios, head)

ColaDe(u) == Cadena(mensajes, usuarios[u].mensajes)

Init ==
  /\ usuarios = <<>>
  /\ mensajes = <<>>
  /\ head = NULL
  /\ hilo = [t \in Hilos |-> HiloLibre]
  /\ proceso = Vivo
  /\ tardios = 0

(* The process is over, or undefined: its memory is not followed further. *)
Acabar(p) ==
  /\ usuarios' = <<>>
  /\ mensajes' = <<>>
  /\ head' = NULL
  /\ hilo' = [t \in Hilos |-> HiloLibre]
  /\ proceso' = p
  /\ tardios' = 0

(* Every link of the list and of the queues leads to an allocated block. *)
ListaSana ==
  /\ head \in DOMAIN usuarios \cup {NULL}
  /\ \A u \in DOMAIN usuarios : /\ usuarios[u].next \in DOMAIN usuarios \cup {NULL}
                                /\ usuarios[u].mensajes \in DOMAIN mensajes \cup {NULL}
  /\ \A m \in DOMAIN mensajes : mensajes[m].next \in DOMAIN mensajes \cup {NULL}

Liberando == proceso.pc \in {"usuario", "mensajes", "mensaje", "free"}

EnMarcha == proceso = Vivo \/ Liberando

(* The step of a thread, which SIGINT does not stop. *)
Avanza ==
  /\ Liberando => tardios < MaxTardios
  /\ tardios' = IF Liberando THEN tardios + 1 ELSE tardios
  /\ UNCHANGED proceso

(* What a thread that delivers has in hand has not been freed by SIGINT. *)
EnUso(t) == hilo[t].act \in DOMAIN mensajes

(* A critical section can run: the process does, and the list is there. *)
Seccion == EnMarcha /\ ListaSana
-----------------------------------------------------------------------------
(***************************************************************************)
(* linked_list.c.                                                          *)
(***************************************************************************)
find_user(n) ==
  IF \E u \in Range(Lista) : usuarios[u].userName = n
  THEN CHOOSE u \in Range(Lista) : usuarios[u].userName = n
  ELSE NULL

Existe(n) == find_user(n) # NULL

add_user(n, b) ==
  /\ usuarios' = [u \in DOMAIN usuarios \cup {b} |->
                    IF u = b THEN [userName |-> n, conectado |-> FALSE,
                                   mensajes |-> NULL, next |-> head]
                             ELSE usuarios[u]]
  /\ head' = b

remove_user_SinCola(n) ==
  LET current == find_user(n)
      sinNodo == Restrict(usuarios, DOMAIN usuarios \ {current})
  IN
  /\ head' = IF head = current THEN usuarios[current].next ELSE head
  /\ usuarios' = [u \in DOMAIN sinNodo |->
                    IF sinNodo[u].next = current
                    THEN [sinNodo[u] EXCEPT !.next = usuarios[current].next]
                    ELSE sinNodo[u]]
  /\ UNCHANGED mensajes

(* The node before it, or head, skips it; its queue is freed with it. *)
remove_user(n) ==
  LET current == find_user(n)
      sinNodo == Restrict(usuarios, DOMAIN usuarios \ {current})
  IN
  /\ head' = IF head = current THEN usuarios[current].next ELSE head
  /\ usuarios' = [u \in DOMAIN sinNodo |->
                    IF sinNodo[u].next = current
                    THEN [sinNodo[u] EXCEPT !.next = usuarios[current].next]
                    ELSE sinNodo[u]]
  /\ mensajes' = Restrict(mensajes, DOMAIN mensajes \ Range(ColaDe(current)))
-----------------------------------------------------------------------------
(***************************************************************************)
(* The handlers.                                                           *)
(***************************************************************************)
(* malloc: a block that is not in use, perhaps one just freed.  With none  *)
(* left it returns NULL and the list stays as it is.                       *)
procesar_register(n) ==
  /\ Seccion
  /\ ~Existe(n)
  /\ \E b \in NodosUsuario \ DOMAIN usuarios : add_user(n, b)
  /\ UNCHANGED <<mensajes, hilo>>
  /\ Avanza

procesar_unregister(n) ==
  /\ Seccion
  /\ Existe(n)
  /\ remove_user(n)
  /\ UNCHANGED hilo
  /\ Avanza

procesar_connect_SinVaciar(t, n) ==
  LET u == find_user(n) IN
  /\ Seccion
  /\ hilo[t].pc = "libre"
  /\ Existe(n) /\ ~usuarios[u].conectado
  /\ usuarios' = [usuarios EXCEPT ![u].conectado = TRUE]
  /\ hilo' = IF usuarios[u].mensajes = NULL THEN hilo
             ELSE [hilo EXCEPT ![t] = [pc |-> "entregar", act |-> usuarios[u].mensajes,
                                       sig |-> NULL, dest_name |-> n]]
  /\ UNCHANGED <<mensajes, head>>
  /\ Avanza

(* mensajes_a_enviar is the queue; the user's pointer to it is cleared. *)
procesar_connect(t, n) ==
  LET u == find_user(n) IN
  /\ Seccion
  /\ hilo[t].pc = "libre"
  /\ Existe(n) /\ ~usuarios[u].conectado
  /\ usuarios' = [usuarios EXCEPT ![u].conectado = TRUE, ![u].mensajes = NULL]
  /\ hilo' = IF usuarios[u].mensajes = NULL THEN hilo
             ELSE [hilo EXCEPT ![t] = [pc |-> "entregar", act |-> usuarios[u].mensajes,
                                       sig |-> NULL, dest_name |-> n]]
  /\ UNCHANGED <<mensajes, head>>
  /\ Avanza

procesar_disconnect(n) ==
  /\ Seccion
  /\ Existe(n) /\ usuarios[find_user(n)].conectado
  /\ usuarios' = [usuarios EXCEPT ![find_user(n)].conectado = FALSE]
  /\ UNCHANGED <<mensajes, head, hilo>>
  /\ Avanza

(* aux walks to the last node.  The sender, whose counter changes, may be  *)
(* the receiver.                                                           *)
procesar_envio_comun(t, n, id) ==
  LET u == find_user(n) IN
  /\ Seccion
  /\ hilo[t].pc = "libre"
  /\ Existe(n)
  /\ \E b \in NodosMensaje \ DOMAIN mensajes :
       /\ mensajes' = [m \in DOMAIN mensajes \cup {b} |->
            IF m = b THEN [id |-> id, next |-> NULL]
            ELSE IF ColaDe(u) # <<>> /\ m = Last(ColaDe(u))
                 THEN [mensajes[m] EXCEPT !.next = b] ELSE mensajes[m]]
       /\ usuarios' = IF ColaDe(u) = <<>>
                      THEN [usuarios EXCEPT ![u].mensajes = b] ELSE usuarios
  /\ hilo' = IF usuarios[u].conectado
             THEN [hilo EXCEPT ![t] = [pc |-> "enviado", act |-> NULL, sig |-> NULL,
                                       destino |-> n, id |-> id]]
             ELSE hilo
  /\ UNCHANGED head
  /\ Avanza

Terminar(t) == hilo' = [hilo EXCEPT ![t] = HiloLibre]

eliminar_mensaje_cola_SinPrimero(t) ==
  LET u == find_user(hilo[t].destino)
      c == ColaDe(u)
  IN
  /\ Seccion
  /\ hilo[t].pc = "enviado"
  /\ IF \E i \in DOMAIN c : Existe(hilo[t].destino) /\ mensajes[c[i]].id = hilo[t].id
     THEN mensajes' = Restrict(mensajes, DOMAIN mensajes \
            {c[SelectInSeq(c, LAMBDA m : mensajes[m].id = hilo[t].id)]})
     ELSE UNCHANGED mensajes
  /\ UNCHANGED usuarios
  /\ Terminar(t)
  /\ UNCHANGED head
  /\ Avanza

(* The first node that matches is unlinked and freed. *)
eliminar_mensaje_cola(t) ==
  LET u == find_user(hilo[t].destino)
      c == ColaDe(u)
      i == SelectInSeq(c, LAMBDA m : mensajes[m].id = hilo[t].id)
      resto == mensajes[c[i]].next
      sinNodo == Restrict(mensajes, DOMAIN mensajes \ {c[i]})
  IN
  /\ Seccion
  /\ hilo[t].pc = "enviado"
  /\ \/ /\ Existe(hilo[t].destino) => i = 0
        /\ UNCHANGED <<usuarios, mensajes>>
     \/ /\ Existe(hilo[t].destino) /\ i = 1
        /\ usuarios' = [usuarios EXCEPT ![u].mensajes = resto]
        /\ mensajes' = sinNodo
     \/ /\ Existe(hilo[t].destino) /\ i > 1
        /\ mensajes' = [sinNodo EXCEPT ![c[i - 1]].next = resto]
        /\ UNCHANGED usuarios
  /\ Terminar(t)
  /\ UNCHANGED head
  /\ Avanza

(* The delivery failed: whoever has the name is marked as disconnected. *)
desconectar_destino(t) ==
  LET u == find_user(hilo[t].destino) IN
  /\ Seccion
  /\ hilo[t].pc = "enviado"
  /\ usuarios' = IF Existe(hilo[t].destino)
                 THEN [usuarios EXCEPT ![u].conectado = FALSE] ELSE usuarios
  /\ Terminar(t)
  /\ UNCHANGED <<mensajes, head>>
  /\ Avanza
-----------------------------------------------------------------------------
(***************************************************************************)
(* entregar_pendientes.                                                    *)
(***************************************************************************)
(* sig is read; the message is written to the client, or it is not. *)
entregar_pendiente(t) ==
  /\ EnMarcha
  /\ hilo[t].pc = "entregar" /\ EnUso(t)
  /\ \E punto \in {"liberar", "reencolar"} :
       hilo' = [hilo EXCEPT ![t].pc = punto, ![t].sig = mensajes[hilo[t].act].next]
  /\ UNCHANGED <<usuarios, mensajes, head>>
  /\ Avanza

liberar_entregado_SinParar(t) ==
  /\ EnMarcha
  /\ hilo[t].pc = "liberar" /\ EnUso(t)
  /\ mensajes' = Restrict(mensajes, DOMAIN mensajes \ {hilo[t].act})
  /\ hilo' = [hilo EXCEPT ![t].pc = "entregar", ![t].act = hilo[t].sig, ![t].sig = NULL]
  /\ UNCHANGED <<usuarios, head>>
  /\ Avanza

(* free(act); act = sig. *)
liberar_entregado(t) ==
  /\ EnMarcha
  /\ hilo[t].pc = "liberar" /\ EnUso(t)
  /\ mensajes' = Restrict(mensajes, DOMAIN mensajes \ {hilo[t].act})
  /\ IF hilo[t].sig = NULL THEN Terminar(t)
     ELSE hilo' = [hilo EXCEPT ![t].pc = "entregar", ![t].act = hilo[t].sig,
                               ![t].sig = NULL]
  /\ UNCHANGED <<usuarios, head>>
  /\ Avanza

reencolar_Pisando(t) ==
  LET u == find_user(hilo[t].dest_name) IN
  /\ Seccion
  /\ hilo[t].pc = "reencolar" /\ EnUso(t)
  /\ IF Existe(hilo[t].dest_name)
     THEN /\ usuarios' = [usuarios EXCEPT ![u].conectado = FALSE,
                                          ![u].mensajes = hilo[t].act]
          /\ UNCHANGED mensajes
     ELSE /\ mensajes' = Restrict(mensajes, DOMAIN mensajes
                                    \ Range(Cadena(mensajes, hilo[t].act)))
          /\ UNCHANGED usuarios
  /\ Terminar(t)
  /\ UNCHANGED head
  /\ Avanza

(* The chain from act is hooked to the queue, behind its last node if it   *)
(* has any, or freed to its end if there is no such user.                  *)
reencolar(t) ==
  LET u == find_user(hilo[t].dest_name)
      c == ColaDe(u)
  IN
  /\ Seccion
  /\ hilo[t].pc = "reencolar" /\ EnUso(t)
  /\ \/ /\ ~Existe(hilo[t].dest_name)
        /\ mensajes' = Restrict(mensajes, DOMAIN mensajes
                                  \ Range(Cadena(mensajes, hilo[t].act)))
        /\ UNCHANGED usuarios
     \/ /\ Existe(hilo[t].dest_name) /\ c = <<>>
        /\ usuarios' = [usuarios EXCEPT ![u].conectado = FALSE, ![u].mensajes = hilo[t].act]
        /\ UNCHANGED mensajes
     \/ /\ Existe(hilo[t].dest_name) /\ c # <<>>
        /\ usuarios' = [usuarios EXCEPT ![u].conectado = FALSE]
        /\ mensajes' = [mensajes EXCEPT ![Last(c)].next = hilo[t].act]
  /\ Terminar(t)
  /\ UNCHANGED head
  /\ Avanza
-----------------------------------------------------------------------------
(***************************************************************************)
(* SIGINT.                                                                 *)
(***************************************************************************)
handle_sigint ==
  /\ proceso = Vivo
  /\ proceso' = Recorrido(head)
  /\ UNCHANGED <<usuarios, mensajes, head, hilo, tardios>>

(* For each user next_user is read, then the queue is freed, next_msg      *)
(* before each message, and then the node.  No pointer of the list is      *)
(* written: head and the queues go on leading to what has been freed.      *)
free_user_list ==
  /\ \/ /\ proceso.pc = "usuario" /\ proceso.current \in DOMAIN usuarios
        /\ proceso' = [proceso EXCEPT !.pc = "mensajes",
                                      !.next_user = usuarios[proceso.current].next]
        /\ UNCHANGED <<usuarios, mensajes>>
     \/ /\ proceso.pc = "mensajes" /\ proceso.current \in DOMAIN usuarios
        /\ proceso' = [proceso EXCEPT !.pc = "mensaje",
                                      !.msg_actual = usuarios[proceso.current].mensajes]
        /\ UNCHANGED <<usuarios, mensajes>>
     \/ /\ proceso.pc = "mensaje" /\ proceso.msg_actual \in DOMAIN mensajes
        /\ proceso' = [proceso EXCEPT !.pc = "free",
                                      !.next_msg = mensajes[proceso.msg_actual].next]
        /\ UNCHANGED <<usuarios, mensajes>>
     \/ /\ proceso.pc = "free" /\ proceso.msg_actual \in DOMAIN mensajes
        /\ mensajes' = Restrict(mensajes, DOMAIN mensajes \ {proceso.msg_actual})
        /\ proceso' = [proceso EXCEPT !.pc = "mensaje", !.msg_actual = proceso.next_msg,
                                      !.next_msg = NULL]
        /\ UNCHANGED usuarios
     \/ /\ proceso.pc = "mensaje" /\ proceso.msg_actual = NULL
        /\ proceso.current \in DOMAIN usuarios
        /\ usuarios' = Restrict(usuarios, DOMAIN usuarios \ {proceso.current})
        /\ proceso' = Recorrido(proceso.next_user)
        /\ UNCHANGED mensajes
  /\ UNCHANGED <<head, hilo, tardios>>

salir ==
  /\ proceso = Recorrido(NULL)
  /\ Acabar(Fin)

(* The walk, or a thread, uses a block that is not allocated: its pointer  *)
(* leads nowhere, or was read before the block was freed, for no section   *)
(* of a thread is atomic against the walk.                                 *)
tropezar ==
  /\ Liberando
  /\ Acabar(Indefinido)

Acabado == ~EnMarcha /\ UNCHANGED vars
-----------------------------------------------------------------------------
Next ==
  \/ \E n \in Nombres :
       procesar_register(n) \/ procesar_unregister(n) \/ procesar_disconnect(n)
  \/ \E t \in Hilos, n \in Nombres : procesar_connect(t, n)
  \/ \E t \in Hilos, n \in Nombres, id \in Ids : procesar_envio_comun(t, n, id)
  \/ \E t \in Hilos :
       \/ eliminar_mensaje_cola(t)
       \/ desconectar_destino(t)
       \/ entregar_pendiente(t)
       \/ liberar_entregado(t)
       \/ reencolar(t)
  \/ handle_sigint
  \/ free_user_list
  \/ salir
  \/ tropezar
  \/ Acabado

Spec == Init /\ [][Next]_vars
=============================================================================
