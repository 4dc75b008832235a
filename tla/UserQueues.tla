----------------------------- MODULE UserQueues -----------------------------
(***************************************************************************)
(* What linked_list.c and the code that handles its queues should amount   *)
(* to: accounts with a queue of messages each, and the queues that threads *)
(* have taken away to deliver them.                                        *)
(***************************************************************************)
EXTENDS Naturals, Sequences, SequencesExt

CONSTANTS
  Nombres,      (* user names *)
  Ids,          (* what identifies a message; it may repeat *)
  Hilos,        (* handler threads *)
  Nadie         (* not a name *)

VARIABLES
  cuentas,      (* the accounts, newest first: name and queue *)
  mano          (* what each thread has still to deliver, and to whom *)

vars == <<cuentas, mano>>

Cuenta(n) == [nombre |-> n, cola |-> <<>>]

ManoVacia == [para |-> Nadie, cola |-> <<>>]

Init ==
  /\ cuentas = <<>>
  /\ mano = [t \in Hilos |-> ManoVacia]

Es(n) == \E i \in DOMAIN cuentas : cuentas[i].nombre = n

Alta ==
  /\ UNCHANGED mano
  /\ \E n \in Nombres : ~Es(n) /\ cuentas' = <<Cuenta(n)>> \o cuentas

(* An account goes away with its queue. *)
Baja ==
  /\ UNCHANGED mano
  /\ \E i \in DOMAIN cuentas : cuentas' = RemoveAt(cuentas, i)

Encolar ==
  /\ UNCHANGED mano
  /\ \E i \in DOMAIN cuentas, id \in Ids :
       cuentas' = [cuentas EXCEPT ![i].cola = Append(@, id)]

(* One message leaves a queue: the first of those with its identifier. *)
Quitar ==
  /\ UNCHANGED mano
  /\ \E i \in DOMAIN cuentas, id \in Ids :
       cuentas' = [cuentas EXCEPT ![i].cola = RemoveFirst(@, id)]

(* A thread takes a whole queue. *)
Separar(t) ==
  \E i \in DOMAIN cuentas :
    /\ mano[t] = ManoVacia
    /\ mano' = [mano EXCEPT ![t] = [para |-> cuentas[i].nombre, cola |-> cuentas[i].cola]]
    /\ cuentas' = [cuentas EXCEPT ![i].cola = <<>>]

Consumir(t) ==
  /\ mano[t].cola # <<>>
  /\ UNCHANGED cuentas
  /\ mano' = [mano EXCEPT ![t] = IF Len(@.cola) = 1 THEN ManoVacia
                                 ELSE [@ EXCEPT !.cola = Tail(@)]]

(* What was not delivered goes behind the queue of the same name, or       *)
(* nowhere if there is no such account.                                    *)
Devolver(t) ==
  /\ mano[t] # ManoVacia
  /\ mano' = [mano EXCEPT ![t] = ManoVacia]
  /\ cuentas' = [i \in DOMAIN cuentas |->
                   IF cuentas[i].nombre = mano[t].para
                   THEN [cuentas[i] EXCEPT !.cola = @ \o mano[t].cola] ELSE cuentas[i]]

(* SIGINT: from here on the memory is freed and nothing is promised. *)
Cerrar ==
  /\ cuentas' = <<>>
  /\ mano' = [t \in Hilos |-> ManoVacia]

Next ==
  \/ Alta \/ Baja \/ Encolar \/ Quitar
  \/ \E t \in Hilos : Separar(t) \/ Consumir(t) \/ Devolver(t)
  \/ Cerrar

Spec == Init /\ [][Next]_vars
=============================================================================
