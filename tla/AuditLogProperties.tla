------------------------- MODULE AuditLogProperties -------------------------
(***************************************************************************)
(* What can be relied on in the audit log, and what cannot.                *)
(***************************************************************************)
EXTENDS AuditLog

(* Of each call, what the handler knows. *)
Retorno ==
  [id \in Id |-> IF id \in DOMAIN llamada THEN llamada[id].ret ELSE "sin hacer"]

Promesa == INSTANCE AuditStore WITH retorno <- Retorno

Impresas == Promesa!Impresas

Peticiones == [id : Id, envio : 1..MaxEnvios, copia : Nat]

(* Type correctness. *)
TypeOK ==
  /\ hilo \in [Hilos -> [pc : {"libre", "log", "clnt_call", "mutex"}, n : 0..MaxLlamadas]]
  /\ DOMAIN llamada \subseteq Id
  /\ \A id \in DOMAIN llamada :
       llamada[id] \in [envios : 0..MaxEnvios, ret : Retornos]
  /\ peticiones \subseteq Peticiones
  /\ respuestas \subseteq Id
  /\ copias \in [Id -> Nat]
  /\ demonio \in {SVC_RUN, Parado} \cup {Respondiendo(id) : id \in Id}
  /\ caidas \in 0..MaxCaidas
  /\ salida \in Seq(Id)

(* log_rpc_client.h:13, "0 si el registro fue exitoso": the line of a call *)
(* that returned 0 has been printed, whatever was lost and however often   *)
(* the daemon crashed between printing and answering.                      *)
ExitoImpreso ==
  \A id \in DOMAIN llamada : llamada[id].ret = "0" => id \in Impresas

(* How often the request of a call has been sent. *)
Envios(id) == IF id \in DOMAIN llamada THEN llamada[id].envios ELSE 0

(* The datagrams of a call that have been on their way, duplicates too. *)
Datagramas(id) == Envios(id) + copias[id]

(* Each line of a call, and each datagram that may still become one, is a  *)
(* sending of the library (log_rpc_client.c:58) or a duplicate made by the *)
(* network: the daemon never prints by itself, nor twice for one datagram, *)
(* nor again for the reply it could not send.                              *)
CadaLineaUnDatagrama ==
  /\ IsFiniteSet(peticiones)
  /\ \A id \in Id :
       Veces(id) + Cardinality({p \in peticiones : p.id = id}) <= Datagramas(id)

(* The client, the network and the daemon together are the promise of      *)
(* AuditStore: every step of theirs is a step of it or none.               *)
PromesaSpec == Promesa!Spec

(* The calls that have been made are those each thread has counted, and    *)
(* the one it is in has not returned, nor sent anything at first.          *)
HechasDe(t) ==
  /\ \A k \in 1..MaxLlamadas : <<t, k>> \in DOMAIN llamada <=> k <= hilo[t].n
  /\ hilo[t].pc # "libre" => Actual(t) \in DOMAIN llamada
  /\ hilo[t].pc \in {"log", "clnt_call"} => llamada[Actual(t)].ret = "pendiente"
  /\ hilo[t].pc = "log" => llamada[Actual(t)].envios = 0

LlamadasHechas == \A t \in Hilos : HechasDe(t)

(* Why a 0 can be believed: a reply, or a daemon about to reply, means a   *)
(* printed line, and only a call that was made gets this far.              *)
RespuestasCiertas ==
  /\ \A p \in peticiones : p.id \in DOMAIN llamada
  /\ respuestas \subseteq Impresas
  /\ demonio.pc = "svc_sendreply" => demonio.id \in Impresas
  /\ Impresas \subseteq DOMAIN llamada

(* All of it together: what every step preserves. *)
IInv ==
  /\ TypeOK
  /\ LlamadasHechas
  /\ RespuestasCiertas
  /\ ExitoImpreso

(* Every request goes on to its operation, though the log be down for ever *)
(* or lose everything: the call is over after the last time-out, whatever  *)
(* it returned.                                                            *)
ElLogNoDetiene ==
  \A t \in Hilos : En(t, "log") ~> En(t, "libre")
=============================================================================
