------------------------------ MODULE AuditLog ------------------------------
(***************************************************************************)
(* The audit log: log_rpc_client.c in the central server, the rpcgen stubs *)
(* and log_rpc_server.c in a daemon of its own.                            *)
(*                                                                         *)
(* Every handler, once it has read its request and before it takes the     *)
(* mutex, calls log_rpc_operacion, which asks the daemon over UDP to print *)
(* a line, and ignores what it returns.  A request or a reply may be lost, *)
(* overtaken or, being a UDP datagram, delivered twice; the client library *)
(* sends the request again until it gives up, the daemon may be down,      *)
(* crash or come back, and remembers no request it has served.             *)
(*                                                                         *)
(* What is logged, the user, the operation and perhaps a file, is only     *)
(* text: a request is known by its thread and number.                      *)
(***************************************************************************)
EXTENDS Naturals, Sequences, FiniteSets

LOCAL INSTANCE Functions

CONSTANTS
  Hilos,          (* handler threads that can exist at the same time *)
  MaxLlamadas,    (* bound: requests that each thread handles *)
  MaxEnvios,      (* times a request is sent before the call gives up *)
  MaxCopias,      (* bound: requests that the network duplicates *)
  MaxCaidas       (* bound: crashes of the daemon *)

ASSUME ConstantesLog ==
  /\ MaxLlamadas \in Nat
  /\ MaxEnvios \in Nat \ {0}
  /\ MaxCopias \in Nat
  /\ MaxCaidas \in Nat

VARIABLES
  hilo,         (* the handler threads: program point, number of calls made *)
  llamada,      (* history: every call made, by thread and number *)
  peticiones,   (* datagrams on their way to the daemon *)
  respuestas,   (* replies on their way to the server *)
  copias,       (* history: of each call, requests the network duplicated *)
  demonio,      (* the daemon: svc_run, about to reply to a call, or down *)
  caidas,       (* how often it crashed, for MaxCaidas *)
  salida        (* what the daemon has printed: the call of each line *)

vars == <<hilo, llamada, peticiones, respuestas, copias, demonio, caidas, salida>>
servidor == <<hilo, llamada>>
red == <<peticiones, respuestas, copias>>
-----------------------------------------------------------------------------
(* clnt_create makes a new socket for each call, so a late reply to one    *)
(* call never answers another: a call is known by its thread and number.   *)
Id == Hilos \X (1..MaxLlamadas)

SVC_RUN == [pc |-> "svc_run"]
Parado == [pc |-> "parado"]
Respondiendo(id) == [pc |-> "svc_sendreply", id |-> id]

(* What a call returns, as the caller sees it. *)
Retornos == {"pendiente", "0", "-1"}

Actual(t) == <<t, hilo[t].n>>

En(t, punto) == hilo[t].pc = punto

Veces(id) == Cardinality({i \in DOMAIN salida : salida[i] = id})

Init ==
  /\ hilo = [t \in Hilos |-> [pc |-> "libre", n |-> 0]]
  /\ llamada = <<>>
  /\ peticiones = {}
  /\ respuestas = {}
  /\ copias = [id \in Id |-> 0]
  /\ demonio \in {SVC_RUN, Parado}
  /\ caidas = 0
  /\ salida = <<>>
-----------------------------------------------------------------------------
(***************************************************************************)
(* The server's side.                                                      *)
(***************************************************************************)
(* A request is read; log_rpc_operacion is called. *)
procesar_peticion(t) ==
  LET id == <<t, hilo[t].n + 1>> IN
  /\ En(t, "libre")
  /\ hilo[t].n < MaxLlamadas
  /\ hilo' = [hilo EXCEPT ![t] = [pc |-> "log", n |-> @.n + 1]]
  /\ llamada' = [i \in DOMAIN llamada \cup {id} |->
                   IF i = id THEN [envios |-> 0, ret |-> "pendiente"]
                             ELSE llamada[i]]
  /\ UNCHANGED <<red, demonio, caidas, salida>>

Enviar(t) ==
  LET n == llamada[Actual(t)].envios + 1 IN
  /\ llamada' = [llamada EXCEPT ![Actual(t)].envios = n]
  /\ peticiones' = peticiones \cup {[id |-> Actual(t), envio |-> n, copia |-> 0]}

(* log_rpc_operacion returns; the handler goes on to lock the mutex. *)
Volver(t, r) ==
  /\ hilo' = [hilo EXCEPT ![t].pc = "mutex"]
  /\ llamada' = [llamada EXCEPT ![Actual(t)].ret = r]

(* LOG_RPC_IP is not defined, clnt_create fails, or the request cannot be  *)
(* sent: -1.  Otherwise it is sent and the thread waits.                   *)
log_rpc_operacion(t) ==
  /\ En(t, "log")
  /\ \/ /\ Volver(t, "-1")
        /\ UNCHANGED peticiones
     \/ /\ Enviar(t)
        /\ hilo' = [hilo EXCEPT ![t].pc = "clnt_call"]
  /\ UNCHANGED <<respuestas, copias, demonio, caidas, salida>>

(* Nothing has come for some seconds: the same request again. *)
reenviar(t) ==
  /\ En(t, "clnt_call")
  /\ llamada[Actual(t)].envios < MaxEnvios
  /\ Enviar(t)
  /\ UNCHANGED <<hilo, respuestas, copias, demonio, caidas, salida>>

(* RPC_SUCCESS: the result is the one of the daemon. *)
recibir(t) ==
  /\ En(t, "clnt_call")
  /\ Actual(t) \in respuestas
  /\ Volver(t, "0")
  /\ UNCHANGED <<red, demonio, caidas, salida>>

vencer_SinMirarEstado(t) ==
  /\ En(t, "clnt_call")
  /\ llamada[Actual(t)].envios = MaxEnvios
  /\ Volver(t, "0")
  /\ UNCHANGED <<red, demonio, caidas, salida>>

vencer_SinPlazo(t) == En(t, "clnt_call") /\ UNCHANGED vars

(* TIMEOUT has passed: not RPC_SUCCESS, -1, whatever the daemon did. *)
vencer(t) ==
  /\ En(t, "clnt_call")
  /\ llamada[Actual(t)].envios = MaxEnvios
  /\ Volver(t, "-1")
  /\ UNCHANGED <<red, demonio, caidas, salida>>

(* Nobody has the port: the datagram is refused, the call fails at once. *)
rechazada(t) ==
  /\ En(t, "clnt_call")
  /\ demonio = Parado
  /\ Volver(t, "-1")
  /\ UNCHANGED <<red, demonio, caidas, salida>>

(* The handler goes on to its critical section and ends.  The value that   *)
(* log_rpc_operacion returned is not looked at.                            *)
operar(t) ==
  /\ En(t, "mutex")
  /\ hilo' = [hilo EXCEPT ![t].pc = "libre"]
  /\ UNCHANGED <<llamada, red, demonio, caidas, salida>>
-----------------------------------------------------------------------------
(***************************************************************************)
(* The daemon and the network.                                             *)
(***************************************************************************)
registrar_operacion_1_svc_DosVeces(id) == salida' = Append(Append(salida, id), id)

(* The line is printed and flushed before the result is sent. *)
registrar_operacion_1_svc(id) == salida' = Append(salida, id)

(* svc_run hands one datagram at a time to log_rpc_prog_1, which keeps no  *)
(* record of the calls it has served: whatever arrives is executed.        *)
log_rpc_prog_1(p) ==
  /\ demonio = SVC_RUN
  /\ registrar_operacion_1_svc(p.id)
  /\ demonio' = Respondiendo(p.id)
  /\ peticiones' = peticiones \ {p}
  /\ UNCHANGED <<servidor, respuestas, copias, caidas>>

svc_sendreply ==
  /\ demonio.pc = "svc_sendreply"
  /\ respuestas' = respuestas \cup {demonio.id}
  /\ demonio' = SVC_RUN
  /\ UNCHANGED <<servidor, peticiones, copias, caidas, salida>>

(* main of log_rpc_svc.c: a daemon starts and registers its port. *)
arrancar ==
  /\ demonio = Parado
  /\ demonio' = SVC_RUN
  /\ UNCHANGED <<servidor, red, caidas, salida>>

caer ==
  /\ demonio # Parado
  /\ caidas < MaxCaidas
  /\ caidas' = caidas + 1
  /\ demonio' = Parado
  /\ UNCHANGED <<servidor, red, salida>>

(* UDP loses a request or a reply.  Order is not kept: both are sets.     *)
perder ==
  /\ \/ \E p \in peticiones : peticiones' = peticiones \ {p} /\ UNCHANGED respuestas
     \/ \E r \in respuestas : respuestas' = respuestas \ {r} /\ UNCHANGED peticiones
  /\ UNCHANGED <<servidor, copias, demonio, caidas, salida>>

(* Over all the calls. *)
CopiasHechas == FoldFunction(+, 0, copias)

(* UDP delivers a request once more.  A reply that stays in respuestas     *)
(* after it was received already covers the one delivered twice.           *)
duplicar(p) ==
  /\ CopiasHechas < MaxCopias
  /\ copias' = [copias EXCEPT ![p.id] = @ + 1]
  /\ peticiones' = peticiones \cup {[p EXCEPT !.copia = copias'[p.id]]}
  /\ UNCHANGED <<servidor, respuestas, demonio, caidas, salida>>
-----------------------------------------------------------------------------
Paso(t) ==
  \/ log_rpc_operacion(t)
  \/ reenviar(t)
  \/ recibir(t)
  \/ vencer(t)
  \/ rechazada(t)
  \/ operar(t)

(* Every thread has handled its requests; the server waits in accept. *)
EsperaEnAccept ==
  /\ \A t \in Hilos : En(t, "libre") /\ hilo[t].n = MaxLlamadas
  /\ UNCHANGED vars

Next ==
  \/ \E t \in Hilos : procesar_peticion(t)
  \/ \E t \in Hilos : Paso(t)
  \/ \E p \in peticiones : log_rpc_prog_1(p)
  \/ svc_sendreply
  \/ arrancar
  \/ caer
  \/ perder
  \/ \E p \in peticiones : duplicar(p)
  \/ EsperaEnAccept

Spec == Init /\ [][Next]_vars

(* The server's threads run.  Nothing is assumed of the network or of the  *)
(* daemon, which may be down for ever.                                     *)
FairSpec == Spec /\ \A t \in Hilos : WF_vars(Paso(t))
=============================================================================
