--------------------------- MODULE AuditLogProofs ---------------------------
(***************************************************************************)
(* A log call that returns 0 has been printed, for any number of threads,  *)
(* calls, retransmissions and crashes of the daemon.                       *)
(***************************************************************************)
EXTENDS AuditLogProperties, SequenceTheorems, FiniteSetTheorems, TLAPS

USE DEF Impresas, Promesa!Impresas

LEMMA ActualEsId ==
  ASSUME TypeOK, LlamadasHechas, NEW t \in Hilos, hilo[t].pc # "libre"
  PROVE  /\ Actual(t) \in Id
         /\ Actual(t) \in DOMAIN llamada
         /\ Actual(t)[1] = t
  BY DEF TypeOK, LlamadasHechas, HechasDe, Actual

(* What one thread does to its own call does not touch those of another. *)
LEMMA OtroHilo ==
  ASSUME NEW s \in Hilos, HechasDe(s), hilo'[s] = hilo[s],
         \A k \in 1..MaxLlamadas : <<s, k>> \in DOMAIN llamada' <=> <<s, k>> \in DOMAIN llamada,
         \A id \in DOMAIN llamada : id[1] = s => id \in DOMAIN llamada' /\ llamada'[id] = llamada[id]
  PROVE  HechasDe(s)'
  <1>1. Actual(s)' = Actual(s) /\ Actual(s)[1] = s
    BY DEF Actual
  <1>2. QED
    BY <1>1 DEF HechasDe

(* Printing keeps what was printed. *)
LEMMA ImprimirAnade ==
  ASSUME salida \in Seq(Id), NEW id \in Id, registrar_operacion_1_svc(id)
  PROVE  /\ salida' \in Seq(Id)
         /\ Impresas' = Impresas \cup {id}
  BY DEF registrar_operacion_1_svc

(* A thread that sends, and goes on waiting. *)
LEMMA EnviarConserva ==
  ASSUME IInv, NEW t \in Hilos, hilo[t].pc \in {"log", "clnt_call"}, Enviar(t),
         llamada[Actual(t)].envios < MaxEnvios
  PROVE  /\ peticiones' \subseteq Peticiones
         /\ \A p \in peticiones' : p.id \in DOMAIN llamada
         /\ DOMAIN llamada' = DOMAIN llamada
         /\ \A id \in DOMAIN llamada :
              /\ llamada'[id] \in [envios : 0..MaxEnvios, ret : Retornos]
              /\ llamada'[id].ret = llamada[id].ret
  <1>1. Actual(t) \in Id /\ Actual(t) \in DOMAIN llamada
    BY ActualEsId DEF IInv
  <1>2. llamada[Actual(t)] \in [envios : 0..MaxEnvios, ret : Retornos]
    BY <1>1 DEF IInv, TypeOK
  <1>3. llamada[Actual(t)].envios + 1 \in 1..MaxEnvios
    BY <1>2, ConstantesLog
  <1>4. [id |-> Actual(t), envio |-> llamada[Actual(t)].envios + 1, copia |-> 0] \in Peticiones
    BY <1>1, <1>3 DEF Peticiones
  <1>5. peticiones' \subseteq Peticiones /\ \A p \in peticiones' : p.id \in DOMAIN llamada
    BY <1>1, <1>4 DEF Enviar, IInv, TypeOK, RespuestasCiertas
  <1>6. [llamada[Actual(t)] EXCEPT !.envios = llamada[Actual(t)].envios + 1]
          \in [envios : 0..MaxEnvios, ret : Retornos]
    BY <1>2, <1>3
  <1>7. QED
    BY <1>1, <1>2, <1>3, <1>5, <1>6 DEF Enviar, IInv, TypeOK

(* A thread that is back from its call. *)
LEMMA VolverConserva ==
  ASSUME IInv, NEW t \in Hilos, hilo[t].pc \in {"log", "clnt_call"},
         NEW r \in {"0", "-1"}, Volver(t, r), r = "0" => Actual(t) \in Impresas,
         peticiones' \subseteq peticiones, UNCHANGED <<respuestas, copias, demonio, caidas, salida>>
  PROVE  IInv'
  <1>1. Actual(t) \in Id /\ Actual(t) \in DOMAIN llamada
    BY ActualEsId DEF IInv
  <1>2. /\ DOMAIN llamada' = DOMAIN llamada
        /\ \A id \in DOMAIN llamada :
             /\ llamada'[id] \in [envios : 0..MaxEnvios, ret : Retornos]
             /\ llamada'[id].ret = IF id = Actual(t) THEN r ELSE llamada[id].ret
    BY <1>1 DEF Volver, IInv, TypeOK, Retornos
  <1>3. /\ hilo' \in [Hilos -> [pc : {"libre", "log", "clnt_call", "mutex"}, n : 0..MaxLlamadas]]
        /\ \A s \in Hilos : hilo'[s].n = hilo[s].n
        /\ \A s \in Hilos \ {t} : hilo'[s] = hilo[s]
        /\ hilo'[t].pc = "mutex"
    BY DEF Volver, IInv, TypeOK
  <1>4. TypeOK'
    BY <1>2, <1>3 DEF IInv, TypeOK
  <1>5. LlamadasHechas'
    <2>1. \A id \in DOMAIN llamada : id # Actual(t) => llamada'[id] = llamada[id]
      BY DEF Volver, IInv, TypeOK
    <2>2. ASSUME NEW s \in Hilos \ {t} PROVE HechasDe(s)'
      BY <1>1, <1>2, <1>3, <2>1, OtroHilo, ActualEsId DEF IInv, LlamadasHechas
    <2>3. Actual(t)' = Actual(t)
      BY <1>3 DEF Actual
    <2>4. HechasDe(t)'
      BY <1>1, <1>2, <1>3, <2>3 DEF IInv, LlamadasHechas, HechasDe
    <2>5. QED
      BY <2>2, <2>4 DEF LlamadasHechas
  <1>6. RespuestasCiertas' /\ ExitoImpreso'
    BY <1>2 DEF IInv, RespuestasCiertas, ExitoImpreso
  <1>7. QED
    BY <1>4, <1>5, <1>6 DEF IInv
-----------------------------------------------------------------------------
(***************************************************************************)
(* One lemma per action.                                                   *)
(***************************************************************************)
LEMMA Inicio == Init => IInv
  <1> SUFFICES ASSUME Init PROVE IInv
    OBVIOUS
  <1>1. DOMAIN llamada = {} /\ Impresas = {} /\ salida \in Seq(Id)
    BY DEF Init
  <1>2. TypeOK
    BY <1>1, ConstantesLog DEF Init, TypeOK, SVC_RUN, Parado
  <1>3. LlamadasHechas
    BY <1>1 DEF Init, LlamadasHechas, HechasDe
  <1>4. RespuestasCiertas /\ ExitoImpreso
    BY <1>1 DEF Init, RespuestasCiertas, ExitoImpreso, SVC_RUN, Parado
  <1>5. QED
    BY <1>2, <1>3, <1>4 DEF IInv

(* The call that a thread is about to make has not been made. *)
LEMMA LlamadaNueva ==
  ASSUME IInv, NEW t \in Hilos, hilo[t].pc = "libre", hilo[t].n < MaxLlamadas
  PROVE  /\ hilo[t].n + 1 \in 1..MaxLlamadas
         /\ <<t, hilo[t].n + 1>> \in Id
         /\ <<t, hilo[t].n + 1>> \notin DOMAIN llamada
  <1>1. hilo[t].n \in 0..MaxLlamadas
    BY DEF IInv, TypeOK
  <1>2. hilo[t].n + 1 \in 1..MaxLlamadas /\ ~(hilo[t].n + 1 <= hilo[t].n)
    BY <1>1, ConstantesLog
  <1>3. QED
    BY <1>2 DEF IInv, LlamadasHechas, HechasDe, Id

LEMMA Conserva_procesar_peticion ==
  ASSUME IInv, NEW t \in Hilos, procesar_peticion(t)
  PROVE  IInv'
  <1> DEFINE id == <<t, hilo[t].n + 1>>
             c == [envios |-> 0, ret |-> "pendiente"]
  <1>1. id \in Id /\ id \notin DOMAIN llamada /\ hilo[t].n + 1 \in 1..MaxLlamadas
    BY LlamadaNueva DEF procesar_peticion, En
  <1>2. /\ DOMAIN llamada' = DOMAIN llamada \cup {id}
        /\ llamada'[id] = c
        /\ \A i \in DOMAIN llamada : llamada'[i] = llamada[i]
    BY <1>1 DEF procesar_peticion
  <1>3. c \in [envios : 0..MaxEnvios, ret : Retornos]
    BY ConstantesLog DEF Retornos
  <1>4. c.ret = "pendiente"
    OBVIOUS
  <1>5. /\ \A s \in Hilos \ {t} : hilo'[s] = hilo[s]
        /\ hilo'[t] = [pc |-> "log", n |-> hilo[t].n + 1]
        /\ hilo' \in [Hilos -> [pc : {"libre", "log", "clnt_call", "mutex"}, n : 0..MaxLlamadas]]
    BY <1>1 DEF procesar_peticion, IInv, TypeOK
  <1> HIDE DEF c
  <1>6. TypeOK'
    BY <1>1, <1>2, <1>3, <1>5 DEF IInv, TypeOK, procesar_peticion, red
  <1>7. LlamadasHechas'
    <2>1. ASSUME NEW s \in Hilos \ {t} PROVE HechasDe(s)'
      BY <1>1, <1>2, <1>5, OtroHilo DEF IInv, LlamadasHechas
    <2>2. \A k \in 1..MaxLlamadas :
            <<t, k>> \in DOMAIN llamada' <=> k <= hilo[t].n \/ k = hilo[t].n + 1
      BY <1>2 DEF IInv, LlamadasHechas, HechasDe
    <2>3. hilo[t].n \in 0..MaxLlamadas
      BY DEF IInv, TypeOK
    <2>4. \A k \in 1..MaxLlamadas : <<t, k>> \in DOMAIN llamada' <=> k <= hilo'[t].n
      BY <2>2, <2>3, <1>5
    <2>5. Actual(t)' = id
      BY <1>5 DEF Actual
    <2>6. c.envios = 0
      BY DEF c
    <2>7. HechasDe(t)'
      BY <2>4, <2>5, <2>6, <1>2, <1>4 DEF HechasDe
    <2>8. QED
      BY <2>1, <2>7 DEF LlamadasHechas
  <1>8. RespuestasCiertas' /\ ExitoImpreso'
    BY <1>2, <1>4 DEF IInv, RespuestasCiertas, ExitoImpreso, procesar_peticion, red
  <1>9. QED
    BY <1>6, <1>7, <1>8 DEF IInv

(* A thread that sends, from the call or again. *)
LEMMA ConservaEnvio ==
  ASSUME IInv, NEW t \in Hilos, hilo[t].pc \in {"log", "clnt_call"}, Enviar(t),
         llamada[Actual(t)].envios < MaxEnvios,
         hilo' = [hilo EXCEPT ![t].pc = "clnt_call"],
         UNCHANGED <<respuestas, copias, demonio, caidas, salida>>
  PROVE  IInv'
  <1>1. /\ peticiones' \subseteq Peticiones
        /\ \A p \in peticiones' : p.id \in DOMAIN llamada
        /\ DOMAIN llamada' = DOMAIN llamada
        /\ \A id \in DOMAIN llamada :
             /\ llamada'[id] \in [envios : 0..MaxEnvios, ret : Retornos]
             /\ llamada'[id].ret = llamada[id].ret
    BY EnviarConserva
  <1>2. /\ hilo' \in [Hilos -> [pc : {"libre", "log", "clnt_call", "mutex"}, n : 0..MaxLlamadas]]
        /\ \A s \in Hilos : hilo'[s].n = hilo[s].n
        /\ \A s \in Hilos \ {t} : hilo'[s] = hilo[s]
        /\ hilo'[t].pc = "clnt_call"
    BY DEF IInv, TypeOK
  <1>3. TypeOK'
    BY <1>1, <1>2 DEF IInv, TypeOK
  <1>4. LlamadasHechas'
    <2>1. Actual(t) \in DOMAIN llamada /\ Actual(t)[1] = t
      BY ActualEsId DEF IInv
    <2>2. \A id \in DOMAIN llamada : id # Actual(t) => llamada'[id] = llamada[id]
      BY DEF Enviar, IInv, TypeOK
    <2>3. ASSUME NEW s \in Hilos \ {t} PROVE HechasDe(s)'
      BY <1>1, <1>2, <2>1, <2>2, OtroHilo DEF IInv, LlamadasHechas
    <2>4. Actual(t)' = Actual(t)
      BY <1>2 DEF Actual
    <2>5. HechasDe(t)'
      BY <1>1, <1>2, <2>1, <2>4 DEF IInv, LlamadasHechas, HechasDe
    <2>6. QED
      BY <2>3, <2>5 DEF LlamadasHechas
  <1>5. RespuestasCiertas' /\ ExitoImpreso'
    BY <1>1 DEF IInv, RespuestasCiertas, ExitoImpreso
  <1>6. QED
    BY <1>3, <1>4, <1>5 DEF IInv

LEMMA Conserva_log_rpc_operacion ==
  ASSUME IInv, NEW t \in Hilos, log_rpc_operacion(t)
  PROVE  IInv'
  <1>1. CASE Volver(t, "-1") /\ UNCHANGED peticiones
    BY <1>1, VolverConserva DEF log_rpc_operacion, En
  <1>2. CASE Enviar(t) /\ hilo' = [hilo EXCEPT ![t].pc = "clnt_call"]
    <2>1. llamada[Actual(t)].envios < MaxEnvios
      BY ConstantesLog DEF log_rpc_operacion, En, IInv, LlamadasHechas, HechasDe
    <2>2. QED
      BY <1>2, <2>1, ConservaEnvio DEF log_rpc_operacion, En
  <1>3. QED
    BY <1>1, <1>2 DEF log_rpc_operacion

LEMMA Conserva_reenviar ==
  ASSUME IInv, NEW t \in Hilos, reenviar(t)
  PROVE  IInv'
  <1>1. llamada[Actual(t)].envios < MaxEnvios /\ Enviar(t) /\ hilo[t].pc = "clnt_call"
    BY DEF reenviar, En
  <1>2. hilo' = [hilo EXCEPT ![t].pc = "clnt_call"]
    BY <1>1 DEF reenviar, IInv, TypeOK
  <1>3. QED
    BY <1>1, <1>2, ConservaEnvio DEF reenviar

LEMMA ConservaVuelta ==
  ASSUME IInv, NEW t \in Hilos, recibir(t) \/ vencer(t) \/ rechazada(t)
  PROVE  IInv'
  <1>1. CASE recibir(t)
    <2>1. Actual(t) \in Impresas
      BY <1>1 DEF recibir, IInv, RespuestasCiertas
    <2>2. QED
      BY <1>1, <2>1, VolverConserva DEF recibir, En, red
  <1>2. CASE vencer(t)
    BY <1>2, VolverConserva DEF vencer, En, red
  <1>3. CASE rechazada(t)
    BY <1>3, VolverConserva DEF rechazada, En, red
  <1>4. QED
    BY <1>1, <1>2, <1>3

LEMMA Conserva_operar ==
  ASSUME IInv, NEW t \in Hilos, operar(t)
  PROVE  IInv'
  <1>1. /\ hilo' \in [Hilos -> [pc : {"libre", "log", "clnt_call", "mutex"}, n : 0..MaxLlamadas]]
        /\ \A s \in Hilos : hilo'[s].n = hilo[s].n
        /\ \A s \in Hilos \ {t} : hilo'[s] = hilo[s]
        /\ hilo'[t].pc = "libre"
    BY DEF operar, IInv, TypeOK
  <1>2. UNCHANGED <<llamada, peticiones, respuestas, copias, demonio, caidas, salida>>
    BY DEF operar, red
  <1>3. TypeOK'
    BY <1>1, <1>2 DEF IInv, TypeOK
  <1>4. LlamadasHechas'
    BY <1>1, <1>2 DEF IInv, LlamadasHechas, HechasDe, Actual
  <1>5. RespuestasCiertas' /\ ExitoImpreso'
    BY <1>2 DEF IInv, RespuestasCiertas, ExitoImpreso
  <1>6. QED
    BY <1>3, <1>4, <1>5 DEF IInv

LEMMA Conserva_log_rpc_prog_1 ==
  ASSUME IInv, NEW p \in peticiones, log_rpc_prog_1(p)
  PROVE  IInv'
  <1>1. p.id \in Id /\ p.id \in DOMAIN llamada
    BY DEF IInv, TypeOK, Peticiones, RespuestasCiertas
  <1>2. salida' \in Seq(Id) /\ Impresas' = Impresas \cup {p.id}
    BY <1>1, ImprimirAnade DEF log_rpc_prog_1, IInv, TypeOK
  <1>3. UNCHANGED <<hilo, llamada, respuestas, copias, caidas>>
    BY DEF log_rpc_prog_1, servidor
  <1>4. demonio' = Respondiendo(p.id) /\ peticiones' \subseteq peticiones
    BY DEF log_rpc_prog_1
  <1>5. TypeOK'
    BY <1>1, <1>2, <1>3, <1>4 DEF IInv, TypeOK
  <1>6. LlamadasHechas'
    BY <1>3 DEF IInv, LlamadasHechas, HechasDe, Actual
  <1>7. RespuestasCiertas' /\ ExitoImpreso'
    BY <1>1, <1>2, <1>3, <1>4 DEF IInv, RespuestasCiertas, ExitoImpreso, Respondiendo
  <1>8. QED
    BY <1>5, <1>6, <1>7 DEF IInv

(* The daemon that answers, starts or crashes, and the network. *)
LEMMA ConservaEntorno ==
  ASSUME IInv, svc_sendreply \/ arrancar \/ caer \/ perder
  PROVE  IInv'
  <1>1. UNCHANGED <<hilo, llamada, copias, salida>>
    BY DEF svc_sendreply, arrancar, caer, perder, servidor, red
  <1>2. peticiones' \subseteq peticiones
    BY DEF svc_sendreply, arrancar, caer, perder, red
  <1>3. /\ respuestas' \subseteq Id
        /\ respuestas' \subseteq Impresas
    <2>1. demonio.pc = "svc_sendreply" => demonio.id \in Id
      BY DEF IInv, TypeOK, Respondiendo, SVC_RUN, Parado
    <2>2. QED
      BY <2>1 DEF IInv, TypeOK, RespuestasCiertas, svc_sendreply, arrancar, caer, perder, red
  <1>4. demonio' \in {demonio, SVC_RUN, Parado} /\ caidas' \in 0..MaxCaidas
    BY ConstantesLog DEF svc_sendreply, arrancar, caer, perder, IInv, TypeOK
  <1>5. TypeOK'
    BY <1>1, <1>2, <1>3, <1>4 DEF IInv, TypeOK
  <1>6. LlamadasHechas'
    BY <1>1 DEF IInv, LlamadasHechas, HechasDe, Actual
  <1>7. RespuestasCiertas' /\ ExitoImpreso'
    BY <1>1, <1>2, <1>3, <1>4 DEF IInv, RespuestasCiertas, ExitoImpreso, SVC_RUN, Parado
  <1>8. QED
    BY <1>5, <1>6, <1>7 DEF IInv

LEMMA Conserva_duplicar ==
  ASSUME IInv, NEW p \in peticiones, duplicar(p)
  PROVE  IInv'
  <1> DEFINE q == [p EXCEPT !.copia = copias[p.id] + 1]
  <1>1. p \in Peticiones /\ p.id \in Id /\ p.id \in DOMAIN llamada
    BY DEF IInv, TypeOK, Peticiones, RespuestasCiertas
  <1>2. copias' \in [Id -> Nat] /\ copias'[p.id] = copias[p.id] + 1
    BY <1>1 DEF duplicar, IInv, TypeOK
  <1>3. q \in Peticiones /\ q.id = p.id
    BY <1>1, <1>2 DEF Peticiones, IInv, TypeOK
  <1>4. peticiones' = peticiones \cup {q}
    BY <1>2 DEF duplicar
  <1> HIDE DEF q
  <1>5. UNCHANGED <<hilo, llamada, respuestas, demonio, caidas, salida>>
    BY DEF duplicar, servidor
  <1>6. TypeOK'
    BY <1>2, <1>3, <1>4, <1>5 DEF IInv, TypeOK
  <1>7. LlamadasHechas'
    BY <1>5 DEF IInv, LlamadasHechas, HechasDe, Actual
  <1>8. RespuestasCiertas' /\ ExitoImpreso'
    BY <1>1, <1>3, <1>4, <1>5 DEF IInv, RespuestasCiertas, ExitoImpreso
  <1>9. QED
    BY <1>6, <1>7, <1>8 DEF IInv

LEMMA ConservaNada ==
  ASSUME IInv, UNCHANGED vars
  PROVE  IInv'
  BY DEF vars, IInv, TypeOK, LlamadasHechas, HechasDe, RespuestasCiertas, ExitoImpreso, Actual

LEMMA ConservaPaso ==
  ASSUME IInv, NEW t \in Hilos, Paso(t)
  PROVE  IInv'
  BY Conserva_log_rpc_operacion, Conserva_reenviar, ConservaVuelta, Conserva_operar DEF Paso

(* The inductive invariant holds in every reachable state. *)
THEOREM Invariante == Spec => []IInv
  <1>1. ASSUME IInv, [Next]_vars PROVE IInv'
    <2>1. CASE \E t \in Hilos : procesar_peticion(t)
      BY <1>1, <2>1, Conserva_procesar_peticion
    <2>2. CASE \E t \in Hilos : Paso(t)
      BY <1>1, <2>2, ConservaPaso
    <2>3. CASE \E p \in peticiones : log_rpc_prog_1(p)
      BY <1>1, <2>3, Conserva_log_rpc_prog_1
    <2>4. CASE svc_sendreply \/ arrancar \/ caer \/ perder
      BY <1>1, <2>4, ConservaEntorno
    <2>5. CASE \E p \in peticiones : duplicar(p)
      BY <1>1, <2>5, Conserva_duplicar
    <2>6. CASE UNCHANGED vars
      BY <1>1, <2>6, ConservaNada
    <2>7. QED
      BY <1>1, <2>1, <2>2, <2>3, <2>4, <2>5, <2>6 DEF Next, EsperaEnAccept
  <1>2. QED
    BY Inicio, <1>1, PTL DEF Spec

(* A call that returned 0 is in the log: log_rpc_client.h:13. *)
THEOREM ExitoSiempreImpreso == Spec => []ExitoImpreso
  <1>1. IInv => ExitoImpreso
    BY DEF IInv
  <1>2. QED
    BY Invariante, <1>1, PTL
-----------------------------------------------------------------------------
(***************************************************************************)
(* How often a line is printed.                                            *)
(***************************************************************************)
(* The places of a call in the log are finitely many, and one more when    *)
(* its line is printed again.                                              *)
LEMMA VecesAlImprimir ==
  ASSUME salida \in Seq(Id), NEW id \in Id
  PROVE  /\ Veces(id) \in Nat
         /\ \A e \in Id : registrar_operacion_1_svc(e)
                            => Veces(id)' = IF id = e THEN Veces(id) + 1 ELSE Veces(id)
  <1> DEFINE lineas == {i \in DOMAIN salida : salida[i] = id}
             n == Len(salida)
  <1>1. n \in Nat /\ DOMAIN salida = 1..n
    BY LenProperties
  <1>2. IsFiniteSet(lineas) /\ Cardinality(lineas) \in Nat
    <2>1. IsFiniteSet(1..n)
      BY <1>1, FS_Interval
    <2>2. lineas \subseteq 1..n
      BY <1>1
    <2>3. IsFiniteSet(lineas)
      BY <2>1, <2>2, FS_Subset
    <2>4. QED
      BY <2>3, FS_CardinalityType
  <1>3. ASSUME NEW e \in Id, registrar_operacion_1_svc(e)
        PROVE  Veces(id)' = IF id = e THEN Veces(id) + 1 ELSE Veces(id)
    <2>1. salida' \in Seq(Id) /\ Len(salida') = n + 1
      BY <1>3, AppendProperties DEF registrar_operacion_1_svc
    <2>2. \A i \in 1..n : salida'[i] = salida[i]
      BY <1>3, AppendProperties DEF registrar_operacion_1_svc
    <2>3. salida'[n + 1] = e
      BY <1>3, AppendProperties DEF registrar_operacion_1_svc
    <2>4. DOMAIN salida' = 1..(n + 1)
      BY <2>1, LenProperties
    <2>5. n + 1 \notin lineas
      BY <1>1
    <2>6. {i \in DOMAIN salida' : salida'[i] = id}
            = IF id = e THEN lineas \cup {n + 1} ELSE lineas
      <3>1. \A i : i \in DOMAIN salida' <=> i \in 1..n \/ i = n + 1
        BY <1>1, <2>4
      <3>2. QED
        BY <1>1, <2>2, <2>3, <3>1
    <2> HIDE DEF lineas
    <2>7. Cardinality(lineas \cup {n + 1}) = Cardinality(lineas) + 1
      BY <1>2, <2>5, FS_AddElement
    <2>8. QED
      BY <2>6, <2>7 DEF Veces, lineas
  <1>4. QED
    BY <1>2, <1>3 DEF Veces

(* Fewer datagrams are not more of those of one call. *)
LEMMA MenosEnVuelo ==
  ASSUME NEW P, IsFiniteSet(P), NEW Q, Q \subseteq P, NEW id
  PROVE  /\ IsFiniteSet(Q)
         /\ Cardinality({p \in P : p.id = id}) \in Nat
         /\ Cardinality({p \in Q : p.id = id}) \in Nat
         /\ Cardinality({p \in Q : p.id = id}) <= Cardinality({p \in P : p.id = id})
  <1> DEFINE deP == {p \in P : p.id = id}
             deQ == {p \in Q : p.id = id}
  <1>1. deQ \subseteq deP /\ deP \subseteq P
    OBVIOUS
  <1>2. IsFiniteSet(deP) /\ IsFiniteSet(Q)
    BY <1>1, FS_Subset
  <1>3. IsFiniteSet(deQ) /\ Cardinality(deQ) <= Cardinality(deP)
    BY <1>1, <1>2, FS_Subset
  <1>4. Cardinality(deP) \in Nat /\ Cardinality(deQ) \in Nat
    BY <1>2, <1>3, FS_CardinalityType
  <1>5. QED
    BY <1>2, <1>3, <1>4

LEMMA EnviosTipo ==
  ASSUME TypeOK, NEW id
  PROVE  Envios(id) \in Nat
  BY ConstantesLog DEF TypeOK, Envios

LEMMA DatagramasTipo ==
  ASSUME TypeOK, NEW id \in Id
  PROVE  Datagramas(id) \in Nat
  BY EnviosTipo DEF TypeOK, Datagramas

(* A step that neither prints nor sends, and does not forget what was sent. *)
LEMMA SinEnviarNiImprimir ==
  ASSUME IInv, IInv', CadaLineaUnDatagrama, salida' = salida, peticiones' \subseteq peticiones,
         copias' = copias,
         \A id \in Id : Envios(id) <= Envios(id)'
  PROVE  CadaLineaUnDatagrama'
  <1> SUFFICES ASSUME NEW id \in Id
               PROVE  Veces(id)' + Cardinality({p \in peticiones' : p.id = id}) <= Datagramas(id)'
    BY MenosEnVuelo DEF CadaLineaUnDatagrama
  <1>1. Veces(id)' = Veces(id) /\ Veces(id) \in Nat
    BY VecesAlImprimir DEF IInv, TypeOK, Veces
  <1>2. /\ Cardinality({p \in peticiones : p.id = id}) \in Nat
        /\ Cardinality({p \in peticiones' : p.id = id}) \in Nat
        /\ Cardinality({p \in peticiones' : p.id = id})
             <= Cardinality({p \in peticiones : p.id = id})
    BY MenosEnVuelo DEF CadaLineaUnDatagrama
  <1>3. Envios(id) \in Nat /\ Envios(id)' \in Nat /\ copias[id] \in Nat /\ copias'[id] \in Nat
    BY EnviosTipo DEF IInv, TypeOK, Envios
  <1>4. QED
    BY <1>1, <1>2, <1>3 DEF CadaLineaUnDatagrama, Datagramas

(* A datagram more on its way, one more of those of its call. *)
LEMMA UnDatagramaMas ==
  ASSUME IInv, CadaLineaUnDatagrama, NEW p, peticiones' = peticiones \cup {p},
         \A id \in Id : Datagramas(id)' = IF id = p.id THEN Datagramas(id) + 1 ELSE Datagramas(id),
         salida' = salida
  PROVE  CadaLineaUnDatagrama'
  <1>1. IsFiniteSet(peticiones')
    BY FS_AddElement DEF CadaLineaUnDatagrama
  <1>2. ASSUME NEW id \in Id
        PROVE  Veces(id)' + Cardinality({q \in peticiones' : q.id = id}) <= Datagramas(id)'
    <2> DEFINE antes == {q \in peticiones : q.id = id}
    <2>1. Veces(id)' = Veces(id) /\ Veces(id) \in Nat /\ Datagramas(id) \in Nat
      BY VecesAlImprimir, DatagramasTipo DEF IInv, TypeOK, Veces
    <2>2. IsFiniteSet(antes) /\ Cardinality(antes) \in Nat
      <3>1. antes \subseteq peticiones
        OBVIOUS
      <3>2. QED
        BY <3>1, FS_Subset, FS_CardinalityType DEF CadaLineaUnDatagrama
    <2>3. Veces(id) + Cardinality(antes) <= Datagramas(id)
      BY DEF CadaLineaUnDatagrama
    <2>4. CASE id = p.id
      <3>1. {q \in peticiones' : q.id = id} = antes \cup {p}
        BY <2>4
      <3> HIDE DEF antes
      <3>2. Cardinality(antes \cup {p})
              = IF p \in antes THEN Cardinality(antes) ELSE Cardinality(antes) + 1
        BY <2>2, FS_AddElement
      <3>3. Cardinality(antes \cup {p}) \in Nat
        BY <2>2, FS_AddElement, FS_CardinalityType
      <3>4. Cardinality(antes \cup {p}) <= Cardinality(antes) + 1
        BY <2>2, <3>2
      <3>5. Cardinality({q \in peticiones' : q.id = id}) = Cardinality(antes \cup {p})
        BY <3>1, Zenon
      <3>6. Datagramas(id)' = Datagramas(id) + 1
        BY <2>4
      <3>7. QED
        BY <2>1, <2>2, <2>3, <3>3, <3>4, <3>5, <3>6
    <2>5. CASE id # p.id
      <3>1. {q \in peticiones' : q.id = id} = antes
        BY <2>5
      <3>2. Datagramas(id)' = Datagramas(id)
        BY <2>5
      <3>3. QED
        BY <2>1, <2>3, <3>1, <3>2
    <2>6. QED
      BY <2>4, <2>5
  <1>3. QED
    BY <1>1, <1>2 DEF CadaLineaUnDatagrama

(* The library sends. *)
LEMMA EnviarSumaUno ==
  ASSUME IInv, CadaLineaUnDatagrama, NEW t \in Hilos, hilo[t].pc # "libre", Enviar(t),
         UNCHANGED <<copias, salida>>
  PROVE  CadaLineaUnDatagrama'
  <1> DEFINE p == [id |-> Actual(t), envio |-> llamada[Actual(t)].envios + 1, copia |-> 0]
  <1>1. Actual(t) \in Id /\ Actual(t) \in DOMAIN llamada
    BY ActualEsId DEF IInv
  <1>2. peticiones' = peticiones \cup {p} /\ p.id = Actual(t)
    BY DEF Enviar
  <1> HIDE DEF p
  <1>3. \A id \in Id : Envios(id)' = IF id = Actual(t) THEN Envios(id) + 1 ELSE Envios(id)
    BY <1>1 DEF Enviar, Envios, IInv, TypeOK
  <1>4. \A id \in Id : Envios(id) \in Nat /\ copias[id] \in Nat
    BY EnviosTipo DEF IInv, TypeOK
  <1>5. \A id \in Id : Datagramas(id)' = IF id = p.id THEN Datagramas(id) + 1 ELSE Datagramas(id)
    BY <1>2, <1>3, <1>4 DEF Datagramas
  <1>6. QED
    BY <1>2, <1>5, UnDatagramaMas

(* The network duplicates. *)
LEMMA DuplicarSumaUno ==
  ASSUME IInv, CadaLineaUnDatagrama, NEW p \in peticiones, duplicar(p)
  PROVE  CadaLineaUnDatagrama'
  <1> DEFINE q == [p EXCEPT !.copia = copias'[p.id]]
  <1>1. p \in Peticiones /\ p.id \in Id
    BY DEF IInv, TypeOK, Peticiones
  <1>2. peticiones' = peticiones \cup {q} /\ q.id = p.id
    BY <1>1 DEF duplicar, Peticiones
  <1> HIDE DEF q
  <1>3. \A id \in Id : copias'[id] = IF id = p.id THEN copias[id] + 1 ELSE copias[id]
    BY <1>1 DEF duplicar, IInv, TypeOK
  <1>4. \A id \in Id : Envios(id)' = Envios(id) /\ Envios(id) \in Nat /\ copias[id] \in Nat
    BY EnviosTipo DEF duplicar, servidor, Envios, IInv, TypeOK
  <1>5. \A id \in Id : Datagramas(id)' = IF id = q.id THEN Datagramas(id) + 1 ELSE Datagramas(id)
    BY <1>2, <1>3, <1>4 DEF Datagramas
  <1>6. salida' = salida
    BY DEF duplicar
  <1>7. QED
    BY <1>2, <1>5, <1>6, UnDatagramaMas

(* The daemon prints: one line more, of a datagram that is not there again. *)
LEMMA ImprimirGastaUno ==
  ASSUME IInv, CadaLineaUnDatagrama, NEW p \in peticiones, log_rpc_prog_1(p)
  PROVE  CadaLineaUnDatagrama'
  <1>1. p.id \in Id
    BY DEF IInv, TypeOK, Peticiones
  <1>2. peticiones' = peticiones \ {p} /\ IsFiniteSet(peticiones')
    BY FS_RemoveElement DEF log_rpc_prog_1, CadaLineaUnDatagrama
  <1>3. ASSUME NEW id \in Id
        PROVE  Veces(id)' + Cardinality({q \in peticiones' : q.id = id}) <= Datagramas(id)'
    <2> DEFINE antes == {q \in peticiones : q.id = id}
    <2>1. /\ Veces(id) \in Nat
          /\ Veces(id)' = IF id = p.id THEN Veces(id) + 1 ELSE Veces(id)
      BY <1>1, VecesAlImprimir DEF IInv, TypeOK, log_rpc_prog_1
    <2>2. Datagramas(id)' = Datagramas(id) /\ Datagramas(id) \in Nat
      BY DatagramasTipo DEF log_rpc_prog_1, servidor, Envios, Datagramas, IInv
    <2>3. IsFiniteSet(antes) /\ Cardinality(antes) \in Nat
      <3>1. antes \subseteq peticiones
        OBVIOUS
      <3>2. QED
        BY <3>1, FS_Subset, FS_CardinalityType DEF CadaLineaUnDatagrama
    <2>4. Veces(id) + Cardinality(antes) <= Datagramas(id)
      BY DEF CadaLineaUnDatagrama
    <2>5. CASE id = p.id
      <3>1. {q \in peticiones' : q.id = id} = antes \ {p} /\ p \in antes
        BY <1>2, <2>5
      <3> HIDE DEF antes
      <3>2. Cardinality(antes \ {p}) = Cardinality(antes) - 1
        BY <2>3, <3>1, FS_RemoveElement
      <3>3. Cardinality({q \in peticiones' : q.id = id}) = Cardinality(antes) - 1
        BY <3>1, <3>2
      <3>4. Veces(id)' = Veces(id) + 1
        BY <2>1, <2>5
      <3>5. QED
        BY <2>1, <2>2, <2>3, <2>4, <3>3, <3>4
    <2>6. CASE id # p.id
      <3>1. {q \in peticiones' : q.id = id} = antes
        BY <1>2, <2>6
      <3>2. QED
        BY <2>1, <2>2, <2>4, <2>6, <3>1
    <2>7. QED
      BY <2>5, <2>6
  <1>4. QED
    BY <1>2, <1>3 DEF CadaLineaUnDatagrama

LEMMA PasoCuenta ==
  ASSUME IInv, IInv', CadaLineaUnDatagrama, NEW t \in Hilos, Paso(t)
  PROVE  CadaLineaUnDatagrama'
  <1>1. CASE hilo[t].pc # "libre" /\ Enviar(t) /\ UNCHANGED <<copias, salida>>
    BY <1>1, EnviarSumaUno
  <1>2. CASE \E r \in {"0", "-1"} : hilo[t].pc # "libre" /\ Volver(t, r)
             /\ UNCHANGED <<peticiones, copias, salida>>
    <2>1. Actual(t) \in DOMAIN llamada
      BY <1>2, ActualEsId DEF IInv
    <2>2. \A id \in Id : Envios(id)' = Envios(id) /\ Envios(id) \in Nat
      BY <1>2, <2>1, EnviosTipo DEF Volver, Envios, IInv, TypeOK
    <2>3. \A id \in Id : Envios(id) <= Envios(id)'
      BY <2>2
    <2>4. QED
      BY <1>2, <2>3, SinEnviarNiImprimir
  <1>3. CASE operar(t)
    <2>1. \A id \in Id : Envios(id) <= Envios(id)'
      BY <1>3, EnviosTipo DEF operar, Envios, IInv
    <2>2. QED
      BY <1>3, <2>1, SinEnviarNiImprimir DEF operar, red
  <1>4. QED
    BY <1>1, <1>2, <1>3 DEF Paso, log_rpc_operacion, reenviar, recibir, vencer, rechazada,
                            En, red

(* However often a request is sent again, lost, duplicated or answered     *)
(* twice, each line in the log stands for one datagram that the library    *)
(* sent or the network duplicated (log_rpc_client.c:58,                    *)
(* log_rpc_server.c:19).                                                   *)
THEOREM LineasContadas == Spec => []CadaLineaUnDatagrama
  <1>1. Init => CadaLineaUnDatagrama
    <2> SUFFICES ASSUME Init, NEW id \in Id
                 PROVE  Veces(id) + Cardinality({p \in peticiones : p.id = id}) <= Datagramas(id)
      BY FS_EmptySet DEF CadaLineaUnDatagrama, Init
    <2>1. /\ {i \in DOMAIN salida : salida[i] = id} = {}
          /\ {p \in peticiones : p.id = id} = {}
          /\ peticiones = {} /\ Datagramas(id) = 0
      BY DEF Init, Envios, Datagramas
    <2>2. QED
      BY <2>1, FS_EmptySet DEF Veces
  <1>2. ASSUME IInv, IInv', CadaLineaUnDatagrama, [Next]_vars PROVE CadaLineaUnDatagrama'
    <2>1. CASE \E t \in Hilos : procesar_peticion(t)
      <3>1. PICK t \in Hilos : procesar_peticion(t)
        BY <2>1
      <3>2. <<t, hilo[t].n + 1>> \notin DOMAIN llamada
        BY <1>2, <3>1, LlamadaNueva DEF procesar_peticion, En
      <3>3. \A id \in Id : Envios(id)' = Envios(id) /\ Envios(id) \in Nat
        BY <1>2, <3>1, <3>2, EnviosTipo DEF procesar_peticion, Envios, IInv
      <3>4. \A id \in Id : Envios(id) <= Envios(id)'
        BY <3>3
      <3>5. QED
        BY <1>2, <3>1, <3>4, SinEnviarNiImprimir DEF procesar_peticion, red
    <2>2. CASE \E t \in Hilos : Paso(t)
      BY <1>2, <2>2, PasoCuenta
    <2>3. CASE \E p \in peticiones : log_rpc_prog_1(p)
      BY <1>2, <2>3, ImprimirGastaUno
    <2>4. CASE svc_sendreply \/ arrancar \/ caer \/ perder \/ UNCHANGED vars
      <3>1. peticiones' \subseteq peticiones /\ UNCHANGED <<llamada, copias, salida>>
        BY <2>4 DEF svc_sendreply, arrancar, caer, perder, servidor, red, vars
      <3>2. \A id \in Id : Envios(id) <= Envios(id)'
        BY <1>2, <3>1, EnviosTipo DEF Envios, IInv
      <3>3. QED
        BY <1>2, <3>1, <3>2, SinEnviarNiImprimir
    <2>5. CASE \E p \in peticiones : duplicar(p)
      BY <1>2, <2>5, DuplicarSumaUno
    <2>6. QED
      BY <1>2, <2>1, <2>2, <2>3, <2>4, <2>5 DEF Next, EsperaEnAccept
  <1>3. QED
    BY Invariante, <1>1, <1>2, PTL DEF Spec

-----------------------------------------------------------------------------
(***************************************************************************)
(* The server's threads, the network and the daemon implement AuditStore.  *)
(***************************************************************************)
(* Calls that have returned or not, and nothing else, is what it sees. *)
LEMMA MismoRetorno ==
  ASSUME DOMAIN llamada' = DOMAIN llamada,
         \A id \in DOMAIN llamada : llamada'[id].ret = llamada[id].ret
  PROVE  Retorno' = Retorno
  BY DEF Retorno

LEMMA VolverImplementa ==
  ASSUME IInv, NEW t \in Hilos, hilo[t].pc \in {"log", "clnt_call"},
         NEW r \in {"0", "-1"}, Volver(t, r), r = "0" => Actual(t) \in Impresas,
         UNCHANGED salida
  PROVE  \E id \in Id : Promesa!Volver(id)
  <1>1. /\ Actual(t) \in Id
        /\ Actual(t) \in DOMAIN llamada
        /\ llamada[Actual(t)].ret = "pendiente"
    BY ActualEsId DEF IInv, LlamadasHechas, HechasDe
  <1>2. Retorno[Actual(t)] = "pendiente"
    BY <1>1 DEF Retorno
  <1>3. llamada' = [llamada EXCEPT ![Actual(t)].ret = r]
    BY DEF Volver
  <1>4. /\ DOMAIN llamada' = DOMAIN llamada
        /\ \A id \in DOMAIN llamada :
             llamada'[id].ret = IF id = Actual(t) THEN r ELSE llamada[id].ret
    BY <1>1, <1>3 DEF IInv, TypeOK
  <1>5. Retorno' = [Retorno EXCEPT ![Actual(t)] = r]
    BY <1>1, <1>4 DEF Retorno
  <1>6. Promesa!Volver(Actual(t))
    BY <1>2, <1>5 DEF Promesa!Volver
  <1>7. QED
    BY <1>1, <1>6

LEMMA EnviarNoSeVe ==
  ASSUME IInv, NEW t \in Hilos, hilo[t].pc # "libre", Enviar(t)
  PROVE  Retorno' = Retorno
  <1>1. Actual(t) \in DOMAIN llamada
    BY ActualEsId DEF IInv
  <1>2. /\ DOMAIN llamada' = DOMAIN llamada
        /\ \A id \in DOMAIN llamada : llamada'[id].ret = llamada[id].ret
    BY <1>1 DEF Enviar, IInv, TypeOK
  <1>3. QED
    BY <1>2, MismoRetorno

LEMMA LlamarImplementa ==
  ASSUME IInv, NEW t \in Hilos, procesar_peticion(t)
  PROVE  \E id \in Id : Promesa!Llamar(id)
  <1> DEFINE id == <<t, hilo[t].n + 1>>
             c == [envios |-> 0, ret |-> "pendiente"]
  <1>1. id \in Id /\ id \notin DOMAIN llamada
    BY LlamadaNueva DEF procesar_peticion, En
  <1>2. c.ret = "pendiente"
    OBVIOUS
  <1>3. llamada' = [i \in DOMAIN llamada \cup {id} |-> IF i = id THEN c ELSE llamada[i]]
    BY DEF procesar_peticion
  <1> HIDE DEF c
  <1>4. Retorno' = [Retorno EXCEPT ![id] = "pendiente"]
    BY <1>1, <1>2, <1>3 DEF Retorno
  <1>5. Retorno[id] = "sin hacer"
    BY <1>1 DEF Retorno
  <1>6. Promesa!Llamar(id)
    BY <1>4, <1>5 DEF Promesa!Llamar, procesar_peticion
  <1>7. QED
    BY <1>1, <1>6

LEMMA ImprimirImplementa ==
  ASSUME IInv, NEW p \in peticiones, log_rpc_prog_1(p)
  PROVE  \E id \in Id : Promesa!Imprimir(id)
  <1>1. p.id \in Id /\ p.id \in DOMAIN llamada
    BY DEF IInv, TypeOK, Peticiones, RespuestasCiertas
  <1>2. Retorno[p.id] # "sin hacer"
    BY <1>1 DEF Retorno, IInv, TypeOK, Retornos
  <1>3. UNCHANGED Retorno
    BY MismoRetorno DEF log_rpc_prog_1, servidor
  <1>4. Promesa!Imprimir(p.id)
    BY <1>2, <1>3 DEF Promesa!Imprimir, log_rpc_prog_1, registrar_operacion_1_svc
  <1>5. QED
    BY <1>1, <1>4

LEMMA PasoImplementa ==
  ASSUME IInv, NEW t \in Hilos, Paso(t)
  PROVE  Promesa!Next \/ UNCHANGED <<Retorno, salida>>
  <1>1. CASE log_rpc_operacion(t) /\ Volver(t, "-1")
    BY <1>1, VolverImplementa DEF log_rpc_operacion, En, Promesa!Next
  <1>2. CASE log_rpc_operacion(t) /\ Enviar(t)
    BY <1>2, EnviarNoSeVe DEF log_rpc_operacion, En
  <1>3. CASE reenviar(t)
    BY <1>3, EnviarNoSeVe DEF reenviar, En
  <1>4. CASE recibir(t)
    BY <1>4, VolverImplementa DEF recibir, En, IInv, RespuestasCiertas, Promesa!Next
  <1>5. CASE vencer(t)
    BY <1>5, VolverImplementa DEF vencer, En, Promesa!Next
  <1>6. CASE rechazada(t)
    BY <1>6, VolverImplementa DEF rechazada, En, Promesa!Next
  <1>7. CASE operar(t)
    BY <1>7, MismoRetorno DEF operar
  <1>8. QED
    BY <1>1, <1>2, <1>3, <1>4, <1>5, <1>6, <1>7 DEF Paso, log_rpc_operacion

(* The audit log keeps the promise of AuditStore, and no handler can tell  *)
(* it from a log that prints when it likes and returns 0 only afterwards.  *)
THEOREM Refinamiento == Spec => PromesaSpec
  <1>1. Init => Promesa!Init
    BY DEF Init, Promesa!Init, Retorno
  <1>2. ASSUME IInv, [Next]_vars PROVE [Promesa!Next]_<<Retorno, salida>>
    <2>1. CASE \E t \in Hilos : procesar_peticion(t)
      BY <1>2, <2>1, LlamarImplementa DEF Promesa!Next
    <2>2. CASE \E t \in Hilos : Paso(t)
      BY <1>2, <2>2, PasoImplementa
    <2>3. CASE \E p \in peticiones : log_rpc_prog_1(p)
      BY <1>2, <2>3, ImprimirImplementa DEF Promesa!Next
    <2>4. CASE svc_sendreply \/ arrancar \/ caer \/ perder \/ \E p \in peticiones : duplicar(p)
      BY <2>4, MismoRetorno DEF svc_sendreply, arrancar, caer, perder, duplicar, servidor
    <2>5. CASE UNCHANGED vars
      BY <2>5, MismoRetorno DEF vars
    <2>6. QED
      BY <1>2, <2>1, <2>2, <2>3, <2>4, <2>5 DEF Next, EsperaEnAccept
  <1>3. QED
    BY Invariante, <1>1, <1>2, PTL DEF Spec, PromesaSpec, Promesa!Spec
=============================================================================
