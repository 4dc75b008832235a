------------------------ MODULE ClientSessionProofs ------------------------
(***************************************************************************)
(* The invariant of a client's session is inductive: for any users, ports, *)
(* number of sessions, of connections and of requests given up, and        *)
(* whatever the threads of the client, the server and the other clients    *)
(* do between one write of the command thread and the next.                *)
(***************************************************************************)
EXTENDS ClientSessionProperties, SequenceTheorems, TLAPS

(* What TypeOK does not say. *)
Sesion == SesionCoherente /\ DireccionAlDia /\ MandoSabe /\ PeticionEnCurso

Cuentas == [Nombres -> Puertos \cup {Otra, SinDir, Ausente}]

Clientes == [is_connected : BOOLEAN, current_user : Nombres \cup {Ninguno},
             listen_sock : 0..MaxSesiones]

Zocalos(f) == f \in [Sesiones -> Zocalo] /\ \A s \in Sesiones : Len(f[s].cola) <= Cola

Conexion == [sock : Sesiones, suerte : {"en cola", "vista", "excepcion"}]

Pendientes == [Tarde -> Pendiente \cup {NoHay}]

Vivo(z) == z.estado \in {"creado", "abierto"}

LEMMA Ceros ==
  /\ 0 \in 0..MaxSesiones /\ 0 \in 0..MaxConexiones
  /\ 0 <= Cola /\ 0 <= MaxConexiones /\ 0 \notin Sesiones
  BY ConstantesCliente DEF Sesiones

LEMMA TipoSesion ==
  ASSUME IInv
  PROVE  /\ cuenta \in Cuentas /\ cliente \in Clientes /\ mando \in Mando
         /\ Zocalos(zocalo) /\ zocalo \in [Sesiones -> Zocalo]
         /\ escucha \in [Sesiones -> Hebra]
         /\ pendientes \in Pendientes /\ tardias \subseteq Nombres
         /\ Sesion
         /\ cliente.listen_sock # 0 => cliente.listen_sock \in Sesiones
         /\ 0 \notin Sesiones
  <1>1. /\ cuenta \in Cuentas /\ cliente \in Clientes /\ mando \in Mando
        /\ Zocalos(zocalo) /\ zocalo \in [Sesiones -> Zocalo]
        /\ escucha \in [Sesiones -> Hebra]
        /\ pendientes \in Pendientes /\ tardias \subseteq Nombres
        /\ Sesion
    BY DEF IInv, TypeOK, Zocalos, Sesion, Cuentas, Clientes, Pendientes
  <1>2. cliente.listen_sock \in 0..MaxSesiones
    BY <1>1 DEF Clientes
  <1>3. QED
    BY <1>1, <1>2, ConstantesCliente DEF Sesiones

LEMMA Historia ==
  ASSUME IInv
  PROVE  /\ avisos \subseteq [para : Nombres, puerto : Puertos]
         /\ recibidas \in Seq(Conexion)
         /\ Len(recibidas) <= MaxConexiones /\ EscuchasConSocket
  BY DEF IInv, TypeOK, Conexion

(* The rest of TypeOK, when it does not change. *)
LEMMA Junto ==
  ASSUME IInv, Sesion', EscuchasConSocket',
         cuenta' \in Cuentas, cliente' \in Clientes, mando' \in Mando,
         Zocalos(zocalo'), escucha' \in [Sesiones -> Hebra],
         avisos' \subseteq [para : Nombres, puerto : Puertos],
         recibidas' \in Seq(Conexion), Len(recibidas') <= MaxConexiones,
         pendientes' \in Pendientes, tardias' \subseteq Nombres
  PROVE  IInv'
  BY DEF IInv, TypeOK, Zocalos, Sesion, Cuentas, Clientes, Conexion, Pendientes

LEMMA UnZocalo ==
  ASSUME Zocalos(zocalo), NEW s \in Sesiones, NEW z \in Zocalo, Len(z.cola) <= Cola,
         zocalo' = [zocalo EXCEPT ![s] = z]
  PROVE  /\ Zocalos(zocalo') /\ zocalo'[s] = z
         /\ \A r \in Sesiones \ {s} : zocalo'[r] = zocalo[r]
  BY DEF Zocalos

LEMMA ZocaloTipo ==
  /\ SinCrear \in Zocalo /\ Len(SinCrear.cola) <= Cola /\ SinCrear.estado = "sin crear"
  /\ Creado \in Zocalo /\ Len(Creado.cola) <= Cola /\ Creado.estado = "creado"
  /\ Cerrado \in Zocalo /\ Len(Cerrado.cola) <= Cola /\ Cerrado.estado = "cerrado"
  /\ \A p \in Puertos : /\ Abierto(p) \in Zocalo /\ Len(Abierto(p).cola) <= Cola
                        /\ Abierto(p).estado = "abierto" /\ Abierto(p).puerto = p
  <1>1. <<>> \in Seq(1..MaxConexiones) /\ Len(<<>>) <= Cola
    BY EmptySeq, Ceros
  <1>2. QED
    BY <1>1 DEF SinCrear, Creado, Cerrado, Abierto, Zocalo
-----------------------------------------------------------------------------
(***************************************************************************)
(* The command thread's state.                                             *)
(***************************************************************************)
Peticiones == [pc : Puntos, op : {"CONNECT", "DISCONNECT", "UNREGISTER"},
               user : Nombres, exito : BOOLEAN]

LEMMA ShellTipo ==
  /\ Shell \in Mando /\ Shell.pc = "shell"
  /\ Fin \in Mando /\ Fin.pc = "fin"
  /\ \A p \in Parando \cup {"shell", "fin"} :
       Sin_peticion(p) \in Mando /\ Sin_peticion(p).pc = p
  <1>1. \A p \in Parando \cup {"shell", "fin"} :
          Sin_peticion(p) \in Mando /\ Sin_peticion(p).pc = p
    BY DEF Mando, Sin_peticion
  <1>2. QED
    BY <1>1 DEF Shell, Fin

LEMMA MandoDe ==
  ASSUME NEW m \in Mando, m.pc \in Puntos
  PROVE  m \in Peticiones
  <1>1. \A p \in Parando \cup {"shell", "fin"} : p \notin Puntos
    BY DEF Puntos, Parando
  <1>2. \A p \in Parando \cup {"shell", "fin"} : m # Sin_peticion(p)
    BY <1>1, ShellTipo
  <1>3. QED
    BY <1>2 DEF Mando, Peticiones

LEMMA PeticionNueva ==
  ASSUME NEW punto \in Puntos, NEW op \in {"CONNECT", "DISCONNECT", "UNREGISTER"},
         NEW u \in Nombres
  PROVE  [pc |-> punto, op |-> op, user |-> u, exito |-> FALSE] \in Peticiones
  BY DEF Peticiones

LEMMA MandoPide ==
  ASSUME NEW m \in Peticiones, NEW punto \in Puntos
  PROVE  /\ m \in Mando
         /\ [m EXCEPT !.pc = punto] \in Mando /\ [m EXCEPT !.pc = punto].pc = punto
         /\ [m EXCEPT !.pc = punto].op = m.op /\ [m EXCEPT !.pc = punto].user = m.user
  <1>1. Peticiones \subseteq Mando
    BY DEF Mando, Peticiones
  <1>2. [m EXCEPT !.pc = punto] \in Peticiones
    BY DEF Peticiones
  <1>3. QED
    BY <1>1, <1>2 DEF Peticiones

-----------------------------------------------------------------------------
(***************************************************************************)
(* The listener threads' state.                                            *)
(***************************************************************************)
LEMMA UnaHebra ==
  ASSUME escucha \in [Sesiones -> Hebra], NEW t \in Sesiones, NEW h \in Hebra,
         escucha' = [escucha EXCEPT ![t] = h]
  PROVE  /\ escucha' \in [Sesiones -> Hebra] /\ escucha'[t] = h
         /\ \A r \in Sesiones \ {t} : escucha'[r] = escucha[r]
  OBVIOUS

LEMMA HebraTipo ==
  ASSUME NEW h \in Hebra, NEW punto \in {"while", "accept", "servir"},
         NEW c \in 0..MaxConexiones
  PROVE  /\ [h EXCEPT !.pc = punto, !.conn = c] \in Hebra
         /\ [h EXCEPT !.pc = punto, !.conn = c].sock = h.sock
  BY DEF Hebra

LEMMA IdaTipo == Ida \in Hebra /\ Ida.pc = "fin"
  BY Ceros DEF Ida, SinHilo, Hebra

LEMMA EscuchasIguales ==
  ASSUME EscuchasConSocket, UNCHANGED escucha
  PROVE  EscuchasConSocket'
  BY DEF EscuchasConSocket

(* A thread with h instead of its state. *)
LEMMA HebraCambia ==
  ASSUME IInv, NEW t \in Sesiones, NEW h \in Hebra, h.pc \in {"while", "accept", "servir"} => h.sock # 0,
         escucha' = [escucha EXCEPT ![t] = h]
  PROVE  escucha' \in [Sesiones -> Hebra] /\ EscuchasConSocket'
  <1>1. /\ escucha' \in [Sesiones -> Hebra] /\ escucha'[t] = h
        /\ \A r \in Sesiones \ {t} : escucha'[r] = escucha[r]
    BY TipoSesion, UnaHebra
  <1>2. QED
    BY <1>1, Historia DEF EscuchasConSocket

LEMMA HebraTermina ==
  ASSUME IInv, NEW t \in Sesiones, Termina(t)
  PROVE  escucha' \in [Sesiones -> Hebra] /\ EscuchasConSocket'
  BY HebraCambia, IdaTipo DEF Termina

(* A listener that goes from one point to another. *)
LEMMA HebraVa ==
  ASSUME IInv, NEW t \in Sesiones, NEW punto \in {"while", "accept"},
         A(t, punto), escucha[t].pc \in {"while", "accept", "servir"}
  PROVE  escucha' \in [Sesiones -> Hebra] /\ EscuchasConSocket'
  <1> DEFINE h == [escucha[t] EXCEPT !.pc = punto]
  <1>1. escucha[t] \in Hebra /\ escucha \in [Sesiones -> Hebra] /\ escucha[t].sock # 0
    BY TipoSesion, Historia DEF EscuchasConSocket
  <1>2. h \in Hebra /\ h.sock = escucha[t].sock
    BY <1>1 DEF Hebra
  <1>3. escucha' = [escucha EXCEPT ![t] = h]
    BY <1>1 DEF A
  <1> HIDE DEF h
  <1>4. QED
    BY <1>1, <1>2, <1>3, HebraCambia

LEMMA PrimeroYResto ==
  ASSUME NEW c \in Seq(1..MaxConexiones), c # <<>>, Len(c) <= Cola
  PROVE  /\ Head(c) \in 1..MaxConexiones
         /\ Tail(c) \in Seq(1..MaxConexiones) /\ Len(Tail(c)) <= Cola
  <1>1. /\ Head(c) \in 1..MaxConexiones /\ Tail(c) \in Seq(1..MaxConexiones)
        /\ Len(Tail(c)) = Len(c) - 1 /\ Len(c) \in Nat
    BY HeadTailProperties, LenProperties
  <1>2. QED
    BY <1>1, ConstantesCliente
-----------------------------------------------------------------------------
(***************************************************************************)
(* The ways in which the session changes.                                  *)
(***************************************************************************)
(* Steps of the rest: the sockets of this client stay as they are, and an  *)
(* account gets one of its ports only from a request given up.             *)
LEMMA SesionIgual ==
  ASSUME IInv, UNCHANGED <<cliente, mando>>,
         \A s \in Sesiones : Vivo(zocalo[s]) \/ Vivo(zocalo'[s]) =>
           zocalo'[s].estado = zocalo[s].estado /\ zocalo'[s].puerto = zocalo[s].puerto,
         \A u \in Nombres : u \notin tardias' /\ cuenta'[u] \in Puertos =>
           u \notin tardias /\ cuenta'[u] = cuenta[u]
  PROVE  Sesion'
  <1> DEFINE s == cliente.listen_sock
  <1>1. Suyos' = Suyos
    BY DEF Suyos, Vivo
  <1>2. /\ s # 0 => s \in Sesiones
        /\ (s # 0 /\ Vivo(zocalo[s])) => (/\ zocalo'[s].estado = zocalo[s].estado
                                         /\ zocalo'[s].puerto = zocalo[s].puerto)
        /\ (s # 0 /\ Vivo(zocalo'[s])) => (/\ Vivo(zocalo[s])
                                          /\ zocalo'[s].estado = zocalo[s].estado)
    BY TipoSesion DEF Vivo
  <1>3. SesionCoherente'
    BY <1>1, <1>2, TipoSesion
    DEF Sesion, SesionCoherente, Vivo, EnReposo, Concuerdan
  <1>4. MandoSabe'
    BY <1>1, <1>2, TipoSesion DEF Sesion, MandoSabe, Vivo, Concuerdan
  <1>5. DireccionAlDia'
    <2>1. cliente.current_user # Ninguno =>
            \/ s # 0 /\ Vivo(zocalo[s]) /\ cliente.current_user \in Nombres
            \/ mando.pc = "stop_none"
      BY TipoSesion DEF Sesion, MandoSabe, Suyos, Vivo, Clientes
    <2>2. mando.pc = "stop_none" => cliente.current_user = Ninguno
      BY TipoSesion DEF Sesion, MandoSabe
    <2>3. QED
      BY <1>2, <2>1, <2>2, TipoSesion DEF Sesion, DireccionAlDia
  <1>6. PeticionEnCurso'
    <2>1. mando.pc = "recv" /\ mando.op = "CONNECT" => s # 0 /\ Vivo(zocalo[s])
      BY TipoSesion DEF Sesion, MandoSabe, SesionCoherente, Vivo
    <2>2. mando.pc = "recv" => mando.user \in Nombres
      BY TipoSesion, MandoDe DEF Puntos, Peticiones
    <2>3. QED
      BY <1>2, <2>1, <2>2, TipoSesion DEF Sesion, PeticionEnCurso
  <1>7. QED
    BY <1>3, <1>4, <1>5, <1>6 DEF Sesion

(* Steps of the command thread that leave the server alone. *)
LEMMA MandoSigue ==
  ASSUME IInv, UNCHANGED <<cuenta, avisos, recibidas, tardias>>,
         cliente' \in Clientes, mando' \in Mando, Zocalos(zocalo'),
         escucha' \in [Sesiones -> Hebra], EscuchasConSocket',
         pendientes' \in Pendientes, SesionCoherente', MandoSabe',
         \/ cliente'.current_user = Ninguno
         \/ /\ cliente'.current_user = cliente.current_user
            /\ cliente'.listen_sock = cliente.listen_sock
            /\ UNCHANGED zocalo,
         mando'.pc # "recv"
  PROVE  IInv'
  <1>1. DireccionAlDia'
    BY TipoSesion DEF Sesion, DireccionAlDia
  <1>2. PeticionEnCurso'
    BY DEF PeticionEnCurso
  <1>3. Sesion'
    BY <1>1, <1>2 DEF Sesion
  <1>4. QED
    BY <1>3, Junto, TipoSesion, Historia
-----------------------------------------------------------------------------
(***************************************************************************)
(* The command thread.                                                     *)
(***************************************************************************)
LEMMA pedir_Conserva ==
  ASSUME IInv, NEW u \in Nombres, connect(u) \/ unregister(u) \/ disconnect(u)
  PROVE  IInv'
  <1>1. /\ UNCHANGED <<cuenta, avisos, recibidas, cliente, zocalo, escucha, pendientes, tardias>>
        /\ mando = Shell
    BY DEF connect, unregister, disconnect, Pedir
  <1>2. \/ /\ mando' = [pc |-> "socket", op |-> "CONNECT", user |-> u, exito |-> FALSE]
           /\ ~cliente.is_connected
        \/ mando' = [pc |-> "peticion", op |-> "UNREGISTER", user |-> u, exito |-> FALSE]
        \/ mando' = [pc |-> "peticion", op |-> "DISCONNECT", user |-> u, exito |-> FALSE]
    BY DEF connect, unregister, disconnect, Pedir
  <1>3. mando' \in Mando /\ mando'.pc \in {"socket", "peticion"}
    <2>1. "socket" \in Puntos /\ "peticion" \in Puntos
      BY DEF Puntos
    <2>2. mando' \in Peticiones
      BY <1>2, <2>1, PeticionNueva
    <2>3. Peticiones \subseteq Mando
      BY DEF Peticiones, Mando
    <2>4. QED
      BY <1>2, <2>2, <2>3
  <1>4. Concuerdan /\ mando.pc = "shell"
    BY <1>1, ShellTipo, TipoSesion DEF Sesion, SesionCoherente, EnReposo
  <1>5. Suyos' = Suyos
    BY <1>1 DEF Suyos
  <1>6. SesionCoherente'
    BY <1>1, <1>3, <1>5, TipoSesion DEF Sesion, SesionCoherente, EnReposo
  <1>7. MandoSabe'
    <2>1. CASE ~cliente.is_connected
      BY <1>1, <1>2, <1>4, <1>5, <2>1, TipoSesion
      DEF Sesion, MandoSabe, Concuerdan, Puntos
    <2>2. CASE mando'.pc = "peticion" /\ mando'.op # "CONNECT"
      BY <1>1, <1>4, <1>5, <2>2, TipoSesion DEF Sesion, MandoSabe, Concuerdan
    <2>3. QED
      BY <1>2, <2>1, <2>2
  <1>8. EscuchasConSocket'
    BY <1>1, EscuchasIguales, Historia
  <1>9. QED
    BY <1>1, <1>3, <1>6, <1>7, <1>8, MandoSigue, TipoSesion

(* What connect() writes, one write at a time. *)
LEMMA crear_Conserva ==
  ASSUME IInv, preparar_escucha, mando.pc = "socket"
  PROVE  IInv'
  <1>1. /\ UNCHANGED <<cuenta, avisos, recibidas, escucha, pendientes, tardias>>
        /\ mando' = [mando EXCEPT !.pc = "bind"]
    BY DEF preparar_escucha, A_continuacion
  <1>2. PICK n \in Sesiones :
          /\ zocalo[n].estado = "sin crear"
          /\ zocalo' = [zocalo EXCEPT ![n] = Creado]
          /\ cliente' = [cliente EXCEPT !.listen_sock = n]
    BY DEF preparar_escucha
  <1>3. mando' \in Mando /\ mando'.pc = "bind" /\ mando'.op = mando.op /\ mando.op = "CONNECT"
    BY <1>1, TipoSesion, MandoDe, MandoPide DEF Puntos, Sesion, MandoSabe
  <1>4. /\ Zocalos(zocalo') /\ zocalo'[n] = Creado
        /\ \A r \in Sesiones \ {n} : zocalo'[r] = zocalo[r]
    BY <1>2, ZocaloTipo, UnZocalo, TipoSesion
  <1>5. ~cliente.is_connected /\ cliente.current_user = Ninguno /\ Suyos = {}
    BY TipoSesion DEF Sesion, SesionCoherente, MandoSabe, Puntos, Suyos
  <1>6. /\ cliente' \in Clientes /\ cliente'.listen_sock = n
        /\ cliente'.is_connected = cliente.is_connected
        /\ cliente'.current_user = cliente.current_user
    <2>1. n \in 0..MaxSesiones
      BY ConstantesCliente DEF Sesiones
    <2>2. QED
      BY <1>2, <2>1, TipoSesion DEF Clientes
  <1>7. Suyos' = {n}
    BY <1>4, <1>5, ZocaloTipo DEF Suyos
  <1>8. SesionCoherente' /\ MandoSabe'
    BY <1>3, <1>5, <1>6, <1>7, TipoSesion DEF SesionCoherente, MandoSabe, EnReposo, Puntos
  <1>9. EscuchasConSocket'
    BY <1>1, EscuchasIguales, Historia
  <1>10. QED
    BY <1>1, <1>3, <1>4, <1>5, <1>6, <1>8, <1>9, MandoSigue, TipoSesion

LEMMA bind_Conserva ==
  ASSUME IInv, preparar_escucha, mando.pc = "bind"
  PROVE  IInv'
  <1> DEFINE s == cliente.listen_sock
  <1>1. /\ UNCHANGED <<cuenta, avisos, recibidas, escucha, pendientes, tardias, cliente>>
        /\ mando' = [mando EXCEPT !.pc = "is_connected"]
    BY DEF preparar_escucha, A_continuacion
  <1>2. PICK p \in Puertos : zocalo' = [zocalo EXCEPT ![s] = Abierto(p)]
    BY DEF preparar_escucha
  <1>3. /\ mando' \in Mando /\ mando'.pc = "is_connected" /\ mando'.op = mando.op
        /\ mando.op = "CONNECT"
    BY <1>1, TipoSesion, MandoDe, MandoPide DEF Puntos, Sesion, MandoSabe
  <1>4. s \in Sesiones /\ s # 0
    BY TipoSesion DEF Sesion, MandoSabe
  <1>5. /\ Zocalos(zocalo') /\ zocalo'[s] = Abierto(p)
        /\ \A r \in Sesiones \ {s} : zocalo'[r] = zocalo[r]
    <2> DEFINE z == Abierto(p)
    <2>1. z \in Zocalo /\ Len(z.cola) <= Cola /\ zocalo' = [zocalo EXCEPT ![s] = z]
      BY <1>2, ZocaloTipo
    <2> HIDE DEF z
    <2>2. QED
      BY <1>4, <2>1, UnZocalo, TipoSesion DEF z
  <1>6. ~cliente.is_connected /\ cliente.current_user = Ninguno /\ Suyos \subseteq {s}
    BY TipoSesion DEF Sesion, SesionCoherente, MandoSabe, Puntos
  <1>7. Suyos' = {s}
    BY <1>4, <1>5, <1>6, ZocaloTipo DEF Suyos
  <1>8. SesionCoherente' /\ MandoSabe'
    BY <1>1, <1>3, <1>4, <1>5, <1>6, <1>7, ZocaloTipo
    DEF SesionCoherente, MandoSabe, EnReposo, Puntos
  <1>9. EscuchasConSocket'
    BY <1>1, EscuchasIguales, Historia
  <1>10. QED
    BY <1>1, <1>3, <1>5, <1>6, <1>8, <1>9, MandoSigue, TipoSesion

LEMMA conectado_Conserva ==
  ASSUME IInv, preparar_escucha, mando.pc = "is_connected"
  PROVE  IInv'
  <1>1. /\ UNCHANGED <<cuenta, avisos, recibidas, escucha, pendientes, tardias, zocalo>>
        /\ mando' = [mando EXCEPT !.pc = "start"]
        /\ cliente' = [cliente EXCEPT !.is_connected = TRUE]
    BY DEF preparar_escucha, A_continuacion
  <1>2. mando' \in Mando /\ mando'.pc = "start" /\ mando'.op = mando.op /\ mando.op = "CONNECT"
    BY <1>1, TipoSesion, MandoDe, MandoPide DEF Puntos, Sesion, MandoSabe
  <1>3. /\ cliente' \in Clientes /\ cliente'.is_connected
        /\ cliente'.listen_sock = cliente.listen_sock
        /\ cliente'.current_user = cliente.current_user
    BY <1>1, TipoSesion DEF Clientes
  <1>4. cliente.listen_sock # 0 /\ cliente.current_user = Ninguno
    BY TipoSesion DEF Sesion, MandoSabe, Puntos
  <1>5. zocalo[cliente.listen_sock].estado = "abierto"
    BY <1>4, TipoSesion DEF Sesion, MandoSabe, Suyos
  <1>6. Suyos' = Suyos
    BY <1>1 DEF Suyos
  <1>7. SesionCoherente' /\ MandoSabe'
    BY <1>1, <1>2, <1>3, <1>4, <1>5, <1>6, TipoSesion
    DEF Sesion, SesionCoherente, MandoSabe, EnReposo, Puntos
  <1>8. EscuchasConSocket'
    BY <1>1, EscuchasIguales, Historia
  <1>9. QED
    BY <1>1, <1>2, <1>3, <1>4, <1>7, <1>8, MandoSigue, TipoSesion

LEMMA start_Conserva ==
  ASSUME IInv, preparar_escucha, mando.pc = "start"
  PROVE  IInv'
  <1> DEFINE s == cliente.listen_sock
             h == [escucha[s] EXCEPT !.pc = "nuevo"]
  <1>1. /\ UNCHANGED <<cuenta, avisos, recibidas, pendientes, tardias, zocalo, cliente>>
        /\ mando' = [mando EXCEPT !.pc = "peticion"]
        /\ escucha' = [escucha EXCEPT ![s].pc = "nuevo"]
    BY DEF preparar_escucha, A_continuacion
  <1>2. /\ mando' \in Mando /\ mando'.pc = "peticion" /\ mando'.op = mando.op
        /\ mando.op = "CONNECT"
    BY <1>1, TipoSesion, MandoDe, MandoPide DEF Puntos, Sesion, MandoSabe
  <1>3. cliente.is_connected /\ cliente.current_user = Ninguno
    BY <1>2, TipoSesion DEF Sesion, MandoSabe, Puntos
  <1>4. s \in Sesiones /\ s # 0
    BY <1>3, TipoSesion DEF Sesion, SesionCoherente
  <1>5. Suyos' = Suyos
    BY <1>1 DEF Suyos
  <1>6. SesionCoherente' /\ MandoSabe'
    BY <1>1, <1>2, <1>3, <1>4, <1>5, TipoSesion
    DEF Sesion, SesionCoherente, MandoSabe, EnReposo, Concuerdan, Puntos
  <1>7. escucha' \in [Sesiones -> Hebra] /\ EscuchasConSocket'
    <2>1. escucha[s] \in Hebra /\ escucha' = [escucha EXCEPT ![s] = h]
      BY <1>1, <1>4, TipoSesion
    <2>2. h \in Hebra /\ h.pc = "nuevo"
      BY <2>1 DEF Hebra
    <2> HIDE DEF h
    <2>3. QED
      BY <1>4, <2>1, <2>2, HebraCambia
  <1>8. QED
    BY <1>1, <1>2, <1>6, <1>7, MandoSigue, TipoSesion

LEMMA preparar_Conserva ==
  ASSUME IInv, preparar_escucha
  PROVE  IInv'
  <1>1. mando.pc \in {"socket", "bind", "is_connected", "start"}
    BY DEF preparar_escucha
  <1>2. QED
    BY <1>1, crear_Conserva, bind_Conserva, conectado_Conserva, start_Conserva

(* The writes of _stop_listener. *)
LEMMA desconectado_Conserva ==
  ASSUME IInv, _stop_listener, mando.pc \in {"stop", "stop_user"}
  PROVE  IInv'
  <1>1. /\ UNCHANGED <<cuenta, avisos, recibidas, escucha, pendientes, tardias, zocalo>>
        /\ \/ /\ mando.pc = "stop" /\ mando' = Sin_peticion("stop_user")
              /\ cliente' = [cliente EXCEPT !.is_connected = FALSE]
           \/ /\ mando.pc = "stop_user" /\ mando' = Sin_peticion("stop_close")
              /\ cliente' = [cliente EXCEPT !.current_user = Ninguno]
    BY DEF _stop_listener, Parar
  <1>2. /\ mando' \in Mando
        /\ mando'.pc = (IF mando.pc = "stop" THEN "stop_user" ELSE "stop_close")
    BY <1>1, ShellTipo DEF Parando
  <1>3. /\ cliente' \in Clientes /\ ~cliente'.is_connected
        /\ cliente'.listen_sock = cliente.listen_sock
        /\ cliente'.current_user =
             (IF mando.pc = "stop" THEN cliente.current_user ELSE Ninguno)
    BY <1>1, TipoSesion DEF Clientes, Sesion, MandoSabe
  <1>4. Suyos' = Suyos
    BY <1>1 DEF Suyos
  <1>5. SesionCoherente' /\ MandoSabe'
    BY <1>1, <1>2, <1>3, <1>4, TipoSesion
    DEF Sesion, SesionCoherente, MandoSabe, EnReposo, Puntos
  <1>6. EscuchasConSocket'
    BY <1>1, EscuchasIguales, Historia
  <1>7. QED
    BY <1>1, <1>2, <1>3, <1>5, <1>6, MandoSigue, TipoSesion

LEMMA cerrado_Conserva ==
  ASSUME IInv, _stop_listener, mando.pc = "stop_close", cliente.listen_sock # 0
  PROVE  IInv'
  <1> DEFINE s == cliente.listen_sock
             z == [zocalo[s] EXCEPT !.estado = "cerrandose"]
  <1>1. /\ UNCHANGED <<cuenta, avisos, recibidas, escucha, pendientes, tardias, cliente>>
        /\ mando' = Sin_peticion("stop_none")
    BY DEF _stop_listener, Parar
  <1>2. mando' \in Mando /\ mando'.pc = "stop_none"
    BY <1>1, ShellTipo DEF Parando
  <1>3. /\ s \in Sesiones /\ zocalo[s] \in Zocalo /\ zocalo \in [Sesiones -> Zocalo]
        /\ Len(zocalo[s].cola) <= Cola
    BY TipoSesion DEF Zocalos
  <1>4. z \in Zocalo /\ Len(z.cola) <= Cola /\ z.estado = "cerrandose"
    BY <1>3 DEF Zocalo
  <1>5. zocalo' = [zocalo EXCEPT ![s] = Cerrado] \/ zocalo' = [zocalo EXCEPT ![s] = z]
    BY <1>3 DEF _stop_listener
  <1> HIDE DEF z
  <1>6. /\ Zocalos(zocalo') /\ zocalo'[s].estado \in {"cerrado", "cerrandose"}
        /\ \A r \in Sesiones \ {s} : zocalo'[r] = zocalo[r]
    BY <1>3, <1>4, <1>5, ZocaloTipo, UnZocalo, TipoSesion
  <1>7. /\ ~cliente.is_connected /\ cliente.current_user = Ninguno
        /\ Suyos \subseteq {s}
    BY TipoSesion DEF Sesion, SesionCoherente, MandoSabe
  <1>8. Suyos' = {}
    BY <1>6, <1>7 DEF Suyos
  <1>9. SesionCoherente' /\ MandoSabe'
    BY <1>1, <1>2, <1>6, <1>7, <1>8 DEF SesionCoherente, MandoSabe, EnReposo, Puntos
  <1>10. EscuchasConSocket'
    BY <1>1, EscuchasIguales, Historia
  <1>11. QED
    BY <1>1, <1>2, <1>6, <1>7, <1>9, <1>10, MandoSigue, TipoSesion

(* The last one, or nothing to close. *)
LEMMA parado_Conserva ==
  ASSUME IInv, _stop_listener,
         mando.pc = "stop_none" \/ (mando.pc = "stop_close" /\ cliente.listen_sock = 0)
  PROVE  IInv'
  <1>1. /\ UNCHANGED <<cuenta, avisos, recibidas, escucha, pendientes, tardias, zocalo>>
        /\ mando' = Shell
        /\ \/ cliente' = [cliente EXCEPT !.listen_sock = 0]
           \/ cliente' = cliente /\ cliente.listen_sock = 0
    BY DEF _stop_listener
  <1>2. mando' \in Mando /\ mando'.pc = "shell"
    BY <1>1, ShellTipo
  <1>3. /\ cliente' \in Clientes /\ ~cliente'.is_connected
        /\ cliente'.listen_sock = 0 /\ cliente'.current_user = Ninguno
    BY <1>1, TipoSesion, Ceros DEF Clientes, Sesion, MandoSabe
  <1>4. Suyos = {}
    BY TipoSesion DEF Sesion, SesionCoherente, MandoSabe, Suyos
  <1>5. Suyos' = Suyos
    BY <1>1 DEF Suyos
  <1>6. SesionCoherente' /\ MandoSabe'
    BY <1>2, <1>3, <1>4, <1>5 DEF SesionCoherente, MandoSabe, EnReposo, Concuerdan, Puntos
  <1>7. EscuchasConSocket'
    BY <1>1, EscuchasIguales, Historia
  <1>8. QED
    BY <1>1, <1>2, <1>3, <1>6, <1>7, MandoSigue, TipoSesion

LEMMA parar_Conserva ==
  ASSUME IInv, _stop_listener
  PROVE  IInv'
  <1>1. mando.pc \in Parando
    BY DEF _stop_listener, Parando
  <1>2. QED
    BY <1>1, desconectado_Conserva, cerrado_Conserva, parado_Conserva DEF Parando

(* The command is over, or _stop_listener begins, and only the request     *)
(* may live on.                                                            *)
LEMMA volver_Conserva ==
  ASSUME IInv, mando.pc \in Puntos,
         \/ mando' = Sin_peticion("stop")
         \/ mando' = Shell /\ mando.pc \in {"peticion", "recv"},
         UNCHANGED <<cuenta, cliente, zocalo, escucha, avisos, recibidas, tardias>>,
         pendientes' \in Pendientes
  PROVE  IInv'
  <1>1. mando' \in Mando /\ mando'.pc \in {"shell", "stop"}
    BY ShellTipo DEF Parando
  <1>2. mando'.pc = "shell" => Concuerdan
    BY <1>1, ShellTipo, TipoSesion DEF Sesion, MandoSabe, Parando
  <1>3. Suyos' = Suyos
    BY DEF Suyos
  <1>4. SesionCoherente' /\ MandoSabe'
    BY <1>1, <1>2, <1>3, TipoSesion
    DEF Sesion, SesionCoherente, MandoSabe, EnReposo, Concuerdan, Puntos
  <1>5. EscuchasConSocket'
    BY EscuchasIguales, Historia
  <1>6. QED
    BY <1>1, <1>4, <1>5, MandoSigue, TipoSesion

LEMMA PuertoPropioTipo ==
  ASSUME IInv
  PROVE  PuertoPropio \in Puertos \cup {Otra}
  BY TipoSesion DEF PuertoPropio, Zocalo

LEMMA AbandonarTipo ==
  ASSUME IInv, Abandonar
  PROVE  pendientes' \in Pendientes
  <1>1. CASE UNCHANGED pendientes
    BY <1>1, TipoSesion
  <1>2. CASE mando.pc = "peticion" /\ ~UNCHANGED pendientes
    <2>1. PICK i \in Tarde :
            pendientes' = [pendientes EXCEPT ![i] =
              [user |-> mando.user, puerto |-> PuertoPropio]]
      BY <1>2 DEF Abandonar
    <2>2. mando.user \in Nombres
      BY <1>2, TipoSesion, MandoDe DEF Puntos, Peticiones
    <2>3. [user |-> mando.user, puerto |-> PuertoPropio] \in Pendiente
      BY <2>2, PuertoPropioTipo DEF Pendiente
    <2>4. QED
      BY <2>1, <2>3, TipoSesion DEF Pendientes
  <1>3. QED
    BY <1>1, <1>2 DEF Abandonar

LEMMA fallar_Conserva ==
  ASSUME IInv, fallar
  PROVE  IInv'
  <1>1. /\ mando.pc \in {"socket", "bind", "peticion", "recv"} /\ Abandonar
        /\ \/ mando' = Sin_peticion("stop")
           \/ mando' = Shell /\ mando.op = "UNREGISTER"
        /\ UNCHANGED <<cuenta, cliente, zocalo, escucha, avisos, recibidas, tardias>>
    BY DEF fallar, Parar
  <1>2. mando.pc \in {"socket", "bind"} => mando.op = "CONNECT"
    BY TipoSesion DEF Sesion, MandoSabe
  <1>3. mando.pc \in Puntos
    BY <1>1 DEF Puntos
  <1>4. QED
    BY <1>1, <1>2, <1>3, AbandonarTipo, volver_Conserva

LEMMA excepcion_Conserva ==
  ASSUME IInv, excepcion
  PROVE  IInv'
  <1>1. /\ mando.pc = "peticion" /\ mando.pc \in Puntos /\ mando' = Shell
        /\ UNCHANGED <<cuenta, cliente, zocalo, escucha, avisos, recibidas, tardias, pendientes>>
    BY DEF excepcion, Puntos
  <1>2. QED
    BY <1>1, volver_Conserva, TipoSesion

LEMMA recibir_Conserva ==
  ASSUME IInv, recibir
  PROVE  IInv'
  <1>1. /\ mando.pc = "recv" /\ mando.pc \in Puntos
        /\ UNCHANGED <<cuenta, zocalo, escucha, avisos, recibidas, pendientes, tardias>>
    BY DEF recibir, Puntos
  <1>2. CASE UNCHANGED cliente /\ (mando' = Sin_peticion("stop") \/ mando' = Shell)
    BY <1>1, <1>2, volver_Conserva, TipoSesion
  <1>3. CASE /\ mando.op = "CONNECT" /\ mando.exito /\ mando' = Shell
             /\ cliente' = [cliente EXCEPT !.current_user = mando.user]
    <2>1. mando.user \in Nombres
      BY <1>1, MandoDe, TipoSesion DEF Peticiones
    <2>2. /\ cliente' \in Clientes
          /\ cliente'.current_user = mando.user
          /\ cliente'.is_connected = cliente.is_connected
          /\ cliente'.listen_sock = cliente.listen_sock
      BY <1>3, <2>1, TipoSesion DEF Clientes
    <2>3. cliente.is_connected /\ cliente.listen_sock # 0
      BY <1>1, <1>3, TipoSesion DEF Sesion, SesionCoherente, MandoSabe
    <2>4. mando'.pc = "shell" /\ mando' \in Mando
      BY <1>3, ShellTipo
    <2>5. Suyos' = Suyos
      BY <1>1 DEF Suyos
    <2>6. SesionCoherente' /\ MandoSabe'
      BY <1>1, <2>2, <2>3, <2>4, <2>5, TipoSesion
      DEF Sesion, SesionCoherente, MandoSabe, EnReposo, Concuerdan, Puntos
    <2>7. DireccionAlDia' /\ PeticionEnCurso'
      BY <1>1, <1>3, <2>2, <2>4, TipoSesion DEF Sesion, DireccionAlDia, PeticionEnCurso
    <2>8. EscuchasConSocket'
      BY <1>1, EscuchasIguales, Historia
    <2>9. QED
      BY <1>1, <2>2, <2>4, <2>6, <2>7, <2>8, Junto, TipoSesion, Historia DEF Sesion
  <1>4. QED
    BY <1>2, <1>3 DEF recibir, Parar

LEMMA salir_Conserva ==
  ASSUME IInv, salir
  PROVE  IInv'
  <1>1. /\ mando' = Fin /\ cliente' = SinSesion /\ Abandonar
        /\ UNCHANGED <<cuenta, avisos, recibidas, tardias>>
        /\ zocalo' = [s \in Sesiones |-> IF zocalo[s] = SinCrear THEN SinCrear ELSE Cerrado]
        /\ escucha' = [t \in Sesiones |-> Ida]
    BY DEF salir
  <1>2. Zocalos(zocalo') /\ Suyos' = {}
    <2>1. \A s \in Sesiones : zocalo'[s] \in {SinCrear, Cerrado}
      BY <1>1
    <2>2. \A s \in Sesiones : /\ zocalo'[s] \in Zocalo /\ Len(zocalo'[s].cola) <= Cola
                              /\ zocalo'[s].estado \in {"sin crear", "cerrado"}
      BY <2>1, ZocaloTipo
    <2>3. Suyos' = {}
      BY <2>2 DEF Suyos
    <2>4. QED
      BY <1>1, <2>2, <2>3 DEF Zocalos
  <1>3. escucha' \in [Sesiones -> Hebra] /\ EscuchasConSocket'
    BY <1>1, IdaTipo DEF EscuchasConSocket
  <1>4. mando' \in Mando /\ mando'.pc = "fin"
    BY <1>1, ShellTipo
  <1>5. /\ cliente' \in Clientes /\ ~cliente'.is_connected
        /\ cliente'.current_user = Ninguno /\ cliente'.listen_sock = 0
    BY <1>1, Ceros DEF SinSesion, Clientes
  <1>6. SesionCoherente' /\ MandoSabe'
    BY <1>2, <1>4, <1>5 DEF SesionCoherente, MandoSabe, EnReposo, Concuerdan, Puntos
  <1>7. QED
    BY <1>1, <1>2, <1>3, <1>4, <1>5, <1>6, AbandonarTipo, MandoSigue
-----------------------------------------------------------------------------
(***************************************************************************)
(* The server.                                                             *)
(***************************************************************************)
(* A request gives a port of this client to nobody but the user of a       *)
(* CONNECT.                                                                *)
LEMMA EfectoTipo ==
  ASSUME IInv, NEW op \in {"CONNECT", "DISCONNECT", "UNREGISTER"}, NEW u \in Nombres,
         NEW p \in Puertos \cup {Otra}, Efecto(op, u, p)
  PROVE  /\ cuenta' \in Cuentas
         /\ \A v \in Nombres :
              cuenta'[v] \in Puertos =>
                \/ cuenta'[v] = cuenta[v]
                \/ v = u /\ op = "CONNECT" /\ cuenta[u] = SinDir /\ cuenta'[v] = p
         /\ op = "CONNECT" /\ Resultado(op, cuenta[u]) = 0 => cuenta'[u] = p
  <1>1. \/ UNCHANGED cuenta /\ Resultado(op, cuenta[u]) # 0
        \/ cuenta' = [cuenta EXCEPT ![u] = Ausente] /\ op = "UNREGISTER"
        \/ cuenta' = [cuenta EXCEPT ![u] = SinDir] /\ op = "DISCONNECT"
        \/ /\ cuenta' = [cuenta EXCEPT ![u] = p] /\ op = "CONNECT"
           /\ cuenta[u] = SinDir
    BY DEF Efecto, Servidor!UNREGISTER, Servidor!DISCONNECT, Servidor!CONNECT
  <1>2. SinDir \notin Puertos /\ Ausente \notin Puertos
    BY ConstantesCliente
  <1>3. cuenta \in Cuentas
    BY TipoSesion
  <1>4. QED
    BY <1>1, <1>2, <1>3 DEF Cuentas

(* Only a CONNECT gives out a port of this client, that of its socket, and *)
(* nobody is the current user then.                                        *)
LEMMA atender_Conserva ==
  ASSUME IInv, atender
  PROVE  IInv'
  <1> DEFINE u == mando.user
             e == Resultado(mando.op, cuenta[mando.user]) = 0
             T == IF mando.op = "CONNECT" /\ e THEN tardias \ {u} ELSE tardias
  <1>1. /\ mando.pc = "peticion" /\ mando' = [mando EXCEPT !.pc = "recv", !.exito = e]
        /\ UNCHANGED <<cliente, zocalo, escucha, avisos, recibidas, pendientes>>
        /\ tardias' = {v \in T : cuenta'[v] \in Puertos}
        /\ Efecto(mando.op, u, PuertoPropio)
    BY DEF atender, Recordar
  <1>2. mando \in Peticiones /\ u \in Nombres /\ mando.op \in {"CONNECT", "DISCONNECT", "UNREGISTER"}
    BY <1>1, MandoDe, TipoSesion DEF Puntos, Peticiones
  <1>3. /\ cuenta' \in Cuentas
        /\ \A v \in Nombres :
             cuenta'[v] \in Puertos =>
               \/ cuenta'[v] = cuenta[v]
               \/ v = u /\ mando.op = "CONNECT" /\ cuenta[u] = SinDir /\ cuenta'[v] = PuertoPropio
        /\ mando.op = "CONNECT" /\ Resultado(mando.op, cuenta[u]) = 0 => cuenta'[u] = PuertoPropio
    BY <1>1, <1>2, PuertoPropioTipo, EfectoTipo
  <1>4. mando.op = "CONNECT" /\ cuenta[u] = SinDir => e
    BY ConstantesCliente DEF Resultado
  <1>5. e \in BOOLEAN
    OBVIOUS
  <1>6. mando.op = "CONNECT" /\ e => cuenta'[u] = PuertoPropio
    BY <1>3
  <1> HIDE DEF e
  <1>7. /\ mando'.pc = "recv" /\ mando'.op = mando.op /\ mando'.user = u
        /\ mando'.exito = e /\ mando' \in Mando
    <2>1. mando' \in Peticiones /\ Peticiones \subseteq Mando
      BY <1>1, <1>2, <1>5 DEF Peticiones, Puntos, Mando
    <2>2. QED
      BY <1>1, <1>2, <2>1 DEF Peticiones
  <1>8. tardias' \subseteq Nombres
    BY <1>1, TipoSesion
  <1>9. Suyos' = Suyos
    BY <1>1 DEF Suyos
  <1>10. SesionCoherente' /\ MandoSabe'
    BY <1>1, <1>7, <1>9, TipoSesion
    DEF Sesion, SesionCoherente, MandoSabe, EnReposo, Concuerdan, Puntos
  <1>11. mando.op = "CONNECT" =>
           /\ cliente.current_user = Ninguno
           /\ PuertoPropio = zocalo[cliente.listen_sock].puerto
    BY <1>1, TipoSesion DEF Sesion, SesionCoherente, MandoSabe, Puntos, PuertoPropio
  <1>12. DireccionAlDia'
    <2>1. CASE mando.op = "CONNECT"
      BY <1>1, <1>11, <2>1 DEF DireccionAlDia
    <2>2. CASE mando.op # "CONNECT"
      <3>1. cliente.current_user # Ninguno => cliente.current_user \in Nombres
        BY TipoSesion DEF Clientes
      <3>2. T = tardias
        BY <2>2
      <3>3. \A v \in Nombres : v \notin tardias' /\ cuenta'[v] \in Puertos =>
              v \notin tardias /\ cuenta'[v] = cuenta[v]
        BY <1>1, <1>3, <2>2, <3>2
      <3>4. QED
        BY <1>1, <3>1, <3>3, TipoSesion DEF Sesion, DireccionAlDia
    <2>3. QED
      BY <2>1, <2>2
  <1>13. PeticionEnCurso'
    BY <1>1, <1>6, <1>7, <1>11 DEF PeticionEnCurso
  <1>14. EscuchasConSocket'
    BY <1>1, EscuchasIguales, Historia
  <1>15. QED
    BY <1>1, <1>3, <1>7, <1>8, <1>10, <1>12, <1>13, <1>14, Junto, TipoSesion, Historia
    DEF Sesion

(* The server changes accounts, and whoever gets a port of this client is  *)
(* in tardias.                                                             *)
LEMMA cuenta_Conserva ==
  ASSUME IInv, UNCHANGED <<cliente, mando, zocalo, escucha, recibidas>>,
         cuenta' \in Cuentas, avisos' \subseteq avisos, pendientes' \in Pendientes,
         NEW T \in SUBSET Nombres, tardias \subseteq T,
         tardias' = {v \in T : cuenta'[v] \in Puertos},
         \A v \in Nombres : cuenta'[v] \in Puertos => cuenta'[v] = cuenta[v] \/ v \in T
  PROVE  IInv'
  <1>1. \A v \in Nombres : v \notin tardias' /\ cuenta'[v] \in Puertos =>
          v \notin tardias /\ cuenta'[v] = cuenta[v]
    OBVIOUS
  <1>2. Sesion'
    BY <1>1, SesionIgual
  <1>3. EscuchasConSocket'
    BY EscuchasIguales, Historia
  <1>4. tardias' \subseteq Nombres
    OBVIOUS
  <1>5. QED
    BY <1>2, <1>3, <1>4, Junto, TipoSesion, Historia

LEMMA atender_tarde_Conserva ==
  ASSUME IInv, NEW i \in Tarde, atender_tarde(i)
  PROVE  IInv'
  <1> DEFINE q == pendientes[i]
             T == IF cuenta[q.user] = SinDir THEN tardias \cup {q.user} ELSE tardias
  <1>1. /\ UNCHANGED <<cliente, mando, zocalo, escucha, avisos, recibidas>>
        /\ q # NoHay /\ pendientes' = [pendientes EXCEPT ![i] = NoHay]
        /\ Efecto("CONNECT", q.user, q.puerto)
        /\ tardias' = {v \in T : cuenta'[v] \in Puertos}
    BY DEF atender_tarde, Recordar
  <1>2. q.user \in Nombres /\ q.puerto \in Puertos \cup {Otra}
    BY <1>1, TipoSesion DEF Pendientes, Pendiente
  <1>3. pendientes' \in Pendientes
    BY <1>1, TipoSesion DEF Pendientes
  <1>4. /\ cuenta' \in Cuentas
        /\ \A v \in Nombres :
             cuenta'[v] \in Puertos =>
               cuenta'[v] = cuenta[v] \/ (v = q.user /\ cuenta[q.user] = SinDir)
    BY <1>1, <1>2, EfectoTipo
  <1>5. T \in SUBSET Nombres /\ tardias \subseteq T
    BY <1>2, TipoSesion
  <1>6. \A v \in Nombres : cuenta'[v] \in Puertos => cuenta'[v] = cuenta[v] \/ v \in T
    BY <1>4
  <1> HIDE DEF T
  <1>7. QED
    BY <1>1, <1>3, <1>4, <1>5, <1>6, cuenta_Conserva
-----------------------------------------------------------------------------
(***************************************************************************)
(* The listener threads.                                                   *)
(***************************************************************************)
(* A thread moves and no socket changes. *)
LEMMA hebra_Conserva ==
  ASSUME IInv, UNCHANGED <<cuenta, cliente, mando, zocalo, avisos, pendientes, tardias>>,
         escucha' \in [Sesiones -> Hebra], EscuchasConSocket',
         recibidas' \in Seq(Conexion), Len(recibidas') <= MaxConexiones
  PROVE  IInv'
  <1>1. Sesion'
    BY SesionIgual
  <1>2. QED
    BY <1>1, Junto, TipoSesion, Historia

LEMMA listener_Conserva ==
  ASSUME IInv, NEW t \in Sesiones, _listener_thread(t)
  PROVE  IInv'
  <1> DEFINE s == cliente.listen_sock
             h == [escucha[t] EXCEPT !.pc = "while", !.sock = s]
  <1>1. UNCHANGED <<cuenta, cliente, mando, zocalo, avisos, recibidas, pendientes, tardias>>
    BY DEF _listener_thread
  <1>2. escucha' \in [Sesiones -> Hebra] /\ EscuchasConSocket'
    <2>1. CASE Termina(t)
      BY <2>1, HebraTermina
    <2>2. CASE ~Termina(t)
      <3>1. s \in Suyos /\ escucha' = [escucha EXCEPT ![t].pc = "while", ![t].sock = s]
        BY <2>2 DEF _listener_thread
      <3>2. s # 0 /\ s \in 0..MaxSesiones
        BY <3>1, TipoSesion DEF Suyos, Clientes
      <3>3. escucha[t] \in Hebra /\ escucha' = [escucha EXCEPT ![t] = h]
        BY <3>1, TipoSesion
      <3>4. h \in Hebra /\ h.sock = s
        BY <3>2, <3>3 DEF Hebra
      <3> HIDE DEF h
      <3>5. QED
        BY <3>2, <3>3, <3>4, HebraCambia
    <2>3. QED
      BY <2>1, <2>2
  <1>3. QED
    BY <1>1, <1>2, hebra_Conserva, Historia

LEMMA comprobar_Conserva ==
  ASSUME IInv, NEW t \in Sesiones, comprobar(t)
  PROVE  IInv'
  <1>1. escucha' \in [Sesiones -> Hebra] /\ EscuchasConSocket'
    BY HebraVa, HebraTermina DEF comprobar, En
  <1>2. QED
    BY <1>1, hebra_Conserva, Historia DEF comprobar

(* The socket that a thread in accept() has. *)
LEMMA ZocaloDe ==
  ASSUME IInv, NEW t \in Sesiones, escucha[t].pc = "accept"
  PROVE  /\ escucha[t].sock \in Sesiones
         /\ zocalo[escucha[t].sock] \in Zocalo
         /\ Len(zocalo[escucha[t].sock].cola) <= Cola
  <1>1. escucha[t].sock # 0 /\ escucha[t].sock \in 0..MaxSesiones
    BY TipoSesion, Historia DEF EscuchasConSocket, Hebra
  <1>2. escucha[t].sock \in Sesiones
    BY <1>1, ConstantesCliente DEF Sesiones
  <1>3. QED
    BY <1>2, TipoSesion DEF Zocalos

LEMMA DejarConserva ==
  ASSUME IInv, NEW t \in Sesiones, escucha[t].pc = "accept", Dejar(t),
         UNCHANGED <<cuenta, cliente, mando, tardias>>
  PROVE  Zocalos(zocalo') /\ Sesion'
  <1> DEFINE s == escucha[t].sock
  <1>1. CASE zocalo' = zocalo
    BY <1>1, SesionIgual, TipoSesion
  <1>2. CASE zocalo[s].estado = "cerrandose" /\ zocalo' = [zocalo EXCEPT ![s] = Cerrado]
    <2>1. Cerrado \in Zocalo /\ Len(Cerrado.cola) <= Cola /\ Cerrado.estado = "cerrado"
      BY ZocaloTipo
    <2>2. /\ Zocalos(zocalo') /\ zocalo'[s].estado = "cerrado"
          /\ \A r \in Sesiones \ {s} : zocalo'[r] = zocalo[r]
      BY <1>2, <2>1, ZocaloDe, TipoSesion, UnZocalo
    <2>3. \A r \in Sesiones : Vivo(zocalo[r]) \/ Vivo(zocalo'[r]) =>
            zocalo'[r].estado = zocalo[r].estado /\ zocalo'[r].puerto = zocalo[r].puerto
      BY <1>2, <2>2 DEF Vivo
    <2>4. QED
      BY <2>2, <2>3, SesionIgual
  <1>3. QED
    BY <1>1, <1>2 DEF Dejar

(* accept() returns without a connection, or raises. *)
LEMMA espera_Conserva ==
  ASSUME IInv, NEW t \in Sesiones, expirar(t) \/ accept_cerrado(t)
  PROVE  IInv'
  <1>1. /\ escucha[t].pc = "accept" /\ Dejar(t) /\ (A(t, "while") \/ Termina(t))
        /\ UNCHANGED <<cuenta, cliente, mando, avisos, recibidas, pendientes, tardias>>
    BY DEF expirar, accept_cerrado, En
  <1>2. escucha' \in [Sesiones -> Hebra] /\ EscuchasConSocket'
    BY <1>1, HebraVa, HebraTermina
  <1>3. Zocalos(zocalo') /\ Sesion'
    BY <1>1, DejarConserva
  <1>4. QED
    BY <1>1, <1>2, <1>3, Junto, TipoSesion, Historia

(* The queue of a socket changes. *)
LEMMA ColaCambia ==
  ASSUME IInv, NEW s \in Sesiones, NEW c \in Seq(1..MaxConexiones), Len(c) <= Cola,
         zocalo' = [zocalo EXCEPT ![s].cola = c], UNCHANGED <<cuenta, cliente, mando, tardias>>
  PROVE  Zocalos(zocalo') /\ Sesion'
  <1> DEFINE z == [zocalo[s] EXCEPT !.cola = c]
  <1>1. zocalo[s] \in Zocalo /\ zocalo' = [zocalo EXCEPT ![s] = z]
    BY TipoSesion
  <1>2. /\ z \in Zocalo /\ z.cola = c /\ z.estado = zocalo[s].estado
        /\ z.puerto = zocalo[s].puerto
    BY <1>1 DEF Zocalo
  <1> HIDE DEF z
  <1>3. /\ Zocalos(zocalo') /\ zocalo'[s] = z
        /\ \A r \in Sesiones \ {s} : zocalo'[r] = zocalo[r]
    BY <1>1, <1>2, TipoSesion, UnZocalo
  <1>4. \A r \in Sesiones : Vivo(zocalo[r]) \/ Vivo(zocalo'[r]) =>
          zocalo'[r].estado = zocalo[r].estado /\ zocalo'[r].puerto = zocalo[r].puerto
    BY <1>2, <1>3
  <1>5. QED
    BY <1>3, <1>4, SesionIgual

LEMMA accept_Conserva ==
  ASSUME IInv, NEW t \in Sesiones, accept(t)
  PROVE  IInv'
  <1> DEFINE s == escucha[t].sock
             c == zocalo[s].cola
             h == [escucha[t] EXCEPT !.pc = "servir", !.conn = Head(c)]
  <1>1. /\ escucha[t].pc = "accept" /\ c # <<>>
        /\ zocalo' = [zocalo EXCEPT ![s].cola = Tail(c)]
        /\ escucha' = [escucha EXCEPT ![t] = h]
        /\ UNCHANGED <<cuenta, cliente, mando, avisos, recibidas, pendientes, tardias>>
    BY TipoSesion DEF accept, En
  <1>2. s \in Sesiones /\ c \in Seq(1..MaxConexiones) /\ Len(c) <= Cola
    BY <1>1, ZocaloDe DEF Zocalo
  <1>3. /\ Head(c) \in 1..MaxConexiones
        /\ Tail(c) \in Seq(1..MaxConexiones) /\ Len(Tail(c)) <= Cola
    BY <1>1, <1>2, PrimeroYResto
  <1>4. Zocalos(zocalo') /\ Sesion'
    <2> DEFINE d == Tail(c)
    <2>1. d \in Seq(1..MaxConexiones) /\ Len(d) <= Cola
          /\ zocalo' = [zocalo EXCEPT ![s].cola = d]
      BY <1>1, <1>3
    <2> HIDE DEF d
    <2>2. QED
      BY <1>1, <1>2, <2>1, ColaCambia
  <1>5. escucha[t] \in Hebra /\ s # 0
    BY <1>2, TipoSesion
  <1>6. h \in Hebra /\ h.sock = s
    <2> DEFINE k == Head(c)
    <2>1. k \in 1..MaxConexiones /\ h = [escucha[t] EXCEPT !.pc = "servir", !.conn = k]
      BY <1>3
    <2>2. k \in 0..MaxConexiones
      BY <2>1, ConstantesCliente
    <2> HIDE DEF k, h, c
    <2>3. QED
      BY <1>5, <2>1, <2>2, HebraTipo
  <1> HIDE DEF h
  <1>7. escucha' \in [Sesiones -> Hebra] /\ EscuchasConSocket'
    BY <1>1, <1>5, <1>6, HebraCambia
  <1>8. QED
    BY <1>1, <1>4, <1>7, Junto, TipoSesion, Historia

LEMMA servir_Conserva ==
  ASSUME IInv, NEW t \in Sesiones, servir(t)
  PROVE  IInv'
  <1> DEFINE c == escucha[t].conn
             h == [escucha[t] EXCEPT !.pc = "while", !.conn = 0]
  <1>1. /\ escucha[t] \in Hebra /\ escucha[t].sock # 0
        /\ UNCHANGED <<cuenta, cliente, mando, zocalo, avisos, pendientes, tardias>>
    BY TipoSesion, Historia DEF servir, En, EscuchasConSocket
  <1>2. h \in Hebra /\ h.sock # 0
    BY <1>1, Ceros, HebraTipo
  <1>3. escucha' = [escucha EXCEPT ![t] = h] \/ Termina(t)
    BY <1>1, TipoSesion DEF servir
  <1> HIDE DEF h
  <1>4. escucha' \in [Sesiones -> Hebra] /\ EscuchasConSocket'
    BY <1>2, <1>3, HebraCambia, HebraTermina
  <1>5. PICK x \in {"vista", "excepcion"} : recibidas' = [recibidas EXCEPT ![c].suerte = x]
    BY DEF servir
  <1>6. recibidas' \in Seq(Conexion) /\ Len(recibidas') <= MaxConexiones
    <2> DEFINE r == [recibidas[c] EXCEPT !.suerte = x]
    <2>1. recibidas \in Seq(Conexion) /\ Len(recibidas) <= MaxConexiones
      BY Historia
    <2>2. \A i \in 1..Len(recibidas) : recibidas[i] \in Conexion
      BY <2>1, ElementOfSeq
    <2>3. recibidas' = [recibidas EXCEPT ![c] = r]
      BY <1>5
    <2>4. c \in 1..Len(recibidas) => r \in Conexion
      BY <2>2 DEF Conexion
    <2>5. DOMAIN recibidas = 1..Len(recibidas) /\ Len(recibidas) \in Nat
      BY <2>1, LenProperties
    <2> HIDE DEF r, c
    <2>6. recibidas' \in [1..Len(recibidas) -> Conexion]
      BY <2>2, <2>3, <2>4, <2>5
    <2>7. QED
      BY <2>1, <2>5, <2>6, SeqDef, LenProperties
  <1>7. QED
    BY <1>1, <1>4, <1>6, hebra_Conserva
-----------------------------------------------------------------------------
(***************************************************************************)
(* The others.                                                             *)
(***************************************************************************)
LEMMA copiar_Conserva ==
  ASSUME IInv, NEW u \in Nombres, copiar_direccion(u)
  PROVE  IInv'
  <1>1. /\ UNCHANGED <<cuenta, cliente, mando, zocalo, escucha, recibidas, pendientes, tardias>>
        /\ avisos' \subseteq [para : Nombres, puerto : Puertos]
    BY Historia DEF copiar_direccion
  <1>2. Sesion'
    BY <1>1, SesionIgual
  <1>3. EscuchasConSocket'
    BY <1>1, EscuchasIguales, Historia
  <1>4. QED
    BY <1>1, <1>2, <1>3, Junto, TipoSesion, Historia

LEMMA llegar_Conserva ==
  ASSUME IInv, NEW a \in avisos, llegar(a)
  PROVE  IInv'
  <1> DEFINE n == Len(recibidas) + 1
  <1>1. PICK s \in Sesiones :
          /\ Len(zocalo[s].cola) < Cola
          /\ recibidas' = Append(recibidas, [sock |-> s, suerte |-> "en cola"])
          /\ zocalo' = [zocalo EXCEPT ![s].cola = Append(zocalo[s].cola, n)]
    BY TipoSesion DEF llegar
  <1>2. /\ Len(recibidas) < MaxConexiones /\ avisos' \subseteq avisos
        /\ UNCHANGED <<cuenta, cliente, mando, escucha, pendientes, tardias>>
    BY DEF llegar
  <1>3. recibidas \in Seq(Conexion) /\ Len(recibidas) \in Nat
    BY Historia, LenProperties
  <1>4. recibidas' \in Seq(Conexion) /\ Len(recibidas') <= MaxConexiones
    <2>1. [sock |-> s, suerte |-> "en cola"] \in Conexion
      BY DEF Conexion
    <2>2. recibidas' \in Seq(Conexion) /\ Len(recibidas') = n
      BY <1>1, <1>3, <2>1, AppendProperties
    <2>3. QED
      BY <1>2, <1>3, <2>2, ConstantesCliente
  <1>5. Zocalos(zocalo') /\ Sesion'
    <2> DEFINE c == zocalo[s].cola
               d == Append(c, n)
    <2>1. c \in Seq(1..MaxConexiones) /\ Len(c) \in Nat
      BY TipoSesion, LenProperties DEF Zocalo
    <2>2. n \in 1..MaxConexiones
      BY <1>2, <1>3, ConstantesCliente
    <2>3. d \in Seq(1..MaxConexiones) /\ Len(d) = Len(c) + 1
      BY <2>1, <2>2, AppendProperties
    <2>4. zocalo' = [zocalo EXCEPT ![s].cola = d] /\ Len(c) < Cola
      BY <1>1
    <2> HIDE DEF c, d
    <2>5. Len(d) <= Cola
      BY <2>1, <2>3, <2>4, ConstantesCliente
    <2>6. QED
      BY <1>2, <2>3, <2>4, <2>5, ColaCambia
  <1>6. EscuchasConSocket'
    BY <1>2, EscuchasIguales, Historia
  <1>7. QED
    BY <1>2, <1>4, <1>5, <1>6, Junto, TipoSesion, Historia

(* The server changes an account, and gives it no port of this client. *)
LEMMA ajena_Conserva ==
  ASSUME IInv, NEW u \in Nombres, NEW c \in {Otra, SinDir, Ausente},
         cuenta' = cuenta \/ cuenta' = [cuenta EXCEPT ![u] = c], avisos' \subseteq avisos,
         Recordar(tardias),
         UNCHANGED <<cliente, mando, zocalo, escucha, recibidas, pendientes>>
  PROVE  IInv'
  <1>1. cuenta' \in Cuentas
    BY TipoSesion DEF Cuentas
  <1>2. \A v \in Nombres : cuenta'[v] \in Puertos => cuenta'[v] = cuenta[v] \/ v \in tardias
    BY TipoSesion, ConstantesCliente DEF Cuentas
  <1>3. pendientes' \in Pendientes /\ tardias \in SUBSET Nombres /\ tardias \subseteq tardias
        /\ tardias' = {v \in tardias : cuenta'[v] \in Puertos}
    BY TipoSesion DEF Recordar
  <1>4. QED
    BY <1>1, <1>2, <1>3, cuenta_Conserva

LEMMA rechazar_Conserva ==
  ASSUME IInv, NEW a \in avisos, rechazar(a)
  PROVE  IInv'
  <1>1. /\ UNCHANGED cuenta \/ cuenta' = [cuenta EXCEPT ![a.para] = SinDir]
        /\ avisos' \subseteq avisos /\ Recordar(tardias)
        /\ UNCHANGED <<cliente, mando, zocalo, escucha, recibidas, pendientes>>
    BY DEF rechazar, Servidor!DISCONNECT
  <1>2. a.para \in Nombres
    BY Historia
  <1>3. QED
    BY <1>1, <1>2, ajena_Conserva

LEMMA otro_cliente_Conserva ==
  ASSUME IInv, NEW u \in Nombres, otro_cliente(u)
  PROVE  IInv'
  BY ajena_Conserva DEF otro_cliente, Servidor!REGISTER, Servidor!UNREGISTER,
                        Servidor!CONNECT, Servidor!DISCONNECT
-----------------------------------------------------------------------------
LEMMA InitIInv ==
  Init => IInv
  <1> SUFFICES ASSUME Init PROVE IInv
    OBVIOUS
  <1>1. cuenta \in [Nombres -> Puertos \cup {Otra, SinDir, Ausente}]
        /\ \A u \in Nombres : cuenta[u] = Ausente
    BY DEF Init, Servidor!Init
  <1>2. /\ zocalo \in [Sesiones -> Zocalo]
        /\ \A s \in Sesiones : Len(zocalo[s].cola) <= Cola
        /\ Suyos = {}
    BY ZocaloTipo DEF Init, Suyos
  <1>3. \A t \in Sesiones : escucha[t].pc = "sin crear"
    BY DEF Init, SinHilo
  <1>4. recibidas \in Seq(Conexion) /\ Len(recibidas) <= MaxConexiones
    BY EmptySeq, Ceros DEF Init
  <1>5. /\ cliente.current_user = Ninguno /\ ~cliente.is_connected /\ cliente.listen_sock = 0
        /\ cliente \in Clientes
    BY Ceros DEF Init, SinSesion, Clientes
  <1>6. mando = Shell /\ mando \in Mando /\ mando.pc = "shell"
    BY ShellTipo DEF Init
  <1>7. escucha \in [Sesiones -> Hebra]
    BY Ceros DEF Init, Hebra, SinHilo
  <1>8. avisos = {} /\ tardias = {} /\ pendientes \in Pendientes
    BY DEF Init, Pendientes
  <1>9. TypeOK
    BY <1>1, <1>2, <1>4, <1>5, <1>6, <1>7, <1>8 DEF TypeOK, Conexion, Clientes, Pendientes
  <1>10. SesionCoherente /\ MandoSabe
    BY <1>2, <1>5, <1>6 DEF SesionCoherente, MandoSabe, EnReposo, Concuerdan, Puntos
  <1>11. DireccionAlDia /\ PeticionEnCurso /\ EscuchasConSocket
    BY <1>3, <1>5, <1>6 DEF DireccionAlDia, PeticionEnCurso, EscuchasConSocket
  <1>12. QED
    BY <1>9, <1>10, <1>11 DEF IInv

LEMMA IInvInductivo ==
  IInv /\ [Next]_vars => IInv'
  <1> SUFFICES ASSUME IInv, [Next]_vars PROVE IInv'
    OBVIOUS
  <1>1. CASE UNCHANGED vars
    <2>1. UNCHANGED <<cuenta, cliente, mando, zocalo, escucha, avisos, recibidas,
                      pendientes, tardias>>
      BY <1>1 DEF vars
    <2>2. Sesion' /\ EscuchasConSocket'
      BY <2>1, SesionIgual, EscuchasIguales, Historia
    <2>3. QED
      BY <2>1, <2>2, Junto, TipoSesion, Historia
  <1>2. ASSUME NEW u \in Nombres,
               connect(u) \/ unregister(u) \/ disconnect(u)
                 \/ copiar_direccion(u) \/ otro_cliente(u)
        PROVE  IInv'
    BY <1>2, pedir_Conserva, copiar_Conserva, otro_cliente_Conserva
  <1>3. CASE preparar_escucha \/ _stop_listener \/ recibir \/ fallar \/ excepcion \/ salir
    BY <1>3, preparar_Conserva, parar_Conserva, recibir_Conserva, fallar_Conserva,
       excepcion_Conserva, salir_Conserva
  <1>4. CASE atender \/ \E i \in Tarde : atender_tarde(i)
    BY <1>4, atender_Conserva, atender_tarde_Conserva
  <1>5. ASSUME NEW t \in Sesiones, Paso(t)
        PROVE  IInv'
    BY <1>5, listener_Conserva, comprobar_Conserva, espera_Conserva, accept_Conserva,
       servir_Conserva DEF Paso
  <1>6. ASSUME NEW a \in avisos, llegar(a) \/ rechazar(a)
        PROVE  IInv'
    BY <1>6, llegar_Conserva, rechazar_Conserva
  <1>7. QED
    BY <1>1, <1>2, <1>3, <1>4, <1>5, <1>6 DEF Next

(* Between any two writes of the command thread (client.py:92,             *)
(* _stop_listener, and client.py:322, connect) the listener threads, the   *)
(* server, the other clients and the handlers that still have a CONNECT of *)
(* this client's may run, and any reply may be lost.                       *)
THEOREM Invariante == Spec => []IInv
  <1>1. QED
    BY InitIInv, IInvInductivo, PTL DEF Spec

(* Every attribute of the client, every connection and the server end have *)
(* their types in every reachable state (client.py, the session).          *)
THEOREM TipoCorrecto == Spec => []TypeOK
  <1>1. IInv => TypeOK
    BY DEF IInv
  <1>2. QED
    BY Invariante, <1>1, PTL

(* A listener thread that finds _is_connected true, at whatever write of   *)
(* connect or _stop_listener, finds a socket that listens in _listen_sock, *)
(* no socket is left open outside it, and the three attributes agree when  *)
(* a command is over (client.py:92, _stop_listener, and 322, connect).     *)
THEOREM AtributosCoherentes == Spec => []SesionCoherente
  <1>1. IInv => SesionCoherente
    BY DEF IInv
  <1>2. QED
    BY <1>1, Invariante, PTL

(* The server sends the current user's messages to an older socket of this *)
(* client only if a handler carried out, late, a CONNECT that the client   *)
(* had given up (client.py:364, connect, and operaciones.c:397).           *)
THEOREM SesionAlDia == Spec => []DireccionAlDia
  <1>1. IInv => DireccionAlDia
    BY DEF IInv
  <1>2. QED
    BY <1>1, Invariante, PTL
=============================================================================
