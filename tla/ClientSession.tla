--------------------------- MODULE ClientSession ---------------------------
(***************************************************************************)
(* The session of a client: the class attributes of client.py, which the   *)
(* command thread writes, one at a time, and every listener thread reads   *)
(* without a lock, the sockets behind them, and the central server, seen   *)
(* as UserDirectory.                                                       *)
(*                                                                         *)
(* Each connect() makes a listening socket and a thread to serve it; both  *)
(* have the number of the connect().  A thread that starts late may find   *)
(* the socket of a later one in _listen_sock.  Whoever has the address of  *)
(* the session, the server with a message or another client that asks for  *)
(* a file, connects to the port: the kernel accepts it, with or without    *)
(* anyone in accept().  A CONNECT that the client gives up may still be in *)
(* the hands of a handler, which waits for the log and carries it out      *)
(* later (operaciones.c:397); a late UNREGISTER or DISCONNECT is no        *)
(* different from one that somebody else sends.                            *)
(***************************************************************************)
EXTENDS Naturals, Sequences, FiniteSets, SequencesExt

CONSTANTS
  Nombres,        (* user names *)
  Puertos,        (* ports of the client's machine *)
  Otra,           (* the address of a client on another machine *)
  SinDir, Ausente,
  Ninguno,        (* None, as a user *)
  Cola,           (* connections that wait for accept(), listen(5) *)
  MaxSesiones,    (* bound: sockets that connect() makes *)
  MaxAvisos,      (* bound: addresses in somebody's hands at the same time *)
  MaxConexiones,  (* bound: connections that reach the client *)
  MaxPendientes   (* bound: CONNECTs given up that a handler still has *)

ASSUME ConstantesCliente ==
  /\ Ninguno \notin Nombres
  /\ SinDir # Ausente /\ {SinDir, Ausente} \cap (Puertos \cup {Otra}) = {}
  /\ Otra \notin Puertos
  /\ Cola \in Nat \ {0} /\ MaxSesiones \in Nat
  /\ MaxAvisos \in Nat /\ MaxConexiones \in Nat /\ MaxPendientes \in Nat

VARIABLES
  cuenta,       (* the server: each user's address *)
  cliente,      (* _is_connected, _current_user, _listen_sock (0 is None) *)
  mando,        (* the command thread: program point, request, reply *)
  zocalo,       (* the listening sockets *)
  escucha,      (* the listener threads *)
  avisos,       (* addresses copied by handlers that are about to connect *)
  pendientes,   (* CONNECTs that the client gave up and a handler has *)
  recibidas,    (* history: the connections that the kernel took *)
  tardias       (* history: users with an address that one of those stored *)

vars == <<cuenta, cliente, mando, zocalo, escucha, avisos, pendientes, recibidas, tardias>>

Servidor == INSTANCE UserDirectory WITH Dirs <- Puertos \cup {Otra}
-----------------------------------------------------------------------------
Sesiones == 1..MaxSesiones
Tarde == 1..MaxPendientes

SinSesion == [is_connected |-> FALSE, current_user |-> Ninguno, listen_sock |-> 0]

(* The command thread without a request: the shell waits for a command,    *)
(* _stop_listener is under way, or the program has ended.                  *)
Sin_peticion(punto) == [pc |-> punto, op |-> "", user |-> Ninguno, exito |-> FALSE]
Shell == Sin_peticion("shell")
Fin == Sin_peticion("fin")

NoHay == [user |-> Ninguno, puerto |-> Otra]

SinCrear == [estado |-> "sin crear", puerto |-> Otra, cola |-> <<>>]
Creado == [SinCrear EXCEPT !.estado = "creado"]
Abierto(p) == [estado |-> "abierto", puerto |-> p, cola |-> <<>>]
Cerrado == [SinCrear EXCEPT !.estado = "cerrado"]

SinHilo == [pc |-> "sin crear", sock |-> 0, conn |-> 0]
Ida == [SinHilo EXCEPT !.pc = "fin"]

Init ==
  /\ Servidor!Init
  /\ cliente = SinSesion
  /\ mando = Shell
  /\ zocalo = [s \in Sesiones |-> SinCrear]
  /\ escucha = [t \in Sesiones |-> SinHilo]
  /\ avisos = {}
  /\ pendientes = [i \in Tarde |-> NoHay]
  /\ recibidas = <<>>
  /\ tardias = {}

(* The kernel takes connections for a socket until it is closed and, if a  *)
(* thread is waiting in accept() at that moment, until it stops waiting.   *)
Activo(s) == zocalo[s].estado \in {"abierto", "cerrandose"}

(* The sockets that this client has and has not closed. *)
Suyos == {s \in Sesiones : zocalo[s].estado \in {"creado", "abierto"}}

EnAccept(s) == {t \in Sesiones : escucha[t].pc = "accept" /\ escucha[t].sock = s}
-----------------------------------------------------------------------------
(***************************************************************************)
(* The command thread.  What a command prints is left out, and so are the  *)
(* commands that the client refuses by itself.                             *)
(***************************************************************************)
A_continuacion(punto) == mando' = [mando EXCEPT !.pc = punto]

Parar(punto) == mando' = Sin_peticion(punto)

_stop_listener_SinCerrar ==
  /\ \/ /\ mando.pc = "stop" /\ Parar("stop_user")
        /\ cliente' = [cliente EXCEPT !.is_connected = FALSE]
     \/ /\ mando.pc = "stop_user" /\ Parar("stop_none")
        /\ cliente' = [cliente EXCEPT !.current_user = Ninguno]
     \/ /\ mando.pc = "stop_none" /\ mando' = Shell
        /\ cliente' = [cliente EXCEPT !.listen_sock = 0]
  /\ UNCHANGED <<cuenta, zocalo, escucha, avisos, pendientes, recibidas, tardias>>

_stop_listener_AlReves ==
  LET s == cliente.listen_sock IN
  /\ \/ /\ mando.pc = "stop" /\ Parar("stop_user")
        /\ zocalo' = IF s = 0 THEN zocalo ELSE [zocalo EXCEPT ![s] = Cerrado]
        /\ UNCHANGED cliente
     \/ /\ mando.pc = "stop_user" /\ mando' = Shell
        /\ cliente' = SinSesion
        /\ UNCHANGED zocalo
  /\ UNCHANGED <<cuenta, escucha, avisos, pendientes, recibidas, tardias>>

(* Four writes.  What waits in the queue of a socket that is closed is     *)
(* gone.                                                                   *)
_stop_listener ==
  LET s == cliente.listen_sock IN
  /\ \/ /\ mando.pc = "stop" /\ Parar("stop_user")
        /\ cliente' = [cliente EXCEPT !.is_connected = FALSE]
        /\ UNCHANGED zocalo
     \/ /\ mando.pc = "stop_user" /\ Parar("stop_close")
        /\ cliente' = [cliente EXCEPT !.current_user = Ninguno]
        /\ UNCHANGED zocalo
     \/ /\ mando.pc = "stop_close" /\ s = 0 /\ mando' = Shell
        /\ UNCHANGED <<cliente, zocalo>>
     \/ /\ mando.pc = "stop_close" /\ s # 0 /\ Parar("stop_none")
        /\ \/ zocalo' = [zocalo EXCEPT ![s] = Cerrado]
           \/ EnAccept(s) # {} /\ zocalo' = [zocalo EXCEPT ![s].estado = "cerrandose"]
        /\ UNCHANGED cliente
     \/ /\ mando.pc = "stop_none" /\ mando' = Shell
        /\ cliente' = [cliente EXCEPT !.listen_sock = 0]
        /\ UNCHANGED zocalo
  /\ UNCHANGED <<cuenta, escucha, avisos, pendientes, recibidas, tardias>>

Pedir(op, u, punto) ==
  /\ mando = Shell
  /\ mando' = [pc |-> punto, op |-> op, user |-> u, exito |-> FALSE]
  /\ UNCHANGED <<cuenta, cliente, zocalo, escucha, avisos, pendientes, recibidas, tardias>>

connect(u) ==
  /\ ~cliente.is_connected
  /\ \E s \in Sesiones : zocalo[s] = SinCrear
  /\ Pedir("CONNECT", u, "socket")

(* What connect() writes before it asks the server: _listen_sock, then the *)
(* socket listens, at a port that nobody has, then _is_connected, then a   *)
(* thread starts.                                                          *)
preparar_escucha ==
  LET s == cliente.listen_sock IN
  /\ \/ /\ mando.pc = "socket" /\ A_continuacion("bind")
        /\ \E n \in Sesiones :
             /\ zocalo[n].estado = "sin crear"
             /\ \A r \in Sesiones : r < n => zocalo[r].estado # "sin crear"
             /\ zocalo' = [zocalo EXCEPT ![n] = Creado]
             /\ cliente' = [cliente EXCEPT !.listen_sock = n]
        /\ UNCHANGED escucha
     \/ /\ mando.pc = "bind" /\ A_continuacion("is_connected")
        /\ \E p \in Puertos :
             /\ \A r \in Sesiones : Activo(r) => zocalo[r].puerto # p
             /\ zocalo' = [zocalo EXCEPT ![s] = Abierto(p)]
        /\ UNCHANGED <<cliente, escucha>>
     \/ /\ mando.pc = "is_connected" /\ A_continuacion("start")
        /\ cliente' = [cliente EXCEPT !.is_connected = TRUE]
        /\ UNCHANGED <<zocalo, escucha>>
     \/ /\ mando.pc = "start" /\ A_continuacion("peticion")
        /\ escucha' = [escucha EXCEPT ![s].pc = "nuevo"]
        /\ UNCHANGED <<cliente, zocalo>>
  /\ UNCHANGED <<cuenta, avisos, pendientes, recibidas, tardias>>

unregister(u) == Pedir("UNREGISTER", u, "peticion")

(* Without a current user, anyone may be disconnected. *)
disconnect(u) ==
  /\ cliente.current_user \in {u, Ninguno}
  /\ Pedir("DISCONNECT", u, "peticion")

(* resultado, as the server finds the account. *)
Resultado(op, c) ==
  IF c = Ausente THEN 1
  ELSE CASE op = "UNREGISTER" -> 0
         [] op = "CONNECT"    -> IF c = SinDir THEN 0 ELSE 2
         [] op = "DISCONNECT" -> IF c = SinDir THEN 2 ELSE IF c = Otra THEN 3 ELSE 0

(* What a handler makes of a request. *)
Efecto(op, u, p) ==
  LET r == Resultado(op, cuenta[u]) IN
  \/ r # 0 /\ UNCHANGED cuenta
  \/ r = 0 /\ op = "UNREGISTER" /\ Servidor!UNREGISTER(u)
  \/ r = 0 /\ op = "CONNECT" /\ Servidor!CONNECT(u, p)
  \/ r = 0 /\ op = "DISCONNECT" /\ Servidor!DISCONNECT(u)

(* The port that a CONNECT sends. *)
PuertoPropio == IF cliente.listen_sock = 0 THEN Otra ELSE zocalo[cliente.listen_sock].puerto

(* The users of T that still have an address. *)
Recordar(T) == tardias' = {u \in T : cuenta'[u] \in Puertos}

(* The server handles the request, and replies; the client tells a 0 from  *)
(* the rest.                                                               *)
atender ==
  LET u == mando.user
      exito == Resultado(mando.op, cuenta[u]) = 0
  IN
  /\ mando.pc = "peticion"
  /\ mando' = [mando EXCEPT !.pc = "recv", !.exito = exito]
  /\ Efecto(mando.op, u, PuertoPropio)
  /\ Recordar(IF mando.op = "CONNECT" /\ exito THEN tardias \ {u} ELSE tardias)
  /\ UNCHANGED <<cliente, zocalo, escucha, avisos, pendientes, recibidas>>

(* It handles one that the client gave up, with the port it came with. *)
atender_tarde(i) ==
  LET q == pendientes[i] IN
  /\ q # NoHay
  /\ pendientes' = [pendientes EXCEPT ![i] = NoHay]
  /\ Efecto("CONNECT", q.user, q.puerto)
  /\ Recordar(IF cuenta[q.user] = SinDir THEN tardias \cup {q.user} ELSE tardias)
  /\ UNCHANGED <<cliente, mando, zocalo, escucha, avisos, recibidas>>

(* The request was lost, or a handler has it and does not know. *)
Abandonar ==
  \/ UNCHANGED pendientes
  \/ /\ mando.pc = "peticion" /\ mando.op = "CONNECT"
     /\ \E i \in Tarde :
          /\ pendientes[i] = NoHay
          /\ pendientes' = [pendientes EXCEPT ![i] =
               [user |-> mando.user, puerto |-> PuertoPropio]]

recibir_SinCodigo ==
  /\ mando.pc = "recv"
  /\ \/ /\ mando.op = "CONNECT"
        /\ cliente' = [cliente EXCEPT !.current_user = mando.user]
        /\ mando' = Shell
     \/ mando.op # "CONNECT" /\ Parar("stop") /\ UNCHANGED cliente
  /\ UNCHANGED <<cuenta, zocalo, escucha, avisos, pendientes, recibidas, tardias>>

(* The reply arrives. *)
recibir ==
  LET propia == mando.exito /\ mando.user = cliente.current_user IN
  /\ mando.pc = "recv"
  /\ \/ /\ mando.op = "CONNECT" /\ mando.exito
        /\ cliente' = [cliente EXCEPT !.current_user = mando.user]
        /\ mando' = Shell
     \/ /\ \/ mando.op = "CONNECT" /\ ~mando.exito
           \/ mando.op = "DISCONNECT"
           \/ mando.op = "UNREGISTER" /\ propia
        /\ Parar("stop")
        /\ UNCHANGED cliente
     \/ /\ mando.op = "UNREGISTER" /\ ~propia
        /\ mando' = Shell
        /\ UNCHANGED cliente
  /\ UNCHANGED <<cuenta, zocalo, escucha, avisos, pendientes, recibidas, tardias>>

(* The socket cannot be made or cannot listen; the server cannot be        *)
(* reached, or does not answer though it may have handled the request, or  *)
(* may still handle it.                                                    *)
fallar ==
  /\ mando.pc \in {"socket", "bind", "peticion", "recv"}
  /\ \/ mando.op # "UNREGISTER" /\ Parar("stop")
     \/ mando.op = "UNREGISTER" /\ mando' = Shell
  /\ Abandonar
  /\ UNCHANGED <<cuenta, cliente, zocalo, escucha, avisos, recibidas, tardias>>

(* An exception that is not of sockets, as a name that cannot be encoded:  *)
(* the shell reports it and goes on, and connect() has not cleaned up.     *)
excepcion ==
  /\ mando.pc = "peticion"
  /\ mando.op = "CONNECT"
  /\ mando' = Shell
  /\ UNCHANGED <<cuenta, cliente, zocalo, escucha, avisos, pendientes, recibidas, tardias>>

(* QUIT, after a DISCONNECT, or the end of the process at any moment. *)
salir ==
  /\ mando # Fin
  /\ mando' = Fin
  /\ cliente' = SinSesion
  /\ zocalo' = [s \in Sesiones |-> IF zocalo[s] = SinCrear THEN SinCrear ELSE Cerrado]
  /\ escucha' = [t \in Sesiones |-> Ida]
  /\ Abandonar
  /\ UNCHANGED <<cuenta, avisos, recibidas, tardias>>
-----------------------------------------------------------------------------
(***************************************************************************)
(* A listener thread.                                                      *)
(***************************************************************************)
A(t, punto) == escucha' = [escucha EXCEPT ![t].pc = punto]

Termina(t) == escucha' = [escucha EXCEPT ![t] = Ida]

En(t, punto) == escucha[t].pc = punto

(* listen_sock = client._listen_sock, at any moment of the writes above,   *)
(* and settimeout, which raises an exception on a socket that was closed.  *)
_listener_thread(t) ==
  LET s == cliente.listen_sock IN
  /\ En(t, "nuevo")
  /\ \/ s \notin Suyos /\ Termina(t)
     \/ /\ s \in Suyos
        /\ escucha' = [escucha EXCEPT ![t].pc = "while", ![t].sock = s]
  /\ UNCHANGED <<cuenta, cliente, mando, zocalo, avisos, recibidas, pendientes, tardias>>

comprobar(t) ==
  /\ En(t, "while")
  /\ \/ cliente.is_connected /\ A(t, "accept")
     \/ ~cliente.is_connected /\ Termina(t)
  /\ UNCHANGED <<cuenta, cliente, mando, zocalo, avisos, recibidas, pendientes, tardias>>

(* The last thread that waited on a closed socket lets it go. *)
Dejar(t) ==
  LET s == escucha[t].sock IN
  zocalo' = IF zocalo[s].estado = "cerrandose" /\ EnAccept(s) = {t}
            THEN [zocalo EXCEPT ![s] = Cerrado] ELSE zocalo

expirar_Saliendo(t) ==
  /\ En(t, "accept")
  /\ Activo(escucha[t].sock)
  /\ zocalo[escucha[t].sock].cola = <<>>
  /\ Termina(t)
  /\ Dejar(t)
  /\ UNCHANGED <<cuenta, cliente, mando, avisos, recibidas, pendientes, tardias>>

(* socket.timeout: one second and nobody has connected. *)
expirar(t) ==
  /\ En(t, "accept")
  /\ Activo(escucha[t].sock)
  /\ zocalo[escucha[t].sock].cola = <<>>
  /\ A(t, "while")
  /\ Dejar(t)
  /\ UNCHANGED <<cuenta, cliente, mando, avisos, recibidas, pendientes, tardias>>

(* accept() on a socket that was closed: an exception, break. *)
accept_cerrado(t) ==
  /\ En(t, "accept")
  /\ zocalo[escucha[t].sock].estado \in {"cerrandose", "cerrado"}
  /\ Termina(t)
  /\ Dejar(t)
  /\ UNCHANGED <<cuenta, cliente, mando, avisos, recibidas, pendientes, tardias>>

accept(t) ==
  LET s == escucha[t].sock IN
  /\ En(t, "accept")
  /\ zocalo[s].estado = "abierto"
  /\ zocalo[s].cola # <<>>
  /\ escucha' = [escucha EXCEPT ![t].pc = "servir", ![t].conn = Head(zocalo[s].cola)]
  /\ zocalo' = [zocalo EXCEPT ![s].cola = Tail(@)]
  /\ UNCHANGED <<cuenta, cliente, mando, avisos, recibidas, pendientes, tardias>>

(* What came is shown, or the file sent; or something in it raises an      *)
(* exception and the thread is over: a text that is not UTF-8, as one cut  *)
(* by a buffer of the server, or a requester of a file that hangs up.      *)
servir(t) ==
  LET c == escucha[t].conn IN
  /\ En(t, "servir")
  /\ \/ /\ recibidas' = [recibidas EXCEPT ![c].suerte = "vista"]
        /\ escucha' = [escucha EXCEPT ![t].pc = "while", ![t].conn = 0]
     \/ /\ recibidas' = [recibidas EXCEPT ![c].suerte = "excepcion"]
        /\ Termina(t)
  /\ UNCHANGED <<cuenta, cliente, mando, zocalo, avisos, pendientes, tardias>>
-----------------------------------------------------------------------------
(***************************************************************************)
(* The rest: whoever copies an address and connects to it, and the other   *)
(* clients of the server.                                                  *)
(***************************************************************************)
(* A handler of the server, or a client that asked for USERS. *)
copiar_direccion(u) ==
  /\ cuenta[u] \in Puertos
  /\ Cardinality(avisos) < MaxAvisos
  /\ Len(recibidas) + Cardinality(avisos) < MaxConexiones
  /\ avisos' = avisos \cup {[para |-> u, puerto |-> cuenta[u]]}
  /\ UNCHANGED <<cuenta, cliente, mando, zocalo, escucha, recibidas, pendientes, tardias>>

llegar_SinLimite(a) ==
  /\ Len(recibidas) < MaxConexiones
  /\ \E s \in Sesiones :
       /\ Activo(s) /\ zocalo[s].puerto = a.puerto
       /\ recibidas' = Append(recibidas, [sock |-> s, suerte |-> "en cola"])
       /\ zocalo' = [zocalo EXCEPT ![s].cola = Append(@, Len(recibidas) + 1)]
  /\ avisos' = avisos \ {a}
  /\ UNCHANGED <<cuenta, cliente, mando, escucha, pendientes, tardias>>

(* The kernel takes the connection, and what is written to it. *)
llegar(a) ==
  /\ Len(recibidas) < MaxConexiones
  /\ \E s \in Sesiones :
       /\ Activo(s) /\ zocalo[s].puerto = a.puerto
       /\ Len(zocalo[s].cola) < Cola
       /\ recibidas' = Append(recibidas, [sock |-> s, suerte |-> "en cola"])
       /\ zocalo' = [zocalo EXCEPT ![s].cola = Append(@, Len(recibidas) + 1)]
  /\ avisos' = avisos \ {a}
  /\ UNCHANGED <<cuenta, cliente, mando, escucha, pendientes, tardias>>

(* Nobody has the port, or too many wait.  If it was a delivery, whoever   *)
(* has the name is marked as disconnected; an acknowledgement or a request *)
(* for a file is given up.                                                 *)
rechazar(a) ==
  /\ \A s \in Sesiones :
       Activo(s) /\ zocalo[s].puerto = a.puerto => Len(zocalo[s].cola) = Cola
  /\ avisos' = avisos \ {a}
  /\ UNCHANGED cuenta \/ Servidor!DISCONNECT(a.para)
  /\ Recordar(tardias)
  /\ UNCHANGED <<cliente, mando, zocalo, escucha, recibidas, pendientes>>

(* Somebody else's request, or a delivery to another machine that failed. *)
otro_cliente(u) ==
  /\ \/ Servidor!REGISTER(u)
     \/ Servidor!UNREGISTER(u)
     \/ Servidor!CONNECT(u, Otra)
     \/ Servidor!DISCONNECT(u)
  /\ Recordar(tardias)
  /\ UNCHANGED <<cliente, mando, zocalo, escucha, avisos, recibidas, pendientes>>
-----------------------------------------------------------------------------
Paso(t) ==
  \/ _listener_thread(t)
  \/ comprobar(t)
  \/ expirar(t)
  \/ accept_cerrado(t)
  \/ accept(t)
  \/ servir(t)

Next ==
  \/ \E u \in Nombres : connect(u) \/ unregister(u) \/ disconnect(u)
  \/ preparar_escucha
  \/ _stop_listener
  \/ atender
  \/ \E i \in Tarde : atender_tarde(i)
  \/ recibir
  \/ fallar
  \/ excepcion
  \/ salir
  \/ \E t \in Sesiones : Paso(t)
  \/ \E u \in Nombres : copiar_direccion(u) \/ otro_cliente(u)
  \/ \E a \in avisos : llegar(a) \/ rechazar(a)

Spec == Init /\ [][Next]_vars

(* The threads run: what the command thread writes follows without a call  *)
(* that waits.  Whoever connects to a listener sends what it has to send   *)
(* or hangs up.  Nothing is assumed of the user or of the server.          *)
FairSpec ==
  /\ Spec
  /\ \A t \in Sesiones : WF_vars(Paso(t))
  /\ WF_vars(preparar_escucha \/ _stop_listener)
=============================================================================
