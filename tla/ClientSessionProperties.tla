---------------------- MODULE ClientSessionProperties ----------------------
(***************************************************************************)
(* What holds of a client's session, whatever its threads interleave, the  *)
(* network loses and other clients do with its account.                    *)
(***************************************************************************)
EXTENDS ClientSession

Puntos == {"socket", "bind", "is_connected", "start", "peticion", "recv"}

Parando == {"stop", "stop_user", "stop_close", "stop_none"}

Mando == [pc : Puntos, op : {"CONNECT", "DISCONNECT", "UNREGISTER"},
          user : Nombres, exito : BOOLEAN]
         \cup {Sin_peticion(p) : p \in Parando \cup {"shell", "fin"}}

Pendiente == [user : Nombres, puerto : Puertos \cup {Otra}]

Zocalo == [estado : {"sin crear", "creado", "abierto", "cerrandose", "cerrado"},
           puerto : Puertos \cup {Otra}, cola : Seq(1..MaxConexiones)]

Hebra == [pc : {"sin crear", "nuevo", "while", "accept", "servir", "fin"},
          sock : 0..MaxSesiones, conn : 0..MaxConexiones]

(* Every variable has its type; no more connections wait than listen(5)    *)
(* was asked to keep.                                                      *)
TypeOK ==
  /\ cuenta \in [Nombres -> Puertos \cup {Otra, SinDir, Ausente}]
  /\ cliente \in [is_connected : BOOLEAN, current_user : Nombres \cup {Ninguno},
                  listen_sock : 0..MaxSesiones]
  /\ mando \in Mando
  /\ zocalo \in [Sesiones -> Zocalo]
  /\ \A s \in Sesiones : Len(zocalo[s].cola) <= Cola
  /\ escucha \in [Sesiones -> Hebra]
  /\ avisos \subseteq [para : Nombres, puerto : Puertos]
  /\ recibidas \in Seq([sock : Sesiones, suerte : {"en cola", "vista", "excepcion"}])
  /\ Len(recibidas) <= MaxConexiones
  /\ pendientes \in [Tarde -> Pendiente \cup {NoHay}]
  /\ tardias \subseteq Nombres

(* No command is under way. *)
EnReposo == mando.pc \in {"shell", "fin"}

Concuerdan ==
  /\ cliente.current_user # Ninguno => cliente.is_connected
  /\ cliente.is_connected <=> cliente.listen_sock # 0

(* The attributes are written one by one, and the listener threads see     *)
(* every state in between.  At each of them a thread that finds            *)
(* _is_connected true finds in _listen_sock a socket that listens, and no  *)
(* socket is left open outside it; once a command is over, even with a     *)
(* request that failed, an exception or a session that somebody else       *)
(* ended, the three agree.                                                 *)
SesionCoherente ==
  /\ cliente.is_connected => /\ cliente.listen_sock # 0
                             /\ zocalo[cliente.listen_sock].estado = "abierto"
  /\ Suyos \subseteq {cliente.listen_sock}
  /\ EnReposo => Concuerdan

(* What the client believes against what the server holds: while it is in  *)
(* a session of u, the server may have ended it, or given it to another    *)
(* client, but it sends u's messages to an older socket of this client     *)
(* only if a CONNECT that the client gave up was carried out meanwhile,    *)
(* never because a reply was lost.                                         *)
DireccionAlDia ==
  LET u == cliente.current_user IN
  u # Ninguno /\ u \notin tardias /\ cuenta[u] \in Puertos
    => cuenta[u] = zocalo[cliente.listen_sock].puerto

(* What the command thread knows at each of its points. *)
MandoSabe ==
  LET c == cliente
      s == cliente.listen_sock
      pc == mando.pc
  IN
  /\ c.current_user # Ninguno => s # 0
  /\ s # 0 /\ pc # "stop_none" => s \in Suyos
  /\ s # 0 /\ zocalo[s].estado = "creado" => pc \in {"bind", "stop", "stop_user", "stop_close"}
  /\ pc \in {"socket", "bind", "is_connected", "start"} => mando.op = "CONNECT"
  /\ pc \in {"peticion", "recv"} => Concuerdan
  /\ pc \in Puntos /\ mando.op = "CONNECT" => c.current_user = Ninguno
  /\ pc \in {"start", "peticion", "recv"} /\ mando.op = "CONNECT" => c.is_connected
  /\ pc \in {"socket", "bind", "is_connected", "stop_user", "stop_close", "stop_none"}
       => ~c.is_connected
  /\ pc = "socket" => s = 0
  /\ pc \in {"bind", "is_connected", "stop_none"} => s # 0
  /\ pc \in {"stop_close", "stop_none"} => c.current_user = Ninguno
  /\ pc = "stop_none" => Suyos = {}

(* If the reply to a CONNECT is to be 0, what holds of a session holds     *)
(* already.                                                                *)
PeticionEnCurso ==
  LET u == mando.user IN
  mando.pc = "recv" /\ mando.op = "CONNECT" /\ mando.exito =>
    (u \notin tardias /\ cuenta[u] \in Puertos
       => cuenta[u] = zocalo[cliente.listen_sock].puerto)

(* A thread that has a socket has one that exists. *)
EscuchasConSocket ==
  \A t \in Sesiones : escucha[t].pc \in {"while", "accept", "servir"} => escucha[t].sock # 0

(* What every step preserves, and the proofs rest on. *)
IInv ==
  /\ TypeOK
  /\ SesionCoherente
  /\ DireccionAlDia
  /\ MandoSabe
  /\ PeticionEnCurso
  /\ EscuchasConSocket
-----------------------------------------------------------------------------
(* A thread whose socket is not the session's ends, though _is_connected,  *)
(* the only thing it looks at, may be true again by then: again and again  *)
(* none is left.                                                           *)
EscuchasViejasAcaban ==
  []<>(\A t \in Sesiones : escucha[t].sock \in {0, cliente.listen_sock} \/ En(t, "fin"))

(* The connection c was served, or its session ended before. *)
Resuelta(c) ==
  recibidas[c].suerte = "vista" \/ zocalo[recibidas[c].sock].estado # "abierto"

(* Something that came to the socket of c raised an exception. *)
ConExcepcion(c) ==
  \E d \in DOMAIN recibidas :
    recibidas[d].sock = recibidas[c].sock /\ recibidas[d].suerte = "excepcion"

(* What the server believes delivered is shown, unless the session ends or *)
(* something that was sent to it raises an exception: again and again      *)
(* nothing that came to a live session is waiting.                         *)
MensajeLlega ==
  []<>(\A c \in DOMAIN recibidas : Resuelta(c) \/ ConExcepcion(c))
=============================================================================
