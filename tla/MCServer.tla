------------------------------ MODULE MCServer ------------------------------
(***************************************************************************)
(* Small instances of the server for TLC: two users, one or two addresses  *)
(* that a client may listen on, two or three threads.                      *)
(***************************************************************************)
EXTENDS ServerProperties

CONSTANTS ana, bea, casa, bar, SinFichero, foto

(* Every client has its own machine. *)
MCIp == [d \in Dirs |-> d]

Sobre(ops, usuarios) == [op : ops, usuario : usuarios]
Connect(usuarios) == [op : {"CONNECT"}, usuario : usuarios, dir : Dirs]
Disconnect(usuarios) == [op : {"DISCONNECT"}, usuario : usuarios, ip : Ips]
Send(origenes, destinos) ==
  [op : {"SEND"}, usuario : origenes, destino : destinos, adjunto : Adjuntos]

(* Anybody asks for anything. *)
Todas ==
  Sobre({"REGISTER", "UNREGISTER", "USERS"}, Nombres)
    \cup Connect(Nombres) \cup Disconnect(Nombres) \cup Send(Nombres, Nombres)

(* ana, who comes and goes as an account, writes to bea, who comes and     *)
(* goes as a session.                                                      *)
Correo ==
  Sobre({"REGISTER"}, Nombres) \cup Sobre({"UNREGISTER"}, {ana})
    \cup Connect({bea}) \cup Disconnect({bea}) \cup Send({ana}, {bea})

(* Both users write to bea, whose account comes and goes as well. *)
Buzon ==
  Sobre({"REGISTER", "UNREGISTER"}, Nombres)
    \cup Connect({bea}) \cup Send(Nombres, {bea})

(* ana writes to bea, who also writes to herself, with and without a file; *)
(* bea's account and her session come and go.                              *)
Entrega ==
  Sobre({"REGISTER"}, Nombres) \cup Sobre({"UNREGISTER"}, {bea})
    \cup Connect({bea}) \cup Disconnect({bea}) \cup Send({ana}, {bea})
    \cup {p \in Send({bea}, {bea}) : p.adjunto = SinFichero}

Simetria == Permutations(Hilos)
=============================================================================
