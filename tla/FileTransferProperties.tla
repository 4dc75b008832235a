----------------------- MODULE FileTransferProperties -----------------------
(***************************************************************************)
(* What GETFILE guarantees, though the file may change and anything break. *)
(***************************************************************************)
EXTENDS FileTransfer

Simbolos == Bytes \cup Range(MenosUno)

Servidor == [pc : {"getsize", "open", "read", "except", "while", "fin", "muerto"},
             tam : 0..MaxTam, pos : 0..MaxTam, error : BOOLEAN]

(* Every variable has its type. *)
TypeOK ==
  /\ fichero \in [existe : BOOLEAN, datos : Contenidos]
  /\ servidor \in Servidor
  /\ cabecera \in {SinCabecera, -1} \cup 0..MaxTam
  /\ canal \in Seq(Simbolos)
  /\ conexion \in {"abierta", "cerrada", "rota"}
  /\ solicitante \in [pc : {"tam", "recv", "ok", "fallo"}, pendientes : 0..MaxTam]
  /\ local \in [existe : BOOLEAN, datos : Seq(Simbolos)]
  /\ cambios \in 0..MaxCambios
  /\ fue \in [1..MaxTam -> SUBSET Bytes]

(* A transfer that ended with OK has as many bytes as were announced, and  *)
(* each of them was at its place in the file at some moment: if the file   *)
(* did not change it is the file.  Unless the file could not be read after *)
(* its size was sent: then the "-1" of the error may be taken for it.      *)
CopiaFiel ==
  solicitante.pc = "ok" /\ ~servidor.error =>
    /\ Len(local.datos) = servidor.tam
    /\ \A i \in 1..Len(local.datos) : local.datos[i] \in fue[i]

(* A requester that took the whole of a file that did not change has not   *)
(* killed the listener that served it: it never hangs up while there is    *)
(* something to send.                                                      *)
EscuchaSobrevive ==
  solicitante.pc = "ok" /\ ~servidor.error /\ cambios = 0 => servidor.pc # "fin"

-----------------------------------------------------------------------------
(***************************************************************************)
(* Why the copy is faithful.                                               *)
(***************************************************************************)
ContenidoAnotado ==
  \A i \in DOMAIN fichero.datos : fichero.datos[i] \in fue[i]

(* There is one size, and it is sent once. *)
CabeceraFiel ==
  /\ En("getsize") => cabecera = SinCabecera
  /\ cabecera >= 0 => cabecera = servidor.tam

(* The requester has written what it no longer waits for. *)
CuentaFiel ==
  /\ solicitante.pc = "tam" => local.datos = <<>>
  /\ solicitante.pc \in {"recv", "ok"} =>
       cabecera >= 0 /\ Len(local.datos) + solicitante.pendientes = servidor.tam
  /\ solicitante.pc = "ok" => solicitante.pendientes = 0

(* What was written and what is on its way, one after the other, are bytes *)
(* of the file in their places, as many as were sent unless some are lost. *)
FlujoFiel ==
  /\ \A i \in DOMAIN local.datos : local.datos[i] \in fue[i]
  /\ \A j \in DOMAIN canal : canal[j] \in fue[Len(local.datos) + j]
  /\ Len(local.datos) + Len(canal) <= servidor.pos
  /\ LlegaAlOtro => Len(local.datos) + Len(canal) = servidor.pos

(* The listener fails to send only when the other end is not there, and,   *)
(* if it had sent the size, it still had something to send.                *)
EnvioFallido ==
  En("except") \/ En("fin") =>
    /\ ~LlegaAlOtro
    /\ cambios = 0 /\ cabecera >= 0 => servidor.pos < servidor.tam

(* What every step preserves, and the proofs rest on. *)
IInv ==
  /\ TypeOK
  /\ ContenidoAnotado
  /\ CabeceraFiel
  /\ CuentaFiel
  /\ ~servidor.error /\ solicitante.pc # "fallo" => FlujoFiel
  /\ ~servidor.error => EnvioFallido
  /\ cambios = 0 /\ (En("open") \/ En("read")) => servidor.tam = Len(fichero.datos)
-----------------------------------------------------------------------------
(* GETFILE ends, whatever becomes of the file or the connection. *)
TransferenciaTermina == solicitante.pc \in {"tam", "recv"} ~> Colgado
=============================================================================
