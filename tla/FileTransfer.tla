---------------------------- MODULE FileTransfer ----------------------------
(***************************************************************************)
(* GETFILE: getFile() of client.py in one client and the GET_FILE branch   *)
(* of the listener in another, once the connection is made.                *)
(*                                                                         *)
(* The listener sends the size of the file and then its bytes, block by    *)
(* block, or "-1" when it cannot: as the size, or, if the size was sent,   *)
(* where the requester takes it for contents.  Meanwhile the file may be   *)
(* written or removed, the connection break, and either program die.       *)
(***************************************************************************)
EXTENDS Integers, Sequences, FiniteSets, SequencesExt

CONSTANTS
  Bytes,        (* what a file is made of *)
  MaxTam,       (* bound: size of the file *)
  Bloque,       (* bytes that are read or received at a time: 4096 *)
  MaxCambios    (* bound: changes of the file *)

ASSUME ConstantesFichero ==
  /\ MaxTam \in Nat /\ Bloque \in Nat \ {0} /\ MaxCambios \in Nat

VARIABLES
  fichero,      (* the file: whether it has a name yet, and its contents *)
  servidor,     (* the listener: program point, size sent, bytes read *)
  cabecera,     (* the size on its way: none yet, a number, or "-1" *)
  canal,        (* the bytes on their way *)
  conexion,     (* "abierta", "cerrada" by the listener, or "rota" *)
  solicitante,  (* getFile(): program point, bytes_pendientes *)
  local,        (* local_file: nothing, or what has been written to it *)
  cambios,      (* how often the file changed, for MaxCambios *)
  fue           (* history: the bytes that have been at each position *)

vars == <<fichero, servidor, cabecera, canal, conexion, solicitante, local,
          cambios, fue>>
emisor == <<fichero, servidor, cambios, fue>>
receptor == <<solicitante, local>>
-----------------------------------------------------------------------------
Contenidos == UNION {[1..k -> Bytes] : k \in 0..MaxTam}

Nada == [existe |-> FALSE, datos |-> <<>>]

ConDatos(s) == [existe |-> TRUE, datos |-> s]

SinCabecera == -2

MenosUno == <<"-", "1", "0">>

Anotar(datos) ==
  [i \in 1..MaxTam |-> fue[i] \cup (IF i \in DOMAIN datos THEN {datos[i]} ELSE {})]

Init ==
  /\ fichero \in {ConDatos(s) : s \in Contenidos} \cup {Nada}
  /\ servidor = [pc |-> "getsize", tam |-> 0, pos |-> 0, error |-> FALSE]
  /\ cabecera = SinCabecera
  /\ canal = <<>>
  /\ conexion = "abierta"
  /\ solicitante = [pc |-> "tam", pendientes |-> 0]
  /\ local = Nada
  /\ cambios = 0
  /\ fue = [i \in 1..MaxTam |-> IF i \in DOMAIN fichero.datos
                                THEN {fichero.datos[i]} ELSE {}]

(* The requester has closed its end: it is done, has failed or died. *)
Colgado == solicitante.pc \notin {"tam", "recv"}

(* What sendall() writes arrives only then.  If not it raises an exception *)
(* or, for all the listener knows, it has sent it.                         *)
LlegaAlOtro == conexion = "abierta" /\ ~Colgado
-----------------------------------------------------------------------------
(***************************************************************************)
(* The listener.                                                           *)
(***************************************************************************)
En(punto) == servidor.pc = punto

Ir(punto) == servidor' = [servidor EXCEPT !.pc = punto]

QuedaPorEnviar ==
  \/ En("getsize") /\ fichero.existe
  \/ En("read") /\ servidor.pos < Len(fichero.datos)

(* An OSError of the file, at any moment, or of a sendall(). *)
OSError ==
  /\ servidor.pc \in {"getsize", "open", "read"}
  /\ \/ servidor' = [servidor EXCEPT !.pc = "except", !.error = TRUE]
     \/ QuedaPorEnviar /\ ~LlegaAlOtro /\ Ir("except")
  /\ UNCHANGED <<fichero, cambios, fue, cabecera, canal, conexion, receptor>>

getsize ==
  /\ En("getsize") /\ fichero.existe
  /\ servidor' = [servidor EXCEPT !.pc = "open", !.tam = Len(fichero.datos)]
  /\ cabecera' = IF LlegaAlOtro THEN Len(fichero.datos) ELSE cabecera
  /\ UNCHANGED <<fichero, cambios, fue, canal, conexion, receptor>>

(* From here on the file is there even if its name is removed. *)
open ==
  /\ En("open") /\ fichero.existe
  /\ Ir("read")
  /\ UNCHANGED <<fichero, cambios, fue, cabecera, canal, conexion, receptor>>

Enviar(s) == canal' = IF LlegaAlOtro THEN canal \o s ELSE canal

Leido == IF servidor.pos + Bloque < Len(fichero.datos)
         THEN servidor.pos + Bloque ELSE Len(fichero.datos)

read_SinMirarLeido ==
  /\ En("read") /\ servidor.pos < Len(fichero.datos)
  /\ Enviar(SubSeq(fichero.datos, servidor.pos + 1, Leido))
  /\ servidor' = [servidor EXCEPT !.pos = servidor.pos + Bloque]
  /\ UNCHANGED <<fichero, cambios, fue, cabecera, conexion, receptor>>

(* f.read() and sendall() of one block. *)
read ==
  /\ En("read") /\ servidor.pos < Len(fichero.datos)
  /\ Enviar(SubSeq(fichero.datos, servidor.pos + 1, Leido))
  /\ servidor' = [servidor EXCEPT !.pos = Leido]
  /\ UNCHANGED <<fichero, cambios, fue, cabecera, conexion, receptor>>

Cerrar == conexion' = IF conexion = "abierta" THEN "cerrada" ELSE conexion

eof_SinCerrar ==
  /\ En("read") /\ servidor.pos >= Len(fichero.datos)
  /\ Ir("while")
  /\ UNCHANGED <<fichero, cambios, fue, cabecera, canal, conexion, receptor>>

(* The end of the file: conn.close(), and the listener goes on. *)
eof ==
  /\ En("read") /\ servidor.pos >= Len(fichero.datos)
  /\ Ir("while")
  /\ Cerrar
  /\ UNCHANGED <<fichero, cambios, fue, cabecera, canal, receptor>>

(* "-1", in the place of the size or after whatever was sent. *)
except ==
  /\ En("except")
  /\ \/ /\ cabecera = SinCabecera
        /\ cabecera' = IF LlegaAlOtro THEN -1 ELSE cabecera
        /\ UNCHANGED canal
     \/ /\ cabecera # SinCabecera
        /\ Enviar(MenosUno)
        /\ UNCHANGED cabecera
  /\ Ir("while")
  /\ Cerrar
  /\ UNCHANGED <<fichero, cambios, fue, receptor>>

(* That sendall() raises: out of the loop, and of the thread. *)
except_error ==
  /\ En("except") /\ ~LlegaAlOtro
  /\ Ir("fin")
  /\ Cerrar
  /\ UNCHANGED <<fichero, cambios, fue, cabecera, canal, receptor>>
-----------------------------------------------------------------------------
(***************************************************************************)
(* getFile().                                                              *)
(***************************************************************************)
Acabar(punto) == solicitante' = [solicitante EXCEPT !.pc = punto]

(* A number: the local file is opened, and what it had is gone. *)
recibir_tam ==
  /\ solicitante.pc = "tam"
  /\ cabecera >= 0
  /\ solicitante' = [pc |-> "recv", pendientes |-> cabecera]
  /\ local' = ConDatos(<<>>)
  /\ UNCHANGED <<emisor, cabecera, canal, conexion>>

(* "-1", nothing at all, or the local file cannot be opened. *)
fallar_tam ==
  /\ solicitante.pc = "tam"
  /\ cabecera # SinCabecera \/ conexion # "abierta"
  /\ Acabar("fallo")
  /\ UNCHANGED <<emisor, cabecera, canal, conexion, local>>

recibir_BloqueEntero ==
  /\ solicitante.pc = "recv" /\ solicitante.pendientes > 0
  /\ \E k \in 1..Len(canal) :
       /\ k <= Bloque /\ k <= solicitante.pendientes
       /\ local' = ConDatos(local.datos \o SubSeq(canal, 1, k))
       /\ canal' = SubSeq(canal, k + 1, Len(canal))
       /\ solicitante' = [solicitante EXCEPT !.pendientes = IF @ < Bloque THEN 0 ELSE @ - Bloque]
  /\ UNCHANGED <<emisor, cabecera, conexion>>

(* recv() gives some of the bytes, no more than are needed. *)
recibir ==
  /\ solicitante.pc = "recv" /\ solicitante.pendientes > 0
  /\ \E k \in 1..Len(canal) :
       /\ k <= Bloque /\ k <= solicitante.pendientes
       /\ local' = ConDatos(local.datos \o SubSeq(canal, 1, k))
       /\ canal' = SubSeq(canal, k + 1, Len(canal))
       /\ solicitante' = [solicitante EXCEPT !.pendientes = @ - k]
  /\ UNCHANGED <<emisor, cabecera, conexion>>

(* An end of file too early: the incomplete copy is removed. *)
cortado ==
  /\ solicitante.pc = "recv" /\ solicitante.pendientes > 0
  /\ canal = <<>> /\ conexion = "cerrada"
  /\ local' = Nada
  /\ Acabar("fallo")
  /\ UNCHANGED <<emisor, cabecera, canal, conexion>>

(* An error of the connection: FAILED, and what was written stays. *)
fallar ==
  /\ solicitante.pc = "recv" /\ conexion = "rota"
  /\ Acabar("fallo")
  /\ UNCHANGED <<emisor, cabecera, canal, conexion, local>>

terminar ==
  /\ solicitante.pc = "recv" /\ solicitante.pendientes = 0
  /\ Acabar("ok")
  /\ UNCHANGED <<emisor, cabecera, canal, conexion, local>>
-----------------------------------------------------------------------------
(***************************************************************************)
(* Somebody else writes or removes the file, the network breaks, either    *)
(* program dies.                                                           *)
(***************************************************************************)
cambiar ==
  /\ cambios < MaxCambios
  /\ fichero.existe
  /\ cambios' = cambios + 1
  /\ \/ \E s \in Contenidos : fichero' = ConDatos(s) /\ fue' = Anotar(s)
     \/ fichero' = [fichero EXCEPT !.existe = FALSE] /\ UNCHANGED fue
  /\ UNCHANGED <<servidor, cabecera, canal, conexion, receptor>>

(* What had not arrived may be lost. *)
romper ==
  /\ conexion = "abierta"
  /\ conexion' = "rota"
  /\ \E k \in 0..Len(canal) : canal' = SubSeq(canal, 1, k)
  /\ UNCHANGED <<emisor, cabecera, receptor>>

morir ==
  /\ servidor.pc \notin {"while", "fin", "muerto"}
  /\ Ir("muerto")
  /\ Cerrar
  /\ UNCHANGED <<fichero, cambios, fue, cabecera, canal, receptor>>

(* The requester dies, or its disk is full. *)
abandonar ==
  /\ ~Colgado
  /\ Acabar("fallo")
  /\ UNCHANGED <<emisor, cabecera, canal, conexion, local>>

Fin ==
  /\ Colgado /\ servidor.pc \in {"while", "fin", "muerto"}
  /\ UNCHANGED vars
-----------------------------------------------------------------------------
escuchar == OSError \/ getsize \/ open \/ read \/ eof \/ except \/ except_error

getFile == recibir_tam \/ fallar_tam \/ recibir \/ cortado \/ fallar \/ terminar

Next ==
  \/ escuchar
  \/ getFile
  \/ cambiar
  \/ romper
  \/ morir
  \/ abandonar
  \/ Fin

Spec == Init /\ [][Next]_vars

(* Both threads run: each call of the listener returns or raises, and what *)
(* has arrived, be it an end of file or an error, is received.             *)
FairSpec == Spec /\ WF_vars(escuchar) /\ WF_vars(getFile)
=============================================================================
