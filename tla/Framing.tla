------------------------------ MODULE Framing ------------------------------
(***************************************************************************)
(* mensajes.c: how the fields of a request cross a TCP connection.         *)
(*                                                                         *)
(* One end writes each field, with its zero byte, by sendMessage, which    *)
(* goes on after a partial write.  The other end reads as many times as    *)
(* its handler needs, one readLine each, byte by byte.  In between is the  *)
(* buffer of a socket.  The writer may stop half way and close, in good    *)
(* order or not.                                                           *)
(*                                                                         *)
(* readLine ends at a zero byte and also at a line feed, so what it reads  *)
(* are not the fields but the pieces ("tramos") between one of the two and *)
(* the next: a field with line feeds in it is several pieces, and only the *)
(* last of them ends with the zero byte.                                   *)
(*                                                                         *)
(* Both ends are those of mensajes.c.  In the system each of them talks to *)
(* its counterpart in client.py, sendall and _read_string, which write and *)
(* read the same bytes.                                                    *)
(***************************************************************************)
EXTENDS Integers, Sequences, SequencesExt

CONSTANTS
  Letras,       (* the characters of the fields, the line feed apart *)
  CERO,         (* the zero byte that ends a field *)
  SALTO,        (* the line feed *)
  Basura,       (* what a buffer holds that nobody has written *)
  NumTramos,    (* pieces of the request *)
  NumLecturas,  (* calls of readLine that the handler makes *)
  MaxLargo,     (* bound: length of a piece *)
  N,            (* size of the buffer given to readLine *)
  Capacidad     (* bytes that fit in the socket buffer *)

ASSUME ConstantesFraming ==
  /\ CERO \notin Letras /\ SALTO \notin Letras /\ CERO # SALTO
  /\ NumTramos \in Nat \ {0}
  /\ NumLecturas \in 1..NumTramos
  /\ MaxLargo \in Nat
  /\ N \in Nat \ {0}
  /\ Capacidad \in Nat \ {0}

VARIABLES
  tramos,       (* the request of the client, piece by piece *)
  escritor,     (* sendMessage: where its field starts, its bytes still to go *)
  conexion,     (* "abierta", "cerrada" (end of file) or "rota" (reset) *)
  canal,        (* bytes written and not yet read *)
  lector,       (* readLine: what it has stored *)
  leidos        (* what the calls of readLine have returned, in order *)

vars == <<tramos, escritor, conexion, canal, lector, leidos>>
emisor == <<tramos, escritor>>
-----------------------------------------------------------------------------
Textos == UNION {[1..k -> Letras] : k \in 0..MaxLargo}

Finales == {CERO, SALTO}

Tramos == [texto : Textos, fin : Finales]

(* The bytes of the first k pieces of c. *)
Hasta(c, k) == FlattenSeq([j \in 1..k |-> Append(c[j].texto, c[j].fin)])

(* The field that starts at the k-th piece ends at the next zero byte. *)
FinDeCampo(c, k) == Min({j \in k..NumTramos : c[j].fin = CERO})

(* sendMessage is called with the field and its zero byte: of the request  *)
(* up to it, what is behind the fields before.                             *)
EnCampo(k) ==
  [tramo |-> k,
   resto |-> IF k > NumTramos THEN <<>>
             ELSE LET h == Hasta(tramos, FinDeCampo(tramos, k))
                  IN  SubSeq(h, Len(Hasta(tramos, k - 1)) + 1, Len(h))]

Init ==
  /\ tramos \in [1..NumTramos -> Tramos]
  /\ tramos[NumTramos].fin = CERO
  /\ escritor = EnCampo(1)
  /\ conexion = "abierta"
  /\ canal = <<>>
  /\ lector = <<>>
  /\ leidos = <<>>

TodoEscrito == escritor.tramo > NumTramos

(* The handler stops at the first readLine that returns -1. *)
Terminado ==
  Len(leidos) = NumLecturas \/ \E i \in DOMAIN leidos : leidos[i].ret = -1

Leyendo == ~Terminado
-----------------------------------------------------------------------------
sendMessage_SinAvanzar ==
  \E r \in 1..Len(escritor.resto) :
    /\ conexion = "abierta"
    /\ Len(canal) + r <= Capacidad
    /\ canal' = canal \o SubSeq(escritor.resto, 1, r)
    /\ escritor' = IF r = Len(escritor.resto)
                   THEN EnCampo(FinDeCampo(tramos, escritor.tramo) + 1)
                   ELSE [escritor EXCEPT !.resto = SubSeq(@, 1, Len(@) - r)]
    /\ UNCHANGED <<tramos, conexion, lector, leidos>>

(* One turn of the loop: write takes r of the l bytes that are left, no    *)
(* more than fit, and blocks while none does.  With none left sendMessage  *)
(* returns 0 and the caller sends the next field.                          *)
sendMessage ==
  \E r \in 1..Len(escritor.resto) :
    /\ conexion = "abierta"
    /\ Len(canal) + r <= Capacidad
    /\ canal' = canal \o SubSeq(escritor.resto, 1, r)
    /\ escritor' = IF r = Len(escritor.resto)
                   THEN EnCampo(FinDeCampo(tramos, escritor.tramo) + 1)
                   ELSE [escritor EXCEPT !.resto = SubSeq(@, r + 1, Len(@))]
    /\ UNCHANGED <<tramos, conexion, lector, leidos>>

(* The writer closes: it is done, a write returned -1, or it was killed. *)
cerrar ==
  /\ conexion = "abierta"
  /\ conexion' \in {"cerrada", "rota"}
  /\ UNCHANGED <<emisor, canal, lector, leidos>>
-----------------------------------------------------------------------------
(* readLine returns ret.  The caller does not see fin, why it did.         *)
Devolver(ret, texto, fin) ==
  /\ leidos' = Append(leidos, [ret |-> ret, texto |-> texto, fin |-> fin])
  /\ lector' = <<>>
  /\ UNCHANGED <<emisor, conexion>>

Leer(byte) ==
  /\ Leyendo
  /\ canal # <<>>
  /\ byte = Head(canal)
  /\ canal' = Tail(canal)

readLine_letra_EnElLimite(ch) ==
  /\ Len(lector) < N - 1
  /\ Leer(ch)
  /\ IF Len(lector) + 1 = N - 1
     THEN Devolver(N - 1, Append(lector, ch), "limite")
     ELSE /\ lector' = Append(lector, ch)
          /\ UNCHANGED <<emisor, conexion, leidos>>

readLine_letra_UnaMas(ch) ==
  /\ Leer(ch)
  /\ lector' = IF Len(lector) < N THEN Append(lector, ch) ELSE lector
  /\ UNCHANGED <<emisor, conexion, leidos>>

(* A letter is stored if the buffer has room for it and dropped if not. *)
readLine_letra(ch) ==
  /\ Leer(ch)
  /\ lector' = IF Len(lector) < N - 1 THEN Append(lector, ch) ELSE lector
  /\ UNCHANGED <<emisor, conexion, leidos>>

(* A line feed or a zero byte: what has been stored is returned. *)
readLine_fin(byte) ==
  /\ Leer(byte)
  /\ Devolver(Len(lector), lector, "terminador")

readLine_eof_Reintentando ==
  /\ Leyendo /\ canal = <<>> /\ conexion = "cerrada"
  /\ \/ lector # <<>> /\ Devolver(Len(lector), lector, "eof")
     \/ lector = <<>> /\ UNCHANGED <<emisor, conexion, lector, leidos>>
  /\ UNCHANGED canal

(* read returns 0.  With nothing stored the call returns before it writes  *)
(* the final zero: the caller's buffer is as it was.                       *)
readLine_eof ==
  /\ Leyendo /\ canal = <<>> /\ conexion = "cerrada"
  /\ Devolver(Len(lector),
              IF lector = <<>> THEN Basura ELSE lector, "eof")
  /\ UNCHANGED canal

(* read returns -1: what had arrived before the reset may be lost.  EINTR, *)
(* which only reads again, is a step that changes nothing.                 *)
readLine_error ==
  /\ Leyendo /\ conexion = "rota"
  /\ Devolver(-1, Basura, "error")
  /\ UNCHANGED canal

readLine ==
  \/ \E ch \in Letras : readLine_letra(ch)
  \/ \E byte \in Finales : readLine_fin(byte)
  \/ readLine_eof
  \/ readLine_error

(* The handler has its request, or has given up, and the writer is gone. *)
Fin ==
  /\ Terminado
  /\ conexion # "abierta"
  /\ UNCHANGED vars

Next == sendMessage \/ cerrar \/ readLine \/ Fin

Spec == Init /\ [][Next]_vars

(* The handler's thread runs.  Nothing is assumed of the writer, which may *)
(* keep the connection open and silent: the code has no time-out for it.   *)
FairSpec == Spec /\ WF_vars(readLine)
-----------------------------------------------------------------------------
Byte == Letras \cup Finales

(* Ranges of the variables. *)
TypeOK ==
  /\ tramos \in [1..NumTramos -> Tramos]
  /\ escritor.tramo \in 1..(NumTramos + 1)
  /\ Range(escritor.resto) \subseteq Byte
  /\ conexion \in {"abierta", "cerrada", "rota"}
  /\ Range(canal) \subseteq Byte /\ Len(canal) <= Capacidad
  /\ lector \in Seq(Letras) /\ Len(lector) < N
  /\ \A i \in DOMAIN leidos : leidos[i].ret \in -1..(N - 1)

Truncado(s) == IF Len(s) < N THEN s ELSE SubSeq(s, 1, N - 1)

(* The i-th readLine of a handler is about the i-th piece of the request   *)
(* and no other: it gives that piece, cut to the buffer, or what had come  *)
(* of it before the end of the file.  In particular a piece too long for   *)
(* its buffer leaves nothing behind for the next readLine, and partial     *)
(* writes leave no seam.  The pieces are the fields as long as no field    *)
(* has a line feed in it: behind one, every readLine is a field late       *)
(* (mensajes.c:34).                                                        *)
SinMezcla ==
  \A i \in DOMAIN leidos :
    LET l == leidos[i] IN
    /\ l.fin = "terminador" => l.texto = Truncado(tramos[i].texto)
    /\ l.fin # "terminador" =>
         l.texto = Basura \/ IsPrefix(l.texto, Truncado(tramos[i].texto))

(* The request up to the field being sent, and what of it is not read yet. *)
Enviado ==
  Hasta(tramos, IF TodoEscrito THEN NumTramos ELSE FinDeCampo(tramos, escritor.tramo))

PorLeer == canal \o escritor.resto

(* However write splits a field, the bytes on their way and those still to *)
(* be written are the end of the request up to the field being sent:       *)
(* nothing is lost, repeated or out of order.                              *)
BytesEnOrden == IsSuffix(PorLeer, Enviado)

(***************************************************************************)
(* The inductive invariant behind SinMezcla and BytesEnOrden: where in the *)
(* request the reader is.                                                  *)
(***************************************************************************)
Lectura == [ret : -1..(N - 1), texto : Seq(Letras) \cup {Basura},
            fin : {"terminador", "eof", "error"}]

Formas ==
  /\ tramos[NumTramos].fin = CERO
  /\ escritor \in [tramo : 1..(NumTramos + 1), resto : Seq(Byte)]
  /\ canal \in Seq(Byte)
  /\ TodoEscrito => escritor.resto = <<>>
  /\ leidos \in Seq(Lectura) /\ Len(leidos) <= NumLecturas
  /\ Terminado => lector = <<>>

(* How many bytes of the request have been read. *)
Leido == Len(Enviado) - Len(PorLeer)

EnOrden ==
  /\ Leido \in Nat
  /\ \A j \in 1..Len(PorLeer) : PorLeer[j] = Enviado[Leido + j]

TodosEnteros == \A i \in DOMAIN leidos : leidos[i].fin = "terminador"

(* Every readLine before this one ended with a piece, and this one has     *)
(* read r letters of the next: it stores the first of them.                *)
EnSuTramo ==
  LET i == Len(leidos) + 1
      r == Leido - Len(Hasta(tramos, Len(leidos)))
  IN  IF i > NumTramos THEN r = 0
      ELSE r \in 0..Len(tramos[i].texto) /\ lector = Truncado(SubSeq(tramos[i].texto, 1, r))

(* Or the writer is gone, and there is nothing left to take for a piece. *)
SinMas == lector = <<>> /\ (Terminado \/ (canal = <<>> /\ conexion = "cerrada"))

IInv ==
  /\ TypeOK /\ Formas /\ EnOrden /\ SinMezcla
  /\ IF TodosEnteros THEN EnSuTramo ELSE SinMas

(* A handler never waits for ever for a client that has sent its request   *)
(* or is gone.                                                             *)
LecturaTermina == (TodoEscrito \/ conexion # "abierta") ~> Terminado
-----------------------------------------------------------------------------
(* server.c:61, "Lectura exitosa", once readLine was not negative: the     *)
(* handler has the whole piece, up to the size of its buffer.              *)
LecturaExitosa ==
  \A i \in DOMAIN leidos : leidos[i].ret >= 0 => leidos[i].texto = Truncado(tramos[i].texto)
=============================================================================
