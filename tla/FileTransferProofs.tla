------------------------- MODULE FileTransferProofs -------------------------
(***************************************************************************)
(* A transfer that ends with OK is a faithful copy: for files and blocks   *)
(* of any size, whatever is received at a time, and whatever happens to    *)
(* the file, the connection and the two programs.                          *)
(***************************************************************************)
EXTENDS FileTransferProperties, SequenceTheorems, TLAPS

LEMMA Tipos ==
  ASSUME IInv
  PROVE  /\ fichero \in [existe : BOOLEAN, datos : Contenidos]
         /\ servidor \in Servidor
         /\ cabecera \in Int
         /\ canal \in Seq(Simbolos)
         /\ solicitante \in [pc : {"tam", "recv", "ok", "fallo"}, pendientes : 0..MaxTam]
         /\ local \in [existe : BOOLEAN, datos : Seq(Simbolos)]
         /\ cambios \in Nat
         /\ fue \in [1..MaxTam -> SUBSET Bytes]
         /\ MaxTam \in Nat
  BY ConstantesFichero DEF IInv, TypeOK, SinCabecera

(* A file is a sequence of bytes, not too long. *)
LEMMA DatosDe ==
  ASSUME NEW s \in Contenidos
  PROVE  /\ s \in Seq(Bytes) /\ s \in Seq(Simbolos)
         /\ Len(s) \in 0..MaxTam /\ DOMAIN s = 1..Len(s)
  <1>1. PICK k \in 0..MaxTam : s \in [1..k -> Bytes]
    BY DEF Contenidos
  <1>2. k \in Nat /\ s \in [1..k -> Simbolos]
    BY <1>1, ConstantesFichero DEF Simbolos
  <1>3. s \in Seq(Bytes) /\ s \in Seq(Simbolos) /\ Len(s) = k
    BY <1>1, <1>2, SeqDef, LenProperties
  <1>4. QED
    BY <1>1, <1>3

(* The first k elements of a sequence and the rest. *)
LEMMA Partir ==
  ASSUME NEW S, NEW s \in Seq(S), NEW k \in 0..Len(s)
  PROVE  /\ SubSeq(s, 1, k) \in Seq(S) /\ Len(SubSeq(s, 1, k)) = k
         /\ \A i \in 1..k : SubSeq(s, 1, k)[i] = s[i]
         /\ SubSeq(s, k + 1, Len(s)) \in Seq(S)
         /\ Len(SubSeq(s, k + 1, Len(s))) = Len(s) - k
         /\ \A i \in 1..(Len(s) - k) : SubSeq(s, k + 1, Len(s))[i] = s[k + i]
  BY SubSeqProperties, LenProperties

(* The elements after the m-th, to the n-th. *)
LEMMA Tramo ==
  ASSUME NEW S, NEW s \in Seq(S), NEW m \in Nat, NEW n \in Nat, m <= n, n <= Len(s)
  PROVE  /\ SubSeq(s, m + 1, n) \in Seq(S) /\ Len(SubSeq(s, m + 1, n)) = n - m
         /\ \A i \in 1..(n - m) : SubSeq(s, m + 1, n)[i] = s[m + i]
  <1>1. Len(s) \in Nat
    BY LenProperties
  <1>2. /\ m + 1 \in 1..(Len(s) + 1) /\ n \in (m + 1 - 1)..Len(s)
        /\ n - (m + 1) + 1 = n - m /\ \A i \in 1..(n - m) : (m + 1) + i - 1 = m + i
    BY <1>1
  <1> DEFINE p == m + 1
  <1>3. p \in 1..(Len(s) + 1) /\ n \in (p - 1)..Len(s)
    BY <1>2
  <1> HIDE DEF p
  <1>4. /\ SubSeq(s, p, n) \in Seq(S) /\ Len(SubSeq(s, p, n)) = n - p + 1
        /\ \A i \in 1..(n - p + 1) : SubSeq(s, p, n)[i] = s[p + i - 1]
    BY <1>3, SubSeqProperties
  <1>5. QED
    BY <1>2, <1>4 DEF p

(* The i-th of a block is the one that follows what was sent before. *)
LEMMA Posiciones ==
  ASSUME NEW pos \in Nat, NEW leido \in Int, NEW total \in Int, leido <= total,
         NEW escritos \in Nat, NEW enviados \in Nat, escritos + enviados = pos,
         NEW j \in Int, j - enviados \in 1..(leido - pos)
  PROVE  /\ pos + (j - enviados) \in 1..total
         /\ pos + (j - enviados) = escritos + j
  OBVIOUS

(* Two sequences, one after the other. *)
LEMMA Unir ==
  ASSUME NEW S, NEW s \in Seq(S), NEW t \in Seq(S)
  PROVE  /\ s \o t \in Seq(S) /\ Len(s \o t) = Len(s) + Len(t)
         /\ DOMAIN (s \o t) = 1..(Len(s) + Len(t))
         /\ \A i \in 1..Len(s) : (s \o t)[i] = s[i]
         /\ \A i \in (Len(s) + 1)..(Len(s) + Len(t)) : (s \o t)[i] = t[i - Len(s)]
  <1>1. /\ s \o t \in Seq(S) /\ Len(s \o t) = Len(s) + Len(t)
        /\ Len(s) \in Nat /\ Len(t) \in Nat
        /\ \A i \in 1..(Len(s) + Len(t)) :
             (s \o t)[i] = IF i <= Len(s) THEN s[i] ELSE t[i - Len(s)]
    BY ConcatProperties, LenProperties
  <1>2. DOMAIN (s \o t) = 1..(Len(s) + Len(t))
    BY <1>1, LenProperties
  <1>3. QED
    BY <1>1, <1>2
-----------------------------------------------------------------------------
(* The listener goes on without sending anything. *)
LEMMA ServidorVa ==
  ASSUME IInv, NEW punto \in {"open", "read", "except", "while", "fin", "muerto"}, Ir(punto),
         UNCHANGED <<fichero, cambios, fue, cabecera, canal, solicitante, local>>,
         UNCHANGED conexion \/ Cerrar,
         punto \in {"except", "fin"} /\ ~servidor.error =>
           ~LlegaAlOtro /\ (cambios = 0 /\ cabecera >= 0 => servidor.pos < servidor.tam),
         punto \in {"open", "read"} /\ cambios = 0 => servidor.tam = Len(fichero.datos)
  PROVE  IInv'
  <1>1. /\ servidor' \in Servidor /\ servidor'.pc = punto
        /\ servidor'.tam = servidor.tam /\ servidor'.pos = servidor.pos
        /\ servidor'.error = servidor.error
    BY Tipos DEF Ir, Servidor
  <1>2. /\ conexion' \in {"abierta", "cerrada", "rota"}
        /\ LlegaAlOtro' => LlegaAlOtro
    BY DEF IInv, TypeOK, Cerrar, LlegaAlOtro, Colgado
  <1>3. TypeOK'
    BY <1>1, <1>2 DEF IInv, TypeOK
  <1>4. ContenidoAnotado' /\ CabeceraFiel' /\ CuentaFiel'
    BY <1>1 DEF IInv, ContenidoAnotado, CabeceraFiel, CuentaFiel, En
  <1>5. FlujoFiel => FlujoFiel'
    BY <1>1, <1>2 DEF FlujoFiel
  <1>6. ~servidor'.error => EnvioFallido'
    BY <1>1, <1>2 DEF EnvioFallido, En
  <1>7. cambios' = 0 /\ (En("open") \/ En("read"))' => (servidor.tam = Len(fichero.datos))'
    BY <1>1 DEF En
  <1>8. QED
    BY <1>1, <1>3, <1>4, <1>5, <1>6, <1>7 DEF IInv

LEMMA open_Conserva ==
  ASSUME IInv, open \/ eof \/ except_error \/ morir
  PROVE  IInv'
  <1>1. CASE open
    BY <1>1, ServidorVa DEF open, receptor, IInv
  <1>2. CASE eof \/ morir
    BY <1>2, ServidorVa DEF eof, morir, receptor
  <1>3. CASE except_error
    <2>1. ~servidor.error => EnvioFallido
      BY DEF IInv
    <2>2. QED
      BY <1>3, <2>1, ServidorVa DEF except_error, receptor, EnvioFallido
  <1>4. QED
    BY <1>1, <1>2, <1>3

LEMMA OSError_Conserva ==
  ASSUME IInv, OSError
  PROVE  IInv'
  <1>1. UNCHANGED <<fichero, cambios, fue, cabecera, canal, conexion, solicitante, local>>
    BY DEF OSError, receptor
  <1>2. CASE servidor' = [servidor EXCEPT !.pc = "except", !.error = TRUE]
    <2>1. /\ servidor' \in Servidor /\ servidor'.pc = "except" /\ servidor'.error
          /\ servidor'.tam = servidor.tam
      BY <1>2, Tipos DEF Servidor
    <2>2. TypeOK'
      BY <1>1, <2>1 DEF IInv, TypeOK
    <2>3. ContenidoAnotado' /\ CabeceraFiel' /\ CuentaFiel'
      BY <1>1, <2>1 DEF IInv, ContenidoAnotado, CabeceraFiel, CuentaFiel, En
    <2>4. QED
      BY <2>1, <2>2, <2>3 DEF IInv, En
  <1>3. CASE QuedaPorEnviar /\ ~LlegaAlOtro /\ Ir("except")
    <2>1. cambios = 0 /\ cabecera >= 0 => servidor.pos < servidor.tam
      BY <1>3, Tipos DEF IInv, QuedaPorEnviar, CabeceraFiel, SinCabecera, En
    <2>2. QED
      BY <1>1, <1>3, <2>1, ServidorVa
  <1>4. QED
    BY <1>2, <1>3 DEF OSError
LEMMA getsize_Conserva ==
  ASSUME IInv, getsize
  PROVE  IInv'
  <1> DEFINE n == Len(fichero.datos)
  <1>1. /\ servidor.pc = "getsize" /\ servidor' = [servidor EXCEPT !.pc = "open", !.tam = n]
        /\ cabecera' = IF LlegaAlOtro THEN n ELSE cabecera
        /\ UNCHANGED <<fichero, cambios, fue, canal, conexion, solicitante, local>>
    BY DEF getsize, En, receptor
  <1>2. n \in 0..MaxTam /\ cabecera = SinCabecera
    BY <1>1, Tipos, DatosDe DEF IInv, CabeceraFiel, En
  <1>3. /\ servidor' \in Servidor /\ servidor'.pc = "open" /\ servidor'.tam = n
        /\ servidor'.pos = servidor.pos /\ servidor'.error = servidor.error
    <2> HIDE DEF n
    <2>1. QED
      BY <1>1, <1>2, Tipos DEF Servidor
  <1>4. TypeOK'
    BY <1>1, <1>2, <1>3 DEF IInv, TypeOK
  <1>5. solicitante.pc \notin {"recv", "ok"}
    BY <1>2 DEF IInv, CuentaFiel, SinCabecera
  <1>6. CabeceraFiel'
    BY <1>1, <1>2, <1>3 DEF CabeceraFiel, En, SinCabecera
  <1>7. ContenidoAnotado' /\ CuentaFiel'
    BY <1>1, <1>5 DEF IInv, ContenidoAnotado, CuentaFiel
  <1>8. FlujoFiel => FlujoFiel'
    BY <1>1, <1>3 DEF FlujoFiel, LlegaAlOtro, Colgado
  <1>9. QED
    BY <1>1, <1>3, <1>4, <1>6, <1>7, <1>8 DEF IInv, EnvioFallido, En

(* If a stands received, b in flight and p read, and the next read reaches q, then the
   q - p symbols that join the flight keep received and in flight equal to read. *)
LEMMA RestoEnviado ==
  ASSUME NEW a \in Int, NEW b \in Int, NEW p \in Int, NEW q \in Int, a + b = p
  PROVE  a + (b + (q - p)) = q
  OBVIOUS

(* A block is sent: what follows what was sent before. *)
LEMMA read_Conserva ==
  ASSUME IInv, read
  PROVE  IInv'
  <1> DEFINE d == fichero.datos
             bloque == SubSeq(fichero.datos, servidor.pos + 1, Leido)
  <1>1. /\ servidor.pc = "read" /\ servidor.pos < Len(d)
        /\ servidor' = [servidor EXCEPT !.pos = Leido]
        /\ canal' = IF LlegaAlOtro THEN canal \o bloque ELSE canal
        /\ UNCHANGED <<fichero, cambios, fue, cabecera, conexion, solicitante, local>>
    BY DEF read, En, receptor, Enviar
  <1>2. /\ d \in Seq(Simbolos) /\ Len(d) \in 0..MaxTam /\ DOMAIN d = 1..Len(d)
        /\ servidor.pos \in Nat
    BY Tipos, DatosDe DEF Servidor
  <1>3. Leido \in servidor.pos..Len(d) /\ Leido \in 0..MaxTam
    BY <1>1, <1>2, ConstantesFichero DEF Leido
  <1>4. /\ bloque \in Seq(Simbolos) /\ Len(bloque) = Leido - servidor.pos
        /\ \A i \in 1..Len(bloque) : bloque[i] = d[servidor.pos + i]
    <2>1. Leido \in Nat /\ servidor.pos <= Leido /\ Leido <= Len(fichero.datos)
      BY <1>2, <1>3
    <2>2. /\ bloque \in Seq(Simbolos) /\ Len(bloque) = Leido - servidor.pos
          /\ \A i \in 1..(Leido - servidor.pos) : bloque[i] = d[servidor.pos + i]
      BY <1>2, <2>1, Tramo
    <2>3. QED
      BY <2>2
  <1>5. /\ servidor' \in Servidor /\ servidor'.pc = "read" /\ servidor'.pos = Leido
        /\ servidor'.tam = servidor.tam /\ servidor'.error = servidor.error
    BY <1>1, <1>3, Tipos DEF Servidor
  <1> HIDE DEF bloque
  <1>6. canal \in Seq(Simbolos) /\ Len(canal) \in Nat
    BY Tipos, LenProperties
  <1>7. /\ canal \o bloque \in Seq(Simbolos)
        /\ Len(canal \o bloque) = Len(canal) + Len(bloque)
        /\ DOMAIN (canal \o bloque) = 1..(Len(canal) + Len(bloque))
        /\ \A j \in 1..Len(canal) : (canal \o bloque)[j] = canal[j]
        /\ \A j \in (Len(canal) + 1)..(Len(canal) + Len(bloque)) :
             (canal \o bloque)[j] = bloque[j - Len(canal)]
    BY <1>4, <1>6, Unir
  <1>8. TypeOK'
    BY <1>1, <1>5, <1>6, <1>7 DEF IInv, TypeOK
  <1>9. ContenidoAnotado' /\ CabeceraFiel' /\ CuentaFiel'
    BY <1>1, <1>5 DEF IInv, ContenidoAnotado, CabeceraFiel, CuentaFiel, En
  <1>10. ASSUME FlujoFiel PROVE FlujoFiel'
    <2>1. Len(local.datos) \in Nat
      BY Tipos, LenProperties
    <2>2. CASE ~LlegaAlOtro
      <3>1. canal' = canal /\ ~LlegaAlOtro'
        BY <1>1, <2>2 DEF LlegaAlOtro, Colgado
      <3>2. Len(local.datos) + Len(canal) <= servidor'.pos
        BY <1>2, <1>3, <1>5, <1>6, <1>10, <2>1 DEF FlujoFiel
      <3>3. QED
        BY <1>1, <1>10, <3>1, <3>2 DEF FlujoFiel
    <2>3. CASE LlegaAlOtro
      <3>1. Len(local.datos) + Len(canal) = servidor.pos
        BY <1>10, <2>3 DEF FlujoFiel
      <3>2. canal' = canal \o bloque /\ Len(canal') = Len(canal) + Len(bloque)
        BY <1>1, <1>7, <2>3
      <3>3. Len(local.datos) + Len(canal') = servidor'.pos
        <4>1. /\ servidor'.pos = Leido /\ Len(canal') = Len(canal) + (Leido - servidor.pos)
              /\ Leido \in Int /\ servidor.pos \in Int
          BY <1>2, <1>3, <1>4, <1>5, <3>2
        <4>2. QED
          BY <1>6, <2>1, <3>1, <4>1, RestoEnviado
      <3>4. ASSUME NEW j \in DOMAIN canal'
            PROVE  canal'[j] \in fue[Len(local.datos) + j]
        <4>1. j \in 1..(Len(canal) + Len(bloque))
          BY <1>7, <3>2
        <4>2. CASE j <= Len(canal)
          <5>1. j \in DOMAIN canal /\ canal'[j] = canal[j]
            BY <1>6, <1>7, <3>2, <4>1, <4>2, LenProperties
          <5>2. QED
            BY <1>10, <5>1 DEF FlujoFiel
        <4>3. CASE j > Len(canal)
          <5> DEFINE i == j - Len(canal)
          <5>1. i \in 1..Len(bloque) /\ canal'[j] = bloque[i]
            BY <1>2, <1>3, <1>4, <1>6, <1>7, <3>2, <4>1, <4>3
          <5>2. canal'[j] = d[servidor.pos + i]
            BY <1>4, <5>1
          <5>3. /\ servidor.pos + i \in 1..Len(d)
                /\ servidor.pos + i = Len(local.datos) + j
            <6>1. i \in 1..(Leido - servidor.pos)
              BY <1>4, <5>1
            <6>2. j \in Int /\ Len(d) \in Int /\ Leido \in Int /\ Leido <= Len(d)
              BY <1>2, <1>3, <1>4, <1>6, <4>1
            <6>3. /\ servidor.pos \in Nat /\ Len(local.datos) \in Nat /\ Len(canal) \in Nat
                  /\ j - Len(canal) \in 1..(Leido - servidor.pos)
              BY <1>2, <1>6, <2>1, <6>1
            <6> HIDE DEF d, i
            <6>4. /\ servidor.pos + (j - Len(canal)) \in 1..Len(d)
                  /\ servidor.pos + (j - Len(canal)) = Len(local.datos) + j
              BY <3>1, <6>2, <6>3, Posiciones
            <6>5. QED
              BY <6>4 DEF i
          <5>4. d[servidor.pos + i] \in fue[servidor.pos + i]
            BY <1>2, <5>3 DEF IInv, ContenidoAnotado
          <5>5. QED
            BY <5>2, <5>3, <5>4
        <4>4. QED
          BY <1>6, <4>1, <4>2, <4>3
      <3>5. QED
        <4>1. /\ \A i \in DOMAIN local.datos : local.datos[i] \in fue[i]
              /\ UNCHANGED <<local, fue>>
          BY <1>1, <1>10 DEF FlujoFiel
        <4>2. Len(local.datos) + Len(canal') <= servidor'.pos
          BY <1>2, <1>3, <1>5, <3>3
        <4>3. QED
          BY <3>3, <3>4, <4>1, <4>2 DEF FlujoFiel
    <2>4. QED
      BY <2>2, <2>3
  <1>11. cambios = 0 => servidor.tam = Len(d)
    BY <1>1 DEF IInv, En
  <1>12. QED
    BY <1>1, <1>5, <1>8, <1>9, <1>10, <1>11 DEF IInv, EnvioFallido, En

(* The "-1": it only reaches the other end when the file could not be      *)
(* read, since the listener fails to send only when nobody is there.       *)
LEMMA except_Conserva ==
  ASSUME IInv, except
  PROVE  IInv'
  <1>1. /\ servidor.pc = "except" /\ Ir("while") /\ Cerrar
        /\ UNCHANGED <<fichero, cambios, fue, solicitante, local>>
        /\ \/ /\ cabecera = SinCabecera
              /\ cabecera' = IF LlegaAlOtro THEN -1 ELSE cabecera
              /\ UNCHANGED canal
           \/ /\ canal' = IF LlegaAlOtro THEN canal \o MenosUno ELSE canal
              /\ UNCHANGED cabecera
    BY DEF except, En, receptor, Enviar
  <1>2. CASE ~LlegaAlOtro
    <2>1. UNCHANGED <<fichero, cambios, fue, cabecera, canal, solicitante, local>>
      BY <1>1, <1>2
    <2>2. QED
      BY <1>1, <2>1, ServidorVa
  <1>3. CASE LlegaAlOtro
    <2>1. servidor.error
      BY <1>1, <1>3 DEF IInv, EnvioFallido, En
    <2>2. /\ servidor' \in Servidor /\ servidor'.pc = "while" /\ servidor'.error
          /\ servidor'.tam = servidor.tam
      BY <1>1, <2>1, Tipos DEF Ir, Servidor
    <2>3. MenosUno \in Seq(Simbolos)
      <3>1. MenosUno = <<"-", "1", "0">> /\ {"-", "1", "0"} \subseteq Simbolos
        <4>1. DOMAIN MenosUno = 1..3 /\ MenosUno[1] = "-" /\ MenosUno[2] = "1" /\ MenosUno[3] = "0"
          BY DEF MenosUno
        <4>2. \A i \in 1..3 : MenosUno[i] \in Range(MenosUno)
          BY <4>1 DEF Range
        <4>3. QED
          BY <4>1, <4>2 DEF MenosUno, Simbolos
      <3>2. QED
        BY <3>1
    <2>4. canal' \in Seq(Simbolos) /\ conexion' \in {"abierta", "cerrada", "rota"}
      <3>1. canal \in Seq(Simbolos) /\ canal \o MenosUno \in Seq(Simbolos)
        BY <2>3, Tipos, Unir
      <3>2. canal' = canal \/ canal' = canal \o MenosUno
        BY <1>1, <1>3
      <3>3. conexion' \in {"abierta", "cerrada", "rota"}
        BY <1>1 DEF Cerrar, IInv, TypeOK
      <3>4. QED
        BY <3>1, <3>2, <3>3
    <2>5. /\ cabecera' \in {SinCabecera, -1} \cup 0..MaxTam
          /\ cabecera' >= 0 => cabecera' = cabecera
          /\ cabecera >= 0 => cabecera' = cabecera
      BY <1>1 DEF IInv, TypeOK, SinCabecera
    <2>6. TypeOK'
      BY <1>1, <2>2, <2>4, <2>5 DEF IInv, TypeOK
    <2>7. ContenidoAnotado' /\ CabeceraFiel' /\ CuentaFiel'
      BY <1>1, <2>2, <2>5 DEF IInv, ContenidoAnotado, CabeceraFiel, CuentaFiel, En
    <2>8. QED
      BY <2>2, <2>6, <2>7 DEF IInv, En
  <1>4. QED
    BY <1>2, <1>3
-----------------------------------------------------------------------------
(***************************************************************************)
(* getFile().                                                              *)
(***************************************************************************)
(* The requester stops: what it keeps is not a copy. *)
LEMMA Abandona ==
  ASSUME IInv, Acabar("fallo"), local' \in {local, Nada},
         UNCHANGED <<fichero, servidor, cambios, fue, cabecera, canal, conexion>>
  PROVE  IInv'
  <1>1. /\ solicitante' \in [pc : {"tam", "recv", "ok", "fallo"}, pendientes : 0..MaxTam]
        /\ solicitante'.pc = "fallo"
    BY Tipos DEF Acabar
  <1>2. local' \in [existe : BOOLEAN, datos : Seq(Simbolos)]
    <2>1. Nada \in [existe : BOOLEAN, datos : Seq(Simbolos)]
      BY EmptySeq DEF Nada
    <2>2. QED
      BY <2>1, Tipos
  <1>3. TypeOK'
    BY <1>1, <1>2 DEF IInv, TypeOK
  <1>4. ContenidoAnotado' /\ CabeceraFiel' /\ CuentaFiel' /\ ~LlegaAlOtro'
    BY <1>1 DEF IInv, ContenidoAnotado, CabeceraFiel, CuentaFiel, En, LlegaAlOtro, Colgado
  <1>5. QED
    BY <1>1, <1>3, <1>4 DEF IInv, EnvioFallido, En

LEMMA fallar_Conserva ==
  ASSUME IInv, fallar_tam \/ cortado \/ fallar \/ abandonar
  PROVE  IInv'
  BY Abandona DEF fallar_tam, cortado, fallar, abandonar, emisor

LEMMA recibir_tam_Conserva ==
  ASSUME IInv, recibir_tam
  PROVE  IInv'
  <1>1. /\ solicitante.pc = "tam" /\ cabecera >= 0
        /\ solicitante' = [pc |-> "recv", pendientes |-> cabecera]
        /\ local' = [existe |-> TRUE, datos |-> <<>>]
        /\ UNCHANGED <<fichero, servidor, cambios, fue, cabecera, canal, conexion>>
    BY DEF recibir_tam, emisor, ConDatos
  <1>2. cabecera = servidor.tam /\ cabecera \in 0..MaxTam
    BY <1>1, Tipos DEF IInv, CabeceraFiel, Servidor
  <1>3. /\ local.datos = <<>> /\ local'.datos = <<>> /\ Len(local'.datos) = 0
        /\ local' \in [existe : BOOLEAN, datos : Seq(Simbolos)]
    BY <1>1, EmptySeq DEF IInv, CuentaFiel
  <1>4. TypeOK'
    BY <1>1, <1>2, <1>3 DEF IInv, TypeOK
  <1>5. solicitante'.pc = "recv" /\ solicitante'.pendientes = cabecera
    BY <1>1
  <1>6. CuentaFiel'
    BY <1>1, <1>2, <1>3, <1>5, Tipos DEF CuentaFiel
  <1>7. ContenidoAnotado' /\ CabeceraFiel' /\ (LlegaAlOtro' <=> LlegaAlOtro)
    BY <1>1, <1>5 DEF IInv, ContenidoAnotado, CabeceraFiel, En, LlegaAlOtro, Colgado
  <1>8. FlujoFiel => FlujoFiel'
    BY <1>1, <1>3, <1>7 DEF FlujoFiel
  <1>9. EnvioFallido => EnvioFallido'
    BY <1>1, <1>7 DEF EnvioFallido, En
  <1>10. QED
    BY <1>1, <1>4, <1>6, <1>7, <1>8, <1>9 DEF IInv, En

(* Some bytes go from the channel to the file. *)
LEMMA recibir_Conserva ==
  ASSUME IInv, recibir
  PROVE  IInv'
  <1>1. /\ solicitante.pc = "recv" /\ solicitante.pendientes > 0
        /\ UNCHANGED <<fichero, servidor, cambios, fue, cabecera, conexion>>
    BY DEF recibir, emisor
  <1>2. PICK k \in 1..Len(canal) :
          /\ k <= solicitante.pendientes
          /\ local' = [existe |-> TRUE, datos |-> local.datos \o SubSeq(canal, 1, k)]
          /\ canal' = SubSeq(canal, k + 1, Len(canal))
          /\ solicitante' = [solicitante EXCEPT !.pendientes = solicitante.pendientes - k]
    BY DEF recibir, ConDatos
  <1> DEFINE l == local.datos
             a == SubSeq(canal, 1, k)
             r == SubSeq(canal, k + 1, Len(canal))
             c == l \o a
  <1>3. /\ canal \in Seq(Simbolos) /\ l \in Seq(Simbolos) /\ k \in 0..Len(canal)
        /\ Len(l) \in Nat /\ DOMAIN l = 1..Len(l)
        /\ Len(canal) \in Nat /\ DOMAIN canal = 1..Len(canal)
    BY Tipos, LenProperties
  <1>4. /\ a \in Seq(Simbolos) /\ Len(a) = k
        /\ r \in Seq(Simbolos) /\ Len(r) = Len(canal) - k /\ DOMAIN r = 1..(Len(canal) - k)
        /\ \A i \in 1..k : a[i] = canal[i]
        /\ \A i \in 1..(Len(canal) - k) : r[i] = canal[k + i]
    <2>1. /\ a \in Seq(Simbolos) /\ Len(a) = k
          /\ r \in Seq(Simbolos) /\ Len(r) = Len(canal) - k
          /\ \A i \in 1..k : a[i] = canal[i]
          /\ \A i \in 1..(Len(canal) - k) : r[i] = canal[k + i]
      BY <1>3, Partir
    <2> HIDE DEF a, r
    <2>2. DOMAIN r = 1..(Len(canal) - k)
      BY <2>1, LenProperties
    <2>3. QED
      BY <2>1, <2>2
  <1> HIDE DEF a, r
  <1>5. /\ c \in Seq(Simbolos) /\ Len(c) = Len(l) + k /\ DOMAIN c = 1..(Len(l) + k)
        /\ \A i \in 1..Len(l) : c[i] = l[i]
        /\ \A i \in (Len(l) + 1)..(Len(l) + k) : c[i] = a[i - Len(l)]
    <2>1. l \in Seq(Simbolos) /\ a \in Seq(Simbolos) /\ Len(a) = k
      BY <1>3, <1>4
    <2> HIDE DEF l
    <2>2. /\ c \in Seq(Simbolos) /\ Len(c) = Len(l) + Len(a)
          /\ DOMAIN c = 1..(Len(l) + Len(a))
          /\ \A i \in 1..Len(l) : c[i] = l[i]
          /\ \A i \in (Len(l) + 1)..(Len(l) + Len(a)) : c[i] = a[i - Len(l)]
      BY <2>1, Unir
    <2> HIDE DEF c
    <2>3. QED
      BY <2>1, <2>2
  <1>6. local' = [existe |-> TRUE, datos |-> c] /\ canal' = r
    BY <1>2 DEF a, r
  <1> HIDE DEF c
  <1>7. local'.datos = c /\ local' \in [existe : BOOLEAN, datos : Seq(Simbolos)]
    BY <1>5, <1>6
  <1>8. /\ solicitante' \in [pc : {"tam", "recv", "ok", "fallo"}, pendientes : 0..MaxTam]
        /\ solicitante'.pc = "recv"
        /\ solicitante'.pendientes = solicitante.pendientes - k
    <2> DEFINE n == solicitante.pendientes - k
    <2>1. solicitante' = [solicitante EXCEPT !.pendientes = n] /\ n \in 0..MaxTam
      BY <1>2, <1>3, Tipos
    <2> HIDE DEF n
    <2>2. /\ solicitante' \in [pc : {"tam", "recv", "ok", "fallo"}, pendientes : 0..MaxTam]
          /\ solicitante'.pc = "recv" /\ solicitante'.pendientes = n
      BY <1>1, <2>1, Tipos
    <2>3. QED
      BY <2>2 DEF n
  <1>9. TypeOK'
    BY <1>1, <1>4, <1>6, <1>7, <1>8 DEF IInv, TypeOK
  <1>10. CuentaFiel'
    <2>1. cabecera >= 0 /\ Len(l) + solicitante.pendientes = servidor.tam
      BY <1>1 DEF IInv, CuentaFiel
    <2>2. solicitante.pendientes \in Int /\ k \in Int /\ Len(l) \in Int
      BY <1>3, Tipos
    <2>3. Len(local'.datos) + solicitante'.pendientes = servidor.tam
      <3> HIDE DEF l
      <3>1. Len(local'.datos) = Len(l) + k
        BY <1>5, <1>7
      <3>2. QED
        BY <1>8, <2>1, <2>2, <3>1
    <2>4. QED
      BY <1>1, <1>8, <2>1, <2>3 DEF CuentaFiel
  <1>11. ContenidoAnotado' /\ CabeceraFiel' /\ (LlegaAlOtro' <=> LlegaAlOtro)
    BY <1>1, <1>8 DEF IInv, ContenidoAnotado, CabeceraFiel, En, LlegaAlOtro, Colgado
  <1>12. ASSUME FlujoFiel PROVE FlujoFiel'
    <2>1. \A i \in DOMAIN c : c[i] \in fue[i]
      <3> SUFFICES ASSUME NEW i \in 1..(Len(l) + k) PROVE c[i] \in fue[i]
        BY <1>5
      <3>1. CASE i <= Len(l)
        BY <1>3, <1>5, <1>12, <3>1 DEF FlujoFiel
      <3>2. CASE i > Len(l)
        <4> DEFINE j == i - Len(l)
        <4>1. j \in 1..k /\ j \in DOMAIN canal /\ i = Len(l) + j
          BY <1>3, <3>2
        <4>2. c[i] = canal[j]
          <5>1. i \in (Len(l) + 1)..(Len(l) + k)
            BY <1>3, <3>2
          <5>2. c[i] = a[j]
            BY <1>5, <5>1
          <5>3. QED
            BY <1>4, <4>1, <5>2
        <4>3. QED
          BY <1>12, <4>1, <4>2 DEF FlujoFiel
      <3>3. QED
        BY <1>3, <3>1, <3>2
    <2>2. \A j \in DOMAIN r : r[j] \in fue[Len(c) + j]
      <3> SUFFICES ASSUME NEW j \in 1..(Len(canal) - k) PROVE r[j] \in fue[Len(c) + j]
        BY <1>4
      <3>1. r[j] = canal[k + j] /\ k + j \in DOMAIN canal
        BY <1>3, <1>4
      <3>2. canal[k + j] \in fue[Len(l) + (k + j)]
        BY <1>12, <3>1 DEF FlujoFiel
      <3>3. Len(l) + (k + j) = Len(c) + j
        <4>1. k \in Int /\ j \in Int /\ Len(l) \in Int /\ Len(c) = Len(l) + k
          BY <1>3, <1>5
        <4> HIDE DEF l
        <4>2. QED
          BY <4>1
      <3>4. QED
        BY <3>1, <3>2, <3>3
    <2>3. Len(c) + Len(r) = Len(l) + Len(canal)
      BY <1>3, <1>4, <1>5
    <2>4. QED
      BY <1>1, <1>6, <1>7, <1>11, <1>12, <2>1, <2>2, <2>3 DEF FlujoFiel
  <1>13. EnvioFallido => EnvioFallido'
    BY <1>1, <1>11 DEF EnvioFallido, En
  <1>14. QED
    BY <1>1, <1>9, <1>10, <1>11, <1>12, <1>13 DEF IInv, En

LEMMA terminar_Conserva ==
  ASSUME IInv, terminar
  PROVE  IInv'
  <1>1. /\ solicitante.pc = "recv" /\ solicitante.pendientes = 0 /\ Acabar("ok")
        /\ UNCHANGED <<fichero, servidor, cambios, fue, cabecera, canal, conexion, local>>
    BY DEF terminar, emisor
  <1>2. /\ solicitante' \in [pc : {"tam", "recv", "ok", "fallo"}, pendientes : 0..MaxTam]
        /\ solicitante'.pc = "ok" /\ solicitante'.pendientes = 0
    BY <1>1, Tipos DEF Acabar
  <1>3. TypeOK'
    BY <1>1, <1>2 DEF IInv, TypeOK
  <1>4. ContenidoAnotado' /\ CabeceraFiel' /\ CuentaFiel' /\ ~LlegaAlOtro'
    BY <1>1, <1>2 DEF IInv, ContenidoAnotado, CabeceraFiel, CuentaFiel, En, LlegaAlOtro, Colgado
  <1>5. FlujoFiel => FlujoFiel'
    BY <1>1, <1>4 DEF FlujoFiel
  <1>6. EnvioFallido => EnvioFallido'
    BY <1>1, <1>4 DEF EnvioFallido, En
  <1>7. QED
    BY <1>1, <1>3, <1>4, <1>5, <1>6 DEF IInv, En
-----------------------------------------------------------------------------
(***************************************************************************)
(* The others.                                                             *)
(***************************************************************************)
LEMMA cambiar_Conserva ==
  ASSUME IInv, cambiar
  PROVE  IInv'
  <1>1. /\ cambios < MaxCambios /\ cambios' = cambios + 1
        /\ UNCHANGED <<servidor, cabecera, canal, conexion, solicitante, local>>
    BY DEF cambiar, receptor
  <1>2. /\ fichero' \in [existe : BOOLEAN, datos : Contenidos]
        /\ fue' \in [1..MaxTam -> SUBSET Bytes]
        /\ \A i \in 1..MaxTam : fue[i] \subseteq fue'[i]
        /\ ContenidoAnotado'
    <2>1. ASSUME NEW s \in Contenidos, fichero' = ConDatos(s), fue' = Anotar(s)
          PROVE  /\ fichero' \in [existe : BOOLEAN, datos : Contenidos]
                 /\ fue' \in [1..MaxTam -> SUBSET Bytes]
                 /\ \A i \in 1..MaxTam : fue[i] \subseteq fue'[i]
                 /\ ContenidoAnotado'
      <3>1. /\ s \in Seq(Bytes) /\ DOMAIN s = 1..Len(s) /\ Len(s) \in 0..MaxTam
            /\ \A i \in 1..Len(s) : s[i] \in Bytes
        BY DatosDe, ElementOfSeq
      <3>2. fichero'.datos = s /\ fichero' \in [existe : BOOLEAN, datos : Contenidos]
        BY <2>1 DEF ConDatos
      <3>3. \A i \in 1..MaxTam :
              fue'[i] = fue[i] \cup (IF i \in DOMAIN s THEN {s[i]} ELSE {})
        BY <2>1 DEF Anotar
      <3>4. fue' \in [1..MaxTam -> SUBSET Bytes]
        BY <2>1, <3>1, Tipos DEF Anotar
      <3>5. ContenidoAnotado'
        BY <3>1, <3>2, <3>3, ConstantesFichero DEF ContenidoAnotado
      <3>6. QED
        BY <3>2, <3>3, <3>4, <3>5
    <2>2. ASSUME fichero' = [fichero EXCEPT !.existe = FALSE], UNCHANGED fue
          PROVE  /\ fichero' \in [existe : BOOLEAN, datos : Contenidos]
                 /\ fue' \in [1..MaxTam -> SUBSET Bytes]
                 /\ \A i \in 1..MaxTam : fue[i] \subseteq fue'[i]
                 /\ ContenidoAnotado'
      <3>1. /\ fichero' \in [existe : BOOLEAN, datos : Contenidos]
            /\ fichero'.datos = fichero.datos
        BY <2>2, Tipos
      <3>2. QED
        BY <2>2, <3>1, Tipos DEF IInv, ContenidoAnotado
    <2>3. QED
      BY <2>1, <2>2 DEF cambiar
  <1>3. cambios' \in 0..MaxCambios /\ cambios' # 0
    BY <1>1, Tipos, ConstantesFichero
  <1>4. TypeOK'
    BY <1>1, <1>2, <1>3 DEF IInv, TypeOK
  <1>5. CabeceraFiel' /\ CuentaFiel' /\ (LlegaAlOtro' <=> LlegaAlOtro)
    BY <1>1 DEF IInv, CabeceraFiel, CuentaFiel, En, LlegaAlOtro, Colgado
  <1>6. ASSUME FlujoFiel PROVE FlujoFiel'
    <2>1. /\ Len(local.datos) \in Nat /\ DOMAIN local.datos = 1..Len(local.datos)
          /\ Len(canal) \in Nat /\ DOMAIN canal = 1..Len(canal)
          /\ servidor.pos \in 0..MaxTam
      BY Tipos, LenProperties DEF Servidor
    <2>2. Len(local.datos) + Len(canal) <= MaxTam
      BY <1>6, <2>1, ConstantesFichero DEF FlujoFiel
    <2>3. \A i \in DOMAIN local.datos : i \in 1..MaxTam
      BY <2>1, <2>2, ConstantesFichero
    <2>4. \A j \in DOMAIN canal : Len(local.datos) + j \in 1..MaxTam
      BY <2>1, <2>2, ConstantesFichero
    <2>5. QED
      BY <1>1, <1>2, <1>5, <1>6, <2>3, <2>4 DEF FlujoFiel
  <1>7. EnvioFallido => EnvioFallido'
    BY <1>1, <1>3, <1>5 DEF EnvioFallido, En
  <1>8. QED
    BY <1>1, <1>2, <1>3, <1>4, <1>5, <1>6, <1>7 DEF IInv

LEMMA romper_Conserva ==
  ASSUME IInv, romper
  PROVE  IInv'
  <1>1. /\ conexion' = "rota"
        /\ UNCHANGED <<fichero, servidor, cambios, fue, cabecera, solicitante, local>>
    BY DEF romper, emisor, receptor
  <1>2. PICK k \in 0..Len(canal) : canal' = SubSeq(canal, 1, k)
    BY DEF romper
  <1>3. canal \in Seq(Simbolos) /\ Len(canal) \in Nat /\ DOMAIN canal = 1..Len(canal)
    BY Tipos, LenProperties
  <1>4. /\ canal' \in Seq(Simbolos) /\ Len(canal') = k /\ DOMAIN canal' = 1..k
        /\ \A i \in 1..k : canal'[i] = canal[i]
    BY <1>2, <1>3, Partir, LenProperties
  <1>5. TypeOK' /\ ~LlegaAlOtro'
    BY <1>1, <1>4 DEF IInv, TypeOK, LlegaAlOtro
  <1>6. ContenidoAnotado' /\ CabeceraFiel' /\ CuentaFiel'
    BY <1>1 DEF IInv, ContenidoAnotado, CabeceraFiel, CuentaFiel, En
  <1>7. ASSUME FlujoFiel PROVE FlujoFiel'
    <2>1. Len(local.datos) \in Nat /\ servidor.pos \in Nat
      BY Tipos, LenProperties, ConstantesFichero DEF Servidor
    <2>2. \A j \in DOMAIN canal' : canal'[j] \in fue[Len(local.datos) + j]
      BY <1>3, <1>4, <1>7 DEF FlujoFiel
    <2>3. Len(local.datos) + Len(canal') <= servidor.pos
      BY <1>3, <1>4, <1>7, <2>1 DEF FlujoFiel
    <2>4. QED
      BY <1>1, <1>5, <1>7, <2>2, <2>3 DEF FlujoFiel
  <1>8. EnvioFallido => EnvioFallido'
    BY <1>1, <1>5 DEF EnvioFallido, En
  <1>9. QED
    BY <1>1, <1>5, <1>6, <1>7, <1>8 DEF IInv, En
-----------------------------------------------------------------------------
LEMMA InitIInv ==
  Init => IInv
  <1> SUFFICES ASSUME Init PROVE IInv
    OBVIOUS
  <1>1. <<>> \in Contenidos
    <2>1. <<>> \in [1..0 -> Bytes] /\ 0 \in 0..MaxTam
      BY ConstantesFichero
    <2>2. QED
      BY <2>1 DEF Contenidos
  <1>2. fichero \in [existe : BOOLEAN, datos : Contenidos]
    <2>1. CASE fichero = Nada
      BY <1>1, <2>1 DEF Nada
    <2>2. CASE \E s \in Contenidos : fichero = ConDatos(s)
      BY <2>2 DEF ConDatos
    <2>3. QED
      BY <2>1, <2>2 DEF Init
  <1>3. /\ fichero.datos \in Seq(Bytes) /\ DOMAIN fichero.datos = 1..Len(fichero.datos)
        /\ Len(fichero.datos) \in 0..MaxTam
        /\ \A i \in 1..Len(fichero.datos) : fichero.datos[i] \in Bytes
    BY <1>2, DatosDe, ElementOfSeq
  <1>4. fue \in [1..MaxTam -> SUBSET Bytes] /\ ContenidoAnotado
    <2>1. fue = [i \in 1..MaxTam |-> IF i \in DOMAIN fichero.datos
                                     THEN {fichero.datos[i]} ELSE {}]
      BY DEF Init
    <2>2. QED
      BY <1>3, <2>1, ConstantesFichero DEF ContenidoAnotado
  <1>5. /\ servidor \in Servidor /\ servidor.pc = "getsize" /\ servidor.pos = 0
        /\ local.datos = <<>> /\ local \in [existe : BOOLEAN, datos : Seq(Simbolos)]
        /\ solicitante \in [pc : {"tam", "recv", "ok", "fallo"}, pendientes : 0..MaxTam]
        /\ solicitante.pc = "tam"
        /\ cabecera = SinCabecera /\ canal = <<>> /\ cambios = 0 /\ conexion = "abierta"
    BY ConstantesFichero, EmptySeq DEF Init, Servidor, Nada
  <1>6. TypeOK
    BY <1>2, <1>4, <1>5, ConstantesFichero, EmptySeq DEF TypeOK
  <1>7. CabeceraFiel /\ CuentaFiel /\ FlujoFiel /\ EnvioFallido
    BY <1>5, EmptySeq DEF CabeceraFiel, CuentaFiel, FlujoFiel, EnvioFallido, En, SinCabecera
  <1>8. QED
    BY <1>4, <1>5, <1>6, <1>7 DEF IInv, En

LEMMA IInvInductivo ==
  IInv /\ [Next]_vars => IInv'
  <1> SUFFICES ASSUME IInv, [Next]_vars PROVE IInv'
    OBVIOUS
  <1>1. CASE UNCHANGED vars
    <2>1. UNCHANGED <<fichero, servidor, cabecera, canal, conexion, solicitante, local,
                      cambios, fue>>
      BY <1>1 DEF vars
    <2>2. TypeOK' /\ ContenidoAnotado' /\ CabeceraFiel' /\ CuentaFiel'
      BY <2>1 DEF IInv, TypeOK, ContenidoAnotado, CabeceraFiel, CuentaFiel, En
    <2>3. (FlujoFiel => FlujoFiel') /\ (EnvioFallido => EnvioFallido')
      BY <2>1 DEF FlujoFiel, EnvioFallido, LlegaAlOtro, Colgado, En
    <2>4. QED
      BY <2>1, <2>2, <2>3 DEF IInv, En
  <1>2. CASE escuchar
    BY <1>2, OSError_Conserva, getsize_Conserva, open_Conserva, read_Conserva,
       except_Conserva DEF escuchar
  <1>3. CASE getFile
    BY <1>3, recibir_tam_Conserva, recibir_Conserva, fallar_Conserva, terminar_Conserva
    DEF getFile
  <1>4. CASE cambiar \/ romper \/ morir \/ abandonar
    BY <1>4, cambiar_Conserva, romper_Conserva, open_Conserva, fallar_Conserva
  <1>5. QED
    BY <1>1, <1>2, <1>3, <1>4 DEF Next, Fin

(* For files and blocks of any size, and any number of changes (client.py, *)
(* the GET_FILE branch of _listener_thread, and getFile).                  *)
THEOREM Invariante == Spec => []IInv
  <1>1. QED
    BY InitIInv, IInvInductivo, PTL DEF Spec

(* The file, the two ends of the transfer and what is on its way have their *)
(* types in every reachable state (client.py, GETFILE and its listener).    *)
THEOREM TipoCorrecto == Spec => []TypeOK
  <1>1. IInv => TypeOK
    BY DEF IInv
  <1>2. QED
    BY Invariante, <1>1, PTL

(* FILE TRANSFER OK means as many bytes as were announced, each of them    *)
(* from its place in the file, if the file could be read (client.py:663).  *)
THEOREM CopiaSiempreFiel == Spec => []CopiaFiel
  <1>1. IInv => CopiaFiel
    <2> SUFFICES ASSUME IInv, solicitante.pc = "ok", ~servidor.error
                 PROVE  /\ Len(local.datos) = servidor.tam
                        /\ \A i \in 1..Len(local.datos) : local.datos[i] \in fue[i]
      BY DEF CopiaFiel
    <2>1. FlujoFiel /\ CuentaFiel
      BY DEF IInv
    <2>2. Len(local.datos) \in Nat /\ DOMAIN local.datos = 1..Len(local.datos)
      BY Tipos, LenProperties
    <2>3. QED
      BY <2>1, <2>2 DEF FlujoFiel, CuentaFiel
  <1>2. QED
    BY <1>1, Invariante, PTL

(* A requester that took all of it does not end the thread that served it  *)
(* (client.py:183, the exception that leaves the loop).                    *)
THEOREM EscuchaSigue == Spec => []EscuchaSobrevive
  <1>1. IInv => EscuchaSobrevive
    <2> SUFFICES ASSUME IInv, solicitante.pc = "ok", ~servidor.error, cambios = 0,
                        servidor.pc = "fin"
                 PROVE  FALSE
      BY DEF EscuchaSobrevive
    <2>1. FlujoFiel /\ CuentaFiel /\ EnvioFallido
      BY DEF IInv
    <2>2. Len(local.datos) \in Nat /\ Len(canal) \in Nat /\ servidor.pos \in Nat
          /\ servidor.tam \in Nat
      BY Tipos, LenProperties, ConstantesFichero DEF Servidor
    <2>3. servidor.pos < servidor.tam /\ Len(local.datos) = servidor.tam
      BY <2>1, <2>2 DEF CuentaFiel, EnvioFallido, En
    <2>4. Len(local.datos) + Len(canal) <= servidor.pos
      BY <2>1 DEF FlujoFiel
    <2>5. QED
      BY <2>2, <2>3, <2>4
  <1>2. QED
    BY <1>1, Invariante, PTL
=============================================================================
