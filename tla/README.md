# A verification development for the messaging service

The repository is a messaging service for a distributed-systems course: a
central server in C (`src/src-server`), a Python client (`src/client.py`) that
is also a small server of its own, an RPC log daemon and a SOAP web service.
This directory holds TLA+ modules that model it, TLC configurations that check
them on small instances, and theorems checked by TLAPS for every instance.

Every part with a state of its own is modelled: the server's handlers, their threads and mutex;
the list and the queues behind them, as pointers; the framing of
requests; the log over RPC; the client's session with its listener threads; and the
transfer of files between clients.

## 1. Inventory

### Central server: accept loop and dispatcher (`server.c`)
- **State**: `head` (the list), `mutex_usuarios`, the listening socket.
- **Operations**: `main` accepts for ever and starts one *detached thread per
  connection* with `procesar_peticion`; that reads the command with `readLine` and
  calls one handler. `handle_sigint` frees the list and exits.
- **Hard**: any number of handlers at once; SIGINT frees the list node by node and without
  the mutex, while handlers go on with it.
- **Correct if** only the holder of the mutex reads or changes the list, and
  every handler gets to its end.

### Handlers (`operaciones.c`)
- **State**: their locals: what they read, the addresses they copied under the
  mutex, the list of messages a CONNECT detached, the copy of its message in a SEND.
- **Operations**: REGISTER, UNREGISTER, CONNECT, DISCONNECT, USERS, SEND and
  SENDATTACH. CONNECT goes on to deliver (`entregar_pendientes`), SEND to deliver
  its own message; both also tell the sender (`enviar_ack_remitente`).
- **Interactions**: the shared list, under the mutex; the client's connection;
  a new connection to the listening address of the receiver, and of the sender,
  without the mutex; the RPC log, before the mutex is taken.
- **Hard**: everything a handler knows after it unlocks is old: the receiver may
  have left, come back from another address, removed its account, registered it
  again, or had its queue detached. A write may fail at any byte. `malloc` may fail.
- **Correct if** no message answered with 0 disappears without a delivery or the
  removal of the account; every node has one owner; no message is left where
  nobody looks; USERS sends as many entries as it announced; a session is never replaced by
  another one; and every request ends.

### User list and queues (`linked_list.c`, `linked_list.h`)
- **State**: a linked list of `user_node_t`, each with the first node of a
  linked queue of `mensaje_pendiente_t`, and the counter `ultimo_id_msg`.
- **Operations**: `add_user`, `remove_user`, `find_user`, `free_user_list`; what is done to the
  queues is written inline in the handlers.
- **Hard**: unlinking the first, the last or the only node; hooking a chain behind a queue that
  changed meanwhile; freeing the same node twice; the counter
  starts again with the account and wraps at `UINT_MAX`, skipping 0.
- **Correct if** until SIGINT no link dangles, no block leaks, and no two chains share one.

### Framing (`mensajes.c`, `mensajes.h`)
- **State**: none beyond buffers. `sendMessage` loops over partial writes; `readLine` reads
  byte by byte up to a zero byte or a line feed, and drops what does not fit.
- **Hard**: end of file in the middle; a string at the limit of the buffer; a field with a line
  feed in it, whose rest is left for the next call.
- **Correct if** a call reads the bytes up to one terminator and no other, and ends.

### RPC log (`rpc/log_rpc_client.c`, `rpc/log_rpc_server.c`, `rpc/log_rpc.x`)
- **State**: none in the daemon but its output. The stubs are generated by rpcgen.
- **Hard**: UDP: a datagram can be lost, overtaken or duplicated; a call can be executed twice, or executed
  and reported as timed out; the daemon remembers nothing it has served, and can crash between printing and answering.
- **Correct if** 0 means printed, every line comes from a datagram of its own, and no handler is stopped by the log.

### Client: session and listener thread (`client.py`)
- **State**: `_current_user`, `_is_connected`, `_listen_sock`, the listener threads, and
  `_connected_users` (addresses cached by USERS and GETFILE).
- **Operations**: one per command, with the result codes of the server; a
  listener thread takes deliveries, acknowledgements and GET_FILE requests.
- **Hard**: two threads share attributes that are written one by one without a lock; an exception in the
  listener ends it while the port stays open; a reply is lost; a request that was given up is carried out
  later; the server may end a session, or give it to another client, without the client's knowledge.
- **Correct if** at each single write a thread that finds the client connected finds a socket that listens, and
  no socket is left open outside the attributes; between commands they agree; a lost reply
  never makes the server send a session's messages to an older socket; old threads end; what is delivered is shown.

### Client: file transfer (`client.py`)
- **Operations**: `getFile` in one client, the GET_FILE branch of the listener in another.
- **Hard**: partial reads; the file changes between `getsize`, `open` and each `read`; either
  end goes away; an error after the size was sent is reported in-band.
- **Correct if** OK means a copy of the file, both ends get to an end, and the listener
  goes on.

### Client: shell and arguments
Reads a line and calls an operation. What it does with QUIT and with an exception is
part of the session.

### SOAP normalizer (`servicio_web.py`)
Stateless: it replaces runs of blanks in a text. Its failure makes a SEND
stop inside the client.

### Build files
Makefiles and requirements: no behaviour.

`PROJECT.json` lists every component with its status, and the hazards of the
code at the line where each one bites.

## 2. Modules

| module | what it is |
|---|---|
| `MessageStore` | abstract: what the server promises about messages; its invariant, proved |
| `UserDirectory` | abstract: what the server promises about sessions |
| `Server` | the server: threads, mutex, list, queues; the handlers |
| `ServerProperties` | its type and inductive invariant, safety, liveness, the two refinement mappings, and what comments claim |
| `MCServer` | requests, addresses and symmetry of the small instances |
| `ServerProofs` | the inductive invariant is one; the sections that hold the mutex across a write; one owner for each node, and no message stranded |
| `ServerRefinement` | `Server` implements `MessageStore`, and what follows; and `UserDirectory` |
| `UserQueues` | abstract: accounts, their queues, and what threads hold |
| `UserList`, `UserListProperties`, `MCUserList`, `UserListProofs` | nodes and pointers, `malloc` and `free`, SIGINT; it implements `UserQueues`; its invariants, proved |
| `Framing`, `FramingProofs` | `sendMessage` and `readLine` over a socket, with their properties; where in the request the reader is, proved |
| `AuditStore` | abstract: at least once, when it answers |
| `AuditLog`, `AuditLogProperties`, `AuditLogProofs` | RPC over UDP: client, network, daemon; it implements `AuditStore` |
| `ClientSession`, `ClientSessionProperties`, `ClientSessionProofs` | the client's session, on top of `UserDirectory` |
| `FileTransfer`, `FileTransferProperties`, `FileTransferProofs` | GETFILE, both ends |

How they compose: `Server` is the concurrent program; `UserList` is the memory under its
`user` and `lista`, with the same critical sections, and `UserQueues` is what both amount to;
`MessageStore` and `UserDirectory` are two views of the server from outside, each proved to be
implemented by it; `ClientSession` is written against `UserDirectory`, whose actions it takes by
`INSTANCE`, so what is proved of a session rests on nothing of the server that is not proved.

### How `Server` corresponds to the code

State:

- `user` is the list of `user_node_t`, as a function from names. The order of
  the list only shows in the order of USERS. `user[u].mensajes` is the queue;
  `user[u].dir` is the pair `ip`, `puerto`, with `SinDir` for the zeroed fields.
- `mutex` is `mutex_usuarios`. `hilo[t]` is one thread: its program point
  (`pc`), the request it read, the list it carries, and the addresses it copied.
- `aceptados`, `entregados`, `cancelados` are history: no guard reads them.
  `texto`, the number of an accepted message, stands for its text and for the
  identity of its node; no comparison of the code looks at it.

Steps. A critical section that writes to no socket is one action, enabled when
the mutex is free: nobody else touches the list until it unlocks, and what it
does to its locals nobody sees. Everything between two critical sections is at
least one action. USERS and SEND write to their client *before* unlocking, so each
is two actions with `mutex = t` in between.

| code | actions |
|---|---|
| `main`, `procesar_peticion`, reading the request, the RPC call | `procesar_peticion` |
| `procesar_register`, `procesar_unregister`, `procesar_disconnect` | the action of that name, then `responder` |
| `procesar_connect` | `procesar_connect`, `responder` |
| `entregar_pendientes` | for each message `entregar_pendiente`, `buscar_remitente`, `ack_pendiente`; at the first failure `reencolar` |
| `procesar_users` | `procesar_users`, `listar_conectados`, or `responder` on an error |
| `procesar_envio_comun` (SEND, SENDATTACH) | `procesar_envio_comun`, `responder_envio`, `envio_entregar`, `envio_ack`, then `eliminar_mensaje_cola` or `desconectar_destino` |

The other end is a choice: a connection and its writes succeed in full, and the message
counts as delivered, or fail at some point, and it does not. Any receiver, present, gone, slow or
replaced by another program at the same port, is covered. Errors in writing the result byte
are only printed by the code, and change nothing.

Two things are nondeterministic because the code makes them so: with `FalloMemoria` the
allocations of REGISTER and SEND may fail; and a request may be any request, which also covers
what a handler takes from a buffer that `readLine` left as it was at an end
of file. (A read that fails with an error ends the thread with no effect on the
list: it is not a step.)

`user[u].ultimo_id_msg` is arithmetic modulo `MaxId + 1`, with `MaxId` for `UINT_MAX`.

### How `UserList` corresponds to the code

`usuarios` and `mensajes` are the allocated blocks by address, `head` and the fields `next`,
`mensajes` the pointers of the structures. `Cadena` is a walk. The handlers are those
of `Server` with everything but pointers left out: a critical section is one step,
and each of `entregar_pendiente` and `liberar_entregado` is a step without the mutex, because
`act` and `sig` are followed without it. `malloc` returns any free block, or NULL when there
is none. There is no bound on requests: the state space is finite as it is.

`handle_sigint` starts the walk of `free_user_list`, which is not a critical section: `proceso` holds its
program point and its locals, and each read of `next`, of `mensajes` and of `msg_actual->next`, and each
`free`, is a step of its own, with the handlers' steps in between (`MaxTardios` bounds how many). The walk writes no
pointer, so `head` and the queues go on leading to what it has freed, and it frees a block that a
CONNECT has detached meanwhile. `tropezar` is the walk or a handler using a block that is not allocated: the
behaviour is undefined from there. So nothing is claimed of the memory once the signal has come; the run
shows only that the types hold, and what is claimed holds until then.

### How `Framing` corresponds to the code

The request is a sequence of *pieces* (`tramos`), each ended by a zero byte or by a line feed, because
`readLine` ends at either (mensajes.c:34). `sendMessage` sends *fields*: a field ends at its zero
byte (`FinDeCampo`), and one with line feeds in it is several pieces. `escritor` is the loop of
`sendMessage`, `lector` that of `readLine`, `canal` the socket buffer between them, whose `Capacidad`
makes writes partial. One handler makes `NumLecturas` consecutive calls, as every handler does, and stops at the
first -1; it may need fewer pieces than the client sent, as when a field has a line feed. A close
may come at any byte, in good order (`readLine_eof`) or not (`readLine_error`). `Basura` is
the buffer that `readLine` returns without writing to.

### How `AuditLog` corresponds to the code

`log_rpc_operacion` is called by each handler after it has read its request and before it locks
(`procesar_peticion`, `operar` stand for the handler around it). `reenviar`, `recibir`, `vencer` and `rechazada` are
`clnt_call` over UDP: resend while the time-out lasts, return the reply, give up, or fail at once.
The daemon prints, then answers (`log_rpc_prog_1`, `svc_sendreply`), one datagram at a
time; it crashes and comes back. `peticiones` and `respuestas` are sets, so datagrams overtake each other. They are
lost (`perder`) and duplicated (`duplicar`, at most `MaxCopias` times in all); a reply stays in its set once it was
received, so a duplicate of it needs no step.

### How `ClientSession` corresponds to the code

- `cliente` is the three class attributes; `mando` the command thread, at one of the writes of `connect()` or of
  `_stop_listener()`, with a request at the server (`peticion`), with a reply on its way (`recv`), or at none of them (`shell`).
- The writes are steps of their own, for the listener threads read the attributes without a lock:
  `preparar_escucha` is `_listen_sock = socket`, `bind` and `listen`, `_is_connected = True`, and the start of the thread;
  `_stop_listener` is `_is_connected = False`, `_current_user = None`, `close`, and `_listen_sock = None`.
- `connect`, `unregister` and `disconnect` begin a command; `atender` is the server's handler, and `recibir` what each command does
  with its reply. `fallar` is an error on the way: before the server heard of it, after, or while a handler has the request. In the last
  case a CONNECT stays in `pendientes` with its port, and `atender_tarde` carries it out, any time later: the handler waits up to
  25 seconds for the log before it looks at the list (operaciones.c:397). `tardias` remembers the users whose present address such a CONNECT
  stored. An UNREGISTER or a DISCONNECT that comes late does what one of another client does, and `otro_cliente` covers it.
- A thread reads `_listen_sock` when it runs (`_listener_thread`), which may be a connect later; `settimeout`, the next line, raises
  an exception on a socket that was closed, and is part of that step.
- `zocalo` is the kernel's side: a socket, its port, the connections that wait. A socket that is closed while a
  thread is in `accept()` may live until that call returns (`cerrandose`, `Dejar`).
- `avisos` are addresses in somebody's hands: a handler of the server that copied it and unlocked, or a
  client that cached it from USERS. By the time they are used (`llegar`, `rechazar`) the session may be another.
- Serving a connection ends well, or with an exception, as for a text that is not UTF-8 because a buffer of the server
  cut it, or for a requester of a file that hangs up (`suerte`).

### How `FileTransfer` corresponds to the code

`servidor` is the listener in its GET_FILE branch, `solicitante` is `getFile()`; their program points are the calls
that can fail. `cabecera` and `canal` are what was written and not yet received; `LlegaAlOtro` says whether what
`sendall` writes can still arrive; if not, it raises or does not, as TCP does. `fue` is
history: the bytes that have been at each position of the file, so that a copy can be judged
though the file changed under the transfer. `recibir` takes any number of bytes.

### What `MessageStore` promises

A message is *accepted* when it is stored by a SEND that answers 0. From then on it is *held*
until it is *settled*: it, or a message with the same receiver, sender, id and
attachment, was written in full to a client, or the receiver's account was
removed. The weakening "or one with the same fields" is what the code can keep:
`eliminar_mensaje_cola` compares those fields and ids repeat (see the first
finding). In `Server` the held messages (`Retenidos`) are those in a queue or in
a list that a CONNECT detached; the private copy of a SEND does not count, because a SEND
never puts it back.

## 3. Runs

| run | instance | shows |
|---|---|---|
| `server_todas` | 2 threads, 2 users, 2 addresses, 6 requests of every kind, `malloc` fails at will, ids to 2 | `TypeOK`, `IInv`, `NadaSePierde`, `UsersInstantanea`, `SeccionCritica`, `DirectorioSpec` |
| `server_correo` | 3 threads, 2 senders, a receiver whose account and session come and go, with and without attachment, 7 requests, ids to 2 | `UnSoloDueno`, `SinVarados`, `AlmacenSpec` |
| `server_vivo` | 2 threads, 8 requests, no symmetry, `FairSpec` | `TodaPeticionTermina`, `PendienteSeMueve` |
| `listas` | 2 users, 2 blocks for users and 3 for messages, 2 threads, any number of requests, SIGINT and 2 steps of threads after it | `TypeOK`, `SinColgantes`, `SinFugas`, `UnSoloEnlace`, `IInv`, `ColasSpec` |
| `tramas` | 3 pieces of up to 2 letters, ended by zero or line feed, read by 2 calls, buffers of 2, 3 bytes of socket buffer | `TypeOK`, `SinMezcla`, `BytesEnOrden`, `IInv`, `LecturaTermina` |
| `auditoria` | 2 threads, each request sent twice at most, 1 datagram duplicated, 2 crashes | `IInv`, `ExitoImpreso`, `CadaLineaUnDatagrama`, `PromesaSpec`, `ElLogNoDetiene` |
| `cliente` | 1 user, 2 ports and another machine, 2 sessions, 2 connections, 1 address in hand, 1 CONNECT given up, `listen(1)` | `TypeOK`, `SesionCoherente`, `DireccionAlDia`, `IInv`, `EscuchasViejasAcaban`, `MensajeLlega` |
| `ficheros` | files of up to 3 bytes, blocks of 2, 1 change | `TypeOK`, `CopiaFiel`, `EscuchaSobrevive`, `IInv`, `TransferenciaTermina` |

Each has between thirty thousand and one and a half million distinct states and takes a few minutes at most. `Simetria`
permutes threads, and is used for safety only.

**Why the bounds are enough to mean something.** *Server*: two threads already give every pair of handlers in every
window; three give a CONNECT that holds a queue while a SEND delivers from it and a third
request changes the account. Registering two users, connecting, sending and
failing takes four or five requests; six to eight leave some to disturb it, and the refuted
properties below, which need the longest scenarios anyone would argue about,
are all found within eight. `MaxId` 2 makes the counter wrap with three messages. *Lists*: three blocks
give a first, a middle and a last node, and with every block in use `malloc` reuses what was just freed.
*Framing*: a piece longer than the buffer, as long, and empty; a field of one, two or three pieces,
longer than the socket's capacity or not; and calls left over, or missing, for what was sent. *Log*: one
retransmission is enough for a second line and for a late reply, and one copy for a line that no transmission accounts for;
two crashes for one before and one after printing.
*Client*: two sessions give an old thread, an old socket and an old CONNECT that comes in the later session; more would
only repeat them. *Files*: three bytes are a whole block and a shorter one, and the
three bytes of `"-1\0"` fit in the place of the file.
When the requests are used up the server waits in `accept`; that is
the explicit step `EsperaEnAccept`, and deadlock checking stays on in every run. The proofs have no bound but
those the specifications take as constants, and hold for all of them.

**Fairness.** `FairSpec` asks, in each module, that threads that can run do: the operating system's part.
- `Server`: weak fairness of each thread's own steps. Two assumptions stand behind it. The writes to the requesting client,
two of them with the mutex held, return: a client that stops reading makes `sendMessage` block, and
then every handler waits. The model says so in one place, the fairness of
`listar_conectados` and `responder_envio`, and does not pretend the code handles it.
And no thread is passed over for ever when it waits for the mutex. A pthread mutex
promises no order; weak fairness is enough because the number of requests is finite, so that
the other threads end and the mutex stays free.
- `Framing`: the reader runs; nothing of the writer, which may keep the connection open and silent for ever.
`LecturaTermina` therefore asks for a writer that is done or gone.
- `AuditLog`: the server's threads run; nothing of the daemon or the network.
- `ClientSession`: the listener threads run (the accept time-out of one second is what makes an idle one look at its
flag), whoever connected to one sends something or closes, and the command thread goes on with the writes that it has
begun (`preparar_escucha`, `_stop_listener`). Nothing of the user or of the server.
- `FileTransfer`: each end's calls return or raise, and an end of file or an error that has arrived is noticed. That is
an assumption about the network that the code does not make good: neither end sets a time-out or keep-alive, so if the other host or
the network goes away in silence, a `recv` waits for ever. `TransferenciaTermina` is about ends that close, fail or are reset.

### What does not hold

Four runs look for something that a comment states and find it violated. Each is a finding in
`PROJECT.json`, with the line quoted.

| run | scenario |
|---|---|
| `elimina_gemelo` | A sender removes its account, registers again and sends again with id 1; both messages wait for the same receiver. The delivery of the second unlinks the first, which is lost, and the second is delivered twice. |
| `baja_incompleta` | A CONNECT holds the queue it detached; UNREGISTER frees an empty queue; REGISTER creates the name again; the delivery fails and the old account's messages go to the new one. |
| `desconexion_injusta` | A SEND copies the receiver's address; the receiver disconnects and connects from another one; the delivery to the old address fails and the new session is marked as disconnected. |
| `lectura_a_medias` | A client dies in the middle of a field: the handler takes the part for the whole; at its start, whatever the buffer held. |

`elimina_gemelo` is also why `NadaSePierde` is stated up to the fields that the code compares.

Other things that the models contain and a reader of the code should know; each is one line of the code and
needs no run to be seen:

- The log says STORED of a message from what was true before its delivery was tried; it may have been detached or removed since.
- `add_user` returns NULL when `malloc` fails, and REGISTER answers 0 all the same.
- What comes back from a failed delivery goes behind newer messages.
- `log_rpc_operacion` is called before the request is checked: refused operations are logged like the others, and
  the order of the lines is not the order in which requests take effect.
- SIGINT frees the list node by node, without the mutex, while handlers walk and change it: a CONNECT can detach a queue
  of which a part is freed already, so that both follow or free the same blocks. Nothing is claimed of the memory from the signal on.
- mensajes.h:8-9 says that `readLine` reads until it finds `'\0'` or `'\n'` or reaches the limit. The code does not stop at the
  limit: it reads on to the terminator and drops the rest (mensajes.c:39). That is what keeps an
  over-long field out of the next call, and `SinMezcla` depends on it (its mutant is the header's reading).
- A line feed in a field ends the call that reads it, and what is behind it is taken for the next field: the end of the
  message of a SENDATTACH can become its file name. `SinMezcla` counts pieces, not fields, for that reason.
- When the user gives up a CONNECT that a handler still has, and connects again, the old CONNECT may be carried out
  in the later session, if the server has just ended it: then the server holds the old port, of a socket that is closed, and the client
  believes itself connected. `DireccionAlDia` leaves out exactly those users (`tardias`).
- When `malloc` fails in a SEND the id has been taken already (operaciones.c:683): the ids of an
  account may skip a number, which no property is about.
- Any exception in the listener ends its thread, and nothing restarts it, while the port stays open: the kernel
  accepts, the server counts each message as delivered and removes it, and nobody shows it. `MensajeLlega` excludes
  exactly those sessions. A GETFILE asked of that client waits for ever for its size, because the requester has no time-out; and so
  does one whose other end, or network, goes away in silence in the middle of the file.
- A GETFILE, a delivery or an acknowledgement goes to an address that was copied before. If
  the port belongs to a later session or to another user by then, it is they who get it. GETFILE does not look at who answers, and never refreshes an
  address that it has cached.
- `"-1"` after the size is taken for contents: if the file cannot be read once its size was sent, and it has
  three bytes or less, the requester prints OK and has `"-1\0"`, or its beginning, as the file. `CopiaFiel` excludes it (`servidor.error`).
- An error of the connection, unlike an early end of file, leaves the incomplete copy on disk.

## 4. Proofs

All theorems are for every value of the constants that satisfies the assumption its
module declares (`ConstantesServer`, `ConstantesUserList`, `ConstantesFraming`, `ConstantesLog`, `ConstantesCliente`, `ConstantesFichero`: sentinels
are not values, bounds are natural numbers, a block of a file has at least one byte, memory has finitely many blocks), which TLC
evaluates in every run.

| theorem | module | states |
|---|---|---|
| `Conservacion` | `MessageStore` | the abstract store loses nothing |
| `Invariante`, `TipoCorrecto` | `ServerProofs` | `IInv` and `TypeOK` |
| `Refinamiento` | `ServerRefinement` | `Spec => AlmacenSpec` |
| `NoSePierde` | `ServerRefinement` | `Spec => []NadaSePierde` |
| `EsDirectorio` | `ServerRefinement` | `Spec => DirectorioSpec` |
| `Exclusion`, `ListaInstantanea` | `ServerProofs` | `SeccionCritica`, `UsersInstantanea` |
| `DuenoUnico`, `NadieVarado` | `ServerProofs` | `UnSoloDueno`, `SinVarados` |
| `Invariante`, `TipoCorrecto` | `UserListProofs` | `IInv` and `TypeOK` |
| `NadieColgado`, `NadaPerdido`, `SinCompartir` | `UserListProofs` | `SinColgantes`, `SinFugas`, `UnSoloEnlace` |
| `Invariante`, `TipoCorrecto` | `FramingProofs` | `IInv` and `TypeOK` |
| `CamposSinMezclar`, `BytesSiempreEnOrden` | `FramingProofs` | `SinMezcla`, `BytesEnOrden` |
| `Invariante`, `ExitoSiempreImpreso` | `AuditLogProofs` | `IInv`, `ExitoImpreso` |
| `LineasContadas` | `AuditLogProofs` | `CadaLineaUnDatagrama` |
| `Refinamiento` | `AuditLogProofs` | `Spec => PromesaSpec` |
| `Invariante`, `TipoCorrecto` | `ClientSessionProofs` | `IInv` and `TypeOK` |
| `AtributosCoherentes`, `SesionAlDia` | `ClientSessionProofs` | `SesionCoherente`, `DireccionAlDia` |
| `Invariante`, `TipoCorrecto` | `FileTransferProofs` | `IInv` and `TypeOK` |
| `CopiaSiempreFiel`, `EscuchaSigue` | `FileTransferProofs` | `CopiaFiel`, `EscuchaSobrevive` |

### The server

**The argument.** `NadaSePierde` is not inductive. The
step that could break it is the one in which a thread drops a node on what it saw
before it last released the mutex, and there the thread must be known to be right. `IInv` says it is:

- `ColasFieles`: what a queue holds was accepted, and was sent to its owner.
  So when UNREGISTER frees a queue, all it frees was sent to the account that goes.
- `ListaFiel`, `Coherente`: what a thread carries was accepted, and was sent to the user it is
  delivering to, and it carries something exactly while it has something to deliver.
- `EntregadoAntes`: a thread at a point where it will unlink or free the head
  of its list has delivered it. `eliminar_mensaje_cola` then removes a node with the
  same fields as a delivered one: settled.
- `DestinoVivo`: a message that was not cancelled has a receiver with an
  account. So when `reencolar` finds no such user and frees the list, all of it
  was cancelled.
- `TypeOK`, with "connected exactly when it has an address".

`ServerProofs` shows that each action preserves it, one lemma per action.
`ServerRefinement` then shows, one lemma per action, that a step changes
`Retenidos` and the history as one step of the store: SEND as `Aceptar`, the two
deliveries as `Entregar`, `buscar_remitente`, `ack_pendiente`, `reencolar` and
`eliminar_mensaje_cola` as `Soltar`, UNREGISTER as `DarDeBaja`, and the others as a
stutter. In particular CONNECT moves messages from
a queue to a list without changing what is held, and `reencolar` back. `NoSePierde`
is `Conservacion` carried over by the mapping.

The refinement of `UserDirectory` rests on one part of `TypeOK` only, that connected means having an address: with it every
action that writes `user` is one of the directory's on `Cuentas`, and CONNECT finds no session because
it has looked in the same critical section.

**The mutex.** `ISeccion` (`ServerProofs`): a thread is between the two halves of
USERS or SEND exactly when it holds the mutex. Every action that changes who is connected needs
the mutex free, so the number USERS announced is still right when it lists.

**Owners and counts.** `UnSoloDueno` and `SinVarados` are inductive together with `IInv` (`IDueno`), and
need each other: `eliminar_mensaje_cola` removes *one* node with the fields of the
message that the thread delivered, so what must be known is not which node waits for which thread, but
that there are no more nodes alike than threads that send one like them (`Iguales`, `Envian`); and that count
changes by one because no node is in the queue twice. The steps that only take nodes away are a queue and a list of
which a part is left (`Parte`); CONNECT and `reencolar` move nodes between one queue and one list and
keep what both hold (`DuenoCambia`); SEND adds a node nobody holds and a thread. A delivery that
fails does not lower the count: it ends with its receiver marked as not connected, and then
`SinVarados` asks nothing of that queue.

### The list and its memory

No dangling pointer, no leak and no shared chain are three facts about pointers, and each handler moves a few
of them. `IInv` states them so that a step can be followed: all the pointers to a message are one function
`AMensaje`, from the place where a pointer is (a user, the node before, a thread) to the block it leads to, and
`AUsuario` is the same for users. `Encadenado` says that each leads to a block in use or to NULL, and
no two of them to one block. `SinFugas` is in it as well: without it a block could be in use
with nobody to free it. So is `SigFiel`: a delivering thread reads `sig` before it takes the mutex and uses it
after, and what makes that sound is that no other pointer leads to its node, so no other handler changes its `next`.

Two arguments meet in `UserListProofs`:

- *Walks and pointers.* `Cadena` is a walk of at most as many steps as there are blocks. In an `Encadenado` memory, from a place that
  is in no node, it never comes back to a node (`CaminoSinVueltas`: the first node visited twice would have two pointers to it),
  so by counting it ends, and visits the least set of blocks that is closed under `next` (`CadenaCerrada`,
  `CadenaMinima`). `SinFugas` then says what `Alcanzado` says: a set of blocks with all that the
  roots lead to, and closed under `next`, has every block. `Alcanzado` mentions no walk, so a step that changes pointers can be argued about.
- *What a handler does.* With the pointers as one function, the handlers come down to a few changes, each shown
  once to preserve `Encadenado` and `Alcanzado`: a node goes in between a pointer and what it led to
  (`Insertar`: REGISTER, SEND), a node goes out (`Saltar`: UNREGISTER on the list, `eliminar_mensaje_cola`, `free(act)`), one pointer takes
  over the chain of another (`Mover`: CONNECT, `reencolar`), and a whole chain is freed (`Soltar`: UNREGISTER on the queue,
  `reencolar` when the receiver is gone).

All of it, but for the types, is said of a process that SIGINT has not reached (`proceso = Vivo`), and is preserved by the steps of the
handlers alone: no step leads back to `Vivo` (`ProcesoSigue`), so a step that ends alive began alive, and what holds
there is found again (`Bien`, `BienSigue`, `IInvDeBien`).

### Framing

`SinMezcla` speaks of what was returned, and nothing in it says where the next byte belongs. `IInv` does:
`EnOrden` puts the bytes on their way at their places in the request (`Leido` of them were read), and
`EnSuTramo` ties that count to the reader: all the pieces it has returned, and `r` letters of the next, of which it has
stored the first `N - 1`. The next byte is then a letter exactly when there is one left in that piece, and
its terminator, zero or line feed, when there is not, dropped letters included. Once a readLine has ended without a terminator, `SinMas`
says that none will read a byte again. The writer counts in fields: when a field is out, the next begins behind the zero byte that
`FinDeCampo` finds (`CampoSiguiente`). `Hasta` is a fold over the pieces, and what is proved of every number
of pieces is proved of the least one for which it would fail (`PrimeroExiste`).

### The log

`ExitoImpreso` alone is not inductive: a 0 comes from a reply. `RespuestasCiertas` says that a reply, or a
daemon about to send one, means a printed line, and that only calls that were made get that far;
`LlamadasHechas` that a thread's current call has not returned, so that nothing returns twice. The
refinement then needs only `IInv`: sending, losing, crashing and answering are stutters of `AuditStore`.
`CadaLineaUnDatagrama` is a count, inductive with `IInv`: a datagram is created by a transmission or by the
network's copy of one (`EnviarSumaUno`, `DuplicarSumaUno`), and leaves `peticiones` when it becomes a line (`ImprimirGastaUno`).

### The session

`SesionCoherente` says what a listener thread may see at each single write, and what it may not depends on where the command
thread is. `MandoSabe` says what that thread knows at each of its points: that the socket it is about to announce
listens already, that it has taken the flag down before it closes one, that it is in a session of nobody
while a CONNECT is in course. `PeticionEnCurso` carries `DireccionAlDia` from the moment the server
stores the address to the moment the client believes it: in between only `atender_tarde` can store another port of this client,
and then the user is in `tardias`. `EscuchasConSocket` is needed for the types alone.

### The transfer

`FlujoFiel` is the heart of it: what was written and what is on its way, one after the other, are bytes
of the file in their places, and, while the requester is there, as many as were sent. `CuentaFiel` ties
what was written to `bytes_pendientes` and to the size; `CabeceraFiel` makes that size the
listener's. `EscuchaSobrevive` needs `EnvioFallido`: the listener fails to send only when nobody is
there to receive, and then, if the file has not changed, there was something left to send; a requester with
all of it would contradict `FlujoFiel`.

### What is only model-checked

- The liveness properties: temporal reasoning under fairness, and `ENABLED`, are out of this prover's reach.
- That `UserList` implements `UserQueues`. A step of it changes what several walks visit, in order; what is proved so far
  of a walk is which blocks it visits and that it ends, not its order.

The refuted properties have nothing to prove.

## 5. Not modelled, and why

- Start-up, unknown commands, failures of `accept`, and of `malloc` or
  `pthread_create` in `main`: they close the connection and touch no shared state.
- In the client, a listener thread that cannot be started.
- What is printed, and the formats of numbers and addresses: no property is about them.
- In the client, `register`, `send` and `sendAttach`: they read `_current_user` at most, make one request and change no attribute; the
  server's side of them is in `Server`. `users` fills a cache, which `avisos` covers.
- `_recibir_bytes`, which nobody calls.
- The encoding of XDR, the null procedure and the TCP transport of the log, which nobody uses.
- The SOAP service, the rest of the shell and the build files: no state worth a model.

## 6. What could follow

The proof that `UserList` implements `UserQueues`: for each of the changes in `UserListProofs`, the sequence that each walk visits
afterwards. And one specification of two clients and the server together, so that the acknowledgement
of a message and the message itself are followed from end to end.
