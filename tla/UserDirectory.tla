--------------------------- MODULE UserDirectory ---------------------------
(***************************************************************************)
(* What a client can rely on about its session: the central server seen as *)
(* the account of each user, which does not exist, has no session, or has  *)
(* the address that its client listens on.  A session in course is never   *)
(* replaced by another: it has to end before.                              *)
(***************************************************************************)
CONSTANTS
  Nombres,      (* user names *)
  Dirs,         (* addresses *)
  SinDir,       (* registered, not connected *)
  Ausente       (* not registered *)

VARIABLE cuenta

Init == cuenta = [u \in Nombres |-> Ausente]

REGISTER(u) ==
  /\ cuenta[u] = Ausente
  /\ cuenta' = [cuenta EXCEPT ![u] = SinDir]

UNREGISTER(u) ==
  /\ cuenta[u] # Ausente
  /\ cuenta' = [cuenta EXCEPT ![u] = Ausente]

CONNECT(u, d) ==
  /\ cuenta[u] = SinDir
  /\ cuenta' = [cuenta EXCEPT ![u] = d]

(* Asked for, or after a delivery that failed. *)
DISCONNECT(u) ==
  /\ cuenta[u] \notin {Ausente, SinDir}
  /\ cuenta' = [cuenta EXCEPT ![u] = SinDir]

Next ==
  \E u \in Nombres :
    \/ REGISTER(u)
    \/ UNREGISTER(u)
    \/ \E d \in Dirs : CONNECT(u, d)
    \/ DISCONNECT(u)

Spec == Init /\ [][Next]_cuenta
=============================================================================
