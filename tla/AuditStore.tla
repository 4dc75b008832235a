----------------------------- MODULE AuditStore -----------------------------
(***************************************************************************)
(* What the audit log promises to a handler of the central server: when    *)
(* log_rpc_operacion returns 0 the line of that call has been printed.  It *)
(* promises no more: a line may be printed several times, late, or for a   *)
(* call that returned -1, and the lines of different calls in any order.   *)
(***************************************************************************)
EXTENDS Naturals, Sequences

CONSTANT Id     (* the calls that may be made *)

VARIABLES
  retorno,      (* of each call: not made, made, or what it returned *)
  salida        (* the calls of the printed lines *)

Impresas == {salida[i] : i \in DOMAIN salida}

Init ==
  /\ retorno = [id \in Id |-> "sin hacer"]
  /\ salida = <<>>

Llamar(id) ==
  /\ retorno[id] = "sin hacer"
  /\ retorno' = [retorno EXCEPT ![id] = "pendiente"]
  /\ UNCHANGED salida

Imprimir(id) ==
  /\ retorno[id] # "sin hacer"
  /\ salida' = Append(salida, id)
  /\ UNCHANGED retorno

Volver(id) ==
  /\ retorno[id] = "pendiente"
  /\ \/ id \in Impresas /\ retorno' = [retorno EXCEPT ![id] = "0"]
     \/ retorno' = [retorno EXCEPT ![id] = "-1"]
  /\ UNCHANGED salida

Next == \E id \in Id : Llamar(id) \/ Imprimir(id) \/ Volver(id)

Spec == Init /\ [][Next]_<<retorno, salida>>
=============================================================================
