----------------------------- MODULE MCUserList -----------------------------
(* A small instance of UserList; no two of its constants differ. *)
EXTENDS UserListProperties, TLC

Simetria ==
  {n @@ i @@ h @@ u @@ m :
     n \in Permutations(Nombres), i \in Permutations(Ids), h \in Permutations(Hilos),
     u \in Permutations(NodosUsuario), m \in Permutations(NodosMensaje)}
=============================================================================
