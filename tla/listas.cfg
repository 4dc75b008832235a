CONSTANTS
  Nombres = {ana, bea}
  Ids = {i1, i2}
  Hilos = {h1, h2}
  NodosUsuario = {u1, u2}
  NodosMensaje = {m1, m2, m3}
  MaxTardios = 2
  NULL = NULL
SPECIFICATION Spec
SYMMETRY Simetria
INVARIANTS TypeOK SinColgantes SinFugas UnSoloEnlace IInv
PROPERTIES ColasSpec
