CONSTANTS
  Letras = {a, b}
  CERO = CERO
  SALTO = SALTO
  Basura = Basura
  NumTramos = 3
  NumLecturas = 2
  MaxLargo = 2
  N = 2
  Capacidad = 3
SPECIFICATION FairSpec
INVARIANTS TypeOK SinMezcla BytesEnOrden IInv
PROPERTY
  LecturaTermina
