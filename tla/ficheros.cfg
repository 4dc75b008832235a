CONSTANTS
  Bytes = {a, b}
  MaxTam = 3
  Bloque = 2
  MaxCambios = 1
SPECIFICATION FairSpec
INVARIANTS TypeOK CopiaFiel EscuchaSobrevive IInv
PROPERTY TransferenciaTermina
