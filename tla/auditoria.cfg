CONSTANTS
  Hilos = {h1, h2}
  MaxLlamadas = 1
  MaxEnvios = 2
  MaxCopias = 1
  MaxCaidas = 2
SPECIFICATION FairSpec
INVARIANTS
  IInv
  ExitoImpreso
  CadaLineaUnDatagrama
PROPERTIES
  PromesaSpec
  ElLogNoDetiene
