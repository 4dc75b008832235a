CONSTANTS
  Nombres = {ana}
  Puertos = {p1, p2}
  Otra = Otra
  SinDir = SinDir
  Ausente = Ausente
  Ninguno = Ninguno
  Cola = 1
  MaxSesiones = 2
  MaxAvisos = 1
  MaxConexiones = 2
  MaxPendientes = 1
SPECIFICATION FairSpec
INVARIANTS TypeOK SesionCoherente DireccionAlDia IInv
PROPERTIES EscuchasViejasAcaban MensajeLlega
