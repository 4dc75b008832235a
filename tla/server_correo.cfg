CONSTANTS
  ana = ana
  bea = bea
  casa = casa
  bar = bar
  SinFichero = SinFichero
  foto = foto
  Nombres = {ana, bea}
  SinDir = SinDir
  Nadie = Nadie
  Ip <- MCIp
  Hilos = {h1, h2, h3}
  Dirs = {casa}
  Adjuntos = {SinFichero, foto}
  Peticiones <- Entrega
  MaxPeticiones = 7
  MaxId = 2
  FalloMemoria = FALSE
SPECIFICATION Spec
SYMMETRY Simetria
INVARIANTS
  UnSoloDueno
  SinVarados
PROPERTY AlmacenSpec
