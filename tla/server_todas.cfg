CONSTANTS
  ana = ana
  bea = bea
  casa = casa
  bar = bar
  SinFichero = SinFichero
  foto = foto
  Nombres = {ana, bea}
  SinDir = SinDir
  Nadie = Nadie
  Ip <- MCIp
  Hilos = {h1, h2}
  Dirs = {casa, bar}
  Adjuntos = {SinFichero}
  Peticiones <- Todas
  MaxPeticiones = 6
  MaxId = 2
  FalloMemoria = TRUE
SPECIFICATION Spec
SYMMETRY Simetria
INVARIANTS
  TypeOK
  IInv
  NadaSePierde
  UsersInstantanea
  SeccionCritica
PROPERTY DirectorioSpec
