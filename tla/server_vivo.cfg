CONSTANTS
  ana = ana
  bea = bea
  casa = casa
  bar = bar
  SinFichero = SinFichero
  foto = foto
  Nombres = {ana, bea}
  SinDir = SinDir
  Nadie = Nadie
  Ip <- MCIp
  Hilos = {h1, h2}
  Dirs = {casa}
  Adjuntos = {SinFichero}
  Peticiones <- Correo
  MaxPeticiones = 8
  MaxId = 2
  FalloMemoria = FALSE
SPECIFICATION FairSpec
PROPERTIES
  TodaPeticionTermina
  PendienteSeMueve
