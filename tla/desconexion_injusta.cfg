CONSTANTS
  ana = ana
  bea = bea
  casa = casa
  bar = bar
  SinFichero = SinFichero
  foto = foto
  Nombres = {ana, bea}
  SinDir = SinDir
  Nadie = Nadie
  Ip <- MCIp
  Hilos = {h1, h2}
  Dirs = {casa, bar}
  Adjuntos = {SinFichero}
  Peticiones <- Correo
  MaxPeticiones = 7
  MaxId = 3
  FalloMemoria = FALSE
SPECIFICATION Spec
SYMMETRY Simetria
PROPERTY DesconexionJusta
