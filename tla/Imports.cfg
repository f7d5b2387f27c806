SPECIFICATION ImportsSpec
CONSTANTS
  gold = gold
  blue = blue
  science = science
  business = business
  ada = ada
  obi = obi
  eze = eze
  chi = chi
  okafor = okafor
  ike = ike
  mother = mother
  father = father
  register = register
  timetable = timetable
  roll = roll
  late = late
  namesakes = namesakes
  team = team
  File = {register, timetable, roll, late, namesakes, team}
  Kind <- MCKind
  Rows <- MCRows
  Family = {mother, father}
  Login <- MCLogin
  Header <- MCHeader
  Importer = {w1, w2}
  MaxImports = 3
  MaxDeaths = 1
  Nothing = Nothing
INVARIANTS LoggedIsDone PreviewPredicts OneAccountPerGuardian
SYMMETRY Symmetry
CHECK_DEADLOCK FALSE
