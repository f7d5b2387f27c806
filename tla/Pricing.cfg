SPECIFICATION Spec
CONSTANTS
  Category <- MCCategory
  Category0 <- MCCategory0
  CategoryForm <- MCCategoryForm
  Registration = "form"
  FirstTermOnly = {"party"}
  Class <- MCClass
  LevelOf <- MCLevelOf
  NoClass = NoClass
  NoLevel = ""
  Student = {"ada"}
  Place0 <- MCPlace0
  SessionOf <- MCSessionOf
  Day <- MCDay
  Table0 <- MCTable0
  Form <- MCForm
  Worker = {w1, w2}
  Target <- MCTarget
  MaxRequests = 2
  MaxChanges = 1
  MaxPk = 5
  NoRow = NoRow
INVARIANTS NoTwins AnswerIsTrue OneTimeOnce NoSilentGap
SYMMETRY Symmetry
CHECK_DEADLOCK FALSE
