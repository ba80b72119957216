CONSTANTS
  Users = {"person", "admin"}
  Admins = {"admin"}
  Sessions = {"s1", "s2"}
  UserOf <- UserOfMC
  Ids = {"r1", "r2", "t1"}
  Owner <- OwnerRules
  Kind <- KindRules
  Seeded = {"r1", "r2"}
  Texts = {"a", "b"}
  Locales = {"unset", "zh"}
  MaxNow = 5
  Overlap = FALSE
  MayFail = FALSE
  MayRevert = FALSE
  Machines = {"m1"}
  AccountOf <- AccountOfMC
  l1 = l1
  l2 = l2
  Lessons <- MCLessons
  Alike <- MCAlike
  Requests = {"q1", "q2"}
  MaxCopies = 2
  MaxVerdicts = 4
  MaxLessonFaults = 1
SPECIFICATION KeptSpec
INVARIANTS MergesLeaveOne TokenCoversEdits OneCopyPerLesson
PROPERTIES TextsKept
CHECK_DEADLOCK FALSE
