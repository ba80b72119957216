CONSTANTS
  Users = {"person", "admin"}
  Admins = {"admin"}
  Sessions = {"s1", "s2"}
  UserOf <- UserOfMC
  Ids = {"r1", "r2", "t1"}
  Owner <- OwnerRules
  Kind <- KindRules
  Seeded = {}
  Texts = {"a", "b"}
  Locales = {"unset", "zh"}
  MaxNow = 5
  Overlap = FALSE
  MayFail = FALSE
  MayRevert = FALSE
  Machines = {"m1"}
  AccountOf <- AccountOfMC
SPECIFICATION Spec
PROPERTIES WritesMoveToken
