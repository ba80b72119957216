CONSTANTS
  Users = {"person"}
  Admins = {}
  Sessions = {"s1", "s2"}
  UserOf <- UserOfBoth
  Ids = {"r1"}
  Owner <- OwnerOne
  Kind <- KindOne
  Seeded = {"r1"}
  Texts = {"a", "b", "c"}
  Locales = {"unset"}
  MaxNow = 4
  Overlap = TRUE
  MayFail = FALSE
  MayRevert = FALSE
  Machines = {"m1"}
  AccountOf <- AccountOfMC
SPECIFICATION Spec
PROPERTIES TextsKept
