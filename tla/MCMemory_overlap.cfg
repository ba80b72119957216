CONSTANTS
  Users = {"person"}
  Admins = {}
  Sessions = {"s1", "s2"}
  UserOf <- UserOfBoth
  Ids = {"p1", "r1"}
  Owner <- OwnerMixed
  Kind <- KindMixed
  Seeded = {"p1", "r1"}
  Texts = {"a", "b"}
  Locales = {"unset", "zh"}
  MaxNow = 3
  Overlap = TRUE
  MayFail = TRUE
  MayRevert = TRUE
  Machines = {"m1"}
  AccountOf <- AccountOfMC
SPECIFICATION FairSpec
PROPERTIES ArchiveOnlyActive CacheCatchesUp
