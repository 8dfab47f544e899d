SPECIFICATION RegistrySpec
CONSTANTS
  Entities = {1, 2, 3, 4, 5, 6, 7, 8, 9}
  NameHash <- MCNameHash
  AliasHash <- MCAliasHash
  EntityType <- MCEntityType
INVARIANT FindsEachOnce
