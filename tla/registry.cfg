SPECIFICATION Spec
CONSTANTS
  ValidSegments <- MCValidSegments
  Lower <- MCLower
  Absent = Absent
  NoPermissions = NoPermissions
  NoManifest = NoManifest
  MaxInheritanceDepth = 3
  MaxSingleAction = 3
  DualAttestation = {}
  Spellings <- MCSpellings
  Registered <- MCRegistered
  Retractable <- MCRetractable
  Manifests <- MCManifests
  Proposed <- MCProposed
INVARIANTS TypeOK RetractionCascades NoStrayRetraction SlashesMatterForOwnRecordsOnly ChainsExtend ManifestsBind RestrictionsAreInherited LiteralListsOnlyRestrict
