SPECIFICATION Spec
CHECK_DEADLOCK FALSE
CONSTANTS
  repo = repo
  cache1 = cache1
  cache2 = cache2
  elsewhere = elsewhere
  none = none
  lib = lib
  a = a
  z = z
  s1 = s1
  s2 = s2
  s3 = s3
  Answers <- mcAnswers
  BuildFiles <- mcBuilds
  Paths <- mcPaths
  Roots = {repo}
  Caches = {cache1, cache2}
  Texts = {"old", "new"}
  NoText = NoText
  Nowhere = Nowhere
  NoBinding = NoBinding
  MaxEdits = 1
  Loaded <- mcLoaded
  MaxBindings = 2
  MaxRan = 2
INVARIANTS
  LocatedAtItsSource
  StepsOnItsInstruction
