\* A resolver that keeps its modules, as a cache does.
CONSTANTS
  main = main
  dep = dep
  twin = twin
  a = a
  b = b
  Mods = {main, dep, twin}
  Importers = {main, dep}
  NoMod = NoMod
  Names = {a, b}
  NoName = NoName
  Name <- MCName
  Resolvers = {r1, r2}
  NoResolver = NoResolver
  DynamicResolvers = {r1}
  MaxStack = 2
  MaxFailures = 1
SPECIFICATION ModulesSpec
CHECK_DEADLOCK FALSE
INVARIANTS
  ErroredModulesAreNotAsked
