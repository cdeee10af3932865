SPECIFICATION Spec
CONSTANT Users <- AllUsers
INVARIANTS MemoryExact GraphClean SolutionsKept
PROPERTIES HandlesKeepMeaning SimplifyEnds
