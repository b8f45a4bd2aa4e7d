CONSTANT MaxArgTokens = 9
SPECIFICATION Spec
INVARIANT CreateHonoursEveryUse
