SPECIFICATION Spec
CONSTANTS
  N = 3
  Phase = {"A"}
  Sample <- Levels
  Zero = 0
INVARIANT TypeOK
PROPERTY SlidesWindow
