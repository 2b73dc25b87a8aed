CONSTANTS
  RProvider = {o1, o2}
  Nothing = Nothing
SPECIFICATION CSpec
PROPERTY FileIsLoaded
