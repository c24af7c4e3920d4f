SPECIFICATION CalmSpec
CONSTANTS
  Games = {g1}
PROPERTIES SyncsAfterClose ArrivesWithoutLaunch
