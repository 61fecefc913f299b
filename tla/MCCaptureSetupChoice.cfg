CONSTANT Cameras <- MCCameras
SPECIFICATION SetupSpec
CHECK_DEADLOCK FALSE
INVARIANTS
  RunsSelected
