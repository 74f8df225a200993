SPECIFICATION MigrationSpec
CONSTANTS
  MaxBackups = 3
  Tags = {"drop", "wg", "direct"}
  TypeOf <- Types
  Inbounds = {"in1", "in2"}
  Originals <- SomeOriginals
INVARIANTS WayBack FailureHarmless SuccessSurvivesBoot SamePolicy RerunStable
