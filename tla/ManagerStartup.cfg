CONSTANTS
  LogOptions = {"encoding", "sampling.initial"}
  ManagerOptions = {"PodTemplate", "webhookBindAddress"}
  Flagged = {"encoding", "sampling.initial", "webhookBindAddress"}
  Sampling = {"sampling.initial"}
  LogRequired = {"encoding"}
  ManagerRequired = {"PodTemplate"}
  PodTemplate = "PodTemplate"
  BindAddress = "webhookBindAddress"
  Absent = Absent

SPECIFICATION Spec

INVARIANTS
  TypeOK
  FlagWins
  StartsOnGoodInput
