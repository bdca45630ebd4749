CONSTANTS
  LogOptions = {"encoding"}
  ManagerOptions = {"leaderElectionID", "PodTemplate", "webhookBindAddress"}
  Flagged = {"encoding", "leaderElectionID", "webhookBindAddress"}
  Sampling = {}
  LogRequired = {"encoding"}
  ManagerRequired = {"leaderElectionID", "PodTemplate"}
  PodTemplate = "PodTemplate"
  BindAddress = "webhookBindAddress"
  Absent = Absent

SPECIFICATION Spec

INVARIANT
  RunsWithRequired
