\* Detection, response and event framework, each on its own.
SPECIFICATION Spec
CONSTANTS
  \* detection
  DetectedUser = {"u"} NoUser = "none" Events <- DetectedEvents Requests <- SeenRequests
  Recent = 2 DetectionCleanEvery = 2 MaxAge = 1 Hour = 2 MaxResults = 2 MaxThreats = 2 DetectionTime = 3
  \* response
  Results <- ThreatResults ResponseIds = {"geographic_anomaly_response"} AddedResponses <- LockResponses
  RuleIds = {"user_behavior_anomaly"} Minutes = 60 Latest = 2 Delay = 2 ResponseCleanEvery = 1
  BlockFor = 1 KeepFor = 1 MaxCalls = 2 MaxRollbacks = 1 ResponseTime = 2 None = "none"
INVARIANT ThreatsAreReported BlockCanBeUndone
PROPERTY ResponsesAreCarriedOut ManagementIsTold
CHECK_DEADLOCK FALSE
