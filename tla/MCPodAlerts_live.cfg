SPECIFICATION FairSpec
CONSTANTS
  web = web
  app = app
  Pods <- OnePod
  Conts <- App
  PodOf <- AppOfWeb
  InitConts <- Nobody
  Ignored <- Nobody
  Matches <- OwnMarker
  Gates <- Rollouts
  Ends <- Errors
  MaxInbox = 1
INVARIANTS TypeOK OneVerdict
PROPERTIES FailureStaysAlerted FirstStartResolved LookAlerts AlertStands NoFalseAlarm
