SPECIFICATION Spec
CONSTANTS
  web = web
  app = app
  Pods <- OnePod
  Conts <- App
  PodOf <- AppOfWeb
  InitConts <- Nobody
  Ignored <- Nobody
  Matches <- OwnMarker
  Gates <- Upgrades
  Ends <- AnyEnd
  MaxInbox = 1
PROPERTIES QuietDuringCGU
