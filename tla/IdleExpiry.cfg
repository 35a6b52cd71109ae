SPECIFICATION ActivitySpec
CONSTANTS
  alice = alice
  bob = bob
  general = general
  t1 = t1
  t2 = t2
  Users = {alice, bob}
  Channels = {general}
  Threads = {t1}
  BotUser = bot
  Events <- FewEvents
  NoEvent = NoEvent
  Files = {}
  NoFile = NoFile
  McpCaller = McpCaller
  MaxDeliveries = 2
  MaxRestarts = 0
  Expiry = 1
  Retention = 0
  PdfDisabled = FALSE
PROPERTY ExpiresOnlyWhenInactive
