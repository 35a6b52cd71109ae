SPECIFICATION Spec
CONSTANTS
  alice = alice
  bob = bob
  general = general
  t1 = t1
  t2 = t2
  Users = {alice, bob}
  Channels = {general}
  Threads = {t1, t2}
  BotUser = bot
  Events <- TwoThreadEvents
  NoEvent = NoEvent
  Files = {report}
  NoFile = NoFile
  McpCaller = McpCaller
  MaxDeliveries = 2
  MaxRestarts = 0
  Expiry = 0
  Retention = 0
  PdfDisabled = FALSE
PROPERTY ReportsStayInTheirThread
