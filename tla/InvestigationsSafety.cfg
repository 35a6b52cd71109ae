SPECIFICATION Spec
CONSTANTS
  alice = alice
  bob = bob
  general = general
  t1 = t1
  t2 = t2
  Users = {alice, bob}
  Channels = {general}
  Threads = {t1}
  BotUser = bot
  Events <- OneThreadEvents
  NoEvent = NoEvent
  Files = {}
  NoFile = NoFile
  McpCaller = McpCaller
  MaxDeliveries = 3
  MaxRestarts = 1
  Expiry = 0
  Retention = 0
  PdfDisabled = FALSE
INVARIANTS TypeOK OneRunPerRequester
PROPERTIES ImplementsSlots
