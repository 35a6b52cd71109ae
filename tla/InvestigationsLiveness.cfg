SPECIFICATION FairSpec
CONSTANTS
  alice = alice
  bob = bob
  general = general
  t1 = t1
  t2 = t2
  Users = {alice, bob}
  Channels = {general}
  Threads = {t1}
  BotUser = bot
  Events <- FewEvents
  NoEvent = NoEvent
  Files = {report}
  NoFile = NoFile
  McpCaller = t1
  MaxDeliveries = 2
  MaxRestarts = 0
  Expiry = 0
  Retention = 0
  PdfDisabled = FALSE
PROPERTIES SlotsAreReturned GaugeCatchesUp ConversationsExpire OldReportsAreRemoved
