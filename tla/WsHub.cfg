SPECIFICATION FairSpec
CONSTANTS
  polite = polite
  rude = rude
  admin = admin
  topic = topic
  other = other
  Conns = {polite, rude}
  Topics = {topic, other}
  TopicOf <- MCTopicOf
  Talkers = {rude}
  Readers = {polite, rude}
  Leavers = {polite}
  Polite = {polite}
  Admins = {admin}
  AdminTopic <- MCAdminTopic
  MaxKills = 1
  Window = 1
  Idle = Idle
INVARIANTS
  PresenceIsExact
  CloseComesLast
  FramesMatchEvents
PROPERTIES
  KillsComplete
CHECK_DEADLOCK FALSE
