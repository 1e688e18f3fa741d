SPECIFICATION ClientSpec
CONSTANTS
  Contacts = {bob, john}
  Fps = {f1, f2}
  NoFp = NoFp
  PeerFps = {f1, f2}
  MaxMsgs = 2
  MaxNotices = 1
  MaxTrust = 2
  MaxSends = 1
  MaxEvents = 3
  MaxCalls = 1
  Talkers = {ann, ben}
  TalkPolicies = {"never", "manual", "opportunistic", "always"}
  MaxTexts = 1
  MaxDisguised = 1
  MaxTalkCalls = 1
SYMMETRY Symmetric
INVARIANT EncryptsAlways
CHECK_DEADLOCK FALSE
