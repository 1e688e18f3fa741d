SPECIFICATION ClientSpec
CONSTANTS
  Contacts = {bob, john}
  Fps = {f1, f2}
  NoFp = NoFp
  PeerFps = {f1, f2}
  MaxMsgs = 1
  MaxNotices = 0
  MaxTrust = 0
  MaxSends = 0
  MaxEvents = 1
  MaxCalls = 1
  Talkers = {ann, ben}
  TalkPolicies = {"manual"}
  MaxTexts = 0
  MaxDisguised = 1
  MaxTalkCalls = 0
SYMMETRY Symmetric
INVARIANT TrustedMeansVerdict
CHECK_DEADLOCK FALSE
