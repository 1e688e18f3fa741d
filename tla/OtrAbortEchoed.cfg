SPECIFICATION ClientSpec
CONSTANTS
  Contacts = {bob, john}
  Fps = {f1, f2}
  NoFp = NoFp
  PeerFps = {f1, f2}
  MaxMsgs = 2
  MaxNotices = 1
  MaxTrust = 2
  MaxSends = 1
  MaxEvents = 3
  MaxCalls = 1
  Talkers = {ann, ben}
  TalkPolicies = {"never", "manual", "opportunistic", "always"}
  MaxTexts = 2
  MaxDisguised = 1
  MaxTalkCalls = 2
SYMMETRY Symmetric
INVARIANT AbortedByPeer
CHECK_DEADLOCK FALSE
