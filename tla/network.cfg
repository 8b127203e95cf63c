CONSTANTS
  a = a  b = b  f = f  gone = gone
  Node = {a, b, f}
  Msg = {ma}
  Author <- MCAuthor
  TopicOf <- MCTopicOf
  Topics = 2
  GossipRoom = 1
  Decoders = 2
  MsgRoom = 1
  BootPeers <- MCBootPeers
  Malformed = Malformed
  ForwardPeers = {f}
SPECIFICATION FairNet
PROPERTY ImplementsBroadcast  Meshed
