SPECIFICATION Spec
CONSTANTS
  NUM_RX_DESCRIPTORS = 4
  ifq_maxlen = 2
  MaxFrames = 5
  NUM_TX_DESCRIPTORS = 3
  if_snd_maxlen = 2
  MaxSends = 5
  TxThread = {t1, t2}
  Width = 3
  MaxRouteOps = 5
  Sender = {s1, s2}
  MaxPackets = 3
  MaxHeard = 2
  MaxTime = 4
  arp_maxtries = 1
  arpt_keep = 1
  arpt_down = 2
  MLEN = 2
  MCLBYTES = 4
  MINCLSIZE = 4
  max_linkhdr = 1
  MaxPacket = 6
  MaxBufOps = 3
  Reader = {r1, r2}
  Modes = {"", "DONTWAIT", "PEEK"}
  DLen = 2
  HiWat = 6
  MaxDgram = 3
  MaxRecv = 2
  MLen = 2
  MHLen = 2
  MClBytes = 6
  MinClSize = 4
  max_hdr = 1
  MSize = 3
  sb_max = 40
  SendSizes <- MCSendSizes
  BufSizes = {5, 6, 9, 14, 20, 26, 30}
  Sock = {k1, k2}
  Remote = {"r"}
  Junk = "junk"
  Reserved = 2
  UserReserved = 3
  PortMod = 6
  Id = {"i"}
  Sends <- MCSends
  IPFRAGTTL = 2
  MaxDup = 2
SYMMETRY Symmetry
CONSTRAINT Sound
INVARIANTS  RoutesLead HeldPackets   SentWhole  
CHECK_DEADLOCK FALSE
