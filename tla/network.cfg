SPECIFICATION FairSpec
CONSTANTS
  Word = 256
  Byte = 16
  ByteBits = 4
  FirstWord = 69
  FreshTtl = 6
  MaxSent = 3
  Routers <- MCRouters
  Hosts <- MCHosts
  rtable <- MCrtable
  arp_table <- MCarp_table
  InterfaceIp <- MCInterfaceIp
  InterfaceMac <- MCInterfaceMac
  Link <- MCLink
  HostIp <- MCHostIp
  HostMac <- MCHostMac
  Attachment <- MCAttachment
  HostFrames <- MCAnyTraffic
CHECK_DEADLOCK FALSE
INVARIANTS
  TypeOK
  ChecksumsValid
  TtlPaid
  LongestPrefixUsed
PROPERTIES
  Delivered
  FallSilent
