SPECIFICATION FairSpec
CONSTANTS
  Word = 256
  Byte = 16
  ByteBits = 4
  FirstWord = 69
  FreshTtl = 6
  MaxSent = 1
  Routers <- MCRouters
  Hosts <- MCHosts
  rtable <- MCrtable
  arp_table <- MCarp_table
  InterfaceIp <- MCInterfaceIp
  InterfaceMac <- MCInterfaceMac
  Link <- MCLink
  HostIp <- MCHostIp
  HostMac <- MCHostMac
  Attachment <- MCAttachment
  HostFrames <- MCOwnPing
CHECK_DEADLOCK FALSE
PROPERTY EchoAnswered
