\* Three standard streams and two further descriptors.
SPECIFICATION Spec
CONSTANTS
  dev_null = dev_null
  jtag_uart = jtag_uart
  zip_fs = zip_fs
  nameless = nameless
  null = null
  MAX_FD = 5
  Devs <- DeviceSet
  FSs <- FSSet
  alt_dev_null = dev_null
  NONE = null
  names <- NamesOf
  callbacks <- CallbacksOf
  Files <- Paths
  stdio <- Streams
  OpenFlags <- FlagSets
INVARIANTS IInv
PROPERTIES Implements
