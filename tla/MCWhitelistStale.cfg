SPECIFICATION Spec
CONSTANTS
  h1 = h1
  h2 = h2
  h3 = h3
  NoHost = NoHost
  Hosts <- ThreeHosts
  BLE_GAP_WHITELIST_ADDR_MAX_COUNT = 2
  MaxEvents = 3
SYMMETRY Symmetry
PROPERTY PeerManagerUpdated
