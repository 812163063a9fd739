\* Two processes that publish, read and die on one root, two serials.
CONSTANTS
  StoreA = StoreA
  StoreB = StoreB
  Stores <- MCStores
  NoStore = NoStore
  MaxSerial = 2
SPECIFICATION Spec
 
PROPERTIES   CallsReturn
