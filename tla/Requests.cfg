CONSTANTS
  Kinds = {"peer", "miner", "daemon"}
  a = a
  b = b
  Conn = {a, b}
  nobody = nobody
  MaxOut = 2
  Pings = 3
SPECIFICATION Spec
INVARIANTS RequestsTypeOK
PROPERTIES KeepsPromise LoopGoesOn
