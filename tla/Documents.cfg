CONSTANTS
  alice = alice  bob = bob  name = name  inbox = inbox  ipfs = ipfs  use = use
  Dids <- MCDids
  Names = {name}
  Nobody = Nobody
  Caps = {use}
  AnyCap = AnyCap
  Deny = Deny
  Null = Null
  Text = Text
  Active = {alice}
  Renewable <- MCRenewable
  Protocols = {inbox}
  Offers <- MCOffers
  Broken = Broken
  Frags = {"next"}
  Files <- MCFiles
  NoMa = NoMa  NoKey = NoKey  NoEndpoint = NoEndpoint
  NoRequest = NoRequest  NoPacket = NoPacket  NoOutbox = NoOutbox
  MaxKeys = 2
  Scopes <- MCScopes
SPECIFICATION Spec
INVARIANTS BuiltIsAccepted OneDocumentPerProof AdmittedMayDo
PROPERTIES PublishRequests Understood
