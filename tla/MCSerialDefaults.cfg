SPECIFICATION Spec
CONSTANTS
  Tokens <- MCTokens
  Settings <- MCSettings
  Timeouts = {255}
  NoTimeout = NoTimeout
  Ports <- MCPorts
INVARIANT
  DocumentedDefaults
