SPECIFICATION Spec
CONSTANTS
  laptop = laptop
  phone = phone
  guest = guest
  profile = profile
  journal = journal
  Devices = {laptop, phone}
  AgentOs <- MCAgentOs
  Rank <- MCRank
  Objects = {profile, journal}
  AppendOnly = {journal}
  Pairs <- MCPairs
  MaxVersion = 3
  MaxTime = 2
PROPERTY NewerKept
