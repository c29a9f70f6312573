CONSTANTS
  old_net = old_net
  home1 = home1
  home2 = home2
  home = home
  no_site = no_site
  Client = {old_net, home1, home2}
  site <- MCsite
  Param = {1}
  Nonces = 2
  MAX_CACHED_WORK_ITEMS = 1
  MAX_STALE_GETWORK_HANDLERS = 1
  MAX_CURRENT_GETWORK_HANDLERS = 2
  MAX_GETWORK_HANDLERS_PER_CLIENT = 2
  MAX_UNVERIFIED_GETWORK_HANDLERS_PER_CLIENT = 1
  MAX_GETWORK_HANDLERS_PER_IPV6_PREFIX = 1
  MAX_VERIFIED_GETWORK_CLIENTS = 1
  MAX_LONG_POLL_IDENTITIES = 1
  MAX_CONCURRENT_LONG_POLLS = 1
  HandlerLife = 2
  VerifiedLife = 1
  ViewLife = 2
  PollLife = 1
  Roll = 1
  MaxOffset = 2
  MaxWorks = 2
  MaxTimes = 1
SYMMETRY MCsymmetry
SPECIFICATION Spec
INVARIANTS GetWorkTypeOK NeverTwice CurrentWork QuotasExact PollsPrompt
PROPERTIES HandlersKept
