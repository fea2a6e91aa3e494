SPECIFICATION Spec
CONSTANTS
  None = None
  Authority <- AllAuthorities
  Policy <- HostPolicies
  MaxRedirects = 5
INVARIANTS
  EveryRequestFiltered
