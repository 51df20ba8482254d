CONSTANTS
  SLOTS = 2
  SIZE = 4
  Hosts = {a, r, s}
  Routers = {r}
  StaticRouter = s
  Mac <- MCMac
  Unknown = unknown
  Prefetched = prefetched
  LinkLocal = linklocal
  Prefix = prefix
  Advertisements <- MCAdvertisements
  Solicitations <- MCSolicitations
  RouterAdvertisements <- MCRouterAdvertisements
  NDP_CACHE_REFRESH_IN_MINUTES = 6
  MaxRefreshes = 1
SPECIFICATION Spec
INVARIANTS TypeOK StaticKept ConfirmedKept LookupRight MessagesListed
CHECK_DEADLOCK FALSE
