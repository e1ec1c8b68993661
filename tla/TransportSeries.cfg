\* Two adapters that subscribe one after the other, over either provider, torn
\* down and destroyed at any time; timers that are set fire.
CONSTANTS
  Subs = {1, 2}
  Providers = {"hocuspocus", "y-websocket"}
SPECIFICATION FairSpec
INVARIANTS TypeOK OneListener LastProviderReleased WaitingIsTimed
           OneTimeoutPerOutage TransportIInv
PROPERTIES NeverFreshAfterDrop LongOutageSurfaces
CHECK_DEADLOCK FALSE
