SPECIFICATION FairSpec
CONSTANTS
  Users = {u1}
  NoUser = NoUser
  MaxAlerts = 2
  Configured <- AllChannels
  MaxChanges = 2
  Faults <- AllFaults
PROPERTIES
  ImplementsAlertLifecycle
  AlertsReachClients
INVARIANTS
  OnlyAllowedChannels
  DeliveryIsComplete
CHECK_DEADLOCK FALSE
