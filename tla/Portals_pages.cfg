SPECIFICATION PortalsSpec
CONSTANTS
  NoTenant = NoTenant
  NoDashboard = NoDashboard
  NoFleet = NoFleet
  NoText = NoText
  Texts = {x1, x2}
  Tenants = {t1, t2}
  CustomerTenants = {t1, t2}
  OperatorTenants = {t1}
  MaxRollouts = 1
  MaxChanges = 1
  MaxPosts = 1
  MaxFailures = 1
  Allowances <- MCAllowances
  MaxErrors = 1
  MaxRefreshes = 1
INVARIANT OptionsFollowText
PROPERTIES SignOutIsFinal WatcherIsTaken RolloutIsShown
CHECK_DEADLOCK FALSE
