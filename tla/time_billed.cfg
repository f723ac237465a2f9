SPECIFICATION Spec
CONSTANTS
  PayrollCase <- SmallPayrolls
  PayCase <- EveryPay
  TimeCase <- SmallTimes
  JobCase <- SmallJobs
  MembersCase <- SmallMembers
  DealCase <- SmallDeals
  AssetCase <- SmallAsset
  SplitCase <- SmallSplit
  EventCase <- SmallEvents
  RuleCase <- SmallRules
  StatementCase <- SmallStatements
  Tab <- TwoTabs
  Role <- TwoRoles
  Features <- PlanFeatures
  Kinds <- EveryPage
  MaxBusy = 2
INVARIANTS BilledIsInvoiced
CHECK_DEADLOCK FALSE
