------------------------------- MODULE Routes -------------------------------
(***************************************************************************)
(* The HTTP routes of the server, controller by controller and in the      *)
(* order they are registered: the address, who may call it, the feature of *)
(* the plan it needs, the body it takes, and whether its handler leaves an *)
(* audit_log row in the transaction of its write.                          *)
(* A segment that starts with ":" is a parameter.  ":id" is parsed to a    *)
(* number before the handler runs, as the other Ids are.                   *)
(***************************************************************************)
EXTENDS Bodies, Sequences

Ids == {":id", ":entityId", ":itemId", ":bankAccountId", ":employeeId", ":expenseId",
        ":tenantId"}
Parameters == Ids \cup {":token", ":entityType"}

(* The roles of a membership, as the @Roles lists name them.               *)
Owner    == {"owner"}
Admins   == Owner \cup {"admin"}
Writers  == Admins \cup {"manager"}
Analysts == Writers \cup {"analyst"}
Anyone   == Analysts \cup {"viewer"}

(* A controller method with no JwtAuthGuard: nobody has to be signed in.   *)
Public == Anyone \cup {"nobody"}

Route(verb, path, who, body) ==
    [verb |-> verb, path |-> path, who |-> who, body |-> body, logged |-> verb # "GET"]

Get(path, who)          == Route("GET", path, who, Loose)
Post(path, who, body)   == Route("POST", path, who, body)
Put(path, who, body)    == Route("PUT", path, who, body)
Patch(path, who, body)  == Route("PATCH", path, who, body)
Delete(path, who)       == Route("DELETE", path, who, Loose)

(* A write whose handler logs nothing, and a read that is logged.          *)
Silent(route)  == [route EXCEPT !.logged = FALSE]
Exports(route) == [route EXCEPT !.logged = TRUE]

(* The routes of a controller under the prefix and the feature of its      *)
(* class.                                                                  *)
At(prefix, feature, routes) ==
    [i \in DOMAIN routes |->
        [verb |-> routes[i].verb, path |-> prefix \o routes[i].path, who |-> routes[i].who,
         body |-> routes[i].body, logged |-> routes[i].logged, feature |-> feature]]

AccountsController == At(<<"accounts">>, "feature.accounts",
    << Get(<<>>, Anyone),
       Get(<<":id">>, Anyone),
       Post(<<>>, Writers, CreateAccountDto),
       Patch(<<":id">>, Writers, UpdateAccountDto) >>)

AdminController == At(<<"admin">>, "feature.admin",
    << Get(<<"users">>, Admins),
       Post(<<"users">>, Admins, CreateUserDto),
       Post(<<"memberships">>, Admins, CreateMembershipDto),
       Patch(<<"memberships", ":id">>, Admins, UpdateMembershipDto),
       Get(<<"lock-date">>, Admins),
       Patch(<<"lock-date">>, Owner, SetLockDateDto),
       Exports(Get(<<"export", "audit-log">>, Owner)) >>)

AdminFromExportTrialBalance == At(<<"admin">>, "feature.admin",
    << Exports(Get(<<"export", "trial-balance">>, Admins)),
       Post(<<"users", ":id", "set-password">>, Owner, Loose) >>)

ApiKeysController == At(<<"api-keys">>, "feature.journal",
    << Post(<<>>, Admins, CreateApiKeyDto),
       Get(<<>>, Admins),
       Delete(<<":id">>, Admins) >>)

AuthController == At(<<"auth">>, "none",
    << Get(<<"context">>, Anyone),
       Post(<<"logout">>, Anyone, Loose),
       Post(<<"logout-all">>, Admins, Loose),
       Get(<<"tenant-smoke">>, Anyone),
       Get(<<"rbac", "admin">>, Admins),
       Get(<<"rbac", "owner">>, Owner),
       Get(<<"rbac", "manager-plus">>, Writers) >>)

LoginController == At(<<"auth">>, "none",
    << Silent(Post(<<"login">>, Public, LoginDto)),
       Silent(Post(<<"mfa", "validate">>, Public, MfaValidateDto)) >>)

MfaController == At(<<"auth", "mfa">>, "none",
    << Silent(Post(<<"setup">>, Anyone, Loose)),
       Post(<<"verify-setup">>, Anyone, MfaTokenDto),
       Post(<<"disable">>, Anyone, MfaDisableDto) >>)

RegisterController == At(<<"auth">>, "none",
    << Post(<<"register">>, Public, RegisterDto) >>)

BankRulesController == At(<<"bank-rules">>, "feature.accounts",
    << Get(<<>>, Anyone),
       Get(<<":id">>, Anyone),
       Post(<<>>, Writers, CreateBankRuleDto),
       Put(<<":id">>, Writers, Loose),
       Delete(<<":id">>, Admins),
       Silent(Post(<<"test">>, Writers, Loose)) >>)

BankAccountApplyRulesController == At(<<"bank-accounts">>, "feature.accounts",
    << Post(<<":id", "apply-rules">>, Writers, Loose) >>)

BankAccountsController == At(<<"bank-accounts">>, "feature.accounts",
    << Get(<<>>, Anyone),
       Post(<<>>, Writers, CreateBankAccountDto),
       Put(<<":id">>, Writers, UpdateBankAccountDto),
       Get(<<":id">>, Anyone),
       Post(<<":id", "transactions">>, Writers, CreateBankTransactionDto),
       Post(<<":id", "import-csv">>, Writers, ImportCsvDto),
       Get(<<":id", "transactions">>, Anyone),
       Get(<<":id", "reconciliation-summary">>, Analysts) >>)

PlaidController == At(<<"banking", "plaid">>, "feature.accounts",
    << Silent(Post(<<"create-link-token">>, Writers, Loose)),
       Post(<<"exchange-token">>, Writers, Loose),
       Post(<<"sync", ":bankAccountId">>, Writers, Loose) >>)

BankTransactionsController == At(<<"bank-transactions">>, "feature.accounts",
    << Post(<<":id", "reconcile">>, Writers, ReconcileTransactionDto),
       Post(<<":id", "unreconcile">>, Writers, Loose) >>)

BillsController == At(<<"bills">>, "feature.journal",
    << Get(<<>>, Anyone),
       Get(<<"ap-aging">>, Analysts),
       Get(<<":id">>, Anyone),
       Post(<<>>, Writers, CreateBillDto),
       Put(<<":id">>, Writers, Loose),
       Post(<<":id", "receive">>, Writers, Loose) >>)

BillsFromApprove == At(<<"bills">>, "feature.journal",
    << Post(<<":id", "approve">>, Writers, Loose),
       Post(<<":id", "pay">>, Writers, PayBillDto),
       Post(<<":id", "void">>, Admins, Loose) >>)

BudgetsController == At(<<>>, "feature.journal",
    << Get(<<"budgets">>, Anyone),
       Get(<<"budgets", ":id">>, Anyone),
       Post(<<"budgets">>, Writers, CreateBudgetDto),
       Put(<<"budgets", ":id">>, Writers, UpdateBudgetDto),
       Delete(<<"budgets", ":id">>, Admins),
       Get(<<"budgets", ":id", "vs-actual">>, Anyone),
       Get(<<"reports", "forecast">>, Anyone) >>)

ChartOfAccountsController == At(<<"chart-of-accounts">>, "feature.chart_of_accounts",
    << Get(<<>>, Anyone),
       Get(<<":id">>, Anyone),
       Post(<<>>, Admins, CreateChartDto),
       Patch(<<":id">>, Admins, UpdateChartDto) >>)

PortalAdminController == At(<<"contacts">>, "feature.accounts",
    << Post(<<":id", "generate-portal-link">>, Writers, Loose),
       Get(<<":id", "portal-status">>, Anyone) >>)

PortalController == At(<<"portal">>, "none",
    << Get(<<":token", "invoices">>, Public),
       Get(<<":token", "invoices", ":id">>, Public),
       Get(<<":token", "invoices", ":id", "pdf">>, Public),
       Get(<<":token", "estimates">>, Public),
       Get(<<":token", "estimates", ":id", "accept">>, Public),
       Get(<<":token", "statements">>, Public) >>)

CompanyGroupsController == At(<<"company-groups">>, "none",
    << Post(<<>>, Owner, Loose),
       Get(<<>>, Owner),
       Get(<<":id">>, Owner),
       Post(<<":id", "add-tenant">>, Owner, Loose),
       Delete(<<":id", "remove-tenant", ":tenantId">>, Owner),
       Get(<<":id", "consolidated-dashboard">>, Owner) >>)

ContactsController == At(<<"contacts">>, "feature.accounts",
    << Get(<<>>, Anyone),
       Post(<<"import-csv">>, Writers, Loose),
       Get(<<"export-csv">>, Analysts),
       Get(<<":id", "statement">>, Anyone),
       Get(<<":id">>, Anyone),
       Post(<<>>, Writers, CreateContactDto),
       Put(<<":id">>, Writers, UpdateContactDto) >>)

ContactsFromRemove == At(<<"contacts">>, "feature.accounts",
    << Delete(<<":id">>, Admins) >>)

CreditNotesController == At(<<"credit-notes">>, "feature.journal",
    << Get(<<>>, Anyone),
       Get(<<":id">>, Anyone),
       Post(<<>>, Writers, CreateCreditNoteDto),
       Put(<<":id">>, Writers, Loose),
       Post(<<":id", "issue">>, Writers, Loose),
       Post(<<":id", "apply">>, Writers, Loose) >>)

CreditNotesFromVoidCreditNote == At(<<"credit-notes">>, "feature.journal",
    << Post(<<":id", "void">>, Admins, Loose),
       Exports(Get(<<":id", "pdf">>, Analysts)) >>)

CrmController == At(<<>>, "feature.journal",
    << Get(<<"crm", "pipelines">>, Anyone),
       Get(<<"crm", "pipelines", ":id">>, Anyone),
       Post(<<"crm", "pipelines">>, Writers, CreatePipelineDto),
       Put(<<"crm", "pipelines", ":id">>, Writers, UpdatePipelineDto),
       Delete(<<"crm", "pipelines", ":id">>, Admins),
       Get(<<"crm", "pipeline">>, Anyone),
       Get(<<"crm", "opportunities">>, Anyone) >>)

CrmFromFindOneOpportunity == At(<<>>, "feature.journal",
    << Get(<<"crm", "opportunities", ":id">>, Anyone),
       Post(<<"crm", "opportunities">>, Writers, CreateOpportunityDto),
       Put(<<"crm", "opportunities", ":id">>, Writers, UpdateOpportunityDto),
       Delete(<<"crm", "opportunities", ":id">>, Admins),
       Post(<<"crm", "opportunities", ":id", "move">>, Writers, MoveOpportunityDto),
       Post(<<"crm", "opportunities", ":id", "win">>, Writers, Loose),
       Post(<<"crm", "opportunities", ":id", "lose">>, Writers, Loose) >>)

CrmFromFindAllActivities == At(<<>>, "feature.journal",
    << Get(<<"crm", "activities">>, Anyone),
       Post(<<"crm", "activities">>, Writers, CreateActivityDto),
       Put(<<"crm", "activities", ":id">>, Writers, UpdateActivityDto),
       Delete(<<"crm", "activities", ":id">>, Admins),
       Get(<<"crm", "dashboard">>, Anyone),
       Get(<<"reports", "sales-pipeline">>, Anyone) >>)

CurrenciesController == At(<<>>, "feature.journal",
    << Get(<<"currencies">>, Anyone),
       Post(<<"exchange-rates">>, Admins, CreateExchangeRateDto),
       Get(<<"exchange-rates">>, Anyone),
       Get(<<"exchange-rates", "latest">>, Anyone),
       Put(<<"exchange-rates", ":id">>, Admins, UpdateExchangeRateDto),
       Delete(<<"exchange-rates", ":id">>, Admins) >>)

CustomFieldsController == At(<<>>, "feature.accounts",
    << Get(<<"custom-field-definitions">>, Anyone),
       Get(<<"custom-field-definitions", ":id">>, Anyone),
       Post(<<"custom-field-definitions">>, Writers, CreateCustomFieldDto),
       Put(<<"custom-field-definitions", ":id">>, Writers, Loose),
       Delete(<<"custom-field-definitions", ":id">>, Admins),
       Get(<<"custom-field-values", ":entityType", ":entityId">>, Anyone),
       Put(<<"custom-field-values", ":entityType", ":entityId">>, Writers, Loose) >>)

DataExportController == At(<<>>, "feature.journal",
    << Exports(Get(<<"export", "all">>, Owner)),
       Delete(<<"tenant", "data">>, Owner) >>)

DocumentTemplatesController == At(<<"document-templates">>, "feature.journal",
    << Get(<<>>, Anyone),
       Get(<<":id">>, Anyone),
       Get(<<":id", "preview">>, Writers),
       Post(<<>>, Admins, CreateTemplateDto),
       Put(<<":id">>, Admins, UpdateTemplateDto),
       Delete(<<":id">>, Admins) >>)

TierController == At(<<"tiers">>, "none",
    << Get(<<"catalog">>, Anyone),
       Get(<<"current">>, Anyone),
       Post(<<"internal", "assign">>, Public, InternalAssignTierDto) >>)

EquipmentController == At(<<"equipment">>, "feature.journal",
    << Get(<<>>, Anyone),
       Get(<<"reports", "equipment-cost">>, Analysts),
       Get(<<":id">>, Anyone),
       Post(<<>>, Writers, CreateEquipmentDto),
       Put(<<":id">>, Writers, Loose),
       Delete(<<":id">>, Admins),
       Get(<<":id", "utilization">>, Analysts),
       Get(<<"usage", "list">>, Anyone),
       Get(<<"usage", ":id">>, Anyone),
       Post(<<"usage">>, Writers, CreateEquipmentUsageDto),
       Put(<<"usage", ":id">>, Writers, Loose) >>)

EquipmentFromDeleteUsage == At(<<"equipment">>, "feature.journal",
    << Delete(<<"usage", ":id">>, Admins) >>)

EstimatesController == At(<<"estimates">>, "feature.journal",
    << Post(<<>>, Writers, CreateEstimateDto),
       Get(<<>>, Anyone),
       Get(<<":id">>, Anyone),
       Put(<<":id">>, Writers, CreateEstimateDto),
       Post(<<":id", "send">>, Writers, Loose),
       Post(<<":id", "accept">>, Writers, Loose) >>)

EstimatesFromRejectEstimate == At(<<"estimates">>, "feature.journal",
    << Post(<<":id", "reject">>, Writers, Loose),
       Post(<<":id", "convert-to-invoice">>, Writers, Loose),
       Exports(Get(<<":id", "pdf">>, Analysts)),
       Delete(<<":id">>, Admins) >>)

ExpensesController == At(<<"expenses">>, "feature.journal",
    << Get(<<>>, Anyone),
       Post(<<"batch">>, Writers, Loose),
       Get(<<"summary">>, Analysts),
       Get(<<":id">>, Anyone),
       Post(<<>>, Writers, CreateExpenseDto),
       Put(<<":id">>, Writers, UpdateExpenseDto),
       Post(<<":id", "approve">>, Writers, Loose),
       Post(<<":id", "post">>, Writers, PostExpenseDto),
       Post(<<":id", "void">>, Admins, Loose) >>)

FixedAssetsController == At(<<"fixed-assets">>, "feature.journal",
    << Get(<<>>, Anyone),
       Get(<<":id">>, Anyone),
       Post(<<>>, Writers, CreateFixedAssetDto),
       Put(<<":id">>, Writers, Loose),
       Get(<<":id", "depreciation-schedule">>, Anyone),
       Post(<<"run-depreciation">>, Admins, Loose) >>)

FixedAssetsFromDispose == At(<<"fixed-assets">>, "feature.journal",
    << Post(<<":id", "dispose">>, Admins, DisposeAssetDto),
       Get(<<"reports", "fixed-assets">>, Anyone) >>)

MaintenanceController == At(<<"maintenance">>, "feature.journal",
    << Get(<<>>, Anyone),
       Get(<<"upcoming">>, Anyone),
       Get(<<"overdue">>, Anyone),
       Get(<<":id">>, Anyone),
       Post(<<>>, Writers, CreateMaintenanceDto),
       Put(<<":id">>, Writers, Loose),
       Get(<<"schedules">>, Anyone) >>)

MaintenanceFromFindOneSchedule == At(<<"maintenance">>, "feature.journal",
    << Get(<<"schedules", ":id">>, Anyone),
       Post(<<"schedules">>, Writers, CreateMaintenanceScheduleDto),
       Put(<<"schedules", ":id">>, Writers, Loose),
       Post(<<"schedules", ":id", "generate">>, Writers, Loose) >>)

HealthController == At(<<>>, "none",
    << Get(<<"health">>, Public),
       Get(<<"ready">>, Public) >>)

InventoryController == At(<<"inventory">>, "feature.journal",
    << Get(<<"products">>, Anyone),
       Post(<<"products", "import-csv">>, Writers, Loose),
       Get(<<"products", "export-csv">>, Analysts),
       Get(<<"products", "low-stock">>, Anyone),
       Get(<<"products", ":id">>, Anyone),
       Get(<<"products", ":id", "stock">>, Anyone),
       Get(<<"products", ":id", "transactions">>, Anyone) >>)

InventoryFromCreateProduct == At(<<"inventory">>, "feature.journal",
    << Post(<<"products">>, Writers, CreateProductDto),
       Put(<<"products", ":id">>, Writers, UpdateProductDto),
       Get(<<"inventory-locations">>, Anyone),
       Get(<<"inventory-locations", ":id">>, Anyone),
       Post(<<"inventory-locations">>, Writers, Loose),
       Put(<<"inventory-locations", ":id">>, Writers, Loose),
       Get(<<"inventory-adjustments">>, Anyone) >>)

InventoryFromCreateAdjustment == At(<<"inventory">>, "feature.journal",
    << Post(<<"inventory-adjustments">>, Writers, CreateAdjustmentDto),
       Post(<<"inventory-adjustments", ":id", "post">>, Writers, Loose),
       Get(<<"inventory-transfers">>, Anyone),
       Post(<<"inventory-transfers">>, Writers, CreateTransferDto),
       Post(<<"inventory-transfers", ":id", "complete">>, Writers, Loose),
       Get(<<"reports", "inventory-valuation">>, Anyone),
       Get(<<"reports", "stock-status">>, Anyone) >>)

InvitationsController == At(<<>>, "none",
    << Post(<<"invitations">>, Admins, CreateInvitationDto),
       Get(<<"invitations">>, Anyone),
       Delete(<<"invitations", ":id">>, Admins),
       Get(<<"invitations", ":token", "info">>, Public),
       Silent(Post(<<"invitations", ":token", "accept">>, Public, AcceptInvitationDto)),
       Get(<<"users", "external">>, Anyone),
       Put(<<"users", ":id", "access">>, Admins, UpdateAccessDto),
       Post(<<"users", ":id", "revoke-access">>, Admins, Loose) >>)

InvoicesController == At(<<"invoices">>, "feature.journal",
    << Get(<<>>, Anyone),
       Post(<<"batch">>, Writers, Loose),
       Get(<<"export-csv">>, Analysts),
       Get(<<":id">>, Anyone),
       Post(<<>>, Writers, CreateInvoiceDto),
       Put(<<":id">>, Writers, UpdateInvoiceDto) >>)

InvoicesFromSendInvoice == At(<<"invoices">>, "feature.journal",
    << Post(<<":id", "send">>, Writers, Loose),
       Post(<<":id", "pay">>, Writers, PayInvoiceDto),
       Post(<<":id", "void">>, Admins, Loose),
       Post(<<":id", "payment-link">>, Writers, Loose),
       Get(<<":id", "payment-status">>, Analysts),
       Exports(Get(<<":id", "pdf">>, Analysts)) >>)

JobCostingController == At(<<"job-costing">>, "feature.journal",
    << Get(<<"cost-codes">>, Anyone),
       Get(<<"cost-codes", ":id">>, Anyone),
       Post(<<"cost-codes">>, Writers, CreateCostCodeDto),
       Put(<<"cost-codes", ":id">>, Writers, Loose),
       Delete(<<"cost-codes", ":id">>, Admins),
       Get(<<"job-cost-entries">>, Anyone),
       Get(<<"job-cost-entries", ":id">>, Anyone),
       Post(<<"job-cost-entries">>, Writers, CreateJobCostEntryDto),
       Put(<<"job-cost-entries", ":id">>, Writers, Loose),
       Delete(<<"job-cost-entries", ":id">>, Admins),
       Get(<<"projects", ":id", "cost-summary">>, Analysts) >>)

JobCostingFromGetEarnedValue == At(<<"job-costing">>, "feature.journal",
    << Get(<<"projects", ":id", "earned-value">>, Analysts),
       Get(<<"unit-price-items">>, Anyone),
       Get(<<"unit-price-items", ":id">>, Anyone),
       Post(<<"unit-price-items">>, Writers, Loose),
       Put(<<"unit-price-items", ":id">>, Writers, Loose),
       Delete(<<"unit-price-items", ":id">>, Admins),
       Post(<<"projects", ":id", "update-quantities">>, Writers, Loose),
       Get(<<"change-orders">>, Anyone),
       Get(<<"change-orders", ":id">>, Anyone),
       Post(<<"change-orders">>, Writers, CreateChangeOrderDto),
       Put(<<"change-orders", ":id">>, Writers, Loose),
       Post(<<"change-orders", ":id", "approve">>, Admins, Loose) >>)

JobCostingFromDeleteChangeOrder == At(<<"job-costing">>, "feature.journal",
    << Delete(<<"change-orders", ":id">>, Admins),
       Get(<<"progress-billings">>, Anyone),
       Get(<<"progress-billings", ":id">>, Anyone),
       Post(<<"progress-billings">>, Writers, CreateProgressBillingDto),
       Put(<<"progress-billings", ":id">>, Writers, Loose),
       Post(<<"progress-billings", ":id", "submit">>, Writers, Loose),
       Post(<<"progress-billings", ":id", "approve">>, Admins, Loose),
       Post(<<"progress-billings", ":id", "create-invoice">>, Admins, Loose),
       Delete(<<"progress-billings", ":id">>, Admins),
       Get(<<"reports", "job-cost-detail">>, Analysts),
       Get(<<"reports", "wip">>, Analysts),
       Get(<<"reports", "unit-price-summary">>, Analysts) >>)

JournalController == At(<<"journal-entries">>, "feature.journal",
    << Get(<<>>, Anyone),
       Get(<<"trial-balance">>, Analysts),
       Exports(Get(<<"export">>, Analysts)),
       Get(<<":id">>, Anyone),
       Post(<<>>, Writers, CreateJournalEntryDto),
       Post(<<":id", "post">>, Writers, Loose),
       Post(<<":id", "void">>, Admins, VoidJournalEntryDto) >>)

ManufacturingController == At(<<"manufacturing">>, "feature.journal",
    << Get(<<"bom">>, Anyone),
       Get(<<"bom", ":id">>, Anyone),
       Post(<<"bom">>, Writers, CreateBomDto),
       Put(<<"bom", ":id">>, Writers, CreateBomDto),
       Delete(<<"bom", ":id">>, Admins),
       Get(<<"bom", ":id", "cost-estimate">>, Anyone) >>)

ManufacturingFromFindAllWorkOrders == At(<<"manufacturing">>, "feature.journal",
    << Get(<<"work-orders">>, Anyone),
       Get(<<"work-orders", ":id">>, Anyone),
       Post(<<"work-orders">>, Writers, CreateWorkOrderDto),
       Post(<<"work-orders", ":id", "release">>, Writers, Loose),
       Post(<<"work-orders", ":id", "start">>, Writers, Loose),
       Post(<<"work-orders", ":id", "record-materials">>, Writers, RecordMaterialsDto) >>)

ManufacturingFromRecordLabor == At(<<"manufacturing">>, "feature.journal",
    << Post(<<"work-orders", ":id", "record-labor">>, Writers, RecordLaborDto),
       Post(<<"work-orders", ":id", "complete">>, Writers, CompleteWorkOrderDto),
       Post(<<"work-orders", ":id", "cancel">>, Admins, Loose),
       Get(<<"reports", "production-cost">>, Analysts),
       Get(<<"reports", "bom-cost-analysis">>, Analysts) >>)

MileageController == At(<<>>, "feature.journal",
    << Get(<<"recurring-expenses">>, Anyone),
       Get(<<"recurring-expenses", ":id">>, Anyone),
       Post(<<"recurring-expenses">>, Writers, CreateRecurringExpenseDto),
       Put(<<"recurring-expenses", ":id">>, Writers, Loose),
       Delete(<<"recurring-expenses", ":id">>, Admins),
       Get(<<"mileage-entries">>, Anyone),
       Get(<<"mileage-entries", ":id">>, Anyone),
       Post(<<"mileage-entries">>, Writers, CreateMileageEntryDto),
       Put(<<"mileage-entries", ":id">>, Writers, Loose),
       Delete(<<"mileage-entries", ":id">>, Admins),
       Post(<<"mileage-entries", ":id", "create-expense">>, Writers, Loose) >>)

MileageFromGetMileageSummary == At(<<>>, "feature.journal",
    << Get(<<"reports", "mileage-summary">>, Analysts) >>)

NotificationsController == At(<<"notifications">>, "feature.journal",
    << Get(<<>>, Anyone),
       Get(<<"unread-count">>, Anyone),
       Silent(Post(<<":id", "read">>, Anyone, Loose)),
       Silent(Post(<<"read-all">>, Anyone, Loose)) >>)

PayrollController == At(<<"payroll">>, "feature.journal",
    << Get(<<"employees">>, Anyone),
       Get(<<"employees", "active">>, Anyone),
       Get(<<"employees", ":id">>, Anyone),
       Post(<<"employees">>, Writers, CreateEmployeeDto),
       Put(<<"employees", ":id">>, Writers, UpdateEmployeeDto),
       Post(<<"payroll-runs">>, Writers, CreatePayrollRunDto) >>)

PayrollFromFindAllPayrollRuns == At(<<"payroll">>, "feature.journal",
    << Get(<<"payroll-runs">>, Anyone),
       Get(<<"payroll-runs", ":id">>, Anyone),
       Post(<<"payroll-runs", ":id", "calculate">>, Writers, Loose),
       Put(<<"payroll-runs", ":id", "items", ":itemId">>, Writers, Loose),
       Post(<<"payroll-runs", ":id", "approve">>, Admins, Loose),
       Post(<<"payroll-runs", ":id", "post">>, Admins, Loose),
       Get(<<"payroll-deduction-types">>, Anyone),
       Get(<<"payroll-deduction-types", ":id">>, Anyone) >>)

PayrollFromCreateDeductionType == At(<<"payroll">>, "feature.journal",
    << Post(<<"payroll-deduction-types">>, Admins, Loose),
       Put(<<"payroll-deduction-types", ":id">>, Admins, Loose),
       Delete(<<"payroll-deduction-types", ":id">>, Admins),
       Get(<<"employee-deductions", ":employeeId">>, Anyone),
       Post(<<"employee-deductions">>, Writers, Loose),
       Put(<<"employee-deductions", ":id">>, Writers, Loose),
       Delete(<<"employee-deductions", ":id">>, Writers) >>)

PayrollFromGetPayrollSummaryReport == At(<<"payroll">>, "feature.journal",
    << Get(<<"reports", "payroll-summary">>, Analysts) >>)

PostingRulesController == At(<<"posting-rules">>, "feature.journal",
    << Get(<<>>, Writers),
       Post(<<"process">>, Writers, ProcessEventDto) >>)

ProjectReportsController == At(<<"reports">>, "feature.journal",
    << Get(<<"project-profitability">>, Analysts),
       Get(<<"time-summary">>, Analysts) >>)

ProjectsController == At(<<"projects">>, "feature.journal",
    << Get(<<>>, Anyone),
       Get(<<":id">>, Anyone),
       Post(<<>>, Writers, CreateProjectDto),
       Put(<<":id">>, Writers, UpdateProjectDto),
       Delete(<<":id">>, Admins),
       Get(<<":id", "profitability">>, Analysts),
       Get(<<":id", "time-entries">>, Anyone),
       Get(<<":id", "expenses">>, Anyone),
       Post(<<":id", "link-expense">>, Writers, Loose),
       Delete(<<":id", "unlink-expense", ":expenseId">>, Writers) >>)

TimeTrackingController == At(<<"time-entries">>, "feature.journal",
    << Get(<<>>, Anyone),
       Get(<<":id">>, Anyone),
       Post(<<>>, Writers, CreateTimeEntryDto),
       Put(<<":id">>, Writers, CreateTimeEntryDto),
       Delete(<<":id">>, Writers),
       Post(<<"start-timer">>, Writers, Loose),
       Post(<<"stop-timer">>, Writers, Loose),
       Post(<<":id", "approve">>, Writers, Loose),
       Post(<<"bill">>, Writers, Loose) >>)

PurchaseOrdersController == At(<<"purchase-orders">>, "feature.journal",
    << Get(<<>>, Anyone),
       Get(<<":id">>, Anyone),
       Post(<<>>, Writers, CreatePoDto),
       Put(<<":id">>, Writers, UpdatePoDto),
       Post(<<":id", "approve">>, Writers, Loose),
       Post(<<":id", "send">>, Writers, Loose) >>)

PurchaseOrdersFromReceive == At(<<"purchase-orders">>, "feature.journal",
    << Post(<<":id", "receive">>, Writers, ReceivePoDto),
       Post(<<":id", "cancel">>, Admins, Loose),
       Exports(Get(<<":id", "pdf">>, Analysts)),
       Post(<<":id", "create-expense">>, Writers, Loose) >>)

RecurringInvoicesController == At(<<"recurring-invoices">>, "feature.journal",
    << Post(<<>>, Writers, CreateRecurringInvoiceDto),
       Get(<<>>, Anyone),
       Get(<<"due">>, Writers),
       Get(<<":id">>, Anyone),
       Put(<<":id">>, Writers, CreateRecurringInvoiceDto),
       Post(<<":id", "pause">>, Writers, Loose),
       Post(<<":id", "resume">>, Writers, Loose) >>)

RecurringInvoicesFromGenerateNow == At(<<"recurring-invoices">>, "feature.journal",
    << Post(<<":id", "generate-now">>, Writers, Loose),
       Delete(<<":id">>, Admins) >>)

ReportsController == At(<<"reports">>, "feature.journal",
    << Get(<<"dashboard-kpis">>, Analysts),
       Get(<<"balance-sheet">>, Analysts),
       Exports(Get(<<"balance-sheet", "export">>, Analysts)),
       Get(<<"income-statement">>, Analysts),
       Exports(Get(<<"income-statement", "export">>, Analysts)),
       Get(<<"cash-flow">>, Analysts),
       Exports(Get(<<"cash-flow", "export">>, Analysts)) >>)

ReportsFromGetExecutiveDashboard == At(<<"reports">>, "feature.journal",
    << Get(<<"dashboard", "executive">>, Anyone),
       Get(<<"aged-receivables">>, Analysts),
       Get(<<"aged-receivables", "export">>, Analysts),
       Get(<<"aged-payables">>, Analysts),
       Get(<<"aged-payables", "export">>, Analysts),
       Get(<<"trial-balance">>, Analysts),
       Get(<<"trial-balance", "export">>, Analysts),
       Get(<<"balance-sheet", "export-pdf">>, Analysts) >>)

ReportsFromIncomeStatementPdf == At(<<"reports">>, "feature.journal",
    << Get(<<"income-statement", "export-pdf">>, Analysts),
       Get(<<"cash-flow", "export-pdf">>, Analysts),
       Get(<<"trial-balance", "export-pdf">>, Analysts),
       Get(<<"aged-receivables", "export-pdf">>, Analysts) >>)

ReportsFromAgedPayablesPdf == At(<<"reports">>, "feature.journal",
    << Get(<<"aged-payables", "export-pdf">>, Analysts),
       Get(<<"financial-ratios">>, Analysts),
       Get(<<"1099-summary">>, Analysts),
       Exports(Get(<<"1099-summary", "export">>, Analysts)) >>)

SettingsController == At(<<"settings">>, "none",
    << Get(<<>>, Analysts),
       Put(<<>>, Admins, UpdateSettingsDto),
       Post(<<"logo">>, Admins, UploadLogoDto),
       Delete(<<"logo">>, Admins),
       Put(<<"invoice-template">>, Admins, UpdateInvoiceTemplateDto),
       Put(<<"stripe">>, Owner, UpdateStripeDto) >>)

TaxController == At(<<"tax-rates">>, "feature.journal",
    << Get(<<>>, Anyone),
       Get(<<"default">>, Anyone),
       Get(<<":id">>, Anyone),
       Post(<<>>, Writers, CreateTaxRateDto),
       Silent(Post(<<"calculate">>, Anyone, CalculateTaxDto)),
       Put(<<":id">>, Writers, UpdateTaxRateDto),
       Delete(<<":id">>, Admins) >>)

TaxFromSeed == At(<<"tax-rates">>, "feature.journal",
    << Post(<<"seed">>, Admins, Loose) >>)

TrackingController == At(<<"tracking-dimensions">>, "feature.accounts",
    << Get(<<>>, Anyone),
       Get(<<"active">>, Anyone),
       Get(<<":id">>, Anyone),
       Post(<<>>, Writers, CreateDimensionDto),
       Put(<<":id">>, Writers, Loose),
       Delete(<<":id">>, Admins),
       Post(<<":id", "values">>, Writers, CreateValueDto) >>)

TrackingValuesController == At(<<"tracking-values">>, "feature.accounts",
    << Put(<<":id">>, Writers, Loose),
       Delete(<<":id">>, Admins) >>)

StripeWebhookController == At(<<"webhooks", "stripe">>, "none",
    << Silent(Post(<<>>, Public, Loose)) >>)

WebhooksController == At(<<"webhooks">>, "feature.journal",
    << Get(<<>>, Admins),
       Get(<<":id">>, Admins),
       Post(<<>>, Admins, CreateWebhookDto),
       Put(<<":id">>, Admins, UpdateWebhookDto),
       Delete(<<":id">>, Admins) >>)

(* Every route, in an order in which the server tries them: within a       *)
(* controller the order of its methods; no two controllers share an        *)
(* address.                                                                *)
Routes ==
    AccountsController \o AdminController \o AdminFromExportTrialBalance
    \o ApiKeysController \o AuthController \o LoginController \o MfaController
    \o RegisterController \o BankRulesController \o BankAccountApplyRulesController
    \o BankAccountsController \o PlaidController \o BankTransactionsController
    \o BillsController \o BillsFromApprove \o BudgetsController \o ChartOfAccountsController
    \o PortalAdminController \o PortalController \o CompanyGroupsController
    \o ContactsController \o ContactsFromRemove \o CreditNotesController
    \o CreditNotesFromVoidCreditNote \o CrmController \o CrmFromFindOneOpportunity
    \o CrmFromFindAllActivities \o CurrenciesController \o CustomFieldsController
    \o DataExportController \o DocumentTemplatesController \o TierController
    \o EquipmentController \o EquipmentFromDeleteUsage \o EstimatesController
    \o EstimatesFromRejectEstimate \o ExpensesController \o FixedAssetsController
    \o FixedAssetsFromDispose \o MaintenanceController \o MaintenanceFromFindOneSchedule
    \o HealthController \o InventoryController \o InventoryFromCreateProduct
    \o InventoryFromCreateAdjustment \o InvitationsController \o InvoicesController
    \o InvoicesFromSendInvoice \o JobCostingController \o JobCostingFromGetEarnedValue
    \o JobCostingFromDeleteChangeOrder \o JournalController \o ManufacturingController
    \o ManufacturingFromFindAllWorkOrders \o ManufacturingFromRecordLabor
    \o MileageController \o MileageFromGetMileageSummary \o NotificationsController
    \o PayrollController \o PayrollFromFindAllPayrollRuns \o PayrollFromCreateDeductionType
    \o PayrollFromGetPayrollSummaryReport \o PostingRulesController
    \o ProjectReportsController \o ProjectsController \o TimeTrackingController
    \o PurchaseOrdersController \o PurchaseOrdersFromReceive \o RecurringInvoicesController
    \o RecurringInvoicesFromGenerateNow \o ReportsController
    \o ReportsFromGetExecutiveDashboard \o ReportsFromIncomeStatementPdf
    \o ReportsFromAgedPayablesPdf \o SettingsController \o TaxController \o TaxFromSeed
    \o TrackingController \o TrackingValuesController \o StripeWebhookController
    \o WebhooksController

-----------------------------------------------------------------------------
(* How a request is answered before its handler runs.  In the path of a    *)
(* request "#" stands for a segment that is a number.                      *)
Matches(pattern, path) ==
    /\ Len(pattern) = Len(path)
    /\ \A i \in DOMAIN path : pattern[i] \in {path[i]} \cup Parameters

\* The routes an address and a verb could reach; the server takes the first.
Candidates(verb, path) ==
    {i \in DOMAIN Routes : Routes[i].verb = verb /\ Matches(Routes[i].path, path)}

First(candidates) == CHOOSE i \in candidates : \A j \in candidates : i <= j

Allowed(route, role, features) ==
    role \in route.who /\ route.feature \in features \cup {"none"}

\* ParseIntPipe on the ids, ValidationPipe on the body.
Readable(route, path, body) ==
    /\ \A i \in DOMAIN path : route.path[i] \in Ids => path[i] = "#"
    /\ Fits(route.body, body)

Answer(verb, path, body, role, features) ==
    LET found == Candidates(verb, path) IN
    IF found = {} THEN "noRoute"
    ELSE LET route == Routes[First(found)] IN
         IF ~Allowed(route, role, features) THEN "forbidden"
         ELSE IF ~Readable(route, path, body) THEN "invalid"
         ELSE "handled"

\* Whether the handler of a request leaves an audit_log row.
Logs(verb, path) ==
    LET found == Candidates(verb, path) IN found # {} /\ Routes[First(found)].logged

=============================================================================
