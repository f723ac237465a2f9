-------------------------------- MODULE Pages --------------------------------
(***************************************************************************)
(* What the pages of the web client send: the buttons of a page, when it   *)
(* offers them, and the request behind each, with the body as JSON leaves  *)
(* it.  A field that is undefined is not sent; a field a page always sends *)
(* is in "needs", one it sends only when it is filled in is in "may".      *)
(* The request paths of the client have "#" for a number; queries and the  *)
(* /api/v1 prefix are left out.                                            *)
(***************************************************************************)
EXTENDS Routes, TLC

(* A date box bound to a text: left blank it sends the text "".            *)
DayBox == [kind |-> "daybox"]

SentKind(field, filled) ==
    IF field = DayBox THEN IF filled THEN Day ELSE Text ELSE field

SentFields(form, filled) ==
    [f \in DOMAIN form.needs \cup (IF filled THEN DOMAIN form.may ELSE {}) |->
        SentKind(Field(form, f), filled)]

(* The body a form sends, with every optional box blank or filled in.      *)
Sends(form, filled) ==
    [f \in DOMAIN SentFields(form, filled) |->
        LET field == SentFields(form, filled)[f] IN
        IF field.kind = "list" THEN List(SentFields(field.entry, filled)) ELSE field]

Blank == Body(Nothing, Nothing)

Press(name, when, verb, path, form) ==
    [name |-> name, when |-> when, verb |-> verb, path |-> path, form |-> form]

(* A page: the request it loads with (<<>> for none), whether its buttons  *)
(* are disabled while a request is on its way, the buttons, and whether a  *)
(* button that succeeds closes what was shown instead of loading it again. *)
Page(loads, disables, presses) ==
    [loads |-> loads, disables |-> disables, presses |-> presses, closes |-> FALSE]

(* A button of a document's page that posts to an address below it.        *)
Act(base, name, when, form) == Press(name, when, "POST", base \o <<"#", name>>, form)

(* A page that only creates: its boxes, and one button.                    *)
Form(path, needs, may) ==
    Page(<<>>, TRUE, {Press("save", {"none"}, "POST", path, Body(needs, may))})

-----------------------------------------------------------------------------
(* The pages of a document.                                                *)
\* Fault: a voided invoice keeps its void button.
InvoicePageFault ==
    LET base == <<"invoices">> IN
    Page(<<"invoices", "#">>, TRUE,
         {Act(base, "send", {"draft"}, Blank),
          Act(base, "void", {"draft", "sent", "paid", "voided"}, Blank)})

InvoicePage ==
    LET base == <<"invoices">> IN
    Page(<<"invoices", "#">>, TRUE,
         {Act(base, "send", {"draft"}, Blank),
          Act(base, "pay", {"draft", "sent"},
              Body([paid_date |-> Day, paid_amount |-> Number], [fiscal_period_id |-> Number])),
          Act(base, "void", {"draft", "sent", "paid"}, Blank)})

BillPage ==
    LET base == <<"bills">> IN
    Page(<<"bills", "#">>, TRUE,
         {Act(base, "receive", {"draft"}, Blank),
          Act(base, "approve", {"received"}, Blank),
          Act(base, "pay", {"approved", "received"},
              Body([paid_date |-> Day, amount |-> Number, method |-> Text], Nothing)),
          Act(base, "void", {"draft", "received", "approved", "partial"}, Blank)})

CreditNotePage ==
    LET base == <<"credit-notes">> IN
    Page(<<"credit-notes", "#">>, TRUE,
         {Act(base, "issue", {"draft"}, Blank),
          Act(base, "apply", {"issued"}, Blank),
          Act(base, "void", {"draft", "issued", "applied"}, Blank)})

EstimatePage ==
    LET base == <<"estimates">> IN
    Page(<<"estimates", "#">>, TRUE,
         {Act(base, "send", {"draft"}, Blank),
          Act(base, "accept", {"sent"}, Blank),
          Act(base, "reject", {"sent"}, Blank),
          Act(base, "convert", {"accepted"}, Blank)})

\* The period of a posting is always 1.
ExpensesPage ==
    LET base == <<"expenses">> IN
    Page(<<"expenses">>, FALSE,
         {Act(base, "approve", {"pending"}, Blank),
          Act(base, "post", {"pending", "approved"}, Body([fiscal_period_id |-> Number], Nothing)),
          Act(base, "void", {"pending", "approved", "posted"}, Blank)})

\* A draft that is approved is still a draft in the row; approved_by tells.
PurchaseOrderPage ==
    LET base == <<"purchase-orders">> IN
    Page(<<"purchase-orders", "#">>, TRUE,
         {Act(base, "approve", {"draft"}, Blank),
          Act(base, "send", {"approved draft"}, Blank),
          Act(base, "receive", {"sent", "partial"},
              Body([receipt_date |-> Day,
                    lines |-> List(Body([po_line_id |-> Number, quantity_received |-> Number],
                                        Nothing))], Nothing)),
          Act(base, "cancel", {"draft", "approved draft"}, Blank)})

WorkOrderPage ==
    LET base == <<"manufacturing", "work-orders">> IN
    Page(<<"manufacturing", "work-orders", "#">>, TRUE,
         {Act(base, "release", {"draft"}, Blank),
          Act(base, "start", {"released"}, Blank),
          Act(base, "cancel", {"draft", "released", "in_progress"}, Blank)}
         \cup {Act(base, step, {"in_progress"}, Blank) :
                 step \in {"record-materials", "record-labor", "complete"}})

JournalPage ==
    LET base == <<"journal-entries">> IN
    [Page(<<"journal-entries", "#">>, FALSE,
          {Act(base, "post", {"draft"}, Blank),
           Act(base, "void", {"posted"}, Body([reason |-> Text], Nothing))})
     EXCEPT !.closes = TRUE]

RecurringInvoicesPage ==
    LET base == <<"recurring-invoices">> IN
    Page(<<"recurring-invoices">>, FALSE,
         {Act(base, "pause", {"active"}, Blank),
          Act(base, "resume", {"paused"}, Blank),
          Act(base, "generate", {"active", "paused"}, Blank)})

\* Win and lose are offered whatever became of the deal.
OpportunityPage ==
    LET base == <<"crm", "opportunities">>
        any == {"open", "won", "lost"} IN
    Page(<<"crm", "opportunities", "#">>, FALSE,
         {Act(base, "win", any, Blank),
          Act(base, "lose", any, Blank),
          Act(base, "move", any, Body([stage_id |-> Number], Nothing)),
          Act(base, "activities", any,
              Body([type |-> Text, title |-> Text, description |-> Text, date |-> DayBox],
                   Nothing))})

FixedAssetPage ==
    LET base == <<"fixed-assets">>
        any == {"active", "fully_depreciated", "disposed"} IN
    Page(<<"fixed-assets", "#">>, FALSE,
         {Act(base, "run-depreciation", any, Blank),
          Act(base, "dispose", any, Blank)})

BankAccountPage ==
    LET base == <<"bank-transactions">> IN
    Page(<<"bank-accounts", "#", "transactions">>, FALSE,
         {Act(base, "reconcile", {"unreconciled"}, Blank),
          Act(base, "unreconcile", {"reconciled"}, Blank)})

-----------------------------------------------------------------------------
(* The pages that create a document.                                       *)
ItemLine == [description |-> Text, quantity |-> Number, unit_price |-> Number]

NewInvoicePage ==
    Form(<<"invoices">>,
         [customer_name |-> Text, issue_date |-> Day, due_date |-> Day, tax_rate |-> Number,
          shipping_amount |-> Number, discount_type |-> Text, discount_value |-> Number,
          lines |-> List(Body(ItemLine, [account_id |-> Number, product_id |-> Number]))],
         [customer_email |-> Text, customer_address |-> Text, notes |-> Text,
          contact_id |-> Number, tax_rate_id |-> Number, project_id |-> Number,
          internal_memo |-> Text, po_number |-> Text, payment_terms |-> Text])

NewBillPage ==
    Form(<<"bills">>,
         [vendor_id |-> Number, bill_number |-> Text, bill_date |-> Day,
          lines |-> List(Body(ItemLine, [account_id |-> Number]))],
         [vendor_ref |-> Text, due_date |-> Day, purchase_order_id |-> Number, notes |-> Text])

NewCreditNotePage ==
    Form(<<"credit-notes">>,
         [customer_id |-> Number, reason |-> Text, issue_date |-> Day, tax_rate |-> Number,
          lines |-> List(Body(ItemLine, Nothing))],
         [invoice_id |-> Number, notes |-> Text])

NewEstimatePage ==
    Form(<<"estimates">>,
         [customer_name |-> Text, issue_date |-> Day, expiration_date |-> Day,
          tax_rate |-> Number, lines |-> List(Body(ItemLine, Nothing))],
         [customer_email |-> Text, customer_address |-> Text, notes |-> Text])

NewExpensePage ==
    Form(<<"expenses">>,
         [date |-> Day, vendor_name |-> Text, category |-> Text, account_id |-> Number,
          amount |-> Number],
         [payment_account_id |-> Number, payment_method |-> Text, bank_account_id |-> Number,
          description |-> Text, reference |-> Text, project_id |-> Number, billable |-> Flag,
          receipt_url |-> Text])

NewPurchaseOrderPage ==
    Form(<<"purchase-orders">>,
         [vendor_name |-> Text, order_date |-> Day, tax_rate |-> Number, shipping_cost |-> Number,
          lines |-> List(Body([description |-> Text, quantity_ordered |-> Number,
                               unit_price |-> Number], Nothing))],
         [contact_id |-> Number, expected_delivery_date |-> Day, notes |-> Text])

NewRecurringInvoicePage ==
    Form(<<"recurring-invoices">>,
         [template_name |-> Text, customer_name |-> Text, frequency |-> Text,
          next_run_date |-> Day, tax_rate |-> Number, auto_send |-> Flag,
          lines |-> List(Body(ItemLine, Nothing))],
         [contact_id |-> Number, end_date |-> Day, notes |-> Text])

NewRecurringExpensePage ==
    Form(<<"recurring-expenses">>,
         [vendor_id |-> Number, description |-> Text, amount |-> Number, frequency |-> Text,
          start_date |-> Day],
         [account_id |-> Number, category |-> Text, end_date |-> Day])

NewMileagePage ==
    Form(<<"mileage">>,
         [date |-> Day, description |-> Text, distance |-> Number, rate |-> Number,
          round_trip |-> Flag],
         [project_id |-> Number, vehicle |-> Text])

NewJournalEntryPage ==
    Form(<<"journal-entries">>,
         [fiscal_period_id |-> Number,
          lines |-> List(Body([account_id |-> Number, debit |-> Number, credit |-> Number],
                              Nothing))],
         [reference |-> Text, memo |-> Text])

NewBudgetPage ==
    Form(<<"budgets">>,
         [name |-> Text, fiscal_year |-> Number, period_type |-> Text,
          lines |-> List(Body([account_id |-> Number, period_start |-> Day, period_end |-> Day,
                               amount |-> Number], Nothing))],
         Nothing)

(* The addresses of a customer are kept as the billing ones unless the box *)
(* is cleared, and then the shipping lines go out even when blank.         *)
NewContactPage ==
    Form(<<"contacts">>,
         [type |-> Text, first_name |-> Text, shipping_line1 |-> Text, shipping_line2 |-> Text,
          shipping_city |-> Text, shipping_state |-> Text, shipping_zip |-> Text,
          shipping_country |-> Text],
         [last_name |-> Text, middle_name |-> Text, prefix |-> Text, company_name |-> Text,
          job_title |-> Text, email |-> Text, secondary_email |-> Text, phone |-> Text,
          mobile |-> Text, fax |-> Text, website |-> Text, address_line1 |-> Text,
          address_line2 |-> Text, city |-> Text, state |-> Text, zip |-> Text, country |-> Text,
          payment_terms |-> Text, credit_limit |-> Number, account_number |-> Text,
          tax_id |-> Text, notes |-> Text, tags |-> Texts, source |-> Text])

NewProjectPage ==
    Form(<<"projects">>,
         [name |-> Text, budget_type |-> Text, budget_amount |-> Number],
         [contact_id |-> Number, description |-> Text, hourly_rate |-> Number,
          start_date |-> Day, end_date |-> Day, notes |-> Text])

NewTimeEntryPage ==
    Form(<<"time-entries">>,
         [project_id |-> Number, date |-> Day, duration_minutes |-> Number, billable |-> Flag],
         [start_time |-> Text, end_time |-> Text, description |-> Text, hourly_rate |-> Number])

NewCostCodePage ==
    Form(<<"cost-codes">>, [code |-> Text, name |-> Text, category |-> Text],
         [unit |-> Text, default_cost |-> Number, parent_id |-> Number])

NewProductPage ==
    Form(<<"products">>,
         [product_type |-> Text, sku |-> Text, name |-> Text, unit_of_measure |-> Text,
          sale_price |-> Number],
         [description |-> Text, category |-> Text, purchase_price |-> Number,
          costing_method |-> Text, track_lots |-> Flag, track_serials |-> Flag,
          revenue_account_id |-> Number, cogs_account_id |-> Number,
          inventory_account_id |-> Number, expense_account_id |-> Number,
          reorder_point |-> Number, reorder_quantity |-> Number])

NewAdjustmentPage ==
    Form(<<"inventory", "adjustments">>,
         [date |-> Day, reason |-> Text,
          lines |-> List(Body([product_id |-> Number, location_id |-> Number,
                               qty_on_hand |-> Number, qty_counted |-> Number,
                               unit_cost |-> Number], Nothing))],
         Nothing)

NewTransferPage ==
    Form(<<"inventory", "transfers">>,
         [from_location_id |-> Number, to_location_id |-> Number,
          lines |-> List(Body([product_id |-> Number, quantity |-> Number], Nothing))],
         Nothing)

NewLocationPage ==
    Form(<<"inventory", "locations">>, [name |-> Text, is_default |-> Flag], [address |-> Text])

NewBomPage ==
    Form(<<"manufacturing", "bom">>,
         [name |-> Text, product_id |-> Number, version |-> Text, yield_quantity |-> Number,
          components |-> List(Body([product_id |-> Text, quantity |-> Number,
                                    waste_pct |-> Number, cost_per_unit |-> Number], Nothing)),
          labor |-> List(Body([description |-> Text, hours |-> Number, rate |-> Number], Nothing)),
          overhead |-> List(Body([description |-> Text, type |-> Text, amount |-> Number],
                                 Nothing))],
         Nothing)

NewWorkOrderPage ==
    Form(<<"manufacturing", "work-orders">>,
         [bom_id |-> Number, quantity |-> Number, priority |-> Text],
         [start_date |-> Day, due_date |-> Day, location |-> Text, notes |-> Text])

NewOpportunityPage ==
    Form(<<"crm", "opportunities">>,
         [title |-> Text, value |-> Number, currency |-> Text, expected_close_date |-> DayBox,
          source |-> Text, notes |-> Text, assigned_to |-> Text],
         [contact_id |-> Number, pipeline_id |-> Number, stage_id |-> Number])

NewEmployeePage ==
    Form(<<"employees">>,
         [first_name |-> Text, last_name |-> Text, email |-> Text, phone |-> Text,
          address |-> Text, ssn_last4 |-> Text, hire_date |-> Day, pay_type |-> Text,
          pay_rate |-> Number, pay_frequency |-> Text, department |-> Text, position |-> Text,
          federal_filing_status |-> Text, federal_allowances |-> Number,
          state_filing_status |-> Text, state_allowances |-> Number],
         Nothing)

NewPayrollPage ==
    Form(<<"payroll">>, [period_start |-> Day, period_end |-> Day, pay_date |-> Day],
         [notes |-> Text])

NewFixedAssetPage ==
    Form(<<"fixed-assets">>,
         [name |-> Text, description |-> Text, category |-> Text, serial_number |-> Text,
          location |-> Text, purchase_date |-> DayBox, purchase_price |-> Number,
          salvage_value |-> Number, useful_life_months |-> Number, depreciation_method |-> Text],
         [asset_account_id |-> Number, depreciation_account_id |-> Number,
          expense_account_id |-> Number])

NewMaintenancePage ==
    Form(<<"maintenance">>,
         [asset_id |-> Number, type |-> Text, title |-> Text, description |-> Text,
          scheduled_date |-> DayBox, cost |-> Number, assigned_to |-> Text],
         Nothing)

NewMaintenanceSchedulePage ==
    Form(<<"maintenance", "schedules">>,
         [asset_id |-> Number, title |-> Text, frequency |-> Text, next_due_date |-> DayBox],
         Nothing)

NewEquipmentPage ==
    Form(<<"equipment">>, [name |-> Text, category |-> Text, status |-> Text],
         [make |-> Text, model |-> Text, serial_number |-> Text, year |-> Number,
          hourly_rate |-> Number, daily_rate |-> Number, monthly_rate |-> Number])

NewBankAccountPage ==
    Form(<<"bank-accounts">>, [name |-> Text, account_id |-> Number],
         [institution |-> Text, account_number_last4 |-> Text])

ImportCsvPage == Form(<<"bank-accounts", "#", "import-csv">>, [csv |-> Text], Nothing)

NewBankRulePage ==
    Form(<<"banking", "rules">>,
         [name |-> Text, priority |-> Number, account_id |-> Number, auto_approve |-> Flag,
          conditions |-> List(Body([field |-> Text, operator |-> Text, value |-> Text], Nothing))],
         Nothing)

NewTaxRatePage ==
    Form(<<"settings", "tax-rates">>,
         [name |-> Text, jurisdiction |-> Text, rate |-> Number, is_compound |-> Flag,
          is_default |-> Flag,
          components |-> List(Body([name |-> Text, rate |-> Number, jurisdiction_level |-> Text],
                                   Nothing))],
         [effective_date |-> Day])

-----------------------------------------------------------------------------
(* The pages of the books, the members and the settings: several buttons,  *)
(* none of which looks at a status.                                        *)
Saves(name, verb, path, needs, may) == Press(name, {"none"}, verb, path, Body(needs, may))

AccountsPage ==
    Page(<<"accounts">>, TRUE,
         {Saves("create", "POST", <<"accounts">>,
                [chart_id |-> Number, account_code |-> Text, name |-> Text, account_type |-> Text],
                Nothing),
          Saves("saveEdit", "PATCH", <<"accounts", "#">>, [name |-> Text], Nothing)})

ChartOfAccountsPage ==
    LET chart == <<"chart-of-accounts">> IN
    Page(chart, TRUE,
         {Saves("create", "POST", chart, [name |-> Text], [description |-> Text]),
          Saves("saveEdit", "PATCH", chart \o <<"#">>, [name |-> Text], [description |-> Text])})

PostingRulesPage ==
    Page(<<"posting-rules">>, TRUE,
         {Saves("process", "POST", <<"posting-rules", "process">>,
                [event_type |-> Text, amount |-> Number, fiscal_period_id |-> Number],
                [reference |-> Text])})

AdminPage ==
    Page(<<"admin", "users">>, TRUE,
         {Saves("createUser", "POST", <<"admin", "users">>,
                [external_subject |-> Text, display_name |-> Text], [email |-> Text]),
          Saves("createMembership", "POST", <<"admin", "memberships">>,
                [user_id |-> Number, role |-> Text], Nothing),
          Saves("setLock", "PATCH", <<"admin", "lock-date">>, Nothing, [lock_date |-> Day]),
          Saves("setPassword", "POST", <<"admin", "users", "#", "set-password">>,
                [password |-> Text], Nothing)})

InvitePage ==
    Form(<<"invitations">>, [email |-> Text, role |-> Text, user_type |-> Text],
         [expires_in_days |-> Number, external_type |-> Text, message |-> Text,
          permissions |-> Object])

AcceptInvitePage ==
    Form(<<"invitations", "t", "accept">>,
         [first_name |-> Text, last_name |-> Text, password |-> Text], Nothing)

LoginPage ==
    Page(<<>>, TRUE,
         {Saves("login", "POST", <<"auth", "login">>,
                [email |-> Text, password |-> Text, tenant_id |-> Number], Nothing),
          Saves("code", "POST", <<"auth", "mfa", "validate">>,
                [mfa_session_token |-> Text, token |-> Text], Nothing),
          Saves("backupCode", "POST", <<"auth", "mfa", "validate">>,
                [mfa_session_token |-> Text, backup_code |-> Text], Nothing)})

RegisterPage ==
    Form(<<"auth", "register">>,
         [company_name |-> Text, first_name |-> Text, last_name |-> Text, email |-> Text,
          password |-> Text],
         Nothing)

SecurityPage ==
    Page(<<"auth", "context">>, TRUE,
         {Saves("startSetup", "POST", <<"auth", "mfa", "setup">>, Nothing, Nothing),
          Saves("verifySetup", "POST", <<"auth", "mfa", "verify-setup">>, [token |-> Text], Nothing),
          Saves("disableMfa", "POST", <<"auth", "mfa", "disable">>,
                [token |-> Text, password |-> Text], Nothing)})

OnboardingPage ==
    Form(<<"onboarding">>,
         [company_name |-> Text, address |-> Text, phone |-> Text, email |-> Text,
          fiscal_start_month |-> Number, currency |-> Text, industry |-> Text],
         [bank |-> Object])

CompaniesPage ==
    LET groups == <<"settings", "company-groups">> IN
    Page(groups, TRUE,
         {Saves("createGroup", "POST", groups, [name |-> Text], Nothing),
          Saves("addTenant", "POST", groups \o <<"#", "tenants">>,
                [tenant_id |-> Number, role |-> Text], Nothing),
          Saves("removeTenant", "POST", groups \o <<"#", "tenants", "#", "remove">>,
                Nothing, Nothing)})

NotificationsPage ==
    Page(<<"notifications">>, FALSE,
         {Saves("markRead", "POST", <<"notifications", "#", "read">>, Nothing, Nothing),
          Saves("markAllRead", "POST", <<"notifications", "read-all">>, Nothing, Nothing)})

(* The columns the pages keep in their state, and send back, come with     *)
(* those that no form shows: id and tenant_id.                             *)
Row == [id |-> Number, tenant_id |-> Number]

SettingsPage ==
    LET all == UpdateSettingsDto.may IN
    Page(<<"settings">>, TRUE,
         {Saves("save", "PUT", <<"settings">>, Row @@ all, Nothing),
          Saves("handleLogoUpload", "POST", <<"settings", "logo">>, [logo_base64 |-> Text], Nothing),
          Saves("removeLogo", "DELETE", <<"settings", "logo">>, Nothing, Nothing),
          Saves("saveInvoiceTemplate", "PUT", <<"settings", "invoice-template">>,
                [invoice_template |-> Text, invoice_color_primary |-> Text,
                 invoice_color_secondary |-> Text, show_logo_on_invoice |-> Flag,
                 show_company_address |-> Flag, show_tax_id |-> Flag],
                [invoice_footer_text |-> Text, invoice_payment_terms |-> Text,
                 invoice_notes_default |-> Text]),
          Saves("saveStripe", "PUT", <<"settings", "stripe">>, [payment_enabled |-> Flag],
                [stripe_publishable_key |-> Text, stripe_secret_key |-> Text,
                 stripe_webhook_secret |-> Text]),
          Saves("savePaymentMethods", "PUT", <<"settings">>,
                [payment_instructions |-> Text, bank_name |-> Text, bank_routing_last4 |-> Text,
                 bank_account_last4 |-> Text, paypal_email |-> Text, venmo_handle |-> Text,
                 zelle_phone |-> Text], Nothing),
          Saves("savePlaid", "PUT", <<"settings">>, [plaid_environment |-> Text],
                [plaid_client_id |-> Text, plaid_secret |-> Text])})

TemplatesPage ==
    LET templates == <<"document-templates">>
        shown == CreateTemplateDto.may IN
    Page(templates, TRUE,
         {Saves("saveNew", "POST", templates, CreateTemplateDto.needs @@ shown, Nothing),
          Saves("saveEdit", "PUT", templates \o <<"#">>,
                Row @@ CreateTemplateDto.needs @@ shown, Nothing),
          Saves("deleteTemplate", "DELETE", templates \o <<"#">>, Nothing, Nothing),
          Saves("setDefault", "PUT", templates \o <<"#">>, [is_default |-> Flag], Nothing)})

-----------------------------------------------------------------------------
Pages ==
    [invoice |-> InvoicePage, bill |-> BillPage, creditNote |-> CreditNotePage,
     estimate |-> EstimatePage, expenses |-> ExpensesPage,
     purchaseOrder |-> PurchaseOrderPage, workOrder |-> WorkOrderPage,
     journal |-> JournalPage, recurringInvoices |-> RecurringInvoicesPage,
     opportunity |-> OpportunityPage, fixedAsset |-> FixedAssetPage,
     bankAccount |-> BankAccountPage, newInvoice |-> NewInvoicePage,
     newBill |-> NewBillPage, newCreditNote |-> NewCreditNotePage,
     newEstimate |-> NewEstimatePage, newExpense |-> NewExpensePage,
     newPurchaseOrder |-> NewPurchaseOrderPage,
     newRecurringInvoice |-> NewRecurringInvoicePage,
     newRecurringExpense |-> NewRecurringExpensePage, newMileage |-> NewMileagePage,
     newJournalEntry |-> NewJournalEntryPage, newBudget |-> NewBudgetPage,
     newContact |-> NewContactPage, newProject |-> NewProjectPage,
     newTimeEntry |-> NewTimeEntryPage, newCostCode |-> NewCostCodePage,
     newProduct |-> NewProductPage, newAdjustment |-> NewAdjustmentPage,
     newTransfer |-> NewTransferPage, newLocation |-> NewLocationPage,
     newBom |-> NewBomPage, newWorkOrder |-> NewWorkOrderPage,
     newOpportunity |-> NewOpportunityPage, newEmployee |-> NewEmployeePage,
     newPayroll |-> NewPayrollPage, newFixedAsset |-> NewFixedAssetPage,
     newMaintenance |-> NewMaintenancePage,
     newMaintenanceSchedule |-> NewMaintenanceSchedulePage,
     newEquipment |-> NewEquipmentPage, newBankAccount |-> NewBankAccountPage,
     importCsv |-> ImportCsvPage, newBankRule |-> NewBankRulePage,
     newTaxRate |-> NewTaxRatePage, accounts |-> AccountsPage,
     chartOfAccounts |-> ChartOfAccountsPage, postingRules |-> PostingRulesPage,
     admin |-> AdminPage, invite |-> InvitePage, acceptInvite |-> AcceptInvitePage,
     login |-> LoginPage, register |-> RegisterPage, security |-> SecurityPage,
     onboarding |-> OnboardingPage, companies |-> CompaniesPage,
     notifications |-> NotificationsPage, settings |-> SettingsPage,
     templates |-> TemplatesPage]
==============================================================================
