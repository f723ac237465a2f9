------------------------------- MODULE Bodies -------------------------------
(***************************************************************************)
(* The request bodies the server accepts: one definition per DTO class.    *)
(* The global ValidationPipe (whitelist, forbidNonWhitelisted, no implicit *)
(* conversion) refuses a body that lacks a required field, that has a      *)
(* field the class does not name, or whose field is of another JSON type.  *)
(* Lengths, ranges and fixed choices of a field are left out: the pages    *)
(* send values inside them.  A body is a function from its fields to what  *)
(* they hold.                                                              *)
(***************************************************************************)
EXTENDS Naturals

(* What a field holds.  A day is the text of an ISO date; Items is a list  *)
(* of anything, List(class) a list of objects with a class of their own.   *)
Text   == [kind |-> "text"]
Day    == [kind |-> "day"]
Number == [kind |-> "number"]
Flag   == [kind |-> "flag"]
Texts  == [kind |-> "texts"]
Items  == [kind |-> "items"]
Object == [kind |-> "object"]
List(class) == [kind |-> "list", entry |-> class]

Nothing == [f \in {} |-> Text]

Body(needs, may) == [needs |-> needs, may |-> may, open |-> FALSE]

(* A handler whose parameter has no class (an inline type, a Partial<..>,  *)
(* a Record) or that reads no body: nothing is validated.                  *)
Loose == [needs |-> Nothing, may |-> Nothing, open |-> TRUE]

Named(body) == DOMAIN body.needs \cup DOMAIN body.may

Field(body, f) == IF f \in DOMAIN body.needs THEN body.needs[f] ELSE body.may[f]

Takes(want, given) ==
    \/ want.kind = given.kind
    \/ want.kind = "text" /\ given.kind = "day"
    \/ want.kind = "items" /\ given.kind \in {"list", "texts"}

(* One object against one class, its nested lists aside.                   *)
FitsFlat(body, sent) ==
    /\ DOMAIN body.needs \subseteq DOMAIN sent
    /\ DOMAIN sent \subseteq Named(body)
    /\ \A f \in DOMAIN sent : Takes(Field(body, f), sent[f])

Fits(body, sent) ==
    \/ body.open
    \/ /\ FitsFlat(body, sent)
       /\ \A f \in DOMAIN sent :
             Field(body, f).kind = "list" => FitsFlat(Field(body, f).entry, sent[f].entry)


(* accounts *)
CreateAccountDto ==
    Body([chart_id |-> Number, account_code |-> Text, name |-> Text, account_type |-> Text],
         [parent_account_id |-> Number])
UpdateAccountDto ==
    Body(Nothing,
         [name |-> Text, is_active |-> Flag, parent_account_id |-> Number])

(* admin *)
CreateMembershipDto == Body([user_id |-> Number, role |-> Text], Nothing)
CreateUserDto == Body([external_subject |-> Text, display_name |-> Text], [email |-> Text])
SetLockDateDto == Body(Nothing, [lock_date |-> Day])
UpdateMembershipDto == Body(Nothing, [role |-> Text, is_active |-> Flag])

(* api-keys *)
CreateApiKeyDto == Body([name |-> Text, permissions |-> Texts], Nothing)

(* auth *)
LoginDto == Body([email |-> Text, password |-> Text], [tenant_id |-> Number])
MfaValidateDto == Body([mfa_session_token |-> Text], [token |-> Text, backup_code |-> Text])
MfaTokenDto == Body([token |-> Text], Nothing)
MfaDisableDto == Body([token |-> Text, password |-> Text], Nothing)
RegisterDto ==
    Body([company_name |-> Text, first_name |-> Text, last_name |-> Text, email |-> Text,
          password |-> Text],
         Nothing)

(* bank-rules *)
RuleConditionDto == Body([field |-> Text, operator |-> Text, value |-> Text], Nothing)
CreateBankRuleDto ==
    Body([name |-> Text, priority |-> Number, conditions |-> List(RuleConditionDto),
          action_account_id |-> Number],
         [action_contact_id |-> Number, action_category |-> Text, action_memo |-> Text,
          auto_approve |-> Flag])

(* banking *)
CreateBankAccountDto ==
    Body([name |-> Text, account_id |-> Number],
         [institution |-> Text, account_number_last4 |-> Text, currency |-> Text])
CreateBankTransactionDto ==
    Body([date |-> Day, description |-> Text, amount |-> Number, type |-> Text],
         [reference |-> Text, notes |-> Text])
ImportCsvDto == Body([csv |-> Text], Nothing)
ReconcileTransactionDto ==
    Body(Nothing,
         [journal_entry_id |-> Number, fiscal_period_id |-> Number])
UpdateBankAccountDto ==
    Body(Nothing,
         [name |-> Text, account_id |-> Number, institution |-> Text,
          account_number_last4 |-> Text, currency |-> Text])

(* bills *)
BillLineDto ==
    Body([description |-> Text, quantity |-> Number, unit_price |-> Number, account_id |-> Number],
         Nothing)
CreateBillDto ==
    Body([contact_id |-> Number, date |-> Day, due_date |-> Day, lines |-> List(BillLineDto)],
         [vendor_bill_number |-> Text, tax_rate |-> Number, notes |-> Text,
          purchase_order_id |-> Number])
PayBillDto ==
    Body([payment_date |-> Day, amount |-> Number, payment_method |-> Text],
         [bank_account_id |-> Number, reference |-> Text])

(* budgets *)
BudgetLineDto ==
    Body([account_id |-> Number, period_start |-> Day, period_end |-> Day,
          budgeted_amount |-> Number],
         [notes |-> Text])
CreateBudgetDto ==
    Body([name |-> Text, fiscal_year |-> Number, period_type |-> Text,
          lines |-> List(BudgetLineDto)],
         [notes |-> Text])
UpdateBudgetDto ==
    Body(Nothing,
         [name |-> Text, fiscal_year |-> Number, period_type |-> Text, notes |-> Text,
          status |-> Text, lines |-> List(BudgetLineDto)])

(* chart-of-accounts *)
CreateChartDto == Body([name |-> Text], [description |-> Text])
UpdateChartDto == Body(Nothing, [name |-> Text, description |-> Text, is_active |-> Flag])

(* contacts *)
CreateContactDto ==
    Body([type |-> Text, first_name |-> Text],
         [company_name |-> Text, last_name |-> Text, email |-> Text, phone |-> Text,
          address_line1 |-> Text, address_line2 |-> Text, city |-> Text, state |-> Text,
          zip |-> Text, country |-> Text, tax_id |-> Text, notes |-> Text,
          default_revenue_account_id |-> Number, default_expense_account_id |-> Number])
UpdateContactDto ==
    Body(Nothing,
         [type |-> Text, company_name |-> Text, first_name |-> Text, last_name |-> Text,
          email |-> Text, phone |-> Text, address_line1 |-> Text, address_line2 |-> Text,
          city |-> Text, state |-> Text, zip |-> Text, country |-> Text, tax_id |-> Text,
          notes |-> Text, default_revenue_account_id |-> Number,
          default_expense_account_id |-> Number])

(* credit-notes *)
CreditNoteLineDto ==
    Body([description |-> Text, quantity |-> Number, unit_price |-> Number],
         [account_id |-> Number])
CreateCreditNoteDto ==
    Body([contact_id |-> Number, reason |-> Text, date |-> Day, lines |-> List(CreditNoteLineDto)],
         [invoice_id |-> Number, tax_rate |-> Number, notes |-> Text])

(* crm *)
CreateActivityDto ==
    Body([opportunity_id |-> Number, type |-> Text, title |-> Text, date |-> Day],
         [description |-> Text, completed |-> Flag])
CreateOpportunityDto ==
    Body([title |-> Text, pipeline_id |-> Number, stage_id |-> Number, value |-> Number],
         [contact_id |-> Number, probability |-> Number, expected_close_date |-> Day,
          notes |-> Text, assigned_to |-> Text])
PipelineStageDto == Body([name |-> Text, sort_order |-> Number], [probability |-> Number])
CreatePipelineDto ==
    Body([name |-> Text, stages |-> List(PipelineStageDto)],
         [description |-> Text])
MoveOpportunityDto == Body([stage_id |-> Number], Nothing)
UpdateActivityDto ==
    Body(Nothing,
         [type |-> Text, subject |-> Text, description |-> Text, activity_date |-> Day,
          duration_minutes |-> Number, status |-> Text])
UpdateOpportunityDto ==
    Body(Nothing,
         [name |-> Text, pipeline_id |-> Number, stage_id |-> Number, contact_id |-> Number,
          value |-> Number, probability |-> Number, expected_close_date |-> Day, notes |-> Text,
          assigned_to |-> Text])
UpdatePipelineDto ==
    Body(Nothing,
         [name |-> Text, description |-> Text, is_active |-> Flag,
          stages |-> List(PipelineStageDto)])

(* currencies *)
CreateExchangeRateDto ==
    Body([from_currency |-> Text, to_currency |-> Text, rate |-> Number, effective_date |-> Day],
         Nothing)
UpdateExchangeRateDto ==
    Body(Nothing,
         [from_currency |-> Text, to_currency |-> Text, rate |-> Number, effective_date |-> Day])

(* custom-fields *)
CreateCustomFieldDto ==
    Body([entity_type |-> Text, field_name |-> Text, field_label |-> Text, field_type |-> Text],
         [select_options |-> Texts, is_required |-> Flag, sort_order |-> Number])

(* document-templates *)
CreateTemplateDto ==
    Body([document_type |-> Text],
         [name |-> Text, layout |-> Text, primary_color |-> Text, secondary_color |-> Text,
          font |-> Text, show_logo |-> Flag, show_company_address |-> Flag,
          show_company_phone |-> Flag, show_company_email |-> Flag, show_tax_id |-> Flag,
          header_text |-> Text, footer_text |-> Text, terms_text |-> Text, notes_text |-> Text,
          show_payment_link |-> Flag, show_due_date |-> Flag, show_po_number |-> Flag,
          paper_size |-> Text, is_default |-> Flag])
UpdateTemplateDto ==
    Body(Nothing, [f \in Named(CreateTemplateDto) |-> Field(CreateTemplateDto, f)])

(* entitlements *)
InternalAssignTierDto == Body([tenant_id |-> Number, tier_id |-> Number], Nothing)

(* equipment *)
CreateEquipmentUsageDto ==
    Body([equipment_id |-> Number, date |-> Day, hours |-> Number],
         [project_id |-> Number, rate_override |-> Number, operator |-> Text, notes |-> Text])
CreateEquipmentDto ==
    Body([name |-> Text],
         [description |-> Text, category |-> Text, make |-> Text, model |-> Text,
          serial_number |-> Text, purchase_date |-> Day, purchase_cost |-> Number,
          hourly_rate |-> Number])

(* estimates *)
EstimateLineDto ==
    Body([description |-> Text, quantity |-> Number, unit_price |-> Number],
         [account_id |-> Number])
CreateEstimateDto ==
    Body([customer_name |-> Text, issue_date |-> Day, expiration_date |-> Day,
          lines |-> List(EstimateLineDto)],
         [customer_email |-> Text, contact_id |-> Number, tax_rate |-> Number, notes |-> Text])

(* expenses *)
CreateExpenseDto ==
    Body([date |-> Day, vendor_name |-> Text, category |-> Text, account_id |-> Number,
          amount |-> Number],
         [payment_account_id |-> Number, description |-> Text, reference |-> Text])
PostExpenseDto == Body([fiscal_period_id |-> Number], [payment_account_id |-> Number])
UpdateExpenseDto ==
    Body(Nothing,
         [date |-> Day, vendor_name |-> Text, category |-> Text, account_id |-> Number,
          payment_account_id |-> Number, amount |-> Number, description |-> Text,
          reference |-> Text])

(* fixed-assets *)
CreateFixedAssetDto ==
    Body([name |-> Text, category |-> Text, purchase_date |-> Day, purchase_price |-> Number,
          useful_life_months |-> Number, depreciation_method |-> Text, asset_account_id |-> Number,
          depreciation_expense_account_id |-> Number,
          accumulated_depreciation_account_id |-> Number],
         [description |-> Text, serial_number |-> Text, location |-> Text,
          salvage_value |-> Number, notes |-> Text])
CreateMaintenanceScheduleDto ==
    Body([fixed_asset_id |-> Number, title |-> Text, frequency |-> Text, next_due_date |-> Day],
         [description |-> Text])
CreateMaintenanceDto ==
    Body([fixed_asset_id |-> Number, maintenance_type |-> Text, title |-> Text,
          scheduled_date |-> Day],
         [description |-> Text, cost |-> Number, vendor_contact_id |-> Number,
          assigned_to |-> Text, notes |-> Text])
DisposeAssetDto == Body([disposal_date |-> Day, disposal_price |-> Number], Nothing)

(* inventory *)
AdjustmentLineDto ==
    Body([product_id |-> Number, location_id |-> Number, qty_on_hand |-> Number,
          qty_counted |-> Number, unit_cost |-> Number],
         [lot_id |-> Number])
CreateAdjustmentDto ==
    Body([date |-> Day, lines |-> List(AdjustmentLineDto)],
         [reason |-> Text])
CreateProductDto ==
    Body([sku |-> Text, name |-> Text, type |-> Text],
         [description |-> Text, category |-> Text, costing_method |-> Text,
          unit_of_measure |-> Text, sale_price |-> Number, purchase_price |-> Number,
          revenue_account_id |-> Number, cogs_account_id |-> Number,
          inventory_account_id |-> Number, expense_account_id |-> Number, reorder_point |-> Number,
          reorder_quantity |-> Number, is_active |-> Flag, track_lots |-> Flag,
          track_serials |-> Flag])
TransferLineDto ==
    Body([product_id |-> Number, quantity |-> Number],
         [lot_id |-> Number, serial_number |-> Text])
CreateTransferDto ==
    Body([from_location_id |-> Number, to_location_id |-> Number, date |-> Day,
          lines |-> List(TransferLineDto)],
         [notes |-> Text])
UpdateProductDto ==
    Body(Nothing,
         [sku |-> Text, name |-> Text, description |-> Text, category |-> Text, type |-> Text,
          costing_method |-> Text, unit_of_measure |-> Text, sale_price |-> Number,
          purchase_price |-> Number, revenue_account_id |-> Number, cogs_account_id |-> Number,
          inventory_account_id |-> Number, expense_account_id |-> Number, reorder_point |-> Number,
          reorder_quantity |-> Number, is_active |-> Flag, track_lots |-> Flag,
          track_serials |-> Flag])

(* invitations *)
CreateInvitationDto ==
    Body([email |-> Text, role |-> Text, user_type |-> Text],
         [external_type |-> Text, permissions |-> Object, message |-> Text,
          expires_in_days |-> Number])
AcceptInvitationDto ==
    Body([first_name |-> Text, last_name |-> Text, password |-> Text],
         Nothing)
UpdateAccessDto == Body(Nothing, [can_export_data |-> Flag, access_expires_at |-> Text])

(* invoices *)
InvoiceLineDto ==
    Body([description |-> Text, quantity |-> Number, unit_price |-> Number],
         [account_id |-> Number, product_id |-> Number])
CreateInvoiceDto ==
    Body([customer_name |-> Text, issue_date |-> Day, due_date |-> Day,
          lines |-> List(InvoiceLineDto)],
         [customer_email |-> Text, customer_address |-> Text, tax_rate |-> Number, notes |-> Text,
          contact_id |-> Number, tax_rate_id |-> Number, project_id |-> Number,
          internal_memo |-> Text, po_number |-> Text, payment_terms |-> Text,
          shipping_amount |-> Number, discount_type |-> Text, discount_value |-> Number])
PayInvoiceDto ==
    Body([paid_date |-> Day, paid_amount |-> Number],
         [fiscal_period_id |-> Number, cash_account_id |-> Number])
UpdateInvoiceDto ==
    Body(Nothing,
         [customer_name |-> Text, customer_email |-> Text, customer_address |-> Text,
          issue_date |-> Day, due_date |-> Day, tax_rate |-> Number, notes |-> Text,
          lines |-> List(InvoiceLineDto)])

(* job-costing *)
CreateChangeOrderDto ==
    Body([project_id |-> Number, title |-> Text, date |-> Day, amount |-> Number],
         [description |-> Text, cost_code_id |-> Number])
CreateCostCodeDto ==
    Body([code |-> Text, name |-> Text],
         [description |-> Text, parent_id |-> Number])
CreateJobCostEntryDto ==
    Body([project_id |-> Number, cost_code_id |-> Number, date |-> Day, source_type |-> Text,
          quantity |-> Number, unit_cost |-> Number, total_cost |-> Number],
         [description |-> Text, unit |-> Text, budgeted_quantity |-> Number,
          budgeted_cost |-> Number, source_id |-> Number, reference |-> Text])
ProgressBillingLineDto ==
    Body([description |-> Text, amount |-> Number],
         [cost_code_id |-> Number, retention_percent |-> Number])
CreateProgressBillingDto ==
    Body([project_id |-> Number, billing_date |-> Day, lines |-> List(ProgressBillingLineDto)],
         [notes |-> Text])

(* journal *)
JournalLineDto ==
    Body([account_id |-> Number, debit |-> Number, credit |-> Number],
         [description |-> Text])
CreateJournalEntryDto ==
    Body([fiscal_period_id |-> Number, lines |-> List(JournalLineDto)],
         [reference |-> Text, memo |-> Text])
VoidJournalEntryDto == Body([reason |-> Text], Nothing)

(* manufacturing *)
CompleteWorkOrderDto == Body([quantity_produced |-> Number], [quantity_scrapped |-> Number])
BomLineDto ==
    Body([component_product_id |-> Number, quantity_required |-> Number],
         [unit_of_measure |-> Text, waste_percentage |-> Number, cost_per_unit |-> Number,
          notes |-> Text])
BomLaborDto ==
    Body([description |-> Text, hours_required |-> Number, hourly_rate |-> Number],
         Nothing)
BomOverheadDto ==
    Body([description |-> Text, cost_type |-> Text, amount |-> Number],
         Nothing)
CreateBomDto ==
    Body([product_id |-> Number, name |-> Text, lines |-> List(BomLineDto)],
         [version |-> Text, yield_quantity |-> Number, notes |-> Text, labor |-> List(BomLaborDto),
          overhead |-> List(BomOverheadDto)])
CreateWorkOrderDto ==
    Body([bom_id |-> Number, product_id |-> Number, quantity_to_produce |-> Number],
         [priority |-> Text, scheduled_start |-> Day, scheduled_end |-> Day,
          location_id |-> Number, notes |-> Text, assigned_to |-> Text])
LaborLineDto ==
    Body([description |-> Text, hours_worked |-> Number, hourly_rate |-> Number],
         [employee_id |-> Number])
RecordLaborDto == Body([date |-> Day, lines |-> List(LaborLineDto)], Nothing)
MaterialLineDto ==
    Body([product_id |-> Number, quantity_used |-> Number, unit_cost |-> Number],
         Nothing)
RecordMaterialsDto == Body([date |-> Day, lines |-> List(MaterialLineDto)], Nothing)

(* mileage *)
CreateMileageEntryDto ==
    Body([date |-> Day, miles |-> Number],
         [rate_per_mile |-> Number, purpose |-> Text, from_location |-> Text, to_location |-> Text,
          project_id |-> Number, account_id |-> Number, vehicle |-> Text])
CreateRecurringExpenseDto ==
    Body([name |-> Text, account_id |-> Number, amount |-> Number, frequency |-> Text,
          start_date |-> Day],
         [description |-> Text, payment_account_id |-> Number, end_date |-> Day,
          vendor_name |-> Text, category |-> Text])

(* payroll *)
CreateEmployeeDto ==
    Body([first_name |-> Text, last_name |-> Text, hire_date |-> Day, pay_type |-> Text,
          pay_rate |-> Number, pay_frequency |-> Text, federal_filing_status |-> Text],
         [email |-> Text, phone |-> Text, address |-> Text, ssn_last4 |-> Text,
          department |-> Text, position |-> Text, federal_allowances |-> Number,
          state_filing_status |-> Text, state_allowances |-> Number, contact_id |-> Number])
CreatePayrollRunDto ==
    Body([pay_period_start |-> Day, pay_period_end |-> Day, pay_date |-> Day],
         [notes |-> Text])
UpdateEmployeeDto ==
    Body(Nothing,
         [first_name |-> Text, last_name |-> Text, email |-> Text, phone |-> Text,
          address |-> Text, ssn_last4 |-> Text, hire_date |-> Day, pay_type |-> Text,
          pay_rate |-> Number, pay_frequency |-> Text, department |-> Text, position |-> Text,
          federal_filing_status |-> Text, federal_allowances |-> Number,
          state_filing_status |-> Text, state_allowances |-> Number, contact_id |-> Number,
          status |-> Text, termination_date |-> Day])

(* posting-rules *)
ProcessEventDto ==
    Body([event_type |-> Text, amount |-> Number, fiscal_period_id |-> Number],
         [reference |-> Text, idempotency_key |-> Text])

(* projects *)
CreateProjectDto ==
    Body([name |-> Text],
         [contact_id |-> Number, description |-> Text, budget_type |-> Text,
          budget_amount |-> Number, hourly_rate |-> Number, start_date |-> Day, end_date |-> Day,
          notes |-> Text])
CreateTimeEntryDto ==
    Body([project_id |-> Number],
         [employee_id |-> Number, date |-> Day, start_time |-> Text, end_time |-> Text,
          duration_minutes |-> Number, description |-> Text, billable |-> Flag,
          hourly_rate |-> Number])
UpdateProjectDto ==
    Body(Nothing,
         [name |-> Text, contact_id |-> Number, description |-> Text, budget_type |-> Text,
          budget_amount |-> Number, hourly_rate |-> Number, start_date |-> Day, end_date |-> Day,
          status |-> Text, notes |-> Text])

(* purchase-orders *)
PoLineDto ==
    Body([description |-> Text, quantity_ordered |-> Number, unit_price |-> Number],
         [account_id |-> Number])
CreatePoDto ==
    Body([vendor_name |-> Text, order_date |-> Day, lines |-> List(PoLineDto)],
         [contact_id |-> Number, expected_delivery_date |-> Day, tax_rate |-> Number,
          shipping_cost |-> Number, notes |-> Text, shipping_address |-> Text])
ReceiptLineDto == Body([po_line_id |-> Number, quantity_received |-> Number], Nothing)
ReceivePoDto ==
    Body([receipt_date |-> Day, lines |-> List(ReceiptLineDto)],
         [notes |-> Text, fiscal_period_id |-> Number])
UpdatePoDto ==
    Body(Nothing,
         [contact_id |-> Number, vendor_name |-> Text, order_date |-> Day,
          expected_delivery_date |-> Day, tax_rate |-> Number, shipping_cost |-> Number,
          notes |-> Text, shipping_address |-> Text, lines |-> List(PoLineDto)])

(* recurring-invoices *)
RecurringInvoiceLineDto ==
    Body([description |-> Text, quantity |-> Number, unit_price |-> Number],
         [account_id |-> Number])
CreateRecurringInvoiceDto ==
    Body([customer_name |-> Text, template_name |-> Text, frequency |-> Text,
          next_run_date |-> Day, lines |-> List(RecurringInvoiceLineDto)],
         [contact_id |-> Number, end_date |-> Day, tax_rate |-> Number, notes |-> Text,
          auto_send |-> Flag])

(* settings *)
UpdateInvoiceTemplateDto ==
    Body(Nothing,
         [invoice_template |-> Text, invoice_color_primary |-> Text,
          invoice_color_secondary |-> Text, invoice_footer_text |-> Text,
          invoice_payment_terms |-> Text, invoice_notes_default |-> Text,
          show_logo_on_invoice |-> Flag, show_company_address |-> Flag, show_tax_id |-> Flag])
UpdateSettingsDto ==
    Body(Nothing,
         [company_name |-> Text, company_email |-> Text, company_phone |-> Text,
          company_address_line1 |-> Text, company_address_line2 |-> Text, company_city |-> Text,
          company_state |-> Text, company_zip |-> Text, company_country |-> Text, tax_id |-> Text,
          fiscal_year_start_month |-> Number, default_currency |-> Text, invoice_prefix |-> Text,
          invoice_next_number |-> Number, expense_prefix |-> Text, expense_next_number |-> Number])
UpdateStripeDto ==
    Body(Nothing,
         [stripe_publishable_key |-> Text, stripe_secret_key |-> Text,
          stripe_webhook_secret |-> Text, payment_enabled |-> Flag,
          accepted_payment_methods |-> Texts])
UploadLogoDto == Body([logo_base64 |-> Text], Nothing)

(* tax *)
CalculateTaxDto == Body([subtotal |-> Number, tax_rate_id |-> Number], Nothing)
TaxRateComponentDto ==
    Body([name |-> Text, rate |-> Number, jurisdiction_level |-> Text],
         Nothing)
CreateTaxRateDto ==
    Body([name |-> Text, jurisdiction |-> Text, rate |-> Number, effective_date |-> Day],
         [is_compound |-> Flag, is_default |-> Flag, description |-> Text, expiration_date |-> Day,
          components |-> List(TaxRateComponentDto)])
UpdateTaxRateDto ==
    Body(Nothing,
         [name |-> Text, jurisdiction |-> Text, rate |-> Number, is_compound |-> Flag,
          is_default |-> Flag, description |-> Text, effective_date |-> Day,
          expiration_date |-> Day, components |-> List(TaxRateComponentDto)])

(* tracking *)
CreateDimensionDto == Body([name |-> Text], Nothing)
CreateValueDto == Body([value |-> Text], [sort_order |-> Number])

(* webhooks *)
CreateWebhookDto ==
    Body([url |-> Text, events |-> Texts],
         [secret |-> Text, description |-> Text])
UpdateWebhookDto ==
    Body(Nothing,
         [url |-> Text, events |-> Texts, description |-> Text, is_active |-> Flag])
=============================================================================
